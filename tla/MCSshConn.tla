------------------------------ MODULE MCSshConn ------------------------------
(***************************************************************************)
(* Instances of SshConn: two lines of stderr are enough for an error that  *)
(* carries some of them and not all.                                       *)
(***************************************************************************)
EXTENDS SshConn
==============================================================================
