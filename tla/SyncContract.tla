---------------------------- MODULE SyncContract ----------------------------
(***************************************************************************)
(* What dashsync promises about one dashboard file, with no word about how *)
(* a merge goes about it (package comment of merge.go, ADR 002, README):   *)
(*  - what a human wrote stays, in its group and in its order, and groups  *)
(*    are only ever added, at the end;                                     *)
(*  - the managed entries become exactly the desired services, except that *)
(*    the default policy keeps a hand-edited one and that the "fail"       *)
(*    policy refuses to touch anything while there is one.                 *)
(*                                                                         *)
(* managed is a set of [group, id, body] and edited, a subset of it, the   *)
(* entries a human changed since dashsync wrote them.                      *)
(***************************************************************************)
EXTENDS Sequences, SequencesExt

VARIABLES page,      \* Seq([name, hand]): each group's hand-written entries
          managed, edited, services, actor, policy

vars == <<page, managed, edited, services, actor, policy>>

Wanted == {[group |-> s.group, id |-> s.id, body |-> s.body] : s \in services}

Same(m, n) == m.group = n.group /\ m.id = n.id

\* The hand-edited entries the policy has to decide about.
InConflict == {m \in edited : \E w \in Wanted : Same(m, w)}

Kept == IF policy' = "preserve" THEN InConflict ELSE {}

HandWrittenStays ==
  /\ IsPrefix(page, page')
  /\ \A i \in DOMAIN page' \ DOMAIN page : page'[i].hand = <<>>

Synced ==
  /\ actor' = "sync"
  /\ policy' = "fail" => InConflict = {}
  /\ HandWrittenStays
  /\ managed' = Kept \cup {w \in Wanted : \A k \in Kept : ~Same(k, w)}
  /\ edited' = Kept \cup (InConflict \cap Wanted)
  /\ UNCHANGED services

\* A run that cannot read the file, or may not touch it, changes nothing.
Refused ==
  /\ actor' = "refused"
  /\ UNCHANGED <<page, managed, edited, services>>

\* Humans edit the file as they like; containers come and go.
HumanOrDocker ==
  \/ actor' = "human" /\ UNCHANGED services
  \/ actor' = "docker" /\ UNCHANGED <<page, managed, edited>>

Init == managed = {} /\ edited = {}

Next == Synced \/ Refused \/ HumanOrDocker

Spec == Init /\ [][Next]_vars
=============================================================================
