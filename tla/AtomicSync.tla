----------------------------- MODULE AtomicSync -----------------------------
(***************************************************************************)
(* What `sync --output-path` is meant to look like from outside: the file  *)
(* is replaced in one step by the merge of what it holds at that moment    *)
(* with one answer Docker really gave, keeping its permissions; a power    *)
(* cut may take the last replacement back; and nothing but a human does    *)
(* anything else to it.  No locks, no temporary files, no backups and no   *)
(* runs to be seen.                                                        *)
(***************************************************************************)
CONSTANTS Contents, Views, Modes, DefaultMode, NoFile, Merged(_, _), Refuses(_, _)

VARIABLES path,   \* NoFile or [data, mode]
          older,  \* what the file may still be on disk
          docker, shown

vars == <<path, older, docker, shown>>

Files == {NoFile} \cup [data : Contents, mode : Modes]

Init ==
  /\ path \in Files /\ older = path
  /\ docker \in Views /\ shown = {docker}

Before == IF path = NoFile THEN NoFile ELSE path.data

Replace ==
  /\ \E v \in shown :
       /\ ~Refuses(Before, v)
       /\ path' = [data |-> Merged(Before, v),
                   mode |-> IF path = NoFile THEN DefaultMode ELSE path.mode]
  /\ older' = path
  /\ UNCHANGED <<docker, shown>>

PowerCut ==
  /\ path' \in {path, older} /\ older' = path'
  /\ UNCHANGED <<docker, shown>>

HumanEdits ==
  /\ path' \in Files /\ older' = path'
  /\ UNCHANGED <<docker, shown>>

DockerChanges ==
  /\ docker' \in Views /\ shown' = shown \cup {docker'}
  /\ UNCHANGED <<path, older>>

Next == Replace \/ PowerCut \/ HumanEdits \/ DockerChanges

Spec == Init /\ [][Next]_vars
=============================================================================
