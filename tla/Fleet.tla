-------------------------------- MODULE Fleet --------------------------------
(***************************************************************************)
(* Discovery and Merge put together the way sync's RunE does it: one sync  *)
(* after another on one file, over hosts that go down and come back.  What *)
(* a host that does not answer does to the file is nobody's single         *)
(* decision: discovery turns it into a warning and an empty answer, and    *)
(* the merge's removal pass sees ids that nobody wants.                    *)
(***************************************************************************)
EXTENDS Discovery

CONSTANTS
  IdText,                 \* Source.ID's digest of a host's and a container's name
  ServiceIds,             \* the digests, in (Name, ID) order
  Hash, NoName, Unreadable  \* as in Merge

VARIABLES
  file,     \* the output file's document
  saved,    \* the command that is on has ended
  report,   \* the changes the last merge printed
  quiet,    \* no container has changed since the command that is on began
  last      \* of the last merge: its hosts, whether all answered, and whether no
            \* container has changed since its command began

M == INSTANCE Merge WITH Format <- "homepage", ServiceOrder <- ServiceIds

fleetVars == <<vars, file, saved, report, quiet, last>>

\* The merge knows a service by its id, its group and what it renders to.
Wanted(s) == [id |-> IdText[s.id], group |-> s.group, body |-> s.url]

\* What there may be to render.
Urls == {Expected("", c).url : c \in {d \in UNION Containers : d.enable}}

\* No two ids have one digest; a digest and a group's name are never empty; the merge sorts
\* by the orders discovery sorts by, in which nothing is listed twice; what a renderer makes
\* can be read.
ASSUME FleetAssumption ==
  /\ \A id \in ToSet(IdOrder) : IdText[id] \in ToSet(ServiceIds)
  /\ \A id, other \in ToSet(IdOrder) : IdText[id] = IdText[other] => id = other
  /\ ServiceIds \in Seq(ToSet(ServiceIds)) /\ IsInjective(ServiceIds)
  /\ IsInjective(GroupOrder)
  /\ M!Absent \notin ToSet(ServiceIds) \cup ToSet(GroupOrder)
  /\ NoName \notin ToSet(GroupOrder)
  /\ \A url \in Urls : Hash[url] # M!Absent /\ url # Unreadable

FleetInit ==
  /\ Init
  /\ file = [root |-> "blank", groups |-> <<>>]
  /\ saved = FALSE /\ report = <<>>
  /\ quiet = FALSE /\ last = [hosts |-> <<>>, answered |-> FALSE, steady |-> FALSE]

\* discover failed: sync ends before it has read the file.
GiveUp ==
  /\ main = "done" /\ ~saved /\ out.error # "none"
  /\ saved' = TRUE
  /\ UNCHANGED <<vars, file, report, quiet, last>>

\* GroupServices, Merge, writeAtomic; the warnings were only printed.
Save ==
  LET merged == M!Merge(file, M!GroupServices({Wanted(s) : s \in ToSet(out.services)}),
                        "overwrite")
  IN  /\ main = "done" /\ ~saved /\ out.error = "none"
      /\ merged.error = M!Absent
      /\ file' = merged.doc
      /\ report' = merged.changes
      /\ saved' = TRUE
      /\ last' = [hosts |-> hosts, answered |-> out.warnings = <<>>, steady |-> quiet]
      /\ UNCHANGED <<vars, quiet>>

Run ==
  /\ Next
  /\ Again => saved
  /\ saved' = (saved /\ main' = "done")
  /\ quiet' = ((quiet \/ Load) /\ containers' = containers)
  /\ last' = [last EXCEPT !.steady = @ /\ containers' = containers]
  /\ UNCHANGED <<file, report>>

FleetNext == Run \/ Save \/ GiveUp

FleetSpec == FleetInit /\ [][FleetNext]_fleetVars

-----------------------------------------------------------------------------
Entries(doc) == UNION {ToSet(doc.groups[i].items) : i \in DOMAIN doc.groups}

EntryIds(doc) == {e.comment.id : e \in Entries(doc)}

\* ADR 005, failure isolation, seen in the file: what a host answered is in the file
\* after the sync, whatever became of the other hosts.
AnswersAreKept ==
  [][Save =>
       \A i \in DOMAIN hosts :
         ~result[i].err =>
           \A s \in ToSet(result[i].services) : Wanted(s).id \in EntryIds(file')]_fleetVars

\* aggregateHostResults: when every host failed, sync ends without writing, so a
\* general outage does not empty the file.
OutageKeepsFile ==
  [][hosts # <<>> /\ (\A i \in DOMAIN hosts : result[i].err) => file' = file]_fleetVars

\* Nothing changed between the beginning of the last sync and the end of this one.
Undisturbed == quiet /\ last.steady /\ last.hosts = hosts

\* README, "two runs in a row with no changes in Docker produce a zero diff": true of
\* runs that every host answered.
QuietRunsReportNothing ==
  [][Save /\ Undisturbed /\ last.answered /\ last'.answered => report' = <<>>]_fleetVars

\* The same sentence as it stands.
ZeroDiffWithoutChange == [][Save /\ Undisturbed => report' = <<>>]_fleetVars
==============================================================================
