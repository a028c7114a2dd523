---------------------------- MODULE MergeHistory ----------------------------
(***************************************************************************)
(* The life of one dashboard file: containers come, go and change, humans  *)
(* edit the file, and every so often somebody runs                         *)
(* `dashsync sync --output-path`, each time from nothing but the file and  *)
(* what Docker shows.  The runs do not overlap here (module Sync takes     *)
(* overlapping runs apart); what is at stake is what a sequence of merges  *)
(* and edits does to the file.                                             *)
(***************************************************************************)
EXTENDS Merge

CONSTANTS
  Ids, Groups, Bodies,  \* service ids, group names, entry bodies (rendered bytes)
  Starts,               \* the documents a history may start from
  Copies,               \* humans may also copy managed entries and groups
  MaxEdits              \* bound: how many edits humans make

\* A sorted list: it names every element of S, and none twice.
Orders(list, S) ==
  /\ list \in Seq(ToSet(list)) /\ S \subseteq ToSet(list)
  /\ \A i, j \in DOMAIN list : list[i] = list[j] => i = j

Comments == [kind : {"none", "note", "marker"}, id : Ids \cup {Absent},
             content : {Hash[b] : b \in Bodies} \cup {Absent}]

Entries == [comment : Comments, body : Bodies \cup {Unreadable},
            style : {"rendered", "own"}, wrote : Bodies \cup {Absent}]

\* Ids and group names are never empty, a fingerprint is never the empty string,
\* and what dashsync renders is an entry NormalizeEntry reads.
ASSUME HistoryAssumption ==
  /\ Format \in {"homepage", "named"}
  /\ Orders(GroupOrder, Groups) /\ Orders(ServiceOrder, Ids)
  /\ Absent \notin Ids /\ Absent \notin Groups /\ NoName \notin Groups
  /\ \A b \in Bodies : Hash[b] # Absent /\ b # Unreadable
  /\ \A doc \in Starts : doc \in Documents(Groups \cup {NoName}, Entries)
  /\ Copies \in BOOLEAN /\ MaxEdits \in Nat

VARIABLES
  file,      \* the document
  services,  \* what discovery would return now
  actor,     \* who took the last step: "human", "docker", "sync" or "refused"
  policy,    \* --conflict of the last run
  report,    \* the changes the last run printed
  edits      \* how many edits humans made so far

vars == <<file, services, actor, policy, report, edits>>

Service == [id : Ids, group : Groups, body : Bodies]

\* model.Source.ID: one service per container.
ServiceSets ==
  {S \in SUBSET Service : \A s, t \in S : s.id = t.id => s = t}

Init ==
  /\ file \in Starts
  /\ services = {}
  /\ actor = "human" /\ policy = "preserve" /\ report = <<>> /\ edits = 0

-----------------------------------------------------------------------------
\* One run of `sync --output-path` that writes.
SyncRun(p) ==
  LET result == Merge(file, GroupServices(services), p)
  IN  /\ policy' = p
      /\ actor' = IF result.error = Absent THEN "sync" ELSE "refused"
      /\ file' = result.doc
      /\ report' = result.changes
      /\ UNCHANGED <<services, edits>>

\* The last run's output is only looked at until something else happens.
NoRun == policy' = "preserve" /\ report' = <<>>

\* One container starts or stops to be seen, or its labels or ports change.
DockerChanges ==
  /\ \E id \in Ids :
       LET others == {s \in services : s.id # id}
       IN  services' \in {others} \cup {others \cup {s} : s \in {t \in Service : t.id = id}}
  /\ services' # services
  /\ actor' = "docker"
  /\ NoRun
  /\ UNCHANGED <<file, edits>>

-----------------------------------------------------------------------------
\* What humans do to the file.
HumanSaves(doc) ==
  /\ edits < MaxEdits
  /\ edits' = edits + 1
  /\ file' = doc
  /\ actor' = "human"
  /\ NoRun
  /\ UNCHANGED services

SetItems(i, items) == [file EXCEPT !.groups[i].items = items]

Place == {ij \in (DOMAIN file.groups) \X (1..(MaxEdits + 2 * Cardinality(Ids))) :
            ij[2] \in DOMAIN file.groups[ij[1]].items}

\* Another value: a field added, removed or changed, or no mapping any more.
EditBody ==
  \E ij \in Place, b \in Bodies \cup {Unreadable} :
    HumanSaves([file EXCEPT !.groups[ij[1]].items[ij[2]].body = b])

\* A comment next to a field, another key order, other quotes.
Restyle ==
  \E ij \in Place : HumanSaves([file EXCEPT !.groups[ij[1]].items[ij[2]].style = "own"])

\* The marker deleted, replaced by a note, or damaged.
ChangeComment ==
  \E ij \in Place, c \in {NoComment, Note} :
    HumanSaves([file EXCEPT !.groups[ij[1]].items[ij[2]].comment = c])

DamageMarker ==
  \E ij \in Place : HumanSaves([file EXCEPT !.groups[ij[1]].items[ij[2]].comment.content = Absent])

AddOwnEntry ==
  \E i \in DOMAIN file.groups, b \in Bodies :
    /\ file.groups[i].shape = "list"
    /\ \E j \in 1..(Len(file.groups[i].items) + 1) :
         HumanSaves(SetItems(i, InsertAt(file.groups[i].items, j,
                                         [comment |-> NoComment, body |-> b,
                                          style |-> "own", wrote |-> Absent])))

DeleteEntry ==
  \E ij \in Place : HumanSaves(SetItems(ij[1], RemoveAt(file.groups[ij[1]].items, ij[2])))

SwapEntries ==
  \E ij \in Place :
    LET items == file.groups[ij[1]].items
        k     == ij[2] + 1
    IN  /\ k \in DOMAIN items
        /\ HumanSaves(SetItems(ij[1], [items EXCEPT ![ij[2]] = items[k], ![k] = items[ij[2]]]))

AddGroup ==
  \E name \in Groups \cup {NoName} :
    /\ file.root = "groups"
    /\ Copies \/ GroupIndex(file.groups, name) = 0
    /\ HumanSaves([file EXCEPT !.groups =
                     <<[name |-> name, shape |-> "list", items |-> <<>>]>> \o @])

\* The group's value is no list any more, or (homer, dashy) its items are gone.
BreakGroup ==
  \E i \in DOMAIN file.groups, shape \in {"notList"} \cup (IF Format = "named" THEN {"noItems"} ELSE {}) :
    HumanSaves([file EXCEPT !.groups[i].shape = shape, !.groups[i].items = <<>>])

\* An entry copied with its marker, to the top of the same or another group.
CopyEntry ==
  \E ij \in Place, i \in DOMAIN file.groups :
    /\ Copies
    /\ file.groups[i].shape = "list"
    /\ HumanSaves(SetItems(i, <<file.groups[ij[1]].items[ij[2]]>> \o file.groups[i].items))

HumanEdits ==
  \/ EditBody \/ Restyle \/ ChangeComment \/ DamageMarker \/ AddOwnEntry
  \/ DeleteEntry \/ SwapEntries \/ AddGroup \/ BreakGroup \/ CopyEntry

Next == (\E p \in Policies : SyncRun(p)) \/ DockerChanges \/ HumanEdits

Spec == Init /\ [][Next]_vars

-----------------------------------------------------------------------------
(***************************************************************************)
(* Properties of every file, whatever a human did to it.                   *)
(***************************************************************************)
Synced == actor = "sync"

Desired == GroupServices(services)

\* README "Idempotent: two runs in a row with no changes in Docker produce a
\* zero diff": repeating the run that just ended would not change the file.
Idempotent == Synced => Merge(file, Desired, policy).doc = file

\* README "doesn't clobber whatever you edited by hand": a run keeps every
\* entry without a marker, in its group and in its order, and never removes or
\* reorders a group; what it adds are groups at the end, with nothing in them
\* that looks hand-written.
KeepsHandWritten ==
  /\ Len(file'.groups) >= Len(file.groups)
  /\ \A i \in DOMAIN file'.groups :
       IF i \in DOMAIN file.groups
       THEN /\ file'.groups[i].name = file.groups[i].name
            /\ Unmanaged(file'.groups[i].items) = Unmanaged(file.groups[i].items)
       ELSE Unmanaged(file'.groups[i].items) = <<>>

HandWrittenUntouched == [][actor' = "sync" => KeepsHandWritten]_vars

\* A run leaves each desired service in its group, and in no list that can be
\* swept an entry of a service that is gone or belongs to another group.
InSync ==
  Synced =>
    /\ \A s \in services :
         \E i \in DOMAIN file.groups :
           file.groups[i].name = s.group /\ findManagedIndex(file.groups[i].items, s.id) # 0
    /\ \A i \in DOMAIN file.groups : Sweepable(file.groups[i]) =>
         \A e \in ToSet(file.groups[i].items) : IsManaged(e) =>
           \E s \in services : s.id = e.comment.id /\ s.group = file.groups[i].name

\* The report --check judges by: it lists a change other than a conflict exactly
\* when the run changes a file that already had its list of groups.
ReportIsTrue ==
  [][actor' = "sync" /\ file.root = "groups" =>
       ((file' = file) <=> \A i \in DOMAIN report' : report'[i].kind = "conflict")]_vars

(***************************************************************************)
(* The contract: files in which humans copied no managed entry.            *)
(***************************************************************************)
Managed(OfInterest(_)) ==
  UNION {{[group |-> file.groups[i].name, id |-> e.comment.id, body |-> e.body] :
            e \in {f \in ToSet(file.groups[i].items) : IsManaged(f) /\ OfInterest(f)}} :
         i \in {k \in DOMAIN file.groups : Sweepable(file.groups[k])}}

Contract == INSTANCE SyncContract WITH
  page    <- [i \in DOMAIN file.groups |->
                [name |-> file.groups[i].name, hand |-> Unmanaged(file.groups[i].items)]],
  managed <- Managed(LAMBDA e : TRUE),
  edited  <- Managed(LAMBDA e : e.body # e.wrote)

\* A history starts before dashsync ever ran, from a file that names no group twice ...
FreshStarts ==
  \A doc \in Starts :
    /\ \A i, j \in DOMAIN doc.groups :
         doc.groups[i].name = doc.groups[j].name /\ doc.groups[i].name # NoName => i = j
    /\ \A i \in DOMAIN doc.groups : \A e \in ToSet(doc.groups[i].items) : ~IsManaged(e)

\* ... and no fingerprint stands for two bodies, which FNV-32a makes only unlikely.
NoCollision == \A a, b \in Bodies : Hash[a] = Hash[b] => a = b

\* The merge, with its markers, fingerprints and two passes, keeps the promise
\* of the package comment for every sequence of edits, changes and runs.
KeepsContract == Contract!Spec

=============================================================================
