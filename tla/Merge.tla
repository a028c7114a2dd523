------------------------------- MODULE Merge -------------------------------
(***************************************************************************)
(* The merge of internal/merge: desired services are merged into the       *)
(* existing document, one group and one service at a time, and then every  *)
(* group is swept of managed entries nobody wants any more.                *)
(*                                                                         *)
(* A document is what the YAML tree tells the merge:                       *)
(*   [root |-> "blank" | "groups" | "noKey" | "other",  groups |-> Seq]    *)
(* "blank" is a missing or all-whitespace file, "groups" a root that holds *)
(* the list of groups where the format expects it, "noKey" a mapping       *)
(* without the format's top-level key, "other" any other root.  A group is *)
(*   [name, shape |-> "list" | "notList" | "noItems", items |-> Seq]       *)
(* with name = NoName for a list item that is not a well-formed group, and *)
(* an entry is [comment, body, style]: its head comment, what              *)
(* NormalizeEntry makes of it, and how it is laid out, which               *)
(* NormalizeEntry drops (comments inside the entry, key order, quoting).   *)
(*                                                                         *)
(* The operators are one loop body each; Merge is the whole call.          *)
(***************************************************************************)
EXTENDS Integers, Sequences, FiniteSets, SequencesExt, Lists

CONSTANTS
  Format,        \* "homepage", or "named" for homer and dashy
  GroupOrder,    \* the group names, in the order slices.Sort puts them
  ServiceOrder,  \* the service ids, in (Name, ID) order
  Hash,          \* contentHash: [bodies -> fingerprints]
  NoName,        \* the "name" of a list item that is not a group
  Unreadable     \* the body of an entry NormalizeEntry fails on

Policies == {"preserve", "overwrite", "fail"}

\* No id, no fingerprint, no error.
Absent == ""

\* The documents over a set of group names and a set of entries: only a list
\* has items.
GroupsOf(names, entries) ==
  {g \in [name : names, shape : {"list", "notList", "noItems"}, items : Seq(entries)] :
     g.shape # "list" => g.items = <<>>}

Documents(names, entries) ==
  [root : {"blank", "groups", "noKey", "other"}, groups : Seq(GroupsOf(names, entries))]

(***************************************************************************)
(* Markers.                                                                *)
(***************************************************************************)
NoComment == [kind |-> "none", id |-> Absent, content |-> Absent]
Note      == [kind |-> "note", id |-> Absent, content |-> Absent]

buildMarker(id, content) == [kind |-> "marker", id |-> id, content |-> content]

\* A marker comment that lost its id or its content is no marker at all.
IsMarker(c) == c.kind = "marker" /\ c.id # Absent /\ c.content # Absent

IsManaged(e) == IsMarker(e.comment)

Unmanaged(items) == Only(items, {e \in ToSet(items) : ~IsManaged(e)})

\* What dashsync writes for a service: RenderEntry's bytes under a fresh marker.
Rendered(svc) ==
  [comment |-> buildMarker(svc.id, Hash[svc.body]), body |-> svc.body,
   style |-> "rendered", wrote |-> svc.body]

(***************************************************************************)
(* model.GroupServices: services bucketed by group, groups sorted by name. *)
(***************************************************************************)
NameOf(service) == IF service.group = "" THEN "Other" ELSE service.group

Bucket(services, name) ==
  LET here == {s \in services : NameOf(s) = name}
      ids  == Only(ServiceOrder, {s.id : s \in here})
  IN  [i \in DOMAIN ids |-> CHOOSE s \in here : s.id = ids[i]]

GroupServices(services) ==
  LET names == Only(GroupOrder, {NameOf(s) : s \in services})
  IN  [i \in DOMAIN names |-> [name |-> names[i], services |-> Bucket(services, names[i])]]

\* The map lookup of the removal pass: an id nobody wants maps to "".
DesiredGroupOf(desired, id) ==
  LET wanting == {i \in DOMAIN desired :
                    \E j \in DOMAIN desired[i].services : desired[i].services[j].id = id}
  IN  IF wanting = {} THEN Absent ELSE desired[CHOOSE i \in wanting : TRUE].name

(***************************************************************************)
(* Locating the groups.                                                    *)
(***************************************************************************)
\* GroupSequence succeeds: the root is, or can become, the list of groups.
HasGroupSequence(doc) ==
  doc.root \in {"blank", "groups"} \cup (IF Format = "named" THEN {"noKey"} ELSE {})

GroupIndex(groups, name) == SelectInSeq(groups, LAMBDA g : g.name = name)

\* The first group of that name holds something other than a list.
GroupIsBroken(groups, name) ==
  LET i == GroupIndex(groups, name) IN i # 0 /\ groups[i].shape = "notList"

FindOrCreateGroup(groups, name) ==
  LET i == GroupIndex(groups, name)
  IN  IF i = 0 THEN Append(groups, [name |-> name, shape |-> "list", items |-> <<>>])
               ELSE [groups EXCEPT ![i].shape = "list"]

(***************************************************************************)
(* applyDesired, one service.                                              *)
(***************************************************************************)
findManagedIndex(items, id) ==
  SelectInSeq(items, LAMBDA e : IsManaged(e) /\ e.comment.id = id)

\* Mutant: the fingerprint is never looked at.
HandEditedNever(e) == FALSE

HandEdited(e) == Hash[e.body] # e.comment.content

\* Mutant: an entry that is as it should be is written again.
VerdictNeverSame(items, svc, policy) ==
  LET i == findManagedIndex(items, svc.id)
  IN  IF i = 0                                                THEN "added"
      ELSE IF items[i].body = Unreadable                      THEN "unreadable"
      ELSE IF HandEdited(items[i]) /\ policy = "fail"         THEN "refused"
      ELSE IF HandEdited(items[i]) /\ policy = "preserve"     THEN "conflict"
      ELSE "updated"

\* What becomes of one service: the outcomes of the loop body, in its order.
Verdict(items, svc, policy) ==
  LET i == findManagedIndex(items, svc.id)
  IN  IF i = 0                                                THEN "added"
      ELSE IF items[i].body = Unreadable                      THEN "unreadable"
      ELSE IF HandEdited(items[i]) /\ policy = "fail"         THEN "refused"
      ELSE IF HandEdited(items[i]) /\ policy = "preserve"     THEN "conflict"
      ELSE IF items[i].body = svc.body                        THEN "same"
      ELSE "updated"

\* Mutant: an update is appended and the old entry stays.
ApplyByAppending(items, svc, policy) ==
  IF Verdict(items, svc, policy) \in {"added", "updated"}
  THEN Append(items, Rendered(svc)) ELSE items

ApplyService(items, svc, policy) ==
  LET verdict == Verdict(items, svc, policy)
  IN  IF verdict = "added" THEN Append(items, Rendered(svc))
      ELSE IF verdict = "updated"
           THEN [items EXCEPT ![findManagedIndex(items, svc.id)] = Rendered(svc)]
      ELSE items

\* Mutant: updates are not reported.
ReportedWithoutUpdates == {"added", "conflict"}

Reported == {"added", "updated", "conflict"}

(***************************************************************************)
(* removeOrphaned.                                                         *)
(***************************************************************************)
\* Mutant: an entry whose service moved to another group stays.
OrphanedAnywhere(e, name, desired) ==
  IsManaged(e) /\ DesiredGroupOf(desired, e.comment.id) = Absent

\* Mutant: the marker is not asked for.
OrphanedUnmarked(e, name, desired) == DesiredGroupOf(desired, e.comment.id) # name

Orphaned(e, name, desired) ==
  IsManaged(e) /\ DesiredGroupOf(desired, e.comment.id) # name

\* The groups the removal pass sweeps: adapter.Groups skips malformed ones.
Sweepable(group) == group.name # NoName /\ group.shape = "list"

Orphans(group, desired) ==
  IF Sweepable(group) THEN {e \in ToSet(group.items) : Orphaned(e, group.name, desired)} ELSE {}

SweepGroup(group, desired) ==
  LET orphans == Orphans(group, desired)
  IN  IF orphans = {} THEN group
      ELSE [group EXCEPT !.items = Only(@, ToSet(@) \ orphans)]

\* One Removed change for each entry the sweep drops, in document order.
Removals(group, desired) ==
  LET gone == Only(group.items, Orphans(group, desired))
  IN  [i \in DOMAIN gone |->
         [kind |-> "removed", id |-> gone[i].comment.id, group |-> group.name]]

(***************************************************************************)
(* Merge: the whole call.  An error leaves the document as it was.         *)
(***************************************************************************)
Failed(work) == work.error # Absent

MergeService(work, gi, svc, policy) ==
  LET items   == work.groups[gi].items
      verdict == Verdict(items, svc, policy)
      change  == [kind |-> verdict, id |-> svc.id, group |-> work.groups[gi].name]
  IN  IF Failed(work) THEN work
      ELSE IF verdict \in {"unreadable", "refused"} THEN [work EXCEPT !.error = verdict]
      ELSE [work EXCEPT !.groups[gi].items = ApplyService(items, svc, policy),
                        !.changes = IF verdict \in Reported THEN Append(@, change) ELSE @]

MergeServices(work, gi, services, policy) ==
  FoldLeft(LAMBDA w, svc : MergeService(w, gi, svc, policy), work, services)

MergeGroup(work, wanted, policy) ==
  LET groups == FindOrCreateGroup(work.groups, wanted.name)
      gi     == GroupIndex(groups, wanted.name)
  IN  IF Failed(work) THEN work
      ELSE IF GroupIsBroken(work.groups, wanted.name) THEN [work EXCEPT !.error = "notList"]
      ELSE MergeServices([work EXCEPT !.groups = groups], gi, wanted.services, policy)

MergeGroups(work, desired, policy) ==
  FoldLeft(LAMBDA w, wanted : MergeGroup(w, wanted, policy), work, desired)

Merge(doc, desired, policy) ==
  LET start   == [error |-> Absent, groups |-> doc.groups, changes |-> <<>>]
      applied == MergeGroups(start, desired, policy)
      swept   == [i \in DOMAIN applied.groups |-> SweepGroup(applied.groups[i], desired)]
      removed == [i \in DOMAIN applied.groups |-> Removals(applied.groups[i], desired)]
      Refused(error) == [error |-> error, doc |-> doc, changes |-> <<>>]
  IN  IF ~HasGroupSequence(doc) THEN Refused("root")
      ELSE IF Failed(applied) THEN Refused(applied.error)
      ELSE [error |-> Absent, doc |-> [root |-> "groups", groups |-> swept],
            changes |-> applied.changes \o FlattenSeq(removed)]
=============================================================================
