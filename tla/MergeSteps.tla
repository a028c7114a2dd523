----------------------------- MODULE MergeSteps -----------------------------
(***************************************************************************)
(* One call of Merge, step by step, on the syntax tree: the adapter finds  *)
(* or makes the list of groups, then a group at a time is found or made,   *)
(* its items are read out, every service is applied to them and they are   *)
(* written back, and then one group at a time is swept.  Between two steps *)
(* the tree is what Go's pointers would show.                              *)
(*                                                                         *)
(* Module Merge says what the whole call returns; here it is shown for     *)
(* both document adapters that the repairs on the way (brackets, columns,  *)
(* the comments' two places) give the same document and a file that can be *)
(* read again.                                                             *)
(***************************************************************************)
EXTENDS YamlTree

CONSTANTS
  Files,         \* what a run may find: a set of [format, blank, body]
  ServiceSets,   \* what it may be asked to merge
  GroupOrder, ServiceOrder, Hash, Unreadable   \* as in module Merge

WellFormed(format_, body) ==
  IF format_ = "homepage" THEN body.kind = "seq" => WellFormedList(body)
                          ELSE body.kind = "map" => WellFormedMapping(body)

\* The lists in which a format may look for its groups.
Lists(format_, body) ==
  {list \in IF format_ = "homepage" THEN {body}
            ELSE IF body.kind = "map" THEN {body.fields[i].value : i \in DOMAIN body.fields}
            ELSE {} : list.kind = "seq"}

ASSUME FilesAssumption ==
  \A f \in Files :
    /\ f.format \in {"homepage", "named"} /\ f.blank \in BOOLEAN
    /\ f.blank => f.body = newEmptySequence
    /\ WellFormed(f.format, f.body)
    /\ \A list \in Lists(f.format, f.body) : \A i \in DOMAIN list.values : Itemized(list.values[i])

VARIABLES
  format,    \* which adapter Adapter() returns
  blank,     \* isNewDocument
  existing,  \* the tree parseOrEmpty returned
  desired, policy,
  doc,       \* the tree now
  pc,        \* "locate", "find", "apply", "sweep", "done" or "failed"
  at,        \* the wanted group (find, apply) or the list's group (sweep)
  slot,      \* where FindOrCreateGroup found or put the wanted group
  next,      \* the next service to apply
  entries, changes, error

call == <<format, blank, existing, desired, policy>>
vars == <<call, doc, pc, at, slot, next, entries, changes, error>>

M == INSTANCE Merge WITH Format <- format, NoName <- NonString

\* A group of services has a name.
ASSUME ServiceSetsAssumption ==
  \A services \in ServiceSets :
    \A i \in DOMAIN M!GroupServices(services) : M!GroupServices(services)[i].name # NonString

\* The orders in which groups and services are sorted list their names.
ASSUME OrdersAssumption == GroupOrder \in Seq(STRING) /\ ServiceOrder \in Seq(STRING)

\* The key of the groups in a Homer or Dashy file.
TopLevelKey == "services"

-----------------------------------------------------------------------------
(***************************************************************************)
(* The document adapters.                                                  *)
(***************************************************************************)
\* "services: []", what a file that does not exist starts from.
FreshDocument == Mapping(<<FreshField(TopLevelKey, EmptyList)>>)

\* The tree in which the named adapter looks for its key.
Start == IF blank THEN FreshDocument ELSE existing

\* GroupSequence finds the list of groups, or can make it.
Locatable ==
  IF format = "homepage"
  THEN existing.kind = "seq"
  ELSE /\ Start.kind = "map"
       /\ LET f == findField(Start, TopLevelKey)
          IN  f # 0 => Start.fields[f].value.kind = "seq"

TopField(body) == findField(body, TopLevelKey)

GroupList(body) ==
  IF format = "homepage" THEN body ELSE body.fields[TopField(body)].value

SetGroupList(body, list) ==
  IF format = "homepage" THEN list
  ELSE [body EXCEPT !.fields[TopField(body)].value = list]

GroupSequence ==
  IF format = "homepage"
  THEN normalizeGroupsListStyle(existing)
  ELSE LET body  == getOrAppendField(Start, TopLevelKey)
           field == body.fields[TopField(body)]
       IN  SetGroupList(body, normalizeGroupsListStyle(fixFlowStyleColumn(field.value, field.col)))

\* A group's name: its only key, or the text of its field "name"; NonString for
\* an item of the list that is no group.
NameOf(node) ==
  IF node.kind # "map" THEN NonString
  ELSE IF format = "homepage"
       THEN IF Len(node.fields) = 0 THEN NonString ELSE node.fields[1].key
       ELSE LET f == findField(node, "name")
            IN  IF f = 0 \/ node.fields[f].value.kind # "scalar" THEN NonString
                ELSE node.fields[f].value.text

\* The field that holds the group's items, 0 for none.
ItemsField(node) == IF format = "homepage" THEN 1 ELSE findField(node, "items")

ItemsOf(node) == node.fields[ItemsField(node)].value

HasItems(node) ==
  NameOf(node) # NonString /\ ItemsField(node) # 0 /\ ItemsOf(node).kind = "seq"

GroupAt(list, name) == SelectInSeq(list.values, LAMBDA node : NameOf(node) = name)

\* The group was found, and its items are something other than a list.
Broken(node) == ItemsField(node) # 0 /\ ItemsOf(node).kind # "seq"

\* Mutant: a group between braces keeps them.
OpenInBraces(node) ==
  IF format = "homepage"
  THEN [node EXCEPT !.fields[1].value = fixFlowStyleColumn(@, node.fields[1].col)]
  ELSE LET m == IF findField(node, "items") # 0 THEN node ELSE getOrAppendField(node, "items")
           f == ItemsField(m)
       IN  [m EXCEPT !.fields[f].value = fixFlowStyleColumn(@, m.fields[f].col)]

\* A group that was found, made ready to take block entries.
OpenGroup(node) ==
  IF format = "homepage"
  THEN normalizeMappingFlowStyle(
         [node EXCEPT !.fields[1].value = fixFlowStyleColumn(@, node.fields[1].col)])
  ELSE LET m == getOrAppendField(node, "items")
           f == ItemsField(m)
       IN  [m EXCEPT !.fields[f].value = fixFlowStyleColumn(@, m.fields[f].col)]

\* A group that was not found: "name: []", or "name: ..." and "items: []".
NewGroup(name) ==
  OpenGroup(IF format = "homepage"
            THEN Mapping(<<FreshField(name, EmptyList)>>)
            ELSE Mapping(<<FreshField("name", Scalar(name)), FreshField("items", EmptyList)>>))

FindOrCreateGroup(list, name) ==
  LET i == GroupAt(list, name)
  IN  IF i = 0 THEN AppendGroup(list, NewGroup(name))
      ELSE [list EXCEPT !.values[i] = OpenGroup(@)]

WriteItems(body, i, items) ==
  LET list == GroupList(body)
      f    == ItemsField(list.values[i])
  IN  SetGroupList(body, [list EXCEPT !.values[i].fields[f].value = writeEntries(@, items)])

-----------------------------------------------------------------------------
(***************************************************************************)
(* The call.                                                               *)
(***************************************************************************)
Init ==
  /\ \E f \in Files : format = f.format /\ blank = f.blank /\ existing = f.body
  /\ \E services \in ServiceSets : desired = M!GroupServices(services)
  /\ policy \in M!Policies
  /\ doc = existing
  /\ pc = "locate" /\ at = 1 /\ slot = 0 /\ next = 1
  /\ entries = <<>> /\ changes = <<>> /\ error = ""

Fails(why) ==
  /\ pc' = "failed"
  /\ error' = why
  /\ UNCHANGED <<call, doc, at, slot, next, entries, changes>>

\* adapter.GroupSequence.
Locate ==
  /\ pc = "locate"
  /\ Locatable
  /\ doc' = GroupSequence
  /\ pc' = "find"
  /\ UNCHANGED <<call, at, slot, next, entries, changes, error>>

LocateFails == pc = "locate" /\ ~Locatable /\ Fails("root")

Wanted == desired[at]

\* adapter.FindOrCreateGroup, then readEntries.
FindGroup ==
  /\ pc = "find" /\ at \in DOMAIN desired
  /\ LET list  == GroupList(doc)
         found == GroupAt(list, Wanted.name)
     IN  /\ found # 0 => ~Broken(list.values[found])
         /\ slot' = IF found = 0 THEN Len(list.values) + 1 ELSE found
         /\ doc' = SetGroupList(doc, FindOrCreateGroup(list, Wanted.name))
         /\ entries' = readEntries(ItemsOf(GroupList(doc').values[slot']))
  /\ pc' = "apply" /\ next' = 1
  /\ UNCHANGED <<call, at, changes, error>>

FindGroupFails ==
  /\ pc = "find" /\ at \in DOMAIN desired
  /\ LET list  == GroupList(doc)
         found == GroupAt(list, Wanted.name)
     IN  found # 0 /\ Broken(list.values[found])
  /\ Fails("notList")

\* applyDesired: one pass of its loop.
ApplyOne ==
  LET svc     == Wanted.services[next]
      verdict == M!Verdict(entries, svc, policy)
  IN  /\ pc = "apply" /\ next \in DOMAIN Wanted.services
      /\ verdict \notin {"unreadable", "refused"}
      /\ entries' = M!ApplyService(entries, svc, policy)
      /\ changes' = IF verdict \in M!Reported
                    THEN Append(changes, [kind |-> verdict, id |-> svc.id, group |-> Wanted.name])
                    ELSE changes
      /\ next' = next + 1
      /\ UNCHANGED <<call, doc, pc, at, slot, error>>

ApplyOneFails ==
  LET verdict == M!Verdict(entries, Wanted.services[next], policy)
  IN  /\ pc = "apply" /\ next \in DOMAIN Wanted.services
      /\ verdict \in {"unreadable", "refused"}
      /\ Fails(verdict)

\* writeEntries, and on to the next wanted group.
WriteGroup ==
  /\ pc = "apply" /\ next \notin DOMAIN Wanted.services
  /\ doc' = WriteItems(doc, slot, entries)
  /\ pc' = "find" /\ at' = at + 1
  /\ UNCHANGED <<call, slot, next, entries, changes, error>>

StartSweep ==
  /\ pc = "find" /\ at \notin DOMAIN desired
  /\ pc' = "sweep" /\ at' = 1
  /\ UNCHANGED <<call, doc, slot, next, entries, changes, error>>

\* adapter.Groups returns this item of the list.
Swept(list, i) == HasItems(list.values[i])

\* The removal pass, one item of the list of groups.
Sweep ==
  /\ pc = "sweep" /\ at \in DOMAIN GroupList(doc).values
  /\ LET list    == GroupList(doc)
         name    == NameOf(list.values[at])
         items   == IF Swept(list, at) THEN readEntries(ItemsOf(list.values[at])) ELSE <<>>
         orphans == {e \in ToSet(items) : M!Orphaned(e, name, desired)}
         gone    == M!Only(items, orphans)
         kept    == M!Only(items, ToSet(items) \ orphans)
     IN  /\ doc' = IF \E i \in DOMAIN items : M!Orphaned(items[i], name, desired)
                   THEN WriteItems(doc, at, kept) ELSE doc
         /\ changes' = changes \o
              [i \in DOMAIN gone |-> [kind |-> "removed", id |-> gone[i].comment.id, group |-> name]]
  /\ at' = at + 1
  /\ UNCHANGED <<call, pc, slot, next, entries, error>>

Finish ==
  /\ pc = "sweep" /\ at \notin DOMAIN GroupList(doc).values
  /\ pc' = "done"
  /\ UNCHANGED <<call, doc, at, slot, next, entries, changes, error>>

Next ==
  \/ Locate \/ LocateFails \/ FindGroup \/ FindGroupFails \/ ApplyOne \/ ApplyOneFails
  \/ WriteGroup \/ StartSweep \/ Sweep \/ Finish

Spec == Init /\ [][Next]_vars

-----------------------------------------------------------------------------
(***************************************************************************)
(* What module Merge sees of a tree.                                       *)
(***************************************************************************)
SeenGroup(node) ==
  LET name  == NameOf(node)
      items == ItemsField(node)
      Group(shape, entriesSeen) == [name |-> name, shape |-> shape, items |-> entriesSeen]
  IN  IF name = NonString         THEN Group("list", <<>>)
      ELSE IF items = 0           THEN Group("noItems", <<>>)
      ELSE IF Broken(node)        THEN Group("notList", <<>>)
      ELSE Group("list", readEntries(ItemsOf(node)))

SeenGroups(body) == [i \in DOMAIN GroupList(body).values |-> SeenGroup(GroupList(body).values[i])]

SeenRoot ==
  IF blank THEN "blank"
  ELSE IF ~Locatable THEN "other"
  ELSE IF format = "named" /\ TopField(existing) = 0 THEN "noKey"
  ELSE "groups"

Seen == [root   |-> SeenRoot,
         groups |-> IF SeenRoot = "groups" THEN SeenGroups(existing) ELSE <<>>]

(***************************************************************************)
(* Properties.                                                             *)
(***************************************************************************)
Located == pc \in {"find", "apply", "sweep", "done"}

\* The steps on the tree return what module Merge returns for the call: the
\* same groups and entries, with their comments, the same changes in the same
\* order, or the same error.
AgreesWithMerge ==
  LET result == M!Merge(Seen, desired, policy)
  IN  /\ pc = "done" =>
           /\ result.error = ""
           /\ changes = result.changes
           /\ SeenGroups(doc) = result.doc.groups
      /\ pc = "failed" => result.error = error

\* No list or mapping between brackets holds anything that cannot be there: a
\* comment, an item dashsync wrote, a block list or mapping.  Such a file could
\* not be read on the next run, or would lose a marker (ast.go, writeEntries).
FlowHoldsFlow ==
  IF format = "homepage"
  THEN doc.kind = "seq" => FlowGroups(doc)
  ELSE doc.kind = "map" =>
         \A i \in DOMAIN doc.fields :
           doc.fields[i].value.kind = "seq" =>
             /\ FlowGroups(doc.fields[i].value)
             /\ doc.flow => doc.fields[i].value.flow

\* A list without items is written "[]"; a block list without items would be a
\* key with nothing after it (ast.go, writeEntries).
EmptyListsInBrackets ==
  \A i \in DOMAIN GroupList(doc).values :
    LET node == GroupList(doc).values[i]
    IN  HasItems(node) /\ ItemsOf(node).values = <<>> => ItemsOf(node).flow

\* The next run can read what this one leaves, with every entry and marker.
Readable == FlowHoldsFlow /\ (Located => EmptyListsInBrackets)

\* The fields of every block mapping stand under each other; otherwise the
\* list around it strips too much of its lines (ast.go,
\* normalizeMappingFlowStyle).
FieldsAligned ==
  Located =>
    /\ Aligned(doc)
    /\ \A i \in DOMAIN GroupList(doc).values : Aligned(GroupList(doc).values[i])

Offset(field) == field.value.col - field.col

\* now is the mapping that was then, with perhaps more fields at its end.
OffsetsKept(then, now) ==
  \A i \in DOMAIN now.fields :
    BlockList(now.fields[i].value) =>
      Offset(now.fields[i]) =
        IF i \in DOMAIN then.fields /\ BlockList(then.fields[i].value)
        THEN Offset(then.fields[i]) ELSE 2

Nothing == Mapping(<<>>)

\* The list of groups the run found, and the item it found at a place there.
ListFound == IF SeenRoot = "groups" THEN GroupList(existing) ELSE newEmptySequence

Before(i) == IF i \in DOMAIN ListFound.values THEN ListFound.values[i] ELSE Nothing

\* The mapping it found around the list.
TopFound == IF existing.kind = "map" THEN existing ELSE Nothing

\* A block list starts where its author put it, or two columns right of its
\* key when the run made it one: never at a column left over from brackets
\* (ast.go, fixFlowStyleColumn).
IndentationKept ==
  Located =>
    /\ format = "named" => OffsetsKept(TopFound, doc)
    /\ \A i \in DOMAIN GroupList(doc).values :
         GroupList(doc).values[i].kind = "map" =>
           OffsetsKept(Before(i), GroupList(doc).values[i])

\* What is printed has its columns from the tree, though the tree's columns are
\* those of lines that are no longer there (ast.go, AddColumn).
ColumnsSound == FieldsAligned /\ IndentationKept

\* The keys and the texts of a mapping, in order.
Texts(fields) ==
  [i \in DOMAIN fields |->
     <<fields[i].key, IF fields[i].value.kind = "scalar" THEN fields[i].value.text ELSE "list">>]

\* The merge keeps what it has no business with, field by field: settings
\* beside the list of groups, a group's own fields, items that are no group,
\* the comments above groups, and the brackets of groups nobody wants.
SurroundingsKept ==
  Located =>
    /\ format = "named" /\ existing.kind = "map" => IsPrefix(Texts(existing.fields), Texts(doc.fields))
    /\ \A i \in DOMAIN ListFound.values :
         LET then == ListFound.values[i]
             now  == GroupList(doc).values[i]
         IN  /\ HeadOf(GroupList(doc), i) = HeadOf(ListFound, i)
             /\ now.kind = then.kind
             /\ then.kind = "scalar" => now = then
             /\ then.kind = "map" => IsPrefix(Texts(then.fields), Texts(now.fields))
             /\ then.kind = "map" /\ (\A k \in DOMAIN desired : desired[k].name # NameOf(then)) =>
                  Len(now.fields) = Len(then.fields) /\ now.flow = then.flow
=============================================================================
