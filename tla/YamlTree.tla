------------------------------ MODULE YamlTree ------------------------------
(***************************************************************************)
(* The YAML syntax tree as internal/merge/ast.go reads and repairs it.  A  *)
(* node of the tree is one of                                              *)
(*   [kind |-> "seq", flow, col, values, comment, heads]     a list        *)
(*   [kind |-> "map", flow, fields]    a mapping, a field [key, col, value]*)
(*   [kind |-> "entry", body, style, wrote]    an item of a group          *)
(*   [kind |-> "scalar", text]         anything else                       *)
(* flow is IsFlowStyle (written between brackets), col the column of the   *)
(* list's first token or of the field's key.  The head comment of a list's *)
(* first item is the list's own comment; those of the others are in heads, *)
(* which may be shorter than the list.  A key or a text that YAML does not *)
(* read as a string is NonString.                                          *)
(*                                                                         *)
(* Go repairs a tree in place, through pointers; here every operator       *)
(* returns the repaired node.                                              *)
(***************************************************************************)
EXTENDS Integers, Sequences, FiniteSets, SequencesExt

CONSTANT NonString

NoHead == [kind |-> "none", id |-> "", content |-> ""]

Scalar(text) == [kind |-> "scalar", text |-> text]

\* The column of "[" in a line like "items: []": it depends on the key, and is
\* never where a block list would start.
InlineColumn == 8

newEmptySequence ==
  [kind |-> "seq", flow |-> TRUE, col |-> 1, values |-> <<>>,
   comment |-> NoHead, heads |-> <<>>]

\* A field as parseMappingNode makes it, from "key: value" on a line of its own.
FreshField(key, value) == [key |-> key, col |-> 1, value |-> value]

EmptyList == [newEmptySequence EXCEPT !.col = InlineColumn]

Mapping(fields) == [kind |-> "map", flow |-> FALSE, fields |-> fields]

-----------------------------------------------------------------------------
(***************************************************************************)
(* seqEntry: an item together with its head comment.                       *)
(***************************************************************************)
\* Mutant: the comment of the first item is looked for with the others'.
HeadInSlot(seq, i) == IF i <= Len(seq.heads) THEN seq.heads[i] ELSE NoHead

HeadOf(seq, i) ==
  IF i = 1 THEN seq.comment
  ELSE IF i <= Len(seq.heads) THEN seq.heads[i]
  ELSE NoHead

readEntries(seq) ==
  [i \in DOMAIN seq.values |->
     [comment |-> HeadOf(seq, i), body |-> seq.values[i].body,
      style |-> seq.values[i].style, wrote |-> seq.values[i].wrote]]

NodeOf(e) == [kind |-> "entry", body |-> e.body, style |-> e.style, wrote |-> e.wrote]

writeEntries(seq, entries) ==
  IF DOMAIN entries = {}
  THEN newEmptySequence
  ELSE [seq EXCEPT !.flow    = FALSE,
                   !.values  = [i \in DOMAIN entries |-> NodeOf(entries[i])],
                   !.comment = entries[1].comment,
                   !.heads   = [i \in DOMAIN entries |->
                                  IF i = 1 THEN NoHead ELSE entries[i].comment]]

-----------------------------------------------------------------------------
(***************************************************************************)
(* Mappings.                                                               *)
(***************************************************************************)
\* The place of the first field of that key, 0 for none.
findField(mn, key) == SelectInSeq(mn.fields, LAMBDA f : f.key = key)

\* AddColumn on a field and what is in it, as deep as a dashboard goes: the list
\* of groups, groups, their items.
AddColumnToItems(node, delta) ==
  IF node.kind = "seq" THEN [node EXCEPT !.col = @ + delta] ELSE node

AddColumnToSetting(field, delta) ==
  [field EXCEPT !.col = @ + delta, !.value = AddColumnToItems(@, delta)]

AddColumnToGroup(node, delta) ==
  IF node.kind = "map"
  THEN [node EXCEPT !.fields = [i \in DOMAIN @ |-> AddColumnToSetting(@[i], delta)]]
  ELSE node

AddColumnToList(node, delta) ==
  IF node.kind = "seq"
  THEN [node EXCEPT !.col    = @ + delta,
                    !.values = [i \in DOMAIN @ |-> AddColumnToGroup(@[i], delta)]]
  ELSE node

AddColumn(field, delta) ==
  [field EXCEPT !.col = @ + delta, !.value = AddColumnToList(@, delta)]

\* Mutant: block style, and the columns of one line.
NormalizeFlagOnly(mn) == [mn EXCEPT !.flow = FALSE]

\* A mapping between braces becomes a block one, its fields under each other.
normalizeMappingFlowStyle(mn) ==
  IF mn.flow
  THEN [mn EXCEPT !.flow   = FALSE,
                  !.fields = [i \in DOMAIN @ |-> AddColumn(@[i], 1 - @[i].col)]]
  ELSE mn

getOrAppendField(mn, key) ==
  LET m      == normalizeMappingFlowStyle(mn)
      column == IF Len(m.fields) > 0 THEN m.fields[1].col ELSE 1
  IN  IF findField(m, key) # 0 THEN m
      ELSE [m EXCEPT !.fields =
              Append(@, AddColumn(FreshField(key, EmptyList), column - 1))]

-----------------------------------------------------------------------------
(***************************************************************************)
(* Lists.                                                                  *)
(***************************************************************************)
\* A list between brackets starts two columns right of its key once it is a
\* block list.
fixFlowStyleColumn(seq, keyColumn) ==
  IF seq.flow THEN [seq EXCEPT !.col = keyColumn + 2] ELSE seq

\* A list that holds groups is a block list.
normalizeGroupsListStyle(groups) ==
  [groups EXCEPT !.flow = @ /\ groups.values = <<>>]

\* Mutant: the comment of the appended group is put where the list of comments ends.
AppendShiftingHeads(groups, node) ==
  [groups EXCEPT !.flow = FALSE, !.values = Append(@, node),
                 !.heads = <<NoHead>> \o @]

\* A new group at the end of the list of groups, without a comment.
AppendGroup(groups, node) ==
  [groups EXCEPT !.flow = FALSE, !.values = Append(@, node), !.heads = Append(@, NoHead)]

-----------------------------------------------------------------------------
(***************************************************************************)
(* The trees a parser returns, and a printer may be given.                 *)
(***************************************************************************)
IsSequence(s) == Len(s) \in Nat /\ DOMAIN s = 1 .. Len(s)

ListNode(list) ==
  /\ DOMAIN list = DOMAIN newEmptySequence
  /\ list.flow \in BOOLEAN /\ list.col \in Int

MapNode(mn) ==
  /\ DOMAIN mn = DOMAIN Mapping(<<>>)
  /\ mn.flow \in BOOLEAN
  /\ IsSequence(mn.fields)
  /\ \A i \in DOMAIN mn.fields :
       DOMAIN mn.fields[i] = {"key", "col", "value"} /\ mn.fields[i].col \in Int

Bare(list) == list.comment = NoHead /\ \A i \in DOMAIN list.heads : list.heads[i] = NoHead

\* Between brackets there are no comments, and nothing that is not between
\* brackets itself.
FlowItems(node) ==
  node.kind = "seq" /\ node.flow =>
    Bare(node) /\ \A i \in DOMAIN node.values : node.values[i].style = "flow"

FlowGroup(node) ==
  node.kind = "map" =>
    \A i \in DOMAIN node.fields :
      LET value == node.fields[i].value
      IN  /\ FlowItems(value)
          /\ node.flow /\ value.kind = "seq" => value.flow

FlowGroups(list) ==
  \A i \in DOMAIN list.values :
    LET node == list.values[i]
    IN  /\ FlowGroup(node)
        /\ list.flow => Bare(list) /\ (node.kind = "map" => node.flow)

\* The fields of a block mapping stand under each other.
Aligned(node) ==
  node.kind = "map" /\ ~node.flow =>
    \A i, j \in DOMAIN node.fields : node.fields[i].col = node.fields[j].col

BlockList(node) == node.kind = "seq" /\ ~node.flow

\* Whatever stands in a list of a group, the merge sees its comment and its text.
WellFormedGroup(node) ==
  node.kind = "map" =>
    /\ MapNode(node) /\ Aligned(node) /\ FlowGroup(node)
    /\ \A i \in DOMAIN node.fields :
         LET value == node.fields[i].value
         IN  value.kind = "seq" =>
               /\ ListNode(value) /\ (BlockList(value) => DOMAIN value.values # {})
               /\ \A k \in DOMAIN value.values : value.values[k].kind = "entry"

WellFormedList(list) ==
  /\ ListNode(list) /\ IsSequence(list.values) /\ IsSequence(list.heads)
  /\ FlowGroups(list)
  /\ \A i \in DOMAIN list.values : WellFormedGroup(list.values[i])

Itemized(node) ==
  node.kind = "map" =>
    \A i \in DOMAIN node.fields :
      node.fields[i].value.kind = "seq" => IsSequence(node.fields[i].value.values)

\* A mapping that may hold the list of groups.
WellFormedMapping(mn) ==
  /\ MapNode(mn) /\ Aligned(mn)
  /\ \A i \in DOMAIN mn.fields :
       mn.fields[i].value.kind = "seq" =>
         WellFormedList(mn.fields[i].value) /\ (mn.flow => mn.fields[i].value.flow)
=============================================================================
