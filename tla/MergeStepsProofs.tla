-------------------------- MODULE MergeStepsProofs --------------------------
(***************************************************************************)
(* Theorems about one call of Merge on the tree: for every file a parser   *)
(* can return and every set of services, each step leaves a file that can  *)
(* be read again, with sound columns, and with all that the merge has no   *)
(* business with.                                                          *)
(*                                                                         *)
(* The three properties follow from one invariant, IInv: the tree is       *)
(* well-formed, every group is what the run found with at most fields      *)
(* added at its end, every block list of a group or around the groups      *)
(* stands where it was found (OffsetsKept), and while a group is worked on *)
(* it is open and its items are at hand.  It holds of one list at a time,  *)
(* so that an operation that replaces a group (or the list) needs to be    *)
(* shown only for that group (or list).                                    *)
(*                                                                         *)
(* That the call returns what module Merge says is a second invariant on   *)
(* top of it, AgreeInv: the groups and changes so far are those of the     *)
(* loop of module Merge after as many rounds, over wanted groups (Rounds), *)
(* then over a group's services (Passes), then over the swept groups       *)
(* (SweepInv).                                                             *)
(***************************************************************************)
EXTENDS MergeSteps, ListProofs, WellFoundedInduction, TLAPS

-----------------------------------------------------------------------------
(***************************************************************************)
(* What the operators of module YamlTree do to a well-formed tree: which   *)
(* parts of it they leave alone, and that the result is well-formed again. *)
(***************************************************************************)

\* g is the field f after its key and its value were moved together.
SameField(f, g) ==
  /\ DOMAIN g = DOMAIN f /\ g.col \in Int
  /\ g.key = f.key /\ g.value.kind = f.value.kind
  /\ f.value.kind # "seq" => g.value = f.value
  /\ f.value.kind = "seq" =>
       /\ ListNode(g.value) /\ g.value.flow = f.value.flow
       /\ g.value.comment = f.value.comment /\ g.value.heads = f.value.heads
       /\ DOMAIN g.value.values = DOMAIN f.value.values
       /\ \A i \in DOMAIN f.value.values :
            f.value.values[i].kind # "map" => g.value.values[i] = f.value.values[i]
       /\ g.value.col - g.col = f.value.col - f.col

IsField(f) ==
  /\ DOMAIN f = {"key", "col", "value"} /\ f.col \in Int
  /\ f.value.kind = "seq" => ListNode(f.value)

\* Any set of numbers has a least one.
LEMMA MinIsLeast ==
  ASSUME NEW I \in SUBSET Nat, I # {}
  PROVE  Min(I) \in I /\ \A i \in I : Min(I) <= i
<1>. DEFINE R == OpToRel(<, Nat)
<1>1. \A m, n \in Nat : <<m, n>> \in R <=> m < n
  BY DEF OpToRel
<1>2. IsWellFoundedOn(R, Nat)
  BY NatLessThanWellFounded
<1>. HIDE DEF R
<1>3. PICK m \in I : \A i \in I : <<i, m>> \notin R
  BY <1>2, WFMin
<1>4. ASSUME NEW i \in I PROVE m <= i
  <2>1. ~(i < m)
    BY <1>1, <1>3, Zenon
  <2>. QED
    BY <2>1
<1>. QED
  BY <1>3, <1>4 DEF Min

\* findField: the first field of that key, or 0 when there is none.
LEMMA FindField ==
  ASSUME NEW mn, IsSequence(mn.fields), NEW key
  PROVE  /\ findField(mn, key) = 0 => \A i \in DOMAIN mn.fields : mn.fields[i].key # key
         /\ findField(mn, key) # 0 =>
              /\ findField(mn, key) \in DOMAIN mn.fields
              /\ mn.fields[findField(mn, key)].key = key
              /\ \A i \in DOMAIN mn.fields : i < findField(mn, key) => mn.fields[i].key # key
<1>. DEFINE I == {i \in 1..Len(mn.fields) : mn.fields[i].key = key}
<1>1. findField(mn, key) = IF I # {} THEN Min(I) ELSE 0
  BY DEF findField, SelectInSeq
<1>2. I # {} => Min(I) \in I /\ \A i \in I : Min(I) <= i
  <2>1. I \subseteq Nat
    BY DEF IsSequence
  <2>. HIDE DEF I
  <2>. QED
    BY <2>1, MinIsLeast
<1>3. I = {i \in DOMAIN mn.fields : mn.fields[i].key = key} /\ 0 \notin I
  BY DEF IsSequence
<1>. HIDE DEF I
<1>4. I # {} => findField(mn, key) \in I /\ \A i \in I : findField(mn, key) <= i
  BY <1>1, <1>2
<1>5. I = {} => findField(mn, key) = 0
  BY <1>1
<1>6. CASE I = {}
  BY <1>3, <1>5, <1>6
<1>7. CASE I # {}
  <2>1. I \subseteq Nat
    BY <1>3 DEF IsSequence
  <2>2. findField(mn, key) # 0
    BY <1>3, <1>4, <1>7
  <2>3. ASSUME NEW i \in DOMAIN mn.fields, i < findField(mn, key)
        PROVE  mn.fields[i].key # key
    BY <1>3, <1>4, <1>7, <2>1, <2>3
  <2>. QED
    BY <1>3, <1>4, <1>7, <2>2, <2>3
<1>. QED
  BY <1>6, <1>7

\* It looks at nothing but the keys.
LEMMA FindFieldSame ==
  ASSUME NEW mn, NEW mn2, NEW key,
         Len(mn2.fields) = Len(mn.fields),
         \A i \in 1..Len(mn.fields) : mn2.fields[i].key = mn.fields[i].key
  PROVE  findField(mn2, key) = findField(mn, key)
<1>. DEFINE I(m) == {i \in 1..Len(m.fields) : m.fields[i].key = key}
<1>1. /\ findField(mn, key) = IF I(mn) # {} THEN Min(I(mn)) ELSE 0
      /\ findField(mn2, key) = IF I(mn2) # {} THEN Min(I(mn2)) ELSE 0
  BY DEF findField, SelectInSeq
<1>2. I(mn2) = I(mn)
  OBVIOUS
<1>. HIDE DEF I
<1>. QED
  BY <1>1, <1>2

\* AddColumn: the field and its list move together.
LEMMA AddColumnField ==
  ASSUME NEW f, IsField(f), NEW d \in Int
  PROVE  /\ IsField(AddColumn(f, d))
         /\ SameField(f, AddColumn(f, d))
         /\ AddColumn(f, d).col = f.col + d
         /\ f.value.kind = "seq" =>
              \A i \in DOMAIN f.value.values :
                AddColumn(f, d).value.values[i] = AddColumnToGroup(f.value.values[i], d)
<1>. DEFINE g == AddColumn(f, d)
<1>1. DOMAIN g = {"key", "col", "value"} /\ g.col = f.col + d /\ g.key = f.key
  BY DEF AddColumn, IsField
<1>2. CASE f.value.kind # "seq"
  BY <1>1, <1>2 DEF AddColumn, AddColumnToList, IsField, SameField
<1>3. CASE f.value.kind = "seq"
  <2>1. g.value = [f.value EXCEPT !.col = @ + d,
                     !.values = [i \in DOMAIN @ |-> AddColumnToGroup(@[i], d)]]
    BY <1>3 DEF AddColumn, AddColumnToList, IsField
  <2>2. DOMAIN f.value = {"kind", "flow", "col", "values", "comment", "heads"}
    BY <1>3 DEF IsField, ListNode, newEmptySequence
  <2>3. /\ DOMAIN g.value = DOMAIN f.value
        /\ g.value.kind = "seq" /\ g.value.flow = f.value.flow /\ g.value.col = f.value.col + d
        /\ g.value.comment = f.value.comment /\ g.value.heads = f.value.heads
        /\ g.value.values = [i \in DOMAIN f.value.values |-> AddColumnToGroup(f.value.values[i], d)]
    BY <1>3, <2>1, <2>2
  <2>4. ListNode(g.value)
    BY <1>3, <2>3 DEF IsField, ListNode, IsSequence
  <2>5. \A i \in DOMAIN f.value.values : f.value.values[i].kind # "map" =>
          AddColumnToGroup(f.value.values[i], d) = f.value.values[i]
    BY DEF AddColumnToGroup
  <2>. QED
    BY <1>1, <1>3, <2>3, <2>4, <2>5 DEF IsField, SameField, ListNode
<1>. QED
  BY <1>2, <1>3

-----------------------------------------------------------------------------
\* Every field of a well-formed group is one.
LEMMA GroupFields ==
  ASSUME NEW node, WellFormedGroup(node), node.kind = "map", NEW i \in DOMAIN node.fields
  PROVE  IsField(node.fields[i])
  BY DEF WellFormedGroup, MapNode, IsField

\* now is then with every field moved, and perhaps without its braces.
Moved(then, now) ==
  /\ now.kind = then.kind
  /\ then.kind # "map" => now = then
  /\ then.kind = "map" =>
       /\ MapNode(now)
       /\ now.flow => then.flow
       /\ Len(now.fields) = Len(then.fields)
       /\ \A i \in DOMAIN then.fields : SameField(then.fields[i], now.fields[i])

\* A sequence of the same length has the same places.
LEMMA SameLength ==
  ASSUME NEW s, NEW t, IsSequence(s), IsSequence(t), Len(s) = Len(t)
  PROVE  DOMAIN s = DOMAIN t
  BY DEF IsSequence

\* Only the empty sequence has no places.
LEMMA EmptySequence ==
  ASSUME NEW s, IsSequence(s), DOMAIN s = {}
  PROVE  Len(s) = 0
  BY DEF IsSequence

\* The same places make a sequence of a sequence.
LEMMA SamePlaces ==
  ASSUME NEW s, NEW t, IsSequence(s), DOMAIN t = DOMAIN s
  PROVE  IsSequence(t) /\ Len(t) = Len(s)
  BY DEF IsSequence

\* What is well-formed stays so when it is moved as a whole.
LEMMA MovedWellFormed ==
  ASSUME NEW then, NEW now, WellFormedGroup(then), Moved(then, now), Aligned(now)
  PROVE  /\ WellFormedGroup(now)
         /\ Itemized(then) => Itemized(now)
<1>1. CASE then.kind # "map"
  BY <1>1 DEF Moved, WellFormedGroup, Itemized
<1>2. CASE then.kind = "map"
  <2>1. now.kind = "map" /\ MapNode(now) /\ DOMAIN now.fields = DOMAIN then.fields
    BY <1>2, SameLength DEF Moved, WellFormedGroup, MapNode
  <2>2. ASSUME NEW i \in DOMAIN now.fields, now.fields[i].value.kind = "seq"
        PROVE  LET v == now.fields[i].value IN
               /\ ListNode(v) /\ (BlockList(v) => DOMAIN v.values # {})
               /\ \A k \in DOMAIN v.values : v.values[k].kind = "entry"
               /\ FlowItems(v)
               /\ now.flow => v.flow
               /\ Itemized(then) => IsSequence(v.values)
    <3>. DEFINE u == then.fields[i].value
                v == now.fields[i].value
    <3>1. i \in DOMAIN then.fields /\ SameField(then.fields[i], now.fields[i])
      BY <1>2, <2>1 DEF Moved
    <3>2. /\ u.kind = "seq" /\ ListNode(v) /\ v.flow = u.flow
          /\ v.comment = u.comment /\ v.heads = u.heads /\ DOMAIN v.values = DOMAIN u.values
          /\ \A k \in DOMAIN u.values : u.values[k].kind # "map" => v.values[k] = u.values[k]
      BY <2>2, <3>1 DEF SameField
    <3>3. /\ BlockList(u) => DOMAIN u.values # {}
          /\ \A k \in DOMAIN u.values : u.values[k].kind = "entry"
          /\ FlowItems(u)
          /\ then.flow => u.flow
          /\ Itemized(then) => IsSequence(u.values)
      BY <1>2, <3>1, <3>2 DEF WellFormedGroup, FlowGroup, Itemized
    <3>4. Itemized(then) => IsSequence(v.values)
      BY <3>2, <3>3, SamePlaces
    <3>. HIDE DEF u, v
    <3>8. \A k \in DOMAIN v.values : v.values[k] = u.values[k] /\ v.values[k].kind = "entry"
      BY <3>2, <3>3
    <3>5. FlowItems(v)
      BY <2>2, <3>2, <3>3, <3>8 DEF FlowItems, Bare, v
    <3>6. now.flow => v.flow
      BY <1>2, <3>2, <3>3 DEF Moved
    <3>7. BlockList(v) => DOMAIN v.values # {}
      BY <2>2, <3>2, <3>3 DEF BlockList
    <3>. QED
      BY <3>2, <3>4, <3>5, <3>6, <3>7, <3>8 DEF v
  <2>3. \A i \in DOMAIN now.fields : FlowItems(now.fields[i].value)
    BY <2>2 DEF FlowItems
  <2>. QED
    BY <2>1, <2>2, <2>3 DEF WellFormedGroup, FlowGroup, Itemized
<1>. QED
  BY <1>1, <1>2

\* AddColumnToGroup moves all fields by as much.
LEMMA AddColumnGroup ==
  ASSUME NEW node, WellFormedGroup(node), NEW d \in Int
  PROVE  LET now == AddColumnToGroup(node, d) IN
         /\ Moved(node, now) /\ WellFormedGroup(now)
         /\ Itemized(node) => Itemized(now)
         /\ node.kind = "map" => now.flow = node.flow
<1>. DEFINE now == AddColumnToGroup(node, d)
<1>1. CASE node.kind # "map"
  BY <1>1 DEF AddColumnToGroup, Moved, WellFormedGroup, Itemized
<1>2. CASE node.kind = "map"
  <2>1. /\ DOMAIN node = {"kind", "flow", "fields"} /\ node.flow \in BOOLEAN
        /\ IsSequence(node.fields)
    BY <1>2 DEF WellFormedGroup, MapNode, Mapping
  <2>2. /\ DOMAIN now = DOMAIN node /\ now.kind = "map" /\ now.flow = node.flow
        /\ now.fields = [i \in DOMAIN node.fields |-> AddColumnToSetting(node.fields[i], d)]
    BY <1>2, <2>1 DEF AddColumnToGroup
  <2>3. IsSequence(now.fields) /\ Len(now.fields) = Len(node.fields)
    BY <2>1, <2>2 DEF IsSequence
  <2>4. ASSUME NEW i \in DOMAIN node.fields
        PROVE  /\ SameField(node.fields[i], now.fields[i])
               /\ DOMAIN now.fields[i] = {"key", "col", "value"}
               /\ now.fields[i].col = node.fields[i].col + d /\ node.fields[i].col \in Int
    <3>. DEFINE f == node.fields[i]
                g == AddColumnToSetting(f, d)
    <3>1. now.fields[i] = g
      BY <2>2
    <3>2. IsField(f)
      BY <1>2, GroupFields
    <3>3. DOMAIN g = DOMAIN f /\ g.key = f.key /\ g.col = f.col + d
          /\ g.value = AddColumnToItems(f.value, d)
      BY <3>2 DEF AddColumnToSetting, IsField
    <3>4. CASE f.value.kind # "seq"
      BY <3>1, <3>2, <3>3, <3>4 DEF AddColumnToItems, IsField, SameField
    <3>5. CASE f.value.kind = "seq"
      <4>1. DOMAIN f.value = {"kind", "flow", "col", "values", "comment", "heads"}
            /\ f.value.flow \in BOOLEAN /\ f.value.col \in Int
        BY <3>2, <3>5 DEF IsField, ListNode, newEmptySequence
      <4>2. g.value = [f.value EXCEPT !.col = @ + d]
        BY <3>3, <3>5 DEF AddColumnToItems
      <4>3. /\ DOMAIN g.value = DOMAIN f.value
            /\ g.value.kind = "seq" /\ g.value.flow = f.value.flow /\ g.value.col = f.value.col + d
            /\ g.value.comment = f.value.comment /\ g.value.heads = f.value.heads
            /\ g.value.values = f.value.values
        BY <3>5, <4>1, <4>2
      <4>. QED
        BY <3>1, <3>2, <3>3, <3>5, <4>1, <4>3 DEF IsField, SameField, ListNode, newEmptySequence
    <3>. QED
      BY <3>4, <3>5
  <2>5. MapNode(now)
    BY <2>1, <2>2, <2>3, <2>4 DEF MapNode, Mapping
  <2>6. Moved(node, now)
    BY <1>2, <2>2, <2>3, <2>4, <2>5 DEF Moved
  <2>7. Aligned(now)
    <3>1. ~node.flow => \A i, j \in DOMAIN node.fields : node.fields[i].col = node.fields[j].col
      BY <1>2 DEF WellFormedGroup, Aligned
    <3>2. DOMAIN now.fields = DOMAIN node.fields /\ now.flow = node.flow
      BY <2>2
    <3>3. \A i \in DOMAIN node.fields : now.fields[i].col = node.fields[i].col + d
      BY <2>4
    <3>. HIDE DEF now
    <3>. QED
      BY <3>1, <3>2, <3>3 DEF Aligned
  <2>. QED
    BY <2>2, <2>6, <2>7, MovedWellFormed
<1>. QED
  BY <1>1, <1>2

\* A mapping as the parser returns it, whatever is in its lists.
IsMapping(mn) ==
  /\ mn.kind = "map" /\ MapNode(mn) /\ Aligned(mn)
  /\ \A i \in DOMAIN mn.fields : IsField(mn.fields[i])

\* A field that stays where it is.
LEMMA SameFieldItself ==
  ASSUME NEW f, IsField(f)
  PROVE  SameField(f, f)
  BY DEF SameField, IsField

\* normalizeMappingFlowStyle: the fields of a mapping between braces come to stand
\* under each other; any other mapping is left alone.
LEMMA Normalized ==
  ASSUME NEW mn, IsMapping(mn)
  PROVE  LET now == normalizeMappingFlowStyle(mn) IN
         /\ IsMapping(now) /\ ~now.flow /\ Moved(mn, now)
         /\ ~mn.flow => now = mn
         /\ mn.flow => \A i \in DOMAIN mn.fields :
                         now.fields[i] = AddColumn(mn.fields[i], 1 - mn.fields[i].col)
<1>. DEFINE now == normalizeMappingFlowStyle(mn)
<1>1. /\ DOMAIN mn = {"kind", "flow", "fields"} /\ mn.flow \in BOOLEAN
      /\ IsSequence(mn.fields)
  BY DEF IsMapping, MapNode, Mapping
<1>2. CASE ~mn.flow
  <2>1. now = mn
    BY <1>2 DEF normalizeMappingFlowStyle
  <2>2. \A i \in DOMAIN mn.fields : SameField(mn.fields[i], mn.fields[i])
    BY SameFieldItself DEF IsMapping
  <2>. QED
    BY <1>1, <1>2, <2>1, <2>2 DEF IsMapping, Moved
<1>3. CASE mn.flow
  <2>1. /\ DOMAIN now = DOMAIN mn /\ now.kind = "map" /\ now.flow = FALSE
        /\ now.fields = [i \in DOMAIN mn.fields |-> AddColumn(mn.fields[i], 1 - mn.fields[i].col)]
    BY <1>1, <1>3 DEF normalizeMappingFlowStyle, IsMapping
  <2>2. IsSequence(now.fields) /\ Len(now.fields) = Len(mn.fields)
    BY <1>1, <2>1 DEF IsSequence
  <2>3. ASSUME NEW i \in DOMAIN mn.fields
        PROVE  /\ SameField(mn.fields[i], now.fields[i])
               /\ IsField(now.fields[i]) /\ now.fields[i].col = 1
    <3>1. IsField(mn.fields[i])
      BY DEF IsMapping
    <3>2. 1 - mn.fields[i].col \in Int
      BY <3>1 DEF IsField
    <3>3. now.fields[i] = AddColumn(mn.fields[i], 1 - mn.fields[i].col)
      BY <2>1
    <3>4. /\ IsField(now.fields[i]) /\ SameField(mn.fields[i], now.fields[i])
          /\ now.fields[i].col = mn.fields[i].col + (1 - mn.fields[i].col)
      BY <3>1, <3>2, <3>3, AddColumnField
    <3>. QED
      BY <3>1, <3>4 DEF IsField
  <2>4. MapNode(now) /\ Aligned(now)
    BY <1>1, <2>1, <2>2, <2>3 DEF MapNode, Mapping, Aligned, IsField
  <2>. QED
    BY <1>3, <2>1, <2>2, <2>3, <2>4 DEF IsMapping, Moved
<1>. QED
  BY <1>1, <1>2, <1>3

\* getOrAppendField: the fields that are there, and after them the one that is
\* asked for if it is not among them, an empty list.
LEMMA GotOrAppended ==
  ASSUME NEW mn, IsMapping(mn), NEW key
  PROVE  LET m == normalizeMappingFlowStyle(mn)
             now == getOrAppendField(mn, key)
             f == findField(now, key) IN
         /\ IsMapping(now) /\ ~now.flow
         /\ f \in DOMAIN now.fields /\ now.fields[f].key = key
         /\ DOMAIN mn.fields \subseteq DOMAIN now.fields /\ DOMAIN m.fields = DOMAIN mn.fields
         /\ \A i \in DOMAIN mn.fields :
              now.fields[i] = m.fields[i] /\ SameField(mn.fields[i], now.fields[i])
         /\ findField(mn, key) # 0 => now = m /\ f = findField(mn, key)
         /\ findField(mn, key) = 0 =>
              /\ Len(now.fields) = Len(mn.fields) + 1 /\ f = Len(now.fields)
              /\ LET value == now.fields[f].value IN
                 /\ value.kind = "seq" /\ ListNode(value) /\ value.flow
                 /\ IsSequence(value.values) /\ DOMAIN value.values = {}
                 /\ IsSequence(value.heads) /\ Bare(value)
<1>. DEFINE m == normalizeMappingFlowStyle(mn)
            now == getOrAppendField(mn, key)
            f == findField(now, key)
            column == IF Len(m.fields) > 0 THEN m.fields[1].col ELSE 1
<1>1. /\ IsMapping(m) /\ ~m.flow /\ Moved(mn, m)
  BY Normalized
<1>2. /\ IsSequence(mn.fields) /\ IsSequence(m.fields) /\ Len(m.fields) = Len(mn.fields)
      /\ \A i \in DOMAIN mn.fields : SameField(mn.fields[i], m.fields[i])
  BY <1>1 DEF IsMapping, MapNode, Moved
<1>3. DOMAIN m.fields = DOMAIN mn.fields
  BY <1>2, SameLength
<1>4. findField(m, key) = findField(mn, key)
  <2>1. \A i \in 1..Len(mn.fields) : m.fields[i].key = mn.fields[i].key
    BY <1>2 DEF IsSequence, SameField
  <2>. QED
    BY <1>2, <2>1, FindFieldSame
<1>5. CASE findField(mn, key) # 0
  <2>1. now = m
    BY <1>4, <1>5 DEF getOrAppendField
  <2>2. f \in DOMAIN m.fields /\ m.fields[f].key = key
    BY <1>2, <1>4, <1>5, <2>1, FindField
  <2>. QED
    BY <1>1, <1>2, <1>3, <1>4, <1>5, <2>1, <2>2
<1>6. CASE findField(mn, key) = 0
  <2>. DEFINE new == AddColumn(FreshField(key, EmptyList), column - 1)
  <2>1. now = [m EXCEPT !.fields = Append(@, new)]
    BY <1>4, <1>6 DEF getOrAppendField
  <2>2. column \in Int /\ \A i \in DOMAIN m.fields : m.fields[i].col = column
    <3>1. CASE DOMAIN m.fields = {}
      BY <1>2, <3>1, EmptySequence
    <3>2. CASE DOMAIN m.fields # {}
      <4>1. 1 \in DOMAIN m.fields /\ Len(m.fields) > 0
        BY <1>2, <3>2 DEF IsSequence
      <4>2. column = m.fields[1].col
        BY <4>1
      <4>3. \A i \in DOMAIN m.fields : m.fields[i].col = m.fields[1].col
        BY <1>1, <4>1 DEF IsMapping, Aligned
      <4>. QED
        BY <1>1, <4>1, <4>2, <4>3 DEF IsMapping, IsField
    <3>. QED
      BY <3>1, <3>2
  <2>. HIDE DEF column
  <2>3. /\ ListNode(EmptyList) /\ EmptyList.kind = "seq" /\ EmptyList.flow
        /\ DOMAIN EmptyList.values = {} /\ EmptyList.comment = NoHead /\ EmptyList.heads = <<>>
    BY DEF EmptyList, newEmptySequence, ListNode, InlineColumn
  <2>4. IsField(FreshField(key, EmptyList)) /\ FreshField(key, EmptyList).value = EmptyList
        /\ FreshField(key, EmptyList).key = key /\ FreshField(key, EmptyList).col = 1
    BY <2>3 DEF IsField, FreshField
  <2>5. column - 1 \in Int
    BY <2>2
  <2>6. /\ IsField(new) /\ SameField(FreshField(key, EmptyList), new) /\ new.col = column
    <3>1. /\ IsField(new) /\ SameField(FreshField(key, EmptyList), new)
          /\ new.col = FreshField(key, EmptyList).col + (column - 1)
      BY <2>4, <2>5, AddColumnField
    <3>. QED
      BY <2>2, <2>4, <3>1
  <2>. HIDE DEF new
  <2>7. /\ new.key = key /\ new.value.kind = "seq" /\ ListNode(new.value) /\ new.value.flow
        /\ DOMAIN new.value.values = {} /\ new.value.heads = <<>> /\ new.value.comment = NoHead
    BY <2>3, <2>4, <2>6 DEF SameField
  <2>8. IsSequence(new.value.values) /\ IsSequence(new.value.heads) /\ Bare(new.value)
    <3>1. IsSequence(<<>>) /\ DOMAIN <<>> = {}
      BY DEF IsSequence
    <3>. QED
      BY <2>7, <3>1, SamePlaces DEF Bare
  <2>9. /\ DOMAIN m = {"kind", "flow", "fields"}
    BY <1>1 DEF IsMapping, MapNode, Mapping
  <2>10. /\ DOMAIN now = DOMAIN m /\ now.kind = "map" /\ now.flow = FALSE
         /\ now.fields = Append(m.fields, new)
    BY <1>1, <2>1, <2>9 DEF IsMapping, MapNode
  <2>11. /\ IsSequence(now.fields) /\ Len(now.fields) = Len(mn.fields) + 1
         /\ DOMAIN now.fields = 1..(Len(mn.fields) + 1)
         /\ now.fields[Len(mn.fields) + 1] = new
         /\ \A i \in DOMAIN m.fields : now.fields[i] = m.fields[i]
    BY <1>2, <2>10 DEF IsSequence
  <2>12. DOMAIN m.fields = 1..Len(mn.fields) /\ Len(mn.fields) \in Nat
    BY <1>2, <1>3 DEF IsSequence
  <2>13. \A i \in DOMAIN now.fields : IsField(now.fields[i]) /\ now.fields[i].col = column
    <3>1. \A i \in DOMAIN m.fields : IsField(m.fields[i])
      BY <1>1 DEF IsMapping
    <3>. QED
      BY <2>2, <2>6, <2>11, <2>12, <3>1
  <2>14. IsMapping(now)
    BY <2>9, <2>10, <2>11, <2>13 DEF IsMapping, MapNode, Mapping, Aligned, IsField
  <2>15. f = Len(mn.fields) + 1
    <3>1. now.fields[Len(mn.fields) + 1].key = key
      BY <2>7, <2>11
    <3>2. f # 0
      BY <2>11, <2>12, <3>1, FindField
    <3>3. f \in DOMAIN now.fields /\ now.fields[f].key = key
      BY <2>11, <3>2, FindField
    <3>4. \A i \in DOMAIN m.fields : m.fields[i].key # key
      BY <1>2, <1>4, <1>6, FindField
    <3>. QED
      BY <2>11, <2>12, <3>3, <3>4
  <2>. QED
    BY <1>2, <1>3, <1>6, <2>7, <2>8, <2>10, <2>11, <2>12, <2>14, <2>15
<1>. QED
  BY <1>5, <1>6

-----------------------------------------------------------------------------
\* fixFlowStyleColumn: nothing but the column of a list between brackets.
LEMMA FixedColumn ==
  ASSUME NEW seq, seq.kind = "seq", ListNode(seq), NEW c \in Int
  PROVE  LET now == fixFlowStyleColumn(seq, c) IN
         /\ now.kind = "seq" /\ ListNode(now)
         /\ now.flow = seq.flow /\ now.values = seq.values
         /\ now.comment = seq.comment /\ now.heads = seq.heads
         /\ ~seq.flow => now = seq
         /\ seq.flow => now.col = c + 2
<1>1. DOMAIN seq = {"kind", "flow", "col", "values", "comment", "heads"}
  BY DEF ListNode, newEmptySequence
<1>. QED
  BY <1>1 DEF fixFlowStyleColumn, ListNode

\* writeEntries: a block list of the entries in the place of the list, or brackets
\* around nothing.
LEMMA WrittenEntries ==
  ASSUME NEW seq, seq.kind = "seq", ListNode(seq), NEW items
  PROVE  LET now == writeEntries(seq, items) IN
         /\ now.kind = "seq" /\ ListNode(now) /\ FlowItems(now)
         /\ DOMAIN now.values = DOMAIN items
         /\ \A k \in DOMAIN now.values : now.values[k].kind = "entry"
         /\ now.flow <=> DOMAIN items = {}
         /\ ~now.flow => now.col = seq.col
<1>1. DOMAIN seq = {"kind", "flow", "col", "values", "comment", "heads"}
  BY DEF ListNode, newEmptySequence
<1>2. CASE DOMAIN items = {}
  BY <1>1, <1>2 DEF writeEntries, newEmptySequence, ListNode, FlowItems, Bare
<1>3. CASE DOMAIN items # {}
  <2>. DEFINE now == writeEntries(seq, items)
  <2>1. /\ DOMAIN now = DOMAIN seq /\ now.kind = "seq" /\ now.flow = FALSE /\ now.col = seq.col
        /\ now.values = [k \in DOMAIN items |-> NodeOf(items[k])]
    BY <1>1, <1>3 DEF writeEntries
  <2>2. \A k \in DOMAIN items : now.values[k].kind = "entry"
    BY <2>1 DEF NodeOf
  <2>. HIDE DEF now
  <2>. QED
    BY <1>1, <1>3, <2>1, <2>2 DEF ListNode, newEmptySequence, FlowItems, now
<1>. QED
  BY <1>2, <1>3

\* normalizeGroupsListStyle: brackets stay around nothing only.
LEMMA NormalizedList ==
  ASSUME NEW list, list.kind = "seq", WellFormedList(list)
  PROVE  LET now == normalizeGroupsListStyle(list) IN
         /\ now.kind = "seq" /\ WellFormedList(now)
         /\ now.values = list.values /\ now.col = list.col
         /\ now.comment = list.comment /\ now.heads = list.heads
         /\ ~list.flow => ~now.flow
         /\ now.flow => DOMAIN now.values = {}
<1>. DEFINE now == normalizeGroupsListStyle(list)
<1>1. /\ DOMAIN list = {"kind", "flow", "col", "values", "comment", "heads"}
      /\ list.flow \in BOOLEAN /\ list.col \in Int
  BY DEF WellFormedList, ListNode, newEmptySequence
<1>2. now = [list EXCEPT !.flow = @ /\ list.values = <<>>]
  BY DEF normalizeGroupsListStyle
<1>3. /\ DOMAIN now = DOMAIN list /\ now.kind = "seq" /\ now.values = list.values
      /\ now.col = list.col /\ now.comment = list.comment /\ now.heads = list.heads
  BY <1>1, <1>2
<1>4. /\ now.flow \in BOOLEAN
      /\ now.flow => list.flow /\ list.values = <<>>
      /\ ~list.flow => ~now.flow
  BY <1>1, <1>2
<1>5. ListNode(now)
  BY <1>1, <1>3, <1>4 DEF ListNode, newEmptySequence
<1>6. FlowGroups(now)
  BY <1>3, <1>4 DEF WellFormedList, FlowGroups, Bare
<1>. QED
  BY <1>3, <1>4, <1>5, <1>6 DEF WellFormedList

\* The list of groups with one of them replaced.
LEMMA ReplacedGroup ==
  ASSUME NEW list, list.kind = "seq", WellFormedList(list), ~list.flow,
         NEW i \in DOMAIN list.values, NEW now,
         DOMAIN now = DOMAIN list, DOMAIN now.values = DOMAIN list.values,
         now.kind = "seq", now.flow = list.flow, now.col = list.col,
         now.comment = list.comment, now.heads = list.heads,
         WellFormedGroup(now.values[i]),
         \A k \in DOMAIN list.values : k # i => now.values[k] = list.values[k]
  PROVE  WellFormedList(now)
<1>1. ListNode(now) /\ IsSequence(now.values)
  BY SamePlaces DEF WellFormedList, ListNode
<1>2. \A k \in DOMAIN now.values : WellFormedGroup(now.values[k])
  BY DEF WellFormedList
<1>3. FlowGroups(now)
  BY <1>2 DEF FlowGroups, WellFormedGroup, FlowGroup
<1>. QED
  BY <1>1, <1>2, <1>3 DEF WellFormedList

\* AppendGroup: the groups that are there with their comments, and one without.
LEMMA AppendedGroup ==
  ASSUME NEW list, list.kind = "seq", WellFormedList(list),
         NEW node, WellFormedGroup(node)
  PROVE  LET now == AppendGroup(list, node) IN
         /\ now.kind = "seq" /\ WellFormedList(now)
         /\ ~now.flow /\ now.col = list.col
         /\ Len(now.values) = Len(list.values) + 1
         /\ now.values[Len(list.values) + 1] = node
         /\ \A i \in DOMAIN list.values :
              now.values[i] = list.values[i] /\ HeadOf(now, i) = HeadOf(list, i)
<1>. DEFINE now == AppendGroup(list, node)
<1>1. /\ DOMAIN list = {"kind", "flow", "col", "values", "comment", "heads"}
      /\ list.flow \in BOOLEAN /\ list.col \in Int
      /\ IsSequence(list.values) /\ IsSequence(list.heads)
  BY DEF WellFormedList, ListNode, newEmptySequence
<1>2. /\ DOMAIN now = DOMAIN list /\ now.kind = "seq" /\ now.flow = FALSE /\ now.col = list.col
      /\ now.comment = list.comment
      /\ now.values = Append(list.values, node) /\ now.heads = Append(list.heads, NoHead)
  BY <1>1 DEF AppendGroup
<1>3. /\ IsSequence(now.values) /\ Len(now.values) = Len(list.values) + 1
      /\ now.values[Len(list.values) + 1] = node
      /\ \A i \in DOMAIN list.values : now.values[i] = list.values[i]
      /\ DOMAIN now.values = DOMAIN list.values \cup {Len(list.values) + 1}
  BY <1>1, <1>2 DEF IsSequence
<1>4. /\ IsSequence(now.heads) /\ Len(now.heads) = Len(list.heads) + 1
      /\ now.heads[Len(list.heads) + 1] = NoHead
      /\ \A i \in DOMAIN list.heads : now.heads[i] = list.heads[i]
  BY <1>1, <1>2 DEF IsSequence
<1>5. \A i \in DOMAIN list.values : HeadOf(now, i) = HeadOf(list, i)
  BY <1>1, <1>2, <1>4 DEF HeadOf, IsSequence
<1>6. \A i \in DOMAIN now.values : WellFormedGroup(now.values[i])
  BY <1>3 DEF WellFormedList
<1>7. FlowGroups(now)
  BY <1>2, <1>6 DEF FlowGroups, WellFormedGroup, FlowGroup
<1>8. ListNode(now)
  BY <1>1, <1>2 DEF ListNode, newEmptySequence
<1>. QED
  BY <1>2, <1>3, <1>4, <1>5, <1>6, <1>7, <1>8 DEF WellFormedList

-----------------------------------------------------------------------------
(***************************************************************************)
(* The inductive invariant.                                                *)
(***************************************************************************)
\* Where a list that was found, or is made, stands to its key.
Expected(then, i) ==
  IF i \in DOMAIN then.fields /\ BlockList(then.fields[i].value)
  THEN Offset(then.fields[i]) ELSE 2

CallInv ==
  /\ format \in {"homepage", "named"}
  /\ blank \in BOOLEAN
  /\ blank => existing = newEmptySequence
  /\ WellFormed(format, existing)
  /\ \A list \in Lists(format, existing) : \A i \in DOMAIN list.values : Itemized(list.values[i])
  /\ \A k \in DOMAIN desired : desired[k].name # NonString

Text(field) ==
  <<field.key, IF field.value.kind = "scalar" THEN field.value.text ELSE "list">>

TextsKept(then, now) ==
  /\ Len(then.fields) <= Len(now.fields)
  /\ \A i \in DOMAIN then.fields : Text(now.fields[i]) = Text(then.fields[i])

Unwanted(name) == \A k \in DOMAIN desired : desired[k].name # name

GroupKept(then, now) ==
  /\ now.kind = then.kind
  /\ then.kind # "map" => now = then
  /\ NameOf(now) = NameOf(then)
  /\ then.kind = "map" =>
       /\ TextsKept(then, now)
       /\ Unwanted(NameOf(then)) => Len(now.fields) = Len(then.fields) /\ now.flow = then.flow

BlocksKept(then, now) ==
  \A i \in DOMAIN then.fields :
    BlockList(then.fields[i].value) => i \in DOMAIN now.fields /\ BlockList(now.fields[i].value)

\* What the steps keep true of the list of groups.
ListInv(list) ==
  /\ list.kind = "seq" /\ WellFormedList(list)
  /\ list.flow => DOMAIN list.values = {}
  /\ Len(ListFound.values) <= Len(list.values)
  /\ \A i \in DOMAIN list.values :
       list.values[i].kind = "map" => OffsetsKept(Before(i), list.values[i])
  /\ \A i \in DOMAIN ListFound.values :
       /\ HeadOf(list, i) = HeadOf(ListFound, i)
       /\ GroupKept(ListFound.values[i], list.values[i])

\* Until the sweep no block list becomes an empty one between brackets: what is
\* between brackets then has never been a block list.
Unswept(list) ==
  \A i \in DOMAIN list.values : list.values[i].kind = "map" =>
    BlocksKept(Before(i), list.values[i]) /\ Itemized(list.values[i])

\* What the steps keep true of the mapping around the list.
TopInv(body) ==
  /\ body.kind = "map" /\ ~body.flow /\ TopField(body) # 0
  /\ OffsetsKept(TopFound, body)
  /\ Offset(body.fields[TopField(body)]) = Expected(TopFound, TopField(body))
  /\ existing.kind = "map" => TextsKept(existing, body)

DocInv(body) ==
  /\ WellFormed(format, body)
  /\ format = "named" => TopInv(body)
  /\ ListInv(GroupList(body))

\* The group that is being worked on is open.
OpenInv(list, i, name, items) ==
  LET node == list.values[i]
      f    == ItemsField(node)
  IN  /\ i \in DOMAIN list.values /\ ~list.flow
      /\ node.kind = "map" /\ ~node.flow /\ NameOf(node) = name
      /\ f \in DOMAIN node.fields /\ node.fields[f].value.kind = "seq"
      /\ Offset(node.fields[f]) = Expected(Before(i), f)
      /\ IsSequence(items)
      /\ BlockList(node.fields[f].value) => DOMAIN items # {}

IInv ==
  /\ CallInv
  /\ WellFormed(format, doc)
  /\ pc = "locate" => doc = existing
  /\ Located => DocInv(doc)
  /\ pc \in {"find", "apply"} => Unswept(GroupList(doc))
  /\ pc = "apply" => at \in DOMAIN desired /\ OpenInv(GroupList(doc), slot, desired[at].name, entries)

-----------------------------------------------------------------------------
(***************************************************************************)
(* Groups.                                                                 *)
(***************************************************************************)
\* g can be told from f by nothing but what is in its list.
Reads(f, g) ==
  /\ g.key = f.key /\ g.value.kind = f.value.kind
  /\ f.value.kind # "seq" => g.value = f.value

\* A mapping whose fields read the same has the same name and the same list.
LEMMA SameReading ==
  ASSUME format \in {"homepage", "named"}, NEW then, NEW now,
         then.kind = "map", now.kind = "map",
         IsSequence(then.fields), IsSequence(now.fields), Len(now.fields) = Len(then.fields),
         \A i \in DOMAIN then.fields : Reads(then.fields[i], now.fields[i])
  PROVE  NameOf(now) = NameOf(then) /\ ItemsField(now) = ItemsField(then)
<1>1. \A i \in 1..Len(then.fields) : now.fields[i].key = then.fields[i].key
  BY DEF Reads, IsSequence
<1>2. \A key : findField(now, key) = findField(then, key)
  BY <1>1, FindFieldSame
<1>3. ItemsField(now) = ItemsField(then)
  BY <1>2 DEF ItemsField
<1>4. CASE format = "homepage"
  <2>1. Len(then.fields) # 0 => 1 \in DOMAIN then.fields
    BY DEF IsSequence
  <2>. QED
    BY <1>3, <1>4, <2>1 DEF NameOf, Reads
<1>5. CASE format # "homepage"
  <2>. DEFINE f == findField(then, "name")
  <2>1. findField(now, "name") = f
    BY <1>2
  <2>2. f # 0 => f \in DOMAIN then.fields
    BY FindField
  <2>. HIDE DEF f
  <2>3. f # 0 => now.fields[f].value.kind = then.fields[f].value.kind
                 /\ (then.fields[f].value.kind = "scalar" => now.fields[f].value = then.fields[f].value)
    BY <2>2 DEF Reads
  <2>4. /\ NameOf(then) = IF f = 0 \/ then.fields[f].value.kind # "scalar" THEN NonString
                          ELSE then.fields[f].value.text
        /\ NameOf(now) = IF f = 0 \/ now.fields[f].value.kind # "scalar" THEN NonString
                         ELSE now.fields[f].value.text
    BY <1>5, <2>1 DEF NameOf, f
  <2>. QED
    BY <1>3, <2>3, <2>4
<1>. QED
  BY <1>4, <1>5

\* What a group is called, and where its items are.
LEMMA MovedReads ==
  ASSUME format \in {"homepage", "named"}, NEW then, NEW now,
         WellFormedGroup(then), Moved(then, now)
  PROVE  NameOf(now) = NameOf(then)
<1>1. CASE then.kind # "map"
  BY <1>1 DEF Moved
<1>2. CASE then.kind = "map"
  <2>1. \A i \in DOMAIN then.fields : Reads(then.fields[i], now.fields[i])
    BY <1>2 DEF Moved, SameField, Reads
  <2>2. now.kind = "map" /\ IsSequence(then.fields) /\ IsSequence(now.fields)
        /\ Len(now.fields) = Len(then.fields)
    BY <1>2 DEF Moved, WellFormedGroup, MapNode
  <2>. QED
    BY <1>2, <2>1, <2>2, SameReading
<1>. QED
  BY <1>1, <1>2

\* A list in a group is replaced.
LEMMA ReplacedItems ==
  ASSUME format \in {"homepage", "named"},
         NEW node, WellFormedGroup(node), node.kind = "map",
         NEW f \in DOMAIN node.fields, node.fields[f].value.kind = "seq",
         NEW list, list.kind = "seq", ListNode(list), FlowItems(list),
         ~list.flow => DOMAIN list.values # {}, node.flow => list.flow,
         \A k \in DOMAIN list.values : list.values[k].kind = "entry",
         NEW now, DOMAIN now = DOMAIN node, now.kind = "map", now.flow = node.flow,
         DOMAIN now.fields = DOMAIN node.fields,
         \A i \in DOMAIN node.fields : i # f => now.fields[i] = node.fields[i],
         DOMAIN now.fields[f] = DOMAIN node.fields[f],
         now.fields[f].key = node.fields[f].key, now.fields[f].col = node.fields[f].col,
         now.fields[f].value = list
  PROVE  /\ WellFormedGroup(now)
         /\ Itemized(node) /\ IsSequence(list.values) => Itemized(now)
         /\ Len(now.fields) = Len(node.fields)
         /\ \A i \in DOMAIN node.fields : Reads(node.fields[i], now.fields[i])
         /\ NameOf(now) = NameOf(node) /\ ItemsField(now) = ItemsField(node)
<1>1. IsSequence(node.fields) /\ IsSequence(now.fields) /\ Len(now.fields) = Len(node.fields)
  BY SamePlaces DEF WellFormedGroup, MapNode
<1>2. \A i \in DOMAIN node.fields : Reads(node.fields[i], now.fields[i])
  BY DEF Reads
<1>3. NameOf(now) = NameOf(node) /\ ItemsField(now) = ItemsField(node)
  BY <1>1, <1>2, SameReading
<1>4. MapNode(now) /\ Aligned(now)
  <2>1. \A i \in DOMAIN node.fields : now.fields[i].col = node.fields[i].col
    OBVIOUS
  <2>. QED
    BY <1>1, <2>1 DEF WellFormedGroup, MapNode, Aligned
<1>5. FlowGroup(now)
  BY DEF WellFormedGroup, FlowGroup
<1>6. \A i \in DOMAIN now.fields :
        LET value == now.fields[i].value
        IN  value.kind = "seq" =>
              /\ ListNode(value) /\ (BlockList(value) => DOMAIN value.values # {})
              /\ \A k \in DOMAIN value.values : value.values[k].kind = "entry"
  BY DEF WellFormedGroup, BlockList
<1>7. Itemized(node) /\ IsSequence(list.values) => Itemized(now)
  BY DEF Itemized
<1>. QED
  BY <1>1, <1>2, <1>3, <1>4, <1>5, <1>6, <1>7 DEF WellFormedGroup

\* The group's items are what they were, or there are none yet.
ItemsKept(then, now) ==
  readEntries(ItemsOf(now)) = IF ItemsField(then) = 0 THEN <<>> ELSE readEntries(ItemsOf(then))

\* now is the group then, ready to take block entries.
Opened(then, now) ==
  /\ now.kind = "map" /\ WellFormedGroup(now) /\ Itemized(now) /\ ~now.flow
  /\ NameOf(now) = NameOf(then)
  /\ Len(then.fields) <= Len(now.fields)
  /\ \A i \in DOMAIN then.fields : Reads(then.fields[i], now.fields[i])
  /\ \A i \in DOMAIN now.fields :
       BlockList(now.fields[i].value) <=> i \in DOMAIN then.fields /\ BlockList(then.fields[i].value)
  /\ \A i \in DOMAIN now.fields :
       BlockList(now.fields[i].value) => Offset(now.fields[i]) = Offset(then.fields[i])
  /\ ItemsField(now) \in DOMAIN now.fields
  /\ ItemsOf(now).kind = "seq"
  /\ ItemsOf(now).flow => Offset(now.fields[ItemsField(now)]) = 2
  /\ ItemsKept(then, now)

\* Lists with the same items and comments read the same.
LEMMA SameEntries ==
  ASSUME NEW then, NEW now, DOMAIN now.values = DOMAIN then.values,
         \A k \in DOMAIN then.values : now.values[k] = then.values[k],
         now.comment = then.comment, now.heads = then.heads
  PROVE  readEntries(now) = readEntries(then)
<1>1. \A k : HeadOf(now, k) = HeadOf(then, k)
  BY DEF HeadOf
<1>. QED
  BY <1>1 DEF readEntries

\* A list without items has no entries.
LEMMA NoEntries ==
  ASSUME NEW list, DOMAIN list.values = {}
  PROVE  readEntries(list) = <<>>
  BY DEF readEntries

\* Fields that were moved read the same.
LEMMA SameReads ==
  ASSUME NEW f, NEW g, SameField(f, g)
  PROVE  /\ Reads(f, g)
         /\ BlockList(g.value) <=> BlockList(f.value)
         /\ BlockList(f.value) => Offset(g) = Offset(f)
  BY DEF SameField, Reads, BlockList, Offset

\* A well-formed group is a mapping to the operators on mappings.
LEMMA GroupMapping ==
  ASSUME NEW node, WellFormedGroup(node), node.kind = "map"
  PROVE  IsMapping(node)
  BY GroupFields DEF WellFormedGroup, IsMapping

\* homepage.go: the only field's list is moved, and then the braces go.
LEMMA OpenHomepageGroup ==
  ASSUME format = "homepage", NEW node, WellFormedGroup(node), Itemized(node), node.kind = "map",
         NameOf(node) # NonString, ~Broken(node)
  PROVE  Opened(node, OpenGroup(node))
<1>. DEFINE fixed == [node EXCEPT !.fields[1].value = fixFlowStyleColumn(@, node.fields[1].col)]
            now == OpenGroup(node)
            list == fixFlowStyleColumn(node.fields[1].value, node.fields[1].col)
<1>1. /\ DOMAIN node = {"kind", "flow", "fields"} /\ node.flow \in BOOLEAN
      /\ IsSequence(node.fields) /\ 1 \in DOMAIN node.fields
      /\ IsField(node.fields[1]) /\ node.fields[1].value.kind = "seq"
  <2>1. IsSequence(node.fields) /\ 1 \in DOMAIN node.fields
    BY DEF WellFormedGroup, MapNode, IsSequence, NameOf
  <2>. QED
    BY <2>1, GroupFields DEF WellFormedGroup, MapNode, Mapping, Broken, ItemsOf, ItemsField
<1>2. /\ list.kind = "seq" /\ ListNode(list)
      /\ list.flow = node.fields[1].value.flow /\ list.values = node.fields[1].value.values
      /\ list.comment = node.fields[1].value.comment /\ list.heads = node.fields[1].value.heads
      /\ ~list.flow => list = node.fields[1].value
      /\ list.flow => list.col = node.fields[1].col + 2
  <2>1. ListNode(node.fields[1].value) /\ node.fields[1].col \in Int
    BY <1>1 DEF IsField
  <2>. DEFINE seq == node.fields[1].value
  <2>2. seq.kind = "seq" /\ ListNode(seq)
    BY <1>1, <2>1
  <2>. HIDE DEF fixed, now, seq
  <2>3. LET moved == fixFlowStyleColumn(seq, node.fields[1].col) IN
        /\ moved.kind = "seq" /\ ListNode(moved)
        /\ moved.flow = seq.flow /\ moved.values = seq.values
        /\ moved.comment = seq.comment /\ moved.heads = seq.heads
        /\ ~seq.flow => moved = seq
        /\ seq.flow => moved.col = node.fields[1].col + 2
    BY <2>1, <2>2, FixedColumn
  <2>. QED
    BY <2>3 DEF seq
<1>. HIDE DEF list
<1>3. /\ DOMAIN fixed = DOMAIN node /\ fixed.kind = "map" /\ fixed.flow = node.flow
      /\ DOMAIN fixed.fields = DOMAIN node.fields
      /\ \A i \in DOMAIN node.fields : i # 1 => fixed.fields[i] = node.fields[i]
      /\ DOMAIN fixed.fields[1] = DOMAIN node.fields[1]
      /\ fixed.fields[1].key = node.fields[1].key /\ fixed.fields[1].col = node.fields[1].col
      /\ fixed.fields[1].value = list
  BY <1>1 DEF IsField, list
<1>. HIDE DEF fixed
<1>4. /\ FlowItems(list) /\ (~list.flow => DOMAIN list.values # {}) /\ (node.flow => list.flow)
      /\ IsSequence(list.values)
      /\ \A k \in DOMAIN list.values : list.values[k].kind = "entry"
  BY <1>1, <1>2 DEF WellFormedGroup, FlowGroup, FlowItems, Bare, BlockList, Itemized
<1>5. /\ WellFormedGroup(fixed) /\ Itemized(fixed) /\ Len(fixed.fields) = Len(node.fields)
      /\ \A i \in DOMAIN node.fields : Reads(node.fields[i], fixed.fields[i])
      /\ NameOf(fixed) = NameOf(node)
  BY <1>1, <1>2, <1>3, <1>4, ReplacedItems
<1>6. IsMapping(fixed)
  BY <1>3, <1>5, GroupMapping
<1>7. now = normalizeMappingFlowStyle(fixed)
  BY DEF OpenGroup, fixed
<1>8. /\ ~now.flow /\ Moved(fixed, now) /\ IsMapping(now)
  BY <1>6, <1>7, Normalized
<1>. HIDE DEF now
<1>9. WellFormedGroup(now) /\ Itemized(now) /\ NameOf(now) = NameOf(node)
  BY <1>5, <1>8, MovedWellFormed, MovedReads DEF IsMapping
<1>10. /\ now.kind = "map" /\ IsSequence(now.fields) /\ Len(now.fields) = Len(node.fields)
       /\ DOMAIN now.fields = DOMAIN node.fields
  BY <1>1, <1>3, <1>5, <1>8, SameLength DEF Moved, IsMapping, MapNode
<1>11. \A i \in DOMAIN node.fields : SameField(fixed.fields[i], now.fields[i])
  BY <1>3, <1>8 DEF Moved
<1>12. ASSUME NEW i \in DOMAIN node.fields
       PROVE  /\ Reads(node.fields[i], now.fields[i])
              /\ BlockList(now.fields[i].value) <=> BlockList(node.fields[i].value)
              /\ BlockList(now.fields[i].value) => Offset(now.fields[i]) = Offset(node.fields[i])
  <2>1. /\ Reads(fixed.fields[i], now.fields[i])
        /\ BlockList(now.fields[i].value) <=> BlockList(fixed.fields[i].value)
        /\ BlockList(now.fields[i].value) => Offset(now.fields[i]) = Offset(fixed.fields[i])
    BY <1>11, SameReads
  <2>2. Reads(node.fields[i], now.fields[i])
    BY <1>5, <2>1 DEF Reads
  <2>3. /\ BlockList(fixed.fields[i].value) <=> BlockList(node.fields[i].value)
        /\ BlockList(fixed.fields[i].value) => Offset(fixed.fields[i]) = Offset(node.fields[i])
    <3>1. CASE i = 1
      BY <1>1, <1>2, <1>3, <3>1 DEF BlockList, Offset
    <3>2. CASE i # 1
      BY <1>3, <3>2
    <3>. QED
      BY <3>1, <3>2
  <2>. QED
    BY <2>1, <2>2, <2>3
<1>13. /\ ItemsField(now) = 1 /\ ItemsOf(now).kind = "seq"
       /\ ItemsOf(now).flow => Offset(now.fields[1]) = 2
  <2>1. SameField(fixed.fields[1], now.fields[1])
    BY <1>1, <1>11
  <2>2. /\ now.fields[1].value.kind = "seq" /\ now.fields[1].value.flow = list.flow
        /\ now.fields[1].value.col - now.fields[1].col = list.col - node.fields[1].col
    BY <1>2, <1>3, <2>1 DEF SameField
  <2>3. list.flow => list.col - node.fields[1].col = 2
    BY <1>1, <1>2 DEF IsField
  <2>. QED
    BY <2>2, <2>3 DEF ItemsField, ItemsOf, Offset
<1>14. Len(node.fields) \in Nat
  BY <1>1 DEF IsSequence
<1>15. ItemsKept(node, now)
  <2>. DEFINE seq == node.fields[1].value
              got == now.fields[1].value
  <2>1. SameField(fixed.fields[1], now.fields[1])
    BY <1>1, <1>11
  <2>2. /\ got.comment = list.comment /\ got.heads = list.heads
        /\ DOMAIN got.values = DOMAIN list.values
        /\ \A k \in DOMAIN list.values : got.values[k] = list.values[k]
    BY <1>2, <1>3, <1>4, <2>1 DEF SameField
  <2>3. list.values = seq.values /\ list.comment = seq.comment /\ list.heads = seq.heads
    BY <1>2
  <2>4. ItemsOf(now) = got /\ ItemsOf(node) = seq /\ ItemsField(node) = 1
    BY DEF ItemsOf, ItemsField
  <2>. HIDE DEF seq, got
  <2>5. readEntries(got) = readEntries(seq)
    BY <2>2, <2>3, SameEntries
  <2>. QED
    BY <2>4, <2>5 DEF ItemsKept
<1>. QED
  BY <1>1, <1>8, <1>9, <1>10, <1>12, <1>13, <1>14, <1>15 DEF Opened, now

\* A group that gets its list of items with getOrAppendField is well-formed.
LEMMA GroupGotOrAppended ==
  ASSUME NEW node, WellFormedGroup(node), Itemized(node), node.kind = "map", NEW key
  PROVE  LET m == getOrAppendField(node, key) IN
         /\ WellFormedGroup(m) /\ Itemized(m) /\ ~m.flow
         /\ \A i \in DOMAIN m.fields : i \notin DOMAIN node.fields => ~BlockList(m.fields[i].value)
<1>. DEFINE m == getOrAppendField(node, key)
            n == normalizeMappingFlowStyle(node)
            f == findField(m, key)
<1>1. IsMapping(node)
  BY GroupMapping
<1>2. /\ IsMapping(m) /\ ~m.flow
      /\ \A i \in DOMAIN node.fields : m.fields[i] = n.fields[i]
      /\ DOMAIN n.fields = DOMAIN node.fields
      /\ findField(node, key) # 0 => m = n
      /\ findField(node, key) = 0 =>
           /\ Len(m.fields) = Len(node.fields) + 1 /\ f = Len(m.fields)
           /\ LET value == m.fields[f].value IN
              /\ value.kind = "seq" /\ ListNode(value) /\ value.flow
              /\ IsSequence(value.values) /\ DOMAIN value.values = {}
              /\ IsSequence(value.heads) /\ Bare(value)
  BY <1>1, GotOrAppended
<1>3. IsMapping(n) /\ Moved(node, n)
  BY <1>1, Normalized
<1>. HIDE DEF m, n, f
<1>4. WellFormedGroup(n) /\ Itemized(n) /\ n.kind = "map"
  BY <1>3, MovedWellFormed DEF IsMapping
<1>5. CASE findField(node, key) # 0
  BY <1>2, <1>4, <1>5 DEF m
<1>6. CASE findField(node, key) = 0
  <2>1. /\ IsSequence(m.fields) /\ IsSequence(node.fields)
    BY <1>1, <1>2 DEF IsMapping, MapNode
  <2>2. DOMAIN m.fields = DOMAIN node.fields \cup {f} /\ f \notin DOMAIN node.fields
    BY <1>2, <1>6, <2>1 DEF IsSequence
  <2>3. /\ m.fields[f].value.kind = "seq" /\ ListNode(m.fields[f].value) /\ m.fields[f].value.flow
        /\ IsSequence(m.fields[f].value.values) /\ DOMAIN m.fields[f].value.values = {}
        /\ Bare(m.fields[f].value)
    BY <1>2, <1>6
  <2>4. FlowItems(m.fields[f].value) /\ ~BlockList(m.fields[f].value)
    BY <2>3 DEF FlowItems, BlockList
  <2>5. \A i \in DOMAIN node.fields :
          LET value == m.fields[i].value IN
          /\ FlowItems(value)
          /\ value.kind = "seq" => ListNode(value) /\ IsSequence(value.values)
          /\ value.kind = "seq" => \A k \in DOMAIN value.values : value.values[k].kind = "entry"
          /\ BlockList(value) => DOMAIN value.values # {}
    BY <1>2, <1>4 DEF WellFormedGroup, FlowGroup, Itemized, BlockList
  <2>6. m.kind = "map" /\ MapNode(m) /\ Aligned(m)
    BY <1>2 DEF IsMapping
  <2>7. FlowGroup(m)
    BY <1>2, <2>2, <2>4, <2>5 DEF FlowGroup
  <2>8. WellFormedGroup(m)
    BY <2>2, <2>3, <2>4, <2>5, <2>6, <2>7 DEF WellFormedGroup
  <2>9. Itemized(m)
    BY <2>2, <2>3, <2>5 DEF Itemized
  <2>. QED
    BY <1>2, <2>2, <2>4, <2>8, <2>9 DEF m
<1>. QED
  BY <1>5, <1>6

\* dashy.go, homer.go: the braces go, the list of items is found or made, and then
\* it is moved.
LEMMA OpenNamedGroup ==
  ASSUME format = "named", NEW node, WellFormedGroup(node), Itemized(node), node.kind = "map",
         NameOf(node) # NonString, ~Broken(node)
  PROVE  Opened(node, OpenGroup(node))
<1>. DEFINE m == getOrAppendField(node, "items")
            f == ItemsField(m)
            list == fixFlowStyleColumn(m.fields[f].value, m.fields[f].col)
            now == OpenGroup(node)
<1>1. IsMapping(node)
  BY GroupMapping
<1>2. f = findField(m, "items")
  BY DEF ItemsField
<1>3. /\ IsMapping(m) /\ ~m.flow /\ f \in DOMAIN m.fields
      /\ DOMAIN node.fields \subseteq DOMAIN m.fields
      /\ \A i \in DOMAIN node.fields : SameField(node.fields[i], m.fields[i])
      /\ findField(node, "items") # 0 => f = findField(node, "items")
      /\ findField(node, "items") = 0 =>
           m.fields[f].value.kind = "seq" /\ DOMAIN m.fields[f].value.values = {}
      /\ m.fields[f].key = "items"
      /\ findField(node, "items") # 0 => Len(m.fields) = Len(node.fields)
      /\ findField(node, "items") = 0 => Len(m.fields) = Len(node.fields) + 1 /\ f = Len(m.fields)
  <2>. DEFINE n == normalizeMappingFlowStyle(node)
  <2>1. /\ IsMapping(m) /\ ~m.flow /\ f \in DOMAIN m.fields
        /\ DOMAIN node.fields \subseteq DOMAIN m.fields /\ m.fields[f].key = "items"
        /\ \A i \in DOMAIN node.fields : SameField(node.fields[i], m.fields[i])
        /\ findField(node, "items") # 0 => m = n /\ f = findField(node, "items")
        /\ findField(node, "items") = 0 =>
             /\ m.fields[f].value.kind = "seq" /\ DOMAIN m.fields[f].value.values = {}
             /\ Len(m.fields) = Len(node.fields) + 1 /\ f = Len(m.fields)
    BY <1>1, <1>2, GotOrAppended
  <2>2. Len(n.fields) = Len(node.fields)
    BY <1>1, Normalized DEF Moved, IsMapping
  <2>. HIDE DEF m, f, n
  <2>. QED
    BY <2>1, <2>2
<1>4. /\ WellFormedGroup(m) /\ Itemized(m)
      /\ \A i \in DOMAIN m.fields : i \notin DOMAIN node.fields => ~BlockList(m.fields[i].value)
  BY GroupGotOrAppended
<1>. HIDE DEF m
<1>5. m.fields[f].value.kind = "seq"
  <2>1. CASE findField(node, "items") = 0
    BY <1>3, <2>1
  <2>2. CASE findField(node, "items") # 0
    <3>1. ItemsField(node) = f /\ f # 0 /\ node.fields[f].value.kind = "seq"
      BY <1>3, <2>2 DEF Broken, ItemsField, ItemsOf
    <3>2. f \in DOMAIN node.fields
      BY <1>1, <2>2, <1>3, FindField DEF IsMapping, MapNode
    <3>. QED
      BY <1>3, <3>1, <3>2 DEF SameField
  <2>. QED
    BY <2>1, <2>2
<1>6. m.kind = "map" /\ DOMAIN m = {"kind", "flow", "fields"} /\ IsField(m.fields[f])
  BY <1>3 DEF IsMapping, MapNode, Mapping
<1>7. now = [m EXCEPT !.fields[f].value = fixFlowStyleColumn(@, m.fields[f].col)]
  BY DEF OpenGroup, m
<1>. HIDE DEF f
<1>8. /\ list.kind = "seq" /\ ListNode(list)
      /\ list.flow = m.fields[f].value.flow /\ list.values = m.fields[f].value.values
      /\ list.comment = m.fields[f].value.comment /\ list.heads = m.fields[f].value.heads
      /\ ~m.fields[f].value.flow => list = m.fields[f].value
      /\ m.fields[f].value.flow => list.col = m.fields[f].col + 2
  <2>. DEFINE seq == m.fields[f].value
  <2>1. seq.kind = "seq" /\ ListNode(seq) /\ m.fields[f].col \in Int
    BY <1>5, <1>6 DEF IsField
  <2>. HIDE DEF now, seq
  <2>2. LET moved == fixFlowStyleColumn(seq, m.fields[f].col) IN
        /\ moved.kind = "seq" /\ ListNode(moved)
        /\ moved.flow = seq.flow /\ moved.values = seq.values
        /\ moved.comment = seq.comment /\ moved.heads = seq.heads
        /\ ~seq.flow => moved = seq
        /\ seq.flow => moved.col = m.fields[f].col + 2
    BY <2>1, FixedColumn
  <2>. QED
    BY <2>2 DEF seq
<1>9. /\ DOMAIN now = DOMAIN m /\ now.kind = "map" /\ now.flow = m.flow
      /\ DOMAIN now.fields = DOMAIN m.fields
      /\ \A i \in DOMAIN m.fields : i # f => now.fields[i] = m.fields[i]
      /\ DOMAIN now.fields[f] = DOMAIN m.fields[f]
      /\ now.fields[f].key = m.fields[f].key /\ now.fields[f].col = m.fields[f].col
      /\ now.fields[f].value = list
  <2>. HIDE DEF now
  <2>. QED
    BY <1>3, <1>6, <1>7 DEF IsField
<1>. HIDE DEF now, list
<1>10. /\ FlowItems(list) /\ (~list.flow => DOMAIN list.values # {}) /\ (m.flow => list.flow)
       /\ IsSequence(list.values)
       /\ \A k \in DOMAIN list.values : list.values[k].kind = "entry"
  <2>. DEFINE seq == m.fields[f].value
  <2>1. f \in DOMAIN m.fields
    BY <1>3
  <2>2. FlowItems(seq) /\ (m.flow => seq.flow)
    BY <1>4, <1>5, <1>6, <2>1 DEF WellFormedGroup, FlowGroup
  <2>3. /\ ~seq.flow => DOMAIN seq.values # {}
        /\ \A k \in DOMAIN seq.values : seq.values[k].kind = "entry"
    BY <1>4, <1>5, <1>6, <2>1 DEF WellFormedGroup, BlockList
  <2>4. IsSequence(seq.values)
    BY <1>4, <1>5, <1>6, <2>1 DEF Itemized
  <2>. HIDE DEF seq
  <2>5. /\ seq.kind = "seq" /\ list.flow = seq.flow /\ list.values = seq.values
        /\ list.comment = seq.comment /\ list.heads = seq.heads
    BY <1>5, <1>8 DEF seq
  <2>6. FlowItems(list)
    BY <2>2, <2>5 DEF FlowItems, Bare
  <2>. QED
    BY <2>2, <2>3, <2>4, <2>5, <2>6
<1>11. /\ WellFormedGroup(now) /\ Itemized(now) /\ Len(now.fields) = Len(m.fields)
       /\ \A i \in DOMAIN m.fields : Reads(m.fields[i], now.fields[i])
       /\ NameOf(now) = NameOf(m) /\ ItemsField(now) = ItemsField(m)
  BY <1>3, <1>4, <1>5, <1>6, <1>8, <1>9, <1>10, ReplacedItems
<1>12. NameOf(m) = NameOf(node)
  <2>. DEFINE k == findField(node, "name")
  <2>1. IsSequence(node.fields) /\ IsSequence(m.fields)
    BY <1>1, <1>3 DEF IsMapping, MapNode
  <2>2. \A i \in DOMAIN m.fields : i \in DOMAIN node.fields \/ i = f
    BY <1>3, <2>1 DEF IsSequence
  <2>3. findField(m, "name") = k
    <3>1. CASE findField(node, "items") # 0
      <4>1. \A i \in 1..Len(node.fields) : m.fields[i].key = node.fields[i].key
        BY <1>3, <2>1 DEF SameField, IsSequence
      <4>. QED
        BY <1>3, <3>1, <4>1, FindFieldSame
    <3>2. CASE findField(node, "items") = 0
      <4>1. f = Len(node.fields) + 1 /\ DOMAIN node.fields = 1..Len(node.fields)
            /\ DOMAIN m.fields = 1..(Len(node.fields) + 1) /\ Len(node.fields) \in Nat
        BY <1>3, <2>1, <3>2 DEF IsSequence
      <4>2. \A i \in DOMAIN node.fields : m.fields[i].key = node.fields[i].key
        BY <1>3 DEF SameField
      <4>3. /\ k = 0 => \A i \in DOMAIN node.fields : node.fields[i].key # "name"
            /\ k # 0 => /\ k \in DOMAIN node.fields /\ node.fields[k].key = "name"
                       /\ \A i \in DOMAIN node.fields : i < k => node.fields[i].key # "name"
        BY <2>1, FindField
      <4>. DEFINE j == findField(m, "name")
      <4>4. /\ j = 0 => \A i \in DOMAIN m.fields : m.fields[i].key # "name"
            /\ j # 0 => /\ j \in DOMAIN m.fields /\ m.fields[j].key = "name"
                       /\ \A i \in DOMAIN m.fields : i < j => m.fields[i].key # "name"
        BY <2>1, FindField
      <4>. HIDE DEF k, j
      <4>5. j # 0 => j \in DOMAIN node.fields
        BY <1>3, <2>2, <4>4
      <4>6. j = k
        BY <1>3, <4>1, <4>2, <4>3, <4>4, <4>5
      <4>. QED
        BY <4>6 DEF j
    <3>. QED
      BY <3>1, <3>2
  <2>4. k # 0 => k \in DOMAIN node.fields
    BY <2>1, FindField
  <2>5. k # 0 => SameField(node.fields[k], m.fields[k])
    BY <1>3, <2>4
  <2>. HIDE DEF k
  <2>6. /\ NameOf(node) = IF k = 0 \/ node.fields[k].value.kind # "scalar" THEN NonString
                          ELSE node.fields[k].value.text
        /\ NameOf(m) = IF k = 0 \/ m.fields[k].value.kind # "scalar" THEN NonString
                       ELSE m.fields[k].value.text
    BY <1>6, <2>3 DEF NameOf, k
  <2>. QED
    BY <2>5, <2>6 DEF SameField
<1>13. Len(node.fields) <= Len(now.fields) /\ DOMAIN now.fields = DOMAIN m.fields
  BY <1>1, <1>3, <1>9, <1>11 DEF IsMapping, MapNode, IsSequence
<1>14. ASSUME NEW i \in DOMAIN node.fields
       PROVE  /\ Reads(node.fields[i], now.fields[i])
              /\ BlockList(now.fields[i].value) <=> BlockList(node.fields[i].value)
              /\ BlockList(now.fields[i].value) => Offset(now.fields[i]) = Offset(node.fields[i])
  <2>1. i \in DOMAIN m.fields
    BY <1>3
  <2>2. /\ Reads(node.fields[i], m.fields[i])
        /\ BlockList(m.fields[i].value) <=> BlockList(node.fields[i].value)
        /\ BlockList(node.fields[i].value) => Offset(m.fields[i]) = Offset(node.fields[i])
    BY <1>3, SameReads
  <2>3. Reads(node.fields[i], now.fields[i])
    BY <1>11, <2>1, <2>2 DEF Reads
  <2>4. /\ BlockList(now.fields[i].value) <=> BlockList(m.fields[i].value)
        /\ BlockList(m.fields[i].value) => Offset(now.fields[i]) = Offset(m.fields[i])
    <3>1. CASE i = f
      BY <1>5, <1>8, <1>9, <3>1 DEF BlockList, Offset
    <3>2. CASE i # f
      BY <1>9, <2>1, <3>2
    <3>. QED
      BY <3>1, <3>2
  <2>. QED
    BY <2>2, <2>3, <2>4
<1>15. \A i \in DOMAIN now.fields : i \notin DOMAIN node.fields => ~BlockList(now.fields[i].value)
  <2>1. BlockList(now.fields[f].value) <=> BlockList(m.fields[f].value)
    BY <1>5, <1>8, <1>9 DEF BlockList
  <2>. QED
    BY <1>4, <1>9, <1>13, <2>1
<1>16. /\ ItemsField(now) = f /\ f \in DOMAIN now.fields
       /\ ItemsOf(now).kind = "seq"
       /\ ItemsOf(now).flow => Offset(now.fields[f]) = 2
  <2>1. ItemsField(now) = f
    BY <1>11 DEF f
  <2>2. list.flow => list.col - m.fields[f].col = 2
    BY <1>6, <1>8 DEF IsField
  <2>. QED
    BY <1>3, <1>8, <1>9, <2>1, <2>2 DEF ItemsOf, Offset
<1>17. ItemsKept(node, now)
  <2>1. ItemsOf(now) = list
    BY <1>9, <1>16 DEF ItemsOf
  <2>2. CASE findField(node, "items") = 0
    <3>1. DOMAIN list.values = {} /\ ItemsField(node) = 0
      BY <1>3, <1>8, <2>2 DEF ItemsField
    <3>. QED
      BY <2>1, <3>1, NoEntries DEF ItemsKept
  <2>3. CASE findField(node, "items") # 0
    <3>. DEFINE seq == node.fields[f].value
    <3>1. f \in DOMAIN node.fields /\ ItemsField(node) = f /\ f # 0
      BY <1>1, <1>3, <2>3, FindField DEF IsMapping, MapNode, ItemsField
    <3>2. SameField(node.fields[f], m.fields[f]) /\ seq.kind = "seq"
      BY <1>3, <1>5, <3>1 DEF SameField
    <3>3. \A k \in DOMAIN seq.values : seq.values[k].kind = "entry"
      BY <3>1, <3>2 DEF WellFormedGroup
    <3>4. /\ list.comment = seq.comment /\ list.heads = seq.heads
          /\ DOMAIN list.values = DOMAIN seq.values
          /\ \A k \in DOMAIN seq.values : list.values[k] = seq.values[k]
      BY <1>8, <3>2, <3>3 DEF SameField
    <3>5. ItemsOf(node) = seq
      BY <3>1 DEF ItemsOf
    <3>. HIDE DEF seq
    <3>6. readEntries(list) = readEntries(seq)
      BY <3>4, SameEntries
    <3>. QED
      BY <2>1, <3>1, <3>5, <3>6 DEF ItemsKept
  <2>. QED
    BY <2>2, <2>3
<1>. QED
  BY <1>3, <1>6, <1>9, <1>11, <1>12, <1>13, <1>14, <1>15, <1>16, <1>17 DEF Opened, now

\* GroupAt: a group of that name, or 0 when there is none.
LEMMA GroupFound ==
  ASSUME NEW list, IsSequence(list.values), NEW name
  PROVE  LET i == GroupAt(list, name) IN
         i # 0 => i \in DOMAIN list.values /\ NameOf(list.values[i]) = name
<1>. DEFINE I == {i \in 1..Len(list.values) : NameOf(list.values[i]) = name}
<1>1. GroupAt(list, name) = IF I # {} THEN Min(I) ELSE 0
  BY DEF GroupAt, SelectInSeq
<1>2. I # {} => Min(I) \in I
  <2>1. I \subseteq Nat
    BY DEF IsSequence
  <2>. HIDE DEF I
  <2>. QED
    BY <2>1, MinIsLeast
<1>3. Min(I) \in I => Min(I) \in DOMAIN list.values /\ NameOf(list.values[Min(I)]) = name
  BY DEF IsSequence
<1>. HIDE DEF I
<1>. QED
  BY <1>1, <1>2, <1>3

\* What an open group is, whatever it was before.
Ready(node, name) ==
  /\ node.kind = "map" /\ WellFormedGroup(node) /\ Itemized(node) /\ ~node.flow
  /\ NameOf(node) = name
  /\ ItemsField(node) \in DOMAIN node.fields /\ ItemsOf(node).kind = "seq"
  /\ ItemsOf(node).flow => Offset(node.fields[ItemsField(node)]) = 2

\* The empty list of a fresh field is a list like any other.
LEMMA FreshList ==
  /\ EmptyList.kind = "seq" /\ ListNode(EmptyList) /\ EmptyList.flow
  /\ EmptyList.values = <<>> /\ EmptyList.heads = <<>> /\ EmptyList.comment = NoHead
  /\ FlowItems(EmptyList) /\ ~BlockList(EmptyList) /\ IsSequence(EmptyList.values)
<1>1. /\ EmptyList.kind = "seq" /\ ListNode(EmptyList) /\ EmptyList.flow
      /\ EmptyList.values = <<>> /\ EmptyList.heads = <<>> /\ EmptyList.comment = NoHead
  BY DEF EmptyList, newEmptySequence, InlineColumn, ListNode
<1>. QED
  BY <1>1 DEF FlowItems, BlockList, Bare, IsSequence

\* A group dashsync makes is open, and none of its lists is a block list yet.
LEMMA MadeGroup ==
  ASSUME format \in {"homepage", "named"}, NEW name, name # NonString
  PROVE  /\ Ready(NewGroup(name), name)
         /\ \A i \in DOMAIN NewGroup(name).fields : ~BlockList(NewGroup(name).fields[i].value)
         /\ readEntries(ItemsOf(NewGroup(name))) = <<>>
<1>. DEFINE now == NewGroup(name)
<1>1. SUFFICES ASSUME NEW node, node.kind = "map", WellFormedGroup(node), Itemized(node),
                      NameOf(node) = name, ~Broken(node), now = OpenGroup(node),
                      readEntries(ItemsOf(node)) = <<>>,
                      \A i \in DOMAIN node.fields : ~BlockList(node.fields[i].value)
               PROVE  /\ Ready(now, name)
                      /\ \A i \in DOMAIN now.fields : ~BlockList(now.fields[i].value)
                      /\ readEntries(ItemsOf(now)) = <<>>
  <2>1. CASE format = "homepage"
    <3>. DEFINE node == Mapping(<<FreshField(name, EmptyList)>>)
    <3>1. /\ node.kind = "map" /\ ~node.flow /\ DOMAIN node = DOMAIN Mapping(<<>>)
          /\ node.flow \in BOOLEAN /\ Len(node.fields) = 1 /\ DOMAIN node.fields = {1}
          /\ node.fields[1].key = name /\ node.fields[1].col = 1
          /\ node.fields[1].value = EmptyList /\ DOMAIN node.fields[1] = {"key", "col", "value"}
      BY DEF Mapping, FreshField
    <3>2. NameOf(node) = name /\ ~Broken(node) /\ now = OpenGroup(node) /\ ItemsOf(node) = EmptyList
      <4>1. now = OpenGroup(node)
        BY <2>1 DEF NewGroup
      <4>. HIDE DEF node, now
      <4>. QED
        BY <2>1, <3>1, <4>1, FreshList DEF NameOf, Broken, ItemsField, ItemsOf
    <3>. HIDE DEF node
    <3>3. WellFormedGroup(node) /\ Itemized(node) /\ ~BlockList(node.fields[1].value)
      BY <3>1, FreshList
      DEF WellFormedGroup, Itemized, MapNode, Aligned, FlowGroup, IsSequence
    <3>4. readEntries(ItemsOf(node)) = <<>>
      BY <3>2, FreshList, NoEntries
    <3>. QED
      BY <1>1, <3>1, <3>2, <3>3, <3>4
  <2>2. CASE format = "named"
    <3>. DEFINE node == Mapping(<<FreshField("name", Scalar(name)), FreshField("items", EmptyList)>>)
    <3>1. /\ node.kind = "map" /\ ~node.flow /\ DOMAIN node = DOMAIN Mapping(<<>>)
          /\ node.flow \in BOOLEAN /\ Len(node.fields) = 2 /\ DOMAIN node.fields = {1, 2}
          /\ node.fields[1].key = "name" /\ node.fields[1].col = 1
          /\ node.fields[1].value = Scalar(name) /\ DOMAIN node.fields[1] = {"key", "col", "value"}
          /\ node.fields[2].key = "items" /\ node.fields[2].col = 1
          /\ node.fields[2].value = EmptyList /\ DOMAIN node.fields[2] = {"key", "col", "value"}
      BY DEF Mapping, FreshField
    <3>2. now = OpenGroup(node)
      BY <2>2 DEF NewGroup
    <3>. HIDE DEF node, now
    <3>3. IsSequence(node.fields)
      BY <3>1 DEF IsSequence
    <3>4. /\ Scalar(name).kind = "scalar" /\ Scalar(name).text = name
      BY DEF Scalar
    <3>5. findField(node, "name") = 1 /\ findField(node, "items") = 2
      BY <3>1, <3>3, FindField
    <3>6. NameOf(node) = name /\ ~Broken(node) /\ ItemsOf(node) = EmptyList
      BY <2>2, <3>1, <3>4, <3>5, FreshList DEF NameOf, Broken, ItemsField, ItemsOf
    <3>7. ~BlockList(node.fields[1].value) /\ ~BlockList(node.fields[2].value)
      BY <3>1, <3>4, FreshList DEF BlockList
    <3>8. WellFormedGroup(node) /\ Itemized(node)
      BY <3>1, <3>3, <3>4, <3>7, FreshList
      DEF WellFormedGroup, Itemized, MapNode, Aligned, FlowGroup, FlowItems
    <3>9. \A i \in DOMAIN node.fields : ~BlockList(node.fields[i].value)
      BY <3>1, <3>7
    <3>10. readEntries(ItemsOf(node)) = <<>>
      BY <3>6, FreshList, NoEntries
    <3>. QED
      BY <1>1, <3>1, <3>2, <3>6, <3>8, <3>9, <3>10 DEF now
  <2>. QED
    BY <2>1, <2>2
<1>. HIDE DEF now
<1>2. Opened(node, now)
  BY <1>1, OpenHomepageGroup, OpenNamedGroup
<1>. QED
  BY <1>1, <1>2 DEF Opened, Ready, ItemsKept

\* Opening a group keeps what is known of it.
LEMMA OpeningKeeps ==
  ASSUME NEW then, NEW node, NEW now, Opened(node, now), WellFormedGroup(node), node.kind = "map"
  PROVE  /\ Ready(now, NameOf(node))
         /\ OffsetsKept(then, node) => OffsetsKept(then, now)
         /\ BlocksKept(then, node) => BlocksKept(then, now)
         /\ WellFormedGroup(then) /\ GroupKept(then, node) /\ ~Unwanted(NameOf(node)) =>
              GroupKept(then, now)
<1>1. /\ Ready(now, NameOf(node))
  BY DEF Opened, Ready
<1>2. IsSequence(node.fields) /\ IsSequence(now.fields)
  BY DEF Opened, WellFormedGroup, MapNode
<1>3. DOMAIN node.fields \subseteq DOMAIN now.fields
  BY <1>2 DEF Opened, IsSequence
<1>4. OffsetsKept(then, node) => OffsetsKept(then, now)
  BY DEF OffsetsKept, Opened
<1>5. BlocksKept(then, node) => BlocksKept(then, now)
  BY <1>3 DEF BlocksKept, Opened
<1>6. ASSUME WellFormedGroup(then), GroupKept(then, node), ~Unwanted(NameOf(node))
      PROVE  GroupKept(then, now)
  <2>1. then.kind = "map" /\ now.kind = "map" /\ TextsKept(then, node) /\ NameOf(node) = NameOf(then)
    <3>1. node.kind = then.kind /\ (then.kind = "map" => TextsKept(then, node)) /\ NameOf(node) = NameOf(then)
      BY <1>6 DEF GroupKept
    <3>. QED
      BY <3>1 DEF Opened
  <2>2. NameOf(now) = NameOf(then)
    BY <2>1 DEF Opened
  <2>3. \A i \in DOMAIN node.fields : Text(now.fields[i]) = Text(node.fields[i])
    BY DEF Opened, Reads, Text
  <2>4. TextsKept(then, now)
    <3>1. /\ Len(then.fields) <= Len(node.fields) /\ DOMAIN node.fields = 1 .. Len(node.fields)
          /\ DOMAIN then.fields = 1 .. Len(then.fields)
          /\ Len(then.fields) \in Nat /\ Len(node.fields) \in Nat /\ Len(now.fields) \in Nat
          /\ \A i \in DOMAIN then.fields : Text(node.fields[i]) = Text(then.fields[i])
      BY <1>2, <1>6, <2>1 DEF TextsKept, IsSequence, WellFormedGroup, MapNode
    <3>2. Len(node.fields) <= Len(now.fields)
      BY DEF Opened
    <3>. QED
      BY <2>3, <3>1, <3>2 DEF TextsKept
  <2>. QED
    BY <1>6, <2>1, <2>2, <2>4 DEF GroupKept
<1>. QED
  BY <1>1, <1>4, <1>5, <1>6

-----------------------------------------------------------------------------
(***************************************************************************)
(* The list of groups and the mapping around it.                           *)
(***************************************************************************)
\* now is the list then, every group of it moved.
ListMoved(then, now) ==
  /\ now.kind = "seq" /\ WellFormedList(now)
  /\ Len(now.values) = Len(then.values)
  /\ \A i \in DOMAIN then.values :
       /\ HeadOf(now, i) = HeadOf(then, i)
       /\ Moved(then.values[i], now.values[i])
       /\ then.values[i].kind = "map" => now.values[i].flow = then.values[i].flow
       /\ Itemized(then.values[i]) => Itemized(now.values[i])

\* AddColumn on the field of the list moves every group.
LEMMA AddColumnList ==
  ASSUME NEW f, IsField(f), f.value.kind = "seq", WellFormedList(f.value), NEW d \in Int
  PROVE  ListMoved(f.value, AddColumn(f, d).value)
<1>. DEFINE then == f.value
            now == AddColumn(f, d).value
<1>1. /\ now.kind = "seq" /\ ListNode(now) /\ now.flow = then.flow
      /\ now.comment = then.comment /\ now.heads = then.heads
      /\ DOMAIN now.values = DOMAIN then.values
      /\ \A i \in DOMAIN then.values : now.values[i] = AddColumnToGroup(then.values[i], d)
  BY AddColumnField DEF SameField
<1>. HIDE DEF now
<1>2. /\ IsSequence(then.values) /\ IsSequence(then.heads)
      /\ \A i \in DOMAIN then.values : WellFormedGroup(then.values[i])
      /\ FlowGroups(then)
  BY DEF WellFormedList
<1>. HIDE DEF then
<1>3. \A i \in DOMAIN then.values :
        /\ Moved(then.values[i], now.values[i]) /\ WellFormedGroup(now.values[i])
        /\ Itemized(then.values[i]) => Itemized(now.values[i])
        /\ then.values[i].kind = "map" => now.values[i].flow = then.values[i].flow
  BY <1>1, <1>2, AddColumnGroup
<1>4. \A i \in DOMAIN then.values : HeadOf(now, i) = HeadOf(then, i)
  BY <1>1 DEF HeadOf
<1>5. IsSequence(now.values) /\ Len(now.values) = Len(then.values)
  BY <1>1, <1>2, SamePlaces
<1>6. FlowGroups(now)
  <2>1. ASSUME NEW i \in DOMAIN then.values
        PROVE  /\ FlowGroup(now.values[i])
               /\ now.flow => Bare(now) /\ (now.values[i].kind = "map" => now.values[i].flow)
    <3>1. FlowGroup(now.values[i])
      BY <1>3 DEF WellFormedGroup, FlowGroup
    <3>2. then.flow => Bare(then) /\ (then.values[i].kind = "map" => then.values[i].flow)
      BY <1>2 DEF FlowGroups
    <3>3. now.values[i].kind = then.values[i].kind
      BY <1>3 DEF Moved
    <3>. QED
      BY <1>1, <1>3, <3>1, <3>2, <3>3 DEF Bare
  <2>. QED
    BY <1>1, <2>1 DEF FlowGroups
<1>7. WellFormedList(now)
  BY <1>1, <1>2, <1>3, <1>5, <1>6 DEF WellFormedList
<1>. QED
  BY <1>1, <1>3, <1>4, <1>5, <1>7 DEF ListMoved, now, then

\* A list that was not touched is one that was moved by nothing.
LEMMA ListItself ==
  ASSUME NEW list, list.kind = "seq", WellFormedList(list)
  PROVE  ListMoved(list, list)
<1>1. ASSUME NEW i \in DOMAIN list.values, list.values[i].kind = "map"
      PROVE  Moved(list.values[i], list.values[i])
  <2>. DEFINE node == list.values[i]
  <2>1. WellFormedGroup(node) /\ node.kind = "map"
    BY <1>1 DEF WellFormedList
  <2>. HIDE DEF node
  <2>2. \A k \in DOMAIN node.fields : SameField(node.fields[k], node.fields[k])
    BY <2>1, GroupFields, SameFieldItself
  <2>3. Moved(node, node)
    BY <2>1, <2>2 DEF Moved, WellFormedGroup
  <2>. QED
    BY <2>3 DEF node
<1>2. \A i \in DOMAIN list.values : Moved(list.values[i], list.values[i])
  BY <1>1 DEF Moved
<1>. QED
  BY <1>2 DEF ListMoved

\* What the run found is as a parser returns it.
LEMMA FoundList ==
  ASSUME CallInv
  PROVE  /\ ListFound.kind = "seq" /\ WellFormedList(ListFound)
         /\ \A i \in DOMAIN ListFound.values : Itemized(ListFound.values[i])
         /\ SeenRoot = "groups" => ListFound = GroupList(existing)
<1>1. CASE SeenRoot # "groups"
  BY <1>1 DEF ListFound, newEmptySequence, WellFormedList, ListNode, IsSequence, FlowGroups
<1>2. CASE SeenRoot = "groups" /\ format = "homepage"
  <2>1. ListFound = existing /\ existing.kind = "seq"
    BY <1>2 DEF ListFound, SeenRoot, Locatable, GroupList
  <2>2. existing \in Lists(format, existing)
    BY <1>2, <2>1 DEF Lists
  <2>. QED
    BY <1>2, <2>1, <2>2 DEF CallInv, WellFormed, GroupList
<1>3. CASE SeenRoot = "groups" /\ format = "named"
  <2>. DEFINE T == TopField(existing)
  <2>1. ~blank /\ T # 0 /\ existing.kind = "map" /\ existing.fields[T].value.kind = "seq"
    BY <1>3 DEF SeenRoot, Locatable, Start, TopField
  <2>2. WellFormedMapping(existing)
    BY <1>3, <2>1 DEF CallInv, WellFormed
  <2>3. T \in DOMAIN existing.fields
    BY <2>1, <2>2, FindField DEF TopField, WellFormedMapping, MapNode
  <2>4. ListFound = existing.fields[T].value /\ GroupList(existing) = existing.fields[T].value
    BY <1>3 DEF ListFound, GroupList
  <2>5. existing.fields[T].value \in Lists(format, existing)
    BY <1>3, <2>1, <2>3 DEF Lists
  <2>6. WellFormedList(existing.fields[T].value)
    BY <2>1, <2>2, <2>3 DEF WellFormedMapping
  <2>. QED
    BY <1>3, <2>1, <2>4, <2>5, <2>6 DEF CallInv
<1>. QED
  BY <1>1, <1>2, <1>3 DEF CallInv

\* A list of groups that was moved as a whole, and has no brackets unless it is
\* empty, has everything its author gave it.
LEMMA MovedListInv ==
  ASSUME CallInv, NEW list, ListMoved(ListFound, list), list.flow => DOMAIN list.values = {}
  PROVE  ListInv(list) /\ Unswept(list)
<1>1. /\ ListFound.kind = "seq" /\ WellFormedList(ListFound)
      /\ \A i \in DOMAIN ListFound.values : Itemized(ListFound.values[i])
  BY FoundList
<1>2. /\ IsSequence(list.values) /\ IsSequence(ListFound.values)
      /\ Len(list.values) = Len(ListFound.values) /\ DOMAIN list.values = DOMAIN ListFound.values
  BY <1>1, SameLength DEF ListMoved, WellFormedList
<1>3. ASSUME NEW i \in DOMAIN ListFound.values
      PROVE  /\ GroupKept(ListFound.values[i], list.values[i])
             /\ list.values[i].kind = "map" =>
                  /\ OffsetsKept(ListFound.values[i], list.values[i])
                  /\ BlocksKept(ListFound.values[i], list.values[i])
                  /\ Itemized(list.values[i])
  <2>. DEFINE then == ListFound.values[i]
              now == list.values[i]
  <2>1. /\ Moved(then, now) /\ WellFormedGroup(then) /\ Itemized(now)
        /\ then.kind = "map" => now.flow = then.flow
    BY <1>1 DEF ListMoved, WellFormedList
  <2>. HIDE DEF then, now
  <2>2. NameOf(now) = NameOf(then)
    BY <2>1, MovedReads DEF CallInv
  <2>3. CASE then.kind # "map"
    BY <2>1, <2>2, <2>3 DEF Moved, GroupKept, then, now
  <2>4. CASE then.kind = "map"
    <3>1. /\ IsSequence(then.fields) /\ IsSequence(now.fields) /\ Len(now.fields) = Len(then.fields)
          /\ now.kind = "map"
      BY <2>1, <2>4 DEF Moved, WellFormedGroup, MapNode
    <3>2. DOMAIN now.fields = DOMAIN then.fields
      BY <3>1, SameLength
    <3>3. \A k \in DOMAIN then.fields :
            /\ Reads(then.fields[k], now.fields[k])
            /\ BlockList(now.fields[k].value) <=> BlockList(then.fields[k].value)
            /\ BlockList(then.fields[k].value) => Offset(now.fields[k]) = Offset(then.fields[k])
      BY <2>1, <2>4, SameReads DEF Moved
    <3>4. OffsetsKept(then, now) /\ BlocksKept(then, now)
      BY <3>2, <3>3 DEF OffsetsKept, BlocksKept
    <3>5. \A k \in DOMAIN then.fields : Text(now.fields[k]) = Text(then.fields[k])
      BY <3>3 DEF Reads, Text
    <3>6. TextsKept(then, now)
      BY <3>1, <3>5 DEF TextsKept, IsSequence
    <3>7. GroupKept(then, now)
      BY <2>1, <2>2, <2>4, <3>1, <3>6 DEF GroupKept
    <3>. QED
      BY <2>1, <3>4, <3>7 DEF then, now
  <2>. QED
    BY <2>3, <2>4
<1>4. \A i \in DOMAIN ListFound.values : Before(i) = ListFound.values[i]
  BY DEF Before
<1>5. Len(ListFound.values) <= Len(list.values)
  BY <1>2 DEF IsSequence
<1>6. \A i \in DOMAIN ListFound.values : HeadOf(list, i) = HeadOf(ListFound, i)
  BY DEF ListMoved
<1>7. ListInv(list)
  BY <1>2, <1>3, <1>4, <1>5, <1>6 DEF ListInv, ListMoved
<1>. QED
  BY <1>2, <1>3, <1>4, <1>7 DEF Unswept

\* A mapping that may hold the list of groups is a mapping to the operators on
\* mappings.
LEMMA TopMapping ==
  ASSUME NEW mn, WellFormedMapping(mn), mn.kind = "map"
  PROVE  IsMapping(mn) /\ \A i \in DOMAIN mn.fields : IsField(mn.fields[i])
<1>1. \A i \in DOMAIN mn.fields : IsField(mn.fields[i])
  BY DEF WellFormedMapping, MapNode, IsField, WellFormedList
<1>. QED
  BY <1>1 DEF IsMapping, WellFormedMapping

\* The mapping without its braces.
LEMMA TopNormalized ==
  ASSUME NEW mn, WellFormedMapping(mn), mn.kind = "map"
  PROVE  LET now == normalizeMappingFlowStyle(mn) IN
         /\ WellFormedMapping(now)
         /\ \A i \in DOMAIN mn.fields : mn.fields[i].value.kind = "seq" =>
              ListMoved(mn.fields[i].value, now.fields[i].value)
<1>. DEFINE now == normalizeMappingFlowStyle(mn)
<1>1. IsMapping(mn) /\ \A i \in DOMAIN mn.fields : IsField(mn.fields[i])
  BY TopMapping
<1>2. /\ IsMapping(now) /\ ~now.flow /\ Moved(mn, now)
      /\ ~mn.flow => now = mn
      /\ mn.flow => \A i \in DOMAIN mn.fields :
                      now.fields[i] = AddColumn(mn.fields[i], 1 - mn.fields[i].col)
  BY <1>1, Normalized
<1>. HIDE DEF now
<1>3. DOMAIN now.fields = DOMAIN mn.fields
  BY <1>1, <1>2, SameLength DEF Moved, IsMapping, MapNode
<1>4. ASSUME NEW i \in DOMAIN mn.fields, mn.fields[i].value.kind = "seq"
      PROVE  ListMoved(mn.fields[i].value, now.fields[i].value)
  <2>1. WellFormedList(mn.fields[i].value) /\ IsField(mn.fields[i])
    BY <1>1, <1>4 DEF WellFormedMapping
  <2>2. CASE ~mn.flow
    BY <1>2, <1>4, <2>1, <2>2, ListItself
  <2>3. CASE mn.flow
    <3>. DEFINE d == 1 - mn.fields[i].col
    <3>1. d \in Int
      BY <2>1 DEF IsField
    <3>2. now.fields[i] = AddColumn(mn.fields[i], d)
      BY <1>2, <2>3
    <3>. HIDE DEF d
    <3>. QED
      BY <1>4, <2>1, <3>1, <3>2, AddColumnList
  <2>. QED
    BY <2>2, <2>3
<1>5. \A i \in DOMAIN now.fields :
        now.fields[i].value.kind = "seq" => WellFormedList(now.fields[i].value)
  <2>1. \A i \in DOMAIN mn.fields : now.fields[i].value.kind = mn.fields[i].value.kind
    BY <1>2 DEF Moved, SameField, IsMapping
  <2>. QED
    BY <1>3, <1>4, <2>1 DEF ListMoved
<1>6. WellFormedMapping(now)
  BY <1>2, <1>5 DEF WellFormedMapping, IsMapping
<1>. QED
  BY <1>4, <1>6 DEF now

\* The mapping with the list of groups in it.
LEMMA TopGotOrAppended ==
  ASSUME NEW mn, WellFormedMapping(mn), mn.kind = "map", NEW key
  PROVE  LET now == getOrAppendField(mn, key)
             f   == findField(now, key) IN
         /\ WellFormedMapping(now)
         /\ \A i \in DOMAIN mn.fields : mn.fields[i].value.kind = "seq" =>
              ListMoved(mn.fields[i].value, now.fields[i].value)
         /\ findField(mn, key) = 0 => WellFormedList(now.fields[f].value)
<1>. DEFINE now == getOrAppendField(mn, key)
            n == normalizeMappingFlowStyle(mn)
            f == findField(now, key)
<1>1. IsMapping(mn)
  BY TopMapping
<1>2. /\ IsMapping(now) /\ ~now.flow
      /\ DOMAIN n.fields = DOMAIN mn.fields
      /\ \A i \in DOMAIN mn.fields : now.fields[i] = n.fields[i]
      /\ findField(mn, key) # 0 => now = n
      /\ findField(mn, key) = 0 =>
           /\ Len(now.fields) = Len(mn.fields) + 1 /\ f = Len(now.fields)
           /\ LET value == now.fields[f].value IN
              /\ value.kind = "seq" /\ ListNode(value) /\ value.flow
              /\ IsSequence(value.values) /\ DOMAIN value.values = {}
              /\ IsSequence(value.heads) /\ Bare(value)
  BY <1>1, GotOrAppended
<1>3. /\ WellFormedMapping(n)
      /\ \A i \in DOMAIN mn.fields : mn.fields[i].value.kind = "seq" =>
           ListMoved(mn.fields[i].value, n.fields[i].value)
  BY TopNormalized
<1>. HIDE DEF now, n, f
<1>4. CASE findField(mn, key) # 0
  BY <1>2, <1>3, <1>4 DEF now, f
<1>5. CASE findField(mn, key) = 0
  <2>1. DOMAIN now.fields = DOMAIN mn.fields \cup {f}
    BY <1>1, <1>2, <1>5 DEF IsMapping, MapNode, IsSequence
  <2>2. WellFormedList(now.fields[f].value)
    BY <1>2, <1>5 DEF WellFormedList, FlowGroups
  <2>3. \A i \in DOMAIN now.fields :
          now.fields[i].value.kind = "seq" => WellFormedList(now.fields[i].value)
    BY <1>2, <1>3, <2>1, <2>2 DEF WellFormedMapping
  <2>4. WellFormedMapping(now)
    BY <1>2, <2>3 DEF WellFormedMapping, IsMapping
  <2>. QED
    BY <1>2, <1>3, <2>2, <2>4 DEF now, f
<1>. QED
  BY <1>4, <1>5

\* A list that may hold groups is put in its place.
SetIn(body, f, list, now) ==
  /\ now.kind = "map" /\ now.flow = body.flow
  /\ DOMAIN now.fields = DOMAIN body.fields /\ Len(now.fields) = Len(body.fields)
  /\ TopField(now) = f
  /\ \A i \in DOMAIN body.fields : i # f => now.fields[i] = body.fields[i]
  /\ now.fields[f].key = body.fields[f].key /\ now.fields[f].col = body.fields[f].col
  /\ now.fields[f].value = list

\* SetGroupList in a mapping: the list is in its place, everything else is as it was.
LEMMA ListSet ==
  ASSUME format = "named",
         NEW body, WellFormedMapping(body), body.kind = "map", ~body.flow, TopField(body) # 0,
         NEW list, list.kind = "seq", WellFormedList(list)
  PROVE  LET now == SetGroupList(body, list) IN
         /\ WellFormedMapping(now) /\ GroupList(now) = list
         /\ SetIn(body, TopField(body), list, now)
         /\ TopField(body) \in DOMAIN body.fields
<1>. DEFINE now == SetGroupList(body, list)
            f == TopField(body)
<1>1. /\ DOMAIN body = {"kind", "flow", "fields"} /\ IsSequence(body.fields)
      /\ \A i \in DOMAIN body.fields : IsField(body.fields[i])
  BY TopMapping DEF IsMapping, MapNode, Mapping
<1>2. f \in DOMAIN body.fields
  BY <1>1, FindField DEF TopField
<1>3. now = [body EXCEPT !.fields[f].value = list]
  BY DEF SetGroupList
<1>. HIDE DEF f, now
<1>4. /\ DOMAIN now = DOMAIN body /\ now.kind = "map" /\ now.flow = body.flow
      /\ DOMAIN now.fields = DOMAIN body.fields
      /\ \A i \in DOMAIN body.fields : i # f => now.fields[i] = body.fields[i]
      /\ DOMAIN now.fields[f] = DOMAIN body.fields[f]
      /\ now.fields[f].key = body.fields[f].key /\ now.fields[f].col = body.fields[f].col
      /\ now.fields[f].value = list
  BY <1>1, <1>2, <1>3 DEF IsField
<1>5. IsSequence(now.fields) /\ Len(now.fields) = Len(body.fields)
  BY <1>1, <1>4, SamePlaces
<1>6. TopField(now) = f
  <2>1. \A i \in 1 .. Len(body.fields) : now.fields[i].key = body.fields[i].key
    BY <1>1, <1>4 DEF IsSequence
  <2>. QED
    BY <1>5, <2>1, FindFieldSame DEF TopField, f
<1>7. GroupList(now) = list
  BY <1>4, <1>6 DEF GroupList
<1>8. \A i \in DOMAIN body.fields : now.fields[i].col = body.fields[i].col
  BY <1>4
<1>9. MapNode(now) /\ Aligned(now)
  BY <1>1, <1>4, <1>5, <1>8 DEF MapNode, Aligned, WellFormedMapping
<1>10. WellFormedMapping(now)
  BY <1>4, <1>9 DEF WellFormedMapping
<1>. QED
  BY <1>2, <1>4, <1>5, <1>6, <1>7, <1>10 DEF SetIn, now, f

\* A list that stands where the one before it stood leaves the invariant alone.
LEMMA ListReplaced ==
  ASSUME CallInv, NEW body, DocInv(body),
         NEW list, ListInv(list), list.col = GroupList(body).col
  PROVE  DocInv(SetGroupList(body, list)) /\ GroupList(SetGroupList(body, list)) = list
<1>. DEFINE now == SetGroupList(body, list)
            f == TopField(body)
<1>1. list.kind = "seq" /\ WellFormedList(list)
  BY DEF ListInv
<1>2. CASE format = "homepage"
  <2>1. now = list /\ GroupList(now) = list
    BY <1>2 DEF SetGroupList, GroupList
  <2>. QED
    BY <1>1, <1>2, <2>1 DEF DocInv, WellFormed
<1>3. CASE format = "named"
  <2>1. WellFormedMapping(body) /\ TopInv(body)
    BY <1>3 DEF DocInv, WellFormed, TopInv
  <2>2. /\ WellFormedMapping(now) /\ GroupList(now) = list
        /\ SetIn(body, f, list, now) /\ f \in DOMAIN body.fields
    BY <1>1, <1>3, <2>1, ListSet DEF TopInv
  <2>3. GroupList(body) = body.fields[f].value
    BY <1>3 DEF GroupList
  <2>. HIDE DEF now, f
  <2>4. Offset(now.fields[f]) = Offset(body.fields[f])
    BY <2>2, <2>3 DEF SetIn, Offset
  <2>5. Offset(body.fields[f]) = Expected(TopFound, f)
    BY <2>1 DEF TopInv, f
  <2>6. OffsetsKept(TopFound, now)
    <3>1. OffsetsKept(TopFound, body)
      BY <2>1 DEF TopInv
    <3>2. ASSUME NEW i \in DOMAIN now.fields, BlockList(now.fields[i].value)
          PROVE  Offset(now.fields[i]) = Expected(TopFound, i)
      <4>1. CASE i = f
        BY <2>4, <2>5, <4>1
      <4>2. CASE i # f
        BY <2>2, <3>1, <3>2, <4>2 DEF SetIn, OffsetsKept, Expected
      <4>. QED
        BY <4>1, <4>2
    <3>. QED
      BY <3>2 DEF OffsetsKept, Expected
  <2>7. existing.kind = "map" => TextsKept(existing, now)
    <3>1. existing.kind = "map" => TextsKept(existing, body)
      BY <2>1 DEF TopInv
    <3>2. \A i \in DOMAIN body.fields : Text(now.fields[i]) = Text(body.fields[i])
      <4>1. body.fields[f].value.kind = "seq"
        BY <2>3 DEF DocInv, ListInv
      <4>. QED
        BY <1>1, <2>2, <4>1 DEF SetIn, Text
    <3>3. IsSequence(body.fields)
      BY <2>1 DEF WellFormedMapping, MapNode, TopInv
    <3>4. existing.kind = "map" => IsSequence(existing.fields)
      BY <1>3 DEF CallInv, WellFormed, WellFormedMapping, MapNode
    <3>. QED
      BY <2>2, <3>1, <3>2, <3>3, <3>4 DEF TextsKept, SetIn, IsSequence
  <2>8. TopInv(now)
    BY <2>1, <2>2, <2>4, <2>5, <2>6, <2>7 DEF TopInv, SetIn, f
  <2>. QED
    BY <1>3, <2>2, <2>8 DEF DocInv, WellFormed, now
<1>. QED
  BY <1>2, <1>3 DEF CallInv

\* Every format's list of groups, found or made: for the moment it may be between
\* brackets.
LEMMA ListTidied ==
  ASSUME NEW then, NEW list, ListMoved(then, list), NEW c \in Int
  PROVE  LET now == normalizeGroupsListStyle(fixFlowStyleColumn(list, c)) IN
         /\ ListMoved(then, now)
         /\ now.flow => DOMAIN now.values = {}
         /\ ~list.flow => ~now.flow /\ now.col = list.col
         /\ list.flow => now.col = c + 2
<1>. DEFINE fixed == fixFlowStyleColumn(list, c)
            now == normalizeGroupsListStyle(fixed)
<1>1. list.kind = "seq" /\ WellFormedList(list) /\ ListNode(list)
  BY DEF ListMoved, WellFormedList
<1>2. /\ fixed.kind = "seq" /\ ListNode(fixed)
      /\ fixed.flow = list.flow /\ fixed.values = list.values
      /\ fixed.comment = list.comment /\ fixed.heads = list.heads
      /\ ~list.flow => fixed = list
      /\ list.flow => fixed.col = c + 2
  BY <1>1, FixedColumn
<1>. HIDE DEF fixed
<1>3. WellFormedList(fixed)
  BY <1>1, <1>2 DEF WellFormedList, FlowGroups, Bare
<1>4. /\ now.kind = "seq" /\ WellFormedList(now)
      /\ now.values = fixed.values /\ now.col = fixed.col
      /\ now.comment = fixed.comment /\ now.heads = fixed.heads
      /\ ~fixed.flow => ~now.flow
      /\ now.flow => DOMAIN now.values = {}
  BY <1>2, <1>3, NormalizedList
<1>. HIDE DEF now
<1>5. \A i : HeadOf(now, i) = HeadOf(list, i)
  BY <1>2, <1>4 DEF HeadOf
<1>6. now.values = list.values
  BY <1>2, <1>4
<1>7. ListMoved(then, now)
  BY <1>4, <1>5, <1>6 DEF ListMoved
<1>. QED
  BY <1>2, <1>4, <1>7 DEF now, fixed

-----------------------------------------------------------------------------
(***************************************************************************)
(* What the adapter's operations do to the invariant.                      *)
(***************************************************************************)
\* GroupSequence at the top of a file (homepage.go).
LEMMA HomepageLocated ==
  ASSUME CallInv, Locatable, format = "homepage"
  PROVE  /\ DocInv(GroupSequence) /\ Unswept(GroupList(GroupSequence))
         /\ ListMoved(ListFound, GroupList(GroupSequence))
<1>. DEFINE now == GroupSequence
<1>1. existing.kind = "seq" /\ WellFormedList(existing) /\ now = normalizeGroupsListStyle(existing)
      /\ GroupList(now) = now
  BY DEF CallInv, Locatable, WellFormed, GroupSequence, GroupList
<1>2. /\ now.kind = "seq" /\ WellFormedList(now)
      /\ now.values = existing.values
      /\ now.comment = existing.comment /\ now.heads = existing.heads
      /\ now.flow => DOMAIN now.values = {}
  BY <1>1, NormalizedList
<1>3. ListFound = existing
  BY DEF ListFound, SeenRoot, CallInv, GroupList
<1>. HIDE DEF now
<1>4. ListMoved(existing, existing)
  BY <1>1, ListItself
<1>5. \A i : HeadOf(now, i) = HeadOf(existing, i)
  BY <1>2 DEF HeadOf
<1>6. ListMoved(ListFound, now)
  BY <1>2, <1>3, <1>4, <1>5 DEF ListMoved
<1>7. ListInv(now) /\ Unswept(now)
  BY <1>2, <1>6, MovedListInv
<1>. QED
  BY <1>1, <1>2, <1>6, <1>7 DEF DocInv, WellFormed, now

\* What the named adapter starts from.
LEMMA StartingPoint ==
  ASSUME CallInv, Locatable, format = "named"
  PROVE  /\ Start.kind = "map" /\ WellFormedMapping(Start)
         /\ TopField(Start) = 0 => ListFound = newEmptySequence
         /\ TopField(Start) # 0 =>
              /\ Start.fields[TopField(Start)].value.kind = "seq"
              /\ ~blank => ListFound = Start.fields[TopField(Start)].value
         /\ ~blank => Start = existing /\ existing.kind = "map" /\ TopFound = existing
         /\ blank => /\ ListFound = newEmptySequence /\ TopFound = Nothing /\ existing.kind # "map"
                     /\ DOMAIN Start.fields = {1} /\ TopField(Start) = 1
                     /\ Start.fields[1].value = EmptyList
<1>1. CASE blank
  <2>1. /\ Start.kind = "map" /\ ~Start.flow /\ Start.flow \in BOOLEAN /\ DOMAIN Start = DOMAIN Mapping(<<>>)
        /\ DOMAIN Start.fields = {1} /\ Len(Start.fields) = 1
        /\ DOMAIN Start.fields[1] = {"key", "col", "value"}
        /\ Start.fields[1].key = TopLevelKey /\ Start.fields[1].col = 1
        /\ Start.fields[1].value = EmptyList
    BY <1>1 DEF Start, FreshDocument, Mapping, FreshField
  <2>2. existing.kind = "seq" /\ ListFound = newEmptySequence /\ TopFound = Nothing
    BY <1>1 DEF CallInv, newEmptySequence, ListFound, SeenRoot, TopFound
  <2>3. IsSequence(Start.fields)
    BY <2>1 DEF IsSequence
  <2>4. TopField(Start) = 1
    BY <2>1, <2>3, FindField DEF TopField
  <2>5. WellFormedList(EmptyList)
    BY FreshList DEF WellFormedList, IsSequence, FlowGroups
  <2>6. WellFormedMapping(Start)
    BY <2>1, <2>3, <2>5 DEF WellFormedMapping, MapNode, Aligned
  <2>. QED
    BY <1>1, <2>1, <2>2, <2>4, <2>6, FreshList
<1>2. CASE ~blank
  <2>1. Start = existing /\ existing.kind = "map" /\ TopFound = existing /\ WellFormedMapping(existing)
    BY <1>2 DEF Start, Locatable, TopFound, CallInv, WellFormed
  <2>2. TopField(existing) # 0 => existing.fields[TopField(existing)].value.kind = "seq"
    BY <2>1 DEF Locatable, TopField
  <2>3. SeenRoot = IF TopField(existing) = 0 THEN "noKey" ELSE "groups"
    BY <1>2 DEF SeenRoot
  <2>. QED
    BY <1>2, <2>1, <2>2, <2>3 DEF ListFound, GroupList
<1>. QED
  BY <1>1, <1>2

\* GroupSequence under a key (homer.go, dashy.go).
LEMMA NamedLocated ==
  ASSUME CallInv, Locatable, format = "named"
  PROVE  /\ DocInv(GroupSequence) /\ Unswept(GroupList(GroupSequence))
         /\ ListMoved(ListFound, GroupList(GroupSequence))
<1>. DEFINE body == getOrAppendField(Start, TopLevelKey)
            f    == TopField(body)
            list == body.fields[f].value
            c    == body.fields[f].col
            tidy == normalizeGroupsListStyle(fixFlowStyleColumn(list, c))
            now  == GroupSequence
<1>1. /\ Start.kind = "map" /\ WellFormedMapping(Start)
      /\ TopField(Start) = 0 => ListFound = newEmptySequence
      /\ TopField(Start) # 0 =>
           /\ Start.fields[TopField(Start)].value.kind = "seq"
           /\ ~blank => ListFound = Start.fields[TopField(Start)].value
      /\ ~blank => Start = existing /\ existing.kind = "map" /\ TopFound = existing
      /\ blank => /\ ListFound = newEmptySequence /\ TopFound = Nothing /\ existing.kind # "map"
                  /\ DOMAIN Start.fields = {1} /\ TopField(Start) = 1
                  /\ Start.fields[1].value = EmptyList
  BY StartingPoint
<1>2. IsMapping(Start)
  BY <1>1, TopMapping
<1>3. /\ IsMapping(body) /\ ~body.flow /\ f \in DOMAIN body.fields
      /\ DOMAIN Start.fields \subseteq DOMAIN body.fields
      /\ \A i \in DOMAIN Start.fields : SameField(Start.fields[i], body.fields[i])
      /\ TopField(Start) # 0 => f = TopField(Start) /\ Len(body.fields) = Len(Start.fields)
      /\ TopField(Start) = 0 =>
           /\ Len(body.fields) = Len(Start.fields) + 1 /\ f = Len(body.fields)
           /\ list.kind = "seq" /\ list.flow /\ IsSequence(list.values) /\ DOMAIN list.values = {}
  <2>. DEFINE n == normalizeMappingFlowStyle(Start)
              k == findField(body, TopLevelKey)
  <2>1. /\ IsMapping(body) /\ ~body.flow /\ k \in DOMAIN body.fields
        /\ DOMAIN Start.fields \subseteq DOMAIN body.fields
        /\ \A i \in DOMAIN Start.fields : SameField(Start.fields[i], body.fields[i])
        /\ findField(Start, TopLevelKey) # 0 => body = n /\ k = findField(Start, TopLevelKey)
        /\ findField(Start, TopLevelKey) = 0 =>
             /\ Len(body.fields) = Len(Start.fields) + 1 /\ k = Len(body.fields)
             /\ LET value == body.fields[k].value IN
                /\ value.kind = "seq" /\ value.flow
                /\ IsSequence(value.values) /\ DOMAIN value.values = {}
    BY <1>2, GotOrAppended
  <2>2. Len(n.fields) = Len(Start.fields)
    BY <1>2, Normalized DEF Moved, IsMapping
  <2>3. k = f /\ TopField(Start) = findField(Start, TopLevelKey)
    BY DEF TopField
  <2>. HIDE DEF body, f, n, k
  <2>. QED
    BY <2>1, <2>2, <2>3
<1>4. /\ WellFormedMapping(body)
      /\ \A i \in DOMAIN Start.fields : Start.fields[i].value.kind = "seq" =>
           ListMoved(Start.fields[i].value, body.fields[i].value)
      /\ TopField(Start) = 0 => WellFormedList(list)
  <2>1. f = findField(body, TopLevelKey) /\ TopField(Start) = findField(Start, TopLevelKey)
    BY DEF TopField
  <2>. QED
    BY <1>1, <2>1, TopGotOrAppended
<1>5. now = SetGroupList(body, tidy)
  BY DEF GroupSequence
<1>. HIDE DEF body, f
<1>6. IsSequence(Start.fields) /\ IsSequence(body.fields)
  BY <1>2, <1>3 DEF IsMapping, MapNode
<1>7. TopField(Start) # 0 => TopField(Start) \in DOMAIN Start.fields
  BY <1>6, FindField DEF TopField
<1>8. f # 0 /\ body.kind = "map"
  BY <1>3, <1>6 DEF IsSequence, IsMapping
<1>9. ListMoved(ListFound, list)
  <2>1. CASE TopField(Start) # 0 /\ ~blank
    BY <1>1, <1>3, <1>4, <1>7, <2>1
  <2>2. CASE TopField(Start) # 0 /\ blank
    <3>1. ListMoved(EmptyList, list)
      BY <1>1, <1>3, <1>4, <1>7, <2>2, FreshList
    <3>2. ListFound.values = <<>> /\ EmptyList.values = <<>>
      BY <1>1, <2>2, FreshList DEF newEmptySequence
    <3>. QED
      BY <3>1, <3>2 DEF ListMoved
  <2>3. CASE TopField(Start) = 0
    <3>1. ListFound.values = <<>>
      BY <1>1, <2>3 DEF newEmptySequence
    <3>2. Len(list.values) = 0 /\ list.kind = "seq"
      BY <1>3, <2>3, EmptySequence
    <3>. QED
      BY <1>4, <2>3, <3>1, <3>2 DEF ListMoved
  <2>. QED
    BY <2>1, <2>2, <2>3
<1>10. c \in Int
  BY <1>3 DEF IsMapping, MapNode
<1>. HIDE DEF list, c
<1>11. /\ ListMoved(ListFound, tidy)
       /\ tidy.flow => DOMAIN tidy.values = {}
       /\ ~list.flow => ~tidy.flow /\ tidy.col = list.col
       /\ list.flow => tidy.col = c + 2
  BY <1>9, <1>10, ListTidied
<1>. HIDE DEF tidy, now
<1>12. ListInv(tidy) /\ Unswept(tidy)
  BY <1>11, MovedListInv
<1>13. /\ WellFormedMapping(now) /\ GroupList(now) = tidy /\ SetIn(body, f, tidy, now)
  BY <1>3, <1>4, <1>5, <1>8, <1>11, ListSet DEF ListMoved, f
<1>14. list.flow \in BOOLEAN /\ list.kind = "seq" /\ list.col \in Int
  BY <1>9 DEF ListMoved, WellFormedList, ListNode
<1>15. \A i \in DOMAIN Start.fields :
         BlockList(body.fields[i].value) =>
           /\ BlockList(Start.fields[i].value)
           /\ Offset(body.fields[i]) = Offset(Start.fields[i])
  BY <1>3, SameReads
<1>16. Offset(now.fields[f]) = Expected(TopFound, f)
  <2>1. now.fields[f].col = c /\ now.fields[f].value = tidy
    BY <1>13 DEF SetIn, c
  <2>2. CASE list.flow
    <3>1. Offset(now.fields[f]) = 2
      BY <1>10, <1>11, <2>1, <2>2 DEF Offset
    <3>2. ~(f \in DOMAIN TopFound.fields /\ BlockList(TopFound.fields[f].value))
      <4>1. CASE blank
        BY <1>1, <4>1 DEF Nothing, Mapping
      <4>2. CASE ~blank /\ f \in DOMAIN Start.fields
        <5>1. SameField(Start.fields[f], body.fields[f])
          BY <1>3, <4>2
        <5>2. TopField(Start) # 0 /\ f = TopField(Start)
          BY <1>3, <1>6, <4>2 DEF IsSequence
        <5>. QED
          BY <1>1, <2>2, <4>2, <5>1, <5>2 DEF SameField, BlockList, list
      <4>3. CASE ~blank /\ f \notin DOMAIN Start.fields
        BY <1>1, <4>3
      <4>. QED
        BY <4>1, <4>2, <4>3
    <3>. QED
      BY <3>1, <3>2 DEF Expected
  <2>3. CASE ~list.flow
    <3>1. Offset(now.fields[f]) = Offset(body.fields[f])
      BY <1>11, <2>1, <2>3 DEF Offset, list, c
    <3>2. TopField(Start) # 0 /\ f \in DOMAIN Start.fields
      BY <1>3, <1>7, <2>3
    <3>3. BlockList(body.fields[f].value)
      BY <1>14, <2>3 DEF BlockList, list
    <3>4. BlockList(Start.fields[f].value) /\ Offset(body.fields[f]) = Offset(Start.fields[f])
      BY <1>15, <3>2, <3>3
    <3>5. ~blank
      BY <1>1, <3>2, <3>4, FreshList
    <3>. QED
      BY <1>1, <3>1, <3>2, <3>4, <3>5 DEF Expected
  <2>. QED
    BY <1>14, <2>2, <2>3
<1>17. OffsetsKept(TopFound, now)
  <2>1. ASSUME NEW i \in DOMAIN now.fields, BlockList(now.fields[i].value)
        PROVE  Offset(now.fields[i]) = Expected(TopFound, i)
    <3>1. CASE i = f
      BY <1>16, <3>1
    <3>2. CASE i # f
      <4>1. now.fields[i] = body.fields[i] /\ i \in DOMAIN Start.fields
        <5>1. i \in DOMAIN body.fields /\ now.fields[i] = body.fields[i]
          BY <1>13, <2>1, <3>2 DEF SetIn
        <5>. QED
          BY <1>3, <1>6, <3>2, <5>1 DEF IsSequence
      <4>2. BlockList(Start.fields[i].value) /\ Offset(now.fields[i]) = Offset(Start.fields[i])
        BY <1>15, <2>1, <4>1
      <4>3. ~blank
        BY <1>1, <4>1, <4>2, FreshList
      <4>. QED
        BY <1>1, <4>1, <4>2, <4>3 DEF Expected
    <3>. QED
      BY <3>1, <3>2
  <2>. QED
    BY <2>1 DEF OffsetsKept, Expected
<1>18. existing.kind = "map" => TextsKept(existing, now)
  <2>1. SUFFICES ASSUME existing.kind = "map" PROVE TextsKept(existing, now)
    OBVIOUS
  <2>2. Start = existing
    BY <1>1, <2>1
  <2>3. Len(Start.fields) <= Len(now.fields)
    BY <1>3, <1>6, <1>13 DEF SetIn, IsSequence
  <2>4. ASSUME NEW i \in DOMAIN Start.fields
        PROVE  Text(now.fields[i]) = Text(Start.fields[i])
    <3>1. Text(body.fields[i]) = Text(Start.fields[i])
      BY <1>3 DEF SameField, Text
    <3>2. now.fields[i].key = body.fields[i].key
      BY <1>3, <1>13 DEF SetIn
    <3>3. CASE i = f
      <4>1. now.fields[i].value.kind = "seq" /\ body.fields[i].value.kind = "seq"
        BY <1>11, <1>13, <1>14, <3>3 DEF SetIn, ListMoved, list
      <4>. QED
        BY <3>1, <3>2, <4>1 DEF Text
    <3>4. CASE i # f
      BY <1>3, <1>13, <3>1, <3>4 DEF SetIn
    <3>. QED
      BY <3>3, <3>4
  <2>. QED
    BY <2>2, <2>3, <2>4 DEF TextsKept
<1>19. TopInv(now)
  BY <1>3, <1>8, <1>13, <1>16, <1>17, <1>18 DEF TopInv, SetIn
<1>. QED
  BY <1>11, <1>12, <1>13, <1>19 DEF DocInv, WellFormed, now

\* FindOrCreateGroup on a list in which nothing is broken under that name: the
\* group at slot i is open, and the list is what it was.
GroupAtHand(list, i, name) ==
  LET node == list.values[i]
      f    == ItemsField(node)
  IN  /\ i \in DOMAIN list.values /\ ~list.flow
      /\ Ready(node, name)
      /\ Offset(node.fields[f]) = Expected(Before(i), f)

\* A group that is ready, of a list that was not swept, stands where it should.
LEMMA ReadyOffset ==
  ASSUME NEW then, NEW node, NEW name, Ready(node, name),
         OffsetsKept(then, node), BlocksKept(then, node)
  PROVE  Offset(node.fields[ItemsField(node)]) = Expected(then, ItemsField(node))
<1>. DEFINE f == ItemsField(node)
<1>1. /\ f \in DOMAIN node.fields /\ node.fields[f].value.kind = "seq"
      /\ node.fields[f].value.flow => Offset(node.fields[f]) = 2
  BY DEF Ready, ItemsOf
<1>. HIDE DEF f
<1>2. CASE node.fields[f].value.flow
  <2>1. ~(f \in DOMAIN then.fields /\ BlockList(then.fields[f].value))
    BY <1>2 DEF BlocksKept, BlockList
  <2>. QED
    BY <1>1, <1>2, <2>1 DEF Expected, f
<1>3. CASE ~node.fields[f].value.flow
  <2>1. BlockList(node.fields[f].value)
    BY <1>1, <1>3 DEF BlockList
  <2>. QED
    BY <1>1, <2>1 DEF OffsetsKept, Expected, f
<1>. QED
  BY <1>2, <1>3

\* The group was there.
LEMMA GroupReopened ==
  ASSUME CallInv, NEW list, ListInv(list), Unswept(list),
         NEW name, name # NonString, ~Unwanted(name),
         NEW i, i = GroupAt(list, name), i # 0, ~Broken(list.values[i])
  PROVE  LET now == FindOrCreateGroup(list, name) IN
         /\ ListInv(now) /\ Unswept(now) /\ now.col = list.col
         /\ GroupAtHand(now, i, name)
         /\ i \in DOMAIN list.values /\ DOMAIN now.values = DOMAIN list.values
         /\ \A k \in DOMAIN list.values : k # i => now.values[k] = list.values[k]
         /\ Opened(list.values[i], now.values[i])
<1>. DEFINE now  == FindOrCreateGroup(list, name)
            node == list.values[i]
            open == OpenGroup(node)
<1>1. /\ list.kind = "seq" /\ WellFormedList(list) /\ IsSequence(list.values)
      /\ DOMAIN list = {"kind", "flow", "col", "values", "comment", "heads"}
      /\ list.flow \in BOOLEAN /\ list.flow => DOMAIN list.values = {}
  BY DEF ListInv, WellFormedList, ListNode, newEmptySequence
<1>2. i \in DOMAIN list.values /\ NameOf(node) = name
  BY <1>1, GroupFound
<1>3. ~list.flow
  BY <1>1, <1>2
<1>4. WellFormedGroup(node) /\ node.kind = "map" /\ Itemized(node)
  BY <1>1, <1>2 DEF WellFormedList, NameOf, Unswept
<1>5. Opened(node, open)
  BY <1>2, <1>4, OpenHomepageGroup, OpenNamedGroup DEF CallInv
<1>6. now = [list EXCEPT !.values[i] = OpenGroup(@)]
  BY DEF FindOrCreateGroup
<1>. HIDE DEF open, now
<1>7. /\ DOMAIN now = DOMAIN list /\ now.kind = "seq" /\ now.flow = list.flow /\ now.col = list.col
      /\ now.comment = list.comment /\ now.heads = list.heads
      /\ DOMAIN now.values = DOMAIN list.values
      /\ now.values[i] = open
      /\ \A k \in DOMAIN list.values : k # i => now.values[k] = list.values[k]
  BY <1>1, <1>2, <1>6 DEF open
<1>8. IsSequence(now.values) /\ Len(now.values) = Len(list.values)
  BY <1>1, <1>7, SamePlaces
<1>. HIDE DEF node
<1>9. WellFormedList(now)
  BY <1>1, <1>2, <1>3, <1>5, <1>7, ReplacedGroup DEF Opened
<1>10. /\ Ready(open, name)
       /\ OffsetsKept(Before(i), open) /\ BlocksKept(Before(i), open)
       /\ i \in DOMAIN ListFound.values => GroupKept(ListFound.values[i], open)
  <2>1. OffsetsKept(Before(i), node) /\ BlocksKept(Before(i), node)
    BY <1>2, <1>4 DEF ListInv, Unswept, node
  <2>2. i \in DOMAIN ListFound.values =>
          WellFormedGroup(ListFound.values[i]) /\ GroupKept(ListFound.values[i], node)
    BY FoundList DEF ListInv, WellFormedList, node
  <2>. QED
    BY <1>2, <1>4, <1>5, <2>1, <2>2, OpeningKeeps DEF node
<1>11. \A k : HeadOf(now, k) = HeadOf(list, k)
  BY <1>7 DEF HeadOf
<1>12. \A k \in DOMAIN ListFound.values :
         HeadOf(now, k) = HeadOf(ListFound, k) /\ GroupKept(ListFound.values[k], now.values[k])
  <2>1. \A k \in DOMAIN ListFound.values : k \in DOMAIN list.values
    BY <1>1, FoundList DEF ListInv, WellFormedList, IsSequence
  <2>. QED
    BY <1>7, <1>10, <1>11, <2>1 DEF ListInv
<1>13. \A k \in DOMAIN now.values : now.values[k].kind = "map" =>
         /\ OffsetsKept(Before(k), now.values[k])
         /\ BlocksKept(Before(k), now.values[k]) /\ Itemized(now.values[k])
  BY <1>7, <1>10 DEF ListInv, Unswept, Ready
<1>14. ListInv(now)
  BY <1>1, <1>3, <1>7, <1>8, <1>9, <1>12, <1>13 DEF ListInv
<1>15. Offset(open.fields[ItemsField(open)]) = Expected(Before(i), ItemsField(open))
  BY <1>10, ReadyOffset
<1>16. Opened(list.values[i], now.values[i])
  BY <1>5, <1>7 DEF node
<1>. QED
  BY <1>2, <1>3, <1>7, <1>10, <1>13, <1>14, <1>15, <1>16 DEF Unswept, GroupAtHand, now

\* The group is new, at the end of the list.
LEMMA GroupAdded ==
  ASSUME CallInv, NEW list, ListInv(list), Unswept(list),
         NEW name, name # NonString, GroupAt(list, name) = 0
  PROVE  LET now == FindOrCreateGroup(list, name) IN
         /\ ListInv(now) /\ Unswept(now) /\ now.col = list.col
         /\ GroupAtHand(now, Len(list.values) + 1, name)
         /\ Len(now.values) = Len(list.values) + 1
         /\ \A k \in DOMAIN list.values : now.values[k] = list.values[k]
         /\ readEntries(ItemsOf(now.values[Len(list.values) + 1])) = <<>>
<1>. DEFINE now  == FindOrCreateGroup(list, name)
            node == NewGroup(name)
            i    == Len(list.values) + 1
<1>1. list.kind = "seq" /\ WellFormedList(list) /\ IsSequence(list.values)
  BY DEF ListInv, WellFormedList
<1>2. /\ Ready(node, name) /\ \A k \in DOMAIN node.fields : ~BlockList(node.fields[k].value)
      /\ readEntries(ItemsOf(node)) = <<>>
  BY MadeGroup DEF CallInv
<1>3. now = AppendGroup(list, node)
  BY DEF FindOrCreateGroup
<1>. HIDE DEF now, node
<1>4. /\ now.kind = "seq" /\ WellFormedList(now)
      /\ ~now.flow /\ now.col = list.col
      /\ Len(now.values) = i
      /\ now.values[i] = node
      /\ \A k \in DOMAIN list.values : now.values[k] = list.values[k] /\ HeadOf(now, k) = HeadOf(list, k)
  BY <1>1, <1>2, <1>3, AppendedGroup DEF Ready
<1>5. /\ DOMAIN list.values = 1 .. Len(list.values) /\ DOMAIN now.values = 1 .. i
      /\ Len(list.values) \in Nat
  BY <1>1, <1>4 DEF WellFormedList, IsSequence
<1>6. /\ Len(ListFound.values) <= Len(list.values) /\ Len(ListFound.values) \in Nat
      /\ DOMAIN ListFound.values = 1 .. Len(ListFound.values)
  BY FoundList DEF ListInv, WellFormedList, IsSequence
<1>7. Before(i) = Nothing /\ i \in DOMAIN now.values
  BY <1>5, <1>6 DEF Before
<1>8. OffsetsKept(Before(i), node) /\ BlocksKept(Before(i), node)
  <2>1. Nothing.fields = <<>>
    BY DEF Nothing, Mapping
  <2>. QED
    BY <1>2, <1>7, <2>1 DEF OffsetsKept, BlocksKept
<1>9. \A k \in DOMAIN now.values : now.values[k].kind = "map" =>
        /\ OffsetsKept(Before(k), now.values[k])
        /\ BlocksKept(Before(k), now.values[k]) /\ Itemized(now.values[k])
  <2>1. \A k \in DOMAIN now.values : k \in DOMAIN list.values \/ k = i
    BY <1>5
  <2>. QED
    BY <1>2, <1>4, <1>8, <2>1 DEF ListInv, Unswept, Ready
<1>10. \A k \in DOMAIN ListFound.values : k \in DOMAIN list.values
  BY <1>5, <1>6
<1>11. Len(ListFound.values) <= Len(now.values)
  BY <1>4, <1>5, <1>6
<1>12. ListInv(now)
  BY <1>4, <1>9, <1>10, <1>11 DEF ListInv
<1>13. Offset(node.fields[ItemsField(node)]) = Expected(Before(i), ItemsField(node))
  BY <1>2, <1>8, ReadyOffset
<1>. QED
  BY <1>2, <1>4, <1>7, <1>9, <1>12, <1>13 DEF Unswept, GroupAtHand, now

\* writeEntries on the items of a group.
Written(list, i, items) ==
  [list EXCEPT !.values[i].fields[ItemsField(list.values[i])].value = writeEntries(@, items)]

\* Only that group of the list is another one: its items are those written.
Rewritten(list, i, items, now) ==
  LET f == ItemsField(list.values[i])
  IN  /\ DOMAIN now.values = DOMAIN list.values
      /\ \A k \in DOMAIN list.values : k # i => now.values[k] = list.values[k]
      /\ NameOf(now.values[i]) = NameOf(list.values[i])
      /\ ItemsField(now.values[i]) = f
      /\ ItemsOf(now.values[i]) = writeEntries(ItemsOf(list.values[i]), items)

\* An open group's items are written: the list of groups keeps all that is known of it.
LEMMA ItemsWritten ==
  ASSUME CallInv, NEW list, ListInv(list), NEW i \in DOMAIN list.values, ~list.flow,
         NEW f, f = ItemsField(list.values[i]),
         list.values[i].kind = "map", ~list.values[i].flow,
         f \in DOMAIN list.values[i].fields, list.values[i].fields[f].value.kind = "seq",
         Offset(list.values[i].fields[f]) = Expected(Before(i), f),
         NEW items
  PROVE  LET now == Written(list, i, items) IN
         /\ ListInv(now) /\ now.col = list.col
         /\ Unswept(list) /\ IsSequence(items)
            /\ (BlockList(list.values[i].fields[f].value) => DOMAIN items # {}) => Unswept(now)
         /\ Rewritten(list, i, items, now)
<1>. DEFINE now  == Written(list, i, items)
            node == list.values[i]
            seq  == node.fields[f].value
            new  == now.values[i]
            wrote == writeEntries(seq, items)
<1>1. /\ WellFormedList(list) /\ list.kind = "seq" /\ IsSequence(list.values)
      /\ DOMAIN list = {"kind", "flow", "col", "values", "comment", "heads"}
  BY DEF ListInv, WellFormedList, ListNode, newEmptySequence
<1>2. /\ WellFormedGroup(node) /\ DOMAIN node = {"kind", "flow", "fields"}
      /\ IsField(node.fields[f]) /\ ListNode(seq)
  <2>1. WellFormedGroup(node)
    BY <1>1 DEF WellFormedList
  <2>. QED
    BY <2>1, GroupFields DEF WellFormedGroup, MapNode, Mapping, IsField
<1>3. /\ DOMAIN now = DOMAIN list /\ now.kind = "seq" /\ now.flow = list.flow /\ now.col = list.col
      /\ now.comment = list.comment /\ now.heads = list.heads
      /\ DOMAIN now.values = DOMAIN list.values
      /\ \A k \in DOMAIN list.values : k # i => now.values[k] = list.values[k]
      /\ DOMAIN new = DOMAIN node /\ new.kind = "map" /\ new.flow = node.flow
      /\ DOMAIN new.fields = DOMAIN node.fields
      /\ \A k \in DOMAIN node.fields : k # f => new.fields[k] = node.fields[k]
      /\ DOMAIN new.fields[f] = DOMAIN node.fields[f]
      /\ new.fields[f].key = node.fields[f].key /\ new.fields[f].col = node.fields[f].col
      /\ new.fields[f].value = wrote
  BY <1>1, <1>2 DEF IsField, Written
<1>. HIDE DEF now, new
<1>4. /\ wrote.kind = "seq" /\ ListNode(wrote) /\ FlowItems(wrote)
      /\ DOMAIN wrote.values = DOMAIN items
      /\ \A k \in DOMAIN wrote.values : wrote.values[k].kind = "entry"
      /\ wrote.flow <=> DOMAIN items = {}
      /\ ~wrote.flow => wrote.col = seq.col
  BY <1>2, WrittenEntries
<1>. HIDE DEF wrote
<1>5. /\ WellFormedGroup(new)
      /\ Itemized(node) /\ IsSequence(wrote.values) => Itemized(new)
      /\ Len(new.fields) = Len(node.fields)
      /\ \A k \in DOMAIN node.fields : Reads(node.fields[k], new.fields[k])
      /\ NameOf(new) = NameOf(node) /\ ItemsField(new) = ItemsField(node)
  <2>1. ~wrote.flow => DOMAIN wrote.values # {}
    BY <1>4
  <2>2. /\ format \in {"homepage", "named"}
        /\ node.kind = "map" /\ ~node.flow /\ f \in DOMAIN node.fields
        /\ node.fields[f].value.kind = "seq"
    BY DEF CallInv
  <2>3. \A k \in DOMAIN wrote.values : wrote.values[k].kind = "entry"
    BY <1>4
  <2>. HIDE DEF node
  <2>. QED
    BY <1>2, <1>3, <1>4, <2>1, <2>2, <2>3, ReplacedItems
<1>6. IsSequence(now.values) /\ Len(now.values) = Len(list.values)
  BY <1>1, <1>3, SamePlaces
<1>7. WellFormedList(now)
  BY <1>1, <1>3, <1>5, ReplacedGroup DEF new
<1>8. OffsetsKept(Before(i), new)
  <2>1. OffsetsKept(Before(i), node)
    BY DEF ListInv
  <2>2. ASSUME NEW k \in DOMAIN new.fields, BlockList(new.fields[k].value)
        PROVE  Offset(new.fields[k]) = Expected(Before(i), k)
    <3>1. CASE k = f
      <4>1. ~wrote.flow
        BY <1>3, <2>2, <3>1 DEF BlockList
      <4>. QED
        BY <1>3, <1>4, <3>1, <4>1 DEF Offset
    <3>2. CASE k # f
      BY <1>3, <2>1, <2>2, <3>2 DEF OffsetsKept, Expected
    <3>. QED
      BY <3>1, <3>2
  <2>. QED
    BY <2>2 DEF OffsetsKept, Expected
<1>9. ASSUME i \in DOMAIN ListFound.values
      PROVE  GroupKept(ListFound.values[i], new)
  <2>. DEFINE then == ListFound.values[i]
  <2>1. GroupKept(then, node) /\ WellFormedGroup(then)
    BY <1>9, FoundList DEF ListInv, WellFormedList
  <2>. HIDE DEF then
  <2>2. then.kind = "map" /\ TextsKept(then, node) /\ NameOf(node) = NameOf(then)
    BY <2>1 DEF GroupKept
  <2>3. \A k \in DOMAIN node.fields : Text(new.fields[k]) = Text(node.fields[k])
    BY <1>5, SMTT(30) DEF Reads, Text
  <2>4. IsSequence(then.fields) /\ IsSequence(node.fields)
    BY <1>2, <2>1, <2>2 DEF WellFormedGroup, MapNode
  <2>5. TextsKept(then, new)
    BY <1>5, <2>2, <2>3, <2>4 DEF TextsKept, IsSequence
  <2>6. GroupKept(then, new)
    BY <1>3, <1>5, <2>1, <2>2, <2>5 DEF GroupKept
  <2>. QED
    BY <2>6 DEF then
<1>10. \A k : HeadOf(now, k) = HeadOf(list, k)
  BY <1>3 DEF HeadOf
<1>11. \A k \in DOMAIN now.values : now.values[k].kind = "map" => OffsetsKept(Before(k), now.values[k])
  BY <1>3, <1>8 DEF ListInv, new
<1>12. \A k \in DOMAIN ListFound.values :
         HeadOf(now, k) = HeadOf(ListFound, k) /\ GroupKept(ListFound.values[k], now.values[k])
  <2>1. \A k \in DOMAIN ListFound.values : k \in DOMAIN list.values
    BY <1>1, FoundList DEF ListInv, WellFormedList, IsSequence
  <2>. QED
    BY <1>3, <1>9, <1>10, <2>1 DEF ListInv, new
<1>13. ListInv(now)
  BY <1>3, <1>6, <1>7, <1>11, <1>12 DEF ListInv
<1>14. ASSUME Unswept(list), IsSequence(items), BlockList(seq) => DOMAIN items # {}
       PROVE  Unswept(now)
  <2>1. BlocksKept(Before(i), node) /\ Itemized(node)
    BY <1>14 DEF Unswept
  <2>2. IsSequence(wrote.values)
    BY <1>4, <1>14, SamePlaces
  <2>3. BlockList(seq) => BlockList(wrote)
    BY <1>4, <1>14 DEF BlockList
  <2>4. BlocksKept(Before(i), new)
    BY <1>3, <2>1, <2>3 DEF BlocksKept
  <2>. QED
    BY <1>3, <1>5, <1>14, <2>1, <2>2, <2>4 DEF Unswept, new
<1>15. Rewritten(list, i, items, now)
  BY <1>3, <1>5 DEF Rewritten, ItemsOf, new, wrote
<1>. QED
  BY <1>3, <1>13, <1>14, <1>15 DEF now

-----------------------------------------------------------------------------
(***************************************************************************)
(* The steps.                                                              *)
(***************************************************************************)
\* A step that leaves the call alone leaves everything that is said about it.
LEMMA SameCall ==
  ASSUME UNCHANGED call
  PROVE  /\ desired' = desired /\ existing' = existing /\ format' = format
         /\ CallInv' <=> CallInv
         /\ \A body : GroupList(body)' = GroupList(body)
         /\ \A body : DocInv(body)' <=> DocInv(body)
         /\ \A list : Unswept(list)' <=> Unswept(list)
         /\ \A list, i, name, items : OpenInv(list, i, name, items)' <=> OpenInv(list, i, name, items)
<1>1. /\ desired' = desired /\ existing' = existing /\ format' = format
      /\ blank' = blank /\ policy' = policy
  BY DEF call
<1>2. CallInv' <=> CallInv
  BY <1>1 DEF CallInv
<1>3. \A body : GroupList(body)' = GroupList(body)
  BY <1>1 DEF GroupList
<1>4. \A node : NameOf(node)' = NameOf(node) /\ ItemsField(node)' = ItemsField(node)
  BY <1>1 DEF NameOf, ItemsField
<1>5. ListFound' = ListFound /\ TopFound' = TopFound
  <2>1. SeenRoot' = SeenRoot
    BY <1>1 DEF SeenRoot, Locatable, Start
  <2>. QED
    BY <1>1, <1>3, <2>1 DEF ListFound, TopFound
<1>6. \A i : Before(i)' = Before(i)
  BY <1>5 DEF Before
<1>7. \A name : Unwanted(name)' <=> Unwanted(name)
  BY <1>1 DEF Unwanted
<1>8. \A then, now : GroupKept(then, now)' <=> GroupKept(then, now)
  BY <1>4, <1>7 DEF GroupKept
<1>9. \A list : ListInv(list)' <=> ListInv(list)
  BY <1>5, <1>6, <1>8 DEF ListInv
<1>10. \A body : TopInv(body)' <=> TopInv(body)
  BY <1>1, <1>5 DEF TopInv
<1>11. \A body : DocInv(body)' <=> DocInv(body)
  BY <1>1, <1>3, <1>9, <1>10 DEF DocInv
<1>12. \A list : Unswept(list)' <=> Unswept(list)
  BY <1>6 DEF Unswept
<1>13. \A list, i, name, items : OpenInv(list, i, name, items)' <=> OpenInv(list, i, name, items)
  BY <1>4, <1>6 DEF OpenInv
<1>. QED
  BY <1>1, <1>2, <1>3, <1>11, <1>12, <1>13

\* The invariant of the state after a step, in terms of that state's tree.
LEMMA After ==
  ASSUME CallInv, UNCHANGED call, WellFormed(format, doc'), pc' # "locate",
         pc' \in {"find", "apply", "sweep", "done"} => DocInv(doc'),
         pc' \in {"find", "apply"} => Unswept(GroupList(doc')),
         pc' = "apply" => /\ at' \in DOMAIN desired
                          /\ OpenInv(GroupList(doc'), slot', desired[at'].name, entries')
  PROVE  IInv'
<1>1. /\ desired' = desired /\ existing' = existing /\ format' = format
      /\ CallInv'
      /\ \A body : GroupList(body)' = GroupList(body)
      /\ \A body : DocInv(body)' <=> DocInv(body)
      /\ \A list : Unswept(list)' <=> Unswept(list)
      /\ \A list, i, name, items : OpenInv(list, i, name, items)' <=> OpenInv(list, i, name, items)
  BY SameCall
<1>2. GroupList(doc)' = GroupList(doc')
  BY <1>1
<1>3. WellFormed(format, doc)'
  BY <1>1 DEF WellFormed
<1>4. (Located => DocInv(doc))'
  BY <1>1 DEF Located
<1>5. (pc \in {"find", "apply"} => Unswept(GroupList(doc)))'
  BY <1>1, <1>2
<1>6. (pc = "apply" => at \in DOMAIN desired /\ OpenInv(GroupList(doc), slot, desired[at].name, entries))'
  BY <1>1, <1>2
<1>7. (pc = "locate" => doc = existing)'
  OBVIOUS
<1>. QED
  BY <1>1, <1>3, <1>4, <1>5, <1>6, <1>7 DEF IInv

\* A call starts from a file a parser returned.
LEMMA InitInv == Init => IInv
<1>. SUFFICES ASSUME Init PROVE IInv
  OBVIOUS
<1>1. PICK f \in Files : format = f.format /\ blank = f.blank /\ existing = f.body
  BY DEF Init
<1>2. PICK services \in ServiceSets : desired = M!GroupServices(services)
  BY DEF Init
<1>3. CallInv
  BY <1>1, <1>2, FilesAssumption, ServiceSetsAssumption DEF CallInv
<1>. QED
  BY <1>3 DEF Init, IInv, CallInv, Located

\* GroupSequence: the list is found or made, and no longer between brackets.
LEMMA LocateKeeps == IInv /\ Locate => IInv'
<1>. SUFFICES ASSUME IInv, Locate PROVE IInv'
  OBVIOUS
<1>1. CallInv /\ UNCHANGED call /\ Locatable /\ doc' = GroupSequence /\ pc' = "find"
  BY DEF IInv, Locate
<1>2. DocInv(GroupSequence) /\ Unswept(GroupList(GroupSequence))
  BY <1>1, HomepageLocated, NamedLocated DEF CallInv
<1>. QED
  BY <1>1, <1>2, After DEF DocInv

\* A call that fails leaves the tree as it is.
LEMMA FailsKeeps == ASSUME IInv, NEW why, Fails(why) PROVE IInv'
<1>1. CallInv /\ UNCHANGED call /\ WellFormed(format, doc') /\ pc' = "failed"
  BY DEF IInv, Fails
<1>. QED
  BY <1>1, After

\* FindOrCreateGroup: the group at slot is open, and its items are in entries.
LEMMA FindGroupKeeps == IInv /\ FindGroup => IInv'
<1>. SUFFICES ASSUME IInv, FindGroup PROVE IInv'
  OBVIOUS
<1>. DEFINE list == GroupList(doc)
            found == GroupAt(list, Wanted.name)
            now == FindOrCreateGroup(list, Wanted.name)
<1>1. /\ CallInv /\ UNCHANGED call /\ pc = "find" /\ pc' = "apply"
      /\ at \in DOMAIN desired /\ at' = at
      /\ found # 0 => ~Broken(list.values[found])
      /\ slot' = IF found = 0 THEN Len(list.values) + 1 ELSE found
      /\ doc' = SetGroupList(doc, now)
      /\ entries' = readEntries(ItemsOf(GroupList(doc').values[slot']))
  BY DEF IInv, FindGroup
<1>2. ListInv(list) /\ Unswept(list) /\ DocInv(doc)
  BY <1>1 DEF IInv, Located, DocInv
<1>3. Wanted.name # NonString /\ ~Unwanted(Wanted.name) /\ Wanted = desired[at]
  BY <1>1 DEF CallInv, Unwanted, Wanted
<1>4. ListInv(now) /\ Unswept(now) /\ now.col = list.col /\ GroupAtHand(now, slot', Wanted.name)
  <2>. HIDE DEF list
  <2>1. CASE found = 0
    BY <1>1, <1>2, <1>3, <2>1, GroupAdded
  <2>2. CASE found # 0
    BY <1>1, <1>2, <1>3, <2>2, GroupReopened
  <2>. QED
    BY <2>1, <2>2
<1>. HIDE DEF now, found
<1>5. DocInv(doc') /\ GroupList(doc') = now
  BY <1>1, <1>2, <1>4, ListReplaced
<1>. DEFINE node == now.values[slot']
            f == ItemsField(node)
            seq == node.fields[f].value
<1>6. /\ Ready(node, Wanted.name) /\ slot' \in DOMAIN now.values /\ ~now.flow
      /\ Offset(node.fields[f]) = Expected(Before(slot'), f)
  BY <1>4 DEF GroupAtHand
<1>7. entries' = readEntries(seq)
  BY <1>1, <1>5 DEF ItemsOf
<1>. HIDE DEF node
<1>8. /\ node.kind = "map" /\ ~node.flow /\ NameOf(node) = Wanted.name
      /\ f \in DOMAIN node.fields /\ seq.kind = "seq"
      /\ IsSequence(seq.values) /\ (BlockList(seq) => DOMAIN seq.values # {})
  BY <1>6 DEF Ready, ItemsOf, Itemized, WellFormedGroup
<1>. HIDE DEF seq, f
<1>9. DOMAIN entries' = DOMAIN seq.values
  BY <1>7 DEF readEntries
<1>10. IsSequence(entries') /\ (BlockList(seq) => DOMAIN entries' # {})
  BY <1>8, <1>9, SamePlaces
<1>11. OpenInv(now, slot', Wanted.name, entries')
  BY <1>6, <1>8, <1>10 DEF OpenInv, node, f, seq
<1>12. OpenInv(GroupList(doc'), slot', desired[at'].name, entries')
  BY <1>1, <1>3, <1>5, <1>11
<1>13. Unswept(GroupList(doc')) /\ WellFormed(format, doc')
  BY <1>4, <1>5 DEF DocInv
<1>. QED
  BY <1>1, <1>5, <1>12, <1>13, After

\* applyDesired never empties a list.
LEMMA ApplyOneKeeps == IInv /\ ApplyOne => IInv'
<1>. SUFFICES ASSUME IInv, ApplyOne PROVE IInv'
  OBVIOUS
<1>. DEFINE svc == Wanted.services[next]
            list == GroupList(doc)
<1>1. /\ CallInv /\ UNCHANGED call /\ pc = "apply" /\ pc' = "apply" /\ doc' = doc
      /\ at' = at /\ slot' = slot
      /\ entries' = M!ApplyService(entries, svc, policy)
  BY DEF IInv, ApplyOne
<1>2. /\ at \in DOMAIN desired /\ OpenInv(list, slot, desired[at].name, entries)
      /\ DocInv(doc) /\ Unswept(list)
  BY <1>1 DEF IInv, Located
<1>3. IsSequence(entries)
  BY <1>2 DEF OpenInv
<1>4. IsSequence(entries') /\ (DOMAIN entries # {} => DOMAIN entries' # {})
  <2>1. \/ entries' = Append(entries, M!Rendered(svc))
        \/ entries' = [entries EXCEPT ![M!findManagedIndex(entries, svc.id)] = M!Rendered(svc)]
        \/ entries' = entries
    BY <1>1 DEF M!ApplyService
  <2>. QED
    BY <1>3, <2>1 DEF IsSequence
<1>5. OpenInv(list, slot, desired[at].name, entries')
  BY <1>2, <1>4 DEF OpenInv
<1>6. WellFormed(format, doc)
  BY <1>2 DEF DocInv
<1>. QED
  BY <1>1, <1>2, <1>5, <1>6, After

\* writeEntries on the group that was open.
LEMMA WriteGroupKeeps == IInv /\ WriteGroup => IInv'
<1>. SUFFICES ASSUME IInv, WriteGroup PROVE IInv'
  OBVIOUS
<1>. DEFINE list == GroupList(doc)
            f == ItemsField(list.values[slot])
            now == Written(list, slot, entries)
<1>1. /\ CallInv /\ UNCHANGED call /\ pc = "apply" /\ pc' = "find"
      /\ doc' = SetGroupList(doc, now)
  BY DEF IInv, WriteGroup, WriteItems, Written
<1>2. /\ OpenInv(list, slot, desired[at].name, entries)
      /\ DocInv(doc) /\ Unswept(list) /\ ListInv(list)
  BY <1>1 DEF IInv, Located, DocInv
<1>. HIDE DEF list
<1>3. ListInv(now) /\ now.col = list.col /\ Unswept(now)
  BY <1>1, <1>2, ItemsWritten DEF OpenInv
<1>. HIDE DEF now
<1>4. DocInv(doc') /\ GroupList(doc') = now
  BY <1>1, <1>2, <1>3, ListReplaced DEF list
<1>5. Unswept(GroupList(doc')) /\ WellFormed(format, doc')
  BY <1>3, <1>4 DEF DocInv
<1>. QED
  BY <1>1, <1>4, <1>5, After

\* Nothing between brackets is managed: it has no comments.
LEMMA FlowIsNobodys ==
  ASSUME NEW node, FlowItems(node), node.kind = "seq", node.flow, NEW name,
         NEW i \in DOMAIN readEntries(node)
  PROVE  ~M!Orphaned(readEntries(node)[i], name, desired)
<1>1. readEntries(node)[i].comment = HeadOf(node, i)
  BY DEF readEntries
<1>2. HeadOf(node, i) = NoHead
  <2>1. node.comment = NoHead /\ \A k \in DOMAIN node.heads : node.heads[k] = NoHead
    BY DEF FlowItems, Bare
  <2>. QED
    BY <2>1 DEF HeadOf
<1>3. NoHead.kind = "none"
  BY Zenon DEF NoHead
<1>4. readEntries(node)[i].comment.kind # "marker"
  BY <1>1, <1>2, <1>3
<1>5. ~M!IsManaged(readEntries(node)[i])
  BY <1>4, Zenon DEF M!IsManaged, M!IsMarker
<1>. QED
  BY <1>5, Zenon DEF M!Orphaned

\* removeOrphaned writes only to block lists, since only they have markers.
LEMMA SweepWrites ==
  ASSUME CallInv, DocInv(doc), pc = "sweep", at \in DOMAIN GroupList(doc).values,
         Swept(GroupList(doc), at), NEW i \in DOMAIN readEntries(ItemsOf(GroupList(doc).values[at])),
         M!Orphaned(readEntries(ItemsOf(GroupList(doc).values[at]))[i],
                    NameOf(GroupList(doc).values[at]), desired),
         NEW kept
  PROVE  LET list == GroupList(doc)
             node == list.values[at]
             now  == Written(list, at, kept)
             body == WriteItems(doc, at, kept)
         IN  /\ DocInv(body) /\ GroupList(body) = now /\ Rewritten(list, at, kept, now)
             /\ ItemsOf(node).kind = "seq" /\ ListNode(ItemsOf(node))
<1>. DEFINE list == GroupList(doc)
            node == list.values[at]
            name == NameOf(node)
            items == readEntries(ItemsOf(node))
            f == ItemsField(node)
            now == Written(list, at, kept)
            body == WriteItems(doc, at, kept)
<1>1. body = SetGroupList(doc, now)
  BY DEF WriteItems, Written
<1>2. ListInv(list) /\ WellFormedList(list)
  BY DEF DocInv, ListInv
<1>0. Swept(list, at) /\ at \in DOMAIN list.values
  OBVIOUS
<1>. HIDE DEF list
<1>3. node.kind = "map" /\ f # 0 /\ ItemsOf(node).kind = "seq" /\ WellFormedGroup(node)
      /\ NameOf(node) # NonString
  <2>1. NameOf(node) # NonString /\ f # 0 /\ ItemsOf(node).kind = "seq"
    BY <1>0 DEF Swept, HasItems
  <2>2. WellFormedGroup(node)
    BY <1>0, <1>2 DEF WellFormedList
  <2>3. node.kind = "map"
    BY <2>1 DEF NameOf
  <2>. QED
    BY <2>1, <2>2, <2>3
<1>. HIDE DEF node, f, items, name
<1>4. f \in DOMAIN node.fields
  <2>1. IsSequence(node.fields)
    BY <1>3 DEF WellFormedGroup, MapNode
  <2>2. CASE format = "homepage"
    <3>1. Len(node.fields) # 0 /\ f = 1
      BY <1>3, <2>2 DEF NameOf, f, ItemsField
    <3>. QED
      BY <2>1, <3>1 DEF IsSequence
  <2>3. CASE format # "homepage"
    BY <1>3, <2>1, <2>3, FindField DEF f, ItemsField
  <2>. QED
    BY <2>2, <2>3
<1>. DEFINE seq == node.fields[f].value
<1>5. seq = ItemsOf(node) /\ FlowItems(seq) /\ seq.kind = "seq" /\ ListNode(seq)
      /\ (node.flow => seq.flow)
  BY <1>3, <1>4 DEF ItemsOf, f, WellFormedGroup, FlowGroup
<1>. HIDE DEF seq
<1>6. ~seq.flow
  BY <1>5, FlowIsNobodys DEF items, node, list
<1>7. ~node.flow /\ BlockList(seq)
  BY <1>5, <1>6 DEF BlockList
<1>8. Offset(node.fields[f]) = Expected(Before(at), f)
  BY <1>2, <1>3, <1>4, <1>7 DEF ListInv, OffsetsKept, Expected, node, seq, list
<1>9. ~list.flow /\ at \in DOMAIN list.values
  BY <1>2 DEF ListInv, list
<1>10. ListInv(now) /\ now.col = list.col /\ Rewritten(list, at, kept, now)
  BY <1>2, <1>3, <1>4, <1>5, <1>7, <1>8, <1>9, ItemsWritten DEF f, node, seq
<1>. HIDE DEF now, body
<1>11. DocInv(body) /\ GroupList(body) = now
  BY <1>1, <1>10, ListReplaced DEF list
<1>. QED
  BY <1>5, <1>10, <1>11 DEF now, body, list, node

\* The removal pass leaves a list of groups like those it found.
LEMMA SweepKeeps == IInv /\ Sweep => IInv'
<1>. SUFFICES ASSUME IInv, Sweep PROVE IInv'
  OBVIOUS
<1>. DEFINE list == GroupList(doc)
            node == list.values[at]
            name == NameOf(node)
            items == IF Swept(list, at) THEN readEntries(ItemsOf(node)) ELSE <<>>
<1>1. /\ CallInv /\ UNCHANGED call /\ pc = "sweep" /\ pc' = "sweep" /\ at \in DOMAIN list.values
      /\ \/ doc' = doc
         \/ /\ \E i \in DOMAIN items : M!Orphaned(items[i], name, desired)
            /\ \E kept : doc' = WriteItems(doc, at, kept)
  BY DEF IInv, Sweep
<1>2. DocInv(doc)
  BY <1>1 DEF IInv, Located
<1>3. CASE doc' = doc
  BY <1>1, <1>2, <1>3, After DEF DocInv
<1>4. ASSUME NEW kept, doc' = WriteItems(doc, at, kept),
             NEW i \in DOMAIN items, M!Orphaned(items[i], name, desired)
      PROVE  IInv'
  <2>1. Swept(list, at) /\ items = readEntries(ItemsOf(node))
    BY <1>4, SMTT(30)
  <2>2. DocInv(doc')
    BY <1>1, <1>2, <1>4, <2>1, SweepWrites
  <2>3. WellFormed(format, doc')
    BY <2>2 DEF DocInv
  <2>. QED
    BY <1>1, <2>2, <2>3, After
<1>. QED
  BY <1>1, <1>3, <1>4, SMTT(30)

\* The end of a loop changes nothing in the tree.
LEMMA OthersKeep == IInv /\ (StartSweep \/ Finish) => IInv'
<1>. SUFFICES ASSUME IInv, StartSweep \/ Finish PROVE IInv'
  OBVIOUS
<1>1. /\ CallInv /\ UNCHANGED call /\ doc' = doc /\ Located /\ pc' \in {"sweep", "done"}
  BY DEF IInv, StartSweep, Finish, Located
<1>2. DocInv(doc) /\ WellFormed(format, doc)
  BY <1>1 DEF IInv
<1>. QED
  BY <1>1, <1>2, After

\* Every step keeps the invariant.
LEMMA NextKeeps == IInv /\ [Next]_vars => IInv'
<1>. SUFFICES ASSUME IInv, [Next]_vars PROVE IInv'
  OBVIOUS
<1>1. ASSUME LocateFails \/ FindGroupFails \/ ApplyOneFails PROVE IInv'
  BY <1>1, FailsKeeps DEF LocateFails, FindGroupFails, ApplyOneFails
<1>2. ASSUME UNCHANGED vars PROVE IInv'
  <2>1. /\ UNCHANGED call /\ doc' = doc /\ pc' = pc /\ at' = at /\ slot' = slot /\ entries' = entries
    BY <1>2 DEF vars
  <2>2. /\ desired' = desired /\ existing' = existing /\ format' = format
        /\ CallInv' <=> CallInv
        /\ \A body : GroupList(body)' = GroupList(body)
        /\ \A body : DocInv(body)' <=> DocInv(body)
        /\ \A list : Unswept(list)' <=> Unswept(list)
        /\ \A list, i, name, items : OpenInv(list, i, name, items)' <=> OpenInv(list, i, name, items)
    BY <2>1, SameCall
  <2>3. GroupList(doc)' = GroupList(doc)
    BY <2>1, <2>2
  <2>4. (Located => DocInv(doc))' <=> (Located => DocInv(doc))
    BY <2>1, <2>2 DEF Located
  <2>. QED
    BY <2>1, <2>2, <2>3, <2>4 DEF IInv
<1>. QED
  BY <1>1, <1>2, LocateKeeps, FindGroupKeeps, ApplyOneKeeps, WriteGroupKeeps, SweepKeeps, OthersKeep
  DEF Next

\* The conjunction of everything above holds in every state of a call.
THEOREM StepsInvariant == Spec => []IInv
<1>. QED
  BY InitInv, NextKeeps, PTL DEF Spec

-----------------------------------------------------------------------------
(***************************************************************************)
(* The properties.                                                         *)
(***************************************************************************)
LEMMA GroupsListed ==
  ASSUME IInv, Located
  PROVE  /\ ListInv(GroupList(doc)) /\ WellFormed(format, doc)
         /\ format \in {"homepage", "named"}
         /\ format = "named" => TopInv(doc)
         /\ format = "homepage" => GroupList(doc) = doc
  BY DEF IInv, DocInv, GroupList, CallInv

\* What the invariant says of brackets and empty lists.
LEMMA ReadableHolds == IInv => Readable
<1>. SUFFICES ASSUME IInv PROVE Readable
  OBVIOUS
<1>1. FlowHoldsFlow
  BY DEF IInv, CallInv, WellFormed, WellFormedList, WellFormedMapping, FlowHoldsFlow
<1>2. ASSUME Located, NEW i \in DOMAIN GroupList(doc).values,
             HasItems(GroupList(doc).values[i]), ItemsOf(GroupList(doc).values[i]).values = <<>>
      PROVE  ItemsOf(GroupList(doc).values[i]).flow
  <2>. DEFINE node == GroupList(doc).values[i]
              f == ItemsField(node)
  <2>1. WellFormedGroup(node)
    BY <1>2, GroupsListed DEF ListInv, WellFormedList
  <2>. HIDE DEF node
  <2>2. /\ node.kind = "map" /\ f # 0 /\ NameOf(node) # NonString
        /\ node.fields[f].value.kind = "seq" /\ node.fields[f].value.values = <<>>
    BY <1>2 DEF node, HasItems, NameOf, ItemsOf
  <2>3. f \in DOMAIN node.fields
    <3>1. IsSequence(node.fields)
      BY <2>1, <2>2 DEF WellFormedGroup, MapNode
    <3>2. CASE format = "homepage"
      <4>1. Len(node.fields) # 0 /\ f = 1
        BY <2>2, <3>2 DEF NameOf, ItemsField
      <4>. QED
        BY <3>1, <4>1 DEF IsSequence
    <3>3. CASE format # "homepage"
      BY <2>2, <3>1, <3>3, FindField DEF ItemsField
    <3>. QED
      BY <3>2, <3>3
  <2>. HIDE DEF f
  <2>4. node.fields[f].value.flow
    BY <2>1, <2>2, <2>3 DEF WellFormedGroup, BlockList
  <2>. QED
    BY <2>4 DEF ItemsOf, node, f
<1>3. Located => EmptyListsInBrackets
  BY <1>2 DEF EmptyListsInBrackets
<1>. QED
  BY <1>1, <1>3 DEF Readable

\* Whatever file a call finds and whatever it is asked to merge, the file can be
\* read again, marker by marker, after every step of it.
THEOREM ReadableAlways == Spec => []Readable
<1>. QED
  BY StepsInvariant, ReadableHolds, PTL

\* What it says of columns.
LEMMA ColumnsHold == IInv => ColumnsSound
<1>. SUFFICES ASSUME IInv, Located
              PROVE  /\ Aligned(doc)
                     /\ \A i \in DOMAIN GroupList(doc).values : Aligned(GroupList(doc).values[i])
                     /\ format = "named" => OffsetsKept(TopFound, doc)
                     /\ \A i \in DOMAIN GroupList(doc).values :
                          GroupList(doc).values[i].kind = "map" =>
                            OffsetsKept(Before(i), GroupList(doc).values[i])
  BY DEF ColumnsSound, FieldsAligned, IndentationKept
<1>1. \A i \in DOMAIN GroupList(doc).values : Aligned(GroupList(doc).values[i])
  BY GroupsListed DEF ListInv, WellFormedList, WellFormedGroup, Aligned
<1>2. Aligned(doc)
  <2>1. CASE format = "homepage"
    BY <2>1, GroupsListed DEF ListInv, Aligned
  <2>2. CASE format = "named"
    BY <2>2, GroupsListed DEF WellFormed, WellFormedMapping, TopInv
  <2>. QED
    BY <2>1, <2>2, GroupsListed
<1>. QED
  BY <1>1, <1>2, GroupsListed DEF TopInv, ListInv

\* The columns of the tree stay those of a file somebody could have written: fields
\* under each other, and lists where their author put them, or two columns right of
\* their key.
THEOREM ColumnsAlways == Spec => []ColumnsSound
<1>. QED
  BY StepsInvariant, ColumnsHold, PTL

\* Fields kept one by one are a prefix.
LEMMA TextsPrefix ==
  ASSUME NEW then, NEW now, IsSequence(then.fields), IsSequence(now.fields), TextsKept(then, now)
  PROVE  IsPrefix(Texts(then.fields), Texts(now.fields))
<1>. DEFINE s == Texts(then.fields)
            t == Texts(now.fields)
<1>1. /\ DOMAIN s = DOMAIN then.fields /\ DOMAIN t = DOMAIN now.fields
      /\ \A i \in DOMAIN then.fields : s[i] = Text(then.fields[i])
      /\ \A i \in DOMAIN now.fields : t[i] = Text(now.fields[i])
  BY DEF Texts, Text
<1>. HIDE DEF s, t
<1>2. /\ IsSequence(s) /\ Len(s) = Len(then.fields)
      /\ IsSequence(t) /\ Len(t) = Len(now.fields)
  BY <1>1, SamePlaces
<1>3. Len(s) <= Len(t) /\ \A i \in 1 .. Len(s) : s[i] = t[i]
  BY <1>1, <1>2 DEF TextsKept, IsSequence
<1>4. IsPrefix(s, t)
  BY <1>2, <1>3 DEF IsSequence, IsPrefix
<1>. QED
  BY <1>4 DEF s, t

\* What it says of fields, heads and items that are no group.
LEMMA SurroundingsHold == IInv => SurroundingsKept
<1>. SUFFICES ASSUME IInv, Located PROVE SurroundingsKept
  BY DEF SurroundingsKept
<1>1. /\ ListInv(GroupList(doc)) /\ WellFormed(format, doc) /\ CallInv
      /\ format = "named" => TopInv(doc)
  BY GroupsListed DEF IInv
<1>2. ASSUME format = "named", existing.kind = "map"
      PROVE  IsPrefix(Texts(existing.fields), Texts(doc.fields))
  BY <1>1, <1>2, TextsPrefix DEF TopInv, CallInv, WellFormed, WellFormedMapping, MapNode
<1>3. ASSUME NEW i \in DOMAIN ListFound.values
      PROVE  LET then == ListFound.values[i]
                 now  == GroupList(doc).values[i]
             IN  /\ HeadOf(GroupList(doc), i) = HeadOf(ListFound, i)
                 /\ now.kind = then.kind
                 /\ then.kind = "scalar" => now = then
                 /\ then.kind = "map" => IsPrefix(Texts(then.fields), Texts(now.fields))
                 /\ then.kind = "map" /\ (\A k \in DOMAIN desired : desired[k].name # NameOf(then)) =>
                      Len(now.fields) = Len(then.fields) /\ now.flow = then.flow
  <2>. DEFINE then == ListFound.values[i]
              now  == GroupList(doc).values[i]
  <2>1. GroupKept(then, now) /\ HeadOf(GroupList(doc), i) = HeadOf(ListFound, i)
    BY <1>1 DEF ListInv
  <2>2. WellFormedGroup(then) /\ WellFormedGroup(now)
    <3>1. i \in DOMAIN GroupList(doc).values
      BY <1>1, FoundList DEF ListInv, WellFormedList, IsSequence
    <3>. QED
      BY <1>1, <3>1, FoundList DEF ListInv, WellFormedList
  <2>. HIDE DEF then, now
  <2>3. then.kind = "map" => IsPrefix(Texts(then.fields), Texts(now.fields))
    BY <2>1, <2>2, TextsPrefix DEF GroupKept, WellFormedGroup, MapNode
  <2>. QED
    BY <2>1, <2>3 DEF GroupKept, Unwanted, then, now
<1>. QED
  BY <1>2, <1>3 DEF SurroundingsKept

\* No step touches what the merge has no business with, in any file.
THEOREM SurroundingsAlways == Spec => []SurroundingsKept
<1>. QED
  BY StepsInvariant, SurroundingsHold, PTL

-----------------------------------------------------------------------------
(***************************************************************************)
(* The loops of module Merge, round by round.                              *)
(***************************************************************************)
\* The operators of the community modules are the same in module Merge.
LEMMA SameMax == \A s : M!Max(s) = Max(s)
  BY DEF M!Max, Max

\* One round of either loop: of tells which, and over what.
Step(of, k, w) ==
  IF of.loop = "groups" THEN M!MergeGroup(w, of.list[k], policy)
                        ELSE M!MergeService(w, of.slot, of.list[k], policy)

\* it is the loop over the first n, as FoldLeft defines it.
Loops(of, n, base, it) ==
  it = [s \in SUBSET (1..n) |-> IF s = {} THEN base ELSE Step(of, Max(s), it[s \ {Max(s)}])]

\* Such a function exists.
LEMMA LoopExists ==
  ASSUME NEW n \in Nat, NEW of, NEW base
  PROVE  \E it : Loops(of, n, base, it)
<1>. DEFINE T == {m \in Nat : \E it : Loops(of, m, base, it)}
<1>1. 0 \in T
  <2>1. SUBSET (1..0) = {{}}
    OBVIOUS
  <2>2. Loops(of, 0, base, [s \in SUBSET (1..0) |-> base])
    BY <2>1 DEF Loops
  <2>. QED
    BY <2>2
<1>2. ASSUME NEW m \in Nat, m \in T PROVE m + 1 \in T
  <2>1. PICK it : Loops(of, m, base, it)
    BY <1>2
  <2>. DEFINE g == [s \in SUBSET (1..(m + 1)) |->
                      IF m + 1 \in s THEN Step(of, m + 1, it[s \ {m + 1}]) ELSE it[s]]
  <2>2. ASSUME NEW s \in SUBSET (1..(m + 1))
        PROVE  g[s] = IF s = {} THEN base ELSE Step(of, Max(s), g[s \ {Max(s)}])
    <3>1. CASE m + 1 \in s
      <4>1. Max(s) = m + 1
        BY <3>1, TopOfInterval
      <4>2. s \ {m + 1} \in SUBSET (1..(m + 1)) /\ m + 1 \notin s \ {m + 1}
        OBVIOUS
      <4>3. g[s \ {m + 1}] = it[s \ {m + 1}]
        BY <4>2
      <4>4. g[s] = Step(of, m + 1, it[s \ {m + 1}]) /\ s # {}
        BY <3>1
      <4>. QED
        BY <4>1, <4>3, <4>4
    <3>2. CASE m + 1 \notin s
      <4>. DEFINE r == s \ {Max(s)}
      <4>1. s \in SUBSET (1..m)
        BY <3>2
      <4>2. r \in SUBSET (1..(m + 1)) /\ m + 1 \notin r
        BY <3>2
      <4>3. g[r] = it[r] /\ g[s] = it[s]
        BY <3>2, <4>2
      <4>4. it[s] = IF s = {} THEN base ELSE Step(of, Max(s), it[r])
        BY <2>1, <4>1 DEF Loops
      <4>. QED
        BY <4>3, <4>4
    <3>. QED
      BY <3>1, <3>2
  <2>3. Loops(of, m + 1, base, g)
    BY <2>2 DEF Loops
  <2>. HIDE DEF g
  <2>. QED
    BY <2>3
<1>. HIDE DEF T
<1>3. n \in T
  BY <1>1, <1>2, Induction
<1>. QED
  BY <1>3 DEF T

\* f is what the loop has after each of n rounds.
GoesOn(of, n, base, f) ==
  f[0] = base /\ \A k \in 1..n : f[k] = Step(of, k, f[k - 1])

\* The loop goes from the first round to the last.
LEMMA LoopRounds ==
  ASSUME NEW n \in Nat, NEW of, NEW base, NEW it, Loops(of, n, base, it)
  PROVE  \E f : GoesOn(of, n, base, f) /\ f[n] = it[1..n]
<1>. DEFINE g == [k \in 0..n |-> it[1..k]]
<1>0. ASSUME NEW s \in SUBSET (1..n)
      PROVE  it[s] = IF s = {} THEN base ELSE Step(of, Max(s), it[s \ {Max(s)}])
  BY DEF Loops
<1>1. g[0] = base
  <2>1. 1..0 \in SUBSET (1..n) /\ 1..0 = {} /\ 0 \in 0..n
    OBVIOUS
  <2>. QED
    BY <1>0, <2>1
<1>2. ASSUME NEW k \in 1..n PROVE g[k] = Step(of, k, g[k - 1])
  <2>1. k \in 0..n /\ k - 1 \in 0..n
    OBVIOUS
  <2>2. /\ 1..k \in SUBSET (1..n) /\ 1..k # {}
        /\ Max(1..k) = k /\ (1..k) \ {k} = 1..(k - 1)
    BY TopOfPrefix
  <2>3. it[1..k] = Step(of, k, it[1..(k - 1)])
    BY <1>0, <2>2
  <2>. QED
    BY <2>1, <2>3
<1>3. g[n] = it[1..n]
  OBVIOUS
<1>. HIDE DEF g
<1>. QED
  BY <1>1, <1>2, <1>3 DEF GoesOn

\* MergeGroups is what is left after the last group.
LEMMA GroupRounds ==
  ASSUME NEW list, NEW n \in Nat, DOMAIN list = 1..n, NEW work
  PROVE  \E f : /\ f[0] = work
                /\ \A k \in 1..n : f[k] = M!MergeGroup(f[k - 1], list[k], policy)
                /\ M!MergeGroups(work, list, policy) = f[n]
<1>. DEFINE of == [loop |-> "groups", list |-> list, slot |-> 0]
            Is(it) == it = [s \in SUBSET DOMAIN list |->
                              IF s = {} THEN work
                              ELSE M!MergeGroup(it[s \ {M!Max(s)}], list[M!Max(s)], policy)]
            it == CHOOSE h : Is(h)
<1>1. M!MergeGroups(work, list, policy) = it[DOMAIN list]
  BY DEF M!MergeGroups, M!FoldLeft, M!MapThenFoldSet
<1>2. \A k, w : Step(of, k, w) = M!MergeGroup(w, list[k], policy)
  BY DEF Step
<1>. HIDE DEF of
<1>3. \A h : Is(h) <=> Loops(of, n, work, h)
  BY <1>2, SameMax DEF Loops
<1>. HIDE DEF Is
<1>4. Loops(of, n, work, it)
  BY <1>3, LoopExists
<1>. HIDE DEF it
<1>5. PICK f : GoesOn(of, n, work, f) /\ f[n] = it[1..n]
  BY <1>4, LoopRounds
<1>. QED
  BY <1>1, <1>2, <1>5 DEF GoesOn

\* MergeServices is what is left after the last service.
LEMMA ServiceRounds ==
  ASSUME NEW list, NEW n \in Nat, DOMAIN list = 1..n, NEW work, NEW i
  PROVE  \E f : /\ f[0] = work
                /\ \A k \in 1..n : f[k] = M!MergeService(f[k - 1], i, list[k], policy)
                /\ M!MergeServices(work, i, list, policy) = f[n]
<1>. DEFINE of == [loop |-> "services", list |-> list, slot |-> i]
            Is(it) == it = [s \in SUBSET DOMAIN list |->
                              IF s = {} THEN work
                              ELSE M!MergeService(it[s \ {M!Max(s)}], i, list[M!Max(s)], policy)]
            it == CHOOSE h : Is(h)
<1>1. M!MergeServices(work, i, list, policy) = it[DOMAIN list]
  BY DEF M!MergeServices, M!FoldLeft, M!MapThenFoldSet
<1>2. \A k, w : Step(of, k, w) = M!MergeService(w, i, list[k], policy)
  BY DEF Step
<1>. HIDE DEF of
<1>3. \A h : Is(h) <=> Loops(of, n, work, h)
  BY <1>2, SameMax DEF Loops
<1>. HIDE DEF Is
<1>4. Loops(of, n, work, it)
  BY <1>3, LoopExists
<1>. HIDE DEF it
<1>5. PICK f : GoesOn(of, n, work, f) /\ f[n] = it[1..n]
  BY <1>4, LoopRounds
<1>. QED
  BY <1>1, <1>2, <1>5 DEF GoesOn

-----------------------------------------------------------------------------
(***************************************************************************)
(* What module Merge sees of the tree, operation by operation.             *)
(***************************************************************************)
SeenList(list) == [i \in DOMAIN list.values |-> SeenGroup(list.values[i])]

\* A group's field of items is one of its fields.
LEMMA ItemsFieldIn ==
  ASSUME NEW node, WellFormedGroup(node), NameOf(node) # NonString, ItemsField(node) # 0
  PROVE  node.kind = "map" /\ ItemsField(node) \in DOMAIN node.fields
<1>1. node.kind = "map" /\ IsSequence(node.fields)
  BY DEF NameOf, WellFormedGroup, MapNode
<1>2. CASE format = "homepage"
  <2>1. Len(node.fields) # 0 /\ ItemsField(node) = 1
    BY <1>1, <1>2 DEF NameOf, ItemsField
  <2>. QED
    BY <1>1, <2>1 DEF IsSequence
<1>3. CASE format # "homepage"
  BY <1>1, <1>3, FindField DEF ItemsField
<1>. QED
  BY <1>1, <1>2, <1>3

\* A group that was moved is seen as before.
LEMMA MovedSeen ==
  ASSUME format \in {"homepage", "named"}, NEW then, WellFormedGroup(then), NEW now, Moved(then, now)
  PROVE  SeenGroup(now) = SeenGroup(then)
<1>1. NameOf(now) = NameOf(then)
  BY MovedReads
<1>2. CASE NameOf(then) = NonString
  BY <1>1, <1>2 DEF SeenGroup
<1>3. CASE NameOf(then) # NonString
  <2>1. then.kind = "map" /\ now.kind = "map"
    BY <1>3 DEF NameOf, Moved
  <2>2. /\ IsSequence(then.fields) /\ IsSequence(now.fields) /\ Len(now.fields) = Len(then.fields)
        /\ \A i \in DOMAIN then.fields : SameField(then.fields[i], now.fields[i])
    BY <2>1 DEF Moved, WellFormedGroup, MapNode
  <2>3. ItemsField(now) = ItemsField(then)
    BY <2>1, <2>2, SameReads, SameReading
  <2>. DEFINE f == ItemsField(then)
  <2>4. CASE f = 0
    BY <1>1, <1>3, <2>3, <2>4 DEF SeenGroup
  <2>5. CASE f # 0
    <3>. DEFINE u == then.fields[f].value
                v == now.fields[f].value
    <3>1. f \in DOMAIN then.fields
      BY <1>3, <2>5, ItemsFieldIn
    <3>2. SameField(then.fields[f], now.fields[f])
      BY <2>2, <3>1
    <3>3. ItemsOf(then) = u /\ ItemsOf(now) = v
      BY <2>3 DEF ItemsOf
    <3>4. v.kind = u.kind
      BY <3>2 DEF SameField
    <3>5. Broken(now) <=> Broken(then)
      BY <2>3, <3>3, <3>4 DEF Broken
    <3>6. ASSUME ~Broken(then) PROVE readEntries(v) = readEntries(u)
      <4>1. u.kind = "seq"
        BY <2>5, <3>3, <3>6 DEF Broken
      <4>2. \A k \in DOMAIN u.values : u.values[k].kind = "entry"
        BY <2>1, <3>1, <4>1 DEF WellFormedGroup
      <4>3. /\ v.comment = u.comment /\ v.heads = u.heads /\ DOMAIN v.values = DOMAIN u.values
            /\ \A k \in DOMAIN u.values : v.values[k] = u.values[k]
        BY <3>2, <4>1, <4>2 DEF SameField
      <4>. HIDE DEF u, v
      <4>. QED
        BY <4>3, SameEntries
    <3>. HIDE DEF u, v, f
    <3>. QED
      BY <1>1, <1>3, <2>3, <2>5, <3>3, <3>5, <3>6 DEF SeenGroup, f
  <2>. QED
    BY <2>4, <2>5
<1>. QED
  BY <1>2, <1>3

\* GroupSequence: the groups are those the file has, none if it has no list yet.
LEMMA LocatedSeen ==
  ASSUME CallInv, Locatable
  PROVE  SeenList(GroupList(GroupSequence)) = Seen.groups
<1>. DEFINE list == GroupList(GroupSequence)
<1>1. ListMoved(ListFound, list)
  BY HomepageLocated, NamedLocated DEF CallInv
<1>2. ListFound.kind = "seq" /\ WellFormedList(ListFound)
      /\ (SeenRoot = "groups" => ListFound = GroupList(existing))
  BY FoundList
<1>. HIDE DEF list
<1>3. DOMAIN list.values = DOMAIN ListFound.values
  BY <1>1, <1>2, SameLength DEF ListMoved, WellFormedList
<1>4. \A i \in DOMAIN ListFound.values : SeenGroup(list.values[i]) = SeenGroup(ListFound.values[i])
  BY <1>1, <1>2, MovedSeen DEF ListMoved, WellFormedList, CallInv
<1>5. SeenList(list) = SeenList(ListFound)
  BY <1>3, <1>4 DEF SeenList
<1>6. Seen.groups = IF SeenRoot = "groups" THEN SeenGroups(existing) ELSE <<>>
  BY DEF Seen
<1>7. CASE SeenRoot = "groups"
  BY <1>2, <1>5, <1>6, <1>7 DEF SeenGroups, SeenList, list
<1>8. CASE SeenRoot # "groups"
  <2>1. ListFound.values = <<>>
    BY <1>8 DEF ListFound, newEmptySequence
  <2>. QED
    BY <1>5, <1>6, <1>8, <2>1 DEF SeenList, list
<1>. QED
  BY <1>7, <1>8

\* GroupSequence fails on the tree where it fails in module Merge.
LEMMA LocatableSeen ==
  ASSUME CallInv
  PROVE  M!HasGroupSequence(Seen) <=> Locatable
<1>1. Seen.root = SeenRoot
  BY DEF Seen
<1>2. M!HasGroupSequence(Seen) <=>
        SeenRoot \in {"blank", "groups"} \/ (format = "named" /\ SeenRoot = "noKey")
  BY <1>1 DEF M!HasGroupSequence
<1>3. CASE blank
  <2>1. SeenRoot = "blank" /\ existing = newEmptySequence
    BY <1>3 DEF SeenRoot, CallInv
  <2>2. Locatable
    <3>1. CASE format = "homepage"
      BY <2>1, <3>1 DEF Locatable, newEmptySequence
    <3>2. CASE format = "named"
      <4>1. /\ Start.kind = "map" /\ IsSequence(Start.fields) /\ DOMAIN Start.fields = {1}
            /\ Start.fields[1].value = EmptyList
        BY <1>3 DEF Start, FreshDocument, Mapping, FreshField, IsSequence
      <4>2. findField(Start, TopLevelKey) # 0 => findField(Start, TopLevelKey) = 1
        BY <4>1, FindField
      <4>. QED
        BY <3>2, <4>1, <4>2, FreshList DEF Locatable
    <3>. QED
      BY <3>1, <3>2 DEF CallInv
  <2>. QED
    BY <1>2, <2>1, <2>2
<1>4. CASE ~blank
  BY <1>2, <1>4 DEF SeenRoot, CallInv
<1>. QED
  BY <1>3, <1>4 DEF CallInv

\* A group that was opened is seen as a list.
LEMMA OpenedSeen ==
  ASSUME NEW node, WellFormedGroup(node), node.kind = "map", NameOf(node) # NonString, ~Broken(node),
         NEW now, Opened(node, now)
  PROVE  SeenGroup(now) = [SeenGroup(node) EXCEPT !.shape = "list"]
<1>1. /\ NameOf(now) = NameOf(node) /\ ItemsOf(now).kind = "seq"
      /\ ItemsField(now) \in DOMAIN now.fields /\ ItemsKept(node, now)
  BY DEF Opened
<1>2. ItemsField(now) # 0
  <2>1. IsSequence(now.fields)
    BY DEF Opened, WellFormedGroup, MapNode
  <2>. QED
    BY <1>1, <2>1 DEF IsSequence
<1>3. ~Broken(now)
  BY <1>1 DEF Broken
<1>4. SeenGroup(now) = [name |-> NameOf(now), shape |-> "list", items |-> readEntries(ItemsOf(now))]
  BY <1>1, <1>2, <1>3 DEF SeenGroup
<1>5. SeenGroup(node) =
        IF ItemsField(node) = 0 THEN [name |-> NameOf(node), shape |-> "noItems", items |-> <<>>]
        ELSE [name |-> NameOf(node), shape |-> "list", items |-> readEntries(ItemsOf(node))]
  BY DEF SeenGroup
<1>. QED
  BY <1>1, <1>4, <1>5 DEF ItemsKept

\* Min is the same in module Merge.
LEMMA SameMin == \A s : M!Min(s) = Min(s)
  BY DEF M!Min, Min

\* The first group of a name is where the tree's is.
LEMMA IndexSeen ==
  ASSUME NEW list, IsSequence(list.values), NEW name
  PROVE  M!GroupIndex(SeenList(list), name) = GroupAt(list, name)
<1>. DEFINE seen == SeenList(list)
<1>1. IsSequence(seen) /\ Len(seen) = Len(list.values)
  <2>1. DOMAIN seen = DOMAIN list.values
    BY DEF SeenList
  <2>. QED
    BY <2>1, SamePlaces
<1>2. \A i \in 1..Len(list.values) : seen[i].name = NameOf(list.values[i])
  BY DEF SeenList, SeenGroup, IsSequence
<1>. HIDE DEF seen
<1>. DEFINE I == {i \in 1..Len(list.values) : NameOf(list.values[i]) = name}
            J == {i \in 1..Len(seen) : seen[i].name = name}
<1>3. I = J
  BY <1>1, <1>2
<1>4. GroupAt(list, name) = IF I # {} THEN Min(I) ELSE 0
  BY DEF GroupAt, SelectInSeq
<1>5. M!GroupIndex(seen, name) = IF J # {} THEN M!Min(J) ELSE 0
  BY DEF M!GroupIndex, M!SelectInSeq
<1>. HIDE DEF I, J
<1>6. M!GroupIndex(seen, name) = GroupAt(list, name)
  BY <1>3, <1>4, <1>5, SameMin
<1>. QED
  BY <1>6 DEF seen

\* A group is broken in the tree where it is broken in module Merge.
LEMMA BrokenSeen ==
  ASSUME NEW list, IsSequence(list.values), NEW name, name # NonString
  PROVE  M!GroupIsBroken(SeenList(list), name) <=>
           GroupAt(list, name) # 0 /\ Broken(list.values[GroupAt(list, name)])
<1>. DEFINE i == GroupAt(list, name)
<1>1. M!GroupIsBroken(SeenList(list), name) <=> i # 0 /\ SeenList(list)[i].shape = "notList"
  BY IndexSeen DEF M!GroupIsBroken
<1>2. i # 0 => i \in DOMAIN list.values /\ NameOf(list.values[i]) = name
  BY GroupFound
<1>. HIDE DEF i
<1>3. i # 0 => (SeenList(list)[i].shape = "notList" <=> Broken(list.values[i]))
  BY <1>2 DEF SeenList, SeenGroup, Broken
<1>4. M!GroupIsBroken(SeenList(list), name) <=> i # 0 /\ Broken(list.values[i])
  BY <1>1, <1>3
<1>. QED
  BY <1>4 DEF i

\* FindOrCreateGroup, of a group that is there.
LEMMA ReopenedSeen ==
  ASSUME CallInv, NEW list, ListInv(list), Unswept(list),
         NEW name, name # NonString, ~Unwanted(name),
         NEW i, i = GroupAt(list, name), i # 0, ~Broken(list.values[i])
  PROVE  LET now == FindOrCreateGroup(list, name) IN
         /\ SeenList(now) = M!FindOrCreateGroup(SeenList(list), name)
         /\ M!GroupIndex(SeenList(now), name) = i
<1>. DEFINE now == FindOrCreateGroup(list, name)
<1>1. /\ i \in DOMAIN list.values /\ DOMAIN now.values = DOMAIN list.values
      /\ \A k \in DOMAIN list.values : k # i => now.values[k] = list.values[k]
      /\ Opened(list.values[i], now.values[i])
  BY GroupReopened
<1>. HIDE DEF now
<1>2. IsSequence(list.values) /\ WellFormedGroup(list.values[i]) /\ NameOf(list.values[i]) = name
  BY <1>1, GroupFound DEF ListInv, WellFormedList
<1>3. list.values[i].kind = "map"
  BY <1>2 DEF NameOf
<1>4. SeenGroup(now.values[i]) = [SeenGroup(list.values[i]) EXCEPT !.shape = "list"]
  BY <1>1, <1>2, <1>3, OpenedSeen
<1>5. M!GroupIndex(SeenList(list), name) = i
  BY <1>2, IndexSeen
<1>6. M!FindOrCreateGroup(SeenList(list), name) = [SeenList(list) EXCEPT ![i].shape = "list"]
  BY <1>5 DEF M!FindOrCreateGroup
<1>7. SeenList(now) = [SeenList(list) EXCEPT ![i].shape = "list"]
  BY <1>1, <1>4 DEF SeenList
<1>8. GroupAt(now, name) = i
  <2>1. \A k \in DOMAIN list.values : NameOf(now.values[k]) = NameOf(list.values[k])
    BY <1>1 DEF Opened
  <2>2. IsSequence(now.values) /\ Len(now.values) = Len(list.values)
    BY <1>1, <1>2, SamePlaces
  <2>3. {k \in 1..Len(now.values) : NameOf(now.values[k]) = name} =
        {k \in 1..Len(list.values) : NameOf(list.values[k]) = name}
    BY <1>2, <2>1, <2>2 DEF IsSequence
  <2>. QED
    BY <2>3 DEF GroupAt, SelectInSeq
<1>9. M!GroupIndex(SeenList(now), name) = i
  <2>1. IsSequence(now.values)
    BY <1>1, <1>2, SamePlaces
  <2>. QED
    BY <1>8, <2>1, IndexSeen
<1>. QED
  BY <1>6, <1>7, <1>9 DEF now

\* s is a function on the first n numbers.
Listing(s, n) == s = [k \in 1..n |-> s[k]]

\* A sequence that goes on where another ends.
LEMMA OneMore ==
  ASSUME NEW n \in Nat, NEW s, Listing(s, n), NEW t, Listing(t, n + 1),
         \A k \in 1..n : t[k] = s[k]
  PROVE  t = Append(s, t[n + 1])
<1>0. s = [k \in 1..n |-> s[k]] /\ t = [k \in 1..(n + 1) |-> t[k]]
  BY DEF Listing
<1>. DEFINE S == {t[k] : k \in 1..(n + 1)}
<1>1. \A k \in 1..(n + 1) : t[k] \in S
  OBVIOUS
<1>2. \A k \in 1..n : s[k] \in S
  <2>1. \A k \in 1..n : k \in 1..(n + 1)
    OBVIOUS
  <2>. QED
    BY <1>1, <2>1
<1>. HIDE DEF S
<1>3. t \in Seq(S) /\ Len(t) = n + 1
  BY <1>0, <1>1
<1>4. s \in Seq(S) /\ Len(s) = n
  <2>1. s \in [1..n -> S]
    BY <1>0, <1>2
  <2>. QED
    BY <2>1
<1>5. n + 1 \in 1..(n + 1) /\ t[n + 1] \in S
  BY <1>1
<1>. DEFINE e == t[n + 1]
            r == Append(s, e)
<1>6. e \in S
  BY <1>5
<1>. HIDE DEF e
<1>7. r \in Seq(S) /\ Len(r) = n + 1 /\ r[n + 1] = e /\ \A k \in 1..n : r[k] = s[k]
  BY <1>4, <1>6
<1>. HIDE DEF r
<1>8. DOMAIN r = 1..(n + 1) /\ r = [k \in 1..(n + 1) |-> r[k]]
  BY <1>7
<1>9. \A k \in 1..(n + 1) : r[k] = t[k]
  <2>1. \A k \in 1..(n + 1) : k \in 1..n \/ k = n + 1
    OBVIOUS
  <2>2. \A k \in 1..n : r[k] = t[k]
    BY <1>7
  <2>3. r[n + 1] = t[n + 1]
    BY <1>7 DEF e
  <2>. QED
    BY <2>1, <2>2, <2>3
<1>10. r = t
  BY <1>0, <1>8, <1>9
<1>. QED
  BY <1>10 DEF r, e

\* FindOrCreateGroup, of a group that is not there.
LEMMA AddedSeen ==
  ASSUME CallInv, NEW list, ListInv(list), Unswept(list),
         NEW name, name # NonString, GroupAt(list, name) = 0
  PROVE  LET now == FindOrCreateGroup(list, name) IN
         /\ SeenList(now) = M!FindOrCreateGroup(SeenList(list), name)
         /\ M!GroupIndex(SeenList(now), name) = Len(list.values) + 1
<1>. DEFINE now == FindOrCreateGroup(list, name)
            n   == Len(list.values)
            fresh == [name |-> name, shape |-> "list", items |-> <<>>]
<1>1. /\ GroupAtHand(now, n + 1, name) /\ Len(now.values) = n + 1
      /\ \A k \in DOMAIN list.values : now.values[k] = list.values[k]
      /\ readEntries(ItemsOf(now.values[n + 1])) = <<>>
      /\ ListInv(now)
  BY GroupAdded
<1>. HIDE DEF now
<1>2. IsSequence(list.values) /\ IsSequence(now.values)
  BY <1>1 DEF ListInv, WellFormedList
<1>3. DOMAIN list.values = 1..n /\ DOMAIN now.values = 1..(n + 1) /\ n \in Nat
  BY <1>1, <1>2 DEF IsSequence
<1>4. SeenGroup(now.values[n + 1]) = fresh
  <2>. DEFINE node == now.values[n + 1]
  <2>1. /\ NameOf(node) = name /\ ItemsField(node) \in DOMAIN node.fields
        /\ ItemsOf(node).kind = "seq" /\ IsSequence(node.fields)
    BY <1>1 DEF GroupAtHand, Ready, WellFormedGroup, MapNode
  <2>2. readEntries(ItemsOf(node)) = <<>>
    BY <1>1
  <2>. HIDE DEF node
  <2>3. ItemsField(node) # 0
    BY <2>1 DEF IsSequence
  <2>4. SeenGroup(node) = fresh
    BY <2>1, <2>2, <2>3 DEF SeenGroup, Broken
  <2>. QED
    BY <2>4 DEF node
<1>. HIDE DEF fresh
<1>5. DOMAIN SeenList(list) = 1..n /\ DOMAIN SeenList(now) = 1..(n + 1)
  BY <1>3 DEF SeenList
<1>6. Len(SeenList(list)) = n
  BY <1>3, <1>5
<1>7. \A k \in 1..n : SeenList(now)[k] = SeenList(list)[k]
  BY <1>1, <1>3 DEF SeenList
<1>8. SeenList(now)[n + 1] = fresh
  BY <1>3, <1>4 DEF SeenList
<1>9. SeenList(now) = Append(SeenList(list), fresh)
  <2>1. SeenList(list) = [k \in 1..n |-> SeenList(list)[k]]
    BY <1>3 DEF SeenList
  <2>2. SeenList(now) = [k \in 1..(n + 1) |-> SeenList(now)[k]]
    BY <1>3 DEF SeenList
  <2>3. n \in Nat
    BY <1>3
  <2>. DEFINE s == SeenList(list)
              t == SeenList(now)
  <2>. HIDE DEF s, t, n
  <2>4. \A k \in 1..n : t[k] = s[k]
    BY <1>7 DEF s, t
  <2>5. Listing(s, n) /\ Listing(t, n + 1)
    BY <2>1, <2>2 DEF s, t, Listing
  <2>6. t = Append(s, t[n + 1])
    BY ONLY <2>3, <2>4, <2>5, OneMore
  <2>. QED
    BY <1>8, <2>6 DEF s, t
<1>10. M!GroupIndex(SeenList(list), name) = 0
  BY <1>2, IndexSeen
<1>11. M!FindOrCreateGroup(SeenList(list), name) = Append(SeenList(list), fresh)
  BY <1>10 DEF M!FindOrCreateGroup, fresh
<1>12. GroupAt(now, name) = n + 1
  <2>. DEFINE I == {k \in 1..Len(list.values) : NameOf(list.values[k]) = name}
              J == {k \in 1..Len(now.values) : NameOf(now.values[k]) = name}
  <2>1. GroupAt(list, name) = IF I # {} THEN Min(I) ELSE 0
    BY DEF GroupAt, SelectInSeq
  <2>2. I # {} => Min(I) \in I
    <3>1. I \subseteq Nat
      BY <1>3
    <3>. HIDE DEF I
    <3>. QED
      BY <3>1, MinIsLeast
  <2>3. I = {}
    <3>1. 0 \notin I
      BY <1>3
    <3>. HIDE DEF I
    <3>. QED
      BY <2>1, <2>2, <3>1
  <2>4. NameOf(now.values[n + 1]) = name
    BY <1>1 DEF GroupAtHand, Ready
  <2>5. J = {n + 1}
    BY <1>1, <1>3, <2>3, <2>4
  <2>6. GroupAt(now, name) = IF J # {} THEN Min(J) ELSE 0
    BY DEF GroupAt, SelectInSeq
  <2>7. J \in SUBSET Nat /\ J # {}
    BY <1>3, <2>5
  <2>. HIDE DEF J
  <2>. QED
    BY <2>5, <2>6, <2>7, MinIsLeast
<1>13. M!GroupIndex(SeenList(now), name) = n + 1
  BY <1>2, <1>12, IndexSeen
<1>. QED
  BY <1>9, <1>11, <1>13 DEF now

\* An entry has what seqEntry has and nothing else.
Plain(e) == e = [comment |-> e.comment, body |-> e.body, style |-> e.style, wrote |-> e.wrote]

PlainItems(items) == \E S : items \in Seq(S) /\ \A e \in S : Plain(e)

\* What readEntries returns.
LEMMA ReadPlain ==
  ASSUME NEW list, IsSequence(list.values)
  PROVE  PlainItems(readEntries(list))
<1>. DEFINE items == readEntries(list)
            S == {items[k] : k \in DOMAIN list.values}
<1>1. items = [k \in DOMAIN list.values |-> items[k]]
  BY DEF readEntries
<1>2. \A k \in DOMAIN list.values : Plain(items[k])
  BY DEF readEntries, Plain
<1>. HIDE DEF items
<1>3. \A k \in DOMAIN list.values : items[k] \in S
  OBVIOUS
<1>4. \A e \in S : Plain(e)
  BY <1>2
<1>. HIDE DEF S
<1>5. items \in Seq(S)
  BY <1>1, <1>3 DEF IsSequence
<1>. QED
  BY <1>4, <1>5 DEF PlainItems, items

\* What writeEntries writes is what readEntries reads back.
LEMMA ReadBack ==
  ASSUME NEW seq, ListNode(seq), NEW items, PlainItems(items)
  PROVE  readEntries(writeEntries(seq, items)) = items
<1>. DEFINE now == writeEntries(seq, items)
<1>1. PICK S : items \in Seq(S) /\ \A e \in S : Plain(e)
  BY DEF PlainItems
<1>2. /\ Len(items) \in Nat /\ DOMAIN items = 1..Len(items)
      /\ items = [k \in DOMAIN items |-> items[k]]
      /\ \A k \in DOMAIN items : Plain(items[k])
  BY <1>1
<1>3. CASE DOMAIN items = {}
  <2>1. now = newEmptySequence
    BY <1>3 DEF writeEntries
  <2>2. readEntries(now) = <<>>
    BY <2>1, NoEntries DEF newEmptySequence
  <2>3. items = <<>>
    BY <1>1, <1>2, <1>3
  <2>. QED
    BY <2>2, <2>3
<1>4. CASE DOMAIN items # {}
  <2>1. /\ now.comment = items[1].comment
        /\ now.values = [k \in DOMAIN items |-> NodeOf(items[k])]
        /\ now.heads = [k \in DOMAIN items |-> IF k = 1 THEN NoHead ELSE items[k].comment]
    BY <1>4 DEF writeEntries, ListNode, newEmptySequence
  <2>. HIDE DEF now
  <2>2. Len(now.heads) = Len(items)
    <3>1. IsSequence(items) /\ DOMAIN now.heads = DOMAIN items
      BY <1>2, <2>1 DEF IsSequence
    <3>. QED
      BY <3>1, SamePlaces
  <2>3. \A k \in DOMAIN items : HeadOf(now, k) = items[k].comment
    BY <1>2, <2>1, <2>2 DEF HeadOf
  <2>4. DOMAIN now.values = DOMAIN items
    BY <2>1
  <2>5. ASSUME NEW k \in DOMAIN items PROVE readEntries(now)[k] = items[k]
    <3>1. /\ now.values[k].body = items[k].body /\ now.values[k].style = items[k].style
          /\ now.values[k].wrote = items[k].wrote
      BY <2>1 DEF NodeOf
    <3>2. readEntries(now)[k] = [comment |-> items[k].comment, body |-> items[k].body,
                                 style |-> items[k].style, wrote |-> items[k].wrote]
      BY <2>3, <2>4, <3>1 DEF readEntries
    <3>. QED
      BY <1>2, <3>2 DEF Plain
  <2>6. readEntries(now) = [k \in DOMAIN items |-> readEntries(now)[k]]
    BY <2>4 DEF readEntries
  <2>7. readEntries(now) = items
    BY <1>2, <2>5, <2>6
  <2>. QED
    BY <2>7 DEF now
<1>. QED
  BY <1>3, <1>4

\* One more entry, or another in its place.
LEMMA PutPlain ==
  ASSUME NEW items, PlainItems(items), NEW e, Plain(e)
  PROVE  /\ PlainItems(Append(items, e))
         /\ \A k : PlainItems([items EXCEPT ![k] = e])
<1>1. PICK S : items \in Seq(S) /\ \A x \in S : Plain(x)
  BY DEF PlainItems
<1>. DEFINE T == S \cup {e}
<1>2. e \in T /\ \A x \in T : Plain(x)
  BY <1>1
<1>3. items \in Seq(T)
  BY <1>1
<1>. HIDE DEF T
<1>4. Append(items, e) \in Seq(T)
  BY <1>2, <1>3
<1>5. ASSUME NEW k PROVE [items EXCEPT ![k] = e] \in Seq(T)
  <2>. DEFINE n == Len(items)
              r == [items EXCEPT ![k] = e]
  <2>1. n \in Nat /\ DOMAIN items = 1..n /\ \A j \in 1..n : items[j] \in T
    BY <1>3
  <2>2. r = [j \in 1..n |-> IF j = k THEN e ELSE items[j]]
    BY <2>1
  <2>. HIDE DEF n, r
  <2>3. \A j \in 1..n : r[j] \in T
    BY <1>2, <2>1, <2>2
  <2>4. r = [j \in 1..n |-> r[j]]
    BY <2>2
  <2>5. r \in Seq(T)
    BY <2>1, <2>3, <2>4
  <2>. QED
    BY <2>5 DEF r
<1>. QED
  BY <1>2, <1>4, <1>5 DEF PlainItems

\* What applyDesired leaves.
LEMMA AppliedPlain ==
  ASSUME NEW items, PlainItems(items), NEW svc, NEW p
  PROVE  PlainItems(M!ApplyService(items, svc, p))
<1>1. Plain(M!Rendered(svc))
  BY DEF Plain, M!Rendered
<1>. DEFINE e == M!Rendered(svc)
            i == M!findManagedIndex(items, svc.id)
<1>2. \/ M!ApplyService(items, svc, p) = Append(items, e)
      \/ M!ApplyService(items, svc, p) = [items EXCEPT ![i] = e]
      \/ M!ApplyService(items, svc, p) = items
  BY DEF M!ApplyService
<1>. HIDE DEF e, i
<1>3. Plain(e)
  BY <1>1 DEF e
<1>4. PlainItems(Append(items, e)) /\ PlainItems([items EXCEPT ![i] = e])
  BY <1>3, PutPlain
<1>. QED
  BY <1>2, <1>4

\* FlattenSeq and what is defined by it are the same in module Merge.
LEMMA SameFlatten == \A ss : M!FlattenSeq(ss) = FlattenSeq(ss)
  BY DEF M!FlattenSeq, FlattenSeq

\* And so is Only.
LEMMA SameOnly == \A s, Q : M!Only(s, Q) = Only(s, Q)
  BY SameFlatten DEF M!Only, Only

\* What removeOrphaned leaves.
LEMMA KeptPlain ==
  ASSUME NEW items, PlainItems(items), NEW Q
  PROVE  PlainItems(M!Only(items, Q))
<1>1. PICK S : items \in Seq(S) /\ \A x \in S : Plain(x)
  BY DEF PlainItems
<1>2. M!Only(items, Q) \in Seq(S)
  BY <1>1, SameOnly, OnlyTypes
<1>. QED
  BY <1>1, <1>2 DEF PlainItems

\* writeEntries, of the group at one place.
LEMMA WrittenSeen ==
  ASSUME NEW list, NEW i \in DOMAIN list.values,
         NameOf(list.values[i]) # NonString, ItemsField(list.values[i]) # 0,
         ItemsOf(list.values[i]).kind = "seq", ListNode(ItemsOf(list.values[i])),
         NEW items, PlainItems(items), NEW now, Rewritten(list, i, items, now)
  PROVE  SeenList(now) = [SeenList(list) EXCEPT ![i].items = items]
<1>. DEFINE node == list.values[i]
            f    == ItemsField(node)
<1>1. /\ DOMAIN now.values = DOMAIN list.values
      /\ \A k \in DOMAIN list.values : k # i => now.values[k] = list.values[k]
      /\ NameOf(now.values[i]) = NameOf(node)
      /\ ItemsField(now.values[i]) = f
      /\ ItemsOf(now.values[i]) = writeEntries(ItemsOf(node), items)
  BY DEF Rewritten
<1>2. writeEntries(ItemsOf(node), items).kind = "seq"
  BY WrittenEntries
<1>3. readEntries(ItemsOf(now.values[i])) = items
  BY <1>1, ReadBack
<1>4. SeenGroup(node) = [name |-> NameOf(node), shape |-> "list", items |-> readEntries(ItemsOf(node))]
  BY DEF SeenGroup, Broken
<1>5. SeenGroup(now.values[i]) = [name |-> NameOf(node), shape |-> "list", items |-> items]
  BY <1>1, <1>2, <1>3 DEF SeenGroup, Broken
<1>6. SeenGroup(now.values[i]) = [SeenGroup(node) EXCEPT !.items = items]
  BY <1>4, <1>5
<1>. QED
  BY <1>1, <1>6 DEF SeenList

\* What GroupServices returns can be walked from first to last.
LEMMA WantedInOrder ==
  ASSUME NEW services
  PROVE  LET wanted == M!GroupServices(services) IN
         IsSequence(wanted) /\ \A k \in DOMAIN wanted : IsSequence(wanted[k].services)
<1>. DEFINE wanted == M!GroupServices(services)
<1>1. \A Q : IsSequence(M!Only(GroupOrder, Q)) /\ IsSequence(M!Only(ServiceOrder, Q))
  BY SameOnly, OnlyTypes, OrdersAssumption DEF IsSequence
<1>. DEFINE names == M!Only(GroupOrder, {M!NameOf(s) : s \in services})
<1>2. wanted = [i \in DOMAIN names |-> [name |-> names[i], services |-> M!Bucket(services, names[i])]]
  BY DEF M!GroupServices
<1>3. \A name : IsSequence(M!Bucket(services, name))
  <2>. SUFFICES ASSUME NEW name PROVE IsSequence(M!Bucket(services, name))
    OBVIOUS
  <2>. DEFINE bucket == M!Bucket(services, name)
              ids == M!Only(ServiceOrder, {s.id : s \in {t \in services : M!NameOf(t) = name}})
  <2>1. DOMAIN bucket = DOMAIN ids
    BY DEF M!Bucket
  <2>2. IsSequence(ids)
    BY <1>1
  <2>. HIDE DEF ids, bucket
  <2>3. IsSequence(bucket)
    BY <2>1, <2>2, SamePlaces
  <2>. QED
    BY <2>3 DEF bucket
<1>4. IsSequence(names)
  BY <1>1
<1>. HIDE DEF names, wanted
<1>5. IsSequence(wanted)
  BY <1>2, <1>4, SamePlaces
<1>6. \A k \in DOMAIN wanted : IsSequence(wanted[k].services)
  BY <1>2, <1>3
<1>. QED
  BY <1>5, <1>6 DEF wanted

\* The wanted groups and their services are listed.
CallListed == IsSequence(desired) /\ \A k \in DOMAIN desired : IsSequence(desired[k].services)

-----------------------------------------------------------------------------
(***************************************************************************)
(* What the loops of module Merge have after each round of this call.      *)
(***************************************************************************)
Result(groups, changes_) == [error |-> M!Absent, groups |-> groups, changes |-> changes_]

\* After each of the wanted groups.
IsRounds(f) ==
  /\ f[0] = Result(Seen.groups, <<>>)
  /\ \A k \in DOMAIN desired : f[k] = M!MergeGroup(f[k - 1], desired[k], policy)
  /\ M!MergeGroups(Result(Seen.groups, <<>>), desired, policy) = f[Len(desired)]

Rounds == CHOOSE f : IsRounds(f)

\* They are what the loop over the groups goes through.
LEMMA RoundsAre ==
  ASSUME CallListed
  PROVE  IsRounds(Rounds)
<1>. DEFINE n == Len(desired)
            work == Result(Seen.groups, <<>>)
<1>1. n \in Nat /\ DOMAIN desired = 1..n
  BY DEF CallListed, IsSequence
<1>. HIDE DEF n, work
<1>2. PICK f : /\ f[0] = work
               /\ \A k \in 1..n : f[k] = M!MergeGroup(f[k - 1], desired[k], policy)
               /\ M!MergeGroups(work, desired, policy) = f[n]
  BY <1>1, GroupRounds
<1>3. IsRounds(f)
  BY <1>1, <1>2 DEF IsRounds, n, work
<1>. QED
  BY <1>3 DEF Rounds

\* The call when the services of the k-th wanted group are about to be applied.
Groups(k) == M!FindOrCreateGroup(Rounds[k - 1].groups, desired[k].name)

\* Where that group is,
Place(k) == M!GroupIndex(Groups(k), desired[k].name)

\* and the call as it enters the loop over them.
Entered(k) == [Rounds[k - 1] EXCEPT !.groups = Groups(k)]

\* After each of the k-th wanted group's services.
IsPasses(k, g) ==
  LET services == desired[k].services
  IN  /\ g[0] = Entered(k)
      /\ \A j \in DOMAIN services : g[j] = M!MergeService(g[j - 1], Place(k), services[j], policy)
      /\ M!MergeServices(Entered(k), Place(k), services, policy) = g[Len(services)]

Passes(k) == CHOOSE g : IsPasses(k, g)

\* They are what the loop over the services goes through.
LEMMA PassesAre ==
  ASSUME CallListed, NEW k \in DOMAIN desired
  PROVE  IsPasses(k, Passes(k))
<1>. DEFINE services == desired[k].services
            n == Len(services)
            work == Entered(k)
            i == Place(k)
<1>1. n \in Nat /\ DOMAIN services = 1..n
  BY DEF CallListed, IsSequence
<1>. HIDE DEF n, work, i, services
<1>2. PICK f : /\ f[0] = work
               /\ \A j \in 1..n : f[j] = M!MergeService(f[j - 1], i, services[j], policy)
               /\ M!MergeServices(work, i, services, policy) = f[n]
  BY <1>1, ServiceRounds
<1>3. IsPasses(k, f)
  BY <1>1, <1>2 DEF IsPasses, n, work, i, services
<1>. QED
  BY <1>3 DEF Passes

\* An error stays to the end of a loop.
LEMMA ErrorStays ==
  ASSUME NEW n \in Nat, NEW j \in 0..n, NEW g, g[j].error # M!Absent,
         \A k \in 1..n : g[k - 1].error # M!Absent => g[k] = g[k - 1]
  PROVE  g[n] = g[j]
<1>. DEFINE T == {m \in Nat : j + m \in 0..n => g[j + m] = g[j]}
<1>1. 0 \in T
  OBVIOUS
<1>2. ASSUME NEW m \in Nat, m \in T PROVE m + 1 \in T
  <2>. SUFFICES ASSUME j + (m + 1) \in 0..n PROVE g[j + (m + 1)] = g[j]
    OBVIOUS
  <2>1. j + m \in 0..n /\ (j + (m + 1)) - 1 = j + m /\ j + (m + 1) \in 1..n
    OBVIOUS
  <2>2. g[j + m] = g[j]
    BY <1>2, <2>1
  <2>. QED
    BY <2>1, <2>2
<1>. HIDE DEF T
<1>3. \A m \in Nat : m \in T
  BY <1>1, <1>2, Induction
<1>4. n - j \in T /\ j + (n - j) = n
  BY <1>3
<1>. QED
  BY <1>4 DEF T

\* The whole call fails with the error of the group it fails at.
LEMMA GroupError ==
  ASSUME CallListed, NEW k \in DOMAIN desired, Rounds[k].error # M!Absent
  PROVE  Rounds[Len(desired)].error = Rounds[k].error
<1>. DEFINE f == Rounds
            n == Len(desired)
<1>1. n \in Nat /\ DOMAIN desired = 1..n
  BY DEF CallListed, IsSequence
<1>2. \A j \in 1..n : f[j - 1].error # M!Absent => f[j] = f[j - 1]
  BY <1>1, RoundsAre DEF IsRounds, M!MergeGroup, M!Failed
<1>3. k \in 0..n
  BY <1>1
<1>. HIDE DEF f, n
<1>4. f[k].error # M!Absent
  BY DEF f
<1>5. f[n] = f[k]
  BY <1>1, <1>2, <1>3, <1>4, ErrorStays
<1>. QED
  BY <1>5 DEF f, n

\* A group fails with the error of the service it fails at.
LEMMA ServiceError ==
  ASSUME CallListed, NEW k \in DOMAIN desired, NEW j \in DOMAIN desired[k].services,
         Passes(k)[j].error # M!Absent
  PROVE  Passes(k)[Len(desired[k].services)].error = Passes(k)[j].error
<1>. DEFINE g == Passes(k)
            n == Len(desired[k].services)
<1>1. n \in Nat /\ DOMAIN desired[k].services = 1..n
  BY DEF CallListed, IsSequence
<1>2. \A m \in 1..n : g[m - 1].error # M!Absent => g[m] = g[m - 1]
  BY <1>1, PassesAre DEF IsPasses, M!MergeService, M!Failed
<1>3. j \in 0..n
  BY <1>1
<1>. HIDE DEF g, n
<1>4. g[j].error # M!Absent
  BY DEF g
<1>5. g[n] = g[j]
  BY <1>1, <1>2, <1>3, <1>4, ErrorStays
<1>. QED
  BY <1>5 DEF g, n

\* A group that is not broken is gone through service by service.
LEMMA GroupEntered ==
  ASSUME CallListed, NEW k \in DOMAIN desired, NEW list, NEW log, Rounds[k - 1] = Result(list, log)
  PROVE  /\ M!GroupIsBroken(list, desired[k].name) => Rounds[k].error = "notList"
         /\ ~M!GroupIsBroken(list, desired[k].name) =>
              /\ Rounds[k] = Passes(k)[Len(desired[k].services)]
              /\ Groups(k) = M!FindOrCreateGroup(list, desired[k].name)
              /\ Passes(k)[0] = Result(Groups(k), log)
<1>1. Rounds[k] = M!MergeGroup(Rounds[k - 1], desired[k], policy)
  BY RoundsAre DEF IsRounds
<1>2. Rounds[k - 1].groups = list /\ Rounds[k - 1].error = M!Absent /\ ~M!Failed(Rounds[k - 1])
  BY DEF Result, M!Failed
<1>3. Rounds[k] =
        IF M!GroupIsBroken(list, desired[k].name) THEN [Rounds[k - 1] EXCEPT !.error = "notList"]
        ELSE M!MergeServices(Entered(k), Place(k), desired[k].services, policy)
  BY <1>1, <1>2 DEF M!MergeGroup, Entered, Place, Groups
<1>4. Entered(k) = Result(Groups(k), log)
  BY DEF Entered, Result
<1>5. [Rounds[k - 1] EXCEPT !.error = "notList"].error = "notList"
  BY DEF Result
<1>. QED
  BY <1>2, <1>3, <1>4, <1>5, PassesAre DEF IsPasses, Groups

\* What the j-th service of the k-th wanted group starts from: items are those
\* of its group so far.
Handed(k, j, list, items, log) ==
  /\ Place(k) \in DOMAIN list /\ DOMAIN list[Place(k)] = {"name", "shape", "items"}
  /\ Passes(k)[j - 1] = Result([list EXCEPT ![Place(k)].items = items], log)

\* One service.
LEMMA ServiceApplied ==
  ASSUME CallListed, NEW k \in DOMAIN desired, NEW j \in DOMAIN desired[k].services,
         NEW list, NEW items, NEW log, Handed(k, j, list, items, log)
  PROVE  LET svc == desired[k].services[j]
             verdict == M!Verdict(items, svc, policy)
             change == [kind |-> verdict, id |-> svc.id, group |-> list[Place(k)].name]
         IN  /\ verdict \in {"unreadable", "refused"} => Passes(k)[j].error = verdict
             /\ verdict \notin {"unreadable", "refused"} =>
                  Passes(k)[j] =
                    Result([list EXCEPT ![Place(k)].items = M!ApplyService(items, svc, policy)],
                           IF verdict \in M!Reported THEN Append(log, change) ELSE log)
<1>. DEFINE svc == desired[k].services[j]
            verdict == M!Verdict(items, svc, policy)
            gi == Place(k)
            w == Passes(k)[j - 1]
            mid == [list EXCEPT ![gi].items = items]
<1>1. Passes(k)[j] = M!MergeService(w, gi, svc, policy)
  BY PassesAre DEF IsPasses
<1>0. /\ gi \in DOMAIN list /\ DOMAIN list[gi] = {"name", "shape", "items"}
      /\ w = Result(mid, log)
  BY DEF Handed
<1>2. w.groups = mid /\ w.changes = log /\ w.error = M!Absent /\ ~M!Failed(w)
  BY <1>0 DEF Result, M!Failed
<1>3. mid[gi].items = items /\ mid[gi].name = list[gi].name
  BY <1>0
<1>4. \A e : [mid EXCEPT ![gi].items = e] = [list EXCEPT ![gi].items = e]
  OBVIOUS
<1>. DEFINE change == [kind |-> verdict, id |-> svc.id, group |-> list[gi].name]
            after == M!ApplyService(items, svc, policy)
<1>5. w = Result(mid, log)
  BY <1>0
<1>. HIDE DEF mid, w, svc, gi
<1>6. Passes(k)[j] =
        IF verdict \in {"unreadable", "refused"} THEN [w EXCEPT !.error = verdict]
        ELSE [w EXCEPT !.groups[gi].items = after,
                       !.changes = IF verdict \in M!Reported THEN Append(@, change) ELSE @]
  BY <1>1, <1>2, <1>3 DEF M!MergeService
<1>7. [w EXCEPT !.error = verdict].error = verdict
  BY <1>5 DEF Result
<1>. HIDE DEF after, change, verdict
<1>8. [w EXCEPT !.groups[gi].items = after,
                !.changes = IF verdict \in M!Reported THEN Append(@, change) ELSE @] =
      Result([list EXCEPT ![gi].items = after],
             IF verdict \in M!Reported THEN Append(log, change) ELSE log)
  <2>. DEFINE log2 == IF verdict \in M!Reported THEN Append(log, change) ELSE log
  <2>1. w.changes = log /\ w.groups = mid
    BY <1>5 DEF Result
  <2>2. [w EXCEPT !.groups[gi].items = after,
                  !.changes = IF verdict \in M!Reported THEN Append(@, change) ELSE @] =
        [w EXCEPT !.groups = [mid EXCEPT ![gi].items = after], !.changes = log2]
    BY <2>1
  <2>. HIDE DEF log2
  <2>3. ASSUME NEW x, NEW y
        PROVE  [Result(mid, log) EXCEPT !.groups = x, !.changes = y] = Result(x, y)
    <3>1. [Result(mid, log) EXCEPT !.groups = x] = Result(x, log)
      BY DEF Result
    <3>2. [Result(x, log) EXCEPT !.changes = y] = Result(x, y)
      BY DEF Result
    <3>3. \A r : [r EXCEPT !.groups = x, !.changes = y] = [[r EXCEPT !.groups = x] EXCEPT !.changes = y]
      OBVIOUS
    <3>. QED
      BY <3>1, <3>2, <3>3
  <2>4. [w EXCEPT !.groups = [mid EXCEPT ![gi].items = after], !.changes = log2] =
        Result([mid EXCEPT ![gi].items = after], log2)
    BY <1>5, <2>3
  <2>5. [mid EXCEPT ![gi].items = after] = [list EXCEPT ![gi].items = after]
    BY <1>4
  <2>. QED
    BY <2>2, <2>4, <2>5 DEF log2
<1>. QED
  BY <1>6, <1>7, <1>8 DEF after, change, verdict, svc, gi

\* What the whole call returns.
LEMMA CallReturns ==
  ASSUME CallInv, CallListed
  PROVE  LET result == M!Merge(Seen, desired, policy)
             last   == Rounds[Len(desired)]
         IN  /\ ~Locatable => result.error = "root"
             /\ Locatable /\ last.error # M!Absent => result.error = last.error
             /\ Locatable /\ last.error = M!Absent =>
                  /\ result.error = M!Absent
                  /\ result.doc.groups =
                       [i \in DOMAIN last.groups |-> M!SweepGroup(last.groups[i], desired)]
                  /\ result.changes =
                       last.changes \o FlattenSeq([i \in DOMAIN last.groups |->
                                                     M!Removals(last.groups[i], desired)])
<1>. DEFINE last == M!MergeGroups(Result(Seen.groups, <<>>), desired, policy)
<1>1. Rounds[Len(desired)] = last
  BY RoundsAre DEF IsRounds
<1>2. M!HasGroupSequence(Seen) <=> Locatable
  BY LocatableSeen
<1>3. [error |-> M!Absent, groups |-> Seen.groups, changes |-> <<>>] = Result(Seen.groups, <<>>)
  BY DEF Result
<1>4. M!Merge(Seen, desired, policy) =
        IF ~Locatable THEN [error |-> "root", doc |-> Seen, changes |-> <<>>]
        ELSE IF last.error # M!Absent THEN [error |-> last.error, doc |-> Seen, changes |-> <<>>]
        ELSE [error |-> M!Absent,
              doc |-> [root |-> "groups",
                       groups |-> [i \in DOMAIN last.groups |-> M!SweepGroup(last.groups[i], desired)]],
              changes |-> last.changes \o
                FlattenSeq([i \in DOMAIN last.groups |-> M!Removals(last.groups[i], desired)])]
  <2>. HIDE DEF last
  <2>1. last = M!MergeGroups([error |-> M!Absent, groups |-> Seen.groups, changes |-> <<>>],
                             desired, policy)
    BY <1>3 DEF last
  <2>. QED
    BY <1>2, <2>1, SameFlatten DEF M!Merge, M!Failed
<1>. HIDE DEF last
<1>. QED
  BY <1>1, <1>4

\* s is a list of something.
Listed(s) == \E S : s \in Seq(S)

\* A list stays one.
LEMMA ListedAppend ==
  ASSUME NEW s, Listed(s), NEW e
  PROVE  Listed(Append(s, e))
<1>1. PICK S : s \in Seq(S)
  BY DEF Listed
<1>. DEFINE T == S \cup {e}
<1>2. Append(s, e) \in Seq(T)
  <2>1. s \in Seq(T) /\ e \in T
    BY <1>1
  <2>. HIDE DEF T
  <2>. QED
    BY <2>1
<1>. HIDE DEF T
<1>. QED
  BY <1>2 DEF Listed

-----------------------------------------------------------------------------
(***************************************************************************)
(* Where the steps are in the loops of module Merge.                       *)
(***************************************************************************)
\* The tree is what the k-th wanted group starts from.
FindInv(tree, k, log) ==
  /\ k \in 1..(Len(desired) + 1)
  /\ Rounds[k - 1] = Result(SeenGroups(tree), log)
  /\ Listed(log)

\* With items for those of the group at i, it is what the k-th wanted group's
\* j-th service starts from.
ApplyInv(tree, k, j, i, items, log) ==
  LET services == desired[k].services
  IN  /\ j \in 1..(Len(services) + 1)
      /\ i = Place(k)
      /\ Rounds[k] = Passes(k)[Len(services)]
      /\ Passes(k)[j - 1] = Result([SeenGroups(tree) EXCEPT ![i].items = items], log)
      /\ PlainItems(items) /\ Listed(log)

\* What is there when the loops are over and the sweep begins.
LastRound == Rounds[Len(desired)]

\* The changes the removal pass reports for the first k groups.
Removed(k) == FlattenSeq([i \in 1..k |-> M!Removals(LastRound.groups[i], desired)])

\* The groups before k are swept, the others are as the last wanted group left
\* them.
SweepInv(tree, k, log) ==
  LET seen == SeenGroups(tree)
  IN  /\ LastRound.error = M!Absent
      /\ k \in 1..(Len(seen) + 1)
      /\ IsSequence(seen) /\ DOMAIN LastRound.groups = DOMAIN seen
      /\ \A i \in DOMAIN seen :
           /\ PlainItems(LastRound.groups[i].items)
           /\ seen[i] = IF i < k THEN M!SweepGroup(LastRound.groups[i], desired)
                                 ELSE LastRound.groups[i]
      /\ Listed(LastRound.changes)
      /\ log = LastRound.changes \o Removed(k - 1)

AgreeInv ==
  /\ CallListed
  /\ Located => Locatable
  /\ pc = "locate" => at = 1 /\ changes = <<>>
  /\ pc = "find" => FindInv(doc, at, changes)
  /\ pc = "apply" => ApplyInv(doc, at, next, slot, entries, changes)
  /\ pc \in {"sweep", "done"} => SweepInv(doc, at, changes)
  /\ pc = "done" => at = Len(SeenGroups(doc)) + 1
  /\ pc = "failed" => M!Merge(Seen, desired, policy).error = error

\* A step leaves what module Merge does with the call alone.
LEMMA SameLoops ==
  ASSUME UNCHANGED call
  PROVE  /\ CallListed' <=> CallListed
         /\ Locatable' <=> Locatable
         /\ \A tree : SeenGroups(tree)' = SeenGroups(tree)
         /\ M!Merge(Seen, desired, policy)' = M!Merge(Seen, desired, policy)
         /\ \A tree, k, log : FindInv(tree, k, log)' <=> FindInv(tree, k, log)
         /\ \A tree, k, j, i, items, log :
              ApplyInv(tree, k, j, i, items, log)' <=> ApplyInv(tree, k, j, i, items, log)
         /\ \A tree, k, log : SweepInv(tree, k, log)' <=> SweepInv(tree, k, log)
<1>1. /\ desired' = desired /\ existing' = existing /\ format' = format
      /\ blank' = blank /\ policy' = policy
  BY DEF call
<1>2. CallListed' <=> CallListed
  BY <1>1 DEF CallListed
<1>3. Locatable' <=> Locatable
  BY <1>1 DEF Locatable, Start
<1>4. \A body : GroupList(body)' = GroupList(body)
  BY <1>1 DEF GroupList
<1>5. \A node : NameOf(node)' = NameOf(node) /\ ItemsField(node)' = ItemsField(node)
  BY <1>1 DEF NameOf, ItemsField
<1>6. \A node : SeenGroup(node)' = SeenGroup(node)
  BY <1>5 DEF SeenGroup, Broken, ItemsOf
<1>7. \A tree : SeenGroups(tree)' = SeenGroups(tree)
  BY <1>4, <1>6 DEF SeenGroups
<1>8. Seen' = Seen
  <2>1. SeenRoot' = SeenRoot
    BY <1>1, <1>3 DEF SeenRoot
  <2>. QED
    BY <1>1, <1>7, <2>1 DEF Seen
<1>9. M!Merge(Seen, desired, policy)' = M!Merge(Seen, desired, policy)
  BY <1>1, <1>8 DEF M!Merge, M!HasGroupSequence
<1>10. \A f : IsRounds(f)' <=> IsRounds(f)
  BY <1>1, <1>8 DEF IsRounds
<1>11. Rounds' = Rounds
  BY <1>10 DEF Rounds
<1>12. \A k : Groups(k)' = Groups(k) /\ Place(k)' = Place(k) /\ Entered(k)' = Entered(k)
  BY <1>1, <1>11 DEF Groups, Place, Entered
<1>13. \A k, g : IsPasses(k, g)' <=> IsPasses(k, g)
  BY <1>1, <1>12 DEF IsPasses
<1>14. \A k : Passes(k)' = Passes(k)
  BY <1>13 DEF Passes
<1>15. LastRound' = LastRound /\ \A k : Removed(k)' = Removed(k)
  BY <1>1, <1>11 DEF LastRound, Removed
<1>16. \A tree, k, log : FindInv(tree, k, log)' <=> FindInv(tree, k, log)
  BY <1>1, <1>7, <1>11 DEF FindInv
<1>17. \A tree, k, j, i, items, log :
         ApplyInv(tree, k, j, i, items, log)' <=> ApplyInv(tree, k, j, i, items, log)
  BY <1>1, <1>7, <1>11, <1>12, <1>14 DEF ApplyInv
<1>18. \A tree, k, log : SweepInv(tree, k, log)' <=> SweepInv(tree, k, log)
  BY <1>1, <1>7, <1>15 DEF SweepInv
<1>. QED
  BY <1>2, <1>3, <1>7, <1>9, <1>16, <1>17, <1>18

\* The invariant of the state after a step, in terms of that state's tree.
LEMMA AgreeAfter ==
  ASSUME CallListed, UNCHANGED call, pc' # "locate",
         pc' \in {"find", "apply", "sweep", "done"} => Locatable,
         pc' = "find" => FindInv(doc', at', changes'),
         pc' = "apply" => ApplyInv(doc', at', next', slot', entries', changes'),
         pc' \in {"sweep", "done"} => SweepInv(doc', at', changes'),
         pc' = "done" => at' = Len(SeenGroups(doc')) + 1,
         pc' = "failed" => M!Merge(Seen, desired, policy).error = error'
  PROVE  AgreeInv'
<1>1. /\ CallListed' <=> CallListed
      /\ Locatable' <=> Locatable
      /\ \A tree : SeenGroups(tree)' = SeenGroups(tree)
      /\ M!Merge(Seen, desired, policy)' = M!Merge(Seen, desired, policy)
      /\ \A tree, k, log : FindInv(tree, k, log)' <=> FindInv(tree, k, log)
      /\ \A tree, k, j, i, items, log :
           ApplyInv(tree, k, j, i, items, log)' <=> ApplyInv(tree, k, j, i, items, log)
      /\ \A tree, k, log : SweepInv(tree, k, log)' <=> SweepInv(tree, k, log)
  BY SameLoops
<1>2. (Located => Locatable)'
  BY <1>1 DEF Located
<1>3. (pc = "locate" => at = 1 /\ changes = <<>>)'
  OBVIOUS
<1>4. (pc = "find" => FindInv(doc, at, changes))'
  BY <1>1
<1>5. (pc = "apply" => ApplyInv(doc, at, next, slot, entries, changes))'
  BY <1>1
<1>6. (pc \in {"sweep", "done"} => SweepInv(doc, at, changes))'
  BY <1>1
<1>7. (pc = "done" => at = Len(SeenGroups(doc)) + 1)'
  BY <1>1
<1>8. (pc = "failed" => M!Merge(Seen, desired, policy).error = error)'
  BY <1>1
<1>. QED
  BY <1>1, <1>2, <1>3, <1>4, <1>5, <1>6, <1>7, <1>8 DEF AgreeInv

-----------------------------------------------------------------------------
(***************************************************************************)
(* Step by step.                                                           *)
(***************************************************************************)
\* A call starts with nothing merged.
LEMMA AgreeInit == Init => AgreeInv
<1>. SUFFICES ASSUME Init PROVE AgreeInv
  OBVIOUS
<1>1. PICK services \in ServiceSets : desired = M!GroupServices(services)
  BY DEF Init
<1>2. CallListed
  BY <1>1, WantedInOrder DEF CallListed
<1>. QED
  BY <1>2 DEF Init, AgreeInv, Located

\* The list of groups is found or made.
LEMMA LocateAgrees == IInv /\ AgreeInv /\ Locate => AgreeInv'
<1>. SUFFICES ASSUME IInv, AgreeInv, Locate PROVE AgreeInv'
  OBVIOUS
<1>1. /\ CallInv /\ CallListed /\ UNCHANGED call /\ Locatable /\ doc' = GroupSequence
      /\ pc' = "find" /\ at = 1 /\ at' = at /\ changes = <<>> /\ changes' = changes
  BY DEF IInv, AgreeInv, Locate
<1>2. SeenGroups(doc') = Seen.groups
  BY <1>1, LocatedSeen DEF SeenGroups, SeenList
<1>3. Rounds[0] = Result(Seen.groups, <<>>)
  BY <1>1, RoundsAre DEF IsRounds
<1>4. Len(desired) \in Nat
  BY <1>1 DEF CallListed, IsSequence
<1>5. Listed(changes')
  <2>1. <<>> \in Seq({})
    OBVIOUS
  <2>. QED
    BY <1>1, <2>1 DEF Listed
<1>6. at' \in 1..(Len(desired) + 1) /\ at' - 1 = 0
  BY <1>1, <1>4
<1>7. FindInv(doc', at', changes')
  BY <1>1, <1>2, <1>3, <1>5, <1>6 DEF FindInv
<1>. QED
  BY <1>1, <1>7, AgreeAfter

\* There is no list of groups, and none can be made.
LEMMA LocateFailsAgrees == IInv /\ AgreeInv /\ LocateFails => AgreeInv'
<1>. SUFFICES ASSUME IInv, AgreeInv, LocateFails PROVE AgreeInv'
  OBVIOUS
<1>1. /\ CallInv /\ CallListed /\ UNCHANGED call /\ ~Locatable
      /\ pc' = "failed" /\ error' = "root"
  BY DEF IInv, AgreeInv, LocateFails, Fails
<1>2. M!Merge(Seen, desired, policy).error = "root"
  BY <1>1, CallReturns
<1>. QED
  BY <1>1, <1>2, AgreeAfter

\* What is seen of a group that is open.
LEMMA ReadySeen ==
  ASSUME NEW node, NEW name, Ready(node, name), name # NonString
  PROVE  /\ SeenGroup(node) = [name |-> name, shape |-> "list", items |-> readEntries(ItemsOf(node))]
         /\ PlainItems(readEntries(ItemsOf(node)))
<1>1. /\ NameOf(node) = name /\ ItemsField(node) \in DOMAIN node.fields
      /\ ItemsOf(node).kind = "seq" /\ IsSequence(node.fields)
      /\ IsSequence(ItemsOf(node).values)
  BY DEF Ready, WellFormedGroup, MapNode, Itemized, ItemsOf
<1>2. ItemsField(node) # 0
  BY <1>1 DEF IsSequence
<1>. QED
  BY <1>1, <1>2, ReadPlain DEF SeenGroup, Broken

\* A group that was found or made is what module Merge has, and so are its items.
LEMMA FindGroupAgrees == IInv /\ AgreeInv /\ FindGroup => AgreeInv'
<1>. SUFFICES ASSUME IInv, AgreeInv, FindGroup PROVE AgreeInv'
  OBVIOUS
<1>. DEFINE list == GroupList(doc)
            name == Wanted.name
            found == GroupAt(list, name)
            now == FindOrCreateGroup(list, name)
            i == slot'
<1>1. /\ CallInv /\ CallListed /\ UNCHANGED call /\ pc = "find" /\ pc' = "apply" /\ Locatable
      /\ at \in DOMAIN desired /\ at' = at /\ next' = 1 /\ changes' = changes
      /\ found # 0 => ~Broken(list.values[found])
      /\ i = IF found = 0 THEN Len(list.values) + 1 ELSE found
      /\ doc' = SetGroupList(doc, now)
      /\ entries' = readEntries(ItemsOf(GroupList(doc').values[i]))
      /\ FindInv(doc, at, changes)
  BY DEF IInv, AgreeInv, FindGroup, Located
<1>2. ListInv(list) /\ Unswept(list) /\ DocInv(doc)
  BY <1>1 DEF IInv, Located, DocInv
<1>3. name # NonString /\ ~Unwanted(name) /\ name = desired[at].name
  BY <1>1 DEF CallInv, Unwanted, Wanted
<1>4. /\ ListInv(now) /\ now.col = list.col /\ GroupAtHand(now, i, name)
      /\ SeenList(now) = M!FindOrCreateGroup(SeenList(list), name)
      /\ M!GroupIndex(SeenList(now), name) = i
  <2>. HIDE DEF list, name
  <2>1. CASE found = 0
    BY <1>1, <1>2, <1>3, <2>1, GroupAdded, AddedSeen
  <2>2. CASE found # 0
    BY <1>1, <1>2, <1>3, <2>2, GroupReopened, ReopenedSeen
  <2>. QED
    BY <2>1, <2>2
<1>5. IsSequence(list.values)
  BY <1>2 DEF ListInv, WellFormedList
<1>6. ~M!GroupIsBroken(SeenList(list), name)
  BY <1>1, <1>3, <1>5, BrokenSeen
<1>. HIDE DEF now, found
<1>7. GroupList(doc') = now
  BY <1>1, <1>2, <1>4, ListReplaced
<1>8. SeenGroups(doc) = SeenList(list) /\ SeenGroups(doc') = SeenList(now)
  BY <1>7 DEF SeenGroups, SeenList
<1>. HIDE DEF list
<1>9. Rounds[at - 1] = Result(SeenList(list), changes) /\ Listed(changes)
  BY <1>1, <1>8 DEF FindInv
<1>10. /\ Rounds[at] = Passes(at)[Len(desired[at].services)]
       /\ Groups(at) = M!FindOrCreateGroup(SeenList(list), name)
       /\ Passes(at)[0] = Result(Groups(at), changes)
  BY <1>1, <1>3, <1>6, <1>9, GroupEntered
<1>11. Groups(at) = SeenGroups(doc') /\ Place(at) = i
  BY <1>3, <1>4, <1>8, <1>10 DEF Place
<1>12. i \in DOMAIN now.values /\ Ready(now.values[i], name)
  BY <1>4 DEF GroupAtHand
<1>13. /\ entries' = readEntries(ItemsOf(now.values[i]))
       /\ SeenGroup(now.values[i]).items = readEntries(ItemsOf(now.values[i]))
       /\ PlainItems(readEntries(ItemsOf(now.values[i])))
  BY <1>1, <1>3, <1>7, <1>12, ReadySeen
<1>14. [SeenGroups(doc') EXCEPT ![i].items = entries'] = SeenGroups(doc')
  <2>. DEFINE seen == SeenList(now)
  <2>1. /\ seen = [k \in DOMAIN now.values |-> seen[k]] /\ i \in DOMAIN now.values
        /\ seen[i] = SeenGroup(now.values[i])
    BY <1>12 DEF SeenList
  <2>2. SeenGroup(now.values[i]) =
          [name |-> name, shape |-> "list", items |-> readEntries(ItemsOf(now.values[i]))]
    BY <1>3, <1>12, ReadySeen
  <2>3. [seen[i] EXCEPT !.items = entries'] = seen[i]
    BY <1>13, <2>1, <2>2
  <2>. HIDE DEF seen
  <2>4. [seen EXCEPT ![i].items = entries'] = seen
    BY <2>1, <2>3
  <2>. QED
    BY <1>8, <2>4 DEF seen
<1>15. IsSequence(desired[at].services)
  BY <1>1 DEF CallListed
<1>16. next' \in 1..(Len(desired[at].services) + 1) /\ next' - 1 = 0
  BY <1>1, <1>15 DEF IsSequence
<1>17. ApplyInv(doc', at', next', slot', entries', changes')
  BY <1>1, <1>9, <1>10, <1>11, <1>13, <1>14, <1>16 DEF ApplyInv
<1>. QED
  BY <1>1, <1>17, AgreeAfter

\* A wanted group's items are something other than a list.
LEMMA FindGroupFailsAgrees == IInv /\ AgreeInv /\ FindGroupFails => AgreeInv'
<1>. SUFFICES ASSUME IInv, AgreeInv, FindGroupFails PROVE AgreeInv'
  OBVIOUS
<1>. DEFINE list == GroupList(doc)
            name == Wanted.name
            found == GroupAt(list, name)
<1>1. /\ CallInv /\ CallListed /\ UNCHANGED call /\ pc = "find" /\ pc' = "failed" /\ Locatable
      /\ at \in DOMAIN desired /\ error' = "notList"
      /\ found # 0 /\ Broken(list.values[found])
      /\ FindInv(doc, at, changes)
  BY DEF IInv, AgreeInv, FindGroupFails, Fails, Located
<1>2. ListInv(list)
  BY <1>1 DEF IInv, Located, DocInv
<1>3. name # NonString /\ name = desired[at].name
  BY <1>1 DEF CallInv, Wanted
<1>4. IsSequence(list.values)
  BY <1>2 DEF ListInv, WellFormedList
<1>5. M!GroupIsBroken(SeenList(list), name)
  BY <1>1, <1>3, <1>4, BrokenSeen
<1>6. SeenGroups(doc) = SeenList(list)
  BY DEF SeenGroups, SeenList
<1>7. Rounds[at].error = "notList"
  BY <1>1, <1>3, <1>5, <1>6, GroupEntered DEF FindInv
<1>8. "notList" # M!Absent
  BY Zenon DEF M!Absent
<1>9. Rounds[Len(desired)].error = "notList"
  BY <1>1, <1>7, <1>8, GroupError
<1>10. M!Merge(Seen, desired, policy).error = "notList"
  BY <1>1, <1>8, <1>9, CallReturns
<1>. QED
  BY <1>1, <1>10, AgreeAfter

\* The group at slot, as it is seen.
LEMMA OpenSeen ==
  ASSUME NEW list, NEW i, NEW name, NEW items, OpenInv(list, i, name, items), name # NonString,
         WellFormedList(list)
  PROVE  /\ i \in DOMAIN SeenList(list) /\ SeenList(list)[i].name = name
         /\ DOMAIN SeenList(list)[i] = {"name", "shape", "items"}
         /\ ItemsField(list.values[i]) # 0 /\ NameOf(list.values[i]) # NonString
         /\ ItemsOf(list.values[i]).kind = "seq" /\ ListNode(ItemsOf(list.values[i]))
<1>. DEFINE node == list.values[i]
<1>1. /\ i \in DOMAIN list.values /\ node.kind = "map" /\ NameOf(node) = name
      /\ ItemsField(node) \in DOMAIN node.fields /\ ItemsOf(node).kind = "seq"
      /\ WellFormedGroup(node)
  BY DEF OpenInv, ItemsOf, WellFormedList
<1>2. ItemsField(node) # 0 /\ ListNode(ItemsOf(node))
  BY <1>1 DEF WellFormedGroup, MapNode, IsSequence, ItemsOf
<1>3. i \in DOMAIN SeenList(list) /\ SeenList(list)[i] = SeenGroup(node)
  BY <1>1 DEF SeenList
<1>4. SeenGroup(node).name = name /\ DOMAIN SeenGroup(node) = {"name", "shape", "items"}
  BY <1>1 DEF SeenGroup
<1>. HIDE DEF node
<1>5. /\ i \in DOMAIN SeenList(list) /\ SeenList(list)[i].name = name
      /\ DOMAIN SeenList(list)[i] = {"name", "shape", "items"}
  BY <1>3, <1>4
<1>. QED
  BY <1>1, <1>2, <1>5 DEF node

\* One service is applied as module Merge applies it.
LEMMA ApplyOneAgrees == IInv /\ AgreeInv /\ (ApplyOne \/ ApplyOneFails) => AgreeInv'
<1>. SUFFICES ASSUME IInv, AgreeInv, ApplyOne \/ ApplyOneFails PROVE AgreeInv'
  OBVIOUS
<1>. DEFINE svc == Wanted.services[next]
            verdict == M!Verdict(entries, svc, policy)
            list == GroupList(doc)
            services == desired[at].services
            name == desired[at].name
            change == [kind |-> verdict, id |-> svc.id, group |-> name]
            log == IF verdict \in M!Reported THEN Append(changes, change) ELSE changes
<1>1. /\ CallInv /\ CallListed /\ UNCHANGED call /\ pc = "apply" /\ Locatable
      /\ next \in DOMAIN services /\ svc = services[next]
      /\ \/ /\ verdict \notin {"unreadable", "refused"}
            /\ pc' = pc /\ doc' = doc /\ at' = at /\ slot' = slot /\ next' = next + 1
            /\ entries' = M!ApplyService(entries, svc, policy)
            /\ changes' = log
         \/ /\ verdict \in {"unreadable", "refused"}
            /\ pc' = "failed" /\ error' = verdict
      /\ ApplyInv(doc, at, next, slot, entries, changes)
  BY DEF IInv, AgreeInv, ApplyOne, ApplyOneFails, Fails, Located, Wanted
<1>2. /\ at \in DOMAIN desired /\ OpenInv(list, slot, name, entries) /\ WellFormedList(list)
      /\ name # NonString
  BY <1>1 DEF IInv, Located, DocInv, ListInv, CallInv
<1>3. /\ slot \in DOMAIN SeenList(list) /\ SeenList(list)[slot].name = name
      /\ DOMAIN SeenList(list)[slot] = {"name", "shape", "items"}
  BY <1>2, OpenSeen
<1>4. SeenGroups(doc) = SeenList(list)
  BY DEF SeenGroups, SeenList
<1>. HIDE DEF list
<1>5. /\ next \in 1..(Len(services) + 1) /\ slot = Place(at)
      /\ Rounds[at] = Passes(at)[Len(services)]
      /\ Passes(at)[next - 1] = Result([SeenList(list) EXCEPT ![Place(at)].items = entries], changes)
      /\ PlainItems(entries) /\ Listed(changes)
  BY <1>1, <1>4 DEF ApplyInv
<1>6. /\ verdict \in {"unreadable", "refused"} => Passes(at)[next].error = verdict
      /\ verdict \notin {"unreadable", "refused"} =>
           Passes(at)[next] =
             Result([SeenList(list) EXCEPT ![slot].items = M!ApplyService(entries, svc, policy)], log)
  <2>. DEFINE seen == SeenList(list)
              rest == desired[at].services[next]
              said == M!Verdict(entries, rest, policy)
              more == [kind |-> said, id |-> rest.id, group |-> seen[Place(at)].name]
  <2>0. svc = rest
    BY <1>1
  <2>1. /\ Place(at) \in DOMAIN seen /\ DOMAIN seen[Place(at)] = {"name", "shape", "items"}
        /\ seen[Place(at)].name = name
        /\ Passes(at)[next - 1] = Result([seen EXCEPT ![Place(at)].items = entries], changes)
    BY <1>3, <1>5
  <2>. HIDE DEF seen
  <2>2. CallListed /\ at \in DOMAIN desired /\ next \in DOMAIN desired[at].services
    BY <1>1, <1>2
  <2>3. /\ said \in {"unreadable", "refused"} => Passes(at)[next].error = said
        /\ said \notin {"unreadable", "refused"} =>
             Passes(at)[next] =
               Result([seen EXCEPT ![Place(at)].items = M!ApplyService(entries, rest, policy)],
                      IF said \in M!Reported THEN Append(changes, more) ELSE changes)
    <3>1. Handed(at, next, seen, entries, changes)
      BY <2>1 DEF Handed
    <3>. QED
      BY ONLY <2>2, <3>1, ServiceApplied
  <2>. QED
    BY <1>5, <2>0, <2>1, <2>3 DEF seen
<1>7. CASE verdict \notin {"unreadable", "refused"}
  <2>1. Listed(log)
    BY <1>5, ListedAppend
  <2>2. PlainItems(M!ApplyService(entries, svc, policy))
    BY <1>5, AppliedPlain
  <2>3. Len(services) \in Nat /\ DOMAIN services = 1..Len(services)
    BY <1>1, <1>2 DEF CallListed, IsSequence
  <2>. HIDE DEF svc, log, services, verdict
  <2>4. next + 1 \in 1..(Len(services) + 1) /\ (next + 1) - 1 = next
    BY <1>1, <2>3
  <2>5. /\ pc' = "apply" /\ doc' = doc /\ at' = at /\ slot' = slot /\ next' = next + 1
        /\ entries' = M!ApplyService(entries, svc, policy) /\ changes' = log
    BY <1>1, <1>7
  <2>6. ApplyInv(doc', at', next', slot', entries', changes')
    BY <1>4, <1>5, <1>6, <1>7, <2>1, <2>2, <2>4, <2>5 DEF ApplyInv, services
  <2>. QED
    BY <1>1, <2>5, <2>6, AgreeAfter
<1>8. CASE verdict \in {"unreadable", "refused"}
  <2>. HIDE DEF svc, log, verdict
  <2>1. verdict # M!Absent
    BY <1>8, Zenon DEF M!Absent
  <2>2. Passes(at)[Len(services)].error = verdict
    BY <1>1, <1>2, <1>6, <1>8, <2>1, ServiceError
  <2>3. Rounds[Len(desired)].error = verdict
    BY <1>1, <1>2, <1>5, <2>1, <2>2, GroupError
  <2>4. M!Merge(Seen, desired, policy).error = verdict
    BY <1>1, <2>1, <2>3, CallReturns
  <2>5. pc' = "failed" /\ error' = verdict
    BY <1>1, <1>8
  <2>. QED
    BY <1>1, <2>4, <2>5, AgreeAfter
<1>. QED
  BY <1>7, <1>8

\* Writing the entries back ends the round of the wanted group.
LEMMA WriteGroupAgrees == IInv /\ AgreeInv /\ WriteGroup => AgreeInv'
<1>. SUFFICES ASSUME IInv, AgreeInv, WriteGroup PROVE AgreeInv'
  OBVIOUS
<1>. DEFINE list == GroupList(doc)
            now == Written(list, slot, entries)
            services == desired[at].services
            name == desired[at].name
<1>1. /\ CallInv /\ CallListed /\ UNCHANGED call /\ pc = "apply" /\ pc' = "find" /\ Locatable
      /\ at' = at + 1 /\ changes' = changes
      /\ next \notin DOMAIN services
      /\ doc' = SetGroupList(doc, now)
      /\ ApplyInv(doc, at, next, slot, entries, changes)
  BY DEF IInv, AgreeInv, WriteGroup, WriteItems, Written, Wanted, Located
<1>2. /\ at \in DOMAIN desired /\ OpenInv(list, slot, name, entries)
      /\ DocInv(doc) /\ ListInv(list) /\ WellFormedList(list) /\ name # NonString
  BY <1>1 DEF IInv, Located, DocInv, ListInv, CallInv
<1>3. SeenGroups(doc) = SeenList(list)
  BY DEF SeenGroups, SeenList
<1>. HIDE DEF list
<1>4. ListInv(now) /\ now.col = list.col /\ Rewritten(list, slot, entries, now)
  BY <1>1, <1>2, ItemsWritten DEF OpenInv
<1>. HIDE DEF now
<1>5. GroupList(doc') = now
  BY <1>1, <1>2, <1>4, ListReplaced DEF list
<1>6. SeenGroups(doc') = SeenList(now)
  BY <1>5 DEF SeenGroups, SeenList
<1>7. /\ Rounds[at] = Passes(at)[Len(services)] /\ PlainItems(entries) /\ Listed(changes)
      /\ Passes(at)[next - 1] = Result([SeenList(list) EXCEPT ![slot].items = entries], changes)
      /\ next \in 1..(Len(services) + 1)
  BY <1>1, <1>3 DEF ApplyInv
<1>8. SeenList(now) = [SeenList(list) EXCEPT ![slot].items = entries]
  <2>1. slot \in DOMAIN list.values
    BY <1>2 DEF OpenInv
  <2>2. /\ ItemsField(list.values[slot]) # 0 /\ NameOf(list.values[slot]) # NonString
        /\ ItemsOf(list.values[slot]).kind = "seq" /\ ListNode(ItemsOf(list.values[slot]))
    BY <1>2, OpenSeen
  <2>. QED
    BY <1>4, <1>7, <2>1, <2>2, WrittenSeen
<1>9. next - 1 = Len(services)
  <2>1. Len(services) \in Nat /\ DOMAIN services = 1..Len(services)
    BY <1>1, <1>2 DEF CallListed, IsSequence
  <2>. HIDE DEF services
  <2>. QED
    BY <1>1, <1>7, <2>1
<1>10. at + 1 \in 1..(Len(desired) + 1) /\ (at + 1) - 1 = at
  BY <1>1, <1>2 DEF CallListed, IsSequence
<1>11. FindInv(doc', at', changes')
  BY <1>1, <1>6, <1>7, <1>8, <1>9, <1>10 DEF FindInv
<1>. QED
  BY <1>1, <1>11, AgreeAfter

\* A list is one over its own elements.
LEMMA ListedRange ==
  ASSUME NEW s, Listed(s)
  PROVE  s \in Seq({s[j] : j \in DOMAIN s})
<1>1. PICK S : s \in Seq(S)
  BY DEF Listed
<1>2. Len(s) \in Nat /\ DOMAIN s = 1..Len(s) /\ s = [j \in 1..Len(s) |-> s[j]]
  BY <1>1
<1>. DEFINE T == {s[j] : j \in DOMAIN s}
<1>3. \A j \in 1..Len(s) : s[j] \in T
  BY <1>2
<1>. HIDE DEF T
<1>4. s \in Seq(T)
  BY <1>2, <1>3
<1>. QED
  BY <1>4 DEF T

\* A list over some elements is one over more.
LEMMA ListedWider ==
  ASSUME NEW S, NEW s \in Seq(S), NEW T, S \subseteq T
  PROVE  s \in Seq(T)
<1>1. Len(s) \in Nat /\ s = [j \in 1..Len(s) |-> s[j]] /\ \A j \in 1..Len(s) : s[j] \in T
  OBVIOUS
<1>. QED
  BY <1>1

\* Joining lists, one after another.
LEMMA Associated ==
  ASSUME NEW a, Listed(a), NEW b, Listed(b), NEW c, Listed(c)
  PROVE  (a \o b) \o c = a \o (b \o c)
<1>. DEFINE A == {a[j] : j \in DOMAIN a}
            B == {b[j] : j \in DOMAIN b}
            C == {c[j] : j \in DOMAIN c}
            T == A \cup B \cup C
<1>1. a \in Seq(A) /\ b \in Seq(B) /\ c \in Seq(C)
  BY ListedRange
<1>2. A \subseteq T /\ B \subseteq T /\ C \subseteq T
  OBVIOUS
<1>. HIDE DEF A, B, C, T
<1>3. a \in Seq(T) /\ b \in Seq(T) /\ c \in Seq(T)
  BY <1>1, <1>2, ListedWider
<1>. QED
  BY <1>3

\* Joining one list more.
LEMMA JoinedOneMore ==
  ASSUME NEW k \in Nat, NEW f, \A i \in 1..(k + 1) : Listed(f[i])
  PROVE  /\ Listed(FlattenSeq([i \in 1..k |-> f[i]]))
         /\ FlattenSeq([i \in 1..(k + 1) |-> f[i]]) = FlattenSeq([i \in 1..k |-> f[i]]) \o f[k + 1]
<1>. DEFINE Of(i) == {f[i][j] : j \in DOMAIN f[i]}
            C == UNION {Of(i) : i \in 1..(k + 1)}
            s == [i \in 1..k |-> f[i]]
            t == [i \in 1..(k + 1) |-> f[i]]
<1>1. ASSUME NEW i \in 1..(k + 1) PROVE f[i] \in Seq(C)
  <2>. DEFINE D == Of(i)
  <2>1. f[i] \in Seq(D)
    BY ListedRange
  <2>2. D \subseteq C
    OBVIOUS
  <2>. HIDE DEF D, C
  <2>. QED
    BY <2>1, <2>2, ListedWider
<1>. HIDE DEF C
<1>2. \A i \in 1..k : i \in 1..(k + 1)
  OBVIOUS
<1>3. s \in Seq(Seq(C)) /\ f[k + 1] \in Seq(C)
  BY <1>1, <1>2
<1>4. t = Append(s, t[k + 1])
  <2>1. Listing(s, k) /\ Listing(t, k + 1) /\ \A i \in 1..k : t[i] = s[i]
    BY <1>2 DEF Listing
  <2>. HIDE DEF s, t
  <2>. QED
    BY <2>1, OneMore
<1>5. t[k + 1] = f[k + 1]
  OBVIOUS
<1>. HIDE DEF s, t
<1>6. FlattenSeq(s) \in Seq(C) /\ FlattenSeq(t) = FlattenSeq(s) \o f[k + 1]
  BY <1>3, <1>4, <1>5, FlattenAppend
<1>. QED
  BY <1>6 DEF Listed, s, t

\* The changes of one group's removals.
LEMMA RemovalsListed ==
  ASSUME NEW group, PlainItems(group.items)
  PROVE  Listed(M!Removals(group, desired))
<1>. DEFINE gone == M!Only(group.items, M!Orphans(group, desired))
            removals == M!Removals(group, desired)
            Of(i) == [kind |-> "removed", id |-> gone[i].comment.id, group |-> group.name]
            T == {Of(i) : i \in DOMAIN gone}
<1>1. PICK S : gone \in Seq(S)
  BY KeptPlain DEF PlainItems
<1>2. Len(gone) \in Nat /\ DOMAIN gone = 1..Len(gone)
  BY <1>1
<1>3. removals = [i \in DOMAIN gone |-> Of(i)]
  BY DEF M!Removals
<1>4. \A i \in DOMAIN gone : Of(i) \in T
  OBVIOUS
<1>. HIDE DEF T, gone, removals, Of
<1>5. removals \in Seq(T)
  BY <1>2, <1>3, <1>4
<1>6. Listed(removals)
  BY <1>5 DEF Listed
<1>. QED
  BY <1>6 DEF removals

\* One more group's removals.
LEMMA RemovedOneMore ==
  ASSUME NEW k \in Nat, \A i \in 1..(k + 1) : PlainItems(LastRound.groups[i].items)
  PROVE  /\ Listed(Removed(k)) /\ Listed(M!Removals(LastRound.groups[k + 1], desired))
         /\ Removed(k + 1) = Removed(k) \o M!Removals(LastRound.groups[k + 1], desired)
<1>. DEFINE f == [i \in 1..(k + 1) |-> M!Removals(LastRound.groups[i], desired)]
<1>1. \A i \in 1..(k + 1) : Listed(f[i])
  BY RemovalsListed
<1>2. Removed(k + 1) = FlattenSeq([i \in 1..(k + 1) |-> f[i]])
  BY DEF Removed
<1>3. Removed(k) = FlattenSeq([i \in 1..k |-> f[i]])
  <2>1. [i \in 1..k |-> f[i]] = [i \in 1..k |-> M!Removals(LastRound.groups[i], desired)]
    OBVIOUS
  <2>. QED
    BY <2>1 DEF Removed
<1>4. k + 1 \in 1..(k + 1) /\ f[k + 1] = M!Removals(LastRound.groups[k + 1], desired)
  OBVIOUS
<1>. HIDE DEF f
<1>. QED
  BY <1>1, <1>2, <1>3, <1>4, JoinedOneMore

\* What is seen of an item of the list that holds nothing strange.
LEMMA SeenPlain ==
  ASSUME NEW node, WellFormedGroup(node), node.kind = "map" => Itemized(node)
  PROVE  PlainItems(SeenGroup(node).items)
<1>1. PlainItems(<<>>)
  <2>. DEFINE S == {}
  <2>1. <<>> \in Seq(S) /\ \A e \in S : Plain(e)
    OBVIOUS
  <2>. HIDE DEF S
  <2>. QED
    BY <2>1 DEF PlainItems
<1>2. CASE NameOf(node) = NonString \/ ItemsField(node) = 0 \/ Broken(node)
  BY <1>1, <1>2 DEF SeenGroup
<1>3. CASE NameOf(node) # NonString /\ ItemsField(node) # 0 /\ ~Broken(node)
  <2>1. node.kind = "map" /\ ItemsField(node) \in DOMAIN node.fields
    BY <1>3, ItemsFieldIn
  <2>2. ItemsOf(node).kind = "seq"
    BY <1>3 DEF Broken
  <2>3. IsSequence(ItemsOf(node).values)
    BY <2>1, <2>2 DEF Itemized, ItemsOf
  <2>4. SeenGroup(node).items = readEntries(ItemsOf(node))
    BY <1>3 DEF SeenGroup
  <2>. QED
    BY <2>3, <2>4, ReadPlain
<1>. QED
  BY <1>2, <1>3

\* The removal pass starts from what the last wanted group left.
LEMMA StartSweepAgrees == IInv /\ AgreeInv /\ StartSweep => AgreeInv'
<1>. SUFFICES ASSUME IInv, AgreeInv, StartSweep PROVE AgreeInv'
  OBVIOUS
<1>. DEFINE list == GroupList(doc)
            seen == SeenGroups(doc)
<1>1. /\ CallListed /\ UNCHANGED call /\ pc = "find" /\ pc' = "sweep" /\ Locatable
      /\ at \notin DOMAIN desired /\ at' = 1 /\ doc' = doc /\ changes' = changes
      /\ FindInv(doc, at, changes)
  BY DEF AgreeInv, StartSweep, Located
<1>2. WellFormedList(list) /\ Unswept(list)
  BY <1>1 DEF IInv, Located, DocInv, ListInv
<1>3. at = Len(desired) + 1 /\ at - 1 = Len(desired)
  BY <1>1 DEF FindInv, CallListed, IsSequence
<1>4. LastRound = Result(seen, changes) /\ Listed(changes)
  BY <1>1, <1>3 DEF FindInv, LastRound
<1>5. LastRound.error = M!Absent /\ LastRound.groups = seen /\ LastRound.changes = changes
  BY <1>4 DEF Result
<1>6. DOMAIN seen = DOMAIN list.values /\ IsSequence(seen)
  <2>1. DOMAIN seen = DOMAIN list.values /\ IsSequence(list.values)
    BY <1>2 DEF SeenGroups, WellFormedList
  <2>. HIDE DEF seen
  <2>. QED
    BY <2>1, SamePlaces
<1>7. \A i \in DOMAIN seen : PlainItems(seen[i].items)
  <2>. SUFFICES ASSUME NEW i \in DOMAIN seen PROVE PlainItems(seen[i].items)
    OBVIOUS
  <2>1. WellFormedGroup(list.values[i]) /\ (list.values[i].kind = "map" => Itemized(list.values[i]))
    BY <1>2, <1>6 DEF WellFormedList, Unswept
  <2>2. seen[i] = SeenGroup(list.values[i])
    BY <1>6 DEF SeenGroups
  <2>. QED
    BY <2>1, <2>2, SeenPlain
<1>8. Removed(0) = <<>> /\ changes = changes \o <<>>
  <2>1. Removed(0) = FlattenSeq(<<>>)
    <3>1. [i \in 1..0 |-> M!Removals(LastRound.groups[i], desired)] = <<>>
      OBVIOUS
    <3>. QED
      BY <3>1 DEF Removed
  <2>2. PICK S : changes \in Seq(S)
    BY <1>4 DEF Listed
  <2>. QED
    BY <2>1, <2>2, FlattenEmpty
<1>9. 1 \in 1..(Len(seen) + 1) /\ 1 - 1 = 0 /\ \A i \in DOMAIN seen : ~(i < 1)
  BY <1>6 DEF IsSequence
<1>. HIDE DEF seen
<1>10. SweepInv(doc, 1, changes)
  BY <1>4, <1>5, <1>6, <1>7, <1>8, <1>9 DEF SweepInv, seen
<1>. QED
  BY <1>1, <1>10, AgreeAfter

\* The elements of a sequence, in module Merge and here.
LEMMA SameToSet == \A s : M!ToSet(s) = ToSet(s)
  BY DEF M!ToSet, ToSet

\* adapter.Groups returns the items module Merge sweeps, and their entries.
LEMMA SweptSeen ==
  ASSUME NEW list, NEW i
  PROVE  LET node  == list.values[i]
             seen  == SeenGroup(node)
             items == IF Swept(list, i) THEN readEntries(ItemsOf(node)) ELSE <<>>
         IN  /\ seen.name = NameOf(node) /\ seen.items = items
             /\ M!Sweepable(seen) <=> Swept(list, i)
<1>. DEFINE node == list.values[i]
<1>1. Swept(list, i) <=> NameOf(node) # NonString /\ ItemsField(node) # 0 /\ ItemsOf(node).kind = "seq"
  BY DEF Swept, HasItems
<1>2. M!Sweepable(SeenGroup(node)) <=>
        SeenGroup(node).name # NonString /\ SeenGroup(node).shape = "list"
  BY DEF M!Sweepable
<1>. HIDE DEF node
<1>3. SeenGroup(node).name = NameOf(node)
  BY DEF SeenGroup
<1>4. CASE NameOf(node) = NonString
  BY <1>1, <1>2, <1>3, <1>4 DEF SeenGroup, node
<1>5. CASE NameOf(node) # NonString /\ ItemsField(node) = 0
  BY <1>1, <1>2, <1>3, <1>5 DEF SeenGroup, node
<1>6. CASE NameOf(node) # NonString /\ ItemsField(node) # 0 /\ Broken(node)
  BY <1>1, <1>2, <1>3, <1>6 DEF SeenGroup, Broken, node
<1>7. CASE NameOf(node) # NonString /\ ItemsField(node) # 0 /\ ~Broken(node)
  BY <1>1, <1>2, <1>3, <1>7 DEF SeenGroup, Broken, node
<1>. QED
  BY <1>4, <1>5, <1>6, <1>7

\* One item of the list is swept as module Merge sweeps it.
LEMMA SweepAgrees == IInv /\ AgreeInv /\ Sweep => AgreeInv'
<1>. SUFFICES ASSUME IInv, AgreeInv, Sweep PROVE AgreeInv'
  OBVIOUS
<1>. DEFINE list == GroupList(doc)
            node == list.values[at]
            name == NameOf(node)
            items == IF Swept(list, at) THEN readEntries(ItemsOf(node)) ELSE <<>>
            orphans == {e \in ToSet(items) : M!Orphaned(e, name, desired)}
            gone == M!Only(items, orphans)
            kept == M!Only(items, ToSet(items) \ orphans)
            removed == [i \in DOMAIN gone |-> [kind |-> "removed", id |-> gone[i].comment.id, group |-> name]]
            some == \E i \in DOMAIN items : M!Orphaned(items[i], name, desired)
            seen == SeenGroups(doc)
            group == LastRound.groups[at]
<1>1. /\ CallInv /\ CallListed /\ UNCHANGED call /\ pc = "sweep" /\ pc' = "sweep" /\ Locatable
      /\ at \in DOMAIN list.values /\ at' = at + 1
      /\ doc' = IF some THEN WriteItems(doc, at, kept) ELSE doc
      /\ changes' = changes \o removed
      /\ SweepInv(doc, at, changes)
  BY DEF IInv, AgreeInv, Sweep, Located
<1>2. DocInv(doc)
  BY <1>1 DEF IInv, Located
<1>3. /\ seen = SeenList(list) /\ DOMAIN seen = DOMAIN list.values /\ seen[at] = SeenGroup(node)
  BY <1>1 DEF SeenGroups, SeenList
<1>. HIDE DEF seen
<1>4. /\ LastRound.error = M!Absent /\ Listed(LastRound.changes)
      /\ at \in 1..(Len(seen) + 1)
      /\ IsSequence(seen) /\ DOMAIN LastRound.groups = DOMAIN seen
      /\ \A i \in DOMAIN seen : PlainItems(LastRound.groups[i].items)
      /\ \A i \in DOMAIN seen :
           seen[i] = IF i < at THEN M!SweepGroup(LastRound.groups[i], desired)
                               ELSE LastRound.groups[i]
      /\ changes = LastRound.changes \o Removed(at - 1)
  BY <1>1 DEF SweepInv, seen
<1>5. at \in DOMAIN seen /\ at \in Nat /\ seen[at] = group /\ PlainItems(group.items)
  <2>1. at \in DOMAIN seen
    BY <1>1, <1>3
  <2>2. Len(seen) \in Nat /\ DOMAIN seen = 1..Len(seen)
    BY <1>4 DEF IsSequence
  <2>3. at \in Nat /\ ~(at < at)
    BY <2>1, <2>2
  <2>. QED
    BY <1>4, <2>1, <2>3
<1>6. group.name = name /\ group.items = items /\ (M!Sweepable(group) <=> Swept(list, at))
  BY <1>3, <1>5, SweptSeen
<1>7. PlainItems(items)
  BY <1>5, <1>6
<1>. HIDE DEF list, group, name
<1>8. M!Orphans(group, desired) = orphans
  <2>1. CASE Swept(list, at)
    BY <1>6, <2>1, SameToSet DEF M!Orphans
  <2>2. CASE ~Swept(list, at)
    <3>1. items = <<>> /\ ToSet(<<>>) = {}
      BY <2>2 DEF ToSet
    <3>2. orphans = {}
      BY <3>1
    <3>. QED
      BY <1>6, <2>2, <3>2 DEF M!Orphans
  <2>. QED
    BY <2>1, <2>2
<1>9. M!Removals(group, desired) = removed
  BY <1>6, <1>8 DEF M!Removals
<1>10. some <=> orphans # {}
  <2>1. ToSet(items) = {items[i] : i \in DOMAIN items}
    BY DEF ToSet
  <2>. HIDE DEF items
  <2>. QED
    BY <2>1
<1>11. M!SweepGroup(group, desired) = IF some THEN [group EXCEPT !.items = kept] ELSE group
  <2>. HIDE DEF some
  <2>1. CASE some
    <3>1. M!SweepGroup(group, desired) =
            [group EXCEPT !.items = M!Only(group.items, M!ToSet(group.items) \ orphans)]
      BY <1>8, <1>10, <2>1 DEF M!SweepGroup
    <3>. QED
      BY <1>6, <2>1, <3>1, SameToSet
  <2>2. CASE ~some
    BY <1>8, <1>10, <2>2 DEF M!SweepGroup
  <2>. QED
    BY <2>1, <2>2
<1>12. SeenGroups(doc') = [seen EXCEPT ![at] = M!SweepGroup(group, desired)]
  <2>1. CASE ~some
    <3>1. doc' = doc /\ M!SweepGroup(group, desired) = seen[at]
      BY <1>1, <1>5, <1>11, <2>1
    <3>2. seen = [k \in DOMAIN list.values |-> seen[k]]
      BY DEF seen, SeenGroups, list
    <3>. QED
      BY <1>3, <3>1, <3>2 DEF seen
  <2>2. CASE some
    <3>1. PICK i \in DOMAIN items : M!Orphaned(items[i], name, desired)
      BY <2>2
    <3>2. Swept(list, at) /\ items = readEntries(ItemsOf(node))
      BY <3>1, SMTT(30)
    <3>. DEFINE now == Written(list, at, kept)
    <3>. HIDE DEF items
    <3>3. i \in DOMAIN readEntries(ItemsOf(node)) /\ M!Orphaned(readEntries(ItemsOf(node))[i], name, desired)
      BY <3>1, <3>2
    <3>. HIDE DEF orphans
    <3>4. /\ GroupList(WriteItems(doc, at, kept)) = now /\ Rewritten(list, at, kept, now)
          /\ ItemsOf(node).kind = "seq" /\ ListNode(ItemsOf(node))
      BY <1>1, <1>2, <3>2, <3>3, SweepWrites DEF list, name
    <3>5. NameOf(node) # NonString /\ ItemsField(node) # 0
      BY <3>2 DEF Swept, HasItems
    <3>6. PlainItems(kept)
      BY <1>7, KeptPlain
    <3>. HIDE DEF kept, now
    <3>7. SeenList(now) = [SeenList(list) EXCEPT ![at].items = kept]
      BY <1>1, <3>4, <3>5, <3>6, WrittenSeen DEF list
    <3>8. SeenGroups(doc') = SeenList(now)
      BY <1>1, <2>2, <3>4 DEF SeenGroups, SeenList
    <3>9. [seen EXCEPT ![at].items = kept] = [seen EXCEPT ![at] = [group EXCEPT !.items = kept]]
      BY <1>5
    <3>. QED
      BY <1>3, <1>11, <2>2, <3>7, <3>8, <3>9
  <2>. QED
    BY <2>1, <2>2
<1>. HIDE DEF items, orphans, gone, kept, removed, some
<1>13. changes' = LastRound.changes \o Removed(at)
  <2>. DEFINE k == at - 1
  <2>1. k \in Nat /\ k + 1 = at /\ \A i \in 1..(k + 1) : i \in DOMAIN seen
    BY <1>4, <1>5 DEF IsSequence
  <2>. HIDE DEF k
  <2>2. /\ Listed(Removed(k)) /\ Listed(M!Removals(LastRound.groups[k + 1], desired))
        /\ Removed(k + 1) = Removed(k) \o M!Removals(LastRound.groups[k + 1], desired)
    BY <1>4, <2>1, RemovedOneMore
  <2>3. Listed(removed) /\ Removed(at) = Removed(k) \o removed
    BY <1>9, <2>1, <2>2 DEF group
  <2>4. changes' = (LastRound.changes \o Removed(k)) \o removed
    BY <1>1, <1>4 DEF k
  <2>. DEFINE b == LastRound.changes
              r == Removed(k)
  <2>5. Listed(b) /\ Listed(r) /\ Listed(removed)
    BY <1>4, <2>2, <2>3
  <2>. HIDE DEF b, r
  <2>6. (b \o r) \o removed = b \o (r \o removed)
    BY ONLY <2>5, Associated
  <2>. QED
    BY <2>3, <2>4, <2>6 DEF b, r
<1>14. SweepInv(doc', at + 1, changes')
  <2>. DEFINE after == SeenGroups(doc')
  <2>1. DOMAIN after = DOMAIN seen
    BY <1>12
  <2>2. IsSequence(after) /\ Len(after) = Len(seen)
    <3>. HIDE DEF after
    <3>. QED
      BY <1>4, <2>1, SamePlaces
  <2>3. at + 1 \in 1..(Len(after) + 1) /\ (at + 1) - 1 = at
    BY <1>4, <1>5, <2>2 DEF IsSequence
  <2>4. ASSUME NEW i \in DOMAIN seen
        PROVE  after[i] = IF i < at + 1 THEN M!SweepGroup(LastRound.groups[i], desired)
                                        ELSE LastRound.groups[i]
    <3>1. i \in Nat
      BY <1>4 DEF IsSequence
    <3>2. CASE i = at
      <4>1. i < at + 1 /\ after[i] = M!SweepGroup(group, desired)
        BY <1>5, <1>12, <3>2
      <4>. QED
        BY <3>2, <4>1 DEF group
    <3>3. CASE i # at
      <4>1. after[i] = seen[i] /\ (i < at + 1 <=> i < at)
        BY <1>5, <1>12, <3>1, <3>3
      <4>. QED
        BY <1>4, <4>1
    <3>. QED
      BY <3>2, <3>3
  <2>. HIDE DEF after
  <2>. QED
    BY <1>4, <1>13, <2>1, <2>2, <2>3, <2>4 DEF SweepInv, after
<1>. QED
  BY <1>1, <1>14, AgreeAfter

\* The last item of the list was swept.
LEMMA FinishAgrees == IInv /\ AgreeInv /\ Finish => AgreeInv'
<1>. SUFFICES ASSUME IInv, AgreeInv, Finish PROVE AgreeInv'
  OBVIOUS
<1>. DEFINE seen == SeenGroups(doc)
<1>1. /\ CallListed /\ UNCHANGED call /\ pc = "sweep" /\ pc' = "done" /\ Locatable
      /\ at \notin DOMAIN GroupList(doc).values /\ at' = at /\ doc' = doc /\ changes' = changes
      /\ SweepInv(doc, at, changes)
  BY DEF AgreeInv, Finish, Located
<1>2. DOMAIN seen = DOMAIN GroupList(doc).values
  BY DEF SeenGroups
<1>3. IsSequence(seen) /\ at \in 1..(Len(seen) + 1)
  BY <1>1 DEF SweepInv
<1>. HIDE DEF seen
<1>4. at = Len(seen) + 1
  BY <1>1, <1>2, <1>3 DEF IsSequence
<1>. QED
  BY <1>1, <1>4, AgreeAfter DEF seen

\* Every step keeps its place in the loops of module Merge.
LEMMA AgreeKept == IInv /\ AgreeInv /\ [Next]_vars => AgreeInv'
<1>. SUFFICES ASSUME IInv, AgreeInv, [Next]_vars PROVE AgreeInv'
  OBVIOUS
<1>1. ASSUME UNCHANGED vars PROVE AgreeInv'
  <2>1. /\ UNCHANGED call /\ doc' = doc /\ pc' = pc /\ at' = at /\ slot' = slot /\ next' = next
        /\ entries' = entries /\ changes' = changes /\ error' = error
    BY <1>1 DEF vars
  <2>2. /\ CallListed' <=> CallListed
        /\ Locatable' <=> Locatable
        /\ \A tree : SeenGroups(tree)' = SeenGroups(tree)
        /\ M!Merge(Seen, desired, policy)' = M!Merge(Seen, desired, policy)
        /\ \A tree, k, log : FindInv(tree, k, log)' <=> FindInv(tree, k, log)
        /\ \A tree, k, j, i, items, log :
             ApplyInv(tree, k, j, i, items, log)' <=> ApplyInv(tree, k, j, i, items, log)
        /\ \A tree, k, log : SweepInv(tree, k, log)' <=> SweepInv(tree, k, log)
    BY <2>1, SameLoops
  <2>. QED
    BY <2>1, <2>2 DEF AgreeInv, Located
<1>2. CASE Next
  BY <1>2, LocateAgrees, LocateFailsAgrees, FindGroupAgrees, FindGroupFailsAgrees, ApplyOneAgrees,
     WriteGroupAgrees, StartSweepAgrees, SweepAgrees, FinishAgrees DEF Next
<1>. QED
  BY <1>1, <1>2

\* At the end of a call its place is the end of the loops.
LEMMA AgreeHolds == AgreeInv /\ IInv => AgreesWithMerge
<1>. SUFFICES ASSUME AgreeInv, IInv PROVE AgreesWithMerge
  OBVIOUS
<1>. DEFINE result == M!Merge(Seen, desired, policy)
            seen == SeenGroups(doc)
<1>1. CallListed /\ CallInv
  BY DEF AgreeInv, IInv
<1>2. ASSUME pc = "done"
      PROVE  result.error = "" /\ changes = result.changes /\ seen = result.doc.groups
  <2>1. Locatable /\ SweepInv(doc, at, changes) /\ at = Len(seen) + 1
    BY <1>2 DEF AgreeInv, Located
  <2>. HIDE DEF result
  <2>2. /\ LastRound.error = M!Absent /\ IsSequence(seen) /\ DOMAIN LastRound.groups = DOMAIN seen
        /\ \A i \in DOMAIN seen :
             seen[i] = IF i < at THEN M!SweepGroup(LastRound.groups[i], desired)
                                 ELSE LastRound.groups[i]
        /\ changes = LastRound.changes \o Removed(at - 1)
    BY <2>1 DEF SweepInv
  <2>3. DOMAIN seen = 1..Len(seen) /\ at - 1 = Len(seen) /\ \A i \in DOMAIN seen : i < at
    BY <2>1, <2>2 DEF IsSequence
  <2>4. /\ result.error = M!Absent
        /\ result.doc.groups =
             [i \in DOMAIN LastRound.groups |-> M!SweepGroup(LastRound.groups[i], desired)]
        /\ result.changes =
             LastRound.changes \o FlattenSeq([i \in DOMAIN LastRound.groups |->
                                                M!Removals(LastRound.groups[i], desired)])
    BY <1>1, <2>1, <2>2, CallReturns DEF LastRound, result
  <2>5. changes = result.changes
    <3>1. Removed(at - 1) = FlattenSeq([i \in DOMAIN LastRound.groups |->
                                          M!Removals(LastRound.groups[i], desired)])
      BY <2>2, <2>3 DEF Removed
    <3>. QED
      BY <2>2, <2>4, <3>1
  <2>6. seen = result.doc.groups
    <3>1. seen = [i \in DOMAIN seen |-> seen[i]]
      BY DEF SeenGroups
    <3>. HIDE DEF seen
    <3>2. \A i \in DOMAIN seen : seen[i] = M!SweepGroup(LastRound.groups[i], desired)
      BY <2>2, <2>3
    <3>. QED
      BY <2>2, <2>4, <3>1, <3>2
  <2>7. result.error = ""
    BY <2>4, Zenon DEF M!Absent
  <2>. QED
    BY <2>5, <2>6, <2>7
<1>3. pc = "failed" => result.error = error
  BY DEF AgreeInv
<1>. HIDE DEF result
<1>. QED
  BY <1>2, <1>3, Zenon DEF AgreesWithMerge, result

\* The steps on the tree return what module Merge returns for the call: the same
\* groups, entries and comments, the same changes in the same order, or the same
\* error, for every file, every set of services and every policy.
THEOREM StepsAgree == Spec => []AgreesWithMerge
<1>1. Init => IInv /\ AgreeInv
  BY InitInv, AgreeInit
<1>2. (IInv /\ AgreeInv) /\ [Next]_vars => (IInv /\ AgreeInv)'
  BY NextKeeps, AgreeKept
<1>3. IInv /\ AgreeInv => AgreesWithMerge
  BY AgreeHolds
<1>. QED
  BY <1>1, <1>2, <1>3, PTL DEF Spec
=============================================================================
