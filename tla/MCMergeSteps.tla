---------------------------- MODULE MCMergeSteps ----------------------------
(***************************************************************************)
(* The files a parser can hand to MergeSteps, in miniature: every way two  *)
(* groups are written (between brackets or not, indented by 0, 2 or 4      *)
(* columns, with comments, with foreign fields before, between and after)  *)
(* around hand-written, managed, edited and orphaned items, in documents   *)
(* of both shapes and of neither.                                          *)
(***************************************************************************)
EXTENDS MergeSteps

MCGroupOrder == <<"Media", "Tools">>
MCServiceOrder == <<"jelly", "sonarr">>
MCHash == [b \in {"x", "y", "z"} |-> "h" \o b]

NoteHead == [kind |-> "note", id |-> "", content |-> ""]

Item(comment, body, style, wrote) ==
  [comment |-> comment, body |-> body, style |-> style, wrote |-> wrote]

Managed(id, body, wrote) ==
  Item([kind |-> "marker", id |-> id, content |-> MCHash[wrote]], body, "rendered", wrote)

Own == Item(NoHead, "x", "own", "")

\* A block list as the parser returns it: a slot for every head comment.
BlockOf(col, items) ==
  [kind |-> "seq", flow |-> FALSE, col |-> col,
   values |-> [i \in DOMAIN items |-> NodeOf(items[i])],
   comment |-> items[1].comment,
   heads |-> [i \in DOMAIN items |-> IF i = 1 THEN NoHead ELSE items[i].comment]]

\* A list between brackets: the parser attaches no comment to it or in it.
FlowOf(col, bodies) ==
  [EmptyList EXCEPT !.col = col,
                    !.values = [i \in DOMAIN bodies |-> NodeOf(Item(NoHead, bodies[i], "flow", ""))]]

BlockItems ==
  {<<Managed("jelly", "x", "x")>>,
   <<[Own EXCEPT !.comment = NoteHead], Managed("jelly", "x", "x"), Own>>,
   <<Managed("jelly", "z", "x"), Own>>,
   <<Managed("gone", "x", "x")>>,
   <<Managed("gone", "x", "x"), [Own EXCEPT !.comment = NoteHead], Managed("jelly", "x", "x")>>,
   <<Managed("sonarr", "x", "x"), Managed("jelly", Unreadable, "x")>>,
   <<Managed("jelly", "x", "x"), Managed("sonarr", "z", "x")>>}

BlockLists(keyCol) == {BlockOf(keyCol + d, items) : d \in {0, 2}, items \in BlockItems}

FlowLists == {FlowOf(25, <<>>), FlowOf(25, <<"x", "y">>)}

Field(key, col, value) == [key |-> key, col |-> col, value |-> value]

Braces(fields) == [Mapping(fields) EXCEPT !.flow = TRUE]

\* A group of either format, its fields at columns c, and a list of items.
Homepage(name, list, c) == <<Field(name, c[1], list)>>

Icon == Scalar("icon")

Named(name, list, c) ==
  {<<Field("name", c[1], Scalar(name)), Field("items", c[2], list)>>,
   <<Field("icon", c[1], Icon), Field("items", c[2], list), Field("name", c[3], Scalar(name))>>}

Under == <<5, 5, 5>>     \* the columns of fields on lines of their own
Along == <<4, 14, 25>>   \* and of fields on one line

Fields(format_, name, lists, c) ==
  IF format_ = "homepage" THEN {Homepage(name, list, c) : list \in lists}
  ELSE UNION {Named(name, list, c) : list \in lists}
         \cup {<<Field("name", c[1], Scalar(name))>>}

MediaBlock(f) == {Mapping(x) : x \in Fields(f, "Media", BlockLists(5) \cup FlowLists, Under)}
MediaBraces(f) == {Braces(x) : x \in Fields(f, "Media", FlowLists, Along)}

Odd(f) == {Scalar("text"), Braces(<<>>)} \cup
          {Mapping(x) : x \in Fields(f, "Media", {Scalar("text")}, Under)} \cup
          {Mapping(x) : x \in Fields(f, NonString, FlowLists, Under)}

ToolsBlock(f) == {Mapping(x) : x \in Fields(f, "Tools", {BlockOf(9, <<Managed("gone", "x", "x"), Own>>)}, Under)}
ToolsBraces(f) == {Braces(x) : x \in Fields(f, "Tools", {FlowOf(25, <<>>)}, Along)}

\* A list of groups that is a block list: comments above the groups.
GroupLines(nodes) ==
  [kind |-> "seq", flow |-> FALSE, col |-> 3, values |-> nodes, comment |-> NoteHead,
   heads |-> [i \in DOMAIN nodes |-> IF i = 2 THEN NoteHead ELSE NoHead]]

GroupBrackets(nodes) == [EmptyList EXCEPT !.values = nodes]

GroupLists(f) ==
  {GroupLines(<<m>>) : m \in MediaBlock(f) \cup MediaBraces(f) \cup Odd(f)}
  \cup {GroupLines(<<m, o>>) : m \in MediaBlock(f), o \in ToolsBlock(f) \cup ToolsBraces(f)}
  \cup {GroupLines(<<o, m>>) : o \in Odd(f), m \in MediaBraces(f)}
  \cup {GroupBrackets(<<m, o>>) : m \in MediaBraces(f), o \in ToolsBraces(f) \cup {Scalar("text")}}
  \cup {GroupBrackets(<<>>)}

InBrackets(list) == list.flow

HomepageBodies == GroupLists("homepage") \cup {Scalar("text"), Mapping(<<Field("services", 1, Scalar("text"))>>)}

Title == Field("title", 1, Scalar("mine"))

NamedBodies ==
  {Mapping(<<Title, Field("services", 1, list)>>) : list \in GroupLists("named")}
  \cup {Braces(<<Field("title", 2, Scalar("mine")), Field("services", 15, list)>>) :
          list \in {l \in GroupLists("named") : InBrackets(l)}}
  \cup {Mapping(<<Title>>), Braces(<<Field("title", 2, Scalar("mine"))>>), Braces(<<>>),
        Mapping(<<Field("services", 1, Scalar("text"))>>), Scalar("text"), GroupBrackets(<<>>)}

MCFiles ==
  {[format |-> f, blank |-> TRUE, body |-> newEmptySequence] : f \in {"homepage", "named"}}
  \cup {[format |-> "homepage", blank |-> FALSE, body |-> b] : b \in HomepageBodies}
  \cup {[format |-> "named", blank |-> FALSE, body |-> b] : b \in NamedBodies}

Wants(id, group, body) == [id |-> id, group |-> group, body |-> body]

MCServiceSets ==
  {{}, {Wants("jelly", "Media", "x")},
   {Wants("jelly", "Media", "y"), Wants("sonarr", "Media", "x")},
   {Wants("jelly", "Tools", "x"), Wants("sonarr", "Media", "x")}}
=============================================================================
