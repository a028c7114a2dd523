----------------------------- MODULE MCCommand -----------------------------
(***************************************************************************)
(* An instance of Command for TLC: two hosts, a media server on the first  *)
(* whose labels change in every way the formats tell apart, and its        *)
(* namesake on the second; files of all shapes.                            *)
(***************************************************************************)
EXTENDS Command

MCWords == {"", "dashsync", "enable", "name", "group", "url", "icon", "description",
            "homepage", "widget", "widgets", "type", "href", "homer", "tag", "dashy", "title"}

L(word) == <<"dashsync", word>>

MCHosts == [nas |-> [urlHost |-> "", addressHostname |-> "10.0.0.6"],
            pi  |-> [urlHost |-> "", addressHostname |-> ""]]

MCSourceID == (<<"nas", "jelly">> :> "b1") @@ (<<"pi", "jelly">> :> "a2")

Container(labels, ports, status) == [labels |-> labels, ports |-> ports, status |-> status]

Port(public, type) == [public |-> public, type |-> type]

Enabled == L("enable") :> "true"

Widget == <<"dashsync", "homepage", "widget", "type">> :> "jelly"

Typos == (<<"dashsync", "homepage", "widget">> :> "t")
           @@ (<<"dashsync", "homepage", "widgets", "type">> :> "t")
           @@ (<<"dashsync", "homepage", "">> :> "t") @@ (<<"dashsync", "">> :> "t")

Web == <<Port(8096, "tcp"), Port(1900, "udp"), Port(80, "tcp")>>

Jelly ==
  {Container(Enabled, Web, "running"),
   Container(Enabled @@ (<<"dashsync", "homer", "tag">> :> "app"), Reverse(Web), "exited"),
   Container(Enabled @@ Widget @@ Typos @@ (<<"dashsync", "homer", "tag">> :> "app"), Web, "running"),
   Container(Enabled @@ (<<"dashsync", "dashy", "title">> :> "Films") @@ (<<"dashsync", "homepage", "href">> :> "u")
                     @@ (L("url") :> "v") @@ (L("icon") :> "i") @@ (L("description") :> "d"),
             <<Port(81, "tcp")>>, "running"),
   Container(L("enable") :> "false", Web, "running")}

\* The same name and group as the other, elsewhere; or in another group.
Twin == {Container(Enabled, <<>>, "running"), Container(Enabled @@ (L("group") :> "Media"), <<>>, "running")}

MCContainers == (<<"nas", "jelly">> :> Jelly) @@ (<<"pi", "jelly">> :> Twin)

Plain == Container(Enabled, Web, "running")

MCInitialDockers ==
  {[source \in DOMAIN MCContainers |-> Nothing],
   (<<"nas", "jelly">> :> Plain) @@ (<<"pi", "jelly">> :> Container(Enabled, <<>>, "running"))}

MCNameOrder == <<"jelly">>
MCGroupOrder == <<"Media", "Other">>
MCIdOrder == <<"a2", "b1">>

MCHash == [body \in UNION {{RenderEntry(s, format) : s \in AllServices} : format \in Formats} \cup {HandWritten}
             |-> IF body = HandWritten THEN "hand" ELSE ToString(body)]

NoMarker == [kind |-> "none", id |-> "", content |-> ""]

OwnEntry == [comment |-> NoMarker, body |-> HandWritten, style |-> "mine"]

OwnGroup(name) == [name |-> name, shape |-> "list", items |-> <<OwnEntry>>]

File(shape, lists) == [shape |-> shape, lists |-> lists]

MCInitialFiles ==
  {File("absent", <<>>), File("list", [root |-> <<>>]), File("map", <<>>),
   File("list", [root |-> <<OwnGroup("Other")>>]),
   File("map", [services |-> <<OwnGroup("Media")>>, sections |-> <<>>])}

Flags(format, conflict, mode) ==
  [format |-> format, conflict |-> conflict, outputPath |-> mode # "stdout",
   check |-> mode = "check", ci |-> mode \in {"check", "unset", "forced"},
   dryRun |-> CASE mode = "dry" -> "true" [] mode = "forced" -> "false" [] OTHER -> "unset"]

MCFlagSets ==
  {Flags("homepage", conflict, mode) : conflict \in {"preserve", "overwrite"}, mode \in {"check", "write"}}
  \cup {Flags("homepage", "preserve", mode) : mode \in {"stdout", "unset", "dry"}}
  \cup {Flags("homer", conflict, mode) : conflict \in {"preserve", "fail"}, mode \in {"check", "forced"}}
  \cup {Flags("dashy", "preserve", "write")}
  \cup {Flags("flame", "preserve", "write"), Flags("homer", "keep", "write"),
        [Flags("dashy", "preserve", "stdout") EXCEPT !.check = TRUE]}

MCAnswering == {{"nas", "pi"}, {"nas"}, {}}
=============================================================================
