----------------------------- MODULE Renderers -----------------------------
(***************************************************************************)
(* From a container's labels to what a dashboard file says of it:          *)
(* discovery.ParseLabels, and the renderers of Homepage, Homer and Dashy.  *)
(*                                                                         *)
(* A label key is the sequence of its dot-separated words,                 *)
(* "dashsync.homepage.widget.type" is                                      *)
(* <<"dashsync", "homepage", "widget", "type">>, so that cutting a prefix  *)
(* is a matter of sequences; labels are a function from keys to strings.   *)
(* Ports are a sequence, in the order Docker lists them.  A rendered entry *)
(* is the YAML value it encodes: a function from field names to strings    *)
(* (and, for Homepage's widget, to a function of its own).                 *)
(***************************************************************************)
EXTENDS Integers, Sequences, SequencesExt, TLC, Lists

CONSTANTS
  SourceID,       \* Source.ID(): [<<host, container>> -> strings]
  Words,          \* the words of label keys
  ReservedWords   \* those that begin with "widget"

\* Length-prefixed hashing keeps two sources from sharing an id.
ASSUME SourceIDAssumption ==
  \A a, b \in DOMAIN SourceID : SourceID[a] = SourceID[b] => a = b

ASSUME WordsAssumption ==
  /\ {"dashsync", "homepage", "homer", "dashy", ""} \cup ReservedWords \subseteq Words
  /\ "widget" \in ReservedWords /\ ReservedWords \cap {"href", "icon", "description"} = {}

Formats == {"homepage", "homer", "dashy"}

(***************************************************************************)
(* Labels.                                                                 *)
(***************************************************************************)
\* strings.CutPrefix over all the keys of f, the empty suffix left out.
Under(prefix, f) ==
  LET keys  == {key \in DOMAIN f : IsStrictPrefix(prefix, key)}
      rests == {SubSeq(key, Len(prefix) + 1, Len(key)) : key \in keys} \ {<<"">>}
  IN  [rest \in rests |-> f[prefix \o rest]]

Without(f, keys) == [key \in DOMAIN f \ keys |-> f[key]]

firstNonEmpty(a, b) == IF a # "" THEN a ELSE b

Label(labels, word) ==
  LET key == <<"dashsync", word>> IN IF key \in DOMAIN labels THEN labels[key] ELSE ""

KnownLabelKeys == {<<"enable">>, <<"name">>, <<"group">>, <<"url">>, <<"icon">>, <<"description">>}

ResolveURLHost(host, fallback) ==
  firstNonEmpty(host.urlHost, firstNonEmpty(host.addressHostname, fallback))

\* The link to a host's published port; none is no link.
Link(hostAddr, port) ==
  IF port = 0 THEN "" ELSE "http://" \o hostAddr \o ":" \o ToString(port)

OptedIn(container) == Label(container.labels, "enable") = "true"

\* The service of a container that opted in.
ParseLabels(source, container, hostAddr) ==
  LET labels == container.labels
  IN  [id          |-> SourceID[source],
       host        |-> source[1],
       name        |-> firstNonEmpty(Label(labels, "name"), source[2]),
       group       |-> firstNonEmpty(Label(labels, "group"), "Other"),
       url         |-> firstNonEmpty(Label(labels, "url"), Link(hostAddr, lowestPort(container.ports))),
       icon        |-> Label(labels, "icon"),
       description |-> Label(labels, "description"),
       status      |-> container.status,
       extra       |-> Without(Under(<<"dashsync">>, labels), KnownLabelKeys)]

(***************************************************************************)
(* Entries.  In f ++ g the fields of f win.                                *)
(***************************************************************************)
\* A field that is left out when its value is empty.
Field(name, value) == [n \in (IF value = "" THEN {} ELSE {<<name>>}) |-> value]

\* Mutant: only the word "widget" itself is reserved.
flatExtraFieldsExact(extra) ==
  LET flat == Under(<<"homepage">>, extra)
  IN  Without(flat, {rest \in DOMAIN flat : rest[1] = "widget"})

flatExtraFields(extra) ==
  LET flat == Under(<<"homepage">>, extra)
  IN  Without(flat, {rest \in DOMAIN flat : rest[1] \in ReservedWords})

widgetFields(extra) == Under(<<"homepage", "widget">>, extra)

widgetField(s) ==
  LET widget == widgetFields(s.extra)
  IN  [n \in (IF DOMAIN widget = {} THEN {} ELSE {<<"widget">>}) |-> widget]

entryFields(s) ==
  flatExtraFields(s.extra) ++ widgetField(s)
    ++ Field("href", s.url) ++ Field("icon", s.icon) ++ Field("description", s.description)

extraFields(extra, format) == Under(<<format>>, extra)

\* Homer names an item by "name", Dashy by "title"; the name is always there.
itemFields(s, format) ==
  extraFields(s.extra, format)
    ++ [n \in {<<IF format = "homer" THEN "name" ELSE "title">>} |-> s.name]
    ++ Field("url", s.url) ++ Field("icon", s.icon)
    ++ Field(IF format = "homer" THEN "subtitle" ELSE "description", s.description)

RenderEntry(s, format) ==
  IF format = "homepage" THEN [n \in {<<s.name>>} |-> entryFields(s)] ELSE itemFields(s, format)

\* Mutant: the entries of a group in a map, where a name can be there once.
RenderByName(groups, format) ==
  [i \in DOMAIN groups |->
     LET services == groups[i].services
         firsts   == {j \in DOMAIN services : \A k \in 1 .. (j - 1) : services[k].name # services[j].name}
         kept     == SetToSortSeq(firsts, LAMBDA a, b : a < b)
     IN  [name |-> groups[i].name, items |-> [j \in DOMAIN kept |-> RenderEntry(services[kept[j]], format)]]]

\* The whole document, as sync prints it without --output-path.
Render(groups, format) ==
  [i \in DOMAIN groups |->
     [name  |-> groups[i].name,
      items |-> [j \in DOMAIN groups[i].services |-> RenderEntry(groups[i].services[j], format)]]]
=============================================================================
