------------------------------ MODULE Command ------------------------------
(***************************************************************************)
(* The commands of dashsync end to end, one after the other: discovery,    *)
(* label parsing, grouping, rendering or merging, the report of changes,   *)
(* the exit code and the file.  Between two commands containers come, go   *)
(* and change, and a person edits the file.                                *)
(*                                                                         *)
(* What one merge does to the tree is MergeSteps's subject, runs that      *)
(* overlap are Sync's, hosts that answer late are Discovery's; here each   *)
(* of these is one step, and the parts meet.                               *)
(*                                                                         *)
(* The output file is                                                      *)
(*   [shape |-> "absent" | "list" | "map",  lists |-> [keys -> groups]]    *)
(* a list of groups (Homepage's shape) under the key "root", or a mapping  *)
(* that may hold a list of groups under each of its keys.                  *)
(***************************************************************************)
EXTENDS Renderers, FiniteSets

CONSTANTS
  Hosts,        \* dashsync.yaml: [names -> [urlHost, addressHostname]]
  Containers,   \* what may run where: [sources -> sets of containers]
  InitialDockers, \* what runs to begin with
  InitialFiles, \* the output files there may be to begin with
  FlagSets,     \* the command lines of sync
  Answering,    \* the sets of hosts that may answer a command
  NameOrder,    \* service names and ...
  GroupOrder,   \* ... group names and ...
  IdOrder,      \* ... service ids, each in the order of its strings
  Hash,         \* contentHash: [bodies -> fingerprints]
  HandWritten,  \* the body of an entry somebody edited
  Unreadable,   \* the body of an entry that cannot be read back
  MaxMoves      \* bound: how often a container changes or the file is edited

\* No flag set was given, no container runs there.
CONSTANTS NoFlags, Nothing

\* An output file is nothing, a list of groups, or a mapping of such lists.
ASSUME CommandAssumption ==
  \A f \in InitialFiles :
    /\ f = [shape |-> f.shape, lists |-> f.lists]
    /\ f.shape \in {"absent", "list", "map"}
    /\ f.shape = "absent" => DOMAIN f.lists = {}
    /\ f.shape = "list" => DOMAIN f.lists = {"root"}
    /\ f.shape = "map" => "root" \notin DOMAIN f.lists

\* Its groups are what module Merge sees of a tree: only a list has items.
ASSUME GroupsAssumption ==
  \A f \in InitialFiles : \A key \in DOMAIN f.lists :
    LET list == f.lists[key]
    IN  /\ list \in Seq(ToSet(list))
        /\ \A group \in ToSet(list) :
             /\ group = [name |-> group.name, shape |-> group.shape, items |-> group.items]
             /\ group.shape \in {"list", "notList", "noItems"}
             /\ group.items \in Seq(ToSet(group.items))
             /\ group.shape # "list" => group.items = <<>>

\* No group is called "", which removeOrphaned takes for the group of an id that
\* nobody wants: an entry left there would never be removed.
ASSUME NamesAssumption ==
  /\ "" \notin ToSet(GroupOrder)
  /\ \A f \in InitialFiles : \A key \in DOMAIN f.lists :
       \A group \in ToSet(f.lists[key]) : group.name # ""

\* What a command line sets.
ASSUME FlagsAssumption ==
  \A flags \in FlagSets :
    DOMAIN flags = {"format", "conflict", "outputPath", "check", "ci", "dryRun"}

\* A label has a dotted name, a port a number; what runs is what may run there.
ASSUME ContainersAssumption ==
  /\ \A source \in DOMAIN Containers : \A container \in Containers[source] :
       /\ DOMAIN container.labels \subseteq Seq(Words)
       /\ container.ports \in Seq([public : Nat, type : STRING])
  /\ \A d \in InitialDockers :
       /\ d = [source \in DOMAIN Containers |-> d[source]]
       /\ \A source \in DOMAIN Containers : d[source] \in Containers[source] \cup {Nothing}

VARIABLES
  docker,  \* [sources -> container or Nothing]
  file,    \* the output file
  moves,   \* how often either changed other than by a command
  said     \* the last command: its flags, what it saw, its exit code and report

vars == <<docker, file, moves, said>>

Sources == DOMAIN Containers

\* The services discovery may return.
AllServices ==
  UNION {{ParseLabels(source, container, ResolveURLHost(Hosts[source[1]], "localhost")) :
            container \in {c \in Containers[source] : OptedIn(c)}} : source \in Sources}

\* Each has its place in each of the orders, and an id of its own; its entry has
\* a fingerprint and can be read back.
ASSUME ServicesAssumption ==
  /\ IsFiniteSet(Sources) /\ Sources \subseteq DOMAIN SourceID
  /\ \A order \in {NameOrder, GroupOrder, IdOrder} : order \in Seq(ToSet(order))
  /\ \A i, j \in DOMAIN GroupOrder : GroupOrder[i] = GroupOrder[j] => i = j
  /\ Nothing \notin ToSet(GroupOrder)
  /\ \A s \in AllServices :
       /\ s.name \in ToSet(NameOrder) /\ s.group \in ToSet(GroupOrder) /\ s.id \in ToSet(IdOrder)
       /\ s.id # ""
       /\ \A format \in Formats : /\ Hash[RenderEntry(s, format)] # ""
                                  /\ RenderEntry(s, format) # Unreadable

Silence == [command |-> "none", flags |-> NoFlags, up |-> {}, exit |-> 0, report |-> <<>>]

(***************************************************************************)
(* Discovery, in one step.  up holds the hosts that answer.                *)
(***************************************************************************)
Before(a, b) ==
  LET Rank(order, x) == SelectInSeq(order, LAMBDA y : y = x)
      Less(order, x, y) == Rank(order, x) < Rank(order, y)
  IN  \/ Less(GroupOrder, a.group, b.group)
      \/ a.group = b.group /\ Less(NameOrder, a.name, b.name)
      \/ a.group = b.group /\ a.name = b.name /\ Less(IdOrder, a.id, b.id)

Discovered(containers, up) ==
  LET in == {source \in Sources : /\ source[1] \in up
                                  /\ containers[source] # Nothing
                                  /\ OptedIn(containers[source])}
  IN  {ParseLabels(source, containers[source], ResolveURLHost(Hosts[source[1]], "localhost")) :
         source \in in}

SortServices(services) ==
  CHOOSE sorted \in SetToSeqs(services) :
    \A i, j \in DOMAIN sorted : i < j => Before(sorted[i], sorted[j])

(***************************************************************************)
(* The merge, for one format.                                              *)
(***************************************************************************)
\* The merge under each of the two adapters.
Homepage == INSTANCE Merge WITH Format <- "homepage", ServiceOrder <- IdOrder, NoName <- Nothing

Named == INSTANCE Merge WITH Format <- "named", ServiceOrder <- IdOrder, NoName <- Nothing

ListKey(format) ==
  CASE format = "homepage" -> "root" [] format = "homer" -> "services" [] format = "dashy" -> "sections"

\* model.GroupServices: the groups by name, in each the services by name and id.
GroupServices(services) ==
  LET names == Only(GroupOrder, {s.group : s \in services})
  IN  [i \in DOMAIN names |->
         [name     |-> names[i],
          services |-> SortServices({s \in services : s.group = names[i]})]]

\* What the merge wants of a service.
Wanted(s, format) == [id |-> s.id, group |-> s.group, body |-> RenderEntry(s, format)]

\* Mutant: an empty list at the root is taken for the placeholder of a missing file.
ViewByShape(f, format) ==
  LET key  == ListKey(format)
      list == f.shape = "list"
      root == CASE f.shape = "absent" \/ (list /\ f.lists["root"] = <<>>) -> "blank"
                [] f.shape = "map" /\ format = "homepage"               -> "other"
                [] list /\ f.lists["root"] # <<>> /\ format # "homepage" -> "other"
                [] OTHER -> IF key \in DOMAIN f.lists THEN "groups" ELSE "noKey"
  IN  [root |-> root, groups |-> IF root = "groups" THEN f.lists[key] ELSE <<>>]

\* The document a format finds in the file.
View(f, format) ==
  LET key  == ListKey(format)
      root == CASE f.shape = "absent"                       -> "blank"
                [] f.shape = "map" /\ format = "homepage"   -> "other"
                [] f.shape = "list" /\ format # "homepage"  -> "other"
                [] OTHER -> IF key \in DOMAIN f.lists THEN "groups" ELSE "noKey"
  IN  [root |-> root, groups |-> IF root = "groups" THEN f.lists[key] ELSE <<>>]

\* The file with that document in it.
Stored(f, format, doc) ==
  [shape |-> IF format = "homepage" THEN "list" ELSE "map",
   lists |-> [key \in DOMAIN f.lists \cup {ListKey(format)} |->
                IF key = ListKey(format) THEN doc.groups ELSE f.lists[key]]]

Merged(f, services, format, policy) ==
  LET groups == GroupServices(services)
      wanted == [i \in DOMAIN groups |->
                   [groups[i] EXCEPT !.services = [j \in DOMAIN @ |-> Wanted(@[j], format)]]]
  IN  IF format = "homepage" THEN Homepage!Merge(View(f, format), wanted, policy)
      ELSE Named!Merge(View(f, format), wanted, policy)

(***************************************************************************)
(* diff.Print: one line for each change, in the order of its group, of its *)
(* service's name, which a removal has lost, and of its id.                *)
(***************************************************************************)
ServiceName(services, change) ==
  IF change.kind = "removed" THEN ""
  ELSE (CHOOSE s \in services : s.id = change.id).name

Line(change, services) ==
  [kind |-> change.kind, group |-> change.group,
   shown |-> firstNonEmpty(ServiceName(services, change), change.id)]

\* Mutant: the id is not compared.
SortKeyWithoutId(change, services) == <<change.group, ServiceName(services, change)>>

SortKey(change, services) == <<change.group, ServiceName(services, change), change.id>>

\* The lines of the report and what they are sorted by.  The sort is not stable,
\* so lines with one key come in any order.
Report(changes, services) ==
  [i \in DOMAIN changes |-> [key  |-> SortKey(changes[i], services),
                             line |-> Line(changes[i], services)]]

(***************************************************************************)
(* dashsync sync.                                                          *)
(***************************************************************************)
\* Mutant: $CI has the last word.
DryRunUnderCI(flags) == flags.ci \/ flags.dryRun = "true"

\* --dry-run, whose default is whether $CI is set.
DryRun(flags) == flags.dryRun = "true" \/ (flags.dryRun = "unset" /\ flags.ci)

\* What is wrong with the flags is found before anything else is done.
FlagsAccepted(flags) ==
  /\ flags.format \in Formats
  /\ flags.conflict \in {"preserve", "overwrite", "fail"}
  /\ flags.check => flags.outputPath

Failure(f) == [exit |-> 1, file |-> f, changes |-> <<>>]

\* Exit code, file and changes of one run on the file f, merged being what its
\* merge returns.
Outcome(flags, up, f, merged) ==
  IF ~FlagsAccepted(flags) \/ up = {} THEN Failure(f)
  ELSE IF ~flags.outputPath THEN [exit |-> 0, file |-> f, changes |-> <<>>]
  ELSE IF merged.error # "" THEN Failure(f)
  ELSE [exit    |-> IF flags.check /\ merged.changes # <<>> THEN 2 ELSE 0,
        file    |-> IF flags.check \/ DryRun(flags) THEN f
                    ELSE Stored(f, flags.format, merged.doc),
        changes |-> merged.changes]

Sync(flags, containers, up, f) ==
  Outcome(flags, up, f, Merged(f, Discovered(containers, up), flags.format, flags.conflict))

RunSync ==
  /\ said.command = "none"
  /\ \E flags \in FlagSets, up \in Answering :
       \E run \in {Sync(flags, docker, up, file)} :
         /\ said' = [command |-> "sync", flags |-> flags, up |-> up, exit |-> run.exit,
                     report |-> Report(run.changes, Discovered(docker, up))]
         /\ file' = run.file
  /\ UNCHANGED <<docker, moves>>

(***************************************************************************)
(* dashsync inspect: the services in their order, whatever the output      *)
(* format; a format it does not know is found out after discovery.         *)
(***************************************************************************)
RunInspect ==
  /\ said.command = "none"
  /\ \E output \in {"table", "json", "xml"}, up \in Answering :
       LET failed == up = {} \/ output = "xml"
           rows   == SortServices(Discovered(docker, up))
       IN  said' = [command |-> "inspect", flags |-> [output |-> output], up |-> up,
                    exit    |-> IF failed THEN 1 ELSE 0,
                    report  |-> IF failed THEN <<>> ELSE rows]
  /\ UNCHANGED <<docker, file, moves>>

(***************************************************************************)
(* Between the commands.                                                   *)
(***************************************************************************)
\* The next command is typed.
Prompt == said # Silence /\ said' = Silence /\ UNCHANGED <<docker, file, moves>>

\* A container is created, replaced, started, stopped or removed.
DockerChanges ==
  \E source \in Sources : \E container \in Containers[source] \cup {Nothing} :
    /\ said = Silence /\ moves < MaxMoves
    /\ docker' = [docker EXCEPT ![source] = container]
    /\ moves' = moves + 1
    /\ UNCHANGED <<file, said>>

\* Somebody changes an entry, or copies it within its group.
PersonEdits ==
  \E key \in DOMAIN file.lists : \E i \in DOMAIN file.lists[key] :
    \E j \in DOMAIN file.lists[key][i].items :
      LET entry  == file.lists[key][i].items[j]
          edited == [entry EXCEPT !.body = HandWritten]
      IN  /\ said = Silence /\ moves < MaxMoves
          /\ \/ file' = [file EXCEPT !.lists[key][i].items[j] = edited]
             \/ file' = [file EXCEPT !.lists[key][i].items = InsertAt(@, j, entry)]
          /\ moves' = moves + 1
          /\ UNCHANGED <<docker, said>>

Init == /\ docker \in InitialDockers
        /\ file \in InitialFiles
        /\ moves = 0
        /\ said = Silence

Next == RunSync \/ RunInspect \/ Prompt \/ DockerChanges \/ PersonEdits

Spec == Init /\ [][Next]_vars

(***************************************************************************)
(* Properties.                                                             *)
(***************************************************************************)
\* --check names the way out (pendingChangesError): the same command with
\* --dry-run=false and without --check writes what was pending, $CI or not,
\* and a second --check finds nothing but the hand edits that are kept.
AdviceWorks ==
  said.command = "sync" /\ said.exit = 2 =>
    \A written \in {Sync([said.flags EXCEPT !.dryRun = "false", !.check = FALSE],
                         docker, said.up, file)} :
    \A again \in {Sync(said.flags, docker, said.up, written.file)} :
      /\ written.exit = 0
      /\ \A i \in DOMAIN again.changes : again.changes[i].kind = "conflict"

\* What sync prints to stdout is what it would merge into a file that is not
\* there, markers aside: the whole-document rendering and the one entry by
\* entry have the same groups and services, in the same order (Render,
\* RenderEntry).  What they encode is one operator here, so a drift between
\* the two calls of the encoder would not show.  It is about what Docker
\* shows, so it is enough to ask between two commands.
StdoutIsFreshMerge ==
  LET services == Discovered(docker, DOMAIN Hosts)
      nothing  == [shape |-> "absent", lists |-> <<>>]
      Bodies(items) == [j \in DOMAIN items |-> items[j].body]
  IN  said = Silence =>
      \A format \in Formats :
      \A merge \in {Merged(nothing, services, format, "preserve")} :
        Render(GroupServices(services), format)
          = [i \in DOMAIN merge.doc.groups |->
               [name  |-> merge.doc.groups[i].name,
                items |-> Bodies(merge.doc.groups[i].items)]]

\* What a format may look at in a container: its labels for every format and
\* for this one, and the published tcp ports if no URL is given.  Not its
\* status, the labels of other formats, other ports, or their order.
Relevant(container, format) ==
  LET labels == container.labels
      own    == {key \in DOMAIN labels : /\ key[1] = "dashsync" /\ Len(key) > 1
                                         /\ Len(key) = 2 \/ key[2] = format}
      ports  == {p \in ToSet(container.ports) : p.type = "tcp" /\ p.public # 0}
  IN  [labels |-> [key \in own |-> labels[key]],
       ports  |-> IF Label(labels, "url") = "" THEN ports ELSE {}]

LooksTheSame(before, after, format) ==
  \/ before = after
  \/ /\ before # Nothing /\ after # Nothing
     /\ Relevant(before, format) = Relevant(after, format)

\* A change in Docker that says nothing new to a format changes nothing in
\* its file: no run reports or writes anything for it.
IrrelevantChangesInert ==
  [][docker' # docker =>
       \A format \in Formats :
         (\A source \in Sources : LooksTheSame(docker[source], docker'[source], format))
           => {Wanted(s, format) : s \in Discovered(docker, DOMAIN Hosts)}
                = {Wanted(s, format) : s \in Discovered(docker', DOMAIN Hosts)}]_vars

\* A command leaves alone what is not its format's: the lists under other
\* keys stay as they are, and a file of another format's shape is refused,
\* be its list empty (NamedGroupAdapter.GroupSequence on isNewDocument).
OthersListsKept ==
  [][said'.command = "sync" =>
       \A key \in DOMAIN file.lists :
         key \notin {ListKey(format) : format \in Formats \cap {said'.flags.format}}
           => /\ file'.shape = file.shape
              /\ key \in DOMAIN file'.lists
              /\ file'.lists[key] = file.lists[key]]_vars

\* The report of changes reads the same on every run on the same state: the
\* changes that its unstable sort cannot tell apart have the same line.
ReportDeterministic ==
  said.command = "sync" =>
    \A i, j \in DOMAIN said.report :
      said.report[i].key = said.report[j].key => said.report[i].line = said.report[j].line

\* What inspect lists is what the dashboard gets: after a run that wrote, the
\* managed entries of the file are those of the listed services, each in its
\* service's group.
DashboardIsInspected ==
  LET flags   == said.flags
      groups  == file.lists[ListKey(flags.format)]
      Managed(group) == {e \in ToSet(group.items) : Homepage!IsManaged(e)}
      found   == UNION {{[id |-> e.comment.id, group |-> g.name] : e \in Managed(g)} :
                          g \in {g \in ToSet(groups) : Homepage!Sweepable(g)}}
  IN  said.command = "sync" /\ said.exit = 0 /\ flags.outputPath /\ ~flags.check /\ ~DryRun(flags)
        => found = {[id |-> s.id, group |-> s.group] : s \in Discovered(docker, said.up)}

\* Whatever the labels are called, the widget of a Homepage entry is made of
\* its widget options, all of them, and no mistyped option becomes a field
\* beside it (flatExtraFields on the reserved word).
WidgetsIntact ==
  \A s \in Discovered(docker, DOMAIN Hosts) :
    LET options == widgetFields(s.extra)
        fields  == entryFields(s)
        widgets == {name \in DOMAIN fields : name[1] \in ReservedWords}
    IN  IF DOMAIN options = {} THEN widgets = {}
        ELSE widgets = {<<"widget">>} /\ fields[<<"widget">>] = options
=============================================================================
