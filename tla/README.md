# dashsync in TLA+

dashsync turns the labels of Docker containers into the configuration file of a dashboard and keeps
that file in sync without touching what a human wrote in it. This directory holds TLA+ models of the
program, TLC configurations that check them on small instances, and proofs that TLAPS checks for all
instances. Paths below are relative to `src/`.

## Inventory

| part | state it keeps | operations | talks to | what is hard | correct when |
|---|---|---|---|---|---|
| merge engine (`internal/merge/merge.go`, `marker.go`) | none; the file is its memory: a marker comment with an id and a fingerprint on each managed entry | `Merge` = `applyDesired` per group, then `removeOrphaned` per group | renderers for bodies, adapters for the tree | long sequences of edits and syncs: moves between groups, damaged or copied markers, conflicts, bootstraps of empty files | idempotent; in sync with Docker; hand-written entries untouched; the policy decides about hand-edited ones; the report tells the truth |
| document adapters and YAML tree (`adapter.go`, `ast.go`) | the AST of one call, repaired in place | `GroupSequence`, `FindOrCreateGroup`, `Groups`, `readEntries`, `writeEntries`, the repairs of brackets and columns | merge engine | two document shapes; groups between brackets; columns and comments that belong to a source line the node is no longer on | foreign documents are refused, malformed groups skipped; what is printed can be read again and has every comment where it was |
| sync command (`internal/cli/sync.go`) | locals of one process; output file, `.bak`, temporary file | flags, lock, discover, read, merge, print, exit or `writeAtomic` | everything below | other processes and humans between two system calls; failures; kills; power cuts | the file is whole at every moment; no update is lost; the old content can be had back; nothing is left behind; `--check` is right |
| cross-process lock (`lock.go`, `lock_other.go`) | the sidecar's inode and its flock | `acquireLock`, release | kernel | which inode is locked; crashes; file systems whose flock excludes nobody | a writer is alone; no lock outlives its process |
| multi-host discovery (`internal/cli/root.go`, `internal/discovery/multihost.go`, `docker.go`) | one result slot per host, a WaitGroup, one deadline | `discoverDocker`, `DiscoverAll`, `discoverOneHost`, `Discover`, `aggregateHostResults` | Docker daemons | goroutines in any order, hosts that hang | results complete; failures isolated; one order; it ends, unless a child of ssh keeps it |
| container labels (`labels.go`, `internal/model`) | none | `ParseLabels`, `urlFromPorts`, `Source.ID`, `GroupServices`, `SortServices` | discovery | the API promises no order; labels for three formats on one container | the same containers give the same services, and what does not concern a format does not change its file |
| host configuration (`internal/config`) | none | `Load`, `validate`, `addressScheme`, `ResolveURLHost` | discovery | several spellings of one host | no name or address twice |
| ssh connection (`sshconn.go`) | a process, its pipes, a stderr buffer, a `sync.Once` | `Read`, `Write`, `annotate`, `wait`, `Close` | net/http's goroutines, os/exec's goroutines, the context | who notices first that ssh is gone | waited for once; stderr complete in errors; nothing left; the deadline kills ssh, and everybody returns once ssh has no child left |
| renderers (`internal/render`) | none | `Render`, `RenderEntry`, `NormalizeEntry`, `Adapter` of three formats | labels in, merge out | labels that override fields; a reserved word; two encodings of one service | stdout and file agree; the widget is made of its options |
| diff output (`internal/diff`), inspect command | none | `Print`; `inspect` | merge; discovery | an unstable sort | the same report every time; inspect lists what the file gets |
| version, command tree (`internal/buildinfo`, `version.go`) | none | build metadata, flag registration | | | not modelled |

A run of `sync --output-path` goes through them in this order: flags, lock, discovery, reading the file,
merge, report, and then exit code or atomic write; the lock is released last. Nothing but the file (and
its `.bak` and `.lock`) survives a run, so the merge has to find everything it knows in the file.

## Modules

| module | models | its variables and actions |
|---|---|---|
| `Merge` | merge engine and what it sees of the tree | no state. One operator per loop body: `Verdict`/`ApplyService` is one turn of `applyDesired`, `MergeServices` and `MergeGroups` its two loops, `Orphans`/`SweepGroup`/`Removals` the removal pass, `Merge` the whole call, with its errors |
| `Lists` | what several modules share: `lowestPort`, the loop of `urlFromPorts`; `Only`: the elements of a sequence that are in a set; `Rearrangements`: what a sort may return; `f ++ g`: the one map over the other | |
| `SyncContract` | the promise of the package comment, ADR 002 and the README | abstract: hand-written entries, the set of managed entries, and those edited since dashsync wrote them |
| `MergeHistory` | the life of one file | `SyncRun(policy)` is a whole run that writes; `DockerChanges` and ten kinds of human edits in between |
| `Sync` | RunE, `acquireLock`, `writeAtomic` | one action per system call of each process; `pc[r]` is the line, `seen`, `want`, `keep`, `copy` its locals, `path`, `bak`, `tmp[r]` the files, `lockFile`, `fd`, `held` the lock; `Fails`, `Kill`, `PowerLoss`, `HumanEdits`, `DockerChanges` at any moment |
| `YamlTree` | `ast.go`: nodes, columns, brackets, comments | no state; each repair returns the repaired node |
| `MergeSteps` | one call of `Merge` on the tree, with both adapters | `doc` the tree, `pc` and `at` the place in the two loops of `Merge`, `next` that of `applyDesired`, `entries` its slice; an action per adapter call, per service, per `writeEntries` and per swept group |
| `Renderers` | `ParseLabels`, the rest of `urlFromPorts` (`Link`), `ResolveURLHost`, the renderers | no state; a label key is the sequence of its words, an entry the YAML value it encodes |
| `Command` | `sync` and `inspect` end to end | `docker`, `file`, `said` (the last command, its exit code and report); `RunSync` and `RunInspect` are whole commands, `DockerChanges` and `PersonEdits` come between them |
| `AtomicSync` | what `sync` should look like from outside | abstract: the file is replaced in one step |
| `Discovery` | configuration, goroutines, aggregation, labels, ports, orders | `g[i]` is the line of host i's goroutine, `slots` and `wg` the slice and the WaitGroup, `main` the command, `late` the deadline, `children` the hosts whose ssh has a child that holds its stderr; a goroutine that listed closes its connection (`Close`) before it hands its result over |
| `Fleet` | `Discovery` and `Merge` composed, sync after sync | adds the file and the report: `Save`, `GiveUp`, `Run` |
| `SshConn` | `commandConn` with its three callers, the process, exec.Cmd's goroutines and the context | `at[t]` is the line of each caller, `once` the `sync.Once`, `copier` the goroutine that drains stderr |
| `MC*` | instances | constants only |
| `MergeHistoryProofs`, on `MergeProofs`, on `ListProofs` | theorems about the life of a file, the merge, and sequences | |
| `MergeStepsProofs`, `SyncProofs`, `SshConnProofs`, `DiscoveryProofs`, `CommandProofs` | theorems about the module of that name; `DiscoveryProofs` also about `Fleet` | |

The three levels of a merge: `MergeSteps` has the tree and the order of the calls, and `AgreesWithMerge`
says that a call ends in what `Merge` says (the same groups, entries, comments, changes or error), which
`StepsAgree` proves;
`Merge` is what `MergeHistory`, `Fleet`, `MCSync` and `Command` use; `SyncContract` is what it promises.

`MCSync` fills the constants `Merged`, `Refuses` and `Pending` of `Sync` with the operators of `Merge`,
so that the processes merge real documents. `PROJECT.json` maps every definition to its lines.

Abstractions worth knowing: a document is a sequence of groups and a group a sequence of entries; an
entry is its comment (none, a note, a marker), its normalized body (an opaque value) and its layout
(what normalization drops). The fingerprint is injective, so is `Source.ID`: collisions of FNV-32a or of
12 hex digits of SHA-256 are left out. `wrote` on an entry is a history variable that only `SyncContract`
looks at. A file is its data, its permissions and whether its data is on disk; data being written is
`Torn`. In `Sync` a discovery is one step that returns what Docker shows at that moment (`Discovery`
takes it apart) or fails.

## Runs

| run | question | instance and why it is enough |
|---|---|---|
| `merge_history` | `Idempotent`, `InSync`, `HandWrittenUntouched`, `ReportIsTrue` after any two edits, with copied entries and two groups of one name | Homer/Dashy shape, one service, two groups, two bodies, `MaxEdits` = 2. One service already has two groups to move between and may appear several times by copies; edits of different services do not interact in the code |
| `merge_contract` | does the merge implement `SyncContract`? | Homepage shape, no copies: with two entries of one id, "the entry of a service" has no meaning, and the code leaves the second alone |
| `sync_runs` | lock, freshness, backup, cleanup, verdict | three runs: the third is what makes a removed sidecar dangerous. Two documents, none of them hand-edited, policy preserve |
| `sync_atomic` | does `Sync` implement `AtomicSync`? | two runs, two sets of permission bits, three documents, one of them hand-edited, and policy fail, so that merges are refused |
| `sync_live` | does every run end whose own discovery returns, and what of a human's saves survives? | two runs, one to hang in its discovery and one to find the lock taken; humans who do not wait; one set of services, since neither depends on changes in Docker |
| `discovery` | slots, failures, order, end | up to two hosts on two daemons, one of them over ssh, four ports, two containers of one display name; lists that must not validate |
| `fleet` | what a host that is down does to the file | two hosts, one container on each |
| `ssh` | wait, stderr, close, deadline | two lines of stderr: an error could carry some and not all |
| `tree` | does the merge on the tree return what `Merge` returns, and can its result be written and read? | every way two groups can be written (brackets inside brackets or not, three indentations, comments above groups and entries, foreign fields before, between and after, items that are no group) in both shapes; four sets of services; the three policies |
| `command` | from labels to file, report and exit code | two hosts, a container whose labels change in every way the formats tell apart and its namesake; files of every shape; 15 command lines; every, one or no host answering; `MaxMoves` = 2: one change to make a difference and one to meet it |
| `backup_mode`, `outage_diff` | see *Divergences* | |

Bounds: `MaxEdits` (human edits in `MergeHistory`), `MaxMoves` (changes between commands in `Command`), `MaxLines` (stderr), the finite sets of runs, documents, views, hosts and
containers. A process is one-shot in the code as well, so the number of runs bounds how many overlap *and*
how many there are; `MergeHistory` and `Fleet` have unbounded sequences of runs that do not overlap.
Symmetry over runs is used for safety only.

Deadlock is checked everywhere but in `SshConn`, where every caller may have returned, and in `MergeSteps`,
where the call has: nothing is left to happen.

Fairness. `Sync`: weak fairness of each run's own steps but for its discovery, because a system call
returns and a discovery need not: over ssh it may outlast `dockerCallTimeout`. `RunsEnd` is therefore about
a run whose own discovery returns, and says that the discoveries of the others, which may hold the lock, cannot
keep it. None for kills, failures, humans or Docker. `Discovery`: weak fairness of the command, of every
goroutine and of the timer, which is what the Go scheduler and runtime give; none for daemons or for the
children of ssh. The deadline ends a goroutine's wait for its daemon (`ListFails`), but not its `Close`, which
waits until nobody holds ssh's stderr; the premise of `CommandEnds` is that no child of a host's ssh holds it
for ever. `SshConn`: weak fairness of the callers past their system call, of the copying goroutine and of the
kill on a context that is done; none for ssh, for its children, for the deadline itself, nor for a `Read` or
`Write` that blocks. `UnblocksWithoutChild` has the same premise.

Each property of a passing run is paired with a mutant, an operator named after the bug it plants (a
forgotten fsync, a sidecar removed on release, a missing `sync.Once`, a deadline that cuts the wait short),
that TLC must catch; a comment `Mutant:` marks them in the modules. They are not part of the models.

## Proofs

`SyncProofs`: for any number of processes, any documents, views and permissions, and whatever a merge
computes, from `SyncAssumption` alone (a merge that is not refused gives a document; a temporary file's
permissions and `Torn` are none of the others).
The properties are not inductive: that the file is whole follows only if the temporary file is, that the
temporary file is follows from the line of the run that is writing it, and that a run replaces what it read
follows from who may be inside the lock at the same time. The inductive invariant `IInv` is
`TypeOK /\ RunInv /\ LockInv /\ FreshInv`:

1. `RunInv`: what each line of RunE and `writeAtomic` has in hand. It alone (with `TypeOK`) gives
   `NeverHalfWritten`, with or without a lock and with humans at any moment, and `NoTempFileLeft`.
2. `LockInv`: who has the sidecar open and locked, at which line; the sidecar's inode never changes. It
   gives `WritersExclude` and `LocksDie`.
3. `FreshInv`: if flock excludes and humans wait (`Disciplined`), the file is still the one each working run
   read, and once the backup is written it holds that content. `AloneInside` is the heart: past its reading a
   writer is the only working run. It gives `WritersSeeFresh`, `ChecksAreRight` and `BackupHoldsTheOld`.
4. `SavedInv` takes the place of `FreshInv` where humans do not wait and only flock has to work: from its copy
   to its exit, no other run touches the backup a run made. It gives `SavedIsKept`.
5. `SyncIsAtomic`: under `Disciplined`, `Spec` implements `AtomicSync`. A rename is a `Replace`
   (`RenameReplaces`), a power cut is a `PowerCut` (`PowerLossTakesBack`), everything else a stutter or the
   same step.

`MergeProofs` and `MergeHistoryProofs`: for any ids, groups and bodies, any starting files, and any number and
order of runs, edits, copies and changes in Docker. The assumption, `HistoryAssumption`, is what the code
gives: the sorted lists cover the ids and the groups and repeat none; an id, the name of a desired group and a
fingerprint are not empty, since they are digests and `GroupServices` names the group without a label;
what a renderer makes can be read. The argument:

1. Both loops of `Merge` are folds. `ServicesLoop` and `GroupsLoop` turn each into the sequence of the rounds it
   goes through, and `SoFar` and `GroupsSoFar` are the loop invariants, proved by induction over the rounds
   from `ServiceRound` and `GroupRound`, what one round of each does. A round must not undo an earlier one:
   it writes the one entry it looks up, which is not the entry another id looks up.
2. `Settled` is the fixed point: every desired service's entry is one the policy has nothing to do about
   (`Fine`), every desired group is there (`Done`), and nothing is to be swept (`Orphans`).
3. `MergeEffect`: a merge that is not refused returns a settled document and keeps each hand-written entry in
   its group; what it reports is what it did; and on a settled document it changes and reports nothing.
   `MergeTells` and `MergeFresh` say more, which the proofs about whole syncs need: that no service is reported
   twice or in a group it is not wanted in, that only the policy preserve reports a conflict, and what a merge
   makes of an empty file. `DesiredAre` is about `GroupServices`: each service is asked for once, in its group.
4. `IInv` of a history: the file is one a parser can return, and it is settled for what Docker shows after a
   run that wrote. `HistoryInvariant` proves it (`EditsAreFiles` for the ten edits, `MergeEffect` for a run);
   `RunsAreIdempotent`, `RunsLeaveInSync`, `RunsKeepHandWritten` and `RunsReportTheTruth` follow, the last two
   as properties of steps. Without "settled" nothing is inductive: that a second run finds nothing to do
   follows from what the first one left, not from what the first one had found.
5. `RunsKeepContract`, the refinement of `SyncContract`. It needs three things to be so, each a hypothesis of
   the theorem: humans copy nothing (`~Copies`: with two entries of one id the contract's sets say too
   little), the history starts before dashsync first ran (`FreshStarts`), and no fingerprint stands for two
   bodies (`NoCollision`). The last two are ASSUMEd, hence evaluated, in `MCMergeHistory`. `Settled` says what
   a run leaves but not where it came from, so two more facts are carried along:
   `MergeTrace`, from the loop invariants `Grows` and `Traced`, says that what is new was rendered for a desired service
   and that what no service has a reason to replace stays; `TInv` adds to `IInv` that the file is `Tidy` (one
   group for each name, one entry for each id in a group, markers that tell what dashsync wrote), which each edit
   keeps by giving entries at most a new place or body (`Derived`). `WhatIsLeft`, `WhatStays` and `ServiceHere` tell a run
   entry by entry, `RunsExchange` puts that into sets, and `ExchangeIsContract` is the rest.

`MergeStepsProofs`: for any files and services, from `FilesAssumption` (a node's column is where its source
line puts it, a parsed list is one of the two formats', the list made for an empty file is
`newEmptySequence`) and `ServiceSetsAssumption` (no desired group has the name that stands for a key that
is no string). `IInv` says: the tree is well formed; each group is the one that was found, with at most
fields added at its end (`GotOrAppended`), its offsets kept; the group the call is working on is open, in
block style and in its column; a list in flow style has no comments, hence no markers, so the sweep
rewrites only block lists. `StepsInvariant` proves it for every action; it gives
`ReadableAlways` (what is printed at the end can be read again), `ColumnsAlways` and `SurroundingsAlways`
(what stands around the managed entries keeps its place and its comments). A
repair in `ast.go` is needed for one step and holds for all later ones, which is why the invariant has to
speak of every list and not only of the one in hand.

`StepsAgree` is the refinement between the two levels, `AgreesWithMerge`: what the steps on the tree return is
what `Merge` returns. It also uses `OrdersAssumption` (the orders are lists of names) and that a list in a group
holds entries, which is part of `WellFormed`. Its invariant, `AgreeInv`, says where in the folds of `Merge` each
step is:

1. `LoopExists` and `LoopRounds` unfold a fold into the sequence of its rounds, so that a state between two
   rounds has a name: `Rounds[k]` after the k-th wanted group, `Passes(k)[j]` after the j-th of its services. A
   failing round is followed by rounds that do nothing, as an error leaves the loops in the code.
2. `SeenGroups` is what `Merge` sees of a tree. A lemma per tree operation says what it does to that:
   opening, converting and moving a group nothing, `NewGroup` one empty group at the end, `writeEntries`
   exactly the entries of that group.
3. `FindInv`, `ApplyInv` and `SweepInv` are the three parts: before a group is looked up, the tree shows
   `Rounds[at - 1]`; while it is worked on, the slice `entries`, put in that group's place, gives `Passes`; in
   the removal pass, the groups before `at` are swept and those from `at` on are not. Between two calls the
   tree is behind the slice, and `writeEntries` brings it up; reading back what was written
   (`ReadBack`) returns the slice.
4. `Merge` looks a group up anew in every round and the code holds on to a node. That both mean the same group
   is what `IndexSeen` and the "group at hand" of `IInv` are for.

`ListProofs`: sequences. `FlattenSeq` and folds by their definitions, `Only`, appending, sorting (`Sortable`:
what an order compares one way or the other can be put in that order, by taking the greatest element first),
and induction over naturals and sequences with the predicate given as a set, from which the
rest follows by naming the set of the values for which the claim holds.

`SshConnProofs`: for any amount of stderr. `OnceInv` says what holds in each state of the `sync.Once`, and
`CopyInv` what the buffer holds; together they give `WaitIsCalledOnce`, `ErrorsCarryAllStderr` and
`CloseIsThorough`.

`DiscoveryProofs`: for any number of hosts, daemons and containers, from `DiscoveryAssumption` (a list of
hosts is a sequence, a daemon's containers and ports are finitely many, no two containers have one name),
`AddressesAssumption` (behind every valid address there is a daemon) and `OrdersAssumption` (`cmp.Compare`
orders every group, name and id there is). `SlotInv` says that the WaitGroup's counter is the number of
goroutines that are not over, started or not (`Counted`), what each has handed over at each of its lines
(`Handed`), and that nobody is left once the results are read (hence, by `TypeOK`, no child of ssh: `NoChildren`). A counter of 0 leaves an empty set, so
`AllSlotsFilled`; that the count never leaves `0..Len(hosts)` is part of `TypeCorrect`.

The other three are about data. `LowestPort` follows the loop over the ports, `BeforeOrders` shows that
`Before` is a total order where ids differ, and `Sorted` that sorting then has one result, with the same
services. `Answered` puts them together: what `Discover` returns of one daemon is the services of its enabled
containers, in order, however they were listed (`ListingOrderIgnored`). Each of those ids bears its host's
name, and a configuration that validates has no name twice, so the ids of all hosts together differ:
`Aggregated`. `OutcomeInv` carries both from the goroutine that listed to the outcome of the command, which
gives `FailuresCostNobodyElse` and `ServicesInOrder`.

The rest is about `Fleet`, discovery and merge one sync after another, from `FleetAssumption` (no two ids have
one digest; digests, fingerprints and the groups' names are not empty; the sorted lists repeat nothing; what a
renderer makes can be read). That a quiet sync reports nothing is not inductive: it depends on what each
answer was worth when it was given, and on what the sync before left. `FleetInv` says both:

1. The file is one merges make, so that `MergeEffect` applies to it (`FleetSame` shows that the merge of `Fleet`
   is the one `MergeProofs` speaks of).
2. What a host answered is, as long as no container has changed since the command began, what runs there now
   (`ThereIsPossible` when it is listed, `ResultFrom` for every other step).
3. If no container has changed since the last command began and all its hosts answered, the file is `Clear`
   for what runs there: a merge for it would neither change nor report anything.

`SavedServices` says of which answers the services of a `Save` come, `SaveEffect` that it leaves the file
clear for them. Hence `AnswersStay`, because in a clear file everything that is wanted is shown
(`FleetShows`), and `QuietRunsAreQuiet`, because a clear file stays as it is; in both, earlier syncs may have
left anything a merge leaves, after any outages. `OutagesKeepTheFile` needs only that a command that
reaches its merge had an answer.

`CommandProofs`: for any files, containers, labels, hosts and command lines, from `CommandAssumption` and
`GroupsAssumption` (an output file is nothing, a list of groups, or a mapping of such lists), `ContainersAssumption`
(label keys are sequences of words, published ports numbers), `WordsAssumption` (which words are reserved for the
widget), `FlagsAssumption` (which flags there are), `ServicesAssumption` (finitely many containers may run; the
orders have a place for every name; an id and a fingerprint are not empty; what a renderer makes can be read)
and, for `DashboardShowsThem` only, `NamesAssumption` (no group is called "", see *Divergences*).

`OthersAreSafe`: no sequence of commands, changes and edits makes a
command touch what is not its format's. It needs the invariant `FileOK`, which shape the file has and what it
may then hold; a file of another format's shape has no list of groups (`OtherShapesRefused`), so its merge
fails (`RefusedWithoutGroups`) and the file stays (`OutcomeOnFile`); otherwise `Stored` adds beside what is
there (`StoredBeside`).

`WidgetsAreIntact` holds of any service: what `flatExtraFields` leaves does not begin like the widget, and
nothing else is called so (`WidgetAlone`). `InertChanges` goes the other way, from what a format may look at to
the entry it wants: `UnderIs` says which keys a prefix leaves, `ExtrasAgree` that those of a format come from
labels it may look at, `PortsAgree` (from `LowestPort`) that neither other ports nor their order matter,
`SameBody` and `LooksMatter` that nothing else gets into an entry. Its invariant is `DockerOK`, that what runs
is what may run there.

The other four need what a merge does. `Command` has an instance of `Merge` for each adapter, and `HomepageSame` and
`NamedSame` show that it is the merge `MergeProofs` speaks of. The rest is about what that merge is called with:

1. Services. `Sorted` and `DesiredIsFair`: grouping and sorting list each service once, in its group, and no
   group twice or empty, so that the desired groups are what `MergeEffect` asks for (`HomepageFits`, `NamedFits`).
2. Files. `ListsOK` bounds what may be under each key: the names and entries that were there to begin with, what
   a renderer may make, and what a person makes of either. Runs (`RunIs`, `StoredOK`) and edits (`PersonKeeps`) keep
   it. The inductive invariant, `Kept`, adds to it that the last command was a run on such a file (`SaidOK`).
3. `MergesWell` collects what a merge does, in either format. A merge leaves the document settled: hence
   `AdviceIsGood`, since the merge after the advised one finds nothing but conflicts (`CheckThenSync`), and
   `DashboardShowsThem`, since nothing settled holds an orphan or lacks a service (`WrittenShows`). A merge tells of
   each service at most once, in its group, and of removals only from groups where the service is not wanted
   (`MergeTells`): hence `ReportsReadTheSame`, since two changes with one key are two removals. A merge
   into nothing makes the desired groups and no others (`MergeFresh`): hence `StdoutAgrees`.

Only model-checked: liveness (`RunsEnd`, `CommandEnds`, `UnblocksWithoutChild`), which needs `ENABLED`.

What a fold computes can be proved when the induction is over membership in a set, as in `ListProofs`; the
library's own induction theorems take the predicate as an operator, which the provers cannot instantiate.
`SelectSeq` is recursive, so the models use `Only` where a theorem depends on it.

## Divergences

Checked by a run each:

- `backup_mode`: a `.bak` left by an earlier run keeps its own permissions (`sync.go:242`), not "the same
  permissions" as the file (`sync.go:229`).
- `outage_diff`: a host that does not answer loses its entries in the file, hand-edited ones too, although
  none of its containers changed; when it is back they are added at the end. `QuietRunsReportNothing` is
  what remains of the README's "zero diff": runs that every host answered.

Seen while modelling, and visible in the models without a run of their own: under `--conflict preserve` a
conflict is a pending change for `--check`, and no rerun writes it, whatever the message at `sync.go:299`
says (`AdviceWorks` exempts conflicts); over ssh `dockerCallTimeout` does
not "bound how long discovery is allowed to take" (`root.go:20`): a child of ssh that keeps stderr open, such as a
`ProxyCommand`, keeps `Close` and every failed `Read` or `Write` in `cmd.Wait` after the deadline
(`sshconn.go:216`), because no `WaitDelay` is set; net/http and `discoverOneHost` wait for `Close`, so `wg.Wait`
does, and a `sync` keeps its lock meanwhile (the premises of `UnblocksWithoutChild`, `CommandEnds` and
`RunsEnd`); a `--check` that meets a
writer exits 1, although `lock.go:20` says it should not fail (`LockRefused`); a refused writer is told of a
writer even when only a `--check` holds the lock; Preserve does not keep a hand-edited entry whose service
moved to another group (`Orphaned`); an empty or key-less file is written although nothing is reported
(hence the premise of `ReportIsTrue`); an update drops comments inside a managed entry; the second of two
groups of one name is swept although `adapter.go:196` calls it inert; two addresses of one daemon under two
schemes pass `validate`; a managed entry that nobody wants any more stays for ever in a group named "", because
`removeOrphaned` (`merge.go:285-298`) finds "" as the desired group of an id it does not know, and takes it for that
group's name (no label can name such a group, a hand-written file can; `NamesAssumption`); a version that a human saves between `readIfExists` and the rename is overwritten.

## Not modelled

YAML text itself: parsing, printing, quoting, indentation levels inside an entry, comments of several lines,
anchors and aliases (a group whose name is an alias); `NormalizeEntry` is the value of an entry, so that two
encodings of one value differ only in what it drops; `Render` and `RenderEntry` share one operator for
what they encode, so `StdoutIsFreshMerge` compares groups, order and services, not two calls of the encoder. Parsing of URLs, of `dashsync.yaml` and of ssh addresses.
Wording: messages, the table of `inspect`, the counts of the report. Symbolic links and umask; a temporary file
name that is already taken; an `os.Remove` that fails; a temporary file that a killed run left is never
collected, in the model as in the code. In `SshConn` a child of ssh writes nothing on stderr, and the HTTP
transport is its three callers. `version` and `buildinfo` print build metadata and keep no state.

## Plan

1. Merge, file life, contract (done); sync, lock, atomic write, refinement, proofs (done); discovery and
   fleet (done); ssh connection and proofs (done).
2. The merge on the tree (`YamlTree`, `MergeSteps`), labels, renderers and the commands end to end
   (`Renderers`, `Command`), what survives of a human's saves (done).
3. Theorems about the merge: its fixed point and the four properties of a history (done), the repairs on the
   tree (done), what survives of a human's saves (done), `SlotsComplete` (done), the contract (done), the
   commands end to end (done).
4. `KeepsContract` for files with copies: an abstract file that is a bag of managed entries.
5. `AgreesWithMerge` (done); with it the properties of `MergeHistory` for the call on the tree.
6. More runs: two services in one group for the contract, and a sync without a lock that works, for which there is
so far the theorem `NeverHalfWritten` and no run.
7. The HTTP transport's use of `commandConn`: one request per client, closed by `discoverOneHost`.
