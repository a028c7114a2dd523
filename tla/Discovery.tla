------------------------------ MODULE Discovery ------------------------------
(***************************************************************************)
(* Discovery over several Docker hosts: discoverDocker of                  *)
(* internal/cli/root.go, config.Load's validation, DiscoverAll's           *)
(* goroutines, and what Discover and ParseLabels make of one daemon's      *)
(* answer.                                                                 *)
(*                                                                         *)
(* One command at a time: load the configuration, start one goroutine per  *)
(* host, wait for all of them on the WaitGroup, aggregate.  Meanwhile the  *)
(* one deadline that all hosts share may pass, daemons go up and down, and *)
(* containers come and go.  A host reached over ssh has a process, which   *)
(* may have children; module SshConn has the connection in detail.         *)
(*                                                                         *)
(* An address is NoAddress or [scheme, host, user, spelling]; a container  *)
(* is [name, enable, running, title, group, ports], its ports a set of     *)
(* [public, type], public = 0 for one that is not published.               *)
(***************************************************************************)
EXTENDS Integers, Sequences, FiniteSets, SequencesExt, FiniteSetsExt, Lists

CONSTANTS
  HostLists,        \* what dashsync.yaml may list: sequences of [name, address, tls]
  NoAddress,        \* an empty address
  Lower,            \* strings.ToLower, on host names
  EnvDaemon,        \* the daemon the environment's own connection reaches
  Daemons,
  Containers,       \* what may be on a daemon at a time: a set of sets
  GroupOrder, NameOrder, IdOrder  \* how cmp.Compare orders groups, names and ids

ASSUME DiscoveryAssumption ==
  /\ EnvDaemon \in Daemons
  /\ \A cs \in Containers :
       /\ IsFiniteSet(cs)
       /\ \A c, d \in cs : c.name = d.name => c = d
       /\ \A c \in cs : IsFiniteSet(c.ports) /\ \A p \in c.ports : p.public \in Nat
  /\ \A list \in HostLists : Len(list) \in Nat /\ DOMAIN list = 1 .. Len(list)

VARIABLES
  hosts,        \* the configuration that was loaded
  main,         \* the command's own control point
  g,            \* each host's goroutine
  result,       \* what its discoverOneHost returned
  slots,        \* DiscoverAll's results
  wg,           \* the WaitGroup's counter
  late,         \* dockerCallTimeout has passed
  out,          \* [services, warnings, error]
  health,       \* of each daemon: "up", "refusing" or "hung"
  containers,   \* of each daemon
  children      \* the hosts whose ssh has a child that holds its stderr

call == <<hosts, main, g, result, slots, wg, out>>
world == <<health, containers, children>>
vars == <<call, late, world>>

Unset == [set |-> FALSE, services |-> <<>>, err |-> FALSE]

NoOutcome == [services |-> <<>>, warnings |-> <<>>, error |-> "none"]

-----------------------------------------------------------------------------
(***************************************************************************)
(* config.validate.                                                        *)
(***************************************************************************)
validAddressSchemes == {"tcp", "unix", "ssh"}

\* addressScheme's canonical form: no user, no spelling.
Canonical(a) == IF a = NoAddress THEN a ELSE [scheme |-> a.scheme, host |-> a.host]

Valid(list) ==
  /\ list # <<>>
  /\ \A i \in DOMAIN list :
       LET h == list[i] IN
       /\ h.name # ""
       /\ h.address # NoAddress => h.address.scheme \in validAddressSchemes
       /\ h.tls # "none" => h.address # NoAddress /\ h.address.scheme = "tcp" /\ h.tls # "half"
       /\ \A j \in 1..(i - 1) :
            /\ Lower[list[j].name] # Lower[h.name]
            /\ Canonical(list[j].address) # Canonical(h.address)

\* The daemon at the other end; a unix socket is a local one.
Reached(a) ==
  IF a = NoAddress THEN EnvDaemon ELSE IF a.scheme = "unix" THEN "here" ELSE a.host

ASSUME AddressesAssumption ==
  \A list \in HostLists :
    Valid(list) => \A i \in DOMAIN list : Reached(list[i].address) \in Daemons

-----------------------------------------------------------------------------
(***************************************************************************)
(* Discover and ParseLabels.                                               *)
(***************************************************************************)
\* Source.ID: the host's name and the container's, never mixed up.
SourceID(hostName, c) == <<hostName, c.name>>

ParseLabels(hostName, c, ports) ==
  [id |-> SourceID(hostName, c),
   name |-> IF c.title = "" THEN c.name ELSE c.title,
   group |-> IF c.group = "" THEN "Other" ELSE c.group,
   url |-> lowestPort(ports)]

\* cmp.Compare orders whatever there is to order.
ASSUME OrdersAssumption ==
  /\ GroupOrder \in Seq(ToSet(GroupOrder))
  /\ NameOrder \in Seq(ToSet(NameOrder))
  /\ IdOrder \in Seq(ToSet(IdOrder))
  /\ \A list \in HostLists, cs \in Containers :
       Valid(list) =>
         \A i \in DOMAIN list, c \in {d \in cs : d.enable} :
           LET service == ParseLabels(list[i].name, c, <<>>) IN
           /\ service.group \in ToSet(GroupOrder)
           /\ service.name \in ToSet(NameOrder)
           /\ service.id \in ToSet(IdOrder)

\* Compared by group, then name, then id.
Before(a, b) ==
  LET At(order, x) == SelectInSeq(order, LAMBDA y : y = x)
      Less(order, x, y) == At(order, x) < At(order, y)
  IN  \/ Less(GroupOrder, a.group, b.group)
      \/ a.group = b.group /\ Less(NameOrder, a.name, b.name)
      \/ a.group = b.group /\ a.name = b.name /\ Less(IdOrder, a.id, b.id)

SortServices(services) ==
  CHOOSE sorted \in Rearrangements(services) :
    \A i, j \in DOMAIN sorted : i < j => ~Before(sorted[j], sorted[i])

\* The daemon filters by the label; the order of what it lists, and of each
\* container's ports, is its own business.
Discover(hostName, listed, portsOf) ==
  SortServices([i \in DOMAIN listed |-> ParseLabels(hostName, listed[i], portsOf[listed[i]])])

Listings(d) == SetToSeqs({c \in containers[d] : c.enable})

PortListings(listed) ==
  {f \in [ToSet(listed) -> UNION {SetToSeqs(c.ports) : c \in ToSet(listed)}] :
     \A c \in ToSet(listed) : ToSet(f[c]) = c.ports /\ Len(f[c]) = Cardinality(c.ports)}

-----------------------------------------------------------------------------
(***************************************************************************)
(* The goroutines.                                                         *)
(***************************************************************************)
Go(i, from, to) == g[i] = from /\ g' = [g EXCEPT ![i] = to]

Returns(i, services, err) ==
  result' = [result EXCEPT ![i] = [set |-> TRUE, services |-> services, err |-> err]]

OverSsh(i) == hosts[i].address # NoAddress /\ hosts[i].address.scheme = "ssh"

\* client.New does not dial: a client may fail to be made, never to connect.
Connect(i) ==
  /\ Go(i, "connect", "list")
  /\ UNCHANGED <<hosts, main, result, slots, wg, out, late, world>>

\* Mutant: a Done on the early return besides the deferred one.
ConnectFailsDoneTwice(i) ==
  /\ Go(i, "connect", "store")
  /\ Returns(i, <<>>, TRUE)
  /\ wg' = wg - 1
  /\ UNCHANGED <<hosts, main, slots, out, late, world>>

ConnectFails(i) ==
  /\ Go(i, "connect", "store")
  /\ Returns(i, <<>>, TRUE)
  /\ UNCHANGED <<hosts, main, slots, wg, out, late, world>>

List(i) ==
  LET d == Reached(hosts[i].address) IN
  /\ Go(i, "list", "close")
  /\ health[d] = "up"
  /\ \E listed \in Listings(d) : \E portsOf \in PortListings(listed) :
       Returns(i, Discover(hosts[i].name, listed, portsOf), FALSE)
  /\ UNCHANGED <<hosts, main, slots, wg, out, late, world>>

\* Mutant: no deadline.
ListFailsWithoutDeadline(i) ==
  /\ Go(i, "list", "close")
  /\ health[Reached(hosts[i].address)] = "refusing"
  /\ Returns(i, <<>>, TRUE)
  /\ UNCHANGED <<hosts, main, slots, wg, out, late, world>>

\* The daemon refuses, or the shared deadline ends the wait for its answer.
ListFails(i) ==
  /\ Go(i, "list", "close")
  /\ health[Reached(hosts[i].address)] = "refusing" \/ late
  /\ Returns(i, <<>>, TRUE)
  /\ UNCHANGED <<hosts, main, slots, wg, out, late, world>>

\* The connection is closed, by net/http or by the deferred client.Close().  Over ssh
\* that is commandConn's Close, or the failed Read before it: both stay in cmd.Wait,
\* which has no WaitDelay, until nobody holds ssh's stderr, deadline or no deadline.
Close(i) ==
  /\ Go(i, "close", "store")
  /\ i \notin children
  /\ UNCHANGED <<hosts, main, result, slots, wg, out, late, world>>

\* results[i] = ...: each goroutine has its own slot.
Store(i) ==
  /\ Go(i, "store", "done")
  /\ slots' = [slots EXCEPT ![i] = result[i]]
  /\ UNCHANGED <<hosts, main, result, wg, out, late, world>>

\* The deferred wg.Done().
Done(i) ==
  /\ Go(i, "done", "over")
  /\ wg' = wg - 1
  /\ UNCHANGED <<hosts, main, result, slots, out, late, world>>

Goroutine(i) ==
  \/ Connect(i) \/ ConnectFails(i) \/ List(i) \/ ListFails(i) \/ Close(i)
  \/ Store(i) \/ Done(i)

\* ssh, started when ContainerList dials, starts a ProxyCommand or the ssh -W of a
\* ProxyJump, which shares its stderr, ...
SshForks(i) ==
  /\ g[i] = "list" /\ OverSsh(i)
  /\ children' = children \cup {i}
  /\ UNCHANGED <<call, late, health, containers>>

\* ... and which may be there for as long as it likes.
ChildExits(i) ==
  /\ i \in children
  /\ children' = children \ {i}
  /\ UNCHANGED <<call, late, health, containers>>

-----------------------------------------------------------------------------
(***************************************************************************)
(* The command.                                                            *)
(***************************************************************************)
Init ==
  /\ hosts = <<>> /\ main = "idle" /\ g = <<>> /\ result = <<>> /\ slots = <<>>
  /\ wg = 0 /\ late = FALSE /\ out = NoOutcome
  /\ health \in [Daemons -> {"up", "refusing", "hung"}]
  /\ containers \in [Daemons -> Containers]
  /\ children = {}

\* config.Load, the deadline's start, and wg.Add(len(hosts)).
Load ==
  /\ main = "idle"
  /\ \E list \in HostLists :
       /\ Valid(list)
       /\ hosts' = list
       /\ g' = [i \in DOMAIN list |-> "none"]
       /\ result' = [i \in DOMAIN list |-> Unset]
       /\ slots' = [i \in DOMAIN list |-> Unset]
       /\ wg' = Len(list)
  /\ main' = "spawn" /\ late' = FALSE
  /\ UNCHANGED <<out, world>>

\* A configuration that does not validate ends the command.
LoadFails ==
  /\ main = "idle"
  /\ \E list \in HostLists : ~Valid(list)
  /\ main' = "done"
  /\ out' = [NoOutcome EXCEPT !.error = "config"]
  /\ UNCHANGED <<hosts, g, result, slots, wg, late, world>>

Spawn(i) ==
  /\ main = "spawn"
  /\ \A j \in 1..(i - 1) : g[j] # "none"
  /\ Go(i, "none", "connect")
  /\ UNCHANGED <<hosts, main, result, slots, wg, out, late, world>>

\* Mutant: the deadline ends the wait.
WaitUntilDeadline ==
  /\ main = "spawn"
  /\ wg = 0 \/ late
  /\ main' = "aggregate"
  /\ UNCHANGED <<hosts, g, result, slots, wg, out, late, world>>

\* wg.Wait() returns.
Wait ==
  /\ main = "spawn"
  /\ \A i \in DOMAIN hosts : g[i] # "none"
  /\ wg = 0
  /\ main' = "aggregate"
  /\ UNCHANGED <<hosts, g, result, slots, wg, out, late, world>>

\* Mutant: the first failure ends the loop.
aggregateUntilFailure(list, results) ==
  LET failed == {i \in DOMAIN list : results[i].err}
      upTo == IF failed = {} THEN Len(list) ELSE Min(failed) - 1
  IN  [services |-> SortServices(FlattenSeq([i \in 1..upTo |-> results[i].services])),
       warnings |-> IF failed = {} THEN <<>> ELSE <<list[Min(failed)].name>>,
       error |-> IF failed = DOMAIN list THEN "all" ELSE "none"]

\* Mutant: no sort after the flattening.
aggregateUnsorted(list, results) ==
  LET failed == Only([i \in DOMAIN list |-> i], {i \in DOMAIN list : results[i].err})
  IN  [services |-> FlattenSeq([i \in DOMAIN list |-> results[i].services]),
       warnings |-> [k \in DOMAIN failed |-> list[failed[k]].name],
       error |-> IF Len(failed) = Len(list) THEN "all" ELSE "none"]

\* Mutant: that every host failed is nothing special.
aggregateNoError(list, results) ==
  LET failed == Only([i \in DOMAIN list |-> i], {i \in DOMAIN list : results[i].err})
  IN  [services |-> SortServices(FlattenSeq([i \in DOMAIN list |-> results[i].services])),
       warnings |-> [k \in DOMAIN failed |-> list[failed[k]].name],
       error |-> "none"]

aggregateHostResults(list, results) ==
  LET failed   == Only([i \in DOMAIN list |-> i], {i \in DOMAIN list : results[i].err})
      warnings == [k \in DOMAIN failed |-> list[failed[k]].name]
      services == FlattenSeq([i \in DOMAIN list |->
                                IF results[i].err THEN <<>> ELSE results[i].services])
  IN  IF list # <<>> /\ Len(warnings) = Len(list)
      THEN [services |-> <<>>, warnings |-> warnings, error |-> "all"]
      ELSE [services |-> SortServices(services), warnings |-> warnings, error |-> "none"]

Aggregate ==
  /\ main = "aggregate"
  /\ out' = aggregateHostResults(hosts, slots)
  /\ main' = "done"
  /\ UNCHANGED <<hosts, g, result, slots, wg, late, world>>

\* The next command of the user, or of cron.
Again ==
  /\ main = "done"
  /\ main' = "idle"
  /\ hosts' = <<>> /\ g' = <<>> /\ result' = <<>> /\ slots' = <<>>
  /\ wg' = 0 /\ late' = FALSE /\ out' = NoOutcome
  /\ UNCHANGED world

\* dockerCallTimeout after the command began to discover.
DeadlinePasses ==
  /\ main = "spawn" /\ ~late
  /\ late' = TRUE
  /\ UNCHANGED <<call, world>>

HealthChanges ==
  /\ \E d \in Daemons, h \in {"up", "refusing", "hung"} : health' = [health EXCEPT ![d] = h]
  /\ UNCHANGED <<call, late, containers, children>>

ContainersChange ==
  /\ \E d \in Daemons, cs \in Containers : containers' = [containers EXCEPT ![d] = cs]
  /\ UNCHANGED <<call, late, health, children>>

Command == Load \/ LoadFails \/ (\E i \in DOMAIN hosts : Spawn(i)) \/ Wait \/ Aggregate

Next ==
  \/ Command
  \/ \E i \in DOMAIN hosts : Goroutine(i) \/ SshForks(i) \/ ChildExits(i)
  \/ DeadlinePasses \/ Again \/ HealthChanges \/ ContainersChange

\* The places a host may have in a list.
Places == 1..Max({Len(list) : list \in HostLists})

\* The Go scheduler runs every goroutine that can run, and timers fire.  Daemons and
\* the children of ssh owe us nothing.
Fairness ==
  /\ WF_vars(Command) /\ WF_vars(DeadlinePasses)
  /\ \A i \in Places : WF_vars(i \in DOMAIN hosts /\ Goroutine(i))

Spec == Init /\ [][Next]_vars /\ Fairness

-----------------------------------------------------------------------------
(***************************************************************************)
(* Properties.                                                             *)
(***************************************************************************)
TypeOK ==
  /\ main \in {"idle", "spawn", "aggregate", "done"}
  /\ hosts \in HostLists \cup {<<>>}
  /\ DOMAIN g = DOMAIN hosts /\ DOMAIN result = DOMAIN hosts /\ DOMAIN slots = DOMAIN hosts
  /\ \A i \in DOMAIN hosts :
       g[i] \in {"none", "connect", "list", "close", "store", "done", "over"}
  /\ children \subseteq {i \in DOMAIN hosts : g[i] \in {"list", "close"}}
  /\ wg \in 0..Len(hosts) /\ late \in BOOLEAN
  /\ out.error \in {"none", "config", "all"}
  /\ health \in [Daemons -> {"up", "refusing", "hung"}]
  /\ containers \in [Daemons -> Containers]

\* DiscoverAll, "waits - no shared mutable state beyond that": the results are read
\* only when every goroutine has put its own into its slot, whoever was first.
SlotsComplete == main = "aggregate" => \A i \in DOMAIN hosts : slots[i] = result[i] /\ result[i].set

\* aggregateHostResults: a host that failed is a warning and costs its own services
\* and nobody else's; only when all failed is there an error.
FailuresIsolated ==
  main = "done" /\ out.error # "config" =>
    LET answered == {i \in DOMAIN hosts : ~result[i].err} IN
    /\ out.error = "all" <=> answered = {}
    /\ ToSet(out.warnings) = {hosts[i].name : i \in DOMAIN hosts \ answered}
    /\ ToSet(out.services) = UNION {ToSet(result[i].services) : i \in answered}

\* SortServices, "one globally sorted order": what the renderers and the merge get
\* is in order and has no two services with the same id, whichever host was first.
InOrder ==
  \A i, j \in DOMAIN out.services :
    i < j => /\ Before(out.services[i], out.services[j])
             /\ out.services[i].id # out.services[j].id

\* The service a container stands for, said without any order.
Expected(hostName, c) ==
  LET public == {p.public : p \in {q \in c.ports : q.type = "tcp" /\ q.public # 0}}
  IN  [id |-> <<hostName, c.name>>,
       name |-> IF c.title = "" THEN c.name ELSE c.title,
       group |-> IF c.group = "" THEN "Other" ELSE c.group,
       url |-> IF public = {} THEN 0 ELSE Min(public)]

\* labels.go, "idempotency ... can't rest on an assumption the API never promised":
\* an answer is every enabled container, running or not, in an order and with a URL
\* that do not depend on the order in which the daemon lists containers and ports.
AnswersIgnoreListingOrder ==
  [][\A i \in DOMAIN hosts : List(i) =>
       LET services == result'[i].services
           here == {c \in containers[Reached(hosts[i].address)] : c.enable}
       IN  /\ ToSet(services) = {Expected(hosts[i].name, c) : c \in here}
           /\ \A j, k \in DOMAIN services : j < k => Before(services[j], services[k])]_vars

\* dockerCallTimeout: however many daemons hang, the command ends, as long as no child
\* of a host's ssh holds on to its stderr for ever.  If one does, wg.Wait waits for it.
CommandEnds ==
  (\A i \in Places : []<>(i \notin children)) => (main = "spawn" ~> main = "done")
==============================================================================
