-------------------------- MODULE DiscoveryProofs --------------------------
(***************************************************************************)
(* Proofs about module Discovery, for any number of hosts, daemons and     *)
(* containers, and about module Fleet, which puts it together with Merge.  *)
(*                                                                         *)
(* The command reads the results when the WaitGroup's counter is 0.  That  *)
(* every slot is filled then follows from what the counter counts: the     *)
(* goroutines that are not over, started or not.                           *)
(*                                                                         *)
(* What the results are follows from what one daemon can answer: the       *)
(* services of its enabled containers, whose ids bear the host's name, so  *)
(* that those of two hosts differ, and Before is a total order where ids   *)
(* differ.                                                                 *)
(*                                                                         *)
(* What a sync does to the file then follows from what MergeProofs says of *)
(* a merge: FleetInv says what there is in a result, and in the file, as   *)
(* long as no container changes.                                           *)
(***************************************************************************)
EXTENDS Fleet, ListProofs

Running == {i \in DOMAIN hosts : g[i] # "over"}

Counted == wg = Cardinality(Running)

\* What a goroutine has done at each of its lines.
Handed(i) ==
  /\ g[i] \in {"close", "store"} => result[i].set
  /\ g[i] \in {"done", "over"} => result[i].set /\ slots[i] = result[i]

SlotInv ==
  /\ Counted
  /\ \A i \in DOMAIN hosts : Handed(i)
  /\ main # "spawn" => Running = {}

IInv == TypeOK /\ SlotInv

-----------------------------------------------------------------------------
\* The hosts are the numbers from 1, so there are as many as the list is long.
LEMMA HostsFinite ==
  ASSUME TypeOK
  PROVE  /\ Len(hosts) \in Nat /\ DOMAIN hosts = 1 .. Len(hosts)
         /\ IsFiniteSet(DOMAIN hosts) /\ Cardinality(DOMAIN hosts) = Len(hosts)
<1>1. Len(hosts) \in Nat /\ DOMAIN hosts = 1 .. Len(hosts)
  BY DiscoveryAssumption DEF TypeOK
<1>. QED
  BY <1>1, CountTo, Zenon

\* The WaitGroup's counter never leaves its range.
LEMMA CountInRange ==
  ASSUME TypeOK
  PROVE  /\ IsFiniteSet(Running)
         /\ Cardinality(Running) \in 0 .. Len(hosts)
<1>1. Running \subseteq DOMAIN hosts
  BY DEF Running
<1>2. IsFiniteSet(Running) /\ Cardinality(Running) <= Len(hosts)
  BY <1>1, HostsFinite, FS_Subset
<1>3. Cardinality(Running) \in Nat
  BY <1>2, FS_CardinalityType
<1>. QED
  BY <1>2, <1>3, HostsFinite

\* Before the first command there is no host.
LEMMA InitIInv == Init => IInv
<1>. SUFFICES ASSUME Init PROVE IInv
  OBVIOUS
<1>0. DOMAIN hosts = {} /\ Len(hosts) = 0 /\ DOMAIN g = {} /\ DOMAIN result = {} /\ DOMAIN slots = {}
  BY DEF Init
<1>1. TypeOK
  <2>1. late \in BOOLEAN
    BY Zenon DEF Init
  <2>. QED
    BY <1>0, <2>1 DEF Init, TypeOK, NoOutcome
<1>2. Running = {}
  BY <1>0 DEF Running
<1>3. SlotInv
  BY <1>0, <1>2, FS_EmptySet DEF Init, SlotInv, Counted
<1>. QED
  BY <1>1, <1>3 DEF IInv

\* A goroutine that moves and is not over before or after is still counted.
LEMMA StillRunning ==
  ASSUME TypeOK, NEW i \in DOMAIN hosts, NEW from, NEW to, Go(i, from, to),
         from # "over", to # "over", hosts' = hosts
  PROVE  Running' = Running
BY DEF Running, Go, TypeOK

\* A step of one goroutine keeps the invariant.
LEMMA GoroutineStep ==
  ASSUME IInv, NEW i \in DOMAIN hosts, Goroutine(i)
  PROVE  IInv'
<1>. USE DEF IInv
<1>0. /\ hosts' = hosts /\ main' = main /\ out' = out /\ late' = late
      /\ health' = health /\ containers' = containers /\ children' = children
  BY DEF Goroutine, Connect, ConnectFails, List, ListFails, Close, Store, Done, world
<1>1. g[i] # "over"
  BY DEF Goroutine, Connect, ConnectFails, List, ListFails, Close, Store, Done, Go
<1>2. main = "spawn"
  BY <1>1 DEF SlotInv, Running
<1>3. DOMAIN g' = DOMAIN hosts /\ DOMAIN result' = DOMAIN hosts /\ DOMAIN slots' = DOMAIN hosts
  BY DEF Goroutine, Connect, ConnectFails, List, ListFails, Close, Store, Done, Go, Returns, TypeOK
<1>4. \A j \in DOMAIN hosts : g'[j] \in {"none", "connect", "list", "close", "store", "done", "over"}
  BY DEF Goroutine, Connect, ConnectFails, List, ListFails, Close, Store, Done, Go, TypeOK
<1>5. \A j \in DOMAIN hosts : Handed(j)'
  <2>. SUFFICES ASSUME NEW j \in DOMAIN hosts PROVE Handed(j)'
    OBVIOUS
  <2>0. Handed(j) /\ Handed(i) /\ i \in DOMAIN g /\ i \in DOMAIN result /\ i \in DOMAIN slots
    BY DEF SlotInv, TypeOK
  <2>1. CASE Connect(i)
    BY <2>0, <2>1 DEF Connect, Go, Handed, TypeOK
  <2>2. CASE ConnectFails(i)
    BY <2>0, <2>2 DEF ConnectFails, Go, Returns, Handed, TypeOK
  <2>3. CASE List(i)
    <3>1. PICK services : Returns(i, services, FALSE)
      BY <2>3 DEF List
    <3>. QED
      BY <2>0, <2>3, <3>1 DEF List, Go, Returns, Handed, TypeOK
  <2>4. CASE ListFails(i)
    BY <2>0, <2>4 DEF ListFails, Go, Returns, Handed, TypeOK
  <2>5. CASE Close(i)
    BY <2>0, <2>5 DEF Close, Go, Handed, TypeOK
  <2>6. CASE Store(i)
    BY <2>0, <2>6 DEF Store, Go, Handed, TypeOK
  <2>7. CASE Done(i)
    BY <2>0, <2>7 DEF Done, Go, Handed, TypeOK
  <2>. QED
    BY <2>1, <2>2, <2>3, <2>4, <2>5, <2>6, <2>7 DEF Goroutine
<1>6. Counted'
  <2>1. CASE Done(i)
    <3>1. Running' = Running \ {i}
      BY <1>0, <2>1 DEF Done, Go, Running, TypeOK
    <3>2. i \in Running
      BY <1>1 DEF Running
    <3>. QED
      BY <2>1, <3>1, <3>2, CountInRange, FS_RemoveElement DEF Done, SlotInv, Counted
  <2>2. CASE ~Done(i)
    <3>1. Running' = Running
      BY <1>0, <2>2, StillRunning DEF Goroutine, Connect, ConnectFails, List, ListFails, Close, Store
    <3>2. wg' = wg
      BY <2>2 DEF Goroutine, Connect, ConnectFails, List, ListFails, Close, Store
    <3>. QED
      BY <3>1, <3>2 DEF SlotInv, Counted
  <2>. QED
    BY <2>1, <2>2
<1>7. wg' \in 0 .. Len(hosts)
  <2>1. Running' \subseteq DOMAIN hosts
    BY <1>0 DEF Running
  <2>2. IsFiniteSet(Running') /\ Cardinality(Running') <= Len(hosts)
    BY <2>1, HostsFinite, FS_Subset
  <2>3. Cardinality(Running') \in Nat
    BY <2>2, FS_CardinalityType
  <2>. QED
    BY <1>6, <2>2, <2>3, HostsFinite DEF Counted
<1>8. \A j \in children : j \in DOMAIN hosts /\ g'[j] \in {"list", "close"}
  <2>. SUFFICES ASSUME NEW j \in children PROVE j \in DOMAIN hosts /\ g'[j] \in {"list", "close"}
    OBVIOUS
  <2>1. j \in DOMAIN hosts /\ g[j] \in {"list", "close"} /\ DOMAIN g = DOMAIN hosts
    BY DEF TypeOK
  <2>2. CASE j # i
    <3>1. g'[j] = g[j]
      BY <2>1, <2>2 DEF Goroutine, Connect, ConnectFails, List, ListFails, Close, Store, Done, Go
    <3>. QED
      BY <2>1, <3>1
  <2>3. CASE j = i
    <3>1. List(i) \/ ListFails(i)
      BY <2>1, <2>3 DEF Goroutine, Connect, ConnectFails, Close, Store, Done, Go
    <3>. QED
      BY <2>1, <2>3, <3>1 DEF List, ListFails, Go
  <2>. QED
    BY <2>2, <2>3
<1>9. TypeOK'
  BY <1>0, <1>3, <1>4, <1>7, <1>8 DEF TypeOK
<1>. QED
  BY <1>0, <1>2, <1>5, <1>6, <1>9 DEF SlotInv

\* Where nobody is running, no ssh has a child.
LEMMA NoChildren ==
  ASSUME IInv, main # "spawn"
  PROVE  children = {}
<1>1. \A i \in children : i \in Running
  BY DEF IInv, TypeOK, Running
<1>. QED
  BY <1>1 DEF IInv, SlotInv

\* Starting the goroutines: one slot and one count for each host.
LEMMA LoadStep ==
  ASSUME IInv, Load
  PROVE  IInv'
<1>1. PICK list \in HostLists :
        /\ hosts' = list
        /\ g' = [i \in DOMAIN list |-> "none"]
        /\ result' = [i \in DOMAIN list |-> Unset]
        /\ slots' = [i \in DOMAIN list |-> Unset]
        /\ wg' = Len(list)
  BY DEF Load
<1>2. Len(list) \in Nat /\ DOMAIN list = 1 .. Len(list)
  BY DiscoveryAssumption
<1>3. Running' = 1 .. Len(list)
  BY <1>1, <1>2 DEF Running
<1>4. Counted'
  BY <1>1, <1>2, <1>3, CountTo, Zenon DEF Counted
<1>5. TypeOK'
  <2>1. late' \in BOOLEAN
    BY Zenon DEF Load
  <2>2. /\ DOMAIN g' = DOMAIN hosts' /\ DOMAIN result' = DOMAIN hosts'
        /\ DOMAIN slots' = DOMAIN hosts'
        /\ \A i \in DOMAIN hosts' : g'[i] = "none"
    BY <1>1
  <2>3. hosts' \in HostLists /\ wg' \in 0 .. Len(hosts')
    BY <1>1, <1>2
  <2>4. /\ main' = "spawn" /\ out' = out
        /\ health' = health /\ containers' = containers /\ children' = {}
    BY NoChildren DEF Load, world
  <2>. QED
    BY <2>1, <2>2, <2>3, <2>4 DEF IInv, TypeOK
<1>. QED
  BY <1>1, <1>4, <1>5 DEF Load, IInv, SlotInv, Handed

\* Every step keeps the invariant.
LEMMA StepIInv == IInv /\ [Next]_vars => IInv'
<1>. SUFFICES ASSUME IInv, [Next]_vars PROVE IInv'
  OBVIOUS
<1>. USE DEF IInv
<1>1. CASE UNCHANGED vars
  BY <1>1 DEF vars, call, world, TypeOK, SlotInv, Counted, Running, Handed
<1>2. CASE \E i \in DOMAIN hosts : Goroutine(i)
  BY <1>2, GoroutineStep
<1>3. CASE Load
  BY <1>3, LoadStep
<1>4. CASE LoadFails
  BY <1>4 DEF LoadFails, NoOutcome, world, TypeOK, SlotInv, Counted, Running, Handed
<1>5. CASE \E i \in DOMAIN hosts : Spawn(i)
  <2>1. PICK i \in DOMAIN hosts : Spawn(i)
    BY <1>5
  <2>2. Running' = Running
    BY <2>1, StillRunning DEF Spawn
  <2>3. TypeOK'
    BY <2>1 DEF Spawn, Go, world, TypeOK
  <2>4. \A j \in DOMAIN hosts : Handed(j)'
    BY <2>1 DEF Spawn, Go, TypeOK, SlotInv, Handed
  <2>. QED
    BY <2>1, <2>2, <2>3, <2>4 DEF Spawn, SlotInv, Counted
<1>6. CASE Wait
  <2>1. Running' = Running
    BY <1>6 DEF Wait, Running
  <2>2. Running = {}
    BY <1>6, CountInRange, FS_EmptySet DEF Wait, SlotInv, Counted
  <2>3. TypeOK'
    BY <1>6 DEF Wait, world, TypeOK
  <2>. QED
    BY <1>6, <2>1, <2>2, <2>3 DEF Wait, SlotInv, Counted, Handed
<1>7. CASE Aggregate
  <2>1. out'.error \in {"none", "all"}
    BY <1>7 DEF Aggregate, aggregateHostResults
  <2>2. TypeOK'
    BY <1>7, <2>1 DEF Aggregate, world, TypeOK
  <2>. QED
    BY <1>7, <2>2 DEF Aggregate, SlotInv, Counted, Running, Handed
<1>8. CASE Again
  <2>1. DOMAIN hosts' = {} /\ Len(hosts') = 0 /\ DOMAIN g' = {} /\ DOMAIN result' = {} /\ DOMAIN slots' = {}
    BY <1>8 DEF Again
  <2>2. Running' = {}
    BY <2>1 DEF Running
  <2>3. TypeOK'
    <3>1. late' \in BOOLEAN
      BY <1>8, Zenon DEF Again
    <3>2. /\ main' = "idle" /\ hosts' = <<>> /\ wg' = 0 /\ out'.error = "none"
          /\ health' = health /\ containers' = containers /\ children' = {}
      BY <1>8, NoChildren DEF Again, NoOutcome, world
    <3>. QED
      BY <2>1, <3>1, <3>2 DEF TypeOK
  <2>. QED
    BY <1>8, <2>1, <2>2, <2>3, FS_EmptySet DEF Again, SlotInv, Counted
<1>9. CASE DeadlinePasses \/ HealthChanges \/ ContainersChange
  <2>1. UNCHANGED <<hosts, main, g, result, slots, wg, out, children>>
    BY <1>9 DEF DeadlinePasses, HealthChanges, ContainersChange, call, world
  <2>2. SlotInv'
    BY <2>1 DEF SlotInv, Counted, Running, Handed
  <2>3. late' \in BOOLEAN
    BY <1>9, Zenon DEF DeadlinePasses, HealthChanges, ContainersChange, TypeOK
  <2>4. health' \in [Daemons -> {"up", "refusing", "hung"}]
    BY <1>9 DEF DeadlinePasses, HealthChanges, ContainersChange, world, TypeOK
  <2>5. containers' \in [Daemons -> Containers]
    BY <1>9 DEF DeadlinePasses, HealthChanges, ContainersChange, world, TypeOK
  <2>. QED
    BY <2>1, <2>2, <2>3, <2>4, <2>5 DEF TypeOK
<1>10. ASSUME NEW i \in DOMAIN hosts, SshForks(i) \/ ChildExits(i)
       PROVE  IInv'
  <2>1. UNCHANGED <<hosts, main, g, result, slots, wg, out, late, health, containers>>
    BY <1>10 DEF SshForks, ChildExits, call
  <2>2. SlotInv'
    BY <2>1 DEF SlotInv, Counted, Running, Handed
  <2>3. \A j \in children' : j \in DOMAIN hosts /\ g[j] \in {"list", "close"}
    BY <1>10 DEF SshForks, ChildExits, TypeOK
  <2>. QED
    BY <2>1, <2>2, <2>3 DEF TypeOK
<1>. QED
  BY <1>1, <1>2, <1>3, <1>4, <1>5, <1>6, <1>7, <1>8, <1>9, <1>10 DEF Next, Command

\* Discovery's inductive invariant.
THEOREM Inductive == Spec => []IInv
BY InitIInv, StepIInv, PTL DEF Spec

\* Discovery keeps its types; the WaitGroup's counter is never negative.
THEOREM TypeCorrect == Spec => []TypeOK
BY Inductive, PTL DEF IInv

\* wg.Wait: however many hosts there are and however their goroutines are
\* scheduled, the results are read when all of them are in their slots
\* (discoverAll).
THEOREM AllSlotsFilled == Spec => []SlotsComplete
<1>1. IInv => SlotsComplete
  BY DEF IInv, TypeOK, SlotInv, Running, Handed, SlotsComplete
<1>. QED
  BY <1>1, Inductive, PTL

-----------------------------------------------------------------------------
(***************************************************************************)
(* What the answers are, and what becomes of them.                         *)
(***************************************************************************)
\* A service that the orders know.
Listable ==
  [id : ToSet(IdOrder), name : ToSet(NameOrder), group : ToSet(GroupOrder), url : Nat]

\* Pairs in order, and pairs with two ids.
Ordered == {p \in Listable \X Listable : Before(p[1], p[2])}
Distinct == {p \in Listable \X Listable : p[1].id # p[2].id}

Rank(order, x) == SelectInSeq(order, LAMBDA y : y = x)

-----------------------------------------------------------------------------
(***************************************************************************)
(* The order of the services.                                              *)
(***************************************************************************)
\* What is in an order has a place of its own in it.
LEMMA RankInOrder ==
  ASSUME NEW S, NEW order \in Seq(S), NEW x
  PROVE  Rank(order, x) \in Nat /\ (x \in ToSet(order) => order[Rank(order, x)] = x)
<1> DEFINE T == {k \in 1 .. Len(order) : order[k] = x}
<1>1. Rank(order, x) = IF T # {} THEN Min(T) ELSE 0
  BY DEF Rank, SelectInSeq
<1>2. Len(order) \in Nat /\ DOMAIN order = 1 .. Len(order)  OBVIOUS
<1>3. T # {} => Min(T) \in T
  <2>1. T \in SUBSET Nat  OBVIOUS
  <2> HIDE DEF T
  <2>2. QED  BY <2>1, MinOfSome
<1>4. x \in ToSet(order) => T # {}  BY <1>2 DEF ToSet
<1>5. QED  BY <1>1, <1>3, <1>4

\* Before, said with the places.
LEMMA BeforeByRank ==
  ASSUME NEW a, NEW b
  PROVE  Before(a, b) <=>
           \/ Rank(GroupOrder, a.group) < Rank(GroupOrder, b.group)
           \/ a.group = b.group /\ Rank(NameOrder, a.name) < Rank(NameOrder, b.name)
           \/ a.group = b.group /\ a.name = b.name /\ Rank(IdOrder, a.id) < Rank(IdOrder, b.id)
BY DEF Before, Rank

\* Before orders the services whose ids differ.
LEMMA BeforeOrders ==
  ASSUME NEW a \in Listable, NEW b \in Listable, NEW c \in Listable
  PROVE  /\ ~Before(a, a)
         /\ a.id # b.id => Before(a, b) \/ Before(b, a)
         /\ Before(a, b) => ~Before(b, a)
         /\ Before(a, b) /\ Before(b, c) => Before(a, c)
<1>1. ASSUME NEW x \in Listable
      PROVE  /\ Rank(GroupOrder, x.group) \in Nat /\ GroupOrder[Rank(GroupOrder, x.group)] = x.group
             /\ Rank(NameOrder, x.name) \in Nat /\ NameOrder[Rank(NameOrder, x.name)] = x.name
             /\ Rank(IdOrder, x.id) \in Nat /\ IdOrder[Rank(IdOrder, x.id)] = x.id
  <2>1. x.group \in ToSet(GroupOrder) /\ x.name \in ToSet(NameOrder) /\ x.id \in ToSet(IdOrder)
    BY DEF Listable
  <2>2. QED  BY <2>1, OrdersAssumption, RankInOrder
<1>2. QED  BY <1>1, BeforeByRank

\* Sorting services puts them in order and changes none, whatever order they were in.
LEMMA Sorted ==
  ASSUME NEW s \in Seq(Listable), \A i, j \in DOMAIN s : i # j => s[i].id # s[j].id,
         NEW t, t = SortServices(s)
  PROVE  /\ t \in Seq(Listable) /\ ToSet(t) = ToSet(s)
         /\ \A i, j \in DOMAIN t : i # j => t[i].id # t[j].id
         /\ \A i, j \in DOMAIN t : i < j => Before(t[i], t[j])
<1> DEFINE R == {p \in (DOMAIN s) \X (DOMAIN s) : <<s[p[1]], s[p[2]]>> \in Ordered}
           U == DOMAIN s
           InOrd(u) == \A i, j \in DOMAIN u : i < j => ~Before(u[j], u[i])
<1>1. \A i \in U : s[i] \in Listable  OBVIOUS
<1>2. \A i, j \in U : <<i, j>> \in R <=> Before(s[i], s[j])  BY <1>1 DEF Ordered
<1>3. TotalOrder(R, U)
  <2> HIDE DEF R, U
  <2>1. \A i \in U : <<i, i>> \notin R  BY <1>1, <1>2, BeforeOrders
  <2>2. \A i, j \in U : i = j \/ <<i, j>> \in R \/ <<j, i>> \in R
    BY <1>1, <1>2, BeforeOrders DEF U
  <2>3. \A i, j, k \in U : <<i, j>> \in R /\ <<j, k>> \in R => <<i, k>> \in R
    BY <1>1, <1>2, BeforeOrders
  <2>4. QED  BY <2>1, <2>2, <2>3 DEF TotalOrder
<1>4. PICK u \in Rearrangements(s) : Apart(u, Ordered)
  BY <1>3, Sortable
<1> HIDE DEF R, U
<1>5. InOrd(u)
  <2> SUFFICES ASSUME NEW i \in DOMAIN u, NEW j \in DOMAIN u, i < j PROVE ~Before(u[j], u[i])
    OBVIOUS
  <2>1. <<u[i], u[j]>> \in Ordered  BY <1>4 DEF Apart
  <2>2. u[i] \in Listable /\ u[j] \in Listable /\ Before(u[i], u[j])  BY <2>1 DEF Ordered
  <2>3. QED  BY <2>2, BeforeOrders
<1>6. t \in Rearrangements(s) /\ InOrd(t)
  <2>1. t = CHOOSE v \in Rearrangements(s) : InOrd(v)  BY DEF SortServices
  <2> HIDE DEF InOrd
  <2>2. QED  BY <1>4, <1>5, <2>1
<1>7. /\ t \in Seq(Listable) /\ ToSet(t) = ToSet(s)
      /\ \A i, j \in DOMAIN t : i # j => \E k, l \in DOMAIN s : k # l /\ t[i] = s[k] /\ t[j] = s[l]
  BY <1>6, Rearranged
<1>8. \A i, j \in DOMAIN t : i # j => t[i].id # t[j].id  BY <1>7
<1>9. ASSUME NEW i \in DOMAIN t, NEW j \in DOMAIN t, i < j PROVE Before(t[i], t[j])
  <2>1. i # j /\ t[i] \in Listable /\ t[j] \in Listable  BY <1>7, <1>9
  <2>2. t[i].id # t[j].id /\ ~Before(t[j], t[i])  BY <1>6, <1>8, <1>9, <2>1
  <2>3. QED  BY <2>1, <2>2, BeforeOrders
<1>10. QED  BY <1>7, <1>8, <1>9

-----------------------------------------------------------------------------
(***************************************************************************)
(* One daemon's answer.                                                    *)
(***************************************************************************)
\* What may be listed of one host: services that bear its name, no id twice.
Answers(name) ==
  {s \in Seq(Listable) :
     /\ \A i \in DOMAIN s : s[i].id[1] = name
     /\ \A i, j \in DOMAIN s : i # j => s[i].id # s[j].id}

\* Discover returns the services of the enabled containers, in order, whatever
\* the order of the containers and of their ports.
LEMMA Answered ==
  ASSUME NEW list \in HostLists, Valid(list), NEW i \in DOMAIN list, NEW cs \in Containers,
         NEW here, here = {c \in cs : c.enable},
         NEW listed \in SetToSeqs(here), NEW portsOf \in PortListings(listed),
         NEW services, services = Discover(list[i].name, listed, portsOf)
  PROVE  /\ services \in Answers(list[i].name)
         /\ ToSet(services) = {Expected(list[i].name, c) : c \in here}
         /\ \A j, k \in DOMAIN services : j < k => Before(services[j], services[k])
<1> DEFINE name == list[i].name
           n == Cardinality(here)
           raw == [k \in DOMAIN listed |-> ParseLabels(name, listed[k], portsOf[listed[k]])]
<1>1. IsFiniteSet(here)
  BY DiscoveryAssumption, FS_Subset
<1>2. n \in Nat  BY <1>1, FS_CardinalityType
<1>3. listed \in [1 .. n -> here] /\ \A j, k \in 1 .. n : j # k => listed[j] # listed[k]
  BY DEF SetToSeqs
<1>4. \A c \in here : \E k \in 1 .. n : listed[k] = c
  <2> HIDE DEF n
  <2>1. listed \in Injection(1 .. n, here)
    BY <1>3 DEF Injection, IsInjective
  <2>2. IsFiniteSet(1 .. n) /\ Cardinality(1 .. n) = n  BY <1>2, CountTo
  <2>3. listed \in Surjection(1 .. n, here)
    BY <1>1, <2>1, <2>2, FS_Injection DEF n
  <2>4. QED  BY <2>3 DEF Surjection
<1>5. ToSet(listed) = here /\ DOMAIN listed = 1 .. n
  BY <1>3, <1>4 DEF ToSet
<1> HIDE DEF n
<1>6. ASSUME NEW c \in here
      PROVE  /\ ParseLabels(name, c, portsOf[c]) = Expected(name, c)
             /\ Expected(name, c) \in Listable
  <2>1. c \in cs /\ c.enable /\ \A p \in c.ports : p.public \in Nat
    BY DiscoveryAssumption
  <2>2. ToSet(portsOf[c]) = c.ports /\ Len(portsOf[c]) = Cardinality(c.ports)
        /\ \E d \in here : portsOf[c] \in SetToSeqs(d.ports)
    BY <1>5 DEF PortListings
  <2> DEFINE ports == portsOf[c]
  <2>3. ports \in Seq(c.ports)
    <3>1. PICK d \in here : ports \in SetToSeqs(d.ports)  BY <2>2
    <3>2. IsFiniteSet(d.ports)  BY DiscoveryAssumption
    <3>3. Cardinality(d.ports) \in Nat  BY <3>2, FS_CardinalityType
    <3>4. ports \in [1 .. Cardinality(d.ports) -> d.ports]  BY <3>1 DEF SetToSeqs
    <3>5. ports \in Seq(d.ports)  BY <3>3, <3>4
    <3> HIDE DEF ports
    <3>6. Len(ports) \in Nat /\ DOMAIN ports = 1 .. Len(ports)  BY <3>5
    <3>7. \A k \in 1 .. Len(ports) : ports[k] \in c.ports  BY <2>2, <3>6 DEF ToSet, ports
    <3>8. ports = [k \in 1 .. Len(ports) |-> ports[k]]  BY <3>5
    <3>9. ports \in [1 .. Len(ports) -> c.ports]  BY <3>7, <3>8
    <3>10. QED  BY <3>6, <3>9
  <2>4. /\ lowestPort(ports) \in Nat
        /\ lowestPort(ports) =
             IF Published(c.ports) = {} THEN 0 ELSE Min(Published(c.ports))
    BY <2>1, <2>2, <2>3, LowestPort
  <2> DEFINE service == ParseLabels(name, c, <<>>)
  <2>5. /\ service.group \in ToSet(GroupOrder)
        /\ service.name \in ToSet(NameOrder)
        /\ service.id \in ToSet(IdOrder)
    BY <2>1, OrdersAssumption
  <2>6. ParseLabels(name, c, ports) = Expected(name, c)
    BY <2>4 DEF ParseLabels, Expected, SourceID, Published
  <2> DEFINE e == ParseLabels(name, c, ports)
  <2>7. /\ e.group = service.group /\ e.name = service.name /\ e.id = service.id
        /\ e.url = lowestPort(ports)
        /\ e = [id |-> e.id, name |-> e.name, group |-> e.group, url |-> e.url]
    BY DEF ParseLabels
  <2> HIDE DEF service, ports, e
  <2>8. e \in Listable
    BY <2>4, <2>5, <2>7 DEF Listable
  <2>9. QED  BY <2>6, <2>8 DEF ports, e
<1>7. DOMAIN raw = 1 .. n /\ \A k \in 1 .. n : listed[k] \in here /\ raw[k] = Expected(name, listed[k])
  BY <1>3, <1>5, <1>6
<1>8. services = SortServices(raw)  BY DEF Discover
<1>9. raw \in Seq(Listable)
  <2>1. raw = [k \in 1 .. n |-> raw[k]]  BY <1>5
  <2> HIDE DEF raw
  <2>2. \A k \in 1 .. n : raw[k] \in Listable  BY <1>6, <1>7
  <2>3. raw \in [1 .. n -> Listable]  BY <2>1, <2>2
  <2>4. QED  BY <1>2, <2>3
<1> HIDE DEF raw
<1>10. \A c \in here : Expected(name, c).id = <<name, c.name>>  BY DEF Expected
<1>11. \A j, k \in DOMAIN raw : j # k => raw[j].id # raw[k].id
  <2> SUFFICES ASSUME NEW j \in 1 .. n, NEW k \in 1 .. n, j # k PROVE raw[j].id # raw[k].id
    BY <1>7
  <2>1. listed[j] # listed[k] /\ listed[j] \in cs /\ listed[k] \in cs  BY <1>3, <1>7
  <2>2. listed[j].name # listed[k].name  BY <2>1, DiscoveryAssumption
  <2>3. QED  BY <1>7, <1>10, <2>2
<1>12. ToSet(raw) = {Expected(name, c) : c \in here}
  <2>1. ASSUME NEW x \in ToSet(raw) PROVE x \in {Expected(name, c) : c \in here}
    <3>1. PICK k \in 1 .. n : x = raw[k]  BY <1>7 DEF ToSet
    <3>2. QED  BY <1>7, <3>1
  <2>2. ASSUME NEW c \in here PROVE Expected(name, c) \in ToSet(raw)
    <3>1. PICK k \in 1 .. n : listed[k] = c  BY <1>4 DEF n
    <3>2. raw[k] = Expected(name, c)  BY <1>7, <3>1
    <3>3. QED  BY <1>7, <3>2 DEF ToSet
  <2>3. QED  BY <2>1, <2>2
<1>13. /\ services \in Seq(Listable) /\ ToSet(services) = ToSet(raw)
       /\ \A j, k \in DOMAIN services : j # k => services[j].id # services[k].id
       /\ \A j, k \in DOMAIN services : j < k => Before(services[j], services[k])
  BY <1>8, <1>9, <1>11, Sorted
<1>14. \A k \in DOMAIN services : services[k].id[1] = name
  <2> SUFFICES ASSUME NEW k \in DOMAIN services PROVE services[k].id[1] = name  OBVIOUS
  <2>1. services[k] \in {Expected(name, c) : c \in here}  BY <1>12, <1>13 DEF ToSet
  <2>2. QED  BY <1>10, <2>1
<1>15. services \in Answers(name)  BY <1>13, <1>14 DEF Answers
<1>16. QED  BY <1>12, <1>13, <1>15

-----------------------------------------------------------------------------
(***************************************************************************)
(* All the answers together.                                               *)
(***************************************************************************)
\* The services of the hosts that answered, in order, and a warning for each of the
\* others.
RightOutcome(list, results, it) ==
  LET answered == {i \in DOMAIN list : ~results[i].err} IN
  /\ it.error = "all" <=> answered = {}
  /\ ToSet(it.warnings) = {list[i].name : i \in DOMAIN list \ answered}
  /\ it.services \in Seq(Listable)
  /\ ToSet(it.services) = UNION {ToSet(results[i].services) : i \in answered}
  /\ \A i, j \in DOMAIN it.services :
       i < j => /\ Before(it.services[i], it.services[j])
                /\ it.services[i].id # it.services[j].id

\* That is what aggregateHostResults returns.
LEMMA Aggregated ==
  ASSUME NEW list \in HostLists, Valid(list), NEW results,
         \A i \in DOMAIN list : ~results[i].err => results[i].services \in Answers(list[i].name)
  PROVE  RightOutcome(list, results, aggregateHostResults(list, results))
<1> DEFINE it == aggregateHostResults(list, results)
           answered == {i \in DOMAIN list : ~results[i].err}
           hs == DOMAIN list
           failures == {i \in hs : results[i].err}
           all == [i \in hs |-> i]
           failed == Only(all, failures)
           warned == [k \in DOMAIN failed |-> list[failed[k]].name]
           parts == [i \in hs |-> IF results[i].err THEN <<>> ELSE results[i].services]
           joined == FlattenSeq(parts)
           sorted == SortServices(joined)
<1>1. /\ Len(list) \in Nat /\ hs = 1 .. Len(list) /\ list # <<>>
      /\ \A i, j \in hs : i < j => list[i].name # list[j].name
  <2>1. Len(list) \in Nat /\ hs = 1 .. Len(list) /\ list # <<>>
    BY DiscoveryAssumption DEF Valid
  <2>2. \A j \in hs : \A i \in 1 .. (j - 1) : Lower[list[i].name] # Lower[list[j].name]
    BY DEF Valid
  <2>3. \A i, j \in hs : i < j => i \in 1 .. (j - 1)  BY <2>1
  <2>4. QED  BY <2>1, <2>2, <2>3
<1>2. /\ failures = hs \ answered /\ answered \subseteq hs
      /\ \A i \in hs : i \in answered <=> ~results[i].err
  OBVIOUS
<1>3. it = IF list # <<>> /\ Len(warned) = Len(list)
           THEN [services |-> <<>>, warnings |-> warned, error |-> "all"]
           ELSE [services |-> sorted, warnings |-> warned, error |-> "none"]
  BY DEF aggregateHostResults
<1> HIDE DEF it
<1>4. all \in Seq(hs) /\ Len(all) = Len(list) /\ ToSet(all) = hs /\ Len(list) # 0
  <2>1. all \in [1 .. Len(list) -> hs]  BY <1>1
  <2>2. all \in Seq(hs) /\ Len(all) = Len(list)  BY <1>1, <2>1
  <2>3. ToSet(all) = hs  BY DEF ToSet
  <2>4. Len(list) # 0  
    <3> SUFFICES ASSUME hs = {} PROVE FALSE  BY <1>1
    <3>1. QED  BY <1>1
  <2>5. QED  BY <2>2, <2>3, <2>4
<1>5. /\ failed \in Seq(hs) /\ ToSet(failed) = failures /\ Len(failed) \in Nat
      /\ Len(failed) = Len(list) <=> answered = {}
  <2> HIDE DEF all, failures, hs
  <2>1. failed \in Seq(hs)  BY <1>4, OnlyTypes
  <2>2. /\ ToSet(failed) = hs \cap failures
        /\ Len(failed) = Len(list) => hs \subseteq failures
        /\ hs \subseteq failures => failed = all
    BY <1>4, OnlyElements
  <2>3. QED  BY <1>2, <1>4, <2>1, <2>2
<1>6. /\ Len(warned) = Len(failed)
      /\ ToSet(warned) = {list[i].name : i \in hs \ answered}
  <2>1. DOMAIN failed = 1 .. Len(failed) /\ \A i \in hs \ answered : \E k \in DOMAIN failed : failed[k] = i
    <3> HIDE DEF failed, hs
    <3>1. \A i \in ToSet(failed) : \E k \in DOMAIN failed : failed[k] = i  BY DEF ToSet
    <3>2. QED  BY <1>2, <1>5, <3>1
  <2>2. \A k \in DOMAIN failed : failed[k] \in hs \ answered  BY <1>2, <1>5 DEF ToSet
  <2> HIDE DEF failed, hs
  <2>3. Len(warned) = Len(failed)  BY <1>5, <2>1
  <2>4. ToSet(warned) = {list[i].name : i \in hs \ answered}  BY <2>1, <2>2 DEF ToSet
  <2>5. QED  BY <2>3, <2>4
<1>7. /\ joined \in Seq(Listable)
      /\ ToSet(joined) = UNION {ToSet(results[i].services) : i \in answered}
      /\ Apart(joined, Distinct)
  <2>1. /\ DOMAIN parts = hs
        /\ \A i \in hs : parts[i] = IF i \in answered THEN results[i].services ELSE <<>>
    OBVIOUS
  <2>2. \A i \in hs : parts[i] \in Seq(Listable)  BY <1>2, <2>1 DEF Answers
  <2>3. parts \in Seq(Seq(Listable))
    <3>1. parts = [i \in 1 .. Len(list) |-> parts[i]]  BY <1>1
    <3> HIDE DEF parts
    <3>2. parts \in [1 .. Len(list) -> Seq(Listable)]  BY <1>1, <2>2, <3>1
    <3>3. QED  BY <1>1, <3>2
  <2> HIDE DEF parts
  <2>4. ASSUME NEW i \in hs PROVE Apart(parts[i], Distinct)
    <3>1. CASE i \in answered
      <4>1. parts[i] \in Answers(list[i].name)  BY <1>2, <2>1, <3>1
      <4>2. QED  BY <2>2, <4>1 DEF Apart, Answers, Distinct
    <3>2. CASE i \notin answered
      <4>1. parts[i] = <<>>  BY <2>1, <3>2
      <4>2. QED  BY <4>1 DEF Apart
    <3>3. QED  BY <3>1, <3>2
  <2>5. ASSUME NEW i \in hs, NEW x \in ToSet(parts[i])
        PROVE  i \in answered /\ x \in Listable /\ x.id[1] = list[i].name
    <3>1. i \in answered
      <4>1. CASE i \notin answered
        <5>1. parts[i] = <<>>  BY <2>1, <4>1
        <5>2. QED  BY <5>1 DEF ToSet
      <4>2. QED  BY <4>1
    <3>2. parts[i] \in Answers(list[i].name)  BY <1>2, <2>1, <3>1
    <3>3. QED  BY <2>2, <3>1, <3>2 DEF ToSet, Answers
  <2>6. ASSUME NEW i \in hs, NEW j \in hs, i < j, NEW x \in ToSet(parts[i]), NEW y \in ToSet(parts[j])
        PROVE  <<x, y>> \in Distinct
    <3>1. x.id[1] # y.id[1] /\ x \in Listable /\ y \in Listable  BY <1>1, <2>5, <2>6
    <3>2. QED  BY <3>1 DEF Distinct
  <2>7. /\ joined \in Seq(Listable)
        /\ ToSet(joined) = UNION {ToSet(parts[i]) : i \in hs}
        /\ Apart(joined, Distinct)
    <3> HIDE DEF hs
    <3>1. QED  BY <2>1, <2>3, <2>4, <2>6, FlattenElements
  <2> DEFINE union == UNION {ToSet(results[i].services) : i \in answered}
  <2>8. \A x : x \in UNION {ToSet(parts[i]) : i \in hs} <=> \E i \in hs : x \in ToSet(parts[i])
    OBVIOUS
  <2>9. \A x : x \in union <=> \E i \in answered : x \in ToSet(results[i].services)
    OBVIOUS
  <2>10. \A x : (\E i \in hs : x \in ToSet(parts[i])) <=> \E i \in answered : x \in ToSet(results[i].services)
    BY <1>2, <2>1, <2>5
  <2> HIDE DEF hs, union
  <2>11. UNION {ToSet(parts[i]) : i \in hs} = union  BY <2>8, <2>9, <2>10
  <2>12. QED  BY <2>7, <2>11 DEF union
<1> HIDE DEF failed, warned, joined
<1>8. /\ sorted \in Seq(Listable) /\ ToSet(sorted) = ToSet(joined)
      /\ \A i, j \in DOMAIN sorted : i < j => Before(sorted[i], sorted[j]) /\ sorted[i].id # sorted[j].id
  <2>1. \A i, j \in DOMAIN joined : i # j => joined[i].id # joined[j].id
    <3> SUFFICES ASSUME NEW i \in DOMAIN joined, NEW j \in DOMAIN joined, i < j
                 PROVE  joined[i].id # joined[j].id
      <4>1. \A i, j \in DOMAIN joined : i \in Int /\ j \in Int  BY <1>7
      <4>2. QED  BY <4>1
    <3>1. <<joined[i], joined[j]>> \in Distinct  BY <1>7 DEF Apart
    <3>2. QED  BY <3>1 DEF Distinct
  <2>2. /\ sorted \in Seq(Listable) /\ ToSet(sorted) = ToSet(joined)
        /\ \A i, j \in DOMAIN sorted : i # j => sorted[i].id # sorted[j].id
        /\ \A i, j \in DOMAIN sorted : i < j => Before(sorted[i], sorted[j])
    BY <1>7, <2>1, Sorted
  <2> HIDE DEF sorted
  <2>3. \A i, j \in DOMAIN sorted : i < j => i # j  BY <2>2
  <2>4. QED  BY <2>2, <2>3
<1> HIDE DEF sorted
<1> DEFINE Right ==
             /\ it.error = "all" <=> answered = {}
             /\ ToSet(it.warnings) = {list[i].name : i \in DOMAIN list \ answered}
             /\ it.services \in Seq(Listable)
             /\ ToSet(it.services) = UNION {ToSet(results[i].services) : i \in answered}
             /\ \A i, j \in DOMAIN it.services :
                  i < j => /\ Before(it.services[i], it.services[j])
                           /\ it.services[i].id # it.services[j].id
<1>9. CASE answered = {}
  <2>1. it = [services |-> <<>>, warnings |-> warned, error |-> "all"]
    BY <1>1, <1>3, <1>5, <1>6, <1>9
  <2>2. it.services = <<>> /\ it.warnings = warned /\ it.error = "all"  BY <2>1
  <2>3. ToSet(it.services) = {} /\ it.services \in Seq(Listable)  BY <2>2 DEF ToSet
  <2>4. DOMAIN it.services = {}  BY <2>2
  <2>5. Right  BY <1>6, <1>9, <2>2, <2>3, <2>4
  <2>6. QED  BY <2>5 DEF RightOutcome, it
<1>10. CASE answered # {}
  <2>1. it = [services |-> sorted, warnings |-> warned, error |-> "none"]
    BY <1>3, <1>5, <1>6, <1>10
  <2>2. it.services = sorted /\ it.warnings = warned /\ it.error = "none"  BY <2>1
  <2>3. Right  BY <1>6, <1>7, <1>8, <1>10, <2>2
  <2>4. QED  BY <2>3 DEF RightOutcome, it
<1>11. QED  BY <1>9, <1>10

-----------------------------------------------------------------------------
(***************************************************************************)
(* From the answers to the outcome.                                        *)
(***************************************************************************)
\* Only a configuration that validates has hosts; what each of them answered is its
\* own; the outcome is what was made of all the answers, and none moves any more.
OutcomeInv ==
  /\ main = "idle" => hosts = <<>>
  /\ main \in {"spawn", "aggregate"} => hosts # <<>>
  /\ hosts # <<>> => Valid(hosts)
  /\ \A i \in DOMAIN hosts : ~result[i].err => result[i].services \in Answers(hosts[i].name)
  /\ main = "done" =>
       /\ Running = {}
       /\ \/ out = [NoOutcome EXCEPT !.error = "config"]
          \/ hosts # <<>> /\ out = aggregateHostResults(hosts, result)
  /\ main # "done" => out = NoOutcome

\* A host of a configuration has a daemon, and what is on it is one of Containers.
LEMMA HostReached ==
  ASSUME IInv, OutcomeInv, NEW i \in DOMAIN hosts
  PROVE  /\ hosts \in HostLists /\ Valid(hosts)
         /\ containers[Reached(hosts[i].address)] \in Containers
<1>1. hosts # <<>>  OBVIOUS
<1>2. hosts \in HostLists /\ Valid(hosts)  BY <1>1 DEF IInv, TypeOK, OutcomeInv
<1>3. Reached(hosts[i].address) \in Daemons  BY <1>2, AddressesAssumption
<1>4. QED  BY <1>2, <1>3 DEF IInv, TypeOK

\* What List puts into the result is the daemon's answer.
LEMMA ListAnswers ==
  ASSUME IInv, OutcomeInv, NEW i \in DOMAIN hosts, List(i),
         NEW here, here = {c \in containers[Reached(hosts[i].address)] : c.enable}
  PROVE  /\ result'[i].services \in Answers(hosts[i].name)
         /\ ToSet(result'[i].services) = {Expected(hosts[i].name, c) : c \in here}
         /\ \A j, k \in DOMAIN result'[i].services :
              j < k => Before(result'[i].services[j], result'[i].services[k])
<1> DEFINE d == Reached(hosts[i].address)
<1>1. PICK listed \in Listings(d) : \E portsOf \in PortListings(listed) :
        Returns(i, Discover(hosts[i].name, listed, portsOf), FALSE)
  BY DEF List
<1>2. PICK portsOf \in PortListings(listed) :
        Returns(i, Discover(hosts[i].name, listed, portsOf), FALSE)
  BY <1>1
<1> DEFINE services == Discover(hosts[i].name, listed, portsOf)
<1>3. result'[i].services = services
  BY <1>2 DEF Returns, IInv, TypeOK
<1>4. hosts \in HostLists /\ Valid(hosts) /\ containers[d] \in Containers
  BY HostReached
<1>5. listed \in SetToSeqs(here)  BY <1>1 DEF Listings
<1>6. services = Discover(hosts[i].name, listed, portsOf)  OBVIOUS
<1> HIDE DEF d, services
<1>7. /\ services \in Answers(hosts[i].name)
      /\ ToSet(services) = {Expected(hosts[i].name, c) : c \in here}
      /\ \A j, k \in DOMAIN services : j < k => Before(services[j], services[k])
  BY <1>2, <1>4, <1>5, <1>6, Answered DEF d
<1>8. QED  BY <1>3, <1>7

\* No answer, no services.
LEMMA NothingAnswered ==
  ASSUME NEW name
  PROVE  <<>> \in Answers(name)
BY DEF Answers

\* Every step keeps the answers and the outcome.
LEMMA OutcomeStep == IInv /\ IInv' /\ OutcomeInv /\ [Next]_vars => OutcomeInv'
<1> SUFFICES ASSUME IInv, IInv', OutcomeInv, [Next]_vars PROVE OutcomeInv'
  OBVIOUS
<1>1. CASE \/ UNCHANGED vars \/ DeadlinePasses \/ HealthChanges \/ ContainersChange
           \/ \E i \in DOMAIN hosts : SshForks(i) \/ ChildExits(i)
  <2>1. UNCHANGED <<hosts, main, g, result, out>>
    BY <1>1 DEF vars, call, DeadlinePasses, HealthChanges, ContainersChange, SshForks, ChildExits
  <2>2. Running' = Running  BY <2>1 DEF Running
  <2>3. QED  BY <2>1, <2>2 DEF OutcomeInv
<1>2. ASSUME NEW i \in DOMAIN hosts, Goroutine(i) PROVE OutcomeInv'
  <2>1. hosts' = hosts /\ main' = main /\ out' = out
    BY <1>2 DEF Goroutine, Connect, ConnectFails, List, ListFails, Close, Store, Done
  <2>2. main # "done"
    <3>1. g[i] # "over"
      BY <1>2 DEF Goroutine, Connect, ConnectFails, List, ListFails, Close, Store, Done, Go
    <3>2. QED  BY <3>1 DEF OutcomeInv, Running
  <2>3. ASSUME NEW j \in DOMAIN hosts, ~result'[j].err
        PROVE  result'[j].services \in Answers(hosts[j].name)
    <3>0. ~result[j].err => result[j].services \in Answers(hosts[j].name)  BY DEF OutcomeInv
    <3>1. CASE Connect(i) \/ Close(i) \/ Store(i) \/ Done(i)
      BY <2>3, <3>0, <3>1 DEF Connect, Close, Store, Done
    <3>2. CASE ConnectFails(i) \/ ListFails(i)
      <4>1. Returns(i, <<>>, TRUE)  BY <3>2 DEF ConnectFails, ListFails
      <4>2. j # i /\ result'[j] = result[j]
        BY <2>3, <4>1 DEF Returns, IInv, TypeOK
      <4>3. QED  BY <2>3, <3>0, <4>2
    <3>3. CASE List(i)
      <4>1. CASE j = i
        <5> DEFINE here == {c \in containers[Reached(hosts[i].address)] : c.enable}
        <5>1. here = {c \in containers[Reached(hosts[i].address)] : c.enable}  OBVIOUS
        <5> HIDE DEF here
        <5>2. result'[i].services \in Answers(hosts[i].name)  BY <3>3, <5>1, ListAnswers
        <5>3. QED  BY <4>1, <5>2
      <4>2. CASE j # i
        <5>1. \E services : Returns(i, services, FALSE)  BY <3>3 DEF List
        <5>2. result'[j] = result[j]  BY <4>2, <5>1 DEF Returns, IInv, TypeOK
        <5>3. QED  BY <2>3, <3>0, <5>2
      <4>3. QED  BY <4>1, <4>2
    <3>4. QED  BY <1>2, <3>1, <3>2, <3>3 DEF Goroutine
  <2>4. QED  BY <2>1, <2>2, <2>3 DEF OutcomeInv
<1>3. CASE Load
  <2>1. PICK list \in HostLists :
          Valid(list) /\ hosts' = list /\ result' = [i \in DOMAIN list |-> Unset]
    BY <1>3 DEF Load
  <2>2. list # <<>>  BY <2>1 DEF Valid
  <2>3. \A i \in DOMAIN hosts' : result'[i].services = <<>>  BY <2>1 DEF Unset
  <2>4. main' = "spawn" /\ out' = NoOutcome  BY <1>3 DEF Load, OutcomeInv
  <2>5. \A i \in DOMAIN hosts' : result'[i].services \in Answers(hosts'[i].name)
    BY <2>3, NothingAnswered
  <2>6. QED  BY <2>1, <2>2, <2>4, <2>5 DEF OutcomeInv
<1>4. CASE LoadFails
  <2>1. hosts' = <<>> /\ main' = "done" /\ out' = [NoOutcome EXCEPT !.error = "config"]
    BY <1>4 DEF LoadFails, OutcomeInv
  <2>2. DOMAIN hosts' = {}  BY <2>1
  <2>3. Running' = {}  BY <2>2 DEF Running
  <2>4. QED  BY <2>1, <2>2, <2>3 DEF OutcomeInv
<1>5. CASE (\E i \in DOMAIN hosts : Spawn(i)) \/ Wait
  <2>1. /\ main = "spawn" /\ main' \in {"spawn", "aggregate"}
        /\ UNCHANGED <<hosts, result, out>>
    BY <1>5 DEF Spawn, Wait
  <2>2. QED  BY <2>1 DEF OutcomeInv
<1>6. CASE Aggregate
  <2>1. /\ main = "aggregate" /\ main' = "done" /\ UNCHANGED <<hosts, g, result>>
        /\ out' = aggregateHostResults(hosts, slots)
    BY <1>6 DEF Aggregate
  <2>2. Running = {}  BY <2>1 DEF IInv, SlotInv
  <2>3. Running' = {}  BY <2>1, <2>2 DEF Running
  <2>4. \A i \in DOMAIN hosts : slots[i] = result[i]
    BY <2>2 DEF IInv, TypeOK, SlotInv, Running, Handed
  <2>5. aggregateHostResults(hosts, slots) = aggregateHostResults(hosts, result)
    <3>1. {i \in DOMAIN hosts : slots[i].err} = {i \in DOMAIN hosts : result[i].err}  BY <2>4
    <3>2. [i \in DOMAIN hosts |-> IF slots[i].err THEN <<>> ELSE slots[i].services] =
          [i \in DOMAIN hosts |-> IF result[i].err THEN <<>> ELSE result[i].services]
      BY <2>4
    <3>3. QED  BY <3>1, <3>2 DEF aggregateHostResults
  <2>6. QED  BY <2>1, <2>3, <2>5 DEF OutcomeInv
<1>7. CASE Again
  <2>1. main' = "idle" /\ hosts' = <<>> /\ out' = NoOutcome  BY <1>7 DEF Again
  <2>2. DOMAIN hosts' = {}  BY <2>1
  <2>3. QED  BY <2>1, <2>2 DEF OutcomeInv
<1>8. QED  BY <1>1, <1>2, <1>3, <1>4, <1>5, <1>6, <1>7 DEF Next, Command

\* What came of the answers, at any time.
THEOREM Outcomes == Spec => []OutcomeInv
<1>1. Init => OutcomeInv
  <2>1. Init => main = "idle" /\ hosts = <<>> /\ out = NoOutcome /\ DOMAIN hosts = {}
    BY DEF Init
  <2>2. QED  BY <2>1 DEF OutcomeInv
<1>2. QED  BY <1>1, OutcomeStep, Inductive, PTL DEF Spec

\* The outcome that is there when the command is done is right.
LEMMA OutcomeRight ==
  ASSUME IInv, OutcomeInv, main = "done", out.error # "config"
  PROVE  RightOutcome(hosts, result, out)
<1>1. hosts # <<>> /\ out = aggregateHostResults(hosts, result)
  <2>1. out # [NoOutcome EXCEPT !.error = "config"]  BY DEF NoOutcome
  <2>2. QED  BY <2>1 DEF OutcomeInv
<1>2. hosts \in HostLists /\ Valid(hosts)  BY <1>1 DEF IInv, TypeOK, OutcomeInv
<1>3. \A i \in DOMAIN hosts : ~result[i].err => result[i].services \in Answers(hosts[i].name)
  BY DEF OutcomeInv
<1>4. QED  BY <1>1, <1>2, <1>3, Aggregated

\* aggregateHostResults: however many hosts fail, and in whatever order they answer,
\* none of the others loses a service, and only all of them failing is an error.
THEOREM FailuresCostNobodyElse == Spec => []FailuresIsolated
<1>1. IInv /\ OutcomeInv => FailuresIsolated
  BY OutcomeRight, Zenon DEF FailuresIsolated, RightOutcome
<1>2. QED  BY <1>1, Inductive, Outcomes, PTL

\* SortServices: what the renderers and the merge get is in one order, and no id is
\* in it twice, for any hosts and any containers.
THEOREM ServicesInOrder == Spec => []InOrder
<1>1. IInv /\ OutcomeInv => InOrder
  <2> SUFFICES ASSUME IInv, OutcomeInv PROVE InOrder  OBVIOUS
  <2>1. CASE main = "done" /\ out.error # "config"
    <3>1. RightOutcome(hosts, result, out)  BY <2>1, OutcomeRight
    <3>2. QED  BY <3>1, Zenon DEF RightOutcome, InOrder
  <2>2. CASE ~(main = "done" /\ out.error # "config")
    <3>1. CASE out.services = <<>>  BY <3>1 DEF InOrder
    <3>2. CASE hosts # <<>> /\ out = aggregateHostResults(hosts, result)
      <4>1. out.error # "config"  BY <3>2 DEF aggregateHostResults
      <4>2. main # "done" => out = NoOutcome  BY DEF OutcomeInv
      <4>3. NoOutcome.services = <<>>  BY DEF NoOutcome
      <4>4. QED  BY <2>2, <3>1, <4>1, <4>2, <4>3
    <3>3. QED  BY <3>1, <3>2 DEF OutcomeInv, NoOutcome
  <2>3. QED  BY <2>1, <2>2
<1>2. QED  BY <1>1, Inductive, Outcomes, PTL

\* labels.go: the answer of a daemon is its enabled containers, and neither the order
\* in which it lists them nor that of their ports makes a difference.
THEOREM ListingOrderIgnored == Spec => AnswersIgnoreListingOrder
<1> DEFINE A == \A i \in DOMAIN hosts : List(i) =>
                  LET services == result'[i].services
                      here == {c \in containers[Reached(hosts[i].address)] : c.enable}
                  IN  /\ ToSet(services) = {Expected(hosts[i].name, c) : c \in here}
                      /\ \A j, k \in DOMAIN services : j < k => Before(services[j], services[k])
<1>1. IInv /\ OutcomeInv => A
  <2> SUFFICES ASSUME IInv, OutcomeInv, NEW i \in DOMAIN hosts, List(i)
               PROVE  LET services == result'[i].services
                          here == {c \in containers[Reached(hosts[i].address)] : c.enable}
                      IN  /\ ToSet(services) = {Expected(hosts[i].name, c) : c \in here}
                          /\ \A j, k \in DOMAIN services : j < k => Before(services[j], services[k])
    OBVIOUS
  <2> DEFINE here == {c \in containers[Reached(hosts[i].address)] : c.enable}
  <2>1. here = {c \in containers[Reached(hosts[i].address)] : c.enable}  OBVIOUS
  <2> HIDE DEF here
  <2>2. /\ ToSet(result'[i].services) = {Expected(hosts[i].name, c) : c \in here}
        /\ \A j, k \in DOMAIN result'[i].services :
             j < k => Before(result'[i].services[j], result'[i].services[k])
    BY <2>1, ListAnswers
  <2>3. QED  BY <2>1, <2>2
<1> HIDE DEF A
<1>2. IInv /\ OutcomeInv => [A]_vars  BY <1>1
<1>3. QED  BY <1>2, Inductive, Outcomes, PTL DEF AnswersIgnoreListingOrder, A

-----------------------------------------------------------------------------
(***************************************************************************)
(* Fleet: the merge of its instance of Merge is the one MergeProofs speaks *)
(* of.                                                                     *)
(***************************************************************************)
FleetMerge == INSTANCE MergeProofs WITH Format <- "homepage", ServiceOrder <- ServiceIds

\* Looking an entry up, and what becomes of a service.
LEMMA FleetVerdict ==
  /\ \A s : M!Max(s) = FleetMerge!Max(s)
  /\ \A w : M!Failed(w) <=> FleetMerge!Failed(w)
  /\ \A e : M!IsManaged(e) <=> FleetMerge!IsManaged(e)
  /\ \A items, svc, policy :
       /\ M!Verdict(items, svc, policy) = FleetMerge!Verdict(items, svc, policy)
       /\ M!ApplyService(items, svc, policy) = FleetMerge!ApplyService(items, svc, policy)
<1>1. \A s : M!Max(s) = FleetMerge!Max(s)
  BY DEF M!Max, FleetMerge!Max
<1>2. \A w : M!Failed(w) <=> FleetMerge!Failed(w)
  BY Zenon DEF M!Failed, FleetMerge!Failed, M!Absent, FleetMerge!Absent
<1>3. \A e : M!IsManaged(e) <=> FleetMerge!IsManaged(e)
  BY Zenon DEF M!IsManaged, FleetMerge!IsManaged, M!IsMarker, FleetMerge!IsMarker, M!Absent, FleetMerge!Absent
<1>4. \A items, id : M!findManagedIndex(items, id) = FleetMerge!findManagedIndex(items, id)
  BY DEF M!findManagedIndex, FleetMerge!findManagedIndex, M!SelectInSeq,
         FleetMerge!SelectInSeq, M!Min, FleetMerge!Min, M!IsManaged, FleetMerge!IsManaged,
         M!IsMarker, FleetMerge!IsMarker, M!Absent, FleetMerge!Absent
<1>5. \A items, svc, policy : M!Verdict(items, svc, policy) = FleetMerge!Verdict(items, svc, policy)
  BY <1>4 DEF M!Verdict, FleetMerge!Verdict, M!HandEdited, FleetMerge!HandEdited
<1>6. \A items, svc, policy : M!ApplyService(items, svc, policy) = FleetMerge!ApplyService(items, svc, policy)
  BY <1>4, <1>5 DEF M!ApplyService, FleetMerge!ApplyService, M!Rendered, FleetMerge!Rendered,
                    M!buildMarker, FleetMerge!buildMarker
<1>. QED
  BY <1>1, <1>2, <1>3, <1>5, <1>6

\* One service, and the loop over them.
LEMMA FleetServices ==
  ASSUME NEW work, NEW gi, NEW policy, NEW services
  PROVE  M!MergeServices(work, gi, services, policy) = FleetMerge!MergeServices(work, gi, services, policy)
<1>1. ASSUME NEW w, NEW svc
      PROVE  M!MergeService(w, gi, svc, policy) = FleetMerge!MergeService(w, gi, svc, policy)
  <2>. DEFINE items == w.groups[gi].items
              change(verdict) == [kind |-> verdict, id |-> svc.id, group |-> w.groups[gi].name]
              Round(failed, verdict, applied, reported) ==
                IF failed THEN w
                ELSE IF verdict \in {"unreadable", "refused"} THEN [w EXCEPT !.error = verdict]
                ELSE [w EXCEPT !.groups[gi].items = applied,
                               !.changes = IF verdict \in reported
                                           THEN Append(@, change(verdict)) ELSE @]
  <2>1. M!MergeService(w, gi, svc, policy)
          = Round(M!Failed(w), M!Verdict(items, svc, policy), M!ApplyService(items, svc, policy),
                  M!Reported)
    BY Zenon DEF M!MergeService
  <2>2. FleetMerge!MergeService(w, gi, svc, policy)
          = Round(FleetMerge!Failed(w), FleetMerge!Verdict(items, svc, policy),
                  FleetMerge!ApplyService(items, svc, policy), FleetMerge!Reported)
    BY Zenon DEF FleetMerge!MergeService
  <2>3. M!Reported = FleetMerge!Reported
    BY DEF M!Reported, FleetMerge!Reported
  <2>4. Round(M!Failed(w), M!Verdict(items, svc, policy), M!ApplyService(items, svc, policy),
              M!Reported)
          = Round(FleetMerge!Failed(w), FleetMerge!Verdict(items, svc, policy),
                  FleetMerge!ApplyService(items, svc, policy), FleetMerge!Reported)
    BY <2>3, FleetVerdict, Zenon
  <2>. HIDE DEF Round, items
  <2>. QED
    BY <2>1, <2>2, <2>4, Zenon
<1>. DEFINE D == DOMAIN services
            Ours(it) == it = [s \in SUBSET D |->
                                IF s = {} THEN work
                                ELSE M!MergeService(it[s \ {M!Max(s)}], gi, services[M!Max(s)], policy)]
            Theirs(it) == it = [s \in SUBSET D |->
                                  IF s = {} THEN work
                                  ELSE FleetMerge!MergeService(it[s \ {FleetMerge!Max(s)}],
                                                               gi, services[FleetMerge!Max(s)], policy)]
<1>2. \A it : Ours(it) <=> Theirs(it)
  BY <1>1, FleetVerdict
<1>3. (CHOOSE it : Ours(it)) = (CHOOSE it : Theirs(it))
  <2>. HIDE DEF Ours, Theirs
  <2>. QED
    BY <1>2, Zenon
<1>4. M!MergeServices(work, gi, services, policy) = (CHOOSE it : Ours(it))[D]
  BY Zenon DEF M!MergeServices, M!FoldLeft, M!MapThenFoldSet
<1>5. FleetMerge!MergeServices(work, gi, services, policy) = (CHOOSE it : Theirs(it))[D]
  BY Zenon DEF FleetMerge!MergeServices, FleetMerge!FoldLeft, FleetMerge!MapThenFoldSet
<1>. QED
  BY <1>3, <1>4, <1>5, Zenon

\* One group, and the loop over them.
LEMMA FleetGroups ==
  ASSUME NEW work, NEW desired, NEW policy
  PROVE  M!MergeGroups(work, desired, policy) = FleetMerge!MergeGroups(work, desired, policy)
<1>1. \A groups, name : M!GroupIndex(groups, name) = FleetMerge!GroupIndex(groups, name)
  BY DEF M!GroupIndex, FleetMerge!GroupIndex, M!SelectInSeq, FleetMerge!SelectInSeq, M!Min, FleetMerge!Min
<1>2. \A groups, name :
        /\ M!GroupIsBroken(groups, name) <=> FleetMerge!GroupIsBroken(groups, name)
        /\ M!FindOrCreateGroup(groups, name) = FleetMerge!FindOrCreateGroup(groups, name)
  BY <1>1 DEF M!GroupIsBroken, FleetMerge!GroupIsBroken, M!FindOrCreateGroup, FleetMerge!FindOrCreateGroup
<1>3. ASSUME NEW w, NEW wanted
      PROVE  M!MergeGroup(w, wanted, policy) = FleetMerge!MergeGroup(w, wanted, policy)
  <2>. DEFINE Round(failed, broken, now) ==
                IF failed THEN w ELSE IF broken THEN [w EXCEPT !.error = "notList"] ELSE now
              Now(groups, gi) == M!MergeServices([w EXCEPT !.groups = groups], gi, wanted.services, policy)
              ours == M!FindOrCreateGroup(w.groups, wanted.name)
              theirs == FleetMerge!FindOrCreateGroup(w.groups, wanted.name)
  <2>1. M!MergeGroup(w, wanted, policy)
          = Round(M!Failed(w), M!GroupIsBroken(w.groups, wanted.name),
                  Now(ours, M!GroupIndex(ours, wanted.name)))
    BY Zenon DEF M!MergeGroup
  <2>2. FleetMerge!MergeGroup(w, wanted, policy)
          = Round(FleetMerge!Failed(w), FleetMerge!GroupIsBroken(w.groups, wanted.name),
                  Now(theirs, FleetMerge!GroupIndex(theirs, wanted.name)))
    BY FleetServices, Zenon DEF FleetMerge!MergeGroup
  <2>3. Round(M!Failed(w), M!GroupIsBroken(w.groups, wanted.name),
              Now(ours, M!GroupIndex(ours, wanted.name)))
          = Round(FleetMerge!Failed(w), FleetMerge!GroupIsBroken(w.groups, wanted.name),
                  Now(theirs, FleetMerge!GroupIndex(theirs, wanted.name)))
    BY <1>1, <1>2, FleetVerdict, Zenon
  <2>. HIDE DEF Round, Now, ours, theirs
  <2>. QED
    BY <2>1, <2>2, <2>3, Zenon
<1>. DEFINE D == DOMAIN desired
            Ours(it) == it = [s \in SUBSET D |->
                                IF s = {} THEN work
                                ELSE M!MergeGroup(it[s \ {M!Max(s)}], desired[M!Max(s)], policy)]
            Theirs(it) == it = [s \in SUBSET D |->
                                  IF s = {} THEN work
                                  ELSE FleetMerge!MergeGroup(it[s \ {FleetMerge!Max(s)}],
                                                             desired[FleetMerge!Max(s)], policy)]
<1>4. \A it : Ours(it) <=> Theirs(it)
  BY <1>3, FleetVerdict
<1>5. (CHOOSE it : Ours(it)) = (CHOOSE it : Theirs(it))
  <2>. HIDE DEF Ours, Theirs
  <2>. QED
    BY <1>4, Zenon
<1>6. M!MergeGroups(work, desired, policy) = (CHOOSE it : Ours(it))[D]
  BY Zenon DEF M!MergeGroups, M!FoldLeft, M!MapThenFoldSet
<1>7. FleetMerge!MergeGroups(work, desired, policy) = (CHOOSE it : Theirs(it))[D]
  BY Zenon DEF FleetMerge!MergeGroups, FleetMerge!FoldLeft, FleetMerge!MapThenFoldSet
<1>. QED
  BY <1>5, <1>6, <1>7, Zenon

\* The whole call.
LEMMA FleetSame ==
  ASSUME NEW doc, NEW desired, NEW policy
  PROVE  M!Merge(doc, desired, policy) = FleetMerge!Merge(doc, desired, policy)
<1>1. \A ss : M!FlattenSeq(ss) = FleetMerge!FlattenSeq(ss)
  BY DEF M!FlattenSeq, FleetMerge!FlattenSeq
<1>2. \A s : M!ToSet(s) = FleetMerge!ToSet(s)
  BY DEF M!ToSet, FleetMerge!ToSet
<1>3. \A s, Q : M!Only(s, Q) = FleetMerge!Only(s, Q)
  BY <1>1 DEF M!Only, FleetMerge!Only
<1>4. \A e, name : M!Orphaned(e, name, desired) <=> FleetMerge!Orphaned(e, name, desired)
  BY FleetVerdict, Zenon DEF M!Orphaned, FleetMerge!Orphaned, M!DesiredGroupOf, FleetMerge!DesiredGroupOf,
                          M!Absent, FleetMerge!Absent
<1>5. \A group : M!Orphans(group, desired) = FleetMerge!Orphans(group, desired)
  BY <1>2, <1>4 DEF M!Orphans, FleetMerge!Orphans, M!Sweepable, FleetMerge!Sweepable
<1>6. \A group : /\ M!SweepGroup(group, desired) = FleetMerge!SweepGroup(group, desired)
                 /\ M!Removals(group, desired) = FleetMerge!Removals(group, desired)
  BY <1>2, <1>3, <1>5 DEF M!SweepGroup, FleetMerge!SweepGroup, M!Removals, FleetMerge!Removals
<1>. DEFINE Whole(some, failed, applied, swept, removed) ==
              LET Refused(error) == [error |-> error, doc |-> doc, changes |-> <<>>]
              IN  IF ~some THEN Refused("root")
                  ELSE IF failed THEN Refused(applied.error)
                  ELSE [error |-> M!Absent, doc |-> [root |-> "groups", groups |-> swept],
                        changes |-> applied.changes \o removed]
            start == [error |-> M!Absent, groups |-> doc.groups, changes |-> <<>>]
            applied == M!MergeGroups(start, desired, policy)
            swept == [i \in DOMAIN applied.groups |-> M!SweepGroup(applied.groups[i], desired)]
            removed == [i \in DOMAIN applied.groups |-> M!Removals(applied.groups[i], desired)]
            swept2 == [i \in DOMAIN applied.groups |-> FleetMerge!SweepGroup(applied.groups[i], desired)]
            removed2 == [i \in DOMAIN applied.groups |-> FleetMerge!Removals(applied.groups[i], desired)]
<1>7. M!Absent = FleetMerge!Absent
  BY Zenon DEF M!Absent, FleetMerge!Absent
<1>8. M!HasGroupSequence(doc) <=> FleetMerge!HasGroupSequence(doc)
  BY DEF M!HasGroupSequence, FleetMerge!HasGroupSequence
<1>9. applied = FleetMerge!MergeGroups(start, desired, policy)
  BY FleetGroups
<1>10. swept = swept2 /\ removed = removed2
  BY <1>6
<1>11. M!Merge(doc, desired, policy)
         = Whole(M!HasGroupSequence(doc), M!Failed(applied), applied, swept, M!FlattenSeq(removed))
  BY Zenon DEF M!Merge
<1>12. FleetMerge!Merge(doc, desired, policy)
         = Whole(FleetMerge!HasGroupSequence(doc), FleetMerge!Failed(applied), applied,
                 swept2, FleetMerge!FlattenSeq(removed2))
  BY <1>7, <1>9, Zenon DEF FleetMerge!Merge
<1>13. Whole(M!HasGroupSequence(doc), M!Failed(applied), applied, swept, M!FlattenSeq(removed))
         = Whole(FleetMerge!HasGroupSequence(doc), FleetMerge!Failed(applied), applied,
                 swept2, FleetMerge!FlattenSeq(removed2))
  <2>. HIDE DEF swept, swept2, removed, removed2, applied
  <2>. QED
    BY <1>1, <1>8, <1>10, FleetVerdict, Zenon
<1>. HIDE DEF Whole, applied, swept, swept2, removed, removed2
<1>. QED
  BY <1>11, <1>12, <1>13, Zenon

\* The desired groups, and what is written for a service.
LEMMA FleetDesired ==
  ASSUME NEW services
  PROVE  M!GroupServices(services) = FleetMerge!GroupServices(services)
<1>1. \A ss : M!FlattenSeq(ss) = FleetMerge!FlattenSeq(ss)
  BY DEF M!FlattenSeq, FleetMerge!FlattenSeq
<1>2. \A s, Q : M!Only(s, Q) = FleetMerge!Only(s, Q)
  BY <1>1 DEF M!Only, FleetMerge!Only
<1>3. \A s : M!NameOf(s) = FleetMerge!NameOf(s)
  BY Zenon DEF M!NameOf, FleetMerge!NameOf
<1>4. ASSUME NEW name PROVE M!Bucket(services, name) = FleetMerge!Bucket(services, name)
  <2>. DEFINE here == {s \in services : M!NameOf(s) = name}
              there == {s \in services : FleetMerge!NameOf(s) = name}
              Picked(of, ids) == [i \in DOMAIN ids |-> CHOOSE s \in of : s.id = ids[i]]
              ids1 == M!Only(ServiceIds, {s.id : s \in here})
              ids2 == FleetMerge!Only(ServiceIds, {s.id : s \in there})
  <2>1. here = there
    BY <1>3
  <2>2. ids1 = ids2
    BY <1>2, <2>1
  <2>3. M!Bucket(services, name) = Picked(here, ids1)
    BY DEF M!Bucket
  <2>4. FleetMerge!Bucket(services, name) = Picked(there, ids2)
    BY DEF FleetMerge!Bucket
  <2>. HIDE DEF here, there, ids1, ids2, Picked
  <2>. QED
    BY <2>1, <2>2, <2>3, <2>4
<1>5. {M!NameOf(s) : s \in services} = {FleetMerge!NameOf(s) : s \in services}
  BY <1>3
<1>6. M!Only(GroupOrder, {M!NameOf(s) : s \in services})
        = FleetMerge!Only(GroupOrder, {FleetMerge!NameOf(s) : s \in services})
  BY <1>2, <1>5, Zenon
<1>7. QED
  BY <1>4, <1>6, Zenon DEF M!GroupServices, FleetMerge!GroupServices

-----------------------------------------------------------------------------
(***************************************************************************)
(* Fleet: what the merge gets.                                             *)
(***************************************************************************)
\* What discovery may return, what the merge is asked for then, and what it writes.
Possible == {s \in Listable : s.url \in Urls}

Wishes == {Wanted(s) : s \in Possible}

FleetNames == ToSet(GroupOrder)

FleetEntries == {M!Rendered(w) : w \in Wishes}

FleetChanges ==
  [kind : FleetMerge!Reported \cup {"removed"}, id : ToSet(ServiceIds), group : FleetNames]

\* Services with ids of their own.
Apiece(services) ==
  /\ services \subseteq Possible
  /\ \A s, t \in services : s.id = t.id => s = t

\* What sync wants for services, and the desired groups it makes of them.
WishesOf(services) == {Wanted(s) : s \in services}

DesiredOf(services) == M!GroupServices(WishesOf(services))

\* What FleetAssumption says is what a merge needs.
LEMMA FleetSetting ==
  ASSUME NEW S \in SUBSET Wishes
  PROVE  FleetMerge!Setting(FleetNames, FleetEntries, FleetChanges, S)
<1>0. M!Absent = FleetMerge!Absent
  BY Zenon DEF M!Absent, FleetMerge!Absent
<1>1. ASSUME NEW w \in Wishes
      PROVE  /\ w.id \in ToSet(ServiceIds)
             /\ FleetMerge!Proper(w) /\ M!Rendered(w).comment.id = w.id
             /\ FleetMerge!Rendered(w) \in FleetEntries
  <2>1. PICK s \in Possible : w = Wanted(s)
    BY DEF Wishes
  <2>2. s.id \in ToSet(IdOrder) /\ s.url \in Urls
    BY DEF Possible, Listable
  <2>3. w.id = IdText[s.id] /\ w.body = s.url
    BY <2>1 DEF Wanted
  <2>4. w.id \in ToSet(ServiceIds)
    BY <2>2, <2>3, FleetAssumption
  <2>5. w.id # M!Absent /\ Hash[w.body] # M!Absent /\ w.body # Unreadable
    BY <2>2, <2>3, <2>4, FleetAssumption
  <2>6. FleetMerge!Proper(w)
    BY <1>0, <2>5 DEF FleetMerge!Proper
  <2>7. FleetMerge!Rendered(w) = M!Rendered(w) /\ M!Rendered(w).comment.id = w.id
    BY DEF M!Rendered, FleetMerge!Rendered, M!buildMarker, FleetMerge!buildMarker
  <2>. QED
    BY <2>4, <2>6, <2>7 DEF FleetEntries
<1>2. ASSUME NEW w \in Wishes, NEW kind \in FleetMerge!Reported, NEW n \in FleetNames
      PROVE  [kind |-> kind, id |-> w.id, group |-> n] \in FleetChanges
  BY <1>1 DEF FleetChanges
<1>3. ASSUME NEW e \in FleetEntries, NEW n \in FleetNames
      PROVE  [kind |-> "removed", id |-> e.comment.id, group |-> n] \in FleetChanges
  <2>1. PICK w \in Wishes : e = M!Rendered(w)
    BY DEF FleetEntries
  <2>2. e.comment.id \in ToSet(ServiceIds)
    BY <1>1, <2>1
  <2>. QED
    BY <2>2 DEF FleetChanges
<1>. QED
  BY <1>1, <1>2, <1>3 DEF FleetMerge!Setting

\* GroupServices asks for each of them, once, in its group.
LEMMA FleetAsks ==
  ASSUME NEW services, Apiece(services), NEW desired, desired = DesiredOf(services)
  PROVE  /\ desired \in Seq(FleetMerge!Wanted(FleetNames, WishesOf(services)))
         /\ FleetMerge!DistinctNames(desired) /\ FleetMerge!Owned(desired)
         /\ \A s \in services : \E i \in DOMAIN desired :
              /\ desired[i].name = s.group
              /\ \E j \in DOMAIN desired[i].services : desired[i].services[j] = Wanted(s)
<1>. DEFINE S == WishesOf(services)
<1>0. M!Absent = FleetMerge!Absent /\ \A s : FleetMerge!ToSet(s) = ToSet(s)
  BY Zenon DEF M!Absent, FleetMerge!Absent, FleetMerge!ToSet, ToSet
<1>1. \A s \in services : s \in Listable /\ s \in Possible
  BY DEF Apiece, Possible
<1>2. \A s : Wanted(s).id = IdText[s.id] /\ Wanted(s).group = s.group
  BY DEF Wanted
<1>3. \A w \in S : w.group \in FleetNames /\ w.group # M!Absent /\ w.id \in ToSet(ServiceIds)
  <2>. SUFFICES ASSUME NEW s \in services
                PROVE  /\ s.group \in FleetNames /\ s.group # M!Absent
                       /\ IdText[s.id] \in ToSet(ServiceIds)
    BY <1>2 DEF WishesOf
  <2>1. s.group \in ToSet(GroupOrder) /\ s.id \in ToSet(IdOrder)
    BY <1>1 DEF Listable
  <2>. QED
    BY <2>1, FleetAssumption DEF FleetNames
<1>4. \A w, v \in S : w.id = v.id => w = v
  <2>. SUFFICES ASSUME NEW s \in services, NEW t \in services, IdText[s.id] = IdText[t.id]
                PROVE  s = t
    BY <1>2 DEF WishesOf
  <2>1. s.id \in ToSet(IdOrder) /\ t.id \in ToSet(IdOrder)
    BY <1>1 DEF Listable
  <2>2. s.id = t.id
    BY <2>1, FleetAssumption
  <2>. QED
    BY <2>2 DEF Apiece
<1>. HIDE DEF S
<1>5. /\ FleetMerge!Listed(GroupOrder, {w.group : w \in S})
      /\ FleetMerge!Listed(ServiceIds, {w.id : w \in S})
  BY <1>0, <1>3, OrdersAssumption, FleetAssumption DEF FleetMerge!Listed, IsInjective, FleetNames
<1>6. FleetMerge!Groupable(S, FleetNames)
  BY <1>0, <1>3, <1>4, <1>5 DEF FleetMerge!Groupable
<1>7. desired = FleetMerge!GroupServices(S)
  BY FleetDesired DEF DesiredOf, S
<1>8. /\ desired \in Seq(FleetMerge!Wanted(FleetNames, S))
      /\ FleetMerge!DistinctNames(desired) /\ FleetMerge!Owned(desired)
      /\ \A w \in S : \E i \in DOMAIN desired :
           desired[i].name = w.group /\ \E j \in DOMAIN desired[i].services : desired[i].services[j] = w
  BY ONLY <1>6, <1>7, FleetMerge!DesiredAre
<1>9. \A s \in services : Wanted(s) \in S
  BY DEF S, WishesOf
<1>. QED
  BY <1>2, <1>8, <1>9 DEF S

\* Files that syncs alone wrote.
FleetFiles == M!Documents(FleetNames, FleetEntries)

\* Nothing is left to do for these services.
Clear(doc, services) ==
  doc.root = "groups" /\ FleetMerge!Settled(doc.groups, DesiredOf(services), "overwrite")

\* A merge that is not refused leaves nothing to do, and where there was nothing to do it
\* reports nothing.
LEMMA FleetMerges ==
  ASSUME NEW services, Apiece(services), NEW doc \in FleetFiles,
         NEW merged, merged = M!Merge(doc, DesiredOf(services), "overwrite"), merged.error = M!Absent
  PROVE  /\ merged.doc \in FleetFiles
         /\ Clear(merged.doc, services)
         /\ Clear(doc, services) => merged.changes = <<>>
<1>. DEFINE S == WishesOf(services)
            desired == DesiredOf(services)
<1>0. M!Absent = FleetMerge!Absent
  BY Zenon DEF M!Absent, FleetMerge!Absent
<1>1. S \in SUBSET Wishes
  BY DEF Apiece, Wishes, WishesOf
<1>2. /\ desired \in Seq(FleetMerge!Wanted(FleetNames, S))
      /\ FleetMerge!DistinctNames(desired) /\ FleetMerge!Owned(desired)
  BY FleetAsks
<1>3. merged = FleetMerge!Merge(doc, desired, "overwrite")
  BY FleetSame
<1>4. "overwrite" \in FleetMerge!Policies /\ "overwrite" # "preserve"
  BY DEF FleetMerge!Policies
<1>5. FleetFiles = FleetMerge!Documents(FleetNames, FleetEntries)
  BY DEF FleetFiles, M!Documents, FleetMerge!Documents, M!GroupsOf, FleetMerge!GroupsOf
<1>6. FleetMerge!Setting(FleetNames, FleetEntries, FleetChanges, S)
  BY <1>1, FleetSetting
<1>. HIDE DEF S, desired
<1>7. /\ merged.doc \in FleetMerge!Documents(FleetNames, FleetEntries)
      /\ merged.doc.root = "groups" /\ FleetMerge!Settled(merged.doc.groups, desired, "overwrite")
      /\ doc.root = "groups" /\ FleetMerge!Settled(doc.groups, desired, "overwrite")
           => FleetMerge!AllConflicts(merged.changes)
  BY <1>0, <1>2, <1>3, <1>4, <1>5, <1>6, FleetMerge!MergeEffect
<1>8. FleetMerge!AllConflicts(merged.changes) => merged.changes = <<>>
  BY <1>2, <1>3, <1>4, <1>5, <1>6, FleetMerge!NothingTold
<1>. QED
  BY <1>5, <1>7, <1>8 DEF Clear, desired

\* Where nothing is left to do, each service has its entry.
LEMMA FleetShows ==
  ASSUME NEW services, Apiece(services), NEW doc \in FleetFiles, Clear(doc, services), NEW s \in services
  PROVE  Wanted(s).id \in EntryIds(doc)
<1>. DEFINE desired == DesiredOf(services)
            groups == doc.groups
            wish == Wanted(s)
<1>1. groups \in Seq(FleetMerge!GroupsOf(FleetNames, FleetEntries))
  BY DEF FleetFiles, M!Documents, M!GroupsOf, FleetMerge!GroupsOf
<1>a. desired = DesiredOf(services) /\ wish = Wanted(s)
  OBVIOUS
<1>. HIDE DEF desired, wish
<1>b. \A x \in services : \E i \in DOMAIN desired :
        /\ desired[i].name = x.group
        /\ \E j \in DOMAIN desired[i].services : desired[i].services[j] = Wanted(x)
  BY ONLY <1>a, FleetAsks, Apiece(services)
<1>2. PICK k \in DOMAIN desired : \E l \in DOMAIN desired[k].services : desired[k].services[l] = wish
  BY <1>a, <1>b
<1>3. PICK l \in DOMAIN desired[k].services : desired[k].services[l] = wish
  BY <1>2
<1>. HIDE DEF groups
<1>4. FleetMerge!Done(groups, desired[k], "overwrite")
  BY Zenon DEF Clear, FleetMerge!Settled, groups, desired
<1>5. PICK gi : /\ gi = FleetMerge!GroupIndex(groups, desired[k].name) /\ gi # 0
                /\ FleetMerge!Fine(groups[gi].items, wish, "overwrite")
  BY <1>3, <1>4 DEF FleetMerge!Done
<1>6. gi \in DOMAIN groups
  BY <1>1, <1>5, FleetMerge!IndexIsFirst
<1>. DEFINE items == groups[gi].items
            ei == FleetMerge!findManagedIndex(items, wish.id)
<1>7. items \in Seq(FleetEntries)
  <2>1. groups[gi] \in FleetMerge!GroupsOf(FleetNames, FleetEntries)
    BY <1>1, <1>6
  <2>. QED
    BY <2>1 DEF FleetMerge!GroupsOf
<1>8. ei # 0
  BY <1>5 DEF FleetMerge!Fine, FleetMerge!Verdict
<1>9. ei \in DOMAIN items /\ FleetMerge!Mine(items[ei], wish.id)
  BY <1>7, <1>8, FleetMerge!FoundIsFirst
<1>10. items[ei] \in ToSet(items) /\ items[ei].comment.id = wish.id
  BY <1>9 DEF FleetMerge!Mine, ToSet
<1>11. items[ei] \in Entries(doc)
  BY <1>6, <1>10 DEF Entries, groups
<1>. QED
  BY <1>10, <1>11 DEF EntryIds, wish

-----------------------------------------------------------------------------
(***************************************************************************)
(* Fleet: sync after sync.                                                 *)
(***************************************************************************)
\* What a host would answer now, and all of them.
There(host) ==
  {Expected(host.name, c) : c \in {d \in containers[Reached(host.address)] : d.enable}}

AllThere(list) == UNION {There(list[i]) : i \in DOMAIN list}

\* The file is a merge's; what hosts answered is what there may be and, as long as no container
\* changes, what there is; and the last merge of a quiet run that all hosts answered left
\* nothing to do for what there is.
FleetInv ==
  /\ file \in FleetFiles
  /\ \A i \in DOMAIN hosts : ~result[i].err =>
       /\ ToSet(result[i].services) \subseteq Possible
       /\ quiet /\ result[i].set => ToSet(result[i].services) = There(hosts[i])
  /\ last.steady /\ last.answered => Clear(file, AllThere(last.hosts))

\* The types of the flags.
FlagsOK ==
  /\ quiet \in BOOLEAN
  /\ last = [hosts |-> last.hosts, answered |-> last.answered, steady |-> last.steady]
  /\ last.answered \in BOOLEAN /\ last.steady \in BOOLEAN

\* What a daemon lists is what is there, and something discovery may return.
LEMMA ThereIsPossible ==
  ASSUME IInv, OutcomeInv, NEW i \in DOMAIN hosts, List(i)
  PROVE  /\ ToSet(result'[i].services) = There(hosts[i])
         /\ ToSet(result'[i].services) \subseteq Possible
<1>. DEFINE here == {c \in containers[Reached(hosts[i].address)] : c.enable}
            services == result'[i].services
<1>1. here = {c \in containers[Reached(hosts[i].address)] : c.enable}
  OBVIOUS
<1>. HIDE DEF here
<1>2. services \in Answers(hosts[i].name) /\ ToSet(services) = {Expected(hosts[i].name, c) : c \in here}
  BY <1>1, ListAnswers
<1>3. ToSet(services) \subseteq Listable
  BY <1>2 DEF Answers, ToSet
<1>4. containers[Reached(hosts[i].address)] \in Containers
  BY HostReached
<1>. HIDE DEF services
<1>5. ASSUME NEW s \in ToSet(services)
      PROVE  s.url \in Urls
  <2>1. PICK c \in here : s = Expected(hosts[i].name, c)
    BY <1>2
  <2>2. s.url = Expected("", c).url
    BY <2>1 DEF Expected
  <2>3. c \in {d \in UNION Containers : d.enable}
    BY <1>1, <1>4
  <2>. QED
    BY <2>2, <2>3 DEF Urls
<1>6. ToSet(services) = There(hosts[i])
  BY <1>1, <1>2 DEF There
<1>. QED
  BY <1>3, <1>5, <1>6 DEF Possible, services

\* After any step of a run, a result is one from before, or a new one, in one of the three ways
\* it can come about.
LEMMA ResultFrom ==
  ASSUME IInv, OutcomeInv, [Next]_vars, NEW i \in DOMAIN hosts', ~result'[i].err
  PROVE  \/ hosts' = hosts /\ result'[i] = result[i]
         \/ ~result'[i].set /\ result'[i].services = <<>>
         \/ /\ hosts' = hosts /\ containers' = containers
            /\ ToSet(result'[i].services) = There(hosts[i])
            /\ ToSet(result'[i].services) \subseteq Possible
<1>1. CASE UNCHANGED <<hosts, result>>
  BY <1>1
<1>2. ASSUME NEW j \in DOMAIN hosts, Goroutine(j)
      PROVE  \/ hosts' = hosts /\ result'[i] = result[i]
             \/ /\ hosts' = hosts /\ containers' = containers
                /\ ToSet(result'[i].services) = There(hosts[i])
                /\ ToSet(result'[i].services) \subseteq Possible
  <2>0. hosts' = hosts /\ containers' = containers
    BY <1>2 DEF Goroutine, Connect, ConnectFails, List, ListFails, Close, Store, Done, world
  <2>1. CASE Connect(j) \/ Close(j) \/ Store(j) \/ Done(j)
    BY <2>0, <2>1 DEF Connect, Close, Store, Done
  <2>2. CASE ConnectFails(j) \/ ListFails(j)
    <3>1. Returns(j, <<>>, TRUE)
      BY <2>2 DEF ConnectFails, ListFails
    <3>2. j # i /\ result'[i] = result[i]
      BY <2>0, <3>1 DEF Returns, IInv, TypeOK
    <3>. QED
      BY <2>0, <3>2
  <2>3. CASE List(j)
    <3>1. CASE i = j
      BY <2>0, <2>3, <3>1, ThereIsPossible
    <3>2. CASE i # j
      <4>1. \E services : Returns(j, services, FALSE)
        BY <2>3 DEF List
      <4>2. result'[i] = result[i]
        BY <3>2, <4>1 DEF Returns, IInv, TypeOK
      <4>. QED
        BY <2>0, <4>2
    <3>. QED
      BY <3>1, <3>2
  <2>. QED
    BY <1>2, <2>1, <2>2, <2>3 DEF Goroutine
<1>3. CASE Load
  BY <1>3 DEF Load, Unset
<1>4. CASE Again
  BY <1>4 DEF Again
<1>. QED
  BY <1>1, <1>2, <1>3, <1>4 DEF Next, Command, LoadFails, Spawn, Wait, Aggregate, DeadlinePasses,
     HealthChanges, ContainersChange, SshForks, ChildExits, vars, call

\* What Save hands to the merge: the services of the hosts that answered, each id once; those of
\* a quiet run that all hosts answered are what there is.
LEMMA SavedServices ==
  ASSUME IInv, OutcomeInv, FleetInv, main = "done", out.error = "none"
  PROVE  /\ Apiece(ToSet(out.services))
         /\ \A i \in DOMAIN hosts : ~result[i].err => ToSet(result[i].services) \subseteq ToSet(out.services)
         /\ \E i \in DOMAIN hosts : ~result[i].err
         /\ quiet /\ out.warnings = <<>> => ToSet(out.services) = AllThere(hosts)
<1>. DEFINE answered == {i \in DOMAIN hosts : ~result[i].err}
<1>1. /\ out.error = "all" <=> answered = {}
      /\ ToSet(out.warnings) = {hosts[i].name : i \in DOMAIN hosts \ answered}
      /\ ToSet(out.services) = UNION {ToSet(result[i].services) : i \in answered}
      /\ out.services \in Seq(Listable)
      /\ \A i, j \in DOMAIN out.services : i < j => out.services[i].id # out.services[j].id
  BY OutcomeRight, Zenon DEF RightOutcome
<1>2. ToSet(out.services) \subseteq Possible
  BY <1>1 DEF FleetInv
<1>3. ASSUME NEW s \in ToSet(out.services), NEW t \in ToSet(out.services), s.id = t.id
      PROVE  s = t
  <2>1. PICK i \in DOMAIN out.services, j \in DOMAIN out.services : s = out.services[i] /\ t = out.services[j]
    BY DEF ToSet
  <2>2. i \in Int /\ j \in Int
    BY <1>1
  <2>. QED
    BY <1>1, <1>3, <2>1, <2>2
<1>4. ASSUME quiet, out.warnings = <<>>
      PROVE  ToSet(out.services) = AllThere(hosts)
  <2>1. answered = DOMAIN hosts
    <3>1. ToSet(out.warnings) = {}
      BY <1>4 DEF ToSet
    <3>2. \A i \in DOMAIN hosts \ answered : hosts[i].name \in ToSet(out.warnings)
      BY <1>1
    <3>. QED
      BY <3>1, <3>2
  <2>2. \A i \in DOMAIN hosts : result[i].set
    BY DEF OutcomeInv, Running, IInv, SlotInv, Handed
  <2>3. \A i \in DOMAIN hosts : ToSet(result[i].services) = There(hosts[i])
    BY <1>4, <2>1, <2>2 DEF FleetInv
  <2>. QED
    BY <1>1, <2>1, <2>3 DEF AllThere
<1>. QED
  BY <1>1, <1>2, <1>3, <1>4 DEF Apiece

\* What Save does to the file and to the report.
LEMMA SaveEffect ==
  ASSUME IInv, OutcomeInv, FleetInv, Save
  PROVE  /\ file' \in FleetFiles
         /\ Clear(file', ToSet(out.services))
         /\ Clear(file, ToSet(out.services)) => report' = <<>>
<1>. DEFINE services == ToSet(out.services)
            merged == M!Merge(file, DesiredOf(services), "overwrite")
<1>1. Apiece(services)
  BY SavedServices DEF Save
<1>2. merged.error = M!Absent /\ file' = merged.doc /\ report' = merged.changes
  BY Zenon DEF Save, DesiredOf, WishesOf
<1>3. file \in FleetFiles
  BY DEF FleetInv
<1>. HIDE DEF services
<1>4. /\ merged.doc \in FleetFiles
      /\ Clear(merged.doc, services)
      /\ Clear(file, services) => merged.changes = <<>>
  BY <1>1, <1>2, <1>3, FleetMerges
<1>. QED
  BY <1>2, <1>4 DEF services

\* The flags keep their types.
LEMMA FlagsStep == FlagsOK /\ [FleetNext]_fleetVars => FlagsOK'
<1>. SUFFICES ASSUME FlagsOK, [FleetNext]_fleetVars PROVE FlagsOK'
  OBVIOUS
<1>1. CASE GiveUp \/ UNCHANGED fleetVars
  BY <1>1 DEF GiveUp, fleetVars, FlagsOK
<1>2. CASE Save
  <2>1. quiet' = quiet
    BY <1>2 DEF Save
  <2>2. last' = [hosts |-> hosts, answered |-> out.warnings = <<>>, steady |-> quiet]
    BY <1>2 DEF Save
  <2>3. (out.warnings = <<>>) \in BOOLEAN
    OBVIOUS
  <2>. QED
    BY <2>1, <2>2, <2>3, Zenon DEF FlagsOK
<1>3. CASE Run
  <2>1. quiet' = ((quiet \/ Load) /\ containers' = containers)
    BY <1>3 DEF Run
  <2>2. last' = [last EXCEPT !.steady = @ /\ containers' = containers]
    BY <1>3 DEF Run
  <2>3. quiet' \in BOOLEAN
    BY <2>1, Zenon
  <2>4. last' = [hosts |-> last.hosts, answered |-> last.answered,
                 steady |-> last.steady /\ containers' = containers]
    BY <2>2, Zenon DEF FlagsOK
  <2>5. (last.steady /\ containers' = containers) \in BOOLEAN
    BY Zenon
  <2>. QED
    BY <2>3, <2>4, <2>5, Zenon DEF FlagsOK
<1>. QED
  BY <1>1, <1>2, <1>3 DEF FleetNext

\* Whatever moves, what is known of the file and of the answers stays true.
LEMMA FleetStep ==
  IInv /\ IInv' /\ OutcomeInv /\ FlagsOK /\ FlagsOK' /\ FleetInv /\ [FleetNext]_fleetVars => FleetInv'
<1>. SUFFICES ASSUME IInv, IInv', OutcomeInv, FlagsOK, FlagsOK', FleetInv, [FleetNext]_fleetVars
              PROVE  FleetInv'
  OBVIOUS
<1>1. CASE UNCHANGED <<vars, file, quiet, last>>
  <2>1. UNCHANGED <<hosts, result, containers>>
    BY <1>1 DEF vars, call, world
  <2>2. AllThere(last.hosts)' = AllThere(last.hosts)
    BY <1>1, <2>1 DEF AllThere, There
  <2>3. \A i \in DOMAIN hosts : There(hosts[i])' = There(hosts[i])
    BY <2>1 DEF There
  <2>. QED
    BY <1>1, <2>1, <2>2, <2>3 DEF FleetInv
<1>2. CASE Save
  <2>1. UNCHANGED <<hosts, result, containers, quiet>>
    BY <1>2 DEF Save, vars, call, world
  <2>2. last'.hosts = hosts /\ last'.steady = quiet /\ (last'.answered <=> out.warnings = <<>>)
    BY <1>2, Zenon DEF Save
  <2>3. file' \in FleetFiles /\ Clear(file', ToSet(out.services))
    BY <1>2, SaveEffect
  <2>4. quiet /\ out.warnings = <<>> => ToSet(out.services) = AllThere(hosts)
    BY <1>2, SavedServices DEF Save
  <2>5. AllThere(hosts)' = AllThere(hosts) /\ \A i \in DOMAIN hosts : There(hosts[i])' = There(hosts[i])
    BY <2>1 DEF AllThere, There
  <2>. QED
    BY <2>1, <2>2, <2>3, <2>4, <2>5 DEF FleetInv
<1>3. CASE Run
  <2>1. file' = file /\ [Next]_vars
    BY <1>3 DEF Run
  <2>2. quiet' => containers' = containers /\ (quiet \/ Load)
    BY <1>3 DEF Run
  <2>3. last'.steady => last.steady /\ containers' = containers
    BY <1>3, Zenon DEF Run, FlagsOK
  <2>4. last'.hosts = last.hosts /\ last'.answered = last.answered
    BY <1>3, Zenon DEF Run, FlagsOK
  <2>5. ASSUME last'.steady, last'.answered
        PROVE  Clear(file, AllThere(last.hosts)')
    <3>1. AllThere(last.hosts)' = AllThere(last.hosts)
      BY <2>3, <2>4, <2>5 DEF AllThere, There
    <3>. QED
      BY <2>3, <2>4, <2>5, <3>1 DEF FleetInv
  <2>6. ASSUME NEW i \in DOMAIN hosts', ~result'[i].err
        PROVE  /\ ToSet(result'[i].services) \subseteq Possible
               /\ quiet' /\ result'[i].set => ToSet(result'[i].services) = There(hosts[i])'
    <3>1. CASE hosts' = hosts /\ result'[i] = result[i]
      <4>1. Load => DOMAIN hosts = {}
        BY DEF Load, OutcomeInv
      <4>2. quiet' => quiet /\ containers' = containers
        BY <2>2, <2>6, <3>1, <4>1
      <4>3. containers' = containers => There(hosts[i])' = There(hosts[i])
        BY <3>1 DEF There
      <4>. QED
        BY <2>6, <3>1, <4>2, <4>3 DEF FleetInv
    <3>2. CASE ~result'[i].set /\ result'[i].services = <<>>
      BY <3>2 DEF ToSet
    <3>3. CASE /\ hosts' = hosts /\ containers' = containers
               /\ ToSet(result'[i].services) = There(hosts[i])
               /\ ToSet(result'[i].services) \subseteq Possible
      <4>1. There(hosts[i])' = There(hosts[i])
        BY <3>3 DEF There
      <4>. QED
        BY <3>3, <4>1
    <3>. QED
      BY <2>1, <2>6, <3>1, <3>2, <3>3, ResultFrom
  <2>. QED
    BY <2>1, <2>5, <2>6 DEF FleetInv
<1>. QED
  BY <1>1, <1>2, <1>3 DEF FleetNext, GiveUp, fleetVars

\* A sync is a step of discovery or leaves discovery alone.
LEMMA FleetIsDiscovery == [FleetNext]_fleetVars => [Next]_vars
BY DEF FleetNext, Run, Save, GiveUp, fleetVars

\* All of it, in every state of a sequence of syncs.
FleetKept == IInv /\ OutcomeInv /\ FlagsOK /\ FleetInv

\* At any time, whatever hosts and containers do.
THEOREM FleetInvariant == FleetSpec => []FleetKept
<1>1. FleetInit => FleetKept
  <2>. SUFFICES ASSUME FleetInit PROVE FleetKept
    OBVIOUS
  <2>1. IInv
    BY InitIInv DEF FleetInit
  <2>2. OutcomeInv
    <3>1. main = "idle" /\ hosts = <<>> /\ out = NoOutcome /\ DOMAIN hosts = {}
      BY DEF FleetInit, Init
    <3>. QED
      BY <3>1 DEF OutcomeInv
  <2>3. FlagsOK
    BY Zenon DEF FleetInit, FlagsOK
  <2>4. FleetInv
    <3>1. ~last.steady
      BY Zenon DEF FleetInit
    <3>2. file \in FleetFiles
      <4>1. file = [root |-> "blank", groups |-> <<>>]
        BY DEF FleetInit
      <4>. QED
        BY <4>1 DEF FleetFiles, M!Documents
    <3>3. DOMAIN hosts = {}
      BY DEF FleetInit, Init
    <3>. QED
      BY <3>1, <3>2, <3>3 DEF FleetInv
  <2>. QED
    BY <2>1, <2>2, <2>3, <2>4 DEF FleetKept
<1>2. FleetKept /\ [FleetNext]_fleetVars => FleetKept'
  BY StepIInv, OutcomeStep, FlagsStep, FleetStep, FleetIsDiscovery DEF FleetKept
<1>. QED
  BY <1>1, <1>2, PTL DEF FleetSpec

\* aggregateHostResults: however many hosts there are, when none answers the file stays as it is.
THEOREM OutagesKeepTheFile == FleetSpec => OutageKeepsFile
<1>1. FleetKept /\ [FleetNext]_fleetVars
        => [hosts # <<>> /\ (\A i \in DOMAIN hosts : result[i].err) => file' = file]_fleetVars
  <2>. SUFFICES ASSUME FleetKept, FleetNext, hosts # <<>>, \A i \in DOMAIN hosts : result[i].err
                PROVE  file' = file
    BY DEF fleetVars
  <2>1. ~Save
    <3>1. main = "done" /\ out.error = "none" => \E i \in DOMAIN hosts : ~result[i].err
      BY SavedServices DEF FleetKept
    <3>. QED
      BY <3>1 DEF Save
  <2>. QED
    BY <2>1 DEF FleetNext, Run, GiveUp
<1>. QED
  BY <1>1, FleetInvariant, PTL DEF FleetSpec, OutageKeepsFile

\* ADR 005: what a host answered is in the file after the sync, however many others failed.
THEOREM AnswersStay == FleetSpec => AnswersAreKept
<1>. DEFINE A == Save => \A i \in DOMAIN hosts : ~result[i].err =>
                   \A s \in ToSet(result[i].services) : Wanted(s).id \in EntryIds(file')
<1>1. FleetKept => A
  <2>. SUFFICES ASSUME FleetKept, Save, NEW i \in DOMAIN hosts, ~result[i].err,
                       NEW s \in ToSet(result[i].services)
                PROVE  Wanted(s).id \in EntryIds(file')
    OBVIOUS
  <2>1. file' \in FleetFiles /\ Clear(file', ToSet(out.services))
    BY SaveEffect DEF FleetKept
  <2>2. Apiece(ToSet(out.services)) /\ s \in ToSet(out.services)
    BY SavedServices DEF FleetKept, Save
  <2>. QED
    BY <2>1, <2>2, FleetShows
<1>. HIDE DEF A
<1>2. FleetKept => [A]_fleetVars
  BY <1>1
<1>. QED
  BY <1>2, FleetInvariant, PTL DEF AnswersAreKept, A

\* README, "zero diff": of two runs that every host answered, with no change in Docker between
\* the beginning of the first and the end of the second, the second reports nothing, whatever
\* went wrong before.
THEOREM QuietRunsAreQuiet == FleetSpec => QuietRunsReportNothing
<1>. DEFINE A == Save /\ Undisturbed /\ last.answered /\ last'.answered => report' = <<>>
<1>1. FleetKept => A
  <2>. SUFFICES ASSUME FleetKept, Save, Undisturbed, last.answered, last'.answered
                PROVE  report' = <<>>
    OBVIOUS
  <2>1. quiet /\ last.steady /\ last.hosts = hosts
    BY DEF Undisturbed
  <2>2. out.warnings = <<>>
    BY Zenon DEF Save
  <2>3. ToSet(out.services) = AllThere(hosts)
    BY <2>1, <2>2, SavedServices DEF FleetKept, Save
  <2>4. Clear(file, ToSet(out.services))
    BY <2>1, <2>3 DEF FleetKept, FleetInv
  <2>. QED
    BY <2>4, SaveEffect DEF FleetKept
<1>. HIDE DEF A
<1>2. FleetKept => [A]_fleetVars
  BY <1>1
<1>. QED
  BY <1>2, FleetInvariant, PTL DEF QuietRunsReportNothing, A
=============================================================================
