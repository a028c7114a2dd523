---------------------------- MODULE MergeProofs ----------------------------
(***************************************************************************)
(* What one call of Merge does, proved for every document, every list of   *)
(* desired groups and every policy.                                        *)
(*                                                                         *)
(* The notion everything turns on is Settled: every desired service has a  *)
(* verdict that changes nothing (Fine), every desired group is found and   *)
(* is a list (Done), and no group has an orphan.  A merge settles its      *)
(* document, and returns a settled one as it is.                           *)
(*                                                                         *)
(* The loops over services and groups are folds.  ServicesLoop and         *)
(* GroupsLoop turn each into the sequence of its rounds; SoFar and         *)
(* GroupsSoFar say what holds after k rounds, and are shown by induction.  *)
(***************************************************************************)
EXTENDS Merge, ListProofs

-----------------------------------------------------------------------------
(***************************************************************************)
(* Finding an entry.                                                       *)
(***************************************************************************)
\* The entry is managed for this service.
Mine(e, id) == IsManaged(e) /\ e.comment.id = id

\* findManagedIndex returns the first entry under the id's marker, or 0 where there is none.
LEMMA FoundIsFirst ==
  ASSUME NEW E, NEW items \in Seq(E), NEW id, NEW i, i = findManagedIndex(items, id)
  PROVE  \/ /\ i = 0
            /\ \A j \in DOMAIN items : ~Mine(items[j], id)
         \/ /\ i \in DOMAIN items /\ i # 0
            /\ Mine(items[i], id)
            /\ \A j \in DOMAIN items : j < i => ~Mine(items[j], id)
<1> DEFINE T == {k \in 1..Len(items) : Mine(items[k], id)}
<1>1. i = IF T # {} THEN Min(T) ELSE 0
  BY DEF findManagedIndex, SelectInSeq, Mine
<1>2. DOMAIN items = 1..Len(items) /\ Len(items) \in Nat  OBVIOUS
<1>3. CASE T = {}  BY <1>1, <1>2, <1>3
<1>4. CASE T # {}
  <2>1. Min(T) \in T /\ \A m \in T : Min(T) <= m
    <3>1. T \in SUBSET Nat  OBVIOUS
    <3> HIDE DEF T
    <3>2. QED  BY <3>1, <1>4, MinOfSome
  <2>2. i = Min(T)  BY <1>1, <1>4
  <2> HIDE <1>1
  <2>3. i \in T /\ \A m \in T : i <= m  BY <2>1, <2>2
  <2>4. i \in DOMAIN items /\ i # 0 /\ Mine(items[i], id)  BY <1>2, <2>3
  <2>5. ASSUME NEW j \in DOMAIN items, j < i, Mine(items[j], id) PROVE FALSE
    <3>1. j \in T /\ j \in Nat /\ i \in Nat  BY <1>2, <2>4, <2>5
    <3>2. i <= j  BY <3>1, <2>3
    <3>3. QED  BY <3>1, <3>2, <2>5
  <2>6. QED  BY <2>4, <2>5
<1>5. QED  BY <1>3, <1>4

\* ... and only that one.
LEMMA FirstIsFound ==
  ASSUME NEW E, NEW items \in Seq(E), NEW id,
         NEW i \in DOMAIN items, Mine(items[i], id),
         \A j \in DOMAIN items : j < i => ~Mine(items[j], id)
  PROVE  findManagedIndex(items, id) = i
<1> DEFINE k == findManagedIndex(items, id)
<1>1. \/ /\ k = 0
         /\ \A j \in DOMAIN items : ~Mine(items[j], id)
      \/ /\ k \in DOMAIN items /\ k # 0
         /\ Mine(items[k], id)
         /\ \A j \in DOMAIN items : j < k => ~Mine(items[j], id)
  BY FoundIsFirst
<1> HIDE DEF k
<1>2. DOMAIN items = 1..Len(items) /\ Len(items) \in Nat  OBVIOUS
<1>3. k \in DOMAIN items /\ ~(k < i) /\ ~(i < k)  BY <1>1
<1>4. k = i  BY <1>2, <1>3
<1>5. QED  BY <1>4 DEF k

\* ... and 0 only where there is none.
LEMMA NoneIsFound ==
  ASSUME NEW E, NEW items \in Seq(E), NEW id, \A j \in DOMAIN items : ~Mine(items[j], id)
  PROVE  findManagedIndex(items, id) = 0
<1> DEFINE k == findManagedIndex(items, id)
<1>1. \/ k = 0
      \/ k \in DOMAIN items /\ Mine(items[k], id)
  BY FoundIsFirst
<1> HIDE DEF k
<1>2. k = 0  BY <1>1
<1>3. QED  BY <1>2 DEF k

\* An appended entry is found only where nothing was found before.
LEMMA FoundAppend ==
  ASSUME NEW E, NEW items \in Seq(E), NEW e \in E, NEW id
  PROVE  findManagedIndex(Append(items, e), id) =
           IF findManagedIndex(items, id) # 0 THEN findManagedIndex(items, id)
           ELSE IF Mine(e, id) THEN Len(items) + 1 ELSE 0
<1> DEFINE t == Append(items, e)
           i == findManagedIndex(items, id)
<1>1. /\ t \in Seq(E) /\ Len(items) \in Nat
      /\ DOMAIN items = 1..Len(items) /\ DOMAIN t = 1..(Len(items) + 1)
      /\ t[Len(items) + 1] = e
      /\ \A j \in DOMAIN items : t[j] = items[j]
  OBVIOUS
<1>2. \/ /\ i = 0
         /\ \A j \in DOMAIN items : ~Mine(items[j], id)
      \/ /\ i \in DOMAIN items /\ i # 0
         /\ Mine(items[i], id)
         /\ \A j \in DOMAIN items : j < i => ~Mine(items[j], id)
  BY FoundIsFirst
<1> HIDE DEF t, i
<1>3. CASE i # 0
  <2>1. i \in DOMAIN t /\ t[i] = items[i] /\ i <= Len(items)  BY <1>1, <1>2, <1>3
  <2>2. Mine(t[i], id)  BY <1>2, <1>3, <2>1
  <2>3. ASSUME NEW j \in DOMAIN t, j < i PROVE ~Mine(t[j], id)
    <3>1. j \in DOMAIN items /\ t[j] = items[j]  BY <1>1, <2>1, <2>3
    <3>2. QED  BY <1>2, <1>3, <2>3, <3>1
  <2>4. findManagedIndex(t, id) = i  BY <1>1, <2>1, <2>2, <2>3, FirstIsFound
  <2>5. QED  BY <2>4, <1>3 DEF t, i
<1>4. CASE i = 0 /\ Mine(e, id)
  <2> DEFINE n == Len(items) + 1
  <2>1. n \in DOMAIN t /\ Mine(t[n], id)  BY <1>1, <1>4
  <2>2. ASSUME NEW j \in DOMAIN t, j < n PROVE ~Mine(t[j], id)
    <3>1. j \in DOMAIN items /\ t[j] = items[j]  BY <1>1, <2>2
    <3>2. QED  BY <1>2, <1>4, <3>1
  <2> HIDE DEF n
  <2>3. findManagedIndex(t, id) = n  BY <1>1, <2>1, <2>2, FirstIsFound
  <2>4. QED  BY <2>3, <1>4 DEF t, i, n
<1>5. CASE i = 0 /\ ~Mine(e, id)
  <2>1. ASSUME NEW j \in DOMAIN t PROVE ~Mine(t[j], id)
    <3>1. j \in DOMAIN items \/ j = Len(items) + 1  BY <1>1
    <3>2. QED  BY <1>1, <1>2, <1>5, <3>1
  <2>2. findManagedIndex(t, id) = 0  BY <1>1, <2>1, NoneIsFound
  <2>3. QED  BY <2>2, <1>5 DEF t, i
<1>6. QED  BY <1>3, <1>4, <1>5

\* The entry of a service is still found first when others are dropped.
LEMMA OnlyKeepsFound ==
  ASSUME NEW E, NEW items \in Seq(E), NEW Q, NEW id,
         findManagedIndex(items, id) # 0,
         items[findManagedIndex(items, id)] \in Q
  PROVE  LET k == findManagedIndex(Only(items, Q), id)
         IN  k # 0 /\ Only(items, Q)[k] = items[findManagedIndex(items, id)]
<1> DEFINE F(t) == findManagedIndex(t, id)
           Stays(t) == F(t) # 0 /\ t[F(t)] \in Q => F(Only(t, Q)) # 0 /\ Only(t, Q)[F(Only(t, Q))] = t[F(t)]
           G == {t \in Seq(E) : Stays(t)}
<1>1. <<>> \in G
  <2>1. F(<<>>) = 0
    <3>1. <<>> \in Seq(E) /\ DOMAIN <<>> = {}  OBVIOUS
    <3>2. \A j \in DOMAIN <<>> : ~Mine(<<>>[j], id)  BY <3>1
    <3>3. QED  BY <3>1, <3>2, NoneIsFound
  <2>2. QED  BY <2>1
<1>2. ASSUME NEW t \in Seq(E), NEW e \in E, t \in G PROVE Append(t, e) \in G
  <2> DEFINE a == Append(t, e)
             o == Only(t, Q)
  <2>1. /\ a \in Seq(E) /\ Len(t) \in Nat /\ a[Len(t) + 1] = e
        /\ DOMAIN t = 1..Len(t) /\ \A j \in DOMAIN t : a[j] = t[j]
    OBVIOUS
  <2>2. o \in Seq(E) /\ Only(a, Q) = IF e \in Q THEN Append(o, e) ELSE o
    BY ONLY OnlyAppend, t \in Seq(E), e \in E
  <2>3. F(a) = IF F(t) # 0 THEN F(t) ELSE IF Mine(e, id) THEN Len(t) + 1 ELSE 0
    BY FoundAppend
  <2>4. F(Append(o, e)) = IF F(o) # 0 THEN F(o) ELSE IF Mine(e, id) THEN Len(o) + 1 ELSE 0
    BY <2>2, FoundAppend
  <2>5. /\ F(t) # 0 => F(t) \in DOMAIN t
        /\ F(t) = 0 => \A j \in DOMAIN t : ~Mine(t[j], id)
        /\ F(o) # 0 => F(o) \in DOMAIN o
    <3>1. \/ F(t) = 0 /\ \A j \in DOMAIN t : ~Mine(t[j], id)
          \/ F(t) \in DOMAIN t /\ F(t) # 0
      BY FoundIsFirst
    <3>2. F(o) = 0 \/ F(o) \in DOMAIN o
      <4> HIDE DEF o
      <4>1. QED  BY <2>2, FoundIsFirst
    <3>3. QED  BY <3>1, <3>2
  <2>6. /\ DOMAIN o = 1..Len(o) /\ Len(o) \in Nat
        /\ \A j \in DOMAIN o : Append(o, e)[j] = o[j]
        /\ Append(o, e)[Len(o) + 1] = e
    BY <2>2
  <2>7. Stays(t)  BY <1>2
  <2> SUFFICES ASSUME F(a) # 0, a[F(a)] \in Q
               PROVE  F(Only(a, Q)) # 0 /\ Only(a, Q)[F(Only(a, Q))] = a[F(a)]
    BY <2>1
  <2>8. CASE F(t) # 0
    <3>1. F(a) = F(t) /\ a[F(a)] = t[F(t)]  BY <2>1, <2>3, <2>5, <2>8
    <3>2. F(o) # 0 /\ o[F(o)] = t[F(t)] /\ F(o) \in DOMAIN o  BY <2>5, <2>7, <2>8, <3>1
    <3>3. F(Append(o, e)) = F(o) /\ Append(o, e)[F(o)] = o[F(o)]  BY <2>4, <2>6, <3>2
    <3>4. Only(a, Q) = Append(o, e) \/ Only(a, Q) = o  BY <2>2
    <3> HIDE DEF a, o, F
    <3>5. QED  BY <3>1, <3>2, <3>3, <3>4
  <2>9. CASE F(t) = 0
    <3>1. F(a) = Len(t) + 1 /\ a[F(a)] = e /\ e \in Q /\ Mine(e, id)  BY <2>1, <2>3, <2>9
    <3>2. ASSUME NEW j \in DOMAIN o PROVE ~Mine(o[j], id)
      <4>1. ToSet(o) = ToSet(t) \cap Q  BY OnlyElements
      <4>2. o[j] \in ToSet(o)  BY DEF ToSet
      <4>3. PICK i \in DOMAIN t : o[j] = t[i]  BY <4>1, <4>2 DEF ToSet
      <4>4. QED  BY <2>5, <2>9, <4>3
    <3>3. F(o) = 0
      <4> HIDE DEF o
      <4>1. QED  BY <2>2, <3>2, NoneIsFound
    <3>4. F(Append(o, e)) = Len(o) + 1 /\ Append(o, e)[Len(o) + 1] = e  BY <2>4, <2>6, <3>1, <3>3
    <3>5. Only(a, Q) = Append(o, e) /\ Len(o) + 1 # 0  BY <2>2, <2>6, <3>1
    <3> HIDE DEF a, o, F
    <3>6. QED  BY <3>1, <3>4, <3>5
  <2>10. QED  BY <2>8, <2>9
<1> HIDE DEF G
<1>3. items \in G  BY <1>1, <1>2, SeqInduction
<1>4. QED  BY <1>3 DEF G
-----------------------------------------------------------------------------
(***************************************************************************)
(* One service.                                                            *)
(***************************************************************************)
\* A service whose marker is one and whose entry can be read back.
Proper(svc) == svc.id # Absent /\ Hash[svc.body] # Absent /\ svc.body # Unreadable

\* What dashsync writes for a service is found under its id, and is not taken for edited.
LEMMA RenderedIsMine ==
  ASSUME NEW svc, Proper(svc)
  PROVE  /\ Mine(Rendered(svc), svc.id) /\ IsManaged(Rendered(svc))
         /\ Rendered(svc).comment.id = svc.id
         /\ Rendered(svc).body = svc.body
         /\ ~HandEdited(Rendered(svc))
<1> DEFINE e == Rendered(svc)
<1>1. e.comment = buildMarker(svc.id, Hash[svc.body]) /\ e.body = svc.body
  BY DEF Rendered
<1>2. /\ e.comment.kind = "marker" /\ e.comment.id = svc.id
      /\ e.comment.content = Hash[svc.body]
  BY <1>1 DEF buildMarker
<1> HIDE DEF e
<1>3. IsManaged(e) /\ ~HandEdited(e) /\ Mine(e, svc.id)
  BY <1>1, <1>2 DEF IsManaged, IsMarker, HandEdited, Mine, Proper
<1>4. QED  BY <1>1, <1>2, <1>3 DEF e

\* A verdict depends on the entry that is found, and on nothing else.
LEMMA SameVerdict ==
  ASSUME NEW items, NEW now, NEW svc, NEW policy,
         LET i == findManagedIndex(items, svc.id)
             j == findManagedIndex(now, svc.id)
         IN  \/ i = 0 /\ j = 0
             \/ i # 0 /\ j # 0 /\ items[i] = now[j]
  PROVE  Verdict(now, svc, policy) = Verdict(items, svc, policy)
BY DEF Verdict

\* applyDesired leaves the items alone, appends the rendered entry or puts it where the old one is.
LEMMA ApplyEffect ==
  ASSUME NEW E, NEW items \in Seq(E), NEW svc, Proper(svc), Rendered(svc) \in E, NEW policy,
         NEW now, now = ApplyService(items, svc, policy)
  PROVE  \/ /\ Verdict(items, svc, policy) \notin {"added", "updated"}
            /\ now = items
         \/ /\ Verdict(items, svc, policy) = "added"
            /\ now = Append(items, Rendered(svc))
            /\ findManagedIndex(items, svc.id) = 0
         \/ /\ Verdict(items, svc, policy) = "updated"
            /\ findManagedIndex(items, svc.id) \in DOMAIN items
            /\ Mine(items[findManagedIndex(items, svc.id)], svc.id)
            /\ now = [items EXCEPT ![findManagedIndex(items, svc.id)] = Rendered(svc)]
<1> DEFINE i == findManagedIndex(items, svc.id)
           v == Verdict(items, svc, policy)
<1>1. \/ i = 0
      \/ i \in DOMAIN items /\ i # 0 /\ Mine(items[i], svc.id)
  BY FoundIsFirst
<1>2. (v = "added" => i = 0) /\ (v = "updated" => i # 0)  BY DEF Verdict
<1>3. now = IF v = "added" THEN Append(items, Rendered(svc))
            ELSE IF v = "updated" THEN [items EXCEPT ![i] = Rendered(svc)]
            ELSE items
  BY DEF ApplyService
<1> HIDE DEF i, v
<1>4. \/ v \notin {"added", "updated"} /\ now = items
      \/ v = "added" /\ now = Append(items, Rendered(svc)) /\ i = 0
      \/ /\ v = "updated" /\ i \in DOMAIN items /\ Mine(items[i], svc.id)
         /\ now = [items EXCEPT ![i] = Rendered(svc)]
  BY <1>1, <1>2, <1>3
<1>5. QED  BY <1>4 DEF i, v

\* applyDesired returns a list of entries.
LEMMA ApplyTypes ==
  ASSUME NEW E, NEW items \in Seq(E), NEW svc, Proper(svc), Rendered(svc) \in E, NEW policy
  PROVE  ApplyService(items, svc, policy) \in Seq(E)
<1> DEFINE now == ApplyService(items, svc, policy)
           i == findManagedIndex(items, svc.id)
           r == Rendered(svc)
<1>1. \/ now = items
      \/ now = Append(items, r)
      \/ i \in DOMAIN items /\ now = [items EXCEPT ![i] = r]
  BY ApplyEffect
<1>2. r \in E  OBVIOUS
<1> HIDE DEF now, i, r
<1>3. CASE now = items  BY <1>3 DEF now
<1>4. CASE now = Append(items, r)
  <2>1. now \in Seq(E)  BY <1>2, <1>4
  <2>2. QED  BY <2>1 DEF now
<1>5. CASE i \in DOMAIN items /\ now = [items EXCEPT ![i] = r]
  <2>1. now \in Seq(E)  BY <1>2, <1>5
  <2>2. QED  BY <2>1 DEF now
<1>6. QED  BY <1>1, <1>3, <1>4, <1>5

\* Hand-written entries stay where they are.
LEMMA ApplyKeepsHand ==
  ASSUME NEW E, NEW items \in Seq(E), NEW svc, Proper(svc), Rendered(svc) \in E, NEW policy
  PROVE  Unmanaged(ApplyService(items, svc, policy)) = Unmanaged(items)
<1> DEFINE now == ApplyService(items, svc, policy)
           i == findManagedIndex(items, svc.id)
           r == Rendered(svc)
           Own(t) == {e \in ToSet(t) : ~IsManaged(e)}
<1>1. \/ now = items
      \/ now = Append(items, r)
      \/ i \in DOMAIN items /\ Mine(items[i], svc.id) /\ now = [items EXCEPT ![i] = r]
  BY ApplyEffect
<1>2. r \in E /\ IsManaged(r)  BY RenderedIsMine
<1> HIDE DEF now, i, r
<1>3. CASE now = items  BY <1>3 DEF now
<1>4. CASE now = Append(items, r)
  <2> DEFINE Q == Own(now)
  <2>1. r \notin Q  BY <1>2
  <2>2. Only(Append(items, r), Q) = Only(items, Q)
    <3> HIDE DEF Q
    <3>1. Only(Append(items, r), Q) = IF r \in Q THEN Append(Only(items, Q), r) ELSE Only(items, Q)
      BY ONLY OnlyAppend, items \in Seq(E), <1>2
    <3>2. QED  BY <3>1, <2>1
  <2>3. ASSUME NEW k \in DOMAIN items PROVE items[k] \in Q <=> items[k] \in Own(items)
    <3>1. now[k] = items[k] /\ k \in DOMAIN now  BY <1>2, <1>4
    <3>2. items[k] \in ToSet(now) /\ items[k] \in ToSet(items)  BY <3>1 DEF ToSet
    <3>3. QED  BY <3>2
  <2>4. Only(items, Q) = Only(items, Own(items))
    <3> DEFINE P == Own(items)
    <3>1. \A k \in DOMAIN items : items[k] \in Q <=> items[k] \in P  BY <2>3
    <3> HIDE DEF P, Q
    <3>2. Only(items, Q) = Only(items, P)  BY <3>1, OnlySame
    <3>3. QED  BY <3>2 DEF P
  <2>5. QED  BY <1>4, <2>2, <2>4 DEF Unmanaged, now
<1>5. CASE i \in DOMAIN items /\ Mine(items[i], svc.id) /\ now = [items EXCEPT ![i] = r]
  <2> DEFINE P == Own(items)
             Q == Own(now)
  <2>1. DOMAIN now = DOMAIN items  BY <1>5
  <2>2. ASSUME NEW k \in DOMAIN items
        PROVE  /\ items[k] \in P <=> now[k] \in Q
               /\ items[k] \in P => items[k] = now[k]
    <3>1. items[k] \in ToSet(items) /\ now[k] \in ToSet(now)  BY <2>1 DEF ToSet
    <3>2. CASE k = i
      <4>1. IsManaged(items[k]) /\ IsManaged(now[k])  BY <1>2, <1>5, <3>2 DEF Mine
      <4>2. QED  BY <4>1
    <3>3. CASE k # i
      <4>1. now[k] = items[k]  BY <1>5, <3>3
      <4>2. QED  BY <3>1, <4>1
    <3>4. QED  BY <3>2, <3>3
  <2> HIDE DEF P, Q
  <2>3. Only(items, P) = Only(now, Q)  BY <2>1, <2>2, OnlySame
  <2>4. QED  BY <2>3 DEF Unmanaged, P, Q, now
<1>6. QED  BY <1>1, <1>3, <1>4, <1>5
\* Once a service has been dealt with, there is nothing left to do for it, ...
LEMMA ApplySettles ==
  ASSUME NEW E, NEW items \in Seq(E), NEW svc, Proper(svc), Rendered(svc) \in E,
         NEW policy \in Policies,
         Verdict(items, svc, policy) \notin {"unreadable", "refused"}
  PROVE  Verdict(ApplyService(items, svc, policy), svc, policy) \in {"same", "conflict"}
<1> DEFINE now == ApplyService(items, svc, policy)
           i == findManagedIndex(items, svc.id)
           j == findManagedIndex(now, svc.id)
           r == Rendered(svc)
<1>0. now \in Seq(E)  BY ApplyTypes
<1>1. \/ Verdict(items, svc, policy) \notin {"added", "updated"} /\ now = items
      \/ now = Append(items, r) /\ i = 0
      \/ i \in DOMAIN items /\ Mine(items[i], svc.id) /\ now = [items EXCEPT ![i] = r]
  BY ApplyEffect
<1>2. /\ r \in E /\ Mine(r, svc.id)
      /\ r.body = svc.body /\ svc.body # Unreadable /\ ~HandEdited(r)
  BY RenderedIsMine DEF Proper
<1>3. \/ i = 0 /\ \A k \in DOMAIN items : ~Mine(items[k], svc.id)
      \/ /\ i \in DOMAIN items /\ i # 0
         /\ Mine(items[i], svc.id)
         /\ \A k \in DOMAIN items : k < i => ~Mine(items[k], svc.id)
  BY FoundIsFirst
<1>4. j # 0 /\ now[j] = r => Verdict(now, svc, policy) = "same"
  BY <1>2 DEF Verdict
<1> HIDE DEF now, i, j, r
<1>5. CASE Verdict(items, svc, policy) \notin {"added", "updated"} /\ now = items
  <2>1. Verdict(items, svc, policy) \in {"same", "conflict"}  BY <1>5 DEF Verdict
  <2>2. QED  BY <1>5, <2>1 DEF now
<1>6. CASE now = Append(items, r) /\ i = 0
  <2>1. findManagedIndex(Append(items, r), svc.id) = Len(items) + 1
    <3>1. findManagedIndex(Append(items, r), svc.id) =
            IF findManagedIndex(items, svc.id) # 0 THEN findManagedIndex(items, svc.id)
            ELSE IF Mine(r, svc.id) THEN Len(items) + 1 ELSE 0
      BY <1>2, FoundAppend
    <3>2. QED  BY <3>1, <1>2, <1>6 DEF i
  <2>2. j = Len(items) + 1 /\ Len(items) \in Nat /\ now[Len(items) + 1] = r
    BY <1>6, <2>1 DEF j
  <2>3. j # 0 /\ now[j] = r  BY <2>2
  <2>4. QED  BY <1>4, <2>3 DEF now
<1>7. CASE i \in DOMAIN items /\ Mine(items[i], svc.id) /\ now = [items EXCEPT ![i] = r]
  <2>1. /\ DOMAIN now = DOMAIN items /\ now[i] = r
        /\ \A k \in DOMAIN items : k # i => now[k] = items[k]
    BY <1>7
  <2>2. \A k \in DOMAIN now : k < i => ~Mine(now[k], svc.id)
    <3> SUFFICES ASSUME NEW k \in DOMAIN items, k < i PROVE ~Mine(now[k], svc.id)  BY <2>1
    <3>1. DOMAIN items = 1..Len(items)  OBVIOUS
    <3>2. k # i  BY <3>1, <1>7
    <3>3. QED  BY <3>2, <2>1, <1>3, <1>7
  <2>3. Mine(now[i], svc.id) /\ i \in DOMAIN now  BY <2>1, <1>2, <1>7
  <2>4. j = i  BY <1>0, <2>2, <2>3, FirstIsFound DEF j
  <2>5. i # 0  BY <1>3, <1>7
  <2>6. QED  BY <1>4, <2>1, <2>4, <2>5 DEF now
<1>8. QED  BY <1>1, <1>5, <1>6, <1>7

\* ... and nothing that was dealt with before is disturbed.
LEMMA ApplyKeepsVerdict ==
  ASSUME NEW E, NEW items \in Seq(E), NEW svc, Proper(svc), Rendered(svc) \in E, NEW policy,
         NEW other, other.id # svc.id
  PROVE  Verdict(ApplyService(items, svc, policy), other, policy) = Verdict(items, other, policy)
<1> DEFINE now == ApplyService(items, svc, policy)
           k == findManagedIndex(items, svc.id)
           i == findManagedIndex(items, other.id)
           j == findManagedIndex(now, other.id)
           r == Rendered(svc)
<1>0. now \in Seq(E)  BY ApplyTypes
<1>1. \/ now = items
      \/ now = Append(items, r)
      \/ k \in DOMAIN items /\ Mine(items[k], svc.id) /\ now = [items EXCEPT ![k] = r]
  BY ApplyEffect
<1>2. r \in E /\ ~Mine(r, other.id)
  BY RenderedIsMine DEF Mine
<1>3. \/ i = 0 /\ \A l \in DOMAIN items : ~Mine(items[l], other.id)
      \/ /\ i \in DOMAIN items /\ i # 0
         /\ Mine(items[i], other.id)
         /\ \A l \in DOMAIN items : l < i => ~Mine(items[l], other.id)
  BY FoundIsFirst
<1> SUFFICES \/ i = 0 /\ j = 0
             \/ i # 0 /\ j # 0 /\ items[i] = now[j]
  BY SameVerdict
<1> HIDE DEF now, i, j, k, r
<1>5. CASE now = items
  <2>1. i = j  BY <1>5 DEF i, j
  <2>2. QED  BY <1>3, <1>5, <2>1
<1>6. CASE now = Append(items, r)
  <2>1. j = i
    <3>1. findManagedIndex(Append(items, r), other.id) =
            IF findManagedIndex(items, other.id) # 0 THEN findManagedIndex(items, other.id)
            ELSE IF Mine(r, other.id) THEN Len(items) + 1 ELSE 0
      BY <1>2, FoundAppend
    <3>2. QED  BY <3>1, <1>2, <1>6 DEF i, j
  <2>2. \A l \in DOMAIN items : now[l] = items[l]  BY <1>6, <1>2
  <2>3. QED  BY <2>1, <2>2, <1>3
<1>7. CASE k \in DOMAIN items /\ Mine(items[k], svc.id) /\ now = [items EXCEPT ![k] = r]
  <2>1. /\ DOMAIN now = DOMAIN items /\ now[k] = r
        /\ \A l \in DOMAIN items : l # k => now[l] = items[l]
    BY <1>7
  <2>2. ~Mine(items[k], other.id)  BY <1>7 DEF Mine
  <2>3. \A l \in DOMAIN items : Mine(now[l], other.id) => Mine(items[l], other.id)
    <3> SUFFICES ASSUME NEW l \in DOMAIN items, Mine(now[l], other.id)
                 PROVE  Mine(items[l], other.id)
      OBVIOUS
    <3>1. l # k  BY <2>1, <1>2
    <3>2. QED  BY <3>1, <2>1
  <2>4. CASE i = 0
    <3>1. \A l \in DOMAIN now : ~Mine(now[l], other.id)  BY <2>1, <2>3, <1>3, <2>4
    <3>2. j = 0  BY <1>0, <3>1, NoneIsFound DEF j
    <3>3. QED  BY <2>4, <3>2
  <2>5. CASE i # 0
    <3>1. i \in DOMAIN now /\ now[i] = items[i] /\ Mine(now[i], other.id)
      <4>1. i # k  BY <1>3, <2>2, <2>5
      <4>2. QED  BY <4>1, <2>1, <1>3, <2>5
    <3>2. \A l \in DOMAIN now : l < i => ~Mine(now[l], other.id)  BY <2>1, <2>3, <1>3, <2>5
    <3>3. j = i  BY <1>0, <3>1, <3>2, FirstIsFound DEF j
    <3>4. QED  BY <2>5, <3>1, <3>3
  <2>6. QED  BY <2>4, <2>5
<1>8. QED  BY <1>1, <1>5, <1>6, <1>7

-----------------------------------------------------------------------------
(***************************************************************************)
(* Work in progress, and the services of one group.                        *)
(***************************************************************************)
\* The verdicts that end a merge.
Refusals == {"unreadable", "refused"}

Errors == {Absent, "notList"} \cup Refusals

\* What the loops of a merge have in hand.
Works(N, E, C) == [error : Errors, groups : Seq(GroupsOf(N, E)), changes : Seq(C)]

\* N holds the names, E the entries, C the changes and S the services of a merge.
Setting(N, E, C, S) ==
  /\ \A s \in S : /\ Proper(s)
                  /\ Rendered(s) \in E
                  /\ \A kind \in Reported, n \in N : [kind |-> kind, id |-> s.id, group |-> n] \in C
  /\ \A e \in E, n \in N : [kind |-> "removed", id |-> e.comment.id, group |-> n] \in C

\* No error is the empty string.
LEMMA AbsentIsNoError ==
  Absent # "root" /\ Absent # "notList" /\ Absent # "unreadable" /\ Absent # "refused"
BY Zenon DEF Absent

\* The items of one group replaced.
WithItems(groups, gi, items) == [groups EXCEPT ![gi] = [groups[gi] EXCEPT !.items = items]]

\* Replacing the items of one group touches nothing else.
LEMMA WithItemsTypes ==
  ASSUME NEW N, NEW E, NEW groups \in Seq(GroupsOf(N, E)), NEW gi \in DOMAIN groups,
         groups[gi].shape = "list", NEW items \in Seq(E), NEW now, now = WithItems(groups, gi, items)
  PROVE  /\ now \in Seq(GroupsOf(N, E))
         /\ DOMAIN now = DOMAIN groups /\ Len(now) = Len(groups)
         /\ now[gi].name = groups[gi].name
         /\ now[gi].shape = groups[gi].shape
         /\ now[gi].items = items
         /\ \A i \in DOMAIN groups : i # gi => now[i] = groups[i]
<1> DEFINE g == [groups[gi] EXCEPT !.items = items]
<1>1. groups[gi] \in GroupsOf(N, E)  OBVIOUS
<1>2. g \in GroupsOf(N, E) /\ g.name = groups[gi].name /\ g.shape = groups[gi].shape /\ g.items = items
  BY <1>1 DEF GroupsOf
<1>3. now = [groups EXCEPT ![gi] = g]  BY DEF WithItems
<1> HIDE DEF g
<1>4. QED  BY <1>2, <1>3

\* What MergeService makes of the work w.
OneMore(w, now, gi, svc, policy) ==
  LET items   == w.groups[gi].items
      verdict == Verdict(items, svc, policy)
      change  == [kind |-> verdict, id |-> svc.id, group |-> w.groups[gi].name]
  IN  \/ Failed(w) /\ now = w
      \/ /\ ~Failed(w) /\ verdict \in Refusals
         /\ Failed(now) /\ now.groups = w.groups /\ now.changes = w.changes
      \/ /\ ~Failed(w) /\ verdict \notin Refusals
         /\ ~Failed(now)
         /\ now.groups = WithItems(w.groups, gi, ApplyService(items, svc, policy))
         /\ now.changes = IF verdict \in Reported THEN Append(w.changes, change) ELSE w.changes

\* One round of the loop over the services, in the three ways it can end.
LEMMA ServiceEffect ==
  ASSUME NEW N, NEW E, NEW C, NEW S, Setting(N, E, C, S),
         NEW w \in Works(N, E, C), NEW gi \in DOMAIN w.groups, w.groups[gi].shape = "list",
         NEW svc \in S, NEW policy, NEW now, now = MergeService(w, gi, svc, policy)
  PROVE  /\ now \in Works(N, E, C)
         /\ gi \in DOMAIN now.groups
         /\ now.groups[gi].shape = "list"
         /\ OneMore(w, now, gi, svc, policy)
<1> DEFINE items   == w.groups[gi].items
           verdict == Verdict(items, svc, policy)
           change  == [kind |-> verdict, id |-> svc.id, group |-> w.groups[gi].name]
           applied == ApplyService(items, svc, policy)
           changes == IF verdict \in Reported THEN Append(w.changes, change) ELSE w.changes
<1>1. /\ w.groups \in Seq(GroupsOf(N, E)) /\ w.changes \in Seq(C) /\ w.error \in Errors
      /\ w = [error |-> w.error, groups |-> w.groups, changes |-> w.changes]
  BY DEF Works
<1>2. w.groups[gi] \in GroupsOf(N, E)  BY <1>1
<1>3. items \in Seq(E) /\ w.groups[gi].name \in N  BY <1>2 DEF GroupsOf
<1>4. applied \in Seq(E)  BY <1>3, ApplyTypes DEF Setting
<1>5. verdict \in Reported => change \in C  BY <1>3 DEF Setting
<1>6. changes \in Seq(C)  
  <2> HIDE DEF change, verdict
  <2>1. QED  BY <1>1, <1>5
<1>7. now = IF Failed(w) THEN w
            ELSE IF verdict \in Refusals THEN [w EXCEPT !.error = verdict]
            ELSE [w EXCEPT !.groups[gi].items = applied, !.changes = changes]
  BY DEF MergeService, Refusals
<1> HIDE DEF items, verdict, change, applied, changes
<1>8. CASE Failed(w)  BY <1>7, <1>8 DEF OneMore
<1>9. CASE ~Failed(w) /\ verdict \in Refusals
  <2>1. now = [error |-> verdict, groups |-> w.groups, changes |-> w.changes]
    BY <1>1, <1>7, <1>9
  <2>2. verdict \in Errors /\ verdict # Absent  BY <1>9, AbsentIsNoError DEF Refusals, Errors
  <2>3. now \in Works(N, E, C)  BY <1>1, <2>1, <2>2 DEF Works
  <2>4. Failed(now)  BY <2>1, <2>2 DEF Failed
  <2>5. QED  BY <1>9, <2>1, <2>3, <2>4 DEF items, verdict, OneMore
<1>10. CASE ~Failed(w) /\ verdict \notin Refusals
  <2> DEFINE groups == WithItems(w.groups, gi, applied)
  <2>1. now = [error |-> w.error, groups |-> groups, changes |-> changes]
    BY <1>1, <1>7, <1>10 DEF WithItems
  <2>2. /\ groups \in Seq(GroupsOf(N, E)) /\ DOMAIN groups = DOMAIN w.groups
        /\ groups[gi].shape = "list"
    BY <1>1, <1>4, WithItemsTypes
  <2> HIDE DEF groups
  <2>3. now \in Works(N, E, C)  BY <1>1, <1>6, <2>1, <2>2 DEF Works
  <2>4. now.error = w.error /\ now.groups = groups /\ now.changes = changes  BY <2>1
  <2>5. ~Failed(now)  BY <1>10, <2>4 DEF Failed
  <2>6. QED  BY <1>10, <2>2, <2>3, <2>4, <2>5 DEF items, verdict, change, changes, applied, groups, OneMore
<1>11. QED  BY <1>8, <1>9, <1>10

\* The loop over the services of a group, as the sequence of its rounds.
LEMMA ServicesLoop ==
  ASSUME NEW N, NEW E, NEW C, NEW S, Setting(N, E, C, S),
         NEW work \in Works(N, E, C), NEW gi \in DOMAIN work.groups,
         work.groups[gi].shape = "list", NEW services \in Seq(S), NEW policy
  PROVE  \E f :
           /\ f[0] = work
           /\ \A k \in 1..Len(services) :
                f[k] = MergeService(f[k - 1], gi, services[k], policy)
           /\ MergeServices(work, gi, services, policy) = f[Len(services)]
<1> DEFINE n == Len(services)
           W == {w \in Works(N, E, C) : gi \in DOMAIN w.groups /\ w.groups[gi].shape = "list"}
           F == [i \in 1..n |-> [w \in W |-> MergeService(w, gi, services[i], policy)]]
<1>0. n \in Nat /\ DOMAIN services = 1..n /\ \A i \in 1..n : services[i] \in S  OBVIOUS
<1>1. work \in W  OBVIOUS
<1>2. ASSUME NEW i \in 1..n, NEW w \in W PROVE MergeService(w, gi, services[i], policy) \in W
  <2> DEFINE now == MergeService(w, gi, services[i], policy)
  <2>1. services[i] \in S  BY <1>0
  <2>2. w \in Works(N, E, C) /\ gi \in DOMAIN w.groups /\ w.groups[gi].shape = "list"  OBVIOUS
  <2>a. now = MergeService(w, gi, services[i], policy)  OBVIOUS
  <2> DEFINE svc == services[i]
  <2>b. svc \in S /\ now = MergeService(w, gi, svc, policy)  BY <2>1, <2>a
  <2> HIDE DEF now, svc
  <2>3. /\ now \in Works(N, E, C)
        /\ gi \in DOMAIN now.groups /\ now.groups[gi].shape = "list"
    BY ONLY <2>2, <2>b, ServiceEffect, Setting(N, E, C, S)
  <2>4. now \in W  BY <2>3
  <2>5. QED  BY <2>4 DEF now
<1>3. \A i \in 1..n : \A w \in W : F[i][w] \in W /\ F[i][w] = MergeService(w, gi, services[i], policy)
  BY <1>2
<1>4. PICK f : Folds(n, work, F, f)
  <2> HIDE DEF n, F, W
  <2>1. QED  BY <1>0, FoldsExist
<1>5. \A s \in SUBSET (1..n) : f[s] \in W
  <2> HIDE DEF n, F, W
  <2>1. QED  BY <1>0, <1>1, <1>3, <1>4, FoldsStay
<1> DEFINE Adds(h) ==
      h = [s \in SUBSET DOMAIN services |->
             IF s = {} THEN work
             ELSE MergeService(h[s \ {Max(s)}], gi, services[Max(s)], policy)]
           it == CHOOSE h : Adds(h)
<1>6. MergeServices(work, gi, services, policy) = it[DOMAIN services]
  BY DEF MergeServices, FoldLeft, MapThenFoldSet
<1>7. ASSUME NEW s \in SUBSET (1..n)
      PROVE  f[s] = IF s = {} THEN work
                    ELSE MergeService(f[s \ {Max(s)}], gi, services[Max(s)], policy)
  <2> HIDE DEF F, W, n
  <2>1. f[s] = IF s = {} THEN work ELSE F[Max(s)][f[s \ {Max(s)}]]  BY <1>4 DEF Folds
  <2>2. CASE s # {}
    <3>1. Max(s) \in 1..n  BY <1>0, <2>2, MaxOfSome
    <3>2. f[s \ {Max(s)}] \in W  BY <1>5
    <3>3. QED  BY <1>3, <2>1, <2>2, <3>1, <3>2
  <2>3. QED  BY <2>1, <2>2
<1>8. f = [s \in SUBSET (1..n) |-> f[s]]  BY <1>4 DEF Folds
<1>9. Adds(f)
  <2> HIDE DEF F, W, n
  <2>1. f = [s \in SUBSET (1..n) |-> IF s = {} THEN work
                    ELSE MergeService(f[s \ {Max(s)}], gi, services[Max(s)], policy)]
    BY <1>7, <1>8
  <2>2. QED  BY <1>0, <2>1
<1>10. Adds(it)
  <2> HIDE DEF Adds
  <2>1. QED  BY <1>9
<1>11. ASSUME NEW s \in SUBSET (1..n)
       PROVE  it[s] = IF s = {} THEN work
                      ELSE MergeService(it[s \ {Max(s)}], gi, services[Max(s)], policy)
  <2> HIDE DEF it
  <2>1. QED  BY <1>0, <1>10
<1> DEFINE g == [k \in 0..n |-> it[1..k]]
<1> HIDE DEF it, F, W, Adds, n
<1>12. g[0] = work
  <2>1. 1..0 \in SUBSET (1..n) /\ 1..0 = {} /\ 0 \in 0..n  BY <1>0
  <2>2. g[0] = it[1..0]  BY <2>1
  <2>3. QED  BY <1>11, <2>1, <2>2
<1>13. ASSUME NEW k \in 1..n PROVE g[k] = MergeService(g[k - 1], gi, services[k], policy)
  <2>1. k \in 0..n /\ k - 1 \in 0..n  BY <1>0
  <2>2. /\ 1..k \in SUBSET (1..n) /\ 1..k # {}
        /\ Max(1..k) = k /\ (1..k) \ {k} = 1..(k - 1)
    BY <1>0, TopOfPrefix
  <2>3. it[1..k] = MergeService(it[1..(k - 1)], gi, services[k], policy)
    BY <1>11, <2>2
  <2>4. g[k] = it[1..k] /\ g[k - 1] = it[1..(k - 1)]  BY <2>1
  <2>5. QED  BY <2>3, <2>4
<1>14. g[n] = it[DOMAIN services]  BY <1>0
<1> HIDE DEF g
<1>15. QED  BY <1>6, <1>12, <1>13, <1>14 DEF n

-----------------------------------------------------------------------------
(***************************************************************************)
(* What the loops keep.                                                    *)
(***************************************************************************)
\* Nothing is left to do for this service.
Fine(items, svc, policy) == Verdict(items, svc, policy) \in {"same", "conflict"}

\* A report --check finds no fault with.
AllConflicts(changes) == \A i \in DOMAIN changes : changes[i].kind = "conflict"

\* Nothing happened, and nothing but conflicts was reported.
Quiet(w, now) ==
  /\ now.groups = w.groups
  /\ AllConflicts(now.changes) <=> AllConflicts(w.changes)

\* Only the entries of group gi differ, and not the hand-written ones.
Frame(groups, now, gi) ==
  /\ DOMAIN now = DOMAIN groups /\ Len(now) = Len(groups)
  /\ \A i \in DOMAIN groups : /\ now[i].name = groups[i].name
                              /\ now[i].shape = groups[i].shape
                              /\ i # gi => now[i] = groups[i]
  /\ Unmanaged(now[gi].items) = Unmanaged(groups[gi].items)

\* A report with one more change.
LEMMA AppendedChange ==
  ASSUME NEW C, NEW changes \in Seq(C), NEW change \in C
  PROVE  AllConflicts(Append(changes, change)) <=> AllConflicts(changes) /\ change.kind = "conflict"
<1> DEFINE now == Append(changes, change)
<1>1. /\ Len(changes) \in Nat /\ DOMAIN changes = 1..Len(changes)
      /\ DOMAIN now = 1..(Len(changes) + 1)
      /\ now[Len(changes) + 1] = change
      /\ \A i \in DOMAIN changes : now[i] = changes[i]
  OBVIOUS
<1> HIDE DEF now
<1>2. \A i \in DOMAIN now : i \in DOMAIN changes \/ i = Len(changes) + 1  BY <1>1
<1>3. Len(changes) + 1 \in DOMAIN now /\ \A i \in DOMAIN changes : i \in DOMAIN now  BY <1>1
<1>4. AllConflicts(now) <=> AllConflicts(changes) /\ change.kind = "conflict"
  BY <1>1, <1>2, <1>3 DEF AllConflicts
<1>5. QED  BY <1>4 DEF now

\* What one service leaves behind.
Settles(w, now, gi, svc, policy) ==
  /\ ~Failed(now) =>
       /\ ~Failed(w)
       /\ Frame(w.groups, now.groups, gi)
       /\ Fine(now.groups[gi].items, svc, policy)
       /\ ~AllConflicts(w.changes) => ~AllConflicts(now.changes)
       /\ ~Fine(w.groups[gi].items, svc, policy) => ~AllConflicts(now.changes)
  /\ ~Failed(w) /\ Fine(w.groups[gi].items, svc, policy) => ~Failed(now) /\ Quiet(w, now)

\* One round settles its service, and disturbs no other's verdict.
LEMMA OneMoreSettles ==
  ASSUME NEW N, NEW E, NEW C, NEW S, Setting(N, E, C, S), NEW policy \in Policies,
         NEW w \in Works(N, E, C), NEW gi \in DOMAIN w.groups, w.groups[gi].shape = "list",
         NEW svc \in S, NEW now, OneMore(w, now, gi, svc, policy)
  PROVE  /\ Settles(w, now, gi, svc, policy)
         /\ \A other : other.id # svc.id /\ ~Failed(now) =>
              Verdict(now.groups[gi].items, other, policy) =
              Verdict(w.groups[gi].items, other, policy)
<1> DEFINE items   == w.groups[gi].items
           v       == Verdict(items, svc, policy)
           change  == [kind |-> v, id |-> svc.id, group |-> w.groups[gi].name]
           applied == ApplyService(items, svc, policy)
           groups  == WithItems(w.groups, gi, applied)
<1>1. /\ w.groups \in Seq(GroupsOf(N, E)) /\ w.changes \in Seq(C)
      /\ w.groups[gi] \in GroupsOf(N, E)
  BY DEF Works
<1>2. items \in Seq(E) /\ w.groups[gi].name \in N  BY <1>1 DEF GroupsOf
<1>3. Proper(svc) /\ Rendered(svc) \in E  BY DEF Setting
<1>4. applied \in Seq(E)  BY <1>2, <1>3, ApplyTypes
<1>5. v \in Reported => change \in C  BY <1>2 DEF Setting
<1>6. change.kind = v  OBVIOUS
<1>7. v \in {"added", "updated", "same", "conflict"} \cup Refusals  BY DEF Verdict, Refusals
<1>8. v \notin Refusals => Fine(applied, svc, policy)
  BY <1>2, <1>3, ApplySettles DEF Fine, Refusals
<1>9. Unmanaged(applied) = Unmanaged(items)  BY <1>2, <1>3, ApplyKeepsHand
<1>10. ASSUME NEW other, other.id # svc.id
       PROVE  Verdict(applied, other, policy) = Verdict(items, other, policy)
  BY <1>2, <1>3, <1>10, ApplyKeepsVerdict
<1>11. /\ DOMAIN groups = DOMAIN w.groups /\ Len(groups) = Len(w.groups)
       /\ groups[gi].name = w.groups[gi].name
       /\ groups[gi].shape = w.groups[gi].shape
       /\ groups[gi].items = applied
       /\ \A i \in DOMAIN w.groups : i # gi => groups[i] = w.groups[i]
  BY <1>1, <1>4, WithItemsTypes
<1>12. v \notin {"added", "updated"} => applied = items
  BY <1>2, <1>3, ApplyEffect
<1>13. Fine(items, svc, policy) <=> v \in {"same", "conflict"}  BY DEF Fine
<1>14. applied = items => groups = w.groups
  <2>1. [w.groups[gi] EXCEPT !.items = items] = w.groups[gi]  BY <1>1 DEF GroupsOf
  <2>2. [w.groups EXCEPT ![gi] = w.groups[gi]] = w.groups  BY <1>1
  <2>3. QED  BY <2>1, <2>2 DEF WithItems
<1>15. \/ Failed(w) /\ now = w
       \/ Failed(now) /\ ~Failed(w) /\ v \in Refusals
       \/ /\ ~Failed(w) /\ ~Failed(now) /\ v \notin Refusals
          /\ now.groups = groups
          /\ now.changes = IF v \in Reported THEN Append(w.changes, change) ELSE w.changes
  BY DEF OneMore
<1>16. v \in Reported => (AllConflicts(Append(w.changes, change)) <=> AllConflicts(w.changes) /\ v = "conflict")
  BY <1>1, <1>5, <1>6, AppendedChange
<1> HIDE DEF items, v, change, applied, groups
<1>17. ASSUME ~Failed(w), ~Failed(now), v \notin Refusals, now.groups = groups,
              now.changes = IF v \in Reported THEN Append(w.changes, change) ELSE w.changes
       PROVE  /\ Settles(w, now, gi, svc, policy)
              /\ \A other : other.id # svc.id =>
                   Verdict(now.groups[gi].items, other, policy) =
                   Verdict(w.groups[gi].items, other, policy)
  <2>1. Frame(w.groups, now.groups, gi)  BY <1>9, <1>11, <1>17 DEF Frame, items
  <2>2. Fine(now.groups[gi].items, svc, policy)  BY <1>8, <1>11, <1>17
  <2>3. ~AllConflicts(w.changes) => ~AllConflicts(now.changes)  BY <1>16, <1>17
  <2>4. ~Fine(items, svc, policy) => ~AllConflicts(now.changes)
    BY <1>7, <1>13, <1>16, <1>17 DEF Reported
  <2>5. Fine(items, svc, policy) => Quiet(w, now)
    <3> SUFFICES ASSUME v \in {"same", "conflict"} PROVE Quiet(w, now)  BY <1>13
    <3>1. now.groups = w.groups  BY <1>12, <1>14, <1>17
    <3>2. AllConflicts(now.changes) <=> AllConflicts(w.changes)
      BY <1>16, <1>17 DEF Reported
    <3>3. QED  BY <3>1, <3>2 DEF Quiet
  <2>6. Settles(w, now, gi, svc, policy)
    BY <2>1, <2>2, <2>3, <2>4, <2>5, <1>17 DEF Settles, items
  <2>7. ASSUME NEW other, other.id # svc.id
        PROVE  Verdict(now.groups[gi].items, other, policy) =
               Verdict(w.groups[gi].items, other, policy)
    BY <1>10, <1>11, <1>17, <2>7 DEF items
  <2>8. QED  BY <2>6, <2>7
<1>18. Failed(w) /\ now = w => Settles(w, now, gi, svc, policy) /\ Failed(now)  BY DEF Settles
<1>19. Failed(now) /\ ~Failed(w) /\ v \in Refusals => Settles(w, now, gi, svc, policy)
  BY <1>13 DEF Settles, Refusals, items
<1>20. QED  BY <1>15, <1>17, <1>18, <1>19

\* Frame is transitive.
LEMMA FrameStep ==
  ASSUME NEW a, NEW b, NEW c, NEW gi \in DOMAIN a, Frame(a, b, gi), Frame(b, c, gi)
  PROVE  Frame(a, c, gi)
<1>1. /\ DOMAIN c = DOMAIN a /\ Len(c) = Len(a)
      /\ Unmanaged(c[gi].items) = Unmanaged(a[gi].items)
  BY DEF Frame
<1>2. ASSUME NEW i \in DOMAIN a
      PROVE  c[i].name = a[i].name /\ c[i].shape = a[i].shape /\ (i # gi => c[i] = a[i])
  <2>1. b[i].name = a[i].name /\ b[i].shape = a[i].shape /\ (i # gi => b[i] = a[i])
    BY DEF Frame
  <2>2. c[i].name = b[i].name /\ c[i].shape = b[i].shape /\ (i # gi => c[i] = b[i])
    BY DEF Frame
  <2>3. QED  BY <2>1, <2>2
<1>3. QED  BY <1>1, <1>2 DEF Frame

\* Where the loop over the services of a group is after the first k of them.
SoFar(work, w, gi, services, policy, k) ==
  /\ ~Failed(w) =>
       /\ ~Failed(work)
       /\ Frame(work.groups, w.groups, gi)
       /\ \A j \in 1..k : Fine(w.groups[gi].items, services[j], policy)
       /\ \A j \in DOMAIN services : j > k =>
            Verdict(w.groups[gi].items, services[j], policy) =
            Verdict(work.groups[gi].items, services[j], policy)
       /\ ~AllConflicts(work.changes) => ~AllConflicts(w.changes)
       /\ (\E j \in 1..k : ~Fine(work.groups[gi].items, services[j], policy)) =>
            ~AllConflicts(w.changes)
  /\ ~Failed(work) /\ (\A j \in 1..k : Fine(work.groups[gi].items, services[j], policy)) =>
       ~Failed(w) /\ Quiet(work, w)

\* No service is in a list twice.
Distinct(services) ==
  \A i, j \in DOMAIN services : services[i].id = services[j].id => i = j

\* One more round keeps what the loop over the services keeps.
LEMMA SoFarStep ==
  ASSUME NEW work, NEW w, NEW now, NEW gi \in DOMAIN work.groups,
         NEW services, NEW policy, NEW n \in Nat, DOMAIN services = 1..n,
         Distinct(services),
         NEW k \in Nat, k + 1 \in 1..n,
         SoFar(work, w, gi, services, policy, k),
         Settles(w, now, gi, services[k + 1], policy),
         ~Failed(now) =>
           \A j \in 1..n : j # k + 1 =>
             Verdict(now.groups[gi].items, services[j], policy) =
             Verdict(w.groups[gi].items, services[j], policy)
  PROVE  SoFar(work, now, gi, services, policy, k + 1)
<1> DEFINE svc == services[k + 1]
<1>0. ASSUME NEW j \in 1..(k + 1) PROVE j \in 1..k \/ j = k + 1  OBVIOUS
<1>a. k + 1 \in 1..(k + 1) /\ \A j \in 1..k : j \in 1..(k + 1)  OBVIOUS
<1>b. \/ Failed(w)
      \/ Fine(w.groups[gi].items, svc, policy) <=> Fine(work.groups[gi].items, svc, policy)
  <2>1. k + 1 \in DOMAIN services /\ k + 1 > k  OBVIOUS
  <2>2. ~Failed(w) => Verdict(w.groups[gi].items, svc, policy) = Verdict(work.groups[gi].items, svc, policy)
    BY <2>1 DEF SoFar
  <2>3. QED  BY <2>2 DEF Fine
<1>1. ASSUME ~Failed(now)
      PROVE  /\ ~Failed(work)
             /\ Frame(work.groups, now.groups, gi)
             /\ \A j \in 1..(k + 1) : Fine(now.groups[gi].items, services[j], policy)
             /\ \A j \in DOMAIN services : j > k + 1 =>
                  Verdict(now.groups[gi].items, services[j], policy) =
                  Verdict(work.groups[gi].items, services[j], policy)
             /\ ~AllConflicts(work.changes) => ~AllConflicts(now.changes)
             /\ (\E j \in 1..(k + 1) : ~Fine(work.groups[gi].items, services[j], policy)) =>
                  ~AllConflicts(now.changes)
  <2>1. ~Failed(w) /\ ~Failed(work)  BY <1>1 DEF Settles, SoFar
  <2>2. Frame(work.groups, now.groups, gi)
    <3>1. Frame(work.groups, w.groups, gi)  BY <2>1 DEF SoFar
    <3>2. Frame(w.groups, now.groups, gi)  BY <1>1 DEF Settles
    <3>3. QED  BY <3>1, <3>2, FrameStep
  <2>3. ASSUME NEW j \in 1..(k + 1) PROVE Fine(now.groups[gi].items, services[j], policy)
    <3>1. CASE j = k + 1  BY <1>1, <3>1 DEF Settles
    <3>2. CASE j \in 1..k
      <4>1. j # k + 1 /\ j \in 1..n  BY <3>2
      <4>2. Fine(w.groups[gi].items, services[j], policy)  BY <2>1, <3>2 DEF SoFar
      <4>3. QED  BY <1>1, <4>1, <4>2 DEF Fine
    <3>3. QED  BY <1>0, <3>1, <3>2
  <2>4. ASSUME NEW j \in DOMAIN services, j > k + 1
        PROVE  Verdict(now.groups[gi].items, services[j], policy) =
               Verdict(work.groups[gi].items, services[j], policy)
    <3>1. j \in 1..n /\ j # k + 1 /\ j > k  BY <2>4
    <3>2. Verdict(w.groups[gi].items, services[j], policy) =
          Verdict(work.groups[gi].items, services[j], policy)
      BY <2>1, <3>1 DEF SoFar
    <3>3. QED  BY <1>1, <3>1, <3>2
  <2>5. ~AllConflicts(work.changes) => ~AllConflicts(now.changes)
    BY <1>1, <2>1 DEF Settles, SoFar
  <2>6. ASSUME NEW j \in 1..(k + 1), ~Fine(work.groups[gi].items, services[j], policy)
        PROVE  ~AllConflicts(now.changes)
    <3>1. CASE j = k + 1
      <4>1. ~Fine(w.groups[gi].items, services[k + 1], policy)  BY <1>b, <2>1, <2>6, <3>1
      <4>2. QED  BY <1>1, <4>1 DEF Settles
    <3>2. CASE j \in 1..k
      <4>1. ~AllConflicts(w.changes)  BY <2>1, <2>6, <3>2 DEF SoFar
      <4>2. QED  BY <1>1, <4>1 DEF Settles
    <3>3. QED  BY <1>0, <3>1, <3>2
  <2>7. QED  BY <2>1, <2>2, <2>3, <2>4, <2>5, <2>6
<1>2. ASSUME ~Failed(work), \A j \in 1..(k + 1) : Fine(work.groups[gi].items, services[j], policy)
      PROVE  ~Failed(now) /\ Quiet(work, now)
  <2>1. ~Failed(w) /\ Quiet(work, w)  BY <1>a, <1>2 DEF SoFar
  <2>2. Fine(w.groups[gi].items, services[k + 1], policy)  BY <1>a, <1>b, <1>2, <2>1
  <2>3. ~Failed(now) /\ Quiet(w, now)  BY <2>1, <2>2 DEF Settles
  <2>4. QED  BY <2>1, <2>3 DEF Quiet
<1>3. QED  BY <1>1, <1>2 DEF SoFar

\* After the loop every service of the group is settled: the induction over the rounds.
LEMMA ServicesSettle ==
  ASSUME NEW N, NEW E, NEW C, NEW S, Setting(N, E, C, S), NEW policy \in Policies,
         NEW work \in Works(N, E, C), NEW gi \in DOMAIN work.groups,
         work.groups[gi].shape = "list",
         NEW services \in Seq(S), Distinct(services),
         NEW now, now = MergeServices(work, gi, services, policy)
  PROVE  /\ now \in Works(N, E, C)
         /\ SoFar(work, now, gi, services, policy, Len(services))
<1> DEFINE n == Len(services)
           On(w) == w \in Works(N, E, C) /\ gi \in DOMAIN w.groups /\ w.groups[gi].shape = "list"
<1>1. PICK f : /\ f[0] = work
               /\ \A k \in 1..n : f[k] = MergeService(f[k - 1], gi, services[k], policy)
               /\ now = f[n]
  BY ServicesLoop
<1>2. n \in Nat /\ DOMAIN services = 1..n /\ \A k \in 1..n : services[k] \in S  OBVIOUS
<1> DEFINE T == {k \in Nat : k <= n =>
                   On(f[k]) /\ SoFar(work, f[k], gi, services, policy, k)}
<1>3. 0 \in T
  <2>1. SoFar(work, work, gi, services, policy, 0)
    <3>1. \A j : j \notin 1..0  OBVIOUS
    <3>2. Frame(work.groups, work.groups, gi) /\ Quiet(work, work)  BY DEF Frame, Quiet
    <3>3. QED  BY <3>1, <3>2 DEF SoFar
  <2>2. QED  BY <1>1, <2>1
<1>4. ASSUME NEW k \in Nat, k \in T PROVE k + 1 \in T
  <2> SUFFICES ASSUME k + 1 <= n
               PROVE  On(f[k + 1]) /\ SoFar(work, f[k + 1], gi, services, policy, k + 1)
    OBVIOUS
  <2> DEFINE w   == f[k]
             v   == f[k + 1]
             svc == services[k + 1]
  <2>1. k + 1 \in 1..n /\ (k + 1) - 1 = k /\ k <= n  BY <1>2
  <2>2. On(w) /\ SoFar(work, w, gi, services, policy, k)  BY <1>4, <2>1
  <2>3. svc \in S /\ v = MergeService(w, gi, svc, policy)  BY <1>1, <1>2, <2>1
  <2>a. /\ w \in Works(N, E, C) /\ gi \in DOMAIN w.groups /\ w.groups[gi].shape = "list"
    BY <2>2
  <2> HIDE DEF w, v, svc, T, n
  <2>4. On(v) /\ OneMore(w, v, gi, svc, policy)
    BY ONLY <2>a, <2>3, ServiceEffect, Setting(N, E, C, S)
  <2>5. /\ Settles(w, v, gi, svc, policy)
        /\ \A other : other.id # svc.id /\ ~Failed(v) =>
             Verdict(v.groups[gi].items, other, policy) =
             Verdict(w.groups[gi].items, other, policy)
    BY ONLY <2>a, <2>3, <2>4, OneMoreSettles, Setting(N, E, C, S), policy \in Policies
  <2>6. \A j \in 1..n : j # k + 1 => services[j].id # svc.id
    BY <1>2, <2>1 DEF Distinct, svc
  <2>7. SoFar(work, v, gi, services, policy, k + 1)
    <3>1. Settles(w, v, gi, services[k + 1], policy)  BY <2>5 DEF svc
    <3>2. ~Failed(v) =>
            \A j \in 1..n : j # k + 1 =>
              Verdict(v.groups[gi].items, services[j], policy) =
              Verdict(w.groups[gi].items, services[j], policy)
      BY <2>5, <2>6
    <3>3. n \in Nat /\ DOMAIN services = 1..n /\ k + 1 \in 1..n  BY <1>2, <2>1
    <3>4. QED
      BY ONLY <3>1, <3>2, <3>3, <2>2, SoFarStep, gi \in DOMAIN work.groups, Distinct(services),
              k \in Nat
  <2>8. QED  BY <2>4, <2>7 DEF v
<1> HIDE DEF T
<1>5. n \in T  BY <1>2, <1>3, <1>4, Induction
<1>6. QED  BY <1>1, <1>2, <1>5 DEF T

-----------------------------------------------------------------------------
(***************************************************************************)
(* Finding a group.                                                        *)
(***************************************************************************)
\* GroupIndex returns the first group of that name, or 0 where there is none.
LEMMA IndexIsFirst ==
  ASSUME NEW G, NEW groups \in Seq(G), NEW name, NEW i, i = GroupIndex(groups, name)
  PROVE  \/ /\ i = 0
            /\ \A j \in DOMAIN groups : groups[j].name # name
         \/ /\ i \in DOMAIN groups /\ i # 0
            /\ groups[i].name = name
            /\ \A j \in DOMAIN groups : j < i => groups[j].name # name
<1> DEFINE T == {k \in 1..Len(groups) : groups[k].name = name}
<1>1. i = IF T # {} THEN Min(T) ELSE 0
  BY DEF GroupIndex, SelectInSeq
<1>2. DOMAIN groups = 1..Len(groups) /\ Len(groups) \in Nat  OBVIOUS
<1>3. CASE T = {}  BY <1>1, <1>2, <1>3
<1>4. CASE T # {}
  <2>1. Min(T) \in T /\ \A m \in T : Min(T) <= m
    <3>1. T \in SUBSET Nat  OBVIOUS
    <3> HIDE DEF T
    <3>2. QED  BY <3>1, <1>4, MinOfSome
  <2>2. i = Min(T)  BY <1>1, <1>4
  <2> HIDE <1>1
  <2>3. i \in T /\ \A m \in T : i <= m  BY <2>1, <2>2
  <2>4. i \in DOMAIN groups /\ i # 0 /\ groups[i].name = name  BY <1>2, <2>3
  <2>5. ASSUME NEW j \in DOMAIN groups, j < i, groups[j].name = name PROVE FALSE
    <3>1. j \in T /\ j \in Nat /\ i \in Nat  BY <1>2, <2>4, <2>5
    <3>2. i <= j  BY <3>1, <2>3
    <3>3. QED  BY <3>1, <3>2, <2>5
  <2>6. QED  BY <2>4, <2>5
<1>5. QED  BY <1>3, <1>4

\* ... and only that one.
LEMMA FirstIsIndex ==
  ASSUME NEW G, NEW groups \in Seq(G), NEW name, NEW i \in DOMAIN groups,
         groups[i].name = name,
         \A j \in DOMAIN groups : j < i => groups[j].name # name
  PROVE  GroupIndex(groups, name) = i
<1> DEFINE k == GroupIndex(groups, name)
<1>1. \/ /\ k = 0
         /\ \A j \in DOMAIN groups : groups[j].name # name
      \/ /\ k \in DOMAIN groups /\ k # 0
         /\ groups[k].name = name
         /\ \A j \in DOMAIN groups : j < k => groups[j].name # name
  BY IndexIsFirst
<1> HIDE DEF k
<1>2. DOMAIN groups = 1..Len(groups) /\ Len(groups) \in Nat  OBVIOUS
<1>3. k \in DOMAIN groups /\ ~(k < i) /\ ~(i < k)  BY <1>1
<1>4. k = i  BY <1>2, <1>3
<1>5. QED  BY <1>4 DEF k

\* Only the names decide where a group is found.
LEMMA IndexOfNames ==
  ASSUME NEW groups, NEW now, Len(now) = Len(groups),
         \A i \in 1..Len(groups) : now[i].name = groups[i].name, NEW name
  PROVE  GroupIndex(now, name) = GroupIndex(groups, name)
<1>1. {k \in 1..Len(now) : now[k].name = name} = {k \in 1..Len(groups) : groups[k].name = name}
  OBVIOUS
<1>2. QED  BY <1>1 DEF GroupIndex, SelectInSeq

\* An appended group is found only where no group of its name was there.
LEMMA IndexAppend ==
  ASSUME NEW G, NEW groups \in Seq(G), NEW g \in G, NEW name
  PROVE  GroupIndex(Append(groups, g), name) =
           IF GroupIndex(groups, name) # 0 THEN GroupIndex(groups, name)
           ELSE IF g.name = name THEN Len(groups) + 1 ELSE 0
<1> DEFINE t == Append(groups, g)
           i == GroupIndex(groups, name)
           n == Len(groups) + 1
           j == GroupIndex(t, name)
<1>1. /\ t \in Seq(G) /\ Len(groups) \in Nat
      /\ DOMAIN groups = 1..Len(groups) /\ DOMAIN t = 1..n
      /\ t[n] = g
      /\ \A k \in DOMAIN groups : t[k] = groups[k]
  OBVIOUS
<1>2. \/ /\ i = 0
         /\ \A k \in DOMAIN groups : groups[k].name # name
      \/ /\ i \in DOMAIN groups /\ i # 0
         /\ groups[i].name = name
         /\ \A k \in DOMAIN groups : k < i => groups[k].name # name
  BY IndexIsFirst
<1>3. n \in DOMAIN t /\ \A k \in DOMAIN t : (k \in DOMAIN groups \/ k = n) /\ (k < n => k \in DOMAIN groups)
  BY <1>1
<1>4. \/ j = 0 /\ \A k \in DOMAIN t : t[k].name # name
      \/ j \in DOMAIN t /\ t[j].name = name /\ j # 0
  <2> HIDE DEF t
  <2>1. t \in Seq(G)  BY <1>1
  <2>2. QED  BY ONLY <2>1, IndexIsFirst
<1>n. n \in Nat /\ n # 0  BY <1>1
<1> HIDE DEF t, i, n, j
<1>5. CASE i # 0
  <2>1. i \in DOMAIN t /\ t[i].name = name /\ i <= Len(groups)  BY <1>1, <1>2, <1>5 DEF n
  <2>2. ASSUME NEW k \in DOMAIN t, k < i PROVE t[k].name # name
    <3>1. k \in DOMAIN groups /\ t[k] = groups[k]  BY <1>1, <2>1, <2>2 DEF n
    <3>2. QED  BY <1>2, <1>5, <2>2, <3>1
  <2>3. t \in Seq(G)  BY <1>1
  <2>4. GroupIndex(t, name) = i  BY ONLY <2>1, <2>2, <2>3, FirstIsIndex
  <2>5. QED  BY <2>4, <1>5 DEF t, i
<1>6. CASE i = 0 /\ g.name = name
  <2>1. n \in DOMAIN t /\ t[n].name = name  BY <1>1, <1>3, <1>6
  <2>2. ASSUME NEW k \in DOMAIN t, k < n PROVE t[k].name # name
    <3>1. k \in DOMAIN groups /\ t[k] = groups[k]  BY <1>1, <1>3, <2>2
    <3>2. QED  BY <1>2, <1>6, <3>1
  <2>3. GroupIndex(t, name) = n  BY <1>1, <2>1, <2>2, FirstIsIndex
  <2>4. QED  BY <2>3, <1>6 DEF t, i, n
<1>7. CASE i = 0 /\ g.name # name
  <2>1. \A k \in DOMAIN t : t[k].name # name  BY <1>1, <1>2, <1>3, <1>7
  <2>2. j = 0  BY <2>1, <1>4
  <2>3. QED  BY <2>2, <1>7 DEF t, i, j
<1>8. QED  BY <1>5, <1>6, <1>7

-----------------------------------------------------------------------------
(***************************************************************************)
(* One group.                                                              *)
(***************************************************************************)
\* Every group stays where it is with its hand-written entries; new ones have none.
KeepsHand(groups, now) ==
  /\ Len(now) >= Len(groups)
  /\ \A i \in DOMAIN now :
       IF i \in DOMAIN groups
       THEN /\ now[i].name = groups[i].name
            /\ Unmanaged(now[i].items) = Unmanaged(groups[i].items)
       ELSE Unmanaged(now[i].items) = <<>>

\* Nothing is left to do for a desired group.
Done(groups, wanted, policy) ==
  LET gi == GroupIndex(groups, wanted.name)
  IN  /\ gi # 0
      /\ groups[gi].shape = "list"
      /\ \A j \in DOMAIN wanted.services : Fine(groups[gi].items, wanted.services[j], policy)

\* KeepsHand is transitive.
LEMMA KeepsHandStep ==
  ASSUME NEW G, NEW a \in Seq(G), NEW b \in Seq(G), NEW c \in Seq(G), KeepsHand(a, b), KeepsHand(b, c)
  PROVE  KeepsHand(a, c)
<1>1. /\ DOMAIN a = 1..Len(a) /\ DOMAIN b = 1..Len(b) /\ DOMAIN c = 1..Len(c)
      /\ Len(a) \in Nat /\ Len(b) \in Nat /\ Len(c) \in Nat
  OBVIOUS
<1>2. Len(c) >= Len(a)  BY <1>1 DEF KeepsHand
<1>3. ASSUME NEW i \in DOMAIN c
      PROVE  IF i \in DOMAIN a
             THEN c[i].name = a[i].name /\ Unmanaged(c[i].items) = Unmanaged(a[i].items)
             ELSE Unmanaged(c[i].items) = <<>>
  <2>1. i \in DOMAIN a => i \in DOMAIN b
    <3>1. Len(b) >= Len(a)  BY DEF KeepsHand
    <3>2. QED  BY <1>1, <3>1
  <2>2. CASE i \in DOMAIN a
    <3>1. b[i].name = a[i].name /\ Unmanaged(b[i].items) = Unmanaged(a[i].items)
      BY <2>1, <2>2 DEF KeepsHand
    <3>2. c[i].name = b[i].name /\ Unmanaged(c[i].items) = Unmanaged(b[i].items)
      BY <2>1, <2>2 DEF KeepsHand
    <3>3. QED  BY <2>2, <3>1, <3>2
  <2>3. CASE i \in DOMAIN b /\ i \notin DOMAIN a
    <3>1. Unmanaged(b[i].items) = <<>>  BY <2>3 DEF KeepsHand
    <3>2. Unmanaged(c[i].items) = Unmanaged(b[i].items)  BY <2>3 DEF KeepsHand
    <3>3. QED  BY <2>3, <3>1, <3>2
  <2>4. CASE i \notin DOMAIN b /\ i \notin DOMAIN a
    <3>1. Unmanaged(c[i].items) = <<>>  BY <2>4 DEF KeepsHand
    <3>2. QED  BY <2>4, <3>1
  <2>5. QED  BY <2>1, <2>2, <2>3, <2>4
<1>4. QED  BY <1>2, <1>3 DEF KeepsHand

\* Replacing the managed entries of one group keeps what is hand-written.
LEMMA FrameKeepsHand ==
  ASSUME NEW G, NEW groups \in Seq(G), NEW now, NEW gi, Frame(groups, now, gi)
  PROVE  KeepsHand(groups, now)
<1>1. Len(now) = Len(groups) /\ Len(groups) \in Nat /\ DOMAIN now = DOMAIN groups
  BY DEF Frame
<1>2. ASSUME NEW i \in DOMAIN groups
      PROVE  now[i].name = groups[i].name /\ Unmanaged(now[i].items) = Unmanaged(groups[i].items)
  <2>1. CASE i = gi  BY <2>1 DEF Frame
  <2>2. CASE i # gi
    <3>1. now[i] = groups[i]  BY <2>2 DEF Frame
    <3>2. QED  BY <3>1
  <2>3. QED  BY <2>1, <2>2
<1>3. QED  BY <1>1, <1>2 DEF KeepsHand

\* In an empty list every service is new.
LEMMA NothingFound ==
  ASSUME NEW svc, NEW policy
  PROVE  Verdict(<<>>, svc, policy) = "added"
<1> DEFINE none == <<>>
<1>1. none \in Seq({}) /\ DOMAIN none = {}  OBVIOUS
<1> HIDE DEF none
<1>2. \A j \in DOMAIN none : ~Mine(none[j], svc.id)  BY <1>1
<1>3. findManagedIndex(none, svc.id) = 0  BY <1>1, <1>2, NoneIsFound
<1>4. Verdict(none, svc, policy) = "added"  BY <1>3 DEF Verdict
<1>5. QED  BY <1>4 DEF none

\* FindOrCreateGroup: the group is there afterwards and is a list, every other group is found
\* where it was, and a group that was made or mended is empty.
LEMMA GroupFound ==
  ASSUME NEW N, NEW E, NEW groups \in Seq(GroupsOf(N, E)), NEW name \in N,
         ~GroupIsBroken(groups, name),
         NEW now, now = FindOrCreateGroup(groups, name),
         NEW gi, gi = GroupIndex(now, name)
  PROVE  /\ now \in Seq(GroupsOf(N, E))
         /\ gi \in DOMAIN now /\ gi # 0
         /\ now[gi].shape = "list" /\ now[gi].name = name
         /\ KeepsHand(groups, now)
         /\ \A other : other # name /\ GroupIndex(groups, other) # 0 =>
              /\ GroupIndex(now, other) = GroupIndex(groups, other)
              /\ now[GroupIndex(now, other)] = groups[GroupIndex(groups, other)]
         /\ \/ now = groups
            \/ /\ now[gi].items = <<>>
               /\ GroupIndex(groups, name) # 0 => groups[GroupIndex(groups, name)].shape # "list"
<1> DEFINE i == GroupIndex(groups, name)
           fresh == [name |-> name, shape |-> "list", items |-> <<>>]
<1>1. /\ DOMAIN groups = 1..Len(groups) /\ Len(groups) \in Nat
      /\ \A j \in DOMAIN groups : groups[j] \in GroupsOf(N, E)
  OBVIOUS
<1>2. \/ /\ i = 0
         /\ \A j \in DOMAIN groups : groups[j].name # name
      \/ /\ i \in DOMAIN groups /\ i # 0
         /\ groups[i].name = name
  BY IndexIsFirst
<1>3. fresh \in GroupsOf(N, E) /\ fresh.name = name /\ fresh.shape = "list" /\ fresh.items = <<>>
  BY DEF GroupsOf
<1>4. Unmanaged(<<>>) = <<>>  BY OnlyEmpty DEF Unmanaged
<1>5. now = IF i = 0 THEN Append(groups, fresh) ELSE [groups EXCEPT ![i].shape = "list"]
  BY DEF FindOrCreateGroup
<1>6. i # 0 => groups[i].shape # "notList"  BY DEF GroupIsBroken
<1> HIDE DEF i, fresh
<1>7. CASE i = 0
  <2>1. now = Append(groups, fresh)  BY <1>5, <1>7
  <2>2. /\ now \in Seq(GroupsOf(N, E)) /\ Len(now) = Len(groups) + 1
        /\ DOMAIN now = 1..(Len(groups) + 1)
        /\ now[Len(groups) + 1] = fresh
        /\ \A j \in DOMAIN groups : now[j] = groups[j]
    BY <1>3, <2>1
  <2>3. gi = Len(groups) + 1
    <3>1. GroupIndex(Append(groups, fresh), name) =
            IF GroupIndex(groups, name) # 0 THEN GroupIndex(groups, name)
            ELSE IF fresh.name = name THEN Len(groups) + 1 ELSE 0
      BY <1>3, IndexAppend
    <3>2. QED  BY <3>1, <1>3, <1>7, <2>1 DEF i
  <2>4. KeepsHand(groups, now)
    <3>1. Len(now) >= Len(groups)  BY <1>1, <2>2
    <3>2. \A j \in DOMAIN now : j \in DOMAIN groups \/ j = Len(groups) + 1  BY <1>1, <2>2
    <3>3. QED  BY <1>3, <1>4, <2>2, <3>1, <3>2 DEF KeepsHand
  <2>5. ASSUME NEW other, other # name, GroupIndex(groups, other) # 0
        PROVE  /\ GroupIndex(now, other) = GroupIndex(groups, other)
               /\ now[GroupIndex(now, other)] = groups[GroupIndex(groups, other)]
    <3>1. GroupIndex(Append(groups, fresh), other) =
            IF GroupIndex(groups, other) # 0 THEN GroupIndex(groups, other)
            ELSE IF fresh.name = other THEN Len(groups) + 1 ELSE 0
      BY <1>3, IndexAppend
    <3>2. GroupIndex(groups, other) \in DOMAIN groups  BY <2>5, IndexIsFirst
    <3>3. QED  BY <2>1, <2>2, <2>5, <3>1, <3>2
  <2>6. gi \in DOMAIN now /\ gi # 0 /\ now[gi] = fresh  BY <1>1, <2>2, <2>3
  <2>7. GroupIndex(groups, name) = 0  BY <1>7 DEF i
  <2>8. QED  BY <1>3, <2>2, <2>4, <2>5, <2>6, <2>7
<1>8. CASE i # 0
  <2> DEFINE g == [groups[i] EXCEPT !.shape = "list"]
  <2>1. i \in DOMAIN groups /\ groups[i].name = name /\ groups[i] \in GroupsOf(N, E)
    BY <1>1, <1>2, <1>8
  <2>2. /\ g \in GroupsOf(N, E) /\ g.name = name /\ g.shape = "list" /\ g.items = groups[i].items
        /\ groups[i].shape = "list" => g = groups[i]
        /\ groups[i].shape # "list" => g.items = <<>>
    BY <2>1 DEF GroupsOf
  <2>3. now = [groups EXCEPT ![i] = g]  BY <1>5, <1>8
  <2> HIDE DEF g
  <2>4. /\ now \in Seq(GroupsOf(N, E)) /\ Len(now) = Len(groups) /\ DOMAIN now = DOMAIN groups
        /\ now[i] = g
        /\ \A j \in DOMAIN groups : j # i => now[j] = groups[j]
    BY <2>1, <2>2, <2>3
  <2>5. \A j \in 1..Len(groups) : now[j].name = groups[j].name  BY <1>1, <2>1, <2>2, <2>4
  <2>6. \A other : GroupIndex(now, other) = GroupIndex(groups, other)
    BY <2>4, <2>5, IndexOfNames
  <2>7. gi = i  BY <2>6 DEF i
  <2>8. KeepsHand(groups, now)
    <3>1. Len(now) >= Len(groups)  BY <1>1, <2>4
    <3>2. \A j \in DOMAIN groups : now[j].items = groups[j].items  BY <2>1, <2>2, <2>4
    <3>3. QED  BY <1>1, <2>4, <2>5, <3>1, <3>2 DEF KeepsHand
  <2>9. ASSUME NEW other, other # name, GroupIndex(groups, other) # 0
        PROVE  now[GroupIndex(now, other)] = groups[GroupIndex(groups, other)]
    <3> DEFINE k == GroupIndex(groups, other)
    <3>1. k \in DOMAIN groups /\ groups[k].name = other  BY <2>9, IndexIsFirst
    <3> HIDE DEF k
    <3>2. k # i  BY <2>1, <2>9, <3>1
    <3>3. now[k] = groups[k]  BY <2>4, <3>1, <3>2
    <3>4. QED  BY <2>6, <3>3 DEF k
  <2>10. \/ now = groups
         \/ now[gi].items = <<>> /\ groups[i].shape # "list"
    BY <2>1, <2>2, <2>3, <2>4, <2>7
  <2>11. QED  BY <1>8, <2>1, <2>2, <2>4, <2>6, <2>7, <2>8, <2>9, <2>10 DEF i
<1>9. QED  BY <1>7, <1>8

\* What one group of the desired ones leaves behind.
GroupSettles(work, now, wanted, policy) ==
  /\ ~Failed(now) =>
       /\ ~Failed(work)
       /\ KeepsHand(work.groups, now.groups)
       /\ Done(now.groups, wanted, policy)
       /\ ~AllConflicts(work.changes) => ~AllConflicts(now.changes)
       /\ ~Done(work.groups, wanted, policy) => ~AllConflicts(now.changes)
  /\ ~Failed(work) /\ Done(work.groups, wanted, policy) => ~Failed(now) /\ Quiet(work, now)

\* The desired groups over a set of names and a set of services.
Wanted(N, S) ==
  {d \in [name : N, services : Seq(S)] : Distinct(d.services) /\ d.services # <<>>}

\* One round of the loop over the groups settles its group and leaves the other ones done.
LEMMA GroupEffect ==
  ASSUME NEW N, NEW E, NEW C, NEW S, Setting(N, E, C, S), NEW policy \in Policies,
         NEW work \in Works(N, E, C), NEW wanted \in Wanted(N, S),
         NEW now, now = MergeGroup(work, wanted, policy)
  PROVE  /\ now \in Works(N, E, C)
         /\ GroupSettles(work, now, wanted, policy)
         /\ \A other : other.name # wanted.name /\ ~Failed(now)
                        /\ Done(work.groups, other, policy) => Done(now.groups, other, policy)
<1> DEFINE groups == FindOrCreateGroup(work.groups, wanted.name)
           gi     == GroupIndex(groups, wanted.name)
           start  == [work EXCEPT !.groups = groups]
           n      == Len(wanted.services)
<1>1. /\ wanted.name \in N /\ wanted.services \in Seq(S)
      /\ Distinct(wanted.services) /\ wanted.services # <<>>
  BY DEF Wanted
<1>2. /\ work.groups \in Seq(GroupsOf(N, E)) /\ work.changes \in Seq(C) /\ work.error \in Errors
      /\ work = [error |-> work.error, groups |-> work.groups, changes |-> work.changes]
  BY DEF Works
<1>3. n \in Nat /\ 1 \in 1..n /\ DOMAIN wanted.services = 1..n  BY <1>1
<1>4. now = IF Failed(work) THEN work
            ELSE IF GroupIsBroken(work.groups, wanted.name) THEN [work EXCEPT !.error = "notList"]
            ELSE MergeServices(start, gi, wanted.services, policy)
  BY DEF MergeGroup
<1>5. CASE Failed(work)
  <2>1. now = work  BY <1>4, <1>5
  <2>2. QED  BY <1>5, <2>1 DEF GroupSettles
<1>6. CASE ~Failed(work) /\ GroupIsBroken(work.groups, wanted.name)
  <2>1. now = [error |-> "notList", groups |-> work.groups, changes |-> work.changes]
    BY <1>2, <1>4, <1>6
  <2>2. now \in Works(N, E, C)  BY <1>2, <2>1 DEF Works, Errors
  <2>3. Failed(now)  BY <2>1, AbsentIsNoError DEF Failed
  <2>4. ~Done(work.groups, wanted, policy)  BY <1>6 DEF Done, GroupIsBroken
  <2>5. QED  BY <2>2, <2>3, <2>4 DEF GroupSettles
<1>7. CASE ~Failed(work) /\ ~GroupIsBroken(work.groups, wanted.name)
  <2> DEFINE Kept(other) ==
        /\ GroupIndex(groups, other) = GroupIndex(work.groups, other)
        /\ groups[GroupIndex(groups, other)] = work.groups[GroupIndex(work.groups, other)]
  <2>1. /\ groups \in Seq(GroupsOf(N, E))
        /\ gi \in DOMAIN groups /\ gi # 0
        /\ groups[gi].shape = "list" /\ groups[gi].name = wanted.name
        /\ KeepsHand(work.groups, groups)
        /\ \A other : other # wanted.name /\ GroupIndex(work.groups, other) # 0 => Kept(other)
        /\ \/ groups = work.groups
           \/ /\ groups[gi].items = <<>>
              /\ GroupIndex(work.groups, wanted.name) # 0 =>
                   work.groups[GroupIndex(work.groups, wanted.name)].shape # "list"
    BY <1>1, <1>2, <1>7, GroupFound
  <2> HIDE DEF groups
  <2>2. start = [error |-> work.error, groups |-> groups, changes |-> work.changes]
    BY <1>2
  <2>3. start \in Works(N, E, C)  BY <1>2, <2>1, <2>2 DEF Works
  <2>4. start.groups = groups /\ start.changes = work.changes /\ ~Failed(start)
    BY <1>7, <2>2 DEF Failed
  <2>5. now = MergeServices(start, gi, wanted.services, policy)
    BY <1>4, <1>7
  <2> HIDE DEF start, gi, Kept, n
  <2>6. /\ now \in Works(N, E, C)
        /\ SoFar(start, now, gi, wanted.services, policy, n)
    <3>1. gi \in DOMAIN start.groups /\ start.groups[gi].shape = "list"  BY <2>1, <2>4
    <3>2. /\ now \in Works(N, E, C)
          /\ SoFar(start, now, gi, wanted.services, policy, Len(wanted.services))
      BY <1>1, <2>3, <2>5, <3>1, ServicesSettle
    <3>3. QED  BY <3>2 DEF n
  <2>7. ASSUME ~Failed(now)
        PROVE  /\ KeepsHand(work.groups, now.groups)
               /\ Done(now.groups, wanted, policy)
               /\ \A other : GroupIndex(now.groups, other) = GroupIndex(groups, other)
               /\ \A k \in DOMAIN groups : k # gi => now.groups[k] = groups[k]
    <3>1. Frame(groups, now.groups, gi)  BY <2>4, <2>6, <2>7 DEF SoFar
    <3>2. now.groups \in Seq(GroupsOf(N, E))  BY <2>6 DEF Works
    <3>3. KeepsHand(work.groups, now.groups)
      <4>1. KeepsHand(groups, now.groups)  BY <2>1, <3>1, FrameKeepsHand
      <4>2. QED  BY <1>2, <2>1, <3>2, <4>1, KeepsHandStep
    <3>4. \A other : GroupIndex(now.groups, other) = GroupIndex(groups, other)
      <4>1. Len(now.groups) = Len(groups) /\ \A k \in 1..Len(groups) : now.groups[k].name = groups[k].name
        <5>1. DOMAIN groups = 1..Len(groups)  BY <2>1
        <5>2. QED  BY <3>1, <5>1 DEF Frame
      <4>2. QED  BY <4>1, IndexOfNames
    <3>5. GroupIndex(now.groups, wanted.name) = gi  BY <3>4 DEF gi
    <3>6. now.groups[gi].shape = "list"  BY <2>1, <3>1 DEF Frame
    <3>7. \A j \in 1..n : Fine(now.groups[gi].items, wanted.services[j], policy)
      BY <2>6, <2>7 DEF SoFar
    <3>8. Done(now.groups, wanted, policy)  BY <1>3, <2>1, <3>5, <3>6, <3>7 DEF Done
    <3>9. QED  BY <3>1, <3>3, <3>4, <3>8 DEF Frame
  <2>8. ASSUME ~Failed(now), ~AllConflicts(work.changes) PROVE ~AllConflicts(now.changes)
    BY <2>4, <2>6, <2>8 DEF SoFar
  <2>9. ASSUME ~Failed(now), ~Done(work.groups, wanted, policy) PROVE ~AllConflicts(now.changes)
    <3> SUFFICES \E j \in 1..n : ~Fine(groups[gi].items, wanted.services[j], policy)
      BY <2>4, <2>6, <2>9 DEF SoFar
    <3>1. CASE groups = work.groups
      <4>1. gi = GroupIndex(work.groups, wanted.name)  BY <3>1 DEF gi
      <4>2. QED  BY <1>3, <2>1, <2>9, <3>1, <4>1 DEF Done
    <3>2. CASE groups[gi].items = <<>>
      <4>1. ~Fine(groups[gi].items, wanted.services[1], policy)
        BY <3>2, NothingFound DEF Fine
      <4>2. QED  BY <1>3, <4>1
    <3>3. QED  BY <2>1, <3>1, <3>2
  <2>10. ASSUME Done(work.groups, wanted, policy) PROVE ~Failed(now) /\ Quiet(work, now)
    <3>1. groups = work.groups  BY <2>1, <2>10 DEF Done
    <3>2. gi = GroupIndex(work.groups, wanted.name)  BY <3>1 DEF gi
    <3>3. \A j \in 1..n : Fine(start.groups[gi].items, wanted.services[j], policy)
      BY <1>3, <2>4, <2>10, <3>1, <3>2 DEF Done
    <3>4. ~Failed(now) /\ Quiet(start, now)  BY <2>4, <2>6, <3>3 DEF SoFar
    <3>5. QED  BY <2>4, <3>1, <3>4 DEF Quiet
  <2>11. GroupSettles(work, now, wanted, policy)
    BY <1>7, <2>7, <2>8, <2>9, <2>10 DEF GroupSettles
  <2>12. ASSUME NEW other, other.name # wanted.name, ~Failed(now), Done(work.groups, other, policy)
         PROVE  Done(now.groups, other, policy)
    <3> DEFINE k == GroupIndex(work.groups, other.name)
    <3>1. k # 0  BY <2>12 DEF Done
    <3>2. Kept(other.name)  BY <2>1, <2>12, <3>1
    <3>3. GroupIndex(groups, other.name) = k /\ groups[k] = work.groups[k]
      BY <3>2 DEF Kept
    <3>4. GroupIndex(now.groups, other.name) = k  BY <2>7, <2>12, <3>3
    <3>5. k \in DOMAIN groups /\ groups[k].name = other.name
      BY <2>1, <3>1, <3>3, IndexIsFirst
    <3>6. k # gi  BY <2>1, <2>12, <3>5
    <3>7. now.groups[k] = work.groups[k]  BY <2>7, <2>12, <3>3, <3>5, <3>6
    <3>8. QED  BY <2>12, <3>4, <3>7 DEF Done
  <2>13. QED  BY <2>6, <2>11, <2>12
<1>8. QED  BY <1>5, <1>6, <1>7

-----------------------------------------------------------------------------
(***************************************************************************)
(* All the groups.                                                         *)
(***************************************************************************)
\* The loop over the groups, as the sequence of its rounds.
LEMMA GroupsLoop ==
  ASSUME NEW N, NEW E, NEW C, NEW S, Setting(N, E, C, S), NEW policy \in Policies,
         NEW work \in Works(N, E, C), NEW desired \in Seq(Wanted(N, S))
  PROVE  \E f :
           /\ f[0] = work
           /\ \A k \in 1..Len(desired) : f[k] = MergeGroup(f[k - 1], desired[k], policy)
           /\ MergeGroups(work, desired, policy) = f[Len(desired)]
<1> DEFINE n == Len(desired)
           W == Works(N, E, C)
           F == [i \in 1..n |-> [w \in W |-> MergeGroup(w, desired[i], policy)]]
<1>0. n \in Nat /\ DOMAIN desired = 1..n /\ \A i \in 1..n : desired[i] \in Wanted(N, S)  OBVIOUS
<1>1. work \in W  OBVIOUS
<1>2. ASSUME NEW i \in 1..n, NEW w \in W PROVE MergeGroup(w, desired[i], policy) \in W
  <2> DEFINE wanted == desired[i]
             now    == MergeGroup(w, wanted, policy)
  <2>1. wanted \in Wanted(N, S)  BY <1>0
  <2>2. now = MergeGroup(w, wanted, policy)  OBVIOUS
  <2> HIDE DEF now, wanted
  <2>3. now \in W
    BY ONLY <2>1, <2>2, GroupEffect, Setting(N, E, C, S), w \in Works(N, E, C), policy \in Policies
  <2>4. QED  BY <2>3 DEF now, wanted
<1>3. \A i \in 1..n : \A w \in W : F[i][w] \in W /\ F[i][w] = MergeGroup(w, desired[i], policy)
  BY <1>2
<1>4. PICK f : Folds(n, work, F, f)
  <2> HIDE DEF n, F, W
  <2>1. QED  BY <1>0, FoldsExist
<1>5. \A s \in SUBSET (1..n) : f[s] \in W
  <2> HIDE DEF n, F, W
  <2>1. QED  BY <1>0, <1>1, <1>3, <1>4, FoldsStay
<1> DEFINE Adds(h) ==
      h = [s \in SUBSET DOMAIN desired |->
             IF s = {} THEN work ELSE MergeGroup(h[s \ {Max(s)}], desired[Max(s)], policy)]
           it == CHOOSE h : Adds(h)
<1>6. MergeGroups(work, desired, policy) = it[DOMAIN desired]
  BY DEF MergeGroups, FoldLeft, MapThenFoldSet
<1>7. ASSUME NEW s \in SUBSET (1..n)
      PROVE  f[s] = IF s = {} THEN work ELSE MergeGroup(f[s \ {Max(s)}], desired[Max(s)], policy)
  <2> HIDE DEF F, W, n
  <2>1. f[s] = IF s = {} THEN work ELSE F[Max(s)][f[s \ {Max(s)}]]  BY <1>4 DEF Folds
  <2>2. CASE s # {}
    <3>1. Max(s) \in 1..n  BY <1>0, <2>2, MaxOfSome
    <3>2. f[s \ {Max(s)}] \in W  BY <1>5
    <3>3. QED  BY <1>3, <2>1, <2>2, <3>1, <3>2
  <2>3. QED  BY <2>1, <2>2
<1>8. f = [s \in SUBSET (1..n) |-> f[s]]  BY <1>4 DEF Folds
<1>9. Adds(f)
  <2> HIDE DEF F, W, n
  <2>1. f = [s \in SUBSET (1..n) |->
               IF s = {} THEN work ELSE MergeGroup(f[s \ {Max(s)}], desired[Max(s)], policy)]
    BY <1>7, <1>8
  <2>2. QED  BY <1>0, <2>1
<1>10. Adds(it)
  <2> HIDE DEF Adds
  <2>1. QED  BY <1>9
<1>11. ASSUME NEW s \in SUBSET (1..n)
       PROVE  it[s] = IF s = {} THEN work ELSE MergeGroup(it[s \ {Max(s)}], desired[Max(s)], policy)
  <2> HIDE DEF it
  <2>1. QED  BY <1>0, <1>10
<1> DEFINE g == [k \in 0..n |-> it[1..k]]
<1> HIDE DEF it, F, W, Adds, n
<1>12. g[0] = work
  <2>1. 1..0 \in SUBSET (1..n) /\ 1..0 = {} /\ 0 \in 0..n  BY <1>0
  <2>2. g[0] = it[1..0]  BY <2>1
  <2>3. QED  BY <1>11, <2>1, <2>2
<1>13. ASSUME NEW k \in 1..n PROVE g[k] = MergeGroup(g[k - 1], desired[k], policy)
  <2>1. k \in 0..n /\ k - 1 \in 0..n  BY <1>0
  <2>2. /\ 1..k \in SUBSET (1..n) /\ 1..k # {}
        /\ Max(1..k) = k /\ (1..k) \ {k} = 1..(k - 1)
    BY <1>0, TopOfPrefix
  <2>3. it[1..k] = MergeGroup(it[1..(k - 1)], desired[k], policy)
    BY <1>11, <2>2
  <2>4. g[k] = it[1..k] /\ g[k - 1] = it[1..(k - 1)]  BY <2>1
  <2>5. QED  BY <2>3, <2>4
<1>14. g[n] = it[DOMAIN desired]  BY <1>0
<1> HIDE DEF g
<1>15. QED  BY <1>6, <1>12, <1>13, <1>14 DEF n

\* Where the loop over the groups is after the first k of them.
GroupsSoFar(work, w, desired, policy, k) ==
  /\ ~Failed(w) =>
       /\ ~Failed(work)
       /\ KeepsHand(work.groups, w.groups)
       /\ \A j \in 1..k : Done(w.groups, desired[j], policy)
       /\ ~AllConflicts(work.changes) => ~AllConflicts(w.changes)
       /\ (\E j \in 1..k : ~Done(work.groups, desired[j], policy)) => ~AllConflicts(w.changes)
  /\ ~Failed(work) /\ (\A j \in 1..k : Done(work.groups, desired[j], policy)) =>
       ~Failed(w) /\ Quiet(work, w)

\* No group is wanted twice.
DistinctNames(desired) == \A i, j \in DOMAIN desired : desired[i].name = desired[j].name => i = j

\* One more round keeps what the loop over the groups keeps.
LEMMA GroupsSoFarStep ==
  ASSUME NEW N, NEW E, NEW C,
         NEW work \in Works(N, E, C), NEW w \in Works(N, E, C), NEW now \in Works(N, E, C),
         NEW desired, NEW policy, NEW n \in Nat, DOMAIN desired = 1..n, DistinctNames(desired),
         NEW k \in Nat, k + 1 \in 1..n,
         GroupsSoFar(work, w, desired, policy, k),
         GroupSettles(w, now, desired[k + 1], policy),
         \A other : other.name # desired[k + 1].name /\ ~Failed(now)
                    /\ Done(w.groups, other, policy) => Done(now.groups, other, policy)
  PROVE  GroupsSoFar(work, now, desired, policy, k + 1)
<1>0. ASSUME NEW j \in 1..(k + 1) PROVE j \in 1..k \/ j = k + 1  OBVIOUS
<1>a. k + 1 \in 1..(k + 1) /\ \A j \in 1..k : j \in 1..(k + 1)  OBVIOUS
<1>1. ASSUME ~Failed(now)
      PROVE  /\ ~Failed(work)
             /\ KeepsHand(work.groups, now.groups)
             /\ \A j \in 1..(k + 1) : Done(now.groups, desired[j], policy)
             /\ ~AllConflicts(work.changes) => ~AllConflicts(now.changes)
             /\ (\E j \in 1..(k + 1) : ~Done(work.groups, desired[j], policy)) =>
                  ~AllConflicts(now.changes)
  <2>1. ~Failed(w) /\ ~Failed(work)  BY <1>1 DEF GroupSettles, GroupsSoFar
  <2>2. KeepsHand(work.groups, now.groups)
    <3>1. KeepsHand(work.groups, w.groups)  BY <2>1 DEF GroupsSoFar
    <3>2. KeepsHand(w.groups, now.groups)  BY <1>1 DEF GroupSettles
    <3>3. /\ work.groups \in Seq(GroupsOf(N, E)) /\ w.groups \in Seq(GroupsOf(N, E))
          /\ now.groups \in Seq(GroupsOf(N, E))
      BY DEF Works
    <3>4. QED  BY <3>1, <3>2, <3>3, KeepsHandStep
  <2>3. ASSUME NEW j \in 1..(k + 1) PROVE Done(now.groups, desired[j], policy)
    <3>1. CASE j = k + 1  BY <1>1, <3>1 DEF GroupSettles
    <3>2. CASE j \in 1..k
      <4>1. j # k + 1 /\ j \in DOMAIN desired /\ k + 1 \in DOMAIN desired  BY <3>2
      <4>2. desired[j].name # desired[k + 1].name  BY <4>1 DEF DistinctNames
      <4>3. Done(w.groups, desired[j], policy)  BY <2>1, <3>2 DEF GroupsSoFar
      <4>4. QED  BY <1>1, <4>2, <4>3
    <3>3. QED  BY <1>0, <3>1, <3>2
  <2>4. ~AllConflicts(work.changes) => ~AllConflicts(now.changes)
    BY <1>1, <2>1 DEF GroupSettles, GroupsSoFar
  <2>5. ASSUME NEW j \in 1..(k + 1), ~Done(work.groups, desired[j], policy)
        PROVE  ~AllConflicts(now.changes)
    <3>1. CASE \E i \in 1..k : ~Done(work.groups, desired[i], policy)
      <4>1. ~AllConflicts(w.changes)  BY <2>1, <3>1 DEF GroupsSoFar
      <4>2. QED  BY <1>1, <4>1 DEF GroupSettles
    <3>2. CASE \A i \in 1..k : Done(work.groups, desired[i], policy)
      <4>1. w.groups = work.groups  BY <2>1, <3>2 DEF GroupsSoFar, Quiet
      <4>2. j = k + 1  BY <1>0, <2>5, <3>2
      <4>3. ~Done(w.groups, desired[k + 1], policy)  BY <2>5, <4>1, <4>2
      <4>4. QED  BY <1>1, <4>3 DEF GroupSettles
    <3>3. QED  BY <3>1, <3>2
  <2>6. QED  BY <2>1, <2>2, <2>3, <2>4, <2>5
<1>2. ASSUME ~Failed(work), \A j \in 1..(k + 1) : Done(work.groups, desired[j], policy)
      PROVE  ~Failed(now) /\ Quiet(work, now)
  <2>1. ~Failed(w) /\ Quiet(work, w)  BY <1>a, <1>2 DEF GroupsSoFar
  <2>2. Done(w.groups, desired[k + 1], policy)  BY <1>a, <1>2, <2>1 DEF Quiet
  <2>3. ~Failed(now) /\ Quiet(w, now)  BY <2>1, <2>2 DEF GroupSettles
  <2>4. QED  BY <2>1, <2>3 DEF Quiet
<1>3. QED  BY <1>1, <1>2 DEF GroupsSoFar

\* After the loop every desired group is done: the induction over the rounds.
LEMMA GroupsSettle ==
  ASSUME NEW N, NEW E, NEW C, NEW S, Setting(N, E, C, S), NEW policy \in Policies,
         NEW work \in Works(N, E, C), NEW desired \in Seq(Wanted(N, S)), DistinctNames(desired),
         NEW now, now = MergeGroups(work, desired, policy)
  PROVE  /\ now \in Works(N, E, C)
         /\ GroupsSoFar(work, now, desired, policy, Len(desired))
<1> DEFINE n == Len(desired)
<1>1. PICK f : /\ f[0] = work
               /\ \A k \in 1..n : f[k] = MergeGroup(f[k - 1], desired[k], policy)
               /\ now = f[n]
  BY GroupsLoop
<1>2. n \in Nat /\ DOMAIN desired = 1..n /\ \A k \in 1..n : desired[k] \in Wanted(N, S)  OBVIOUS
<1> DEFINE T == {k \in Nat : k <= n =>
                   f[k] \in Works(N, E, C) /\ GroupsSoFar(work, f[k], desired, policy, k)}
<1>3. 0 \in T
  <2>1. GroupsSoFar(work, work, desired, policy, 0)
    <3>1. \A j : j \notin 1..0  OBVIOUS
    <3>2. KeepsHand(work.groups, work.groups) /\ Quiet(work, work)
      <4>1. work.groups \in Seq(GroupsOf(N, E))  BY DEF Works
      <4>2. Len(work.groups) >= Len(work.groups)  BY <4>1
      <4>3. QED  BY <4>2 DEF KeepsHand, Quiet
    <3>3. QED  BY <3>1, <3>2 DEF GroupsSoFar
  <2>2. QED  BY <1>1, <2>1
<1>4. ASSUME NEW k \in Nat, k \in T PROVE k + 1 \in T
  <2> SUFFICES ASSUME k + 1 <= n
               PROVE  /\ f[k + 1] \in Works(N, E, C)
                      /\ GroupsSoFar(work, f[k + 1], desired, policy, k + 1)
    OBVIOUS
  <2> DEFINE w      == f[k]
             v      == f[k + 1]
             wanted == desired[k + 1]
  <2>1. k + 1 \in 1..n /\ (k + 1) - 1 = k /\ k <= n  BY <1>2
  <2>2. w \in Works(N, E, C) /\ GroupsSoFar(work, w, desired, policy, k)  BY <1>4, <2>1
  <2>3. wanted \in Wanted(N, S) /\ v = MergeGroup(w, wanted, policy)  BY <1>1, <1>2, <2>1
  <2> HIDE DEF w, v, wanted, T, n
  <2>4. /\ v \in Works(N, E, C)
        /\ GroupSettles(w, v, wanted, policy)
        /\ \A other : other.name # wanted.name /\ ~Failed(v)
                      /\ Done(w.groups, other, policy) => Done(v.groups, other, policy)
    BY ONLY <2>2, <2>3, GroupEffect, Setting(N, E, C, S), policy \in Policies
  <2>5. GroupsSoFar(work, v, desired, policy, k + 1)
    <3>1. GroupSettles(w, v, desired[k + 1], policy)  BY <2>4 DEF wanted
    <3>2. \A other : other.name # desired[k + 1].name /\ ~Failed(v)
                     /\ Done(w.groups, other, policy) => Done(v.groups, other, policy)
      BY <2>4 DEF wanted
    <3>3. n \in Nat /\ DOMAIN desired = 1..n /\ k + 1 \in 1..n  BY <1>2, <2>1
    <3>4. QED
      BY ONLY <2>2, <2>4, <3>1, <3>2, <3>3, GroupsSoFarStep, work \in Works(N, E, C),
              DistinctNames(desired), k \in Nat
  <2>6. QED  BY <2>4, <2>5 DEF v
<1> HIDE DEF T
<1>5. n \in T  BY <1>2, <1>3, <1>4, Induction
<1>6. QED  BY <1>1, <1>2, <1>5 DEF T

-----------------------------------------------------------------------------
(***************************************************************************)
(* The sweep.                                                              *)
(***************************************************************************)
\* The sweep of one group: no orphan is left, hand-written entries stay in their order, and a
\* service that belongs here gets the verdict it got before.
LEMMA SweepEffect ==
  ASSUME NEW N, NEW E, NEW g \in GroupsOf(N, E), NEW desired,
         NEW h, h = SweepGroup(g, desired)
  PROVE  /\ h \in GroupsOf(N, E) /\ h.name = g.name /\ h.shape = g.shape
         /\ Unmanaged(h.items) = Unmanaged(g.items)
         /\ Orphans(h, desired) = {}
         /\ Orphans(g, desired) = {} => h = g
         /\ \A svc, policy :
              DesiredGroupOf(desired, svc.id) = g.name /\ findManagedIndex(g.items, svc.id) # 0
              => Verdict(h.items, svc, policy) = Verdict(g.items, svc, policy)
<1> DEFINE items == g.items
           orphans == Orphans(g, desired)
           K == ToSet(items) \ orphans
           kept == Only(items, K)
           Own(t) == {e \in ToSet(t) : ~IsManaged(e)}
<1>1. /\ items \in Seq(E) /\ g.name \in N
      /\ g = [name |-> g.name, shape |-> g.shape, items |-> items]
      /\ g.shape \in {"list", "notList", "noItems"} /\ (g.shape # "list" => items = <<>>)
  BY DEF GroupsOf
<1>2. orphans # {} => g.shape = "list"  BY DEF Orphans, Sweepable
<1>3. \A e \in orphans : Orphaned(e, g.name, desired)  BY DEF Orphans
<1>4. h = IF orphans = {} THEN g ELSE [name |-> g.name, shape |-> g.shape, items |-> kept]
  BY <1>1 DEF SweepGroup
<1>5. orphans \subseteq ToSet(items)  BY DEF Orphans
<1>6. \A e \in ToSet(items) : Sweepable(g) /\ Orphaned(e, g.name, desired) => e \in orphans
  BY DEF Orphans
<1>7. kept \in Seq(E) /\ ToSet(kept) = ToSet(items) \cap K
  <2> HIDE DEF K
  <2> HIDE DEF items
  <2>1. QED  BY <1>1, OnlyTypes, OnlyElements
<1> HIDE DEF orphans
<1>8. CASE orphans = {}
  <2>1. h = g  BY <1>4, <1>8
  <2>2. QED  BY <1>8, <2>1 DEF orphans
<1>9. CASE orphans # {}
  <2>1. /\ h.name = g.name /\ h.shape = g.shape /\ h.items = kept /\ g.shape = "list"
        /\ h = [name |-> g.name, shape |-> g.shape, items |-> kept]
    BY <1>2, <1>4, <1>9
  <2>2. h \in GroupsOf(N, E)  BY <1>1, <1>7, <2>1 DEF GroupsOf
  <2>3. Unmanaged(kept) = Unmanaged(items)
    <3> DEFINE P == Own(kept)
               Q == Own(items)
               R == K \cap P
    <3>1. ASSUME NEW i \in DOMAIN items PROVE items[i] \in R <=> items[i] \in Q
      <4>1. items[i] \in ToSet(items)  BY DEF ToSet
      <4>2. ~IsManaged(items[i]) => items[i] \in K  BY <1>3, <4>1 DEF Orphaned
      <4>3. QED  BY <1>7, <4>1, <4>2
    <3>2. Only(items, R) = Only(items, Q)
      <4> HIDE DEF R, Q, items
      <4>1. QED  BY <3>1, OnlySame
    <3>3. Only(kept, P) = Only(items, R)
      <4> HIDE DEF P, K, items
      <4>1. QED  BY <1>1, OnlyComposed
    <3>4. QED  BY <3>2, <3>3 DEF Unmanaged
  <2>4. Orphans(h, desired) = {}
    <3> SUFFICES ASSUME NEW e \in Orphans(h, desired) PROVE FALSE  OBVIOUS
    <3>1. Sweepable(h) /\ e \in ToSet(h.items) /\ Orphaned(e, h.name, desired)  BY DEF Orphans
    <3>2. Sweepable(g)  BY <2>1, <3>1 DEF Sweepable
    <3>3. e \in K /\ e \in ToSet(items)  BY <1>7, <2>1, <3>1
    <3>4. e \in orphans  BY <1>6, <2>1, <3>1, <3>2, <3>3
    <3>5. QED  BY <3>3, <3>4
  <2>5. ASSUME NEW svc, NEW policy, DesiredGroupOf(desired, svc.id) = g.name,
               findManagedIndex(items, svc.id) # 0
        PROVE  Verdict(kept, svc, policy) = Verdict(items, svc, policy)
    <3> DEFINE i == findManagedIndex(items, svc.id)
               j == findManagedIndex(kept, svc.id)
    <3>1. i \in DOMAIN items /\ Mine(items[i], svc.id)  BY <1>1, <2>5, FoundIsFirst
    <3>2. items[i] \in ToSet(items)  BY <3>1 DEF ToSet
    <3>3. ~Orphaned(items[i], g.name, desired)  BY <2>5, <3>1 DEF Orphaned, Mine
    <3>4. items[i] \in K  BY <1>3, <3>2, <3>3
    <3>5. j # 0 /\ kept[j] = items[i]
      <4> HIDE DEF K, items
      <4>1. QED  BY <1>1, <2>5, <3>4, OnlyKeepsFound
    <3>6. QED  BY <2>5, <3>5, SameVerdict
  <2>6. QED  BY <1>9, <2>1, <2>2, <2>3, <2>4, <2>5 DEF orphans
<1>10. QED  BY <1>8, <1>9

\* Two reports, one after the other.
LEMMA AllConflictsJoined ==
  ASSUME NEW C, NEW a \in Seq(C), NEW b \in Seq(C)
  PROVE  AllConflicts(a \o b) <=> AllConflicts(a) /\ AllConflicts(b)
<1> DEFINE c == a \o b
<1>1. /\ DOMAIN a = 1..Len(a) /\ DOMAIN b = 1..Len(b) /\ DOMAIN c = 1..(Len(a) + Len(b))
      /\ Len(a) \in Nat /\ Len(b) \in Nat
      /\ \A i \in 1..Len(a) : c[i] = a[i]
      /\ \A i \in 1..Len(b) : c[Len(a) + i] = b[i]
  OBVIOUS
<1> HIDE DEF c
<1>2. /\ \A i \in 1..Len(a) : i \in DOMAIN c
      /\ \A i \in 1..Len(b) : Len(a) + i \in DOMAIN c
      /\ \A i \in DOMAIN c : i \notin 1..Len(a) => i - Len(a) \in 1..Len(b) /\ i = Len(a) + (i - Len(a))
  BY <1>1
<1>3. ASSUME AllConflicts(c) PROVE AllConflicts(a) /\ AllConflicts(b)
  BY <1>1, <1>2, <1>3 DEF AllConflicts
<1>4. ASSUME AllConflicts(a), AllConflicts(b) PROVE AllConflicts(c)
  <2> SUFFICES ASSUME NEW i \in DOMAIN c PROVE c[i].kind = "conflict"  BY DEF AllConflicts
  <2>1. CASE i \in 1..Len(a)
    <3>1. c[i] = a[i] /\ i \in DOMAIN a  BY <1>1, <2>1
    <3>2. QED  BY <1>4, <3>1 DEF AllConflicts
  <2>2. CASE i \notin 1..Len(a)
    <3>1. i - Len(a) \in 1..Len(b) /\ i = Len(a) + (i - Len(a))  BY <1>2, <2>2
    <3>2. c[i] = b[i - Len(a)] /\ i - Len(a) \in DOMAIN b  BY <1>1, <3>1
    <3>3. QED  BY <1>4, <3>2 DEF AllConflicts
  <2>3. QED  BY <2>1, <2>2
<1>5. QED  BY <1>3, <1>4 DEF c

\* Many reports, one after the other.
LEMMA AllConflictsFlat ==
  ASSUME NEW C, NEW ss \in Seq(Seq(C))
  PROVE  /\ FlattenSeq(ss) \in Seq(C)
         /\ AllConflicts(FlattenSeq(ss)) <=> \A i \in DOMAIN ss : AllConflicts(ss[i])
<1> DEFINE Flat(tt) == /\ FlattenSeq(tt) \in Seq(C)
                       /\ AllConflicts(FlattenSeq(tt)) <=> \A i \in DOMAIN tt : AllConflicts(tt[i])
           G == {tt \in Seq(Seq(C)) : Flat(tt)}
           none == <<>>
<1>1. <<>> \in G
  <2>1. none \in Seq(Seq(C)) /\ none \in Seq(C) /\ DOMAIN none = {}  OBVIOUS
  <2>2. FlattenSeq(none) = none  BY FlattenEmpty
  <2> HIDE DEF none
  <2>3. Flat(none)  BY <2>1, <2>2 DEF AllConflicts
  <2>4. QED  BY <2>1, <2>3 DEF none
<1>2. ASSUME NEW tt \in Seq(Seq(C)), NEW s \in Seq(C), tt \in G PROVE Append(tt, s) \in G
  <2> DEFINE now == Append(tt, s)
  <2>1. /\ now \in Seq(Seq(C)) /\ Len(tt) \in Nat
        /\ DOMAIN tt = 1..Len(tt) /\ DOMAIN now = 1..(Len(tt) + 1)
        /\ now[Len(tt) + 1] = s
        /\ \A i \in 1..Len(tt) : now[i] = tt[i]
    OBVIOUS
  <2>2. FlattenSeq(now) = FlattenSeq(tt) \o s  BY FlattenAppend
  <2>3. Flat(tt)  BY <1>2
  <2> HIDE DEF now
  <2>4. AllConflicts(FlattenSeq(now)) <=> AllConflicts(FlattenSeq(tt)) /\ AllConflicts(s)
    BY <2>2, <2>3, AllConflictsJoined
  <2>5. FlattenSeq(now) \in Seq(C)
    <3>1. FlattenSeq(tt) \in Seq(C)  BY <2>3
    <3>2. QED  BY <2>2, <3>1
  <2>6. (\A i \in DOMAIN now : AllConflicts(now[i])) <=>
        (\A i \in DOMAIN tt : AllConflicts(tt[i])) /\ AllConflicts(s)
    <3>1. \A i \in DOMAIN now : i \in DOMAIN tt \/ i = Len(tt) + 1  BY <2>1
    <3>2. Len(tt) + 1 \in DOMAIN now /\ \A i \in DOMAIN tt : i \in DOMAIN now  BY <2>1
    <3>3. QED  BY <2>1, <3>1, <3>2
  <2>7. Flat(now)  BY <2>3, <2>4, <2>5, <2>6
  <2>8. QED  BY <2>1, <2>7 DEF now
<1> HIDE DEF G
<1>3. \A tt \in Seq(Seq(C)) : tt \in G  BY <1>1, <1>2, SeqInduction
<1>4. QED  BY <1>3 DEF G

\* Every orphan is reported.
LEMMA RemovalsReported ==
  ASSUME NEW N, NEW E, NEW C, NEW S, Setting(N, E, C, S), NEW g \in GroupsOf(N, E), NEW desired
  PROVE  /\ Removals(g, desired) \in Seq(C)
         /\ AllConflicts(Removals(g, desired)) <=> Orphans(g, desired) = {}
<1> DEFINE items == g.items
           orphans == Orphans(g, desired)
           gone == Only(items, orphans)
           r == Removals(g, desired)
<1>1. items \in Seq(E) /\ g.name \in N  BY DEF GroupsOf
<1>2. orphans \subseteq ToSet(items)  BY DEF Orphans
<1>3. r = [i \in DOMAIN gone |-> [kind |-> "removed", id |-> gone[i].comment.id, group |-> g.name]]
  BY DEF Removals
<1> HIDE DEF items, orphans
<1>4. gone \in Seq(E) /\ ToSet(gone) = ToSet(items) \cap orphans
  BY <1>1, OnlyTypes, OnlyElements
<1> HIDE DEF gone, r
<1>5. DOMAIN gone = 1..Len(gone) /\ Len(gone) \in Nat /\ \A i \in DOMAIN gone : gone[i] \in E
  BY <1>4
<1>6. r \in Seq(C)
  <2>1. \A i \in DOMAIN gone : [kind |-> "removed", id |-> gone[i].comment.id, group |-> g.name] \in C
    BY <1>1, <1>5 DEF Setting
  <2>2. QED  BY <1>3, <1>5, <2>1
<1>7. AllConflicts(r) <=> DOMAIN gone = {}
  <2>1. DOMAIN r = DOMAIN gone /\ \A i \in DOMAIN gone : r[i].kind = "removed"  BY <1>3
  <2>2. QED  BY <2>1 DEF AllConflicts
<1>8. DOMAIN gone = {} <=> orphans = {}
  <2>1. ToSet(gone) = orphans  BY <1>2, <1>4
  <2>2. ToSet(gone) = {gone[i] : i \in DOMAIN gone}  BY DEF ToSet
  <2>3. QED  BY <2>1, <2>2
<1>9. QED  BY <1>6, <1>7, <1>8 DEF r, orphans

-----------------------------------------------------------------------------
(***************************************************************************)
(* The whole merge.                                                        *)
(***************************************************************************)
\* Every service is wanted in one group.
Owned(desired) ==
  \A i \in DOMAIN desired : \A j \in DOMAIN desired[i].services :
    DesiredGroupOf(desired, desired[i].services[j].id) = desired[i].name

\* A document a merge has nothing to do with: every desired group is done, and
\* there is nothing to sweep.
Settled(groups, desired, policy) ==
  /\ \A i \in DOMAIN desired : Done(groups, desired[i], policy)
  /\ \A i \in DOMAIN groups : Orphans(groups[i], desired) = {}

\* The groups after the removal pass.
Swept(groups, desired) == [i \in DOMAIN groups |-> SweepGroup(groups[i], desired)]

\* After the sweep of a document whose groups are done there is nothing left to do, and a
\* document without orphans is left as it was.
LEMMA SweepSettles ==
  ASSUME NEW N, NEW E, NEW groups \in Seq(GroupsOf(N, E)), NEW desired, Owned(desired), NEW policy,
         NEW now, now = Swept(groups, desired)
  PROVE  /\ now \in Seq(GroupsOf(N, E))
         /\ KeepsHand(groups, now)
         /\ (\A i \in DOMAIN desired : Done(groups, desired[i], policy)) => Settled(now, desired, policy)
         /\ (\A i \in DOMAIN groups : Orphans(groups[i], desired) = {}) => now = groups
<1>1. /\ DOMAIN groups = 1..Len(groups) /\ Len(groups) \in Nat
      /\ \A i \in DOMAIN groups : groups[i] \in GroupsOf(N, E)
  OBVIOUS
<1>2. ASSUME NEW i \in DOMAIN groups
      PROVE  /\ now[i] \in GroupsOf(N, E) /\ now[i].name = groups[i].name /\ now[i].shape = groups[i].shape
             /\ Unmanaged(now[i].items) = Unmanaged(groups[i].items)
             /\ Orphans(now[i], desired) = {}
             /\ Orphans(groups[i], desired) = {} => now[i] = groups[i]
             /\ \A svc, p :
                  DesiredGroupOf(desired, svc.id) = groups[i].name
                    /\ findManagedIndex(groups[i].items, svc.id) # 0
                  => Verdict(now[i].items, svc, p) = Verdict(groups[i].items, svc, p)
  <2>1. groups[i] \in GroupsOf(N, E) /\ now[i] = SweepGroup(groups[i], desired)
    BY <1>1 DEF Swept
  <2> DEFINE g == groups[i]
             h == now[i]
  <2>2. g \in GroupsOf(N, E) /\ h = SweepGroup(g, desired)  BY <2>1
  <2> HIDE DEF g, h
  <2>3. /\ h \in GroupsOf(N, E) /\ h.name = g.name /\ h.shape = g.shape
        /\ Unmanaged(h.items) = Unmanaged(g.items)
        /\ Orphans(h, desired) = {}
        /\ Orphans(g, desired) = {} => h = g
        /\ \A svc, p :
             DesiredGroupOf(desired, svc.id) = g.name /\ findManagedIndex(g.items, svc.id) # 0
             => Verdict(h.items, svc, p) = Verdict(g.items, svc, p)
    BY ONLY <2>2, SweepEffect
  <2>4. QED  BY <2>3 DEF g, h
<1>3. DOMAIN now = 1..Len(groups) /\ Len(now) = Len(groups) /\ now \in Seq(GroupsOf(N, E))
  <2>1. DOMAIN now = 1..Len(groups) /\ now = [i \in 1..Len(groups) |-> now[i]]
    BY <1>1 DEF Swept
  <2>2. QED  BY <1>1, <1>2, <2>1
<1>4. KeepsHand(groups, now)  BY <1>1, <1>2, <1>3 DEF KeepsHand
<1>5. (\A i \in DOMAIN groups : Orphans(groups[i], desired) = {}) => now = groups
  <2> SUFFICES ASSUME \A i \in DOMAIN groups : Orphans(groups[i], desired) = {} PROVE now = groups
    OBVIOUS
  <2>1. \A i \in DOMAIN groups : now[i] = groups[i]  BY <1>2
  <2>2. QED  BY <1>1, <1>3, <2>1
<1>6. ASSUME NEW k \in DOMAIN desired, Done(groups, desired[k], policy)
      PROVE  Done(now, desired[k], policy)
  <2> DEFINE wanted == desired[k]
             gi == GroupIndex(groups, wanted.name)
  <2>1. gi # 0 /\ groups[gi].shape = "list"
        /\ \A j \in DOMAIN wanted.services : Fine(groups[gi].items, wanted.services[j], policy)
    BY <1>6 DEF Done
  <2>2. gi \in DOMAIN groups /\ groups[gi].name = wanted.name  BY <2>1, IndexIsFirst
  <2>3. GroupIndex(now, wanted.name) = gi
    <3>1. \A i \in 1..Len(groups) : now[i].name = groups[i].name  BY <1>1, <1>2
    <3>2. QED  BY <1>3, <3>1, IndexOfNames
  <2> HIDE DEF gi
  <2>4. ASSUME NEW j \in DOMAIN wanted.services
        PROVE  Fine(now[gi].items, wanted.services[j], policy)
    <3> DEFINE svc == wanted.services[j]
    <3>1. DesiredGroupOf(desired, svc.id) = groups[gi].name  BY <2>2 DEF Owned
    <3>2. Fine(groups[gi].items, svc, policy)  BY <2>1
    <3>3. findManagedIndex(groups[gi].items, svc.id) # 0  BY <3>2 DEF Fine, Verdict
    <3> HIDE DEF svc
    <3>4. Verdict(now[gi].items, svc, policy) = Verdict(groups[gi].items, svc, policy)
      BY <1>2, <2>2, <3>1, <3>3
    <3>5. QED  BY <3>2, <3>4 DEF Fine, svc
  <2>5. now[gi].shape = "list"  BY <1>2, <2>1, <2>2
  <2>6. QED  BY <2>1, <2>3, <2>4, <2>5 DEF Done
<1>7. \A i \in DOMAIN now : Orphans(now[i], desired) = {}  BY <1>1, <1>2, <1>3
<1>8. QED  BY <1>3, <1>4, <1>5, <1>6, <1>7 DEF Settled

\* The whole call.  A run that writes settles the document and keeps what is hand-written; it
\* reports a change other than a conflict if the document was not settled; and a document that
\* is settled is returned as it is, with nothing but conflicts reported.
LEMMA MergeEffect ==
  ASSUME NEW N, NEW E, NEW C, NEW S, Setting(N, E, C, S), NEW policy \in Policies,
         NEW doc \in Documents(N, E),
         NEW desired \in Seq(Wanted(N, S)), DistinctNames(desired), Owned(desired),
         NEW result, result = Merge(doc, desired, policy)
  PROVE  /\ result.doc \in Documents(N, E)
         /\ result.error = Absent =>
              /\ result.doc.root = "groups"
              /\ KeepsHand(doc.groups, result.doc.groups)
              /\ Settled(result.doc.groups, desired, policy)
              /\ ~Settled(doc.groups, desired, policy) => ~AllConflicts(result.changes)
         /\ doc.root = "groups" /\ Settled(doc.groups, desired, policy) =>
              /\ result.error = Absent /\ result.doc = doc
              /\ AllConflicts(result.changes)
<1> DEFINE start   == [error |-> Absent, groups |-> doc.groups, changes |-> <<>>]
           applied == MergeGroups(start, desired, policy)
           swept   == [i \in DOMAIN applied.groups |-> SweepGroup(applied.groups[i], desired)]
           removed == [i \in DOMAIN applied.groups |-> Removals(applied.groups[i], desired)]
           after   == [root |-> "groups", groups |-> swept]
           changes == applied.changes \o FlattenSeq(removed)
<1>1. /\ doc.groups \in Seq(GroupsOf(N, E)) /\ doc = [root |-> doc.root, groups |-> doc.groups]
      /\ doc.root \in {"blank", "groups", "noKey", "other"}
  BY DEF Documents
<1>2. start.error = Absent /\ start.groups = doc.groups /\ start.changes = <<>>  OBVIOUS
<1>3. start \in Works(N, E, C)
  <2>1. Absent \in Errors /\ <<>> \in Seq(C)  BY DEF Errors
  <2>2. QED  BY <1>1, <2>1 DEF Works
<1>4. ~Failed(start) /\ AllConflicts(start.changes)
  <2> DEFINE none == <<>>
  <2>1. DOMAIN none = {}  OBVIOUS
  <2> HIDE DEF none
  <2>2. AllConflicts(none)  BY <2>1 DEF AllConflicts
  <2>3. QED  BY <1>2, <2>2 DEF Failed, none
<1>5. result = IF ~HasGroupSequence(doc) THEN [error |-> "root", doc |-> doc, changes |-> <<>>]
               ELSE IF Failed(applied) THEN [error |-> applied.error, doc |-> doc, changes |-> <<>>]
               ELSE [error |-> Absent, doc |-> after, changes |-> changes]
  BY DEF Merge
<1>a. applied = MergeGroups(start, desired, policy)  OBVIOUS
<1> HIDE DEF start, applied
<1>6. applied \in Works(N, E, C) /\ GroupsSoFar(start, applied, desired, policy, Len(desired))
  BY <1>3, <1>a, GroupsSettle
<1>7. applied.groups \in Seq(GroupsOf(N, E)) /\ applied.changes \in Seq(C)  BY <1>6 DEF Works
<1>8. DOMAIN desired = 1..Len(desired)  OBVIOUS
<1>9. /\ swept \in Seq(GroupsOf(N, E))
      /\ KeepsHand(applied.groups, swept)
      /\ (\A i \in DOMAIN desired : Done(applied.groups, desired[i], policy)) =>
           Settled(swept, desired, policy)
      /\ (\A i \in DOMAIN applied.groups : Orphans(applied.groups[i], desired) = {}) =>
           swept = applied.groups
  <2> DEFINE groups == applied.groups
  <2>1. groups \in Seq(GroupsOf(N, E)) /\ swept = Swept(groups, desired)
    BY <1>7 DEF Swept
  <2> HIDE DEF groups, swept
  <2>2. /\ swept \in Seq(GroupsOf(N, E))
        /\ KeepsHand(groups, swept)
        /\ (\A i \in DOMAIN desired : Done(groups, desired[i], policy)) =>
             Settled(swept, desired, policy)
        /\ (\A i \in DOMAIN groups : Orphans(groups[i], desired) = {}) => swept = groups
    BY ONLY <2>1, SweepSettles, Owned(desired)
  <2>3. QED  BY <2>2 DEF groups
<1>10. AllConflicts(changes) <=>
         AllConflicts(applied.changes)
         /\ \A i \in DOMAIN applied.groups : Orphans(applied.groups[i], desired) = {}
  <2>1. ASSUME NEW i \in DOMAIN applied.groups
        PROVE  /\ removed[i] \in Seq(C)
               /\ AllConflicts(removed[i]) <=> Orphans(applied.groups[i], desired) = {}
    <3> DEFINE g == applied.groups[i]
    <3>1. g \in GroupsOf(N, E) /\ removed[i] = Removals(g, desired)  BY <1>7
    <3> HIDE DEF g, removed
    <3>2. Removals(g, desired) \in Seq(C) /\ (AllConflicts(Removals(g, desired)) <=> Orphans(g, desired) = {})
      BY <3>1, RemovalsReported
    <3>3. QED  BY <3>1, <3>2 DEF g
  <2>2. removed \in Seq(Seq(C)) /\ DOMAIN removed = DOMAIN applied.groups
    <3> DEFINE n == Len(applied.groups)
    <3>1. /\ DOMAIN applied.groups = 1..n /\ n \in Nat
          /\ removed = [i \in 1..n |-> removed[i]] /\ DOMAIN removed = 1..n
      BY <1>7
    <3> HIDE DEF removed, n
    <3>2. \A i \in 1..n : removed[i] \in Seq(C)  BY <2>1, <3>1
    <3>3. removed \in Seq(Seq(C))  BY <3>1, <3>2
    <3>4. QED  BY <3>1, <3>3
  <2> HIDE DEF removed
  <2>3. /\ FlattenSeq(removed) \in Seq(C)
        /\ AllConflicts(FlattenSeq(removed)) <=> \A i \in DOMAIN removed : AllConflicts(removed[i])
    BY <2>2, AllConflictsFlat
  <2>4. AllConflicts(applied.changes \o FlattenSeq(removed)) <=>
        AllConflicts(applied.changes) /\ AllConflicts(FlattenSeq(removed))
    BY <1>7, <2>3, AllConflictsJoined
  <2>5. QED  BY <2>1, <2>2, <2>3, <2>4
<1>11. after \in Documents(N, E) /\ after.root = "groups" /\ after.groups = swept
  BY <1>9 DEF Documents
<1> HIDE DEF swept, removed, after, changes
<1>12. ASSUME result.error = Absent
       PROVE  HasGroupSequence(doc) /\ ~Failed(applied) /\ result.doc = after /\ result.changes = changes
  <2>1. HasGroupSequence(doc)  BY <1>5, <1>12, AbsentIsNoError
  <2>2. ~Failed(applied)  BY <1>5, <1>12, <2>1 DEF Failed
  <2>3. QED  BY <1>5, <2>1, <2>2
<1>13. result.doc \in Documents(N, E)  BY <1>5, <1>11
<1>14. ASSUME result.error = Absent
       PROVE  /\ result.doc.root = "groups"
              /\ KeepsHand(doc.groups, result.doc.groups)
              /\ Settled(result.doc.groups, desired, policy)
              /\ ~Settled(doc.groups, desired, policy) => ~AllConflicts(result.changes)
  <2>1. ~Failed(applied) /\ result.doc = after /\ result.changes = changes  BY <1>12, <1>14
  <2>2. KeepsHand(doc.groups, applied.groups)  BY <1>2, <1>6, <2>1 DEF GroupsSoFar
  <2>3. KeepsHand(doc.groups, swept)  BY <1>1, <1>7, <1>9, <2>2, KeepsHandStep
  <2>4. Settled(swept, desired, policy)
    <3>1. \A i \in DOMAIN desired : Done(applied.groups, desired[i], policy)
      BY <1>6, <1>8, <2>1 DEF GroupsSoFar
    <3>2. QED  BY <1>9, <3>1
  <2>5. ASSUME ~Settled(doc.groups, desired, policy) PROVE ~AllConflicts(changes)
    <3>1. CASE \E i \in DOMAIN desired : ~Done(doc.groups, desired[i], policy)
      <4>1. ~AllConflicts(applied.changes)  BY <1>2, <1>6, <1>8, <2>1, <3>1 DEF GroupsSoFar
      <4>2. QED  BY <1>10, <4>1
    <3>2. CASE \A i \in DOMAIN desired : Done(doc.groups, desired[i], policy)
      <4>1. applied.groups = doc.groups
        BY <1>2, <1>4, <1>6, <1>8, <3>2 DEF GroupsSoFar, Quiet
      <4>2. \E i \in DOMAIN doc.groups : Orphans(doc.groups[i], desired) # {}
        BY <2>5, <3>2 DEF Settled
      <4>3. QED  BY <1>10, <4>1, <4>2
    <3>3. QED  BY <3>1, <3>2
  <2>6. QED  BY <1>11, <2>1, <2>3, <2>4, <2>5
<1>15. ASSUME doc.root = "groups", Settled(doc.groups, desired, policy)
       PROVE  result.error = Absent /\ result.doc = doc /\ AllConflicts(result.changes)
  <2>1. \A i \in DOMAIN desired : Done(doc.groups, desired[i], policy)  BY <1>15 DEF Settled
  <2>2. ~Failed(applied) /\ Quiet(start, applied)
    BY <1>2, <1>4, <1>6, <1>8, <2>1 DEF GroupsSoFar
  <2>3. applied.groups = doc.groups /\ AllConflicts(applied.changes)
    BY <1>2, <1>4, <2>2 DEF Quiet
  <2>4. \A i \in DOMAIN applied.groups : Orphans(applied.groups[i], desired) = {}
    BY <1>15, <2>3 DEF Settled
  <2>5. swept = doc.groups /\ AllConflicts(changes)  BY <1>9, <1>10, <2>3, <2>4
  <2>6. after = doc  BY <1>1, <1>15, <2>5 DEF after
  <2>7. HasGroupSequence(doc)  BY <1>15 DEF HasGroupSequence
  <2>8. QED  BY <1>5, <2>2, <2>5, <2>6, <2>7
<1>16. QED  BY <1>13, <1>14, <1>15

-----------------------------------------------------------------------------
(***************************************************************************)
(* Where the entries of a merged document come from, and which ones stay.  *)
(***************************************************************************)
\* No two entries carry a marker with the same id.
Once(items) ==
  \A i, j \in DOMAIN items :
    IsManaged(items[i]) /\ IsManaged(items[j]) /\ items[i].comment.id = items[j].comment.id => i = j

\* What the merge takes for a human's work: an entry that no longer has its fingerprint, or
\* cannot be read any more.
Dirty(e) == e.body = Unreadable \/ HandEdited(e)

\* The service has no reason to replace this entry.
Spared(e, svc, policy) == e.body = svc.body \/ (policy # "overwrite" /\ Dirty(e))

\* An entry no service of S has a reason to replace.
SparedByAll(e, S, policy) ==
  IsManaged(e) /\ \A svc \in S : svc.id = e.comment.id => Spared(e, svc, policy)

\* From one list of items to a later one: what is new was rendered, what all services spare
\* stays, and no id gets a second entry.
Grows(old, new, S, policy) ==
  /\ \A e \in ToSet(new) : e \in ToSet(old) \/ \E svc \in S : e = Rendered(svc)
  /\ \A e \in ToSet(old) : SparedByAll(e, S, policy) => e \in ToSet(new)
  /\ Once(old) => Once(new)

\* One service after another.
LEMMA GrowsStep ==
  ASSUME NEW S, NEW policy, NEW a, NEW b, NEW c, Grows(a, b, S, policy), Grows(b, c, S, policy)
  PROVE  Grows(a, c, S, policy)
<1>1. ASSUME NEW e \in ToSet(c) PROVE e \in ToSet(a) \/ \E svc \in S : e = Rendered(svc)
  <2>1. e \in ToSet(b) \/ \E svc \in S : e = Rendered(svc)  BY DEF Grows
  <2>2. QED  BY <2>1 DEF Grows
<1>2. ASSUME NEW e \in ToSet(a), SparedByAll(e, S, policy) PROVE e \in ToSet(c)
  <2>1. e \in ToSet(b)  BY <1>2 DEF Grows
  <2>2. QED  BY <1>2, <2>1 DEF Grows
<1>3. Once(a) => Once(c)  BY DEF Grows
<1>4. QED  BY <1>1, <1>2, <1>3 DEF Grows

\* A service that changes nothing.
LEMMA GrowsSame ==
  ASSUME NEW S, NEW policy, NEW a
  PROVE  Grows(a, a, S, policy)
BY DEF Grows

\* applyDesired adds or replaces one rendered entry, and leaves alone what its service spares.
LEMMA ApplyGrows ==
  ASSUME NEW E, NEW items \in Seq(E), NEW S, NEW svc \in S, Proper(svc), Rendered(svc) \in E,
         NEW policy \in Policies
  PROVE  Grows(items, ApplyService(items, svc, policy), S, policy)
<1> DEFINE now == ApplyService(items, svc, policy)
           v == Verdict(items, svc, policy)
           i == findManagedIndex(items, svc.id)
           r == Rendered(svc)
<1>1. \/ now = items
      \/ v = "added" /\ now = Append(items, r) /\ i = 0
      \/ /\ v = "updated" /\ i \in DOMAIN items /\ Mine(items[i], svc.id)
         /\ now = [items EXCEPT ![i] = r]
  BY ApplyEffect
<1>2. r \in E /\ Mine(r, svc.id)  BY RenderedIsMine
<1>3. \/ i = 0 /\ \A j \in DOMAIN items : ~Mine(items[j], svc.id)
      \/ i \in DOMAIN items /\ i # 0 /\ Mine(items[i], svc.id)
  BY FoundIsFirst
<1>4. v = "updated" /\ i # 0 => ~Spared(items[i], svc, policy)
  BY DEF Verdict, Spared, Dirty, Policies
<1>a. r = Rendered(svc)  OBVIOUS
<1>b. DOMAIN items = 1..Len(items) /\ Len(items) \in Nat  OBVIOUS
<1> HIDE DEF now, v, i, r
<1>5. CASE now = items  BY <1>5, GrowsSame DEF now
<1>6. CASE v = "added" /\ now = Append(items, r) /\ i = 0
  <2>1. /\ DOMAIN now = 1..(Len(items) + 1) /\ now[Len(items) + 1] = r
        /\ \A j \in DOMAIN items : now[j] = items[j]
    BY <1>2, <1>6
  <2>2. \A j \in DOMAIN now : j \in DOMAIN items \/ j = Len(items) + 1  BY <1>b, <2>1
  <2>3. ASSUME NEW e \in ToSet(now) PROVE e \in ToSet(items) \/ e = r
    <3>1. PICK j \in DOMAIN now : e = now[j]  BY DEF ToSet
    <3>2. QED  BY <2>1, <2>2, <3>1 DEF ToSet
  <2>4. ASSUME NEW e \in ToSet(items) PROVE e \in ToSet(now)
    <3>1. PICK j \in DOMAIN items : e = items[j]  BY DEF ToSet
    <3>2. j \in DOMAIN now  BY <1>b, <2>1
    <3>3. QED  BY <2>1, <3>1, <3>2 DEF ToSet
  <2>5. ASSUME Once(items) PROVE Once(now)
    <3> SUFFICES ASSUME NEW j \in DOMAIN now, NEW k \in DOMAIN now, IsManaged(now[j]), IsManaged(now[k]),
                        now[j].comment.id = now[k].comment.id
                 PROVE  j = k
      BY DEF Once
    <3>1. \A l \in DOMAIN items : ~(IsManaged(now[l]) /\ now[l].comment.id = r.comment.id)
      BY <1>2, <1>3, <1>6, <2>1 DEF Mine
    <3>2. CASE j = Len(items) + 1  BY <2>1, <2>2, <3>1, <3>2
    <3>3. CASE k = Len(items) + 1  BY <2>1, <2>2, <3>1, <3>3
    <3>4. CASE j \in DOMAIN items /\ k \in DOMAIN items  BY <2>1, <2>5, <3>4 DEF Once
    <3>5. QED  BY <2>2, <3>2, <3>3, <3>4
  <2>6. QED  BY <1>a, <2>3, <2>4, <2>5 DEF Grows, now
<1>7. CASE /\ v = "updated" /\ i \in DOMAIN items /\ Mine(items[i], svc.id)
           /\ now = [items EXCEPT ![i] = r]
  <2>1. /\ DOMAIN now = DOMAIN items /\ now[i] = r
        /\ \A j \in DOMAIN items : j # i => now[j] = items[j]
    BY <1>7
  <2>2. ASSUME NEW e \in ToSet(now) PROVE e \in ToSet(items) \/ e = r
    <3>1. PICK j \in DOMAIN now : e = now[j]  BY DEF ToSet
    <3>2. QED  BY <2>1, <3>1 DEF ToSet
  <2>3. ASSUME NEW e \in ToSet(items), SparedByAll(e, S, policy) PROVE e \in ToSet(now)
    <3>1. PICK j \in DOMAIN items : e = items[j]  BY DEF ToSet
    <3>2. j # i
      <4>1. ~SparedByAll(items[i], S, policy)  
        <5>1. i # 0  BY <1>b, <1>7
        <5>2. QED  BY <1>4, <1>7, <5>1 DEF SparedByAll, Mine
      <4>2. QED  BY <2>3, <3>1, <4>1
    <3>3. QED  BY <2>1, <3>1, <3>2 DEF ToSet
  <2>4. ASSUME Once(items) PROVE Once(now)
    <3>1. ASSUME NEW j \in DOMAIN items
          PROVE  IsManaged(now[j]) => IsManaged(items[j]) /\ items[j].comment.id = now[j].comment.id
      BY <1>2, <1>7, <2>1 DEF Mine
    <3>2. QED  BY <2>1, <2>4, <3>1 DEF Once
  <2>5. QED  BY <1>a, <2>2, <2>3, <2>4 DEF Grows, now
<1>8. QED  BY <1>1, <1>5, <1>6, <1>7

\* The items of the i-th group, none where there is no such group.
ItemsAt(groups, i) == IF i \in DOMAIN groups THEN groups[i].items ELSE <<>>

\* No two groups have the same name, items that are no groups aside.
NamesApart(groups) ==
  \A i, j \in DOMAIN groups : groups[i].name = groups[j].name /\ groups[i].name # NoName => i = j

\* Grows, for each group; and no name gets a second group.
Traced(groups, now, S, policy) ==
  /\ \A i \in Nat : Grows(ItemsAt(groups, i), ItemsAt(now, i), S, policy)
  /\ NamesApart(groups) => NamesApart(now)

\* A document traces back to itself.
LEMMA TracedSame ==
  ASSUME NEW S, NEW policy, NEW groups
  PROVE  Traced(groups, groups, S, policy)
BY GrowsSame DEF Traced

\* One group after another.
LEMMA TracedStep ==
  ASSUME NEW S, NEW policy, NEW a, NEW b, NEW c, Traced(a, b, S, policy), Traced(b, c, S, policy)
  PROVE  Traced(a, c, S, policy)
<1>1. ASSUME NEW i \in Nat PROVE Grows(ItemsAt(a, i), ItemsAt(c, i), S, policy)
  <2>1. Grows(ItemsAt(a, i), ItemsAt(b, i), S, policy) /\ Grows(ItemsAt(b, i), ItemsAt(c, i), S, policy)
    BY DEF Traced
  <2>2. QED  BY <2>1, GrowsStep
<1>2. QED  BY <1>1 DEF Traced

\* Items that grow in one group, everything else being as it was.
LEMMA TracedItems ==
  ASSUME NEW N, NEW E, NEW groups \in Seq(GroupsOf(N, E)), NEW gi \in DOMAIN groups,
         groups[gi].shape = "list", NEW items \in Seq(E), NEW S, NEW policy,
         Grows(groups[gi].items, items, S, policy)
  PROVE  Traced(groups, WithItems(groups, gi, items), S, policy)
<1> DEFINE now == WithItems(groups, gi, items)
<1>1. /\ DOMAIN now = DOMAIN groups
      /\ now[gi].name = groups[gi].name /\ now[gi].items = items
      /\ \A i \in DOMAIN groups : i # gi => now[i] = groups[i]
  BY WithItemsTypes
<1> HIDE DEF now
<1>2. ASSUME NEW i \in Nat PROVE Grows(ItemsAt(groups, i), ItemsAt(now, i), S, policy)
  <2>1. CASE i = gi  BY <1>1, <2>1 DEF ItemsAt
  <2>2. CASE i # gi
    <3>1. ItemsAt(now, i) = ItemsAt(groups, i)  BY <1>1, <2>2 DEF ItemsAt
    <3>2. QED  BY <3>1, GrowsSame
  <2>3. QED  BY <2>1, <2>2
<1>3. \A i \in DOMAIN groups : now[i].name = groups[i].name  BY <1>1
<1>4. NamesApart(groups) => NamesApart(now)  BY <1>1, <1>3 DEF NamesApart
<1>5. QED  BY <1>2, <1>4 DEF Traced, now

\* The loop over the services of a group.
LEMMA ServicesTraced ==
  ASSUME NEW N, NEW E, NEW C, NEW S, Setting(N, E, C, S), NEW policy \in Policies,
         NEW work \in Works(N, E, C), NEW gi \in DOMAIN work.groups,
         work.groups[gi].shape = "list", NEW services \in Seq(S),
         NEW now, now = MergeServices(work, gi, services, policy)
  PROVE  Traced(work.groups, now.groups, S, policy)
<1> DEFINE n == Len(services)
           On(w) == w \in Works(N, E, C) /\ gi \in DOMAIN w.groups /\ w.groups[gi].shape = "list"
<1>1. PICK f : /\ f[0] = work
               /\ \A k \in 1..n : f[k] = MergeService(f[k - 1], gi, services[k], policy)
               /\ now = f[n]
  BY ServicesLoop
<1>2. n \in Nat /\ \A k \in 1..n : services[k] \in S  OBVIOUS
<1> DEFINE T == {k \in Nat : k <= n => On(f[k]) /\ Traced(work.groups, f[k].groups, S, policy)}
<1>3. 0 \in T  BY <1>1, TracedSame
<1>4. ASSUME NEW k \in Nat, k \in T PROVE k + 1 \in T
  <2> SUFFICES ASSUME k + 1 <= n
               PROVE  On(f[k + 1]) /\ Traced(work.groups, f[k + 1].groups, S, policy)
    OBVIOUS
  <2> DEFINE w   == f[k]
             v   == f[k + 1]
             svc == services[k + 1]
             items == w.groups[gi].items
             applied == ApplyService(items, svc, policy)
  <2>1. k + 1 \in 1..n /\ (k + 1) - 1 = k /\ k <= n  BY <1>2
  <2>2. On(w) /\ Traced(work.groups, w.groups, S, policy)  BY <1>4, <2>1
  <2>3. svc \in S /\ v = MergeService(w, gi, svc, policy)  BY <1>1, <1>2, <2>1
  <2> HIDE DEF w, v, svc, T, n
  <2>a. w \in Works(N, E, C) /\ gi \in DOMAIN w.groups /\ w.groups[gi].shape = "list"
    BY <2>2
  <2>4. On(v) /\ OneMore(w, v, gi, svc, policy)
    BY ONLY <2>a, <2>3, ServiceEffect, Setting(N, E, C, S)
  <2>5. v.groups = w.groups \/ v.groups = WithItems(w.groups, gi, applied)  BY <2>4 DEF OneMore
  <2>6. Traced(w.groups, WithItems(w.groups, gi, applied), S, policy)
    <3>1. w.groups \in Seq(GroupsOf(N, E)) /\ w.groups[gi] \in GroupsOf(N, E)  BY <2>a DEF Works
    <3>2. items \in Seq(E)  BY <3>1 DEF GroupsOf
    <3>3. Proper(svc) /\ Rendered(svc) \in E  BY <2>3 DEF Setting
    <3> HIDE DEF items
    <3>4. applied \in Seq(E) /\ Grows(items, applied, S, policy)
      BY <2>3, <3>2, <3>3, ApplyTypes, ApplyGrows
    <3> HIDE DEF applied
    <3>5. QED  BY <2>a, <3>1, <3>4, TracedItems DEF items
  <2>7. Traced(w.groups, v.groups, S, policy)  BY <2>5, <2>6, TracedSame
  <2>8. Traced(work.groups, v.groups, S, policy)  BY <2>2, <2>7, TracedStep
  <2>9. QED  BY <2>4, <2>8 DEF v
<1> HIDE DEF T
<1>5. n \in T  BY <1>2, <1>3, <1>4, Induction
<1>6. QED  BY <1>1, <1>2, <1>5 DEF T

\* FindOrCreateGroup gives no group an entry, and no name a second group.
LEMMA FoundTraced ==
  ASSUME NEW N, NEW E, NEW groups \in Seq(GroupsOf(N, E)), NEW name \in N, NEW S, NEW policy,
         NEW now, now = FindOrCreateGroup(groups, name)
  PROVE  Traced(groups, now, S, policy)
<1> DEFINE i == GroupIndex(groups, name)
           fresh == [name |-> name, shape |-> "list", items |-> <<>>]
<1>1. DOMAIN groups = 1..Len(groups) /\ Len(groups) \in Nat
  OBVIOUS
<1>2. \/ i = 0 /\ \A j \in DOMAIN groups : groups[j].name # name
      \/ i \in DOMAIN groups /\ i # 0 /\ groups[i].name = name
  BY IndexIsFirst
<1>3. fresh \in GroupsOf(N, E) /\ fresh.name = name /\ fresh.items = <<>>
  BY DEF GroupsOf
<1>4. now = IF i = 0 THEN Append(groups, fresh) ELSE [groups EXCEPT ![i].shape = "list"]
  BY DEF FindOrCreateGroup
<1> HIDE DEF i, fresh
<1>5. CASE i = 0
  <2>1. now = Append(groups, fresh)  BY <1>4, <1>5
  <2>2. /\ DOMAIN now = 1..(Len(groups) + 1)
        /\ now[Len(groups) + 1] = fresh
        /\ \A j \in DOMAIN groups : now[j] = groups[j]
    BY <1>3, <2>1
  <2>3. /\ \A j \in DOMAIN now : j \in DOMAIN groups \/ j = Len(groups) + 1
        /\ \A j \in DOMAIN groups : j \in DOMAIN now
        /\ Len(groups) + 1 \in DOMAIN now /\ Len(groups) + 1 \notin DOMAIN groups
    BY <1>1, <2>2
  <2>4. ASSUME NEW j \in Nat PROVE ItemsAt(now, j) = ItemsAt(groups, j)
    BY <1>3, <2>2, <2>3 DEF ItemsAt
  <2>5. NamesApart(groups) => NamesApart(now)
    BY <1>2, <1>3, <1>5, <2>2, <2>3 DEF NamesApart
  <2>6. QED  BY <2>4, <2>5, GrowsSame DEF Traced
<1>6. CASE i # 0
  <2>1. i \in DOMAIN groups /\ groups[i] \in GroupsOf(N, E)  BY <1>1, <1>2, <1>6
  <2> DEFINE g == [groups[i] EXCEPT !.shape = "list"]
  <2>2. g.name = groups[i].name /\ g.items = groups[i].items  BY <2>1 DEF GroupsOf
  <2>3. now = [groups EXCEPT ![i] = g]  BY <1>4, <1>6
  <2> HIDE DEF g
  <2>4. /\ DOMAIN now = DOMAIN groups
        /\ \A j \in DOMAIN groups : now[j].name = groups[j].name /\ now[j].items = groups[j].items
    BY <2>1, <2>2, <2>3
  <2>5. ASSUME NEW j \in Nat PROVE ItemsAt(now, j) = ItemsAt(groups, j)  BY <2>4 DEF ItemsAt
  <2>6. NamesApart(groups) => NamesApart(now)  BY <2>4 DEF NamesApart
  <2>7. QED  BY <2>5, <2>6, GrowsSame DEF Traced
<1>7. QED  BY <1>5, <1>6

\* One desired group.
LEMMA GroupTraced ==
  ASSUME NEW N, NEW E, NEW C, NEW S, Setting(N, E, C, S), NEW policy \in Policies,
         NEW work \in Works(N, E, C), NEW wanted \in Wanted(N, S),
         NEW now, now = MergeGroup(work, wanted, policy)
  PROVE  Traced(work.groups, now.groups, S, policy)
<1> DEFINE groups == FindOrCreateGroup(work.groups, wanted.name)
           gi     == GroupIndex(groups, wanted.name)
           start  == [work EXCEPT !.groups = groups]
<1>1. wanted.name \in N /\ wanted.services \in Seq(S)  BY DEF Wanted
<1>2. /\ work.groups \in Seq(GroupsOf(N, E)) /\ work.changes \in Seq(C) /\ work.error \in Errors
      /\ work = [error |-> work.error, groups |-> work.groups, changes |-> work.changes]
  BY DEF Works
<1>3. now = IF Failed(work) THEN work
            ELSE IF GroupIsBroken(work.groups, wanted.name) THEN [work EXCEPT !.error = "notList"]
            ELSE MergeServices(start, gi, wanted.services, policy)
  BY DEF MergeGroup
<1>4. CASE Failed(work) \/ GroupIsBroken(work.groups, wanted.name)
  <2>1. now.groups = work.groups  BY <1>2, <1>3, <1>4
  <2>2. QED  BY <2>1, TracedSame
<1>5. CASE ~Failed(work) /\ ~GroupIsBroken(work.groups, wanted.name)
  <2>1. /\ groups \in Seq(GroupsOf(N, E))
        /\ gi \in DOMAIN groups /\ groups[gi].shape = "list"
    BY <1>1, <1>2, <1>5, GroupFound
  <2>2. Traced(work.groups, groups, S, policy)  BY <1>1, <1>2, FoundTraced
  <2> HIDE DEF groups
  <2>3. start = [error |-> work.error, groups |-> groups, changes |-> work.changes]
    BY <1>2
  <2>4. start \in Works(N, E, C) /\ start.groups = groups  BY <1>2, <2>1, <2>3 DEF Works
  <2>5. now = MergeServices(start, gi, wanted.services, policy)  BY <1>3, <1>5
  <2> HIDE DEF start, gi
  <2>6. Traced(start.groups, now.groups, S, policy)
    BY <1>1, <2>1, <2>4, <2>5, ServicesTraced
  <2>7. QED  BY <2>2, <2>4, <2>6, TracedStep
<1>6. QED  BY <1>4, <1>5

\* The loop over the desired groups.
LEMMA GroupsTraced ==
  ASSUME NEW N, NEW E, NEW C, NEW S, Setting(N, E, C, S), NEW policy \in Policies,
         NEW work \in Works(N, E, C), NEW desired \in Seq(Wanted(N, S)),
         NEW now, now = MergeGroups(work, desired, policy)
  PROVE  Traced(work.groups, now.groups, S, policy)
<1> DEFINE n == Len(desired)
<1>1. PICK f : /\ f[0] = work
               /\ \A k \in 1..n : f[k] = MergeGroup(f[k - 1], desired[k], policy)
               /\ now = f[n]
  BY GroupsLoop
<1>2. n \in Nat /\ \A k \in 1..n : desired[k] \in Wanted(N, S)  OBVIOUS
<1> DEFINE T == {k \in Nat : k <= n =>
                   f[k] \in Works(N, E, C) /\ Traced(work.groups, f[k].groups, S, policy)}
<1>3. 0 \in T  BY <1>1, TracedSame
<1>4. ASSUME NEW k \in Nat, k \in T PROVE k + 1 \in T
  <2> SUFFICES ASSUME k + 1 <= n
               PROVE  /\ f[k + 1] \in Works(N, E, C)
                      /\ Traced(work.groups, f[k + 1].groups, S, policy)
    OBVIOUS
  <2> DEFINE w      == f[k]
             v      == f[k + 1]
             wanted == desired[k + 1]
  <2>1. k + 1 \in 1..n /\ (k + 1) - 1 = k /\ k <= n  BY <1>2
  <2>2. w \in Works(N, E, C) /\ Traced(work.groups, w.groups, S, policy)  BY <1>4, <2>1
  <2>3. wanted \in Wanted(N, S) /\ v = MergeGroup(w, wanted, policy)  BY <1>1, <1>2, <2>1
  <2> HIDE DEF w, v, wanted, T, n
  <2>4. v \in Works(N, E, C) /\ Traced(w.groups, v.groups, S, policy)
    BY ONLY <2>2, <2>3, GroupEffect, GroupTraced, Setting(N, E, C, S), policy \in Policies
  <2>5. Traced(work.groups, v.groups, S, policy)  BY <2>2, <2>4, TracedStep
  <2>6. QED  BY <2>4, <2>5 DEF v
<1> HIDE DEF T
<1>5. n \in T  BY <1>2, <1>3, <1>4, Induction
<1>6. QED  BY <1>1, <1>2, <1>5 DEF T

\* What is left of a list in which no two things belong together is such a list.
LEMMA OnlyApart ==
  ASSUME NEW S, NEW s \in Seq(S), NEW D, Apart(s, D), NEW Q
  PROVE  Apart(Only(s, Q), D)
<1> DEFINE u(i) == IF s[i] \in Q THEN <<s[i]>> ELSE <<>>
           uu == [i \in DOMAIN s |-> u(i)]
<1>1. DOMAIN s = 1..Len(s) /\ Len(s) \in Nat  OBVIOUS
<1>2. ASSUME NEW i \in DOMAIN s
      PROVE  /\ u(i) \in Seq(S)
             /\ Apart(u(i), D)
             /\ \A x \in ToSet(u(i)) : x = s[i]
  <2>1. CASE s[i] \in Q
    <3> DEFINE e == s[i]
               t == <<e>>
    <3>1. e \in S  OBVIOUS
    <3> HIDE DEF e
    <3>2. t \in Seq(S) /\ DOMAIN t = 1..1 /\ t[1] = e  BY <3>1
    <3> HIDE DEF t
    <3>3. Apart(t, D)  BY <3>2 DEF Apart
    <3>4. \A x \in ToSet(t) : x = e  BY <3>2 DEF ToSet
    <3>5. u(i) = t  BY <2>1 DEF t, e
    <3>6. QED  BY <3>2, <3>3, <3>4, <3>5 DEF e
  <2>2. CASE s[i] \notin Q
    <3> DEFINE t == <<>>
    <3>1. t \in Seq(S) /\ DOMAIN t = {}  OBVIOUS
    <3> HIDE DEF t
    <3>2. Apart(t, D) /\ \A x \in ToSet(t) : x = s[i]  BY <3>1 DEF Apart, ToSet
    <3>3. u(i) = t  BY <2>2 DEF t
    <3>4. QED  BY <3>1, <3>2, <3>3
  <2>3. QED  BY <2>1, <2>2
<1>3. DOMAIN uu = DOMAIN s /\ \A i \in DOMAIN s : uu[i] = u(i)  OBVIOUS
<1>4. Only(s, Q) = FlattenSeq(uu)  BY DEF Only
<1> HIDE DEF u
<1>5. uu \in Seq(Seq(S))  BY <1>1, <1>2
<1> HIDE DEF uu
<1>6. \A i \in DOMAIN uu : Apart(uu[i], D)  BY <1>2, <1>3
<1>7. ASSUME NEW i \in DOMAIN uu, NEW j \in DOMAIN uu, i < j,
             NEW x \in ToSet(uu[i]), NEW y \in ToSet(uu[j])
      PROVE  <<x, y>> \in D
  <2>1. x = s[i] /\ y = s[j]  BY <1>2, <1>3
  <2>2. QED  BY <1>3, <1>7, <2>1 DEF Apart
<1>8. Apart(FlattenSeq(uu), D)  BY <1>5, <1>6, <1>7, FlattenElements
<1>9. QED  BY <1>4, <1>8

\* Dropping entries gives no id a second one.
LEMMA OnceOnly ==
  ASSUME NEW E, NEW items \in Seq(E), Once(items), NEW Q
  PROVE  Once(Only(items, Q))
<1> DEFINE D == {p \in E \X E : ~(IsManaged(p[1]) /\ IsManaged(p[2]) /\ p[1].comment.id = p[2].comment.id)}
           now == Only(items, Q)
<1>1. Apart(items, D)
  <2> SUFFICES ASSUME NEW i \in DOMAIN items, NEW j \in DOMAIN items, i < j PROVE <<items[i], items[j]>> \in D
    BY DEF Apart
  <2>1. i # j  OBVIOUS
  <2>2. ~(IsManaged(items[i]) /\ IsManaged(items[j]) /\ items[i].comment.id = items[j].comment.id)
    BY <2>1 DEF Once
  <2>3. items[i] \in E /\ items[j] \in E  OBVIOUS
  <2>4. QED  BY <2>2, <2>3
<1>2. now \in Seq(E)  BY OnlyTypes
<1> HIDE DEF D
<1>3. Apart(now, D)  BY <1>1, OnlyApart
<1> HIDE DEF now
<1>4. \A i, j \in DOMAIN now : i < j =>
        ~(IsManaged(now[i]) /\ IsManaged(now[j]) /\ now[i].comment.id = now[j].comment.id)
  BY <1>3 DEF Apart, D
<1>5. DOMAIN now = 1..Len(now) /\ Len(now) \in Nat  BY <1>2
<1>6. Once(now)
  <2> SUFFICES ASSUME NEW i \in DOMAIN now, NEW j \in DOMAIN now, IsManaged(now[i]), IsManaged(now[j]),
                      now[i].comment.id = now[j].comment.id
               PROVE  i = j
    BY DEF Once
  <2>1. ~(i < j) /\ ~(j < i)  BY <1>4
  <2>2. QED  BY <1>5, <2>1
<1>7. QED  BY <1>6 DEF now

\* From one document to a merged one.
MergeTraced(groups, now, desired, S, policy) ==
  /\ NamesApart(groups) => NamesApart(now)
  /\ \A i \in DOMAIN now :
       /\ \A e \in ToSet(now[i].items) :
            e \in ToSet(ItemsAt(groups, i)) \/ \E svc \in S : e = Rendered(svc)
       /\ \A e \in ToSet(ItemsAt(groups, i)) :
            SparedByAll(e, S, policy) /\ ~Orphaned(e, now[i].name, desired) => e \in ToSet(now[i].items)
       /\ Once(ItemsAt(groups, i)) => Once(now[i].items)

\* The whole call: what is new was rendered for a desired service; what every service spares
\* stays unless it is an orphan; no id gets a second entry, no name a second group.
LEMMA MergeTrace ==
  ASSUME NEW N, NEW E, NEW C, NEW S, Setting(N, E, C, S), NEW policy \in Policies,
         NEW doc \in Documents(N, E), NEW desired \in Seq(Wanted(N, S)),
         NEW result, result = Merge(doc, desired, policy)
  PROVE  /\ result.error # Absent => result.doc = doc
         /\ result.error = Absent => MergeTraced(doc.groups, result.doc.groups, desired, S, policy)
<1> DEFINE start   == [error |-> Absent, groups |-> doc.groups, changes |-> <<>>]
           applied == MergeGroups(start, desired, policy)
           groups  == applied.groups
           swept   == [i \in DOMAIN groups |-> SweepGroup(groups[i], desired)]
           removed == [i \in DOMAIN groups |-> Removals(groups[i], desired)]
           after   == [root |-> "groups", groups |-> swept]
           changes == applied.changes \o FlattenSeq(removed)
<1>1. doc.groups \in Seq(GroupsOf(N, E))  BY DEF Documents
<1>2. start \in Works(N, E, C) /\ start.groups = doc.groups
  <2>1. Absent \in Errors /\ <<>> \in Seq(C)  BY DEF Errors
  <2>2. QED  BY <1>1, <2>1 DEF Works
<1>3. result = IF ~HasGroupSequence(doc) THEN [error |-> "root", doc |-> doc, changes |-> <<>>]
               ELSE IF Failed(applied) THEN [error |-> applied.error, doc |-> doc, changes |-> <<>>]
               ELSE [error |-> Absent, doc |-> after, changes |-> changes]
  BY DEF Merge
<1>a. applied = MergeGroups(start, desired, policy)  OBVIOUS
<1> HIDE DEF start, applied
<1>4. applied \in Works(N, E, C)  
  <2>1. PICK f : /\ f[0] = start
                 /\ \A k \in 1..Len(desired) : f[k] = MergeGroup(f[k - 1], desired[k], policy)
                 /\ applied = f[Len(desired)]
    BY <1>2, <1>a, GroupsLoop
  <2> DEFINE T == {k \in Nat : k <= Len(desired) => f[k] \in Works(N, E, C)}
  <2>2. 0 \in T  BY <1>2, <2>1
  <2>3. ASSUME NEW k \in Nat, k \in T PROVE k + 1 \in T
    <3> SUFFICES ASSUME k + 1 <= Len(desired) PROVE f[k + 1] \in Works(N, E, C)  OBVIOUS
    <3> DEFINE w == f[k]
               v == f[k + 1]
               wanted == desired[k + 1]
    <3>1. k + 1 \in 1..Len(desired) /\ (k + 1) - 1 = k /\ k <= Len(desired)  OBVIOUS
    <3>2. w \in Works(N, E, C) /\ wanted \in Wanted(N, S) /\ v = MergeGroup(w, wanted, policy)
      BY <2>1, <2>3, <3>1
    <3> HIDE DEF w, v, wanted, T
    <3>3. v \in Works(N, E, C)
      BY ONLY <3>2, GroupEffect, Setting(N, E, C, S), policy \in Policies
    <3>4. QED  BY <3>3 DEF v
  <2> HIDE DEF T
  <2>4. Len(desired) \in T  BY <2>2, <2>3, Induction
  <2>5. QED  BY <2>1, <2>4 DEF T
<1>5. Traced(doc.groups, groups, S, policy)
  <2>1. Traced(start.groups, applied.groups, S, policy)  BY <1>2, <1>a, GroupsTraced
  <2>2. QED  BY <1>2, <2>1
<1>6. groups \in Seq(GroupsOf(N, E))  BY <1>4 DEF Works
<1>7. result.error # Absent => result.doc = doc  
  <2> HIDE DEF after, changes
  <2>1. QED  BY <1>3
<1>8. ASSUME NEW i \in DOMAIN groups
      PROVE  /\ swept[i].name = groups[i].name
             /\ ToSet(swept[i].items) = ToSet(groups[i].items) \ Orphans(groups[i], desired)
             /\ Once(groups[i].items) => Once(swept[i].items)
  <2> DEFINE g == groups[i]
             h == SweepGroup(g, desired)
             orphans == Orphans(g, desired)
             items == g.items
             K == ToSet(items) \ orphans
             kept == Only(items, K)
  <2>1. g \in GroupsOf(N, E)  BY <1>6
  <2>2. items \in Seq(E) /\ g = [name |-> g.name, shape |-> g.shape, items |-> items]
    <3> HIDE DEF g
    <3>1. QED  BY <2>1 DEF GroupsOf
  <2>3. h = IF orphans = {} THEN g ELSE [name |-> g.name, shape |-> g.shape, items |-> kept]
    <3> HIDE DEF g
    <3>1. QED  BY <2>2 DEF SweepGroup
  <2>4. swept[i] = h  OBVIOUS
  <2> HIDE DEF g, h, orphans, swept
  <2>5. CASE orphans = {}  BY <2>3, <2>4, <2>5 DEF g, orphans
  <2>6. CASE orphans # {}
    <3>1. h.name = g.name /\ h.items = kept  BY <2>3, <2>6
    <3> HIDE DEF items
    <3>2. ToSet(kept) = ToSet(items) \cap K  
      <4> HIDE DEF K
      <4>1. QED  BY <2>2, OnlyElements
    <3>3. Once(items) => Once(kept)  BY <2>2, OnceOnly
    <3>4. QED  BY <2>4, <3>1, <3>2, <3>3 DEF g, orphans, items
  <2>7. QED  BY <2>5, <2>6
<1>9. DOMAIN swept = DOMAIN groups  OBVIOUS
<1>10. \A i \in DOMAIN groups : i \in Nat  BY <1>6
<1> HIDE DEF swept
<1>11. ASSUME NEW i \in DOMAIN groups
       PROVE  /\ \A e \in ToSet(swept[i].items) :
                   e \in ToSet(ItemsAt(doc.groups, i)) \/ \E svc \in S : e = Rendered(svc)
              /\ \A e \in ToSet(ItemsAt(doc.groups, i)) :
                   SparedByAll(e, S, policy) /\ ~Orphaned(e, swept[i].name, desired)
                   => e \in ToSet(swept[i].items)
              /\ Once(ItemsAt(doc.groups, i)) => Once(swept[i].items)
  <2> DEFINE old == ItemsAt(doc.groups, i)
             mid == groups[i].items
             new == swept[i].items
  <2>1. Grows(old, mid, S, policy)
    <3>1. ItemsAt(groups, i) = mid  BY DEF ItemsAt
    <3>2. QED  BY <1>5, <1>10, <3>1 DEF Traced
  <2>2. ToSet(new) = ToSet(mid) \ Orphans(groups[i], desired) /\ (Once(mid) => Once(new))
        /\ swept[i].name = groups[i].name
    BY <1>8
  <2>3. \A e \in Orphans(groups[i], desired) : Orphaned(e, groups[i].name, desired)
    BY DEF Orphans
  <2> HIDE DEF old, mid, new
  <2>4. QED  BY <2>1, <2>2, <2>3 DEF Grows, old, new
<1>12. NamesApart(doc.groups) => NamesApart(swept)
  <2>1. NamesApart(doc.groups) => NamesApart(groups)  BY <1>5 DEF Traced
  <2>2. \A i \in DOMAIN groups : swept[i].name = groups[i].name  BY <1>8
  <2> HIDE DEF groups
  <2>3. QED  BY <1>9, <2>1, <2>2 DEF NamesApart
<1>13. ASSUME result.error = Absent PROVE result.doc.groups = swept
  <2>1. HasGroupSequence(doc)  BY <1>3, <1>13, AbsentIsNoError
  <2>2. ~Failed(applied)  BY <1>3, <1>13, <2>1 DEF Failed
  <2>3. QED  BY <1>3, <2>1, <2>2
<1>14. MergeTraced(doc.groups, swept, desired, S, policy)
  <2> HIDE DEF groups
  <2>1. QED  BY <1>9, <1>11, <1>12 DEF MergeTraced
<1>15. QED  BY <1>7, <1>13, <1>14

-----------------------------------------------------------------------------
(***************************************************************************)
(* What is reported.                                                       *)
(***************************************************************************)
\* Changes other than removals, each id at most once, with its group, and no conflict where
\* the policy knows none.
Told(changes, due, policy) ==
  /\ \A i \in DOMAIN changes :
       /\ changes[i].kind \in Reported /\ <<changes[i].id, changes[i].group>> \in due
       /\ changes[i].kind = "conflict" => policy = "preserve"
  /\ \A i, j \in DOMAIN changes : changes[i].id = changes[j].id => i = j

\* The ids a group is asked for, with its name.
Due(services, name) == {<<services[j].id, name>> : j \in DOMAIN services}

\* That more may be reported does no harm.
LEMMA ToldOfMore ==
  ASSUME NEW changes, NEW due, NEW more, NEW policy, Told(changes, due, policy), due \subseteq more
  PROVE  Told(changes, more, policy)
BY DEF Told

\* A change for an id that was not reported before.
LEMMA ToldOnce ==
  ASSUME NEW C, NEW changes \in Seq(C), NEW due, NEW policy, Told(changes, due, policy),
         NEW change \in C, change.kind \in Reported, change.kind = "conflict" => policy = "preserve",
         \A p \in due : p[1] # change.id,
         NEW more, due \subseteq more, <<change.id, change.group>> \in more
  PROVE  Told(Append(changes, change), more, policy)
<1> DEFINE now == Append(changes, change)
           n   == Len(changes) + 1
<1>1. /\ DOMAIN changes = 1..Len(changes) /\ DOMAIN now = 1..n /\ Len(changes) \in Nat
      /\ now[n] = change /\ \A i \in DOMAIN changes : now[i] = changes[i]
  OBVIOUS
<1>2. \A i \in DOMAIN now : i \in DOMAIN changes \/ i = n  BY <1>1
<1> HIDE DEF now, n
<1>3. \A i \in DOMAIN now : /\ now[i].kind \in Reported /\ <<now[i].id, now[i].group>> \in more
                            /\ now[i].kind = "conflict" => policy = "preserve"
  BY <1>1, <1>2 DEF Told
<1>4. \A i \in DOMAIN changes : changes[i].id # change.id
  <2>1. \A i \in DOMAIN changes : <<changes[i].id, changes[i].group>> \in due  BY DEF Told
  <2>2. QED  BY <2>1
<1>5. ASSUME NEW i \in DOMAIN now, NEW j \in DOMAIN now, now[i].id = now[j].id PROVE i = j
  BY <1>1, <1>2, <1>4, <1>5 DEF Told
<1>6. QED  BY <1>3, <1>5 DEF Told, now

\* The loop over the services of a group.
LEMMA ServicesTold ==
  ASSUME NEW N, NEW E, NEW C, NEW S, Setting(N, E, C, S), NEW policy,
         NEW work \in Works(N, E, C), NEW gi \in DOMAIN work.groups,
         work.groups[gi].shape = "list", NEW services \in Seq(S), Distinct(services),
         NEW now, now = MergeServices(work, gi, services, policy),
         NEW name, name = work.groups[gi].name,
         NEW due, Told(work.changes, due, policy),
         \A p \in due : \A j \in DOMAIN services : p[1] # services[j].id
  PROVE  Told(now.changes, due \cup Due(services, name), policy)
<1> DEFINE n == Len(services)
           On(w) == /\ w \in Works(N, E, C) /\ gi \in DOMAIN w.groups
                    /\ w.groups[gi].shape = "list" /\ w.groups[gi].name = name
           known(k) == due \cup {<<services[j].id, name>> : j \in 1..k}
<1>1. PICK f : /\ f[0] = work
               /\ \A k \in 1..n : f[k] = MergeService(f[k - 1], gi, services[k], policy)
               /\ now = f[n]
  BY ServicesLoop
<1>2. n \in Nat /\ DOMAIN services = 1..n /\ \A k \in 1..n : services[k] \in S  OBVIOUS
<1> DEFINE T == {k \in Nat : k <= n => On(f[k]) /\ Told(f[k].changes, known(k), policy)}
<1>3. 0 \in T
  <2>1. Told(work.changes, known(0), policy)  BY ToldOfMore
  <2>2. QED  BY <1>1, <2>1
<1>4. ASSUME NEW k \in Nat, k \in T PROVE k + 1 \in T
  <2> SUFFICES ASSUME k + 1 <= n
               PROVE  On(f[k + 1]) /\ Told(f[k + 1].changes, known(k + 1), policy)
    OBVIOUS
  <2> DEFINE w   == f[k]
             v   == f[k + 1]
             svc == services[k + 1]
             old == known(k)
             new == known(k + 1)
  <2>1. k + 1 \in 1..n /\ (k + 1) - 1 = k /\ k <= n  BY <1>2
  <2>2. On(w) /\ Told(w.changes, old, policy)  BY <1>4, <2>1
  <2>3. svc \in S /\ v = MergeService(w, gi, svc, policy)  BY <1>1, <1>2, <2>1
  <2>4. old \subseteq new /\ <<svc.id, name>> \in new
    <3>1. \A j \in 1..k : j \in 1..(k + 1)  OBVIOUS
    <3>2. k + 1 \in 1..(k + 1)  OBVIOUS
    <3>3. QED  BY <3>1, <3>2
  <2>5. ASSUME NEW p \in old PROVE p[1] # svc.id
    <3>1. CASE p \in due  BY <1>2, <2>1, <3>1
    <3>2. CASE p \notin due
      <4>1. PICK j \in 1..k : p = <<services[j].id, name>>  BY <3>2
      <4>2. j \in 1..n /\ j # k + 1  BY <2>1
      <4>3. services[j].id # svc.id  BY <1>2, <2>1, <4>2 DEF Distinct
      <4>4. QED  BY <4>1, <4>3
    <3>3. QED  BY <3>1, <3>2
  <2> HIDE DEF w, v, svc, T, n, known, old, new
  <2>a. w \in Works(N, E, C) /\ gi \in DOMAIN w.groups /\ w.groups[gi].shape = "list"
    BY <2>2
  <2>b. /\ v \in Works(N, E, C) /\ gi \in DOMAIN v.groups /\ v.groups[gi].shape = "list"
        /\ OneMore(w, v, gi, svc, policy)
    BY ONLY <2>a, <2>3, ServiceEffect, Setting(N, E, C, S)
  <2>6. On(v)
    <3> DEFINE items   == w.groups[gi].items
               applied == ApplyService(items, svc, policy)
    <3>1. w.groups \in Seq(GroupsOf(N, E)) /\ w.groups[gi] \in GroupsOf(N, E)  BY <2>a DEF Works
    <3>2. items \in Seq(E)  BY <3>1 DEF GroupsOf
    <3>3. Proper(svc) /\ Rendered(svc) \in E  BY <2>3 DEF Setting
    <3>4. v.groups = w.groups \/ v.groups = WithItems(w.groups, gi, applied)  BY <2>b DEF OneMore
    <3> HIDE DEF items
    <3>5. applied \in Seq(E)  BY <3>2, <3>3, ApplyTypes
    <3> HIDE DEF applied
    <3>6. v.groups[gi].name = w.groups[gi].name  BY <2>a, <3>1, <3>4, <3>5, WithItemsTypes
    <3>7. QED  BY <2>2, <2>b, <3>6
  <2> DEFINE verdict == Verdict(w.groups[gi].items, svc, policy)
             change == [kind |-> verdict, id |-> svc.id, group |-> w.groups[gi].name]
  <2>7. v.changes = w.changes \/ (verdict \in Reported /\ v.changes = Append(w.changes, change))
    BY <2>b DEF OneMore
  <2>8. CASE v.changes = w.changes
    <3>1. Told(v.changes, new, policy)  BY <2>2, <2>4, <2>8, ToldOfMore
    <3>2. QED  BY <2>6, <3>1 DEF v, new
  <2>9. CASE verdict \in Reported /\ v.changes = Append(w.changes, change)
    <3>1. w.groups[gi] \in GroupsOf(N, E)  BY <2>a DEF Works
    <3>2. w.groups[gi].name \in N  BY <3>1 DEF GroupsOf
    <3>a. verdict = "conflict" => policy = "preserve"  BY DEF Verdict
    <3> HIDE DEF verdict
    <3>3. change \in C  BY <2>3, <2>9, <3>2 DEF Setting
    <3>4. change.kind = verdict /\ change.id = svc.id /\ change.group = name  BY <2>2
    <3>5. w.changes \in Seq(C)  BY <2>a DEF Works
    <3> HIDE DEF change
    <3>6. Told(v.changes, new, policy)  BY <2>2, <2>4, <2>5, <2>9, <3>3, <3>4, <3>5, <3>a, ToldOnce
    <3>7. QED  BY <2>6, <3>6 DEF v, new
  <2>10. QED  BY <2>7, <2>8, <2>9
<1> HIDE DEF T
<1>5. n \in T  BY <1>2, <1>3, <1>4, Induction
<1>6. known(n) = due \cup Due(services, name)  BY <1>2 DEF Due
<1>7. Told(f[n].changes, known(n), policy)
  <2> HIDE DEF known, n, On
  <2>1. QED  BY <1>2, <1>5 DEF T
<1> HIDE DEF known, n
<1>8. QED  BY <1>1, <1>6, <1>7

\* One desired group.
LEMMA GroupTold ==
  ASSUME NEW N, NEW E, NEW C, NEW S, Setting(N, E, C, S), NEW policy \in Policies,
         NEW work \in Works(N, E, C), NEW wanted \in Wanted(N, S),
         NEW now, now = MergeGroup(work, wanted, policy),
         NEW due, Told(work.changes, due, policy),
         \A p \in due : \A j \in DOMAIN wanted.services : p[1] # wanted.services[j].id
  PROVE  Told(now.changes, due \cup Due(wanted.services, wanted.name), policy)
<1> DEFINE groups == FindOrCreateGroup(work.groups, wanted.name)
           gi     == GroupIndex(groups, wanted.name)
           start  == [work EXCEPT !.groups = groups]
<1>1. wanted.name \in N /\ wanted.services \in Seq(S) /\ Distinct(wanted.services)  BY DEF Wanted
<1>2. /\ work.groups \in Seq(GroupsOf(N, E)) /\ work.changes \in Seq(C) /\ work.error \in Errors
      /\ work = [error |-> work.error, groups |-> work.groups, changes |-> work.changes]
  BY DEF Works
<1>3. now = IF Failed(work) THEN work
            ELSE IF GroupIsBroken(work.groups, wanted.name) THEN [work EXCEPT !.error = "notList"]
            ELSE MergeServices(start, gi, wanted.services, policy)
  BY DEF MergeGroup
<1>4. CASE Failed(work) \/ GroupIsBroken(work.groups, wanted.name)
  <2>1. now.changes = work.changes  BY <1>2, <1>3, <1>4
  <2>2. QED  BY <2>1, ToldOfMore
<1>5. CASE ~Failed(work) /\ ~GroupIsBroken(work.groups, wanted.name)
  <2>1. /\ groups \in Seq(GroupsOf(N, E))
        /\ gi \in DOMAIN groups /\ groups[gi].shape = "list" /\ groups[gi].name = wanted.name
    BY <1>1, <1>2, <1>5, GroupFound
  <2> HIDE DEF groups
  <2>2. start = [error |-> work.error, groups |-> groups, changes |-> work.changes]
    BY <1>2
  <2>3. start \in Works(N, E, C) /\ start.groups = groups /\ start.changes = work.changes
    BY <1>2, <2>1, <2>2 DEF Works
  <2>4. now = MergeServices(start, gi, wanted.services, policy)  BY <1>3, <1>5
  <2> HIDE DEF start, gi
  <2>5. QED  BY <1>1, <2>1, <2>3, <2>4, ServicesTold
<1>6. QED  BY <1>4, <1>5

\* The ids that are wanted, each with its group.
AllDue(desired) == UNION {Due(desired[i].services, desired[i].name) : i \in DOMAIN desired}

\* The loop over the desired groups.
LEMMA GroupsTold ==
  ASSUME NEW N, NEW E, NEW C, NEW S, Setting(N, E, C, S), NEW policy \in Policies,
         NEW work \in Works(N, E, C), work.changes = <<>>,
         NEW desired \in Seq(Wanted(N, S)), DistinctNames(desired), Owned(desired),
         NEW now, now = MergeGroups(work, desired, policy)
  PROVE  now \in Works(N, E, C) /\ Told(now.changes, AllDue(desired), policy)
<1> DEFINE n == Len(desired)
           known(k) == UNION {Due(desired[i].services, desired[i].name) : i \in 1..k}
<1>1. PICK f : /\ f[0] = work
               /\ \A k \in 1..n : f[k] = MergeGroup(f[k - 1], desired[k], policy)
               /\ now = f[n]
  BY GroupsLoop
<1>2. n \in Nat /\ DOMAIN desired = 1..n /\ \A k \in 1..n : desired[k] \in Wanted(N, S)  OBVIOUS
<1> DEFINE T == {k \in Nat : k <= n => f[k] \in Works(N, E, C) /\ Told(f[k].changes, known(k), policy)}
<1>3. 0 \in T
  <2> DEFINE none == <<>>
  <2>1. DOMAIN none = {}  OBVIOUS
  <2> HIDE DEF none
  <2>2. Told(none, known(0), policy)  BY <2>1 DEF Told
  <2>3. QED  BY <1>1, <2>2 DEF none
<1>4. ASSUME NEW k \in Nat, k \in T PROVE k + 1 \in T
  <2> SUFFICES ASSUME k + 1 <= n
               PROVE  f[k + 1] \in Works(N, E, C) /\ Told(f[k + 1].changes, known(k + 1), policy)
    OBVIOUS
  <2> DEFINE w      == f[k]
             v      == f[k + 1]
             wanted == desired[k + 1]
             due    == known(k)
  <2>1. k + 1 \in 1..n /\ (k + 1) - 1 = k /\ k <= n  BY <1>2
  <2>2. w \in Works(N, E, C) /\ Told(w.changes, due, policy)  BY <1>4, <2>1
  <2>3. wanted \in Wanted(N, S) /\ v = MergeGroup(w, wanted, policy)  BY <1>1, <1>2, <2>1
  <2>4. ASSUME NEW p \in due, NEW b \in DOMAIN wanted.services, p[1] = wanted.services[b].id
        PROVE  FALSE
    <3>1. PICK i \in 1..k : p \in Due(desired[i].services, desired[i].name)  OBVIOUS
    <3>2. PICK a \in DOMAIN desired[i].services : p[1] = desired[i].services[a].id
      BY <3>1 DEF Due
    <3>3. i \in DOMAIN desired /\ k + 1 \in DOMAIN desired /\ i # k + 1  BY <1>2, <2>1
    <3>4. b \in DOMAIN desired[k + 1].services /\ p[1] = desired[k + 1].services[b].id  BY <2>4
    <3> HIDE DEF T, n, known, due, w, v, wanted
    <3>5. /\ DesiredGroupOf(desired, p[1]) = desired[i].name
          /\ DesiredGroupOf(desired, p[1]) = desired[k + 1].name
      BY <3>2, <3>3, <3>4 DEF Owned
    <3>6. QED  BY <3>3, <3>5 DEF DistinctNames
  <2>5. \A p \in due : \A j \in DOMAIN wanted.services : p[1] # wanted.services[j].id  BY <2>4
  <2>6. known(k + 1) = due \cup Due(wanted.services, wanted.name)
    <3>1. 1..(k + 1) = (1..k) \cup {k + 1}  OBVIOUS
    <3>2. QED  BY <3>1
  <2> HIDE DEF w, v, wanted, T, n, known, due
  <2>7. v \in Works(N, E, C)
    BY ONLY <2>2, <2>3, GroupEffect, Setting(N, E, C, S), policy \in Policies
  <2>8. Told(v.changes, due \cup Due(wanted.services, wanted.name), policy)
    BY ONLY <2>2, <2>3, <2>5, GroupTold, Setting(N, E, C, S), policy \in Policies
  <2>9. QED  BY <2>6, <2>7, <2>8 DEF v
<1> HIDE DEF T
<1>5. n \in T  BY <1>2, <1>3, <1>4, Induction
<1>6. known(n) = AllDue(desired)  BY <1>2 DEF AllDue
<1> HIDE DEF known, n
<1>7. QED  BY <1>1, <1>2, <1>5, <1>6 DEF T

\* The whole call: a change is a removal from a group where the id is not wanted, or the only
\* other one for an id, which is wanted in that group; --conflict preserve alone has conflicts.
LEMMA MergeTells ==
  ASSUME NEW N, NEW E, NEW C, NEW S, Setting(N, E, C, S), NEW policy \in Policies,
         NEW doc \in Documents(N, E),
         NEW desired \in Seq(Wanted(N, S)), DistinctNames(desired), Owned(desired),
         NEW result, result = Merge(doc, desired, policy)
  PROVE  LET changes == result.changes
             others  == {i \in DOMAIN changes : changes[i].kind # "removed"}
         IN  /\ changes \in Seq(C)
             /\ \A i \in others : \E g \in DOMAIN desired : \E j \in DOMAIN desired[g].services :
                  changes[i].id = desired[g].services[j].id /\ changes[i].group = desired[g].name
             /\ \A i, j \in others : changes[i].id = changes[j].id => i = j
             /\ \A i \in others : changes[i].kind = "conflict" => policy = "preserve"
             /\ \A i \in DOMAIN changes \ others :
                  DesiredGroupOf(desired, changes[i].id) # changes[i].group
<1> DEFINE start   == [error |-> Absent, groups |-> doc.groups, changes |-> <<>>]
           applied == MergeGroups(start, desired, policy)
           removed == [i \in DOMAIN applied.groups |-> Removals(applied.groups[i], desired)]
           told    == applied.changes
           gone    == FlattenSeq(removed)
           Removed == {[kind |-> "removed", id |-> e.comment.id, group |-> g] : e \in E, g \in N}
           R       == {c \in Removed : DesiredGroupOf(desired, c.id) # c.group}
<1>1. start \in Works(N, E, C) /\ start.changes = <<>>
  <2>1. doc.groups \in Seq(GroupsOf(N, E))  BY DEF Documents
  <2>2. Absent \in Errors /\ <<>> \in Seq(C)  BY DEF Errors
  <2>3. QED  BY <2>1, <2>2 DEF Works
<1>2. \/ result.changes = <<>>
      \/ result.changes = told \o gone
  BY DEF Merge
<1>a. applied = MergeGroups(start, desired, policy)  OBVIOUS
<1> HIDE DEF start, applied
<1>3. applied \in Works(N, E, C) /\ Told(told, AllDue(desired), policy)
  BY <1>1, <1>a, GroupsTold
<1>4. applied.groups \in Seq(GroupsOf(N, E)) /\ told \in Seq(C)  BY <1>3 DEF Works
<1>5. removed \in Seq(Seq(R))
  <2>1. ASSUME NEW i \in DOMAIN applied.groups PROVE removed[i] \in Seq(R)
    <3> DEFINE g == applied.groups[i]
               dropped == Only(g.items, Orphans(g, desired))
    <3>1. g \in GroupsOf(N, E)  BY <1>4
    <3>2. g.items \in Seq(E) /\ g.name \in N  BY <3>1 DEF GroupsOf
    <3>3. dropped \in Seq(E)  BY <3>2, OnlyTypes
    <3>4. removed[i] = [j \in DOMAIN dropped |->
                          [kind |-> "removed", id |-> dropped[j].comment.id, group |-> g.name]]
      BY DEF Removals
    <3>8. ToSet(dropped) \subseteq Orphans(g, desired)  BY <3>2, OnlyElements
    <3>9. \A j \in DOMAIN dropped : Orphaned(dropped[j], g.name, desired)
      <4>1. \A e \in Orphans(g, desired) : Orphaned(e, g.name, desired)  BY DEF Orphans
      <4>2. QED  BY <3>8, <4>1 DEF ToSet
    <3> HIDE DEF g, dropped, removed
    <3>5. DOMAIN dropped = 1..Len(dropped) /\ Len(dropped) \in Nat /\ \A j \in DOMAIN dropped : dropped[j] \in E
      BY <3>3
    <3>6. \A j \in DOMAIN dropped : [kind |-> "removed", id |-> dropped[j].comment.id, group |-> g.name] \in R
      BY <3>2, <3>5, <3>9 DEF Orphaned
    <3> HIDE DEF R
    <3>7. QED  BY <3>4, <3>5, <3>6
  <2> DEFINE n == Len(applied.groups)
  <2>2. /\ DOMAIN applied.groups = 1..n /\ n \in Nat
        /\ removed = [i \in 1..n |-> removed[i]]
    BY <1>4
  <2> HIDE DEF removed, R, n
  <2>3. \A i \in 1..n : removed[i] \in Seq(R)  BY <2>1, <2>2
  <2>4. QED  BY <2>2, <2>3
<1> HIDE DEF removed
<1>6. gone \in Seq(R)  
  <2> HIDE DEF R
  <2>1. QED  BY <1>5, AllConflictsFlat
<1>7. \A c \in R : c.kind = "removed" /\ DesiredGroupOf(desired, c.id) # c.group  OBVIOUS
<1>b. \A i \in DOMAIN told :
        /\ told[i].kind # "removed"
        /\ \E g \in DOMAIN desired : \E j \in DOMAIN desired[g].services :
             told[i].id = desired[g].services[j].id /\ told[i].group = desired[g].name
  <2> SUFFICES ASSUME NEW i \in DOMAIN told
               PROVE  /\ told[i].kind # "removed"
                      /\ \E g \in DOMAIN desired : \E j \in DOMAIN desired[g].services :
                           told[i].id = desired[g].services[j].id /\ told[i].group = desired[g].name
    OBVIOUS
  <2>1. told[i].kind \in Reported /\ <<told[i].id, told[i].group>> \in AllDue(desired)
    BY <1>3 DEF Told
  <2>2. PICK g \in DOMAIN desired :
          <<told[i].id, told[i].group>> \in Due(desired[g].services, desired[g].name)
    BY <2>1 DEF AllDue
  <2>3. PICK j \in DOMAIN desired[g].services :
          <<told[i].id, told[i].group>> = <<desired[g].services[j].id, desired[g].name>>
    BY <2>2 DEF Due
  <2>4. QED  BY <2>1, <2>3 DEF Reported
<1>c. R \subseteq C  BY DEF Setting
<1> HIDE DEF R, gone, told
<1>d. gone \in Seq(C)  BY <1>6, <1>c
<1>8. CASE result.changes = <<>>
  <2> DEFINE none == <<>>
  <2>1. DOMAIN none = {}  OBVIOUS
  <2> HIDE DEF none
  <2>2. result.changes = none  BY <1>8 DEF none
  <2>3. none \in Seq(C)  BY DEF none
  <2>4. QED  BY <2>1, <2>2, <2>3
<1>9. CASE result.changes = told \o gone
  <2> DEFINE changes == told \o gone
  <2>1. /\ DOMAIN told = 1..Len(told) /\ Len(told) \in Nat
        /\ DOMAIN gone = 1..Len(gone) /\ Len(gone) \in Nat
        /\ DOMAIN changes = 1..(Len(told) + Len(gone))
        /\ changes \in Seq(C)
        /\ \A i \in DOMAIN told : changes[i] = told[i]
        /\ \A i \in DOMAIN changes : i > Len(told) => changes[i] = gone[i - Len(told)]
    BY <1>4, <1>6, <1>d
  <2> HIDE DEF changes
  <2>2. ASSUME NEW i \in DOMAIN changes
        PROVE  \/ i \in DOMAIN told /\ changes[i] = told[i]
               \/ changes[i] \in R
    <3>1. CASE i > Len(told)
      <4>1. i - Len(told) \in DOMAIN gone  BY <2>1, <3>1
      <4>2. QED  BY <1>6, <2>1, <3>1, <4>1
    <3>2. CASE ~(i > Len(told))
      <4>1. i \in DOMAIN told  BY <2>1, <3>2
      <4>2. QED  BY <2>1, <4>1
    <3>3. QED  BY <3>1, <3>2
  <2>3. result.changes = changes  BY <1>9 DEF changes
  <2>4. \A i \in DOMAIN changes : changes[i].kind # "removed" <=> i \in DOMAIN told /\ changes[i] = told[i]
    BY <1>7, <1>b, <2>2
  <2>5. /\ \A i, j \in DOMAIN told : told[i].id = told[j].id => i = j
        /\ \A i \in DOMAIN told : told[i].kind = "conflict" => policy = "preserve"
    BY <1>3 DEF Told
  <2>6. \A i \in DOMAIN changes : changes[i].kind = "removed"
                                => DesiredGroupOf(desired, changes[i].id) # changes[i].group
    BY <1>7, <1>b, <2>2
  <2>7. QED  BY <1>b, <2>1, <2>3, <2>4, <2>5, <2>6
<1>10. QED  BY <1>2, <1>8, <1>9

\* Where no change but a conflict is reported, and the policy knows no conflicts, none is reported.
LEMMA NothingTold ==
  ASSUME NEW N, NEW E, NEW C, NEW S, Setting(N, E, C, S), NEW policy \in Policies,
         policy # "preserve", NEW doc \in Documents(N, E),
         NEW desired \in Seq(Wanted(N, S)), DistinctNames(desired), Owned(desired),
         NEW result, result = Merge(doc, desired, policy), AllConflicts(result.changes)
  PROVE  result.changes = <<>>
<1> DEFINE changes == result.changes
<1>1. /\ changes \in Seq(C)
      /\ \A i \in DOMAIN changes : changes[i].kind # "removed" =>
           (changes[i].kind = "conflict" => policy = "preserve")
  BY MergeTells
<1>2. \A i \in DOMAIN changes : changes[i].kind = "conflict"  BY DEF AllConflicts
<1> HIDE DEF changes
<1>3. DOMAIN changes = {}  BY <1>1, <1>2
<1>4. changes = <<>>  BY <1>1, <1>3
<1>5. QED  BY <1>4 DEF changes

-----------------------------------------------------------------------------
(***************************************************************************)
(* A merge into nothing.                                                   *)
(***************************************************************************)
\* The entries of services that are written for the first time.
RenderedAll(services) == [j \in DOMAIN services |-> Rendered(services[j])]

FreshGroup(wanted) ==
  [name |-> wanted.name, shape |-> "list", items |-> RenderedAll(wanted.services)]

\* The loop over the services of an empty group appends one entry for each.
LEMMA ServicesFresh ==
  ASSUME NEW N, NEW E, NEW C, NEW S, Setting(N, E, C, S), NEW policy,
         NEW work \in Works(N, E, C), ~Failed(work), NEW gi \in DOMAIN work.groups,
         work.groups[gi].shape = "list", work.groups[gi].items = <<>>,
         NEW services \in Seq(S), Distinct(services),
         NEW now, now = MergeServices(work, gi, services, policy)
  PROVE  /\ ~Failed(now)
         /\ now.groups = WithItems(work.groups, gi, RenderedAll(services))
<1> DEFINE n == Len(services)
           groups == work.groups
           On(w) == w \in Works(N, E, C) /\ gi \in DOMAIN w.groups /\ w.groups[gi].shape = "list"
           first(k) == [j \in 1..k |-> Rendered(services[j])]
<1>1. PICK f : /\ f[0] = work
               /\ \A k \in 1..n : f[k] = MergeService(f[k - 1], gi, services[k], policy)
               /\ now = f[n]
  BY ServicesLoop
<1>2. n \in Nat /\ DOMAIN services = 1..n /\ \A k \in 1..n : services[k] \in S  OBVIOUS
<1>3. groups \in Seq(GroupsOf(N, E)) /\ groups[gi] \in GroupsOf(N, E)  BY DEF Works
<1>4. ASSUME NEW k \in Nat, k <= n PROVE first(k) \in Seq(E) /\ Len(first(k)) = k /\ DOMAIN first(k) = 1..k
  <2>1. \A j \in 1..k : Rendered(services[j]) \in E  BY <1>2, <1>4 DEF Setting
  <2>2. QED  BY <1>4, <2>1
<1> DEFINE T == {k \in Nat : k <= n => /\ On(f[k]) /\ ~Failed(f[k])
                                       /\ f[k].groups = WithItems(groups, gi, first(k))}
<1>5. 0 \in T
  <2>1. first(0) = <<>>  OBVIOUS
  <2>2. [groups[gi] EXCEPT !.items = <<>>] = groups[gi]  BY <1>3 DEF GroupsOf
  <2>3. WithItems(groups, gi, <<>>) = groups  BY <1>3, <2>2 DEF WithItems
  <2> HIDE DEF first, groups
  <2>4. WithItems(groups, gi, first(0)) = groups  BY <2>1, <2>3
  <2>5. QED  BY <1>1, <2>4 DEF groups
<1>6. ASSUME NEW k \in Nat, k \in T PROVE k + 1 \in T
  <2> SUFFICES ASSUME k + 1 <= n
               PROVE  /\ On(f[k + 1]) /\ ~Failed(f[k + 1])
                      /\ f[k + 1].groups = WithItems(groups, gi, first(k + 1))
    OBVIOUS
  <2> DEFINE w   == f[k]
             v   == f[k + 1]
             svc == services[k + 1]
             old == first(k)
             new == first(k + 1)
  <2>1. k + 1 \in 1..n /\ (k + 1) - 1 = k /\ k <= n  BY <1>2
  <2>2. On(w) /\ ~Failed(w) /\ w.groups = WithItems(groups, gi, old)  BY <1>6, <2>1
  <2>3. svc \in S /\ v = MergeService(w, gi, svc, policy)  BY <1>1, <1>2, <2>1
  <2>4. old \in Seq(E) /\ new \in Seq(E) /\ DOMAIN old = 1..k /\ Len(old) = k  BY <1>4, <2>1
  <2>5. new = Append(old, Rendered(svc))  OBVIOUS
  <2>6. ASSUME NEW j \in DOMAIN old PROVE ~Mine(old[j], svc.id)
    <3>1. j \in 1..k /\ j \in 1..n /\ j # k + 1  BY <2>1, <2>4
    <3>2. services[j].id # svc.id  BY <1>2, <2>1, <3>1 DEF Distinct
    <3>3. old[j].comment.id = services[j].id  BY <3>1 DEF Rendered, buildMarker
    <3>4. QED  BY <3>2, <3>3 DEF Mine
  <2> HIDE DEF w, v, svc, T, n, old, new, first
  <2>7. findManagedIndex(old, svc.id) = 0  BY <2>4, <2>6, NoneIsFound
  <2>8. Verdict(old, svc, policy) = "added"  BY <2>7 DEF Verdict
  <2>9. ApplyService(old, svc, policy) = new  BY <2>5, <2>8 DEF ApplyService
  <2>10. w.groups[gi].items = old
    BY <1>3, <2>2, <2>4, WithItemsTypes
  <2>a. w \in Works(N, E, C) /\ gi \in DOMAIN w.groups /\ w.groups[gi].shape = "list"
    BY <2>2
  <2>11. On(v) /\ OneMore(w, v, gi, svc, policy)
    BY ONLY <2>a, <2>3, ServiceEffect, Setting(N, E, C, S)
  <2>12. ~Failed(v) /\ v.groups = WithItems(w.groups, gi, new)
    BY <2>2, <2>8, <2>9, <2>10, <2>11 DEF OneMore, Refusals
  <2>13. WithItems(w.groups, gi, new) = WithItems(groups, gi, new)
    <3>1. [[groups[gi] EXCEPT !.items = old] EXCEPT !.items = new] = [groups[gi] EXCEPT !.items = new]
      BY <1>3 DEF GroupsOf
    <3>2. QED  BY <1>3, <2>2, <3>1 DEF WithItems
  <2>14. QED  BY <2>11, <2>12, <2>13 DEF v, new
<1>7. n \in T
  <2> HIDE DEF T, n
  <2>1. QED  BY <1>2, <1>5, <1>6, Induction
<1>8. ~Failed(f[n]) /\ f[n].groups = WithItems(groups, gi, first(n))
  <2> HIDE DEF n, On, first, groups
  <2>1. QED  BY <1>2, <1>7 DEF T
<1>9. first(n) = RenderedAll(services)  BY <1>2 DEF RenderedAll
<1> HIDE DEF T, n, first
<1>10. QED  BY <1>1, <1>8, <1>9

\* A group that is not there yet is appended with its entries.
LEMMA GroupFresh ==
  ASSUME NEW N, NEW E, NEW C, NEW S, Setting(N, E, C, S), NEW policy,
         NEW work \in Works(N, E, C), ~Failed(work), NEW wanted \in Wanted(N, S),
         GroupIndex(work.groups, wanted.name) = 0,
         NEW now, now = MergeGroup(work, wanted, policy)
  PROVE  ~Failed(now) /\ now.groups = Append(work.groups, FreshGroup(wanted))
<1> DEFINE empty  == [name |-> wanted.name, shape |-> "list", items |-> <<>>]
           groups == Append(work.groups, empty)
           gi     == GroupIndex(groups, wanted.name)
           n      == Len(work.groups) + 1
           start  == [work EXCEPT !.groups = groups]
<1>1. wanted.name \in N /\ wanted.services \in Seq(S) /\ Distinct(wanted.services)  BY DEF Wanted
<1>2. /\ work.groups \in Seq(GroupsOf(N, E)) /\ work.changes \in Seq(C) /\ work.error \in Errors
      /\ work = [error |-> work.error, groups |-> work.groups, changes |-> work.changes]
  BY DEF Works
<1>3. FindOrCreateGroup(work.groups, wanted.name) = groups /\ ~GroupIsBroken(work.groups, wanted.name)
  BY DEF FindOrCreateGroup, GroupIsBroken
<1>4. now = MergeServices(start, gi, wanted.services, policy)
  BY <1>3 DEF MergeGroup
<1>5. empty \in GroupsOf(N, E) /\ empty.name = wanted.name /\ empty.shape = "list" /\ empty.items = <<>>
  BY <1>1 DEF GroupsOf
<1>6. gi = n
  <2> HIDE DEF empty
  <2>1. QED  BY <1>2, <1>5, IndexAppend
<1>7. /\ groups \in Seq(GroupsOf(N, E)) /\ Len(work.groups) \in Nat
      /\ DOMAIN groups = 1..n /\ n \in 1..n /\ groups[n] = empty
  <2> HIDE DEF empty
  <2>1. QED  BY <1>2, <1>5
<1> HIDE DEF groups
<1>8. start = [error |-> work.error, groups |-> groups, changes |-> work.changes]
  BY <1>2
<1>9. start \in Works(N, E, C) /\ start.groups = groups /\ ~Failed(start)
  BY <1>2, <1>7, <1>8 DEF Works, Failed
<1> HIDE DEF start, gi, empty
<1>10. ~Failed(now) /\ now.groups = WithItems(groups, n, RenderedAll(wanted.services))
  BY <1>1, <1>4, <1>5, <1>6, <1>7, <1>9, ServicesFresh
<1>11. [empty EXCEPT !.items = RenderedAll(wanted.services)] = FreshGroup(wanted)
  BY DEF empty, FreshGroup
<1>12. WithItems(groups, n, RenderedAll(wanted.services)) = [groups EXCEPT ![n] = FreshGroup(wanted)]
  BY <1>7, <1>11 DEF WithItems
<1> DEFINE fresh == FreshGroup(wanted)
<1> HIDE DEF fresh
<1>13. [groups EXCEPT ![n] = fresh] = Append(work.groups, fresh)
  <2> DEFINE old == work.groups
             m   == Len(old)
             a   == [groups EXCEPT ![n] = fresh]
             b   == Append(old, fresh)
  <2>1. /\ m \in Nat /\ DOMAIN groups = 1..(m + 1)
        /\ groups = [i \in 1..(m + 1) |-> groups[i]]
        /\ \A i \in 1..m : groups[i] = old[i]
    BY <1>2 DEF groups
  <2>2. a = [i \in 1..(m + 1) |-> IF i = m + 1 THEN fresh ELSE old[i]]
    <3>1. a = [i \in 1..(m + 1) |-> IF i = n THEN fresh ELSE groups[i]]  BY <2>1
    <3>2. \A i \in 1..(m + 1) : i # m + 1 => i \in 1..m  BY <2>1
    <3> HIDE DEF a, fresh
    <3>3. QED  BY <2>1, <3>1, <3>2
  <2>3. b = [i \in 1..(m + 1) |-> IF i = m + 1 THEN fresh ELSE old[i]]
    BY <1>2
  <2>4. QED  BY <2>2, <2>3
<1>14. QED  BY <1>10, <1>12, <1>13 DEF fresh

\* The document a merge makes out of nothing.
FreshGroups(desired) == [i \in DOMAIN desired |-> FreshGroup(desired[i])]

\* The loop over the desired groups, nothing being there.
LEMMA GroupsFresh ==
  ASSUME NEW N, NEW E, NEW C, NEW S, Setting(N, E, C, S), NEW policy \in Policies,
         NEW work \in Works(N, E, C), ~Failed(work), work.groups = <<>>,
         NEW desired \in Seq(Wanted(N, S)), DistinctNames(desired),
         NEW now, now = MergeGroups(work, desired, policy)
  PROVE  ~Failed(now) /\ now.groups = FreshGroups(desired)
<1> DEFINE n == Len(desired)
           first(k) == [i \in 1..k |-> FreshGroup(desired[i])]
<1>1. PICK f : /\ f[0] = work
               /\ \A k \in 1..n : f[k] = MergeGroup(f[k - 1], desired[k], policy)
               /\ now = f[n]
  BY GroupsLoop
<1>2. n \in Nat /\ DOMAIN desired = 1..n /\ \A k \in 1..n : desired[k] \in Wanted(N, S)  OBVIOUS
<1> DEFINE T == {k \in Nat : k <= n => /\ f[k] \in Works(N, E, C) /\ ~Failed(f[k])
                                       /\ f[k].groups = first(k)}
<1>3. 0 \in T
  <2>1. first(0) = <<>>  OBVIOUS
  <2> HIDE DEF first
  <2>2. QED  BY <1>1, <2>1
<1>4. ASSUME NEW k \in Nat, k \in T PROVE k + 1 \in T
  <2> SUFFICES ASSUME k + 1 <= n
               PROVE  /\ f[k + 1] \in Works(N, E, C) /\ ~Failed(f[k + 1])
                      /\ f[k + 1].groups = first(k + 1)
    OBVIOUS
  <2> DEFINE w      == f[k]
             v      == f[k + 1]
             wanted == desired[k + 1]
             old    == first(k)
  <2>1. k + 1 \in 1..n /\ (k + 1) - 1 = k /\ k <= n  BY <1>2
  <2>2. w \in Works(N, E, C) /\ ~Failed(w) /\ w.groups = old  BY <1>4, <2>1
  <2>3. wanted \in Wanted(N, S) /\ v = MergeGroup(w, wanted, policy)  BY <1>1, <1>2, <2>1
  <2>4. ASSUME NEW i \in DOMAIN old PROVE old[i].name # wanted.name
    <3>1. i \in 1..k /\ i \in 1..n /\ i # k + 1  BY <2>1
    <3>2. desired[i].name # wanted.name  BY <1>2, <2>1, <3>1 DEF DistinctNames
    <3>3. old[i].name = desired[i].name  BY <3>1 DEF FreshGroup
    <3>4. QED  BY <3>2, <3>3
  <2>5. first(k + 1) = Append(old, FreshGroup(wanted))
    <3> HIDE DEF w, v, T, n
    <3>1. QED  OBVIOUS
  <2> HIDE DEF w, v, wanted, T, n, old, first
  <2>6. old \in Seq(GroupsOf(N, E))  BY <2>2 DEF Works
  <2>7. GroupIndex(old, wanted.name) = 0
    <3>1. GroupIndex(old, wanted.name) \in DOMAIN old
            => old[GroupIndex(old, wanted.name)].name # wanted.name
      BY <2>4
    <3>2. QED  BY <2>6, <3>1, IndexIsFirst
  <2>8. v \in Works(N, E, C)
    BY ONLY <2>2, <2>3, GroupEffect, Setting(N, E, C, S), policy \in Policies
  <2>9. ~Failed(v) /\ v.groups = Append(old, FreshGroup(wanted))
    BY <2>2, <2>3, <2>7, GroupFresh
  <2>10. QED  BY <2>5, <2>8, <2>9 DEF v
<1>5. n \in T
  <2> HIDE DEF T, n
  <2>1. QED  BY <1>2, <1>3, <1>4, Induction
<1>6. ~Failed(f[n]) /\ f[n].groups = first(n)
  <2> HIDE DEF n, first
  <2>1. QED  BY <1>2, <1>5 DEF T
<1>7. first(n) = FreshGroups(desired)  BY <1>2 DEF FreshGroups
<1> HIDE DEF T, n, first
<1>8. QED  BY <1>1, <1>6, <1>7

\* The whole call, nothing being there: every desired group with an entry for each service.
LEMMA MergeFresh ==
  ASSUME NEW N, NEW E, NEW C, NEW S, Setting(N, E, C, S), NEW policy \in Policies,
         NEW doc, HasGroupSequence(doc), doc.groups = <<>>,
         NEW desired \in Seq(Wanted(N, S)), DistinctNames(desired), Owned(desired),
         NEW result, result = Merge(doc, desired, policy)
  PROVE  result.error = Absent /\ result.doc.groups = FreshGroups(desired)
<1> DEFINE start   == [error |-> Absent, groups |-> doc.groups, changes |-> <<>>]
           applied == MergeGroups(start, desired, policy)
           swept   == [i \in DOMAIN applied.groups |-> SweepGroup(applied.groups[i], desired)]
<1>1. start \in Works(N, E, C) /\ start.groups = <<>> /\ ~Failed(start)
  <2>1. Absent \in Errors /\ <<>> \in Seq(C) /\ <<>> \in Seq(GroupsOf(N, E))  BY DEF Errors
  <2>2. QED  BY <2>1 DEF Works, Failed
<1>a. applied = MergeGroups(start, desired, policy)  OBVIOUS
<1>2. ~Failed(applied) => result.error = Absent /\ result.doc.groups = swept
  BY DEF Merge
<1> HIDE DEF start, applied
<1>3. ~Failed(applied) /\ applied.groups = FreshGroups(desired)
  BY <1>1, <1>a, GroupsFresh
<1>4. ASSUME NEW i \in DOMAIN desired
      PROVE  SweepGroup(FreshGroup(desired[i]), desired) = FreshGroup(desired[i])
  <2> DEFINE g == FreshGroup(desired[i])
  <2>1. g.name = desired[i].name /\ g.items = RenderedAll(desired[i].services)
    BY DEF FreshGroup
  <2> HIDE DEF g
  <2>2. ASSUME NEW e \in ToSet(g.items) PROVE ~Orphaned(e, g.name, desired)
    <3>1. PICK j \in DOMAIN desired[i].services : e = Rendered(desired[i].services[j])
      BY <2>1, <2>2 DEF ToSet, RenderedAll
    <3>2. e.comment.id = desired[i].services[j].id  BY <3>1 DEF Rendered, buildMarker
    <3>3. QED  BY <2>1, <3>2 DEF Orphaned, Owned
  <2>3. Orphans(g, desired) = {}  BY <2>2 DEF Orphans
  <2>4. SweepGroup(g, desired) = g  BY <2>3 DEF SweepGroup
  <2>5. QED  BY <2>4 DEF g
<1>5. swept = FreshGroups(desired)  BY <1>3, <1>4, Zenon DEF FreshGroups
<1> HIDE DEF swept
<1>6. QED  BY <1>2, <1>3, <1>5

-----------------------------------------------------------------------------
(***************************************************************************)
(* The desired groups.                                                     *)
(***************************************************************************)
\* A sorted list that names every element of S, and none twice.
Listed(list, S) ==
  /\ list \in Seq(ToSet(list)) /\ S \subseteq ToSet(list)
  /\ \A i, j \in DOMAIN list : list[i] = list[j] => i = j

\* Services with ids of their own and groups with names, all of which are in the orders.
Groupable(now, N) ==
  /\ \A s \in now : s.group \in N /\ s.group # Absent
  /\ \A s, t \in now : s.id = t.id => s = t
  /\ Listed(GroupOrder, {s.group : s \in now}) /\ Listed(ServiceOrder, {s.id : s \in now})

\* The bucket of a group lists its services, once each.
LEMMA BucketLists ==
  ASSUME NEW now, NEW N, Groupable(now, N), NEW name,
         NEW bucket, bucket = Bucket(now, name)
  PROVE  /\ bucket \in Seq(now)
         /\ Distinct(bucket)
         /\ \A j \in DOMAIN bucket : bucket[j] \in now /\ bucket[j].group = name
         /\ \A s \in now : s.group = name => \E j \in DOMAIN bucket : bucket[j] = s
<1> DEFINE here == {s \in now : NameOf(s) = name}
           idsHere == {s.id : s \in here}
           ids == Only(ServiceOrder, idsHere)
<1>1. /\ ServiceOrder \in Seq(ToSet(ServiceOrder)) /\ {s.id : s \in now} \subseteq ToSet(ServiceOrder)
      /\ \A i, j \in DOMAIN ServiceOrder : ServiceOrder[i] = ServiceOrder[j] => i = j
  BY DEF Groupable, Listed
<1>2. \A s, t \in now : s.id = t.id => s = t  BY DEF Groupable
<1>3. \A s \in now : NameOf(s) = s.group
  <2>1. \A s \in now : s.group # Absent  BY DEF Groupable
  <2>2. \A s \in now : s.group # ""  BY <2>1, Zenon DEF Absent
  <2>3. QED  BY <2>2, Zenon DEF NameOf
<1>4. bucket = [i \in DOMAIN ids |-> CHOOSE s \in here : s.id = ids[i]]
  BY DEF Bucket
<1> HIDE DEF idsHere
<1>5. /\ ids \in Seq(ToSet(ServiceOrder))
      /\ ToSet(ids) = ToSet(ServiceOrder) \cap idsHere
      /\ \A i, j \in DOMAIN ids : ids[i] = ids[j] => i = j
  BY <1>1, OnlyTypes, OnlyElements, OnlyOnce
<1> HIDE DEF ids
<1>6. ToSet(ids) = idsHere  BY <1>1, <1>3, <1>5 DEF idsHere
<1>7. ASSUME NEW j \in DOMAIN ids
      PROVE  bucket[j] \in now /\ bucket[j].group = name /\ bucket[j].id = ids[j]
  <2>1. ids[j] \in idsHere  BY <1>6 DEF ToSet
  <2>2. \E s \in here : s.id = ids[j]  BY <2>1 DEF idsHere
  <2>3. bucket[j] \in here /\ bucket[j].id = ids[j]  BY <1>4, <2>2
  <2>4. QED  BY <1>3, <2>3
<1>8. DOMAIN ids = 1..Len(ids) /\ Len(ids) \in Nat /\ DOMAIN bucket = DOMAIN ids
  BY <1>4, <1>5
<1>9. bucket \in Seq(now)
  <2>1. bucket = [i \in 1..Len(ids) |-> bucket[i]]  BY <1>4, <1>8
  <2>2. \A i \in 1..Len(ids) : bucket[i] \in now  BY <1>7, <1>8
  <2>3. QED  BY <1>8, <2>1, <2>2
<1>10. Distinct(bucket)  BY <1>5, <1>7, <1>8 DEF Distinct
<1>11. ASSUME NEW s \in now, s.group = name PROVE \E j \in DOMAIN bucket : bucket[j] = s
  <2>1. s.id \in idsHere  BY <1>3, <1>11 DEF idsHere
  <2>2. PICK j \in DOMAIN ids : ids[j] = s.id  BY <1>6, <2>1 DEF ToSet
  <2>3. bucket[j] = s  BY <1>2, <1>7, <2>2
  <2>4. QED  BY <1>8, <2>3
<1>12. QED  BY <1>7, <1>8, <1>9, <1>10, <1>11

\* GroupServices names each group once, with all of its services and no other: every service is
\* wanted in one group only, and no desired group is empty.
LEMMA DesiredAre ==
  ASSUME NEW now, NEW N, Groupable(now, N), NEW desired, desired = GroupServices(now)
  PROVE  /\ desired \in Seq(Wanted(N, now))
         /\ DistinctNames(desired)
         /\ Owned(desired)
         /\ \A i \in DOMAIN desired : \A j \in DOMAIN desired[i].services :
              desired[i].services[j] \in now /\ desired[i].services[j].group = desired[i].name
         /\ \A s \in now : \E i \in DOMAIN desired :
              desired[i].name = s.group /\ \E j \in DOMAIN desired[i].services : desired[i].services[j] = s
<1> DEFINE named == {NameOf(s) : s \in now}
           names == Only(GroupOrder, named)
           D(i) == [name |-> names[i], services |-> Bucket(now, names[i])]
<1>1. /\ GroupOrder \in Seq(ToSet(GroupOrder)) /\ {s.group : s \in now} \subseteq ToSet(GroupOrder)
      /\ \A i, j \in DOMAIN GroupOrder : GroupOrder[i] = GroupOrder[j] => i = j
  BY DEF Groupable, Listed
<1>2. \A s, t \in now : s.id = t.id => s = t  BY DEF Groupable
<1>3. \A s \in now : NameOf(s) = s.group /\ s.group \in N
  <2>1. \A s \in now : s.group # Absent /\ s.group \in N  BY DEF Groupable
  <2>2. \A s \in now : s.group # "" /\ s.group \in N  BY <2>1, Zenon DEF Absent
  <2>3. QED  BY <2>2, Zenon DEF NameOf
<1>4. desired = [i \in DOMAIN names |-> D(i)]
  BY DEF GroupServices
<1> HIDE DEF named
<1>5. /\ names \in Seq(ToSet(GroupOrder))
      /\ ToSet(names) = ToSet(GroupOrder) \cap named
      /\ \A i, j \in DOMAIN names : names[i] = names[j] => i = j
  BY <1>1, OnlyTypes, OnlyElements, OnlyOnce
<1> HIDE DEF names
<1>6. ToSet(names) = named /\ named \subseteq N  BY <1>1, <1>3, <1>5 DEF named
<1>7. DOMAIN names = 1..Len(names) /\ Len(names) \in Nat /\ DOMAIN desired = DOMAIN names
  BY <1>4, <1>5
<1>8. ASSUME NEW i \in DOMAIN names
      PROVE  /\ names[i] \in N /\ names[i] \in named
             /\ desired[i].name = names[i]
             /\ desired[i].services = Bucket(now, names[i])
             /\ desired[i] = [name |-> names[i], services |-> Bucket(now, names[i])]
  <2>1. names[i] \in named  BY <1>6 DEF ToSet
  <2>2. desired[i] = [name |-> names[i], services |-> Bucket(now, names[i])]  BY <1>4
  <2>3. QED  BY <1>6, <2>1, <2>2
<1>9. ASSUME NEW i \in DOMAIN names
      PROVE  /\ desired[i].services \in Seq(now)
             /\ Distinct(desired[i].services)
             /\ \A j \in DOMAIN desired[i].services :
                  desired[i].services[j] \in now /\ desired[i].services[j].group = names[i]
             /\ \A s \in now : s.group = names[i] =>
                  \E j \in DOMAIN desired[i].services : desired[i].services[j] = s
  <2> DEFINE bucket == desired[i].services
             name == names[i]
  <2>1. bucket = Bucket(now, name)  BY <1>8
  <2> HIDE DEF bucket, name
  <2>2. /\ bucket \in Seq(now)
        /\ Distinct(bucket)
        /\ \A j \in DOMAIN bucket : bucket[j] \in now /\ bucket[j].group = name
        /\ \A s \in now : s.group = name => \E j \in DOMAIN bucket : bucket[j] = s
    BY <2>1, BucketLists
  <2>3. QED  BY <2>2 DEF bucket, name
<1> HIDE DEF D
<1>10. ASSUME NEW i \in DOMAIN names PROVE desired[i] \in Wanted(N, now)
  <2>1. PICK s \in now : s.group = names[i]  BY <1>3, <1>8 DEF named
  <2>2. desired[i].services # <<>>
    <3>1. \E j \in DOMAIN desired[i].services : desired[i].services[j] = s  BY <1>9, <2>1
    <3>2. QED  BY <3>1
  <2>3. desired[i] \in [name : N, services : Seq(now)]
    <3> DEFINE n == names[i]
               b == Bucket(now, names[i])
    <3>1. n \in N /\ b \in Seq(now) /\ desired[i] = [name |-> n, services |-> b]
      BY <1>8, <1>9
    <3> HIDE DEF n, b
    <3>2. QED  BY <3>1
  <2>4. QED  BY <1>9, <2>2, <2>3 DEF Wanted
<1>11. desired \in Seq(Wanted(N, now))
  <2>1. desired = [i \in 1..Len(names) |-> desired[i]]  BY <1>4, <1>7
  <2>2. \A i \in 1..Len(names) : desired[i] \in Wanted(N, now)  BY <1>7, <1>10
  <2>3. QED  BY <1>7, <2>1, <2>2
<1>12. DistinctNames(desired)  BY <1>5, <1>7, <1>8 DEF DistinctNames
<1>13. Owned(desired)
  <2> SUFFICES ASSUME NEW i \in DOMAIN desired, NEW j \in DOMAIN desired[i].services
               PROVE  DesiredGroupOf(desired, desired[i].services[j].id) = desired[i].name
    BY DEF Owned
  <2> DEFINE id == desired[i].services[j].id
             wanting == {k \in DOMAIN desired : \E l \in DOMAIN desired[k].services :
                           desired[k].services[l].id = id}
  <2>1. i \in wanting  OBVIOUS
  <2>2. ASSUME NEW k \in wanting PROVE desired[k].name = desired[i].name
    <3>1. PICK l \in DOMAIN desired[k].services : desired[k].services[l].id = id  OBVIOUS
    <3>2. desired[k].services[l] \in now /\ desired[i].services[j] \in now  BY <1>7, <1>9
    <3>3. desired[k].services[l] = desired[i].services[j]  BY <1>2, <3>1, <3>2
    <3>4. desired[k].services[l].group = names[k] /\ desired[i].services[j].group = names[i]
      BY <1>7, <1>9
    <3>5. desired[k].name = names[k] /\ desired[i].name = names[i]  BY <1>7, <1>8
    <3>6. QED  BY <3>3, <3>4, <3>5
  <2>3. DesiredGroupOf(desired, id) = IF wanting = {} THEN Absent ELSE desired[CHOOSE k \in wanting : TRUE].name
    BY DEF DesiredGroupOf
  <2> HIDE DEF wanting, id
  <2>4. (CHOOSE k \in wanting : TRUE) \in wanting  BY <2>1
  <2>5. DesiredGroupOf(desired, id) = desired[i].name  BY <2>1, <2>2, <2>3, <2>4
  <2>6. QED  BY <2>5 DEF id
<1>14. ASSUME NEW s \in now
       PROVE  \E i \in DOMAIN desired :
                desired[i].name = s.group /\ \E j \in DOMAIN desired[i].services : desired[i].services[j] = s
  <2>1. s.group \in named  BY <1>3 DEF named
  <2>2. PICK i \in DOMAIN names : names[i] = s.group  BY <1>6, <2>1 DEF ToSet
  <2>3. QED  BY <1>7, <1>8, <1>9, <2>2
<1>15. ASSUME NEW i \in DOMAIN desired, NEW j \in DOMAIN desired[i].services
       PROVE  desired[i].services[j] \in now /\ desired[i].services[j].group = desired[i].name
  BY <1>7, <1>8, <1>9
<1>16. QED  BY <1>11, <1>12, <1>13, <1>14, <1>15
=============================================================================
