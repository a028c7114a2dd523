----------------------------- MODULE ListProofs -----------------------------
(***************************************************************************)
(* Facts about sequences, for every length: induction over numbers and     *)
(* over sequences, what FlattenSeq and Only do to one element more, what a *)
(* fold over a sequence keeps, and that a total order sorts a sequence.    *)
(*                                                                         *)
(* A predicate to be shown by induction is given as the set of what it     *)
(* holds of, so that no lemma has an operator for a parameter.             *)
(***************************************************************************)
EXTENDS Lists, FiniteSetTheorems, FunctionTheorems, WellFoundedInduction, TLAPS

-----------------------------------------------------------------------------
(***************************************************************************)
(* Numbers.                                                                *)
(***************************************************************************)
\* A set of numbers that is not empty has a least one.
LEMMA LeastElement ==
  ASSUME NEW T \in SUBSET Nat, T # {}
  PROVE  \E n \in T : \A m \in T : n <= m
<1> DEFINE R == {ss \in Nat \X Nat : ss[1] < ss[2]}
<1>1. IsWellFoundedOn(R, Nat)
  BY NatLessThanWellFounded DEF OpToRel
<1> HIDE DEF R
<1>2. PICK x \in T : \A y \in T : ~ (<<y, x>> \in R)
  BY <1>1, WFMin
<1>3. ASSUME NEW y \in T PROVE x <= y
  <2>1. ~ (<<y, x>> \in R)  BY <1>2
  <2>2. ~ (y < x)
    <3> SUFFICES ASSUME y < x PROVE FALSE OBVIOUS
    <3>1. <<y, x>> \in Nat \X Nat /\ <<y, x>>[1] = y /\ <<y, x>>[2] = x  OBVIOUS
    <3>2. <<y, x>> \in R  BY <3>1 DEF R
    <3>3. QED  BY <3>2, <2>1
  <2>3. QED  BY <2>2
<1>4. QED  BY <1>3

\* The minimum of a set of numbers that is not empty.
LEMMA MinOfSome ==
  ASSUME NEW T \in SUBSET Nat, T # {}
  PROVE  Min(T) \in T /\ \A m \in T : Min(T) <= m
<1>1. \E n \in T : \A m \in T : n <= m  BY LeastElement
<1>2. QED  BY <1>1 DEF Min

\* Induction over the numbers, with the predicate given as a set.
LEMMA Induction ==
  ASSUME NEW T, 0 \in T, \A n \in Nat : n \in T => n + 1 \in T
  PROVE  \A n \in Nat : n \in T
<1> DEFINE U == {n \in Nat : n \notin T}
<1> SUFFICES ASSUME U # {} PROVE FALSE  OBVIOUS
<1>1. PICK n \in U : \A m \in U : n <= m  BY LeastElement
<1>2. n # 0 /\ n - 1 \in Nat /\ n - 1 \notin U BY <1>1
<1>3. QED BY <1>1, <1>2

-----------------------------------------------------------------------------
(***************************************************************************)
(* FlattenSeq, defined by partial sums.                                    *)
(***************************************************************************)
\* What FlattenSeq adds up, one element more at a time.
Sums(ss, n, f) ==
  f = [i \in 1..n |-> IF i = 1 THEN ss[i] ELSE f[i - 1] \o ss[i]]

\* The defining equation of Sums, one index at a time.
LEMMA SumsByStep ==
  ASSUME NEW ss, NEW n \in Nat, NEW f, Sums(ss, n, f), NEW i \in 1..n
  PROVE  f[i] = IF i = 1 THEN ss[i] ELSE f[i - 1] \o ss[i]
<1>1. f = [k \in 1..n |-> IF k = 1 THEN ss[k] ELSE f[k - 1] \o ss[k]]  BY DEF Sums
<1> DEFINE h == [k \in 1..n |-> IF k = 1 THEN ss[k] ELSE f[k - 1] \o ss[k]]
<1>2. h[i] = IF i = 1 THEN ss[i] ELSE f[i - 1] \o ss[i]  OBVIOUS
<1>3. f = h  BY <1>1
<1> HIDE DEF h
<1>4. QED  BY <1>2, <1>3

\* Partial sums exist for every sequence of sequences.
LEMMA SumsExist ==
  ASSUME NEW S, NEW ss \in Seq(Seq(S))
  PROVE  \E f : Sums(ss, Len(ss), f)
<1> DEFINE T == {n \in Nat : \E f : Sums(ss, n, f)}
<1>1. 0 \in T
  <2>1. Sums(ss, 0, [i \in 1..0 |-> i])  BY DEF Sums
  <2>2. QED  BY <2>1
<1>2. ASSUME NEW n \in Nat, n \in T PROVE n + 1 \in T
  <2>1. PICK f : Sums(ss, n, f)  BY <1>2
  <2> DEFINE g == [i \in 1..(n + 1) |-> IF i = n + 1 THEN (IF i = 1 THEN ss[i] ELSE f[n] \o ss[i])
                                        ELSE f[i]]
  <2>2. \A i \in 1..n : g[i] = f[i]  OBVIOUS
  <2>3. ASSUME NEW i \in 1..(n + 1)
        PROVE  g[i] = IF i = 1 THEN ss[i] ELSE g[i - 1] \o ss[i]
    <3>1. CASE i = n + 1  BY <3>1, <2>2
    <3>2. CASE i # n + 1
      <4>1. i \in 1..n /\ (i # 1 => i - 1 \in 1..n)  BY <3>2
      <4>2. f[i] = IF i = 1 THEN ss[i] ELSE f[i - 1] \o ss[i]  BY <4>1, <2>1, SumsByStep
      <4>3. QED  BY <4>1, <4>2, <2>2
    <3>3. QED  BY <3>1, <3>2
  <2>4. Sums(ss, n + 1, g)  BY <2>3 DEF Sums
  <2> HIDE DEF g
  <2>5. \E h : Sums(ss, n + 1, h)  BY <2>4
  <2>6. QED  BY <2>5
<1> HIDE DEF T
<1>3. Len(ss) \in T  BY <1>1, <1>2, Induction
<1>4. QED  BY <1>3 DEF T

\* Partial sums only depend on the sequences summed so far.
LEMMA SumsAgree ==
  ASSUME NEW S, NEW ss \in Seq(Seq(S)), NEW tt \in Seq(Seq(S)),
         NEW n \in Nat, NEW m \in Nat, n <= m, n <= Len(ss), n <= Len(tt),
         \A i \in 1..n : ss[i] = tt[i],
         NEW f, NEW g, Sums(ss, n, f), Sums(tt, m, g)
  PROVE  \A i \in 1..n : f[i] = g[i] /\ f[i] \in Seq(S)
<1> DEFINE T == {i \in Nat : i \in 1..n => f[i] = g[i] /\ f[i] \in Seq(S)}
<1>1. 0 \in T  OBVIOUS
<1>2. ASSUME NEW i \in Nat, i \in T PROVE i + 1 \in T
  <2> SUFFICES ASSUME i + 1 \in 1..n PROVE f[i + 1] = g[i + 1] /\ f[i + 1] \in Seq(S)
    OBVIOUS
  <2>1. f[i + 1] = IF i = 0 THEN ss[i + 1] ELSE f[i] \o ss[i + 1]
    <3>1. (i + 1) - 1 = i /\ (i + 1 = 1 <=> i = 0)  OBVIOUS
    <3>2. f[i + 1] = IF i + 1 = 1 THEN ss[i + 1] ELSE f[(i + 1) - 1] \o ss[i + 1]
      BY ONLY SumsByStep, n \in Nat, Sums(ss, n, f), i + 1 \in 1..n
    <3>3. QED  BY <3>1, <3>2
  <2>2. g[i + 1] = IF i = 0 THEN tt[i + 1] ELSE g[i] \o tt[i + 1]
    <3>1. (i + 1) - 1 = i /\ (i + 1 = 1 <=> i = 0) /\ i + 1 \in 1..m  OBVIOUS
    <3>2. g[i + 1] = IF i + 1 = 1 THEN tt[i + 1] ELSE g[(i + 1) - 1] \o tt[i + 1]
      BY ONLY SumsByStep, m \in Nat, Sums(tt, m, g), <3>1
    <3>3. QED  BY <3>1, <3>2
  <2>3. ss[i + 1] \in Seq(S) /\ ss[i + 1] = tt[i + 1]  OBVIOUS
  <2>4. i # 0 => f[i] = g[i] /\ f[i] \in Seq(S)  BY <1>2
  <2>5. QED  BY <2>1, <2>2, <2>3, <2>4
<1> HIDE DEF T
<1>3. \A i \in Nat : i \in T  BY <1>1, <1>2, Induction
<1>4. QED  BY <1>3 DEF T

\* FlattenSeq is the last of the partial sums.
LEMMA FlattenIsSum ==
  ASSUME NEW S, NEW ss \in Seq(Seq(S)), NEW f, Sums(ss, Len(ss), f)
  PROVE  FlattenSeq(ss) = IF Len(ss) = 0 THEN <<>> ELSE f[Len(ss)]
<1> DEFINE g == CHOOSE g : Sums(ss, Len(ss), g)
<1>1. FlattenSeq(ss) = IF Len(ss) = 0 THEN ss ELSE g[Len(ss)]
  BY DEF FlattenSeq, Sums
<1>2. Sums(ss, Len(ss), g)  OBVIOUS
<1> HIDE DEF g
<1>3. Len(ss) \in Nat /\ (Len(ss) = 0 => ss = <<>>)  OBVIOUS
<1>4. \A i \in 1..Len(ss) : f[i] = g[i]
  <2> DEFINE n == Len(ss)
  <2>1. n \in Nat /\ n <= n /\ n <= Len(ss) /\ \A i \in 1..n : ss[i] = ss[i]  BY <1>3
  <2>2. Sums(ss, n, f) /\ Sums(ss, n, g)  BY <1>2
  <2> HIDE DEF n
  <2>3. \A i \in 1..n : f[i] = g[i] /\ f[i] \in Seq(S)
    BY ONLY <2>1, <2>2, SumsAgree, ss \in Seq(Seq(S))
  <2>4. QED  BY <2>3 DEF n
<1>5. QED  BY <1>1, <1>3, <1>4

\* FlattenSeq of one more sequence.
LEMMA FlattenAppend ==
  ASSUME NEW S, NEW ss \in Seq(Seq(S)), NEW s \in Seq(S)
  PROVE  /\ FlattenSeq(ss) \in Seq(S)
         /\ FlattenSeq(Append(ss, s)) = FlattenSeq(ss) \o s
<1> DEFINE tt == Append(ss, s)
           n  == Len(ss)
<1>1. tt \in Seq(Seq(S)) /\ n \in Nat /\ Len(tt) = n + 1 /\ tt[n + 1] = s
      /\ \A i \in 1..n : tt[i] = ss[i]
  OBVIOUS
<1> HIDE DEF tt
<1>a. n <= n + 1 /\ n <= Len(ss) /\ n <= Len(tt) /\ n + 1 \in Nat /\ \A i \in 1..n : ss[i] = tt[i]
  BY <1>1
<1>2. PICK f : Sums(ss, n, f)  BY SumsExist
<1>3. PICK g : Sums(tt, n + 1, g)  BY <1>1, SumsExist
<1>4. \A i \in 1..n : f[i] = g[i] /\ f[i] \in Seq(S)
  <2> HIDE DEF n
  <2>1. QED  BY <1>1, <1>2, <1>3, <1>a, SumsAgree
<1>5. /\ FlattenSeq(ss) = (IF n = 0 THEN <<>> ELSE f[n])
      /\ FlattenSeq(tt) = g[n + 1]
  BY <1>1, <1>2, <1>3, FlattenIsSum
<1>6. g[n + 1] = IF n = 0 THEN s ELSE g[n] \o s
  <2>1. n + 1 \in Nat /\ n + 1 \in 1..(n + 1) /\ (n + 1) - 1 = n /\ (n + 1 = 1 <=> n = 0)
    BY <1>1
  <2>2. g[n + 1] = IF n + 1 = 1 THEN tt[n + 1] ELSE g[(n + 1) - 1] \o tt[n + 1]
    BY <1>3, <2>1, SumsByStep
  <2>3. QED  BY <1>1, <2>1, <2>2
<1>7. n # 0 => f[n] = g[n] /\ f[n] \in Seq(S)  BY <1>1, <1>4
<1> HIDE DEF n
<1>8. FlattenSeq(tt) = FlattenSeq(ss) \o s /\ FlattenSeq(ss) \in Seq(S)
  <2>1. CASE n = 0  BY <1>5, <1>6, <2>1
  <2>2. CASE n # 0  BY <1>5, <1>6, <1>7, <2>2
  <2>3. QED  BY <2>1, <2>2
<1>9. QED  BY <1>8 DEF tt

\* FlattenSeq of no sequence.
LEMMA FlattenEmpty == FlattenSeq(<<>>) = <<>>
  BY DEF FlattenSeq

-----------------------------------------------------------------------------
(***************************************************************************)
(* Only(s, Q).                                                             *)
(***************************************************************************)
\* Only of one more element.
LEMMA OnlyAppend ==
  ASSUME NEW S, NEW s \in Seq(S), NEW e \in S, NEW Q
  PROVE  /\ Only(s, Q) \in Seq(S)
         /\ Only(Append(s, e), Q) = IF e \in Q THEN Append(Only(s, Q), e) ELSE Only(s, Q)
<1> DEFINE Units(t) == [i \in DOMAIN t |-> IF t[i] \in Q THEN <<t[i]>> ELSE <<>>]
           u == IF e \in Q THEN <<e>> ELSE <<>>
<1>1. Units(s) \in Seq(Seq(S)) /\ u \in Seq(S)
  <2> DEFINE v == Units(s)
  <2>1. \A i \in 1..Len(s) : v[i] \in Seq(S)
    <3> SUFFICES ASSUME NEW i \in 1..Len(s) PROVE v[i] \in Seq(S)  OBVIOUS
    <3>1. s[i] \in S /\ <<>> \in Seq(S)  OBVIOUS
    <3>2. <<s[i]>> \in Seq(S)  BY <3>1
    <3>3. v[i] = IF s[i] \in Q THEN <<s[i]>> ELSE <<>>  OBVIOUS
    <3>4. QED  BY <3>1, <3>2, <3>3
  <2>2. Len(s) \in Nat /\ DOMAIN v = 1..Len(s) /\ v = [i \in 1..Len(s) |-> v[i]]  OBVIOUS
  <2> HIDE DEF v
  <2>3. v \in Seq(Seq(S))  BY <2>1, <2>2
  <2>4. <<e>> \in Seq(S) /\ <<>> \in Seq(S)  OBVIOUS
  <2>5. u \in Seq(S)  BY <2>4
  <2>6. QED  BY <2>3, <2>5 DEF v
<1>2. Units(Append(s, e)) = Append(Units(s), u)  OBVIOUS
<1>3. /\ FlattenSeq(Units(s)) \in Seq(S)
      /\ FlattenSeq(Append(Units(s), u)) = FlattenSeq(Units(s)) \o u
  <2> HIDE DEF Units, u
  <2>1. QED  BY <1>1, FlattenAppend
<1>4. /\ Only(s, Q) = FlattenSeq(Units(s))
      /\ Only(Append(s, e), Q) = FlattenSeq(Units(Append(s, e)))
  BY DEF Only
<1>5. Only(s, Q) \in Seq(S) /\ Only(Append(s, e), Q) = Only(s, Q) \o u
  BY <1>2, <1>3, <1>4
<1>6. QED  BY <1>5

\* Only of the empty sequence.
LEMMA OnlyEmpty == ASSUME NEW Q PROVE Only(<<>>, Q) = <<>>
<1>1. [i \in DOMAIN <<>> |-> IF <<>>[i] \in Q THEN <<<<>>[i]>> ELSE <<>>] = <<>>  OBVIOUS
<1>2. QED  BY <1>1, FlattenEmpty DEF Only

\* A set that holds the empty sequence and every one-element extension of its
\* members holds every sequence.
LEMMA SeqInduction ==
  ASSUME NEW S, NEW P, <<>> \in P,
         \A s \in Seq(S), e \in S : s \in P => Append(s, e) \in P
  PROVE  \A s \in Seq(S) : s \in P
<1> DEFINE T == {n \in Nat : \A s \in Seq(S) : Len(s) = n => s \in P}
<1>1. 0 \in T  
  <2>1. \A s \in Seq(S) : Len(s) = 0 => s = <<>>  OBVIOUS
  <2>2. QED  BY <2>1
<1>2. ASSUME NEW n \in Nat, n \in T PROVE n + 1 \in T
  <2> SUFFICES ASSUME NEW s \in Seq(S), Len(s) = n + 1 PROVE s \in P  OBVIOUS
  <2> DEFINE t == SubSeq(s, 1, n)
  <2>1. t \in Seq(S) /\ Len(t) = n /\ s[n + 1] \in S /\ s = Append(t, s[n + 1])  OBVIOUS
  <2> HIDE DEF t
  <2>2. t \in P  BY <1>2, <2>1
  <2>3. QED  BY <2>1, <2>2
<1> HIDE DEF T
<1>3. \A n \in Nat : n \in T  BY <1>1, <1>2, Induction
<1>4. QED  BY <1>3 DEF T

\* Keeping P and then Q keeps what is in both.
LEMMA OnlyComposed ==
  ASSUME NEW S, NEW s \in Seq(S), NEW P, NEW Q
  PROVE  Only(Only(s, P), Q) = Only(s, P \cap Q)
<1> DEFINE R == P \cap Q
<1>0. \A e : e \in R <=> e \in P /\ e \in Q  OBVIOUS
<1> HIDE DEF R
<1> DEFINE G == {t \in Seq(S) : Only(Only(t, P), Q) = Only(t, R)}
<1>1. <<>> \in G  BY OnlyEmpty
<1>2. ASSUME NEW t \in Seq(S), NEW e \in S, t \in G PROVE Append(t, e) \in G
  <2>1. Append(t, e) \in Seq(S) /\ Only(t, P) \in Seq(S)  BY OnlyAppend
  <2>2. Only(Append(t, e), P) = IF e \in P THEN Append(Only(t, P), e) ELSE Only(t, P)
    BY OnlyAppend
  <2>3. Only(Append(t, e), R) = IF e \in R THEN Append(Only(t, R), e) ELSE Only(t, R)
    BY OnlyAppend
  <2>4. Only(Append(Only(t, P), e), Q) =
        IF e \in Q THEN Append(Only(Only(t, P), Q), e) ELSE Only(Only(t, P), Q)
    BY <2>1, OnlyAppend
  <2>5. Only(Only(t, P), Q) = Only(t, R)  BY <1>2
  <2>6. Only(Only(Append(t, e), P), Q) = Only(Append(t, e), R)
    <3>1. CASE e \notin P  BY <1>0, <2>2, <2>3, <2>5, <3>1
    <3>2. CASE e \in P /\ e \in Q
      <4>1. Only(Append(t, e), P) = Append(Only(t, P), e)  BY <2>2, <3>2
      <4>2. Only(Append(t, e), R) = Append(Only(t, R), e)  BY <1>0, <2>3, <3>2
      <4>3. QED  BY <2>4, <2>5, <3>2, <4>1, <4>2
    <3>3. CASE e \in P /\ e \notin Q
      <4>1. Only(Append(t, e), P) = Append(Only(t, P), e)  BY <2>2, <3>3
      <4>2. Only(Append(t, e), R) = Only(t, R)  BY <1>0, <2>3, <3>3
      <4>3. QED  BY <2>4, <2>5, <3>3, <4>1, <4>2
    <3>4. QED  BY <3>1, <3>2, <3>3
  <2>7. QED  BY <2>1, <2>6
<1> HIDE DEF G
<1>3. \A t \in Seq(S) : t \in G  BY <1>1, <1>2, SeqInduction
<1>4. QED  BY <1>3 DEF G, R

\* What Only returns has exactly the chosen elements.
LEMMA OnlyElements ==
  ASSUME NEW S, NEW s \in Seq(S), NEW Q
  PROVE  /\ ToSet(Only(s, Q)) = ToSet(s) \cap Q
         /\ Len(Only(s, Q)) <= Len(s)
         /\ Len(Only(s, Q)) = Len(s) => ToSet(s) \subseteq Q
         /\ ToSet(s) \subseteq Q => Only(s, Q) = s
<1> DEFINE Good(t) ==
      /\ ToSet(Only(t, Q)) = ToSet(t) \cap Q
      /\ Len(Only(t, Q)) <= Len(t)
      /\ Len(Only(t, Q)) = Len(t) => ToSet(t) \subseteq Q
      /\ ToSet(t) \subseteq Q => Only(t, Q) = t
           G == {t \in Seq(S) : Good(t)}
<1>1. <<>> \in G  
  <2>1. <<>> \in Seq(S) /\ ToSet(<<>>) = {}  BY DEF ToSet
  <2>2. Good(<<>>)  BY <2>1, OnlyEmpty
  <2>3. QED  BY <2>1, <2>2
<1>2. ASSUME NEW t \in Seq(S), NEW e \in S, t \in G PROVE Append(t, e) \in G
  <2> DEFINE a == Append(t, e)
             o == Only(t, Q)
  <2>1. a \in Seq(S) /\ o \in Seq(S) /\ Good(t)  BY <1>2, OnlyAppend
  <2>2. Only(a, Q) = IF e \in Q THEN Append(o, e) ELSE o
    BY OnlyAppend
  <2>3. \A u \in Seq(S) : ToSet(Append(u, e)) = ToSet(u) \cup {e} /\ Len(Append(u, e)) = Len(u) + 1
    <3> SUFFICES ASSUME NEW u \in Seq(S)
                 PROVE  ToSet(Append(u, e)) = ToSet(u) \cup {e} /\ Len(Append(u, e)) = Len(u) + 1
      OBVIOUS
    <3>1. /\ Len(u) \in Nat /\ DOMAIN u = 1..Len(u) /\ DOMAIN Append(u, e) = 1..(Len(u) + 1)
          /\ \A i \in 1..Len(u) : Append(u, e)[i] = u[i]
          /\ Append(u, e)[Len(u) + 1] = e
          /\ Len(Append(u, e)) = Len(u) + 1
      OBVIOUS
    <3>2. 1..(Len(u) + 1) = 1..Len(u) \cup {Len(u) + 1}  BY <3>1
    <3>3. QED  BY <3>1, <3>2 DEF ToSet
  <2>4. /\ ToSet(a) = ToSet(t) \cup {e} /\ Len(a) = Len(t) + 1
        /\ ToSet(Append(o, e)) = ToSet(o) \cup {e} /\ Len(Append(o, e)) = Len(o) + 1
        /\ Len(t) \in Nat /\ Len(o) \in Nat
    BY <2>1, <2>3
  <2>5. a = Append(t, e)  OBVIOUS
  <2> HIDE DEF a, o
  <2>6. Good(a)
    <3>1. CASE e \in Q  BY <2>1, <2>2, <2>4, <2>5, <3>1 DEF o
    <3>2. CASE e \notin Q  BY <2>1, <2>2, <2>4, <3>2 DEF o
    <3>3. QED  BY <3>1, <3>2
  <2>7. QED  BY <2>1, <2>6 DEF a
<1> HIDE DEF G
<1>3. \A t \in Seq(S) : t \in G  BY <1>1, <1>2, SeqInduction
<1>4. QED  BY <1>3 DEF G

\* A list without repetitions has none when elements are dropped.
LEMMA OnlyOnce ==
  ASSUME NEW S, NEW s \in Seq(S), NEW Q, \A i, j \in DOMAIN s : s[i] = s[j] => i = j
  PROVE  \A i, j \in DOMAIN Only(s, Q) : Only(s, Q)[i] = Only(s, Q)[j] => i = j
<1> DEFINE Once(t) == \A i, j \in DOMAIN t : t[i] = t[j] => i = j
           G == {t \in Seq(S) : Once(t) => Once(Only(t, Q))}
           none == <<>>
<1>1. <<>> \in G
  <2>1. none \in Seq(S) /\ DOMAIN none = {} /\ Only(none, Q) = none  BY OnlyEmpty
  <2> HIDE DEF none
  <2>2. Once(Only(none, Q))  BY <2>1
  <2>3. QED  BY <2>1, <2>2 DEF none
<1>2. ASSUME NEW t \in Seq(S), NEW e \in S, t \in G PROVE Append(t, e) \in G
  <2> DEFINE a == Append(t, e)
             o == Only(t, Q)
             x == Append(o, e)
  <2>1. /\ a \in Seq(S) /\ Len(t) \in Nat
        /\ DOMAIN t = 1..Len(t) /\ DOMAIN a = 1..(Len(t) + 1)
        /\ a[Len(t) + 1] = e /\ \A i \in 1..Len(t) : a[i] = t[i]
    OBVIOUS
  <2>2. o \in Seq(S) /\ Only(a, Q) = IF e \in Q THEN x ELSE o
    BY ONLY OnlyAppend, t \in Seq(S), e \in S
  <2>3. ToSet(o) = ToSet(t) \cap Q  BY OnlyElements
  <2>4. /\ Len(o) \in Nat /\ DOMAIN o = 1..Len(o) /\ DOMAIN x = 1..(Len(o) + 1)
        /\ x[Len(o) + 1] = e /\ \A i \in 1..Len(o) : x[i] = o[i]
    BY <2>2
  <2> SUFFICES ASSUME Once(a) PROVE Once(Only(a, Q))  BY <2>1
  <2> HIDE DEF a, o, x
  <2>5. Once(t)
    <3> SUFFICES ASSUME NEW i \in DOMAIN t, NEW j \in DOMAIN t, t[i] = t[j] PROVE i = j  OBVIOUS
    <3>1. i \in DOMAIN a /\ j \in DOMAIN a /\ a[i] = a[j]  BY <2>1
    <3>2. QED  BY <3>1
  <2>6. Once(o)  BY <1>2, <2>5 DEF o
  <2>7. ASSUME NEW i \in DOMAIN t PROVE t[i] # e
    <3>1. i \in DOMAIN a /\ Len(t) + 1 \in DOMAIN a /\ i # Len(t) + 1  BY <2>1
    <3>2. a[i] # a[Len(t) + 1]  BY <3>1
    <3>3. QED  BY <2>1, <3>2
  <2>8. ASSUME NEW i \in DOMAIN o PROVE o[i] # e
    <3>1. o[i] \in ToSet(t)  BY <2>3 DEF ToSet
    <3>2. QED  BY <2>7, <3>1 DEF ToSet
  <2>9. Once(x)
    <3> SUFFICES ASSUME NEW i \in DOMAIN x, NEW j \in DOMAIN x, x[i] = x[j] PROVE i = j  OBVIOUS
    <3>1. (i \in DOMAIN o \/ i = Len(o) + 1) /\ (j \in DOMAIN o \/ j = Len(o) + 1)  BY <2>4
    <3>2. CASE i \in DOMAIN o /\ j \in DOMAIN o  BY <2>4, <2>6, <3>2
    <3>3. CASE i \in DOMAIN o /\ j = Len(o) + 1  BY <2>4, <2>8, <3>3
    <3>4. CASE i = Len(o) + 1 /\ j \in DOMAIN o  BY <2>4, <2>8, <3>4
    <3>5. CASE i = Len(o) + 1 /\ j = Len(o) + 1  BY <3>5
    <3>6. QED  BY <3>1, <3>2, <3>3, <3>4, <3>5
  <2>10. QED  BY <2>2, <2>6, <2>9
<1> HIDE DEF G
<1>3. s \in G  BY <1>1, <1>2, SeqInduction
<1>4. QED  BY <1>3 DEF G

\* Dropping elements of a sequence leaves a sequence.
LEMMA OnlyTypes ==
  ASSUME NEW S, NEW s \in Seq(S), NEW Q
  PROVE  Only(s, Q) \in Seq(S)
<1>1. CASE S = {}
  <2>1. s = <<>>  BY <1>1
  <2>2. Only(s, Q) = <<>>  BY <2>1, OnlyEmpty
  <2>3. QED  BY <2>2
<1>2. CASE S # {}
  <2>1. PICK e \in S : TRUE  BY <1>2
  <2>2. QED  BY <2>1, OnlyAppend
<1>3. QED  BY <1>1, <1>2

\* Only looks at nothing but the elements it keeps.
LEMMA OnlySame ==
  ASSUME NEW s, NEW t, NEW P, NEW Q, DOMAIN s = DOMAIN t,
         \A i \in DOMAIN s : /\ s[i] \in P <=> t[i] \in Q
                             /\ s[i] \in P => s[i] = t[i]
  PROVE  Only(s, P) = Only(t, Q)
<1>1. \A i \in DOMAIN s : (IF s[i] \in P THEN <<s[i]>> ELSE <<>>) =
                          (IF t[i] \in Q THEN <<t[i]>> ELSE <<>>)
  OBVIOUS
<1>2. [i \in DOMAIN s |-> IF s[i] \in P THEN <<s[i]>> ELSE <<>>] =
      [i \in DOMAIN t |-> IF t[i] \in Q THEN <<t[i]>> ELSE <<>>]
  BY <1>1
<1>3. QED  BY <1>2 DEF Only

-----------------------------------------------------------------------------
(***************************************************************************)
(* FoldLeft goes down the sets of positions, from the last position.       *)
(***************************************************************************)
\* f folds F over the subsets of 1..n, from the smallest number up: the function
\* FoldLeft is defined by.
Folds(n, base, F, f) ==
  f = [s \in SUBSET (1..n) |-> IF s = {} THEN base ELSE F[Max(s)][f[s \ {Max(s)}]]]

\* A set of numbers up to n + 1 that has n + 1 has it as its maximum.
LEMMA TopOfInterval ==
  ASSUME NEW n \in Nat, NEW s \in SUBSET (1..(n + 1)), n + 1 \in s
  PROVE  Max(s) = n + 1
<1>1. \A y \in s : n + 1 >= y  OBVIOUS
<1>2. \A x \in s : (\A y \in s : x >= y) => x = n + 1  OBVIOUS
<1>3. QED  BY <1>1, <1>2 DEF Max

\* The maximum of 1..k is k, and without it 1..(k - 1) is left.
LEMMA TopOfPrefix ==
  ASSUME NEW n \in Nat, NEW k \in 1..n
  PROVE  /\ 1..k \in SUBSET (1..n) /\ 1..k # {}
         /\ Max(1..k) = k /\ (1..k) \ {k} = 1..(k - 1)
<1> DEFINE m == k - 1
           s == 1..k
<1>1. k \in Nat /\ k >= 1 /\ k <= n  OBVIOUS
<1>2. m \in Nat /\ m + 1 = k  BY <1>1
<1>3. s \in SUBSET (1..n) /\ k \in s  BY <1>1
<1>4. s \in SUBSET (1..(m + 1)) /\ m + 1 \in s  BY <1>2, <1>3
<1>5. s \ {k} = 1..(k - 1)  BY <1>1
<1> HIDE DEF m, s
<1>6. Max(s) = m + 1  BY <1>2, <1>4, TopOfInterval
<1>7. s # {}  BY <1>3
<1>8. QED  BY <1>2, <1>3, <1>5, <1>6, <1>7 DEF s

\* A set of numbers up to n that is not empty has its maximum in it.
LEMMA MaxOfSome ==
  ASSUME NEW n \in Nat, NEW s \in SUBSET (1..n), s # {}
  PROVE  Max(s) \in s
<1> DEFINE T == {m \in Nat : \A t \in SUBSET (1..m) : t # {} => Max(t) \in t}
<1>1. 0 \in T
  <2>1. \A t \in SUBSET (1..0) : t = {}  OBVIOUS
  <2>2. QED  BY <2>1
<1>2. ASSUME NEW m \in Nat, m \in T PROVE m + 1 \in T
  <2> SUFFICES ASSUME NEW t \in SUBSET (1..(m + 1)), t # {} PROVE Max(t) \in t  OBVIOUS
  <2>1. CASE m + 1 \in t  BY <2>1, TopOfInterval
  <2>2. CASE m + 1 \notin t
    <3>1. t \in SUBSET (1..m)  BY <2>2
    <3>2. QED  BY <3>1, <1>2
  <2>3. QED  BY <2>1, <2>2
<1> HIDE DEF T
<1>3. \A m \in Nat : m \in T  BY <1>1, <1>2, Induction
<1>4. QED  BY <1>3 DEF T

\* A fold over the subsets of 1..n exists.
LEMMA FoldsExist ==
  ASSUME NEW n \in Nat, NEW base, NEW F
  PROVE  \E f : Folds(n, base, F, f)
<1> DEFINE T == {m \in Nat : \E f : Folds(m, base, F, f)}
<1>1. 0 \in T
  <2>1. SUBSET (1..0) = {{}}  OBVIOUS
  <2>2. Folds(0, base, F, [s \in SUBSET (1..0) |-> base])  BY <2>1 DEF Folds
  <2>3. QED  BY <2>2
<1>2. ASSUME NEW m \in Nat, m \in T PROVE m + 1 \in T
  <2>1. PICK f : Folds(m, base, F, f)  BY <1>2
  <2> DEFINE g == [s \in SUBSET (1..(m + 1)) |->
                     IF m + 1 \in s THEN F[m + 1][f[s \ {m + 1}]] ELSE f[s]]
  <2>2. ASSUME NEW s \in SUBSET (1..(m + 1))
        PROVE  g[s] = IF s = {} THEN base ELSE F[Max(s)][g[s \ {Max(s)}]]
    <3>1. CASE m + 1 \in s
      <4>1. Max(s) = m + 1  BY <3>1, TopOfInterval
      <4>2. s \ {m + 1} \in SUBSET (1..(m + 1)) /\ m + 1 \notin s \ {m + 1}  OBVIOUS
      <4>3. g[s \ {m + 1}] = f[s \ {m + 1}]  BY <4>2
      <4>4. g[s] = F[m + 1][f[s \ {m + 1}]] /\ s # {}  BY <3>1
      <4>5. QED  BY <4>1, <4>3, <4>4
    <3>2. CASE m + 1 \notin s
      <4> DEFINE r == s \ {Max(s)}
      <4>1. s \in SUBSET (1..m)  BY <3>2
      <4>2. r \in SUBSET (1..(m + 1)) /\ m + 1 \notin r  BY <3>2
      <4>3. g[r] = f[r] /\ g[s] = f[s]  BY <3>2, <4>2
      <4>4. f[s] = IF s = {} THEN base ELSE F[Max(s)][f[r]]  BY <2>1, <4>1 DEF Folds
      <4>5. QED  BY <4>3, <4>4
    <3>3. QED  BY <3>1, <3>2
  <2>3. Folds(m + 1, base, F, g)  BY <2>2 DEF Folds
  <2> HIDE DEF g
  <2>4. \E h : Folds(m + 1, base, F, h)  BY <2>3
  <2>5. QED  BY <2>4
<1> HIDE DEF T
<1>3. n \in T  BY <1>1, <1>2, Induction
<1>4. QED  BY <1>3 DEF T

\* A fold whose steps stay in a set stays in it.
LEMMA FoldsStay ==
  ASSUME NEW n \in Nat, NEW W, NEW base \in W, NEW F,
         \A i \in 1..n : \A w \in W : F[i][w] \in W,
         NEW f, Folds(n, base, F, f)
  PROVE  \A s \in SUBSET (1..n) : f[s] \in W
<1> DEFINE Below(m) == \A s \in SUBSET (1..n) : s \subseteq 1..m => f[s] \in W
           T == {m \in Nat : Below(m)}
<1>0. ASSUME NEW s \in SUBSET (1..n)
      PROVE  f[s] = IF s = {} THEN base ELSE F[Max(s)][f[s \ {Max(s)}]]
  BY DEF Folds
<1>1. 0 \in T
  <2>1. \A s \in SUBSET (1..n) : s \subseteq 1..0 => s = {}  OBVIOUS
  <2>2. Below(0)  BY <1>0, <2>1
  <2>3. QED  BY <2>2
<1>2. ASSUME NEW m \in Nat, m \in T PROVE m + 1 \in T
  <2> SUFFICES Below(m + 1)  OBVIOUS
  <2> SUFFICES ASSUME NEW s \in SUBSET (1..n), s \subseteq 1..(m + 1) PROVE f[s] \in W
    OBVIOUS
  <2>1. CASE m + 1 \in s
    <3>1. Max(s) = m + 1  BY <2>1, TopOfInterval
    <3>2. s \ {m + 1} \in SUBSET (1..n) /\ s \ {m + 1} \subseteq 1..m  OBVIOUS
    <3>3. f[s \ {m + 1}] \in W  BY <1>2, <3>2
    <3>4. m + 1 \in 1..n  BY <2>1
    <3>5. f[s] = F[m + 1][f[s \ {m + 1}]]  BY <1>0, <2>1, <3>1
    <3>6. QED  BY <3>3, <3>4, <3>5
  <2>2. CASE m + 1 \notin s
    <3>1. s \subseteq 1..m  BY <2>2
    <3>2. QED  BY <1>2, <3>1
  <2>3. QED  BY <2>1, <2>2
<1> HIDE DEF T
<1>3. n \in T  BY <1>1, <1>2, Induction
<1>4. QED  BY <1>3 DEF T

-----------------------------------------------------------------------------
(***************************************************************************)
(* Sorting.                                                                *)
(***************************************************************************)
\* R orders the elements of U, all of them.
TotalOrder(R, U) ==
  /\ \A a \in U : <<a, a>> \notin R
  /\ \A a, b \in U : a = b \/ <<a, b>> \in R \/ <<b, a>> \in R
  /\ \A a, b, c \in U : <<a, b>> \in R /\ <<b, c>> \in R => <<a, c>> \in R

\* A finite set that is not empty has a greatest element.
LEMMA GreatestElement ==
  ASSUME NEW U, NEW R, TotalOrder(R, U), NEW S \in SUBSET U, IsFiniteSet(S), S # {}
  PROVE  \E m \in S : \A x \in S \ {m} : <<x, m>> \in R
<1> DEFINE Has(Q) == \E m \in Q : \A x \in Q \ {m} : <<x, m>> \in R
           T == {n \in Nat : \A Q \in SUBSET U : IsFiniteSet(Q) /\ Cardinality(Q) = n + 1 => Has(Q)}
<1>1. 0 \in T
  <2> SUFFICES ASSUME NEW Q \in SUBSET U, IsFiniteSet(Q), Cardinality(Q) = 0 + 1 PROVE Has(Q)
    OBVIOUS
  <2>1. Cardinality(Q) = 1  OBVIOUS
  <2>2. PICK e : Q = {e}  BY <2>1, FS_Singleton
  <2>3. QED  BY <2>2
<1>2. ASSUME NEW n \in Nat, n \in T PROVE n + 1 \in T
  <2> SUFFICES ASSUME NEW Q \in SUBSET U, IsFiniteSet(Q), Cardinality(Q) = (n + 1) + 1 PROVE Has(Q)
    OBVIOUS
  <2>1. Q # {}  BY FS_EmptySet
  <2>2. PICK e \in Q : TRUE  BY <2>1
  <2> DEFINE P == Q \ {e}
  <2>3. IsFiniteSet(P) /\ Cardinality(P) = Cardinality(Q) - 1  BY <2>2, FS_RemoveElement
  <2>4. P \in SUBSET U /\ Q = P \cup {e} /\ Cardinality(P) = n + 1  BY <2>2, <2>3
  <2> HIDE DEF P
  <2>5. PICK m \in P : \A x \in P \ {m} : <<x, m>> \in R
    <3>1. Has(P)  BY <1>2, <2>3, <2>4
    <3>2. QED  BY <3>1
  <2>6. m \in U /\ e \in U  BY <2>4
  <2>7. CASE <<m, e>> \in R
    <3>1. ASSUME NEW x \in Q \ {e} PROVE <<x, e>> \in R
      <4>1. x \in P /\ x \in U  BY <2>4
      <4>2. x = m \/ <<x, m>> \in R  BY <2>5, <4>1
      <4>3. QED  BY <2>6, <2>7, <4>1, <4>2 DEF TotalOrder
    <3>2. QED  BY <2>2, <3>1
  <2>8. CASE <<m, e>> \notin R
    <3>1. m = e \/ <<e, m>> \in R  BY <2>6, <2>8 DEF TotalOrder
    <3>2. ASSUME NEW x \in Q \ {m} PROVE <<x, m>> \in R
      <4>1. x = e \/ x \in P \ {m}  BY <2>4
      <4>2. QED  BY <2>5, <3>1, <4>1
    <3>3. m \in Q  BY <2>4
    <3>4. QED  BY <3>2, <3>3
  <2>9. QED  BY <2>7, <2>8
<1> HIDE DEF T
<1>3. \A n \in Nat : n \in T  BY <1>1, <1>2, Induction
<1>4. Cardinality(S) \in Nat /\ Cardinality(S) # 0  BY FS_CardinalityType, FS_EmptySet
<1>5. Cardinality(S) - 1 \in T  BY <1>3, <1>4
<1>6. Cardinality(S) = (Cardinality(S) - 1) + 1  BY <1>4
<1>7. Has(S)  BY <1>5, <1>6 DEF T
<1>8. QED  BY <1>7

\* A finite set can be listed in order.
LEMMA SortedListing ==
  ASSUME NEW U, NEW R, TotalOrder(R, U), NEW S \in SUBSET U, IsFiniteSet(S)
  PROVE  \E f \in Bijection(1 .. Cardinality(S), S) :
           \A i, j \in 1 .. Cardinality(S) : i < j => <<f[i], f[j]>> \in R
<1> DEFINE Sorted(f, n) == \A i, j \in 1 .. n : i < j => <<f[i], f[j]>> \in R
           T == {n \in Nat : \A Q \in SUBSET U : IsFiniteSet(Q) /\ Cardinality(Q) = n =>
                                \E f \in Bijection(1 .. n, Q) : Sorted(f, n)}
<1>1. 0 \in T
  <2> SUFFICES ASSUME NEW Q \in SUBSET U, IsFiniteSet(Q), Cardinality(Q) = 0
               PROVE  \E f \in Bijection(1 .. 0, Q) : Sorted(f, 0)
    OBVIOUS
  <2>1. Q = {}  BY FS_EmptySet
  <2> DEFINE f == [i \in 1 .. 0 |-> i]
  <2>2. f \in [1 .. 0 -> Q] /\ (\A a, b \in 1 .. 0 : f[a] = f[b] => a = b)
        /\ \A t \in Q : \E s \in 1 .. 0 : f[s] = t
    BY <2>1
  <2> HIDE DEF f
  <2>3. f \in Bijection(1 .. 0, Q)  BY <2>2, Fun_IsBij
  <2>4. Sorted(f, 0)  OBVIOUS
  <2>5. QED  BY <2>3, <2>4
<1>2. ASSUME NEW n \in Nat, n \in T PROVE n + 1 \in T
  <2> SUFFICES ASSUME NEW Q \in SUBSET U, IsFiniteSet(Q), Cardinality(Q) = n + 1
               PROVE  \E f \in Bijection(1 .. (n + 1), Q) : Sorted(f, n + 1)
    OBVIOUS
  <2>1. Q # {}  BY FS_EmptySet
  <2>2. PICK m \in Q : \A x \in Q \ {m} : <<x, m>> \in R  BY <2>1, GreatestElement
  <2> DEFINE P == Q \ {m}
  <2>3. IsFiniteSet(P) /\ Cardinality(P) = Cardinality(Q) - 1  BY <2>2, FS_RemoveElement
  <2>4. P \in SUBSET U /\ Cardinality(P) = n /\ m \notin P /\ Q = P \cup {m}  BY <2>2, <2>3
  <2>5. \A x \in P : <<x, m>> \in R  BY <2>2
  <2> HIDE DEF P
  <2>6. PICK f \in Bijection(1 .. n, P) : Sorted(f, n)  BY <1>2, <2>3, <2>4
  <2>7. /\ f \in [1 .. n -> P] /\ \A a, b \in 1 .. n : f[a] = f[b] => a = b
        /\ \A t \in P : \E s \in 1 .. n : f[s] = t
    BY <2>6 DEF Bijection, Injection, Surjection, IsInjective
  <2> DEFINE g == [i \in 1 .. (n + 1) |-> IF i = n + 1 THEN m ELSE f[i]]
  <2>8. /\ \A i \in 1 .. n : g[i] = f[i] /\ g[i] \in P
        /\ g[n + 1] = m
        /\ \A i \in 1 .. (n + 1) : i \in 1 .. n \/ i = n + 1
        /\ n + 1 \in 1 .. (n + 1) /\ \A i \in 1 .. n : i \in 1 .. (n + 1)
        /\ g = [i \in 1 .. (n + 1) |-> g[i]]
    BY <2>7
  <2> HIDE DEF g
  <2>9. g \in [1 .. (n + 1) -> Q]
    <3>1. \A i \in 1 .. (n + 1) : g[i] \in Q  BY <2>4, <2>8
    <3>2. QED  BY <2>8, <3>1
  <2>10. ASSUME NEW a \in 1 .. (n + 1), NEW b \in 1 .. (n + 1), g[a] = g[b] PROVE a = b
    <3>1. CASE a \in 1 .. n /\ b \in 1 .. n  BY <2>7, <2>8, <2>10, <3>1
    <3>2. CASE a = n + 1 \/ b = n + 1  BY <2>4, <2>8, <2>10, <3>2
    <3>3. QED  BY <2>8, <3>1, <3>2
  <2>11. \A t \in Q : \E s \in 1 .. (n + 1) : g[s] = t  BY <2>4, <2>7, <2>8
  <2>12. g \in Bijection(1 .. (n + 1), Q)  BY <2>9, <2>10, <2>11, Fun_IsBij
  <2>13. Sorted(g, n + 1)
    <3> SUFFICES ASSUME NEW i \in 1 .. (n + 1), NEW j \in 1 .. (n + 1), i < j
                 PROVE  <<g[i], g[j]>> \in R
      OBVIOUS
    <3>1. i \in 1 .. n /\ (j \in 1 .. n \/ j = n + 1)  OBVIOUS
    <3>2. CASE j \in 1 .. n
      <4>1. <<f[i], f[j]>> \in R  BY <2>6, <3>1, <3>2
      <4>2. QED  BY <2>8, <3>1, <3>2, <4>1
    <3>3. CASE j = n + 1  BY <2>5, <2>8, <3>1, <3>3
    <3>4. QED  BY <3>1, <3>2, <3>3
  <2>14. QED  BY <2>12, <2>13
<1> HIDE DEF T
<1>3. \A n \in Nat : n \in T  BY <1>1, <1>2, Induction
<1>4. Cardinality(S) \in T  BY <1>3, FS_CardinalityType
<1>5. \E f \in Bijection(1 .. Cardinality(S), S) : Sorted(f, Cardinality(S))  BY <1>4 DEF T
<1>6. QED  BY <1>5

-----------------------------------------------------------------------------
(***************************************************************************)
(* Sequences joined.                                                       *)
(***************************************************************************)
\* Every element and every later one are a pair of D.
Apart(s, D) == \A i, j \in DOMAIN s : i < j => <<s[i], s[j]>> \in D

\* What two sequences joined have in them.
LEMMA JoinedElements ==
  ASSUME NEW S, NEW a \in Seq(S), NEW b \in Seq(S), NEW D,
         NEW c, c = a \o b
  PROVE  /\ c \in Seq(S)
         /\ ToSet(c) = ToSet(a) \cup ToSet(b)
         /\ Apart(a, D) /\ Apart(b, D) /\ (\A x \in ToSet(a), y \in ToSet(b) : <<x, y>> \in D)
              => Apart(c, D)
<1> DEFINE m == Len(a)
           n == Len(b)
<1>1. /\ m \in Nat /\ n \in Nat /\ c \in Seq(S)
      /\ DOMAIN a = 1..m /\ DOMAIN b = 1..n /\ DOMAIN c = 1..(m + n)
      /\ \A i \in 1..m : c[i] = a[i]
      /\ \A i \in 1..n : c[m + i] = b[i]
  OBVIOUS
<1> HIDE DEF m, n
<1>2. \A i \in 1..(m + n) : i \in 1..m \/ (i - m \in 1..n /\ i = m + (i - m))  BY <1>1
<1>3. \A i \in 1..m : i \in 1..(m + n)  BY <1>1
<1>4. \A i \in 1..n : m + i \in 1..(m + n)  BY <1>1
<1>5. ToSet(c) = ToSet(a) \cup ToSet(b)
  <2>1. ASSUME NEW i \in DOMAIN c PROVE c[i] \in ToSet(a) \cup ToSet(b)
    <3>1. CASE i \in 1..m  BY <1>1, <3>1 DEF ToSet
    <3>2. CASE i - m \in 1..n /\ i = m + (i - m)
      <4>1. c[i] = b[i - m]  BY <1>1, <3>2
      <4>2. QED  BY <1>1, <3>2, <4>1 DEF ToSet
    <3>3. QED  BY <1>1, <1>2, <3>1, <3>2
  <2>2. \A i \in DOMAIN a : a[i] \in ToSet(c)  BY <1>1, <1>3 DEF ToSet
  <2>3. \A i \in DOMAIN b : b[i] \in ToSet(c)  BY <1>1, <1>4 DEF ToSet
  <2>4. ASSUME NEW x \in ToSet(c) PROVE x \in ToSet(a) \cup ToSet(b)
    <3>1. PICK i \in DOMAIN c : x = c[i]  BY DEF ToSet
    <3>2. QED  BY <2>1, <3>1
  <2>5. ASSUME NEW x \in ToSet(a) PROVE x \in ToSet(c)
    <3>1. PICK i \in DOMAIN a : x = a[i]  BY DEF ToSet
    <3>2. QED  BY <2>2, <3>1
  <2>6. ASSUME NEW x \in ToSet(b) PROVE x \in ToSet(c)
    <3>1. PICK i \in DOMAIN b : x = b[i]  BY DEF ToSet
    <3>2. QED  BY <2>3, <3>1
  <2>7. QED  BY <2>4, <2>5, <2>6
<1>6. ASSUME Apart(a, D), Apart(b, D), \A x \in ToSet(a), y \in ToSet(b) : <<x, y>> \in D
      PROVE  Apart(c, D)
  <2> SUFFICES ASSUME NEW i \in 1..(m + n), NEW j \in 1..(m + n), i < j PROVE <<c[i], c[j]>> \in D
    BY <1>1 DEF Apart
  <2>1. CASE i \in 1..m /\ j \in 1..m
    <3>1. <<a[i], a[j]>> \in D  BY <1>1, <1>6, <2>1 DEF Apart
    <3>2. QED  BY <1>1, <2>1, <3>1
  <2>2. CASE i \in 1..m /\ j - m \in 1..n /\ j = m + (j - m)
    <3>1. c[j] = b[j - m] /\ c[i] = a[i]  BY <1>1, <2>2
    <3>2. a[i] \in ToSet(a) /\ b[j - m] \in ToSet(b)  BY <1>1, <2>2 DEF ToSet
    <3>3. QED  BY <1>6, <3>1, <3>2
  <2>3. CASE i - m \in 1..n /\ i = m + (i - m) /\ j - m \in 1..n /\ j = m + (j - m)
    <3>1. c[j] = b[j - m] /\ c[i] = b[i - m]  BY <1>1, <2>3
    <3>2. i - m < j - m  BY <1>1
    <3>3. <<b[i - m], b[j - m]>> \in D  BY <1>1, <1>6, <2>3, <3>2 DEF Apart
    <3>4. QED  BY <3>1, <3>3
  <2>4. ~(i - m \in 1..n /\ j \in 1..m)  BY <1>1
  <2>5. QED  BY <1>2, <2>1, <2>2, <2>3, <2>4
<1>7. QED  BY <1>1, <1>5, <1>6

\* What many sequences joined have in them.
LEMMA FlattenElements ==
  ASSUME NEW S, NEW ss \in Seq(Seq(S)), NEW D
  PROVE  /\ FlattenSeq(ss) \in Seq(S)
         /\ ToSet(FlattenSeq(ss)) = UNION {ToSet(ss[i]) : i \in DOMAIN ss}
         /\ /\ \A i \in DOMAIN ss : Apart(ss[i], D)
            /\ \A i, j \in DOMAIN ss : i < j =>
                 \A x \in ToSet(ss[i]), y \in ToSet(ss[j]) : <<x, y>> \in D
            => Apart(FlattenSeq(ss), D)
<1> DEFINE AllApart(tt) ==
             /\ \A i \in DOMAIN tt : Apart(tt[i], D)
             /\ \A i, j \in DOMAIN tt : i < j =>
                  \A x \in ToSet(tt[i]), y \in ToSet(tt[j]) : <<x, y>> \in D
           Good(tt) ==
             /\ FlattenSeq(tt) \in Seq(S)
             /\ ToSet(FlattenSeq(tt)) = UNION {ToSet(tt[i]) : i \in DOMAIN tt}
             /\ AllApart(tt) => Apart(FlattenSeq(tt), D)
           G == {tt \in Seq(Seq(S)) : Good(tt)}
           none == <<>>
<1>1. <<>> \in G
  <2>1. none \in Seq(Seq(S)) /\ none \in Seq(S) /\ DOMAIN none = {}  OBVIOUS
  <2>2. FlattenSeq(none) = none  BY FlattenEmpty
  <2> HIDE DEF none
  <2>3. Good(none)  BY <2>1, <2>2 DEF ToSet, Apart
  <2>4. QED  BY <2>1, <2>3 DEF none
<1>2. ASSUME NEW tt \in Seq(Seq(S)), NEW s \in Seq(S), tt \in G PROVE Append(tt, s) \in G
  <2> DEFINE now == Append(tt, s)
             flat == FlattenSeq(tt)
  <2>1. /\ now \in Seq(Seq(S)) /\ Len(tt) \in Nat
        /\ DOMAIN tt = 1..Len(tt) /\ DOMAIN now = 1..(Len(tt) + 1)
        /\ now[Len(tt) + 1] = s
        /\ \A i \in 1..Len(tt) : now[i] = tt[i]
    OBVIOUS
  <2>2. FlattenSeq(now) = flat \o s  BY FlattenAppend
  <2>3. Good(tt)  BY <1>2
  <2>4. flat \in Seq(S) /\ ToSet(flat) = UNION {ToSet(tt[i]) : i \in DOMAIN tt}  BY <2>3
  <2> HIDE DEF now, flat
  <2>5. /\ FlattenSeq(now) \in Seq(S)
        /\ ToSet(FlattenSeq(now)) = ToSet(flat) \cup ToSet(s)
        /\ Apart(flat, D) /\ Apart(s, D) /\ (\A x \in ToSet(flat), y \in ToSet(s) : <<x, y>> \in D)
             => Apart(FlattenSeq(now), D)
    <3>1. \A u \in Seq(S), v \in Seq(S) : \A E, c : c = u \o v =>
             /\ c \in Seq(S)
             /\ ToSet(c) = ToSet(u) \cup ToSet(v)
             /\ Apart(u, E) /\ Apart(v, E) /\ (\A x \in ToSet(u), y \in ToSet(v) : <<x, y>> \in E)
                  => Apart(c, E)
      BY JoinedElements
    <3>2. QED  BY <2>2, <2>4, <3>1
  <2>6. /\ \A i \in DOMAIN now : i \in DOMAIN tt \/ i = Len(tt) + 1
        /\ Len(tt) + 1 \in DOMAIN now
        /\ \A i \in DOMAIN tt : i \in DOMAIN now /\ now[i] = tt[i] /\ i < Len(tt) + 1
    BY <2>1
  <2>7. (UNION {ToSet(now[i]) : i \in DOMAIN now}) = (UNION {ToSet(tt[i]) : i \in DOMAIN tt}) \cup ToSet(s)
    <3>1. ASSUME NEW x PROVE x \in UNION {ToSet(now[i]) : i \in DOMAIN now} <=>
                             \E i \in DOMAIN now : x \in ToSet(now[i])
      OBVIOUS
    <3>2. ASSUME NEW x PROVE x \in UNION {ToSet(tt[i]) : i \in DOMAIN tt} <=>
                             \E i \in DOMAIN tt : x \in ToSet(tt[i])
      OBVIOUS
    <3>3. ASSUME NEW x PROVE (\E i \in DOMAIN now : x \in ToSet(now[i])) <=>
                             (\E i \in DOMAIN tt : x \in ToSet(tt[i])) \/ x \in ToSet(s)
      BY <2>1, <2>6
    <3>4. QED  BY <3>1, <3>2, <3>3
  <2>8. ASSUME AllApart(now) PROVE Apart(FlattenSeq(now), D)
    <3>1. \A i \in DOMAIN tt : Apart(tt[i], D)  BY <2>6, <2>8
    <3>2. \A i, j \in DOMAIN tt : i < j => \A x \in ToSet(tt[i]), y \in ToSet(tt[j]) : <<x, y>> \in D
      BY <2>6, <2>8
    <3>3. Apart(flat, D)  BY <2>3, <3>1, <3>2 DEF flat
    <3>4. Apart(s, D)  BY <2>1, <2>6, <2>8
    <3>5. \A i \in DOMAIN tt : \A x \in ToSet(tt[i]), y \in ToSet(s) : <<x, y>> \in D
      BY <2>1, <2>6, <2>8
    <3>6. \A x \in ToSet(flat), y \in ToSet(s) : <<x, y>> \in D  BY <2>4, <3>5
    <3>7. QED  BY <2>5, <3>3, <3>4, <3>6
  <2>9. Good(now)  BY <2>4, <2>5, <2>7, <2>8
  <2>10. QED  BY <2>1, <2>9 DEF now
<1> HIDE DEF G
<1>3. \A tt \in Seq(Seq(S)) : tt \in G  BY <1>1, <1>2, SeqInduction
<1>4. QED  BY <1>3 DEF G

-----------------------------------------------------------------------------
(***************************************************************************)
(* Sequences rearranged.                                                   *)
(***************************************************************************)
\* As many numbers as the last one says.
LEMMA CountTo ==
  ASSUME NEW n \in Nat
  PROVE  IsFiniteSet(1 .. n) /\ Cardinality(1 .. n) = n
<1>1. 1 \in Int /\ n \in Int  OBVIOUS
<1>2. IsFiniteSet(1 .. n) /\ Cardinality(1 .. n) = (IF 1 > n THEN 0 ELSE n - 1 + 1)
  <2>1. \A a, b \in Int : /\ IsFiniteSet(a .. b)
                          /\ Cardinality(a .. b) = IF a > b THEN 0 ELSE b - a + 1
    BY FS_Interval, Zenon
  <2>. QED  BY <1>1, <2>1, Zenon
<1> DEFINE size == IF 1 > n THEN 0 ELSE n - 1 + 1
<1>3. IsFiniteSet(1 .. n) /\ Cardinality(1 .. n) = size  BY <1>2
<1>4. size = n  OBVIOUS
<1> HIDE DEF size
<1>5. QED  BY <1>3, <1>4, Zenon

\* A rearrangement has the same elements, and two of it are two of the sequence.
LEMMA Rearranged ==
  ASSUME NEW S, NEW s \in Seq(S), NEW t \in Rearrangements(s)
  PROVE  /\ t \in Seq(S) /\ Len(t) = Len(s) /\ ToSet(t) = ToSet(s)
         /\ \A i, j \in DOMAIN t : i # j =>
              \E k, l \in DOMAIN s : k # l /\ t[i] = s[k] /\ t[j] = s[l]
<1> DEFINE D == DOMAIN s
<1>1. PICK p \in Bijection(D, D) : t = [i \in D |-> s[p[i]]]
  BY DEF Rearrangements
<1>2. /\ p \in [D -> D]
      /\ \A i, j \in D : i # j => p[i] # p[j]
      /\ \A k \in D : \E i \in D : p[i] = k
  BY <1>1 DEF Bijection, Injection, Surjection, IsInjective
<1>3. D = 1 .. Len(s) /\ Len(s) \in Nat /\ \A i \in D : s[i] \in S  OBVIOUS
<1>4. DOMAIN t = D /\ \A i \in D : t[i] = s[p[i]]  BY <1>1
<1> HIDE DEF D
<1>5. t \in [1 .. Len(s) -> S]  BY <1>1, <1>2, <1>3
<1>6. t \in Seq(S) /\ Len(t) = Len(s)  BY <1>3, <1>5
<1>7. ToSet(t) = ToSet(s)
  <2>1. ASSUME NEW x \in ToSet(t) PROVE x \in ToSet(s)
    <3>1. PICK i \in D : x = t[i]  BY <1>4 DEF ToSet
    <3>2. QED  BY <1>2, <1>4, <3>1 DEF ToSet, D
  <2>2. ASSUME NEW x \in ToSet(s) PROVE x \in ToSet(t)
    <3>1. PICK k \in D : x = s[k]  BY DEF ToSet, D
    <3>2. PICK i \in D : p[i] = k  BY <1>2
    <3>3. QED  BY <1>4, <3>1, <3>2 DEF ToSet
  <2>3. QED  BY <2>1, <2>2
<1>8. ASSUME NEW i \in DOMAIN t, NEW j \in DOMAIN t, i # j
      PROVE  \E k, l \in DOMAIN s : k # l /\ t[i] = s[k] /\ t[j] = s[l]
  BY <1>2, <1>4, <1>8 DEF D
<1>9. QED  BY <1>6, <1>7, <1>8

\* A sequence whose elements D orders can be put in order.
LEMMA Sortable ==
  ASSUME NEW S, NEW s \in Seq(S), NEW D,
         TotalOrder({p \in (DOMAIN s) \X (DOMAIN s) : <<s[p[1]], s[p[2]]>> \in D}, DOMAIN s)
  PROVE  \E t \in Rearrangements(s) : Apart(t, D)
<1> DEFINE n == Len(s)
           R == {p \in (DOMAIN s) \X (DOMAIN s) : <<s[p[1]], s[p[2]]>> \in D}
           U == DOMAIN s
<1>1. n \in Nat /\ U = 1 .. n  OBVIOUS
<1>2. \A i, j \in U : <<i, j>> \in R => <<s[i], s[j]>> \in D  OBVIOUS
<1>3. TotalOrder(R, U)  OBVIOUS
<1> HIDE DEF R
<1>4. IsFiniteSet(U) /\ Cardinality(U) = n
  <2> HIDE DEF U, n
  <2>1. IsFiniteSet(1 .. n) /\ Cardinality(1 .. n) = n  BY <1>1, CountTo
  <2>2. QED  BY <1>1, <2>1
<1> HIDE DEF U, n
<1>5. PICK f \in Bijection(1 .. n, U) : \A i, j \in 1 .. n : i < j => <<f[i], f[j]>> \in R
  <2>1. U \in SUBSET U  OBVIOUS
  <2>2. \E f \in Bijection(1 .. Cardinality(U), U) :
           \A i, j \in 1 .. Cardinality(U) : i < j => <<f[i], f[j]>> \in R
    BY <1>3, <1>4, <2>1, SortedListing
  <2>3. QED  BY <1>4, <2>2
<1> DEFINE t == [i \in U |-> s[f[i]]]
<1>6. t \in Rearrangements(s)  BY <1>1, <1>5 DEF Rearrangements, U
<1>7. \A i \in U : f[i] \in U
  BY <1>1, <1>5 DEF Bijection, Injection
<1>8. Apart(t, D)
  <2> SUFFICES ASSUME NEW i \in U, NEW j \in U, i < j PROVE <<t[i], t[j]>> \in D
    BY DEF Apart
  <2>1. <<f[i], f[j]>> \in R  BY <1>1, <1>5
  <2>2. QED  BY <1>2, <1>7, <2>1
<1>9. QED  BY <1>6, <1>8

-----------------------------------------------------------------------------
(***************************************************************************)
(* The lowest of the published ports.                                      *)
(***************************************************************************)
\* What one more port makes of the lowest one so far.
Lowest(lowest, p) ==
  IF p.type # "tcp" \/ p.public = 0 THEN lowest
  ELSE IF lowest = 0 \/ p.public < lowest THEN p.public ELSE lowest

Published(P) == {p.public : p \in {q \in P : q.type = "tcp" /\ q.public # 0}}

\* The loop over the ports keeps the lowest of those it has seen.
LEMMA PortsLoop ==
  ASSUME NEW P, \A p \in P : p.public \in Nat, NEW ports \in Seq(P)
  PROVE  \E f :
           /\ f[0] = 0
           /\ \A k \in 1 .. Len(ports) : f[k] = Lowest(f[k - 1], ports[k])
           /\ lowestPort(ports) = f[Len(ports)]
<1> DEFINE n == Len(ports)
           F == [i \in 1 .. n |-> [w \in Nat |-> Lowest(w, ports[i])]]
           Adds(h) ==
             h = [s \in SUBSET DOMAIN ports |->
                    IF s = {} THEN 0 ELSE Lowest(h[s \ {Max(s)}], ports[Max(s)])]
           it == CHOOSE h : Adds(h)
<1>0. n \in Nat /\ DOMAIN ports = 1 .. n /\ \A i \in 1 .. n : ports[i] \in P  OBVIOUS
<1>1. \A i \in 1 .. n : \A w \in Nat : F[i][w] \in Nat /\ F[i][w] = Lowest(w, ports[i])
  BY <1>0 DEF Lowest
<1> HIDE DEF n, F
<1>2. PICK f : Folds(n, 0, F, f)  BY <1>0, FoldsExist
<1>3. \A s \in SUBSET (1 .. n) : f[s] \in Nat  BY <1>0, <1>1, <1>2, FoldsStay
<1>4. lowestPort(ports) = it[DOMAIN ports]
  BY DEF lowestPort, FoldLeft, MapThenFoldSet, Lowest
<1>5. ASSUME NEW s \in SUBSET (1 .. n)
      PROVE  f[s] = IF s = {} THEN 0 ELSE Lowest(f[s \ {Max(s)}], ports[Max(s)])
  <2>1. f[s] = IF s = {} THEN 0 ELSE F[Max(s)][f[s \ {Max(s)}]]  BY <1>2 DEF Folds
  <2>2. CASE s # {}
    <3>1. Max(s) \in 1 .. n  BY <1>0, <2>2, MaxOfSome
    <3>2. f[s \ {Max(s)}] \in Nat  BY <1>3
    <3>3. QED  BY <1>1, <2>1, <2>2, <3>1, <3>2
  <2>3. QED  BY <2>1, <2>2
<1>6. Adds(it)
  <2>1. f = [s \in SUBSET (1 .. n) |-> f[s]]  BY <1>2 DEF Folds
  <2>2. f = [s \in SUBSET (1 .. n) |->
               IF s = {} THEN 0 ELSE Lowest(f[s \ {Max(s)}], ports[Max(s)])]
    BY <1>5, <2>1
  <2>3. Adds(f)  BY <1>0, <2>2
  <2> HIDE DEF Adds
  <2>4. QED  BY <2>3
<1> HIDE DEF it
<1>7. ASSUME NEW s \in SUBSET (1 .. n)
      PROVE  it[s] = IF s = {} THEN 0 ELSE Lowest(it[s \ {Max(s)}], ports[Max(s)])
  BY <1>0, <1>6
<1> DEFINE at == [k \in 0 .. n |-> it[1 .. k]]
<1> HIDE DEF Adds
<1>8. at[0] = 0
  <2>1. 1 .. 0 \in SUBSET (1 .. n) /\ 1 .. 0 = {} /\ 0 \in 0 .. n  BY <1>0
  <2>2. at[0] = it[1 .. 0]  BY <2>1
  <2>3. QED  BY <1>7, <2>1, <2>2
<1>9. ASSUME NEW k \in 1 .. n PROVE at[k] = Lowest(at[k - 1], ports[k])
  <2>1. k \in 0 .. n /\ k - 1 \in 0 .. n  BY <1>0
  <2>2. /\ 1 .. k \in SUBSET (1 .. n) /\ 1 .. k # {}
        /\ Max(1 .. k) = k /\ (1 .. k) \ {k} = 1 .. (k - 1)
    BY <1>0, TopOfPrefix
  <2>3. it[1 .. k] = Lowest(it[1 .. (k - 1)], ports[k])  BY <1>7, <2>2
  <2>4. at[k] = it[1 .. k] /\ at[k - 1] = it[1 .. (k - 1)]  BY <2>1
  <2>5. QED  BY <2>3, <2>4
<1>10. at[n] = it[DOMAIN ports]  BY <1>0
<1> HIDE DEF at
<1>11. QED  BY <1>4, <1>8, <1>9, <1>10 DEF n

\* lowestPort is the least published one, in whatever order the ports are listed.
LEMMA LowestPort ==
  ASSUME NEW P, \A p \in P : p.public \in Nat, NEW ports \in Seq(P), ToSet(ports) = P
  PROVE  /\ lowestPort(ports) \in Nat
         /\ lowestPort(ports) = IF Published(P) = {} THEN 0 ELSE Min(Published(P))
<1> DEFINE n == Len(ports)
           Seen(k) == Published({ports[i] : i \in 1 .. k})
<1>1. PICK f : /\ f[0] = 0
               /\ \A k \in 1 .. n : f[k] = Lowest(f[k - 1], ports[k])
               /\ lowestPort(ports) = f[n]
  BY PortsLoop
<1>2. n \in Nat /\ DOMAIN ports = 1 .. n /\ \A i \in 1 .. n : ports[i] \in P  OBVIOUS
<1> HIDE DEF n
<1> DEFINE Least(k) ==
             /\ f[k] \in Nat
             /\ f[k] = 0 => Seen(k) = {}
             /\ f[k] # 0 => f[k] \in Seen(k) /\ \A x \in Seen(k) : f[k] <= x
           T == {k \in Nat : k <= n => Least(k)}
<1>3. 0 \in T
  <2>1. Seen(0) = {}  BY DEF Published
  <2>2. Least(0)  BY <1>1, <2>1
  <2>3. QED  BY <2>2
<1>4. ASSUME NEW k \in Nat, k \in T PROVE k + 1 \in T
  <2> SUFFICES ASSUME k + 1 <= n PROVE Least(k + 1)  OBVIOUS
  <2> DEFINE p == ports[k + 1]
             counts == p.type = "tcp" /\ p.public # 0
  <2>1. k + 1 \in 1 .. n /\ Least(k) /\ (k + 1) - 1 = k  BY <1>2, <1>4
  <2>2. f[k + 1] = Lowest(f[k], p)  BY <1>1, <2>1
  <2>3. p.public \in Nat  BY <1>2, <2>1
  <2>4. {ports[i] : i \in 1 .. (k + 1)} = {ports[i] : i \in 1 .. k} \cup {p}
    <3>1. 1 .. (k + 1) = 1 .. k \cup {k + 1}  BY <1>2
    <3>2. QED  BY <3>1
  <2>5. Seen(k + 1) = Seen(k) \cup (IF counts THEN {p.public} ELSE {})
    BY <2>4 DEF Published
  <2>6. Seen(k) \subseteq Nat
    BY <1>2, <2>1 DEF Published
  <2> HIDE DEF p, Seen
  <2>7. CASE counts  BY <2>1, <2>2, <2>3, <2>5, <2>6, <2>7 DEF Lowest
  <2>8. CASE ~counts  BY <2>1, <2>2, <2>5, <2>8 DEF Lowest
  <2>9. QED  BY <2>7, <2>8
<1> HIDE DEF T
<1>5. n \in T  BY <1>2, <1>3, <1>4, Induction
<1>6. Least(n)  BY <1>2, <1>5 DEF T
<1>7. {ports[i] : i \in 1 .. n} = P  BY <1>2 DEF ToSet
<1>8. Seen(n) = Published(P)  BY <1>7
<1>9. Published(P) \in SUBSET Nat  BY DEF Published
<1> HIDE DEF Seen
<1>10. CASE Published(P) = {}  BY <1>1, <1>6, <1>8, <1>10
<1>11. CASE Published(P) # {}
  <2>1. Min(Published(P)) \in Published(P) /\ \A m \in Published(P) : Min(Published(P)) <= m
    BY <1>9, <1>11, MinOfSome
  <2>2. f[n] # 0  BY <1>6, <1>8, <1>11
  <2>3. f[n] = Min(Published(P))  BY <1>6, <1>8, <1>9, <2>1, <2>2
  <2>4. QED  BY <1>1, <1>6, <1>11, <2>3
<1>12. QED  BY <1>10, <1>11
=============================================================================
