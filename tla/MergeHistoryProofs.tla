------------------------- MODULE MergeHistoryProofs -------------------------
(***************************************************************************)
(* Theorems about the life of a dashboard file, for any ids, groups and    *)
(* bodies, any file to start from and any history of runs, edits (copies   *)
(* of managed entries included) and changes in Docker.                     *)
(*                                                                         *)
(* The inductive invariant IInv says that the file is one a parser can     *)
(* return, and that after a run that wrote there is nothing left to merge  *)
(* or to sweep (Settled, in MergeProofs).  The four properties follow.     *)
(* Where humans copy nothing the file stays tidy as well (TInv), and the   *)
(* history implements SyncContract.                                        *)
(***************************************************************************)
EXTENDS MergeHistory, MergeProofs

Names == Groups \cup {NoName}

Changes == [kind : Reported \cup {"removed"}, id : Ids \cup {Absent}, group : Names]

-----------------------------------------------------------------------------
(***************************************************************************)
(* The desired groups.                                                     *)
(***************************************************************************)
\* What HistoryAssumption says of ids, bodies and fingerprints is what a merge needs.
LEMMA ServicesAreProper ==
  ASSUME NEW S \in SUBSET Service
  PROVE  Setting(Names, Entries, Changes, S)
<1>1. ASSUME NEW s \in Service
      PROVE  /\ Proper(s) /\ Rendered(s) \in Entries
             /\ \A kind \in Reported, n \in Names : [kind |-> kind, id |-> s.id, group |-> n] \in Changes
  <2>1. s.id \in Ids /\ s.body \in Bodies  BY DEF Service
  <2>2. s.id # Absent /\ Hash[s.body] # Absent /\ s.body # Unreadable  BY <2>1, HistoryAssumption
  <2>3. Rendered(s) = [comment |-> [kind |-> "marker", id |-> s.id, content |-> Hash[s.body]],
                       body |-> s.body, style |-> "rendered", wrote |-> s.body]
    BY DEF Rendered, buildMarker
  <2>4. [kind |-> "marker", id |-> s.id, content |-> Hash[s.body]] \in Comments
    BY <2>1 DEF Comments
  <2>5. Rendered(s) \in Entries  BY <2>1, <2>3, <2>4 DEF Entries
  <2>6. QED  BY <2>1, <2>2, <2>5 DEF Proper, Changes
<1>2. ASSUME NEW e \in Entries, NEW n \in Names
      PROVE  [kind |-> "removed", id |-> e.comment.id, group |-> n] \in Changes
  <2>1. e.comment.id \in Ids \cup {Absent}  BY DEF Entries, Comments
  <2>2. QED  BY <2>1 DEF Changes
<1>3. QED  BY <1>1, <1>2 DEF Setting

\* GroupServices lists the services, each in its group; DesiredAre says so of any services.
LEMMA DesiredLists ==
  ASSUME NEW now \in ServiceSets, NEW desired, desired = GroupServices(now)
  PROVE  /\ desired \in Seq(Wanted(Names, now))
         /\ DistinctNames(desired)
         /\ Owned(desired)
         /\ \A i \in DOMAIN desired : \A j \in DOMAIN desired[i].services :
              desired[i].services[j] \in now /\ desired[i].services[j].group = desired[i].name
         /\ \A s \in now : \E i \in DOMAIN desired :
              desired[i].name = s.group /\ \E j \in DOMAIN desired[i].services : desired[i].services[j] = s
<1>1. \A s \in now : s \in Service /\ s.group \in Groups /\ s.id \in Ids
  BY DEF ServiceSets, Service
<1>2. Groupable(now, Names)
  <2>1. /\ \A s \in now : s.group \in Names /\ s.group # Absent
        /\ \A s, t \in now : s.id = t.id => s = t
    BY <1>1, HistoryAssumption DEF ServiceSets, Names
  <2>2. Listed(GroupOrder, {s.group : s \in now}) /\ Listed(ServiceOrder, {s.id : s \in now})
    BY <1>1, HistoryAssumption DEF Orders, Listed
  <2>3. QED  BY <2>1, <2>2 DEF Groupable
<1>3. QED  BY <1>2, DesiredAre

-----------------------------------------------------------------------------
(***************************************************************************)
(* The file, through every edit.                                           *)
(***************************************************************************)
Files == Documents(Names, Entries)

-----------------------------------------------------------------------------
(***************************************************************************)
(* Edits that copy nothing.                                                *)
(***************************************************************************)
\* The marker tells what dashsync wrote.
Honest(e) == IsManaged(e) => e.wrote \in Bodies /\ e.comment.content = Hash[e.wrote]

Clean(items) == Once(items) /\ \A j \in DOMAIN items : Honest(items[j])

\* Each name has one group, each id one entry of a group, and markers tell what was written.
Tidy(groups) == NamesApart(groups) /\ \A i \in DOMAIN groups : Clean(groups[i].items)

\* Each managed entry of new is an entry of old, edited or not, and no two are the same one.
Derived(old, new) ==
  \E m \in [DOMAIN new -> Int] :
    /\ \A j \in DOMAIN new : IsManaged(new[j]) =>
         /\ m[j] \in DOMAIN old
         /\ new[j].comment = old[m[j]].comment /\ new[j].wrote = old[m[j]].wrote
    /\ \A j, k \in DOMAIN new : IsManaged(new[j]) /\ IsManaged(new[k]) /\ m[j] = m[k] => j = k

\* Edits that copy nothing leave a list clean.
LEMMA DerivedClean ==
  ASSUME NEW old, NEW new, Clean(old), Derived(old, new)
  PROVE  Clean(new)
<1>1. PICK m \in [DOMAIN new -> Int] :
        /\ \A j \in DOMAIN new : IsManaged(new[j]) =>
             /\ m[j] \in DOMAIN old
             /\ new[j].comment = old[m[j]].comment /\ new[j].wrote = old[m[j]].wrote
        /\ \A j, k \in DOMAIN new : IsManaged(new[j]) /\ IsManaged(new[k]) /\ m[j] = m[k] => j = k
  BY DEF Derived
<1>2. \A j \in DOMAIN new : IsManaged(new[j]) => IsManaged(old[m[j]])  BY <1>1 DEF IsManaged
<1>3. Once(new)
  <2> SUFFICES ASSUME NEW j \in DOMAIN new, NEW k \in DOMAIN new, IsManaged(new[j]), IsManaged(new[k]),
                      new[j].comment.id = new[k].comment.id
               PROVE  j = k
    BY DEF Once
  <2>1. old[m[j]].comment.id = old[m[k]].comment.id  BY <1>1
  <2>2. m[j] = m[k]  BY <1>1, <1>2, <2>1 DEF Clean, Once
  <2>3. QED  BY <1>1, <2>2
<1>4. ASSUME NEW j \in DOMAIN new, IsManaged(new[j])
      PROVE  new[j].wrote \in Bodies /\ new[j].comment.content = Hash[new[j].wrote]
  <2>1. Honest(old[m[j]]) /\ IsManaged(old[m[j]])  BY <1>1, <1>2, <1>4 DEF Clean
  <2>2. new[j].comment = old[m[j]].comment /\ new[j].wrote = old[m[j]].wrote  BY <1>1, <1>4
  <2>3. QED  BY <2>1, <2>2 DEF Honest
<1>5. QED  BY <1>3, <1>4 DEF Clean, Honest

\* An entry edited in place.
Remade(was, e) == IsManaged(e) => e.comment = was.comment /\ e.wrote = was.wrote

\* An entry edited in place derives from what it was ...
LEMMA DerivedReplaced ==
  ASSUME NEW old \in Seq(Entries), NEW j \in DOMAIN old, NEW e \in Entries, Remade(old[j], e)
  PROVE  Derived(old, [old EXCEPT ![j] = e])
<1> DEFINE new == [old EXCEPT ![j] = e]
           m == [k \in DOMAIN new |-> k]
<1>1. DOMAIN new = DOMAIN old /\ new[j] = e /\ \A k \in DOMAIN old : k # j => new[k] = old[k]
  OBVIOUS
<1>2. DOMAIN old \subseteq Int  OBVIOUS
<1> HIDE DEF new
<1>3. m \in [DOMAIN new -> Int] /\ \A k \in DOMAIN new : m[k] = k  BY <1>1, <1>2
<1>4. \A k \in DOMAIN new : IsManaged(new[k]) =>
        m[k] \in DOMAIN old /\ new[k].comment = old[m[k]].comment /\ new[k].wrote = old[m[k]].wrote
  BY <1>1, <1>3 DEF Remade
<1> HIDE DEF m
<1>5. Derived(old, new)  BY <1>3, <1>4 DEF Derived
<1>6. QED  BY <1>5 DEF new

\* One list after the other.
LEMMA Joined ==
  ASSUME NEW a \in Seq(Entries), NEW b \in Seq(Entries), NEW c, c = a \o b,
         NEW n \in Nat, n = Len(a), NEW l \in Nat, l = n + Len(b)
  PROVE  /\ c \in Seq(Entries) /\ DOMAIN c = 1..l /\ Len(c) = l
         /\ \A k \in 1..n : c[k] = a[k]
         /\ \A k \in (n + 1)..l : c[k] = b[k - n]
<1>1. /\ c \in Seq(Entries) /\ Len(c) = l /\ DOMAIN c = 1..l
      /\ \A k \in 1..n : c[k] = a[k]
  OBVIOUS
<1>2. ASSUME NEW k \in (n + 1)..l PROVE c[k] = b[k - n]
  OBVIOUS
<1>3. QED  BY <1>1, <1>2

\* ... as does a list with an entry of a human's own, ...
LEMMA DerivedInserted ==
  ASSUME NEW old \in Seq(Entries), NEW j \in 1..(Len(old) + 1), NEW e \in Entries, ~IsManaged(e)
  PROVE  InsertAt(old, j, e) \in Seq(Entries) /\ Derived(old, InsertAt(old, j, e))
<1> DEFINE new == InsertAt(old, j, e)
           m == [k \in DOMAIN new |-> IF k < j THEN k ELSE k - 1]
           front == SubSeq(old, 1, j - 1)
           back == SubSeq(old, j, Len(old))
           mid == front \o <<e>>
<1>0. Len(old) \in Nat /\ j \in Nat /\ DOMAIN old = 1..Len(old)  OBVIOUS
<1>1. /\ front \in Seq(Entries) /\ Len(front) = j - 1
      /\ \A k \in 1..(j - 1) : front[k] = old[k]
  OBVIOUS
<1>2. /\ back \in Seq(Entries) /\ Len(back) = Len(old) - j + 1
      /\ \A k \in 1..(Len(old) - j + 1) : back[k] = old[k + j - 1]
  OBVIOUS
<1>3. new = mid \o back  BY DEF InsertAt
<1> HIDE DEF front, back, new
<1>4. /\ mid \in Seq(Entries) /\ Len(mid) = j /\ mid[j] = e
      /\ \A k \in 1..(j - 1) : mid[k] = old[k]
  BY <1>1
<1> HIDE DEF mid
<1>5. /\ new \in Seq(Entries) /\ Len(new) = Len(old) + 1 /\ DOMAIN new = 1..(Len(old) + 1)
      /\ \A k \in 1..j : new[k] = mid[k]
      /\ \A k \in (j + 1)..(Len(old) + 1) : new[k] = back[k - j]
  <2> DEFINE l == Len(old) + 1
  <2>1. l \in Nat /\ l = j + Len(back)  BY <1>0, <1>2
  <2> HIDE DEF l
  <2>2. /\ new \in Seq(Entries) /\ DOMAIN new = 1..l /\ Len(new) = l
        /\ \A k \in 1..j : new[k] = mid[k]
        /\ \A k \in (j + 1)..l : new[k] = back[k - j]
    <3>1. mid \in Seq(Entries) /\ back \in Seq(Entries) /\ new = mid \o back /\ j \in Nat /\ j = Len(mid)
      BY <1>0, <1>2, <1>3, <1>4
    <3>2. QED  BY ONLY <2>1, <3>1, Joined
  <2>3. QED  BY <2>2 DEF l
<1>6. /\ \A k \in 1..(j - 1) : new[k] = old[k]
      /\ new[j] = e
      /\ \A k \in (j + 1)..(Len(old) + 1) : new[k] = old[k - 1]
  <2>1. \A k \in (j + 1)..(Len(old) + 1) : k - j \in 1..(Len(old) - j + 1) /\ (k - j) + j - 1 = k - 1
    BY <1>0
  <2>2. QED  BY <1>0, <1>2, <1>4, <1>5, <2>1
<1>7. /\ m \in [DOMAIN new -> Int]
      /\ \A k \in DOMAIN new : m[k] = IF k < j THEN k ELSE k - 1
  BY <1>0, <1>5
<1> HIDE DEF m
<1>8. ASSUME NEW k \in DOMAIN new, IsManaged(new[k])
      PROVE  m[k] \in DOMAIN old /\ new[k] = old[m[k]] /\ k # j
  <2>1. k # j  BY <1>6, <1>8
  <2>2. CASE k < j  BY <1>0, <1>5, <1>6, <1>7, <2>2
  <2>3. CASE k > j  BY <1>0, <1>5, <1>6, <1>7, <2>3
  <2>4. QED  BY <1>0, <1>5, <2>1, <2>2, <2>3
<1>9. ASSUME NEW k \in DOMAIN new, NEW l \in DOMAIN new, k # j, l # j, m[k] = m[l] PROVE k = l
  BY <1>0, <1>5, <1>7, <1>9
<1>10. Derived(old, new)  BY <1>7, <1>8, <1>9 DEF Derived
<1>11. QED  BY <1>5, <1>10 DEF new

\* ... one without one of its entries, ...
LEMMA DerivedRemoved ==
  ASSUME NEW old \in Seq(Entries), NEW j \in DOMAIN old
  PROVE  RemoveAt(old, j) \in Seq(Entries) /\ Derived(old, RemoveAt(old, j))
<1> DEFINE new == RemoveAt(old, j)
           m == [k \in DOMAIN new |-> IF k < j THEN k ELSE k + 1]
           front == SubSeq(old, 1, j - 1)
           back == SubSeq(old, j + 1, Len(old))
<1>0. Len(old) \in Nat /\ j \in 1..Len(old) /\ DOMAIN old = 1..Len(old)  OBVIOUS
<1>1. /\ front \in Seq(Entries) /\ Len(front) = j - 1
      /\ \A k \in 1..(j - 1) : front[k] = old[k]
  BY <1>0
<1>2. /\ back \in Seq(Entries) /\ Len(back) = Len(old) - j
      /\ \A k \in 1..(Len(old) - j) : back[k] = old[k + j]
  BY <1>0
<1>3. new = front \o back  BY DEF RemoveAt
<1> HIDE DEF front, back, new
<1>5. /\ new \in Seq(Entries) /\ DOMAIN new = 1..(Len(old) - 1)
      /\ \A k \in 1..(j - 1) : new[k] = front[k]
      /\ \A k \in j..(Len(old) - 1) : new[k] = back[k - (j - 1)]
  <2> DEFINE n == j - 1
             l == Len(old) - 1
  <2>1. n \in Nat /\ n = Len(front) /\ n + 1 = j  BY <1>0, <1>1
  <2>a. Len(old) - 1 \in Nat /\ Len(old) - 1 = (j - 1) + Len(back)  BY <1>0, <1>2
  <2>b. l \in Nat /\ l = n + Len(back)  BY <2>a
  <2> HIDE DEF n, l
  <2>2. /\ new \in Seq(Entries) /\ DOMAIN new = 1..l
        /\ \A k \in 1..n : new[k] = front[k]
        /\ \A k \in (n + 1)..l : new[k] = back[k - n]
    <3>1. front \in Seq(Entries) /\ back \in Seq(Entries) /\ new = front \o back  BY <1>1, <1>2, <1>3
    <3>2. QED  BY ONLY <2>1, <2>b, <3>1, Joined
  <2>3. QED  BY <2>1, <2>2 DEF n, l
<1>6. /\ \A k \in 1..(j - 1) : new[k] = old[k]
      /\ \A k \in j..(Len(old) - 1) : new[k] = old[k + 1]
  <2>1. \A k \in j..(Len(old) - 1) : k - (j - 1) \in 1..(Len(old) - j) /\ (k - (j - 1)) + j = k + 1
    BY <1>0
  <2>2. QED  BY <1>0, <1>1, <1>2, <1>5, <2>1
<1>7. /\ m \in [DOMAIN new -> Int]
      /\ \A k \in DOMAIN new : m[k] = IF k < j THEN k ELSE k + 1
  BY <1>0, <1>5
<1> HIDE DEF m
<1>8. ASSUME NEW k \in DOMAIN new PROVE m[k] \in DOMAIN old /\ new[k] = old[m[k]]
  <2>1. CASE k < j  BY <1>0, <1>5, <1>6, <1>7, <2>1
  <2>2. CASE k >= j
    <3>1. m[k] = k + 1 /\ k \in j..(Len(old) - 1)  BY <1>0, <1>5, <1>7, <2>2
    <3>2. QED  BY <1>0, <1>6, <3>1
  <2>3. QED  BY <1>0, <1>5, <2>1, <2>2
<1>9. \A k, l \in DOMAIN new : m[k] = m[l] => k = l  BY <1>0, <1>5, <1>7
<1>10. Derived(old, new)  BY <1>7, <1>8, <1>9 DEF Derived
<1>11. QED  BY <1>5, <1>10 DEF new

\* ... and one with two entries swapped.
LEMMA DerivedSwapped ==
  ASSUME NEW old \in Seq(Entries), NEW j \in DOMAIN old, NEW k \in DOMAIN old
  PROVE  /\ [old EXCEPT ![j] = old[k], ![k] = old[j]] \in Seq(Entries)
         /\ Derived(old, [old EXCEPT ![j] = old[k], ![k] = old[j]])
<1> DEFINE x == old[j]
           y == old[k]
           half == [old EXCEPT ![j] = y]
           new == [half EXCEPT ![k] = x]
           m == [l \in DOMAIN new |-> IF l = k THEN j ELSE IF l = j THEN k ELSE l]
<1>1. x \in Entries /\ y \in Entries /\ DOMAIN old \subseteq Int  OBVIOUS
<1>2. new = [old EXCEPT ![j] = old[k], ![k] = old[j]]  OBVIOUS
<1> HIDE DEF x, y
<1>3. /\ half \in Seq(Entries) /\ DOMAIN half = DOMAIN old
      /\ half[j] = y /\ \A l \in DOMAIN old : l # j => half[l] = old[l]
  BY <1>1
<1> HIDE DEF half
<1>4. /\ new \in Seq(Entries) /\ DOMAIN new = DOMAIN old
      /\ new[k] = x /\ \A l \in DOMAIN old : l # k => new[l] = half[l]
  BY <1>1, <1>3
<1> HIDE DEF new
<1>5. m \in [DOMAIN new -> Int] /\ \A l \in DOMAIN new : m[l] = IF l = k THEN j ELSE IF l = j THEN k ELSE l
  BY <1>1, <1>4
<1> HIDE DEF m
<1>6. \A l \in DOMAIN new : m[l] \in DOMAIN old /\ new[l] = old[m[l]]  BY <1>3, <1>4, <1>5 DEF x, y
<1>7. \A l, i \in DOMAIN new : m[l] = m[i] => l = i  BY <1>5
<1>8. Derived(old, new)  BY <1>5, <1>6, <1>7 DEF Derived
<1>9. QED  BY <1>2, <1>4, <1>8

\* A file with one group replaced.
LEMMA GroupReplaced ==
  ASSUME NEW doc \in Files, NEW i \in DOMAIN doc.groups, NEW g \in GroupsOf(Names, Entries),
         NEW now, now = [doc EXCEPT !.groups = [doc.groups EXCEPT ![i] = g]]
  PROVE  /\ now \in Files
         /\ Tidy(doc.groups) /\ g.name = doc.groups[i].name /\ Derived(doc.groups[i].items, g.items)
              => Tidy(now.groups)
<1> DEFINE groups == [doc.groups EXCEPT ![i] = g]
<1>1. doc \in [root : {"blank", "groups", "noKey", "other"}, groups : Seq(GroupsOf(Names, Entries))]
  BY DEF Files, Documents
<1>2. /\ groups \in Seq(GroupsOf(Names, Entries)) /\ DOMAIN groups = DOMAIN doc.groups
      /\ groups[i] = g /\ \A j \in DOMAIN doc.groups : j # i => groups[j] = doc.groups[j]
  BY <1>1
<1> HIDE DEF groups
<1>3. now = [doc EXCEPT !.groups = groups]  BY DEF groups
<1>4. now \in Files /\ now.groups = groups  BY <1>1, <1>2, <1>3 DEF Files, Documents
<1>5. ASSUME Tidy(doc.groups), g.name = doc.groups[i].name, Derived(doc.groups[i].items, g.items)
      PROVE  Tidy(groups)
  <2>1. Clean(g.items)  BY <1>5, DerivedClean DEF Tidy
  <2>2. \A j \in DOMAIN groups : Clean(groups[j].items)  BY <1>2, <1>5, <2>1 DEF Tidy
  <2>3. \A j \in DOMAIN groups : groups[j].name = doc.groups[j].name  BY <1>2, <1>5
  <2>4. NamesApart(groups)  BY <1>2, <1>5, <2>3 DEF Tidy, NamesApart
  <2>5. QED  BY <2>2, <2>4 DEF Tidy
<1>6. QED  BY <1>4, <1>5

\* A file with the items of one list replaced.
LEMMA ItemsReplaced ==
  ASSUME NEW doc \in Files, NEW i \in DOMAIN doc.groups, doc.groups[i].shape = "list",
         NEW items \in Seq(Entries), NEW now, now = [doc EXCEPT !.groups[i].items = items]
  PROVE  /\ now \in Files
         /\ Tidy(doc.groups) /\ Derived(doc.groups[i].items, items) => Tidy(now.groups)
<1> DEFINE g == [doc.groups[i] EXCEPT !.items = items]
<1>1. doc.groups[i] \in GroupsOf(Names, Entries)  BY DEF Files, Documents
<1>2. g \in GroupsOf(Names, Entries) /\ g.name = doc.groups[i].name /\ g.items = items  BY <1>1 DEF GroupsOf
<1>3. now = [doc EXCEPT !.groups = [doc.groups EXCEPT ![i] = g]]
  OBVIOUS
<1> HIDE DEF g
<1>4. QED  BY <1>2, <1>3, GroupReplaced

\* Only a list has an entry to edit.
LEMMA EntryOfList ==
  ASSUME NEW doc \in Files, NEW i \in DOMAIN doc.groups, NEW j \in DOMAIN doc.groups[i].items
  PROVE  /\ doc.groups[i].shape = "list" /\ doc.groups[i].items \in Seq(Entries)
         /\ doc.groups[i].items[j] \in Entries
<1>1. doc.groups[i] \in GroupsOf(Names, Entries)  BY DEF Files, Documents
<1>2. doc.groups[i].items \in Seq(Entries)  BY <1>1 DEF GroupsOf
<1>3. doc.groups[i].items # <<>>  OBVIOUS
<1>4. QED  BY <1>1, <1>2, <1>3 DEF GroupsOf

\* A file with one entry replaced.
LEMMA EntryReplaced ==
  ASSUME NEW doc \in Files, NEW i \in DOMAIN doc.groups, NEW j \in DOMAIN doc.groups[i].items,
         NEW e \in Entries, NEW now, now = [doc EXCEPT !.groups[i].items[j] = e]
  PROVE  /\ now \in Files
         /\ Tidy(doc.groups) /\ Remade(doc.groups[i].items[j], e) => Tidy(now.groups)
<1> DEFINE old == doc.groups[i].items
           items == [old EXCEPT ![j] = e]
<1>1. doc.groups[i].shape = "list" /\ old \in Seq(Entries) /\ j \in DOMAIN old  BY EntryOfList
<1>2. now = [doc EXCEPT !.groups[i].items = items]  OBVIOUS
<1> HIDE DEF old
<1>3. items \in Seq(Entries) /\ (Remade(old[j], e) => Derived(old, items))  BY <1>1, DerivedReplaced
<1> HIDE DEF items
<1>4. now \in Files /\ (Tidy(doc.groups) /\ Derived(old, items) => Tidy(now.groups))
  BY <1>1, <1>2, <1>3, ItemsReplaced DEF old
<1>5. QED  BY <1>3, <1>4 DEF old

\* Whatever humans do to a file, what they save is a file again; and one that is tidy stays
\* tidy while nothing is copied.
LEMMA EditsAreFiles ==
  ASSUME file \in Files, HumanEdits
  PROVE  file' \in Files /\ (~Copies /\ Tidy(file.groups) => Tidy(file'.groups))
<1> DEFINE Good == file' \in Files /\ (~Copies /\ Tidy(file.groups) => Tidy(file'.groups))
<1>1. \A ij \in Place : ij[1] \in DOMAIN file.groups /\ ij[2] \in DOMAIN file.groups[ij[1]].items
  BY DEF Place
<1>2. file = [root |-> file.root, groups |-> file.groups] /\ file.groups \in Seq(GroupsOf(Names, Entries))
  BY DEF Files, Documents
<1>3. ASSUME NEW ij \in Place, NEW e, file' = [file EXCEPT !.groups[ij[1]].items[ij[2]] = e], e \in Entries,
             Remade(file.groups[ij[1]].items[ij[2]], e)
      PROVE  Good
  <2> DEFINE i == ij[1]
             j == ij[2]
  <2>1. i \in DOMAIN file.groups /\ j \in DOMAIN file.groups[i].items  BY <1>1
  <2>2. file' = [file EXCEPT !.groups[i].items[j] = e] /\ Remade(file.groups[i].items[j], e)  BY <1>3
  <2> HIDE DEF i, j
  <2>3. /\ file' \in Files
        /\ Tidy(file.groups) /\ Remade(file.groups[i].items[j], e) => Tidy(file'.groups)
    BY ONLY <1>3, <2>1, <2>2, EntryReplaced, file \in Files
  <2>4. QED  BY <2>2, <2>3
<1>a. ASSUME NEW i \in DOMAIN file.groups, file.groups[i].shape = "list", NEW items \in Seq(Entries),
             Copies \/ Derived(file.groups[i].items, items),
             file' = [file EXCEPT !.groups[i].items = items]
      PROVE  Good
  BY <1>a, ItemsReplaced
<1>4. CASE EditBody
  <2>1. PICK ij \in Place, b \in Bodies \cup {Unreadable} :
          file' = [file EXCEPT !.groups[ij[1]].items[ij[2]].body = b]
    BY <1>4 DEF EditBody, HumanSaves
  <2> DEFINE was == file.groups[ij[1]].items[ij[2]]
             e   == [was EXCEPT !.body = b]
  <2>2. was \in Entries  BY <1>1, EntryOfList
  <2>3. e \in Entries /\ Remade(was, e)  BY <2>2 DEF Entries, Remade
  <2>4. file' = [file EXCEPT !.groups[ij[1]].items[ij[2]] = e]  BY <2>1
  <2> HIDE DEF e
  <2>5. QED  BY ONLY <1>3, <2>3, <2>4
<1>5. CASE Restyle
  <2>1. PICK ij \in Place : file' = [file EXCEPT !.groups[ij[1]].items[ij[2]].style = "own"]
    BY <1>5 DEF Restyle, HumanSaves
  <2> DEFINE was == file.groups[ij[1]].items[ij[2]]
             e   == [was EXCEPT !.style = "own"]
  <2>2. was \in Entries  BY <1>1, EntryOfList
  <2>3. e \in Entries /\ Remade(was, e)  BY <2>2 DEF Entries, Remade
  <2>4. file' = [file EXCEPT !.groups[ij[1]].items[ij[2]] = e]  BY <2>1
  <2> HIDE DEF e
  <2>5. QED  BY ONLY <1>3, <2>3, <2>4
<1>6. CASE ChangeComment
  <2>1. PICK ij \in Place, c \in {NoComment, Note} :
          file' = [file EXCEPT !.groups[ij[1]].items[ij[2]].comment = c]
    BY <1>6, Zenon DEF ChangeComment, HumanSaves
  <2> DEFINE was == file.groups[ij[1]].items[ij[2]]
             e   == [was EXCEPT !.comment = c]
  <2>2. was \in Entries  BY <1>1, EntryOfList
  <2>3. c \in Comments  BY DEF NoComment, Note, Comments
  <2>4. e \in Entries /\ Remade(was, e)
    <3>1. e.comment = c  BY <2>2 DEF Entries
    <3>2. ~IsManaged(e)  BY <3>1 DEF IsManaged, IsMarker, NoComment, Note
    <3>3. QED  BY <2>2, <2>3, <3>2 DEF Entries, Remade
  <2>5. file' = [file EXCEPT !.groups[ij[1]].items[ij[2]] = e]  BY <2>1
  <2> HIDE DEF e
  <2>6. QED  BY ONLY <1>3, <2>4, <2>5
<1>7. CASE DamageMarker
  <2>1. PICK ij \in Place : file' = [file EXCEPT !.groups[ij[1]].items[ij[2]].comment.content = Absent]
    BY <1>7, ZenonT(40) DEF DamageMarker, HumanSaves
  <2> DEFINE was == file.groups[ij[1]].items[ij[2]]
             c   == [was.comment EXCEPT !.content = Absent]
             e   == [was EXCEPT !.comment = c]
  <2>2. was \in Entries  BY <1>1, EntryOfList
  <2>3. c \in Comments
    <3> DEFINE old == was.comment
    <3>1. old \in Comments  BY <2>2 DEF Entries
    <3> HIDE DEF old
    <3>2. [old EXCEPT !.content = Absent] \in Comments  BY <3>1 DEF Comments
    <3>3. QED  BY <3>2 DEF old
  <2>4. file' = [file EXCEPT !.groups[ij[1]].items[ij[2]] = e]  BY <2>1
  <2>a. c.content = Absent
    <3> DEFINE old == was.comment
    <3>1. old \in Comments  BY <2>2 DEF Entries
    <3> HIDE DEF old
    <3>2. [old EXCEPT !.content = Absent].content = Absent  BY <3>1 DEF Comments
    <3>3. QED  BY <3>2 DEF old
  <2> HIDE DEF c
  <2>5. e \in Entries /\ Remade(was, e)
    <3>1. e.comment = c  BY <2>2 DEF Entries
    <3>2. ~IsManaged(e)  BY <2>a, <3>1 DEF IsManaged, IsMarker
    <3>3. QED  BY <2>2, <2>3, <3>2 DEF Entries, Remade
  <2> HIDE DEF e
  <2>6. QED  BY ONLY <1>3, <2>4, <2>5
<1>8. CASE AddOwnEntry
  <2>1. PICK i \in DOMAIN file.groups, b \in Bodies :
          /\ file.groups[i].shape = "list"
          /\ \E j \in 1..(Len(file.groups[i].items) + 1) :
               file' = SetItems(i, InsertAt(file.groups[i].items, j,
                                 [comment |-> NoComment, body |-> b, style |-> "own", wrote |-> Absent]))
    BY <1>8 DEF AddOwnEntry, HumanSaves
  <2>a. PICK j \in 1..(Len(file.groups[i].items) + 1) :
          file' = SetItems(i, InsertAt(file.groups[i].items, j,
                                 [comment |-> NoComment, body |-> b, style |-> "own", wrote |-> Absent]))
    BY <2>1
  <2> DEFINE items == file.groups[i].items
             e     == [comment |-> NoComment, body |-> b, style |-> "own", wrote |-> Absent]
  <2>2. e \in Entries /\ ~IsManaged(e)
    BY DEF Entries, NoComment, Comments, IsManaged, IsMarker
  <2>3. items \in Seq(Entries)  BY <1>2 DEF GroupsOf
  <2> HIDE DEF e, items
  <2>b. j \in 1..(Len(items) + 1)  BY DEF items
  <2>4. InsertAt(items, j, e) \in Seq(Entries) /\ Derived(items, InsertAt(items, j, e))
    BY <2>2, <2>3, <2>b, DerivedInserted
  <2>5. file' = [file EXCEPT !.groups[i].items = InsertAt(items, j, e)]
    BY <2>a DEF SetItems, items, e
  <2> DEFINE now == InsertAt(items, j, e)
  <2> HIDE DEF now
  <2>6. /\ now \in Seq(Entries) /\ Derived(file.groups[i].items, now)
        /\ file' = [file EXCEPT !.groups[i].items = now] /\ file.groups[i].shape = "list"
    BY <2>1, <2>4, <2>5 DEF now, items
  <2>7. QED  BY ONLY <1>a, <2>6
<1>9. CASE DeleteEntry
  <2>1. PICK ij \in Place :
          file' = SetItems(ij[1], RemoveAt(file.groups[ij[1]].items, ij[2]))
    BY <1>9 DEF DeleteEntry, HumanSaves
  <2> DEFINE i == ij[1]
             j == ij[2]
             items == file.groups[i].items
  <2>2. i \in DOMAIN file.groups /\ j \in DOMAIN items  BY <1>1
  <2>3. file.groups[i].shape = "list" /\ items \in Seq(Entries)  BY <2>2, EntryOfList
  <2>4. file' = [file EXCEPT !.groups[i].items = RemoveAt(items, j)]  BY <2>1 DEF SetItems
  <2> DEFINE now == RemoveAt(items, j)
  <2>5. now \in Seq(Entries) /\ Derived(items, now)  
    <3> HIDE DEF items, i, j
    <3>1. QED  BY <2>2, <2>3, DerivedRemoved
  <2> HIDE DEF now
  <2>6. Derived(file.groups[i].items, now) /\ file' = [file EXCEPT !.groups[i].items = now]
    BY <2>4, <2>5 DEF items, now
  <2> HIDE DEF i, j, items
  <2>7. QED  BY ONLY <1>a, <2>2, <2>3, <2>5, <2>6
<1>10. CASE SwapEntries
  <2>1. PICK ij \in Place :
          LET items == file.groups[ij[1]].items
              k     == ij[2] + 1
          IN  /\ k \in DOMAIN items
              /\ file' = SetItems(ij[1], [items EXCEPT ![ij[2]] = items[k], ![k] = items[ij[2]]])
    BY <1>10 DEF SwapEntries, HumanSaves
  <2> DEFINE i == ij[1]
             j == ij[2]
             items == file.groups[i].items
             now == [items EXCEPT ![j] = items[j + 1], ![j + 1] = items[j]]
  <2>2. i \in DOMAIN file.groups /\ j \in DOMAIN items  BY <1>1
  <2>3. file.groups[i].shape = "list" /\ items \in Seq(Entries)  BY <2>2, EntryOfList
  <2>4. file' = [file EXCEPT !.groups[i].items = now] /\ j + 1 \in DOMAIN items  BY <2>1 DEF SetItems
  <2>5. now \in Seq(Entries) /\ Derived(items, now)
    <3> DEFINE k == j + 1
    <3>1. k \in DOMAIN items  BY <2>4
    <3> HIDE DEF k, items, i, j, now
    <3>2. /\ [items EXCEPT ![j] = items[k], ![k] = items[j]] \in Seq(Entries)
          /\ Derived(items, [items EXCEPT ![j] = items[k], ![k] = items[j]])
      BY ONLY <2>2, <2>3, <3>1, DerivedSwapped
    <3>3. QED  BY <3>2 DEF now, k
  <2> HIDE DEF now
  <2>6. Derived(file.groups[i].items, now) /\ file' = [file EXCEPT !.groups[i].items = now]
    BY <2>4, <2>5 DEF items
  <2> HIDE DEF i, j, items
  <2>7. QED  BY ONLY <1>a, <2>2, <2>3, <2>5, <2>6
<1>11. CASE AddGroup
  <2>1. PICK name \in Names :
          /\ Copies \/ GroupIndex(file.groups, name) = 0
          /\ file' = [file EXCEPT !.groups = <<[name |-> name, shape |-> "list", items |-> <<>>]>> \o file.groups]
    BY <1>11 DEF AddGroup, HumanSaves, Names
  <2> DEFINE g == [name |-> name, shape |-> "list", items |-> <<>>]
  <2>2. g \in GroupsOf(Names, Entries) /\ g.name = name /\ Clean(g.items)
    <3>1. Clean(<<>>)
      <4> DEFINE none == <<>>
      <4>1. DOMAIN none = {}  OBVIOUS
      <4> HIDE DEF none
      <4>2. Clean(none)  BY <4>1 DEF Clean, Once
      <4>3. QED  BY <4>2 DEF none
    <3>2. QED  BY <3>1 DEF GroupsOf
  <2> HIDE DEF g
  <2> DEFINE more == <<g>> \o file.groups
  <2>a. /\ more \in Seq(GroupsOf(Names, Entries)) /\ DOMAIN more = 1..(Len(file.groups) + 1)
        /\ DOMAIN file.groups = 1..Len(file.groups) /\ Len(file.groups) \in Nat
        /\ more[1] = g /\ \A i \in 1..Len(file.groups) : more[i + 1] = file.groups[i]
    BY <1>2, <2>2
  <2>b. ASSUME ~Copies, Tidy(file.groups) PROVE Tidy(more)
    <3> HIDE DEF more
    <3>1. \A i \in DOMAIN file.groups : file.groups[i].name # name
      <4>1. GroupIndex(file.groups, name) = 0  BY <2>1, <2>b
      <4>2. QED  BY <1>2, <4>1, <2>a, IndexIsFirst
    <3>2. ASSUME NEW i \in DOMAIN more, i # 1
          PROVE  i - 1 \in DOMAIN file.groups /\ more[i] = file.groups[i - 1] /\ i \in Nat
      <4>1. i - 1 \in 1..Len(file.groups) /\ (i - 1) + 1 = i  BY <2>a, <3>2
      <4> DEFINE k == i - 1
      <4>2. k \in 1..Len(file.groups) /\ k + 1 = i  BY <4>1
      <4> HIDE DEF k
      <4>3. more[k + 1] = file.groups[k]  BY <2>a, <4>2
      <4>4. QED  BY <2>a, <4>2, <4>3 DEF k
    <3>3. \A i \in DOMAIN more : Clean(more[i].items)  BY <2>2, <2>a, <2>b, <3>2 DEF Tidy
    <3>4. NamesApart(more)
      <4> SUFFICES ASSUME NEW i \in DOMAIN more, NEW j \in DOMAIN more,
                          more[i].name = more[j].name, more[i].name # NoName
                   PROVE  i = j
        BY DEF NamesApart
      <4>1. CASE i = 1 \/ j = 1  BY <2>2, <2>a, <3>1, <3>2, <4>1
      <4>2. CASE i # 1 /\ j # 1
        <5>1. i - 1 = j - 1  BY <2>b, <3>2, <4>2 DEF Tidy, NamesApart
        <5>2. QED  BY <3>2, <4>2, <5>1
      <4>3. QED  BY <4>1, <4>2
    <3>5. QED  BY <3>3, <3>4 DEF Tidy
  <2>3. more \in Seq(GroupsOf(Names, Entries))  BY <2>a
  <2>4. file' = [file EXCEPT !.groups = <<g>> \o file.groups]  BY <2>1 DEF g
  <2>5. file.root \in {"blank", "groups", "noKey", "other"}  BY DEF Files, Documents
  <2>6. file' = [root |-> file.root, groups |-> <<g>> \o file.groups]  BY <1>2, <2>4
  <2>7. file'.groups = more /\ file' \in Files  BY <2>3, <2>5, <2>6 DEF Files, Documents
  <2> HIDE DEF more
  <2>8. QED  BY <2>b, <2>7
<1>12. CASE BreakGroup
  <2>1. PICK i \in DOMAIN file.groups, shape \in {"notList", "noItems"} :
          file' = [file EXCEPT !.groups[i].shape = shape, !.groups[i].items = <<>>]
    BY <1>12 DEF BreakGroup, HumanSaves
  <2> DEFINE g == [name |-> file.groups[i].name, shape |-> shape, items |-> <<>>]
  <2>2. file.groups[i] \in GroupsOf(Names, Entries)  BY <1>2
  <2>3. g \in GroupsOf(Names, Entries)  BY <2>2 DEF GroupsOf
  <2>4. g = [[file.groups[i] EXCEPT !.shape = shape] EXCEPT !.items = <<>>]
    <3> DEFINE was == file.groups[i]
    <3>1. was \in [name : Names, shape : {"list", "notList", "noItems"}, items : Seq(Entries)]
      BY <2>2 DEF GroupsOf
    <3>2. was = [name |-> was.name, shape |-> was.shape, items |-> was.items]  BY <3>1
    <3>3. g = [name |-> was.name, shape |-> shape, items |-> <<>>]  OBVIOUS
    <3> DEFINE h == [was EXCEPT !.shape = shape]
    <3> HIDE DEF was, g
    <3>4. h = [name |-> was.name, shape |-> shape, items |-> was.items]  BY <3>2
    <3> HIDE DEF h
    <3>5. g = [h EXCEPT !.items = <<>>]  BY <3>3, <3>4
    <3>6. QED  BY <3>5 DEF was, h
  <2>5. file' = [file EXCEPT !.groups = [file.groups EXCEPT ![i] = g]]
    <3> DEFINE h == [[file.groups[i] EXCEPT !.shape = shape] EXCEPT !.items = <<>>]
    <3>1. file' = [file EXCEPT !.groups = [file.groups EXCEPT ![i] = h]]  BY <1>2, <2>1
    <3>2. QED  BY <2>4, <3>1
  <2>6. g.name = file.groups[i].name /\ g.items = <<>>  OBVIOUS
  <2> HIDE DEF g
  <2>7. Derived(file.groups[i].items, g.items)
    <3> DEFINE none == <<>>
               m == [j \in DOMAIN none |-> j]
    <3>1. DOMAIN none = {} /\ g.items = none  BY <2>6
    <3> HIDE DEF none
    <3>2. m \in [DOMAIN none -> Int]  BY <3>1
    <3> HIDE DEF m
    <3>3. Derived(file.groups[i].items, none)  BY <3>1, <3>2 DEF Derived
    <3>4. QED  BY <3>1, <3>3
  <2>8. QED  BY <2>3, <2>5, <2>6, <2>7, GroupReplaced
<1>13. CASE CopyEntry
  <2>1. PICK ij \in Place, i \in DOMAIN file.groups :
          /\ Copies
          /\ file.groups[i].shape = "list"
          /\ file' = SetItems(i, <<file.groups[ij[1]].items[ij[2]]>> \o file.groups[i].items)
    BY <1>13 DEF CopyEntry, HumanSaves
  <2> DEFINE e == file.groups[ij[1]].items[ij[2]]
             items == file.groups[i].items
  <2>2. e \in Entries  BY <1>1, EntryOfList
  <2>3. items \in Seq(Entries)  BY <1>2 DEF GroupsOf
  <2>4. file' = [file EXCEPT !.groups[i].items = <<e>> \o items]  BY <2>1 DEF SetItems
  <2> HIDE DEF e, items
  <2> DEFINE more == <<e>> \o items
  <2>5. more \in Seq(Entries)  BY <2>2, <2>3
  <2>6. file' = [file EXCEPT !.groups[i].items = more] /\ file.groups[i].shape = "list"  BY <2>1, <2>4
  <2> HIDE DEF more
  <2>7. Copies  BY <2>1
  <2>8. QED  BY ONLY <1>a, <2>5, <2>6, <2>7
<1>14. QED
  BY <1>4, <1>5, <1>6, <1>7, <1>8, <1>9, <1>10, <1>11, <1>12, <1>13 DEF HumanEdits

-----------------------------------------------------------------------------
(***************************************************************************)
(* The invariant: after a run there is nothing left to merge or to sweep.  *)
(***************************************************************************)
IInv ==
  /\ file \in Files
  /\ services \in ServiceSets
  /\ policy \in Policies
  /\ Synced => file.root = "groups" /\ Settled(file.groups, Desired, policy)

\* MergeEffect for the file and the services at hand.
LEMMA RunEffect ==
  ASSUME IInv, NEW p \in Policies, NEW result, result = Merge(file, Desired, p)
  PROVE  /\ result.doc \in Files
         /\ result.error = Absent =>
              /\ result.doc.root = "groups"
              /\ KeepsHand(file.groups, result.doc.groups)
              /\ Settled(result.doc.groups, Desired, p)
              /\ ~Settled(file.groups, Desired, p) => ~AllConflicts(result.changes)
         /\ file.root = "groups" /\ Settled(file.groups, Desired, p) =>
              /\ result.error = Absent /\ result.doc = file
              /\ AllConflicts(result.changes)
<1> DEFINE desired == Desired
<1>1. file \in Documents(Names, Entries) /\ services \in ServiceSets  BY DEF IInv, Files
<1>2. desired = GroupServices(services)  BY DEF Desired
<1>3. result = Merge(file, desired, p)  OBVIOUS
<1> HIDE DEF desired
<1>4. /\ desired \in Seq(Wanted(Names, services))
      /\ DistinctNames(desired)
      /\ Owned(desired)
  BY <1>1, <1>2, DesiredLists
<1>a. Setting(Names, Entries, Changes, services)  BY <1>1, ServicesAreProper DEF ServiceSets
<1>5. /\ result.doc \in Documents(Names, Entries)
      /\ result.error = Absent =>
           /\ result.doc.root = "groups"
           /\ KeepsHand(file.groups, result.doc.groups)
           /\ Settled(result.doc.groups, desired, p)
           /\ ~Settled(file.groups, desired, p) => ~AllConflicts(result.changes)
      /\ file.root = "groups" /\ Settled(file.groups, desired, p) =>
           /\ result.error = Absent /\ result.doc = file
           /\ AllConflicts(result.changes)
  BY ONLY <1>1, <1>3, <1>4, <1>a, p \in Policies, MergeEffect
<1>6. QED  BY <1>5 DEF desired, Files

\* However containers come, go and change, no two services have the same id.
LEMMA DockerChangesServices ==
  ASSUME services \in ServiceSets, DockerChanges
  PROVE  services' \in ServiceSets
<1>1. PICK id \in Ids :
        LET others == {s \in services : s.id # id}
        IN  services' \in {others} \cup {others \cup {s} : s \in {t \in Service : t.id = id}}
  BY DEF DockerChanges
<1> DEFINE others == {s \in services : s.id # id}
<1>2. services \in SUBSET Service /\ \A s, t \in services : s.id = t.id => s = t  BY DEF ServiceSets
<1>3. CASE services' = others
  BY <1>2, <1>3 DEF ServiceSets
<1>4. ASSUME NEW s \in Service, s.id = id, services' = others \cup {s}
      PROVE  services' \in ServiceSets
  <2>1. services' \in SUBSET Service  BY <1>2, <1>4
  <2>2. ASSUME NEW a \in services', NEW b \in services', a.id = b.id PROVE a = b
    <3>1. a \in others \/ a = s  BY <1>4
    <3>2. b \in others \/ b = s  BY <1>4
    <3>3. QED  BY <1>2, <1>4, <2>2, <3>1, <3>2
  <2>3. QED  BY <2>1, <2>2 DEF ServiceSets
<1>5. QED  BY <1>1, <1>3, <1>4

\* An edit is a save by a human, and nothing else.
LEMMA EditIsSave ==
  ASSUME HumanEdits
  PROVE  actor' = "human" /\ services' = services /\ policy' = "preserve"
<1>1. PICK doc : HumanSaves(doc)
  BY DEF HumanEdits, EditBody, Restyle, ChangeComment, DamageMarker, AddOwnEntry,
         DeleteEntry, SwapEntries, AddGroup, BreakGroup, CopyEntry
<1>2. QED  BY <1>1 DEF HumanSaves, NoRun

\* IInv holds of every history: any number of runs, edits and changes in Docker, any file to
\* start from, any ids, groups and bodies.
THEOREM HistoryInvariant == Spec => []IInv
<1>1. Init => IInv
  <2> SUFFICES ASSUME Init PROVE IInv  OBVIOUS
  <2>1. file \in Files  BY HistoryAssumption DEF Init, Files, Names
  <2>2. services \in ServiceSets  BY DEF Init, ServiceSets
  <2>3. policy \in Policies /\ ~Synced  BY DEF Init, Policies, Synced
  <2>4. QED  BY <2>1, <2>2, <2>3 DEF IInv
<1>2. IInv /\ [Next]_vars => IInv'
  <2> SUFFICES ASSUME IInv, [Next]_vars PROVE IInv'  OBVIOUS
  <2>1. ASSUME NEW p \in Policies, SyncRun(p) PROVE IInv'
    <3> DEFINE result == Merge(file, Desired, p)
    <3>1. /\ file' = result.doc /\ policy' = p /\ services' = services
          /\ actor' = IF result.error = Absent THEN "sync" ELSE "refused"
      BY <2>1 DEF SyncRun, Desired
    <3>2. /\ result.doc \in Files
          /\ result.error = Absent =>
               /\ result.doc.root = "groups"
               /\ Settled(result.doc.groups, Desired, p)
      BY RunEffect
    <3>3. Desired' = Desired  BY <3>1 DEF Desired
    <3>4. Synced' <=> result.error = Absent  BY <3>1 DEF Synced
    <3> HIDE DEF result
    <3>5. Synced' => file'.root = "groups" /\ Settled(file'.groups, Desired', policy')
      BY <3>1, <3>2, <3>3, <3>4
    <3>6. QED  BY <3>1, <3>2, <3>5 DEF IInv
  <2>2. CASE DockerChanges
    <3>1. services' \in ServiceSets  BY <2>2, DockerChangesServices DEF IInv
    <3>2. file' = file /\ policy' \in Policies /\ ~Synced'
      BY <2>2 DEF DockerChanges, NoRun, Policies, Synced
    <3>3. QED  BY <3>1, <3>2 DEF IInv
  <2>3. CASE HumanEdits
    <3>1. file' \in Files  BY <2>3, EditsAreFiles DEF IInv
    <3>2. services' = services /\ policy' \in Policies /\ ~Synced'
      BY <2>3, EditIsSave DEF Policies, Synced
    <3>3. QED  BY <3>1, <3>2 DEF IInv
  <2>4. CASE UNCHANGED vars
    BY <2>4 DEF vars, IInv, Synced, Desired
  <2>5. QED  BY <2>1, <2>2, <2>3, <2>4 DEF Next
<1>3. QED  BY <1>1, <1>2, PTL DEF Spec

-----------------------------------------------------------------------------
(***************************************************************************)
(* What a history keeps.                                                   *)
(***************************************************************************)
\* Only a run that writes ends in "sync".
LEMMA OnlyRunsSync ==
  ASSUME Next, actor' = "sync"
  PROVE  \E p \in Policies :
           LET result == Merge(file, Desired, p)
           IN  /\ result.error = Absent
               /\ file' = result.doc
               /\ report' = result.changes
<1>1. ~DockerChanges  BY DEF DockerChanges
<1>2. ~HumanEdits  BY EditIsSave
<1>3. PICK p \in Policies : SyncRun(p)  BY <1>1, <1>2 DEF Next
<1> DEFINE result == Merge(file, Desired, p)
<1>4. /\ actor' = IF result.error = Absent THEN "sync" ELSE "refused"
      /\ file' = result.doc /\ report' = result.changes
  BY <1>3 DEF SyncRun, Desired
<1> HIDE DEF result
<1>5. result.error = Absent  BY <1>4
<1>6. QED  BY <1>4, <1>5 DEF result

\* Repeating the run that just ended does not change the file: README
\* "Idempotent", for every document, set of containers and history of edits.
THEOREM RunsAreIdempotent == Spec => []Idempotent
<1>1. IInv => Idempotent
  <2> SUFFICES ASSUME IInv, Synced PROVE Merge(file, Desired, policy).doc = file
    BY DEF Idempotent
  <2>1. /\ policy \in Policies /\ file.root = "groups" /\ Settled(file.groups, Desired, policy)
    BY DEF IInv
  <2>2. QED  BY <2>1, RunEffect
<1>2. QED  BY <1>1, HistoryInvariant, PTL

\* In a settled file each desired service has its entry in the first group of its name.
LEMMA ServicesAreThere ==
  ASSUME NEW groups \in Seq(GroupsOf(Names, Entries)), NEW now \in ServiceSets, NEW p,
         Settled(groups, GroupServices(now), p),
         NEW s \in now, NEW k, k = GroupIndex(groups, s.group)
  PROVE  /\ k \in DOMAIN groups /\ groups[k].name = s.group /\ groups[k].shape = "list"
         /\ Fine(groups[k].items, s, p)
         /\ findManagedIndex(groups[k].items, s.id) # 0
<1> DEFINE desired == GroupServices(now)
<1>1. PICK i \in DOMAIN desired :
        desired[i].name = s.group /\ \E j \in DOMAIN desired[i].services : desired[i].services[j] = s
  BY DesiredLists
<1> HIDE DEF desired
<1>2. Done(groups, desired[i], p)  BY <1>1 DEF Settled, desired
<1>3. /\ k # 0 /\ groups[k].shape = "list"
      /\ \E j \in DOMAIN desired[i].services :
           desired[i].services[j] = s /\ Fine(groups[k].items, s, p)
  BY <1>1, <1>2 DEF Done
<1>4. k \in DOMAIN groups /\ groups[k].name = s.group  BY <1>3, IndexIsFirst
<1>5. findManagedIndex(groups[k].items, s.id) # 0  BY <1>3 DEF Fine, Verdict
<1>6. QED  BY <1>3, <1>4, <1>5

\* ... and no list that can be swept has a managed entry for anything else.
LEMMA EntriesAreWanted ==
  ASSUME NEW groups \in Seq(GroupsOf(Names, Entries)), NEW now \in ServiceSets, NEW p,
         Settled(groups, GroupServices(now), p),
         NEW i \in DOMAIN groups, Sweepable(groups[i]),
         NEW e \in ToSet(groups[i].items), IsManaged(e)
  PROVE  \E s \in now : s.id = e.comment.id /\ s.group = groups[i].name
<1> DEFINE desired == GroupServices(now)
           id == e.comment.id
           name == groups[i].name
           wanting == {k \in DOMAIN desired : \E l \in DOMAIN desired[k].services :
                         desired[k].services[l].id = id}
<1>0. \A k \in DOMAIN desired : \A j \in DOMAIN desired[k].services :
        desired[k].services[j] \in now /\ desired[k].services[j].group = desired[k].name
  BY DesiredLists
<1>a. Settled(groups, desired, p)  OBVIOUS
<1> HIDE DEF desired
<1>1. DesiredGroupOf(desired, id) = name
  <2>1. Orphans(groups[i], desired) = {}  BY <1>a DEF Settled
  <2>2. QED  BY <2>1 DEF Orphans, Orphaned
<1>2. name # Absent
  <2>1. name \in Names  BY DEF GroupsOf
  <2>2. name # NoName  BY DEF Sweepable
  <2>3. QED  BY <2>1, <2>2, HistoryAssumption DEF Names
<1>3. DesiredGroupOf(desired, id) = IF wanting = {} THEN Absent ELSE desired[CHOOSE k \in wanting : TRUE].name
  BY DEF DesiredGroupOf
<1>4. PICK k \in DOMAIN desired : name = desired[k].name /\ \E l \in DOMAIN desired[k].services :
                         desired[k].services[l].id = id
  <2>1. wanting # {}  BY <1>1, <1>2, <1>3
  <2>2. (CHOOSE k \in wanting : TRUE) \in wanting  BY <2>1
  <2>3. name = desired[CHOOSE k \in wanting : TRUE].name  BY <1>1, <1>3, <2>1
  <2> DEFINE c == CHOOSE k \in wanting : TRUE
  <2>4. c \in wanting /\ name = desired[c].name  BY <2>2, <2>3
  <2> HIDE DEF c
  <2>5. c \in DOMAIN desired /\ \E l \in DOMAIN desired[c].services : desired[c].services[l].id = id
    BY ONLY <2>4
  <2>6. QED  BY ONLY <2>4, <2>5
<1>5. QED  BY <1>0, <1>4

\* After a run each desired service is in its group, and no list that can be
\* swept holds a managed entry that belongs elsewhere.
THEOREM RunsLeaveInSync == Spec => []InSync
<1>1. IInv => InSync
  <2> SUFFICES ASSUME IInv, Synced
               PROVE  /\ \A s \in services :
                           \E i \in DOMAIN file.groups :
                             file.groups[i].name = s.group /\ findManagedIndex(file.groups[i].items, s.id) # 0
                      /\ \A i \in DOMAIN file.groups : Sweepable(file.groups[i]) =>
                           \A e \in ToSet(file.groups[i].items) : IsManaged(e) =>
                             \E s \in services : s.id = e.comment.id /\ s.group = file.groups[i].name
    BY DEF InSync
  <2>1. /\ file.groups \in Seq(GroupsOf(Names, Entries)) /\ services \in ServiceSets
        /\ Settled(file.groups, GroupServices(services), policy)
    BY DEF IInv, Files, Documents, Desired
  <2>2. QED  BY <2>1, ServicesAreThere, EntriesAreWanted
<1>2. QED  BY <1>1, HistoryInvariant, PTL

\* A run keeps every entry that carries no marker, in its group and in its
\* order, and neither removes nor reorders a group.
THEOREM RunsKeepHandWritten == Spec => HandWrittenUntouched
<1>1. IInv /\ [Next]_vars => [actor' = "sync" => KeepsHandWritten]_vars
  <2> SUFFICES ASSUME IInv, Next, actor' = "sync" PROVE KeepsHandWritten  OBVIOUS
  <2>1. PICK p \in Policies :
          LET result == Merge(file, Desired, p)
          IN  result.error = Absent /\ file' = result.doc
    BY OnlyRunsSync
  <2>2. KeepsHand(file.groups, file'.groups)  BY <2>1, RunEffect
  <2>3. QED  BY <2>2 DEF KeepsHand, KeepsHandWritten
<1>2. QED  BY <1>1, HistoryInvariant, PTL DEF Spec, HandWrittenUntouched

\* The report lists a change other than a conflict exactly when the run
\* changes a file that already had its list of groups.
THEOREM RunsReportTheTruth == Spec => ReportIsTrue
<1>1. IInv /\ [Next]_vars =>
        [actor' = "sync" /\ file.root = "groups" =>
           ((file' = file) <=> \A i \in DOMAIN report' : report'[i].kind = "conflict")]_vars
  <2> SUFFICES ASSUME IInv, Next, actor' = "sync", file.root = "groups"
               PROVE  (file' = file) <=> AllConflicts(report')
    BY DEF AllConflicts
  <2>1. PICK p \in Policies :
          LET result == Merge(file, Desired, p)
          IN  result.error = Absent /\ file' = result.doc /\ report' = result.changes
    BY OnlyRunsSync
  <2>2. /\ Settled(file'.groups, Desired, p)
        /\ ~Settled(file.groups, Desired, p) => ~AllConflicts(report')
        /\ Settled(file.groups, Desired, p) => file' = file /\ AllConflicts(report')
    BY <2>1, RunEffect
  <2>3. QED  BY <2>2
<1>2. QED  BY <1>1, HistoryInvariant, PTL DEF Spec, ReportIsTrue

-----------------------------------------------------------------------------
(***************************************************************************)
(* The contract.  Besides IInv the file stays tidy (TInv): from a fresh    *)
(* start and without copies, each name has one group, each id one entry of *)
(* a group, and each marker the fingerprint of what dashsync wrote.  Then  *)
(* the managed entries of a file are known by their group and id, and a    *)
(* run can be told entry by entry.                                         *)
(***************************************************************************)
TInv == IInv /\ Tidy(file.groups)

\* MergeTrace for the file and the services at hand.
LEMMA RunTrace ==
  ASSUME IInv, NEW p \in Policies, NEW result, result = Merge(file, Desired, p)
  PROVE  /\ result.error # Absent => result.doc = file
         /\ result.error = Absent => MergeTraced(file.groups, result.doc.groups, Desired, services, p)
<1> DEFINE desired == Desired
<1>1. file \in Documents(Names, Entries) /\ services \in ServiceSets  BY DEF IInv, Files
<1>2. desired = GroupServices(services)  BY DEF Desired
<1>3. result = Merge(file, desired, p)  OBVIOUS
<1> HIDE DEF desired
<1>4. desired \in Seq(Wanted(Names, services))  BY <1>1, <1>2, DesiredLists
<1>5. Setting(Names, Entries, Changes, services)  BY <1>1, ServicesAreProper DEF ServiceSets
<1>6. /\ result.error # Absent => result.doc = file
      /\ result.error = Absent => MergeTraced(file.groups, result.doc.groups, desired, services, p)
  BY ONLY <1>1, <1>3, <1>4, <1>5, p \in Policies, MergeTrace
<1>7. QED  BY <1>6 DEF desired

\* A merge of a tidy file is tidy.
LEMMA TracedTidy ==
  ASSUME NEW old, NEW new, NEW desired, NEW S \in SUBSET Service, NEW p,
         Tidy(old), MergeTraced(old, new, desired, S, p),
         \A i \in DOMAIN new : new[i].items \in Seq(Entries)
  PROVE  Tidy(new)
<1>1. NamesApart(new)  BY DEF Tidy, MergeTraced
<1>2. \A i \in DOMAIN new : Clean(ItemsAt(old, i))
  <2>1. Clean(<<>>)
    <3> DEFINE none == <<>>
    <3>1. DOMAIN none = {}  OBVIOUS
    <3> HIDE DEF none
    <3>2. Clean(none)  BY <3>1 DEF Clean, Once
    <3>3. QED  BY <3>2 DEF none
  <2>2. QED  BY <2>1 DEF Tidy, ItemsAt
<1>3. \A i \in DOMAIN new : Once(new[i].items)  BY <1>2 DEF Clean, MergeTraced
<1>4. ASSUME NEW i \in DOMAIN new, NEW j \in DOMAIN new[i].items
      PROVE  Honest(new[i].items[j])
  <2> DEFINE e == new[i].items[j]
  <2>1. e \in ToSet(new[i].items)  BY DEF ToSet
  <2>2. CASE e \in ToSet(ItemsAt(old, i))
    <3>1. PICK k \in DOMAIN ItemsAt(old, i) : ItemsAt(old, i)[k] = e  BY <2>2 DEF ToSet
    <3>2. QED  BY <1>2, <3>1 DEF Clean
  <2>3. ASSUME NEW s \in S, e = Rendered(s) PROVE Honest(e)
    <3>1. Rendered(s).wrote = s.body /\ Rendered(s).comment.content = Hash[s.body]
      BY DEF Rendered, buildMarker
    <3>2. s.body \in Bodies  BY DEF Service
    <3>3. QED  BY <2>3, <3>1, <3>2 DEF Honest
  <2>4. e \in ToSet(ItemsAt(old, i)) \/ \E s \in S : e = Rendered(s)  BY <2>1 DEF MergeTraced
  <2>5. QED  BY <2>2, <2>3, <2>4
<1>5. QED  BY <1>1, <1>3, <1>4 DEF Tidy, Clean

\* The files of a history without copies are tidy.
LEMMA TidyInvariant ==
  ASSUME ~Copies, FreshStarts
  PROVE  Spec => []TInv
<1>1. ASSUME Init, IInv PROVE TInv
  <2>1. file \in Starts  BY <1>1 DEF Init
  <2>2. /\ NamesApart(file.groups)
        /\ \A i \in DOMAIN file.groups : \A e \in ToSet(file.groups[i].items) : ~IsManaged(e)
    BY <2>1 DEF FreshStarts, NamesApart
  <2>3. ASSUME NEW i \in DOMAIN file.groups PROVE Clean(file.groups[i].items)
    <3>1. \A j \in DOMAIN file.groups[i].items : ~IsManaged(file.groups[i].items[j])
      BY <2>2 DEF ToSet
    <3>2. QED  BY <3>1 DEF Clean, Once, Honest
  <2>4. QED  BY <1>1, <2>2, <2>3 DEF TInv, Tidy
<1>2. ASSUME TInv, IInv', [Next]_vars PROVE TInv'
  <2>1. ASSUME NEW p \in Policies, SyncRun(p) PROVE Tidy(file'.groups)
    <3> DEFINE result == Merge(file, Desired, p)
    <3>1. file' = result.doc  BY <2>1 DEF SyncRun, Desired
    <3>2. /\ result.error # Absent => result.doc = file
          /\ result.error = Absent => MergeTraced(file.groups, result.doc.groups, Desired, services, p)
      BY <1>2, RunTrace DEF TInv
    <3> HIDE DEF result
    <3>3. services \in SUBSET Service  BY <1>2 DEF TInv, IInv, ServiceSets
    <3>4. \A i \in DOMAIN file'.groups : file'.groups[i].items \in Seq(Entries)
      BY <1>2 DEF IInv, Files, Documents, GroupsOf
    <3>5. CASE result.error # Absent  BY <1>2, <3>1, <3>2, <3>5 DEF TInv
    <3>6. CASE result.error = Absent
      <4> DEFINE old == file.groups
                 new == file'.groups
                 desired == Desired
      <4>1. MergeTraced(old, new, desired, services, p) /\ Tidy(old)  BY <1>2, <3>1, <3>2, <3>6 DEF TInv
      <4>2. \A i \in DOMAIN new : new[i].items \in Seq(Entries)  BY <3>4
      <4> HIDE DEF old, new, desired
      <4>3. Tidy(new)  BY ONLY <3>3, <4>1, <4>2, TracedTidy
      <4>4. QED  BY <4>3 DEF new
    <3>7. QED  BY <3>5, <3>6
  <2>2. CASE DockerChanges  BY <1>2, <2>2 DEF TInv, DockerChanges
  <2>3. CASE HumanEdits  BY <1>2, <2>3, EditsAreFiles DEF TInv, IInv
  <2>4. CASE UNCHANGED vars  BY <1>2, <2>4 DEF vars, TInv
  <2>5. QED  BY <1>2, <2>1, <2>2, <2>3, <2>4 DEF Next, TInv
<1>3. QED  BY <1>1, <1>2, HistoryInvariant, PTL DEF Spec

-----------------------------------------------------------------------------
\* A managed entry of a list that can be swept.
Here(groups, i, e) ==
  i \in DOMAIN groups /\ Sweepable(groups[i]) /\ e \in ToSet(groups[i].items) /\ IsManaged(e)

\* Two files, the second a run of S and p over the first.
Ran(old, new, S, p) ==
  /\ old \in Seq(GroupsOf(Names, Entries)) /\ new \in Seq(GroupsOf(Names, Entries))
  /\ S \in ServiceSets /\ p \in Policies
  /\ Tidy(old) /\ Tidy(new)
  /\ KeepsHand(old, new)
  /\ Settled(new, GroupServices(S), p)
  /\ MergeTraced(old, new, GroupServices(S), S, p)

\* Only a list has a managed entry.
LEMMA ManagedInList ==
  ASSUME NEW groups \in Seq(GroupsOf(Names, Entries)), NEW i \in DOMAIN groups,
         NEW e \in ToSet(groups[i].items)
  PROVE  groups[i].shape = "list" /\ e \in Entries
<1>1. groups[i] \in GroupsOf(Names, Entries)  OBVIOUS
<1>2. groups[i].items \in Seq(Entries)  BY <1>1 DEF GroupsOf
<1>3. PICK j \in DOMAIN groups[i].items : groups[i].items[j] = e  BY DEF ToSet
<1>4. groups[i].items # <<>>  BY <1>3
<1>5. QED  BY <1>1, <1>2, <1>3, <1>4 DEF GroupsOf

\* In a tidy file a group and an id name one entry.
LEMMA OneEach ==
  ASSUME NEW groups, Tidy(groups), NEW i, NEW e, NEW k, NEW f,
         Here(groups, i, e), Here(groups, k, f),
         groups[i].name = groups[k].name, e.comment.id = f.comment.id
  PROVE  i = k /\ e = f
<1>1. i = k  BY DEF Here, Sweepable, Tidy, NamesApart
<1>2. Once(groups[i].items)  BY DEF Tidy, Clean, Here
<1>3. QED  BY <1>1, <1>2 DEF Once, Here, ToSet

\* ... and an entry a human changed is one whose fingerprint is off.
LEMMA EditedIsDirty ==
  ASSUME NoCollision, NEW groups, Tidy(groups), NEW i, NEW e \in Entries, Here(groups, i, e)
  PROVE  /\ e.body # Unreadable => (HandEdited(e) <=> e.body # e.wrote)
         /\ e.body # e.wrote => Dirty(e)
<1>1. Honest(e)
  <2>1. PICK j \in DOMAIN groups[i].items : groups[i].items[j] = e  BY DEF Here, ToSet
  <2>2. QED  BY <2>1 DEF Tidy, Clean, Here
<1>2. e.wrote \in Bodies /\ e.comment.content = Hash[e.wrote]  BY <1>1 DEF Honest, Here
<1>3. e.body \in Bodies \cup {Unreadable}  BY DEF Entries
<1>4. e.body # Unreadable => (HandEdited(e) <=> e.body # e.wrote)
  BY <1>2, <1>3 DEF HandEdited, NoCollision
<1>5. QED  BY <1>4 DEF Dirty

\* What a run leaves of each desired service: an entry of its group that is fine.
LEMMA ServiceHere ==
  ASSUME NEW old, NEW new, NEW S, NEW p, Ran(old, new, S, p), NEW s \in S
  PROVE  \E i \in DOMAIN new : \E e \in ToSet(new[i].items) :
           /\ Here(new, i, e) /\ e.comment.id = s.id /\ new[i].name = s.group
           /\ e.body # Unreadable
           /\ \/ e.body = s.body /\ (HandEdited(e) => p = "overwrite")
              \/ HandEdited(e) /\ p = "preserve"
<1> DEFINE k == GroupIndex(new, s.group)
           items == new[k].items
           j == findManagedIndex(items, s.id)
<1>0. /\ new \in Seq(GroupsOf(Names, Entries)) /\ S \in ServiceSets /\ p \in Policies
      /\ Settled(new, GroupServices(S), p)
  BY DEF Ran
<1>1. /\ k \in DOMAIN new /\ new[k].name = s.group /\ new[k].shape = "list"
      /\ Fine(new[k].items, s, p) /\ j # 0
  BY <1>0, ServicesAreThere
<1>2. s.group # NoName
  <2>1. s \in Service  BY <1>0 DEF ServiceSets
  <2>2. QED  BY <2>1, HistoryAssumption DEF Service
<1>3. items \in Seq(Entries)  BY <1>0, <1>1 DEF GroupsOf
<1> HIDE DEF k
<1>4. j \in DOMAIN items /\ Mine(items[j], s.id)
  <2> HIDE DEF items
  <2>1. QED  BY <1>1, <1>3, FoundIsFirst DEF items
<1> DEFINE e == items[j]
<1>5. Verdict(items, s, p) \in {"same", "conflict"}  BY <1>1 DEF Fine
<1>6. /\ e.body # Unreadable
      /\ \/ e.body = s.body /\ (HandEdited(e) => p = "overwrite")
         \/ HandEdited(e) /\ p = "preserve"
  <2> HIDE DEF items
  <2>1. QED  BY <1>0, <1>1, <1>5 DEF Verdict, Policies
<1>7. e \in ToSet(items) /\ IsManaged(e) /\ e.comment.id = s.id  BY <1>4 DEF Mine, ToSet
<1>8. Here(new, k, e)  BY <1>1, <1>2, <1>7 DEF Here, Sweepable
<1>9. QED  BY <1>1, <1>6, <1>7, <1>8

\* What a run leaves: each managed entry stands for one service; it is as the service wants
\* it, or an edit that the run found there.
LEMMA WhatIsLeft ==
  ASSUME NoCollision, NEW old, NEW new, NEW S, NEW p, Ran(old, new, S, p),
         NEW i, NEW e, Here(new, i, e)
  PROVE  /\ \E s \in S : /\ s.id = e.comment.id /\ s.group = new[i].name
                         /\ e.body = e.wrote \/ p # "preserve" => e.body = s.body
         /\ e.body # e.wrote => p # "fail" /\ Here(old, i, e) /\ old[i].name = new[i].name
<1>0. /\ new \in Seq(GroupsOf(Names, Entries)) /\ S \in ServiceSets /\ p \in Policies
      /\ Settled(new, GroupServices(S), p) /\ Tidy(new)
  BY DEF Ran
<1>1. e \in Entries  BY <1>0, ManagedInList DEF Here
<1>2. PICK s \in S : s.id = e.comment.id /\ s.group = new[i].name
  BY <1>0, EntriesAreWanted DEF Here
<1>3. /\ e.body # Unreadable
      /\ \/ e.body = s.body /\ (HandEdited(e) => p = "overwrite")
         \/ HandEdited(e) /\ p = "preserve"
  <2>a. PICK k \in DOMAIN new : \E f \in ToSet(new[k].items) :
          /\ Here(new, k, f) /\ f.comment.id = s.id /\ new[k].name = s.group
          /\ f.body # Unreadable
          /\ \/ f.body = s.body /\ (HandEdited(f) => p = "overwrite")
             \/ HandEdited(f) /\ p = "preserve"
    BY ServiceHere
  <2>1. PICK f \in ToSet(new[k].items) :
          /\ Here(new, k, f) /\ f.comment.id = s.id /\ new[k].name = s.group
          /\ f.body # Unreadable
          /\ \/ f.body = s.body /\ (HandEdited(f) => p = "overwrite")
             \/ HandEdited(f) /\ p = "preserve"
    BY <2>a
  <2>2. e = f  BY <1>0, <1>2, <2>1, OneEach
  <2>3. QED  BY <2>1, <2>2
<1>4. HandEdited(e) <=> e.body # e.wrote  BY <1>0, <1>1, <1>3, EditedIsDirty
<1>5. e.body = e.wrote \/ p # "preserve" => e.body = s.body  BY <1>3, <1>4
<1>6. ASSUME e.body # e.wrote
      PROVE  p # "fail" /\ Here(old, i, e) /\ old[i].name = new[i].name
  <2>1. p # "fail"  BY <1>3, <1>4, <1>6
  <2>2. e \in ToSet(ItemsAt(old, i)) \/ \E svc \in S : e = Rendered(svc)
    BY DEF Ran, MergeTraced, Here
  <2>3. ASSUME NEW svc \in S PROVE e # Rendered(svc)
    <3>1. Rendered(svc).body = svc.body /\ Rendered(svc).wrote = svc.body  BY DEF Rendered
    <3>2. QED  BY <1>6, <3>1
  <2>4. e \in ToSet(ItemsAt(old, i))  BY <2>2, <2>3
  <2>5. i \in DOMAIN old
    <3>1. ToSet(<<>>) = {}  BY DEF ToSet
    <3>2. QED  BY <2>4, <3>1 DEF ItemsAt
  <2>6. e \in ToSet(old[i].items)  BY <2>4, <2>5 DEF ItemsAt
  <2>7. old[i].name = new[i].name  BY <2>5 DEF Ran, KeepsHand, Here
  <2>8. old[i].shape = "list"  BY <2>5, <2>6, ManagedInList DEF Ran
  <2>9. Here(old, i, e)  BY <2>5, <2>6, <2>7, <2>8 DEF Here, Sweepable
  <2>10. QED  BY <2>1, <2>7, <2>9
<1>7. QED  BY <1>2, <1>5, <1>6

\* What a run finds: an edited entry whose service is still wanted in its group stays, unless
\* the run is to overwrite it.
LEMMA WhatStays ==
  ASSUME NoCollision, NEW old, NEW new, NEW S, NEW p, Ran(old, new, S, p),
         NEW i, NEW e, Here(old, i, e), e.body # e.wrote,
         NEW s \in S, s.id = e.comment.id, s.group = old[i].name,
         p # "overwrite" \/ e.body = s.body
  PROVE  Here(new, i, e) /\ new[i].name = old[i].name
<1> DEFINE desired == GroupServices(S)
<1>0. /\ old \in Seq(GroupsOf(Names, Entries)) /\ new \in Seq(GroupsOf(Names, Entries))
      /\ S \in ServiceSets /\ Tidy(old) /\ MergeTraced(old, new, desired, S, p)
  BY DEF Ran
<1>1. e \in Entries /\ old[i].shape = "list"  BY <1>0, ManagedInList DEF Here
<1>2. i \in DOMAIN new /\ new[i].name = old[i].name
  <2>1. DOMAIN old = 1..Len(old) /\ DOMAIN new = 1..Len(new) /\ Len(old) \in Nat /\ Len(new) \in Nat
    BY <1>0
  <2>2. Len(new) >= Len(old)  BY DEF Ran, KeepsHand
  <2>3. i \in DOMAIN new  BY <2>1, <2>2 DEF Here
  <2>4. QED  BY <2>3 DEF Ran, KeepsHand, Here
<1>3. SparedByAll(e, S, p)
  <2>1. ASSUME NEW svc \in S, svc.id = e.comment.id PROVE Spared(e, svc, p)
    <3>1. svc = s  BY <1>0, <2>1 DEF ServiceSets
    <3>2. Dirty(e)  BY <1>0, <1>1, EditedIsDirty
    <3>3. QED  BY <3>1, <3>2 DEF Spared
  <2>2. QED  BY <2>1 DEF SparedByAll, Here
<1>4. ~Orphaned(e, new[i].name, desired)
  <2>1. PICK k \in DOMAIN desired :
          desired[k].name = s.group /\ \E j \in DOMAIN desired[k].services : desired[k].services[j] = s
    BY <1>0, DesiredLists
  <2>2. Owned(desired)  BY <1>0, DesiredLists
  <2> HIDE DEF desired
  <2>3. DesiredGroupOf(desired, s.id) = s.group  BY <2>1, <2>2 DEF Owned
  <2>4. QED  BY <1>2, <2>3 DEF Orphaned
<1>5. e \in ToSet(ItemsAt(old, i))  BY DEF Here, ItemsAt
<1>6. e \in ToSet(new[i].items)  BY <1>0, <1>2, <1>3, <1>4, <1>5 DEF MergeTraced
<1>7. new[i].shape = "list"  BY <1>0, <1>2, <1>6, ManagedInList
<1>8. QED  BY <1>2, <1>6, <1>7 DEF Here, Sweepable

-----------------------------------------------------------------------------
(***************************************************************************)
(* The same facts about the sets of the contract.                          *)
(***************************************************************************)
Rec(name, e) == [group |-> name, id |-> e.comment.id, body |-> e.body]

Recs(groups) ==
  UNION {{Rec(groups[i].name, e) : e \in {f \in ToSet(groups[i].items) : IsManaged(f)}} :
         i \in {k \in DOMAIN groups : Sweepable(groups[k])}}

EditedRecs(groups) ==
  UNION {{Rec(groups[i].name, e) :
            e \in {f \in ToSet(groups[i].items) : IsManaged(f) /\ f.body # f.wrote}} :
         i \in {k \in DOMAIN groups : Sweepable(groups[k])}}

WantedRecs(S) == {[group |-> s.group, id |-> s.id, body |-> s.body] : s \in S}

SameRec(m, n) == m.group = n.group /\ m.id = n.id

\* The records of a file are those of its entries.
LEMMA RecsAreEntries ==
  ASSUME NEW groups, NEW m
  PROVE  /\ m \in Recs(groups) <=>
              \E i \in DOMAIN groups : \E e \in ToSet(groups[i].items) :
                Here(groups, i, e) /\ m = Rec(groups[i].name, e)
         /\ m \in EditedRecs(groups) <=>
              \E i \in DOMAIN groups : \E e \in ToSet(groups[i].items) :
                Here(groups, i, e) /\ e.body # e.wrote /\ m = Rec(groups[i].name, e)
<1>1. ASSUME m \in Recs(groups)
      PROVE  \E i \in DOMAIN groups : \E e \in ToSet(groups[i].items) :
                Here(groups, i, e) /\ m = Rec(groups[i].name, e)
  BY <1>1 DEF Recs, Here
<1>2. ASSUME NEW i \in DOMAIN groups, NEW e \in ToSet(groups[i].items),
             Here(groups, i, e), m = Rec(groups[i].name, e)
      PROVE  m \in Recs(groups)
  BY <1>2 DEF Recs, Here
<1>3. ASSUME m \in EditedRecs(groups)
      PROVE  \E i \in DOMAIN groups : \E e \in ToSet(groups[i].items) :
                Here(groups, i, e) /\ e.body # e.wrote /\ m = Rec(groups[i].name, e)
  BY <1>3 DEF EditedRecs, Here
<1>4. ASSUME NEW i \in DOMAIN groups, NEW e \in ToSet(groups[i].items),
             Here(groups, i, e), e.body # e.wrote, m = Rec(groups[i].name, e)
      PROVE  m \in EditedRecs(groups)
  BY <1>4 DEF EditedRecs, Here
<1>5. QED  BY <1>1, <1>2, <1>3, <1>4

\* What a record tells of its entry.
LEMMA RecIs ==
  ASSUME NEW name, NEW e
  PROVE  Rec(name, e).group = name /\ Rec(name, e).id = e.comment.id /\ Rec(name, e).body = e.body
BY DEF Rec

\* What a run does to the managed entries, in the contract's terms: nothing unwanted is left
\* and nothing wanted is missing; edits survive where the policy spares them.
Exchanged(edited0, managed1, edited1, wanted, p) ==
  /\ edited1 \subseteq managed1
  /\ \A m \in managed1 : \E w \in wanted :
       /\ SameRec(m, w)
       /\ m = w \/ (m \in edited1 /\ p = "preserve")
  /\ edited1 \subseteq edited0 /\ (p = "fail" => edited1 = {})
  /\ \A w \in wanted : \E m \in managed1 : SameRec(m, w)
  /\ \A m, n \in managed1 : SameRec(m, n) => m = n
  /\ \A v, w \in wanted : SameRec(v, w) => v = w
  /\ \A m \in edited0 : \A w \in wanted :
       SameRec(m, w) /\ (p # "overwrite" \/ m = w) => m \in edited1

\* The edits a run has to decide about, and those it spares.
Conflicting(edited0, wanted) == {m \in edited0 : \E w \in wanted : SameRec(m, w)}

Spares(conflict, p) == IF p = "preserve" THEN conflict ELSE {}

\* That is what the contract asks for.
LEMMA ExchangeIsContract ==
  ASSUME NEW edited0, NEW managed1, NEW edited1, NEW wanted, NEW p \in Policies,
         Exchanged(edited0, managed1, edited1, wanted, p),
         NEW conflict, conflict = Conflicting(edited0, wanted), NEW kept, kept = Spares(conflict, p)
  PROVE  /\ p = "fail" => conflict = {}
         /\ managed1 = kept \cup {w \in wanted : \A k \in kept : ~SameRec(k, w)}
         /\ edited1 = kept \cup (conflict \cap wanted)
<1>1. /\ edited1 \subseteq managed1 /\ edited1 \subseteq edited0
      /\ \A m \in managed1 : \E w \in wanted :
           SameRec(m, w) /\ (m = w \/ (m \in edited1 /\ p = "preserve"))
      /\ p = "fail" => edited1 = {}
      /\ \A w \in wanted : \E m \in managed1 : SameRec(m, w)
      /\ \A m, n \in managed1 : SameRec(m, n) => m = n
      /\ \A v, w \in wanted : SameRec(v, w) => v = w
      /\ \A m \in edited0 : \A w \in wanted :
           SameRec(m, w) /\ (p # "overwrite" \/ m = w) => m \in edited1
  BY DEF Exchanged
<1>2. /\ \A m, n : SameRec(m, n) => SameRec(n, m)
      /\ \A m, n, o : SameRec(m, n) /\ SameRec(n, o) => SameRec(m, o)
      /\ \A m : SameRec(m, m)
  BY DEF SameRec
<1>a. conflict = {m \in edited0 : \E w \in wanted : SameRec(m, w)}  BY DEF Conflicting
<1>b. kept = IF p = "preserve" THEN conflict ELSE {}  BY DEF Spares
<1>3. edited1 \subseteq conflict
  BY <1>1, <1>a
<1>4. p # "overwrite" => conflict \subseteq edited1
  BY <1>1, <1>a
<1>5. \A w \in wanted : w \in managed1 \/ \E k \in edited1 : p = "preserve" /\ SameRec(k, w)
  <2> SUFFICES ASSUME NEW w \in wanted
               PROVE  w \in managed1 \/ \E k \in edited1 : p = "preserve" /\ SameRec(k, w)
    OBVIOUS
  <2>1. PICK m \in managed1 : SameRec(m, w)  BY <1>1
  <2>2. PICK v \in wanted : SameRec(m, v) /\ (m = v \/ (m \in edited1 /\ p = "preserve"))  BY <1>1
  <2>3. v = w  BY <1>1, <1>2, <2>1, <2>2
  <2>4. QED  BY <2>1, <2>2, <2>3
<1>6. CASE p = "preserve"
  <2>1. kept = conflict /\ edited1 = conflict  BY <1>b, <1>3, <1>4, <1>6
  <2>2. edited1 = kept \cup (conflict \cap wanted)  BY <2>1
  <2>3. ASSUME NEW m \in managed1, m \notin kept
        PROVE  m \in wanted /\ \A k \in kept : ~SameRec(k, m)
    BY <1>1, <2>1, <2>3
  <2>4. ASSUME NEW w \in wanted, \A k \in kept : ~SameRec(k, w) PROVE w \in managed1
    BY <1>5, <2>1, <2>4
  <2>5. kept \subseteq managed1  BY <1>1, <2>1
  <2>6. managed1 = kept \cup {w \in wanted : \A k \in kept : ~SameRec(k, w)}
    BY <2>3, <2>4, <2>5
  <2>7. QED  BY <1>6, <2>2, <2>6
<1>7. CASE p # "preserve"
  <2>1. kept = {} /\ managed1 = wanted  BY <1>b, <1>1, <1>5, <1>7
  <2>2. p = "fail" => conflict = {}  BY <1>1, <1>4
  <2>3. edited1 \subseteq conflict \cap wanted  BY <1>1, <1>3, <2>1
  <2>4. conflict \cap wanted \subseteq edited1  BY <1>a, <1>1, <1>2
  <2>5. QED  BY <2>1, <2>2, <2>3, <2>4
<1>8. QED  BY <1>6, <1>7

\* A run exchanges the managed entries as the contract asks.
LEMMA RunsExchange ==
  ASSUME NoCollision, NEW old, NEW new, NEW S, NEW p, Ran(old, new, S, p)
  PROVE  Exchanged(EditedRecs(old), Recs(new), EditedRecs(new), WantedRecs(S), p)
<1>0. S \in ServiceSets /\ Tidy(new)  BY DEF Ran
<1>1. EditedRecs(new) \subseteq Recs(new)  BY RecsAreEntries
<1>2. ASSUME NEW m \in Recs(new)
      PROVE  \E w \in WantedRecs(S) :
               SameRec(m, w) /\ (m = w \/ (m \in EditedRecs(new) /\ p = "preserve"))
  <2>1. PICK i \in DOMAIN new : \E f \in ToSet(new[i].items) : Here(new, i, f) /\ m = Rec(new[i].name, f)
    BY RecsAreEntries
  <2>2. PICK e \in ToSet(new[i].items) : Here(new, i, e) /\ m = Rec(new[i].name, e)
    BY <2>1
  <2>3. PICK s \in S : /\ s.id = e.comment.id /\ s.group = new[i].name
                       /\ e.body = e.wrote \/ p # "preserve" => e.body = s.body
    BY <2>2, WhatIsLeft
  <2> DEFINE w == [group |-> s.group, id |-> s.id, body |-> s.body]
  <2>4. w \in WantedRecs(S)  BY DEF WantedRecs
  <2>5. SameRec(m, w)  BY <2>2, <2>3, RecIs DEF SameRec
  <2>6. CASE e.body = e.wrote \/ p # "preserve"
    <3>1. m = w  BY <2>2, <2>3, <2>6 DEF Rec
    <3>2. QED  BY <2>4, <2>5, <3>1
  <2>7. CASE e.body # e.wrote /\ p = "preserve"
    <3>1. m \in EditedRecs(new)  BY <2>2, <2>7, RecsAreEntries
    <3>2. QED  BY <2>4, <2>5, <2>7, <3>1
  <2>8. QED  BY <2>6, <2>7
<1>3. ASSUME NEW m \in EditedRecs(new) PROVE m \in EditedRecs(old) /\ p # "fail"
  <2>1. PICK i \in DOMAIN new : \E f \in ToSet(new[i].items) :
          Here(new, i, f) /\ f.body # f.wrote /\ m = Rec(new[i].name, f)
    BY RecsAreEntries
  <2>2. PICK e \in ToSet(new[i].items) : Here(new, i, e) /\ e.body # e.wrote /\ m = Rec(new[i].name, e)
    BY <2>1
  <2>3. p # "fail" /\ Here(old, i, e) /\ old[i].name = new[i].name  BY <2>2, WhatIsLeft
  <2>4. i \in DOMAIN old /\ e \in ToSet(old[i].items)  BY <2>3 DEF Here
  <2>5. QED  BY <2>2, <2>3, <2>4, RecsAreEntries
<1>4. ASSUME NEW w \in WantedRecs(S) PROVE \E m \in Recs(new) : SameRec(m, w)
  <2>1. PICK s \in S : w = [group |-> s.group, id |-> s.id, body |-> s.body]  BY DEF WantedRecs
  <2>2. PICK i \in DOMAIN new : \E f \in ToSet(new[i].items) :
          Here(new, i, f) /\ f.comment.id = s.id /\ new[i].name = s.group
    BY ServiceHere
  <2>3. PICK e \in ToSet(new[i].items) :
          Here(new, i, e) /\ e.comment.id = s.id /\ new[i].name = s.group
    BY <2>2
  <2>4. Rec(new[i].name, e) \in Recs(new)  BY <2>3, RecsAreEntries
  <2>5. SameRec(Rec(new[i].name, e), w)  BY <2>1, <2>3, RecIs DEF SameRec
  <2>6. QED  BY <2>4, <2>5
<1>5. ASSUME NEW m \in Recs(new), NEW n \in Recs(new), SameRec(m, n) PROVE m = n
  <2>1. PICK i \in DOMAIN new : \E f \in ToSet(new[i].items) : Here(new, i, f) /\ m = Rec(new[i].name, f)
    BY RecsAreEntries
  <2>2. PICK e \in ToSet(new[i].items) : Here(new, i, e) /\ m = Rec(new[i].name, e)  BY <2>1
  <2>3. PICK k \in DOMAIN new : \E f \in ToSet(new[k].items) : Here(new, k, f) /\ n = Rec(new[k].name, f)
    BY RecsAreEntries
  <2>4. PICK f \in ToSet(new[k].items) : Here(new, k, f) /\ n = Rec(new[k].name, f)  BY <2>3
  <2>5. new[i].name = new[k].name /\ e.comment.id = f.comment.id
    BY <1>5, <2>2, <2>4, RecIs DEF SameRec
  <2>6. i = k /\ e = f  BY <1>0, <2>2, <2>4, <2>5, OneEach
  <2>7. QED  BY <2>2, <2>4, <2>6
<1>6. ASSUME NEW v \in WantedRecs(S), NEW w \in WantedRecs(S), SameRec(v, w) PROVE v = w
  <2>1. PICK s \in S : v = [group |-> s.group, id |-> s.id, body |-> s.body]  BY DEF WantedRecs
  <2>2. PICK t \in S : w = [group |-> t.group, id |-> t.id, body |-> t.body]  BY DEF WantedRecs
  <2>3. s = t  BY <1>0, <1>6, <2>1, <2>2 DEF SameRec, ServiceSets
  <2>4. QED  BY <2>1, <2>2, <2>3
<1>7. ASSUME NEW m \in EditedRecs(old), NEW w \in WantedRecs(S),
             SameRec(m, w), p # "overwrite" \/ m = w
      PROVE  m \in EditedRecs(new)
  <2>1. PICK i \in DOMAIN old : \E f \in ToSet(old[i].items) :
          Here(old, i, f) /\ f.body # f.wrote /\ m = Rec(old[i].name, f)
    BY RecsAreEntries
  <2>2. PICK e \in ToSet(old[i].items) : Here(old, i, e) /\ e.body # e.wrote /\ m = Rec(old[i].name, e)
    BY <2>1
  <2>3. PICK s \in S : w = [group |-> s.group, id |-> s.id, body |-> s.body]  BY DEF WantedRecs
  <2>4. s.id = e.comment.id /\ s.group = old[i].name  BY <1>7, <2>2, <2>3, RecIs DEF SameRec
  <2>5. p # "overwrite" \/ e.body = s.body  BY <1>7, <2>2, <2>3, RecIs
  <2>6. Here(new, i, e) /\ new[i].name = old[i].name  BY <2>2, <2>4, <2>5, WhatStays
  <2>7. i \in DOMAIN new /\ e \in ToSet(new[i].items)  BY <2>6 DEF Here
  <2>8. QED  BY <2>2, <2>6, <2>7, RecsAreEntries
<1>8. QED  BY <1>1, <1>2, <1>3, <1>4, <1>5, <1>6, <1>7 DEF Exchanged

\* A page of hand-written entries, group by group.
PageOf(groups) == [i \in DOMAIN groups |-> [name |-> groups[i].name, hand |-> Unmanaged(groups[i].items)]]

\* Keeping what is hand-written is keeping the page.
LEMMA PageGrows ==
  ASSUME NEW old \in Seq(GroupsOf(Names, Entries)), NEW new \in Seq(GroupsOf(Names, Entries)),
         KeepsHand(old, new)
  PROVE  /\ IsPrefix(PageOf(old), PageOf(new))
         /\ \A i \in DOMAIN PageOf(new) \ DOMAIN PageOf(old) : PageOf(new)[i].hand = <<>>
<1> DEFINE a == PageOf(old)
           b == PageOf(new)
           V == {a[i] : i \in DOMAIN old} \cup {b[i] : i \in DOMAIN new}
<1>1. /\ DOMAIN old = 1..Len(old) /\ DOMAIN new = 1..Len(new)
      /\ Len(old) \in Nat /\ Len(new) \in Nat /\ Len(old) <= Len(new)
  BY DEF KeepsHand
<1>2. /\ DOMAIN a = DOMAIN old /\ DOMAIN b = DOMAIN new
      /\ a = [i \in 1..Len(old) |-> a[i]] /\ b = [i \in 1..Len(new) |-> b[i]]
      /\ \A i \in DOMAIN old : a[i] = [name |-> old[i].name, hand |-> Unmanaged(old[i].items)]
      /\ \A i \in DOMAIN new : b[i] = [name |-> new[i].name, hand |-> Unmanaged(new[i].items)]
  BY <1>1 DEF PageOf
<1>3. \A i \in DOMAIN old : a[i] = b[i]  BY <1>1, <1>2 DEF KeepsHand
<1> HIDE DEF a, b
<1>4. ASSUME NEW i \in DOMAIN new \ DOMAIN old PROVE b[i].hand = <<>>
  <2>1. Unmanaged(new[i].items) = <<>>  BY DEF KeepsHand
  <2>2. b[i] = [name |-> new[i].name, hand |-> Unmanaged(new[i].items)]  BY <1>2
  <2>3. QED  BY <2>1, <2>2
<1>5. a \in Seq(V) /\ b \in Seq(V) /\ Len(a) = Len(old) /\ Len(b) = Len(new)
  <2>1. (\A i \in 1..Len(old) : a[i] \in V) /\ (\A i \in 1..Len(new) : b[i] \in V)  BY <1>1
  <2> HIDE DEF V
  <2>2. a \in Seq(V) /\ b \in Seq(V)  BY <1>1, <1>2, <2>1
  <2>3. QED  BY <1>1, <1>2, <2>2
<1> HIDE DEF V
<1>6. a = SubSeq(b, 1, Len(a))
  <2>1. /\ SubSeq(b, 1, Len(a)) \in Seq(V) /\ Len(SubSeq(b, 1, Len(a))) = Len(a)
        /\ \A i \in 1..Len(a) : SubSeq(b, 1, Len(a))[i] = b[i]
    BY <1>1, <1>5
  <2>2. QED  BY <1>1, <1>3, <1>5, <2>1
<1>7. IsPrefix(a, b)  BY <1>1, <1>5, <1>6 DEF IsPrefix
<1>8. QED  BY <1>2, <1>4, <1>7 DEF a, b

\* Every run of the history keeps the contract; so do humans and Docker.
LEMMA StepsKeepContract ==
  ASSUME NoCollision, TInv, TInv', [Next]_vars
  PROVE  [Contract!Next]_(Contract!vars)
<1> DEFINE page0 == PageOf(file.groups)
           page1 == PageOf(file'.groups)
<1>1. CASE UNCHANGED vars
  <2>1. UNCHANGED Contract!vars  BY <1>1 DEF vars, Contract!vars, Managed
  <2>2. QED  BY <2>1
<1>2. CASE HumanEdits
  <2>1. actor' = "human" /\ services' = services  BY <1>2, EditIsSave
  <2>2. Contract!Next  BY <2>1 DEF Contract!Next, Contract!HumanOrDocker
  <2>3. QED  BY <2>2
<1>3. CASE DockerChanges
  <2>1. actor' = "docker" /\ file' = file  BY <1>3 DEF DockerChanges
  <2>2. Contract!HumanOrDocker  BY <2>1 DEF Contract!HumanOrDocker, Managed
  <2>3. QED  BY <2>2 DEF Contract!Next
<1>4. ASSUME NEW p \in Policies, SyncRun(p) PROVE Contract!Next
  <2> DEFINE result == Merge(file, Desired, p)
  <2>1. /\ file' = result.doc /\ policy' = p /\ services' = services
        /\ actor' = IF result.error = Absent THEN "sync" ELSE "refused"
    BY <1>4 DEF SyncRun, Desired
  <2>2. /\ result.error # Absent => result.doc = file
        /\ result.error = Absent =>
             /\ MergeTraced(file.groups, result.doc.groups, Desired, services, p)
             /\ KeepsHand(file.groups, result.doc.groups)
             /\ Settled(result.doc.groups, Desired, p)
    BY RunTrace, RunEffect DEF TInv
  <2> HIDE DEF result
  <2>3. CASE result.error # Absent
    <3>1. file' = file /\ actor' = "refused"  BY <2>1, <2>2, <2>3
    <3>2. Contract!Refused  BY <2>1, <3>1 DEF Contract!Refused, Managed
    <3>3. QED  BY <3>2 DEF Contract!Next
  <2>4. CASE result.error = Absent
    <3> DEFINE old == file.groups
               new == file'.groups
    <3>1. actor' = "sync"  BY <2>1, <2>4
    <3>2. /\ MergeTraced(old, new, GroupServices(services), services, p)
          /\ KeepsHand(old, new)
          /\ Settled(new, GroupServices(services), p)
      BY <2>1, <2>2, <2>4 DEF Desired
    <3>3. /\ old \in Seq(GroupsOf(Names, Entries)) /\ new \in Seq(GroupsOf(Names, Entries))
          /\ services \in ServiceSets /\ Tidy(old) /\ Tidy(new)
      BY DEF TInv, IInv, Files, Documents
    <3>4. Ran(old, new, services, p)  BY <3>2, <3>3 DEF Ran
    <3> DEFINE managed1 == Recs(new)
               edited0  == EditedRecs(old)
               edited1  == EditedRecs(new)
               wanted   == WantedRecs(services)
               conflict == Conflicting(edited0, wanted)
               kept     == Spares(conflict, p)
    <3> HIDE DEF old, new
    <3>5. Exchanged(edited0, managed1, edited1, wanted, p)  BY <3>4, RunsExchange
    <3>6. /\ p = "fail" => conflict = {}
          /\ managed1 = kept \cup {w \in wanted : \A k \in kept : ~SameRec(k, w)}
          /\ edited1 = kept \cup (conflict \cap wanted)
      <4>1. conflict = Conflicting(edited0, wanted) /\ kept = Spares(conflict, p)  OBVIOUS
      <4> HIDE DEF managed1, edited0, edited1, wanted, conflict, kept
      <4>2. QED  BY ONLY <3>5, <4>1, p \in Policies, ExchangeIsContract
    <3>7. /\ IsPrefix(PageOf(old), PageOf(new))
          /\ \A i \in DOMAIN PageOf(new) \ DOMAIN PageOf(old) : PageOf(new)[i].hand = <<>>
      BY <3>2, <3>3, PageGrows
    <3>8. Contract!HandWrittenStays
      <4> DEFINE a == PageOf(old)
                 b == PageOf(new)
      <4>1. /\ a = [i \in DOMAIN file.groups |->
                     [name |-> file.groups[i].name, hand |-> Unmanaged(file.groups[i].items)]]
            /\ b = [i \in DOMAIN file'.groups |->
                     [name |-> file'.groups[i].name, hand |-> Unmanaged(file'.groups[i].items)]]
        BY DEF PageOf, old, new
      <4>2. IsPrefix(a, b) /\ \A i \in DOMAIN b \ DOMAIN a : b[i].hand = <<>>  BY <3>7
      <4> HIDE DEF a, b
      <4>3. Contract!IsPrefix(a, b)  BY <4>2 DEF IsPrefix, Contract!IsPrefix
      <4>4. QED  BY ONLY <4>1, <4>2, <4>3 DEF Contract!HandWrittenStays
    <3>9. Contract!Wanted = wanted  BY DEF Contract!Wanted, WantedRecs
    <3>10. \A m, n : Contract!Same(m, n) <=> SameRec(m, n)  BY DEF Contract!Same, SameRec
    <3>11. Contract!InConflict = conflict
      BY <3>9, <3>10 DEF Contract!InConflict, Managed, EditedRecs, Rec, Conflicting, old
    <3>12. Contract!Kept = kept  BY <2>1, <3>11 DEF Contract!Kept, Spares
    <3>13. /\ Managed(LAMBDA e : TRUE)' = managed1
           /\ Managed(LAMBDA e : e.body # e.wrote)' = edited1
      BY DEF Managed, Recs, EditedRecs, Rec, new
    <3>14. {w \in Contract!Wanted : \A k \in Contract!Kept : ~Contract!Same(k, w)}
             = {w \in wanted : \A k \in kept : ~SameRec(k, w)}
      BY <3>9, <3>10, <3>12
    <3> HIDE DEF managed1, edited1, wanted, conflict, kept
    <3>15. Contract!Synced
      BY <2>1, <3>1, <3>6, <3>8, <3>9, <3>11, <3>12, <3>13, <3>14 DEF Contract!Synced
    <3>16. QED  BY <3>15 DEF Contract!Next
  <2>5. QED  BY <2>3, <2>4
<1>5. QED  BY <1>1, <1>2, <1>3, <1>4 DEF Next

\* While humans copy no managed entry, every history keeps the promise of the package comment,
\* for any ids, groups, bodies and fresh file: what is hand-written stays, and a run leaves
\* exactly the desired services but for the edits its policy spares.
THEOREM RunsKeepContract ==
  ASSUME ~Copies, FreshStarts, NoCollision
  PROVE  Spec => KeepsContract
<1>1. Init => Contract!Init
  <2> SUFFICES ASSUME Init PROVE Contract!Init  OBVIOUS
  <2>1. \A i \in DOMAIN file.groups : \A e \in ToSet(file.groups[i].items) : ~IsManaged(e)
    BY DEF Init, FreshStarts
  <2>2. QED  BY <2>1 DEF Contract!Init, Managed
<1>2. TInv /\ TInv' /\ [Next]_vars => [Contract!Next]_(Contract!vars)
  BY StepsKeepContract
<1>3. Spec => []TInv  BY TidyInvariant
<1>4. QED  BY <1>1, <1>2, <1>3, PTL DEF Spec, KeepsContract, Contract!Spec

=============================================================================
