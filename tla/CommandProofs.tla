--------------------------- MODULE CommandProofs ---------------------------
(***************************************************************************)
(* Proofs about module Command, for any labels, containers, files, hosts   *)
(* and command lines.  First what holds whatever a merge makes of the list *)
(* it is given, then what follows from what MergeProofs says it makes.     *)
(***************************************************************************)
EXTENDS Command, ListProofs

\* What is in the file at all.
FileOK ==
  /\ file = [shape |-> file.shape, lists |-> file.lists]
  /\ file.shape \in {"absent", "list", "map"}
  /\ file.shape = "absent" => DOMAIN file.lists = {}
  /\ file.shape = "list" => DOMAIN file.lists = {"root"}
  /\ file.shape = "map" => "root" \notin DOMAIN file.lists

-----------------------------------------------------------------------------
\* A document without a list of groups is refused, whatever is wanted.
LEMMA RefusedWithoutGroups ==
  ASSUME NEW doc, NEW wanted, NEW policy
  PROVE  /\ ~Homepage!HasGroupSequence(doc) => Homepage!Merge(doc, wanted, policy).error # ""
         /\ ~Named!HasGroupSequence(doc) => Named!Merge(doc, wanted, policy).error # ""
<1>1. ~Homepage!HasGroupSequence(doc) => Homepage!Merge(doc, wanted, policy).error # ""
  BY DEF Homepage!Merge
<1>2. ~Named!HasGroupSequence(doc) => Named!Merge(doc, wanted, policy).error # ""
  BY DEF Named!Merge
<1>. QED
  BY <1>1, <1>2

\* A file of another format's shape has no list of groups for this one.
LEMMA OtherShapesRefused ==
  ASSUME FileOK, NEW format \in Formats
  PROVE  /\ format = "homepage" /\ Homepage!HasGroupSequence(View(file, format))
              => file.shape \in {"absent", "list"}
         /\ format # "homepage" /\ Named!HasGroupSequence(View(file, format))
              => file.shape \in {"absent", "map"}
<1>1. ASSUME format = "homepage", file.shape = "map"
      PROVE  View(file, format).root = "other"
  BY <1>1 DEF View
<1>2. ASSUME format # "homepage", file.shape = "list"
      PROVE  View(file, format).root = "other"
  BY <1>2 DEF View
<1>3. ~Homepage!HasGroupSequence([root |-> "other"]) /\ ~Named!HasGroupSequence([root |-> "other"])
  BY DEF Homepage!HasGroupSequence, Named!HasGroupSequence
<1>. QED
  BY <1>1, <1>2 DEF FileOK, Homepage!HasGroupSequence, Named!HasGroupSequence

\* A run whose merge failed leaves the file as it is.
LEMMA OutcomeOnFile ==
  ASSUME NEW flags, NEW up, NEW f, NEW merged
  PROVE  \/ Outcome(flags, up, f, merged).file = f
         \/ /\ FlagsAccepted(flags) /\ merged.error = ""
            /\ Outcome(flags, up, f, merged).file = Stored(f, flags.format, merged.doc)
<1>1. ASSUME ~FlagsAccepted(flags) \/ up = {} PROVE Outcome(flags, up, f, merged).file = f
  BY <1>1 DEF Outcome, Failure
<1>2. ASSUME FlagsAccepted(flags), up # {}, ~flags.outputPath
      PROVE  Outcome(flags, up, f, merged).file = f
  BY <1>2 DEF Outcome
<1>3. ASSUME FlagsAccepted(flags), up # {}, flags.outputPath, merged.error # ""
      PROVE  Outcome(flags, up, f, merged).file = f
  BY <1>3 DEF Outcome, Failure
<1>4. ASSUME FlagsAccepted(flags), up # {}, flags.outputPath, merged.error = ""
      PROVE  Outcome(flags, up, f, merged).file
               = IF flags.check \/ DryRun(flags) THEN f ELSE Stored(f, flags.format, merged.doc)
  BY <1>4 DEF Outcome
<1>. QED
  BY <1>1, <1>2, <1>3, <1>4

\* Merging a file in a shape that is not the format's fails.
LEMMA MergedHasShape ==
  ASSUME FileOK, NEW services, NEW format \in Formats, NEW policy,
         Merged(file, services, format, policy).error = ""
  PROVE  IF format = "homepage" THEN file.shape \in {"absent", "list"}
         ELSE file.shape \in {"absent", "map"}
<1>1. CASE format = "homepage"
  <2>1. PICK wanted : Merged(file, services, format, policy)
                        = Homepage!Merge(View(file, format), wanted, policy)
    BY <1>1 DEF Merged
  <2>2. Homepage!Merge(View(file, format), wanted, policy).error = ""
    BY <2>1
  <2>3. Homepage!HasGroupSequence(View(file, format))
    BY <2>2, RefusedWithoutGroups
  <2>. QED
    BY <1>1, <2>3, OtherShapesRefused
<1>2. CASE format # "homepage"
  <2>1. PICK wanted : Merged(file, services, format, policy)
                        = Named!Merge(View(file, format), wanted, policy)
    BY <1>2 DEF Merged
  <2>2. Named!Merge(View(file, format), wanted, policy).error = ""
    BY <2>1
  <2>3. Named!HasGroupSequence(View(file, format))
    BY <2>2, RefusedWithoutGroups
  <2>. QED
    BY <1>2, <2>3, OtherShapesRefused
<1>. QED
  BY <1>1, <1>2

\* A run leaves the file as it is, or puts a list of groups where its format
\* looks for one, in a file of a shape that its format understands.
LEMMA SyncWrites ==
  ASSUME FileOK, NEW flags, NEW containers, NEW up,
         Sync(flags, containers, up, file).file # file
  PROVE  /\ flags.format \in Formats
         /\ IF flags.format = "homepage" THEN file.shape \in {"absent", "list"}
            ELSE file.shape \in {"absent", "map"}
         /\ \E doc : Sync(flags, containers, up, file).file = Stored(file, flags.format, doc)
<1>1. PICK merged : /\ merged = Merged(file, Discovered(containers, up), flags.format, flags.conflict)
                    /\ Sync(flags, containers, up, file) = Outcome(flags, up, file, merged)
  BY DEF Sync
<1>2. /\ FlagsAccepted(flags) /\ merged.error = ""
      /\ Sync(flags, containers, up, file).file = Stored(file, flags.format, merged.doc)
  <2>1. Outcome(flags, up, file, merged).file # file
    BY <1>1, Zenon
  <2>2. \/ Outcome(flags, up, file, merged).file = file
        \/ /\ FlagsAccepted(flags) /\ merged.error = ""
           /\ Outcome(flags, up, file, merged).file = Stored(file, flags.format, merged.doc)
    BY OutcomeOnFile, Zenon
  <2>. QED
    BY <1>1, <2>1, <2>2, Zenon
<1>3. flags.format \in Formats
  BY <1>2 DEF FlagsAccepted
<1>. QED
  BY <1>1, <1>2, <1>3, MergedHasShape

\* What it puts there is beside what is there.
LEMMA StoredBeside ==
  ASSUME FileOK, NEW format \in Formats, NEW doc,
         IF format = "homepage" THEN file.shape \in {"absent", "list"}
         ELSE file.shape \in {"absent", "map"},
         file' = Stored(file, format, doc)
  PROVE  /\ FileOK'
         /\ \A key \in DOMAIN file.lists \ {ListKey(format)} :
              /\ file'.shape = file.shape
              /\ key \in DOMAIN file'.lists
              /\ file'.lists[key] = file.lists[key]
<1>1. /\ file' = [shape |-> file'.shape, lists |-> file'.lists]
      /\ file'.shape = IF format = "homepage" THEN "list" ELSE "map"
      /\ DOMAIN file'.lists = DOMAIN file.lists \cup {ListKey(format)}
      /\ \A key \in DOMAIN file.lists \ {ListKey(format)} : file'.lists[key] = file.lists[key]
  BY DEF Stored
<1>2. CASE format = "homepage"
  <2>1. ListKey(format) = "root"
    BY <1>2 DEF ListKey
  <2>. QED
    BY <1>1, <1>2, <2>1 DEF FileOK
<1>3. CASE format # "homepage"
  <2>1. ListKey(format) \in {"services", "sections"}
    BY <1>3 DEF ListKey, Formats
  <2>2. "root" \notin DOMAIN file.lists
    BY <1>3 DEF FileOK
  <2>. QED
    BY <1>1, <1>3, <2>1, <2>2 DEF FileOK
<1>. QED
  BY <1>2, <1>3

\* What a step does to the file: a person or a run, and then what a run said.
LEMMA StepOnFile ==
  ASSUME FileOK, [Next]_vars
  PROVE  /\ FileOK'
         /\ \/ file' = file
            \/ said'.command # "sync"
            \/ /\ said'.flags.format \in Formats
               /\ \A key \in DOMAIN file.lists \ {ListKey(said'.flags.format)} :
                    /\ file'.shape = file.shape
                    /\ key \in DOMAIN file'.lists
                    /\ file'.lists[key] = file.lists[key]
<1>1. CASE file' = file
  BY <1>1 DEF FileOK
<1>2. CASE RunSync /\ file' # file
  <2>1. PICK flags \in FlagSets, up \in Answering :
               /\ said'.command = "sync" /\ said'.flags = flags
               /\ file' = Sync(flags, docker, up, file).file
    BY <1>2 DEF RunSync
  <2>2. /\ flags.format \in Formats
        /\ IF flags.format = "homepage" THEN file.shape \in {"absent", "list"}
           ELSE file.shape \in {"absent", "map"}
        /\ \E doc : file' = Stored(file, flags.format, doc)
    BY <1>2, <2>1, SyncWrites
  <2>. QED
    BY <2>1, <2>2, StoredBeside
<1>3. CASE PersonEdits
  <2>1. said' = said /\ said = Silence
    BY <1>3 DEF PersonEdits
  <2>2. said'.command # "sync"
    BY <2>1 DEF Silence
  <2>3. PICK key, list :
          file' = [file EXCEPT !.lists[key] = list]
    BY <1>3 DEF PersonEdits
  <2>4. /\ file' = [shape |-> file'.shape, lists |-> file'.lists]
        /\ file'.shape = file.shape /\ DOMAIN file'.lists = DOMAIN file.lists
    BY <2>3 DEF FileOK
  <2>5. FileOK'
    BY <2>4 DEF FileOK
  <2>. QED
    BY <2>2, <2>5
<1>4. CASE RunInspect \/ Prompt \/ DockerChanges \/ UNCHANGED vars
  BY <1>1, <1>4 DEF RunInspect, Prompt, DockerChanges, vars
<1>. QED
  BY <1>1, <1>2, <1>3, <1>4 DEF Next

\* The file always has one of the three shapes.
LEMMA ShapeKept == Spec => []FileOK
<1>1. Init => FileOK
  BY CommandAssumption DEF Init, FileOK
<1>2. FileOK /\ [Next]_vars => FileOK'
  BY StepOnFile
<1>. QED
  BY <1>1, <1>2, PTL DEF Spec

\* NamedGroupAdapter.GroupSequence: no sequence of commands, changes and edits,
\* whatever files there are, makes a command touch what is not its format's.
THEOREM OthersAreSafe == Spec => OthersListsKept
<1>. DEFINE Kept ==
       said'.command = "sync" =>
         \A key \in DOMAIN file.lists :
           key \notin {ListKey(format) : format \in Formats \cap {said'.flags.format}}
             => /\ file'.shape = file.shape
                /\ key \in DOMAIN file'.lists
                /\ file'.lists[key] = file.lists[key]
<1>1. FileOK /\ [Next]_vars => [Kept]_vars
  BY StepOnFile
<1>2. Spec => [][Kept]_vars
  BY <1>1, ShapeKept, PTL DEF Spec
<1>. QED
  BY <1>2 DEF OthersListsKept

-----------------------------------------------------------------------------
(***************************************************************************)
(* What becomes of a Homepage entry's labels.                              *)
(***************************************************************************)
\* What f ++ g holds: all that f does, and of g the rest.
LEMMA Beside ==
  ASSUME NEW f, NEW g
  PROVE  /\ DOMAIN (f ++ g) = DOMAIN f \cup DOMAIN g
         /\ \A x \in DOMAIN f : (f ++ g)[x] = f[x]
         /\ \A x \in DOMAIN g \ DOMAIN f : (f ++ g)[x] = g[x]
BY DEF ++

\* flatExtraFields leaves nothing that begins like the widget, so the widget
\* is what widgetField put there.  It takes no assumption about the labels.
LEMMA WidgetAlone ==
  ASSUME NEW s
  PROVE  LET options == widgetFields(s.extra)
             fields  == entryFields(s)
             widgets == {name \in DOMAIN fields : name[1] \in ReservedWords}
         IN  IF DOMAIN options = {} THEN widgets = {}
             ELSE widgets = {<<"widget">>} /\ fields[<<"widget">>] = options
<1>. DEFINE options == widgetFields(s.extra)
            flat == flatExtraFields(s.extra)
            w == widgetField(s)
            plain(word, value) == Field(word, value)
<1>1. ASSUME NEW name \in DOMAIN flat PROVE name[1] \notin ReservedWords
  BY <1>1 DEF flatExtraFields, Without
<1>2. ASSUME NEW word \in {"href", "icon", "description"}, NEW value, NEW name \in DOMAIN Field(word, value)
      PROVE  name[1] \notin ReservedWords
  <2>1. name = <<word>>
    BY <1>2 DEF Field
  <2>2. name[1] = word
    BY <2>1
  <2>. QED
    BY <2>2, WordsAssumption
<1>3. /\ DOMAIN w = IF DOMAIN options = {} THEN {} ELSE {<<"widget">>}
      /\ \A n \in DOMAIN w : w[n] = options
  BY DEF widgetField
<1>4. "widget" \in ReservedWords /\ <<"widget">>[1] = "widget"
  BY WordsAssumption
<1>. DEFINE href == Field("href", s.url)
            icon == Field("icon", s.icon)
            description == Field("description", s.description)
            fields == flat ++ w ++ href ++ icon ++ description
<1>5. entryFields(s) = fields
  BY DEF entryFields
<1>6. /\ \A name \in DOMAIN href : name[1] \notin ReservedWords
      /\ \A name \in DOMAIN icon : name[1] \notin ReservedWords
      /\ \A name \in DOMAIN description : name[1] \notin ReservedWords
  BY <1>2
<1>. HIDE DEF flat, w, href, icon, description, options
<1>. DEFINE two == flat ++ w
            three == two ++ href
            four == three ++ icon
<1>a. DOMAIN two = DOMAIN flat \cup DOMAIN w /\ \A x \in DOMAIN w \ DOMAIN flat : two[x] = w[x]
  BY Beside
<1>. HIDE DEF two
<1>b. DOMAIN three = DOMAIN two \cup DOMAIN href /\ \A x \in DOMAIN two : three[x] = two[x]
  BY Beside
<1>. HIDE DEF three
<1>c. DOMAIN four = DOMAIN three \cup DOMAIN icon /\ \A x \in DOMAIN three : four[x] = three[x]
  BY Beside
<1>. HIDE DEF four
<1>d. DOMAIN (four ++ description) = DOMAIN four \cup DOMAIN description /\ \A x \in DOMAIN four : (four ++ description)[x] = four[x]
  BY Beside
<1>e. fields = four ++ description
  BY DEF two, three, four
<1>. HIDE DEF fields
<1>7. DOMAIN fields = DOMAIN flat \cup DOMAIN w \cup DOMAIN href \cup DOMAIN icon \cup DOMAIN description
  BY <1>a, <1>b, <1>c, <1>d, <1>e
<1>8. ASSUME NEW name \in DOMAIN w PROVE fields[name] = w[name]
  <2>1. name[1] \in ReservedWords
    BY <1>3, <1>4
  <2>2. name \notin DOMAIN flat
    BY <1>1, <2>1
  <2>. QED
    BY <2>2, <1>a, <1>b, <1>c, <1>d, <1>e
<1>9. {name \in DOMAIN fields : name[1] \in ReservedWords} = DOMAIN w
  BY <1>1, <1>3, <1>4, <1>6, <1>7
<1>. QED
  BY <1>3, <1>5, <1>8, <1>9 DEF options

\* flatExtraFields: no label, mistyped or not, spoils or hides a widget option.
THEOREM WidgetsAreIntact == Spec => []WidgetsIntact
<1>1. WidgetsIntact
  BY WidgetAlone DEF WidgetsIntact
<1>. QED
  BY <1>1, PTL

-----------------------------------------------------------------------------
(***************************************************************************)
(* Label keys: what a prefix leaves of them, read back by putting the      *)
(* prefix in front again.                                                  *)
(***************************************************************************)
\* A key of one word.
LEMMA Single == ASSUME NEW S, NEW x \in S PROVE <<x>> \in Seq(S) /\ Len(<<x>>) = 1 /\ <<x>>[1] = x
OBVIOUS

\* A word in front of a key.
LEMMA InFront ==
  ASSUME NEW S, NEW x \in S, NEW q \in Seq(S)
  PROVE  /\ <<x>> \o q \in Seq(S)
         /\ Len(<<x>> \o q) = 1 + Len(q)
         /\ (<<x>> \o q)[1] = x
         /\ Len(q) > 0 => (<<x>> \o q)[2] = q[1]
<1>. DEFINE w == <<x>>
<1>1. w \in Seq(S) /\ Len(w) = 1 /\ w[1] = x
  BY Single
<1>. HIDE DEF w
<1>2. /\ w \o q \in Seq(S)
         /\ Len(w \o q) = 1 + Len(q)
         /\ (w \o q)[1] = x
         /\ Len(q) > 0 => (w \o q)[2] = q[1]
  BY <1>1
<1>. QED
  BY <1>2 DEF w

\* The first two words of a label key put together again.
LEMMA FullKey ==
  ASSUME NEW S, NEW x \in S, NEW p \in Seq(S), Len(p) > 0, NEW rest \in Seq(S), rest # <<>>
  PROVE  /\ (<<x>> \o (p \o rest))[1] = x
         /\ Len(<<x>> \o (p \o rest)) > 2
         /\ (<<x>> \o (p \o rest))[2] = p[1]
<1>. DEFINE q == p \o rest
<1>1. Len(rest) # 0 /\ Len(rest) \in Nat /\ Len(p) \in Nat
  OBVIOUS
<1>2. q \in Seq(S) /\ Len(q) = Len(p) + Len(rest) /\ q[1] = p[1]
  BY <1>1
<1>. HIDE DEF q
<1>3. Len(q) \in Nat /\ Len(q) > 1
  BY <1>1, <1>2
<1>4. /\ Len(<<x>> \o q) = 1 + Len(q)
      /\ (<<x>> \o q)[1] = x /\ (<<x>> \o q)[2] = q[1]
  BY <1>2, <1>3, InFront
<1>. QED
  BY <1>2, <1>3, <1>4 DEF q

\* What may follow the prefix in a key of f.
RestsUnder(prefix, f) == {rest \in Seq(Words) : rest \notin {<<>>, <<"">>} /\ prefix \o rest \in DOMAIN f}

\* A key that goes on after p is p and what follows.
LEMMA CutPrefix ==
  ASSUME NEW p \in Seq(Words), NEW key \in Seq(Words), IsStrictPrefix(p, key)
  PROVE  LET rest == SubSeq(key, Len(p) + 1, Len(key))
         IN  rest \in Seq(Words) /\ rest # <<>> /\ key = p \o rest
<1>. DEFINE m == Len(p)
            n == Len(key)
            rest == SubSeq(key, m + 1, n)
<1>1. m \in Nat /\ n \in Nat /\ m <= n /\ SubSeq(p, 1, m) = SubSeq(key, 1, m) /\ p # key
  BY DEF IsStrictPrefix, IsPrefix
<1>2. \A i \in 1 .. m : key[i] = p[i]
  <2>1. \A i \in 1 .. m : SubSeq(p, 1, m)[i] = p[i] /\ SubSeq(key, 1, m)[i] = key[i]
    BY <1>1
  <2>. QED
    BY <1>1, <2>1
<1>3. m # n
  <2>1. ASSUME m = n PROVE FALSE
    <3>1. p = key
      BY <1>2, <2>1
    <3>. QED
      BY <1>1, <3>1
  <2>. QED
    BY <2>1
<1>4. rest \in Seq(Words) /\ Len(rest) = n - m /\ \A i \in 1 .. (n - m) : rest[i] = key[m + i]
  BY <1>1
<1>5. rest # <<>>
  <2>1. Len(rest) # 0
    BY <1>1, <1>3, <1>4
  <2>. HIDE DEF rest
  <2>2. ASSUME rest = <<>> PROVE FALSE
    BY <2>1, <2>2
  <2>. QED
    BY <2>2
<1>6. key = p \o rest
  <2>1. Len(p \o rest) = n /\ p \o rest \in Seq(Words)
    BY <1>1, <1>4
  <2>2. \A i \in 1 .. n : (p \o rest)[i] = key[i]
    BY <1>1, <1>2, <1>4
  <2>. QED
    BY <2>1, <2>2
<1>. QED
  BY <1>4, <1>5, <1>6

\* p and something is a key that goes on after p.
LEMMA PrefixOf ==
  ASSUME NEW p \in Seq(Words), NEW rest \in Seq(Words), rest # <<>>
  PROVE  /\ IsStrictPrefix(p, p \o rest)
         /\ SubSeq(p \o rest, Len(p) + 1, Len(p \o rest)) = rest
<1>1. Len(p \o rest) = Len(p) + Len(rest) /\ Len(p) \in Nat /\ Len(rest) \in Nat /\ Len(rest) # 0
  OBVIOUS
<1>2. SubSeq(p, 1, Len(p)) = SubSeq(p \o rest, 1, Len(p))
  OBVIOUS
<1>3. p # p \o rest
  BY <1>1
<1>4. SubSeq(p \o rest, Len(p) + 1, Len(p \o rest)) = rest
  BY <1>1
<1>. QED
  BY <1>1, <1>2, <1>3, <1>4 DEF IsStrictPrefix, IsPrefix

\* Under, by its keys rather than by how it cuts them.
LEMMA UnderIs ==
  ASSUME NEW f, DOMAIN f \subseteq Seq(Words), NEW p \in Seq(Words)
  PROVE  Under(p, f) = [rest \in RestsUnder(p, f) |-> f[p \o rest]]
<1>. DEFINE keys == {key \in DOMAIN f : IsStrictPrefix(p, key)}
            rests == {SubSeq(key, Len(p) + 1, Len(key)) : key \in keys} \ {<<"">>}
<1>1. ASSUME NEW rest \in rests PROVE rest \in RestsUnder(p, f)
  <2>1. PICK key \in keys : rest = SubSeq(key, Len(p) + 1, Len(key))
    OBVIOUS
  <2>2. rest \in Seq(Words) /\ rest # <<>> /\ key = p \o rest
    BY <2>1, CutPrefix
  <2>. QED
    BY <2>2 DEF RestsUnder
<1>2. ASSUME NEW rest \in RestsUnder(p, f) PROVE rest \in rests
  <2>1. rest \in Seq(Words) /\ rest # <<>> /\ rest # <<"">> /\ p \o rest \in DOMAIN f
    BY DEF RestsUnder
  <2>2. p \o rest \in keys /\ SubSeq(p \o rest, Len(p) + 1, Len(p \o rest)) = rest
    BY <2>1, PrefixOf
  <2>. QED
    BY <2>1, <2>2
<1>3. rests = RestsUnder(p, f)
  BY <1>1, <1>2
<1>4. Under(p, f) = [rest \in rests |-> f[p \o rest]]
  BY DEF Under
<1>. QED
  BY <1>3, <1>4

\* The labels a format may look at.
Own(labels, format) ==
  {key \in DOMAIN labels : /\ key[1] = "dashsync" /\ Len(key) > 1
                           /\ Len(key) = 2 \/ key[2] = format}

\* Two sets of labels in which it sees the same.
LabelsAgree(l1, l2, format) ==
  /\ DOMAIN l1 \subseteq Seq(Words) /\ DOMAIN l2 \subseteq Seq(Words)
  /\ Own(l1, format) = Own(l2, format)
  /\ \A key \in Own(l1, format) : l1[key] = l2[key]

\* The labels that every format reads are among those.
LEMMA LabelsRead ==
  ASSUME NEW l1, NEW l2, NEW format, LabelsAgree(l1, l2, format), NEW word
  PROVE  Label(l1, word) = Label(l2, word)
<1>. DEFINE key == <<"dashsync", word>>
<1>1. key[1] = "dashsync" /\ Len(key) > 1 /\ Len(key) = 2
  OBVIOUS
<1>2. (key \in DOMAIN l1 <=> key \in Own(l1, format)) /\ (key \in DOMAIN l2 <=> key \in Own(l2, format))
  BY <1>1 DEF Own
<1>. HIDE DEF key
<1>. QED
  BY <1>2 DEF Label, LabelsAgree, key

\* Service.Extra, from the labels.
Extra(labels) == Without(Under(<<"dashsync">>, labels), KnownLabelKeys)

\* Its keys are label keys without their first word.
LEMMA ExtraIs ==
  ASSUME NEW labels, DOMAIN labels \subseteq Seq(Words)
  PROVE  /\ DOMAIN Extra(labels) = RestsUnder(<<"dashsync">>, labels) \ KnownLabelKeys
         /\ \A rest \in DOMAIN Extra(labels) : Extra(labels)[rest] = labels[<<"dashsync">> \o rest]
<1>1. <<"dashsync">> \in Seq(Words)
  BY WordsAssumption, Single
<1>2. Under(<<"dashsync">>, labels)
        = [rest \in RestsUnder(<<"dashsync">>, labels) |-> labels[<<"dashsync">> \o rest]]
  BY <1>1, UnderIs
<1>3. Extra(labels) = [rest \in RestsUnder(<<"dashsync">>, labels) \ KnownLabelKeys |-> labels[<<"dashsync">> \o rest]]
  BY <1>2 DEF Extra, Without
<1>. QED
  BY <1>3

\* What is under a prefix that begins with the format comes from those labels,
\* too: putting "dashsync" and the prefix back gives a key of that format.
LEMMA ExtrasAgree ==
  ASSUME NEW l1, NEW l2, NEW format \in Words, LabelsAgree(l1, l2, format),
         NEW p \in Seq(Words), Len(p) > 0, p[1] = format
  PROVE  Under(p, Extra(l1)) = Under(p, Extra(l2))
<1>. DEFINE D(l) == RestsUnder(p, Extra(l))
            full(rest) == <<"dashsync">> \o (p \o rest)
<1>1. /\ DOMAIN l1 \subseteq Seq(Words) /\ DOMAIN l2 \subseteq Seq(Words)
      /\ Own(l1, format) = Own(l2, format)
      /\ \A key \in Own(l1, format) : l1[key] = l2[key]
  BY DEF LabelsAgree
<1>2. ASSUME NEW l, DOMAIN l \subseteq Seq(Words)
      PROVE  /\ DOMAIN Extra(l) \subseteq Seq(Words)
             /\ Under(p, Extra(l)) = [rest \in D(l) |-> Extra(l)[p \o rest]]
             /\ \A rest \in D(l) : Extra(l)[p \o rest] = l[full(rest)]
             /\ D(l) = {rest \in Seq(Words) : /\ rest \notin {<<>>, <<"">>}
                                              /\ p \o rest \notin KnownLabelKeys \cup {<<>>, <<"">>}
                                              /\ full(rest) \in Own(l, format)}
  <2>1. DOMAIN Extra(l) \subseteq Seq(Words)
    BY <1>2, ExtraIs DEF RestsUnder
  <2>2. Under(p, Extra(l)) = [rest \in D(l) |-> Extra(l)[p \o rest]]
    BY <2>1, UnderIs
  <2>3. \A rest \in D(l) : p \o rest \in DOMAIN Extra(l)
    BY DEF RestsUnder
  <2>4. \A rest \in D(l) : Extra(l)[p \o rest] = l[full(rest)]
    BY <1>2, <2>3, ExtraIs
  <2>5. ASSUME NEW rest \in Seq(Words), rest # <<>>
        PROVE  full(rest)[1] = "dashsync" /\ Len(full(rest)) > 2 /\ full(rest)[2] = format
    <3>1. "dashsync" \in Words
      BY WordsAssumption
    <3>. DEFINE key == <<"dashsync">> \o (p \o rest)
    <3>2. key[1] = "dashsync" /\ Len(key) > 2 /\ key[2] = p[1]
      BY <2>5, <3>1, FullKey
    <3>. HIDE DEF key
    <3>3. key[1] = "dashsync" /\ Len(key) > 2 /\ key[2] = format
      BY <3>2
    <3>4. full(rest) = key
      BY DEF key
    <3>. QED
      BY <3>3, <3>4
  <2>. HIDE DEF full
  <2>6. ASSUME NEW rest \in Seq(Words), rest # <<>>
        PROVE  full(rest) \in DOMAIN l <=> full(rest) \in Own(l, format)
    BY <2>5, <2>6 DEF Own
  <2>7. ASSUME NEW rest \in Seq(Words)
        PROVE  p \o rest \in Seq(Words)
    OBVIOUS
  <2>8. ASSUME NEW rest \in Seq(Words), rest # <<>>
        PROVE  p \o rest \in DOMAIN Extra(l)
                 <=> p \o rest \notin KnownLabelKeys \cup {<<>>, <<"">>} /\ full(rest) \in Own(l, format)
    <3>1. p \o rest \in DOMAIN Extra(l)
             <=> p \o rest \notin KnownLabelKeys \cup {<<>>, <<"">>} /\ <<"dashsync">> \o (p \o rest) \in DOMAIN l
      BY <1>2, <2>7, ExtraIs DEF RestsUnder
    <3>. QED
      BY <3>1, <2>6, <2>8 DEF full
  <2>9. D(l) = {rest \in Seq(Words) : /\ rest \notin {<<>>, <<"">>}
                                       /\ p \o rest \notin KnownLabelKeys \cup {<<>>, <<"">>}
                                       /\ full(rest) \in Own(l, format)}
    BY <2>8 DEF RestsUnder
  <2>. QED
    BY <2>1, <2>2, <2>4, <2>9
<1>3. D(l1) = D(l2)
  BY <1>1, <1>2
<1>4. ASSUME NEW rest \in D(l1) PROVE Extra(l1)[p \o rest] = Extra(l2)[p \o rest]
  <2>1. full(rest) \in Own(l1, format)
    BY <1>1, <1>2
  <2>. HIDE DEF D, full
  <2>. QED
    BY <1>1, <1>2, <1>3, <2>1
<1>5. Under(p, Extra(l1)) = [rest \in D(l1) |-> Extra(l1)[p \o rest]]
  BY <1>1, <1>2
<1>6. Under(p, Extra(l2)) = [rest \in D(l2) |-> Extra(l2)[p \o rest]]
  BY <1>1, <1>2
<1>. HIDE DEF D
<1>. QED
  BY <1>3, <1>4, <1>5, <1>6

\* What a format may see of a container, of the labels and the ports.
LEMMA RelevantIs ==
  ASSUME NEW c1, NEW c2, NEW format,
         DOMAIN c1.labels \subseteq Seq(Words), DOMAIN c2.labels \subseteq Seq(Words),
         Relevant(c1, format) = Relevant(c2, format)
  PROVE  /\ LabelsAgree(c1.labels, c2.labels, format)
         /\ LET P(c) == {p \in ToSet(c.ports) : p.type = "tcp" /\ p.public # 0}
            IN  Label(c1.labels, "url") = "" => P(c1) = P(c2)
<1>. DEFINE P(c) == {p \in ToSet(c.ports) : p.type = "tcp" /\ p.public # 0}
            L(c) == [key \in Own(c.labels, format) |-> c.labels[key]]
            Q(c) == IF Label(c.labels, "url") = "" THEN P(c) ELSE {}
<1>1. Relevant(c1, format) = [labels |-> L(c1), ports |-> Q(c1)]
  BY DEF Relevant, Own
<1>2. Relevant(c2, format) = [labels |-> L(c2), ports |-> Q(c2)]
  BY DEF Relevant, Own
<1>. HIDE DEF L, Q
<1>3. L(c1) = L(c2) /\ Q(c1) = Q(c2)
  <2>1. [labels |-> L(c1), ports |-> Q(c1)] = [labels |-> L(c2), ports |-> Q(c2)]
    BY <1>1, <1>2
  <2>. DEFINE l1 == L(c1)
              l2 == L(c2)
              q1 == Q(c1)
              q2 == Q(c2)
              r == [labels |-> l1, ports |-> q1]
  <2>2. r = [labels |-> l2, ports |-> q2]
    BY <2>1
  <2>. HIDE DEF l1, l2, q1, q2
  <2>3. r.labels = l1 /\ r.ports = q1
    OBVIOUS
  <2>4. r.labels = l2 /\ r.ports = q2
    BY <2>2
  <2>5. l1 = l2 /\ q1 = q2
    BY <2>3, <2>4
  <2>. QED
    BY <2>5 DEF l1, l2, q1, q2
<1>4. LabelsAgree(c1.labels, c2.labels, format)
  BY <1>3 DEF LabelsAgree, L
<1>5. Label(c1.labels, "url") = Label(c2.labels, "url")
  BY <1>4, LabelsRead
<1>. HIDE DEF P
<1>6. Label(c1.labels, "url") = "" => P(c1) = P(c2)
  BY <1>3, <1>5 DEF Q
<1>. QED
  BY <1>4, <1>6 DEF P

\* Two listings with the same published tcp ports have the same lowest one.
LEMMA PortsAgree ==
  ASSUME NEW X, \A p \in X : p.public \in Nat, NEW a \in Seq(X), NEW b \in Seq(X),
         {p \in ToSet(a) : p.type = "tcp" /\ p.public # 0} = {p \in ToSet(b) : p.type = "tcp" /\ p.public # 0}
  PROVE  lowestPort(a) = lowestPort(b)
<1>1. Published(ToSet(a)) = Published(ToSet(b))
  BY DEF Published
<1>2. ASSUME NEW s \in Seq(X)
      PROVE  lowestPort(s) = IF Published(ToSet(s)) = {} THEN 0 ELSE Min(Published(ToSet(s)))
  <2>1. /\ \A p \in ToSet(s) : p.public \in Nat
        /\ s \in Seq(ToSet(s))
    BY DEF ToSet
  <2>. QED
    BY <2>1, LowestPort
<1>. QED
  BY <1>1, <1>2

\* The body of an entry is made of the common fields and of what is under its
\* own format in the extra fields.
LEMMA SameBody ==
  ASSUME NEW s1, NEW s2, NEW format \in Formats,
         s1.name = s2.name, s1.url = s2.url, s1.icon = s2.icon, s1.description = s2.description,
         NEW l1, NEW l2, LabelsAgree(l1, l2, format),
         s1.extra = Extra(l1), s2.extra = Extra(l2)
  PROVE  RenderEntry(s1, format) = RenderEntry(s2, format)
<1>1. format \in Words /\ <<format>> \in Seq(Words) /\ Len(<<format>>) > 0 /\ <<format>>[1] = format
  <2>1. format \in Words
    BY WordsAssumption DEF Formats
  <2>. QED
    BY <2>1, Single
<1>2. Under(<<format>>, s1.extra) = Under(<<format>>, s2.extra)
  <2>. DEFINE p == <<format>>
  <2>1. p \in Seq(Words) /\ Len(p) > 0 /\ p[1] = format
    BY <1>1
  <2>. HIDE DEF p
  <2>2. Under(p, s1.extra) = Under(p, s2.extra)
    BY <1>1, <2>1, ExtrasAgree
  <2>. QED
    BY <2>2 DEF p
<1>3. CASE format = "homepage"
  <2>. DEFINE p == <<"homepage", "widget">>
  <2>1. p \in Seq(Words) /\ Len(p) > 0 /\ p[1] = format
    <3>1. "homepage" \in Words /\ "widget" \in Words
      BY WordsAssumption
    <3>2. <<"homepage", "widget">> \in Seq(Words)
      BY <3>1
    <3>3. Len(<<"homepage", "widget">>) > 0 /\ <<"homepage", "widget">>[1] = "homepage"
      OBVIOUS
    <3>. QED
      BY <1>3, <3>2, <3>3
  <2>. HIDE DEF p
  <2>2. Under(p, s1.extra) = Under(p, s2.extra)
    BY <1>1, <2>1, ExtrasAgree
  <2>3. flatExtraFields(s1.extra) = flatExtraFields(s2.extra) /\ widgetField(s1) = widgetField(s2)
    BY <1>2, <1>3, <2>2 DEF flatExtraFields, widgetField, widgetFields, p
  <2>4. entryFields(s1) = entryFields(s2)
    BY <2>3 DEF entryFields
  <2>. QED
    BY <1>3, <2>4 DEF RenderEntry
<1>4. CASE format # "homepage"
  <2>1. itemFields(s1, format) = itemFields(s2, format)
    BY <1>2 DEF itemFields, extraFields
  <2>. QED
    BY <1>4, <2>1 DEF RenderEntry
<1>. QED
  BY <1>3, <1>4

\* What there is to know of a container that runs.
ContainerOK(c) ==
  DOMAIN c.labels \subseteq Seq(Words) /\ c.ports \in Seq([public : Nat, type : STRING])

\* Two containers that look the same to a format are opted in alike, and it
\* wants the same entry of each.
LEMMA LooksMatter ==
  ASSUME NEW source, NEW host, NEW c1, NEW c2, ContainerOK(c1), ContainerOK(c2),
         NEW format \in Formats, Relevant(c1, format) = Relevant(c2, format)
  PROVE  /\ OptedIn(c1) = OptedIn(c2)
         /\ Wanted(ParseLabels(source, c1, host), format) = Wanted(ParseLabels(source, c2, host), format)
<1>. DEFINE s(c) == ParseLabels(source, c, host)
<1>1. LabelsAgree(c1.labels, c2.labels, format)
  BY RelevantIs DEF ContainerOK
<1>2. \A word : Label(c1.labels, word) = Label(c2.labels, word)
  BY <1>1, LabelsRead
<1>3. OptedIn(c1) = OptedIn(c2)
  BY <1>2 DEF OptedIn
<1>4. s(c1).url = s(c2).url
  <2>1. CASE Label(c1.labels, "url") = ""
    <3>1. lowestPort(c1.ports) = lowestPort(c2.ports)
      <4>1. {p \in ToSet(c1.ports) : p.type = "tcp" /\ p.public # 0}
              = {p \in ToSet(c2.ports) : p.type = "tcp" /\ p.public # 0}
        BY <2>1, RelevantIs DEF ContainerOK
      <4>. QED
        <5>1. \A p \in [public : Nat, type : STRING] : p.public \in Nat
          OBVIOUS
        <5>2. c1.ports \in Seq([public : Nat, type : STRING]) /\ c2.ports \in Seq([public : Nat, type : STRING])
          BY DEF ContainerOK
        <5>. QED
          BY <4>1, <5>1, <5>2, PortsAgree, Zenon
    <3>. QED
      BY <1>2, <3>1 DEF ParseLabels
  <2>2. CASE Label(c1.labels, "url") # ""
    BY <1>2, <2>2 DEF ParseLabels, firstNonEmpty
  <2>. QED
    BY <2>1, <2>2
<1>5. /\ s(c1).id = s(c2).id /\ s(c1).group = s(c2).group /\ s(c1).name = s(c2).name
      /\ s(c1).icon = s(c2).icon /\ s(c1).description = s(c2).description
  BY <1>2 DEF ParseLabels
<1>6. s(c1).extra = Extra(c1.labels) /\ s(c2).extra = Extra(c2.labels)
  BY DEF ParseLabels, Extra
<1>. HIDE DEF s
<1>7. RenderEntry(s(c1), format) = RenderEntry(s(c2), format)
  BY <1>1, <1>4, <1>5, <1>6, SameBody
<1>8. Wanted(s(c1), format) = Wanted(s(c2), format)
  BY <1>5, <1>7 DEF Wanted
<1>. QED
  BY <1>3, <1>8 DEF s

\* What runs is what may run there.
DockerOK ==
  /\ docker = [source \in Sources |-> docker[source]]
  /\ \A source \in Sources : docker[source] \in Containers[source] \cup {Nothing}

\* It stays so.
LEMMA DockerKept == Spec => []DockerOK
<1>1. Init => DockerOK
  BY ContainersAssumption DEF Init, DockerOK, Sources
<1>2. DockerOK /\ [Next]_vars => DockerOK'
  <2>1. ASSUME DockerOK, DockerChanges PROVE DockerOK'
    BY <2>1 DEF DockerOK, DockerChanges
  <2>. QED
    BY <2>1 DEF DockerOK, Next, RunSync, RunInspect, Prompt, PersonEdits, vars
<1>. QED
  BY <1>1, <1>2, PTL DEF Spec

\* What a format wants of what runs there depends on what it may look at.
LEMMA LookingDecides ==
  ASSUME NEW d1, NEW d2, NEW format \in Formats,
         \A source \in Sources : d1[source] \in Containers[source] \cup {Nothing},
         \A source \in Sources : d2[source] \in Containers[source] \cup {Nothing},
         \A source \in Sources : LooksTheSame(d1[source], d2[source], format)
  PROVE  {Wanted(s, format) : s \in Discovered(d1, DOMAIN Hosts)}
           \subseteq {Wanted(s, format) : s \in Discovered(d2, DOMAIN Hosts)}
<1>. DEFINE host(source) == ResolveURLHost(Hosts[source[1]], "localhost")
            service(d, source) == ParseLabels(source, d[source], host(source))
            in(d) == {source \in Sources : /\ source[1] \in DOMAIN Hosts
                                           /\ d[source] # Nothing
                                           /\ OptedIn(d[source])}
<1>1. /\ Discovered(d1, DOMAIN Hosts) = {service(d1, source) : source \in in(d1)}
      /\ Discovered(d2, DOMAIN Hosts) = {service(d2, source) : source \in in(d2)}
  BY DEF Discovered
<1>2. ASSUME NEW source \in in(d1)
      PROVE  /\ source \in in(d2)
             /\ Wanted(service(d1, source), format) = Wanted(service(d2, source), format)
  <2>1. /\ source \in Sources /\ source[1] \in DOMAIN Hosts
        /\ d1[source] # Nothing /\ OptedIn(d1[source])
    OBVIOUS
  <2>2. CASE d1[source] = d2[source]
    BY <2>1, <2>2
  <2>3. CASE d1[source] # d2[source]
    <3>1. d2[source] # Nothing /\ Relevant(d1[source], format) = Relevant(d2[source], format)
      BY <2>1, <2>3 DEF LooksTheSame
    <3>2. ContainerOK(d1[source]) /\ ContainerOK(d2[source])
      BY <2>1, <3>1, ContainersAssumption DEF ContainerOK, Sources
    <3>3. OptedIn(d1[source]) = OptedIn(d2[source])
      BY <3>1, <3>2, LooksMatter
    <3>4. Wanted(service(d1, source), format) = Wanted(service(d2, source), format)
      BY <3>1, <3>2, LooksMatter
    <3>. QED
      BY <2>1, <3>1, <3>3, <3>4
  <2>. QED
    BY <2>2, <2>3
<1>. HIDE DEF service, in
<1>. QED
  BY <1>1, <1>2

\* urlFromPorts and ParseLabels: for any containers, labels, ports and hosts, a
\* change that says nothing new to a format changes none of its entries.
THEOREM InertChanges == Spec => IrrelevantChangesInert
<1>. DEFINE Inert ==
       docker' # docker =>
         \A format \in Formats :
           (\A source \in Sources : LooksTheSame(docker[source], docker'[source], format))
             => {Wanted(s, format) : s \in Discovered(docker, DOMAIN Hosts)}
                  = {Wanted(s, format) : s \in Discovered(docker', DOMAIN Hosts)}
<1>1. ASSUME DockerOK, DockerOK' PROVE Inert
  <2>. SUFFICES ASSUME NEW format \in Formats,
                       \A source \in Sources : LooksTheSame(docker[source], docker'[source], format)
                PROVE  {Wanted(s, format) : s \in Discovered(docker, DOMAIN Hosts)}
                         = {Wanted(s, format) : s \in Discovered(docker', DOMAIN Hosts)}
    OBVIOUS
  <2>1. \A source \in Sources : LooksTheSame(docker'[source], docker[source], format)
    BY DEF LooksTheSame
  <2>2. /\ \A source \in Sources : docker[source] \in Containers[source] \cup {Nothing}
        /\ \A source \in Sources : docker'[source] \in Containers[source] \cup {Nothing}
    BY <1>1 DEF DockerOK, Sources
  <2>. QED
    BY <2>1, <2>2, LookingDecides
<1>. HIDE DEF Inert
<1>2. DockerOK /\ DockerOK' => [Inert]_vars
  BY <1>1
<1>3. Spec => [][Inert]_vars
  BY <1>2, DockerKept, PTL
<1>. QED
  BY <1>3, PTL DEF IrrelevantChangesInert, Inert

-----------------------------------------------------------------------------
(***************************************************************************)
(* What is proved of module Merge holds of both its instances in Command:  *)
(* their operators are the same as those of the instances of MergeProofs.  *)
(***************************************************************************)
\* The list of one-key mappings of Homepage.
HomepageMerge == INSTANCE MergeProofs WITH Format <- "homepage", ServiceOrder <- IdOrder, NoName <- Nothing

\* The mapping with named groups of Homer and Dashy.
NamedMerge == INSTANCE MergeProofs WITH Format <- "named", ServiceOrder <- IdOrder, NoName <- Nothing

\* Looking an entry up, and what becomes of a service.
LEMMA HomepageVerdict ==
  /\ \A s : Homepage!Max(s) = HomepageMerge!Max(s)
  /\ \A w : Homepage!Failed(w) <=> HomepageMerge!Failed(w)
  /\ \A e : Homepage!IsManaged(e) <=> HomepageMerge!IsManaged(e)
  /\ \A items, svc, policy :
       /\ Homepage!Verdict(items, svc, policy) = HomepageMerge!Verdict(items, svc, policy)
       /\ Homepage!ApplyService(items, svc, policy) = HomepageMerge!ApplyService(items, svc, policy)
<1>1. \A s : Homepage!Max(s) = HomepageMerge!Max(s)
  BY DEF Homepage!Max, HomepageMerge!Max
<1>2. \A w : Homepage!Failed(w) <=> HomepageMerge!Failed(w)
  BY Zenon DEF Homepage!Failed, HomepageMerge!Failed, Homepage!Absent, HomepageMerge!Absent
<1>3. \A e : Homepage!IsManaged(e) <=> HomepageMerge!IsManaged(e)
  BY Zenon DEF Homepage!IsManaged, HomepageMerge!IsManaged, Homepage!IsMarker, HomepageMerge!IsMarker, Homepage!Absent, HomepageMerge!Absent
<1>4. \A items, id : Homepage!findManagedIndex(items, id) = HomepageMerge!findManagedIndex(items, id)
  BY DEF Homepage!findManagedIndex, HomepageMerge!findManagedIndex, Homepage!SelectInSeq, HomepageMerge!SelectInSeq, Homepage!Min, HomepageMerge!Min,
         Homepage!IsManaged, HomepageMerge!IsManaged, Homepage!IsMarker, HomepageMerge!IsMarker, Homepage!Absent, HomepageMerge!Absent
<1>5. \A items, svc, policy : Homepage!Verdict(items, svc, policy) = HomepageMerge!Verdict(items, svc, policy)
  BY <1>4 DEF Homepage!Verdict, HomepageMerge!Verdict, Homepage!HandEdited, HomepageMerge!HandEdited
<1>6. \A items, svc, policy : Homepage!ApplyService(items, svc, policy) = HomepageMerge!ApplyService(items, svc, policy)
  BY <1>4, <1>5 DEF Homepage!ApplyService, HomepageMerge!ApplyService, Homepage!Rendered, HomepageMerge!Rendered,
                    Homepage!buildMarker, HomepageMerge!buildMarker
<1>. QED
  BY <1>1, <1>2, <1>3, <1>5, <1>6

\* One service, and the loop over them.
LEMMA HomepageServices ==
  ASSUME NEW work, NEW gi, NEW policy, NEW services
  PROVE  Homepage!MergeServices(work, gi, services, policy) = HomepageMerge!MergeServices(work, gi, services, policy)
<1>1. ASSUME NEW w, NEW svc
      PROVE  Homepage!MergeService(w, gi, svc, policy) = HomepageMerge!MergeService(w, gi, svc, policy)
  <2>. DEFINE items == w.groups[gi].items
              change(verdict) == [kind |-> verdict, id |-> svc.id, group |-> w.groups[gi].name]
              Round(failed, verdict, applied, reported) ==
                IF failed THEN w
                ELSE IF verdict \in {"unreadable", "refused"} THEN [w EXCEPT !.error = verdict]
                ELSE [w EXCEPT !.groups[gi].items = applied,
                               !.changes = IF verdict \in reported
                                           THEN Append(@, change(verdict)) ELSE @]
  <2>1. Homepage!MergeService(w, gi, svc, policy)
          = Round(Homepage!Failed(w), Homepage!Verdict(items, svc, policy), Homepage!ApplyService(items, svc, policy),
                  Homepage!Reported)
    BY Zenon DEF Homepage!MergeService
  <2>2. HomepageMerge!MergeService(w, gi, svc, policy)
          = Round(HomepageMerge!Failed(w), HomepageMerge!Verdict(items, svc, policy), HomepageMerge!ApplyService(items, svc, policy),
                  HomepageMerge!Reported)
    BY Zenon DEF HomepageMerge!MergeService
  <2>3. Homepage!Reported = HomepageMerge!Reported
    BY DEF Homepage!Reported, HomepageMerge!Reported
  <2>4. Round(Homepage!Failed(w), Homepage!Verdict(items, svc, policy), Homepage!ApplyService(items, svc, policy),
              Homepage!Reported)
          = Round(HomepageMerge!Failed(w), HomepageMerge!Verdict(items, svc, policy), HomepageMerge!ApplyService(items, svc, policy),
                  HomepageMerge!Reported)
    BY <2>3, HomepageVerdict, Zenon
  <2>. HIDE DEF Round, items
  <2>. QED
    BY <2>1, <2>2, <2>4, Zenon
<1>. DEFINE D == DOMAIN services
            Ours(it) == it = [s \in SUBSET D |->
                                IF s = {} THEN work
                                ELSE Homepage!MergeService(it[s \ {Homepage!Max(s)}], gi, services[Homepage!Max(s)], policy)]
            Theirs(it) == it = [s \in SUBSET D |->
                                  IF s = {} THEN work
                                  ELSE HomepageMerge!MergeService(it[s \ {HomepageMerge!Max(s)}], gi, services[HomepageMerge!Max(s)], policy)]
<1>2. \A it : Ours(it) <=> Theirs(it)
  BY <1>1, HomepageVerdict
<1>3. (CHOOSE it : Ours(it)) = (CHOOSE it : Theirs(it))
  <2>. HIDE DEF Ours, Theirs
  <2>. QED
    BY <1>2, Zenon
<1>4. Homepage!MergeServices(work, gi, services, policy) = (CHOOSE it : Ours(it))[D]
  BY Zenon DEF Homepage!MergeServices, Homepage!FoldLeft, Homepage!MapThenFoldSet
<1>5. HomepageMerge!MergeServices(work, gi, services, policy) = (CHOOSE it : Theirs(it))[D]
  BY Zenon DEF HomepageMerge!MergeServices, HomepageMerge!FoldLeft, HomepageMerge!MapThenFoldSet
<1>. QED
  BY <1>3, <1>4, <1>5, Zenon

\* One group, and the loop over them.
LEMMA HomepageGroups ==
  ASSUME NEW work, NEW desired, NEW policy
  PROVE  Homepage!MergeGroups(work, desired, policy) = HomepageMerge!MergeGroups(work, desired, policy)
<1>1. \A groups, name : Homepage!GroupIndex(groups, name) = HomepageMerge!GroupIndex(groups, name)
  BY DEF Homepage!GroupIndex, HomepageMerge!GroupIndex, Homepage!SelectInSeq, HomepageMerge!SelectInSeq, Homepage!Min, HomepageMerge!Min
<1>2. \A groups, name :
        /\ Homepage!GroupIsBroken(groups, name) <=> HomepageMerge!GroupIsBroken(groups, name)
        /\ Homepage!FindOrCreateGroup(groups, name) = HomepageMerge!FindOrCreateGroup(groups, name)
  BY <1>1 DEF Homepage!GroupIsBroken, HomepageMerge!GroupIsBroken, Homepage!FindOrCreateGroup, HomepageMerge!FindOrCreateGroup
<1>3. ASSUME NEW w, NEW wanted
      PROVE  Homepage!MergeGroup(w, wanted, policy) = HomepageMerge!MergeGroup(w, wanted, policy)
  <2>. DEFINE Round(failed, broken, now) ==
                IF failed THEN w ELSE IF broken THEN [w EXCEPT !.error = "notList"] ELSE now
              Now(groups, gi) == Homepage!MergeServices([w EXCEPT !.groups = groups], gi, wanted.services, policy)
              ours == Homepage!FindOrCreateGroup(w.groups, wanted.name)
              theirs == HomepageMerge!FindOrCreateGroup(w.groups, wanted.name)
  <2>1. Homepage!MergeGroup(w, wanted, policy)
          = Round(Homepage!Failed(w), Homepage!GroupIsBroken(w.groups, wanted.name),
                  Now(ours, Homepage!GroupIndex(ours, wanted.name)))
    BY Zenon DEF Homepage!MergeGroup
  <2>2. HomepageMerge!MergeGroup(w, wanted, policy)
          = Round(HomepageMerge!Failed(w), HomepageMerge!GroupIsBroken(w.groups, wanted.name),
                  Now(theirs, HomepageMerge!GroupIndex(theirs, wanted.name)))
    BY HomepageServices, Zenon DEF HomepageMerge!MergeGroup
  <2>3. Round(Homepage!Failed(w), Homepage!GroupIsBroken(w.groups, wanted.name),
              Now(ours, Homepage!GroupIndex(ours, wanted.name)))
          = Round(HomepageMerge!Failed(w), HomepageMerge!GroupIsBroken(w.groups, wanted.name),
                  Now(theirs, HomepageMerge!GroupIndex(theirs, wanted.name)))
    BY <1>1, <1>2, HomepageVerdict, Zenon
  <2>. HIDE DEF Round, Now, ours, theirs
  <2>. QED
    BY <2>1, <2>2, <2>3, Zenon
<1>. DEFINE D == DOMAIN desired
            Ours(it) == it = [s \in SUBSET D |->
                                IF s = {} THEN work
                                ELSE Homepage!MergeGroup(it[s \ {Homepage!Max(s)}], desired[Homepage!Max(s)], policy)]
            Theirs(it) == it = [s \in SUBSET D |->
                                  IF s = {} THEN work
                                  ELSE HomepageMerge!MergeGroup(it[s \ {HomepageMerge!Max(s)}], desired[HomepageMerge!Max(s)], policy)]
<1>4. \A it : Ours(it) <=> Theirs(it)
  BY <1>3, HomepageVerdict
<1>5. (CHOOSE it : Ours(it)) = (CHOOSE it : Theirs(it))
  <2>. HIDE DEF Ours, Theirs
  <2>. QED
    BY <1>4, Zenon
<1>6. Homepage!MergeGroups(work, desired, policy) = (CHOOSE it : Ours(it))[D]
  BY Zenon DEF Homepage!MergeGroups, Homepage!FoldLeft, Homepage!MapThenFoldSet
<1>7. HomepageMerge!MergeGroups(work, desired, policy) = (CHOOSE it : Theirs(it))[D]
  BY Zenon DEF HomepageMerge!MergeGroups, HomepageMerge!FoldLeft, HomepageMerge!MapThenFoldSet
<1>. QED
  BY <1>5, <1>6, <1>7, Zenon

\* The whole call.
LEMMA HomepageSame ==
  ASSUME NEW doc, NEW desired, NEW policy
  PROVE  Homepage!Merge(doc, desired, policy) = HomepageMerge!Merge(doc, desired, policy)
<1>1. \A ss : Homepage!FlattenSeq(ss) = HomepageMerge!FlattenSeq(ss)
  BY DEF Homepage!FlattenSeq, HomepageMerge!FlattenSeq
<1>2. \A s : Homepage!ToSet(s) = HomepageMerge!ToSet(s)
  BY DEF Homepage!ToSet, HomepageMerge!ToSet
<1>3. \A s, Q : Homepage!Only(s, Q) = HomepageMerge!Only(s, Q)
  BY <1>1 DEF Homepage!Only, HomepageMerge!Only
<1>4. \A e, name : Homepage!Orphaned(e, name, desired) <=> HomepageMerge!Orphaned(e, name, desired)
  BY HomepageVerdict, Zenon DEF Homepage!Orphaned, HomepageMerge!Orphaned, Homepage!DesiredGroupOf, HomepageMerge!DesiredGroupOf,
                          Homepage!Absent, HomepageMerge!Absent
<1>5. \A group : Homepage!Orphans(group, desired) = HomepageMerge!Orphans(group, desired)
  BY <1>2, <1>4 DEF Homepage!Orphans, HomepageMerge!Orphans, Homepage!Sweepable, HomepageMerge!Sweepable
<1>6. \A group : /\ Homepage!SweepGroup(group, desired) = HomepageMerge!SweepGroup(group, desired)
                 /\ Homepage!Removals(group, desired) = HomepageMerge!Removals(group, desired)
  BY <1>2, <1>3, <1>5 DEF Homepage!SweepGroup, HomepageMerge!SweepGroup, Homepage!Removals, HomepageMerge!Removals
<1>. DEFINE Whole(some, failed, applied, swept, removed) ==
              LET Refused(error) == [error |-> error, doc |-> doc, changes |-> <<>>]
              IN  IF ~some THEN Refused("root")
                  ELSE IF failed THEN Refused(applied.error)
                  ELSE [error |-> Homepage!Absent, doc |-> [root |-> "groups", groups |-> swept],
                        changes |-> applied.changes \o removed]
            start == [error |-> Homepage!Absent, groups |-> doc.groups, changes |-> <<>>]
            applied == Homepage!MergeGroups(start, desired, policy)
            swept == [i \in DOMAIN applied.groups |-> Homepage!SweepGroup(applied.groups[i], desired)]
            removed == [i \in DOMAIN applied.groups |-> Homepage!Removals(applied.groups[i], desired)]
            swept2 == [i \in DOMAIN applied.groups |-> HomepageMerge!SweepGroup(applied.groups[i], desired)]
            removed2 == [i \in DOMAIN applied.groups |-> HomepageMerge!Removals(applied.groups[i], desired)]
<1>7. Homepage!Absent = HomepageMerge!Absent
  BY Zenon DEF Homepage!Absent, HomepageMerge!Absent
<1>8. Homepage!HasGroupSequence(doc) <=> HomepageMerge!HasGroupSequence(doc)
  BY DEF Homepage!HasGroupSequence, HomepageMerge!HasGroupSequence
<1>9. applied = HomepageMerge!MergeGroups(start, desired, policy)
  BY HomepageGroups
<1>10. swept = swept2 /\ removed = removed2
  BY <1>6
<1>11. Homepage!Merge(doc, desired, policy)
         = Whole(Homepage!HasGroupSequence(doc), Homepage!Failed(applied), applied, swept, Homepage!FlattenSeq(removed))
  BY Zenon DEF Homepage!Merge
<1>12. HomepageMerge!Merge(doc, desired, policy)
         = Whole(HomepageMerge!HasGroupSequence(doc), HomepageMerge!Failed(applied), applied, swept2, HomepageMerge!FlattenSeq(removed2))
  BY <1>7, <1>9, Zenon DEF HomepageMerge!Merge
<1>13. Whole(Homepage!HasGroupSequence(doc), Homepage!Failed(applied), applied, swept, Homepage!FlattenSeq(removed))
         = Whole(HomepageMerge!HasGroupSequence(doc), HomepageMerge!Failed(applied), applied, swept2, HomepageMerge!FlattenSeq(removed2))
  <2>. HIDE DEF swept, swept2, removed, removed2, applied
  <2>. QED
    BY <1>1, <1>8, <1>10, HomepageVerdict, Zenon
<1>. HIDE DEF Whole, applied, swept, swept2, removed, removed2
<1>. QED
  BY <1>11, <1>12, <1>13, Zenon

\* Looking an entry up, and what becomes of a service.
LEMMA NamedVerdict ==
  /\ \A s : Named!Max(s) = NamedMerge!Max(s)
  /\ \A w : Named!Failed(w) <=> NamedMerge!Failed(w)
  /\ \A e : Named!IsManaged(e) <=> NamedMerge!IsManaged(e)
  /\ \A items, svc, policy :
       /\ Named!Verdict(items, svc, policy) = NamedMerge!Verdict(items, svc, policy)
       /\ Named!ApplyService(items, svc, policy) = NamedMerge!ApplyService(items, svc, policy)
<1>1. \A s : Named!Max(s) = NamedMerge!Max(s)
  BY DEF Named!Max, NamedMerge!Max
<1>2. \A w : Named!Failed(w) <=> NamedMerge!Failed(w)
  BY Zenon DEF Named!Failed, NamedMerge!Failed, Named!Absent, NamedMerge!Absent
<1>3. \A e : Named!IsManaged(e) <=> NamedMerge!IsManaged(e)
  BY Zenon DEF Named!IsManaged, NamedMerge!IsManaged, Named!IsMarker, NamedMerge!IsMarker, Named!Absent, NamedMerge!Absent
<1>4. \A items, id : Named!findManagedIndex(items, id) = NamedMerge!findManagedIndex(items, id)
  BY DEF Named!findManagedIndex, NamedMerge!findManagedIndex, Named!SelectInSeq, NamedMerge!SelectInSeq, Named!Min, NamedMerge!Min,
         Named!IsManaged, NamedMerge!IsManaged, Named!IsMarker, NamedMerge!IsMarker, Named!Absent, NamedMerge!Absent
<1>5. \A items, svc, policy : Named!Verdict(items, svc, policy) = NamedMerge!Verdict(items, svc, policy)
  BY <1>4 DEF Named!Verdict, NamedMerge!Verdict, Named!HandEdited, NamedMerge!HandEdited
<1>6. \A items, svc, policy : Named!ApplyService(items, svc, policy) = NamedMerge!ApplyService(items, svc, policy)
  BY <1>4, <1>5 DEF Named!ApplyService, NamedMerge!ApplyService, Named!Rendered, NamedMerge!Rendered,
                    Named!buildMarker, NamedMerge!buildMarker
<1>. QED
  BY <1>1, <1>2, <1>3, <1>5, <1>6

\* One service, and the loop over them.
LEMMA NamedServices ==
  ASSUME NEW work, NEW gi, NEW policy, NEW services
  PROVE  Named!MergeServices(work, gi, services, policy) = NamedMerge!MergeServices(work, gi, services, policy)
<1>1. ASSUME NEW w, NEW svc
      PROVE  Named!MergeService(w, gi, svc, policy) = NamedMerge!MergeService(w, gi, svc, policy)
  <2>. DEFINE items == w.groups[gi].items
              change(verdict) == [kind |-> verdict, id |-> svc.id, group |-> w.groups[gi].name]
              Round(failed, verdict, applied, reported) ==
                IF failed THEN w
                ELSE IF verdict \in {"unreadable", "refused"} THEN [w EXCEPT !.error = verdict]
                ELSE [w EXCEPT !.groups[gi].items = applied,
                               !.changes = IF verdict \in reported
                                           THEN Append(@, change(verdict)) ELSE @]
  <2>1. Named!MergeService(w, gi, svc, policy)
          = Round(Named!Failed(w), Named!Verdict(items, svc, policy), Named!ApplyService(items, svc, policy),
                  Named!Reported)
    BY Zenon DEF Named!MergeService
  <2>2. NamedMerge!MergeService(w, gi, svc, policy)
          = Round(NamedMerge!Failed(w), NamedMerge!Verdict(items, svc, policy), NamedMerge!ApplyService(items, svc, policy),
                  NamedMerge!Reported)
    BY Zenon DEF NamedMerge!MergeService
  <2>3. Named!Reported = NamedMerge!Reported
    BY DEF Named!Reported, NamedMerge!Reported
  <2>4. Round(Named!Failed(w), Named!Verdict(items, svc, policy), Named!ApplyService(items, svc, policy),
              Named!Reported)
          = Round(NamedMerge!Failed(w), NamedMerge!Verdict(items, svc, policy), NamedMerge!ApplyService(items, svc, policy),
                  NamedMerge!Reported)
    BY <2>3, NamedVerdict, Zenon
  <2>. HIDE DEF Round, items
  <2>. QED
    BY <2>1, <2>2, <2>4, Zenon
<1>. DEFINE D == DOMAIN services
            Ours(it) == it = [s \in SUBSET D |->
                                IF s = {} THEN work
                                ELSE Named!MergeService(it[s \ {Named!Max(s)}], gi, services[Named!Max(s)], policy)]
            Theirs(it) == it = [s \in SUBSET D |->
                                  IF s = {} THEN work
                                  ELSE NamedMerge!MergeService(it[s \ {NamedMerge!Max(s)}], gi, services[NamedMerge!Max(s)], policy)]
<1>2. \A it : Ours(it) <=> Theirs(it)
  BY <1>1, NamedVerdict
<1>3. (CHOOSE it : Ours(it)) = (CHOOSE it : Theirs(it))
  <2>. HIDE DEF Ours, Theirs
  <2>. QED
    BY <1>2, Zenon
<1>4. Named!MergeServices(work, gi, services, policy) = (CHOOSE it : Ours(it))[D]
  BY Zenon DEF Named!MergeServices, Named!FoldLeft, Named!MapThenFoldSet
<1>5. NamedMerge!MergeServices(work, gi, services, policy) = (CHOOSE it : Theirs(it))[D]
  BY Zenon DEF NamedMerge!MergeServices, NamedMerge!FoldLeft, NamedMerge!MapThenFoldSet
<1>. QED
  BY <1>3, <1>4, <1>5, Zenon

\* One group, and the loop over them.
LEMMA NamedGroups ==
  ASSUME NEW work, NEW desired, NEW policy
  PROVE  Named!MergeGroups(work, desired, policy) = NamedMerge!MergeGroups(work, desired, policy)
<1>1. \A groups, name : Named!GroupIndex(groups, name) = NamedMerge!GroupIndex(groups, name)
  BY DEF Named!GroupIndex, NamedMerge!GroupIndex, Named!SelectInSeq, NamedMerge!SelectInSeq, Named!Min, NamedMerge!Min
<1>2. \A groups, name :
        /\ Named!GroupIsBroken(groups, name) <=> NamedMerge!GroupIsBroken(groups, name)
        /\ Named!FindOrCreateGroup(groups, name) = NamedMerge!FindOrCreateGroup(groups, name)
  BY <1>1 DEF Named!GroupIsBroken, NamedMerge!GroupIsBroken, Named!FindOrCreateGroup, NamedMerge!FindOrCreateGroup
<1>3. ASSUME NEW w, NEW wanted
      PROVE  Named!MergeGroup(w, wanted, policy) = NamedMerge!MergeGroup(w, wanted, policy)
  <2>. DEFINE Round(failed, broken, now) ==
                IF failed THEN w ELSE IF broken THEN [w EXCEPT !.error = "notList"] ELSE now
              Now(groups, gi) == Named!MergeServices([w EXCEPT !.groups = groups], gi, wanted.services, policy)
              ours == Named!FindOrCreateGroup(w.groups, wanted.name)
              theirs == NamedMerge!FindOrCreateGroup(w.groups, wanted.name)
  <2>1. Named!MergeGroup(w, wanted, policy)
          = Round(Named!Failed(w), Named!GroupIsBroken(w.groups, wanted.name),
                  Now(ours, Named!GroupIndex(ours, wanted.name)))
    BY Zenon DEF Named!MergeGroup
  <2>2. NamedMerge!MergeGroup(w, wanted, policy)
          = Round(NamedMerge!Failed(w), NamedMerge!GroupIsBroken(w.groups, wanted.name),
                  Now(theirs, NamedMerge!GroupIndex(theirs, wanted.name)))
    BY NamedServices, Zenon DEF NamedMerge!MergeGroup
  <2>3. Round(Named!Failed(w), Named!GroupIsBroken(w.groups, wanted.name),
              Now(ours, Named!GroupIndex(ours, wanted.name)))
          = Round(NamedMerge!Failed(w), NamedMerge!GroupIsBroken(w.groups, wanted.name),
                  Now(theirs, NamedMerge!GroupIndex(theirs, wanted.name)))
    BY <1>1, <1>2, NamedVerdict, Zenon
  <2>. HIDE DEF Round, Now, ours, theirs
  <2>. QED
    BY <2>1, <2>2, <2>3, Zenon
<1>. DEFINE D == DOMAIN desired
            Ours(it) == it = [s \in SUBSET D |->
                                IF s = {} THEN work
                                ELSE Named!MergeGroup(it[s \ {Named!Max(s)}], desired[Named!Max(s)], policy)]
            Theirs(it) == it = [s \in SUBSET D |->
                                  IF s = {} THEN work
                                  ELSE NamedMerge!MergeGroup(it[s \ {NamedMerge!Max(s)}], desired[NamedMerge!Max(s)], policy)]
<1>4. \A it : Ours(it) <=> Theirs(it)
  BY <1>3, NamedVerdict
<1>5. (CHOOSE it : Ours(it)) = (CHOOSE it : Theirs(it))
  <2>. HIDE DEF Ours, Theirs
  <2>. QED
    BY <1>4, Zenon
<1>6. Named!MergeGroups(work, desired, policy) = (CHOOSE it : Ours(it))[D]
  BY Zenon DEF Named!MergeGroups, Named!FoldLeft, Named!MapThenFoldSet
<1>7. NamedMerge!MergeGroups(work, desired, policy) = (CHOOSE it : Theirs(it))[D]
  BY Zenon DEF NamedMerge!MergeGroups, NamedMerge!FoldLeft, NamedMerge!MapThenFoldSet
<1>. QED
  BY <1>5, <1>6, <1>7, Zenon

\* The whole call.
LEMMA NamedSame ==
  ASSUME NEW doc, NEW desired, NEW policy
  PROVE  Named!Merge(doc, desired, policy) = NamedMerge!Merge(doc, desired, policy)
<1>1. \A ss : Named!FlattenSeq(ss) = NamedMerge!FlattenSeq(ss)
  BY DEF Named!FlattenSeq, NamedMerge!FlattenSeq
<1>2. \A s : Named!ToSet(s) = NamedMerge!ToSet(s)
  BY DEF Named!ToSet, NamedMerge!ToSet
<1>3. \A s, Q : Named!Only(s, Q) = NamedMerge!Only(s, Q)
  BY <1>1 DEF Named!Only, NamedMerge!Only
<1>4. \A e, name : Named!Orphaned(e, name, desired) <=> NamedMerge!Orphaned(e, name, desired)
  BY NamedVerdict, Zenon DEF Named!Orphaned, NamedMerge!Orphaned, Named!DesiredGroupOf, NamedMerge!DesiredGroupOf,
                          Named!Absent, NamedMerge!Absent
<1>5. \A group : Named!Orphans(group, desired) = NamedMerge!Orphans(group, desired)
  BY <1>2, <1>4 DEF Named!Orphans, NamedMerge!Orphans, Named!Sweepable, NamedMerge!Sweepable
<1>6. \A group : /\ Named!SweepGroup(group, desired) = NamedMerge!SweepGroup(group, desired)
                 /\ Named!Removals(group, desired) = NamedMerge!Removals(group, desired)
  BY <1>2, <1>3, <1>5 DEF Named!SweepGroup, NamedMerge!SweepGroup, Named!Removals, NamedMerge!Removals
<1>. DEFINE Whole(some, failed, applied, swept, removed) ==
              LET Refused(error) == [error |-> error, doc |-> doc, changes |-> <<>>]
              IN  IF ~some THEN Refused("root")
                  ELSE IF failed THEN Refused(applied.error)
                  ELSE [error |-> Named!Absent, doc |-> [root |-> "groups", groups |-> swept],
                        changes |-> applied.changes \o removed]
            start == [error |-> Named!Absent, groups |-> doc.groups, changes |-> <<>>]
            applied == Named!MergeGroups(start, desired, policy)
            swept == [i \in DOMAIN applied.groups |-> Named!SweepGroup(applied.groups[i], desired)]
            removed == [i \in DOMAIN applied.groups |-> Named!Removals(applied.groups[i], desired)]
            swept2 == [i \in DOMAIN applied.groups |-> NamedMerge!SweepGroup(applied.groups[i], desired)]
            removed2 == [i \in DOMAIN applied.groups |-> NamedMerge!Removals(applied.groups[i], desired)]
<1>7. Named!Absent = NamedMerge!Absent
  BY Zenon DEF Named!Absent, NamedMerge!Absent
<1>8. Named!HasGroupSequence(doc) <=> NamedMerge!HasGroupSequence(doc)
  BY DEF Named!HasGroupSequence, NamedMerge!HasGroupSequence
<1>9. applied = NamedMerge!MergeGroups(start, desired, policy)
  BY NamedGroups
<1>10. swept = swept2 /\ removed = removed2
  BY <1>6
<1>11. Named!Merge(doc, desired, policy)
         = Whole(Named!HasGroupSequence(doc), Named!Failed(applied), applied, swept, Named!FlattenSeq(removed))
  BY Zenon DEF Named!Merge
<1>12. NamedMerge!Merge(doc, desired, policy)
         = Whole(NamedMerge!HasGroupSequence(doc), NamedMerge!Failed(applied), applied, swept2, NamedMerge!FlattenSeq(removed2))
  BY <1>7, <1>9, Zenon DEF NamedMerge!Merge
<1>13. Whole(Named!HasGroupSequence(doc), Named!Failed(applied), applied, swept, Named!FlattenSeq(removed))
         = Whole(NamedMerge!HasGroupSequence(doc), NamedMerge!Failed(applied), applied, swept2, NamedMerge!FlattenSeq(removed2))
  <2>. HIDE DEF swept, swept2, removed, removed2, applied
  <2>. QED
    BY <1>1, <1>8, <1>10, NamedVerdict, Zenon
<1>. HIDE DEF Whole, applied, swept, swept2, removed, removed2
<1>. QED
  BY <1>11, <1>12, <1>13, Zenon

-----------------------------------------------------------------------------
(***************************************************************************)
(* The services of a command, sorted and grouped.                          *)
(***************************************************************************)
\* The place of a name in an order.
Rank(order, x) == SelectInSeq(order, LAMBDA y : y = x)

\* What is in an order has a place of its own in it.
LEMMA RankInOrder ==
  ASSUME NEW S, NEW order \in Seq(S), NEW x
  PROVE  Rank(order, x) \in Nat /\ (x \in ToSet(order) => order[Rank(order, x)] = x)
<1>. DEFINE T == {k \in 1 .. Len(order) : order[k] = x}
<1>1. Rank(order, x) = IF T # {} THEN Min(T) ELSE 0
  BY DEF Rank, SelectInSeq
<1>2. Len(order) \in Nat /\ DOMAIN order = 1 .. Len(order)
  OBVIOUS
<1>3. T # {} => Min(T) \in T
  <2>1. T \in SUBSET Nat
    OBVIOUS
  <2>. HIDE DEF T
  <2>. QED
    BY <2>1, MinOfSome
<1>4. x \in ToSet(order) => T # {}
  BY <1>2 DEF ToSet
<1>. QED
  BY <1>1, <1>3, <1>4

\* Before, said with the places.
LEMMA BeforeByRank ==
  ASSUME NEW a, NEW b
  PROVE  Before(a, b) <=>
           \/ Rank(GroupOrder, a.group) < Rank(GroupOrder, b.group)
           \/ a.group = b.group /\ Rank(NameOrder, a.name) < Rank(NameOrder, b.name)
           \/ a.group = b.group /\ a.name = b.name /\ Rank(IdOrder, a.id) < Rank(IdOrder, b.id)
BY DEF Before, Rank

\* Before orders the services whose ids differ.
LEMMA BeforeOrders ==
  ASSUME NEW a \in AllServices, NEW b \in AllServices, NEW c \in AllServices
  PROVE  /\ ~Before(a, a)
         /\ a.id # b.id => Before(a, b) \/ Before(b, a)
         /\ Before(a, b) => ~Before(b, a)
         /\ Before(a, b) /\ Before(b, c) => Before(a, c)
<1>1. ASSUME NEW x \in AllServices
      PROVE  /\ Rank(GroupOrder, x.group) \in Nat /\ GroupOrder[Rank(GroupOrder, x.group)] = x.group
             /\ Rank(NameOrder, x.name) \in Nat /\ NameOrder[Rank(NameOrder, x.name)] = x.name
             /\ Rank(IdOrder, x.id) \in Nat /\ IdOrder[Rank(IdOrder, x.id)] = x.id
  <2>1. x.group \in ToSet(GroupOrder) /\ x.name \in ToSet(NameOrder) /\ x.id \in ToSet(IdOrder)
    BY ServicesAssumption, Zenon
  <2>2. /\ GroupOrder \in Seq(ToSet(GroupOrder)) /\ NameOrder \in Seq(ToSet(NameOrder))
        /\ IdOrder \in Seq(ToSet(IdOrder))
    BY ServicesAssumption, Zenon
  <2>. QED
    BY <2>1, <2>2, RankInOrder
<1>. QED
  BY <1>1, BeforeByRank

\* Some services there may be, each once.
Some(services) ==
  /\ services \subseteq AllServices /\ IsFiniteSet(services)
  /\ \A s, t \in services : s.id = t.id => s = t

\* Sorting lists them all, each once.
LEMMA Sorted ==
  ASSUME NEW services, Some(services), NEW t, t = SortServices(services)
  PROVE  /\ t \in Seq(services) /\ ToSet(t) = services
         /\ \A i, j \in DOMAIN t : t[i].id = t[j].id => i = j
<1>. DEFINE R == {p \in services \X services : Before(p[1], p[2])}
            n == Cardinality(services)
            InOrder(u) == \A i, j \in DOMAIN u : i < j => Before(u[i], u[j])
<1>1. \A a, b \in services : <<a, b>> \in R <=> Before(a, b)
  OBVIOUS
<1>2. TotalOrder(R, services)
  <2>. HIDE DEF R
  <2>1. \A a \in services : <<a, a>> \notin R
    BY <1>1, BeforeOrders DEF Some
  <2>2. \A a, b \in services : a = b \/ <<a, b>> \in R \/ <<b, a>> \in R
    BY <1>1, BeforeOrders DEF Some
  <2>3. \A a, b, c \in services : <<a, b>> \in R /\ <<b, c>> \in R => <<a, c>> \in R
    BY <1>1, BeforeOrders DEF Some
  <2>. QED
    BY <2>1, <2>2, <2>3 DEF TotalOrder
<1>3. n \in Nat
  BY FS_CardinalityType DEF Some
<1>4. PICK f \in Bijection(1 .. n, services) : \A i, j \in 1 .. n : i < j => <<f[i], f[j]>> \in R
  BY <1>2, SortedListing DEF Some
<1>. HIDE DEF R
<1>5. /\ f \in [1 .. n -> services]
      /\ \A i, j \in 1 .. n : f[i] = f[j] => i = j
  BY <1>4, Zenon DEF Bijection, Injection, IsInjective
<1>6. f \in SetToSeqs(services) /\ InOrder(f)
  BY <1>1, <1>4, <1>5 DEF SetToSeqs
<1>7. t \in SetToSeqs(services) /\ InOrder(t)
  <2>1. t = CHOOSE u \in SetToSeqs(services) : InOrder(u)
    BY Zenon DEF SortServices
  <2>. HIDE DEF InOrder
  <2>. QED
    BY <1>6, <2>1, Zenon
<1>8. t \in [1 .. n -> services] /\ \A i, j \in 1 .. n : i # j => t[i] # t[j]
  BY <1>7 DEF SetToSeqs
<1>9. t \in Seq(services) /\ DOMAIN t = 1 .. n
  BY <1>3, <1>8
<1>10. \A i, j \in DOMAIN t : t[i].id = t[j].id => i = j
  BY <1>8, <1>9 DEF Some
<1>11. ToSet(t) = services
  <2>1. t \in Injection(1 .. n, services)
    BY <1>8 DEF Injection, IsInjective
  <2>2. IsFiniteSet(1 .. n) /\ Cardinality(1 .. n) = n
    BY <1>3, CountTo
  <2>3. t \in Surjection(1 .. n, services)
    BY <2>1, <2>2, FS_Surjection, FS_Injection DEF Some
  <2>. QED
    BY <1>9, <2>3 DEF Surjection, ToSet
<1>. QED
  BY <1>9, <1>10, <1>11

-----------------------------------------------------------------------------
(***************************************************************************)
(* What a merge is asked for.                                              *)
(***************************************************************************)
\* What discovery returns are some of the services there may be.
LEMMA DiscoveredAreSome ==
  ASSUME DockerOK, NEW up
  PROVE  Some(Discovered(docker, up))
<1>. DEFINE in == {source \in Sources : /\ source[1] \in up /\ docker[source] # Nothing
                                        /\ OptedIn(docker[source])}
            Of(source) == ParseLabels(source, docker[source],
                                      ResolveURLHost(Hosts[source[1]], "localhost"))
            services == {Of(source) : source \in in}
            f == [source \in in |-> Of(source)]
<1>1. Discovered(docker, up) = services
  BY Zenon DEF Discovered
<1>2. \A source \in in : docker[source] \in {c \in Containers[source] : OptedIn(c)}
  BY DEF DockerOK
<1>3. \A source \in in : Of(source) \in AllServices
  <2>. HIDE DEF Of
  <2>. SUFFICES ASSUME NEW source \in in PROVE Of(source) \in AllServices
    OBVIOUS
  <2>1. source \in Sources /\ docker[source] \in {c \in Containers[source] : OptedIn(c)}
    BY <1>2
  <2>2. Of(source) \in {ParseLabels(source, container, ResolveURLHost(Hosts[source[1]], "localhost")) :
                          container \in {c \in Containers[source] : OptedIn(c)}}
    BY <2>1, Zenon DEF Of
  <2>. QED
    BY <2>1, <2>2, Zenon DEF AllServices
<1>4. \A source \in in : Of(source).id = SourceID[source]
  BY DEF ParseLabels
<1>. HIDE DEF Of
<1>5. IsFiniteSet(in)
  <2>1. in \in SUBSET Sources /\ IsFiniteSet(Sources)
    BY ServicesAssumption, Zenon
  <2>. QED
    BY <2>1, FS_Subset
<1>6. IsFiniteSet(services)
  <2>1. f \in Surjection(in, services)
    BY DEF Surjection
  <2>. QED
    BY <1>5, <2>1, FS_Surjection
<1>7. ASSUME NEW a \in in, NEW b \in in, Of(a).id = Of(b).id PROVE Of(a) = Of(b)
  <2>1. a \in DOMAIN SourceID /\ b \in DOMAIN SourceID
    BY ServicesAssumption, Zenon
  <2>2. a = b
    BY <1>4, <1>7, <2>1, SourceIDAssumption
  <2>. QED
    BY <2>2
<1>. QED
  BY <1>1, <1>3, <1>6, <1>7 DEF Some

\* What the merge is asked for.
Desired(services, format) ==
  LET groups == GroupServices(services)
  IN  [i \in DOMAIN groups |->
         [groups[i] EXCEPT !.services = [j \in DOMAIN @ |-> Wanted(@[j], format)]]]

\* The entries it may be asked for.
Orders(format) == {Wanted(s, format) : s \in AllServices}

\* Every service is wanted once, in its group, and no group is wanted empty or twice.
Fair(services, format, desired) ==
  /\ desired \in Seq([name : ToSet(GroupOrder), services : Seq(Orders(format))])
  /\ \A i, j \in DOMAIN desired : desired[i].name = desired[j].name => i = j
  /\ \A i \in DOMAIN desired :
       /\ desired[i].services # <<>>
       /\ \A j \in DOMAIN desired[i].services :
            \E s \in services : s.group = desired[i].name /\ desired[i].services[j] = Wanted(s, format)
       /\ \A j, k \in DOMAIN desired[i].services :
            desired[i].services[j].id = desired[i].services[k].id => j = k
  /\ \A s \in services : \E i \in DOMAIN desired : \E j \in DOMAIN desired[i].services :
       desired[i].name = s.group /\ desired[i].services[j] = Wanted(s, format)

\* What GroupServices makes of the services is such a list.
LEMMA DesiredIsFair ==
  ASSUME NEW services, Some(services), NEW format \in Formats
  PROVE  Fair(services, format, Desired(services, format))
<1>. DEFINE names == Only(GroupOrder, {s.group : s \in services})
            In(name) == {s \in services : s.group = name}
            sorted == [i \in DOMAIN names |-> SortServices(In(names[i]))]
            desired == [i \in DOMAIN names |->
                          [name |-> names[i],
                           services |-> [j \in DOMAIN sorted[i] |-> Wanted(sorted[i][j], format)]]]
<1>1. GroupServices(services) = [i \in DOMAIN names |-> [name |-> names[i], services |-> sorted[i]]]
  BY DEF GroupServices
<1>2. Desired(services, format) = desired
  <2>1. DOMAIN GroupServices(services) = DOMAIN names
    BY <1>1
  <2>2. ASSUME NEW i \in DOMAIN names
        PROVE  [GroupServices(services)[i] EXCEPT
                  !.services = [j \in DOMAIN @ |-> Wanted(@[j], format)]]
                 = [name |-> names[i],
                    services |-> [j \in DOMAIN sorted[i] |-> Wanted(sorted[i][j], format)]]
    <3>1. GroupServices(services)[i] = [name |-> names[i], services |-> sorted[i]]
      BY <1>1
    <3>. HIDE DEF sorted, names
    <3>. QED
      BY <3>1
  <2>. HIDE DEF sorted, names
  <2>. QED
    BY <2>1, <2>2 DEF Desired
<1>3. GroupOrder \in Seq(ToSet(GroupOrder))
  BY ServicesAssumption, Zenon
<1>4. /\ names \in Seq(ToSet(GroupOrder))
      /\ ToSet(names) = ToSet(GroupOrder) \cap {s.group : s \in services}
      /\ \A i, j \in DOMAIN names : names[i] = names[j] => i = j
  <2>1. \A i, j \in DOMAIN GroupOrder : GroupOrder[i] = GroupOrder[j] => i = j
    BY ServicesAssumption, Zenon
  <2>. QED
    BY <1>3, <2>1, OnlyTypes, OnlyElements, OnlyOnce
<1>. HIDE DEF names
<1>5. \A s \in services : s.group \in ToSet(names)
  <2>1. \A s \in services : s.group \in ToSet(GroupOrder)
    BY ServicesAssumption, Zenon DEF Some
  <2>. QED
    BY <1>4, <2>1
<1>6. DOMAIN names = 1 .. Len(names) /\ Len(names) \in Nat
  BY <1>4
<1>7. ASSUME NEW i \in DOMAIN names
      PROVE  /\ sorted[i] \in Seq(In(names[i])) /\ ToSet(sorted[i]) = In(names[i])
             /\ \A j, k \in DOMAIN sorted[i] : sorted[i][j].id = sorted[i][k].id => j = k
             /\ In(names[i]) # {}
  <2>1. Some(In(names[i]))
    BY FS_Subset DEF Some
  <2>2. names[i] \in ToSet(names)
    BY DEF ToSet
  <2>3. In(names[i]) # {}
    BY <1>4, <2>2
  <2>. HIDE DEF In
  <2>. QED
    BY <2>1, <2>3, Sorted
<1>. HIDE DEF sorted
<1>8. \A s \in services : Wanted(s, format) \in Orders(format) /\ Wanted(s, format).id = s.id
  BY DEF Orders, Wanted, Some
<1>9. ASSUME NEW i \in DOMAIN names
      PROVE  LET d == desired[i] IN
             /\ d.name = names[i] /\ d.name \in ToSet(GroupOrder)
             /\ d = [name |-> d.name, services |-> d.services]
             /\ d.services \in Seq(Orders(format)) /\ d.services # <<>>
             /\ DOMAIN d.services = DOMAIN sorted[i]
             /\ \A j \in DOMAIN sorted[i] :
                  sorted[i][j] \in In(names[i]) /\ d.services[j] = Wanted(sorted[i][j], format)
             /\ \A j, k \in DOMAIN d.services : d.services[j].id = d.services[k].id => j = k
  <2>. DEFINE t == sorted[i]
              u == desired[i].services
  <2>0. /\ desired[i] = [name |-> names[i], services |-> u]
        /\ u = [j \in DOMAIN t |-> Wanted(t[j], format)]
    OBVIOUS
  <2>1. /\ t \in Seq(In(names[i])) /\ ToSet(t) = In(names[i]) /\ In(names[i]) # {}
        /\ \A j, k \in DOMAIN t : t[j].id = t[k].id => j = k
    BY <1>7
  <2>2. names[i] \in ToSet(GroupOrder)
    BY <1>4, <1>6
  <2>3. In(names[i]) \subseteq services
    OBVIOUS
  <2>. HIDE DEF t, u, In, desired
  <2>4. Len(t) \in Nat /\ DOMAIN t = 1 .. Len(t) /\ \A j \in DOMAIN t : t[j] \in In(names[i])
    BY <2>1
  <2>5. t # <<>>
    BY <2>1 DEF ToSet
  <2>6. DOMAIN u = 1 .. Len(t) /\ \A j \in 1 .. Len(t) : u[j] \in Orders(format) /\ u[j].id = t[j].id
    BY <1>8, <2>0, <2>3, <2>4
  <2>7. u \in Seq(Orders(format)) /\ u # <<>>
    BY <2>0, <2>4, <2>5, <2>6
  <2>8. \A j, k \in DOMAIN u : u[j].id = u[k].id => j = k
    BY <2>1, <2>4, <2>6
  <2>9. \A j \in DOMAIN t : t[j] \in In(names[i]) /\ u[j] = Wanted(t[j], format)
    BY <2>0, <2>4
  <2>10. /\ desired[i].name = names[i] /\ desired[i].services = u
         /\ desired[i] = [name |-> desired[i].name, services |-> desired[i].services]
    BY <2>0
  <2>. QED
    BY <2>2, <2>4, <2>6, <2>7, <2>8, <2>9, <2>10 DEF t
<1>10. DOMAIN desired = DOMAIN names
  OBVIOUS
<1>. HIDE DEF desired
<1>11. \A i \in DOMAIN names : desired[i] \in [name : ToSet(GroupOrder), services : Seq(Orders(format))]
  <2>. SUFFICES ASSUME NEW i \in DOMAIN names
                PROVE  desired[i] \in [name : ToSet(GroupOrder), services : Seq(Orders(format))]
    OBVIOUS
  <2>1. /\ desired[i] = [name |-> desired[i].name, services |-> desired[i].services]
        /\ desired[i].name \in ToSet(GroupOrder) /\ desired[i].services \in Seq(Orders(format))
    BY <1>9
  <2>. QED
    BY <2>1
<1>12. desired \in Seq([name : ToSet(GroupOrder), services : Seq(Orders(format))])
  <2>1. desired = [i \in DOMAIN names |-> desired[i]]
    BY DEF desired
  <2>. QED
    BY <1>6, <1>11, <2>1
<1>13. \A i, j \in DOMAIN desired : desired[i].name = desired[j].name => i = j
  BY <1>4, <1>9, <1>10
<1>14. ASSUME NEW i \in DOMAIN desired, NEW j \in DOMAIN desired[i].services
       PROVE  \E s \in services : s.group = desired[i].name
                                  /\ desired[i].services[j] = Wanted(s, format)
  BY <1>9, <1>10
<1>15. ASSUME NEW s \in services
       PROVE  \E i \in DOMAIN desired : \E j \in DOMAIN desired[i].services :
                desired[i].name = s.group /\ desired[i].services[j] = Wanted(s, format)
  <2>1. PICK i \in DOMAIN names : names[i] = s.group
    BY <1>5, Zenon DEF ToSet
  <2>2. s \in ToSet(sorted[i])
    BY <1>7, <2>1
  <2>3. PICK j \in DOMAIN sorted[i] : sorted[i][j] = s
    BY <2>2, Zenon DEF ToSet
  <2>. QED
    BY <1>9, <1>10, <2>1, <2>3
<1>16. Fair(services, format, desired)
  BY <1>9, <1>10, <1>12, <1>13, <1>14, <1>15 DEF Fair
<1>. QED
  BY <1>2, <1>16

-----------------------------------------------------------------------------
(***************************************************************************)
(* What a merge does, in either format.                                    *)
(***************************************************************************)
\* The merge of a format.
MergeFor(format, doc, desired, policy) ==
  IF format = "homepage" THEN Homepage!Merge(doc, desired, policy)
  ELSE Named!Merge(doc, desired, policy)

\* A run's merge is the one of its format, on what the format sees of the file.
LEMMA MergedIs ==
  ASSUME NEW f, NEW services, NEW format, NEW policy
  PROVE  Merged(f, services, format, policy)
           = MergeFor(format, View(f, format), Desired(services, format), policy)
  BY Zenon DEF Merged, MergeFor, Desired

\* The documents with those names of groups and those entries.
Docs(names, entries) == Homepage!Documents(names, entries)

\* What a service's entry looks like that was just written.
Fresh(wanted) == Homepage!Rendered(wanted)

\* The managed entries of groups are those of services.
Shows(groups, services) ==
  /\ \A i \in DOMAIN groups : Homepage!Sweepable(groups[i]) =>
       \A e \in ToSet(groups[i].items) : Homepage!IsManaged(e) =>
         \E s \in services : s.id = e.comment.id /\ s.group = groups[i].name
  /\ \A s \in services : \E i \in DOMAIN groups :
       /\ Homepage!Sweepable(groups[i]) /\ groups[i].name = s.group
       /\ \E e \in ToSet(groups[i].items) : Homepage!IsManaged(e) /\ e.comment.id = s.id

\* A change is a removal from a group where the service is not wanted, or the
\* only other one for one of the services, in its group.
Reports(changes, services) ==
  LET others == {i \in DOMAIN changes : changes[i].kind # "removed"}
  IN  /\ \A i \in others : \E s \in services : changes[i].id = s.id /\ changes[i].group = s.group
      /\ \A i, j \in others : changes[i].id = changes[j].id => i = j
      /\ \A i \in DOMAIN changes \ others : \A s \in services :
           changes[i].id = s.id => changes[i].group # s.group

\* No file, and what is made of it.
Nowhere == [root |-> "blank", groups |-> <<>>]

\* The desired groups, with nothing in them but what was just written.
FreshFrom(desired) ==
  [i \in DOMAIN desired |->
     [name |-> desired[i].name, shape |-> "list",
      items |-> [j \in DOMAIN desired[i].services |-> Fresh(desired[i].services[j])]]]

\* What a merge makes of a document.
MergesWell(format, doc, services, policy, names, entries) ==
  LET desired == Desired(services, format)
      result == MergeFor(format, doc, desired, policy)
      again == MergeFor(format, result.doc, desired, policy)
  IN  /\ result.doc \in Docs(names, entries)
      /\ result.error = Homepage!Absent =>
           /\ result.doc.root = "groups"
           /\ again.error = Homepage!Absent
           /\ \A i \in DOMAIN again.changes : again.changes[i].kind = "conflict"
           /\ Homepage!Absent \notin names => Shows(result.doc.groups, services)
      /\ Reports(result.changes, services)
      /\ doc = Nowhere => result.error = Homepage!Absent /\ result.doc.groups = FreshFrom(desired)

\* What a merge needs to know of the services it is asked for.
Merging(format, services, names, entries) ==
  /\ Some(services)
  /\ ToSet(GroupOrder) \subseteq names
  /\ \A wanted \in Orders(format) : Fresh(wanted) \in entries

\* The document that is merged, and what is wanted, are of the kind that
\* MergeProofs is about.
LEMMA HomepageFits ==
  ASSUME NEW format \in Formats, NEW services, NEW names, NEW entries,
         Merging(format, services, names, entries),
         NEW desired, desired = Desired(services, format)
  PROVE  /\ desired \in Seq(HomepageMerge!Wanted(names, Orders(format)))
         /\ HomepageMerge!DistinctNames(desired) /\ HomepageMerge!Owned(desired)
<1>1. Fair(services, format, desired)
  BY DesiredIsFair DEF Merging
<1>a. /\ desired \in Seq([name : ToSet(GroupOrder), services : Seq(Orders(format))])
      /\ \A i \in DOMAIN desired : \A j \in DOMAIN desired[i].services :
           \E s \in services : s.group = desired[i].name /\ desired[i].services[j] = Wanted(s, format)
  BY <1>1, Zenon DEF Fair
<1>2. ASSUME NEW i \in DOMAIN desired
      PROVE  desired[i] \in HomepageMerge!Wanted(names, Orders(format))
  <2>1. desired[i] \in [name : ToSet(GroupOrder), services : Seq(Orders(format))]
    <3>. DEFINE R == [name : ToSet(GroupOrder), services : Seq(Orders(format))]
    <3>1. desired \in Seq(R)
      BY <1>a
    <3>. HIDE DEF R
    <3>2. desired[i] \in R
      BY <3>1
    <3>. QED
      BY <3>2 DEF R
  <2>2. desired[i] \in [name : names, services : Seq(Orders(format))]
    BY <2>1 DEF Merging
  <2>3. desired[i].services # <<>> /\ HomepageMerge!Distinct(desired[i].services)
    BY <1>1, Zenon DEF Fair, HomepageMerge!Distinct
  <2>. QED
    BY <2>2, <2>3, Zenon DEF HomepageMerge!Wanted
<1>3. desired \in Seq(HomepageMerge!Wanted(names, Orders(format)))
  <2>1. desired = [i \in 1 .. Len(desired) |-> desired[i]] /\ DOMAIN desired = 1 .. Len(desired)
        /\ Len(desired) \in Nat
    BY <1>a
  <2>. QED
    BY <1>2, <2>1
<1>4. HomepageMerge!DistinctNames(desired)
  BY <1>1, Zenon DEF Fair, HomepageMerge!DistinctNames
<1>5. ASSUME NEW i \in DOMAIN desired, NEW j \in DOMAIN desired[i].services
      PROVE  HomepageMerge!DesiredGroupOf(desired, desired[i].services[j].id) = desired[i].name
  <2>. DEFINE id == desired[i].services[j].id
              wanting == {k \in DOMAIN desired :
                            \E l \in DOMAIN desired[k].services : desired[k].services[l].id = id}
  <2>1. ASSUME NEW k \in wanting PROVE k = i
    <3>1. PICK l \in DOMAIN desired[k].services : desired[k].services[l].id = id
      OBVIOUS
    <3>2. PICK s \in services : s.group = desired[i].name /\ desired[i].services[j] = Wanted(s, format)
      BY <1>a
    <3>3. PICK t \in services : t.group = desired[k].name /\ desired[k].services[l] = Wanted(t, format)
      BY <1>a
    <3>4. s.id = t.id
      BY <3>1, <3>2, <3>3 DEF Wanted
    <3>5. s = t
      BY <3>4 DEF Merging, Some
    <3>. QED
      BY <1>1, <3>2, <3>3, <3>5 DEF Fair
  <2>2. i \in wanting
    OBVIOUS
  <2>3. HomepageMerge!DesiredGroupOf(desired, id)
          = IF wanting = {} THEN HomepageMerge!Absent ELSE desired[CHOOSE k \in wanting : TRUE].name
    BY Zenon DEF HomepageMerge!DesiredGroupOf
  <2>. HIDE DEF wanting, id
  <2>4. (CHOOSE k \in wanting : TRUE) \in wanting /\ wanting # {}
    BY <2>2
  <2>5. HomepageMerge!DesiredGroupOf(desired, id) = desired[i].name
    BY <2>1, <2>3, <2>4, Zenon
  <2>. QED
    BY <2>5 DEF id
<1>6. HomepageMerge!Owned(desired)
  BY <1>5, Zenon DEF HomepageMerge!Owned
<1>. QED
  BY <1>3, <1>4, <1>6

\* In a settled document the managed entries are those of the services.
LEMMA HomepageShows ==
  ASSUME NEW format \in Formats, NEW services, NEW names, NEW entries,
         Merging(format, services, names, entries),
         NEW desired, desired = Desired(services, format), NEW policy,
         NEW groups \in Seq(HomepageMerge!GroupsOf(names, entries)), Homepage!Absent \notin names,
         HomepageMerge!Settled(groups, desired, policy)
  PROVE  Shows(groups, services)
<1>0. Homepage!Absent = HomepageMerge!Absent
  BY Zenon DEF Homepage!Absent, HomepageMerge!Absent
<1>1. Fair(services, format, desired)
  BY DesiredIsFair DEF Merging
<1>2. /\ \A e : Homepage!IsManaged(e) <=> HomepageMerge!IsManaged(e)
      /\ \A g : Homepage!Sweepable(g) <=> HomepageMerge!Sweepable(g)
      /\ \A s : HomepageMerge!ToSet(s) = ToSet(s)
  <2>1. \A e : Homepage!IsManaged(e) <=> HomepageMerge!IsManaged(e)
    BY Zenon DEF Homepage!IsManaged, HomepageMerge!IsManaged, Homepage!IsMarker, HomepageMerge!IsMarker,
                 Homepage!Absent, HomepageMerge!Absent
  <2>2. \A g : Homepage!Sweepable(g) <=> HomepageMerge!Sweepable(g)
    BY Zenon DEF Homepage!Sweepable, HomepageMerge!Sweepable
  <2>3. \A s : HomepageMerge!ToSet(s) = ToSet(s)
    BY DEF HomepageMerge!ToSet, ToSet
  <2>. QED
    BY <2>1, <2>2, <2>3
<1>3. ASSUME NEW i \in DOMAIN groups, Homepage!Sweepable(groups[i]),
             NEW e \in ToSet(groups[i].items), Homepage!IsManaged(e)
      PROVE  \E s \in services : s.id = e.comment.id /\ s.group = groups[i].name
  <2>. DEFINE id == e.comment.id
              wanting == {k \in DOMAIN desired :
                            \E l \in DOMAIN desired[k].services : desired[k].services[l].id = id}
  <2>1. ~HomepageMerge!Orphaned(e, groups[i].name, desired)
    <3>1. HomepageMerge!Orphans(groups[i], desired) = {}
      BY Zenon DEF HomepageMerge!Settled
    <3>2. HomepageMerge!Orphans(groups[i], desired)
            = {x \in ToSet(groups[i].items) : HomepageMerge!Orphaned(x, groups[i].name, desired)}
      BY <1>2, <1>3 DEF HomepageMerge!Orphans
    <3>. QED
      BY <1>3, <3>1, <3>2
  <2>2. HomepageMerge!DesiredGroupOf(desired, id) = groups[i].name
    BY <1>2, <1>3, <2>1, Zenon DEF HomepageMerge!Orphaned
  <2>3. groups[i].name # HomepageMerge!Absent
    <3>1. groups[i] \in HomepageMerge!GroupsOf(names, entries)
      OBVIOUS
    <3>2. groups[i].name \in names
      BY <3>1 DEF HomepageMerge!GroupsOf
    <3>. QED
      BY <1>0, <3>2
  <2>4. HomepageMerge!DesiredGroupOf(desired, id)
          = IF wanting = {} THEN HomepageMerge!Absent ELSE desired[CHOOSE k \in wanting : TRUE].name
    BY Zenon DEF HomepageMerge!DesiredGroupOf
  <2>. HIDE DEF wanting
  <2>5. PICK k \in wanting : groups[i].name = desired[k].name
    BY <2>2, <2>3, <2>4
  <2>6. PICK l \in DOMAIN desired[k].services : k \in DOMAIN desired /\ desired[k].services[l].id = id
    BY <2>5 DEF wanting
  <2>7. PICK s \in services : s.group = desired[k].name /\ desired[k].services[l] = Wanted(s, format)
    BY <1>1, <2>6, Zenon DEF Fair
  <2>. QED
    BY <2>5, <2>6, <2>7 DEF Wanted
<1>4. ASSUME NEW s \in services
      PROVE  \E i \in DOMAIN groups :
               /\ Homepage!Sweepable(groups[i]) /\ groups[i].name = s.group
               /\ \E e \in ToSet(groups[i].items) : Homepage!IsManaged(e) /\ e.comment.id = s.id
  <2>0. PICK k \in DOMAIN desired : \E l \in DOMAIN desired[k].services :
               desired[k].name = s.group /\ desired[k].services[l] = Wanted(s, format)
    BY <1>1, Zenon DEF Fair
  <2>1. PICK l \in DOMAIN desired[k].services :
               desired[k].name = s.group /\ desired[k].services[l] = Wanted(s, format)
    BY <2>0
  <2>2. HomepageMerge!Done(groups, desired[k], policy)
    BY Zenon DEF HomepageMerge!Settled
  <2>3. PICK gi : /\ gi = HomepageMerge!GroupIndex(groups, desired[k].name) /\ gi # 0
                  /\ groups[gi].shape = "list"
                  /\ HomepageMerge!Fine(groups[gi].items, desired[k].services[l], policy)
    BY <2>2, Zenon DEF HomepageMerge!Done
  <2>4. gi \in DOMAIN groups /\ groups[gi].name = s.group
    BY <2>1, <2>3, HomepageMerge!IndexIsFirst
  <2>5. s.group # Nothing
    <3>1. s.group \in ToSet(GroupOrder) /\ Nothing \notin ToSet(GroupOrder)
      BY ServicesAssumption, Zenon DEF Merging, Some
    <3>. QED
      BY <3>1
  <2>6. Homepage!Sweepable(groups[gi])
    BY <2>3, <2>4, <2>5 DEF Homepage!Sweepable
  <2>. DEFINE items == groups[gi].items
              ei == HomepageMerge!findManagedIndex(items, s.id)
  <2>7. items \in Seq(entries)
    <3>1. groups[gi] \in HomepageMerge!GroupsOf(names, entries)
      BY <2>4
    <3>. QED
      BY <3>1 DEF HomepageMerge!GroupsOf
  <2>8. ei # 0
    <3>1. desired[k].services[l].id = s.id
      BY <2>1 DEF Wanted
    <3>2. HomepageMerge!Verdict(items, desired[k].services[l], policy) \in {"same", "conflict"}
      BY <2>3, Zenon DEF HomepageMerge!Fine
    <3>. QED
      BY <3>1, <3>2 DEF HomepageMerge!Verdict
  <2>9. ei \in DOMAIN items /\ HomepageMerge!Mine(items[ei], s.id)
    BY <2>7, <2>8, HomepageMerge!FoundIsFirst
  <2>10. items[ei] \in ToSet(items) /\ Homepage!IsManaged(items[ei]) /\ items[ei].comment.id = s.id
    BY <1>2, <2>9 DEF HomepageMerge!Mine, ToSet
  <2>. QED
    BY <2>4, <2>6, <2>10
<1>. QED
  BY <1>3, <1>4, Zenon DEF Shows

\* The merge of this format, with what MergeProofs says of it.
LEMMA HomepageMerges ==
  ASSUME NEW format \in Formats, format = "homepage",
         NEW services, NEW names, NEW entries, Merging(format, services, names, entries),
         NEW doc \in Docs(names, entries), NEW policy \in {"preserve", "overwrite", "fail"}
  PROVE  MergesWell(format, doc, services, policy, names, entries)
<1>. DEFINE desired == Desired(services, format)
            result == MergeFor(format, doc, desired, policy)
            again == MergeFor(format, result.doc, desired, policy)
            ids == {s.id : s \in Orders(format)} \cup {e.comment.id : e \in entries}
            C == [kind : HomepageMerge!Reported \cup {"removed"}, id : ids, group : names]
<1>1. /\ \A d : d \in Docs(names, entries) <=> d \in HomepageMerge!Documents(names, entries)
      /\ policy \in HomepageMerge!Policies /\ Homepage!Absent = HomepageMerge!Absent
  <2>1. Homepage!GroupsOf(names, entries) = HomepageMerge!GroupsOf(names, entries)
    BY Zenon DEF Homepage!GroupsOf, HomepageMerge!GroupsOf
  <2>2. Docs(names, entries) = HomepageMerge!Documents(names, entries)
    BY <2>1, Zenon DEF Docs, Homepage!Documents, HomepageMerge!Documents
  <2>3. Homepage!Absent = HomepageMerge!Absent
    BY Zenon DEF Homepage!Absent, HomepageMerge!Absent
  <2>. QED
    BY <2>2, <2>3 DEF HomepageMerge!Policies
<1>2. \A d : MergeFor(format, d, desired, policy) = HomepageMerge!Merge(d, desired, policy)
  <2>1. \A d : MergeFor(format, d, desired, policy) = Homepage!Merge(d, desired, policy)
    BY DEF MergeFor
  <2>. QED
    BY <2>1, HomepageSame
<1>3. /\ desired \in Seq(HomepageMerge!Wanted(names, Orders(format)))
      /\ HomepageMerge!DistinctNames(desired) /\ HomepageMerge!Owned(desired)
  BY HomepageFits
<1>4. HomepageMerge!Setting(names, entries, C, Orders(format))
  <2>1. ASSUME NEW w \in Orders(format)
        PROVE  /\ HomepageMerge!Proper(w) /\ HomepageMerge!Rendered(w) \in entries
               /\ \A kind \in HomepageMerge!Reported, n \in names : [kind |-> kind, id |-> w.id, group |-> n] \in C
    <3>1. PICK s \in AllServices : w = Wanted(s, format)
      BY DEF Orders
    <3>2. w.id = s.id /\ w.body = RenderEntry(s, format)
      BY <3>1 DEF Wanted
    <3>3. HomepageMerge!Proper(w)
      <4>1. s.id # HomepageMerge!Absent /\ Hash[RenderEntry(s, format)] # HomepageMerge!Absent
            /\ RenderEntry(s, format) # Unreadable
        BY ServicesAssumption, Zenon DEF HomepageMerge!Absent
      <4>. QED
        BY <3>2, <4>1, Zenon DEF HomepageMerge!Proper
    <3>4. Fresh(w) = HomepageMerge!Rendered(w)
      BY Zenon DEF Fresh, Homepage!Rendered, HomepageMerge!Rendered, Homepage!buildMarker, HomepageMerge!buildMarker
    <3>5. w.id \in ids
      OBVIOUS
    <3>. HIDE DEF ids
    <3>. QED
      BY <3>3, <3>4, <3>5 DEF Merging
  <2>2. \A e \in entries, n \in names : [kind |-> "removed", id |-> e.comment.id, group |-> n] \in C
    OBVIOUS
  <2>. HIDE DEF C
  <2>. QED
    BY <2>1, <2>2, Zenon DEF HomepageMerge!Setting
<1>. HIDE DEF desired, C
<1>5. /\ result.doc \in HomepageMerge!Documents(names, entries)
      /\ result.error = HomepageMerge!Absent =>
           result.doc.root = "groups" /\ HomepageMerge!Settled(result.doc.groups, desired, policy)
  <2>1. result = HomepageMerge!Merge(doc, desired, policy) /\ doc \in HomepageMerge!Documents(names, entries)
    BY <1>1, <1>2
  <2>. HIDE DEF result
  <2>. QED
    BY <1>1, <1>3, <1>4, <2>1, HomepageMerge!MergeEffect
<1>6. ASSUME result.error = HomepageMerge!Absent
      PROVE  /\ again.error = HomepageMerge!Absent
             /\ \A i \in DOMAIN again.changes : again.changes[i].kind = "conflict"
  <2>. DEFINE here == result.doc
  <2>1. again = HomepageMerge!Merge(here, desired, policy)
    BY <1>2
  <2>2. /\ here \in HomepageMerge!Documents(names, entries) /\ here.root = "groups"
        /\ HomepageMerge!Settled(here.groups, desired, policy)
    BY <1>5, <1>6
  <2>. HIDE DEF again, here
  <2>3. again.error = HomepageMerge!Absent /\ HomepageMerge!AllConflicts(again.changes)
    BY <1>1, <1>3, <1>4, <2>1, <2>2, HomepageMerge!MergeEffect
  <2>. QED
    BY <2>3 DEF HomepageMerge!AllConflicts
<1>7. ASSUME result.error = HomepageMerge!Absent, Homepage!Absent \notin names
      PROVE  Shows(result.doc.groups, services)
  <2>. DEFINE groups == result.doc.groups
  <2>1. groups \in Seq(HomepageMerge!GroupsOf(names, entries))
    BY <1>5 DEF HomepageMerge!Documents
  <2>2. HomepageMerge!Settled(groups, desired, policy)
    BY <1>5, <1>7
  <2>. HIDE DEF groups
  <2>3. Shows(groups, services)
    BY <1>7, <2>1, <2>2, HomepageShows DEF desired
  <2>. QED
    BY <2>3 DEF groups
<1>8. Reports(result.changes, services)
  <2>. DEFINE changes == result.changes
              others  == {i \in DOMAIN changes : changes[i].kind # "removed"}
  <2>1. result = HomepageMerge!Merge(doc, desired, policy) /\ doc \in HomepageMerge!Documents(names, entries)
    BY <1>1, <1>2
  <2>2. Fair(services, format, desired)
    BY DesiredIsFair DEF Merging, desired
  <2>. HIDE DEF result
  <2>3. /\ \A i \in others : \E g \in DOMAIN desired : \E j \in DOMAIN desired[g].services :
             changes[i].id = desired[g].services[j].id /\ changes[i].group = desired[g].name
        /\ \A i, j \in others : changes[i].id = changes[j].id => i = j
        /\ \A i \in DOMAIN changes \ others :
             HomepageMerge!DesiredGroupOf(desired, changes[i].id) # changes[i].group
    BY <1>1, <1>3, <1>4, <2>1, HomepageMerge!MergeTells
  <2>4. ASSUME NEW i \in others
        PROVE  \E s \in services : changes[i].id = s.id /\ changes[i].group = s.group
    <3>1. PICK g \in DOMAIN desired : \E j \in DOMAIN desired[g].services :
             changes[i].id = desired[g].services[j].id /\ changes[i].group = desired[g].name
      BY <2>3
    <3>2. PICK j \in DOMAIN desired[g].services :
             changes[i].id = desired[g].services[j].id /\ changes[i].group = desired[g].name
      BY <3>1
    <3>3. PICK s \in services : s.group = desired[g].name /\ desired[g].services[j] = Wanted(s, format)
      BY <2>2 DEF Fair
    <3>. QED
      BY <3>2, <3>3 DEF Wanted
  <2>5. ASSUME NEW i \in DOMAIN changes \ others, NEW s \in services, changes[i].id = s.id
        PROVE  changes[i].group # s.group
    <3>1. PICK g \in DOMAIN desired : \E j \in DOMAIN desired[g].services :
             desired[g].name = s.group /\ desired[g].services[j] = Wanted(s, format)
      BY <2>2, Zenon DEF Fair
    <3>2. PICK j \in DOMAIN desired[g].services :
             desired[g].name = s.group /\ desired[g].services[j] = Wanted(s, format)
      BY <3>1
    <3>3. desired[g].services[j].id = s.id
      BY <3>2 DEF Wanted
    <3>4. HomepageMerge!DesiredGroupOf(desired, s.id) = s.group
      BY <1>3, <3>2, <3>3, Zenon DEF HomepageMerge!Owned
    <3>. QED
      BY <2>3, <2>5, <3>4
  <2>. HIDE DEF changes
  <2>6. Reports(changes, services)
    BY <2>3, <2>4, <2>5, Zenon DEF Reports
  <2>. QED
    BY <2>6 DEF changes
<1>9. ASSUME doc = Nowhere
      PROVE  result.error = Homepage!Absent /\ result.doc.groups = FreshFrom(desired)
  <2>1. result = HomepageMerge!Merge(doc, desired, policy)
    BY <1>2
  <2>2. HomepageMerge!HasGroupSequence(doc) /\ doc.groups = <<>>
    BY <1>9 DEF Nowhere, HomepageMerge!HasGroupSequence
  <2>. HIDE DEF result
  <2>3. result.error = HomepageMerge!Absent /\ result.doc.groups = HomepageMerge!FreshGroups(desired)
    BY <1>1, <1>3, <1>4, <2>1, <2>2, HomepageMerge!MergeFresh
  <2>4. \A w : Fresh(w) = HomepageMerge!Rendered(w)
    BY Zenon DEF Fresh, Homepage!Rendered, HomepageMerge!Rendered, Homepage!buildMarker, HomepageMerge!buildMarker
  <2>5. HomepageMerge!FreshGroups(desired) = FreshFrom(desired)
    BY <2>4, Zenon DEF HomepageMerge!FreshGroups, HomepageMerge!FreshGroup, HomepageMerge!RenderedAll, FreshFrom
  <2>. QED
    BY <1>1, <2>3, <2>5
<1>. HIDE DEF result, again
<1>10. /\ result.doc \in Docs(names, entries)
       /\ result.error = Homepage!Absent =>
            /\ result.doc.root = "groups"
            /\ again.error = Homepage!Absent
            /\ \A i \in DOMAIN again.changes : again.changes[i].kind = "conflict"
            /\ Homepage!Absent \notin names => Shows(result.doc.groups, services)
       /\ Reports(result.changes, services)
       /\ doc = Nowhere => result.error = Homepage!Absent /\ result.doc.groups = FreshFrom(desired)
  BY <1>1, <1>5, <1>6, <1>7, <1>8, <1>9, Zenon
<1>. QED
  BY <1>10 DEF MergesWell, result, again, desired

\* The document that is merged, and what is wanted, are of the kind that
\* MergeProofs is about.
LEMMA NamedFits ==
  ASSUME NEW format \in Formats, NEW services, NEW names, NEW entries,
         Merging(format, services, names, entries),
         NEW desired, desired = Desired(services, format)
  PROVE  /\ desired \in Seq(NamedMerge!Wanted(names, Orders(format)))
         /\ NamedMerge!DistinctNames(desired) /\ NamedMerge!Owned(desired)
<1>1. Fair(services, format, desired)
  BY DesiredIsFair DEF Merging
<1>a. /\ desired \in Seq([name : ToSet(GroupOrder), services : Seq(Orders(format))])
      /\ \A i \in DOMAIN desired : \A j \in DOMAIN desired[i].services :
           \E s \in services : s.group = desired[i].name /\ desired[i].services[j] = Wanted(s, format)
  BY <1>1, Zenon DEF Fair
<1>2. ASSUME NEW i \in DOMAIN desired
      PROVE  desired[i] \in NamedMerge!Wanted(names, Orders(format))
  <2>1. desired[i] \in [name : ToSet(GroupOrder), services : Seq(Orders(format))]
    <3>. DEFINE R == [name : ToSet(GroupOrder), services : Seq(Orders(format))]
    <3>1. desired \in Seq(R)
      BY <1>a
    <3>. HIDE DEF R
    <3>2. desired[i] \in R
      BY <3>1
    <3>. QED
      BY <3>2 DEF R
  <2>2. desired[i] \in [name : names, services : Seq(Orders(format))]
    BY <2>1 DEF Merging
  <2>3. desired[i].services # <<>> /\ NamedMerge!Distinct(desired[i].services)
    BY <1>1, Zenon DEF Fair, NamedMerge!Distinct
  <2>. QED
    BY <2>2, <2>3, Zenon DEF NamedMerge!Wanted
<1>3. desired \in Seq(NamedMerge!Wanted(names, Orders(format)))
  <2>1. desired = [i \in 1 .. Len(desired) |-> desired[i]] /\ DOMAIN desired = 1 .. Len(desired)
        /\ Len(desired) \in Nat
    BY <1>a
  <2>. QED
    BY <1>2, <2>1
<1>4. NamedMerge!DistinctNames(desired)
  BY <1>1, Zenon DEF Fair, NamedMerge!DistinctNames
<1>5. ASSUME NEW i \in DOMAIN desired, NEW j \in DOMAIN desired[i].services
      PROVE  NamedMerge!DesiredGroupOf(desired, desired[i].services[j].id) = desired[i].name
  <2>. DEFINE id == desired[i].services[j].id
              wanting == {k \in DOMAIN desired :
                            \E l \in DOMAIN desired[k].services : desired[k].services[l].id = id}
  <2>1. ASSUME NEW k \in wanting PROVE k = i
    <3>1. PICK l \in DOMAIN desired[k].services : desired[k].services[l].id = id
      OBVIOUS
    <3>2. PICK s \in services : s.group = desired[i].name /\ desired[i].services[j] = Wanted(s, format)
      BY <1>a
    <3>3. PICK t \in services : t.group = desired[k].name /\ desired[k].services[l] = Wanted(t, format)
      BY <1>a
    <3>4. s.id = t.id
      BY <3>1, <3>2, <3>3 DEF Wanted
    <3>5. s = t
      BY <3>4 DEF Merging, Some
    <3>. QED
      BY <1>1, <3>2, <3>3, <3>5 DEF Fair
  <2>2. i \in wanting
    OBVIOUS
  <2>3. NamedMerge!DesiredGroupOf(desired, id)
          = IF wanting = {} THEN NamedMerge!Absent ELSE desired[CHOOSE k \in wanting : TRUE].name
    BY Zenon DEF NamedMerge!DesiredGroupOf
  <2>. HIDE DEF wanting, id
  <2>4. (CHOOSE k \in wanting : TRUE) \in wanting /\ wanting # {}
    BY <2>2
  <2>5. NamedMerge!DesiredGroupOf(desired, id) = desired[i].name
    BY <2>1, <2>3, <2>4, Zenon
  <2>. QED
    BY <2>5 DEF id
<1>6. NamedMerge!Owned(desired)
  BY <1>5, Zenon DEF NamedMerge!Owned
<1>. QED
  BY <1>3, <1>4, <1>6

\* In a settled document the managed entries are those of the services.
LEMMA NamedShows ==
  ASSUME NEW format \in Formats, NEW services, NEW names, NEW entries,
         Merging(format, services, names, entries),
         NEW desired, desired = Desired(services, format), NEW policy,
         NEW groups \in Seq(NamedMerge!GroupsOf(names, entries)), Homepage!Absent \notin names,
         NamedMerge!Settled(groups, desired, policy)
  PROVE  Shows(groups, services)
<1>0. Homepage!Absent = NamedMerge!Absent
  BY Zenon DEF Homepage!Absent, NamedMerge!Absent
<1>1. Fair(services, format, desired)
  BY DesiredIsFair DEF Merging
<1>2. /\ \A e : Homepage!IsManaged(e) <=> NamedMerge!IsManaged(e)
      /\ \A g : Homepage!Sweepable(g) <=> NamedMerge!Sweepable(g)
      /\ \A s : NamedMerge!ToSet(s) = ToSet(s)
  <2>1. \A e : Homepage!IsManaged(e) <=> NamedMerge!IsManaged(e)
    BY Zenon DEF Homepage!IsManaged, NamedMerge!IsManaged, Homepage!IsMarker, NamedMerge!IsMarker,
                 Homepage!Absent, NamedMerge!Absent
  <2>2. \A g : Homepage!Sweepable(g) <=> NamedMerge!Sweepable(g)
    BY Zenon DEF Homepage!Sweepable, NamedMerge!Sweepable
  <2>3. \A s : NamedMerge!ToSet(s) = ToSet(s)
    BY DEF NamedMerge!ToSet, ToSet
  <2>. QED
    BY <2>1, <2>2, <2>3
<1>3. ASSUME NEW i \in DOMAIN groups, Homepage!Sweepable(groups[i]),
             NEW e \in ToSet(groups[i].items), Homepage!IsManaged(e)
      PROVE  \E s \in services : s.id = e.comment.id /\ s.group = groups[i].name
  <2>. DEFINE id == e.comment.id
              wanting == {k \in DOMAIN desired :
                            \E l \in DOMAIN desired[k].services : desired[k].services[l].id = id}
  <2>1. ~NamedMerge!Orphaned(e, groups[i].name, desired)
    <3>1. NamedMerge!Orphans(groups[i], desired) = {}
      BY Zenon DEF NamedMerge!Settled
    <3>2. NamedMerge!Orphans(groups[i], desired)
            = {x \in ToSet(groups[i].items) : NamedMerge!Orphaned(x, groups[i].name, desired)}
      BY <1>2, <1>3 DEF NamedMerge!Orphans
    <3>. QED
      BY <1>3, <3>1, <3>2
  <2>2. NamedMerge!DesiredGroupOf(desired, id) = groups[i].name
    BY <1>2, <1>3, <2>1, Zenon DEF NamedMerge!Orphaned
  <2>3. groups[i].name # NamedMerge!Absent
    <3>1. groups[i] \in NamedMerge!GroupsOf(names, entries)
      OBVIOUS
    <3>2. groups[i].name \in names
      BY <3>1 DEF NamedMerge!GroupsOf
    <3>. QED
      BY <1>0, <3>2
  <2>4. NamedMerge!DesiredGroupOf(desired, id)
          = IF wanting = {} THEN NamedMerge!Absent ELSE desired[CHOOSE k \in wanting : TRUE].name
    BY Zenon DEF NamedMerge!DesiredGroupOf
  <2>. HIDE DEF wanting
  <2>5. PICK k \in wanting : groups[i].name = desired[k].name
    BY <2>2, <2>3, <2>4
  <2>6. PICK l \in DOMAIN desired[k].services : k \in DOMAIN desired /\ desired[k].services[l].id = id
    BY <2>5 DEF wanting
  <2>7. PICK s \in services : s.group = desired[k].name /\ desired[k].services[l] = Wanted(s, format)
    BY <1>1, <2>6, Zenon DEF Fair
  <2>. QED
    BY <2>5, <2>6, <2>7 DEF Wanted
<1>4. ASSUME NEW s \in services
      PROVE  \E i \in DOMAIN groups :
               /\ Homepage!Sweepable(groups[i]) /\ groups[i].name = s.group
               /\ \E e \in ToSet(groups[i].items) : Homepage!IsManaged(e) /\ e.comment.id = s.id
  <2>0. PICK k \in DOMAIN desired : \E l \in DOMAIN desired[k].services :
               desired[k].name = s.group /\ desired[k].services[l] = Wanted(s, format)
    BY <1>1, Zenon DEF Fair
  <2>1. PICK l \in DOMAIN desired[k].services :
               desired[k].name = s.group /\ desired[k].services[l] = Wanted(s, format)
    BY <2>0
  <2>2. NamedMerge!Done(groups, desired[k], policy)
    BY Zenon DEF NamedMerge!Settled
  <2>3. PICK gi : /\ gi = NamedMerge!GroupIndex(groups, desired[k].name) /\ gi # 0
                  /\ groups[gi].shape = "list"
                  /\ NamedMerge!Fine(groups[gi].items, desired[k].services[l], policy)
    BY <2>2, Zenon DEF NamedMerge!Done
  <2>4. gi \in DOMAIN groups /\ groups[gi].name = s.group
    BY <2>1, <2>3, NamedMerge!IndexIsFirst
  <2>5. s.group # Nothing
    <3>1. s.group \in ToSet(GroupOrder) /\ Nothing \notin ToSet(GroupOrder)
      BY ServicesAssumption, Zenon DEF Merging, Some
    <3>. QED
      BY <3>1
  <2>6. Homepage!Sweepable(groups[gi])
    BY <2>3, <2>4, <2>5 DEF Homepage!Sweepable
  <2>. DEFINE items == groups[gi].items
              ei == NamedMerge!findManagedIndex(items, s.id)
  <2>7. items \in Seq(entries)
    <3>1. groups[gi] \in NamedMerge!GroupsOf(names, entries)
      BY <2>4
    <3>. QED
      BY <3>1 DEF NamedMerge!GroupsOf
  <2>8. ei # 0
    <3>1. desired[k].services[l].id = s.id
      BY <2>1 DEF Wanted
    <3>2. NamedMerge!Verdict(items, desired[k].services[l], policy) \in {"same", "conflict"}
      BY <2>3, Zenon DEF NamedMerge!Fine
    <3>. QED
      BY <3>1, <3>2 DEF NamedMerge!Verdict
  <2>9. ei \in DOMAIN items /\ NamedMerge!Mine(items[ei], s.id)
    BY <2>7, <2>8, NamedMerge!FoundIsFirst
  <2>10. items[ei] \in ToSet(items) /\ Homepage!IsManaged(items[ei]) /\ items[ei].comment.id = s.id
    BY <1>2, <2>9 DEF NamedMerge!Mine, ToSet
  <2>. QED
    BY <2>4, <2>6, <2>10
<1>. QED
  BY <1>3, <1>4, Zenon DEF Shows

\* The merge of this format, with what MergeProofs says of it.
LEMMA NamedMerges ==
  ASSUME NEW format \in Formats, format # "homepage",
         NEW services, NEW names, NEW entries, Merging(format, services, names, entries),
         NEW doc \in Docs(names, entries), NEW policy \in {"preserve", "overwrite", "fail"}
  PROVE  MergesWell(format, doc, services, policy, names, entries)
<1>. DEFINE desired == Desired(services, format)
            result == MergeFor(format, doc, desired, policy)
            again == MergeFor(format, result.doc, desired, policy)
            ids == {s.id : s \in Orders(format)} \cup {e.comment.id : e \in entries}
            C == [kind : NamedMerge!Reported \cup {"removed"}, id : ids, group : names]
<1>1. /\ \A d : d \in Docs(names, entries) <=> d \in NamedMerge!Documents(names, entries)
      /\ policy \in NamedMerge!Policies /\ Homepage!Absent = NamedMerge!Absent
  <2>1. Homepage!GroupsOf(names, entries) = NamedMerge!GroupsOf(names, entries)
    BY Zenon DEF Homepage!GroupsOf, NamedMerge!GroupsOf
  <2>2. Docs(names, entries) = NamedMerge!Documents(names, entries)
    BY <2>1, Zenon DEF Docs, Homepage!Documents, NamedMerge!Documents
  <2>3. Homepage!Absent = NamedMerge!Absent
    BY Zenon DEF Homepage!Absent, NamedMerge!Absent
  <2>. QED
    BY <2>2, <2>3 DEF NamedMerge!Policies
<1>2. \A d : MergeFor(format, d, desired, policy) = NamedMerge!Merge(d, desired, policy)
  <2>1. \A d : MergeFor(format, d, desired, policy) = Named!Merge(d, desired, policy)
    BY DEF MergeFor
  <2>. QED
    BY <2>1, NamedSame
<1>3. /\ desired \in Seq(NamedMerge!Wanted(names, Orders(format)))
      /\ NamedMerge!DistinctNames(desired) /\ NamedMerge!Owned(desired)
  BY NamedFits
<1>4. NamedMerge!Setting(names, entries, C, Orders(format))
  <2>1. ASSUME NEW w \in Orders(format)
        PROVE  /\ NamedMerge!Proper(w) /\ NamedMerge!Rendered(w) \in entries
               /\ \A kind \in NamedMerge!Reported, n \in names : [kind |-> kind, id |-> w.id, group |-> n] \in C
    <3>1. PICK s \in AllServices : w = Wanted(s, format)
      BY DEF Orders
    <3>2. w.id = s.id /\ w.body = RenderEntry(s, format)
      BY <3>1 DEF Wanted
    <3>3. NamedMerge!Proper(w)
      <4>1. s.id # NamedMerge!Absent /\ Hash[RenderEntry(s, format)] # NamedMerge!Absent
            /\ RenderEntry(s, format) # Unreadable
        BY ServicesAssumption, Zenon DEF NamedMerge!Absent
      <4>. QED
        BY <3>2, <4>1, Zenon DEF NamedMerge!Proper
    <3>4. Fresh(w) = NamedMerge!Rendered(w)
      BY Zenon DEF Fresh, Homepage!Rendered, NamedMerge!Rendered, Homepage!buildMarker, NamedMerge!buildMarker
    <3>5. w.id \in ids
      OBVIOUS
    <3>. HIDE DEF ids
    <3>. QED
      BY <3>3, <3>4, <3>5 DEF Merging
  <2>2. \A e \in entries, n \in names : [kind |-> "removed", id |-> e.comment.id, group |-> n] \in C
    OBVIOUS
  <2>. HIDE DEF C
  <2>. QED
    BY <2>1, <2>2, Zenon DEF NamedMerge!Setting
<1>. HIDE DEF desired, C
<1>5. /\ result.doc \in NamedMerge!Documents(names, entries)
      /\ result.error = NamedMerge!Absent =>
           result.doc.root = "groups" /\ NamedMerge!Settled(result.doc.groups, desired, policy)
  <2>1. result = NamedMerge!Merge(doc, desired, policy) /\ doc \in NamedMerge!Documents(names, entries)
    BY <1>1, <1>2
  <2>. HIDE DEF result
  <2>. QED
    BY <1>1, <1>3, <1>4, <2>1, NamedMerge!MergeEffect
<1>6. ASSUME result.error = NamedMerge!Absent
      PROVE  /\ again.error = NamedMerge!Absent
             /\ \A i \in DOMAIN again.changes : again.changes[i].kind = "conflict"
  <2>. DEFINE here == result.doc
  <2>1. again = NamedMerge!Merge(here, desired, policy)
    BY <1>2
  <2>2. /\ here \in NamedMerge!Documents(names, entries) /\ here.root = "groups"
        /\ NamedMerge!Settled(here.groups, desired, policy)
    BY <1>5, <1>6
  <2>. HIDE DEF again, here
  <2>3. again.error = NamedMerge!Absent /\ NamedMerge!AllConflicts(again.changes)
    BY <1>1, <1>3, <1>4, <2>1, <2>2, NamedMerge!MergeEffect
  <2>. QED
    BY <2>3 DEF NamedMerge!AllConflicts
<1>7. ASSUME result.error = NamedMerge!Absent, Homepage!Absent \notin names
      PROVE  Shows(result.doc.groups, services)
  <2>. DEFINE groups == result.doc.groups
  <2>1. groups \in Seq(NamedMerge!GroupsOf(names, entries))
    BY <1>5 DEF NamedMerge!Documents
  <2>2. NamedMerge!Settled(groups, desired, policy)
    BY <1>5, <1>7
  <2>. HIDE DEF groups
  <2>3. Shows(groups, services)
    BY <1>7, <2>1, <2>2, NamedShows DEF desired
  <2>. QED
    BY <2>3 DEF groups
<1>8. Reports(result.changes, services)
  <2>. DEFINE changes == result.changes
              others  == {i \in DOMAIN changes : changes[i].kind # "removed"}
  <2>1. result = NamedMerge!Merge(doc, desired, policy) /\ doc \in NamedMerge!Documents(names, entries)
    BY <1>1, <1>2
  <2>2. Fair(services, format, desired)
    BY DesiredIsFair DEF Merging, desired
  <2>. HIDE DEF result
  <2>3. /\ \A i \in others : \E g \in DOMAIN desired : \E j \in DOMAIN desired[g].services :
             changes[i].id = desired[g].services[j].id /\ changes[i].group = desired[g].name
        /\ \A i, j \in others : changes[i].id = changes[j].id => i = j
        /\ \A i \in DOMAIN changes \ others :
             NamedMerge!DesiredGroupOf(desired, changes[i].id) # changes[i].group
    BY <1>1, <1>3, <1>4, <2>1, NamedMerge!MergeTells
  <2>4. ASSUME NEW i \in others
        PROVE  \E s \in services : changes[i].id = s.id /\ changes[i].group = s.group
    <3>1. PICK g \in DOMAIN desired : \E j \in DOMAIN desired[g].services :
             changes[i].id = desired[g].services[j].id /\ changes[i].group = desired[g].name
      BY <2>3
    <3>2. PICK j \in DOMAIN desired[g].services :
             changes[i].id = desired[g].services[j].id /\ changes[i].group = desired[g].name
      BY <3>1
    <3>3. PICK s \in services : s.group = desired[g].name /\ desired[g].services[j] = Wanted(s, format)
      BY <2>2 DEF Fair
    <3>. QED
      BY <3>2, <3>3 DEF Wanted
  <2>5. ASSUME NEW i \in DOMAIN changes \ others, NEW s \in services, changes[i].id = s.id
        PROVE  changes[i].group # s.group
    <3>1. PICK g \in DOMAIN desired : \E j \in DOMAIN desired[g].services :
             desired[g].name = s.group /\ desired[g].services[j] = Wanted(s, format)
      BY <2>2, Zenon DEF Fair
    <3>2. PICK j \in DOMAIN desired[g].services :
             desired[g].name = s.group /\ desired[g].services[j] = Wanted(s, format)
      BY <3>1
    <3>3. desired[g].services[j].id = s.id
      BY <3>2 DEF Wanted
    <3>4. NamedMerge!DesiredGroupOf(desired, s.id) = s.group
      BY <1>3, <3>2, <3>3, Zenon DEF NamedMerge!Owned
    <3>. QED
      BY <2>3, <2>5, <3>4
  <2>. HIDE DEF changes
  <2>6. Reports(changes, services)
    BY <2>3, <2>4, <2>5, Zenon DEF Reports
  <2>. QED
    BY <2>6 DEF changes
<1>9. ASSUME doc = Nowhere
      PROVE  result.error = Homepage!Absent /\ result.doc.groups = FreshFrom(desired)
  <2>1. result = NamedMerge!Merge(doc, desired, policy)
    BY <1>2
  <2>2. NamedMerge!HasGroupSequence(doc) /\ doc.groups = <<>>
    BY <1>9 DEF Nowhere, NamedMerge!HasGroupSequence
  <2>. HIDE DEF result
  <2>3. result.error = NamedMerge!Absent /\ result.doc.groups = NamedMerge!FreshGroups(desired)
    BY <1>1, <1>3, <1>4, <2>1, <2>2, NamedMerge!MergeFresh
  <2>4. \A w : Fresh(w) = NamedMerge!Rendered(w)
    BY Zenon DEF Fresh, Homepage!Rendered, NamedMerge!Rendered, Homepage!buildMarker, NamedMerge!buildMarker
  <2>5. NamedMerge!FreshGroups(desired) = FreshFrom(desired)
    BY <2>4, Zenon DEF NamedMerge!FreshGroups, NamedMerge!FreshGroup, NamedMerge!RenderedAll, FreshFrom
  <2>. QED
    BY <1>1, <2>3, <2>5
<1>. HIDE DEF result, again
<1>10. /\ result.doc \in Docs(names, entries)
       /\ result.error = Homepage!Absent =>
            /\ result.doc.root = "groups"
            /\ again.error = Homepage!Absent
            /\ \A i \in DOMAIN again.changes : again.changes[i].kind = "conflict"
            /\ Homepage!Absent \notin names => Shows(result.doc.groups, services)
       /\ Reports(result.changes, services)
       /\ doc = Nowhere => result.error = Homepage!Absent /\ result.doc.groups = FreshFrom(desired)
  BY <1>1, <1>5, <1>6, <1>7, <1>8, <1>9, Zenon
<1>. QED
  BY <1>10 DEF MergesWell, result, again, desired

-----------------------------------------------------------------------------
(***************************************************************************)
(* What may be in the file.                                                *)
(***************************************************************************)
\* The groups there are to begin with.
InitialGroups ==
  UNION {UNION {ToSet(f.lists[key]) : key \in DOMAIN f.lists} : f \in InitialFiles}

\* The names of groups, and the entries, that there are or that a run makes.
Names == ToSet(GroupOrder) \cup {group.name : group \in InitialGroups}

\* The entries there are to begin with, or that a run makes.
Made ==
  (UNION {ToSet(group.items) : group \in InitialGroups})
    \cup (UNION {{Fresh(wanted) : wanted \in Orders(format)} : format \in Formats})

\* A person may have edited them.
Entries == Made \cup {[e EXCEPT !.body = HandWritten] : e \in Made}

\* The groups with such names and entries.
Groups == Homepage!GroupsOf(Names, Entries)

\* Under each key there is a list of groups of such entries.
ListsOK(f) == \A key \in DOMAIN f.lists : f.lists[key] \in Seq(Groups)

\* What discovery returns can be merged into such a list.
LEMMA MergingHere ==
  ASSUME DockerOK, NEW up, NEW format \in Formats
  PROVE  Merging(format, Discovered(docker, up), Names, Entries)
<1>1. Some(Discovered(docker, up))
  BY DiscoveredAreSome
<1>2. \A wanted \in Orders(format) : Fresh(wanted) \in Entries
  <2>. SUFFICES ASSUME NEW wanted \in Orders(format) PROVE Fresh(wanted) \in Entries
    OBVIOUS
  <2>1. Fresh(wanted) \in {Fresh(w) : w \in Orders(format)}
    OBVIOUS
  <2>2. Fresh(wanted) \in UNION {{Fresh(w) : w \in Orders(form)} : form \in Formats}
    BY <2>1
  <2>3. Fresh(wanted) \in Made
    BY <2>2 DEF Made
  <2>. QED
    BY <2>3, Zenon DEF Entries
<1>. QED
  BY <1>1, <1>2, Zenon DEF Merging, Names

\* What a format sees of such a file.
LEMMA ViewOK ==
  ASSUME NEW f, ListsOK(f), NEW format
  PROVE  View(f, format) \in Docs(Names, Entries)
<1>. DEFINE view == View(f, format)
<1>1. /\ view = [root |-> view.root, groups |-> view.groups]
      /\ view.root \in {"blank", "groups", "noKey", "other"}
      /\ \/ view.groups = <<>>
         \/ ListKey(format) \in DOMAIN f.lists /\ view.groups = f.lists[ListKey(format)]
  <2>1. \E root \in {"blank", "groups", "noKey", "other"} :
          /\ root = "groups" => ListKey(format) \in DOMAIN f.lists
          /\ view = [root |-> root, groups |-> IF root = "groups" THEN f.lists[ListKey(format)] ELSE <<>>]
    <3>. DEFINE root == CASE f.shape = "absent"                       -> "blank"
                          [] f.shape = "map" /\ format = "homepage"   -> "other"
                          [] f.shape = "list" /\ format # "homepage"  -> "other"
                          [] OTHER -> IF ListKey(format) \in DOMAIN f.lists THEN "groups" ELSE "noKey"
    <3>1. view = [root |-> root, groups |-> IF root = "groups" THEN f.lists[ListKey(format)] ELSE <<>>]
      BY Zenon DEF View
    <3>2. /\ root \in {"blank", "groups", "noKey", "other"}
          /\ root = "groups" => ListKey(format) \in DOMAIN f.lists
      OBVIOUS
    <3>. HIDE DEF root, view
    <3>. QED
      BY <3>1, <3>2
  <2>. HIDE DEF view
  <2>2. PICK root \in {"blank", "groups", "noKey", "other"} :
          /\ root = "groups" => ListKey(format) \in DOMAIN f.lists
          /\ view = [root |-> root, groups |-> IF root = "groups" THEN f.lists[ListKey(format)] ELSE <<>>]
    BY <2>1
  <2>3. /\ view = [root |-> view.root, groups |-> view.groups] /\ view.root = root
        /\ view.groups = IF root = "groups" THEN f.lists[ListKey(format)] ELSE <<>>
    BY <2>2
  <2>4. root = "groups" => view.groups = f.lists[ListKey(format)]
    BY <2>3, Zenon
  <2>5. root # "groups" => view.groups = <<>>
    BY <2>3, Zenon
  <2>. QED
    BY <2>2, <2>3, <2>4, <2>5, Zenon
<1>2. <<>> \in Seq(Groups)
  OBVIOUS
<1>3. view.groups \in Seq(Groups)
  BY <1>1, <1>2 DEF ListsOK
<1>. HIDE DEF view
<1>4. view \in Homepage!Documents(Names, Entries)
  BY <1>1, <1>3 DEF Homepage!Documents, Groups
<1>. QED
  BY <1>4 DEF Docs, view

\* What a run made of the list is what the next run finds.
LEMMA ViewStored ==
  ASSUME NEW f, NEW format \in Formats, NEW doc \in Docs(Names, Entries), doc.root = "groups"
  PROVE  View(Stored(f, format, doc), format) = doc
<1>. DEFINE g == Stored(f, format, doc)
<1>1. /\ g.shape = IF format = "homepage" THEN "list" ELSE "map"
      /\ ListKey(format) \in DOMAIN g.lists /\ g.lists[ListKey(format)] = doc.groups
  BY DEF Stored
<1>2. doc = [root |-> "groups", groups |-> doc.groups]
  BY DEF Docs, Homepage!Documents
<1>. HIDE DEF g
<1>3. View(g, format) = [root |-> "groups", groups |-> g.lists[ListKey(format)]]
  BY <1>1 DEF View
<1>. QED
  BY <1>1, <1>2, <1>3 DEF g

\* What a run makes of such a file.
LEMMA StoredOK ==
  ASSUME NEW f, ListsOK(f), NEW format, NEW doc \in Docs(Names, Entries)
  PROVE  ListsOK(Stored(f, format, doc))
<1>1. doc.groups \in Seq(Groups)
  BY DEF Docs, Homepage!Documents, Groups
<1>2. \A key \in DOMAIN Stored(f, format, doc).lists :
        Stored(f, format, doc).lists[key] = IF key = ListKey(format) THEN doc.groups ELSE f.lists[key]
  BY DEF Stored
<1>3. DOMAIN Stored(f, format, doc).lists = DOMAIN f.lists \cup {ListKey(format)}
  BY DEF Stored
<1>. QED
  BY <1>1, <1>2, <1>3 DEF ListsOK

\* One run.
LEMMA RunIs ==
  ASSUME DockerOK, NEW f, ListsOK(f), NEW flags, NEW up
  PROVE  LET run      == Sync(flags, docker, up, f)
             services == Discovered(docker, up)
             merged   == Merged(f, services, flags.format, flags.conflict)
         IN  /\ ListsOK(run.file)
             /\ FlagsAccepted(flags) =>
                  MergesWell(flags.format, View(f, flags.format), services, flags.conflict, Names, Entries)
             /\ run.exit = 2 \/ run.file # f =>
                  /\ FlagsAccepted(flags) /\ up # {} /\ flags.outputPath
                  /\ merged.error = Homepage!Absent
             /\ run.exit = 2 => flags.check /\ run.file = f
             /\ ~FlagsAccepted(flags) \/ up = {} => run.exit = 1
             /\ run.changes = <<>> \/ (FlagsAccepted(flags) /\ run.changes = merged.changes)
             /\ FlagsAccepted(flags) /\ up # {} /\ flags.outputPath =>
                  /\ merged.error = Homepage!Absent =>
                       /\ run.changes = merged.changes
                       /\ flags.check => run.file = f
                       /\ ~flags.check => run.exit = 0
                       /\ ~flags.check /\ ~DryRun(flags) =>
                            run.file = Stored(f, flags.format, merged.doc)
                  /\ merged.error # Homepage!Absent => run.exit = 1 /\ run.changes = <<>>
<1>. DEFINE services == Discovered(docker, up)
            format == flags.format
            merged == Merged(f, services, format, flags.conflict)
            run == Outcome(flags, up, f, merged)
<1>0. Sync(flags, docker, up, f) = run
  BY Zenon DEF Sync
<1>1. ASSUME FlagsAccepted(flags)
      PROVE  /\ MergesWell(format, View(f, format), services, flags.conflict, Names, Entries)
             /\ format \in Formats /\ merged.doc \in Docs(Names, Entries)
  <2>1. format \in Formats /\ flags.conflict \in {"preserve", "overwrite", "fail"}
    BY <1>1, Zenon DEF FlagsAccepted
  <2>2. Merging(format, services, Names, Entries) /\ View(f, format) \in Docs(Names, Entries)
    BY <2>1, MergingHere, ViewOK
  <2>. HIDE DEF services, format
  <2>3. MergesWell(format, View(f, format), services, flags.conflict, Names, Entries)
    BY <2>1, <2>2, HomepageMerges, NamedMerges
  <2>4. merged.doc \in Docs(Names, Entries)
    BY <2>3, MergedIs, Zenon DEF MergesWell
  <2>. QED
    BY <2>1, <2>3, <2>4
<1>. HIDE DEF merged, services, format
<1>2. CASE ~FlagsAccepted(flags) \/ up = {}
  <2>1. run = Failure(f)
    BY <1>2 DEF Outcome
  <2>2. run.exit = 1 /\ run.file = f /\ run.changes = <<>>
    BY <2>1 DEF Failure
  <2>. HIDE DEF run
  <2>. QED
    BY <1>0, <1>1, <1>2, <2>2 DEF merged, services, format
<1>3. CASE FlagsAccepted(flags) /\ up # {} /\ ~flags.outputPath
  <2>1. run = [exit |-> 0, file |-> f, changes |-> <<>>]
    BY <1>3 DEF Outcome
  <2>2. run.exit = 0 /\ run.file = f /\ run.changes = <<>>
    BY <2>1
  <2>. HIDE DEF run
  <2>. QED
    BY <1>0, <1>1, <1>3, <2>2 DEF merged, services, format
<1>4. CASE FlagsAccepted(flags) /\ up # {} /\ flags.outputPath /\ merged.error # Homepage!Absent
  <2>1. run = Failure(f)
    BY <1>4, Zenon DEF Outcome, Homepage!Absent
  <2>2. run.exit = 1 /\ run.file = f /\ run.changes = <<>>
    BY <2>1 DEF Failure
  <2>. HIDE DEF run
  <2>. QED
    BY <1>0, <1>1, <1>4, <2>2 DEF merged, services, format
<1>5. CASE FlagsAccepted(flags) /\ up # {} /\ flags.outputPath /\ merged.error = Homepage!Absent
  <2>1. run = [exit    |-> IF flags.check /\ merged.changes # <<>> THEN 2 ELSE 0,
               file    |-> IF flags.check \/ DryRun(flags) THEN f ELSE Stored(f, flags.format, merged.doc),
               changes |-> merged.changes]
    BY <1>5, Zenon DEF Outcome, Homepage!Absent
  <2>2. /\ run.exit = 2 => flags.check
        /\ ~flags.check => run.exit = 0
        /\ run.file = IF flags.check \/ DryRun(flags) THEN f ELSE Stored(f, format, merged.doc)
        /\ run.changes = merged.changes
    BY <2>1 DEF format
  <2>3. ListsOK(Stored(f, format, merged.doc))
    BY <1>1, <1>5, StoredOK
  <2>. HIDE DEF run
  <2>. QED
    BY <1>0, <1>1, <1>5, <2>2, <2>3 DEF merged, services, format
<1>. QED
  BY <1>2, <1>3, <1>4, <1>5

\* A sequence stays one when its elements belong to a larger set.
LEMMA Wider ==
  ASSUME NEW S, NEW T, NEW list \in Seq(S), \A i \in DOMAIN list : list[i] \in T
  PROVE  list \in Seq(T)
<1>1. list = [i \in 1 .. Len(list) |-> list[i]] /\ DOMAIN list = 1 .. Len(list) /\ Len(list) \in Nat
  OBVIOUS
<1>. QED
  BY <1>1

\* What is there to begin with.
LEMMA InitialLists ==
  ASSUME NEW f \in InitialFiles
  PROVE  ListsOK(f)
<1>. SUFFICES ASSUME NEW key \in DOMAIN f.lists PROVE f.lists[key] \in Seq(Groups)
  BY DEF ListsOK
<1>. DEFINE list == f.lists[key]
<1>1. /\ list \in Seq(ToSet(list))
      /\ \A group \in ToSet(list) :
           /\ group = [name |-> group.name, shape |-> group.shape, items |-> group.items]
           /\ group.shape \in {"list", "notList", "noItems"}
           /\ group.items \in Seq(ToSet(group.items))
           /\ group.shape # "list" => group.items = <<>>
  BY GroupsAssumption, Zenon
<1>2. ToSet(list) \subseteq InitialGroups
  <2>. DEFINE held == UNION {ToSet(f.lists[k]) : k \in DOMAIN f.lists}
  <2>1. ToSet(list) \subseteq held
    OBVIOUS
  <2>2. held \subseteq InitialGroups
    BY DEF InitialGroups
  <2>. QED
    BY <2>1, <2>2
<1>. HIDE DEF list
<1>3. ASSUME NEW group \in ToSet(list) PROVE group \in Groups
  <2>1. group \in InitialGroups
    BY <1>2
  <2>2. group.name \in Names
    BY <2>1 DEF Names
  <2>3. ToSet(group.items) \subseteq Entries
    BY <2>1, Zenon DEF Made, Entries
  <2>4. \A j \in DOMAIN group.items : group.items[j] \in Entries
    BY <2>3 DEF ToSet
  <2>5. group.items \in Seq(Entries)
    BY <1>1, <2>4, Wider
  <2>. QED
    BY <1>1, <2>2, <2>5 DEF Groups, Homepage!GroupsOf
<1>4. \A i \in DOMAIN list : list[i] \in Groups
  BY <1>3 DEF ToSet
<1>. QED
  BY <1>1, <1>4, Wider DEF list

\* An entry that somebody edits, or edits again, is one that may be there.
LEMMA EditedEntries ==
  ASSUME NEW e \in Entries
  PROVE  [e EXCEPT !.body = HandWritten] \in Entries
<1>1. CASE e \in Made
  BY <1>1, Zenon DEF Entries
<1>2. CASE e \in {[m EXCEPT !.body = HandWritten] : m \in Made}
  <2>1. PICK m \in Made : e = [m EXCEPT !.body = HandWritten]
    BY <1>2
  <2>2. [e EXCEPT !.body = HandWritten] = e
    BY <2>1
  <2>. QED
    BY <2>2
<1>. QED
  BY <1>1, <1>2 DEF Entries

\* Somebody works on the entries of a group.
LEMMA ItemsReplaced ==
  ASSUME FileOK, ListsOK(file), NEW key \in DOMAIN file.lists,
         NEW i \in DOMAIN file.lists[key], file.lists[key][i].items # <<>>,
         NEW items \in Seq(Entries)
  PROVE  ListsOK([file EXCEPT !.lists[key][i].items = items])
<1>. DEFINE list == file.lists[key]
            group == list[i]
            edited == [group EXCEPT !.items = items]
<1>1. list \in Seq(Groups)
  BY DEF ListsOK
<1>2. group \in Groups
  BY <1>1
<1>3. edited \in Groups
  BY <1>2 DEF Groups, Homepage!GroupsOf
<1>4. [list EXCEPT ![i] = edited] \in Seq(Groups)
  BY <1>1, <1>3
<1>5. \A k \in DOMAIN file.lists :
        [file EXCEPT !.lists[key][i].items = items].lists[k]
          = IF k = key THEN [list EXCEPT ![i] = edited] ELSE file.lists[k]
  BY DEF FileOK
<1>6. DOMAIN [file EXCEPT !.lists[key][i].items = items].lists = DOMAIN file.lists
  BY DEF FileOK
<1>. QED
  BY <1>4, <1>5, <1>6 DEF ListsOK

\* What a person does to the file.
LEMMA PersonKeeps ==
  ASSUME FileOK, ListsOK(file), PersonEdits
  PROVE  ListsOK(file')
<1>1. PICK key \in DOMAIN file.lists : \E i \in DOMAIN file.lists[key] :
        \E j \in DOMAIN file.lists[key][i].items :
          LET entry  == file.lists[key][i].items[j]
              edited == [entry EXCEPT !.body = HandWritten]
          IN  /\ said = Silence /\ moves < MaxMoves
              /\ \/ file' = [file EXCEPT !.lists[key][i].items[j] = edited]
                 \/ file' = [file EXCEPT !.lists[key][i].items = InsertAt(@, j, entry)]
              /\ moves' = moves + 1
              /\ UNCHANGED <<docker, said>>
  BY Zenon DEF PersonEdits
<1>2. PICK i \in DOMAIN file.lists[key] :
        \E j \in DOMAIN file.lists[key][i].items :
          LET entry  == file.lists[key][i].items[j]
              edited == [entry EXCEPT !.body = HandWritten]
          IN  \/ file' = [file EXCEPT !.lists[key][i].items[j] = edited]
              \/ file' = [file EXCEPT !.lists[key][i].items = InsertAt(@, j, entry)]
  BY <1>1
<1>. DEFINE items == file.lists[key][i].items
<1>3. PICK j \in DOMAIN items :
        \/ file' = [file EXCEPT !.lists[key][i].items[j] = [items[j] EXCEPT !.body = HandWritten]]
        \/ file' = [file EXCEPT !.lists[key][i].items = InsertAt(@, j, items[j])]
  BY <1>2
<1>4. file.lists[key] \in Seq(Groups)
  BY DEF ListsOK
<1>5. file.lists[key][i] \in Groups
  BY <1>4
<1>6. items \in Seq(Entries)
  BY <1>5 DEF Groups, Homepage!GroupsOf
<1>7. items # <<>>
  BY <1>3
<1>8. items[j] \in Entries
  BY <1>3, <1>6
<1>9. [items EXCEPT ![j] = [items[j] EXCEPT !.body = HandWritten]] \in Seq(Entries)
  BY <1>6, <1>8, EditedEntries
<1>10. InsertAt(items, j, items[j]) \in Seq(Entries)
  BY <1>6, <1>8 DEF InsertAt
<1>11. /\ ListsOK([file EXCEPT !.lists[key][i].items =
                      [items EXCEPT ![j] = [items[j] EXCEPT !.body = HandWritten]]])
       /\ ListsOK([file EXCEPT !.lists[key][i].items = InsertAt(items, j, items[j])])
  BY <1>7, <1>9, <1>10, ItemsReplaced
<1>12. /\ [file EXCEPT !.lists[key][i].items[j] = [items[j] EXCEPT !.body = HandWritten]]
            = [file EXCEPT !.lists[key][i].items =
                 [items EXCEPT ![j] = [items[j] EXCEPT !.body = HandWritten]]]
       /\ [file EXCEPT !.lists[key][i].items = InsertAt(@, j, items[j])]
            = [file EXCEPT !.lists[key][i].items = InsertAt(items, j, items[j])]
  OBVIOUS
<1>. HIDE DEF items
<1>. QED
  BY <1>3, <1>11, <1>12

\* The last command, if it was a sync, was a run on some file of that kind.
SaidOK ==
  said.command = "sync" =>
    /\ said.flags \in FlagSets
    /\ \E f : LET run == Sync(said.flags, docker, said.up, f)
              IN  /\ ListsOK(f)
                  /\ said.exit = run.exit /\ file = run.file
                  /\ said.report = Report(run.changes, Discovered(docker, said.up))

\* The inductive invariant.
Kept == FileOK /\ DockerOK /\ ListsOK(file) /\ SaidOK

\* A run of sync.
LEMMA RunKeeps ==
  ASSUME DockerOK, ListsOK(file), RunSync
  PROVE  ListsOK(file') /\ SaidOK'
<1>1. PICK flags \in FlagSets : \E up \in Answering :
        \E run \in {Sync(flags, docker, up, file)} :
          /\ said' = [command |-> "sync", flags |-> flags, up |-> up, exit |-> run.exit,
                      report |-> Report(run.changes, Discovered(docker, up))]
          /\ file' = run.file /\ docker' = docker
  BY Zenon DEF RunSync
<1>2. PICK up \in Answering :
        \E run \in {Sync(flags, docker, up, file)} :
          /\ said' = [command |-> "sync", flags |-> flags, up |-> up, exit |-> run.exit,
                      report |-> Report(run.changes, Discovered(docker, up))]
          /\ file' = run.file /\ docker' = docker
  BY <1>1
<1>. DEFINE run == Sync(flags, docker, up, file)
<1>3. /\ said' = [command |-> "sync", flags |-> flags, up |-> up, exit |-> run.exit,
                  report |-> Report(run.changes, Discovered(docker, up))]
      /\ file' = run.file /\ docker' = docker
  BY <1>2
<1>4. ListsOK(run.file)
  BY RunIs, Zenon
<1>5. /\ said'.flags = flags /\ said'.up = up /\ said'.exit = run.exit
      /\ said'.report = Report(run.changes, Discovered(docker, up))
  BY <1>3
<1>6. ListsOK(file')
  BY <1>3, <1>4
<1>7. \E f : LET now == Sync(said'.flags, docker', said'.up, f)
             IN  /\ ListsOK(f)
                 /\ said'.exit = now.exit /\ file' = now.file
                 /\ said'.report = Report(now.changes, Discovered(docker', said'.up))
  BY <1>3, <1>5, Zenon
<1>. QED
  BY <1>5, <1>6, <1>7, Zenon DEF SaidOK

-----------------------------------------------------------------------------
(***************************************************************************)
(* Every run of every history.                                             *)
(***************************************************************************)
\* A run on a file of that kind leaves one, and the file keeps its kind.
LEMMA AlwaysKept == Spec => []Kept
<1>1. Init => Kept
  <2>. SUFFICES ASSUME Init PROVE Kept
    OBVIOUS
  <2>1. FileOK
    BY CommandAssumption DEF Init, FileOK
  <2>2. DockerOK
    BY ContainersAssumption DEF Init, DockerOK, Sources
  <2>3. ListsOK(file)
    BY InitialLists DEF Init
  <2>4. said.command # "sync"
    <3>1. said = Silence
      BY DEF Init
    <3>2. Silence.command = "none"
      BY DEF Silence
    <3>. QED
      BY <3>1, <3>2
  <2>. QED
    BY <2>1, <2>2, <2>3, <2>4 DEF Kept, SaidOK
<1>2. Kept /\ FileOK' /\ DockerOK' /\ [Next]_vars => Kept'
  <2>. SUFFICES ASSUME Kept, FileOK', DockerOK', [Next]_vars PROVE ListsOK(file') /\ SaidOK'
    BY DEF Kept
  <2>0. Silence.command = "none"
    BY DEF Silence
  <2>1. CASE RunSync
    BY <2>1, RunKeeps DEF Kept
  <2>2. CASE RunInspect
    <3>1. said'.command = "inspect" /\ file' = file
      BY <2>2 DEF RunInspect
    <3>. QED
      BY <3>1 DEF Kept, SaidOK
  <2>3. CASE Prompt
    <3>1. said' = Silence /\ file' = file
      BY <2>3 DEF Prompt
    <3>. QED
      BY <2>0, <3>1 DEF Kept, SaidOK
  <2>4. CASE DockerChanges
    <3>1. said' = Silence /\ file' = file
      BY <2>4 DEF DockerChanges
    <3>. QED
      BY <2>0, <3>1 DEF Kept, SaidOK
  <2>5. CASE PersonEdits
    <3>1. said' = Silence
      BY <2>5 DEF PersonEdits
    <3>2. ListsOK(file')
      BY <2>5, PersonKeeps DEF Kept
    <3>. QED
      BY <2>0, <3>1, <3>2 DEF SaidOK
  <2>6. CASE UNCHANGED vars
    <3>1. said' = said /\ file' = file /\ docker' = docker
      BY <2>6 DEF vars
    <3>. QED
      BY <3>1 DEF Kept, SaidOK
  <2>. QED
    BY <2>1, <2>2, <2>3, <2>4, <2>5, <2>6 DEF Next
<1>. QED
  BY <1>1, <1>2, ShapeKept, DockerKept, PTL DEF Spec

\* The command that --check advises.
LEMMA Advised ==
  ASSUME NEW flags \in FlagSets, FlagsAccepted(flags)
  PROVE  LET advised == [flags EXCEPT !.dryRun = "false", !.check = FALSE]
         IN  /\ FlagsAccepted(advised) /\ ~advised.check /\ ~DryRun(advised)
             /\ advised.format = flags.format /\ advised.conflict = flags.conflict
             /\ advised.outputPath = flags.outputPath
<1>. DEFINE advised == [flags EXCEPT !.dryRun = "false", !.check = FALSE]
<1>1. DOMAIN flags = {"format", "conflict", "outputPath", "check", "ci", "dryRun"}
  BY FlagsAssumption
<1>2. /\ advised.format = flags.format /\ advised.conflict = flags.conflict
      /\ advised.outputPath = flags.outputPath
      /\ advised.check = FALSE /\ advised.dryRun = "false"
  BY <1>1
<1>. HIDE DEF advised
<1>3. FlagsAccepted(advised) /\ ~advised.check
  BY <1>2 DEF FlagsAccepted
<1>4. ~DryRun(advised)
  BY <1>2 DEF DryRun
<1>. QED
  BY <1>2, <1>3, <1>4 DEF advised

\* A run that found changes pending, the run it advises, and the next.
LEMMA CheckThenSync ==
  ASSUME Kept, said.command = "sync", said.exit = 2
  PROVE  LET written == Sync([said.flags EXCEPT !.dryRun = "false", !.check = FALSE],
                             docker, said.up, file)
             again   == Sync(said.flags, docker, said.up, written.file)
         IN  /\ written.exit = 0
             /\ \A i \in DOMAIN again.changes : again.changes[i].kind = "conflict"
<1>. DEFINE flags    == said.flags
            up       == said.up
            advised  == [flags EXCEPT !.dryRun = "false", !.check = FALSE]
            services == Discovered(docker, up)
            format   == flags.format
            merged   == Merged(file, services, format, flags.conflict)
            written  == Sync(advised, docker, up, file)
            next     == Merged(written.file, services, format, flags.conflict)
            again    == Sync(flags, docker, up, written.file)
<1>1. DockerOK /\ ListsOK(file) /\ flags \in FlagSets
  BY DEF Kept, SaidOK
<1>2. PICK f : ListsOK(f) /\ said.exit = Sync(flags, docker, up, f).exit
                 /\ file = Sync(flags, docker, up, f).file
  BY Zenon DEF Kept, SaidOK
<1>3. /\ file = f /\ FlagsAccepted(flags) /\ up # {} /\ flags.outputPath
      /\ merged.error = Homepage!Absent
  <2>. DEFINE run == Sync(flags, docker, up, f)
  <2>1. run.exit = 2
    BY <1>2
  <2>2. /\ FlagsAccepted(flags) /\ up # {} /\ flags.outputPath /\ run.file = f
        /\ Merged(f, services, format, flags.conflict).error = Homepage!Absent
    BY <1>1, <1>2, <2>1, RunIs
  <2>. QED
    BY <1>2, <2>2, Zenon
<1>4. /\ FlagsAccepted(advised) /\ ~advised.check /\ ~DryRun(advised) /\ advised.outputPath
      /\ advised.format = format /\ advised.conflict = flags.conflict
  BY <1>1, <1>3, Advised, Zenon
<1>5. /\ ListsOK(written.file) /\ written.exit = 0
      /\ written.file = Stored(file, format, merged.doc)
      /\ MergesWell(format, View(file, format), services, flags.conflict, Names, Entries)
  <2>. HIDE DEF advised, flags, up, format
  <2>1. Merged(file, services, advised.format, advised.conflict) = merged
    BY <1>4, Zenon
  <2>2. /\ ListsOK(written.file)
        /\ MergesWell(advised.format, View(file, advised.format), services, advised.conflict, Names, Entries)
        /\ merged.error = Homepage!Absent =>
              /\ ~advised.check => written.exit = 0
              /\ ~advised.check /\ ~DryRun(advised) =>
                   written.file = Stored(file, advised.format, merged.doc)
    BY <1>1, <1>3, <1>4, <2>1, RunIs
  <2>. QED
    BY <1>3, <1>4, <2>2, Zenon
<1>6. format \in Formats
  BY <1>3 DEF FlagsAccepted
<1>7. merged = MergeFor(format, View(file, format), Desired(services, format), flags.conflict)
  BY MergedIs, Zenon
<1>8. /\ merged.doc \in Docs(Names, Entries) /\ merged.doc.root = "groups"
      /\ LET then == MergeFor(format, merged.doc, Desired(services, format), flags.conflict)
         IN  /\ then.error = Homepage!Absent
             /\ \A i \in DOMAIN then.changes : then.changes[i].kind = "conflict"
  BY <1>3, <1>5, <1>7, Zenon DEF MergesWell
<1>9. View(written.file, format) = merged.doc
  <2>. HIDE DEF advised, flags, merged, written, format
  <2>1. View(Stored(file, format, merged.doc), format) = merged.doc
    BY <1>6, <1>8, ViewStored
  <2>. QED
    BY <1>5, <2>1, Zenon
<1>10. next = MergeFor(format, merged.doc, Desired(services, format), flags.conflict)
  BY <1>9, MergedIs, Zenon
<1>11. /\ next.error = Homepage!Absent
       /\ \A i \in DOMAIN next.changes : next.changes[i].kind = "conflict"
  BY <1>8, <1>10, Zenon
<1>12. again.changes = next.changes
  BY <1>1, <1>3, <1>5, <1>11, RunIs
<1>. QED
  BY <1>5, <1>11, <1>12, Zenon

\* pendingChangesError: for any containers, files, hands at work on the file and
\* command lines, the command that a failing --check advises succeeds, whether
\* $CI is set or not, and a second --check then finds nothing but the hand edits
\* that are kept.
THEOREM AdviceIsGood == Spec => []AdviceWorks
<1>1. Kept => AdviceWorks
  BY CheckThenSync, Zenon DEF AdviceWorks
<1>. QED
  BY <1>1, AlwaysKept, PTL

\* A run that wrote.
LEMMA WrittenShows ==
  ASSUME Kept, said.command = "sync", said.exit = 0, said.flags.outputPath, ~said.flags.check,
         ~DryRun(said.flags)
  PROVE  Shows(file.lists[ListKey(said.flags.format)], Discovered(docker, said.up))
<1>. DEFINE flags    == said.flags
            up       == said.up
            services == Discovered(docker, up)
            format   == flags.format
<1>1. DockerOK
  BY DEF Kept
<1>2. PICK f : ListsOK(f) /\ said.exit = Sync(flags, docker, up, f).exit
                 /\ file = Sync(flags, docker, up, f).file
  BY Zenon DEF Kept, SaidOK
<1>. DEFINE merged == Merged(f, services, format, flags.conflict)
            run    == Sync(flags, docker, up, f)
<1>3. run.exit # 1
  BY <1>2
<1>4. FlagsAccepted(flags) /\ up # {}
  BY <1>1, <1>2, <1>3, RunIs
<1>5. merged.error = Homepage!Absent
  BY <1>1, <1>2, <1>3, <1>4, RunIs
<1>6. run.file = Stored(f, format, merged.doc)
  BY <1>1, <1>2, <1>4, <1>5, RunIs
<1>7. MergesWell(format, View(f, format), services, flags.conflict, Names, Entries)
  BY <1>1, <1>2, <1>4, RunIs
<1>8. merged = MergeFor(format, View(f, format), Desired(services, format), flags.conflict)
  BY MergedIs, Zenon
<1>9. Homepage!Absent \notin Names
  <2>1. "" \notin ToSet(GroupOrder)
    BY NamesAssumption, Zenon
  <2>2. ASSUME NEW group \in InitialGroups PROVE group.name # ""
    <3>1. PICK g \in InitialFiles : \E key \in DOMAIN g.lists : group \in ToSet(g.lists[key])
      BY DEF InitialGroups
    <3>. QED
      BY <3>1, NamesAssumption, Zenon
  <2>. QED
    BY <2>1, <2>2, Zenon DEF Names, Homepage!Absent
<1>10. Shows(merged.doc.groups, services)
  BY <1>5, <1>7, <1>8, <1>9, Zenon DEF MergesWell
<1>11. file.lists[ListKey(format)] = merged.doc.groups
  <2>. HIDE DEF merged
  <2>1. Stored(f, format, merged.doc).lists[ListKey(format)] = merged.doc.groups
    BY DEF Stored
  <2>. QED
    BY <1>2, <1>6, <2>1, Zenon
<1>. QED
  BY <1>10, <1>11, Zenon

\* removeOrphaned and Sources.Collect: for any containers, files, hands at work
\* on the file and command lines, after a run that wrote the managed entries are
\* those of the services inspect lists, each in its service's group.
THEOREM DashboardShowsThem == Spec => []DashboardIsInspected
<1>1. ASSUME Kept PROVE DashboardIsInspected
  <2>. DEFINE groups     == file.lists[ListKey(said.flags.format)]
              services   == Discovered(docker, said.up)
              managed(g) == {e \in ToSet(g.items) : Homepage!IsManaged(e)}
              swept      == {g \in ToSet(groups) : Homepage!Sweepable(g)}
              found      == UNION {{[id |-> e.comment.id, group |-> g.name] : e \in managed(g)} :
                                     g \in swept}
              listed     == {[id |-> s.id, group |-> s.group] : s \in services}
  <2>1. ASSUME Shows(groups, services) PROVE found = listed
    <3>. HIDE DEF groups, services
    <3>1. ASSUME NEW x \in found PROVE x \in listed
      <4>1. PICK g \in swept : x \in {[id |-> e.comment.id, group |-> g.name] : e \in managed(g)}
        BY <3>1
      <4>2. PICK e \in managed(g) : x = [id |-> e.comment.id, group |-> g.name]
        BY <4>1
      <4>3. PICK i \in DOMAIN groups : g = groups[i]
        BY DEF ToSet
      <4>4. PICK s \in services : s.id = e.comment.id /\ s.group = g.name
        BY <2>1, <4>3, Zenon DEF Shows
      <4>. QED
        BY <4>2, <4>4
    <3>2. ASSUME NEW s \in services PROVE [id |-> s.id, group |-> s.group] \in found
      <4>1. PICK i \in DOMAIN groups :
              /\ Homepage!Sweepable(groups[i]) /\ groups[i].name = s.group
              /\ \E e \in ToSet(groups[i].items) : Homepage!IsManaged(e) /\ e.comment.id = s.id
        BY <2>1, Zenon DEF Shows
      <4>2. PICK e \in ToSet(groups[i].items) : Homepage!IsManaged(e) /\ e.comment.id = s.id
        BY <4>1
      <4>3. groups[i] \in swept
        BY <4>1 DEF ToSet
      <4>4. e \in managed(groups[i])
        BY <4>2
      <4>. HIDE DEF swept, managed
      <4>5. [id |-> s.id, group |-> s.group]
              \in {[id |-> d.comment.id, group |-> groups[i].name] : d \in managed(groups[i])}
        BY <4>1, <4>2, <4>4
      <4>. QED
        BY <4>3, <4>5
    <3>. HIDE DEF found
    <3>. QED
      BY <3>1, <3>2
  <2>. HIDE DEF found, listed
  <2>2. ASSUME said.command = "sync", said.exit = 0, said.flags.outputPath, ~said.flags.check,
               ~DryRun(said.flags)
        PROVE  found = listed
    BY <1>1, <2>1, <2>2, WrittenShows, Zenon
  <2>. QED
    BY <2>2, Zenon DEF DashboardIsInspected, found, listed
<1>. QED
  BY <1>1, AlwaysKept, PTL

\* What a run reports.
LEMMA RunReports ==
  ASSUME DockerOK, NEW f, ListsOK(f), NEW flags, NEW up
  PROVE  Reports(Sync(flags, docker, up, f).changes, Discovered(docker, up))
<1>. DEFINE services == Discovered(docker, up)
            changes  == Sync(flags, docker, up, f).changes
            merged   == Merged(f, services, flags.format, flags.conflict)
<1>1. \/ changes = <<>>
      \/ /\ changes = merged.changes
         /\ MergesWell(flags.format, View(f, flags.format), services, flags.conflict, Names, Entries)
  BY RunIs
<1>2. CASE changes = <<>>
  <2>. HIDE DEF changes, services
  <2>1. DOMAIN changes = {}
    BY <1>2
  <2>2. Reports(changes, services)
    BY <2>1 DEF Reports
  <2>. QED
    BY <2>2 DEF changes, services
<1>3. CASE /\ changes = merged.changes
           /\ MergesWell(flags.format, View(f, flags.format), services, flags.conflict, Names, Entries)
  <2>1. Reports(merged.changes, services)
    BY <1>3, MergedIs, Zenon DEF MergesWell
  <2>. QED
    BY <1>3, <2>1, Zenon
<1>. QED
  BY <1>1, <1>2, <1>3

\* Lines that are sorted by the same key.
LEMMA OneLinePerKey ==
  ASSUME NEW services, NEW changes, Reports(changes, services),
         NEW i \in DOMAIN changes, NEW j \in DOMAIN changes,
         SortKey(changes[i], services) = SortKey(changes[j], services)
  PROVE  Line(changes[i], services) = Line(changes[j], services)
<1>. DEFINE others == {k \in DOMAIN changes : changes[k].kind # "removed"}
<1>1. /\ changes[i].group = changes[j].group /\ changes[i].id = changes[j].id
      /\ ServiceName(services, changes[i]) = ServiceName(services, changes[j])
  BY DEF SortKey
<1>2. ASSUME NEW k \in others, NEW l \in DOMAIN changes \ others,
             changes[k].group = changes[l].group, changes[k].id = changes[l].id
      PROVE  FALSE
  BY <1>2 DEF Reports
<1>3. changes[i].kind = changes[j].kind
  <2>1. CASE i \in others /\ j \in others
    BY <1>1, <2>1 DEF Reports
  <2>2. CASE i \notin others /\ j \notin others
    BY <2>2
  <2>. QED
    BY <1>1, <1>2, <2>1, <2>2
<1>. QED
  BY <1>1, <1>3, Zenon DEF Line

\* diff.Print: for any containers, files, hands at work on the file and command
\* lines, the changes that its unstable sort cannot tell apart read the same.
THEOREM ReportsReadTheSame == Spec => []ReportDeterministic
<1>1. ASSUME Kept, said.command = "sync"
      PROVE  \A i, j \in DOMAIN said.report :
               said.report[i].key = said.report[j].key => said.report[i].line = said.report[j].line
  <2>1. PICK f : ListsOK(f) /\ said.report = Report(Sync(said.flags, docker, said.up, f).changes,
                                                    Discovered(docker, said.up))
    BY <1>1, Zenon DEF Kept, SaidOK
  <2>. DEFINE services == Discovered(docker, said.up)
              changes  == Sync(said.flags, docker, said.up, f).changes
  <2>2. Reports(changes, services)
    BY <1>1, <2>1, RunReports DEF Kept
  <2>. HIDE DEF services, changes
  <2>3. /\ DOMAIN said.report = DOMAIN changes
        /\ \A i \in DOMAIN changes : /\ said.report[i].key = SortKey(changes[i], services)
                                     /\ said.report[i].line = Line(changes[i], services)
    BY <2>1 DEF Report, services, changes
  <2>. QED
    BY <2>2, <2>3, OneLinePerKey
<1>2. Kept => ReportDeterministic
  BY <1>1, Zenon DEF ReportDeterministic
<1>. QED
  BY <1>2, AlwaysKept, PTL

\* A document that was just written, its markers aside, is a rendering.
LEMMA FreshIsRendered ==
  ASSUME NEW services, NEW format
  PROVE  LET fresh == FreshFrom(Desired(services, format))
         IN  Render(GroupServices(services), format)
               = [i \in DOMAIN fresh |->
                    [name  |-> fresh[i].name,
                     items |-> [j \in DOMAIN fresh[i].items |-> fresh[i].items[j].body]]]
<1>. DEFINE groups  == GroupServices(services)
            desired == Desired(services, format)
            fresh   == FreshFrom(desired)
            listed(i) == [j \in DOMAIN groups[i].services |-> Wanted(groups[i].services[j], format)]
<1>1. \A i \in DOMAIN groups : groups[i] = [name |-> groups[i].name, services |-> groups[i].services]
  BY DEF GroupServices
<1>2. \A w : Fresh(w).body = w.body
  BY DEF Fresh, Homepage!Rendered
<1>3. \A s : Wanted(s, format).body = RenderEntry(s, format)
  BY DEF Wanted
<1>. HIDE DEF groups
<1>4. /\ DOMAIN desired = DOMAIN groups
      /\ \A i \in DOMAIN groups : desired[i].name = groups[i].name /\ desired[i].services = listed(i)
  BY <1>1 DEF Desired, groups
<1>. HIDE DEF desired
<1>5. /\ DOMAIN fresh = DOMAIN groups
      /\ \A i \in DOMAIN groups :
           /\ fresh[i].name = groups[i].name
           /\ fresh[i].items = [j \in DOMAIN desired[i].services |-> Fresh(desired[i].services[j])]
  BY <1>4 DEF FreshFrom
<1>. HIDE DEF fresh
<1>6. ASSUME NEW i \in DOMAIN groups
      PROVE  [j \in DOMAIN fresh[i].items |-> fresh[i].items[j].body]
               = [j \in DOMAIN groups[i].services |-> RenderEntry(groups[i].services[j], format)]
  <2>1. DOMAIN desired[i].services = DOMAIN groups[i].services
    BY <1>4
  <2>2. DOMAIN fresh[i].items = DOMAIN groups[i].services
    BY <1>5, <2>1
  <2>3. \A j \in DOMAIN groups[i].services :
          fresh[i].items[j].body = RenderEntry(groups[i].services[j], format)
    <3>. SUFFICES ASSUME NEW j \in DOMAIN groups[i].services
                  PROVE  fresh[i].items[j].body = RenderEntry(groups[i].services[j], format)
      OBVIOUS
    <3>1. fresh[i].items[j] = Fresh(desired[i].services[j])
      BY <1>5, <2>1
    <3>2. desired[i].services[j] = Wanted(groups[i].services[j], format)
      BY <1>4
    <3>. QED
      BY <1>2, <1>3, <3>1, <3>2, Zenon
  <2>. QED
    BY <2>2, <2>3, Zenon
<1>7. Render(groups, format)
        = [i \in DOMAIN fresh |->
             [name  |-> fresh[i].name,
              items |-> [j \in DOMAIN fresh[i].items |-> fresh[i].items[j].body]]]
  BY <1>5, <1>6 DEF Render
<1>. QED
  BY <1>7 DEF groups, fresh, desired

\* homepage.yamlOptions and render.Renderer: for any containers, at any time,
\* what sync prints to stdout is what it would merge into a file that is not
\* there, markers aside, in each of the formats.
THEOREM StdoutAgrees == Spec => []StdoutIsFreshMerge
<1>. DEFINE nothing == [shape |-> "absent", lists |-> <<>>]
<1>1. ASSUME DockerOK, NEW format \in Formats
      PROVE  LET services == Discovered(docker, DOMAIN Hosts)
                 merge    == Merged(nothing, services, format, "preserve")
             IN  Render(GroupServices(services), format)
                   = [i \in DOMAIN merge.doc.groups |->
                        [name  |-> merge.doc.groups[i].name,
                         items |-> [j \in DOMAIN merge.doc.groups[i].items |->
                                      merge.doc.groups[i].items[j].body]]]
  <2>. DEFINE services == Discovered(docker, DOMAIN Hosts)
              desired  == Desired(services, format)
              merge    == Merged(nothing, services, format, "preserve")
  <2>1. View(nothing, format) = Nowhere
    BY DEF View, Nowhere
  <2>2. Merging(format, services, Names, Entries)
    BY <1>1, MergingHere
  <2>3. Nowhere \in Docs(Names, Entries)
    BY DEF Nowhere, Docs, Homepage!Documents
  <2>. HIDE DEF services
  <2>4. MergesWell(format, Nowhere, services, "preserve", Names, Entries)
    <3>1. "preserve" \in {"preserve", "overwrite", "fail"}
      OBVIOUS
    <3>. QED
      BY <1>1, <2>2, <2>3, <3>1, HomepageMerges, NamedMerges
  <2>5. merge = MergeFor(format, Nowhere, desired, "preserve")
    BY <2>1, MergedIs, Zenon
  <2>6. merge.doc.groups = FreshFrom(desired)
    BY <2>4, <2>5, Zenon DEF MergesWell
  <2>. HIDE DEF merge, desired
  <2>7. Render(GroupServices(services), format)
          = [i \in DOMAIN merge.doc.groups |->
               [name  |-> merge.doc.groups[i].name,
                items |-> [j \in DOMAIN merge.doc.groups[i].items |->
                             merge.doc.groups[i].items[j].body]]]
    <3>. DEFINE fresh == FreshFrom(desired)
    <3>1. Render(GroupServices(services), format)
            = [i \in DOMAIN fresh |->
                 [name  |-> fresh[i].name,
                  items |-> [j \in DOMAIN fresh[i].items |-> fresh[i].items[j].body]]]
      BY FreshIsRendered DEF desired
    <3>. HIDE DEF fresh
    <3>2. merge.doc.groups = fresh
      BY <2>6 DEF fresh
    <3>. QED
      BY <3>1, <3>2
  <2>. QED
    BY <2>7 DEF services, merge
<1>2. DockerOK => StdoutIsFreshMerge
  BY <1>1, Zenon DEF StdoutIsFreshMerge
<1>. QED
  BY <1>2, DockerKept, PTL
=============================================================================
