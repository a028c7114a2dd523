------------------------------- MODULE MCSync -------------------------------
(***************************************************************************)
(* Instances of Sync whose contents are documents of module Merge, and     *)
(* whose merges are the real ones: one container in two versions, and the  *)
(* entry dashsync made of it, possibly edited by hand since.               *)
(***************************************************************************)
EXTENDS Sync, Sequences, TLC

CONSTANTS NoName, Unreadable, Policy

M == INSTANCE Merge WITH
       Format <- "homepage", GroupOrder <- <<"Media">>, ServiceOrder <- <<"jelly">>,
       Hash <- [b \in {"x", "y"} |-> "h" \o b]

Doc(entry) ==
  [root   |-> "groups",
   groups |-> <<[name |-> "Media", shape |-> "list", items |-> <<entry>>]>>]

NoDoc == [root |-> "blank", groups |-> <<>>]

Jelly(body) == [id |-> "jelly", group |-> "Media", body |-> body]

Edited == [M!Rendered(Jelly("x")) EXCEPT !.body = "y", !.style = "own"]

\* A file with the first version, with the second, and with a hand-edited first.
MCContents == {Doc(M!Rendered(Jelly("x"))), Doc(M!Rendered(Jelly("y"))), Doc(Edited)}

\* The same without the hand-edited one, for the instances that need no conflict.
SmallContents == {Doc(M!Rendered(Jelly("x"))), Doc(M!Rendered(Jelly("y")))}

MCViews == {{Jelly("x")}, {Jelly("y")}}

\* Neither whether a run ends nor what a human's save becomes depends on changes in Docker.
SteadyViews == {{Jelly("y")}}

\* Each merge computed once.
Results ==
  [c \in MCContents \cup {NoFile}, v \in MCViews |->
     M!Merge(IF c = NoFile THEN NoDoc ELSE c, M!GroupServices(v), Policy)]

MCMerged(c, v) == Results[c, v].doc
MCRefuses(c, v) == Results[c, v].error # ""
MCPending(c, v) == Results[c, v].changes # <<>>

Symmetry == Permutations(Runs)
=============================================================================
