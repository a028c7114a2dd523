--------------------------- MODULE MCMergeHistory ---------------------------
(***************************************************************************)
(* Small instances of MergeHistory.  Ids, group names and bodies are       *)
(* strings, so that the orders and the fingerprints can be written down.   *)
(***************************************************************************)
EXTENDS MergeHistory

MCGroupOrder == <<"Media", "Tools">>
MCServiceOrder == <<"jelly", "sonarr">>

\* No two bodies of the instance collide: FNV-32a is only asked to resist an
\* accidental match.
MCHash == [b \in Bodies |-> "h" \o b]

Own(b) == [comment |-> NoComment, body |-> b, style |-> "own", wrote |-> ""]

Hand(name) == [name |-> name, shape |-> "list", items |-> <<Own("x")>>]

\* No file, a file of another kind, one without the top-level key, and a file
\* with a hand-written group in front of one that is not a group.
MCStarts ==
  {[root |-> r, groups |-> <<>>] : r \in {"blank", "other", "noKey"}}
    \cup {[root |-> "groups", groups |-> <<Hand("Media"), [Hand(NoName) EXCEPT !.items = <<>>]>>]}

\* What the contract is proved from holds of these instances.
ASSUME FreshStarts /\ NoCollision

=============================================================================
