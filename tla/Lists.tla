------------------------------- MODULE Lists -------------------------------
(***************************************************************************)
(* Operators on sequences that several modules share.                      *)
(***************************************************************************)
EXTENDS Integers, Sequences, SequencesExt

\* The elements of a sequence that are in a set, in their order.
Only(s, S) == FlattenSeq([i \in DOMAIN s |-> IF s[i] \in S THEN <<s[i]>> ELSE <<>>])

\* The sequences a sort may return: the elements of s in every order.
Rearrangements(s) ==
  {[i \in DOMAIN s |-> s[p[i]]] : p \in Bijection(DOMAIN s, DOMAIN s)}

\* f where it is defined, and g elsewhere.
f ++ g == [x \in DOMAIN f \cup DOMAIN g |-> IF x \in DOMAIN f THEN f[x] ELSE g[x]]

-----------------------------------------------------------------------------
(***************************************************************************)
(* urlFromPorts, which Discovery and Renderers both need.                  *)
(***************************************************************************)
\* Mutant: the first published tcp port.
firstPort(ports) ==
  FoldLeft(LAMBDA found, p : IF p.type # "tcp" \/ p.public = 0 \/ found # 0 THEN found ELSE p.public,
           0, ports)

\* The lowest published tcp port, 0 for none, whatever order the API gives.
lowestPort(ports) ==
  FoldLeft(LAMBDA lowest, p :
             IF p.type # "tcp" \/ p.public = 0 THEN lowest
             ELSE IF lowest = 0 \/ p.public < lowest THEN p.public
             ELSE lowest,
           0, ports)
=============================================================================
