------------------------------ MODULE MCPackasm ------------------------------
(* Instances of Packasm for TLC. *)
EXTENDS Packasm, TLC

CONSTANTS n1, n2, n3, n4, b1, b2, b3, v1, v2

HeapSymmetry == Permutations(Nodes) \cup Permutations(Blocks) \cup Permutations(Values)

(* Two states are the same if they differ only in fields of freed components*)
(* or contents of freed data, which no action reads; next of the component *)
(* that a freed list leaves is shown, since OnlyTheLastLeaks reads it.     *)
Shown(f, S) == [x \in DOMAIN f |-> IF x \in S THEN f[x] ELSE Null]
Reachable ==
  <<alloc, known, Shown(prev, known), Shown(next, alloc), Shown(data, alloc),
    Shown(freedata, alloc), own, Shown(mem, {b \in Blocks : own[b] # "none"}),
    frame, badfree>>
=============================================================================
