--------------------------- MODULE MCNodeStorage ----------------------------
(***************************************************************************)
(* The table holds two of three possible contacts; the file is empty at    *)
(* first or full of nodes that are not the proxy.  Those nodes may change  *)
(* places, and so may the identities.                                      *)
(***************************************************************************)
EXTENDS NodeStorage

CONSTANTS p, a, b, k1, k2

Full(m, n) == <<[id |-> m, path |-> 1], [id |-> n, path |-> 0]>>

MCEarlier == {<<>>, Full(a, b), Full(b, a)}

Symmetry == Permutations({a, b}) \cup Permutations({k1, k2})

============================================================================
