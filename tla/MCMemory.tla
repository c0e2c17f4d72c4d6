------------------------------ MODULE MCMemory ------------------------------
(* Two connections, two keys and two values: enough for two facts of one key  *)
(* and one of another, and for a forget that overtakes a remember.            *)
EXTENDS MemoryProperties, TLC

CONSTANTS c1, c2, k1, k2, v1, v2

MCClient == {c1, c2}
MCKey == {k1, k2}
MCValue == {v1, v2}
MCDocument == [key : MCKey, value : MCValue, deleted : BOOLEAN]
Symmetry == Permutations(MCClient) \cup Permutations(MCKey) \cup Permutations(MCValue)
=============================================================================
