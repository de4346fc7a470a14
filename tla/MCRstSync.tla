----------------------------- MODULE MCRstSync -----------------------------
(* Small instances of RstSync for TLC. *)
EXTENDS RstSync, TLC

CONSTANTS t1, t2, s1, b1, k1, k2, k3, k4, k5, k6, k7, k8, k9    \* model values

Symmetry == Permutations(Tabs) \cup Permutations(Tokens)
=============================================================================
