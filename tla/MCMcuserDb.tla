----------------------------- MODULE MCMcuserDb -----------------------------
(* Small instances of McuserDb for TLC. *)
EXTENDS McuserDb, TLC

CONSTANTS u1, u2, j1, j2, c1, c2    \* model values

\* Mcusers, jwt ids and connections are each interchangeable.
Symmetry ==
    Permutations(Mcusers) \cup Permutations(JwtIds) \cup Permutations(Conns)
=============================================================================
