-------------------------- MODULE MCJwtStatusCache --------------------------
(* Small instances of JwtStatusCache for TLC. *)
EXTENDS JwtStatusCache

CONSTANTS u1, u2, j1, p1, p2    \* model values
=============================================================================
