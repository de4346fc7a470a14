---------------------------- MODULE MCWebSessions ----------------------------
(* A small instance of WebSessions for TLC. *)
EXTENDS WebSessions

CONSTANTS u1, j1, j2, p1, p2    \* model values
=============================================================================
