----------------------------- MODULE MCMemberDb -----------------------------
(* Small instances of MemberDb for TLC. *)
EXTENDS MemberDb

CONSTANTS m1, m2, e1, e2, u1, u2, a1, c1, c2    \* model values
=============================================================================
