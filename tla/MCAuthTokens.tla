---------------------------- MODULE MCAuthTokens ----------------------------
(* Two logins and two requests at a time, for TLC. *)
EXTENDS AuthTokens, TLC

CONSTANTS u1, u2, t1, t2, r1, r2

MCUsers    == {u1}
MCTokens   == {t1, t2}
MCSlots    == {r1, r2}
MCSymmetry == Permutations(MCTokens) \cup Permutations(MCSlots)
=============================================================================
