--------------------------- MODULE MCIdempotency ---------------------------
(* Three requests with one key and one with another, for TLC. *)
EXTENDS Idempotency

CONSTANTS r1, r2, r3, q1, k1, k2

MCRequests == {r1, r2, r3, q1}
MCKeys     == {k1, k2}
MCKeyOf    == [r \in MCRequests |-> IF r = q1 THEN k2 ELSE k1]
=============================================================================
