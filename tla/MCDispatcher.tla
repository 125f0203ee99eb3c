---------------------------- MODULE MCDispatcher ----------------------------
(* Two users, one with three jobs and one with one, for TLC. *)
EXTENDS Dispatcher

CONSTANTS u1, u2, a1, a2, a3, b1

MCUsers == {u1, u2}
MCJobs  == {a1, a2, a3, b1}
MCJobUser == [j \in MCJobs |-> IF j = b1 THEN u2 ELSE u1]
=============================================================================
