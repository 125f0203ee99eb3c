------------------------------ MODULE MCUploads ------------------------------
(* Three uploads to one session of a user, for TLC. *)
EXTENDS Uploads

CONSTANTS f1, f2, f3, s1

MCFiles     == {f1, f2, f3}
MCSessions  == {s1}
MCSessionOf == [f \in MCFiles |-> s1]
MCSize      == [f \in MCFiles |-> 2]

\* Files are alike, so that they may as well be uploaded in the order of their names.
MCInTurn ==
  LET Before(f, g) == pc[g] # "waiting" => pc[f] # "waiting"
  IN  Before(f1, f2) /\ Before(f2, f3)
=============================================================================
