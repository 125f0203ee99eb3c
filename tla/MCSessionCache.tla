--------------------------- MODULE MCSessionCache ---------------------------
(* One session with its creator, a resume and up to three messages, for TLC. *)
EXTENDS SessionCache

CONSTANTS s0, s1, m1, m2, m3

MCResumes     == {s1}
MCNoResumes   == {}
MCOneSend     == {m1}
MCThreeSends  == {m1, m2, m3}

\* Messages are alike, so that they may as well start in the order of their names.
\* The resume comes after the first and before the last.
MCInTurn ==
  LET Before(r, q) == rpc[q] # "new" => rpc[r] # "new"
  IN  Before(m1, m2) /\ Before(m2, m3) /\ Before(m1, s1) /\ Before(s1, m3)
=============================================================================
