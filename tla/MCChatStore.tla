----------------------------- MODULE MCChatStore -----------------------------
(* The sessions and files of one page, for TLC. *)
EXTENDS ChatStore

CONSTANTS s1, s2, f1, f2, c1

MCOneSession  == {s1}
MCTwoSessions == {s1, s2}
MCTwoFiles    == {f1, f2}

Symmetry == Permutations(MCTwoSessions)
=============================================================================
