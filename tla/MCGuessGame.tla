----------------------------- MODULE MCGuessGame -----------------------------
(* A TLC instance of GuessGame: a full binary search of four numbers takes *)
(* three submissions.                                                      *)
EXTENDS GuessGame, TLC

CONSTANTS s1, s2, s3

Submissions == {s1, s2, s3}
Symmetry    == Permutations(Submissions)

=============================================================================
