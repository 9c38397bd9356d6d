--------------------------- MODULE MCPlannedEffect ---------------------------
(* TLC instances of PlannedEffect.                                         *)
EXTENDS PlannedEffectInvariant, TLC

CONSTANTS e1, e2, e3

TwoExecutors   == {e1, e2}
ThreeExecutors == {e1, e2, e3}

\* Executors are interchangeable; sound for safety properties only.
Symmetric == Permutations(Executor)

=============================================================================
