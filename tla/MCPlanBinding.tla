---------------------------- MODULE MCPlanBinding ----------------------------
(* TLC instances of PlanBinding.  The universe file is read first and, by  *)
(* its path, hashed last.                                                  *)
EXTENDS PlanBinding

CONSTANTS e1, e2, universe, domain, old, new

OneExecutor  == {e1}
TwoExecutors == {e1, e2}
TwoFiles     == {universe, domain}
TwoContents  == {old, new}
ByReference  == <<universe, domain>>
ByPath       == <<domain, universe>>

=============================================================================
