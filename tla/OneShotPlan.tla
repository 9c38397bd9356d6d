----------------------------- MODULE OneShotPlan -----------------------------
(***************************************************************************)
(* What a planned effect promises, without files or processes: a plan is   *)
(* claimed at most once, its adapter is started at most once and only for  *)
(* a claimed plan, and the outcome is recorded at most once, as a success  *)
(* only if the effect took place.  The effect may still take place after a *)
(* failure was recorded: the adapter of a timed-out execution may outlive  *)
(* it.                                                                     *)
(*                                                                         *)
(* A plan whose earlier execution left traces but no claim is spent: it is *)
(* never claimed, started or settled again.                                *)
(***************************************************************************)

EXTENDS Naturals

VARIABLES
    phase,    \* "open", "claimed", or "spent"
    starts,   \* how often the adapter has been started
    effect,   \* the effect has taken place
    outcome   \* what the result file says: "none", "ready" or "failed"

vars == <<phase, starts, effect, outcome>>

Init ==
    /\ starts = 0
    /\ \/ phase = "open" /\ effect = FALSE /\ outcome = "none"
       \/ /\ phase = "spent"
          /\ effect \in BOOLEAN
          /\ outcome \in {"none", "ready", "failed"}
          /\ outcome = "ready" => effect

Claim ==
    /\ phase = "open"
    /\ phase' = "claimed"
    /\ UNCHANGED <<starts, effect, outcome>>

StartAdapter ==
    /\ phase = "claimed"
    /\ outcome = "none"
    /\ starts = 0
    /\ starts' = 1
    /\ UNCHANGED <<phase, effect, outcome>>

TakeEffect ==
    /\ starts = 1
    /\ ~effect
    /\ effect' = TRUE
    /\ UNCHANGED <<phase, starts, outcome>>

Settle ==
    /\ phase = "claimed"
    /\ outcome = "none"
    /\ outcome' \in {"ready", "failed"}
    /\ outcome' = "ready" => effect
    /\ UNCHANGED <<phase, starts, effect>>

Next == Claim \/ StartAdapter \/ TakeEffect \/ Settle

Spec == Init /\ [][Next]_vars

=============================================================================
