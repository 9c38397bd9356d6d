------------------------------ MODULE GuessGame ------------------------------
(***************************************************************************)
(* The planned effects of the guess_the_number_game domain: one game, and  *)
(* the guesses submitted to it.                                            *)
(*                                                                         *)
(* A guess is checked twice: when it is planned, by the preflight          *)
(* validator, and when it is executed, by the adapter, which reads the     *)
(* game file, judges the guess and replaces the file.  Nothing is locked:  *)
(* whoever plays in another process may replace the file in between.       *)
(*                                                                         *)
(* Source: libs/xctx_connectors/domains/guess_the_number_game/             *)
(* external_command_adapter.py.  That the adapter runs at most once for a  *)
(* plan is what PlannedEffect shows.                                       *)
(***************************************************************************)
EXTENDS Integers, Sequences, SequencesExt

CONSTANTS
    Submission, \* the plans of submit_guess
    MaxNumber   \* bound of the model: the numbers are 1..MaxNumber

ASSUME NumberAssumption == MaxNumber \in Nat

VARIABLES
    game,       \* the game file
    stage,      \* where each submission is, or how it ended
    guess,      \* the guess it was planned with
    copy,       \* the game as its adapter has read it
    overlapped  \* another adapter had the game open when it wrote (history)

vars == <<game, stage, guess, copy, overlapped>>

Number == 1..MaxNumber

Feedback == {"yes", "higher", "lower"}

\* advised: the guess was the one the game proposed (history).
Attempt == [by : Submission, guess : Number, feedback : Feedback,
            advised : BOOLEAN]

\* range is the whole range, current what is left of it: <<min, max>>.
Game == [status : {"absent", "active", "solved"}, secret : Number \cup {0},
         range : Nat \X Nat, current : Nat \X Nat,
         attempts : Seq(Attempt)]

Stage == {"idle", "planned", "open", "answered", "refused", "failed"}

Absent == [status |-> "absent", secret |-> 0, range |-> <<1, 0>>,
           current |-> <<1, 0>>, attempts |-> <<>>]

TypeOK ==
    /\ game \in Game
    /\ stage \in [Submission -> Stage]
    /\ guess \in [Submission -> 0..(MaxNumber + 1)]
    /\ copy \in [Submission -> Game]
    /\ overlapped \in [Submission -> BOOLEAN]

Init ==
    /\ game = Absent
    /\ stage = [s \in Submission |-> "idle"]
    /\ guess = [s \in Submission |-> 0]
    /\ copy = [s \in Submission |-> Absent]
    /\ overlapped = [s \in Submission |-> FALSE]

-----------------------------------------------------------------------------
In(n, pair) == pair[1] <= n /\ n <= pair[2]

\* Mutation check of Midpoint: the smallest number left.
MidpointLow(pair) == pair[1]

Midpoint(pair) == (pair[1] + pair[2]) \div 2

(* _validate_guess_against_game, which raises when it is false.            *)
Accepts(g, n) ==
    /\ g.status = "active"
    /\ In(n, g.range)
    /\ In(n, g.current)

Answer(g, n) == CASE n = g.secret -> "yes"
                  [] n < g.secret -> "higher"
                  [] n > g.secret -> "lower"

\* Mutation check of Narrowed: a guess below the secret cuts off the secret.
NarrowedTooFar(g, n) ==
    CASE Answer(g, n) = "yes"    -> <<n, n>>
      [] Answer(g, n) = "higher" -> <<n + 2, g.current[2]>>
      [] Answer(g, n) = "lower"  -> <<g.current[1], n - 1>>

(* next_range; the max and min of the code change nothing, as an accepted  *)
(* guess lies in the current range.                                        *)
Narrowed(g, n) ==
    CASE Answer(g, n) = "yes"    -> <<n, n>>
      [] Answer(g, n) = "higher" -> <<n + 1, g.current[2]>>
      [] Answer(g, n) = "lower"  -> <<g.current[1], n - 1>>

Judged(g, s) ==
    [g EXCEPT !.status = IF Answer(g, guess[s]) = "yes" THEN "solved" ELSE @,
              !.current = Narrowed(g, guess[s]),
              !.attempts = Append(@, [by |-> s, guess |-> guess[s],
                                      feedback |-> Answer(g, guess[s]),
                                      advised |-> guess[s] =
                                                  Midpoint(g.current)])]

-----------------------------------------------------------------------------
(* _choose_between_bounds: the committed effect that creates the game.     *)
Choose(low, high, secret) ==
    /\ game.status = "absent"
    /\ low <= high
    /\ In(secret, <<low, high>>)
    /\ game' = [status |-> "active", secret |-> secret,
                range |-> <<low, high>>, current |-> <<low, high>>,
                attempts |-> <<>>]
    /\ UNCHANGED <<stage, guess, copy, overlapped>>

(* _validate_submit_guess, when the guess is planned.                      *)
PlanGuess(s, n) ==
    /\ stage[s] = "idle"
    /\ guess' = [guess EXCEPT ![s] = n]
    /\ stage' = [stage EXCEPT ![s] =
                    IF Accepts(game, n) THEN "planned" ELSE "refused"]
    /\ UNCHANGED <<game, copy, overlapped>>

\* Mutation check of Read: the game is not validated again.
ReadUnchecked(s) ==
    /\ stage[s] = "planned"
    /\ copy' = [copy EXCEPT ![s] = game]
    /\ stage' = [stage EXCEPT ![s] = "open"]
    /\ UNCHANGED <<game, guess, overlapped>>

(* The first half of _submit_guess: the game is read and validated again.  *)
Read(s) ==
    /\ stage[s] = "planned"
    /\ copy' = [copy EXCEPT ![s] = game]
    /\ stage' = [stage EXCEPT ![s] =
                    IF Accepts(game, guess[s]) THEN "open" ELSE "refused"]
    /\ UNCHANGED <<game, guess, overlapped>>

Others(s) == {t \in Submission \ {s} : stage[t] = "open"}

\* Mutation check of Write: the list of attempts starts anew.
WriteAlone(s) ==
    /\ stage[s] = "open"
    /\ game' = [Judged(copy[s], s) EXCEPT !.attempts = <<Last(@)>>]
    /\ stage' = [stage EXCEPT ![s] = "answered"]
    /\ overlapped' = [overlapped EXCEPT ![s] = Others(s) # {}]
    /\ UNCHANGED <<guess, copy>>

(* The second half: the file is replaced by the copy with the attempt.     *)
Write(s) ==
    /\ stage[s] = "open"
    /\ game' = Judged(copy[s], s)
    /\ stage' = [stage EXCEPT ![s] = "answered"]
    /\ overlapped' = [overlapped EXCEPT ![s] = Others(s) # {}]
    /\ UNCHANGED <<guess, copy>>

(* The adapter is killed at its timeout, or its write raises: the file is  *)
(* as it was.                                                              *)
Fail(s) ==
    /\ stage[s] \in {"planned", "open"}
    /\ stage' = [stage EXCEPT ![s] = "failed"]
    /\ UNCHANGED <<game, guess, copy, overlapped>>

Next ==
    \/ \E low \in Number, high \in Number, secret \in Number :
          Choose(low, high, secret)
    \/ \E s \in Submission :
          \/ \E n \in 0..(MaxNumber + 1) : PlanGuess(s, n)
          \/ Read(s) \/ Write(s) \/ Fail(s)

Spec == Init /\ [][Next]_vars

-----------------------------------------------------------------------------
Played == game.status # "absent"

Recorded(g) == {g.attempts[i] : i \in 1..Len(g.attempts)}

(* The range the game shows always holds the hidden number, so there is    *)
(* always a next guess to propose, however the submissions overlap.        *)
SecretWithinRange == Played => In(game.secret, game.current)

Coherent(g) ==
    /\ \A a \in Recorded(g) :
          /\ a.feedback = "higher" => a.guess < g.current[1]
          /\ a.feedback = "lower"  => a.guess > g.current[2]
    /\ \A i \in 1..Len(g.attempts) :
          g.attempts[i].feedback = "yes" => i = Len(g.attempts)
    /\ g.status = "solved" <=> \E a \in Recorded(g) : a.feedback = "yes"

(* The file is coherent: what is left of the range excludes every wrong    *)
(* guess it lists, and it is solved exactly if the last guess was right.   *)
Explained == Coherent(game)

(* An answered guess is in the game for good if nobody else had the game   *)
(* open when it was written.                                               *)
KeptUnlessOverlapped ==
    \A s \in Submission :
        stage[s] = "answered" /\ ~overlapped[s] =>
            \E a \in Recorded(game) : a.by = s

PowerOfTwo[k \in Nat] == IF k = 0 THEN 1 ELSE 2 * PowerOfTwo[k - 1]

Wrong(g) == {i \in 1..Len(g.attempts) : g.attempts[i].feedback # "yes"}

Size(pair) == pair[2] - pair[1] + 1

(* Whoever plays the proposed guesses halves the range with each: a game   *)
(* of n numbers takes at most 1 + log2(n) of them.                         *)
BinarySearchBound ==
    (Played /\ \A a \in Recorded(game) : a.advised)
        => PowerOfTwo[Cardinality(Wrong(game))] <= Size(game.range)

=============================================================================
