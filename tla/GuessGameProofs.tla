--------------------------- MODULE GuessGameProofs ---------------------------
(***************************************************************************)
(* Proofs about GuessGame for any number of submissions and any range of   *)
(* numbers.  What carries them: the game as any adapter has it open is     *)
(* itself a sound game, and holds every guess that is in it for good.      *)
(* That the proposed guesses halve the range takes facts about powers of   *)
(* two, by induction: the least counterexample of each is refuted.         *)
(***************************************************************************)
EXTENDS GuessGame, TLAPS, FiniteSetTheorems, WellFoundedInduction

Sound(g) ==
    /\ g \in Game
    /\ IF g.status = "absent" THEN Recorded(g) = {}
       ELSE In(g.secret, g.current)
    /\ g.range[1] >= 1 /\ g.range[2] <= MaxNumber
    /\ Coherent(g)

\* The guess of s is in g.
Lists(g, s) == \E a \in Recorded(g) : a.by = s

Kept(s) == stage[s] = "answered" /\ ~overlapped[s]

GameInv ==
    /\ TypeOK
    /\ Sound(game)
    /\ \A s \in Submission :
          stage[s] = "open" => /\ Sound(copy[s])
                               /\ Accepts(copy[s], guess[s])
    /\ \A s \in Submission :
          Kept(s) => /\ Lists(game, s)
                     /\ \A t \in Submission :
                           stage[t] = "open" => Lists(copy[t], s)

-----------------------------------------------------------------------------
(* Judging an accepted guess makes a sound game of a sound game, which     *)
(* lists the guess besides the guesses it listed before.                   *)
LEMMA JudgedIsSound ==
  ASSUME NEW g, Sound(g), NEW s \in Submission,
         guess[s] \in Nat, Accepts(g, guess[s])
  PROVE  /\ Sound(Judged(g, s))
         /\ Lists(Judged(g, s), s)
         /\ \A t : Lists(g, t) => Lists(Judged(g, s), t)
<1> DEFINE n == guess[s]
           a == [by |-> s, guess |-> n, feedback |-> Answer(g, n),
                 advised |-> n = Midpoint(g.current)]
           h == Judged(g, s)
<1>1. /\ g.attempts \in Seq(Attempt) /\ g.secret \in Nat
      /\ g.current[1] \in Nat /\ g.current[2] \in Nat
      /\ g.range[1] \in Nat /\ g.range[2] \in Nat
      /\ g.status = "active" /\ g.range \in Nat \X Nat
      /\ g.secret \in Number \cup {0}
  BY NumberAssumption DEF Sound, Game, Accepts, Number
<1>2. n \in Number
  BY <1>1, NumberAssumption DEF Accepts, In, Sound, Number
<1>3. a \in Attempt
  BY <1>1, <1>2 DEF Attempt, Answer, Feedback, Number
<1>4. /\ h.attempts = Append(g.attempts, a) /\ h.current = Narrowed(g, n)
      /\ h.status = (IF Answer(g, n) = "yes" THEN "solved" ELSE "active")
      /\ h.secret = g.secret /\ h.range = g.range
  BY <1>1 DEF Judged, Sound, Game
<1>5. /\ Len(h.attempts) = Len(g.attempts) + 1
      /\ Len(g.attempts) \in Nat
      /\ \A i \in 1..Len(g.attempts) : h.attempts[i] = g.attempts[i]
      /\ h.attempts[Len(g.attempts) + 1] = a
  BY <1>1, <1>3, <1>4
<1>6. Recorded(h) = Recorded(g) \cup {a}
  <2> HIDE DEF h, a
  <2>1. Recorded(g) \subseteq Recorded(h) /\ a \in Recorded(h)
    BY <1>5 DEF Recorded
  <2>2. ASSUME NEW i \in 1..Len(h.attempts)
        PROVE  h.attempts[i] \in Recorded(g) \cup {a}
    <3>1. i \in 1..Len(g.attempts) \/ i = Len(g.attempts) + 1
      BY <1>5
    <3>2. CASE i \in 1..Len(g.attempts)
      <4>1. h.attempts[i] = g.attempts[i]
        BY <3>2, <1>5
      <4>2. g.attempts[i] \in Recorded(g)
        BY <3>2 DEF Recorded
      <4> QED BY <4>1, <4>2
    <3>3. CASE i = Len(g.attempts) + 1
      BY <3>3, <1>5
    <3> QED BY <3>1, <3>2, <3>3
  <2> QED BY <2>1, <2>2 DEF Recorded
<1>7. In(g.secret, g.current) /\ In(n, g.current)
  BY <1>1 DEF Sound, Accepts
<1>8. /\ n = g.secret /\ Answer(g, n) = "yes" /\ Narrowed(g, n) = <<n, n>>
      \/ /\ n < g.secret /\ Answer(g, n) = "higher"
         /\ Narrowed(g, n) = <<n + 1, g.current[2]>>
      \/ /\ n > g.secret /\ Answer(g, n) = "lower"
         /\ Narrowed(g, n) = <<g.current[1], n - 1>>
  <2>1. n \in Nat /\ (n = g.secret \/ n < g.secret \/ n > g.secret)
    BY <1>1, <1>2 DEF Number
  <2>2. CASE n = g.secret
    BY <2>1, <2>2, <1>1 DEF Narrowed, Answer
  <2>3. CASE n < g.secret
    BY <2>1, <2>3, <1>1 DEF Narrowed, Answer
  <2>4. CASE n > g.secret
    BY <2>1, <2>4, <1>1 DEF Narrowed, Answer
  <2> QED BY <2>1, <2>2, <2>3, <2>4
<1>9. /\ h.current \in Nat \X Nat
      /\ h.current[1] \in Nat /\ h.current[2] \in Nat
      /\ In(h.secret, h.current)
      /\ h.current[1] >= g.current[1] /\ h.current[2] <= g.current[2]
      /\ Answer(g, n) = "higher" => n < h.current[1]
      /\ Answer(g, n) = "lower" => n > h.current[2]
  <2>1. n \in Nat /\ n >= 1
    BY <1>2 DEF Number
  <2>2. h.current = Narrowed(g, n) /\ h.secret = g.secret
    BY <1>4
  <2> HIDE DEF h
  <2> QED BY <2>1, <2>2, <1>1, <1>7, <1>8 DEF In
<1>10. h \in Game
  <2>1. h.attempts \in Seq(Attempt)
    BY <1>1, <1>3, <1>4
  <2> QED BY <2>1, <1>9, <1>4 DEF Sound, Game, Judged
<1>11. Coherent(h)
  <2>1. Coherent(g)
    BY DEF Sound
  <2>2. ASSUME NEW b \in Recorded(g)
        PROVE  b.guess \in Nat /\ b.feedback # "yes"
    <3>1. b \in Attempt
      BY <1>1 DEF Recorded
    <3>2. b.guess \in Nat
      BY <3>1 DEF Attempt, Number
    <3>3. b.feedback # "yes"
      BY <2>1, <1>1 DEF Coherent
    <3> QED BY <3>2, <3>3
  <2>3. a.guess = n /\ a.feedback = Answer(g, n)
    OBVIOUS
  <2> HIDE DEF h, a
  <2>4. \A b \in Recorded(h) : /\ b.feedback = "higher" => b.guess < h.current[1]
                               /\ b.feedback = "lower" => b.guess > h.current[2]
    BY <1>1, <1>2, <1>6, <1>9, <2>1, <2>2, <2>3 DEF Coherent
  <2>5. ASSUME NEW i \in 1..Len(h.attempts), h.attempts[i].feedback = "yes"
        PROVE  i = Len(h.attempts)
    <3>1. CASE i \in 1..Len(g.attempts)
      BY <3>1, <2>5, <1>5, <2>2 DEF Recorded
    <3> QED BY <3>1, <1>5
  <2>6. h.status = "solved" <=> \E b \in Recorded(h) : b.feedback = "yes"
    BY <1>4, <1>6, <2>2, <2>3
  <2> QED BY <2>4, <2>5, <2>6 DEF Coherent
<1>12. Sound(h)
  BY <1>4, <1>9, <1>10, <1>11 DEF Sound
<1>13. a.by = s
  OBVIOUS
<1> HIDE DEF h, a
<1>14. /\ Lists(h, s)
       /\ \A t : Lists(g, t) => Lists(h, t)
  BY <1>6, <1>13 DEF Lists
<1> QED
  BY <1>12, <1>14 DEF h


-----------------------------------------------------------------------------
\* The two invariants of the file are what Sound says of it.
LEMMA SoundFile == GameInv => SecretWithinRange /\ Explained
BY DEF GameInv, Sound, SecretWithinRange, Played, Explained

(* In every reachable state the file and every open copy of it are sound,  *)
(* and every open copy holds what the game keeps for good.                 *)
THEOREM GameInvariant == Spec => []GameInv
<1>1. Init => GameInv
  <2> SUFFICES ASSUME Init PROVE GameInv
    OBVIOUS
  <2>1. Absent \in Game /\ Recorded(Absent) = {}
    BY DEF Absent, Game, Recorded
  <2>2. Sound(Absent)
    BY <2>1, NumberAssumption DEF Sound, Coherent, Absent
  <2>3. TypeOK
    BY <2>1, NumberAssumption DEF Init, TypeOK, Stage
  <2> QED BY <2>2, <2>3 DEF Init, GameInv, Kept
<1>2. ASSUME GameInv, [Next]_vars
      PROVE  GameInv'
  <2>1. ASSUME NEW low \in Number, NEW high \in Number,
               NEW secret \in Number, Choose(low, high, secret)
        PROVE  GameInv'
    <3>1. Recorded(game) = {} /\ \A s \in Submission : ~Kept(s)
      BY <1>2, <2>1 DEF GameInv, Sound, Choose, Lists
    <3>2. game' \in Game /\ Recorded(game') = {}
      BY <2>1, NumberAssumption DEF Choose, Game, Number, Recorded
    <3>3. Sound(game')
      BY <2>1, <3>2, NumberAssumption DEF Choose, Sound, Coherent, Number, In
    <3> QED BY <1>2, <2>1, <3>1, <3>2, <3>3 DEF GameInv, TypeOK, Choose, Kept
  <2>2. ASSUME NEW s \in Submission, NEW n \in 0..(MaxNumber + 1),
               PlanGuess(s, n)
        PROVE  GameInv'
    <3>1. \A t \in Submission : /\ stage'[t] = "open" <=> stage[t] = "open"
                                /\ stage[t] = "open" => guess'[t] = guess[t]
                                /\ Kept(t)' <=> Kept(t)
      BY <1>2, <2>2 DEF GameInv, TypeOK, PlanGuess, Kept
    <3>2. TypeOK'
      BY <1>2, <2>2 DEF GameInv, TypeOK, PlanGuess, Stage
    <3> QED BY <1>2, <2>2, <3>1, <3>2 DEF GameInv, PlanGuess
  <2>3. ASSUME NEW s \in Submission, Read(s)
        PROVE  GameInv'
    <3>1. TypeOK'
      BY <1>2, <2>3 DEF GameInv, TypeOK, Read, Stage
    <3>2. \A t \in Submission : Kept(t)' <=> Kept(t)
      BY <1>2, <2>3 DEF GameInv, TypeOK, Read, Kept
    <3>3. ASSUME NEW t \in Submission, stage'[t] = "open"
          PROVE  \/ t = s /\ copy'[t] = game /\ Accepts(game, guess[t])
                 \/ stage[t] = "open" /\ copy'[t] = copy[t]
      BY <1>2, <2>3, <3>3 DEF GameInv, TypeOK, Read
    <3> QED BY <1>2, <2>3, <3>1, <3>2, <3>3 DEF GameInv, Read
  <2>4. ASSUME NEW s \in Submission, Write(s)
        PROVE  GameInv'
    <3>1. Sound(copy[s]) /\ Accepts(copy[s], guess[s]) /\ guess[s] \in Nat
      BY <1>2, <2>4, NumberAssumption DEF GameInv, TypeOK, Write
    <3>2. /\ Sound(game') /\ Lists(game', s)
          /\ \A t : Lists(copy[s], t) => Lists(game', t)
      BY <2>4, <3>1, JudgedIsSound DEF Write
    <3>3. TypeOK'
      BY <1>2, <2>4, <3>2 DEF GameInv, TypeOK, Write, Stage, Sound
    <3>4. \A t \in Submission :
             /\ stage'[t] = "open" => t # s /\ stage[t] = "open"
             /\ Kept(t)' => \/ Kept(t)
                            \/ t = s /\ Others(s) = {}
      BY <1>2, <2>4 DEF GameInv, TypeOK, Write, Kept
    <3>5. ASSUME NEW t \in Submission, Kept(t)'
          PROVE  /\ Lists(game', t)
                 /\ \A u \in Submission :
                       stage'[u] = "open" => Lists(copy[u], t)
      <4>1. CASE Kept(t)
        BY <1>2, <2>4, <3>2, <3>4, <4>1 DEF GameInv, Write
      <4>2. CASE t = s /\ Others(s) = {}
        BY <3>2, <3>4, <4>2 DEF Others
      <4> QED BY <3>4, <3>5, <4>1, <4>2
    <3> QED BY <1>2, <2>4, <3>2, <3>3, <3>4, <3>5 DEF GameInv, Write
  <2>5. ASSUME NEW s \in Submission, Fail(s)
        PROVE  GameInv'
    <3>1. \A t \in Submission : /\ stage'[t] = "open" => stage[t] = "open"
                                /\ Kept(t)' <=> Kept(t)
      BY <1>2, <2>5 DEF GameInv, TypeOK, Fail, Kept
    <3>2. TypeOK'
      BY <1>2, <2>5 DEF GameInv, TypeOK, Fail, Stage
    <3> QED BY <1>2, <2>5, <3>1, <3>2 DEF GameInv, Fail
  <2>6. CASE UNCHANGED vars
    BY <1>2, <2>6 DEF GameInv, TypeOK, Kept, vars
  <2> QED BY <1>2, <2>1, <2>2, <2>3, <2>4, <2>5, <2>6 DEF Next
<1> QED BY <1>1, <1>2, PTL DEF Spec

(* For any numbers and any number of submissions, however they overlap: a  *)
(* game that is played has its hidden number in the range it shows.        *)
THEOREM SecretIsFindable == Spec => []SecretWithinRange
BY GameInvariant, SoundFile, PTL

(* For any numbers and any number of submissions: the range excludes every *)
(* wrong guess listed, and the game is solved exactly by its last one.     *)
THEOREM FileIsCoherent == Spec => []Explained
BY GameInvariant, SoundFile, PTL

(* For any number of submissions: an answered guess that did not overlap   *)
(* another one is never lost from the game.                                *)
THEOREM AnsweredGuessIsKept == Spec => []KeptUnlessOverlapped
<1>1. GameInv => KeptUnlessOverlapped
  BY DEF GameInv, Kept, Lists, KeptUnlessOverlapped
<1> QED BY <1>1, GameInvariant, PTL

-----------------------------------------------------------------------------
\* Every nonempty set of numbers has a least one.
LEMMA LeastNumber ==
    ASSUME NEW T \in SUBSET Nat, T # {}
    PROVE  \E m \in T : \A n \in T : m <= n
<1> DEFINE R == OpToRel(<, Nat)
<1>1. \A x \in Nat, y \in Nat : y < x => <<y, x>> \in R
  BY DEF OpToRel
<1>2. IsWellFoundedOn(R, Nat)
  BY NatLessThanWellFounded
<1> HIDE DEF R
<1>3. PICK x \in T : \A y \in T : ~(<<y, x>> \in R)
  BY <1>2, WFMin
<1>4. ASSUME NEW n \in T PROVE x <= n
  <2>1. ~(n < x)
    BY <1>3, <1>1
  <2> QED BY <2>1
<1> QED BY <1>4

Doubles(f, n) ==
    /\ f \in [0..n -> Nat]
    /\ f[0] = 1
    /\ \A k \in 1..n : f[k] = 2 * f[k - 1]

\* Up to any number there is such a function, and only one.
LEMMA DoublesUpTo == \A n \in Nat : \E f : Doubles(f, n)
<1> DEFINE T == {n \in Nat : ~\E f : Doubles(f, n)}
<1>1. SUFFICES ASSUME T # {} PROVE FALSE
  OBVIOUS
<1>2. PICK m \in T : \A n \in T : m <= n
  BY <1>1, LeastNumber
<1>3. CASE m = 0
  <2>1. Doubles([k \in 0..0 |-> 1], 0)
    BY DEF Doubles
  <2> QED BY <1>3, <2>1
<1>4. CASE m # 0
  <2>1. m \in Nat /\ m - 1 \in Nat /\ m - 1 \notin T
    BY <1>2, <1>4
  <2>2. PICK f : Doubles(f, m - 1)
    BY <2>1
  <2> DEFINE g == [k \in 0..m |-> IF k = m THEN 2 * f[m - 1] ELSE f[k]]
  <2>3. Doubles(g, m)
    BY <2>1, <2>2 DEF Doubles
  <2> QED BY <2>3
<1> QED BY <1>3, <1>4

LEMMA DoublesAgree ==
    ASSUME NEW n \in Nat, NEW m \in Nat, n <= m, NEW f, NEW g,
           Doubles(f, n), Doubles(g, m)
    PROVE  f[n] = g[n]
<1> DEFINE T == {k \in 0..n : f[k] # g[k]}
<1>1. SUFFICES ASSUME T # {} PROVE FALSE
  OBVIOUS
<1>2. PICK k \in T : \A j \in T : k <= j
  <2>1. T \in SUBSET Nat
    OBVIOUS
  <2> HIDE DEF T
  <2> QED BY <1>1, <2>1, LeastNumber
<1>3. k # 0
  <2>1. f[0] = g[0]
    BY DEF Doubles
  <2> QED BY <1>2, <2>1
<1>4. k - 1 \in 0..n /\ k - 1 \notin T /\ k \in 1..n /\ k \in 1..m
  BY <1>2, <1>3
<1>5. f[k - 1] = g[k - 1]
  BY <1>4
<1>6. f[k] = g[k]
  BY <1>4, <1>5 DEF Doubles
<1> QED BY <1>6, <1>2

LEMMA Powers ==
    /\ PowerOfTwo[0] = 1
    /\ \A k \in Nat : /\ PowerOfTwo[k] \in Nat
                      /\ PowerOfTwo[k + 1] = 2 * PowerOfTwo[k]
<1> DEFINE F(h) == [k \in Nat |-> IF k = 0 THEN 1 ELSE 2 * h[k - 1]]
           d == [n \in Nat |-> CHOOSE f : Doubles(f, n)]
           g == [n \in Nat |-> d[n][n]]
<1>1. \A n \in Nat : Doubles(d[n], n)
  BY DoublesUpTo
<1> HIDE DEF d
<1>2. ASSUME NEW k \in Nat
      PROVE  g[k] \in Nat /\ (k = 0 => g[k] = 1)
                /\ (k # 0 => g[k] = 2 * g[k - 1])
  <2>1. Doubles(d[k], k)
    BY <1>1
  <2>2. CASE k = 0
    BY <2>1, <2>2 DEF Doubles
  <2>3. CASE k # 0
    <3>1. k - 1 \in Nat /\ k \in 1..k /\ k \in 0..k
      BY <2>3
    <3>2. d[k - 1][k - 1] = d[k][k - 1]
      BY <3>1, <1>1, DoublesAgree
    <3> QED BY <2>1, <2>3, <3>1, <3>2 DEF Doubles
  <2> QED BY <2>2, <2>3
<1>3. g = F(g)
  BY <1>2
<1> HIDE DEF g
<1>4. PowerOfTwo = F(PowerOfTwo)
  BY <1>3 DEF PowerOfTwo
<1>5. /\ PowerOfTwo[0] = 1
      /\ \A k \in Nat : PowerOfTwo[k + 1] = 2 * PowerOfTwo[k]
  <2> DEFINE p == PowerOfTwo
  <2>1. \A k \in Nat : p[k] = IF k = 0 THEN 1 ELSE 2 * p[k - 1]
    BY <1>4
  <2>2. \A k \in Nat : k + 1 # 0 /\ k + 1 \in Nat /\ (k + 1) - 1 = k
    OBVIOUS
  <2> HIDE DEF p
  <2>3. p[0] = 1 /\ \A k \in Nat : p[k + 1] = 2 * p[k]
    BY <2>1, <2>2
  <2> QED BY <2>3 DEF p
<1> DEFINE T == {k \in Nat : PowerOfTwo[k] \notin Nat}
<1>6. ASSUME T # {} PROVE FALSE
  <2>1. PICK m \in T : \A k \in T : m <= k
    BY <1>6, LeastNumber
  <2>2. m # 0
    BY <2>1, <1>5
  <2>3. m - 1 \in Nat /\ m - 1 \notin T /\ m = (m - 1) + 1
    BY <2>1, <2>2
  <2>4. PowerOfTwo[m] = 2 * PowerOfTwo[m - 1]
    BY <2>3, <1>5
  <2> QED BY <2>1, <2>3, <2>4
<1> QED BY <1>5, <1>6

-----------------------------------------------------------------------------
\* What is left of the range, times what the wrong guesses have halved.
Halved(g) ==
    g.status # "absent" /\ (\A a \in Recorded(g) : a.advised)
        => Size(g.current) * PowerOfTwo[Cardinality(Wrong(g))] <= Size(g.range)

HalvingInv ==
    /\ Halved(game)
    /\ \A s \in Submission : stage[s] = "open" => Halved(copy[s])

\* A wrong guess of the midpoint leaves at most half of a range.
LEMMA MidpointHalves ==
    ASSUME NEW low \in Nat, NEW high \in Nat, low <= high
    PROVE  LET m == Midpoint(<<low, high>>) IN
           /\ m \in Nat
           /\ 2 * Size(<<m + 1, high>>) <= Size(<<low, high>>)
           /\ 2 * Size(<<low, m - 1>>) <= Size(<<low, high>>)
BY DEF Midpoint, Size

LEMMA JudgedIsHalved ==
  ASSUME NEW g, Sound(g), Halved(g), NEW s \in Submission,
         guess[s] \in Nat, Accepts(g, guess[s])
  PROVE  Halved(Judged(g, s))
<1> DEFINE n == guess[s]
           a == [by |-> s, guess |-> n, feedback |-> Answer(g, n),
                 advised |-> n = Midpoint(g.current)]
           h == Judged(g, s)
           len == Len(g.attempts)
<1>1. /\ g.attempts \in Seq(Attempt) /\ len \in Nat /\ g.secret \in Nat
      /\ g.current[1] \in Nat /\ g.current[2] \in Nat
      /\ g.range[1] \in Nat /\ g.range[2] \in Nat
      /\ g.current = <<g.current[1], g.current[2]>>
      /\ g.status = "active"
  BY NumberAssumption DEF Sound, Game, Accepts, Number
<1>2. /\ h.attempts = Append(g.attempts, a) /\ h.current = Narrowed(g, n)
      /\ h.range = g.range
  BY <1>1 DEF Judged, Sound, Game
<1>3. /\ Len(h.attempts) = len + 1
      /\ \A i \in 1..len : h.attempts[i] = g.attempts[i]
      /\ h.attempts[len + 1] = a
  BY <1>1, <1>2
<1>4. a.feedback = Answer(g, n) /\ a.advised = (n = Midpoint(g.current))
  OBVIOUS
<1>5. In(g.secret, g.current) /\ In(n, g.current)
  BY <1>1 DEF Sound, Accepts
<1> HIDE DEF h, a
<1>6. SUFFICES ASSUME \A b \in Recorded(h) : b.advised
               PROVE  Size(h.current) * PowerOfTwo[Cardinality(Wrong(h))]
                        <= Size(h.range)
  BY DEF Halved, h
<1>7. (\A b \in Recorded(g) : b.advised) /\ n = Midpoint(g.current)
  <2>1. a \in Recorded(h)
    BY <1>1, <1>3 DEF Recorded
  <2>2. ASSUME NEW b \in Recorded(g) PROVE b \in Recorded(h)
    <3>1. PICK i \in 1..len : b = g.attempts[i]
      BY DEF Recorded
    <3>2. i \in 1..(len + 1) /\ b = h.attempts[i]
      BY <1>1, <1>3, <3>1
    <3> QED BY <1>3, <3>2 DEF Recorded
  <2> QED BY <1>4, <1>6, <2>1, <2>2
<1> DEFINE k == Cardinality(Wrong(g))
<1>8. IsFiniteSet(Wrong(g)) /\ k \in Nat /\ len + 1 \notin Wrong(g)
  <2>1. Wrong(g) \subseteq 1..len
    BY DEF Wrong
  <2>2. IsFiniteSet(1..len)
    <3>1. 1 \in Int /\ len \in Int
      BY <1>1
    <3> HIDE DEF len
    <3> QED BY <3>1, FS_Interval
  <2>3. IsFiniteSet(Wrong(g))
    BY <2>1, <2>2, FS_Subset
  <2>4. len + 1 \notin Wrong(g)
    BY <1>1, <2>1
  <2> QED BY <2>3, <2>4, FS_CardinalityType
<1>9. Size(g.current) * PowerOfTwo[k] <= Size(g.range)
  BY <1>1, <1>7 DEF Halved
<1>10. PowerOfTwo[k] \in Nat /\ PowerOfTwo[k + 1] = 2 * PowerOfTwo[k]
  BY <1>8, Powers
<1>11. Size(g.current) \in Nat /\ Size(g.current) >= 1 /\ Size(g.range) \in Int
  BY <1>1, <1>5 DEF Size, In
<1>12. CASE Answer(g, n) = "yes"
  <2>1. Wrong(h) = Wrong(g)
    BY <1>1, <1>3, <1>4, <1>12 DEF Wrong
  <2>2. Size(h.current) = 1
    BY <1>2, <1>12 DEF Narrowed, Size
  <2>3. 1 * PowerOfTwo[k] <= Size(g.current) * PowerOfTwo[k]
    BY <1>10, <1>11
  <2> QED BY <1>2, <1>9, <1>10, <1>11, <2>1, <2>2, <2>3
<1>13. CASE Answer(g, n) # "yes"
  <2>1. Wrong(h) = Wrong(g) \cup {len + 1}
    BY <1>1, <1>3, <1>4, <1>13 DEF Wrong
  <2>2. Cardinality(Wrong(h)) = k + 1
    BY <1>8, <2>1, FS_AddElement
  <2>3. Size(h.current) \in Int /\ 2 * Size(h.current) <= Size(g.current)
    <3>1. h.current = <<n + 1, g.current[2]>> \/ h.current = <<g.current[1], n - 1>>
      BY <1>1, <1>2, <1>13 DEF Narrowed, Answer
    <3>2. g.current[1] <= g.current[2]
      BY <1>1, <1>5 DEF In
    <3> DEFINE low == g.current[1]
               high == g.current[2]
    <3>3. n = Midpoint(<<low, high>>) /\ Size(g.current) = Size(<<low, high>>)
      BY <1>1, <1>7
    <3>4. h.current = <<n + 1, high>> \/ h.current = <<low, n - 1>>
      BY <3>1
    <3>5. low \in Nat /\ high \in Nat /\ low <= high
      BY <1>1, <3>2
    <3> HIDE DEF low, high
    <3>6. n \in Nat /\ 2 * Size(<<n + 1, high>>) <= Size(<<low, high>>)
                     /\ 2 * Size(<<low, n - 1>>) <= Size(<<low, high>>)
      BY <3>3, <3>5, MidpointHalves
    <3>7. Size(<<n + 1, high>>) \in Int /\ Size(<<low, n - 1>>) \in Int
      BY <3>5, <3>6 DEF Size
    <3> QED BY <3>3, <3>4, <3>6, <3>7
  <2>4. \A x \in Int, y, p \in Nat, z \in Int :
           2 * x <= y /\ y * p <= z => x * (2 * p) <= z
    OBVIOUS
  <2> HIDE DEF k
  <2> QED BY <1>2, <1>9, <1>10, <1>11, <2>2, <2>3, <2>4
<1> QED BY <1>12, <1>13

LEMMA HalvedFile == GameInv /\ HalvingInv => BinarySearchBound
<1> SUFFICES ASSUME GameInv, HalvingInv, Played,
                    \A a \in Recorded(game) : a.advised
             PROVE  PowerOfTwo[Cardinality(Wrong(game))] <= Size(game.range)
  BY DEF BinarySearchBound
<1> DEFINE k == Cardinality(Wrong(game))
<1>1. Sound(game) /\ game.attempts \in Seq(Attempt)
      /\ game.current[1] \in Nat /\ game.current[2] \in Nat
      /\ game.range[1] \in Nat /\ game.range[2] \in Nat /\ game.secret \in Nat
  BY NumberAssumption DEF GameInv, TypeOK, Game, Number
<1>2. Size(game.current) \in Nat /\ Size(game.current) >= 1
      /\ Size(game.range) \in Int
  <2>1. In(game.secret, game.current)
    BY <1>1 DEF Sound, Played
  <2>2. game.current[1] <= game.current[2]
    BY <1>1, <2>1 DEF In
  <2>3. \A p : p[1] \in Nat /\ p[2] \in Nat => Size(p) \in Int
    BY DEF Size
  <2>4. \A p : p[1] \in Nat /\ p[2] \in Nat /\ p[1] <= p[2]
                 => Size(p) \in Nat /\ Size(p) >= 1
    BY DEF Size
  <2> QED BY <1>1, <2>2, <2>3, <2>4
<1>3. k \in Nat
  <2>1. Wrong(game) \subseteq 1..Len(game.attempts) /\ Len(game.attempts) \in Nat
    BY <1>1 DEF Wrong
  <2>2. IsFiniteSet(1..Len(game.attempts))
    BY <2>1, FS_Interval
  <2>3. IsFiniteSet(Wrong(game))
    BY <2>1, <2>2, FS_Subset
  <2> QED BY <2>3, FS_CardinalityType
<1>4. PowerOfTwo[k] \in Nat
  BY <1>3, Powers
<1>5. Size(game.current) * PowerOfTwo[k] <= Size(game.range)
  BY DEF HalvingInv, Halved, Played
<1>6. \A x, p \in Nat, z \in Int : x >= 1 /\ x * p <= z => p <= z
  OBVIOUS
<1> HIDE DEF k
<1>7. PowerOfTwo[k] <= Size(game.range)
  BY <1>2, <1>4, <1>5, <1>6
<1> QED BY <1>7 DEF k

(* For any range of numbers and any number of submissions, however they    *)
(* overlap: a game played with the proposed guesses only has at most       *)
(* log2(n) wrong ones.                                                     *)
THEOREM PlayIsShort == Spec => []BinarySearchBound
<1>1. Init => HalvingInv
  BY DEF Init, HalvingInv, Halved, Absent
<1>2. ASSUME GameInv, HalvingInv, [Next]_vars
      PROVE  HalvingInv'
  <2>1. ASSUME NEW low \in Number, NEW high \in Number,
               NEW secret \in Number, Choose(low, high, secret)
        PROVE  HalvingInv'
    <3>1. game'.current = game'.range /\ Wrong(game') = {}
      BY <2>1 DEF Choose, Wrong
    <3>2. Cardinality(Wrong(game')) = 0
      BY <3>1, FS_EmptySet
    <3>5. Size(game'.range) \in Int
      BY <2>1, NumberAssumption DEF Choose, Size, Number
    <3>3. Size(game'.range) * 1 = Size(game'.range)
      BY <3>5
    <3>6. /\ PowerOfTwo[Cardinality(Wrong(game'))] = 1
          /\ Size(game'.current) = Size(game'.range)
      BY <3>1, <3>2, Powers
    <3>4. Halved(game')
      BY <3>3, <3>5, <3>6 DEF Halved
    <3> QED BY <1>2, <2>1, <3>4 DEF HalvingInv, Choose
  <2>2. ASSUME NEW s \in Submission, NEW n \in 0..(MaxNumber + 1),
               PlanGuess(s, n)
        PROVE  HalvingInv'
    <3>1. \A t \in Submission : stage'[t] = "open" => stage[t] = "open"
      BY <1>2, <2>2 DEF GameInv, TypeOK, PlanGuess
    <3> QED BY <1>2, <2>2, <3>1 DEF HalvingInv, PlanGuess
  <2>3. ASSUME NEW s \in Submission, Read(s)
        PROVE  HalvingInv'
    <3>1. ASSUME NEW t \in Submission, stage'[t] = "open"
          PROVE  \/ copy'[t] = game
                 \/ stage[t] = "open" /\ copy'[t] = copy[t]
      BY <1>2, <2>3, <3>1 DEF GameInv, TypeOK, Read
    <3>2. game' = game
      BY <2>3 DEF Read
    <3>3. ASSUME NEW t \in Submission, stage'[t] = "open"
          PROVE  Halved(copy'[t])
      BY <1>2, <3>1, <3>3 DEF HalvingInv
    <3> QED BY <1>2, <3>2, <3>3 DEF HalvingInv
  <2>4. ASSUME NEW s \in Submission, Write(s)
        PROVE  HalvingInv'
    <3>1. /\ Sound(copy[s]) /\ Accepts(copy[s], guess[s]) /\ guess[s] \in Nat
          /\ Halved(copy[s])
      BY <1>2, <2>4, NumberAssumption DEF GameInv, TypeOK, Write, HalvingInv
    <3>2. Halved(game')
      BY <2>4, <3>1, JudgedIsHalved DEF Write
    <3>3. \A t \in Submission : stage'[t] = "open" => stage[t] = "open"
      BY <1>2, <2>4 DEF GameInv, TypeOK, Write
    <3> QED BY <1>2, <2>4, <3>2, <3>3 DEF HalvingInv, Write
  <2>5. ASSUME NEW s \in Submission, Fail(s)
        PROVE  HalvingInv'
    <3>1. \A t \in Submission : stage'[t] = "open" => stage[t] = "open"
      BY <1>2, <2>5 DEF GameInv, TypeOK, Fail
    <3> QED BY <1>2, <2>5, <3>1 DEF HalvingInv, Fail
  <2>6. CASE UNCHANGED vars
    BY <1>2, <2>6 DEF HalvingInv, vars
  <2> QED BY <1>2, <2>1, <2>2, <2>3, <2>4, <2>5, <2>6 DEF Next
<1> QED BY <1>1, <1>2, GameInvariant, HalvedFile, PTL DEF Spec

=============================================================================
