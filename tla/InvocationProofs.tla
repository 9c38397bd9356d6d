-------------------------- MODULE InvocationProofs --------------------------
(***************************************************************************)
(* The safety of Invocation for any configuration the loader lets through, *)
(* any global flags, and any words behind a command.                       *)
(*                                                                         *)
(* First the judges of names: the resolver (domain_action_config) and the  *)
(* audit (domain_affordance_config_check) of domain/actions.py are two     *)
(* programs that agree on every loaded store.  Then the scanners of words, *)
(* whose recursive functions are reasoned about by a least counterexample. *)
(* InvocationInv is inductive: one lemma per action says that its answer   *)
(* fits the reference it answers.  The invariants of the run follow from   *)
(* it, and those about calls from CallsInv.                                *)
(***************************************************************************)
EXTENDS InvocationInvariant, FiniteSetTheorems, SequenceTheorems,
        WellFoundedInduction, TLAPS

-----------------------------------------------------------------------------
(* The resolver and the audit over one store *)

(***************************************************************************)
(* The resolver (domain_action_config) and the audit                       *)
(* (domain_affordance_config_check) of domain/actions.py judge the names   *)
(* of a domain by two programs.  They agree on every loaded store.         *)
(***************************************************************************)
(* What is published for a domain belongs to it, so that its source has    *)
(* three parts and a subdomain's reference has two.                        *)
LEMMA MatchesAreSources ==
    ASSUME NEW s, NEW d \in Domain, NEW t
    PROVE  /\ Matches(s, d, t) \subseteq s.actions
           /\ \A x \in Matches(s, d, t) : Source(x) # <<d, t>>
  BY DEF Matches, Shortcuts, Source

(* Two actions of a store have different sources: the key that the loader  *)
(* files an action under.                                                  *)
LEMMA SourcesIdentify ==
    ASSUME NEW s, IsStore(s),
           NEW x \in s.actions, NEW y \in s.actions,
           Source(x) = Source(y)
    PROVE  x = y
  BY DEF IsStore, Source

(* A name has one meaning by the audit's account exactly if the resolver   *)
(* refuses it neither as ambiguous nor as published twice.                 *)
THEOREM OneMeaning ==
    ASSUME NEW s, IsStore(s), NEW d \in Domain, NEW t
    PROVE  (\A p, q \in Sources(s, d, t) : p = q)
              <=> ~Ambiguous(s, d, t) /\ ~Duplicate(s, d, t)
<1>1. ASSUME \A p, q \in Sources(s, d, t) : p = q
      PROVE  ~Ambiguous(s, d, t)
  <2>1. SUFFICES ASSUME NEW x \in Matches(s, d, t),
                        t \in s.subdomains[d]
                 PROVE  FALSE
    BY DEF Ambiguous
  <2>2. <<d, t>> \in Sources(s, d, t) /\ Source(x) \in Sources(s, d, t)
    BY <2>1 DEF Sources
  <2>3. QED
    BY <1>1, <2>1, <2>2, MatchesAreSources
<1>2. ASSUME \A p, q \in Sources(s, d, t) : p = q
      PROVE  ~Duplicate(s, d, t)
  <2>1. SUFFICES ASSUME NEW x \in Matches(s, d, t),
                        NEW y \in Matches(s, d, t), x # y
                 PROVE  FALSE
    BY DEF Duplicate
  <2>2. Source(x) \in Sources(s, d, t) /\ Source(y) \in Sources(s, d, t)
    BY <2>1 DEF Sources
  <2>3. QED
    BY <1>2, <2>1, <2>2, MatchesAreSources, SourcesIdentify
<1>3. ASSUME ~Ambiguous(s, d, t), ~Duplicate(s, d, t),
             NEW p \in Sources(s, d, t), NEW q \in Sources(s, d, t)
      PROVE  p = q
  <2>1. \A x, y \in Matches(s, d, t) : x = y
    BY <1>3 DEF Duplicate
  <2>2. CASE t \in s.subdomains[d]
    <3>1. Matches(s, d, t) = {}
      BY <1>3, <2>2 DEF Ambiguous
    <3>2. p = <<d, t>> /\ q = <<d, t>>
      BY <1>3, <2>2, <3>1 DEF Sources
    <3>3. QED
      BY <3>2
  <2>3. CASE t \notin s.subdomains[d]
    <3>1. PICK x \in Matches(s, d, t) : p = Source(x)
      BY <1>3, <2>3 DEF Sources
    <3>2. PICK y \in Matches(s, d, t) : q = Source(y)
      BY <1>3, <2>3 DEF Sources
    <3>3. QED
      BY <2>1, <3>1, <3>2
  <2>4. QED
    BY <2>2, <2>3
<1>4. QED
  BY <1>1, <1>2, <1>3

(* What the audit passes the resolver never refuses as ambiguous or as     *)
(* published twice, and what the audit fails it does refuse.               *)
THEOREM AuditDecidesRouting ==
    ASSUME NEW s, IsStore(s)
    PROVE  AuditClean(s)
              <=> \A d \in Domain, t \in Name :
                     ~Ambiguous(s, d, t) /\ ~Duplicate(s, d, t)
  BY OneMeaning DEF AuditClean

(* A name that the resolver takes for a shortcut runs one action, which no *)
(* other reference of the audit's account competes with.                   *)
THEOREM ShortcutRunsItsAction ==
    ASSUME NEW s, IsStore(s), NEW d \in Domain, NEW t,
           ~Ambiguous(s, d, t), ~Duplicate(s, d, t),
           NEW x \in Matches(s, d, t)
    PROVE  /\ Sources(s, d, t) = {Source(x)}
           /\ ActionsAt(s, x.domain, x.subdomain, x.id) = {x}
<1>1. Source(x) \in Sources(s, d, t)
  BY DEF Sources
<1>2. Sources(s, d, t) = {Source(x)}
  BY <1>1, OneMeaning
<1>3. x \in s.actions
  BY MatchesAreSources
<1>4. ActionsAt(s, x.domain, x.subdomain, x.id) = {x}
  BY <1>3, SourcesIdentify DEF ActionsAt, Source
<1>5. QED
  BY <1>2, <1>4

-----------------------------------------------------------------------------
(* The scanners of words *)

(* A set of numbers that is not empty has a least one: how the proofs      *)
(* below argue about recursive functions, which no induction over data can *)
(* reach.                                                                  *)
LEMMA LeastNumber ==
    ASSUME NEW T \in SUBSET Nat, T # {}
    PROVE  \E m \in T : \A n \in T : m <= n
<1> DEFINE R == OpToRel(<, Nat)
<1>1. \A x \in Nat, y \in Nat : y < x => <<y, x>> \in R
  BY DEF OpToRel
<1>2. IsWellFoundedOn(R, Nat)
  BY NatLessThanWellFounded
<1> HIDE DEF R
<1>3. PICK x \in T : \A y \in T : ~(<<y, x>> \in R)
  BY <1>2, WFMin
<1>4. ASSUME NEW n \in T PROVE x <= n
  <2>1. ~(n < x)
    BY <1>3, <1>1
  <2> QED BY <2>1
<1> QED BY <1>4

\* H is the set of places among the first n at which a scanner looks at a word.
Scans(H, words, takes, n) ==
    /\ H \in SUBSET (1..n)
    /\ \A i \in 1..n : i \in H <=> i = 1 \/ ~(i - 1 \in H /\ words[i - 1] \in takes)

\* There is a scan of the first n words, which is what Heads chooses.
LEMMA ScanExists ==
    ASSUME NEW words, NEW takes
    PROVE  \A n \in Nat : \E H : Scans(H, words, takes, n)
<1> DEFINE T == {n \in Nat : ~\E H : Scans(H, words, takes, n)}
<1>1. SUFFICES ASSUME T # {} PROVE FALSE
  OBVIOUS
<1>2. PICK n \in T : \A m \in T : n <= m
  <2>1. T \in SUBSET Nat
    OBVIOUS
  <2> HIDE DEF T
  <2>2. QED
    BY <1>1, <2>1, LeastNumber
<1>3. CASE n = 0
  <2>1. Scans({}, words, takes, 0)
    BY DEF Scans
  <2>2. QED
    BY <1>2, <1>3, <2>1
<1>4. CASE n # 0
  <2>1. n \in Nat /\ n - 1 \in Nat /\ ~(n <= n - 1)
    BY <1>2, <1>4
  <2>2. PICK H : Scans(H, words, takes, n - 1)
    BY <1>2, <2>1
  <2> DEFINE last == n = 1 \/ ~(n - 1 \in H /\ words[n - 1] \in takes)
             K == H \cup (IF last THEN {n} ELSE {})
  <2>3. H \in SUBSET (1..(n - 1)) /\ n \notin H
    BY <2>1, <2>2 DEF Scans
  <2>4. \A i \in 1..n : i \in 1..(n - 1) \/ i = n
    BY <2>1
  <2>5. n - 1 \in K <=> n - 1 \in H
    BY <2>1, <2>3
  <2>6. \A i \in 1..(n - 1) : (i \in K <=> i \in H) /\ (i - 1 \in K <=> i - 1 \in H)
    BY <2>1, <2>3
  <2>7. Scans(K, words, takes, n)
    <3>1. K \in SUBSET (1..n)
      BY <2>1, <2>3
    <3>2. ASSUME NEW i \in 1..(n - 1)
          PROVE  i \in K <=> i = 1 \/ ~(i - 1 \in K /\ words[i - 1] \in takes)
      BY <2>2, <2>6 DEF Scans
    <3>3. n \in K <=> n = 1 \/ ~(n - 1 \in K /\ words[n - 1] \in takes)
      BY <2>3, <2>5
    <3> HIDE DEF K
    <3>4. QED
      BY <2>4, <3>1, <3>2, <3>3 DEF Scans
  <2>8. QED
    BY <1>2, <2>7
<1>5. QED
  BY <1>3, <1>4

(* A scanner looks at the first word, and at each other one unless the     *)
(* word before it is one it looked at and takes the next for its value.    *)
LEMMA HeadsScan ==
    ASSUME NEW S, NEW words \in Seq(S), NEW takes
    PROVE  Scans(Heads(words, takes), words, takes, Len(words))
<1> DEFINE n == Len(words)
<1>1. n \in Nat /\ DOMAIN words = 1..n
  OBVIOUS
<1>2. PICK H : Scans(H, words, takes, n)
  BY <1>1, ScanExists
<1> DEFINE F(g) == [i \in 0..n |-> i > 0 /\ (i = 1 \/ ~(g[i - 1] /\ words[i - 1] \in takes))]
           h == [i \in 0..n |-> i \in H]
<1>3. h = F(h)
  <2>1. ASSUME NEW i \in 0..n
        PROVE  (i \in H) = (i > 0 /\ (i = 1 \/ ~(h[i - 1] /\ words[i - 1] \in takes)))
    <3>1. CASE i = 0
      BY <1>1, <1>2, <3>1 DEF Scans
    <3>2. CASE i # 0
      <4>1. i \in 1..n /\ i - 1 \in 0..n /\ i > 0
        BY <1>1, <3>2
      <4>2. h[i - 1] = (i - 1 \in H)
        BY <4>1
      <4>3. i \in H <=> i = 1 \/ ~(i - 1 \in H /\ words[i - 1] \in takes)
        BY <1>2, <4>1 DEF Scans
      <4>4. i \in H <=> i > 0 /\ (i = 1 \/ ~(h[i - 1] /\ words[i - 1] \in takes))
        BY <4>1, <4>2, <4>3
      <4> HIDE DEF h
      <4>5. QED
        BY <4>4
    <3>3. QED
      BY <3>1, <3>2
  <2>2. QED
    BY <2>1
<1> HIDE DEF h
<1>4. PICK g : g = F(g) /\ Heads(words, takes) = {i \in DOMAIN words : g[i]}
  BY <1>3 DEF Heads
<1>5. ASSUME NEW i \in 1..n
      PROVE  i \in Heads(words, takes)
                <=> i = 1 \/ ~(i - 1 \in Heads(words, takes) /\ words[i - 1] \in takes)
  <2>1. i \in 0..n /\ i - 1 \in 0..n /\ i > 0 /\ (i # 1 => i - 1 \in 1..n)
    BY <1>1
  <2>2. g[i] <=> i = 1 \/ ~(g[i - 1] /\ words[i - 1] \in takes)
    BY <1>4, <2>1
  <2>3. i \in Heads(words, takes) <=> g[i]
    BY <1>1, <1>4
  <2>4. i # 1 => (i - 1 \in Heads(words, takes) <=> g[i - 1])
    BY <1>1, <1>4, <2>1
  <2>5. QED
    BY <2>2, <2>3, <2>4
<1>6. Heads(words, takes) \in SUBSET (1..n)
  BY <1>1, <1>4
<1>7. QED
  BY <1>5, <1>6 DEF Scans

\* f[i] are the words at the given places up to i.
Gathers(f, words, places, n) ==
    /\ DOMAIN f = 0..n /\ f[0] = <<>>
    /\ \A i \in 1..n :
          f[i] = IF i \in places THEN Append(f[i - 1], words[i]) ELSE f[i - 1]

\* There is a list of the words up to n, which is what WordsAt chooses.
LEMMA GatherExists ==
    ASSUME NEW words, NEW places
    PROVE  \A n \in Nat : \E f : Gathers(f, words, places, n)
<1> DEFINE T == {n \in Nat : ~\E f : Gathers(f, words, places, n)}
<1>1. SUFFICES ASSUME T # {} PROVE FALSE
  OBVIOUS
<1>2. PICK n \in T : \A m \in T : n <= m
  <2>1. T \in SUBSET Nat
    OBVIOUS
  <2> HIDE DEF T
  <2>2. QED
    BY <1>1, <2>1, LeastNumber
<1>3. CASE n = 0
  <2>1. Gathers([i \in 0..0 |-> <<>>], words, places, 0)
    BY DEF Gathers
  <2>2. QED
    BY <1>2, <1>3, <2>1
<1>4. CASE n # 0
  <2>1. n \in Nat /\ n - 1 \in Nat /\ ~(n <= n - 1)
    BY <1>2, <1>4
  <2>2. PICK f : Gathers(f, words, places, n - 1)
    BY <1>2, <2>1
  <2> DEFINE last == IF n \in places THEN Append(f[n - 1], words[n]) ELSE f[n - 1]
             g == [i \in 0..n |-> IF i = n THEN last ELSE f[i]]
  <2> HIDE DEF last
  <2>3. \A i \in 1..(n - 1) : g[i] = f[i] /\ g[i - 1] = f[i - 1]
    BY <2>1
  <2>4. g[n] = last /\ g[n - 1] = f[n - 1] /\ g[0] = f[0] /\ DOMAIN g = 0..n
    BY <2>1
  <2> HIDE DEF g
  <2>5. \A i \in 1..n : i \in 1..(n - 1) \/ i = n
    BY <2>1
  <2>6. ASSUME NEW i \in 1..(n - 1)
        PROVE  g[i] = IF i \in places THEN Append(g[i - 1], words[i]) ELSE g[i - 1]
    BY <2>2, <2>3 DEF Gathers
  <2>7. g[n] = IF n \in places THEN Append(g[n - 1], words[n]) ELSE g[n - 1]
    BY <2>4 DEF last
  <2>8. g[0] = <<>>
    BY <2>2, <2>4 DEF Gathers
  <2>9. Gathers(g, words, places, n)
    BY <2>4, <2>5, <2>6, <2>7, <2>8 DEF Gathers
  <2>10. QED
    BY <1>2, <2>9
<1>5. QED
  BY <1>3, <1>4

\* WordsAt is the last of these lists.
LEMMA WordsAtGather ==
    ASSUME NEW S, NEW words \in Seq(S), NEW places
    PROVE  \E f : /\ Gathers(f, words, places, Len(words))
                  /\ WordsAt(words, places) = f[Len(words)]
<1> DEFINE n == Len(words)
<1>1. n \in Nat
  OBVIOUS
<1>2. PICK f : Gathers(f, words, places, n)
  BY <1>1, GatherExists
<1> DEFINE F(g) == [i \in 0..n |-> IF i = 0 THEN <<>>
                                   ELSE IF i \in places THEN Append(g[i - 1], words[i])
                                   ELSE g[i - 1]]
           h == [i \in 0..n |-> f[i]]
<1>3. h = F(h)
  <2>1. ASSUME NEW i \in 0..n
        PROVE  f[i] = IF i = 0 THEN <<>>
                      ELSE IF i \in places THEN Append(h[i - 1], words[i]) ELSE h[i - 1]
    <3>1. CASE i = 0
      BY <1>2, <3>1 DEF Gathers
    <3>2. CASE i # 0
      <4>1. i \in 1..n /\ i - 1 \in 0..n
        BY <1>1, <3>2
      <4>2. h[i - 1] = f[i - 1]
        BY <4>1
      <4> HIDE DEF h
      <4>3. QED
        BY <1>2, <3>2, <4>1, <4>2 DEF Gathers
    <3>3. QED
      BY <3>1, <3>2
  <2>2. QED
    BY <2>1
<1> HIDE DEF h
<1>4. PICK g : g = F(g) /\ WordsAt(words, places) = g[n]
  BY <1>3 DEF WordsAt
<1>5. Gathers(g, words, places, n)
  <2>1. DOMAIN g = 0..n
    BY <1>4
  <2>2. g[0] = <<>>
    BY <1>1, <1>4
  <2>3. ASSUME NEW i \in 1..n
        PROVE  g[i] = IF i \in places THEN Append(g[i - 1], words[i]) ELSE g[i - 1]
    <3>1. i \in 0..n /\ i # 0
      BY <1>1
    <3>2. QED
      BY <1>4, <3>1
  <2>4. QED
    BY <2>1, <2>2, <2>3 DEF Gathers
<1>6. QED
  BY <1>4, <1>5

(* What is picked are words that stand at the given places.                *)
LEMMA WordsAtRange ==
    ASSUME NEW S, NEW words \in Seq(S), NEW places
    PROVE  /\ WordsAt(words, places) \in Seq(Range(words))
           /\ \A w \in Range(WordsAt(words, places)) :
                 \E i \in places \cap DOMAIN words : words[i] = w
<1> DEFINE n == Len(words)
           picked == {words[i] : i \in places \cap DOMAIN words}
<1>1. n \in Nat /\ DOMAIN words = 1..n
  OBVIOUS
<1>2. PICK f : Gathers(f, words, places, n) /\ WordsAt(words, places) = f[n]
  BY WordsAtGather
<1>3. \A i \in 0..n : f[i] \in Seq(picked)
  <2> DEFINE T == {i \in 0..n : f[i] \notin Seq(picked)}
  <2>1. SUFFICES ASSUME T # {} PROVE FALSE
    OBVIOUS
  <2>2. PICK m \in T : \A i \in T : m <= i
    <3>1. T \in SUBSET Nat
      BY <1>1
    <3> HIDE DEF T
    <3>2. QED
      BY <2>1, <3>1, LeastNumber
  <2>3. m # 0
    <3>1. <<>> \in Seq(picked)
      OBVIOUS
    <3> HIDE DEF picked
    <3>2. f[0] \in Seq(picked)
      BY <1>2, <3>1 DEF Gathers
    <3>3. QED
      BY <2>2, <3>2
  <2>4. m \in 1..n /\ m - 1 \in 0..n /\ ~(m <= m - 1)
    BY <1>1, <2>2, <2>3
  <2>5. f[m - 1] \in Seq(picked)
    BY <2>2, <2>4
  <2>6. m \in places => words[m] \in picked
    BY <1>1, <2>4
  <2> HIDE DEF picked
  <2>7. f[m] \in Seq(picked)
    <3>1. CASE m \in places
      <4>1. f[m] = Append(f[m - 1], words[m])
        BY <1>2, <2>4, <3>1 DEF Gathers
      <4>2. QED
        BY <2>5, <2>6, <3>1, <4>1
    <3>2. CASE m \notin places
      BY <1>2, <2>4, <2>5, <3>2 DEF Gathers
    <3>3. QED
      BY <3>1, <3>2
  <2>8. QED
    BY <2>2, <2>7
<1>4. f[n] \in Seq(picked)
  BY <1>1, <1>3
<1>5. picked \subseteq Range(words)
  BY DEF Range
<1>6. \A w \in Range(f[n]) : w \in picked
  BY <1>4 DEF Range
<1>7. f[n] \in Seq(Range(words))
  BY <1>4, <1>5
<1>8. QED
  BY <1>2, <1>6, <1>7

\* Where a scanner looks at the shortest words.
LEMMA ShortScan ==
    /\ \A takes : Heads(<<>>, takes) = {}
    /\ \A v, takes : Heads(<<v>>, takes) = {1}
    /\ \A v, w : Heads(<<v, w>>, {v}) = {1}
<1>1. ASSUME NEW takes PROVE Heads(<<>>, takes) = {}
  <2>1. <<>> \in Seq({}) /\ Len(<<>>) = 0
    OBVIOUS
  <2>2. Scans(Heads(<<>>, takes), <<>>, takes, 0)
    BY <2>1, HeadsScan
  <2>3. QED
    BY <2>2 DEF Scans
<1>2. ASSUME NEW v, NEW takes PROVE Heads(<<v>>, takes) = {1}
  <2>1. <<v>> \in Seq({v}) /\ Len(<<v>>) = 1
    OBVIOUS
  <2>2. Scans(Heads(<<v>>, takes), <<v>>, takes, 1)
    BY <2>1, HeadsScan
  <2>3. QED
    BY <2>2 DEF Scans
<1>3. ASSUME NEW v, NEW w PROVE Heads(<<v, w>>, {v}) = {1}
  <2> DEFINE H == Heads(<<v, w>>, {v})
  <2>1. <<v, w>> \in Seq({v, w}) /\ Len(<<v, w>>) = 2 /\ <<v, w>>[1] = v
    OBVIOUS
  <2>2. Scans(H, <<v, w>>, {v}, 2)
    BY <2>1, HeadsScan
  <2> HIDE DEF H
  <2>3. 1 \in H /\ 2 \notin H
    <3>1. 1 \in 1..2 /\ 2 \in 1..2 /\ 2 - 1 = 1
      OBVIOUS
    <3>2. QED
      BY <2>1, <2>2, <3>1 DEF Scans
  <2>4. H \subseteq {1, 2}
    BY <2>2 DEF Scans
  <2>5. QED
    BY <2>3, <2>4 DEF H
<1>4. QED
  BY <1>1, <1>2, <1>3

\* The words picked out of none and of one.
LEMMA ShortWords ==
    /\ \A S : \A words \in Seq(S) : WordsAt(words, {}) = <<>>
    /\ \A v : WordsAt(<<v>>, {1}) = <<v>>
<1>1. ASSUME NEW S, NEW words \in Seq(S) PROVE WordsAt(words, {}) = <<>>
  <2>1. WordsAt(words, {}) \in Seq(Range(words)) /\ Range(WordsAt(words, {})) = {}
    BY WordsAtRange
  <2> DEFINE s == WordsAt(words, {})
  <2> HIDE DEF s
  <2>2. ASSUME s \in Seq(Range(words)), Range(s) = {} PROVE s = <<>>
    <3>1. s # <<>> => Len(s) \in Nat \ {0}
      BY <2>2, EmptySeq
    <3>2. s # <<>> => s[1] \in Range(s)
      BY <2>2, <3>1 DEF Range
    <3>3. QED
      BY <2>2, <3>2
  <2>3. QED
    BY <2>1, <2>2 DEF s
<1>2. ASSUME NEW v PROVE WordsAt(<<v>>, {1}) = <<v>>
  <2>1. <<v>> \in Seq({v}) /\ Len(<<v>>) = 1 /\ <<v>>[1] = v
    OBVIOUS
  <2>2. PICK f : Gathers(f, <<v>>, {1}, 1) /\ WordsAt(<<v>>, {1}) = f[1]
    BY <2>1, WordsAtGather
  <2>3. 1 \in 1..1 /\ 1 - 1 = 0
    OBVIOUS
  <2>4. f[1] = Append(<<>>, v)
    BY <2>1, <2>2, <2>3 DEF Gathers
  <2>5. QED
    BY <2>2, <2>4
<1>3. QED
  BY <1>1, <1>2

-----------------------------------------------------------------------------
(* The flag loop *)

\* What is left behind the first k words, and behind n more.
LEMMA Drop ==
    ASSUME NEW S, NEW s \in Seq(S), NEW k \in 0..Len(s), NEW n \in 0..(Len(s) - k)
    PROVE  LET rest == SubSeq(s, k + 1, Len(s))
           IN  /\ rest \in Seq(S) /\ Len(rest) = Len(s) - k
               /\ \A i \in 1..Len(rest) : rest[i] = s[k + i]
               /\ SubSeq(rest, n + 1, Len(rest)) = SubSeq(s, k + n + 1, Len(s))
  OBVIOUS

(* A prefix and a written request are words, and a request starts with its *)
(* command.                                                                *)
LEMMA WordsOf ==
    ASSUME NEW p, NEW r, IsFlagPrefix(p), IsRequest(r)
    PROVE  \E S : /\ p \in Seq(S) /\ Written(r) \in Seq(S)
                  /\ p \o Written(r) \in Seq(S)
                  /\ Len(p \o Written(r)) = Len(p) + Len(Written(r))
                  /\ \A i \in 1..Len(p) : (p \o Written(r))[i] = p[i]
                  /\ Len(p) < Len(p \o Written(r)) =>
                        (p \o Written(r))[Len(p) + 1] = r.command
                  /\ Written(r) # <<>> =>
                        Len(Written(r)) \in Nat \ {0} /\ Written(r)[1] = r.command
                  /\ Written(r) = <<>> => r.command = Unset
<1> DEFINE S == Range(p) \cup Range(r.args)
                   \cup {r.command, r.id, "--id", "target"}
<1>1. p \in Seq(S)
  BY DEF IsFlagPrefix
<1>2. r.args \in Seq(S)
  BY DEF IsRequest
<1>3. /\ <<r.command>> \in Seq(S) /\ <<"--id", r.id>> \in Seq(S)
      /\ <<"target">> \in Seq(S) /\ <<>> \in Seq(S)
  OBVIOUS
<1> HIDE DEF S
<1>4. Written(r) \in Seq(S)
  BY <1>2, <1>3 DEF Written
<1>5. /\ Written(r) # <<>> => Written(r)[1] = r.command
      /\ Written(r) = <<>> => r.command = Unset
  <2>1. \A a, b \in Seq(S) : a # <<>> => a \o b # <<>> /\ (a \o b)[1] = a[1] /\ a \o b \in Seq(S)
    OBVIOUS
  <2>2. <<r.command>> # <<>> /\ <<r.command>>[1] = r.command
    OBVIOUS
  <2> DEFINE named == IF r.id # Unset THEN <<"--id", r.id>> ELSE <<>>
             target == IF r.ref # Unset THEN <<"target">> ELSE <<>>
  <2>3. named \in Seq(S) /\ target \in Seq(S)
    BY <1>3
  <2>4. IF r.command = Unset THEN Written(r) = <<>>
        ELSE Written(r) = <<r.command>> \o named \o target \o r.args
    BY DEF Written
  <2> HIDE DEF named, target
  <2>5. LET front == <<r.command>> \o named
        IN  front \in Seq(S) /\ front # <<>> /\ front[1] = r.command
    BY <1>3, <2>1, <2>2, <2>3
  <2>6. LET front == <<r.command>> \o named \o target
        IN  front \in Seq(S) /\ front # <<>> /\ front[1] = r.command
    BY <2>1, <2>3, <2>5
  <2>7. QED
    BY <1>2, <2>1, <2>4, <2>6
<1>6. Len(Written(r)) \in Nat /\ (Len(Written(r)) > 0 => Written(r) # <<>>)
  BY <1>4
<1>7. QED
  BY <1>1, <1>4, <1>5, <1>6

\* The same for this invocation.
LEMMA WordsAreWords ==
    ASSUME IsFlagPrefix(prefix), IsRequest(request)
    PROVE  \E S : /\ prefix \in Seq(S) /\ Written(request) \in Seq(S)
                  /\ Words \in Seq(S)
                  /\ Len(Words) = Len(prefix) + Len(Written(request))
                  /\ \A i \in 1..Len(prefix) : Words[i] = prefix[i]
                  /\ Len(prefix) < Len(Words) =>
                        Words[Len(prefix) + 1] = request.command
  BY WordsOf DEF Words

\* Before the first word nothing was asked for.
LEMMA Start ==
    ASSUME IsFlagPrefix(prefix), IsRequest(request), argv = Words,
           sel = NoSelection
    PROVE  Understood(0)
<1>1. Understood(0)!1
  <2>1. PICK S : Words \in Seq(S)
    BY WordsAreWords
  <2>2. QED
    BY <2>1, Drop
<1>2. FormatsIn(0) = {} /\ LevelsIn(0) = {}
  BY DEF FormatsIn, LevelsIn
<1>3. QED
  BY <1>1, <1>2 DEF Understood, NoSelection, Only

(* Where the loop is, as long as it understands: the flags are those of    *)
(* the prefix, and it stops before the command.                            *)
LEMMA Place ==
    ASSUME IsFlagPrefix(prefix), IsRequest(request),
           NEW k \in 0..Len(prefix), Understood(k)
    PROVE  /\ argv # <<>> /\ argv[1] \in GlobalFlags
                 => k < Len(prefix) /\ argv[1] = prefix[k + 1]
           /\ argv # <<>> => Len(argv) \in Nat \ {0}
           /\ k < Len(prefix) => /\ argv # <<>> /\ argv[1] = prefix[k + 1]
                                 /\ argv[1] \in GlobalFlags
                                 /\ argv[1] = "--" => k + 1 = Len(prefix)
           /\ k + 1 < Len(prefix) => Len(argv) > 1 /\ argv[2] = prefix[k + 2]
           /\ k + 1 = Len(prefix) /\ Len(argv) > 1 => argv[2] \notin Levels
           /\ k = Len(prefix) => argv = Written(request)
           /\ k < Len(prefix) =>
                 SubSeq(argv, 2, Len(argv)) = SubSeq(Words, k + 2, Len(Words))
           /\ k + 1 < Len(prefix) =>
                 SubSeq(argv, 3, Len(argv)) = SubSeq(Words, k + 3, Len(Words))
<1>1. PICK S : /\ prefix \in Seq(S) /\ Written(request) \in Seq(S)
               /\ Words \in Seq(S)
               /\ Len(Words) = Len(prefix) + Len(Written(request))
               /\ \A i \in 1..Len(prefix) : Words[i] = prefix[i]
               /\ Len(prefix) < Len(Words) =>
                     Words[Len(prefix) + 1] = request.command
  BY WordsAreWords
<1>2. /\ Len(prefix) \in Nat /\ Len(Words) \in Nat /\ Len(prefix) <= Len(Words)
      /\ k \in 0..Len(Words)
  BY <1>1
<1>3. argv = SubSeq(Words, k + 1, Len(Words))
  BY DEF Understood
<1>4. /\ argv \in Seq(S) /\ Len(argv) = Len(Words) - k
      /\ \A i \in 1..Len(argv) : argv[i] = Words[k + i]
  <2>1. 0 \in 0..(Len(Words) - k)
    BY <1>2
  <2>2. QED
    BY <1>1, <1>2, <1>3, <2>1, Drop
<1>5. argv # <<>> => Len(argv) \in Nat \ {0}
  BY <1>4, EmptySeq
<1>6. ASSUME argv # <<>>, argv[1] \in GlobalFlags
      PROVE  k < Len(prefix) /\ argv[1] = prefix[k + 1]
  <2>1. argv[1] = Words[k + 1] /\ k < Len(Words)
    BY <1>2, <1>4, <1>5, <1>6
  <2>2. k # Len(prefix)
    BY <1>1, <1>6, <2>1 DEF IsRequest
  <2>3. QED
    BY <1>1, <2>1, <2>2
<1>7. ASSUME k < Len(prefix)
      PROVE  /\ argv # <<>> /\ argv[1] = prefix[k + 1]
             /\ argv[1] \in GlobalFlags /\ (argv[1] = "--" => k + 1 = Len(prefix))
  <2>1. argv # <<>> /\ argv[1] = prefix[k + 1]
    <3>1. Len(argv) > 0
      BY <1>1, <1>2, <1>4, <1>7
    <3>2. argv # <<>>
      BY <3>1
    <3>3. argv[1] = Words[k + 1]
      BY <1>4, <3>1
    <3>4. k + 1 \in 1..Len(prefix)
      BY <1>2, <1>7
    <3>5. Words[k + 1] = prefix[k + 1]
      BY <1>1, <3>4
    <3>6. QED
      BY <3>2, <3>3, <3>5
  <2>2. k + 1 \in DOMAIN prefix
    BY <1>1, <1>7
  <2>3. prefix[k + 1] = "--" => k + 1 = Len(prefix)
    BY <2>2 DEF IsFlagPrefix
  <2>4. prefix[k + 1] \in GlobalFlags
    <3>1. SUFFICES ASSUME prefix[k + 1] \notin GlobalFlags PROVE FALSE
      OBVIOUS
    <3>2. k + 1 > 1 /\ prefix[k] \in {"--detail-level", "--shape"}
      BY <2>2, <3>1 DEF IsFlagPrefix
    <3>3. k \in 1..k
      BY <3>2
    <3>4. ~(k < k)
      BY <1>2
    <3>5. QED
      BY <3>2, <3>3, <3>4 DEF Understood
  <2>5. QED
    BY <2>1, <2>3, <2>4
<1>8. ASSUME k + 1 < Len(prefix) PROVE Len(argv) > 1 /\ argv[2] = prefix[k + 2]
  <2>1. Len(argv) > 1
    BY <1>2, <1>4, <1>8
  <2>2. argv[2] = Words[k + 2]
    BY <1>4, <2>1
  <2>3. k + 2 \in 1..Len(prefix)
    BY <1>2, <1>8
  <2>4. QED
    BY <1>1, <2>1, <2>2, <2>3
<1>9. k + 1 = Len(prefix) /\ Len(argv) > 1 => argv[2] \notin Levels
  <2>1. SUFFICES ASSUME k + 1 = Len(prefix), Len(argv) > 1
                 PROVE  argv[2] = request.command
    BY DEF IsRequest
  <2>2. argv[2] = Words[k + 2] /\ Len(prefix) < Len(Words)
    BY <1>2, <1>4, <2>1
  <2>3. k + 2 = Len(prefix) + 1
    BY <1>2, <2>1
  <2>4. QED
    BY <1>1, <2>2, <2>3
<1>10. k = Len(prefix) => argv = Written(request)
  BY <1>1, <1>3 DEF Words
<1>11. k < Len(prefix) =>
          SubSeq(argv, 2, Len(argv)) = SubSeq(Words, k + 2, Len(Words))
  <2>1. SUFFICES ASSUME k < Len(prefix)
                 PROVE  SubSeq(argv, 2, Len(argv)) = SubSeq(Words, k + 2, Len(Words))
    OBVIOUS
  <2>2. 1 \in 0..(Len(Words) - k)
    BY <1>1, <2>1
  <2>3. SubSeq(argv, 1 + 1, Len(argv)) = SubSeq(Words, k + 1 + 1, Len(Words))
    BY <1>1, <1>2, <1>3, <2>2, Drop
  <2>4. k + 1 + 1 = k + 2
    BY <1>2
  <2>5. QED
    BY <2>3, <2>4
<1>12. k + 1 < Len(prefix) =>
          SubSeq(argv, 3, Len(argv)) = SubSeq(Words, k + 3, Len(Words))
  <2>1. SUFFICES ASSUME k + 1 < Len(prefix)
                 PROVE  SubSeq(argv, 3, Len(argv)) = SubSeq(Words, k + 3, Len(Words))
    OBVIOUS
  <2>2. 2 \in 0..(Len(Words) - k)
    BY <1>1, <2>1
  <2>3. SubSeq(argv, 2 + 1, Len(argv)) = SubSeq(Words, k + 2 + 1, Len(Words))
    BY <1>1, <1>2, <1>3, <2>2, Drop
  <2>4. k + 2 + 1 = k + 3
    BY <1>2
  <2>5. QED
    BY <2>3, <2>4
<1>13. QED
  BY <1>5, <1>6, <1>7, <1>8, <1>9, <1>10, <1>11, <1>12

\* The words of process/argv.py, written out.
LEMMA FlagWords ==
    /\ DOMAIN FormatOf = {"--json", "--yaml"}
    /\ FormatOf["--json"] = "jsonl" /\ FormatOf["--yaml"] = "yaml"
    /\ DOMAIN LevelOf = {"--basic", "--more", "--max"}
    /\ LevelOf["--basic"] = "basic" /\ LevelOf["--more"] = "more"
    /\ LevelOf["--max"] = "max"
    /\ Levels = {"basic", "more", "max"}
    /\ GlobalFlags = {"--json", "--yaml", "--basic", "--more", "--max", "--",
                      "--detail", "--shape", "--detail-level"}
<1>1. /\ DOMAIN FormatOf = {"--json", "--yaml"}
      /\ FormatOf["--json"] = "jsonl" /\ FormatOf["--yaml"] = "yaml"
  BY DEF FormatOf
<1>2. /\ DOMAIN LevelOf = {"--basic", "--more", "--max"}
      /\ LevelOf["--basic"] = "basic" /\ LevelOf["--more"] = "more"
      /\ LevelOf["--max"] = "max"
  BY DEF LevelOf
<1>3. Levels = {"basic", "more", "max"}
  BY <1>2 DEF Levels, Range
<1>4. QED
  BY <1>1, <1>2, <1>3 DEF GlobalFlags

\* What one more word of the prefix adds to what is asked for.
LEMMA Grow ==
    ASSUME NEW k \in 0..(Len(prefix) - 1), Len(prefix) \in Nat
    PROVE  LET w == prefix[k + 1]
           IN  /\ FormatsIn(k + 1) = FormatsIn(k) \cup
                     (IF w \in DOMAIN FormatOf THEN {FormatOf[w]} ELSE {})
               /\ LevelsIn(k + 1) = LevelsIn(k) \cup
                     (IF w \in DOMAIN LevelOf THEN {LevelOf[w]} ELSE {}) \cup
                     (IF w = "--detail-level" THEN {prefix[k + 2]} ELSE {})
<1>1. /\ \A i \in Int : i \in 1..(k + 1) <=> i \in 1..k \/ i = k + 1
      /\ 1..k \subseteq Int /\ 1..(k + 1) \subseteq Int /\ k + 1 + 1 = k + 2
  OBVIOUS
<1> DEFINE n == k + 1
<1>2. n \in Int /\ n = k + 1
  OBVIOUS
<1> HIDE DEF n
<1>3. FormatsIn(n) = FormatsIn(k) \cup
          (IF prefix[n] \in DOMAIN FormatOf THEN {FormatOf[prefix[n]]} ELSE {})
  BY <1>1, <1>2 DEF FormatsIn
<1>4. LevelsIn(n) = LevelsIn(k) \cup
          (IF prefix[n] \in DOMAIN LevelOf THEN {LevelOf[prefix[n]]} ELSE {}) \cup
          (IF prefix[n] = "--detail-level" THEN {prefix[n + 1]} ELSE {})
  BY <1>1, <1>2 DEF LevelsIn
<1>5. QED
  BY <1>1, <1>2, <1>3, <1>4

\* What the first words ask for is asked for by all.
LEMMA Within ==
    ASSUME NEW k \in 0..Len(prefix), Len(prefix) \in Nat
    PROVE  /\ FormatsIn(k) \subseteq FormatsIn(Len(prefix))
           /\ LevelsIn(k) \subseteq LevelsIn(Len(prefix))
<1>1. 1..k \subseteq 1..Len(prefix)
  OBVIOUS
<1>2. QED
  BY <1>1 DEF FormatsIn, LevelsIn

\* No format and no level is the absence of one.
LEMMA Unnamed ==
    Unset \notin {"jsonl", "yaml", "basic", "more", "max"}
  BY UnsetAssumption, FlagWords DEF Range

(* A selection that is named again: by the same word it stays, by another  *)
(* the prefix contradicts itself.                                          *)
LEMMA Joined ==
    ASSUME NEW old, NEW v, NEW w, Only(old, v), w # Unset
    PROVE  /\ v \in {Unset, w} => Only(old \cup {w}, w)
           /\ v \notin {Unset, w} => \E a, b \in old \cup {w} : a # b
  BY DEF Only

\* What the flag loop leaves alone.
Keeping == UNCHANGED <<prefix, request, store>>

\* The loop changes neither the prefix nor the request.
LEMMA FlagsKeepInput ==
    ASSUME InputInv, ReadFlags
    PROVE  InputInv' /\ Keeping
<1>1. Keeping
  BY DEF ReadFlags, EndOfFlags, DoubleDash, UnsupportedFlag, DetailFlag,
         DetailLevel, FormatFlag, Consume, Keeping
<1>2. /\ sel' = [format |-> sel'.format, level |-> sel'.level, error |-> sel'.error]
      /\ sel'.error \in BOOLEAN
      /\ sel.error => sel'.error
  BY DEF ReadFlags, EndOfFlags, DoubleDash, UnsupportedFlag, DetailFlag,
         DetailLevel, FormatFlag, Consume, InputInv, WithLevel
<1>3. QED
  BY <1>1, <1>2 DEF InputInv, Keeping

\* What was misunderstood stays so.
LEMMA OnceMisunderstood ==
    ASSUME InputInv, ReadFlags
    PROVE  /\ sel.error => sel'.error
           /\ pc = "flags" /\ pc' \in {"flags", "prepare"}
           /\ Keeping /\ (Misunderstood' <=> Misunderstood)
<1>1. Keeping
  BY FlagsKeepInput
<1>2. sel.error => sel'.error
  BY DEF ReadFlags, EndOfFlags, DoubleDash, UnsupportedFlag, DetailFlag,
         DetailLevel, FormatFlag, Consume, InputInv, WithLevel
<1>3. pc = "flags" /\ pc' \in {"flags", "prepare"}
  BY DEF ReadFlags, EndOfFlags, DoubleDash, UnsupportedFlag, DetailFlag,
         DetailLevel, FormatFlag, Consume, Looking
<1>4. QED
  BY <1>1, <1>2, <1>3 DEF Keeping, Misunderstood, FormatsIn, LevelsIn

\* A level is selected by its flag or by the word behind --detail-level.
LEMMA LevelNamed ==
    ASSUME InputInv, NEW k \in 0..Len(prefix), NEW n \in 0..Len(prefix), k < n,
           Len(prefix) \in Nat, Understood(k), ~sel.error,
           NEW l \in Levels, sel' = WithLevel(l), Keeping,
           argv' = SubSeq(Words, n + 1, Len(Words)),
           FormatsIn(n) = FormatsIn(k), LevelsIn(n) = LevelsIn(k) \cup {l},
           \A i \in 1..n : prefix[i] \notin {"--detail", "--shape"},
           \A i \in 1..n : prefix[i] = "--detail-level" =>
              i < n /\ prefix[i + 1] \in Levels
    PROVE  IF sel'.error THEN Misunderstood ELSE Understood(n)'
<1>1. l # Unset
  BY Unnamed, FlagWords
<1>2. Only(LevelsIn(k), sel.level) /\ Only(FormatsIn(k), sel.format)
  BY DEF Understood
<1>3. /\ sel'.error <=> sel.level \notin {Unset, l}
      /\ sel'.format = sel.format
      /\ sel.level \in {Unset, l} => sel'.level = l
  BY DEF InputInv, WithLevel
<1>4. ASSUME sel.level \in {Unset, l} PROVE Understood(n)'
  <2>1. Only(LevelsIn(n), sel'.level) /\ Only(FormatsIn(n), sel'.format)
    BY <1>1, <1>2, <1>3, <1>4, Joined
  <2>2. /\ FormatsIn(n)' = FormatsIn(n) /\ LevelsIn(n)' = LevelsIn(n)
        /\ Words' = Words
    BY DEF FormatsIn, LevelsIn, Keeping, Words, Written
  <2>3. QED
    BY <2>1, <2>2 DEF Understood, Keeping, Only
<1>5. ASSUME sel.level \notin {Unset, l} PROVE Misunderstood
  <2>1. sel.level \in LevelsIn(n) /\ l \in LevelsIn(n) /\ sel.level # l
    BY <1>2, <1>5 DEF Only
  <2>2. QED
    BY <2>1, Within DEF Misunderstood
<1>6. QED
  BY <1>3, <1>4, <1>5

(* The flag loop keeps what it selects equal to what the words it has read *)
(* say, or the prefix is one it has to refuse.                             *)
LEMMA FlagsStep ==
    ASSUME InputInv, FlagsInv, ReadFlags
    PROVE  FlagsInv'
<1>1. /\ pc = "flags" /\ pc' \in {"flags", "prepare"} /\ Keeping
      /\ Misunderstood' <=> Misunderstood
      /\ sel.error => sel'.error
  BY OnceMisunderstood
<1>2. CASE sel.error
  BY <1>1, <1>2 DEF FlagsInv
<1>3. CASE ~sel.error
  <2>1. PICK k \in 0..Len(prefix) : Understood(k)
    BY <1>1, <1>3 DEF FlagsInv
  <2>2. SUFFICES IF sel'.error THEN Misunderstood
                 ELSE \E n \in 0..Len(prefix) :
                         Understood(n)' /\ (pc' = "prepare" => n = Len(prefix))
    BY <1>1 DEF FlagsInv, Keeping
  <2>3. Len(prefix) \in Nat /\ IsFlagPrefix(prefix) /\ IsRequest(request)
    BY DEF InputInv, IsFlagPrefix
  <2>4. /\ argv # <<>> /\ argv[1] \in GlobalFlags
              => k < Len(prefix) /\ argv[1] = prefix[k + 1]
        /\ argv # <<>> => Len(argv) \in Nat \ {0}
        /\ k < Len(prefix) => /\ argv # <<>> /\ argv[1] = prefix[k + 1]
                              /\ argv[1] \in GlobalFlags
                              /\ argv[1] = "--" => k + 1 = Len(prefix)
        /\ k + 1 < Len(prefix) => Len(argv) > 1 /\ argv[2] = prefix[k + 2]
        /\ k + 1 = Len(prefix) /\ Len(argv) > 1 => argv[2] \notin Levels
        /\ k = Len(prefix) => argv = Written(request)
        /\ k < Len(prefix) =>
              SubSeq(argv, 2, Len(argv)) = SubSeq(Words, k + 2, Len(Words))
        /\ k + 1 < Len(prefix) =>
              SubSeq(argv, 3, Len(argv)) = SubSeq(Words, k + 3, Len(Words))
    BY <2>1, <2>3, Place
  <2>5. /\ \A i \in 1..k : prefix[i] \notin {"--detail", "--shape"}
        /\ \A i \in 1..k : prefix[i] = "--detail-level" =>
              i < k /\ prefix[i + 1] \in Levels
        /\ Only(FormatsIn(k), sel.format) /\ Only(LevelsIn(k), sel.level)
    BY <2>1 DEF Understood
  <2>6. \A n \in 0..Len(prefix) :
           /\ FormatsIn(n)' = FormatsIn(n) /\ LevelsIn(n)' = LevelsIn(n)
           /\ Words' = Words
    BY <1>1 DEF FormatsIn, LevelsIn, Keeping, Words, Written
  <2>7. CASE EndOfFlags
    <3>1. k = Len(prefix)
      <4>1. argv # <<>> => argv[1] \notin GlobalFlags
        BY <2>7 DEF EndOfFlags
      <4>2. ~(k < Len(prefix))
        BY <2>4, <4>1
      <4>3. QED
        BY <2>3, <4>2
    <3>2. UNCHANGED <<argv, sel>>
      BY <2>7 DEF EndOfFlags
    <3>3. Understood(k)'
      BY <1>1, <2>1, <2>6, <3>2 DEF Understood, Keeping, Only
    <3>4. QED
      BY <1>3, <3>1, <3>2, <3>3
  <2>8. ASSUME k < Len(prefix)
        PROVE  /\ k \in 0..(Len(prefix) - 1) /\ k + 1 \in 1..Len(prefix)
               /\ k < k + 1 /\ k + 1 \in 0..Len(prefix)
               /\ \A i \in 1..(k + 1) : i \in 1..k \/ i = k + 1
    BY <2>3, <2>8
  <2>9. CASE DoubleDash
    <3>1. k < Len(prefix) /\ argv[1] = "--" /\ argv # <<>> /\ Len(argv) \in Nat \ {0}
      BY <2>4, <2>9, FlagWords DEF DoubleDash, Looking
    <3>2. k + 1 = Len(prefix) /\ prefix[k + 1] = "--"
      BY <2>4, <3>1
    <3>3. argv' = SubSeq(Words, k + 1 + 1, Len(Words)) /\ sel' = sel
      <4>1. Tail(argv) = SubSeq(argv, 2, Len(argv))
        BY <3>1
      <4>2. k + 1 + 1 = k + 2
        BY <2>3
      <4>3. QED
        BY <2>4, <2>9, <3>1, <4>1, <4>2 DEF DoubleDash
    <3>4. FormatsIn(k + 1) = FormatsIn(k) /\ LevelsIn(k + 1) = LevelsIn(k)
      BY <2>3, <2>8, <3>1, <3>2, Grow, FlagWords, ZenonT(60)
    <3>5. Understood(k + 1)'
      BY <1>1, <2>5, <2>6, <2>8, <3>1, <3>2, <3>3, <3>4
         DEF Understood, Keeping, Only
    <3>6. QED
      BY <1>3, <2>8, <3>1, <3>2, <3>3, <3>5
  <2>10. CASE UnsupportedFlag
    <3>1. k < Len(prefix) /\ prefix[k + 1] \in {"--detail", "--shape"}
      BY <2>4, <2>10, FlagWords DEF UnsupportedFlag, Looking
    <3>2. sel'.error
      BY <2>10 DEF UnsupportedFlag, InputInv
    <3>3. QED
      BY <2>8, <3>1, <3>2 DEF Misunderstood
  <2>11. CASE DetailFlag
    <3>1. k < Len(prefix) /\ prefix[k + 1] = argv[1] /\ argv[1] \in DOMAIN LevelOf
      BY <2>4, <2>11, FlagWords DEF DetailFlag, Looking
    <3> DEFINE l == LevelOf[argv[1]]
    <3>2. l \in Levels /\ sel' = WithLevel(l)
      BY <2>11, <3>1, FlagWords DEF DetailFlag
    <3>3. argv' = SubSeq(Words, k + 1 + 1, Len(Words)) /\ pc' = pc
      <4>1. k + 1 + 1 = k + 2 /\ 1 + 1 = 2
        BY <2>3
      <4>2. QED
        BY <2>4, <2>11, <3>1, <4>1 DEF DetailFlag, Consume
    <3>4. FormatsIn(k + 1) = FormatsIn(k) /\ LevelsIn(k + 1) = LevelsIn(k) \cup {l}
      BY <2>3, <2>8, <3>1, Grow, FlagWords
    <3> HIDE DEF l
    <3>5. /\ \A i \in 1..(k + 1) : prefix[i] \notin {"--detail", "--shape"}
          /\ \A i \in 1..(k + 1) : prefix[i] = "--detail-level" =>
                i < k + 1 /\ prefix[i + 1] \in Levels
      BY <2>3, <2>5, <2>8, <3>1, FlagWords
    <3>6. IF sel'.error THEN Misunderstood ELSE Understood(k + 1)'
      BY <1>1, <1>3, <2>1, <2>3, <2>8, <3>1, <3>2, <3>3, <3>4, <3>5, LevelNamed
    <3>7. QED
      BY <1>1, <2>8, <3>1, <3>3, <3>6
  <2>12. CASE DetailLevel
    <3>1. k < Len(prefix) /\ prefix[k + 1] = "--detail-level" /\ argv # <<>>
      BY <2>4, <2>12, FlagWords DEF DetailLevel, Looking
    <3>2. CASE Len(argv) > 1 /\ argv[2] \in Levels
      <4>1. k + 1 < Len(prefix) /\ argv[2] = prefix[k + 2]
        BY <2>3, <2>4, <3>1, <3>2
      <4>2. /\ k + 1 \in 0..(Len(prefix) - 1) /\ k + 1 + 1 = k + 2
            /\ k + 2 \in 0..Len(prefix) /\ k < k + 2 /\ k + 2 + 1 = k + 3
            /\ \A i \in 1..(k + 2) : i \in 1..k \/ i = k + 1 \/ i = k + 2
            /\ \A i \in 1..k : i < k => i < k + 2
            /\ k + 1 < k + 2
        BY <2>3, <4>1
      <4>3. sel' = WithLevel(argv[2]) /\ pc' = pc
            /\ argv' = SubSeq(Words, k + 2 + 1, Len(Words))
        <5>1. argv' = SubSeq(argv, 2 + 1, Len(argv))
          BY <2>12, <3>2 DEF DetailLevel, Consume
        <5>2. 2 + 1 = 3
          OBVIOUS
        <5>3. QED
          BY <2>4, <2>12, <3>2, <4>1, <4>2, <5>1, <5>2 DEF DetailLevel, Consume
      <4>4. FormatsIn(k + 1) = FormatsIn(k)
            /\ LevelsIn(k + 1) = LevelsIn(k) \cup {argv[2]}
        BY <2>3, <2>8, <3>1, <4>1, Grow, FlagWords
      <4>5. FormatsIn(k + 2) = FormatsIn(k)
            /\ LevelsIn(k + 2) = LevelsIn(k) \cup {argv[2]}
        <5>1. prefix[k + 2] \in Levels
          BY <3>2, <4>1
        <5>2. FormatsIn(k + 1 + 1) = FormatsIn(k + 1)
              /\ LevelsIn(k + 1 + 1) = LevelsIn(k + 1)
          BY <2>3, <4>2, <5>1, Grow, FlagWords, ZenonT(60)
        <5>3. QED
          BY <4>2, <4>4, <5>2
      <4>6. /\ \A i \in 1..(k + 2) : prefix[i] \notin {"--detail", "--shape"}
            /\ \A i \in 1..(k + 2) : prefix[i] = "--detail-level" =>
                  i < k + 2 /\ prefix[i + 1] \in Levels
        BY <2>3, <2>5, <3>1, <3>2, <4>1, <4>2, FlagWords
      <4>7. IF sel'.error THEN Misunderstood ELSE Understood(k + 2)'
        BY <1>1, <1>3, <2>1, <2>3, <3>2, <4>2, <4>3, <4>5, <4>6, LevelNamed
      <4>8. QED
        BY <1>1, <4>2, <4>3, <4>7
    <3>3. CASE ~(Len(argv) > 1 /\ argv[2] \in Levels)
      <4>1. sel'.error
        BY <2>12, <3>3 DEF DetailLevel, InputInv
      <4>2. k + 1 < Len(prefix) => prefix[k + 1 + 1] \notin Levels
        <5>1. k + 1 + 1 = k + 2
          BY <2>3
        <5>2. QED
          BY <2>4, <3>3, <5>1
      <4>3. QED
        BY <2>8, <3>1, <4>1, <4>2 DEF Misunderstood
    <3>4. QED
      BY <3>2, <3>3
  <2>13. CASE FormatFlag
    <3>1. k < Len(prefix) /\ prefix[k + 1] = argv[1] /\ argv[1] \in DOMAIN FormatOf
      BY <2>4, <2>13, FlagWords DEF FormatFlag, Looking
    <3> DEFINE f == FormatOf[argv[1]]
    <3>2. f # Unset
      BY <3>1, FlagWords, Unnamed
    <3>3. /\ sel'.error <=> sel.format \notin {Unset, f}
          /\ sel.format \in {Unset, f} => sel'.format = f
          /\ sel'.level = sel.level
      BY <1>3, <2>13 DEF FormatFlag, InputInv
    <3>4. argv' = SubSeq(Words, k + 1 + 1, Len(Words)) /\ pc' = pc
      <4>1. k + 1 + 1 = k + 2 /\ 1 + 1 = 2
        BY <2>3
      <4>2. QED
        BY <2>4, <2>13, <3>1, <4>1 DEF FormatFlag, Consume
    <3>5. FormatsIn(k + 1) = FormatsIn(k) \cup {f} /\ LevelsIn(k + 1) = LevelsIn(k)
      BY <2>3, <2>8, <3>1, Grow, FlagWords
    <3> HIDE DEF f
    <3>6. /\ \A i \in 1..(k + 1) : prefix[i] \notin {"--detail", "--shape"}
          /\ \A i \in 1..(k + 1) : prefix[i] = "--detail-level" =>
                i < k + 1 /\ prefix[i + 1] \in Levels
      BY <2>3, <2>5, <2>8, <3>1, FlagWords
    <3>7. ASSUME sel.format \in {Unset, f} PROVE Understood(k + 1)'
      <4>1. Only(FormatsIn(k + 1), sel'.format)
        BY <2>5, <3>2, <3>3, <3>5, <3>7, Joined
      <4>2. QED
        BY <1>1, <2>5, <2>6, <2>8, <3>1, <3>3, <3>4, <3>5, <3>6, <4>1
           DEF Understood, Keeping, Only
    <3>8. ASSUME sel.format \notin {Unset, f} PROVE Misunderstood
      <4>1. /\ sel.format \in FormatsIn(k + 1) /\ f \in FormatsIn(k + 1)
            /\ sel.format # f
        BY <2>5, <3>5, <3>8 DEF Only
      <4>2. QED
        BY <2>3, <2>8, <3>1, <3>5, <4>1, Within DEF Misunderstood
    <3>9. QED
      BY <1>1, <2>8, <3>1, <3>3, <3>4, <3>7, <3>8
  <2>14. QED
    BY <2>7, <2>9, <2>10, <2>11, <2>12, <2>13 DEF ReadFlags
<1>4. QED
  BY <1>2, <1>3 DEF InputInv

\* At most one, counted or compared.
LEMMA AtMostOne ==
    ASSUME NEW S, IsFiniteSet(S)
    PROVE  Cardinality(S) <= 1 <=> \A a, b \in S : a = b
<1>1. ASSUME NEW a \in S, NEW b \in S, a # b PROVE ~(Cardinality(S) <= 1)
  <2>1. IsFiniteSet({a}) /\ Cardinality({a}) = 1
    BY FS_Singleton
  <2>2. {a} \subseteq S /\ {a} # S
    BY <1>1
  <2>3. Cardinality({a}) < Cardinality(S)
    BY <2>2, FS_Subset, <2>1, FS_CardinalityType
  <2>4. QED
    BY <2>1, <2>3, FS_CardinalityType
<1>2. ASSUME \A a, b \in S : a = b PROVE Cardinality(S) <= 1
  <2>1. CASE S = {}
    BY <2>1, FS_EmptySet
  <2>2. CASE S # {}
    <3>1. PICK a : S = {a}
      BY <1>2, <2>2
    <3>2. QED
      BY <3>1, FS_Singleton
  <2>3. QED
    BY <2>1, <2>2
<1>3. QED
  BY <1>1, <1>2

\* There are finitely many formats and levels.
LEMMA FewFlagValues ==
    /\ IsFiniteSet({"jsonl", "yaml"}) /\ IsFiniteSet({"basic", "more", "max"})
<1>1. IsFiniteSet({"yaml"}) /\ IsFiniteSet({"max"})
  BY FS_Singleton
<1>2. {"yaml"} \cup {"jsonl"} = {"jsonl", "yaml"}
      /\ {"max"} \cup {"more"} \cup {"basic"} = {"basic", "more", "max"}
  OBVIOUS
<1>3. IsFiniteSet({"yaml"} \cup {"jsonl"}) /\ IsFiniteSet({"max"} \cup {"more"})
  BY <1>1, FS_AddElement
<1>4. IsFiniteSet({"max"} \cup {"more"} \cup {"basic"})
  BY <1>3, FS_AddElement
<1>5. QED
  BY <1>2, <1>3, <1>4

\* At the end of the loop the selection is what PrefixIsUnambiguous says.
LEMMA PrefixRead ==
    ASSUME InputInv, FlagsInv
    PROVE  PrefixIsUnambiguous
<1> SUFFICES ASSUME pc = "prepare" PROVE PrefixIsUnambiguous
  BY DEF PrefixIsUnambiguous
<1> DEFINE formats  == {FormatOf[w] : w \in Range(prefix) \cap DOMAIN FormatOf}
           behind   == {i \in DOMAIN prefix : prefix[i] = "--detail-level"}
           levelled == \A i \in behind : i < Len(prefix) /\ prefix[i + 1] \in Levels
           levels   == {LevelOf[w] : w \in Range(prefix) \cap DOMAIN LevelOf}
                          \cup {prefix[i + 1] : i \in behind \ {Len(prefix)}}
           known    == Range(prefix) \cap {"--detail", "--shape"} = {}
<1>1. DOMAIN prefix = 1..Len(prefix) /\ Len(prefix) \in Nat
      /\ Range(prefix) = {prefix[i] : i \in 1..Len(prefix)}
      /\ IsFlagPrefix(prefix) /\ IsRequest(request)
  BY DEF InputInv, IsFlagPrefix, Range
<1>2. formats = FormatsIn(Len(prefix))
  BY <1>1 DEF FormatsIn
<1>3. ASSUME levelled PROVE levels = LevelsIn(Len(prefix)) /\ levels \subseteq Levels
  <2>1. behind \ {Len(prefix)} = behind
        /\ behind = {i \in 1..Len(prefix) : prefix[i] = "--detail-level"}
    <3>1. Len(prefix) \notin behind
      <4>1. ~(Len(prefix) < Len(prefix))
        BY <1>1
      <4>2. QED
        BY <1>3, <4>1
    <3>2. behind = {i \in 1..Len(prefix) : prefix[i] = "--detail-level"}
      BY <1>1
    <3>3. QED
      BY <3>1, <3>2
  <2>2. {LevelOf[w] : w \in Range(prefix) \cap DOMAIN LevelOf}
           = {LevelOf[prefix[i]] : i \in {i \in 1..Len(prefix) : prefix[i] \in DOMAIN LevelOf}}
    BY <1>1
  <2>3. levels = LevelsIn(Len(prefix))
    BY <2>1, <2>2 DEF LevelsIn
  <2>4. QED
    BY <1>3, <2>1, <2>3, FlagWords
<1>4. formats \subseteq {"jsonl", "yaml"}
  BY FlagWords
<1>5. Cardinality(formats) <= 1 <=> \A a, b \in formats : a = b
  BY <1>4, FewFlagValues, FS_Subset, AtMostOne
<1>6. levelled => (Cardinality(levels) <= 1 <=> \A a, b \in levels : a = b)
  <2>1. ASSUME levelled PROVE IsFiniteSet(levels)
    BY <1>3, <2>1, FlagWords, FewFlagValues, FS_Subset
  <2>2. QED
    BY <2>1, AtMostOne
<1>7. ASSUME sel.error
      PROVE  ~(known /\ levelled /\ Cardinality(formats) <= 1 /\ Cardinality(levels) <= 1)
  <2>1. Misunderstood
    BY <1>7 DEF FlagsInv
  <2>2. CASE \E i \in 1..Len(prefix) : prefix[i] \in {"--detail", "--shape"}
    BY <1>1, <2>2
  <2>3. CASE \E i \in 1..Len(prefix) : prefix[i] = "--detail-level"
                /\ (i < Len(prefix) => prefix[i + 1] \notin Levels)
    BY <1>1, <2>3
  <2>4. CASE \E f, g \in FormatsIn(Len(prefix)) : f # g
    BY <1>2, <1>5, <2>4
  <2>5. CASE \E l, m \in LevelsIn(Len(prefix)) : l # m
    BY <1>3, <1>6, <2>5
  <2>6. QED
    BY <2>1, <2>2, <2>3, <2>4, <2>5 DEF Misunderstood
<1>8. ASSUME ~sel.error
      PROVE  /\ known /\ levelled /\ Cardinality(formats) <= 1 /\ Cardinality(levels) <= 1
             /\ argv = Written(request)
             /\ Only(formats, sel.format) /\ Only(levels, sel.level)
  <2>1. Len(prefix) \in 0..Len(prefix) /\ Understood(Len(prefix))
    BY <1>1, <1>8 DEF FlagsInv
  <2>2. argv = Written(request)
    BY <1>1, <2>1, Place
  <2>3. known /\ levelled
    BY <1>1, <2>1 DEF Understood
  <2>4. Only(formats, sel.format) /\ Only(levels, sel.level)
    BY <1>2, <1>3, <2>1, <2>3 DEF Understood
  <2>5. (\A a, b \in formats : a = b) /\ (\A a, b \in levels : a = b)
    BY <2>4 DEF Only
  <2>6. QED
    BY <1>5, <1>6, <2>2, <2>3, <2>4, <2>5
<1> HIDE DEF formats, levels, known, levelled
<1>9. /\ ~sel.error <=> known /\ levelled /\ Cardinality(formats) <= 1
                          /\ Cardinality(levels) <= 1
      /\ ~sel.error => /\ argv = Written(request)
                       /\ Only(formats, sel.format) /\ Only(levels, sel.level)
  BY <1>7, <1>8
<1>10. QED
  BY <1>9 DEF PrefixIsUnambiguous, formats, levels, known, levelled, behind, Only

-----------------------------------------------------------------------------
(* Answers: the part of the invariant each action preserves *)

\* What a shown answer says.
LEMMA Shown ==
    ASSUME NEW kind, Show(kind)
    PROVE  /\ answer'.kind = kind /\ answer'.why = Unset /\ answer'.moves = {}
           /\ pc' = "done" /\ UNCHANGED <<store, prefix, argv, request, previous>>
  BY DEF Show, Give, NoAnswer

\* What a refusal says.
LEMMA Refused ==
    ASSUME NEW why, NEW moves, Refuse(why, moves)
    PROVE  /\ answer'.kind = "refused" /\ answer'.why = why /\ answer'.moves = moves
           /\ pc' = "done" /\ UNCHANGED <<store, prefix, argv, request, previous>>
  BY DEF Refuse, Give, NoAnswer

\* A written request starts with its command.
LEMMA HeadOfWritten ==
    ASSUME IsFlagPrefix(prefix), IsRequest(request)
    PROVE  /\ Written(request) # <<>> => Written(request)[1] = request.command
           /\ Written(request) = <<>> => request.command = Unset
  BY WordsOf

\* The refusals that do not concern a reference.
LEMMA NotLost ==
    /\ Lost \cap {"configuration", "format", "flags", "command", "arguments",
                  "handle", "preflight"} = {}
    /\ Unset \notin Lost \cup Unread
  BY UnsetAssumption DEF Lost, Unread

(* Before the command is looked at: LoadFails, RefuseFormat and the        *)
(* refusal of the flags owe nothing to the reference.                      *)
LEMMA UnreadAnswers ==
    ASSUME NEW why \in Unread, Refuse(why, {})
    PROVE  Answered(store, request, answer')
  BY Refused, NotLost
     DEF Answered, RefusalFits, OffersFit, RefIsFound, ActionRan, SynonymsFit,
         ObjectObserved, Unread

\* The answer to no command at all.
LEMMA OrientAnswers ==
    ASSUME InputInv, RouteInv, Orient
    PROVE  Answered(store, request, answer')
<1>1. request.command \notin {"discover", "observe", "plan"}
  BY HeadOfWritten, UnsetAssumption DEF Orient, InputInv, RouteInv, Core
<1>2. Show("listing")
  BY DEF Orient
<1>3. /\ answer'.kind = "listing" /\ answer'.why = Unset /\ answer'.moves = {}
  BY <1>2, Shown
<1>4. QED
  BY <1>1, <1>3, NotLost, UnsetAssumption
     DEF Answered, RefusalFits, OffersFit, RefIsFound, ActionRan, SynonymsFit,
         ObjectObserved, Denotes, Observes

\* A command that is answered elsewhere.
LEMMA DelegateAnswers ==
    ASSUME InputInv, RouteInv, Delegate
    PROVE  Answered(store, request, answer')
<1>1. request.command \notin {"discover", "observe", "plan"}
  BY DEF Delegate, RouteInv
<1>2. Show("elsewhere")
  BY DEF Delegate
<1>3. /\ answer'.kind = "elsewhere" /\ answer'.why = Unset /\ answer'.moves = {}
  BY <1>2, Shown
<1>4. QED
  BY <1>1, <1>3, NotLost, UnsetAssumption
     DEF Answered, RefusalFits, OffersFit, RefIsFound, ActionRan, SynonymsFit,
         ObjectObserved, Denotes, Observes

\* The root of the graph is a request one can write.
LEMMA RootIsOffered == Offered(Root)
<1>1. "discover" \notin GlobalFlags \cup Levels
  BY FlagWords
<1>2. <<>> \in Seq(Range(<<>>))
  OBVIOUS
<1>3. QED
  BY <1>1, <1>2 DEF Offered, IsRequest, Root, Move

\* The refusal of a command that the configuration does not map.
LEMMA RefuseCommandAnswers ==
    ASSUME InputInv, RouteInv, RefuseCommand
    PROVE  Answered(store, request, answer')
<1>1. Refuse("command", {Root}) /\ argv = Written(request) /\ argv # <<>>
      /\ argv[1] \notin Accepted
  BY DEF RefuseCommand, RouteInv
<1>2. request.command \notin Accepted
  BY <1>1, HeadOfWritten DEF InputInv
<1>3. \A c \in {"discover", "observe"} : c = request.command => c \notin store.main \cap store.mapped
  BY <1>2 DEF Accepted, Core
<1>4. /\ answer'.kind = "refused" /\ answer'.why = "command" /\ answer'.moves = {Root}
  BY <1>1, Refused
<1>5. QED
  BY <1>3, <1>4, NotLost, UnsetAssumption, RootIsOffered
     DEF Answered, RefusalFits, OffersFit, RefIsFound, ActionRan, SynonymsFit,
         ObjectObserved, Denotes, Observes

\* A move with a reference and words is a request one can write.
LEMMA MoveIsOffered ==
    ASSUME NEW c \in {"discover", "observe"}, NEW f, f \in Seq(Range(f)), f # <<>>,
           NEW words, words \in Seq(Range(words)),
           c = "observe" => f = <<Result>>
    PROVE  Offered(Move(c, f, words))
<1>1. c \notin GlobalFlags \cup Levels
  BY FlagWords
<1>2. QED
  BY <1>1 DEF Offered, IsRequest, Move

\* References of one, two and three parts.
LEMMA References ==
    /\ \A a : <<a>> \in Seq(Range(<<a>>)) /\ <<a>> # <<>> /\ Len(<<a>>) = 1 /\ <<a>>[1] = a
    /\ \A a, b : /\ <<a, b>> \in Seq(Range(<<a, b>>)) /\ <<a, b>> # <<>>
                 /\ Len(<<a, b>>) = 2 /\ <<a, b>>[1] = a /\ <<a, b>>[2] = b
    /\ \A a, b, c : /\ <<a, b, c>> \in Seq(Range(<<a, b, c>>)) /\ <<a, b, c>> # <<>>
                    /\ Len(<<a, b, c>>) = 3 /\ <<a, b, c>>[1] = a
                    /\ <<a, b, c>>[2] = b /\ <<a, b, c>>[3] = c
    /\ <<>> \in Seq(Range(<<>>))
  BY DEF Range

(* The parts of a reference, as the program counts them and as the         *)
(* invariant does.                                                         *)
LEMMA PairOfParts ==
    ASSUME IsRequest(request)
    PROVE  /\ \A n : Parts(n) <=> Refers(request, n)
           /\ Parts(1) => ref = <<ref[1]>>
           /\ Parts(2) => ref = <<ref[1], ref[2]>>
           /\ Parts(3) => ref = <<ref[1], ref[2], ref[3]>>
           /\ args \in Seq(Range(args))
<1>1. \A n : Parts(n) <=> Refers(request, n)
  BY DEF Parts, Refers, ref
<1>2. args \in Seq(Range(args))
  BY DEF IsRequest, args
<1>3. ref # Unset => ref \in Seq(Range(ref))
  BY DEF IsRequest, ref
<1>4. QED
  BY <1>1, <1>2, <1>3 DEF Parts

\* What a configuration's names are: the loader's checks.
LEMMA Known ==
    ASSUME IsConfiguration(store)
    PROVE  /\ IsStore(store)
           /\ \A x \in store.actions :
                 /\ x.domain \in Domain /\ x.id \in Name /\ x.public \in Name
                 /\ x.subdomain \in Name
                 /\ x.subdomain \in store.subdomains[x.domain]
           /\ \A d \in Domain : store.subdomains[d] \subseteq Name
  BY DEF IsConfiguration, IsStore

(* The refusal of a name with two meanings offers its sources, and the     *)
(* colliding subdomain itself.                                             *)
LEMMA RefuseAmbiguousAnswers ==
    ASSUME InputInv, RouteInv, RefuseAmbiguous
    PROVE  Answered(store, request, answer')
<1> DEFINE d == ref[1]
           t == ref[2]
           offered == DisambiguationMoves(store, d, t, args)
           moves == {Move("discover", m.ref, m.args) : m \in offered}
<1>1. PICK why \in {"ambiguous", "duplicate"} :
         /\ Refuse(why, moves)
         /\ why = "ambiguous" => Ambiguous(store, d, t)
         /\ why = "duplicate" => Duplicate(store, d, t)
  BY DEF RefuseAmbiguous
<1>2. Parts(2) /\ ((pc = "discover" /\ Discovering) \/ pc = "plan")
  BY DEF RefuseAmbiguous, Discovering
<1>3. IsRequest(request) /\ IsConfiguration(store)
  BY DEF InputInv
<1>4. Refers(request, 2) /\ request.ref = <<d, t>> /\ d \in Domain /\ ref = request.ref
      /\ args = request.args /\ args \in Seq(Range(args))
  BY <1>2, <1>3, PairOfParts DEF Refers, ref, args
<1>5. request.command \in {"discover", "plan"}
  BY <1>2 DEF RouteInv
<1>6. /\ answer'.kind = "refused" /\ answer'.why = why /\ answer'.moves = moves
  BY <1>1, Refused
<1>7. \A m \in offered : \/ \E x \in store.actions : m.ref = Source(x) /\ m.args = args
                         \/ /\ Ambiguous(store, d, t)
                            /\ m.ref = <<d, t>> /\ m.args = <<>>
  BY DEF DisambiguationMoves, Matches, Shortcuts
<1>8. ~(Ambiguous(store, d, t) /\ Duplicate(store, d, t))
  BY DEF Duplicate
<1> HIDE DEF offered
<1>9. \A m \in moves : /\ Offered(m) /\ m.command = "discover"
                       /\ \/ Settled(store, m.ref)
                          \/ why = "ambiguous" /\ m.ref = request.ref
  <2>1. SUFFICES ASSUME NEW o \in offered
                 PROVE  LET m == Move("discover", o.ref, o.args)
                        IN  /\ Offered(m) /\ m.command = "discover"
                            /\ \/ Settled(store, m.ref)
                               \/ why = "ambiguous" /\ m.ref = request.ref
    OBVIOUS
  <2>2. CASE \E x \in store.actions : o.ref = Source(x) /\ o.args = args
    <3>1. Offered(Move("discover", o.ref, o.args))
      BY <1>4, <2>2, References, MoveIsOffered, ZenonT(60) DEF Source
    <3>2. Settled(store, o.ref)
      BY <2>2 DEF Settled
    <3>3. QED
      BY <3>1, <3>2 DEF Move
  <2>3. CASE Ambiguous(store, d, t) /\ o.ref = <<d, t>> /\ o.args = <<>>
    <3>1. Offered(Move("discover", o.ref, o.args))
      BY <2>3, References, MoveIsOffered, ZenonT(60)
    <3>2. why = "ambiguous"
      BY <1>1, <1>8, <2>3
    <3>3. QED
      BY <1>4, <2>3, <3>1, <3>2 DEF Move
  <2>4. QED
    BY <1>7, <2>2, <2>3
<1> HIDE DEF moves
<1>10. RefusalFits(store, request, answer')
  BY <1>1, <1>4, <1>6 DEF RefusalFits
<1>11. OffersFit(store, request, answer')
  BY <1>6, <1>9 DEF OffersFit
<1>12. RefIsFound(store, request, answer')
  <2>1. ~Settled(store, request.ref)
    BY <1>4, References DEF Settled, Source, Refers
  <2>2. QED
    BY <1>6, <2>1 DEF RefIsFound
<1>13. ActionRan(store, request, answer') /\ SynonymsFit(store, request, answer')
  BY <1>6 DEF ActionRan, SynonymsFit
<1>14. ObjectObserved(store, request, answer')
  BY <1>5 DEF ObjectObserved, Observes
<1>15. QED
  BY <1>6, <1>9, <1>10, <1>11, <1>12, <1>13, <1>14 DEF Answered

\* The request denotes one action, by a name with one meaning.
Sole(x) ==
    /\ x \in store.actions
    /\ \A y \in store.actions : Denotes(y, request) => y = x
    /\ Refers(request, 2) => /\ ~Ambiguous(store, request.ref[1], request.ref[2])
                             /\ ~Duplicate(store, request.ref[1], request.ref[2])

\* The same action by its other name.
Synonym(x, f) ==
    /\ Denotes(x, request)
    /\ Offered(Move("discover", f, request.args))
    /\ Denotes(x, Move("discover", f, request.args))
    /\ {f, request.ref} = {Source(x), <<x.domain, x.public>>}

(* An action is asked: its interface is shown, its words are refused, or   *)
(* it is called with them.                                                 *)
LEMMA AskActionAnswers ==
    ASSUME InputInv, RouteInv, pc = "discover",
           NEW x, Sole(x),
           NEW via, NEW asks, Declared(x) => (asks <=> x.query = "yes"),
           NEW verb, Declared(x) => verb = x.entry,
           NEW synonyms, \A f \in synonyms : Synonym(x, f),
           AskAction(x, via, asks, verb, synonyms)
    PROVE  Answered(store, request, answer')
<1> DEFINE moves == {Move("discover", f, args) : f \in synonyms}
<1>1. args = request.args /\ request.command = "discover"
      /\ "discover" \in store.main \cap store.mapped
  BY DEF args, RouteInv
<1>2. \A m \in moves :
         /\ Offered(m) /\ m.command = "discover" /\ m.id = Unset /\ m.args = request.args
         /\ Denotes(x, request) /\ Denotes(x, m)
         /\ {m.ref, request.ref} = {Source(x), <<x.domain, x.public>>}
  BY <1>1 DEF Synonym, Move
<1>3. CASE asks /\ args = <<>>
           /\ Give([NoAnswer EXCEPT !.kind = "interface", !.moves = moves])
  <2>1. answer'.kind = "interface" /\ answer'.why = Unset /\ answer'.moves = moves
    BY <1>3 DEF Give, NoAnswer
  <2> HIDE DEF moves
  <2>2. ActionRan(store, request, answer')
    BY <1>1, <1>3, <2>1 DEF ActionRan, Sole, Ran
  <2>3. SynonymsFit(store, request, answer')
    BY <1>1, <1>2, <2>1 DEF SynonymsFit, Sole
  <2>4. RefusalFits(store, request, answer') /\ OffersFit(store, request, answer')
        /\ RefIsFound(store, request, answer') /\ ObjectObserved(store, request, answer')
    BY <1>1, <2>1, NotLost, UnsetAssumption
       DEF RefusalFits, OffersFit, RefIsFound, ObjectObserved, Observes, Sole
  <2>5. QED
    BY <1>2, <2>1, <2>2, <2>3, <2>4 DEF Answered
<1>4. CASE ~(asks /\ args = <<>>) /\ ~DeclaredArgs(x, args) /\ Refuse("arguments", {})
  <2>1. answer'.kind = "refused" /\ answer'.why = "arguments" /\ answer'.moves = {}
    BY <1>4, Refused
  <2>2. ActionRan(store, request, answer')
    BY <1>1, <1>4, <2>1 DEF ActionRan, Sole, Ran
  <2>3. QED
    BY <1>1, <2>1, <2>2, NotLost
       DEF Answered, RefusalFits, OffersFit, RefIsFound, SynonymsFit, ObjectObserved,
           Observes
<1>5. CASE ~(asks /\ args = <<>>) /\ DeclaredArgs(x, args)
           /\ Give([Called(via, x.domain, x.subdomain, verb, args, {})
                      EXCEPT !.moves = moves])
  <2>1. /\ answer'.kind = "called" /\ answer'.why = Unset /\ answer'.moves = moves
        /\ answer'.call.domain = x.domain /\ answer'.call.subdomain = x.subdomain
        /\ answer'.call.verb = verb /\ answer'.call.words = args
        /\ answer'.call.values = {}
    BY <1>5 DEF Give, Called, NoAnswer
  <2> HIDE DEF moves
  <2>2. ActionRan(store, request, answer')
    BY <1>1, <1>5, <2>1 DEF ActionRan, Sole, Ran
  <2>3. SynonymsFit(store, request, answer')
    BY <1>1, <1>2, <2>1 DEF SynonymsFit, Sole
  <2>4. RefusalFits(store, request, answer') /\ OffersFit(store, request, answer')
        /\ RefIsFound(store, request, answer') /\ ObjectObserved(store, request, answer')
    BY <1>1, <2>1, NotLost, UnsetAssumption
       DEF RefusalFits, OffersFit, RefIsFound, ObjectObserved, Observes, Sole
  <2>5. QED
    BY <1>2, <2>1, <2>2, <2>3, <2>4 DEF Answered
<1>6. QED
  BY <1>3, <1>4, <1>5 DEF AskAction

\* A shortcut runs its action.
LEMMA DiscoverShortcutAnswers ==
    ASSUME InputInv, RouteInv, DiscoverShortcut
    PROVE  Answered(store, request, answer')
<1>1. pc = "discover" /\ request.id = Unset /\ "--id" \notin Range(args)
      /\ request.command = "discover"
  BY DEF DiscoverShortcut, Discovering, RouteInv
<1>2. PICK x \in Named :
        \/ <<x.domain, x.subdomain>> \notin store.online /\ Show("offline")
        \/ AskAction(x, "shortcut", x.query # "no", VerbOf(x, "discover"), {Source(x)})
  BY DEF DiscoverShortcut, Online
<1>3. IsRequest(request) /\ IsConfiguration(store)
  BY DEF InputInv
<1>4. /\ Parts(2) /\ ~Ambiguous(store, ref[1], ref[2]) /\ ~Duplicate(store, ref[1], ref[2])
      /\ x \in Matches(store, ref[1], ref[2])
  BY DEF Named
<1>5. request.ref = <<ref[1], ref[2]>> /\ ref = request.ref /\ args = request.args
      /\ request.args \in Seq(Range(request.args))
  BY <1>3, <1>4, PairOfParts DEF ref, args
<1>6. /\ x \in store.actions /\ x.shortcut /\ x.domain = ref[1] /\ x.public = ref[2]
      /\ \A y \in Matches(store, ref[1], ref[2]) : y = x
  BY <1>4 DEF Matches, Shortcuts, Duplicate
<1>7. Sole(x)
  <2>1. ASSUME NEW y \in store.actions, Denotes(y, request) PROVE y = x
    <3>1. request.ref # Source(y)
      BY <1>4, <1>5, References DEF Source
    <3>2. y.shortcut /\ <<y.domain, y.public>> = <<ref[1], ref[2]>>
      BY <1>5, <2>1, <3>1 DEF Denotes
    <3>3. QED
      BY <1>6, <3>2 DEF Matches, Shortcuts
  <2>2. QED
    BY <1>4, <1>5, <1>6, <2>1 DEF Sole
<1>8. Declared(x) => (x.query # "no" <=> x.query = "yes") /\ VerbOf(x, "discover") = x.entry
  BY <1>3, <1>6 DEF Declared, IsConfiguration, VerbOf
<1>9. Synonym(x, Source(x))
  <2>1. Offered(Move("discover", Source(x), request.args))
    BY <1>5, References, MoveIsOffered DEF Source
  <2>2. Denotes(x, request) /\ Denotes(x, Move("discover", Source(x), request.args))
    BY <1>1, <1>5, <1>6 DEF Denotes, Move
  <2>3. QED
    BY <1>5, <1>6, <2>1, <2>2 DEF Synonym
<1>10. CASE <<x.domain, x.subdomain>> \notin store.online /\ Show("offline")
  <2>1. answer'.kind = "offline" /\ answer'.why = Unset /\ answer'.moves = {}
    BY <1>10, Shown
  <2>2. ActionRan(store, request, answer')
    BY <1>7, <1>10 DEF ActionRan, Sole
  <2>3. QED
    BY <1>1, <1>7, <2>1, <2>2, NotLost, UnsetAssumption
       DEF Answered, RefusalFits, OffersFit, RefIsFound, SynonymsFit, ObjectObserved,
           Observes, Sole
<1>11. CASE AskAction(x, "shortcut", x.query # "no", VerbOf(x, "discover"), {Source(x)})
  <2> DEFINE asks == x.query # "no"
             synonyms == {Source(x)}
  <2>1. /\ Declared(x) => (asks <=> x.query = "yes")
        /\ \A f \in synonyms : Synonym(x, f)
        /\ AskAction(x, "shortcut", asks, VerbOf(x, "discover"), synonyms)
    BY <1>8, <1>9, <1>11
  <2> HIDE DEF asks, synonyms
  <2>2. QED
    BY <1>1, <1>7, <1>8, <2>1, AskActionAnswers
<1>12. QED
  BY <1>2, <1>10, <1>11

\* A reference of three parts runs the action it names.
LEMMA DiscoverActionAnswers ==
    ASSUME InputInv, RouteInv, DiscoverAction
    PROVE  Answered(store, request, answer')
<1>1. pc = "discover" /\ request.id = Unset /\ "--id" \notin Range(args)
      /\ request.command = "discover" /\ InAction
  BY DEF DiscoverAction, Discovering, RouteInv
<1> DEFINE acts == ActionsAt(store, ref[1], ref[2], ref[3])
<1>2. IsRequest(request) /\ IsConfiguration(store) /\ IsStore(store)
  BY DEF InputInv, IsConfiguration
<1>3. request.ref = <<ref[1], ref[2], ref[3]>> /\ ref = request.ref /\ args = request.args
      /\ request.args \in Seq(Range(request.args)) /\ Parts(3)
  BY <1>1, <1>2, PairOfParts DEF ref, args, InAction
<1>4. CASE acts = {} /\ Refuse("unknown", {})
  <2>1. answer'.kind = "refused" /\ answer'.why = "unknown" /\ answer'.moves = {}
    BY <1>4, Refused
  <2>2. \A x \in store.actions : request.ref # Source(x)
    BY <1>3, <1>4 DEF ActionsAt
  <2>3. ~Refers(request, 2) /\ request.ref # Unset
    BY <1>3 DEF Refers, Parts
  <2>4. /\ \A d, n : request.ref # <<d, n>>
        /\ \A d : request.ref # <<d>>
    BY <1>3, References
  <2>5. ~Settled(store, request.ref) /\ ~Published(store, request.ref)
    BY <2>2, <2>3, <2>4 DEF Settled, Published
  <2>6. ActionRan(store, request, answer')
    BY <2>2, <2>4 DEF ActionRan, Denotes
  <2>7. QED
    BY <1>1, <2>1, <2>5, <2>6
       DEF Answered, RefusalFits, OffersFit, RefIsFound, SynonymsFit, ObjectObserved,
           Observes
<1>5. ASSUME NEW x \in acts,
             AskAction(x, "action", x.query = "yes", VerbOf(x, x.id),
                       IF x.shortcut THEN {<<x.domain, x.public>>} ELSE {})
      PROVE  Answered(store, request, answer')
  <2>1. x \in store.actions /\ request.ref = Source(x)
    BY <1>3, <1>5 DEF ActionsAt
  <2>2. Sole(x)
    <3>1. ASSUME NEW y \in store.actions, Denotes(y, request) PROVE y = x
      <4>1. request.ref # <<y.domain, y.public>>
        BY <1>3, References
      <4>2. Source(y) = Source(x)
        BY <2>1, <3>1, <4>1 DEF Denotes
      <4>3. QED
        BY <1>2, <2>1, <4>2, SourcesIdentify
    <3>2. ~Refers(request, 2)
      BY <1>3 DEF Refers, Parts
    <3>3. QED
      BY <2>1, <3>1, <3>2 DEF Sole
  <2>3. Declared(x) => VerbOf(x, x.id) = x.entry
    BY DEF Declared, VerbOf
  <2>4. x.shortcut => Synonym(x, <<x.domain, x.public>>)
    <3>1. Offered(Move("discover", <<x.domain, x.public>>, request.args))
      BY <1>3, References, MoveIsOffered
    <3>2. x.shortcut => /\ Denotes(x, request)
                        /\ Denotes(x, Move("discover", <<x.domain, x.public>>, request.args))
      BY <1>1, <1>3, <2>1 DEF Denotes, Move
    <3>3. QED
      BY <2>1, <3>1, <3>2 DEF Synonym
  <2> DEFINE synonyms == IF x.shortcut THEN {<<x.domain, x.public>>} ELSE {}
  <2>5. \A f \in synonyms : Synonym(x, f)
    BY <2>4
  <2>6. AskAction(x, "action", x.query = "yes", VerbOf(x, x.id), synonyms)
    BY <1>5
  <2> HIDE DEF synonyms
  <2>7. QED
    BY <1>1, <2>2, <2>3, <2>5, <2>6, AskActionAnswers
<1>6. QED
  BY <1>4, <1>5 DEF DiscoverAction

\* An answer that neither runs nor refuses what was named.
LEMMA AsideAnswers ==
    ASSUME request.command \in {"discover", "plan"},
           answer'.why \notin Lost, answer'.kind \notin {"called", "interface"},
           \A m \in answer'.moves : Offered(m),
           answer'.kind = "refused" \/ ~Refers(request, 2),
           \A x \in store.actions : ~Denotes(x, request)
    PROVE  Answered(store, request, answer')
<1>1. answer'.why \notin {"ambiguous", "duplicate"}
  BY DEF Lost
<1>2. QED
  BY <1>1
     DEF Answered, RefusalFits, OffersFit, RefIsFound, SynonymsFit, ObjectObserved,
         Observes, ActionRan

\* A move that a refusal may offer.
Leads(why, m) ==
    /\ Offered(m) /\ m.command = "discover"
    /\ \/ Settled(store, m.ref)
       \/ why = "unscoped" /\ Published(store, m.ref)

\* A refusal of a reference that is not the name of an action.
LEMMA LostAnswers ==
    ASSUME request.command \in {"discover", "plan"},
           NEW why \in Lost \ {"ambiguous", "duplicate"}, NEW moves, Refuse(why, moves),
           \A m \in moves : Leads(why, m),
           request.command = "discover" =>
              /\ ~Settled(store, request.ref) /\ ~Published(store, request.ref)
              /\ \A x \in store.actions : ~Denotes(x, request)
    PROVE  Answered(store, request, answer')
<1>1. answer'.kind = "refused" /\ answer'.why = why /\ answer'.moves = moves
  BY Refused
<1>2. ActionRan(store, request, answer')
  BY DEF ActionRan, Denotes
<1>3. QED
  BY <1>1, <1>2
     DEF Answered, RefusalFits, OffersFit, RefIsFound, SynonymsFit, ObjectObserved,
         Observes, Leads

\* A domain is a reference one can write.
LEMMA DomainIsOffered ==
    \A d : Offered(Move("discover", <<d>>, <<>>))
  BY References, MoveIsOffered

\* discover with --id.
LEMMA DiscoverByIdAnswers ==
    ASSUME InputInv, RouteInv, DiscoverById
    PROVE  Answered(store, request, answer')
<1>1. request.command = "discover"
  BY DEF DiscoverById, RouteInv
<1>2. \A x \in store.actions : ~Denotes(x, request)
  BY DEF DiscoverById, Denotes, Discovering, args
<1>3. Offered(Move("observe", <<Result>>, <<>>))
  BY References, MoveIsOffered
<1>4. CASE Refuse("arguments", {})
  <2>1. answer'.kind = "refused" /\ answer'.why = "arguments" /\ answer'.moves = {}
    BY <1>4, Refused
  <2>2. QED
    BY <1>1, <1>2, <2>1, NotLost, AsideAnswers
<1>5. CASE ref = Unset /\ Show("artifact")
  <2>1. answer'.kind = "artifact" /\ answer'.why = Unset /\ answer'.moves = {}
    BY <1>5, Shown
  <2>2. ~Refers(request, 2)
    BY <1>5 DEF Refers, ref
  <2>3. QED
    BY <1>1, <1>2, <2>1, <2>2, NotLost, AsideAnswers
<1>6. CASE \E moves \in {{}, {Move("observe", <<Result>>, <<>>)}} : Refuse("handle", moves)
  <2>1. answer'.kind = "refused" /\ answer'.why = "handle"
        /\ answer'.moves \in {{}, {Move("observe", <<Result>>, <<>>)}}
    BY <1>6, Refused
  <2>2. QED
    BY <1>1, <1>2, <1>3, <2>1, NotLost, AsideAnswers
<1>7. QED
  BY <1>4, <1>5, <1>6 DEF DiscoverById

\* discover without a reference.
LEMMA DiscoverRootAnswers ==
    ASSUME InputInv, RouteInv, DiscoverRoot
    PROVE  Answered(store, request, answer')
<1>1. request.command = "discover" /\ request.ref = Unset /\ Show("listing")
  BY DEF DiscoverRoot, Discovering, RouteInv, ref
<1>2. answer'.kind = "listing" /\ answer'.why = Unset /\ answer'.moves = {}
  BY <1>1, Shown
<1>3. \A x \in store.actions : ~Denotes(x, request)
  BY <1>1, Known, UnsetAssumption DEF InputInv, Denotes, Source
<1>4. QED
  BY <1>1, <1>2, <1>3, NotLost, AsideAnswers DEF Refers

\* One part is neither an action nor a shortcut.
LEMMA OnePart ==
    ASSUME NEW d, request.ref = <<d>>
    PROVE  /\ \A x \in store.actions : ~Denotes(x, request)
           /\ ~Refers(request, 2) /\ ~Published(store, request.ref)
           /\ \A x \in store.actions : request.ref # Source(x)
  BY References DEF Denotes, Refers, Published, Source

\* discover with the name of a domain, or a handle.
LEMMA DiscoverSingleAnswers ==
    ASSUME InputInv, RouteInv, DiscoverDomain \/ DiscoverHandle
    PROVE  Answered(store, request, answer')
<1>1. request.command = "discover"
  BY DEF DiscoverDomain, DiscoverHandle, Discovering, RouteInv
<1>2. \E d : request.ref = <<d>>
  BY PairOfParts DEF InputInv, DiscoverDomain, DiscoverHandle, ref
<1>3. \E kind \in {"artifact", "listing"} : Refuse("arguments", {}) \/ Show(kind)
  BY DEF DiscoverDomain, DiscoverHandle
<1>4. /\ answer'.why \in {Unset, "arguments"} /\ answer'.moves = {}
      /\ answer'.kind \notin {"called", "interface"}
  BY <1>3, Refused, Shown
<1>5. QED
  BY <1>1, <1>2, <1>4, OnePart, NotLost, AsideAnswers

\* Two parts under which no action is published.
LEMMA TwoParts ==
    ASSUME IsRequest(request), Parts(2), ~Shortcut
    PROVE  /\ \A x \in store.actions : ~Denotes(x, request)
           /\ ~Settled(store, request.ref) /\ ~Published(store, request.ref)
           /\ ~Ambiguous(store, ref[1], ref[2]) /\ ~Duplicate(store, ref[1], ref[2])
<1>1. request.ref = <<ref[1], ref[2]>> /\ ref = request.ref /\ ref # Unset
  BY PairOfParts DEF Parts, ref
<1>2. Matches(store, ref[1], ref[2]) = {}
  BY DEF Shortcut
<1>3. \A x \in store.actions : request.ref # Source(x)
  BY <1>1, References DEF Source
<1>4. \A d, n : request.ref = <<d, n>> => Matches(store, d, n) = {}
  BY <1>1, <1>2
<1>5. \A x \in store.actions : ~Denotes(x, request)
  BY <1>3, <1>4 DEF Denotes, Matches, Shortcuts
<1>6. ~Settled(store, request.ref)
  BY <1>1, <1>3, References DEF Settled
<1>7. QED
  BY <1>2, <1>4, <1>5, <1>6 DEF Published, Ambiguous, Duplicate

\* discover with a subdomain.
LEMMA DiscoverSubdomainAnswers ==
    ASSUME InputInv, RouteInv, DiscoverSubdomain
    PROVE  Answered(store, request, answer')
<1>1. /\ request.command = "discover" /\ Parts(2) /\ ~Shortcut /\ IsRequest(request)
      /\ ref = request.ref
  BY DEF DiscoverSubdomain, Discovering, RouteInv, InSubdomain, InputInv, ref
<1>2. /\ \A x \in store.actions : ~Denotes(x, request)
      /\ ~Settled(store, request.ref) /\ ~Published(store, request.ref)
      /\ ~Ambiguous(store, ref[1], ref[2]) /\ ~Duplicate(store, ref[1], ref[2])
  BY <1>1, TwoParts
<1>3. CASE \E a \in Canonical(ref[1], ref[2], args[1]) :
              Refuse("noncanonical", {Move("discover", <<ref[1], ref[2], a>>, <<>>)})
  <2>1. PICK a \in Canonical(ref[1], ref[2], args[1]) :
              Refuse("noncanonical", {Move("discover", <<ref[1], ref[2], a>>, <<>>)})
    BY <1>3
  <2>2. \E x \in store.actions : <<ref[1], ref[2], a>> = Source(x)
    BY <2>1 DEF Canonical, NamesAction, ActionsAt, CanonicalFor, Source
  <2>3. Offered(Move("discover", <<ref[1], ref[2], a>>, <<>>))
    BY References, MoveIsOffered
  <2> DEFINE moves == {Move("discover", <<ref[1], ref[2], a>>, <<>>)}
  <2>4. \A m \in moves : Leads("noncanonical", m)
    BY <2>2, <2>3 DEF Leads, Settled, Move
  <2>5. Refuse("noncanonical", moves) /\ "noncanonical" \in Lost \ {"ambiguous", "duplicate"}
    BY <2>1 DEF Lost
  <2> HIDE DEF moves
  <2>6. QED
    BY <1>1, <1>2, <2>4, <2>5, LostAnswers
<1>4. CASE Show("offline") \/ Refuse("arguments", {})
             \/ \E projection : Give([Called("discover", ref[1], ref[2], "discover", args, {})
                                        EXCEPT !.projection = projection])
             \/ Give(Called("discover", ref[1], ref[2], "discover", args, {}))
  <2>1. /\ answer'.why \in {Unset, "arguments"} /\ answer'.moves = {}
        /\ answer'.kind \in {"called", "offline", "refused"}
        /\ answer'.kind = "called" => answer'.why = Unset
    BY <1>4, Shown, Refused DEF Give, Called, NoAnswer
  <2>2. answer'.why \notin Lost /\ answer'.why \notin {"ambiguous", "duplicate"}
    BY <2>1, NotLost, UnsetAssumption
  <2>3. QED
    BY <1>1, <1>2, <2>1, <2>2
       DEF Answered, RefusalFits, OffersFit, RefIsFound, SynonymsFit, ObjectObserved,
           Observes, ActionRan
<1>5. QED
  BY <1>3, <1>4 DEF DiscoverSubdomain, AskSubdomain

(* discover with anything else: what the refusal offers is a name, or the  *)
(* shortcut one forgot to scope.                                           *)
LEMMA DiscoverUnknownAnswers ==
    ASSUME InputInv, RouteInv, DiscoverUnknown
    PROVE  Answered(store, request, answer')
<1>1. /\ request.command = "discover" /\ IsRequest(request) /\ IsConfiguration(store)
      /\ ref = request.ref /\ ref # Unset
  BY DEF DiscoverUnknown, Discovering, RouteInv, InputInv, ref
<1>2. "unknown" \in Lost \ {"ambiguous", "duplicate"}
      /\ "unscoped" \in Lost \ {"ambiguous", "duplicate"}
  BY DEF Lost
<1>3. ref[1] \in Domain =>
        \A m \in {Move("discover", <<ref[1]>>, <<>>)} : Leads("unknown", m)
  BY DomainIsOffered DEF Leads, Settled, Move
<1>4. CASE Parts(2) /\ ~Shortcut /\ Refuse("unknown", {Move("discover", <<ref[1]>>, <<>>)})
  BY <1>1, <1>2, <1>3, <1>4, TwoParts, LostAnswers DEF Parts
<1>5. CASE Parts(3) /\ ~InAction /\ Refuse("unknown", {Move("discover", <<ref[1]>>, <<>>)})
  <2>1. request.ref = <<ref[1], ref[2], ref[3]>>
    BY <1>1, <1>5, PairOfParts
  <2>2. \A x \in store.actions : request.ref # Source(x)
    BY <1>1, <1>5, <2>1, Known DEF Source, InAction
  <2>3. (\A d, n : request.ref # <<d, n>>) /\ \A d : request.ref # <<d>>
    BY <2>1, References
  <2>4. ~Settled(store, request.ref) /\ ~Published(store, request.ref)
        /\ \A x \in store.actions : ~Denotes(x, request)
    BY <1>1, <2>2, <2>3 DEF Settled, Published, Denotes
  <2>5. QED
    BY <1>1, <1>2, <1>3, <1>5, <2>4, LostAnswers DEF Parts
<1>6. ASSUME ref[1] \notin Domain
      PROVE  /\ ~Settled(store, request.ref) /\ ~Published(store, request.ref)
             /\ \A x \in store.actions : ~Denotes(x, request)
  <2>1. \A x \in store.actions : /\ request.ref # Source(x)
                                 /\ request.ref # <<x.domain, x.public>>
    BY <1>1, <1>6, Known, References DEF Source
  <2>2. \A n : \A d \in Domain : request.ref # <<d, n>> /\ request.ref # <<d>>
    BY <1>1, <1>6, References
  <2>3. QED
    BY <1>1, <2>1, <2>2 DEF Settled, Published, Denotes
<1>7. CASE ref[1] \notin Domain /\ \E d \in Scopes(ref[1]) :
              Refuse("unscoped", {Move("discover", <<d, ref[1]>>, <<>>)})
  <2>1. PICK d \in Scopes(ref[1]) :
              Refuse("unscoped", {Move("discover", <<d, ref[1]>>, <<>>)})
    BY <1>7
  <2>2. Published(store, <<d, ref[1]>>)
    <3>1. Matches(store, d, ref[1]) # {} /\ d \in Domain
      BY <2>1 DEF Scopes
    <3>2. ref[1] \in Name
      BY <1>1, <3>1, Known DEF Matches, Shortcuts
    <3>3. QED
      BY <3>1, <3>2 DEF Published
  <2>3. Offered(Move("discover", <<d, ref[1]>>, <<>>))
    BY References, MoveIsOffered
  <2> DEFINE moves == {Move("discover", <<d, ref[1]>>, <<>>)}
  <2>4. \A m \in moves : Leads("unscoped", m)
    BY <2>2, <2>3 DEF Leads, Move
  <2>5. Refuse("unscoped", moves)
    BY <2>1
  <2> HIDE DEF moves
  <2>6. QED
    BY <1>1, <1>2, <1>6, <1>7, <2>4, <2>5, LostAnswers
<1>8. CASE ref[1] \notin Domain /\ Refuse("unknown", {Root})
  <2>1. \A m \in {Root} : Leads("unknown", m)
    BY RootIsOffered DEF Leads, Root, Move, Settled
  <2>2. QED
    BY <1>1, <1>2, <1>6, <1>8, <2>1, LostAnswers
<1>9. QED
  BY <1>4, <1>5, <1>7, <1>8 DEF DiscoverUnknown

\* Words among which no flag stands have one reading: themselves.
LEMMA FlaglessReading ==
    ASSUME NEW v, v \notin Dash, NEW words \in {<<>>, <<v>>}, NEW options
    PROVE  \E r : /\ Readings(options, words, TRUE) = {r}
                  /\ r.words = words /\ DOMAIN r.values = {}
<1> DEFINE heads == Heads(words, Valued(options))
<1>1. heads \in {{}, {1}} /\ WordsAt(words, heads) = words
      /\ \A i \in heads : words[i] = v
  <2>1. CASE words = <<>>
    <3>1. heads = {}
      BY <2>1, ShortScan
    <3>2. <<>> \in Seq({})
      OBVIOUS
    <3> HIDE DEF heads
    <3>3. QED
      BY <2>1, <3>1, <3>2, ShortWords
  <2>2. CASE words = <<v>>
    <3>1. heads = {1}
      BY <2>2, ShortScan
    <3> HIDE DEF heads
    <3>2. QED
      BY <2>2, <3>1, ShortWords
  <2>3. QED
    BY <2>1, <2>2
<1>2. words \in Seq({v}) /\ Len(words) \in 0..1
  <2>1. <<>> \in Seq({v}) /\ Len(<<>>) = 0 /\ <<v>> \in Seq({v}) /\ Len(<<v>>) = 1
    OBVIOUS
  <2>2. CASE words = <<>>
    BY <2>1, <2>2
  <2>3. CASE words = <<v>>
    BY <2>1, <2>3
  <2>4. QED
    BY <2>2, <2>3
<1> HIDE DEF heads
<1>3. v # "--" /\ v \notin Dash
  BY WordAssumption
<1> DEFINE ends    == {i \in heads : TRUE /\ words[i] = "--"}
           stop    == IF ends = {} THEN Len(words) + 1 ELSE Min(ends)
           flags   == {i \in heads : i < stop /\ words[i] \in Dash}
           inline  == {i \in flags : TRUE /\ words[i] \in DOMAIN Inline}
           flag(i) == IF i \in inline THEN Inline[words[i]].flag ELSE words[i]
           text(i) == IF i \in inline THEN Inline[words[i]].value ELSE words[i + 1]
           fits(i, o) ==
               /\ o.flag = flag(i)
               /\ IF Boolean(o) THEN i \notin inline
                  ELSE (i \in inline \/ i < Len(words)) /\ Coerces(o, text(i))
           read(o, i) == IF Boolean(o) THEN (IF o.kind = "bool" THEN "on" ELSE "off")
                         ELSE text(i)
           given(o) == {i \in flags : flag(i) = o.flag}
           plain == WordsAt(words, {i \in heads : i < stop} \ flags)
                       \o SubSeq(words, stop + 1, Len(words))
           values == [f \in {flag(i) : i \in flags} |->
                        LET o == CHOOSE o \in options : o.flag = f
                        IN  read(o, Max(given(o)))]
<1>4. Readings(options, words, TRUE) =
         IF \E i \in flags : \A o \in options : ~fits(i, o) THEN {}
         ELSE {[words |-> plain, values |-> values]}
  BY DEF Readings, heads
<1>5. ends = {} /\ stop = Len(words) + 1
  BY <1>1, <1>3
<1>6. flags = {}
  BY <1>1, <1>3
<1>7. {i \in heads : i < stop} \ flags = heads
  <2>1. heads \subseteq 1..Len(words)
    <3>1. Len(<<>>) = 0 /\ Len(<<v>>) = 1
      OBVIOUS
    <3>2. words = <<>> => heads = {}
      BY ShortScan DEF heads
    <3>3. QED
      BY <1>1, <3>1, <3>2
  <2>2. \A i \in heads : i < stop
    BY <1>2, <1>5, <2>1
  <2> HIDE DEF stop
  <2>3. {i \in heads : i < stop} = heads
    BY <2>2
  <2>4. QED
    BY <1>6, <2>3
<1>8. SubSeq(words, stop + 1, Len(words)) = <<>>
  <2>1. stop + 1 = Len(words) + 2
    BY <1>2, <1>5
  <2>2. \A s \in Seq({v}) : SubSeq(s, Len(s) + 2, Len(s)) = <<>>
    OBVIOUS
  <2> HIDE DEF stop
  <2>3. QED
    BY <1>2, <2>1, <2>2
<1>9. plain = words
  <2> DEFINE first == WordsAt(words, {i \in heads : i < stop} \ flags)
             rest  == SubSeq(words, stop + 1, Len(words))
  <2>1. first = words /\ rest = <<>>
    BY <1>1, <1>7, <1>8
  <2>2. plain = first \o rest
    OBVIOUS
  <2> HIDE DEF first, rest, plain
  <2>3. QED
    BY <1>2, <2>1, <2>2, ConcatEmptySeq
<1>10. DOMAIN values = {}
  BY <1>6
<1> HIDE DEF plain, values, flags, fits
<1>11. Readings(options, words, TRUE) = {[words |-> plain, values |-> values]}
  BY <1>4, <1>6
<1> DEFINE r == [words |-> plain, values |-> values]
<1>12. r.words = words /\ r.values = values /\ Readings(options, words, TRUE) = {r}
  BY <1>9, <1>11
<1> HIDE DEF r
<1>13. QED
  BY <1>10, <1>12

\* The object is the same whether --id names it or its place.
LEMMA SplitById ==
    ASSUME NEW v, v \notin Dash
    PROVE  /\ SplitFits(<<v>>) /\ Ids(<<v>>) = {} /\ WithoutId(<<v>>) = <<v>>
           /\ SplitFits(<<"--id", v>>) /\ Ids(<<"--id", v>>) = {v}
           /\ WithoutId(<<"--id", v>>) = <<>>
<1>1. v # "--id" /\ ~InlineId(v) /\ ~InlineId("--id")
  BY WordAssumption DEF InlineId
<1>2. Heads(<<v>>, {"--id"}) = {1} /\ Heads(<<"--id", v>>, {"--id"}) = {1}
  BY ShortScan
<1>3. IdPlaces(<<v>>) = {}
  BY <1>1, <1>2 DEF IdPlaces
<1>4. IdPlaces(<<"--id", v>>) = {1}
  BY <1>2 DEF IdPlaces
<1>5. SplitFits(<<v>>) /\ Ids(<<v>>) = {} /\ WithoutId(<<v>>) = <<v>>
  BY <1>2, <1>3, ShortWords DEF SplitFits, Ids, WithoutId
<1>6. SplitFits(<<"--id", v>>)
  BY <1>4 DEF SplitFits
<1>7. Ids(<<"--id", v>>) = {v}
  BY <1>1, <1>4 DEF Ids
<1>8. WithoutId(<<"--id", v>>) = <<>>
  <2>1. <<"--id", v>> \in Seq({"--id", v}) /\ {1} \ {1} = {}
    OBVIOUS
  <2>2. QED
    BY <1>2, <1>4, <2>1, ShortWords DEF WithoutId
<1>9. QED
  BY <1>5, <1>6, <1>7, <1>8

\* How such an object is read against the options of observe.
LEMMA ObservedReading ==
    ASSUME NEW v, v \notin Dash, NEW words \in {<<>>, <<v>>}, NEW s, NEW d, NEW sub
    PROVE  LET acts    == ActionsAt(s, d, sub, "observe")
               options == TargetOptions(s, d, sub, acts, "observe")
               usable  == /\ OptionsUsable(s, d, sub, acts, "observe")
                          /\ \A o \in options : ~o.required
           IN  /\ ~usable => ObservedArgs(s, d, sub, words) = {}
               /\ usable => \E r : /\ ObservedArgs(s, d, sub, words) = {r}
                                   /\ r.words = words /\ DOMAIN r.values = {}
               /\ \A r : DOMAIN r.values = {} =>
                     Allowed(options, r.values) /\ Encoded(options, r.values) = {}
<1> DEFINE acts    == ActionsAt(s, d, sub, "observe")
           options == TargetOptions(s, d, sub, acts, "observe")
<1>1. PICK r : /\ Readings(options, words, TRUE) = {r}
               /\ r.words = words /\ DOMAIN r.values = {}
  BY FlaglessReading
<1>2. ObservedArgs(s, d, sub, words)
        = {q \in Readings(options, words, TRUE) :
              /\ OptionsUsable(s, d, sub, acts, "observe")
              /\ RequiredGiven(options, q.values)}
  BY DEF ObservedArgs
<1>3. RequiredGiven(options, r.values) <=> \A o \in options : ~o.required
  BY <1>1 DEF RequiredGiven
<1>4. \A q : DOMAIN q.values = {} =>
         Allowed(options, q.values) /\ Encoded(options, q.values) = {}
  BY DEF Allowed, Exclusive, Encoded
<1> HIDE DEF acts, options
<1>5. QED
  BY <1>1, <1>2, <1>3, <1>4 DEF acts, options

\* An answer to observe that concerns no reference.
LEMMA ObserveAside ==
    ASSUME RouteInv, pc = "observe",
           answer'.kind \notin {"called", "interface"},
           \A m \in answer'.moves : Offered(m),
           answer'.why \notin Lost,
           ObjectObserved(store, request, answer')
    PROVE  Answered(store, request, answer')
<1>1. request.command = "observe"
  BY DEF RouteInv
<1>2. answer'.why \notin {"ambiguous", "duplicate"}
  BY DEF Lost
<1>3. QED
  BY <1>1, <1>2 DEF Answered, RefusalFits, OffersFit, RefIsFound, ActionRan, SynonymsFit, Denotes

\* observe with a reference that is no subdomain.
LEMMA ObserveUnknownAnswers ==
    ASSUME InputInv, RouteInv, ObserveUnknown
    PROVE  Answered(store, request, answer')
<1>1. pc = "observe" /\ ~InSubdomain /\ IsRequest(request)
  BY DEF ObserveUnknown, InputInv
<1>2. ObjectObserved(store, request, answer')
  BY <1>1, PairOfParts DEF ObjectObserved, Observes, InSubdomain, ref
<1>3. CASE Show("result") \/ Show("listing") \/ Refuse("arguments", {})
  <2>1. /\ answer'.kind \in {"result", "listing", "refused"}
        /\ answer'.why \in {Unset, "arguments"} /\ answer'.moves = {}
    BY <1>3, Shown, Refused
  <2>2. QED
    BY <1>1, <1>2, <2>1, NotLost, ObserveAside
<1>4. CASE ref = <<Artifact>> /\ Refuse("handle", {Move("discover", ref, <<>>)})
  <2>1. /\ answer'.kind = "refused" /\ answer'.why = "handle"
        /\ answer'.moves = {Move("discover", ref, <<>>)}
    BY <1>4, Refused
  <2>2. \A m \in answer'.moves : Offered(m)
    BY <1>4, <2>1, DomainIsOffered
  <2>3. QED
    BY <1>1, <1>2, <2>1, <2>2, NotLost, ObserveAside
<1>5. CASE (Parts(2) \/ Parts(3)) /\ Refuse("unknown", {Move("discover", <<ref[1]>>, <<>>)})
  <2>1. /\ answer'.kind = "refused" /\ answer'.why = "unknown"
        /\ answer'.moves = {Move("discover", <<ref[1]>>, <<>>)}
    BY <1>5, Refused
  <2>2. ref[1] \in Domain
    BY <1>5 DEF Parts
  <2>3. \A m \in answer'.moves :
           Offered(m) /\ m.command = "discover" /\ Settled(store, m.ref)
    BY <2>1, <2>2, DomainIsOffered DEF Settled, Move
  <2>4. QED
    BY <1>1, <1>2, <2>1, <2>3
       DEF Answered, RefusalFits, OffersFit, RefIsFound, ActionRan, SynonymsFit, Denotes,
           RouteInv
<1>6. QED
  BY <1>3, <1>4, <1>5 DEF ObserveUnknown

(* observe with a subdomain: both ways to name the object are read,        *)
(* checked and passed on alike.                                            *)
LEMMA ObserveSubdomainAnswers ==
    ASSUME InputInv, RouteInv, ObserveSubdomain
    PROVE  Answered(store, request, answer')
<1> DEFINE d == ref[1]
           s == ref[2]
           acts == ActionsAt(store, d, s, "observe")
           options == TargetOptions(store, d, s, acts, "observe")
           readings == ObservedArgs(store, d, s, WithoutId(args))
<1>1. /\ pc = "observe" /\ InSubdomain /\ request.command = "observe"
      /\ "observe" \in store.main \cap store.mapped
      /\ args = request.args /\ ref = request.ref
  BY DEF ObserveSubdomain, RouteInv, args, ref
<1>2. \/ Refuse("arguments", {})
         /\ \/ ~SplitFits(args) \/ readings = {}
            \/ \E r \in readings : Ids(args) # {} /\ r.words # <<>>
            \/ \E r \in readings : r.words = <<>> /\ Ids(args) = {Result}
      \/ Ids(args) = {Result} /\ Show("result")
      \/ Ids(args) = {Artifact} /\ Refuse("handle", {Move("discover", <<Artifact>>, <<>>)})
      \/ \E r \in readings : Ids(args) = {} /\ ObserveObject(d, s, r, r.words)
      \/ \E r \in readings : \E id \in Ids(args) \ {Artifact, Result} :
            r.words = <<>> /\ ObserveObject(d, s, r, <<id>>)
  BY DEF ObserveSubdomain
<1>3. ASSUME NEW r, NEW id, ObserveObject(d, s, r, id)
      PROVE  /\ answer'.why \in {Unset, "arguments"} /\ answer'.moves = {}
             /\ answer'.kind \in {"called", "offline", "refused"}
             /\ answer'.kind = "called" => answer'.why = Unset
             /\ id # <<>> =>
                   \/ <<d, s>> \notin store.online /\ answer'.kind = "offline"
                         /\ answer'.why = Unset
                   \/ ~Allowed(options, r.values)
                   \/ /\ <<d, s>> \in store.online
                      /\ answer'.kind = "called" /\ answer'.why = Unset
                      /\ answer'.call.domain = d /\ answer'.call.subdomain = s
                      /\ answer'.call.verb = "observe" /\ answer'.call.words = id
                      /\ answer'.call.values = Encoded(options, r.values)
  <2>1. CASE <<d, s>> \notin store.online /\ Show("offline")
    BY <2>1, Shown
  <2>2. CASE id = <<>> /\ Give(Called("observe", d, s, "discover", <<>>, {}))
    BY <2>2 DEF Give, Called, NoAnswer
  <2>3. CASE (id = <<>> \/ ~Allowed(options, r.values)) /\ Refuse("arguments", {})
    BY <2>3, Refused
  <2>4. CASE <<d, s>> \in store.online
             /\ Give(Called("observe", d, s, "observe", id, Encoded(options, r.values)))
    BY <2>4 DEF Give, Called, NoAnswer
  <2>5. QED
    BY <1>3, <2>1, <2>2, <2>3, <2>4 DEF ObserveObject, Online
<1> HIDE DEF readings
<1>4. /\ answer'.why \in {Unset, "arguments", "handle"}
      /\ answer'.kind \in {"called", "offline", "refused", "result"}
      /\ answer'.kind = "called" => answer'.why = Unset
      /\ \A m \in answer'.moves : Offered(m)
      /\ answer'.kind = "called" => answer'.moves = {}
  <2>1. CASE Refuse("arguments", {}) \/ Show("result")
    BY <2>1, Shown, Refused
  <2>2. CASE Refuse("handle", {Move("discover", <<Artifact>>, <<>>)})
    <3>1. /\ answer'.kind = "refused" /\ answer'.why = "handle"
          /\ answer'.moves = {Move("discover", <<Artifact>>, <<>>)}
      BY <2>2, Refused
    <3>2. QED
      BY <3>1, DomainIsOffered
  <2>3. CASE \E r, id : ObserveObject(d, s, r, id)
    BY <1>3, <2>3
  <2>4. QED
    BY <1>2, <2>1, <2>2, <2>3
<1>5. ASSUME NEW v, Observes(store, request, v)
      PROVE  ObservedAs(store, d, s, v, answer')
  <2>1. v \notin Dash /\ v \notin {Artifact, Result} /\ args \in {<<v>>, <<"--id", v>>}
    BY <1>1, <1>5 DEF Observes
  <2>2. /\ SplitFits(args) /\ Ids(args) \in {{}, {v}} /\ WithoutId(args) \in {<<>>, <<v>>}
        /\ Ids(args) = {} => WithoutId(args) = <<v>>
        /\ Ids(args) # {} => WithoutId(args) = <<>>
    <3>1. {v} # {}
      OBVIOUS
    <3>2. CASE args = <<v>>
      BY <2>1, <3>2, SplitById
    <3>3. CASE args = <<"--id", v>>
      BY <2>1, <3>1, <3>3, SplitById
    <3>4. QED
      BY <2>1, <3>2, <3>3
  <2> DEFINE usable == /\ OptionsUsable(store, d, s, acts, "observe")
                       /\ \A o \in options : ~o.required
  <2>3. /\ ~usable => readings = {}
        /\ usable => \E r : /\ readings = {r}
                            /\ r.words = WithoutId(args) /\ DOMAIN r.values = {}
        /\ \A r : DOMAIN r.values = {} =>
              Allowed(options, r.values) /\ Encoded(options, r.values) = {}
    BY <2>1, <2>2, ObservedReading DEF readings
  <2> HIDE DEF usable, options, acts
  <2>4. CASE ~usable
    <3>1. readings = {}
      BY <2>3, <2>4
    <3>2. Ids(args) # {Result} /\ Ids(args) # {Artifact}
      BY <2>1, <2>2
    <3>3. Refuse("arguments", {})
      BY <1>2, <3>1, <3>2
    <3>4. QED
      BY <2>4, <3>3, Refused DEF ObservedAs, usable, options, acts
  <2>5. CASE usable
    <3>1. PICK r : /\ readings = {r} /\ r.words = WithoutId(args) /\ DOMAIN r.values = {}
                   /\ Allowed(options, r.values) /\ Encoded(options, r.values) = {}
      BY <2>3, <2>5
    <3>2. Ids(args) # {Result} /\ Ids(args) # {Artifact}
      BY <2>1, <2>2
    <3>3. ObserveObject(d, s, r, <<v>>)
      BY <1>2, <2>2, <3>1, <3>2
    <3>4. <<v>> # <<>>
      OBVIOUS
    <3>5. \/ <<d, s>> \notin store.online /\ answer'.kind = "offline"
                /\ answer'.why = Unset
          \/ /\ <<d, s>> \in store.online
             /\ answer'.kind = "called" /\ answer'.why = Unset
             /\ answer'.call.domain = d /\ answer'.call.subdomain = s
             /\ answer'.call.verb = "observe" /\ answer'.call.words = <<v>>
             /\ answer'.call.values = {}
      BY <1>3, <3>1, <3>3, <3>4
    <3>6. QED
      BY <2>5, <3>5 DEF ObservedAs, usable, options, acts
  <2>6. QED
    BY <2>4, <2>5
<1>6. ObjectObserved(store, request, answer')
  BY <1>1, <1>5 DEF ObjectObserved
<1>7. answer'.why \notin Lost
  BY <1>4, NotLost
<1>8. CASE answer'.kind # "called"
  BY <1>1, <1>4, <1>6, <1>7, <1>8, ObserveAside
<1>9. CASE answer'.kind = "called"
  <2>1. answer'.why \notin {"ambiguous", "duplicate"}
    BY <1>7 DEF Lost
  <2>2. answer'.moves = {} /\ answer'.why = Unset
    BY <1>4, <1>9
  <2>3. QED
    BY <1>1, <1>6, <1>7, <2>1, <2>2
       DEF Answered, RefusalFits, OffersFit, RefIsFound, ActionRan, SynonymsFit, Denotes
<1>10. QED
  BY <1>8, <1>9

\* plan with a reference that is not a plannable action.
LEMMA PlanUnknownAnswers ==
    ASSUME InputInv, RouteInv, PlanUnknown
    PROVE  Answered(store, request, answer')
<1>1. request.command = "plan" /\ \A x \in store.actions : ~Denotes(x, request)
  BY DEF PlanUnknown, RouteInv, Denotes
<1>2. CASE Refuse("arguments", {})
  <2>1. answer'.kind = "refused" /\ answer'.why = "arguments" /\ answer'.moves = {}
    BY <1>2, Refused
  <2>2. QED
    BY <1>1, <2>1, NotLost, AsideAnswers
<1>3. CASE Refuse("unknown", {})
  <2>1. "unknown" \in Lost \ {"ambiguous", "duplicate"}
    BY DEF Lost
  <2>2. QED
    BY <1>1, <1>3, <2>1, LostAnswers
<1>4. CASE Refuse("operation", {Root})
  <2>1. "operation" \in Lost \ {"ambiguous", "duplicate"}
    BY DEF Lost
  <2>2. \A m \in {Root} : Leads("operation", m)
    BY RootIsOffered DEF Leads, Root, Move, Settled
  <2>3. QED
    BY <1>1, <1>4, <2>1, <2>2, LostAnswers
<1>5. QED
  BY <1>2, <1>3, <1>4 DEF PlanUnknown

\* plan with one that is.
LEMMA PlanActionAnswers ==
    ASSUME InputInv, RouteInv, PlanAction
    PROVE  Answered(store, request, answer')
<1>1. request.command = "plan" /\ \A x \in store.actions : ~Denotes(x, request)
  BY DEF PlanAction, RouteInv, Denotes
<1>2. Refers(request, 2) => /\ ~Ambiguous(store, request.ref[1], request.ref[2])
                            /\ ~Duplicate(store, request.ref[1], request.ref[2])
  BY DEF PlanAction, Plannable, Named, InAction, Parts, Refers, ref
<1>3. CASE \E why \in {"arguments", "preflight"} : Refuse(why, {})
  <2>1. answer'.kind = "refused" /\ answer'.why \in {"arguments", "preflight"}
        /\ answer'.moves = {}
    BY <1>3, Refused
  <2>2. QED
    BY <1>1, <2>1, NotLost, AsideAnswers
<1>4. CASE \E d, s, verb, words, values : Give(Called("plan", d, s, verb, words, values))
  <2>1. answer'.kind = "called" /\ answer'.why = Unset /\ answer'.moves = {}
    BY <1>4 DEF Give, Called, NoAnswer
  <2>2. answer'.why \notin Lost /\ answer'.why \notin {"ambiguous", "duplicate"}
    BY <2>1, NotLost, UnsetAssumption
  <2>3. QED
    BY <1>1, <1>2, <2>1, <2>2
       DEF Answered, RefusalFits, OffersFit, RefIsFound, SynonymsFit, ObjectObserved,
           Observes, ActionRan
<1>5. QED
  BY <1>3, <1>4 DEF PlanAction

-----------------------------------------------------------------------------
(* The invariant is inductive *)

\* The invariant holds before the first word is read.
LEMMA InitInv == Init => InvocationInv
<1> SUFFICES ASSUME Init PROVE InvocationInv
  OBVIOUS
<1>1. IsConfiguration(store) /\ IsFlagPrefix(prefix) /\ IsRequest(request)
  BY CasesAssumption DEF Init
<1>2. argv = Words /\ sel = NoSelection /\ pc = "flags" /\ answer = NoAnswer
      /\ previous = Unset
  BY DEF Init, Words
<1>3. InputInv
  BY <1>1, <1>2 DEF InputInv, NoSelection
<1>4. FlagsInv
  <2>1. Len(prefix) \in Nat
    BY <1>1 DEF IsFlagPrefix
  <2>2. Understood(0) /\ 0 \in 0..Len(prefix) /\ sel.error = FALSE
    BY <1>1, <1>2, <2>1, Start DEF NoSelection
  <2>3. QED
    BY <1>2, <2>2 DEF FlagsInv
<1>5. RouteInv /\ HistoryInv
  BY <1>2 DEF RouteInv, HistoryInv
<1>6. QED
  BY <1>3, <1>4, <1>5 DEF InvocationInv

\* The flag loop preserves it.
LEMMA ReadFlagsInv ==
    ASSUME InvocationInv, ReadFlags
    PROVE  InvocationInv'
<1>1. UNCHANGED <<store, prefix, request, answer, previous>> /\ pc = "flags"
      /\ pc' \in {"flags", "prepare"}
  BY DEF ReadFlags, EndOfFlags, DoubleDash, UnsupportedFlag, DetailFlag, DetailLevel,
         FormatFlag, Consume, Looking
<1>2. InputInv' /\ FlagsInv'
  BY FlagsKeepInput, FlagsStep DEF InvocationInv
<1>3. RouteInv' /\ HistoryInv'
  BY <1>1 DEF InvocationInv, RouteInv, HistoryInv
<1>4. QED
  BY <1>2, <1>3 DEF InvocationInv

\* Preparing and admitting go on with the words behind the prefix.
LEMMA GoOnInv ==
    ASSUME InvocationInv, Prepare \/ Admit, pc' # "done"
    PROVE  InvocationInv'
<1>1. UNCHANGED <<store, prefix, argv, request, answer, previous>>
  BY DEF Prepare, Admit, Refuse, Give
<1>2. InputInv'
  BY <1>1 DEF InvocationInv, InputInv, Prepare, Admit
<1>3. pc' \notin {"flags", "prepare"} /\ pc \in {"prepare", "admit"}
  BY DEF Prepare, Admit, Refuse, Give
<1>4. RouteInv'
  <2>1. CASE Prepare
    <3>1. ~sel.error /\ pc' = "admit" /\ pc = "prepare"
      BY <2>1 DEF Prepare, Refuse, Give
    <3>2. argv = Written(request)
      BY <3>1, PrefixRead DEF InvocationInv, PrefixIsUnambiguous
    <3>3. QED
      BY <1>1, <3>1, <3>2 DEF InvocationInv, RouteInv, Written
  <2>2. CASE Admit
    <3>1. argv = Written(request) /\ argv # <<>> /\ argv[1] \in Accepted
          /\ pc' = IF argv[1] \in {"discover", "observe", "plan"} THEN argv[1]
                   ELSE "elsewhere"
      BY <2>2 DEF Admit, InvocationInv, RouteInv
    <3>2. argv[1] = request.command
      BY <3>1, HeadOfWritten DEF InvocationInv, InputInv
    <3>3. pc' \in {"discover", "observe", "plan", "elsewhere"} /\ Written(request)' = Written(request)
      BY <1>1, <3>1 DEF Written
    <3>4. answer = NoAnswer
      BY <1>3 DEF InvocationInv, RouteInv
    <3>5. pc' # "elsewhere" => pc' \in store.main \cap store.mapped
      BY <3>1 DEF Accepted, Core
    <3>6. QED
      BY <1>1, <3>1, <3>2, <3>3, <3>4, <3>5 DEF RouteInv
  <2>3. QED
    BY <2>1, <2>2
<1>5. FlagsInv' /\ HistoryInv'
  BY <1>1, <1>3 DEF InvocationInv, FlagsInv, HistoryInv
<1>6. QED
  BY <1>2, <1>4, <1>5 DEF InvocationInv

\* A step that gives an answer which fits the request preserves it.
LEMMA GivenInv ==
    ASSUME InvocationInv, pc' = "done", pc # "done",
           UNCHANGED <<store, prefix, argv, request, previous>>,
           sel' = [format |-> sel'.format, level |-> sel'.level, error |-> sel'.error],
           sel'.error \in BOOLEAN,
           Answered(store, request, answer'),
           answer'.why = "flags" => Misunderstood
    PROVE  InvocationInv'
<1>1. InputInv' /\ FlagsInv'
  BY DEF InvocationInv, InputInv, FlagsInv
<1>2. Misunderstood' <=> Misunderstood
  BY DEF Misunderstood, FormatsIn, LevelsIn
<1>3. RouteInv' /\ HistoryInv'
  BY <1>2 DEF InvocationInv, RouteInv, HistoryInv
<1>4. QED
  BY <1>1, <1>3 DEF InvocationInv

\* So do all steps up to the command.
LEMMA DispatchInv ==
    ASSUME InvocationInv, Dispatch
    PROVE  InvocationInv'
<1>0. InputInv /\ RouteInv /\ FlagsInv
  BY DEF InvocationInv
<1>1. ASSUME NEW why \in Unread, Refuse(why, {}), pc = "prepare",
             sel' = [format |-> sel'.format, level |-> sel'.level, error |-> sel'.error],
             sel'.error \in BOOLEAN, why = "flags" => sel.error
      PROVE  InvocationInv'
  <2>1. Answered(store, request, answer')
    BY <1>1, UnreadAnswers
  <2>2. answer'.why = why /\ pc' = "done"
        /\ UNCHANGED <<store, prefix, argv, request, previous>>
    BY <1>1, Refused
  <2>3. why = "flags" => Misunderstood
    BY <1>0, <1>1 DEF FlagsInv
  <2>4. QED
    BY <1>1, <2>1, <2>2, <2>3, GivenInv
<1>2. CASE LoadFails
  BY <1>0, <1>1, <1>2 DEF LoadFails, Unread, InputInv
<1>3. CASE RefuseFormat
  BY <1>0, <1>1, <1>3 DEF RefuseFormat, Unread, InputInv
<1>4. CASE Prepare
  <2>1. CASE sel.error /\ Refuse("flags", {})
    <3>1. /\ sel' = [format |-> sel'.format, level |-> sel'.level, error |-> sel'.error]
          /\ sel'.error \in BOOLEAN /\ pc = "prepare"
      BY <1>0, <1>4 DEF Prepare, InputInv
    <3>2. QED
      BY <1>1, <2>1, <3>1 DEF Unread
  <2>2. CASE pc' = "admit"
    BY <1>4, <2>2, GoOnInv
  <2>3. QED
    BY <1>4, <2>1, <2>2 DEF Prepare
<1>5. CASE Orient
  <2>1. Show("listing") /\ pc = "admit" /\ sel' = sel
    BY <1>5 DEF Orient
  <2>2. Answered(store, request, answer')
    BY <1>0, <1>5, OrientAnswers
  <2>3. answer'.why # "flags"
    BY <2>1, Shown, UnsetAssumption
  <2>4. QED
    BY <1>0, <2>1, <2>2, <2>3, Shown, GivenInv DEF InputInv
<1>6. CASE RefuseCommand
  <2>1. Refuse("command", {Root}) /\ pc = "admit" /\ sel' = sel
    BY <1>6 DEF RefuseCommand
  <2>2. Answered(store, request, answer')
    BY <1>0, <1>6, RefuseCommandAnswers
  <2>3. /\ answer'.why # "flags" /\ pc' = "done"
        /\ UNCHANGED <<store, prefix, argv, request, previous>>
    BY <2>1, Refused
  <2>4. QED
    BY <1>0, <2>1, <2>2, <2>3, GivenInv DEF InputInv
<1>7. CASE Admit
  BY <1>7, GoOnInv DEF Admit
<1>8. CASE Delegate
  <2>1. Show("elsewhere") /\ pc = "elsewhere" /\ sel' = sel
    BY <1>8 DEF Delegate
  <2>2. Answered(store, request, answer')
    BY <1>0, <1>8, DelegateAnswers
  <2>3. answer'.why # "flags"
    BY <2>1, Shown, UnsetAssumption
  <2>4. QED
    BY <1>0, <2>1, <2>2, <2>3, Shown, GivenInv DEF InputInv
<1>9. QED
  BY <1>2, <1>3, <1>4, <1>5, <1>6, <1>7, <1>8 DEF Dispatch

\* A command answers from where it was called.
Answering ==
    /\ pc \in {"discover", "observe", "plan"} /\ pc' = "done" /\ sel' = sel
    /\ UNCHANGED <<store, prefix, argv, request, previous>>
    /\ answer'.why # "flags"

\* A shown answer ends the command.
LEMMA ShowAnswering ==
    ASSUME NEW kind, Show(kind), pc \in {"discover", "observe", "plan"}, sel' = sel
    PROVE  Answering
  BY Shown, UnsetAssumption DEF Answering

\* So does a refusal,
LEMMA RefuseAnswering ==
    ASSUME NEW why, NEW moves, Refuse(why, moves), why # "flags",
           pc \in {"discover", "observe", "plan"}, sel' = sel
    PROVE  Answering
  BY Refused DEF Answering

\* and so does a call.
LEMMA CallAnswering ==
    ASSUME NEW a, Give(a), a.why = Unset,
           pc \in {"discover", "observe", "plan"}, sel' = sel
    PROVE  Answering
  BY UnsetAssumption DEF Answering, Give

\* A call gives no reason for a refusal.
LEMMA CalledHow ==
    ASSUME NEW via, NEW d, NEW s, NEW verb, NEW words, NEW values
    PROVE  /\ Called(via, d, s, verb, words, values).why = Unset
           /\ \A moves : [Called(via, d, s, verb, words, values)
                             EXCEPT !.moves = moves].why = Unset
           /\ \A p : [Called(via, d, s, verb, words, values)
                         EXCEPT !.projection = p].why = Unset
           /\ \A moves : [NoAnswer EXCEPT !.kind = "interface", !.moves = moves].why = Unset
  BY DEF Called, NoAnswer

\* Asking an action ends the command.
LEMMA AskActionAnswering ==
    ASSUME pc = "discover", sel' = sel, NEW x, NEW via, NEW asks, NEW verb, NEW synonyms,
           AskAction(x, via, asks, verb, synonyms)
    PROVE  Answering
<1> DEFINE called == [Called(via, x.domain, x.subdomain, verb, args, {})
                         EXCEPT !.moves = {Move("discover", r, args) : r \in synonyms}]
           shown == [NoAnswer EXCEPT !.kind = "interface",
                                     !.moves = {Move("discover", r, args) : r \in synonyms}]
<1>1. called.why = Unset /\ shown.why = Unset
  BY CalledHow
<1>2. Give(called) \/ Give(shown) \/ Refuse("arguments", {})
  BY DEF AskAction
<1> HIDE DEF called, shown
<1>3. QED
  BY <1>1, <1>2, CallAnswering, RefuseAnswering

\* Every step of a command ends it.
LEMMA CommandAnswering ==
    ASSUME RefuseAmbiguous \/ Discover \/ Observe \/ Plan
    PROVE  Answering
<1>1. CASE RefuseAmbiguous
  BY <1>1, RefuseAnswering DEF RefuseAmbiguous, Discovering
<1>2. CASE DiscoverById
  BY <1>2, RefuseAnswering, ShowAnswering DEF DiscoverById
<1>3. CASE DiscoverRoot
  BY <1>3, ShowAnswering DEF DiscoverRoot, Discovering
<1>4. CASE DiscoverHandle
  BY <1>4, ShowAnswering, RefuseAnswering DEF DiscoverHandle, Discovering
<1>5. CASE DiscoverShortcut
  <2>1. pc = "discover" /\ sel' = sel
    BY <1>5 DEF DiscoverShortcut, Discovering
  <2>2. \E x : Show("offline")
            \/ AskAction(x, "shortcut", x.query # "no", VerbOf(x, "discover"), {Source(x)})
    BY <1>5 DEF DiscoverShortcut
  <2>3. QED
    BY <2>1, <2>2, AskActionAnswering, ShowAnswering
<1>6. CASE DiscoverAction
  <2>1. pc = "discover" /\ sel' = sel
    BY <1>6 DEF DiscoverAction, Discovering
  <2>2. \E x : Refuse("unknown", {})
            \/ AskAction(x, "action", x.query = "yes", VerbOf(x, x.id),
                         IF x.shortcut THEN {<<x.domain, x.public>>} ELSE {})
    BY <1>6 DEF DiscoverAction
  <2>3. QED
    BY <2>1, <2>2, AskActionAnswering, RefuseAnswering
<1>7. CASE DiscoverSubdomain
  <2>1. pc = "discover" /\ sel' = sel
    BY <1>7 DEF DiscoverSubdomain, Discovering
  <2>2. CASE Show("offline") \/ Refuse("arguments", {})
             \/ \E moves : Refuse("noncanonical", moves)
    BY <2>1, <2>2, ShowAnswering, RefuseAnswering
  <2>3. ASSUME NEW p, Give([Called("discover", ref[1], ref[2], "discover", args, {})
                               EXCEPT !.projection = p])
        PROVE  Answering
    <3> DEFINE called == [Called("discover", ref[1], ref[2], "discover", args, {})
                             EXCEPT !.projection = p]
    <3>1. called.why = Unset /\ Give(called)
      BY <2>3, CalledHow
    <3> HIDE DEF called
    <3>2. QED
      BY <2>1, <3>1, CallAnswering
  <2>4. CASE Give(Called("discover", ref[1], ref[2], "discover", args, {}))
    BY <2>1, <2>4, CalledHow, CallAnswering
  <2>5. QED
    BY <1>7, <2>2, <2>3, <2>4 DEF DiscoverSubdomain, AskSubdomain
<1>8. CASE DiscoverDomain
  BY <1>8, ShowAnswering, RefuseAnswering DEF DiscoverDomain, Discovering
<1>9. CASE DiscoverUnknown
  BY <1>9, RefuseAnswering DEF DiscoverUnknown, Discovering
<1>10. CASE ObserveSubdomain
  <2>1. pc = "observe" /\ sel' = sel
    BY <1>10 DEF ObserveSubdomain
  <2>2. CASE Show("result") \/ Refuse("arguments", {})
             \/ \E moves : Refuse("handle", moves)
    BY <2>1, <2>2, ShowAnswering, RefuseAnswering
  <2>3. ASSUME NEW r, NEW id, ObserveObject(ref[1], ref[2], r, id)
        PROVE  Answering
    BY <2>1, <2>3, ShowAnswering, RefuseAnswering, CalledHow, CallAnswering
       DEF ObserveObject
  <2>4. QED
    BY <1>10, <2>2, <2>3 DEF ObserveSubdomain
<1>11. CASE ObserveUnknown
  BY <1>11, ShowAnswering, RefuseAnswering DEF ObserveUnknown
<1>12. CASE PlanUnknown
  BY <1>12, RefuseAnswering DEF PlanUnknown
<1>13. CASE PlanAction
  <2>1. pc = "plan" /\ sel' = sel
    BY <1>13 DEF PlanAction
  <2>2. CASE Refuse("preflight", {}) \/ Refuse("arguments", {})
    BY <2>1, <2>2, RefuseAnswering
  <2>3. CASE \E d, s, verb, words, values : Give(Called("plan", d, s, verb, words, values))
    BY <2>1, <2>3, CalledHow, CallAnswering
  <2>4. QED
    BY <1>13, <2>2, <2>3 DEF PlanAction
<1>14. QED
  BY <1>1, <1>2, <1>3, <1>4, <1>5, <1>6, <1>7, <1>8, <1>9, <1>10, <1>11, <1>12, <1>13
     DEF Discover, Observe, Plan

\* The commands preserve the invariant.
LEMMA CommandInv ==
    ASSUME InvocationInv, RefuseAmbiguous \/ Discover \/ Observe \/ Plan
    PROVE  InvocationInv'
<1>1. InputInv /\ RouteInv
  BY DEF InvocationInv
<1>2. Answering
  BY CommandAnswering
<1>3. Answered(store, request, answer')
  BY <1>1, RefuseAmbiguousAnswers, DiscoverByIdAnswers, DiscoverRootAnswers,
     DiscoverSingleAnswers, DiscoverShortcutAnswers, DiscoverActionAnswers,
     DiscoverSubdomainAnswers, DiscoverUnknownAnswers, ObserveSubdomainAnswers,
     ObserveUnknownAnswers, PlanActionAnswers, PlanUnknownAnswers
     DEF Discover, Observe, Plan
<1>4. QED
  BY <1>1, <1>2, <1>3, GivenInv DEF Answering, InputInv

(* A second invocation starts from an answer that fitted, with a request   *)
(* it offered or in other words.                                           *)
LEMMA AgainInv ==
    ASSUME InvocationInv, Follow \/ Rephrase
    PROVE  InvocationInv'
<1>1. PICK r : Again(r) /\ (r \in answer.moves
                           \/ /\ request.command = "observe" /\ Len(args) = 2
                              /\ args[1] = "--id"
                              /\ r = [request EXCEPT !.args = <<args[2]>>])
  BY DEF Follow, Rephrase
<1>2. pc = "done" /\ InputInv /\ Answered(store, request, answer)
  BY DEF Follow, Rephrase, InvocationInv, RouteInv
<1>3. IsRequest(request)
  BY <1>2 DEF InputInv
<1>4. IsRequest(r) /\ (r \in answer.moves \/ Rephrased(r, request))
  <2>1. CASE r \in answer.moves
    BY <1>2, <2>1 DEF Answered, Offered
  <2>2. CASE /\ request.command = "observe" /\ Len(args) = 2 /\ args[1] = "--id"
             /\ r = [request EXCEPT !.args = <<args[2]>>]
    <3>1. request = [command |-> request.command, ref |-> request.ref,
                     id |-> request.id, args |-> args]
          /\ args \in Seq(Range(args))
      BY <1>3 DEF IsRequest, args
    <3>2. r = [command |-> request.command, ref |-> request.ref,
               id |-> request.id, args |-> <<args[2]>>]
      BY <2>2, <3>1
    <3>3. IsRequest(r)
      BY <1>3, <3>2, References DEF IsRequest
    <3>4. args = <<"--id", args[2]>>
      BY <2>2, <3>1
    <3>5. args[2] \in Range(r.args) /\ r.args = <<args[2]>> /\ r.command = "observe"
          /\ r.ref = request.ref
      BY <2>2, <3>2 DEF Range
    <3>6. Rephrased(r, request)
      BY <2>2, <3>4, <3>5 DEF Rephrased, args
    <3>7. QED
      BY <3>3, <3>6
  <2>3. QED
    BY <1>1, <2>1, <2>2
<1>5. /\ previous' = [request |-> request, answer |-> answer] /\ request' = r
      /\ argv' = Written(r) /\ prefix' = <<>> /\ sel' = NoSelection
      /\ pc' = "flags" /\ answer' = NoAnswer /\ store' = store
  BY <1>1 DEF Again
<1>6. IsFlagPrefix(<<>>) /\ Len(<<>>) = 0
  BY References DEF IsFlagPrefix
<1>7. InputInv'
  BY <1>2, <1>4, <1>5, <1>6 DEF InputInv, NoSelection
<1>8. FlagsInv'
  <2> DEFINE w == Written(r)
  <2>1. PICK S : w \in Seq(S)
    BY <1>4, <1>6, WordsOf
  <2>2. Words' = <<>> \o w
    BY <1>5 DEF Words, Written
  <2> HIDE DEF w
  <2>3. <<>> \o w = w /\ Len(w) \in Nat
    BY <2>1, ConcatEmptySeq
  <2>4. w = SubSeq(w, 0 + 1, Len(w))
    <3>1. 0 \in 0..Len(w) /\ 0 \in 0..(Len(w) - 0)
      BY <2>3
    <3>2. LET rest == SubSeq(w, 0 + 1, Len(w))
          IN  /\ rest \in Seq(S) /\ Len(rest) = Len(w) - 0
              /\ \A i \in 1..Len(rest) : rest[i] = w[0 + i]
      BY <2>1, <3>1, Drop
    <3>3. QED
      BY <2>1, <3>2
  <2>5. argv' = w
    BY <1>5 DEF w
  <2>6. FormatsIn(0)' = {} /\ LevelsIn(0)' = {}
    BY DEF FormatsIn, LevelsIn
  <2>7. Understood(0)'
    BY <1>5, <2>2, <2>3, <2>4, <2>5, <2>6 DEF Understood, NoSelection, Only
  <2>8. QED
    BY <1>5, <1>6, <2>7 DEF FlagsInv, NoSelection
<1>9. RouteInv'
  BY <1>5 DEF RouteInv
<1>10. HistoryInv'
  BY <1>2, <1>3, <1>4, <1>5 DEF HistoryInv
<1>11. QED
  BY <1>7, <1>8, <1>9, <1>10 DEF InvocationInv

\* No step breaks the invariant.
LEMMA StepInv ==
    ASSUME InvocationInv, [Next]_vars
    PROVE  InvocationInv'
<1>1. CASE ReadFlags
  BY <1>1, ReadFlagsInv
<1>2. CASE Dispatch
  BY <1>2, DispatchInv
<1>3. CASE RefuseAmbiguous \/ Discover \/ Observe \/ Plan
  BY <1>3, CommandInv
<1>4. CASE Follow \/ Rephrase
  BY <1>4, AgainInv
<1>5. CASE UNCHANGED vars
  <2>1. UNCHANGED <<store, prefix, argv, sel, request, pc, answer, previous>>
    BY <1>5 DEF vars
  <2>2. InputInv'
    BY <2>1 DEF InvocationInv, InputInv
  <2>3. /\ Misunderstood' <=> Misunderstood
        /\ \A k : Understood(k)' <=> Understood(k)
    BY <2>1 DEF Misunderstood, Understood, FormatsIn, LevelsIn, Words, Written
  <2>4. FlagsInv'
    BY <2>1, <2>3 DEF InvocationInv, FlagsInv
  <2>5. RouteInv'
    BY <2>1, <2>3 DEF InvocationInv, RouteInv, Written
  <2>6. HistoryInv'
    BY <2>1 DEF InvocationInv, HistoryInv
  <2>7. QED
    BY <2>2, <2>4, <2>5, <2>6 DEF InvocationInv
<1>6. QED
  BY <1>1, <1>2, <1>3, <1>4, <1>5 DEF Next

(* The flags selected are those that were read, and every answer fits the  *)
(* reference it answers, in every invocation and the one that follows it   *)
(* up: for any configuration the loader lets through, any flags and any    *)
(* words.                                                                  *)
THEOREM Inductive == Spec => []InvocationInv
<1>1. Init => InvocationInv
  BY InitInv
<1>2. InvocationInv /\ [Next]_vars => InvocationInv'
  BY StepInv
<1>3. QED
  BY <1>1, <1>2, PTL DEF Spec

(* The global flags before the command (process/argv.py) are read to the   *)
(* word where the command starts, or refused; what is selected is what one *)
(* flag of each sort says, and an unknown, incomplete or contradictory     *)
(* prefix is never passed over.                                            *)
THEOREM PrefixIsRead == Spec => []PrefixIsUnambiguous
<1>1. InvocationInv => PrefixIsUnambiguous
  BY PrefixRead DEF InvocationInv
<1>2. QED
  BY <1>1, Inductive, PTL

(* A name refused as ambiguous or published twice is one the audit         *)
(* complains about.                                                        *)
LEMMA RefusedByAudit ==
    ASSUME NEW s, IsConfiguration(s), NEW r, NEW a, RefusalFits(s, r, a),
           a.why \in {"ambiguous", "duplicate"}
    PROVE  ~AuditClean(s)
<1>1. IsStore(s) /\ r.ref[1] \in Domain
      /\ (Ambiguous(s, r.ref[1], r.ref[2]) \/ Duplicate(s, r.ref[1], r.ref[2]))
  BY DEF IsConfiguration, RefusalFits, Refers
<1>2. PICK x \in Matches(s, r.ref[1], r.ref[2]) : TRUE
  BY <1>1 DEF Ambiguous, Duplicate
<1>3. r.ref[2] \in Name
  BY <1>1, <1>2 DEF Matches, Shortcuts, IsStore
<1>4. QED
  BY <1>1, <1>3, AuditDecidesRouting

(* What the audit (domain_affordance_config_check) passes, no invocation   *)
(* refuses as ambiguous or published twice, and what an invocation answers *)
(* has one meaning by the audit's account.                                 *)
THEOREM AuditAndResolverAgree == Spec => []AuditPredictsRouting
<1>1. ASSUME InvocationInv PROVE AuditPredictsRouting
  <2>1. SUFFICES ASSUME pc = "done" PROVE AuditPredictsRouting
    BY DEF AuditPredictsRouting
  <2>2. IsConfiguration(store) /\ IsRequest(request) /\ RefusalFits(store, request, answer)
    BY <1>1, <2>1 DEF InvocationInv, InputInv, RouteInv, Answered
  <2>3. answer.why \in {"ambiguous", "duplicate"} => ~AuditClean(store)
    BY <2>2, RefusedByAudit
  <2>4. ASSUME answer.kind # "refused", request.command \in {"discover", "plan"}, Parts(2)
        PROVE  \A p, q \in Sources(store, ref[1], ref[2]) : p = q
    <3>1. /\ ref = request.ref /\ ref[1] \in Domain /\ IsStore(store)
          /\ ~Ambiguous(store, ref[1], ref[2]) /\ ~Duplicate(store, ref[1], ref[2])
      BY <2>2, <2>4 DEF RefusalFits, Refers, Parts, ref, IsConfiguration
    <3>2. QED
      BY <3>1, OneMeaning
  <2>5. QED
    BY <2>3, <2>4 DEF AuditPredictsRouting
<1>2. QED
  BY <1>1, Inductive, PTL

(* A command that the refusal of a reference offers, when it is followed,  *)
(* is not answered by another refusal of a reference if the audit passes;  *)
(* otherwise only the two exits that MovesLeadOut names are left.          *)
THEOREM OffersAreFound == Spec => []MovesLeadOut
<1>1. ASSUME InvocationInv PROVE MovesLeadOut
  <2>1. SUFFICES ASSUME pc = "done", previous # Unset,
                        request \in previous.answer.moves,
                        previous.answer.why \in Lost, answer.why \in Lost
                 PROVE  /\ ~AuditClean(store)
                        /\ \/ previous.answer.why = "unscoped"
                           \/ previous.answer.why = "ambiguous" /\ ref = previous.request.ref
    BY DEF MovesLeadOut
  <2>2. /\ IsConfiguration(store)
        /\ RefusalFits(store, request, answer) /\ RefIsFound(store, request, answer)
        /\ RefusalFits(store, previous.request, previous.answer)
        /\ OffersFit(store, previous.request, previous.answer)
    BY <1>1, <2>1 DEF InvocationInv, InputInv, RouteInv, HistoryInv, Answered
  <2>3. /\ request.command = "discover"
        /\ \/ Settled(store, ref)
           \/ previous.answer.why = "ambiguous" /\ ref = previous.request.ref
           \/ previous.answer.why = "unscoped" /\ Published(store, ref)
    BY <2>1, <2>2 DEF OffersFit, ref
  <2>4. /\ ~Settled(store, ref)
        /\ Published(store, ref) => answer.why \in {"ambiguous", "duplicate"}
    BY <2>1, <2>2, <2>3 DEF RefIsFound, ref
  <2>5. QED
    BY <2>2, <2>3, <2>4, RefusedByAudit
<1>2. QED
  BY <1>1, Inductive, PTL

(* A shortcut and the action that implements it, and an object given by    *)
(* --id or by its place, are answered alike, in two invocations one after  *)
(* the other.                                                              *)
THEOREM SameRequestSameAnswer == Spec => []SynonymsAgree
<1>1. ASSUME InvocationInv PROVE SynonymsAgree
  <2>1. SUFFICES ASSUME pc = "done", previous # Unset,
                        answer.why \notin {"configuration", "format", "ambiguous", "duplicate"},
                        previous.answer.why \notin Unread
                 PROVE  SynonymsAgree
    BY DEF SynonymsAgree, Unread
  <2> DEFINE old == previous.request
             was == previous.answer
  <2>2. /\ IsStore(store) /\ Answered(store, request, answer) /\ Answered(store, old, was)
        /\ IsRequest(request) /\ IsRequest(old)
        /\ request \in was.moves \/ Rephrased(request, old)
    BY <1>1, <2>1
       DEF InvocationInv, InputInv, RouteInv, HistoryInv, IsConfiguration
  <2>3. answer.why \notin Unread
    <3>1. prefix = <<>> /\ (answer.why = "flags" => Misunderstood)
      BY <1>1, <2>1 DEF InvocationInv, HistoryInv, RouteInv
    <3>2. 1..Len(prefix) = {}
      BY <3>1
    <3>3. ~Misunderstood
      BY <3>2 DEF Misunderstood, FormatsIn, LevelsIn
    <3>4. QED
      BY <2>1, <3>1, <3>3 DEF Unread
  <2>4. ASSUME was.kind \in {"called", "interface"}, NEW x \in store.actions,
               Declared(x), Online(x.domain, x.subdomain),
               {ref, old.ref} = {Source(x), <<x.domain, x.public>>}
        PROVE  SameAnswer(was, answer)
    <3>1. \A y : Source(y) # <<x.domain, x.public>> /\ Source(x) # <<y.domain, y.public>>
      BY References DEF Source
    <3>2. request \in was.moves
      <4>1. ref # old.ref
        <5>1. Source(x) # <<x.domain, x.public>>
          BY <3>1
        <5>2. Source(x) \in {ref, old.ref} /\ <<x.domain, x.public>> \in {ref, old.ref}
          BY <2>4
        <5>3. QED
          BY <5>1, <5>2
      <4>2. ~Rephrased(request, old)
        BY <4>1 DEF Rephrased, ref
      <4>3. QED
        BY <2>2, <4>2
    <3>3. /\ was.why = Unset /\ "discover" \in store.main \cap store.mapped
          /\ request.args = old.args
      BY <2>2, <2>4, <3>2 DEF Answered, SynonymsFit
    <3>4. PICK y \in store.actions :
             /\ Denotes(y, old) /\ Denotes(y, request)
             /\ {ref, old.ref} = {Source(y), <<y.domain, y.public>>}
      BY <2>2, <2>4, <3>2 DEF Answered, SynonymsFit, ref
    <3>5. Source(y) = Source(x)
      BY <2>4, <3>1, <3>4
    <3>6. y = x
      BY <2>2, <3>4, <3>5, SourcesIdentify
    <3>7. Ran(x, old.args, was)
      BY <2>2, <2>4, <3>3, <3>4, <3>6, UnsetAssumption
         DEF Answered, ActionRan, Online, Unread
    <3>8. Ran(x, request.args, answer)
      BY <2>1, <2>2, <2>3, <2>4, <3>3, <3>4, <3>6 DEF Answered, ActionRan, Online
    <3>9. QED
      BY <3>3, <3>7, <3>8 DEF Ran, SameAnswer
  <2>5. ASSUME request.command = "observe", old.ref = ref, InSubdomain,
               args[1] \notin {Artifact, Result} \cup Dash
        PROVE  SameAnswer(was, answer)
    <3>1. Parts(2) /\ Refers(request, 2) /\ Refers(old, 2) /\ ref = request.ref
      BY <2>2, <2>5, PairOfParts DEF InSubdomain, Refers, ref
    <3>2. ref # <<Result>>
      BY <3>1, References DEF Parts
    <3>3. Rephrased(request, old)
      BY <2>2, <2>5, <3>1, <3>2 DEF Answered, Offered
    <3>4. PICK v \in Range(request.args) :
             old.args = <<"--id", v>> /\ request.args = <<v>> /\ old.command = "observe"
      BY <3>3 DEF Rephrased
    <3>5. v = args[1]
      BY <3>4 DEF args
    <3>6. v \in Range(old.args)
      BY <3>4 DEF Range
    <3>7. Observes(store, request, v) /\ Observes(store, old, v)
      BY <2>5, <3>1, <3>4, <3>5 DEF Observes, InSubdomain
    <3>8. \/ /\ "observe" \notin store.main \cap store.mapped
             /\ was.kind = "refused" /\ was.why = "command"
          \/ /\ "observe" \in store.main \cap store.mapped
             /\ ObservedAs(store, ref[1], ref[2], v, was)
      BY <2>1, <2>2, <2>5, <3>6, <3>7 DEF Answered, ObjectObserved
    <3>9. \/ /\ "observe" \notin store.main \cap store.mapped
             /\ answer.kind = "refused" /\ answer.why = "command"
          \/ /\ "observe" \in store.main \cap store.mapped
             /\ ObservedAs(store, ref[1], ref[2], v, answer)
      BY <2>2, <2>3, <3>1, <3>4, <3>7 DEF Answered, ObjectObserved
    <3>10. QED
      BY <3>8, <3>9 DEF ObservedAs, SameAnswer
  <2>6. QED
    BY <2>4, <2>5 DEF SynonymsAgree
<1>2. QED
  BY <1>1, Inductive, PTL

-----------------------------------------------------------------------------
(* What was checked before a plan is called *)

(* Where two scanners part, one of them gave the word before a value and   *)
(* the other did not: the first place at which they part is such a one.    *)
LEMMA ScannersPart ==
    ASSUME NEW S, NEW words \in Seq(S), NEW some, NEW others,
           NEW i \in 1..Len(words),
           ~(i \in Heads(words, some) <=> i \in Heads(words, others))
    PROVE  \E j \in 1..Len(words) :
              /\ j < i /\ j \in Heads(words, some) /\ j \in Heads(words, others)
              /\ ~(words[j] \in some <=> words[j] \in others)
<1> DEFINE A == Heads(words, some)
           B == Heads(words, others)
           T == {m \in 1..Len(words) : ~(m \in A <=> m \in B)}
<1>1. Scans(A, words, some, Len(words)) /\ Scans(B, words, others, Len(words))
  BY HeadsScan
<1>2. Len(words) \in Nat /\ T \in SUBSET Nat /\ T # {} /\ i \in T
  OBVIOUS
<1> HIDE DEF A, B
<1>3. PICK m \in T : \A k \in T : m <= k
  <2> HIDE DEF T
  <2>1. QED
    BY <1>2, LeastNumber
<1>4. m \in 1..Len(words) /\ ~(m \in A <=> m \in B) /\ m <= i
  BY <1>2, <1>3
<1>5. m # 1
  BY <1>1, <1>4 DEF Scans
<1>6. m - 1 \in 1..Len(words) /\ m - 1 < i /\ ~(m <= m - 1)
  BY <1>2, <1>4, <1>5
<1>7. m - 1 \in A <=> m - 1 \in B
  BY <1>3, <1>6
<1>8. /\ m \in A <=> ~(m - 1 \in A /\ words[m - 1] \in some)
      /\ m \in B <=> ~(m - 1 \in B /\ words[m - 1] \in others)
  BY <1>1, <1>4, <1>5 DEF Scans
<1>9. m - 1 \in A /\ m - 1 \in B /\ ~(words[m - 1] \in some <=> words[m - 1] \in others)
  BY <1>4, <1>7, <1>8
<1>10. QED
  BY <1>6, <1>9 DEF A, B

\* What the parser of a plan reads.
PlanReadings(options, words) == Readings(options, words, FALSE)

(* What the parser takes for positional words and for flags stands at      *)
(* places it looked at, and the flags are declared.                        *)
LEMMA PlanReading ==
    ASSUME NEW S, NEW words \in Seq(S), NEW options,
           NEW q \in PlanReadings(options, words)
    PROVE  LET heads == Heads(words, Valued(options)) IN
           /\ q = [words |-> q.words, values |-> q.values]
           /\ \A w \in Range(q.words) :
                 \E i \in heads \cap DOMAIN words : words[i] = w /\ w \notin Dash
           /\ \A i \in heads : words[i] \in Dash =>
                 \E o \in options : o.flag = words[i]
<1> DEFINE heads   == Heads(words, Valued(options))
           ends    == {i \in heads : FALSE /\ words[i] = "--"}
           stop    == IF ends = {} THEN Len(words) + 1 ELSE Min(ends)
           flags   == {i \in heads : i < stop /\ words[i] \in Dash}
           inline  == {i \in flags : FALSE /\ words[i] \in DOMAIN Inline}
           flag(i) == IF i \in inline THEN Inline[words[i]].flag ELSE words[i]
           text(i) == IF i \in inline THEN Inline[words[i]].value ELSE words[i + 1]
           fits(i, o) ==
               /\ o.flag = flag(i)
               /\ IF Boolean(o) THEN i \notin inline
                  ELSE (i \in inline \/ i < Len(words)) /\ Coerces(o, text(i))
           read(o, i) == IF Boolean(o) THEN (IF o.kind = "bool" THEN "on" ELSE "off")
                         ELSE text(i)
           given(o) == {i \in flags : flag(i) = o.flag}
           plain == WordsAt(words, {i \in heads : i < stop} \ flags)
                       \o SubSeq(words, stop + 1, Len(words))
           values == [f \in {flag(i) : i \in flags} |->
                        LET o == CHOOSE o \in options : o.flag = f
                        IN  read(o, Max(given(o)))]
<1>1. PlanReadings(options, words) =
         IF \E i \in flags : \A o \in options : ~fits(i, o) THEN {}
         ELSE {[words |-> plain, values |-> values]}
  BY DEF PlanReadings, Readings, heads
<1>2. heads \in SUBSET (1..Len(words)) /\ DOMAIN words = 1..Len(words) /\ Len(words) \in Nat
  BY HeadsScan DEF Scans
<1> HIDE DEF heads
<1>3. stop = Len(words) + 1 /\ inline = {}
  OBVIOUS
<1>4. \A i \in heads : i < Len(words) + 1
  BY <1>2
<1>5. \A i \in heads : i \in flags <=> words[i] \in Dash
  BY <1>3, <1>4
<1>6. \A i, o : fits(i, o) => o.flag = words[i]
  BY <1>3
<1>7. plain = WordsAt(words, heads \ flags)
  <2>1. {i \in heads : i < stop} = heads
    BY <1>3, <1>4
  <2>2. SubSeq(words, Len(words) + 1 + 1, Len(words)) = <<>>
    OBVIOUS
  <2>3. plain = WordsAt(words, heads \ flags) \o <<>>
    BY <1>3, <2>1, <2>2
  <2> DEFINE first == WordsAt(words, heads \ flags)
  <2>4. first \in Seq(Range(words))
    BY WordsAtRange
  <2> HIDE DEF first
  <2>5. first \o <<>> = first
    BY <2>4, ConcatEmptySeq
  <2>6. QED
    BY <2>3, <2>5 DEF first
<1> HIDE DEF plain, values, fits
<1>8. (~\E i \in flags : \A o \in options : ~fits(i, o))
         /\ q = [words |-> plain, values |-> values]
  BY <1>1
<1>9. ASSUME NEW w \in Range(q.words)
      PROVE  \E i \in heads \cap DOMAIN words : words[i] = w /\ w \notin Dash
  <2>1. w \in Range(WordsAt(words, heads \ flags))
    BY <1>7, <1>8, <1>9
  <2>2. PICK i \in (heads \ flags) \cap DOMAIN words : words[i] = w
    BY <2>1, WordsAtRange
  <2> HIDE DEF flags
  <2>3. QED
    BY <1>5, <2>2
<1>10. ASSUME NEW i \in heads, words[i] \in Dash
       PROVE  \E o \in options : o.flag = words[i]
  <2>1. i \in flags
    BY <1>5, <1>10
  <2> HIDE DEF flags
  <2>2. QED
    BY <1>6, <1>8, <2>1
<1>11. q = [words |-> q.words, values |-> q.values]
  BY <1>8
<1>12. QED
  BY <1>9, <1>10, <1>11 DEF heads

(* What planning checks on top of the parser: the declaration, the         *)
(* required options and the groups.                                        *)
LEMMA PlannedReading ==
    ASSUME NEW s, NEW x, NEW S, NEW words \in Seq(S), NEW r \in PlannedArgs(s, x, words)
    PROVE  LET options == PlanOptions(s, x)
               H == Heads(words, Valued(options))
           IN  \E q :
                  /\ r.words = q.words /\ DeclaredArgs(x, words)
                  /\ RequiredGiven(options, r.values) /\ Allowed(options, r.values)
                  /\ \A w \in Range(q.words) :
                        \E i \in H \cap DOMAIN words : words[i] = w /\ w \notin Dash
                  /\ \A i \in H : words[i] \in Dash => \E o \in options : o.flag = words[i]
<1> DEFINE options == PlanOptions(s, x)
           complete(q) == [q EXCEPT !.values = WithDefaults(options, q.values)]
           H == Heads(words, Valued(options))
<1>1. PICK q \in PlanReadings(options, words) :
         /\ r = complete(q) /\ DeclaredArgs(x, words)
         /\ RequiredGiven(options, complete(q).values)
         /\ Allowed(options, complete(q).values)
  BY DEF PlannedArgs, PlanReadings
<1> HIDE DEF options
<1>2. /\ q = [words |-> q.words, values |-> q.values]
      /\ \A w \in Range(q.words) :
            \E i \in H \cap DOMAIN words : words[i] = w /\ w \notin Dash
      /\ \A i \in H : words[i] \in Dash => \E o \in options : o.flag = words[i]
  <2> HIDE DEF complete
  <2>1. QED
    BY PlanReading, Zenon
<1>3. r.words = q.words /\ RequiredGiven(options, r.values) /\ Allowed(options, r.values)
  BY <1>1, <1>2
<1> HIDE DEF H
<1>4. QED
  BY <1>1, <1>2, <1>3 DEF options, H

(* Both scanners together leave no word to the adapter that was not        *)
(* checked, except behind a flag on which they part.                       *)
LEMMA PlannedIsChecked ==
    ASSUME NEW s, NEW x, x.declares \subseteq Long, NEW S, NEW words \in Seq(S),
           NEW r \in PlannedArgs(s, x, words), NEW call, call.words = r.words,
           call.values = Encoded(PlanOptions(s, x), r.values)
    PROVE  Checked(s, x, words, call)
<1> DEFINE options == PlanOptions(s, x)
           H == Heads(words, Valued(options))
<1>1. PICK q :
         /\ r.words = q.words /\ DeclaredArgs(x, words)
         /\ RequiredGiven(options, r.values) /\ Allowed(options, r.values)
         /\ \A w \in Range(q.words) :
               \E i \in H \cap DOMAIN words : words[i] = w /\ w \notin Dash
         /\ \A i \in H : words[i] \in Dash => \E o \in options : o.flag = words[i]
  BY PlannedReading
<1> HIDE DEF options, H
<1> DEFINE given == {v.flag : v \in call.values}
<1>4. \A v : v \in call.values <=>
         \E o \in options : /\ v = [flag |-> o.flag, value |-> r.values[o.flag]]
                            /\ o.flag \in DOMAIN r.values
                            /\ o.kind = "bool" => r.values[o.flag] = "on"
                            /\ o.kind = "store_false" => r.values[o.flag] = "off"
  BY DEF Encoded, options
<1>5. \A o \in options : o.required /\ ~Boolean(o) => o.flag \in given
  <2>1. ASSUME NEW o \in options, o.required, ~Boolean(o) PROVE o.flag \in given
    <3>1. o.flag \in DOMAIN r.values /\ o.kind # "bool" /\ o.kind # "store_false"
      BY <1>1, <2>1 DEF RequiredGiven, Boolean
    <3>2. [flag |-> o.flag, value |-> r.values[o.flag]] \in call.values
      BY <1>4, <2>1, <3>1
    <3>3. QED
      BY <3>2
  <2>2. QED
    BY <2>1
<1>6. \A v \in call.values : \E o \in options : o.flag = v.flag /\ WithinBounds(o, v.value)
  BY <1>1, <1>4 DEF Allowed
<1>7. \A f \in given : f \in DOMAIN r.values
  BY <1>4
<1>8. \A o, p \in options :
         {o.flag, p.flag} \subseteq given /\ o.group # Unset /\ o.group = p.group => o = p
  <2> HIDE DEF given
  <2>1. QED
    BY <1>1, <1>7 DEF Allowed, Exclusive
<1> HIDE DEF given
<1>9. ASSUME NEW w \in Range(call.words), ~ArbitraryWords(x), w \notin x.prefixed
      PROVE  \E i \in DOMAIN words, j \in DOMAIN words :
                j < i /\ words[i] = w /\ Disputed(x, options, words[j])
  <2> DEFINE D == Heads(words, DeclaredFlags(x))
  <2>2. PICK i \in H \cap DOMAIN words : words[i] = w /\ w \notin Dash
    BY <1>1, <1>9
  <2>3. DeclaredFlags(x) \subseteq Dash
    BY WordAssumption DEF DeclaredFlags, Controls
  <2>4. i \notin D
    BY <1>1, <1>9, <2>2, <2>3 DEF DeclaredArgs
  <2>5. DOMAIN words = 1..Len(words)
    OBVIOUS
  <2>6. PICK j \in 1..Len(words) :
           /\ j < i /\ j \in H
           /\ ~(words[j] \in Valued(options) <=> words[j] \in DeclaredFlags(x))
    BY <2>2, <2>4, <2>5, ScannersPart DEF H
  <2> HIDE DEF D
  <2>7. Disputed(x, options, words[j])
    <3>1. CASE words[j] \in Valued(options)
      BY <2>6, <3>1 DEF Disputed, Valued
    <3>2. CASE words[j] \notin Valued(options)
      <4>1. words[j] \in DeclaredFlags(x) /\ words[j] \in Dash
        BY <2>3, <2>6, <3>2
      <4>2. PICK o \in options : o.flag = words[j]
        BY <1>1, <2>6, <4>1
      <4>3. Boolean(o)
        BY <3>2, <4>2 DEF Valued
      <4>4. QED
        BY <4>1, <4>2, <4>3 DEF Disputed
    <3>3. QED
      BY <3>1, <3>2
  <2>8. QED
    BY <2>2, <2>5, <2>6, <2>7
<1>10. QED
  BY <1>5, <1>6, <1>8, <1>9 DEF Checked, options, given

-----------------------------------------------------------------------------
(* What the connector reads once more *)

\* The last of some places is one of them.
LEMMA GreatestPlace ==
    ASSUME NEW n \in Nat, NEW P \in SUBSET (1..n), P # {}
    PROVE  Max(P) \in P
<1> DEFINE T == {n - m : m \in P}
<1>1. T \in SUBSET Nat /\ T # {}
  <2>1. \A m \in P : n - m \in Nat
    OBVIOUS
  <2>2. T \in SUBSET Nat
    BY <2>1
  <2>3. T # {}
    OBVIOUS
  <2>4. QED
    BY <2>2, <2>3
<1>2. PICK t \in T : \A k \in T : t <= k
  <2> HIDE DEF T
  <2>1. QED
    BY <1>1, LeastNumber
<1>3. PICK m \in P : t = n - m
  BY <1>2
<1>4. \A k \in P : m >= k
  <2>1. ASSUME NEW k \in P PROVE m >= k
    <3>1. n - m <= n - k
      BY <1>2, <1>3
    <3>2. m \in Nat /\ k \in Nat
      OBVIOUS
    <3>3. QED
      BY <3>1, <3>2
  <2>2. QED
    BY <2>1
<1>5. QED
  BY <1>4 DEF Max

\* Only the words that are there count.
LEMMA SameScan ==
    ASSUME NEW S, NEW words \in Seq(S), NEW some, NEW others,
           \A w \in Range(words) : w \in some <=> w \in others
    PROVE  Heads(words, some) = Heads(words, others)
<1>1. \A j \in 1..Len(words) : words[j] \in some <=> words[j] \in others
  BY DEF Range
<1>2. \A i \in 1..Len(words) : i \in Heads(words, some) <=> i \in Heads(words, others)
  BY <1>1, ScannersPart
<1>3. /\ Heads(words, some) \in SUBSET (1..Len(words))
      /\ Heads(words, others) \in SUBSET (1..Len(words))
  BY HeadsScan DEF Scans
<1>4. QED
  BY <1>2, <1>3

\* Where a word stands.
Places(words, w) == {i \in 1..Len(words) : words[i] = w}

\* What the connector does not refuse.
ControlsRead(words, r) ==
    /\ \A c \in Controls :
          /\ Places(words, c) = {i \in Heads(words, Controls) : words[i] = c}
          /\ \A i \in Places(words, c) : i < Len(words)
    /\ \A i \in Places(words, "--projection") : words[i + 1] \in {"compact", "full"}
    /\ Places(words, "--projection") # {} =>
          r.projection = words[Max(Places(words, "--projection")) + 1]
    /\ Places(words, "--limit") # {} =>
          r.limit = Numeral[words[Max(Places(words, "--limit")) + 1]]

\* parse_controls takes each control for one, and reads the last of each.
LEMMA ReadByConnector ==
    ASSUME NEW S, NEW words \in Seq(S), NEW limit, NEW most,
           NEW r \in ReadControls(words, limit, most)
    PROVE  ControlsRead(words, r)
<1> DEFINE heads == Heads(words, Controls)
           at(c) == {i \in heads : words[i] = c}
           value(c, default) == IF at(c) = {} THEN default ELSE words[Max(at(c)) + 1]
           number(i) == words[i + 1] \in DOMAIN Numeral
           refused ==
               \/ \E i \in heads : words[i] = "--shape"
               \/ \E c \in Controls : \E i \in at(c) : i = Len(words)
               \/ \E i \in at("--limit") :
                     ~number(i) \/ Numeral[words[i + 1]] \notin 1..most
               \/ \E i \in at("--cursor") :
                     ~number(i) \/ Numeral[words[i + 1]] < 0
               \/ \E i \in at("--projection") : words[i + 1] \notin {"compact", "full"}
           read == [words |-> WordsAt(words, {i \in heads : words[i] \notin Controls}),
                    limit |-> IF at("--limit") = {} THEN limit
                              ELSE Numeral[value("--limit", "")],
                    cursor |-> IF at("--cursor") = {} THEN 0
                               ELSE Numeral[value("--cursor", "")],
                    projection |-> value("--projection", "compact")]
<1>1. ReadControls(words, limit, most) = IF refused THEN {} ELSE {read}
  BY DEF ReadControls
<1>2. Scans(heads, words, Controls, Len(words)) /\ Len(words) \in Nat
  BY HeadsScan
<1> HIDE DEF heads
<1>3. ~refused /\ r = read
  <2> HIDE DEF refused, read
  <2>1. QED
    BY <1>1
<1>4. /\ \A c \in Controls : \A i \in at(c) : i # Len(words)
      /\ \A i \in at("--limit") : number(i)
      /\ \A i \in at("--cursor") : number(i)
      /\ \A i \in at("--projection") : words[i + 1] \in {"compact", "full"}
  BY <1>3
<1>5. ASSUME NEW i \in 1..Len(words), words[i] \in Controls
      PROVE  i \in heads
  <2>1. SUFFICES ASSUME i \notin heads PROVE FALSE
    OBVIOUS
  <2>2. i - 1 \in heads /\ words[i - 1] \in Controls
    BY <1>2, <2>1 DEF Scans
  <2>3. i - 1 + 1 = i
    BY <1>2
  <2>4. words[i] \in DOMAIN Numeral \cup {"compact", "full"}
    BY <1>4, <2>2, <2>3 DEF Controls
  <2>5. words[i] \in Long /\ words[i] \notin {"compact", "full"}
    BY <1>5, WordAssumption DEF Controls
  <2>6. QED
    BY <2>4, <2>5, WordAssumption
<1>6. \A c \in Controls : Places(words, c) = at(c)
  <2>1. heads \in SUBSET (1..Len(words))
    BY <1>2 DEF Scans
  <2>2. QED
    BY <1>5, <2>1 DEF Places
<1>7. {"--projection", "--limit"} \subseteq Controls
  BY DEF Controls
<1>8. ASSUME NEW c \in Controls, NEW i \in Places(words, c) PROVE i < Len(words)
  <2>1. i # Len(words) /\ i \in 1..Len(words)
    BY <1>4, <1>6, <1>8 DEF Places
  <2>2. QED
    BY <1>2, <2>1
<1>9. at("--projection") # {} => r.projection = words[Max(at("--projection")) + 1]
  BY <1>3
<1>10. at("--limit") # {} => r.limit = Numeral[words[Max(at("--limit")) + 1]]
  BY <1>3
<1>11. \A c \in Controls : at(c) = {i \in Heads(words, Controls) : words[i] = c}
  BY DEF heads
<1> HIDE DEF at, read, refused
<1>12. QED
  BY <1>4, <1>6, <1>7, <1>8, <1>9, <1>10, <1>11 DEF ControlsRead

\* What AdapterReadsWhatWasChecked says of a call.
Agreed(x, words, projection, r) ==
    /\ projection # Unset /\ "--projection" \in Range(words) => r.projection = projection
    /\ Range(words) \cap (DeclaredFlags(x) \ Controls) = {} =>
          /\ "--projection" \in Range(words) => r.projection \in x.projections
          /\ "--cursor" \in Range(words) => x.collection.cursor
          /\ "--limit" \in Range(words) /\ x.collection.max # Unset
                => r.limit <= x.collection.max

\* The projection the connector reads is the one the framework selects.
LEMMA ProjectionAgrees ==
    ASSUME NEW S, NEW words \in Seq(S), NEW r, ControlsRead(words, r), NEW x,
           "--projection" \in Range(words)
    PROVE  r.projection = SelectedProjection(x, words)
<1> DEFINE P == Places(words, "--projection")
           H == Heads(words, {"--projection"})
           given == {i \in H : words[i] = "--projection" /\ i < Len(words)}
<1>1. P # {}
  BY DEF Range, Places
<1>2. "--projection" \in Controls
  BY DEF Controls
<1>3. Scans(H, words, {"--projection"}, Len(words)) /\ Len(words) \in Nat
  BY HeadsScan
<1> HIDE DEF H
<1>4. P \subseteq H
  <2>1. SUFFICES ASSUME NEW i \in P, i \notin H PROVE FALSE
    OBVIOUS
  <2>2. i \in 1..Len(words) /\ words[i] = "--projection"
    BY DEF Places
  <2>3. i - 1 \in H /\ words[i - 1] = "--projection"
    BY <1>3, <2>1, <2>2 DEF Scans
  <2>4. i - 1 \in P /\ i - 1 + 1 = i
    BY <1>3, <2>2, <2>3 DEF Scans, Places
  <2>5. words[i] \in {"compact", "full"}
    BY <2>4 DEF ControlsRead
  <2>6. QED
    BY <2>2, <2>5
<1>5. given = P
  <2>1. H \in SUBSET (1..Len(words))
    BY <1>3 DEF Scans
  <2>2. \A i \in P : i < Len(words)
    BY <1>2 DEF ControlsRead
  <2>3. QED
    BY <1>4, <2>1, <2>2 DEF Places
<1>6. SelectedProjection(x, words) =
         IF given = {} THEN x.projection ELSE words[Max(given) + 1]
  BY DEF SelectedProjection, H
<1> HIDE DEF given, P
<1>7. r.projection = words[Max(P) + 1]
  BY <1>1 DEF ControlsRead, P
<1>8. QED
  BY <1>1, <1>5, <1>6, <1>7

(* Words that a declaration allows are read by the connector as they were  *)
(* checked.                                                                *)
LEMMA DeclaredIsAgreed ==
    ASSUME NEW S, NEW words \in Seq(S), NEW r, ControlsRead(words, r), NEW x,
           DeclaredArgs(x, words), NEW projection, NEW y,
           projection \in {Unset, SelectedProjection(y, words)}
    PROVE  Agreed(x, words, projection, r)
<1>1. projection # Unset /\ "--projection" \in Range(words) => r.projection = projection
  BY ProjectionAgrees
<1>2. ASSUME Range(words) \cap (DeclaredFlags(x) \ Controls) = {}
      PROVE  /\ "--projection" \in Range(words) => r.projection \in x.projections
             /\ "--cursor" \in Range(words) => x.collection.cursor
             /\ "--limit" \in Range(words) /\ x.collection.max # Unset
                   => r.limit <= x.collection.max
  <2>1. Controls \subseteq DeclaredFlags(x)
    BY DEF DeclaredFlags
  <2>2. \A w \in Range(words) : w \in Controls <=> w \in DeclaredFlags(x)
    BY <1>2, <2>1
  <2>3. Heads(words, Controls) = Heads(words, DeclaredFlags(x))
    BY <2>2, SameScan
  <2>4. Len(words) \in Nat /\ DOMAIN words = 1..Len(words)
    OBVIOUS
  <2>5. ASSUME NEW c \in Controls, c \in Range(words)
        PROVE  /\ Places(words, c) # {} /\ Max(Places(words, c)) \in Places(words, c)
               /\ Places(words, c) \subseteq Heads(words, DeclaredFlags(x))
    <3>1. Places(words, c) # {} /\ Places(words, c) \in SUBSET (1..Len(words))
      BY <2>4, <2>5 DEF Range, Places
    <3>2. Max(Places(words, c)) \in Places(words, c)
      BY <2>4, <3>1, GreatestPlace
    <3>3. Places(words, c) \subseteq Heads(words, DeclaredFlags(x))
      BY <2>3 DEF ControlsRead
    <3>4. QED
      BY <3>1, <3>2, <3>3
  <2>6. \A i \in Heads(words, DeclaredFlags(x)) :
           /\ words[i] = "--cursor" => x.collection.cursor
           /\ words[i] = "--projection" => words[i + 1] \in x.projections
           /\ words[i] = "--limit" => LimitAllowed(x, words[i + 1])
    BY DEF DeclaredArgs
  <2>7. \A c : \A i \in Places(words, c) : words[i] = c
    BY DEF Places
  <2>8. {"--projection", "--cursor", "--limit"} \subseteq Controls
    BY DEF Controls
  <2>9. "--projection" \in Range(words) => r.projection \in x.projections
    <3>1. SUFFICES ASSUME "--projection" \in Range(words)
                   PROVE  r.projection \in x.projections
      OBVIOUS
    <3> DEFINE i == Max(Places(words, "--projection"))
    <3>2. i \in Heads(words, DeclaredFlags(x)) /\ words[i] = "--projection"
          /\ Places(words, "--projection") # {}
      BY <2>5, <2>7, <2>8, <3>1
    <3>3. r.projection = words[i + 1]
      BY <3>2 DEF ControlsRead
    <3> HIDE DEF i
    <3>4. QED
      BY <2>6, <3>2, <3>3
  <2>10. "--cursor" \in Range(words) => x.collection.cursor
    BY <2>5, <2>6, <2>7, <2>8
  <2>11. "--limit" \in Range(words) /\ x.collection.max # Unset
            => r.limit <= x.collection.max
    <3>1. SUFFICES ASSUME "--limit" \in Range(words), x.collection.max # Unset
                   PROVE  r.limit <= x.collection.max
      OBVIOUS
    <3> DEFINE i == Max(Places(words, "--limit"))
    <3>2. i \in Heads(words, DeclaredFlags(x)) /\ words[i] = "--limit"
          /\ Places(words, "--limit") # {}
      BY <2>5, <2>7, <2>8, <3>1
    <3>3. r.limit = Numeral[words[i + 1]]
      BY <3>2 DEF ControlsRead
    <3> HIDE DEF i
    <3>4. QED
      BY <2>6, <3>1, <3>2, <3>3 DEF LimitAllowed
  <2>12. QED
    BY <2>9, <2>10, <2>11
<1>3. QED
  BY <1>1, <1>2 DEF Agreed

-----------------------------------------------------------------------------
(* Nothing is called unchecked *)

\* A reference means the same before and after an answer.
LEMMA SameMeaning ==
    ASSUME UNCHANGED <<store, request>>
    PROVE  /\ ref' = ref /\ args' = args /\ Plannable' = Plannable
           /\ Named' = Named /\ (InAction' <=> InAction)
  BY DEF ref, args, Plannable, Named, InAction, Parts

\* An answer that calls nothing has nothing to show for it.
LEMMA NothingCalled ==
    ASSUME answer'.kind # "called"
    PROVE  CallsInv'
  BY DEF CallsInv, PlanCalls, DiscoverCalls

\* Neither a shown answer nor a refusal calls.
LEMMA Uncalled ==
    /\ \A kind : Show(kind) => answer'.kind = kind
    /\ \A why, moves : Refuse(why, moves) => answer'.kind = "refused"
    /\ NoAnswer.kind = "none"
  BY Shown, Refused DEF NoAnswer

\* Only the commands call.
LEMMA ElsewhereCalls ==
    ASSUME InvocationInv, ReadFlags \/ Dispatch \/ Follow \/ Rephrase
    PROVE  CallsInv'
<1>1. CASE ReadFlags
  <2>1. answer' = answer /\ pc = "flags"
    BY <1>1 DEF ReadFlags, EndOfFlags, DoubleDash, UnsupportedFlag, DetailFlag,
                DetailLevel, FormatFlag, Consume, Looking
  <2>2. answer' = NoAnswer
    BY <2>1 DEF InvocationInv, RouteInv
  <2>3. QED
    BY <2>2, Uncalled, NothingCalled
<1>2. CASE Dispatch
  <2>1. \/ answer' = answer /\ pc \in {"prepare", "admit"}
        \/ Show("listing") \/ Show("elsewhere") \/ \E why, moves : Refuse(why, moves)
    BY <1>2 DEF Dispatch, LoadFails, RefuseFormat, Prepare, Orient, RefuseCommand,
                Admit, Delegate
  <2>2. answer = NoAnswer \/ pc = "done"
    BY DEF InvocationInv, RouteInv
  <2>3. QED
    BY <2>1, <2>2, Uncalled, NothingCalled
<1>3. CASE Follow \/ Rephrase
  BY <1>3, Uncalled, NothingCalled DEF Follow, Rephrase, Again
<1>4. QED
  BY <1>1, <1>2, <1>3

\* plan calls what it has checked.
LEMMA PlanStep ==
    ASSUME InvocationInv, RefuseAmbiguous \/ Discover \/ Observe \/ Plan
    PROVE  PlanCalls'
<1>1. SUFFICES ASSUME answer'.kind = "called", request'.command = "plan"
               PROVE  PlanCalls'
  BY DEF PlanCalls
<1>2. Answering
  BY CommandAnswering
<1>3. pc = "plan" /\ request.command = "plan" /\ UNCHANGED <<store, request>>
  BY <1>1, <1>2 DEF Answering, InvocationInv, RouteInv
<1>4. ~Observe
  BY <1>3 DEF Observe, ObserveSubdomain, ObserveUnknown
<1>5. ~Discover
  BY <1>3 DEF Discover, DiscoverById, DiscoverRoot, DiscoverHandle, DiscoverShortcut,
              DiscoverAction, DiscoverSubdomain, DiscoverDomain, DiscoverUnknown,
              Discovering
<1>6. ~RefuseAmbiguous /\ ~PlanUnknown
  BY <1>1, Uncalled DEF RefuseAmbiguous, PlanUnknown
<1>7. PICK x \in Plannable : \E r \in PlannedArgs(store, x, args) :
         Give(Called("plan", x.domain, x.subdomain, VerbOf(x, x.id),
                     r.words, Encoded(PlanOptions(store, x), r.values)))
  BY <1>1, <1>4, <1>5, <1>6, Uncalled DEF Plan, PlanAction
<1>8. PICK r \in PlannedArgs(store, x, args) :
         Give(Called("plan", x.domain, x.subdomain, VerbOf(x, x.id),
                     r.words, Encoded(PlanOptions(store, x), r.values)))
  BY <1>7
<1>9. /\ answer'.call.words = r.words
      /\ answer'.call.values = Encoded(PlanOptions(store, x), r.values)
  BY <1>8 DEF Give, Called, NoAnswer
<1>10. x \in store.actions /\ x.declares \subseteq Long /\ args \in Seq(Range(args))
  <2>1. x \in store.actions
    BY DEF Plannable, Named, ActionsAt, Matches, Shortcuts
  <2>2. QED
    BY <2>1 DEF InvocationInv, InputInv, IsConfiguration, IsRequest, args
<1>11. Checked(store, x, args, answer'.call)
  BY <1>9, <1>10, PlannedIsChecked
<1>12. QED
  BY <1>3, <1>11, SameMeaning DEF PlanCalls

\* An action is called after its own declaration judged the words.
LEMMA AskedCalls ==
    ASSUME UNCHANGED <<store, request>>, NEW x, NEW via, via # "discover",
           NEW asks, NEW verb, NEW synonyms, AskAction(x, via, asks, verb, synonyms),
           \A y \in Named \cup (IF InAction THEN ActionsAt(store, ref[1], ref[2], ref[3])
                                ELSE {}) : y = x
    PROVE  DiscoverCalls'
<1>1. SUFFICES ASSUME answer'.kind = "called" PROVE DiscoverCalls'
  BY DEF DiscoverCalls
<1> DEFINE moves == {Move("discover", r, args) : r \in synonyms}
<1>2. ~Give([NoAnswer EXCEPT !.kind = "interface", !.moves = moves])
  BY <1>1 DEF Give, NoAnswer
<1>3. DeclaredArgs(x, args) /\ Give([Called(via, x.domain, x.subdomain, verb, args, {})
                                        EXCEPT !.moves = moves])
  BY <1>1, <1>2, Uncalled DEF AskAction
<1>4. answer'.call.words = args /\ answer'.call.via = via /\ answer'.projection = Unset
  BY <1>3 DEF Give, Called, NoAnswer
<1>5. \A y \in Contracts' : y = x
  BY <1>4, SameMeaning DEF Contracts
<1>6. QED
  BY <1>3, <1>4, <1>5, SameMeaning DEF DiscoverCalls

(* discover calls what it has checked: a shortcut, an action, or a         *)
(* subdomain by all its discover actions.                                  *)
LEMMA DiscoverStep ==
    ASSUME InvocationInv, RefuseAmbiguous \/ Discover \/ Observe \/ Plan
    PROVE  DiscoverCalls'
<1>1. SUFFICES ASSUME answer'.kind = "called", request'.command = "discover"
               PROVE  DiscoverCalls'
  BY DEF DiscoverCalls
<1>2. Answering
  BY CommandAnswering
<1>3. pc = "discover" /\ request.command = "discover" /\ UNCHANGED <<store, request>>
  BY <1>1, <1>2 DEF Answering, InvocationInv, RouteInv
<1>4. IsRequest(request) /\ IsStore(store)
  BY DEF InvocationInv, InputInv, IsConfiguration
<1>5. ~(Parts(2) /\ Parts(3))
  BY DEF Parts
<1>6. ~Observe /\ ~Plan
  BY <1>3 DEF Observe, ObserveSubdomain, ObserveUnknown, Plan, PlanAction, PlanUnknown
<1>7. ~RefuseAmbiguous /\ ~DiscoverById /\ ~DiscoverRoot /\ ~DiscoverHandle
      /\ ~DiscoverDomain /\ ~DiscoverUnknown
  BY <1>1, Uncalled
     DEF RefuseAmbiguous, DiscoverById, DiscoverRoot, DiscoverHandle, DiscoverDomain,
         DiscoverUnknown
<1>8. CASE DiscoverShortcut
  <2>1. PICK x \in Named :
           AskAction(x, "shortcut", x.query # "no", VerbOf(x, "discover"), {Source(x)})
    BY <1>1, <1>8, Uncalled DEF DiscoverShortcut
  <2>2. ~InAction /\ \A y \in Named : y = x
    BY <1>5, <2>1 DEF Named, InAction, Duplicate
  <2> DEFINE asks == x.query # "no"
  <2>3. AskAction(x, "shortcut", asks, VerbOf(x, "discover"), {Source(x)})
    BY <2>1
  <2> HIDE DEF asks
  <2>4. QED
    BY <1>3, <2>2, <2>3, AskedCalls
<1>9. CASE DiscoverAction
  <2> DEFINE synonyms(x) == IF x.shortcut THEN {<<x.domain, x.public>>} ELSE {}
  <2>1. InAction
    BY <1>9 DEF DiscoverAction
  <2>2. PICK x \in ActionsAt(store, ref[1], ref[2], ref[3]) :
           AskAction(x, "action", x.query = "yes", VerbOf(x, x.id), synonyms(x))
    BY <1>1, <1>9, Uncalled DEF DiscoverAction
  <2>3. Named = {}
    BY <1>5, <2>1 DEF Named, InAction
  <2>4. \A y \in ActionsAt(store, ref[1], ref[2], ref[3]) : y = x
    BY <1>4, <2>2, SourcesIdentify DEF ActionsAt
  <2> DEFINE asks == x.query = "yes"
             names == synonyms(x)
  <2>5. AskAction(x, "action", asks, VerbOf(x, x.id), names)
    BY <2>2
  <2> HIDE DEF asks, names
  <2>6. QED
    BY <1>3, <2>1, <2>3, <2>4, <2>5, AskedCalls
<1>10. CASE DiscoverSubdomain
  <2> DEFINE acts   == ActionsAt(store, ref[1], ref[2], "discover")
             called == Called("discover", ref[1], ref[2], "discover", args, {})
  <2>1. AskSubdomain(ref[1], ref[2])
    BY <1>1, <1>10, Uncalled DEF DiscoverSubdomain
  <2>2. /\ \A x \in acts : DeclaredArgs(x, args)
        /\ \/ Give(called)
           \/ \E x \in acts : Give([called EXCEPT !.projection = SelectedProjection(x, args)])
    BY <1>1, <2>1, Uncalled DEF AskSubdomain
  <2>3. answer'.call.words = args /\ answer'.call.via = "discover"
        /\ (answer'.projection # Unset =>
               \E x \in acts : answer'.projection = SelectedProjection(x, args))
    <3>1. CASE Give(called)
      BY <3>1 DEF Give, Called, NoAnswer
    <3>2. ASSUME NEW x \in acts, Give([called EXCEPT !.projection = SelectedProjection(x, args)])
          PROVE  answer'.call.words = args /\ answer'.call.via = "discover"
                 /\ answer'.projection = SelectedProjection(x, args)
      BY <3>2 DEF Give, Called, NoAnswer
    <3>3. QED
      BY <2>2, <3>1, <3>2
  <2>4. Contracts' = acts
    BY <1>3, <2>3, SameMeaning DEF Contracts
  <2> HIDE DEF acts
  <2>5. QED
    BY <1>3, <2>2, <2>3, <2>4, SameMeaning DEF DiscoverCalls
<1>11. QED
  BY <1>6, <1>7, <1>8, <1>9, <1>10 DEF Discover

\* No step calls unchecked words.
LEMMA CallsStep ==
    ASSUME InvocationInv, CallsInv, [Next]_vars
    PROVE  CallsInv'
<1>1. CASE ReadFlags \/ Dispatch \/ Follow \/ Rephrase
  BY <1>1, ElsewhereCalls
<1>2. CASE RefuseAmbiguous \/ Discover \/ Observe \/ Plan
  BY <1>2, PlanStep, DiscoverStep DEF CallsInv
<1>3. CASE UNCHANGED vars
  <2>1. UNCHANGED <<store, request, answer>>
    BY <1>3 DEF vars
  <2>2. Contracts' = Contracts
    BY <2>1, SameMeaning DEF Contracts
  <2>3. QED
    BY <2>1, <2>2, SameMeaning DEF CallsInv, PlanCalls, DiscoverCalls
<1>4. QED
  BY <1>1, <1>2, <1>3 DEF Next

(* Nothing is called before the declaration of the action has judged its   *)
(* words, and a projection that is reported is selected from those words   *)
(* (commands/discover.py, commands/plan.py).                               *)
THEOREM CallsAreChecked == Spec => []CallsInv
<1>1. Init => CallsInv
  BY Uncalled DEF Init, CallsInv, PlanCalls, DiscoverCalls
<1>2. InvocationInv /\ CallsInv /\ [Next]_vars => CallsInv'
  BY CallsStep
<1>3. QED
  BY <1>1, <1>2, Inductive, PTL DEF Spec

(* What the adapter of a plan gets is what the declaration allows,         *)
(* whatever the words: required options are there, values lie within their *)
(* bounds, one option of a group is given, and a positional word is        *)
(* arbitrary, has a declared prefix, or stands behind a flag to which only *)
(* one of the two scanners gives a value.                                  *)
THEOREM PlansAreChecked == Spec => []PlanIsChecked
<1>1. CallsInv => PlanIsChecked
  BY DEF CallsInv, PlanCalls, PlanIsChecked, Checked
<1>2. QED
  BY <1>1, CallsAreChecked, PTL

(* The connector's own reading of the controls (parse_controls) finds the  *)
(* projection, cursor and limit that the framework checked and reported,   *)
(* unless a flag of the action may have taken a control for its value.     *)
THEOREM AdapterReadsTheSame == Spec => []AdapterReadsWhatWasChecked
<1>1. ASSUME InvocationInv, CallsInv PROVE AdapterReadsWhatWasChecked
  <2>1. SUFFICES ASSUME answer.kind = "called", request.command = "discover",
                        NEW x \in Contracts,
                        NEW r \in ReadControls(answer.call.words, 1, ConnectorMax)
                 PROVE  Agreed(x, answer.call.words, answer.projection, r)
    BY DEF AdapterReadsWhatWasChecked, Contracts, Agreed
  <2>2. /\ answer.call.words = args /\ DeclaredArgs(x, args)
        /\ \E y : answer.projection \in {Unset, SelectedProjection(y, args)}
    BY <1>1, <2>1 DEF CallsInv, DiscoverCalls
  <2>3. args \in Seq(Range(args))
    BY <1>1 DEF InvocationInv, InputInv, IsRequest, args
  <2>4. ControlsRead(args, r)
    BY <2>1, <2>2, <2>3, ReadByConnector
  <2>5. QED
    BY <2>2, <2>3, <2>4, DeclaredIsAgreed
<1>2. QED
  BY <1>1, Inductive, CallsAreChecked, PTL

=============================================================================
