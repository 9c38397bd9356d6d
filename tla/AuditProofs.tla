----------------------------- MODULE AuditProofs -----------------------------
(***************************************************************************)
(* Proofs about Audit and Repair, for any domains, subdomains and replies. *)
(***************************************************************************)
EXTENDS Repair, FiniteSetTheorems, TLAPS

Words == {"pass", "fail", "warn", "skip"}

\* The connectors asked and those still to be asked make up the scope.
LoopInv ==
    /\ pc = "framework" => DOMAIN replies = {} /\ pending = {} /\ checks = <<>>
    /\ pc # "framework" =>
          /\ \A i \in pending : Surface[i] \notin DOMAIN replies
          /\ DOMAIN replies \cup {Surface[i] : i \in pending} =
                IF lane = "framework" THEN {} ELSE {s \in Subdomain : Selected(s)}

FailingCheckOf(s) == \E i \in DOMAIN checks : checks[i] = [of |-> s, status |-> "fail"]

\* The checks of a connector tell whether its reply was healthy, and those of
\* the framework whether it is broken.
ChecksInv ==
    /\ \A i \in DOMAIN checks : checks[i].of \in Subdomain => checks[i].of \in DOMAIN replies
    /\ \A s \in DOMAIN replies : Unhealthy(replies[s]) <=> FailingCheckOf(s)
    /\ pc # "framework" =>
          ((\E n \in Range(Framework) : FailingCheckOf(n)) <=> lane # "live" /\ broken # {})

VerdictInv ==
    pc = "published" =>
        LET findings == IF lane = "live" THEN {} ELSE Findings
        IN  \E level \in {"basic", "more", "max"} :
              verdict = [audit_status |-> AuditStatus(findings),
                         findings |-> findings,
                         shown |-> Shown(level),
                         exit |-> IF Count("fail") > 0 THEN 1 ELSE 0]

PublishedInv == pc = "published" => pending = {}

AuditInv == TypeOK /\ LoopInv /\ ChecksInv /\ VerdictInv /\ PublishedInv

-----------------------------------------------------------------------------
(* What becomes of a reply. *)

LEMMA TupleIsSeq ==
  ASSUME NEW S, NEW n \in Nat, NEW f \in [1 .. n -> S]
  PROVE  f \in Seq(S) /\ Len(f) = n
  OBVIOUS

LEMMA NormalType ==
  ASSUME NEW word \in Reported
  PROVE  /\ Normal(word) \in Words
         /\ Normal(word) = "fail" <=> word \in {"fail", "invalid", "unmapped"}
  BY DEF Normal, Reported, Words

LEMMA OwnChecksType ==
  ASSUME NEW reply \in AnyReply
  PROVE  /\ OwnChecks(reply) \in Seq(Words)
         /\ reply.form = "list" =>
              /\ DOMAIN OwnChecks(reply) = DOMAIN reply.checks
              /\ \A i \in DOMAIN reply.checks :
                    /\ reply.checks[i] \in Reported
                    /\ OwnChecks(reply)[i] = Normal(reply.checks[i])
  <1>1. reply.checks \in Seq(Reported)
    BY DEF AnyReply
  <1>2. CASE reply.form = "list"
    <2> DEFINE n == Len(reply.checks)
    <2>1. n \in Nat /\ DOMAIN reply.checks = 1 .. n /\ \A i \in 1 .. n : reply.checks[i] \in Reported
      BY <1>1
    <2>2. OwnChecks(reply) = [i \in 1 .. n |-> Normal(reply.checks[i])]
      BY <1>2, <2>1 DEF OwnChecks
    <2>3. \A i \in 1 .. n : Normal(reply.checks[i]) \in Words
      BY <2>1, NormalType
    <2>4. OwnChecks(reply) \in [1 .. n -> Words]
      BY <2>2, <2>3
    <2>5. [1 .. n -> Words] \subseteq Seq(Words)
      BY <2>1
    <2>6. OwnChecks(reply) \in Seq(Words)
      BY <2>4, <2>5
    <2>7. DOMAIN OwnChecks(reply) = DOMAIN reply.checks
      BY <2>1, <2>4
    <2>8. \A i \in 1 .. n : OwnChecks(reply)[i] = Normal(reply.checks[i])
      BY <2>2
    <2> QED BY <2>1, <2>6, <2>7, <2>8
  <1>3. CASE reply.form \in {"raises", "no_list"}
    <2>1. OwnChecks(reply) = <<"fail">>
      BY <1>3 DEF OwnChecks
    <2>2. <<"fail">> \in Seq(Words)
      BY DEF Words
    <2>3. reply.form # "list"
      BY <1>3
    <2> QED BY <2>1, <2>2, <2>3
  <1>4. CASE reply.form = "missing"
    BY <1>4 DEF OwnChecks
  <1> QED BY <1>2, <1>3, <1>4 DEF AnyReply

\* A reply leaves a failing check exactly if something is wrong with it.
LEMMA FailingReply ==
  ASSUME NEW reply \in AnyReply
  PROVE  /\ Normalised(reply) \in Seq(Words)
         /\ Unhealthy(reply) <=>
              \E i \in DOMAIN Normalised(reply) : Normalised(reply)[i] = "fail"
  <1> DEFINE own == OwnChecks(reply)
  <1>1. own \in Seq(Words)
    BY OwnChecksType
  <1>2. Contains(own, "fail") <=> \E i \in DOMAIN own : own[i] = "fail"
    BY <1>1 DEF Contains
  <1>3. Unhealthy(reply) <=> reply.marked \/ Contains(own, "fail")
    <2>1. CASE reply.form = "list"
      <3>1. reply.checks \in Seq(Reported)
        BY DEF AnyReply
      <3>2. Contains(own, "fail") <=>
              \E i \in DOMAIN reply.checks : reply.checks[i] \in {"fail", "invalid", "unmapped"}
        BY <1>2, <2>1, OwnChecksType, NormalType
      <3> QED BY <2>1, <3>1, <3>2 DEF Unhealthy, Contains
    <2>2. CASE reply.form \in {"raises", "no_list"}
      BY <1>2, <2>2 DEF Unhealthy, OwnChecks
    <2>3. CASE reply.form = "missing"
      BY <1>2, <2>3 DEF Unhealthy, OwnChecks
    <2> QED BY <2>1, <2>2, <2>3 DEF AnyReply
  <1>4. CASE reply.marked /\ ~Contains(own, "fail")
    <2>1. Normalised(reply) = Append(own, "fail")
      BY <1>4 DEF Normalised
    <2> QED BY <1>1, <1>3, <1>4, <2>1 DEF Words
  <1>5. CASE ~(reply.marked /\ ~Contains(own, "fail"))
    <2>1. Normalised(reply) = own
      BY <1>5 DEF Normalised
    <2> QED BY <1>1, <1>2, <1>3, <1>5, <2>1
  <1> QED BY <1>4, <1>5

-----------------------------------------------------------------------------
(* The loop. *)

LEMMA InitInv == Init => AuditInv
  <1> SUFFICES ASSUME Init PROVE AuditInv
    OBVIOUS
  <1>1. DOMAIN replies = {} /\ DOMAIN checks = {}
    BY DEF Init
  <1>2. TypeOK
    BY <1>1 DEF Init, TypeOK
  <1> QED BY <1>1, <1>2 DEF Init, AuditInv, LoopInv, ChecksInv, VerdictInv, PublishedInv

LEMMA FrameworkStep ==
  ASSUME AuditInv, CheckFramework
  PROVE  AuditInv'
  <1> USE DEF AuditInv, CheckFramework, request
  <1>1. DOMAIN replies = {} /\ replies' = replies /\ pc' = "live"
    BY DEF LoopInv
  <1>2. Framework \in Seq(Range(Framework)) /\ DOMAIN Framework = 1 .. 6
    BY DEF Framework, Range
  <1>3. /\ checks' \in Seq(Check)
        /\ (\E n \in Range(Framework) : FailingCheckOf(n)') <=> lane # "live" /\ broken # {}
        /\ \A i \in DOMAIN checks' : checks'[i].of \notin Subdomain
    <2>1. CASE lane = "live"
      <3>1. checks' = <<>> /\ DOMAIN checks' = {}
        BY <2>1
      <3> QED BY <2>1, <3>1 DEF FailingCheckOf
    <2>2. CASE lane # "live"
      <3> DEFINE st(n) == IF n \in broken THEN "fail" ELSE "pass"
      <3>1. checks' = [i \in 1 .. 6 |-> [of |-> Framework[i], status |-> st(Framework[i])]]
        BY <1>2, <2>2
      <3>2. \A i \in 1 .. 6 : Framework[i] \in Range(Framework)
        BY <1>2 DEF Range
      <3>3. \A i \in 1 .. 6 : [of |-> Framework[i], status |-> st(Framework[i])] \in Check
        BY <3>2 DEF Check
      <3>4. checks' \in Seq(Check)
        <4>1. checks' \in [1 .. 6 -> Check]
          BY <3>1, <3>3
        <4> QED BY <4>1, TupleIsSeq
      <3>5. \A i \in DOMAIN checks' : checks'[i].of \notin Subdomain
        <4> HIDE DEF st
        <4>1. ASSUME NEW i \in 1 .. 6 PROVE checks'[i].of = Framework[i]
          <5>1. checks'[i] = [of |-> Framework[i], status |-> st(Framework[i])]
            BY <3>1
          <5> QED BY <5>1
        <4> QED BY <3>1, <3>2, <4>1, SurfaceAssumption
      <3>6. broken \subseteq Range(Framework)
        BY SurfaceAssumption DEF TypeOK, Fallible
      <3>7. \A n \in broken : FailingCheckOf(n)'
        <4> TAKE n \in broken
        <4>1. PICK i \in 1 .. 6 : Framework[i] = n
          BY <1>2, <3>6 DEF Range
        <4> QED BY <3>1, <4>1 DEF FailingCheckOf
      <3>8. \A n : FailingCheckOf(n)' => n \in broken
        BY <3>1 DEF FailingCheckOf
      <3> QED BY <2>2, <3>4, <3>5, <3>6, <3>7, <3>8
    <2> QED BY <2>1, <2>2
  <1>4. TypeOK'
    BY <1>1, <1>3 DEF TypeOK
  <1>5. LoopInv'
    <2>1. lane # "framework" => {Surface[i] : i \in pending'} = {s \in Subdomain : Selected(s)}
      BY DEF Subdomain, Range
    <2> QED BY <1>1, <2>1 DEF LoopInv, Selected, InScope
  <1>6. ChecksInv'
    BY <1>1, <1>3 DEF ChecksInv
  <1> QED BY <1>1, <1>4, <1>5, <1>6 DEF VerdictInv, PublishedInv

\* One reply: its checks are added, and it counts.
LEMMA AskStep ==
  ASSUME AuditInv, NEW i \in DOMAIN Surface, NEW reply \in Reply, AskNext(i, reply)
  PROVE  AuditInv'
  <1> USE DEF AuditInv, AskNext, request
  <1> DEFINE s   == Surface[i]
             new == ChecksOf(s, reply)
             old == Len(checks)
  <1>1. reply \in AnyReply /\ s \in Subdomain
    BY SurfaceAssumption DEF Subdomain, Range
  <1>2. s \notin DOMAIN replies
    BY DEF LoopInv
  <1>3. /\ DOMAIN replies' = DOMAIN replies \cup {s}
        /\ replies'[s] = reply
        /\ \A t \in DOMAIN replies : replies'[t] = replies[t]
    BY <1>2
  <1>4. /\ Normalised(reply) \in Seq(Words)
        /\ Unhealthy(reply) <=> \E j \in DOMAIN Normalised(reply) : Normalised(reply)[j] = "fail"
    BY <1>1, FailingReply
  <1>5. /\ new \in Seq(Check)
        /\ \A j \in DOMAIN new : new[j].of = s
        /\ Unhealthy(reply) <=> \E j \in DOMAIN new : new[j] = [of |-> s, status |-> "fail"]
    <2> DEFINE norm == Normalised(reply)
               n    == Len(norm)
    <2>1. n \in Nat /\ DOMAIN norm = 1 .. n /\ \A j \in 1 .. n : norm[j] \in Words
      BY <1>4
    <2>2. new = [j \in 1 .. n |-> [of |-> s, status |-> norm[j]]]
      BY <2>1 DEF ChecksOf
    <2>3. \A j \in 1 .. n : [of |-> s, status |-> norm[j]] \in Check
      BY <1>1, <2>1 DEF Check, Words
    <2> HIDE DEF new
    <2>4. new \in [1 .. n -> Check]
      BY <2>2, <2>3
    <2>5. new \in Seq(Check) /\ DOMAIN new = 1 .. n
      BY <2>1, <2>4, TupleIsSeq
    <2>6. \A j \in 1 .. n : new[j].of = s /\ new[j].status = norm[j]
      BY <2>2
    <2>7. \A j \in 1 .. n : new[j] = [of |-> s, status |-> "fail"] <=> norm[j] = "fail"
      BY <2>2
    <2> HIDE DEF norm
    <2> QED BY <1>4, <2>1, <2>5, <2>6, <2>7 DEF norm
  <1>6. checks \in Seq(Check)
    BY DEF TypeOK
  <1>7. /\ checks' \in Seq(Check)
        /\ \A j \in DOMAIN checks' : \/ j \in DOMAIN checks /\ checks'[j] = checks[j]
                                     \/ \E k \in DOMAIN new : checks'[j] = new[k]
        /\ \A j \in DOMAIN checks : j \in DOMAIN checks' /\ checks'[j] = checks[j]
        /\ \A k \in DOMAIN new : \E j \in DOMAIN checks' : checks'[j] = new[k]
    <2> HIDE DEF new
    <2>1. checks' = checks \o new
      BY DEF new
    <2>2. new \in Seq(Check)
      BY <1>5
    <2>3. /\ checks' \in Seq(Check) /\ DOMAIN checks' = 1 .. (Len(checks) + Len(new))
          /\ \A j \in 1 .. (Len(checks) + Len(new)) :
               checks'[j] = IF j <= Len(checks) THEN checks[j] ELSE new[j - Len(checks)]
      BY <1>6, <2>1, <2>2
    <2>4. /\ DOMAIN checks = 1 .. Len(checks) /\ DOMAIN new = 1 .. Len(new)
          /\ Len(checks) \in Nat /\ Len(new) \in Nat
      BY <1>6, <2>2
    <2>5. \A k \in DOMAIN new : k + Len(checks) \in DOMAIN checks' /\ checks'[k + Len(checks)] = new[k]
      BY <2>3, <2>4
    <2>6. \A j \in DOMAIN checks' : j > Len(checks) => j - Len(checks) \in DOMAIN new
      BY <2>3, <2>4
    <2>7. \A j \in DOMAIN checks : j \in DOMAIN checks' /\ checks'[j] = checks[j]
      BY <2>3, <2>4
    <2>8. \A j \in DOMAIN checks' : j > Len(checks) => checks'[j] = new[j - Len(checks)]
      BY <2>3, <2>4
    <2>9. \A j \in DOMAIN checks' : j > Len(checks) \/ j \in DOMAIN checks
      BY <2>3, <2>4
    <2> QED BY <2>3, <2>5, <2>6, <2>7, <2>8, <2>9
  <1>8. \A x : FailingCheckOf(x)' <=>
                 FailingCheckOf(x) \/ \E k \in DOMAIN new : new[k] = [of |-> x, status |-> "fail"]
    <2> HIDE DEF new
    <2> SUFFICES ASSUME NEW x
                 PROVE  FailingCheckOf(x)' <=>
                          FailingCheckOf(x) \/ \E k \in DOMAIN new : new[k] = [of |-> x, status |-> "fail"]
      OBVIOUS
    <2>1. ASSUME NEW j \in DOMAIN checks', checks'[j] = [of |-> x, status |-> "fail"]
          PROVE  FailingCheckOf(x) \/ \E k \in DOMAIN new : new[k] = [of |-> x, status |-> "fail"]
      BY <1>7, <2>1 DEF FailingCheckOf
    <2>2. FailingCheckOf(x) => FailingCheckOf(x)'
      BY <1>7 DEF FailingCheckOf
    <2>3. ASSUME NEW k \in DOMAIN new, new[k] = [of |-> x, status |-> "fail"]
          PROVE  FailingCheckOf(x)'
      BY <1>7, <2>3 DEF FailingCheckOf
    <2> QED BY <2>1, <2>2, <2>3 DEF FailingCheckOf
  <1> HIDE DEF new
  <1>9. \A x : x # s => (FailingCheckOf(x)' <=> FailingCheckOf(x))
    <2>1. \A x : \A k \in DOMAIN new : new[k] = [of |-> x, status |-> "fail"] => x = s
      BY <1>5
    <2> QED BY <1>5, <1>8
  <1>10. FailingCheckOf(s)' <=> Unhealthy(reply)
    <2>1. ~ FailingCheckOf(s)
      BY <1>1, <1>2 DEF FailingCheckOf, ChecksInv
    <2> QED BY <1>5, <1>8, <2>1
  <1>11. TypeOK'
    BY <1>1, <1>3, <1>7 DEF TypeOK
  <1>12. LoopInv'
    <2>1. \A j \in pending' : Surface[j] # s
      BY SurfaceAssumption DEF IsInjective, TypeOK
    <2>2. {Surface[j] : j \in pending} = {Surface[j] : j \in pending'} \cup {s}
      OBVIOUS
    <2>3. pc = "live" /\ pc' = "live" /\ lane' = lane
      OBVIOUS
    <2>4. \A t : Selected(t)' <=> Selected(t)
      BY DEF Selected, InScope
    <2> QED BY <1>3, <2>1, <2>2, <2>3, <2>4 DEF LoopInv
  <1>13. ChecksInv'
    <2>1. \A j \in DOMAIN checks' : checks'[j].of \in Subdomain => checks'[j].of \in DOMAIN replies'
      BY <1>3, <1>5, <1>7 DEF ChecksInv
    <2>2. \A t \in DOMAIN replies' : Unhealthy(replies'[t]) <=> FailingCheckOf(t)'
      BY <1>2, <1>3, <1>9, <1>10 DEF ChecksInv
    <2>3. \A n \in Range(Framework) : FailingCheckOf(n)' <=> FailingCheckOf(n)
      BY <1>1, <1>9, SurfaceAssumption
    <2> QED BY <2>1, <2>2, <2>3 DEF ChecksInv
  <1> QED BY <1>11, <1>12, <1>13 DEF VerdictInv, PublishedInv

LEMMA PublishStep ==
  ASSUME AuditInv, Publish
  PROVE  AuditInv'
  <1> USE DEF AuditInv, Publish, request
  <1>1. TypeOK'
    BY DEF TypeOK
  <1>2. LoopInv'
    BY DEF LoopInv, Selected, InScope
  <1>3. ChecksInv'
    BY DEF ChecksInv, FailingCheckOf
  <1>4. VerdictInv'
    BY DEF VerdictInv, AuditStatus, Findings, Shown, Count
  <1> QED BY <1>1, <1>2, <1>3, <1>4 DEF PublishedInv

LEMMA AbortStep ==
  ASSUME AuditInv, Abort
  PROVE  AuditInv'
  <1> USE DEF AuditInv, Abort, request
  <1>1. TypeOK'
    BY DEF TypeOK
  <1>2. LoopInv'
    BY DEF LoopInv, Selected, InScope
  <1>3. ChecksInv'
    BY DEF ChecksInv, FailingCheckOf
  <1> QED BY <1>1, <1>2, <1>3 DEF VerdictInv, PublishedInv

LEMMA AuditStutters ==
  ASSUME AuditInv, UNCHANGED vars
  PROVE  AuditInv'
  BY DEF vars, request, AuditInv, TypeOK, LoopInv, ChecksInv, VerdictInv, PublishedInv, FailingCheckOf,
         Selected, InScope, AuditStatus, Findings, Shown, Count

\* The invariant of the audit, whatever the connectors answer.
THEOREM AuditInductive == Spec => []AuditInv
  <1>1. Init => AuditInv
    BY InitInv
  <1>2. AuditInv /\ [Next]_vars => AuditInv'
    BY FrameworkStep, AskStep, AbortStep, PublishStep, AuditStutters DEF Next, Ask
  <1> QED BY <1>1, <1>2, PTL DEF Spec

-----------------------------------------------------------------------------
(* What the invariant says of the verdict. *)

LEMMA CountFacts ==
  ASSUME checks \in Seq(Check), NEW word
  PROVE  /\ Count(word) \in Nat
         /\ Count(word) > 0 <=> \E i \in DOMAIN checks : checks[i].status = word
  <1> DEFINE S == {i \in DOMAIN checks : checks[i].status = word}
  <1>1. Len(checks) \in Nat /\ DOMAIN checks = 1 .. Len(checks)
    OBVIOUS
  <1>2. IsFiniteSet(1 .. Len(checks))
    BY <1>1, FS_Interval
  <1>3. IsFiniteSet(S)
    BY <1>1, <1>2, FS_Subset
  <1>4. Cardinality(S) \in Nat /\ (Cardinality(S) = 0 <=> S = {})
    BY <1>3, FS_CardinalityType, FS_EmptySet
  <1> QED BY <1>4 DEF Count

\* The audit fails closed: the exit code is 1 exactly if a reply was unhealthy or
\* the framework is broken, and every unhealthy connector is shown
\* (_normalise_live_audit_checks, audit_payload, _project_audit).
THEOREM ClosedFailure == Spec => []FailsClosed
  <1>1. AuditInv => FailsClosed
    <2> SUFFICES ASSUME AuditInv, pc = "published"
                 PROVE  /\ verdict.exit = 1 <=>
                             \/ lane # "live" /\ broken # {}
                             \/ \E s \in DOMAIN replies : Unhealthy(replies[s])
                        /\ \A s \in DOMAIN replies :
                             Unhealthy(replies[s]) <=>
                               \E i \in verdict.shown : checks[i] = [of |-> s, status |-> "fail"]
      BY DEF FailsClosed, Published
    <2> USE DEF AuditInv
    <2>1. checks \in Seq(Check) /\ \A i \in DOMAIN checks : checks[i] \in Check
      BY DEF TypeOK
    <2>2. PICK level \in {"basic", "more", "max"} :
             verdict.exit = (IF Count("fail") > 0 THEN 1 ELSE 0) /\ verdict.shown = Shown(level)
      BY DEF VerdictInv
    <2>3. Count("fail") > 0 <=> \E i \in DOMAIN checks : checks[i].status = "fail"
      BY <2>1, CountFacts
    <2>4. \A i \in DOMAIN checks :
            checks[i] = [of |-> checks[i].of, status |-> checks[i].status]
      BY <2>1 DEF Check
    <2>5. (\E i \in DOMAIN checks : checks[i].status = "fail") <=>
            (\E s \in DOMAIN replies : FailingCheckOf(s)) \/ (\E n \in Range(Framework) : FailingCheckOf(n))
      <3>1. ASSUME NEW i \in DOMAIN checks, checks[i].status = "fail"
            PROVE  /\ FailingCheckOf(checks[i].of)
                   /\ checks[i].of \in DOMAIN replies \/ checks[i].of \in Range(Framework)
        BY <2>1, <2>4, <3>1 DEF FailingCheckOf, Check, ChecksInv
      <3> QED BY <3>1 DEF FailingCheckOf
    <2>6. verdict.exit = 1 <=>
            (lane # "live" /\ broken # {}) \/ \E s \in DOMAIN replies : Unhealthy(replies[s])
      BY <2>2, <2>3, <2>5 DEF ChecksInv
    <2>7. \A s : FailingCheckOf(s) <=> \E i \in verdict.shown : checks[i] = [of |-> s, status |-> "fail"]
      BY <2>2 DEF FailingCheckOf, Shown
    <2> QED BY <2>6, <2>7 DEF ChecksInv
  <1> QED BY <1>1, AuditInductive, PTL

\* Every online connector of the scope is asked, and nobody else
\* (_live_audit_subdomains and the loop of live_connector_audit_checks).
THEOREM NobodyIsLeftOut == Spec => []EveryoneIsAsked
  <1>1. AuditInv => EveryoneIsAsked
    <2> SUFFICES ASSUME AuditInv, pc = "published"
                 PROVE  DOMAIN replies = IF lane = "framework" THEN {}
                                         ELSE {s \in Subdomain : Selected(s)}
      BY DEF EveryoneIsAsked, Published
    <2>1. pending = {}
      BY DEF AuditInv, PublishedInv
    <2>2. {Surface[i] : i \in pending} = {}
      BY <2>1
    <2> QED BY <2>2 DEF AuditInv, LoopInv
  <1> QED BY <1>1, AuditInductive, PTL

\* A pass of --scope all covers the whole scope: nothing in it is offline, unasked
\* or unhealthy (availability_findings, _live_audit_subdomains, audit_payload).
THEOREM PassIsComplete == Spec => []PassCoversTheScope
  <1>1. AuditInv => PassCoversTheScope
    <2> SUFFICES ASSUME AuditInv, pc = "published", lane = "all", verdict.audit_status = "pass",
                        NEW s \in Subdomain, InScope(s)
                 PROVE  /\ status[s] = "online" /\ status[DomainOf[s]] = "online"
                        /\ s \in DOMAIN replies /\ ~Unhealthy(replies[s])
      BY DEF PassCoversTheScope, Published
    <2>1. AuditStatus(Findings) = "pass"
      BY DEF AuditInv, VerdictInv
    <2>2. checks \in Seq(Check)
      BY DEF AuditInv, TypeOK
    <2>3. Findings = {} /\ ~(Count("fail") > 0)
      BY <2>1 DEF AuditStatus
    <2>4. DomainOf[s] \in Domain
      BY SurfaceAssumption
    <2>5. status[s] = "online" /\ status[DomainOf[s]] = "online"
      BY <2>3, <2>4 DEF Findings, InScope
    <2>6. s \in DOMAIN replies
      <3>1. {Surface[i] : i \in pending} = {}
        BY DEF AuditInv, PublishedInv
      <3> QED BY <2>5, <3>1 DEF AuditInv, LoopInv, Selected
    <2>7. ~FailingCheckOf(s)
      BY <2>2, <2>3, CountFacts DEF FailingCheckOf
    <2> QED BY <2>5, <2>6, <2>7 DEF AuditInv, ChecksInv
  <1> QED BY <1>1, AuditInductive, PTL

-----------------------------------------------------------------------------
(* Repair. *)

Known(f) == f.of \in Target /\ f.status \in {"offline", "down_for_maintenance"}

\* Before the verdict nothing has been edited; the findings of the last audit are
\* true while nothing is; and an answer is the one of the configuration as it is.
RepairInv ==
    /\ now \in [Target -> {"online", "offline", "down_for_maintenance"}]
    /\ present \subseteq Target
    /\ pc # "published" => now = status /\ present = Target /\ noted = {} /\ repair = NoRepair
    /\ \A f \in noted : Known(f)
    /\ fresh => \A f \in noted : f = Finding(f.of, now) /\ f.of \in present
    /\ pc # "published" => fresh
    /\ repair # NoRepair =>
          \E id : /\ repair.asked = <<id>>
                  /\ repair.answer = IF Resolves(id) THEN RepairAnswer(id.of) ELSE "refused"

LEMMA RepairInitInv == RepairInit => RepairInv
  BY SurfaceAssumption DEF RepairInit, Init, RepairInv, Target, NoRepair

LEMMA AuditStepInv ==
  ASSUME AuditInv, RepairInv, AuditStep
  PROVE  RepairInv'
  <1> USE DEF AuditStep
  <1>1. pc # "published" /\ UNCHANGED <<status, scope, lane, broken>>
    BY DEF Next, CheckFramework, Ask, AskNext, Abort, Publish, request
  <1>2. CASE pc' # "published"
    BY <1>1, <1>2 DEF RepairInv, Resolves, RepairAnswer, Finding
  <1>3. CASE pc' = "published"
    <2>1. Publish
      BY <1>1, <1>3 DEF Next, CheckFramework, Ask, AskNext, Abort
    <2>2. verdict'.findings \subseteq {x \in Target : status[x] # "online"}
      BY <2>1 DEF Publish, Findings, Target
    <2>3. now = status /\ present = Target
      BY <1>1 DEF RepairInv
    <2>4. \A f \in noted' : \E x \in verdict'.findings : f = Finding(x, status)
      BY <1>3
    <2>5. \A f \in noted' : Known(f) /\ f = Finding(f.of, now) /\ f.of \in present
      BY <2>2, <2>3, <2>4 DEF Known, Finding, RepairInv
    <2> QED BY <1>1, <1>3, <2>5 DEF RepairInv, Known, Finding, Resolves, RepairAnswer
  <1> QED BY <1>2, <1>3

LEMMA AuditAgainInv ==
  ASSUME RepairInv, AuditAgain
  PROVE  RepairInv'
  <1>1. noted' = Current /\ now' = now /\ present' = present /\ path' = path
    BY DEF AuditAgain
  <1>2. \A f \in noted' : Known(f) /\ f = Finding(f.of, now) /\ f.of \in present
    <2> TAKE f \in noted'
    <2>1. PICK x \in present : now[x] # "online" /\ f = Finding(x, now)
      BY <1>1 DEF Current
    <2>2. f.of = x /\ f.status = now[x]
      BY <2>1 DEF Finding
    <2> QED BY <2>1, <2>2 DEF Known, RepairInv
  <1> QED BY <1>1, <1>2 DEF AuditAgain, Ready, RepairInv, Known, Finding, vars

LEMMA EditInv ==
  ASSUME RepairInv, Edit
  PROVE  RepairInv'
  BY DEF RepairInv, Edit, Ready, vars, Known, Target, NoRepair

LEMMA RepairOfInv ==
  ASSUME RepairInv, NEW id, RepairOf(id)
  PROVE  RepairInv'
  BY DEF RepairInv, RepairOf, Ready, vars, Known, Finding, Resolves, RepairAnswer

LEMMA RepairStutters ==
  ASSUME RepairInv, UNCHANGED <<vars, repairVars>>
  PROVE  RepairInv'
  BY DEF RepairInv, vars, repairVars, request, Known, Finding, Resolves, RepairAnswer

LEMMA RepairInductive == RepairSpec => [](AuditInv /\ RepairInv)
  <1>1. RepairInit => AuditInv /\ RepairInv
    BY InitInv, RepairInitInv DEF RepairInit
  <1>2. AuditInv /\ RepairInv /\ [RepairNext]_<<vars, repairVars>> => AuditInv' /\ RepairInv'
    <2> SUFFICES ASSUME AuditInv, RepairInv, [RepairNext]_<<vars, repairVars>>
                 PROVE  AuditInv' /\ RepairInv'
      OBVIOUS
    <2>1. CASE AuditStep
      BY <2>1, AuditStepInv, FrameworkStep, AskStep, AbortStep, PublishStep DEF AuditStep, Next, Ask
    <2>2. CASE Edit
      <3>1. UNCHANGED vars
        BY <2>2 DEF Edit
      <3> QED BY <2>2, <3>1, EditInv, AuditStutters
    <2>3. CASE AuditAgain
      <3>1. UNCHANGED vars
        BY <2>3 DEF AuditAgain
      <3> QED BY <2>3, <3>1, AuditAgainInv, AuditStutters
    <2>4. ASSUME NEW id, RepairOf(id) PROVE AuditInv' /\ RepairInv'
      <3>1. UNCHANGED vars
        BY <2>4 DEF RepairOf
      <3> QED BY <2>4, <3>1, RepairOfInv, AuditStutters
    <2>5. CASE UNCHANGED <<vars, repairVars>>
      BY <2>5, RepairStutters, AuditStutters
    <2> QED BY <2>1, <2>2, <2>3, <2>4, <2>5 DEF RepairNext
  <1> QED BY <1>1, <1>2, PTL DEF RepairSpec

\* A repair accepts the id of a finding exactly while an audit would report it, and
\* offers a path exactly to what the finding calls repairable
\* (_resolve_repair_target, repair_payload, availability_findings).
THEOREM RepairIsCurrent == RepairSpec => []RepairFitsFinding
  <1>1. RepairInv => RepairFitsFinding
    <2> SUFFICES ASSUME RepairInv, NEW f \in noted, repair.asked = <<f>>
                 PROVE  /\ repair.answer # "refused" <=>
                             \E g \in Current : g.status = f.status /\ g.of = f.of
                        /\ fresh /\ (f.status = "down_for_maintenance" => ~f.repairable) =>
                             (repair.answer = "path" <=> f.repairable)
      BY DEF RepairFitsFinding
    <2>1. repair.answer = IF Resolves(f) THEN RepairAnswer(f.of) ELSE "refused"
      <3>1. repair # NoRepair
        BY DEF NoRepair
      <3> QED BY <3>1 DEF RepairInv
    <2>2. Known(f)
      BY DEF RepairInv
    <2>3. Resolves(f) <=> f.of \in present /\ f.status = now[f.of]
      BY <2>2 DEF Resolves, Known
    <2>4. RepairAnswer(f.of) # "refused"
      BY DEF RepairAnswer
    <2>5. (\E g \in Current : g.status = f.status /\ g.of = f.of) <=>
            f.of \in present /\ f.status = now[f.of]
      <3>1. ASSUME NEW g \in Current PROVE g.of \in present /\ g.status = now[g.of]
        BY DEF Current, Finding
      <3>2. ASSUME f.of \in present, f.status = now[f.of]
            PROVE  /\ Finding(f.of, now) \in Current
                   /\ Finding(f.of, now).status = f.status /\ Finding(f.of, now).of = f.of
        BY <2>2, <3>2 DEF Current, Finding, Known
      <3> QED BY <3>1, <3>2
    <2>6. ASSUME fresh, f.status = "down_for_maintenance" => ~f.repairable
          PROVE  repair.answer = "path" <=> f.repairable
      <3>1. f = Finding(f.of, now) /\ f.of \in present
        BY <2>6 DEF RepairInv
      <3>2. f.status = now[f.of] /\ (f.repairable <=> f.of \in path)
        <4>1. /\ Finding(f.of, now).status = now[f.of]
              /\ Finding(f.of, now).repairable <=> f.of \in path
          BY DEF Finding
        <4> QED BY <3>1, <4>1, Zenon
      <3>3. repair.answer = RepairAnswer(f.of)
        BY <2>1, <2>3, <3>1, <3>2
      <3> QED BY <2>2, <2>6, <3>2, <3>3 DEF RepairAnswer, Known
    <2> QED BY <2>1, <2>3, <2>4, <2>5, <2>6
  <1> QED BY <1>1, RepairInductive, PTL

=============================================================================
