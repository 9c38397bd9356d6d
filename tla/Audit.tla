-------------------------------- MODULE Audit --------------------------------
(***************************************************************************)
(* `xctx audit`: the framework checks itself, then asks the connectors of  *)
(* the scope for their checks, one call after the other, and publishes one *)
(* verdict.  A connector answers what it likes, or its call raises; how a  *)
(* call comes to its answer is ConnectorCall.                              *)
(*                                                                         *)
(* Sources: libs/xctx/domain/audit.py, commands/audit.py,                  *)
(* protocol/projection.py.                                                 *)
(***************************************************************************)
EXTENDS Naturals, Sequences, FiniteSets, SequencesExt

CONSTANTS
    Domain,     \* the agent domains
    Surface,    \* their subdomains, in the order of the configuration
    DomainOf,   \* the domain of each subdomain
    Statuses,   \* bound of the model: how the domains may be configured
    Breakages,  \* bound of the model: what the framework checks may find
    Reply       \* bound of the model: what a connector may answer

Subdomain == Range(Surface)

\* What an adapter may call the status of a check; "invalid" stands for
\* every other word, "unmapped" for a check that is no mapping at all.
Reported == {"pass", "fail", "warn", "warning", "skip", "invalid", "unmapped"}

\* marked: the payload is an error by its object_type or its command_status.
\* checks counts for a "list" only: the others lack one or have no payload.
AnyReply == [form : {"raises", "missing", "no_list", "list"},
             marked : BOOLEAN, checks : Seq(Reported)]

Framework == <<"config_loaded", "agent_domains_loaded", "config_fingerprint",
               "command_surface", "domain_affordances", "cli_options">>

\* The framework checks that can find something.
Fallible == Range(Framework) \ {"config_loaded", "config_fingerprint"}

ASSUME SurfaceAssumption ==
    /\ Surface \in Seq(Subdomain) /\ IsInjective(Surface)
    /\ Subdomain \cap Range(Framework) = {}
    /\ DomainOf \in [Subdomain -> Domain]
    /\ Statuses \subseteq [Domain \cup Subdomain ->
                              {"online", "offline", "down_for_maintenance"}]
    /\ Breakages \subseteq SUBSET Fallible
    /\ Reply \subseteq AnyReply

VARIABLES
    scope,      \* "root", a domain or a subdomain
    lane,       \* --scope: framework, live or all
    status,     \* the configured status of each domain and subdomain
    broken,     \* the framework checks that find something
    pc,         \* what comes next
    pending,    \* the connectors still to be asked, by their places in Surface
    checks,     \* the checks so far: whose each is, and its status
    replies,    \* what each connector answered (history)
    verdict     \* what is published, with the exit code

request == <<scope, lane, status, broken>>

vars == <<request, pc, pending, checks, replies, verdict>>

Check == [of : Subdomain \cup Range(Framework),
          status : {"pass", "fail", "warn", "skip"}]

TypeOK ==
    /\ scope \in {"root"} \cup Domain \cup Subdomain
    /\ lane \in {"framework", "live", "all"}
    /\ status \in Statuses
    /\ broken \in Breakages
    /\ pc \in {"framework", "live", "published", "aborted"}
    /\ pending \subseteq DOMAIN Surface
    /\ checks \in Seq(Check)
    /\ \A s \in DOMAIN replies : s \in Subdomain /\ replies[s] \in AnyReply

Init ==
    /\ scope \in {"root"} \cup Domain \cup Subdomain
    /\ lane \in {"framework", "live", "all"}
    /\ status \in Statuses
    /\ broken \in Breakages
    /\ pc = "framework"
    /\ pending = {}
    /\ checks = <<>>
    /\ replies = <<>>
    /\ verdict = <<>>

-----------------------------------------------------------------------------
InScope(s) == scope \in {"root", s, DomainOf[s]}

(* _live_audit_subdomains, of subdomains with an entrypoint: whether their *)
(* domain is online does not matter.                                       *)
Selected(s) == InScope(s) /\ status[s] = "online"

\* Mutation check of Findings: only the target of the audit is looked at.
FindingsOfTargetOnly ==
    {x \in Domain \cup Subdomain : status[x] # "online" /\ scope \in {"root", x}}

(* availability_findings: a domain is found with any of its subdomains.    *)
Findings ==
    {x \in Domain \cup Subdomain :
        /\ status[x] # "online"
        /\ \/ scope \in {"root", x}
           \/ x \in Subdomain /\ scope = DomainOf[x]
           \/ scope \in Subdomain /\ x = DomainOf[scope]}

(* framework_audit_checks, which calls no connector.                       *)
CheckFramework ==
    /\ pc = "framework"
    /\ checks' = IF lane = "live" THEN <<>>
                 ELSE [i \in DOMAIN Framework |->
                          [of |-> Framework[i],
                           status |-> IF Framework[i] \in broken
                                      THEN "fail" ELSE "pass"]]
    /\ pending' = IF lane = "framework" THEN {}
                  ELSE {i \in DOMAIN Surface : Selected(Surface[i])}
    /\ pc' = "live"
    /\ UNCHANGED <<request, replies, verdict>>

-----------------------------------------------------------------------------
Normal(reported) ==
    CASE reported \in {"invalid", "unmapped"} -> "fail"
      [] reported = "warning"                 -> "warn"
      [] OTHER                                -> reported

OwnChecks(reply) ==
    CASE reply.form \in {"raises", "no_list"} -> <<"fail">>
      [] reply.form = "missing"               -> <<>>
      [] reply.form = "list"  -> [i \in DOMAIN reply.checks |->
                                     Normal(reply.checks[i])]

\* Mutation check of Normalised: the list is all there is to say.
NormalisedFromList(reply) == OwnChecks(reply)

(* _normalise_live_audit_checks, and the check made of a call that raises. *)
Normalised(reply) ==
    IF reply.marked /\ ~Contains(OwnChecks(reply), "fail")
    THEN Append(OwnChecks(reply), "fail")
    ELSE OwnChecks(reply)

ChecksOf(s, reply) ==
    [i \in DOMAIN Normalised(reply) |-> [of |-> s, status |-> Normalised(reply)[i]]]

\* Mutation check of AskNext: a call that raises ends the loop.
AskUntilRaised(i, reply) ==
    /\ pc = "live" /\ i \in pending /\ \A j \in pending : i <= j
    /\ replies' = [s \in DOMAIN replies \cup {Surface[i]} |->
                    IF s = Surface[i] THEN reply ELSE replies[s]]
    /\ checks' = checks \o ChecksOf(Surface[i], reply)
    /\ pending' = IF reply.form = "raises" THEN {} ELSE pending \ {i}
    /\ UNCHANGED <<request, pc, verdict>>

(* One turn of the loop of live_connector_audit_checks.                    *)
AskNext(i, reply) ==
    /\ pc = "live" /\ i \in pending /\ \A j \in pending : i <= j
    /\ replies' = [s \in DOMAIN replies \cup {Surface[i]} |->
                    IF s = Surface[i] THEN reply ELSE replies[s]]
    /\ checks' = checks \o ChecksOf(Surface[i], reply)
    /\ pending' = pending \ {i}
    /\ UNCHANGED <<request, pc, verdict>>

(* The context of the next call cannot be written: an OSError, which is    *)
(* no XctxError, so the whole audit ends with a store_error and publishes  *)
(* nothing.                                                                *)
Abort ==
    /\ pc = "live" /\ pending # {}
    /\ pc' = "aborted"
    /\ UNCHANGED <<request, pending, checks, replies, verdict>>

-----------------------------------------------------------------------------
Count(word) == Cardinality({i \in DOMAIN checks : checks[i].status = word})

AuditStatus(findings) ==
    IF Count("fail") > 0 THEN "failed"
    ELSE IF Count("warn") > 0 THEN "warnings_present"
    ELSE IF findings # {} THEN "findings_present" ELSE "pass"

(* _project_audit: the places of the checks that stay.  What else depends  *)
(* on the detail level (ids and counts of the checks that are left out) is *)
(* layout.                                                                 *)
Shown(level) ==
    {i \in DOMAIN checks :
        level = "max" \/ checks[i].status \notin {"pass", "skip"}}

(* The rest of audit_payload, its projection, and the exit code of         *)
(* commands/audit.py, which looks at the checks once more.                 *)
Publish ==
    /\ pc = "live" /\ pending = {}
    /\ LET findings == IF lane = "live" THEN {} ELSE Findings
       IN  \E level \in {"basic", "more", "max"} :
              verdict' = [audit_status |-> AuditStatus(findings),
                          findings |-> findings,
                          shown |-> Shown(level),
                          exit |-> IF Count("fail") > 0 THEN 1 ELSE 0]
    /\ pc' = "published"
    /\ UNCHANGED <<request, pending, checks, replies>>

Ask == \E i \in DOMAIN Surface, reply \in Reply : AskNext(i, reply)

Next == CheckFramework \/ Ask \/ Abort \/ Publish

Spec == Init /\ [][Next]_vars

-----------------------------------------------------------------------------
Published == pc = "published"

\* What a connector must not say if it is to count as healthy.
Unhealthy(reply) ==
    \/ reply.marked \/ reply.form \in {"raises", "no_list"}
    \/ reply.form = "list" /\ \E word \in {"fail", "invalid", "unmapped"} :
                                  Contains(reply.checks, word)

(* The audit fails closed: whatever a connector does wrong makes the whole *)
(* audit fail and is shown as a failing check of that connector at every   *)
(* detail level, and nothing else than that or a broken framework makes it *)
(* fail.                                                                   *)
FailsClosed ==
    Published =>
        /\ verdict.exit = 1 <=>
              \/ lane # "live" /\ broken # {}
              \/ \E s \in DOMAIN replies : Unhealthy(replies[s])
        /\ \A s \in DOMAIN replies :
              Unhealthy(replies[s]) <=>
                  \E i \in verdict.shown : checks[i] = [of |-> s, status |-> "fail"]

(* A connector that fails keeps nobody behind it from being asked: all of  *)
(* the scope that is online is asked, and nobody else, and in the          *)
(* framework lane nobody at all.                                           *)
EveryoneIsAsked ==
    Published =>
        DOMAIN replies = IF lane = "framework" THEN {}
                         ELSE {s \in Subdomain : Selected(s)}

(* Connectors that are not online are passed over.  An audit of everything *)
(* (--scope all) that says "pass" has passed over none: each subdomain of  *)
(* the scope, and its domain, is online, was asked, and answered well.     *)
PassCoversTheScope ==
    Published /\ lane = "all" /\ verdict.audit_status = "pass" =>
        \A s \in Subdomain : InScope(s) =>
            /\ status[s] = "online" /\ status[DomainOf[s]] = "online"
            /\ s \in DOMAIN replies /\ ~Unhealthy(replies[s])

=============================================================================
