------------------------------- MODULE Routing -------------------------------
(***************************************************************************)
(* What a reference such as hub::prices or hub::market::prices means in a  *)
(* loaded configuration.  A reference is the sequence of its parts.  The   *)
(* second part may be a subdomain or a shortcut: an action of a subdomain  *)
(* that is published for the whole domain under a name of its own.  What   *)
(* is both, or is published twice, is refused, and the audit looks for it. *)
(*                                                                         *)
(* Sources: libs/xctx/domain/actions.py, domain/routing.py,                *)
(* protocol/actions.py.                                                    *)
(***************************************************************************)
EXTENDS Naturals, Sequences

CONSTANTS
    Domain,     \* ids of the configured domains
    Name        \* ids of subdomains and actions, and names of shortcuts

(* The parts of a loaded store that say what a name means: the subdomains  *)
(* of each domain, and the actions, keyed by domain, subdomain and id.     *)
IsStore(store) ==
    /\ store.subdomains \in [Domain -> SUBSET Name]
    /\ \A x \in store.actions :
          /\ x.domain \in Domain
          /\ x.subdomain \in store.subdomains[x.domain]
          /\ x.id \in Name /\ x.public \in Name
    /\ \A x, y \in store.actions :
          <<x.domain, x.subdomain, x.id>> = <<y.domain, y.subdomain, y.id>>
              => x = y

-----------------------------------------------------------------------------
(* iter_domain_action_configs.                                             *)
Shortcuts(store, d) == {x \in store.actions : x.domain = d /\ x.shortcut}

Matches(store, d, t) == {x \in Shortcuts(store, d) : x.public = t}

(* The two refusals of domain_action_config, in its order.                 *)
Ambiguous(store, d, t) ==
    Matches(store, d, t) # {} /\ t \in store.subdomains[d]

\* Mutation check of Duplicate: the first of several matches is taken.
DuplicateNever(store, d, t) == FALSE

Duplicate(store, d, t) ==
    /\ ~Ambiguous(store, d, t)
    /\ \E x, y \in Matches(store, d, t) : x # y

(* _domain_action_source_ref: where a shortcut is implemented.             *)
Source(x) == <<x.domain, x.subdomain, x.id>>

(* What each refusal offers instead.  The subdomain is offered without the *)
(* arguments of the refused call, an action with them.                     *)
DisambiguationMoves(store, d, t, args) ==
    {[ref |-> Source(x), args |-> args] : x \in Matches(store, d, t)}
        \cup (IF Ambiguous(store, d, t)
              THEN {[ref |-> <<d, t>>, args |-> <<>>]} ELSE {})

(* subdomain_action_config.                                                *)
ActionsAt(store, d, s, a) ==
    {x \in store.actions : Source(x) = <<d, s, a>>}

(* canonical_action_for_structural_token: actions that the token names by  *)
(* their adapter command or their public name, instead of by their id.     *)
CanonicalFor(store, d, s, token) ==
    {x \in store.actions :
        /\ x.domain = d /\ x.subdomain = s /\ x.id # token
        /\ token \in {x.entry, x.named}}

-----------------------------------------------------------------------------
(* domain_affordance_config_check, the audit's own account: for each token *)
(* of a domain the references it may stand for.                            *)
Sources(store, d, t) ==
    {<<d, s>> : s \in store.subdomains[d] \cap {t}}
        \cup {Source(x) : x \in Matches(store, d, t)}

AuditClean(store) ==
    \A d \in Domain, t \in Name :
        \A p, q \in Sources(store, d, t) : p = q

=============================================================================
