--------------------------- MODULE ProviderRoutes ---------------------------
(***************************************************************************)
(* The decisions of the provider router that keep no state: which links a  *)
(* turn may use (app-server/src/dispatch/mod.rs) and what an error answer  *)
(* of a provider asks the dispatcher to do (router/src/classify.rs and     *)
(* retry_loop.rs).                                                         *)
(*                                                                         *)
(* A model name is a model value; a message is the set of signals its text *)
(* contains, which is all classify_reason looks at.                        *)
(***************************************************************************)
EXTENDS Integers, Sequences, SequencesExt

CONSTANTS
    Provider, Model,
    Catalog,        \* provider_models: the sequence of curated models
    Routable,       \* is_routable_model: a superset of each catalog
    FallbackModels, \* the profile's fallback_models
    DefaultRoute,   \* default_route: the environment's (provider, model)
    NoHint          \* the answer carried no reset delay

ASSUME RouteAssumption ==
    /\ Catalog \in [Provider -> Seq(Model)]
    /\ FallbackModels \in [Provider -> Seq(Model)]
    /\ \A p \in Provider : Range(Catalog[p]) \subseteq Routable[p]
    /\ DefaultRoute \in Provider \X Model
    /\ NoHint \notin Nat

Link == Provider \X Model

----------------------------------------------------------------------------
(* Routes.                                                                 *)

\* resolve_tenant_route: keyed lists the tenant's providers, most recently
\* added first; picks holds the model picked for a provider, if any.
TenantRoute(keyed, picks) ==
    LET stocked == SelectSeq(keyed, LAMBDA p : Catalog[p] # <<>>) IN
    IF keyed # <<>> /\ picks[Head(keyed)] \in Routable[Head(keyed)]
    THEN [root |-> <<Head(keyed), picks[Head(keyed)]>>, others |-> keyed]
    ELSE IF stocked # <<>>
    THEN [root |-> <<Head(stocked), Head(Catalog[Head(stocked)])>>, others |-> keyed]
    ELSE [root |-> DefaultRoute, others |-> <<>>]   \* effective_route_with_providers

\* build_chain_links: the root, its provider's fallback models, then the
\* default model of every other keyed provider that has one.
Chain(root, others) ==
    LET same == SelectSeq(FallbackModels[root[1]], LAMBDA x : x # root[2])
        far  == SelectSeq(others, LAMBDA p : p # root[1] /\ Catalog[p] # <<>>)
    IN  <<root>> \o [i \in DOMAIN same |-> <<root[1], same[i]>>]
                 \o [i \in DOMAIN far |-> <<far[i], Head(Catalog[far[i]])>>]

----------------------------------------------------------------------------
(* Failover.  An answer is [status, signals, hint].                        *)

\* What classify_reason searches the innermost message for.
Signal == {"terminal", "policy", "context", "transient", "billing"}

\* hint: the Retry-After header, else the delay found in the message.
AnswerType == [status : Nat, signals : SUBSET Signal, hint : Nat \cup {NoHint}]

\* classify_reason for a status error.
Reason(a) ==
    CASE "terminal" \in a.signals -> "AuthPermanent"
      [] "terminal" \notin a.signals /\ "policy" \in a.signals -> "ContentPolicyBlocked"
      [] a.signals \cap {"terminal", "policy"} = {} /\ "context" \in a.signals -> "ContextOverflow"
      [] OTHER ->
           IF a.status \in {401, 403} THEN "Auth"
           ELSE IF a.status = 404 THEN "ModelNotFound"
           ELSE IF a.status = 413 THEN "PayloadTooLarge"
           ELSE IF a.status = 529 THEN "Overloaded"
           ELSE IF a.status >= 500 THEN "ServerError"
           ELSE IF "transient" \in a.signals THEN "RateLimit"
           ELSE IF "billing" \in a.signals THEN "Billing"
           ELSE IF a.status = 429 THEN "RateLimit" ELSE "Unknown"

\* action_bits and decide_action in one table; the reasons that would ask for
\* Backoff (Timeout, FormatError) never come out of a status error.
ActionFor(reason) ==
    CASE reason \in {"Auth", "RateLimit"} -> "Rotate"
      [] reason \in {"Billing", "Overloaded", "ServerError", "ModelNotFound", "Unknown"} -> "Fallback"
      [] reason \in {"ContextOverflow", "PayloadTooLarge"} -> "Compress"
      [] reason \in {"AuthPermanent", "ContentPolicyBlocked"} -> "Abort"
=============================================================================
