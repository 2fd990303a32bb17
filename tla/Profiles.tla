------------------------------ MODULE Profiles ------------------------------
(***************************************************************************)
(* The closed vocabularies a decision is made of (app/agent/reliability.py, *)
(* reasons.py, profiles.py): levels and the route each one leads to, the    *)
(* reason codes by the set they belong to, and for every intent the sources, *)
(* factors and inputs its decision profile names.                            *)
(*                                                                          *)
(* Values are the strings of the source's StrEnums.  "none" stands for      *)
(* Python's None wherever a field is optional.                              *)
(***************************************************************************)
EXTENDS Integers, FiniteSets

CONSTANTS
    Facts,      \* the questions the rules can read off a message (facts.Fact)
    Locales,    \* the languages something is written in (knowledge.Locale)
    Approved    \* the pairs <<fact, locale>> with an approved sentence

ASSUME ApprovedAssumption == Approved \subseteq Facts \X Locales

None == "none"

-----------------------------------------------------------------------------
(* reliability.py: an ordinal scale, so that the weakest factor decides.    *)

UNUSABLE    == 0
REVIEW_ONLY == 1
ACCEPTABLE  == 2
READY       == 3
Levels      == 0..3

\* Assessment.level: the weakest of a non-empty set of ratings.
Weakest(ratings) == CHOOSE l \in ratings : \A m \in ratings : l <= m

Routes == {"direct_response", "clarification", "internal_review", "human_escalation"}

\* _ROUTES: where a level sends a request.  Never "clarification".
RouteAt(level) ==
    CASE level \in {READY, ACCEPTABLE} -> "direct_response"
      [] level = REVIEW_ONLY           -> "internal_review"
      [] level = UNUSABLE              -> "human_escalation"

-----------------------------------------------------------------------------
(* reasons.py: which set a code belongs to is which destination it explains. *)

RiskReasons == {"payment_dispute", "suspected_fraud", "account_compromise", "legal_threat"}
BlockedReasons == {"customer_not_linked", "no_supporting_evidence"}
EscalationReasons == RiskReasons \cup BlockedReasons
ClarificationReasons ==
    {"unresolved_intent", "multiple_intents", "missing_order_id",
     "missing_product_reference", "order_not_found", "product_not_found"}
ReviewReasons ==
    {"source_unavailable", "intent_check_unavailable", "nothing_approved_to_say"}
EvidenceReasons ==
    {"unauthoritative_evidence", "evidence_does_not_cover_the_question",
     "evidence_poorly_matched", "evidence_stale"}

-----------------------------------------------------------------------------
(* profiles.py *)

Sources == {"knowledge_base", "commerce", "history"}
Factors == {"authority", "freshness", "coverage", "relevance"}
Inputs  == {"order_id", "commerce_account", "product_reference"}
Intents == {"return_policy", "shipping_policy", "refund_status",
            "order_status", "product_availability"}

PolicyIntents == {"return_policy", "shipping_policy"}

\* Input.reason: why a request stops when this is absent.
ReasonFor ==
    [order_id          |-> "missing_order_id",
     commerce_account  |-> "customer_not_linked",
     product_reference |-> "missing_product_reference"]

\* DecisionProfile: history is contextual on all five, required on none.
Profile(sources, factors, inputs) ==
    [required   |-> sources,
     contextual |-> {"history"},
     factors    |-> factors,
     inputs     |-> inputs]

PolicyProfile == Profile({"knowledge_base"}, {"authority", "coverage", "relevance"}, {})
CommerceProfile(inputs) ==
    Profile({"commerce"}, {"authority", "freshness", "coverage"}, inputs)

\* PROFILES and profile_for: total over the intents, with no default.
ProfileFor(intent) ==
    CASE intent \in PolicyIntents                     -> PolicyProfile
      [] intent \in {"refund_status", "order_status"} ->
             CommerceProfile({"commerce_account", "order_id"})
      [] intent = "product_availability"              ->
             CommerceProfile({"product_reference"})

\* Proceed.sources: everything a placed request is permitted to read.
Permitted(intent) == ProfileFor(intent).required \cup ProfileFor(intent).contextual

\* DecisionProfile.authority_of: how far a record from a source may carry a claim.
AuthorityOf(intent, source) ==
    CASE source \in ProfileFor(intent).required   -> READY
      [] source \in ProfileFor(intent).contextual -> REVIEW_ONLY
      [] OTHER                                    -> UNUSABLE

=============================================================================
