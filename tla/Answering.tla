------------------------------ MODULE Answering ------------------------------
(***************************************************************************)
(* A placed request turned into a plan (app/agent/answering.py, with the    *)
(* ratings of facts.py and commerce.py): see that it can be served, read    *)
(* the one source that owns its claim, rate what came back, and stop.       *)
(* What a source answered is an argument: SupportAgent draws it.            *)
(***************************************************************************)
EXTENDS Triage, Records, Retrieval

-----------------------------------------------------------------------------
(* Ratings *)

\* facts.coverage_of: whether the evidence states everything that was asked.
CoverageOf(requested, carried) ==
    CASE requested = {}                             -> REVIEW_ONLY
      [] requested # {} /\ requested \subseteq carried -> READY
      [] ~(requested \subseteq carried) /\ requested \cap carried # {} -> REVIEW_ONLY
      [] OTHER                                      -> UNUSABLE

\* _authority_over: the weakest source cited; citing nothing is unusable.
AuthorityOver(intent, cited) ==
    IF cited = {} THEN UNUSABLE ELSE Weakest({AuthorityOf(intent, s) : s \in cited})

\* _rate: every factor the profile requires; one nobody measured is unusable.
Rate(intent, measured) ==
    [f \in ProfileFor(intent).factors |->
        IF f \in DOMAIN measured THEN measured[f] ELSE UNUSABLE]

\* _WHY
Why == [authority |-> "unauthoritative_evidence",
        coverage  |-> "evidence_does_not_cover_the_question",
        relevance |-> "evidence_poorly_matched",
        freshness |-> "evidence_stale"]

\* TemplateLibrary.say: a sentence for every fact asked for, or none at all.
CanSay(requested, locale) ==
    requested # {} /\ \A f \in requested : <<f, locale>> \in Approved

\* A Plan: the rating decides the route; evidence good enough that nobody has
\* written a sentence for is held back, and anything held back says why.
Planned(e, intent, cited, measured) ==
    LET rated  == Rate(intent, measured)
        level  == Weakest({rated[f] : f \in DOMAIN rated})
        direct == RouteAt(level) = "direct_response"
        asked  == FactsIn(e.message)
        says   == direct /\ CanSay(asked, e.locale)
    IN  [kind    |-> "plan",
         reasons |-> CASE says            -> {}
                       [] direct /\ ~says -> {"nothing_approved_to_say"}
                       [] ~direct -> {Why[f] : f \in {g \in DOMAIN rated : rated[g] = level}},
         intent  |-> intent,
         cited   |-> cited,
         level   |-> level,
         wording |-> IF says THEN asked ELSE {}]

-----------------------------------------------------------------------------
(* Written policy *)

\* _from_knowledge_base: rank, cite the winner, rate it.  Finding nothing is a
\* gate with a known outcome and is never scored.
FromKnowledgeBase(e, intent, hits) ==
    IF hits = <<>>
    THEN Stopped("handover", {"no_supporting_evidence"}, intent)
    ELSE LET best == hits[1].entry
         IN  Planned(e, intent, [source |-> "knowledge_base", reference |-> best.reference],
                     [relevance |-> RelevanceOf(hits),
                      coverage  |-> CoverageOf(FactsIn(e.message), best.facts),
                      authority |-> AuthorityOver(intent, {"knowledge_base"})])

-----------------------------------------------------------------------------
(* The shop's own records *)

\* Mutant: an order is asked about on nobody's behalf.
LookupForAnybody(e, intent) ==
    IF intent = "product_availability"
    THEN [asks |-> "product", about |-> e.product, customer |-> None]
    ELSE [asks |-> IF intent = "refund_status" THEN "refund" ELSE "order",
          about |-> e.order, customer |-> None]

\* Sources.look_up: which lookup an intent makes, about which reference and on
\* whose behalf.  A catalogue belongs to no customer.
LookupFor(e, intent) ==
    CASE intent = "product_availability" ->
             [asks |-> "product", about |-> e.product, customer |-> None]
      [] intent = "refund_status" ->
             [asks |-> "refund", about |-> e.order, customer |-> e.customer]
      [] intent = "order_status" ->
             [asks |-> "order", about |-> e.order, customer |-> e.customer]

NotFoundReason(intent) ==
    IF intent = "product_availability" THEN "product_not_found" ELSE "order_not_found"

\* Mutant: anything that is not the row counts as nothing found.
FromCommerceOrNothing(e, intent, answer) ==
    IF IsTheRow(LookupFor(e, intent), answer)
    THEN Planned(e, intent, [source |-> "commerce", reference |-> answer.record.identity],
                 [coverage  |-> CoverageOf(FactsIn(e.message), FactsOf(answer.record)),
                  authority |-> AuthorityOver(intent, {"commerce"}),
                  freshness |-> FreshnessOf(answer.record)])
    ELSE Stopped("clarify", {NotFoundReason(intent)}, intent)

\* _from_commerce: an outage and an answer in no recognised shape both wait
\* for one of us; only a gateway saying "not available" asks the customer.
FromCommerce(e, intent, answer) ==
    CASE answer.shape = "not_available" ->
             Stopped("clarify", {NotFoundReason(intent)}, intent)
      [] IsTheRow(LookupFor(e, intent), answer) ->
             Planned(e, intent, [source |-> "commerce", reference |-> answer.record.identity],
                     [coverage  |-> CoverageOf(FactsIn(e.message), FactsOf(answer.record)),
                      authority |-> AuthorityOver(intent, {"commerce"}),
                      freshness |-> FreshnessOf(answer.record)])
      [] OTHER -> Stopped("review", {"source_unavailable"}, intent)

\* plan_for's gate: a profile requiring a source nobody connected stops before
\* any source is approached.
SourcesMissing(intent) == ProfileFor(intent).required \ Connected # {}
NotConnected(intent) == Stopped("review", {"source_unavailable"}, intent)

=============================================================================
