------------------------- MODULE SupportAgentProofs -------------------------
(***************************************************************************)
(* Whatever messages arrive, whatever the sources answer and however often  *)
(* the process dies: every outcome has a route and reasons that explain it, *)
(* the agent writes the table only as the queue allows, and what a customer *)
(* was told is on file under their case's name.                             *)
(***************************************************************************)
EXTENDS SupportAgent, RetrievalProofs

-----------------------------------------------------------------------------
(* Outcomes: the gates and the ratings *)

\* An outcome has a route, reasons that belong to it, and none only if it is
\* an answer.
Explained(o) ==
    /\ RouteOf(o) \in Routes
    /\ o.reasons \subseteq ReasonsOf[RouteOf(o)]
    /\ o.reasons = {} <=> RouteOf(o) = "direct_response"

\* The four gates' outcomes, each by the set its reasons are from.
LEMMA StoppedIsExplained ==
    ASSUME NEW reasons, reasons # {}, NEW intent
    PROVE  /\ reasons \subseteq EscalationReasons => Explained(Stopped("escalate", reasons, intent))
           /\ reasons \subseteq EscalationReasons => Explained(Stopped("handover", reasons, intent))
           /\ reasons \subseteq ClarificationReasons => Explained(Stopped("clarify", reasons, intent))
           /\ reasons \subseteq ReviewReasons => Explained(Stopped("review", reasons, intent))
<1>1. /\ ReasonsOf["human_escalation"] = EscalationReasons \cup EvidenceReasons
      /\ ReasonsOf["clarification"] = ClarificationReasons
      /\ ReasonsOf["internal_review"] = ReviewReasons \cup EvidenceReasons
    BY DEF ReasonsOf
<1>2. /\ RouteOf(Stopped("escalate", reasons, intent)) = "human_escalation"
      /\ RouteOf(Stopped("handover", reasons, intent)) = "human_escalation"
      /\ RouteOf(Stopped("clarify", reasons, intent)) = "clarification"
      /\ RouteOf(Stopped("review", reasons, intent)) = "internal_review"
    BY DEF RouteOf, Stopped
<1>3. \A kind : Stopped(kind, reasons, intent).reasons = reasons
    BY DEF Stopped
<1> HIDE DEF ReasonsOf, RouteOf, Stopped
<1>4. QED
    BY <1>1, <1>2, <1>3 DEF Explained, Routes

\* A level leads somewhere, and never to a question.
LEMMA LevelsLead ==
    ASSUME NEW l \in Levels
    PROVE  RouteAt(l) \in {"direct_response", "internal_review", "human_escalation"}
BY DEF Levels, RouteAt, READY, ACCEPTABLE, REVIEW_ONLY, UNUSABLE

\* The weakest of some ratings is one of them.
LEMMA WeakestIsOne ==
    ASSUME NEW ratings \in SUBSET Levels, ratings # {}
    PROVE  Weakest(ratings) \in ratings
<1>1. \A l \in ratings : l \in {0, 1, 2, 3}
    BY DEF Levels
<1>2. \E l \in ratings : \A m \in ratings : l <= m
    <2>1. CASE 0 \in ratings
        BY <1>1, <2>1
    <2>2. CASE 0 \notin ratings /\ 1 \in ratings
        BY <1>1, <2>2
    <2>3. CASE 0 \notin ratings /\ 1 \notin ratings /\ 2 \in ratings
        BY <1>1, <2>3
    <2>4. CASE 0 \notin ratings /\ 1 \notin ratings /\ 2 \notin ratings
        <3>1. \A l \in ratings : l = 3
            BY <1>1, <2>4
        <3>2. PICK l \in ratings : TRUE
            OBVIOUS
        <3>3. \A m \in ratings : l <= m
            BY <3>1, <3>2
        <3>4. QED
            BY <3>2, <3>3
    <2>5. QED
        BY <2>1, <2>2, <2>3, <2>4
<1>3. QED
    BY <1>2 DEF Weakest

\* Every intent's profile demands some factors, each of which has a code.
LEMMA FactorsHaveReasons ==
    ASSUME NEW intent \in Intents
    PROVE  /\ ProfileFor(intent).factors # {}
           /\ ProfileFor(intent).factors \subseteq DOMAIN Why
           /\ \A f \in DOMAIN Why : Why[f] \in EvidenceReasons
BY DEF Intents, ProfileFor, PolicyIntents, PolicyProfile, CommerceProfile, Profile, Why,
       EvidenceReasons

\* A plan goes where its rating sends it, or is held back for want of words,
\* and says why.
LEMMA PlansAreExplained ==
    ASSUME NEW e, NEW intent \in Intents, NEW cited, NEW measured,
           \A f \in DOMAIN measured : measured[f] \in Levels
    PROVE  Explained(Planned(e, intent, cited, measured))
<1> DEFINE rated  == Rate(intent, measured)
           level  == Weakest({rated[f] : f \in DOMAIN rated})
           direct == RouteAt(level) = "direct_response"
           says   == direct /\ CanSay(FactsIn(e.message), e.locale)
           weak   == {g \in DOMAIN rated : rated[g] = level}
           plan   == Planned(e, intent, cited, measured)
<1>1. /\ DOMAIN rated = ProfileFor(intent).factors
      /\ \A f \in DOMAIN rated : rated[f] \in Levels
    BY DEF Rate, Levels, UNUSABLE
<1>2. /\ DOMAIN rated # {} /\ \A f \in DOMAIN rated : Why[f] \in EvidenceReasons
    BY <1>1, FactorsHaveReasons
<1> HIDE DEF rated
<1>3. level \in {rated[f] : f \in DOMAIN rated} /\ level \in Levels
    <2>1. {rated[f] : f \in DOMAIN rated} \in SUBSET Levels
        BY <1>1
    <2>2. {rated[f] : f \in DOMAIN rated} # {}
        BY <1>2
    <2>3. QED
        BY <2>1, <2>2, WeakestIsOne
<1>4. weak # {} /\ weak \subseteq DOMAIN rated
    BY <1>3
<1>5. /\ plan.kind = "plan" /\ plan.level = level
      /\ plan.reasons = CASE says            -> {}
                          [] direct /\ ~says -> {"nothing_approved_to_say"}
                          [] ~direct         -> {Why[f] : f \in weak}
    BY DEF Planned, rated
<1> HIDE DEF level, plan, weak
<1>6. RouteOf(plan) = IF plan.reasons = {"nothing_approved_to_say"} THEN "internal_review"
                      ELSE RouteAt(level)
    BY <1>5 DEF RouteOf
<1>7. RouteAt(level) \in {"direct_response", "internal_review", "human_escalation"}
    BY <1>3, LevelsLead
<1>8. says => direct
    OBVIOUS
<1> HIDE DEF says, direct
<1> SUFFICES Explained(plan)
    BY DEF plan
<1>9. CASE says
    <2>1. plan.reasons = {} /\ RouteOf(plan) = "direct_response"
        BY <1>5, <1>6, <1>8, <1>9 DEF direct
    <2>2. QED
        BY <2>1 DEF Explained, Routes
<1>10. CASE direct /\ ~says
    <2>1. plan.reasons = {"nothing_approved_to_say"} /\ RouteOf(plan) = "internal_review"
        BY <1>5, <1>6, <1>10
    <2>2. QED
        BY <2>1 DEF Explained, Routes, ReasonsOf, ReviewReasons
<1>11. CASE ~direct
    <2>1. plan.reasons = {Why[f] : f \in weak}
        BY <1>5, <1>8, <1>11
    <2>2. plan.reasons \subseteq EvidenceReasons /\ plan.reasons # {}
        BY <1>2, <1>4, <2>1
    <2>3. plan.reasons # {"nothing_approved_to_say"}
        BY <2>2 DEF EvidenceReasons
    <2>4. RouteOf(plan) \in {"internal_review", "human_escalation"}
        BY <1>6, <1>7, <1>11, <2>3 DEF direct
    <2>5. EvidenceReasons \subseteq ReasonsOf[RouteOf(plan)]
        BY <2>4 DEF ReasonsOf
    <2>6. QED
        BY <2>2, <2>4, <2>5 DEF Explained, Routes
<1>12. QED
    BY <1>9, <1>10, <1>11

-----------------------------------------------------------------------------
(* Outcomes: triage and the two sources *)

\* Whatever is missing, one of the missing inputs is the worst of them.
LEMMA WorstIsMissing ==
    ASSUME NEW missing \in SUBSET Inputs, missing # {}
    PROVE  WorstMissing(missing) \in missing
<1>1. \A need \in missing : need \in {"commerce_account", "order_id", "product_reference"}
    BY DEF Inputs
<1>2. \E need \in missing :
        \/ need = "commerce_account"
        \/ /\ "commerce_account" \notin missing
           /\ need = "order_id" \/ "order_id" \notin missing
    <2>1. CASE "commerce_account" \in missing
        BY <2>1
    <2>2. CASE "commerce_account" \notin missing /\ "order_id" \in missing
        BY <2>2
    <2>3. CASE "commerce_account" \notin missing /\ "order_id" \notin missing
        BY <2>3
    <2>4. QED
        BY <2>1, <2>2, <2>3
<1>3. QED
    BY <1>2 DEF WorstMissing

\* What comes out of triage goes on under one intent, or stops and says why.
Settled(d) ==
    \/ d.kind = "proceed" /\ d.intent \in Intents
    \/ d.kind # "proceed" /\ Explained(d)

LEMMA PlacedIsSettled ==
    ASSUME NEW e, NEW intent \in Intents
    PROVE  Settled(Placed(e, intent))
<1> DEFINE missing == ProfileFor(intent).inputs \ Known(e)
           reason  == ReasonFor[WorstMissing(missing)]
<1>1. missing \in SUBSET Inputs
    BY DEF Intents, Inputs, ProfileFor, PolicyIntents, PolicyProfile, CommerceProfile, Profile
<1> HIDE DEF missing
<1>2. CASE missing = {}
    <2>1. Placed(e, intent) = Proceed(intent)
        BY <1>2 DEF Placed, missing
    <2>2. QED
        BY <2>1 DEF Settled, Proceed, Stopped
<1>3. CASE missing # {}
    <2>1. reason \in EscalationReasons \/ reason \in ClarificationReasons
        <3>1. WorstMissing(missing) \in Inputs
            BY <1>1, <1>3, WorstIsMissing
        <3>2. QED
            BY <3>1 DEF Inputs, ReasonFor, EscalationReasons, BlockedReasons,
                        ClarificationReasons
    <2> HIDE DEF reason
    <2>2. Placed(e, intent) = IF reason \in EscalationReasons
                              THEN Stopped("escalate", {reason}, intent)
                              ELSE Stopped("clarify", {reason}, intent)
        BY <1>3 DEF Placed, missing, reason
    <2>3. Explained(Placed(e, intent))
        <3>1. {reason} # {}
            OBVIOUS
        <3>2. QED
            BY <2>1, <2>2, <3>1, StoppedIsExplained
    <2>4. Placed(e, intent).kind # "proceed"
        BY <2>2 DEF Stopped
    <2>5. QED
        BY <2>3, <2>4 DEF Settled
<1>4. QED
    BY <1>2, <1>3

\* The phrase rules name intents and dangers this code knows.
LEMMA ReadersKnow ==
    ASSUME NEW message, message \subseteq Sentence
    PROVE  /\ IntentsIn(message) \subseteq Intents
           /\ RisksIn(message) \subseteq RiskReasons
<1>1. \A s \in message : s.names \subseteq Intents /\ s.reports \subseteq RiskReasons
                                               /\ s.mentions \subseteq RiskReasons
    BY DEF Sentence, NamedIntents
<1>2. UNION {s.names : s \in message} \subseteq Intents
    BY <1>1
<1>3. IntentsIn(message) \subseteq Intents
    BY <1>2 DEF IntentsIn, Intents
<1>4. \A s \in message :
        s.reports \cup (IF IsAdvisory(s) THEN {} ELSE s.mentions) \subseteq RiskReasons
    BY <1>1
<1>5. RisksIn(message) \subseteq RiskReasons
    BY <1>4 DEF RisksIn
<1>6. QED
    BY <1>3, <1>5

LEMMA IntentsAreFinite == IsFiniteSet(Intents)
<1>1. Intents = {} \cup {"return_policy"} \cup {"shipping_policy"} \cup {"refund_status"}
                  \cup {"order_status"} \cup {"product_availability"}
    BY DEF Intents
<1>2. QED
    BY <1>1, FS_EmptySet, FS_AddElement, Zenon

\* Triage ends in one of five ways, and a danger in the message leaves only one.
LEMMA TriageBranches ==
    ASSUME NEW e, e.message \subseteq Sentence, NEW classified \in Classifications,
           AsksClassifier(e) \/ classified = None
    PROVE  LET risks == RisksIn(e.message)
               d     == TriageOf(e, classified)
           IN  \/ risks # {} /\ d = Stopped("escalate", risks, None)
               \/ /\ risks = {}
                  /\ \/ d = Stopped("review", {"intent_check_unavailable"}, None)
                     \/ d = Stopped("clarify", {"multiple_intents"}, None)
                     \/ d = Stopped("clarify", {"unresolved_intent"}, None)
                     \/ \E intent \in Intents :
                           /\ d = Placed(e, intent)
                           /\ IntentsIn(e.message) \in {{}, {intent}}
<1> DEFINE risks   == RisksIn(e.message)
           matched == IntentsIn(e.message)
           d       == TriageOf(e, classified)
<1>1. classified # None => matched = {}
    BY DEF AsksClassifier
<1>2. matched \subseteq Intents /\ IsFiniteSet(matched) /\ Cardinality(matched) \in Nat
    BY ReadersKnow, IntentsAreFinite, FS_Subset, FS_CardinalityType
<1>3. matched = {} <=> Cardinality(matched) = 0
    BY <1>2, FS_EmptySet
<1>4. Cardinality(matched) = 1 =>
          /\ (CHOOSE i \in matched : TRUE) \in Intents
          /\ matched = {CHOOSE i \in matched : TRUE}
    <2>1. ASSUME Cardinality(matched) = 1
          PROVE  \E i : matched = {i}
        BY <1>2, <2>1, FS_Singleton
    <2>2. QED
        BY <1>2, <2>1
<1>5. classified = Unavailable \/ classified = None \/ classified \in Intents
    BY DEF Classifications
<1>6. None \notin Intents /\ Unavailable \notin Intents /\ Unavailable # None
    BY DEF None, Unavailable, Intents
<1> HIDE DEF matched
<1>7. CASE risks # {}
    BY <1>7 DEF TriageOf
<1>8. CASE risks = {} /\ classified = Unavailable
    <2>1. matched = {} /\ Cardinality(matched) = 0
        BY <1>1, <1>3, <1>6, <1>8
    <2>2. d = Stopped("review", {"intent_check_unavailable"}, None)
        BY <1>6, <1>8, <2>1 DEF TriageOf, matched
    <2>3. QED
        BY <1>8, <2>2
<1>9. CASE risks = {} /\ Cardinality(matched) > 1
    <2>1. classified = None /\ matched # {} /\ ~(Cardinality(matched) = 1)
        BY <1>1, <1>3, <1>9
    <2>2. d = Stopped("clarify", {"multiple_intents"}, None)
        BY <1>6, <1>9, <2>1 DEF TriageOf, matched
    <2>3. QED
        BY <1>9, <2>2
<1>10. CASE risks = {} /\ matched = {} /\ classified = None
    <2>1. d = Stopped("clarify", {"unresolved_intent"}, None)
        BY <1>3, <1>6, <1>10 DEF TriageOf, matched
    <2>2. QED
        BY <1>10, <2>1
<1>11. CASE risks = {} /\ matched = {} /\ classified \in Intents
    <2>1. d = Placed(e, classified)
        BY <1>3, <1>6, <1>11 DEF TriageOf, matched
    <2>2. QED
        BY <1>11, <2>1 DEF matched
<1>12. CASE risks = {} /\ Cardinality(matched) = 1
    <2>1. classified = None /\ matched # {}
        BY <1>1, <1>3, <1>12
    <2>2. d = Placed(e, CHOOSE i \in matched : TRUE)
        BY <1>6, <1>12, <2>1 DEF TriageOf, matched
    <2>3. QED
        BY <1>4, <1>12, <2>2 DEF matched
<1>13. QED
    BY <1>1, <1>2, <1>3, <1>5, <1>7, <1>8, <1>9, <1>10, <1>11, <1>12

LEMMA TriageSettles ==
    ASSUME NEW e, e.message \subseteq Sentence, NEW classified \in Classifications,
           AsksClassifier(e) \/ classified = None
    PROVE  Settled(TriageOf(e, classified))
<1> DEFINE risks == RisksIn(e.message)
           d     == TriageOf(e, classified)
<1>1. ASSUME NEW kind, kind # "proceed", NEW reasons, NEW intent,
             Explained(Stopped(kind, reasons, intent))
      PROVE  Settled(Stopped(kind, reasons, intent))
    BY <1>1 DEF Settled, Stopped
<1>2. risks \subseteq EscalationReasons
    BY ReadersKnow DEF EscalationReasons
<1>3. /\ {"intent_check_unavailable"} \subseteq ReviewReasons /\ {"intent_check_unavailable"} # {}
      /\ {"multiple_intents"} \subseteq ClarificationReasons   /\ {"multiple_intents"} # {}
      /\ {"unresolved_intent"} \subseteq ClarificationReasons  /\ {"unresolved_intent"} # {}
    BY DEF ReviewReasons, ClarificationReasons
<1>4. /\ Settled(Stopped("review", {"intent_check_unavailable"}, None))
      /\ Settled(Stopped("clarify", {"multiple_intents"}, None))
      /\ Settled(Stopped("clarify", {"unresolved_intent"}, None))
    BY <1>1, <1>3, StoppedIsExplained
<1>5. risks # {} => Settled(Stopped("escalate", risks, None))
    BY <1>1, <1>2, StoppedIsExplained
<1>6. QED
    BY <1>4, <1>5, TriageBranches, PlacedIsSettled

\* Whatever is measured of the evidence is a rating.
LEMMA RatingsAreLevels ==
    /\ \A hits : RelevanceOf(hits) \in Levels
    /\ \A requested, carried : CoverageOf(requested, carried) \in Levels
    /\ \A intent, cited : AuthorityOver(intent, {cited}) \in Levels
    /\ \A row : row.age \in Int /\ row.observed \in {"live", "cached"}
                => FreshnessOf(row) \in Levels
<1>1. UNUSABLE \in Levels /\ REVIEW_ONLY \in Levels /\ ACCEPTABLE \in Levels /\ READY \in Levels
    BY DEF UNUSABLE, REVIEW_ONLY, ACCEPTABLE, READY, Levels
<1>2. \A hits : RelevanceOf(hits) \in Levels
    BY <1>1 DEF RelevanceOf
<1>3. \A requested, carried : CoverageOf(requested, carried) \in Levels
    BY <1>1 DEF CoverageOf
<1>4. ASSUME NEW intent, NEW cited
      PROVE  AuthorityOver(intent, {cited}) \in Levels
    <2>1. AuthorityOf(intent, cited) \in Levels
        BY <1>1 DEF AuthorityOf
    <2>2. {AuthorityOf(intent, s) : s \in {cited}} \in SUBSET Levels
        BY <2>1
    <2>3. {AuthorityOf(intent, s) : s \in {cited}} # {}
        OBVIOUS
    <2>4. Weakest({AuthorityOf(intent, s) : s \in {cited}}) \in Levels
        BY <2>2, <2>3, WeakestIsOne
    <2>5. QED
        BY <2>4 DEF AuthorityOver
<1>5. ASSUME NEW row, row.age \in Int, row.observed \in {"live", "cached"}
      PROVE  FreshnessOf(row) \in Levels
    <2>1. \/ row.age < 0
          \/ row.age \in 0..Ttl
          \/ row.age \in Ttl+1..ReadableFor
          \/ row.age > ReadableFor
        BY <1>5, SourcesAssumption
    <2>2. QED
        BY <1>1, <1>5, <2>1 DEF FreshnessOf
<1>6. QED
    BY <1>2, <1>3, <1>4, <1>5

\* Whatever the policies rank as, the outcome is explained.
LEMMA PolicyIsExplained ==
    ASSUME NEW e, NEW intent \in Intents, NEW hits
    PROVE  Explained(FromKnowledgeBase(e, intent, hits))
<1>1. CASE hits = <<>>
    <2>1. {"no_supporting_evidence"} \subseteq EscalationReasons /\ {"no_supporting_evidence"} # {}
        BY DEF EscalationReasons, BlockedReasons
    <2>2. Explained(Stopped("handover", {"no_supporting_evidence"}, intent))
        BY <2>1, StoppedIsExplained
    <2>3. QED
        BY <1>1, <2>2 DEF FromKnowledgeBase
<1>2. CASE hits # <<>>
    <2> DEFINE best     == hits[1].entry
               cited    == [source |-> "knowledge_base", reference |-> best.reference]
               measured == [relevance |-> RelevanceOf(hits),
                            coverage  |-> CoverageOf(FactsIn(e.message), best.facts),
                            authority |-> AuthorityOver(intent, {"knowledge_base"})]
    <2>1. \A f \in DOMAIN measured : measured[f] \in Levels
        <3>1. DOMAIN measured = {"relevance", "coverage", "authority"}
            OBVIOUS
        <3>2. /\ measured["relevance"] = RelevanceOf(hits)
              /\ measured["coverage"]  = CoverageOf(FactsIn(e.message), best.facts)
              /\ measured["authority"] = AuthorityOver(intent, {"knowledge_base"})
            OBVIOUS
        <3> HIDE DEF measured, best
        <3>3. QED
            BY <3>1, <3>2, RatingsAreLevels
    <2>2. FromKnowledgeBase(e, intent, hits) = Planned(e, intent, cited, measured)
        BY <1>2 DEF FromKnowledgeBase
    <2> HIDE DEF cited, measured
    <2>3. Explained(Planned(e, intent, cited, measured))
        BY <2>1, PlansAreExplained
    <2>4. QED
        BY <2>2, <2>3
<1>3. QED
    BY <1>1, <1>2

\* And whatever the shop's gateway comes back with.
LEMMA CommerceIsExplained ==
    ASSUME NEW e, NEW intent \in Intents, NEW answer,
           answer.shape = "found" =>
               answer.record.age \in Int /\ answer.record.observed \in {"live", "cached"}
    PROVE  Explained(FromCommerce(e, intent, answer))
<1>1. CASE answer.shape = "not_available"
    <2>1. NotFoundReason(intent) \in ClarificationReasons
        BY DEF NotFoundReason, ClarificationReasons
    <2>2. {NotFoundReason(intent)} \subseteq ClarificationReasons /\ {NotFoundReason(intent)} # {}
        BY <2>1
    <2>3. Explained(Stopped("clarify", {NotFoundReason(intent)}, intent))
        BY <2>2, StoppedIsExplained
    <2>4. ~IsTheRow(LookupFor(e, intent), answer)
        BY <1>1 DEF IsTheRow
    <2>5. QED
        BY <1>1, <2>3, <2>4 DEF FromCommerce
<1>2. CASE answer.shape # "not_available" /\ ~IsTheRow(LookupFor(e, intent), answer)
    <2>1. {"source_unavailable"} \subseteq ReviewReasons /\ {"source_unavailable"} # {}
        BY DEF ReviewReasons
    <2>2. Explained(Stopped("review", {"source_unavailable"}, intent))
        BY <2>1, StoppedIsExplained
    <2>3. QED
        BY <1>2, <2>2 DEF FromCommerce
<1>3. CASE answer.shape # "not_available" /\ IsTheRow(LookupFor(e, intent), answer)
    <2> DEFINE cited    == [source |-> "commerce", reference |-> answer.record.identity]
               measured == [coverage  |-> CoverageOf(FactsIn(e.message), FactsOf(answer.record)),
                            authority |-> AuthorityOver(intent, {"commerce"}),
                            freshness |-> FreshnessOf(answer.record)]
    <2>1. answer.shape = "found"
        BY <1>3 DEF IsTheRow
    <2>2. \A f \in DOMAIN measured : measured[f] \in Levels
        <3>1. DOMAIN measured = {"coverage", "authority", "freshness"}
            OBVIOUS
        <3>2. /\ measured["coverage"]  = CoverageOf(FactsIn(e.message), FactsOf(answer.record))
              /\ measured["authority"] = AuthorityOver(intent, {"commerce"})
              /\ measured["freshness"] = FreshnessOf(answer.record)
            OBVIOUS
        <3> HIDE DEF measured
        <3>3. answer.record.age \in Int /\ answer.record.observed \in {"live", "cached"}
            BY <2>1
        <3>4. FreshnessOf(answer.record) \in Levels
            BY <3>3, RatingsAreLevels
        <3>5. QED
            BY <3>1, <3>2, <3>4, RatingsAreLevels
    <2>3. FromCommerce(e, intent, answer) = Planned(e, intent, cited, measured)
        BY <1>3 DEF FromCommerce
    <2> HIDE DEF cited, measured
    <2>4. Explained(Planned(e, intent, cited, measured))
        BY <2>2, PlansAreExplained
    <2>5. QED
        BY <2>3, <2>4
<1>4. QED
    BY <1>1, <1>2, <1>3

\* A profile whose source nobody connected waits for one of us, and says so.
LEMMA UnconnectedIsExplained ==
    ASSUME NEW intent
    PROVE  Explained(NotConnected(intent))
<1>1. {"source_unavailable"} \subseteq ReviewReasons /\ {"source_unavailable"} # {}
    BY DEF ReviewReasons
<1>2. QED
    BY <1>1, StoppedIsExplained DEF NotConnected

-----------------------------------------------------------------------------
(* The agent is the only one that opens cases, and opens them as promised *)

\* What an enquiry keeps of the message it came from.
CameFrom(e, m) ==
    /\ e.message = m.message
    /\ e.customer = m.customer /\ e.order = m.order /\ e.product = m.product

\* How far a message has got says what is known of it.
Attempt(r) ==
    /\ phase[r] \in Pending \cup {"answered"} =>
          reference[r] \in References /\ \E m \in Messages : CameFrom(enquiry[r], m)
    /\ phase[r] = "placed" => decided[r].intent \in Intents
    /\ phase[r] \in {"decided", "recorded", "answered"} => Explained(outcome[r])

Attempts ==
    /\ phase \in [Requests -> Phases]
    /\ DOMAIN enquiry = Requests /\ DOMAIN reference = Requests
    /\ DOMAIN decided = Requests /\ DOMAIN outcome = Requests
    /\ \A r \in Requests : Attempt(r)

\* What a lookup comes back with, where it is a row, is a reading of some age.
LEMMA AnswersAreReadings ==
    ASSUME Attempts, NEW r \in Requests, PlansFrom(r, "commerce"),
           NEW answer \in AnswersTo(Asked(r)), answer.shape = "found"
    PROVE  /\ answer.record.kind \in Kinds /\ Buildable(answer.record)
           /\ answer.record.age \in Int /\ answer.record.observed \in {"live", "cached"}
<1>1. phase[r] = "placed" /\ "commerce" \in ProfileFor(decided[r].intent).required
    BY DEF PlansFrom
<1>2. decided[r].intent \in Intents
    BY <1>1 DEF Attempts, Attempt
<1>3. decided[r].intent \notin PolicyIntents
    BY <1>1 DEF ProfileFor, PolicyIntents, PolicyProfile, Profile
<1>4. PICK m \in Messages : CameFrom(enquiry[r], m)
    BY <1>1 DEF Attempts, Attempt, Pending
<1>5. LookupFor(enquiry[r], decided[r].intent) = LookupFor(m, decided[r].intent)
    BY <1>4 DEF CameFrom, LookupFor
<1>6. answer \in AnswersTo(LookupFor(m, decided[r].intent))
    BY <1>5 DEF Asked
<1>7. QED
    BY <1>2, <1>3, <1>6, GatewayAssumption

\* A step of one message leaves the others where they were.
LEMMA OthersAreLeft ==
    ASSUME Attempts, NEW r \in Requests, NEW s \in Requests, s # r,
           NEW step \in Phases, phase' = [phase EXCEPT ![r] = step],
           enquiry'[s] = enquiry[s], reference'[s] = reference[s],
           decided'[s] = decided[s], outcome'[s] = outcome[s]
    PROVE  Attempt(s)'
<1>1. phase'[s] = phase[s]
    BY DEF Attempts
<1>2. Attempt(s)
    BY DEF Attempts
<1>3. QED
    BY <1>1, <1>2 DEF Attempt

\* A message that arrives is one of the messages, in some language of ours.
LEMMA ReceiveKeepsAttempts ==
    ASSUME Attempts, NEW r \in Requests, NEW message \in Messages, NEW ref \in References,
           Receive(r, message, ref)
    PROVE  Attempts'
<1>1. /\ phase' = [phase EXCEPT ![r] = "received"]
      /\ reference' = [reference EXCEPT ![r] = ref]
      /\ enquiry' = [enquiry EXCEPT ![r] = [message EXCEPT !.locale = LanguageOf(message.locale)]]
      /\ decided' = [decided EXCEPT ![r] = Undecided]
      /\ outcome' = [outcome EXCEPT ![r] = Undecided]
    BY DEF Receive, Enter
<1>2. /\ phase' \in [Requests -> Phases]
      /\ DOMAIN enquiry' = Requests /\ DOMAIN reference' = Requests
      /\ DOMAIN decided' = Requests /\ DOMAIN outcome' = Requests
    BY <1>1 DEF Attempts, Phases, Pending
<1>3. CameFrom([message EXCEPT !.locale = LanguageOf(message.locale)], message)
    BY MessagesAssumption DEF CameFrom
<1>4. Attempt(r)'
    <2>1. phase'[r] = "received" /\ reference'[r] = ref
          /\ enquiry'[r] = [message EXCEPT !.locale = LanguageOf(message.locale)]
        BY <1>1 DEF Attempts
    <2>2. QED
        BY <1>3, <2>1 DEF Attempt
<1>5. ASSUME NEW s \in Requests, s # r
      PROVE  Attempt(s)'
    <2>1. "received" \in Phases
        BY DEF Phases, Pending
    <2>2. QED
        BY <1>1, <1>5, <2>1, OthersAreLeft DEF Attempts
<1>6. QED
    BY <1>2, <1>4, <1>5 DEF Attempts

\* Triage places a message under an intent, or stops it with its reasons.
LEMMA TriageKeepsAttempts ==
    ASSUME Attempts, NEW r \in Requests, TriageMessage(r)
    PROVE  Attempts'
<1>1. phase[r] = "received"
    BY DEF TriageMessage
<1>2. PICK classified \in (IF AsksClassifier(enquiry[r]) THEN Classifications ELSE {None}) :
          LET decision == TriageOf(enquiry[r], classified)
          IN  /\ decided' = [decided EXCEPT ![r] = decision]
              /\ \/ decision.kind = "proceed" /\ Enter(r, "placed") /\ UNCHANGED outcome
                 \/ decision.kind # "proceed" /\ Reaches(r, decision)
    BY DEF TriageMessage
<1> DEFINE decision == TriageOf(enquiry[r], classified)
<1>3. enquiry' = enquiry /\ reference' = reference
    BY DEF TriageMessage
<1>4. Settled(decision)
    <2>1. PICK m \in Messages : CameFrom(enquiry[r], m)
        BY <1>1 DEF Attempts, Attempt, Pending
    <2>2. enquiry[r].message \subseteq Sentence
        BY <2>1, MessagesAssumption DEF CameFrom
    <2>3. None \in Classifications
        BY DEF Classifications
    <2>4. classified \in Classifications /\ (AsksClassifier(enquiry[r]) \/ classified = None)
        BY <2>3
    <2>5. QED
        BY <2>2, <2>4, TriageSettles
<1> HIDE DEF decision
<1>5. /\ decided' = [decided EXCEPT ![r] = decision]
      /\ \/ /\ decision.kind = "proceed"
            /\ phase' = [phase EXCEPT ![r] = "placed"]
            /\ outcome' = outcome
         \/ /\ decision.kind # "proceed"
            /\ phase' = [phase EXCEPT ![r] = "decided"]
            /\ outcome' = [outcome EXCEPT ![r] = decision]
    BY <1>2 DEF decision, Enter, Reaches
<1>6. "placed" \in Phases /\ "decided" \in Phases
    BY DEF Phases, Pending
<1>7. /\ phase' \in [Requests -> Phases]
      /\ DOMAIN enquiry' = Requests /\ DOMAIN reference' = Requests
      /\ DOMAIN decided' = Requests /\ DOMAIN outcome' = Requests
    BY <1>3, <1>5, <1>6 DEF Attempts
<1>8. Attempt(r)'
    <2>1. /\ reference'[r] \in References
          /\ \E m \in Messages : CameFrom(enquiry'[r], m)
        BY <1>1, <1>3 DEF Attempts, Attempt, Pending
    <2>2. CASE decision.kind = "proceed"
        <3>1. phase'[r] = "placed" /\ decided'[r].intent \in Intents
            BY <1>4, <1>5, <2>2 DEF Settled, Attempts
        <3>2. QED
            BY <2>1, <3>1 DEF Attempt
    <2>3. CASE decision.kind # "proceed"
        <3>1. phase'[r] = "decided" /\ Explained(outcome'[r])
            BY <1>4, <1>5, <2>3 DEF Settled, Attempts
        <3>2. QED
            BY <2>1, <3>1 DEF Attempt
    <2>4. QED
        BY <2>2, <2>3
<1>9. ASSUME NEW s \in Requests, s # r
      PROVE  Attempt(s)'
    BY <1>3, <1>5, <1>6, <1>9, OthersAreLeft DEF Attempts
<1>10. QED
    BY <1>7, <1>8, <1>9 DEF Attempts

\* A step that decides a placed message, as the two sources and their absence do.
LEMMA DecidingKeepsAttempts ==
    ASSUME Attempts, NEW r \in Requests, phase[r] = "placed",
           NEW result, Explained(result), Reaches(r, result),
           UNCHANGED <<enquiry, reference, decided>>
    PROVE  Attempts'
<1>1. /\ phase' = [phase EXCEPT ![r] = "decided"]
      /\ outcome' = [outcome EXCEPT ![r] = result]
    BY DEF Reaches, Enter
<1>2. "decided" \in Phases
    BY DEF Phases, Pending
<1>3. /\ phase' \in [Requests -> Phases]
      /\ DOMAIN enquiry' = Requests /\ DOMAIN reference' = Requests
      /\ DOMAIN decided' = Requests /\ DOMAIN outcome' = Requests
    BY <1>1, <1>2 DEF Attempts
<1>4. Attempt(r)'
    <2>1. phase'[r] = "decided" /\ outcome'[r] = result
        BY <1>1 DEF Attempts
    <2>2. /\ reference'[r] \in References
          /\ \E m \in Messages : CameFrom(enquiry'[r], m)
        BY DEF Attempts, Attempt, Pending
    <2>3. QED
        BY <2>1, <2>2 DEF Attempt
<1>5. ASSUME NEW s \in Requests, s # r
      PROVE  Attempt(s)'
    BY <1>1, <1>2, <1>5, OthersAreLeft DEF Attempts
<1>6. QED
    BY <1>3, <1>4, <1>5 DEF Attempts

\* A step that changes nothing of a message but how far it has got, and takes
\* a decided one no further back than it was.
LEMMA MovingKeepsAttempts ==
    ASSUME Attempts, NEW r \in Requests, NEW step \in {"recorded", "answered", "failed"},
           Enter(r, step), step # "failed" => phase[r] \in {"decided", "recorded"},
           UNCHANGED <<enquiry, reference, decided, outcome>>
    PROVE  Attempts'
<1>1. phase' = [phase EXCEPT ![r] = step] /\ step \in Phases
    BY DEF Enter, Phases, Pending
<1>2. /\ phase' \in [Requests -> Phases]
      /\ DOMAIN enquiry' = Requests /\ DOMAIN reference' = Requests
      /\ DOMAIN decided' = Requests /\ DOMAIN outcome' = Requests
    BY <1>1 DEF Attempts
<1>3. Attempt(r)'
    <2>1. phase'[r] = step /\ Attempt(r)
        BY <1>1 DEF Attempts
    <2>2. CASE step = "failed"
        BY <2>1, <2>2 DEF Attempt, Pending
    <2>3. CASE step # "failed"
        BY <2>1, <2>3 DEF Attempt, Pending
    <2>4. QED
        BY <2>2, <2>3
<1>4. ASSUME NEW s \in Requests, s # r
      PROVE  Attempt(s)'
    BY <1>1, <1>4, OthersAreLeft DEF Attempts
<1>5. QED
    BY <1>2, <1>3, <1>4 DEF Attempts

\* Whatever happens next, what is known of each message still fits.
LEMMA AttemptsHold == Attempts /\ [AgentNext]_agentVars => Attempts'
<1> SUFFICES ASSUME Attempts, [AgentNext]_agentVars
             PROVE  Attempts'
    OBVIOUS
<1>1. ASSUME UNCHANGED <<phase, enquiry, reference, decided, outcome>>
      PROVE  Attempts'
    BY <1>1 DEF Attempts, Attempt
<1>2. CASE Boot
    BY <1>1, <1>2 DEF Boot
<1>3. CASE Crash
    <2>1. /\ phase' = [r \in Requests |-> IF phase[r] \in Pending THEN "failed" ELSE phase[r]]
          /\ UNCHANGED <<enquiry, reference, decided, outcome>>
        BY <1>3 DEF Crash
    <2>2. phase' \in [Requests -> Phases]
        BY <2>1 DEF Attempts, Phases
    <2>3. ASSUME NEW r \in Requests
          PROVE  Attempt(r)'
        <3>1. phase'[r] = "failed" \/ (phase'[r] = phase[r] /\ phase[r] \notin Pending)
            BY <2>1
        <3>2. Attempt(r)
            BY DEF Attempts
        <3>3. QED
            BY <2>1, <3>1, <3>2 DEF Attempt, Pending
    <2>4. QED
        BY <2>1, <2>2, <2>3 DEF Attempts
<1>4. ASSUME NEW r \in Requests, NEW message \in Messages, NEW ref \in References,
             Receive(r, message, ref)
      PROVE  Attempts'
    BY <1>4, ReceiveKeepsAttempts
<1>5. ASSUME NEW r \in Requests, Step(r)
      PROVE  Attempts'
    <2>1. CASE TriageMessage(r)
        BY <2>1, TriageKeepsAttempts
    <2>2. CASE FindNothingConnected(r)
        BY <2>2, UnconnectedIsExplained, DecidingKeepsAttempts DEF FindNothingConnected
    <2>3. CASE SearchPolicies(r)
        <3>1. PICK lexical, semantic :
                Reaches(r, FromKnowledgeBase(enquiry[r], decided[r].intent,
                                             Search(lexical, semantic)))
            BY <2>3 DEF SearchPolicies
        <3>2. phase[r] = "placed" /\ UNCHANGED <<enquiry, reference, decided>>
            BY <2>3 DEF SearchPolicies, PlansFrom
        <3>3. decided[r].intent \in Intents
            BY <3>2 DEF Attempts, Attempt
        <3>4. QED
            BY <3>1, <3>2, <3>3, PolicyIsExplained, DecidingKeepsAttempts
    <2>4. CASE LookUp(r)
        <3>1. PlansFrom(r, "commerce")
            BY <2>4 DEF LookUp
        <3>2. PICK answer \in AnswersTo(Asked(r)) :
                Reaches(r, FromCommerce(enquiry[r], decided[r].intent, answer))
            BY <2>4 DEF LookUp
        <3>3. phase[r] = "placed" /\ UNCHANGED <<enquiry, reference, decided>>
            BY <2>4 DEF LookUp, PlansFrom
        <3>4. decided[r].intent \in Intents
            BY <3>3 DEF Attempts, Attempt
        <3>5. Explained(FromCommerce(enquiry[r], decided[r].intent, answer))
            BY <3>1, <3>4, AnswersAreReadings, CommerceIsExplained
        <3>6. QED
            BY <3>2, <3>3, <3>5, DecidingKeepsAttempts
    <2>5. CASE SourceRaises(r)
        BY <2>5, MovingKeepsAttempts DEF SourceRaises
    <2>6. CASE Record(r)
        BY <2>6, MovingKeepsAttempts DEF Record
    <2>7. CASE RecordFails(r)
        BY <2>7, MovingKeepsAttempts DEF RecordFails
    <2>8. CASE Deliver(r)
        BY <2>8, MovingKeepsAttempts DEF Deliver
    <2>9. CASE LoseReply(r)
        BY <2>9, MovingKeepsAttempts DEF LoseReply
    <2>10. QED
        BY <1>5, <2>1, <2>2, <2>3, <2>4, <2>5, <2>6, <2>7, <2>8, <2>9 DEF Step
<1>6. ASSUME NEW c \in References, StaffWork(c)
      PROVE  Attempts'
    BY <1>1, <1>6 DEF StaffWork
<1>7. CASE UNCHANGED agentVars
    BY <1>1, <1>7 DEF agentVars
<1>8. QED
    BY <1>2, <1>3, <1>4, <1>5, <1>6, <1>7 DEF AgentNext

LEMMA AttemptsBegin == AgentInit => Attempts
BY DEF AgentInit, Attempts, Attempt, Phases, Pending

\* Where an outcome goes is where a row can be opened.
LEMMA RoutesAreRoutes == Routes = AnsweredRoutes \cup NeedsSomebody
BY DEF Routes, AnsweredRoutes, NeedsSomebody

\* What is filed says what the outcome was.
LEMMA RepliesRepeat ==
    ASSUME NEW o
    PROVE  /\ Replied(o).route = RouteOf(o)
           /\ Replied(o).reasons = o.reasons /\ Replied(o).intent = o.intent
           /\ RouteOf(o) # "direct_response" => Replied(o).message = Tell(o.reasons, RouteOf(o))
           /\ RouteOf(o) = "direct_response" => Replied(o).message = None
BY DEF Replied

\* Staff and the endpoint write the table as the queue allows, and nothing
\* else writes it.
LEMMA EveryWriteIsTheQueues == Attempts /\ [AgentNext]_agentVars => [QueueNext]_rows
<1> SUFFICES ASSUME Attempts, AgentNext
             PROVE  QueueNext \/ UNCHANGED rows
    BY DEF agentVars
<1>1. ASSUME NEW r \in Requests, Record(r)
      PROVE  QueueNext
    <2>1. reference[r] \in References /\ Explained(outcome[r])
        BY <1>1 DEF Record, Attempts, Attempt, Pending
    <2>2. RouteOf(outcome[r]) \in AnsweredRoutes \cup NeedsSomebody
        BY <2>1, RoutesAreRoutes DEF Explained
    <2>3. Open(reference[r], RouteOf(outcome[r]))
        BY <1>1, RepliesRepeat DEF Record
    <2>4. QED
        BY <2>1, <2>2, <2>3 DEF QueueNext
<1>2. ASSUME NEW c \in References, StaffWork(c)
      PROVE  QueueNext
    BY <1>2 DEF StaffWork, QueueNext
<1>3. ASSUME NEW r \in Requests, Step(r), ~Record(r)
      PROVE  UNCHANGED rows
    BY <1>3 DEF Step, TriageMessage, FindNothingConnected, SearchPolicies, LookUp,
                SourceRaises, RecordFails, Deliver, LoseReply
<1>4. QED
    BY <1>1, <1>2, <1>3 DEF AgentNext, Boot, Crash, Receive

\* However messages arrive and whatever fails, the agent and its staff do to
\* the cases only what the queue promises: SupportAgent implements CaseQueue.
THEOREM AgentImplementsQueue == AgentSpec => QueueSpec
<1>1. AgentInit => QueueInit
    BY DEF AgentInit
<1>2. QED
    BY <1>1, AttemptsBegin, AttemptsHold, EveryWriteIsTheQueues, PTL DEF AgentSpec, QueueSpec

-----------------------------------------------------------------------------
(* What is on file *)

\* A row stands for an outcome that says why it is where it is, and its record
\* repeats it.
Accounted(c) ==
    rows[c].route # Absent =>
        \E o : /\ Explained(o)
              /\ RouteOf(o) = rows[c].route
              /\ records[c].reply = Replied(o)

\* A message whose case is written has a row and a record of its own outcome,
\* and an answered one was told what they say.
Kept(r) ==
    /\ OnFile(r) => /\ reference[r] \in References
                    /\ rows[reference[r]].route = RouteOf(outcome[r])
                    /\ records[reference[r]].request = r
                    /\ records[reference[r]].reply = Replied(outcome[r])
                    /\ records[reference[r]].sources = Allowed(r)
    /\ phase[r] = "answered" =>
          told[r] = [case |-> reference[r], reply |-> Replied(outcome[r])]

OnRecord ==
    /\ DOMAIN records = References /\ DOMAIN told = Requests
    /\ \A c \in References : Accounted(c)
    /\ \A r \in Requests : Kept(r)

AgentInvariant == QueueTypeOK /\ Attempts /\ OnRecord

LEMMA FilingBegins == AgentInit => OnRecord
BY DEF AgentInit, QueueInit, NewRow, Absent, OnRecord, Accounted, Kept, OnFile

\* No route an outcome can have is the mark of a missing row.
LEMMA ExplainedIsPresent ==
    ASSUME NEW o, Explained(o)
    PROVE  RouteOf(o) # Absent
BY DEF Explained, Routes, Absent

\* What a message's record rests on: a step that leaves these leaves it kept.
LEMMA KeptIsLeft ==
    ASSUME NEW r, Kept(r),
           phase'[r] = phase[r], reference'[r] = reference[r], outcome'[r] = outcome[r],
           decided'[r] = decided[r], told'[r] = told[r],
           OnFile(r) => /\ rows'[reference[r]].route = rows[reference[r]].route
                        /\ records'[reference[r]] = records[reference[r]]
    PROVE  Kept(r)'
BY DEF Kept, OnFile, Allowed

\* The insert: under a reference no row has, so over nobody else's record.
LEMMA RecordKeepsFiling ==
    ASSUME AgentInvariant, NEW r \in Requests, Record(r)
    PROVE  OnRecord'
<1> DEFINE c == reference[r]
           o == outcome[r]
<1>1. c \in References /\ Explained(o)
    BY DEF Record, AgentInvariant, Attempts, Attempt, Pending
<1>2. /\ rows[c].route = Absent
      /\ rows' = [rows EXCEPT ![c] = NewRow(RouteOf(o))]
      /\ records' = [records EXCEPT ![c] = [request |-> r, reply |-> Replied(o),
                                            sources |-> Allowed(r)]]
      /\ phase' = [phase EXCEPT ![r] = "recorded"]
      /\ UNCHANGED <<reference, outcome, decided, told>>
    BY RepliesRepeat DEF Record, Open, Enter
<1>3. /\ rows'[c].route = RouteOf(o)
      /\ records'[c].request = r /\ records'[c].reply = Replied(o)
      /\ records'[c].sources = Allowed(r)
    BY <1>1, <1>2 DEF AgentInvariant, QueueTypeOK, OnRecord, NewRow
<1>4. \A d \in References \ {c} : rows'[d] = rows[d] /\ records'[d] = records[d]
    BY <1>2 DEF AgentInvariant, QueueTypeOK, OnRecord
<1>5. DOMAIN records' = References /\ DOMAIN told' = Requests
    BY <1>2 DEF AgentInvariant, OnRecord
<1>6. phase'[r] = "recorded" /\ \A s \in Requests \ {r} : phase'[s] = phase[s]
    BY <1>2 DEF AgentInvariant, Attempts
<1>7. /\ reference' = reference /\ outcome' = outcome /\ told' = told
      /\ decided' = decided /\ Allowed(r)' = Allowed(r)
    BY <1>2 DEF Allowed
<1> HIDE DEF c, o
<1>8. ASSUME NEW d \in References
      PROVE  Accounted(d)'
    <2>1. CASE d = c
        BY <1>1, <1>3, <2>1 DEF Accounted
    <2>2. CASE d # c
        BY <1>4, <2>2 DEF AgentInvariant, OnRecord, Accounted
    <2>3. QED
        BY <2>1, <2>2
<1>9. Kept(r)'
    BY <1>1, <1>3, <1>6, <1>7 DEF Kept, OnFile, c, o
<1>10. ASSUME NEW s \in Requests, s # r
       PROVE  Kept(s)'
    <2>1. Kept(s)
        BY DEF AgentInvariant, OnRecord
    <2>2. OnFile(s) => reference[s] \in References \ {c}
        <3>1. OnFile(s) => Explained(outcome[s])
            BY DEF OnFile, AgentInvariant, Attempts, Attempt
        <3>2. OnFile(s) => rows[reference[s]].route # Absent
            BY <2>1, <3>1, ExplainedIsPresent DEF Kept
        <3>3. QED
            BY <1>2, <2>1, <3>2 DEF Kept, c
    <2>3. QED
        BY <1>4, <1>6, <1>7, <1>10, <2>1, <2>2, KeptIsLeft
<1>11. QED
    BY <1>5, <1>8, <1>9, <1>10 DEF OnRecord

\* Staff take and finish a case, which leaves where it was sent and what is
\* recorded of it.
LEMMA StaffKeepFiling ==
    ASSUME AgentInvariant, NEW c \in References, StaffWork(c)
    PROVE  OnRecord'
<1>1. UNCHANGED <<phase, reference, outcome, decided, told, records>>
    BY DEF StaffWork
<1>2. \A d \in References : rows'[d].route = rows[d].route
    <2>1. ASSUME NEW agent \in Staff, Claim(c, agent)
          PROVE  \A d \in References : rows'[d].route = rows[d].route
        BY <2>1 DEF Claim, Taken, AgentInvariant, QueueTypeOK, Row
    <2>2. ASSUME NEW agent \in Staff, NEW note \in Notes, Resolve(c, agent, note)
          PROVE  \A d \in References : rows'[d].route = rows[d].route
        BY <2>2 DEF Resolve, Finished, AgentInvariant, QueueTypeOK, Row
    <2>3. QED
        BY <2>1, <2>2 DEF StaffWork
<1>3. ASSUME NEW d \in References
      PROVE  Accounted(d)'
    BY <1>1, <1>2 DEF AgentInvariant, OnRecord, Accounted
<1>4. ASSUME NEW r \in Requests
      PROVE  Kept(r)'
    <2>1. Kept(r)
        BY DEF AgentInvariant, OnRecord
    <2>2. OnFile(r) => reference[r] \in References
        BY <2>1 DEF Kept
    <2>3. QED
        BY <1>1, <1>2, <2>1, <2>2, KeptIsLeft
<1>5. QED
    BY <1>1, <1>3, <1>4 DEF AgentInvariant, OnRecord

\* A step of one message that writes neither the table nor its record leaves
\* both kept, if what it leaves the message at is.
LEMMA OtherStepsKeepFiling ==
    ASSUME AgentInvariant, NEW r \in Requests, UNCHANGED <<rows, records>>,
           DOMAIN told' = Requests, Kept(r)',
           \A s \in Requests \ {r} : /\ phase'[s] = phase[s] /\ reference'[s] = reference[s]
                                      /\ outcome'[s] = outcome[s] /\ told'[s] = told[s]
                                      /\ decided'[s] = decided[s]
    PROVE  OnRecord'
<1>1. \A c \in References : Accounted(c)'
    BY DEF AgentInvariant, OnRecord, Accounted
<1>2. ASSUME NEW s \in Requests, s # r
      PROVE  Kept(s)'
    <2>1. Kept(s)
        BY DEF AgentInvariant, OnRecord
    <2>2. QED
        BY <1>2, <2>1, KeptIsLeft
<1>3. QED
    BY <1>1, <1>2 DEF AgentInvariant, OnRecord

LEMMA FilingHolds == AgentInvariant /\ [AgentNext]_agentVars => OnRecord'
<1> SUFFICES ASSUME AgentInvariant, [AgentNext]_agentVars
             PROVE  OnRecord'
    OBVIOUS
<1>1. ASSUME UNCHANGED <<phase, reference, outcome, decided, told, records, rows>>
      PROVE  OnRecord'
    BY <1>1 DEF AgentInvariant, OnRecord, Accounted, Kept, OnFile, Allowed
<1>2. CASE Boot
    BY <1>1, <1>2 DEF Boot
<1>3. CASE Crash
    <2>1. /\ phase' = [r \in Requests |-> IF phase[r] \in Pending THEN "failed" ELSE phase[r]]
          /\ UNCHANGED <<reference, outcome, decided, told, records, rows>>
        BY <1>3 DEF Crash
    <2>2. ASSUME NEW r \in Requests
          PROVE  Kept(r)'
        <3>1. phase'[r] = "failed" \/ phase'[r] = phase[r]
            BY <2>1
        <3>2. Kept(r)
            BY DEF AgentInvariant, OnRecord
        <3>3. QED
            BY <2>1, <3>1, <3>2 DEF Kept, OnFile, Allowed
    <2>3. QED
        BY <2>1, <2>2 DEF AgentInvariant, OnRecord, Accounted
<1>4. ASSUME NEW r \in Requests, NEW message \in Messages, NEW ref \in References,
             Receive(r, message, ref)
      PROVE  OnRecord'
    <2>1. /\ phase' = [phase EXCEPT ![r] = "received"]
          /\ reference' = [reference EXCEPT ![r] = ref]
          /\ outcome' = [outcome EXCEPT ![r] = Undecided]
          /\ decided' = [decided EXCEPT ![r] = Undecided]
          /\ UNCHANGED <<told, records, rows>>
        BY <1>4 DEF Receive, Enter
    <2>2. phase'[r] = "received"
        BY <2>1 DEF AgentInvariant, Attempts
    <2>3. Kept(r)'
        BY <2>2 DEF Kept, OnFile
    <2>4. \A s \in Requests \ {r} : /\ phase'[s] = phase[s] /\ reference'[s] = reference[s]
                                    /\ outcome'[s] = outcome[s] /\ told'[s] = told[s]
                                    /\ decided'[s] = decided[s]
        BY <2>1 DEF AgentInvariant, Attempts
    <2>5. DOMAIN told' = Requests
        BY <2>1 DEF AgentInvariant, OnRecord
    <2>6. QED
        BY <2>1, <2>3, <2>4, <2>5, OtherStepsKeepFiling
<1>5. ASSUME NEW r \in Requests, Step(r)
      PROVE  OnRecord'
    <2>1. CASE Record(r)
        BY <2>1, RecordKeepsFiling
    <2>2. CASE Deliver(r)
        <3>1. /\ phase[r] = "recorded"
              /\ phase' = [phase EXCEPT ![r] = "answered"]
              /\ told' = [told EXCEPT ![r] = [case  |-> reference[r],
                                             reply |-> Replied(outcome[r])]]
              /\ UNCHANGED <<reference, outcome, decided, records, rows>>
            BY <2>2 DEF Deliver, Enter
        <3>2. /\ phase'[r] = "answered"
              /\ told'[r] = [case |-> reference[r], reply |-> Replied(outcome[r])]
              /\ DOMAIN told' = Requests
            BY <3>1 DEF AgentInvariant, Attempts, OnRecord
        <3>3. Kept(r)
            BY DEF AgentInvariant, OnRecord
        <3>4. Kept(r)'
            BY <3>1, <3>2, <3>3 DEF Kept, OnFile, Allowed
        <3>5. \A s \in Requests \ {r} : phase'[s] = phase[s] /\ told'[s] = told[s]
            BY <3>1 DEF AgentInvariant, Attempts, OnRecord
        <3>6. QED
            BY <3>1, <3>2, <3>4, <3>5, OtherStepsKeepFiling
    <2>3. CASE \/ TriageMessage(r) \/ FindNothingConnected(r) \/ SearchPolicies(r)
               \/ LookUp(r) \/ SourceRaises(r) \/ RecordFails(r) \/ LoseReply(r)
        <3>1. /\ \E step \in {"placed", "decided", "failed"} : phase' = [phase EXCEPT ![r] = step]
              /\ outcome' = outcome \/ \E o : outcome' = [outcome EXCEPT ![r] = o]
              /\ decided' = decided \/ \E d : decided' = [decided EXCEPT ![r] = d]
              /\ UNCHANGED <<reference, told, records, rows>>
            BY <2>3 DEF TriageMessage, FindNothingConnected, SearchPolicies, LookUp,
                        SourceRaises, RecordFails, LoseReply, Reaches, Enter
        <3>2. phase'[r] \in {"placed", "decided", "failed"}
            BY <3>1 DEF AgentInvariant, Attempts
        <3>3. Kept(r)'
            BY <3>2 DEF Kept, OnFile
        <3>4. \A s \in Requests \ {r} : /\ phase'[s] = phase[s] /\ reference'[s] = reference[s]
                                        /\ outcome'[s] = outcome[s] /\ told'[s] = told[s]
                                        /\ decided'[s] = decided[s]
            BY <3>1 DEF AgentInvariant, Attempts
        <3>5. DOMAIN told' = Requests
            BY <3>1 DEF AgentInvariant, OnRecord
        <3>6. QED
            BY <3>1, <3>3, <3>4, <3>5, OtherStepsKeepFiling
    <2>4. QED
        BY <1>5, <2>1, <2>2, <2>3 DEF Step
<1>6. ASSUME NEW c \in References, StaffWork(c)
      PROVE  OnRecord'
    BY <1>6, StaffKeepFiling
<1>7. CASE UNCHANGED agentVars
    BY <1>1, <1>7 DEF agentVars
<1>8. QED
    BY <1>2, <1>3, <1>4, <1>5, <1>6, <1>7 DEF AgentNext

-----------------------------------------------------------------------------
(* The theorems *)

\* What the queue's operations make of a row they may be used on.
LEMMA RowsStayAccountedFor ==
    ASSUME QueueTypeOK, ClosedIsAccountedFor, [QueueNext]_rows
    PROVE  QueueTypeOK' /\ ClosedIsAccountedFor'
<1> DEFINE Sound(row) ==
        /\ row \in Row
        /\ row.closed <=> row.resolved_by # Nobody
        /\ row.closed <=> row.resolution # NoNote
        /\ row.closed => row.assigned_to # Nobody
        /\ row.assigned_to # Nobody => row.route \in NeedsSomebody
<1>1. DOMAIN rows = References /\ \A c \in References : Sound(rows[c])
    BY DEF QueueTypeOK, ClosedIsAccountedFor
<1>2. ASSUME DOMAIN rows' = References, \A c \in References : Sound(rows'[c]),
             rows' = [c \in References |-> rows'[c]]
      PROVE  QueueTypeOK' /\ ClosedIsAccountedFor'
    BY <1>2 DEF QueueTypeOK, ClosedIsAccountedFor
<1>3. ASSUME NEW c \in References, NEW row, Sound(row), rows' = [rows EXCEPT ![c] = row]
      PROVE  QueueTypeOK' /\ ClosedIsAccountedFor'
    <2> HIDE DEF Sound
    <2>1. /\ DOMAIN rows' = References /\ \A d \in References : Sound(rows'[d])
          /\ rows' = [d \in References |-> rows'[d]]
        BY <1>1, <1>3
    <2>2. QED
        BY <1>2, <2>1
<1>4. ASSUME NEW c \in References, NEW route \in AnsweredRoutes \cup NeedsSomebody,
             Open(c, route)
      PROVE  QueueTypeOK' /\ ClosedIsAccountedFor'
    <2>1. Sound(NewRow(route))
        BY PeopleAssumption DEF Row, NewRow
    <2>2. QED
        BY <1>3, <1>4, <2>1 DEF Open
<1>5. ASSUME NEW c \in References, NEW agent \in Staff, Claim(c, agent)
      PROVE  QueueTypeOK' /\ ClosedIsAccountedFor'
    <2>1. Sound(Taken(rows[c], agent))
        BY <1>1, <1>5, PeopleAssumption DEF Claim, Row, Taken, Claimable, Workable
    <2>2. QED
        BY <1>3, <1>5, <2>1 DEF Claim
<1>6. ASSUME NEW c \in References, NEW agent \in Staff, NEW note \in Notes,
             Resolve(c, agent, note)
      PROVE  QueueTypeOK' /\ ClosedIsAccountedFor'
    <2>1. Sound(Finished(rows[c], agent, note))
        BY <1>1, <1>6, PeopleAssumption DEF Resolve, Row, Finished, Workable
    <2>2. QED
        BY <1>3, <1>6, <2>1 DEF Resolve
<1>7. CASE UNCHANGED rows
    BY <1>7 DEF QueueTypeOK, ClosedIsAccountedFor
<1>8. QED
    BY <1>4, <1>5, <1>6, <1>7 DEF QueueNext

\* The agent's rows are the queue's, and accounted for as the queue's are.
LEMMA AgentRowsAccounted == AgentSpec => [](QueueTypeOK /\ ClosedIsAccountedFor)
<1>1. QueueInit => QueueTypeOK /\ ClosedIsAccountedFor
    BY DEF QueueInit, QueueTypeOK, ClosedIsAccountedFor, NewRow, Row
<1>2. (QueueTypeOK /\ ClosedIsAccountedFor) /\ [QueueNext]_rows
        => (QueueTypeOK /\ ClosedIsAccountedFor)'
    BY RowsStayAccountedFor
<1>3. QED
    BY <1>1, <1>2, AgentImplementsQueue, PTL DEF QueueSpec

\* However messages interleave, fail and are sent again: every row stands for
\* an explained outcome, and nobody is told what is not on file.
THEOREM AgentKeepsFaith == AgentSpec => []AgentInvariant
<1>1. AgentSpec => []QueueTypeOK
    BY AgentRowsAccounted, PTL
<1>2. AgentInit => Attempts /\ OnRecord
    BY AttemptsBegin, FilingBegins
<1>3. QueueTypeOK /\ Attempts /\ OnRecord /\ [AgentNext]_agentVars => Attempts' /\ OnRecord'
    BY AttemptsHold, FilingHolds DEF AgentInvariant
<1>4. QED
    BY <1>1, <1>2, <1>3, PTL DEF AgentSpec, AgentInvariant

\* The record is written before the reply is returned, whatever fails between.
THEOREM NobodyIsToldUnrecorded == AgentSpec => []RecordedBeforeTold
<1>1. ASSUME AgentInvariant, NEW r \in Requests, phase[r] = "answered"
      PROVE  LET c == told[r].case
             IN  /\ c \in References
                 /\ records[c].request = r
                 /\ records[c].reply = told[r].reply
                 /\ rows[c].route = told[r].reply.route
    <2>1. Kept(r) /\ OnFile(r)
        BY <1>1 DEF AgentInvariant, OnRecord, OnFile
    <2>2. /\ told[r].case = reference[r]
          /\ told[r].reply = Replied(outcome[r])
        BY <1>1, <2>1 DEF Kept
    <2>3. QED
        BY <2>1, <2>2, RepliesRepeat DEF Kept
<1>2. AgentInvariant => RecordedBeforeTold
    BY <1>1 DEF RecordedBeforeTold
<1>3. QED
    BY <1>2, AgentKeepsFaith, PTL

\* Every case says why it is where it is, in codes that belong to its route.
THEOREM CasesAreExplained == AgentSpec => []EveryOutcomeIsExplained
<1>1. ASSUME AgentInvariant, NEW c \in References, rows[c].route # Absent
      PROVE  LET reply == records[c].reply
             IN  /\ reply.reasons \subseteq ReasonsOf[rows[c].route]
                 /\ reply.reasons = {} <=> rows[c].route = "direct_response"
    <2>1. PICK o : /\ Explained(o)
                   /\ RouteOf(o) = rows[c].route
                   /\ records[c].reply = Replied(o)
        BY <1>1 DEF AgentInvariant, OnRecord, Accounted
    <2>2. records[c].reply.reasons = o.reasons
        BY <2>1, RepliesRepeat
    <2>3. QED
        BY <2>1, <2>2 DEF Explained
<1>2. AgentInvariant => EveryOutcomeIsExplained
    BY <1>1 DEF EveryOutcomeIsExplained
<1>3. QED
    BY <1>2, AgentKeepsFaith, PTL

-----------------------------------------------------------------------------
(* The book and the letters *)

\* What has not been filed is blank, and who has not been answered was told
\* nothing.
Unwritten ==
    /\ \A c \in References : rows[c].route = Absent => records[c] = NoRecord
    /\ \A r \in Requests : phase[r] # "answered" => told[r] = NoReply

\* One entry: on a blank page, of a request nobody has answered.
LEMMA RecordEnters ==
    ASSUME AgentInvariant, Unwritten, NEW r \in Requests, Record(r)
    PROVE  /\ Book!Enters(reference[r])
           /\ Unwritten'
<1> DEFINE c     == reference[r]
           filed == [request |-> r, reply |-> Replied(outcome[r]), sources |-> Allowed(r)]
<1>1. c \in References /\ phase[r] = "decided" /\ Explained(outcome[r])
    BY DEF Record, AgentInvariant, Attempts, Attempt, Pending
<1>2. /\ rows[c].route = Absent
      /\ rows' = [rows EXCEPT ![c] = NewRow(RouteOf(outcome[r]))]
      /\ records' = [records EXCEPT ![c] = filed]
      /\ phase' = [phase EXCEPT ![r] = "recorded"]
      /\ told' = told
    BY RepliesRepeat DEF Record, Open, Enter
<1>3. records[c] = NoRecord /\ told[r] = NoReply
    BY <1>1, <1>2 DEF Unwritten
<1>4. records'[c] = filed
    BY <1>1, <1>2 DEF AgentInvariant, OnRecord
<1>5. records'[c].request = r
    BY <1>4
<1>6. Book!Enters(c)
    BY <1>1, <1>2, <1>3, <1>4, <1>5 DEF Book!Enters
<1>7. rows'[c].route = RouteOf(outcome[r])
    BY <1>1, <1>2 DEF AgentInvariant, QueueTypeOK, NewRow
<1>8. rows'[c].route # Absent
    BY <1>1, <1>7, ExplainedIsPresent
<1>9. \A d \in References \ {c} : rows'[d] = rows[d] /\ records'[d] = records[d]
    BY <1>2 DEF AgentInvariant, QueueTypeOK, OnRecord
<1>10. \A s \in Requests : phase'[s] # "answered" => phase[s] # "answered"
    BY <1>1, <1>2 DEF AgentInvariant, Attempts
<1>11. QED
    BY <1>2, <1>6, <1>8, <1>9, <1>10 DEF Unwritten

\* One letter: a copy of the page its case is on, to somebody who had none.
LEMMA DeliverSends ==
    ASSUME AgentInvariant, Unwritten, NEW r \in Requests, Deliver(r)
    PROVE  /\ Book!Sends(r, reference[r])
           /\ Unwritten'
<1> DEFINE c == reference[r]
<1>1. phase[r] = "recorded" /\ OnFile(r) /\ Kept(r)
    BY DEF Deliver, OnFile, AgentInvariant, OnRecord
<1>2. c \in References /\ records[c].request = r /\ records[c].reply = Replied(outcome[r])
    BY <1>1 DEF Kept
<1>3. /\ told' = [told EXCEPT ![r] = [case |-> c, reply |-> Replied(outcome[r])]]
      /\ phase' = [phase EXCEPT ![r] = "answered"]
      /\ UNCHANGED <<records, rows>>
    BY DEF Deliver, Enter
<1>4. told[r] = NoReply
    BY <1>1 DEF Unwritten
<1>5. records[c] # NoRecord
    BY <1>2, AgentAssumption DEF NoRecord
<1>6. Book!Sends(r, c)
    BY <1>2, <1>3, <1>4, <1>5 DEF Book!Sends
<1>7. \A s \in Requests : phase'[s] # "answered" => s # r /\ phase[s] # "answered"
    BY <1>3 DEF AgentInvariant, Attempts
<1>8. \A s \in Requests \ {r} : told'[s] = told[s]
    BY <1>3 DEF AgentInvariant, OnRecord
<1>9. QED
    BY <1>3, <1>6, <1>7, <1>8 DEF Unwritten

\* Nothing else the process does is written in the book or to anybody.
LEMMA OthersWriteNothing ==
    ASSUME AgentInvariant, Unwritten, [AgentNext]_agentVars,
           \A r \in Requests : ~Record(r) /\ ~Deliver(r)
    PROVE  UNCHANGED <<records, told>> /\ Unwritten'
<1>1. UNCHANGED <<records, told>>
    BY DEF AgentNext, agentVars, Step, Boot, Crash, Receive, TriageMessage,
           FindNothingConnected, SearchPolicies, LookUp, SourceRaises, RecordFails, LoseReply,
           StaffWork
<1>2. ASSUME NEW c \in References, rows'[c].route = Absent
      PROVE  rows[c].route = Absent
    <2>1. CASE UNCHANGED rows
        BY <1>2, <2>1
    <2>2. ASSUME NEW d \in References, StaffWork(d)
          PROVE  rows'[c].route = rows[c].route
        <3>1. ASSUME NEW agent \in Staff, Claim(d, agent)
              PROVE  rows'[c].route = rows[c].route
            BY <3>1 DEF Claim, Taken, AgentInvariant, QueueTypeOK, Row
        <3>2. ASSUME NEW agent \in Staff, NEW note \in Notes, Resolve(d, agent, note)
              PROVE  rows'[c].route = rows[c].route
            BY <3>2 DEF Resolve, Finished, AgentInvariant, QueueTypeOK, Row
        <3>3. QED
            BY <2>2, <3>1, <3>2 DEF StaffWork
    <2>3. UNCHANGED rows \/ \E d \in References : StaffWork(d)
        BY DEF AgentNext, agentVars, Step, Boot, Crash, Receive, TriageMessage,
               FindNothingConnected, SearchPolicies, LookUp, SourceRaises, RecordFails, LoseReply
    <2>4. QED
        BY <1>2, <2>1, <2>2, <2>3
<1>3. ASSUME NEW r \in Requests, phase'[r] # "answered"
      PROVE  phase[r] # "answered"
    <2>1. CASE Crash
        BY <1>3, <2>1 DEF Crash, Pending, AgentInvariant, Attempts
    <2>2. ASSUME NEW s \in Requests, NEW message \in Messages, NEW ref \in References,
                 Receive(s, message, ref)
          PROVE  phase[r] # "answered"
        BY <1>3, <2>2 DEF Receive, Enter, AgentInvariant, Attempts
    <2>3. ASSUME NEW s \in Requests, Step(s)
          PROVE  phase[r] # "answered"
        BY <1>3, <2>3 DEF Step, Enter, Reaches, TriageMessage, FindNothingConnected,
               SearchPolicies, LookUp, PlansFrom, SourceRaises, RecordFails, LoseReply,
               AgentInvariant, Attempts
    <2>4. CASE UNCHANGED phase
        BY <1>3, <2>4
    <2>5. QED
        BY <2>1, <2>2, <2>3, <2>4 DEF AgentNext, Boot, StaffWork, agentVars
<1>4. QED
    BY <1>1, <1>2, <1>3 DEF Unwritten

\* Whatever fails, is sent again or is worked meanwhile: the records and the
\* replies are entries made once, and letters copied from them.
THEOREM AgentKeepsTheBook == AgentSpec => KeepsTheBook
<1>1. AgentInit => Book!BookInit /\ Unwritten
    BY DEF AgentInit, Book!BookInit, Unwritten
<1>2. AgentInvariant /\ Unwritten /\ [AgentNext]_agentVars
          => Unwritten' /\ [Book!BookNext]_(Book!bookVars)
    <2> SUFFICES ASSUME AgentInvariant, Unwritten, [AgentNext]_agentVars
                 PROVE  Unwritten' /\ [Book!BookNext]_(Book!bookVars)
        OBVIOUS
    <2>1. ASSUME NEW r \in Requests, Record(r)
          PROVE  Unwritten' /\ Book!BookNext
        <3>1. reference[r] \in References
            BY <2>1 DEF Record, AgentInvariant, Attempts, Attempt, Pending
        <3>2. QED
            BY <2>1, <3>1, RecordEnters DEF Book!BookNext
    <2>2. ASSUME NEW r \in Requests, Deliver(r)
          PROVE  Unwritten' /\ Book!BookNext
        <3>1. reference[r] \in References
            BY <2>2 DEF Deliver, AgentInvariant, Attempts, Attempt, Pending
        <3>2. QED
            BY <2>2, <3>1, DeliverSends DEF Book!BookNext
    <2>3. CASE \A r \in Requests : ~Record(r) /\ ~Deliver(r)
        BY <2>3, OthersWriteNothing DEF Book!bookVars
    <2>4. QED
        BY <2>1, <2>2, <2>3
<1>3. QED
    BY <1>1, <1>2, AgentKeepsFaith, PTL DEF AgentSpec, KeepsTheBook, Book!BookSpec

-----------------------------------------------------------------------------
(* What the customer hears *)

\* Of some of the sentences in the declared order, one comes first.
LEMMA OneComesFirst ==
    ASSUME NEW keys, NEW i \in 1..8, First[i] \in keys
    PROVE  \E j \in DOMAIN First : /\ First[j] \in keys
                                  /\ \A k \in DOMAIN First : First[k] \in keys => j <= k
<1> DEFINE places  == {j \in 1..8 : First[j] \in keys}
           earlier == {ss \in Nat \X Nat : ss[1] < ss[2]}
<1>1. DOMAIN First = 1..8
    BY DEF First
<1>2. IsWellFoundedOn(earlier, Nat)
    BY NatLessThanWellFounded DEF OpToRel
<1>3. places \subseteq Nat /\ places # {}
    OBVIOUS
<1>4. \A k \in Nat, j \in Nat : k < j => <<k, j>> \in earlier
    OBVIOUS
<1> HIDE DEF places, earlier
<1>5. PICK j \in places : \A k \in places : ~(<<k, j>> \in earlier)
    BY <1>2, <1>3, WFMin
<1>6. \A k \in places : ~(k < j)
    BY <1>3, <1>4, <1>5
<1>7. \A k \in places : j <= k
    BY <1>3, <1>5, <1>6
<1>8. QED
    BY <1>1, <1>5, <1>7 DEF places

\* What each reason of a route has its sender told.
HeardFor(route) ==
    [clarification    |-> {"ask_for_order_number", "ask_which_product", "ask_which_first",
                           "ask_what_is_meant", "check_the_reference"},
     human_escalation |-> {"handed_to_a_specialist", "account_not_linked"},
     internal_review  |-> {"being_checked_here"}][route]

LEMMA ReasonsAreHeard ==
    ASSUME NEW route \in Routes \ {"direct_response"}, NEW reason \in ReasonsOf[route]
    PROVE  (IF reason \in DOMAIN Says THEN Says[reason] ELSE DefaultMessage[route])
                \in HeardFor(route)
<1>1. DOMAIN Says = {"missing_order_id", "missing_product_reference", "multiple_intents",
                     "unresolved_intent", "order_not_found", "product_not_found",
                     "customer_not_linked"}
    BY DEF Says
<1>2. CASE route = "clarification"
    BY <1>1, <1>2 DEF ReasonsOf, ClarificationReasons, Says, HeardFor
<1>3. CASE route = "internal_review"
    BY <1>1, <1>3 DEF ReasonsOf, ReviewReasons, EvidenceReasons, DefaultMessage, HeardFor
<1>4. CASE route = "human_escalation"
    BY <1>1, <1>4 DEF ReasonsOf, EscalationReasons, RiskReasons, BlockedReasons,
                      EvidenceReasons, Says, DefaultMessage, HeardFor
<1>5. QED
    BY <1>2, <1>3, <1>4 DEF Routes

\* One of the sentences its reasons call for is what its sender gets.
LEMMA TellIsOneOfThem ==
    ASSUME NEW o, Explained(o), RouteOf(o) # "direct_response"
    PROVE  \E r \in o.reasons :
              /\ Tell(o.reasons, RouteOf(o)) =
                    IF r \in DOMAIN Says THEN Says[r] ELSE DefaultMessage[RouteOf(o)]
              /\ Tell(o.reasons, RouteOf(o)) \in HeardFor(RouteOf(o))
<1> DEFINE route   == RouteOf(o)
           says(r) == IF r \in DOMAIN Says THEN Says[r] ELSE DefaultMessage[route]
           keys    == {says(r) : r \in o.reasons}
<1>1. route \in Routes \ {"direct_response"} /\ o.reasons # {} /\ o.reasons \subseteq ReasonsOf[route]
    BY DEF Explained
<1>2. \A r \in o.reasons : says(r) \in HeardFor(route)
    BY <1>1, ReasonsAreHeard
<1> HIDE DEF says
<1>3. keys \subseteq HeardFor(route) /\ keys # {}
    BY <1>1, <1>2
<1>4. \A key \in HeardFor(route) : \E i \in 1..8 : First[i] = key
    <2>1. /\ First[1] = "handed_to_a_specialist" /\ First[2] = "account_not_linked"
          /\ First[3] = "being_checked_here"     /\ First[4] = "ask_which_first"
          /\ First[5] = "ask_for_order_number"   /\ First[6] = "ask_which_product"
          /\ First[7] = "check_the_reference"    /\ First[8] = "ask_what_is_meant"
        BY DEF First
    <2>2. HeardFor(route) \subseteq {First[1], First[2], First[3], First[4], First[5],
                                     First[6], First[7], First[8]}
        BY <1>1, <2>1 DEF HeardFor, Routes
    <2>3. QED
        BY <2>2
<1>5. PICK i \in 1..8 : First[i] \in keys
    BY <1>3, <1>4
<1>6. Tell(o.reasons, route) =
        First[CHOOSE j \in DOMAIN First :
                /\ First[j] \in keys
                /\ \A k \in DOMAIN First : First[k] \in keys => j <= k]
    BY DEF Tell, says
<1> HIDE DEF keys, route
<1>7. \E j \in DOMAIN First : /\ First[j] \in keys
                              /\ \A k \in DOMAIN First : First[k] \in keys => j <= k
    BY <1>5, OneComesFirst
<1>8. Tell(o.reasons, route) \in keys
    BY <1>6, <1>7
<1>9. Tell(o.reasons, route) \in HeardFor(route)
    BY <1>3, <1>8
<1>10. PICK r \in o.reasons : Tell(o.reasons, route) = says(r)
    BY <1>8 DEF keys
<1>11. QED
    BY <1>9, <1>10 DEF says, route

LEMMA TellIsHeard ==
    ASSUME NEW o, Explained(o), RouteOf(o) # "direct_response"
    PROVE  Tell(o.reasons, RouteOf(o)) \in HeardFor(RouteOf(o))
BY TellIsOneOfThem

\* A customer hears that one of us has their message exactly where one does.
LEMMA PromisesMatchRoutes ==
    ASSUME NEW o, Explained(o)
    PROVE  Replied(o).message \in PromisesSomebody <=> RouteOf(o) \in NeedsSomebody
<1>1. CASE RouteOf(o) = "direct_response"
    BY <1>1, RepliesRepeat DEF PromisesSomebody, NeedsSomebody, None
<1>2. CASE RouteOf(o) # "direct_response"
    <2>1. Replied(o).message \in HeardFor(RouteOf(o)) /\ RouteOf(o) \in Routes
        BY <1>2, RepliesRepeat, TellIsHeard DEF Explained
    <2>2. QED
        BY <1>2, <2>1 DEF HeardFor, Routes, PromisesSomebody, NeedsSomebody
<1>3. QED
    BY <1>1, <1>2

\* Nobody is told a colleague has their message where none will look, nor left
\* untold where one will.
THEOREM PromisesAreQueued == AgentSpec => []ToldOfAColleagueMeansQueued
<1>1. AgentSpec => []ClosedIsAccountedFor
    BY AgentRowsAccounted, PTL
<1>2. ASSUME AgentInvariant, ClosedIsAccountedFor, NEW r \in Requests, phase[r] = "answered"
      PROVE  LET row == rows[told[r].case]
             IN  told[r].reply.message \in PromisesSomebody
                    <=> Workable(row) \/ row.resolved_by # Nobody
    <2> DEFINE c == reference[r]
    <2>1. Kept(r) /\ OnFile(r) /\ Explained(outcome[r])
        BY <1>2 DEF AgentInvariant, OnRecord, OnFile, Attempts, Attempt
    <2>2. /\ told[r].case = c /\ told[r].reply = Replied(outcome[r])
          /\ c \in References /\ rows[c].route = RouteOf(outcome[r])
        BY <1>2, <2>1 DEF Kept
    <2>3. told[r].reply.message \in PromisesSomebody <=> rows[c].route \in NeedsSomebody
        BY <2>1, <2>2, PromisesMatchRoutes
    <2>4. /\ rows[c].closed <=> rows[c].resolved_by # Nobody
          /\ rows[c].closed => rows[c].route \in NeedsSomebody
        BY <1>2, <2>2 DEF ClosedIsAccountedFor
    <2>5. rows[c].closed \in BOOLEAN
        BY <1>2, <2>2 DEF AgentInvariant, QueueTypeOK, Row
    <2>6. rows[c].route \in NeedsSomebody <=> Workable(rows[c]) \/ rows[c].resolved_by # Nobody
        BY <2>4, <2>5 DEF Workable
    <2>7. QED
        BY <2>2, <2>3, <2>6
<1>3. AgentInvariant /\ ClosedIsAccountedFor => ToldOfAColleagueMeansQueued
    BY <1>2 DEF ToldOfAColleagueMeansQueued
<1>4. QED
    BY <1>1, <1>3, AgentKeepsFaith, PTL

-----------------------------------------------------------------------------
(* What is read, and what is not *)

\* Somebody asks where their money is.
Chases(e) == \E s \in e.message : s.chases

\* And names nothing else in the message but the policy that shares their words.
OnlyChases(e) ==
    /\ Chases(e) /\ RisksIn(e.message) = {}
    /\ \A s \in e.message : s.names \subseteq {"return_policy"}

\* The reasons that have a customer look again at what they typed.
NotFound == {"order_not_found", "product_not_found"}

\* What triage makes of an enquiry: every danger in it and no other is among
\* its reasons, a danger leaves nothing else to decide, what goes on has every
\* value its intent needs, a chased refund is that, and nobody has looked yet.
Judged(e, d) ==
    /\ d.reasons \cap RiskReasons = RisksIn(e.message)
    /\ RisksIn(e.message) # {} => d = Stopped("escalate", RisksIn(e.message), None)
    /\ d.kind = "proceed" => /\ d.intent \in Intents
                             /\ ProfileFor(d.intent).inputs \subseteq Known(e)
    /\ Chases(e) => d.intent \in {None, "refund_status"}
    /\ OnlyChases(e) => d.intent = "refund_status"
    /\ d.reasons \cap NotFound = {}
    /\ d.kind \in {"proceed", "escalate", "clarify", "review"}

\* An outcome that speaks of no danger.
Safe(o) == o.reasons \cap RiskReasons = {}

LEMMA OnlyDangersAreDangers ==
    /\ \A kind, reasons, intent :
          reasons \subseteq ClarificationReasons \cup ReviewReasons \cup EvidenceReasons \cup BlockedReasons
              => Safe(Stopped(kind, reasons, intent))
    /\ \A e, intent, cited, measured :
          intent \in Intents => Safe(Planned(e, intent, cited, measured))
<1>1. (ClarificationReasons \cup ReviewReasons \cup EvidenceReasons \cup BlockedReasons)
            \cap RiskReasons = {}
    BY DEF ClarificationReasons, ReviewReasons, EvidenceReasons, BlockedReasons, RiskReasons
<1>2. ASSUME NEW kind, NEW reasons, NEW intent,
             reasons \subseteq ClarificationReasons \cup ReviewReasons \cup EvidenceReasons \cup BlockedReasons
      PROVE  Safe(Stopped(kind, reasons, intent))
    BY <1>1, <1>2 DEF Safe, Stopped
<1>3. ASSUME NEW e, NEW intent \in Intents, NEW cited, NEW measured
      PROVE  Safe(Planned(e, intent, cited, measured))
    <2> DEFINE plan  == Planned(e, intent, cited, measured)
               rated == Rate(intent, measured)
    <2>1. \A f \in DOMAIN rated : Why[f] \in EvidenceReasons
        BY FactorsHaveReasons DEF Rate
    <2>2. \/ plan.reasons = {}
          \/ plan.reasons = {"nothing_approved_to_say"}
          \/ \E weak \in SUBSET DOMAIN rated : plan.reasons = {Why[f] : f \in weak}
        BY DEF Planned
    <2>3. "nothing_approved_to_say" \in ReviewReasons
        BY DEF ReviewReasons
    <2> HIDE DEF rated
    <2>4. plan.reasons \subseteq ReviewReasons \cup EvidenceReasons
        BY <2>1, <2>2, <2>3
    <2>5. QED
        BY <1>1, <2>4 DEF Safe
<1>4. QED
    BY <1>2, <1>3

LEMMA PlacedIsJudged ==
    ASSUME NEW e, RisksIn(e.message) = {}, NEW intent \in Intents,
           Chases(e) => intent = "refund_status"
    PROVE  Judged(e, Placed(e, intent))
<1> DEFINE missing == ProfileFor(intent).inputs \ Known(e)
           reason  == ReasonFor[WorstMissing(missing)]
<1>1. missing \in SUBSET Inputs
    BY DEF Intents, Inputs, ProfileFor, PolicyIntents, PolicyProfile, CommerceProfile, Profile
<1>2. CASE missing = {}
    <2>1. Placed(e, intent) = Proceed(intent)
        BY <1>2 DEF Placed
    <2>2. ProfileFor(intent).inputs \subseteq Known(e)
        BY <1>2
    <2>3. QED
        BY <2>1, <2>2 DEF Judged, OnlyChases, Proceed, Stopped
<1>3. CASE missing # {}
    <2> HIDE DEF missing
    <2>1. WorstMissing(missing) \in Inputs
        BY <1>1, <1>3, WorstIsMissing
    <2>2. reason \in (BlockedReasons \cup ClarificationReasons) \ NotFound
        BY <2>1 DEF Inputs, ReasonFor, BlockedReasons, ClarificationReasons, NotFound
    <2> HIDE DEF reason
    <2>3. Placed(e, intent) = IF reason \in EscalationReasons
                              THEN Stopped("escalate", {reason}, intent)
                              ELSE Stopped("clarify", {reason}, intent)
        BY <1>3 DEF Placed, missing, reason
    <2>4. Safe(Placed(e, intent))
        BY <2>2, <2>3, OnlyDangersAreDangers
    <2>5. /\ Placed(e, intent).kind \in {"escalate", "clarify"} /\ Placed(e, intent).intent = intent
          /\ Placed(e, intent).reasons = {reason}
        BY <2>3 DEF Stopped
    <2>6. QED
        BY <2>2, <2>4, <2>5 DEF Judged, OnlyChases, Safe
<1>4. QED
    BY <1>2, <1>3

\* Chasing a refund in the returns policy's words names one intent, so nobody is
\* asked which was meant and no classifier is shown the message.
LEMMA ChasingIsPlaced ==
    ASSUME NEW e, OnlyChases(e), NEW classified, AsksClassifier(e) \/ classified = None
    PROVE  TriageOf(e, classified) = Placed(e, "refund_status")
<1>1. (UNION {s.names : s \in e.message}) \ {"return_policy"} = {}
    BY DEF OnlyChases
<1>2. IntentsIn(e.message) = {"refund_status"}
    BY <1>1 DEF IntentsIn, OnlyChases, Chases
<1>3. Cardinality({"refund_status"}) = 1
    BY FS_Singleton
<1>4. classified = None
    BY <1>2 DEF AsksClassifier
<1>5. (CHOOSE i \in {"refund_status"} : TRUE) = "refund_status"
    OBVIOUS
<1>6. classified # Unavailable /\ classified \notin Intents
    BY <1>4 DEF None, Unavailable, Intents
<1>7. RisksIn(e.message) = {}
    BY DEF OnlyChases
<1> DEFINE matched == IntentsIn(e.message)
<1>8. Cardinality(matched) = 1 /\ matched # {}
    BY <1>2, <1>3
<1>9. TriageOf(e, classified) = Placed(e, CHOOSE i \in matched : TRUE)
    BY <1>6, <1>7, <1>8 DEF TriageOf
<1>10. QED
    BY <1>2, <1>5, <1>9

LEMMA TriageJudges ==
    ASSUME NEW e, e.message \subseteq Sentence, NEW classified \in Classifications,
           AsksClassifier(e) \/ classified = None
    PROVE  Judged(e, TriageOf(e, classified))
<1> DEFINE risks == RisksIn(e.message)
           d     == TriageOf(e, classified)
<1>1. ASSUME risks = {}, ~OnlyChases(e),
             NEW kind \in {"clarify", "review"}, NEW reason, NEW intent,
             reason \in (ReviewReasons \cup ClarificationReasons) \ NotFound, intent = None
      PROVE  Judged(e, Stopped(kind, {reason}, intent))
    <2>1. Safe(Stopped(kind, {reason}, intent))
        BY <1>1, OnlyDangersAreDangers
    <2>2. /\ Stopped(kind, {reason}, intent).kind \in {"clarify", "review"}
          /\ Stopped(kind, {reason}, intent).intent = None
          /\ Stopped(kind, {reason}, intent).reasons = {reason}
        BY <1>1 DEF Stopped
    <2>3. QED
        BY <1>1, <2>1, <2>2 DEF Judged, Safe
<1>2. /\ "intent_check_unavailable" \in ReviewReasons
      /\ "multiple_intents" \in ClarificationReasons
      /\ "unresolved_intent" \in ClarificationReasons
      /\ {"intent_check_unavailable", "multiple_intents", "unresolved_intent"} \cap NotFound = {}
    BY DEF ReviewReasons, ClarificationReasons, NotFound
<1>3. CASE risks # {}
    <2>1. d = Stopped("escalate", risks, None) /\ risks \subseteq RiskReasons
        BY <1>3, TriageBranches, ReadersKnow
    <2>2. risks \cap NotFound = {}
        BY <2>1 DEF RiskReasons, NotFound
    <2>3. d.reasons = risks /\ d.intent = None /\ d.kind = "escalate"
        BY <2>1 DEF Stopped
    <2>4. d.reasons \cap RiskReasons = risks
        BY <2>1, <2>3
    <2>5. QED
        BY <1>3, <2>1, <2>2, <2>3, <2>4 DEF Judged, OnlyChases
<1>4. CASE risks = {} /\ OnlyChases(e)
    <2>1. d = Placed(e, "refund_status")
        BY <1>4, ChasingIsPlaced
    <2>2. "refund_status" \in Intents
        BY DEF Intents
    <2>3. QED
        BY <1>4, <2>1, <2>2, PlacedIsJudged
<1>5. CASE risks = {} /\ ~OnlyChases(e)
    <2>1. \/ d = Stopped("review", {"intent_check_unavailable"}, None)
          \/ d = Stopped("clarify", {"multiple_intents"}, None)
          \/ d = Stopped("clarify", {"unresolved_intent"}, None)
          \/ \E intent \in Intents : /\ d = Placed(e, intent)
                                     /\ IntentsIn(e.message) \in {{}, {intent}}
        BY <1>5, TriageBranches
    <2>2. Chases(e) => "refund_status" \in IntentsIn(e.message)
        BY DEF Chases, IntentsIn
    <2>3. ASSUME NEW intent \in Intents, IntentsIn(e.message) \in {{}, {intent}}
          PROVE  Judged(e, Placed(e, intent))
        <3>1. Chases(e) => intent = "refund_status"
            BY <2>2, <2>3
        <3>2. QED
            BY <1>5, <3>1, PlacedIsJudged
    <2>4. /\ Judged(e, Stopped("review", {"intent_check_unavailable"}, None))
          /\ Judged(e, Stopped("clarify", {"multiple_intents"}, None))
          /\ Judged(e, Stopped("clarify", {"unresolved_intent"}, None))
        <3>1. /\ "intent_check_unavailable" \in (ReviewReasons \cup ClarificationReasons) \ NotFound
              /\ "multiple_intents" \in (ReviewReasons \cup ClarificationReasons) \ NotFound
              /\ "unresolved_intent" \in (ReviewReasons \cup ClarificationReasons) \ NotFound
            BY <1>2
        <3>2. Judged(e, Stopped("review", {"intent_check_unavailable"}, None))
            BY <1>1, <1>5, <3>1
        <3>3. Judged(e, Stopped("clarify", {"multiple_intents"}, None))
            BY <1>1, <1>5, <3>1
        <3>4. Judged(e, Stopped("clarify", {"unresolved_intent"}, None))
            BY <1>1, <1>5, <3>1
        <3>5. QED
            BY <3>2, <3>3, <3>4
    <2>5. QED
        BY <2>1, <2>3, <2>4
<1>6. QED
    BY <1>3, <1>4, <1>5

\* Which source was read for a placed message, and what it was asked.
ReadFor(h, e, intent) ==
    h # Silence =>
        /\ h.source \in Permitted(intent) \cap Connected
        /\ \/ h.lookup = NoLookup
           \/ h.lookup = LookupFor(e, intent) /\ intent \in Intents \ PolicyIntents

\* A row says when it was read, and how.
ReadProperly(row) ==
    /\ row.kind \in Kinds /\ Buildable(row)
    /\ row.age \in Int /\ row.observed \in {"live", "cached"}

\* What the code makes of what it heard.
WorkedOut(o, h, e, intent) ==
    \/ h.source = None /\ h.answer = Silence.answer /\ o = NotConnected(intent)
    \/ /\ h.source = "knowledge_base" /\ h.answer = Silence.answer
       /\ h.lexical \in RankingsOver(Written(e.locale))
       /\ h.semantic \in RankingsOver(Written(e.locale)) \cup {<<>>}
       /\ o = FromKnowledgeBase(e, intent, Search(h.lexical, h.semantic))
    \/ /\ h.source = "commerce" /\ h.lookup = LookupFor(e, intent)
       /\ h.answer \in AnswersTo(h.lookup)
       /\ h.answer.shape = "found" => ReadProperly(h.answer.record)
       /\ o = FromCommerce(e, intent, h.answer)

\* Nothing is read for a message before it is placed, nor for one that triage
\* stopped, whose outcome is what triage said.
Reading(r) ==
    /\ phase[r] \in {"received", "placed"} => heard[r] = Silence
    /\ phase[r] = "placed" => decided[r].kind = "proceed"
    /\ phase[r] \in {"placed", "decided", "recorded", "answered"} => Judged(enquiry[r], decided[r])
    /\ phase[r] \in {"decided", "recorded", "answered"} =>
          \/ decided[r].kind # "proceed" /\ outcome[r] = decided[r] /\ heard[r] = Silence
          \/ /\ decided[r].kind = "proceed" /\ Safe(outcome[r])
             /\ ReadFor(heard[r], enquiry[r], decided[r].intent)
             /\ WorkedOut(outcome[r], heard[r], enquiry[r], decided[r].intent)

Readings ==
    /\ DOMAIN heard = Requests
    /\ \A r \in Requests : Reading(r)

LEMMA ReadingsBegin == AgentInit => Readings
BY DEF AgentInit, Readings, Reading

\* The reading of a message a step does not touch stands.
LEMMA ReadingIsLeft ==
    ASSUME NEW r, Reading(r), phase'[r] = phase[r] \/ phase'[r] \in {"failed"},
           enquiry'[r] = enquiry[r], decided'[r] = decided[r],
           outcome'[r] = outcome[r], heard'[r] = heard[r]
    PROVE  Reading(r)'
BY DEF Reading

LEMMA TriageKeepsReading ==
    ASSUME Attempts, Readings, NEW r \in Requests, TriageMessage(r)
    PROVE  Reading(r)'
<1>1. PICK classified \in (IF AsksClassifier(enquiry[r]) THEN Classifications ELSE {None}) :
          LET decision == TriageOf(enquiry[r], classified)
          IN  /\ decided' = [decided EXCEPT ![r] = decision]
              /\ \/ decision.kind = "proceed" /\ Enter(r, "placed") /\ UNCHANGED outcome
                 \/ decision.kind # "proceed" /\ Reaches(r, decision)
    BY DEF TriageMessage
<1> DEFINE decision == TriageOf(enquiry[r], classified)
<1>2. phase[r] = "received" /\ enquiry' = enquiry /\ heard' = heard
    BY DEF TriageMessage
<1>3. Judged(enquiry[r], decision)
    <2>1. PICK m \in Messages : CameFrom(enquiry[r], m)
        BY <1>2 DEF Attempts, Attempt, Pending
    <2>2. enquiry[r].message \subseteq Sentence
        BY <2>1, MessagesAssumption DEF CameFrom
    <2>3. None \in Classifications
        BY DEF Classifications
    <2>4. classified \in Classifications /\ (AsksClassifier(enquiry[r]) \/ classified = None)
        BY <2>3
    <2>5. QED
        BY <2>2, <2>4, TriageJudges
<1> HIDE DEF decision
<1>4. /\ decided' = [decided EXCEPT ![r] = decision]
      /\ \/ decision.kind = "proceed" /\ phase' = [phase EXCEPT ![r] = "placed"]
         \/ /\ decision.kind # "proceed"
            /\ phase' = [phase EXCEPT ![r] = "decided"]
            /\ outcome' = [outcome EXCEPT ![r] = decision]
    BY <1>1 DEF decision, Enter, Reaches
<1>5. decided'[r] = decision /\ heard'[r] = Silence /\ enquiry'[r] = enquiry[r]
    BY <1>2, <1>4 DEF Attempts, Readings, Reading
<1>6. CASE decision.kind = "proceed"
    <2>1. phase'[r] = "placed"
        BY <1>4, <1>6 DEF Attempts
    <2>2. QED
        BY <1>3, <1>5, <1>6, <2>1 DEF Reading
<1>7. CASE decision.kind # "proceed"
    <2>1. phase'[r] = "decided" /\ outcome'[r] = decision
        BY <1>4, <1>7 DEF Attempts
    <2>2. QED
        BY <1>3, <1>5, <1>7, <2>1 DEF Reading
<1>8. QED
    BY <1>6, <1>7

\* A placed message gets its outcome from the source its profile requires.
LEMMA DecidingKeepsReading ==
    ASSUME Attempts, Readings, NEW r \in Requests, phase[r] = "placed",
           NEW result, Safe(result), Reaches(r, result), UNCHANGED <<enquiry, decided>>,
           ReadFor(heard'[r], enquiry[r], decided[r].intent),
           WorkedOut(result, heard'[r], enquiry[r], decided[r].intent)
    PROVE  Reading(r)'
<1>1. phase'[r] = "decided" /\ outcome'[r] = result
    BY DEF Reaches, Enter, Attempts
<1>2. Judged(enquiry[r], decided[r]) /\ decided[r].kind = "proceed"
    BY DEF Readings, Reading
<1>3. QED
    BY <1>1, <1>2 DEF Reading

\* A plan's source is one its profile permits and somebody connected.
LEMMA PlansArePermitted ==
    ASSUME NEW r, NEW source, PlansFrom(r, source)
    PROVE  source \in Permitted(decided[r].intent) \cap Connected
BY DEF PlansFrom, SourcesMissing, Permitted

LEMMA SourcesKeepReading ==
    ASSUME Attempts, Readings, NEW r \in Requests,
           FindNothingConnected(r) \/ SearchPolicies(r) \/ LookUp(r)
    PROVE  Reading(r)'
<1>1. phase[r] = "placed" /\ UNCHANGED <<enquiry, decided>>
    BY DEF FindNothingConnected, SearchPolicies, LookUp, PlansFrom
<1>2. decided[r].intent \in Intents /\ heard[r] = Silence
    BY <1>1 DEF Attempts, Attempt, Readings, Reading
<1>3. CASE FindNothingConnected(r)
    <2>1. "source_unavailable" \in ReviewReasons
        BY DEF ReviewReasons
    <2>2. Safe(NotConnected(decided[r].intent))
        BY <2>1, OnlyDangersAreDangers DEF NotConnected
    <2>3. heard'[r] = Silence /\ Reaches(r, NotConnected(decided[r].intent))
        BY <1>2, <1>3 DEF FindNothingConnected
    <2>4. WorkedOut(NotConnected(decided[r].intent), heard'[r], enquiry[r], decided[r].intent)
        BY <2>3 DEF WorkedOut, Silence
    <2>5. QED
        BY <1>1, <2>2, <2>3, <2>4, DecidingKeepsReading DEF ReadFor
<1>4. CASE SearchPolicies(r)
    <2>1. PICK lexical \in RankingsOver(Written(enquiry[r].locale)),
               semantic \in SemanticRankings(r) :
            /\ heard' = [heard EXCEPT ![r] = [Silence EXCEPT !.source   = "knowledge_base",
                                                             !.lexical  = lexical,
                                                             !.semantic = semantic]]
            /\ Reaches(r, FromKnowledgeBase(enquiry[r], decided[r].intent,
                                            Search(lexical, semantic)))
        BY <1>4 DEF SearchPolicies
    <2>2. Safe(FromKnowledgeBase(enquiry[r], decided[r].intent, Search(lexical, semantic)))
        <3>1. "no_supporting_evidence" \in BlockedReasons
            BY DEF BlockedReasons
        <3>2. QED
            BY <1>2, <3>1, OnlyDangersAreDangers DEF FromKnowledgeBase
    <2>3. heard'[r].source = "knowledge_base" /\ heard'[r].lookup = NoLookup
        BY <2>1 DEF Readings, Silence
    <2>4. "knowledge_base" \in Permitted(decided[r].intent) \cap Connected
        BY <1>4, PlansArePermitted DEF SearchPolicies
    <2>5. WorkedOut(FromKnowledgeBase(enquiry[r], decided[r].intent, Search(lexical, semantic)),
                    heard'[r], enquiry[r], decided[r].intent)
        <3>1. heard'[r] = [Silence EXCEPT !.source = "knowledge_base", !.lexical = lexical,
                                          !.semantic = semantic]
            BY <2>1 DEF Readings
        <3>2. /\ heard'[r].source = "knowledge_base" /\ heard'[r].answer = Silence.answer
              /\ heard'[r].lexical = lexical /\ heard'[r].semantic = semantic
            BY <3>1 DEF Silence
        <3>3. semantic \in RankingsOver(Written(enquiry[r].locale)) \cup {<<>>}
            BY DEF SemanticRankings
        <3>4. QED
            BY <3>2, <3>3 DEF WorkedOut
    <2>6. QED
        BY <1>1, <2>1, <2>2, <2>3, <2>4, <2>5, DecidingKeepsReading DEF ReadFor
<1>5. CASE LookUp(r)
    <2>1. PICK answer \in AnswersTo(Asked(r)) :
            /\ heard' = [heard EXCEPT ![r] = [Silence EXCEPT !.source = "commerce",
                                                             !.lookup = Asked(r),
                                                             !.answer = answer]]
            /\ Reaches(r, FromCommerce(enquiry[r], decided[r].intent, answer))
        BY <1>5 DEF LookUp
    <2>2. Safe(FromCommerce(enquiry[r], decided[r].intent, answer))
        <3>1. "source_unavailable" \in ReviewReasons
            BY DEF ReviewReasons
        <3>2. NotFoundReason(decided[r].intent) \in ClarificationReasons
            BY DEF NotFoundReason, ClarificationReasons
        <3>3. \/ FromCommerce(enquiry[r], decided[r].intent, answer)
                    = Stopped("clarify", {NotFoundReason(decided[r].intent)}, decided[r].intent)
              \/ FromCommerce(enquiry[r], decided[r].intent, answer)
                    = Stopped("review", {"source_unavailable"}, decided[r].intent)
              \/ \E cited, measured : FromCommerce(enquiry[r], decided[r].intent, answer)
                    = Planned(enquiry[r], decided[r].intent, cited, measured)
            BY DEF FromCommerce, IsTheRow
        <3>4. QED
            BY <1>2, <3>1, <3>2, <3>3, OnlyDangersAreDangers
    <2>3. PlansFrom(r, "commerce")
        BY <1>5 DEF LookUp
    <2>4. heard'[r].source = "commerce" /\ heard'[r].lookup = LookupFor(enquiry[r], decided[r].intent)
        BY <2>1 DEF Readings, Silence, Asked
    <2>5. decided[r].intent \notin PolicyIntents
        BY <2>3 DEF PlansFrom, ProfileFor, PolicyIntents, PolicyProfile, Profile
    <2>6. WorkedOut(FromCommerce(enquiry[r], decided[r].intent, answer),
                    heard'[r], enquiry[r], decided[r].intent)
        <3>1. heard'[r].answer = answer /\ answer \in AnswersTo(heard'[r].lookup)
            BY <2>1, <2>4 DEF Readings, Silence, Asked
        <3>2. answer.shape = "found" => ReadProperly(answer.record)
            BY <2>3, AnswersAreReadings DEF ReadProperly
        <3>3. QED
            BY <2>4, <3>1, <3>2 DEF WorkedOut
    <2>7. QED
        BY <1>1, <1>2, <2>1, <2>2, <2>3, <2>4, <2>5, <2>6, PlansArePermitted,
           DecidingKeepsReading DEF ReadFor
<1>6. QED
    BY <1>3, <1>4, <1>5

LEMMA ReadingsHold == Attempts /\ Readings /\ [AgentNext]_agentVars => Readings'
<1> SUFFICES ASSUME Attempts, Readings, [AgentNext]_agentVars
             PROVE  Readings'
    OBVIOUS
<1>1. ASSUME UNCHANGED <<phase, enquiry, decided, heard, outcome>>
      PROVE  Readings'
    BY <1>1 DEF Readings, Reading
<1>2. ASSUME NEW r \in Requests, Reading(r)', DOMAIN heard' = Requests,
             \A s \in Requests \ {r} : /\ phase'[s] = phase[s] /\ enquiry'[s] = enquiry[s]
                                       /\ decided'[s] = decided[s] /\ outcome'[s] = outcome[s]
                                       /\ heard'[s] = heard[s]
      PROVE  Readings'
    <2>1. ASSUME NEW s \in Requests, s # r
          PROVE  Reading(s)'
        BY <1>2, <2>1, ReadingIsLeft DEF Readings
    <2>2. QED
        BY <1>2, <2>1 DEF Readings
<1>3. CASE Boot
    BY <1>1, <1>3 DEF Boot
<1>4. CASE Crash
    <2>1. \A r \in Requests : phase'[r] = phase[r] \/ phase'[r] = "failed"
        BY <1>4 DEF Crash
    <2>2. UNCHANGED <<enquiry, decided, heard, outcome>>
        BY <1>4 DEF Crash
    <2>3. QED
        BY <2>1, <2>2, ReadingIsLeft DEF Readings
<1>5. ASSUME NEW r \in Requests, NEW message \in Messages, NEW ref \in References,
             Receive(r, message, ref)
      PROVE  Readings'
    <2>1. /\ phase' = [phase EXCEPT ![r] = "received"]
          /\ enquiry' = [enquiry EXCEPT ![r] = [message EXCEPT !.locale = LanguageOf(message.locale)]]
          /\ decided' = [decided EXCEPT ![r] = Undecided]
          /\ heard' = [heard EXCEPT ![r] = Silence]
          /\ outcome' = [outcome EXCEPT ![r] = Undecided]
        BY <1>5 DEF Receive, Enter
    <2>2. phase'[r] = "received" /\ heard'[r] = Silence /\ DOMAIN heard' = Requests
        BY <2>1 DEF Attempts, Readings
    <2>3. Reading(r)'
        BY <2>2 DEF Reading
    <2>4. \A s \in Requests \ {r} : /\ phase'[s] = phase[s] /\ enquiry'[s] = enquiry[s]
                                    /\ decided'[s] = decided[s] /\ outcome'[s] = outcome[s]
                                    /\ heard'[s] = heard[s]
        BY <2>1 DEF Attempts, Readings
    <2>5. QED
        BY <1>2, <2>2, <2>3, <2>4
<1>6. ASSUME NEW r \in Requests, Step(r)
      PROVE  Readings'
    <2>1. CASE \/ TriageMessage(r) \/ FindNothingConnected(r) \/ SearchPolicies(r) \/ LookUp(r)
        <3>1. Reading(r)'
            BY <2>1, TriageKeepsReading, SourcesKeepReading
        <3>2. /\ \E step : phase' = [phase EXCEPT ![r] = step]
              /\ enquiry' = enquiry
              /\ decided' = decided \/ \E d : decided' = [decided EXCEPT ![r] = d]
              /\ outcome' = outcome \/ \E o : outcome' = [outcome EXCEPT ![r] = o]
              /\ heard' = heard \/ \E h : heard' = [heard EXCEPT ![r] = h]
            BY <2>1 DEF TriageMessage, FindNothingConnected, SearchPolicies, LookUp, Reaches, Enter
        <3>3. DOMAIN heard' = Requests
            BY <3>2 DEF Readings
        <3>4. \A s \in Requests \ {r} : /\ phase'[s] = phase[s] /\ enquiry'[s] = enquiry[s]
                                        /\ decided'[s] = decided[s] /\ outcome'[s] = outcome[s]
                                        /\ heard'[s] = heard[s]
            BY <3>2 DEF Attempts, Readings
        <3>5. QED
            BY <1>2, <3>1, <3>3, <3>4
    <2>2. CASE SourceRaises(r) \/ Record(r) \/ RecordFails(r) \/ Deliver(r) \/ LoseReply(r)
        <3>1. /\ \/ phase' = [phase EXCEPT ![r] = "failed"]
                 \/ phase[r] = "decided" /\ phase' = [phase EXCEPT ![r] = "recorded"]
                 \/ phase[r] = "recorded" /\ phase' = [phase EXCEPT ![r] = "answered"]
              /\ UNCHANGED <<enquiry, decided, heard, outcome>>
            BY <2>2 DEF SourceRaises, Record, RecordFails, Deliver, LoseReply, Enter
        <3>2. \/ phase'[r] = "failed"
              \/ /\ phase[r] \in {"decided", "recorded"}
                 /\ phase'[r] \in {"recorded", "answered"}
            BY <3>1 DEF Attempts
        <3>3. Reading(r)'
            BY <3>1, <3>2 DEF Readings, Reading
        <3>4. \A s \in Requests \ {r} : phase'[s] = phase[s]
            BY <3>1 DEF Attempts
        <3>5. QED
            BY <1>2, <3>1, <3>3, <3>4 DEF Readings
    <2>3. QED
        BY <1>6, <2>1, <2>2 DEF Step
<1>7. ASSUME NEW c \in References, StaffWork(c)
      PROVE  Readings'
    BY <1>1, <1>7 DEF StaffWork
<1>8. CASE UNCHANGED agentVars
    BY <1>1, <1>8 DEF agentVars
<1>9. QED
    BY <1>3, <1>4, <1>5, <1>6, <1>7, <1>8 DEF AgentNext

LEMMA ReadingsStand == AgentSpec => []Readings
<1>1. AgentSpec => []AgentInvariant
    BY AgentKeepsFaith
<1>2. AgentInvariant => Attempts
    BY DEF AgentInvariant
<1>3. QED
    BY <1>1, <1>2, ReadingsBegin, ReadingsHold, PTL DEF AgentSpec

\* What one sentence describes is what the rules find in it.
LEMMA DescribedIsFound ==
    ASSUME NEW message
    PROVE  UNION {Describes(s) : s \in message} = RisksIn(message)
BY DEF Describes, RisksIn, IsAdvisory

\* A danger described in any sentence reaches a person under its own name, with
\* nothing read, placed or classified on the way.
THEOREM DangerIsNeverRead == AgentSpec => []DangerReachesAPersonUnread
<1>1. ASSUME AgentInvariant, Readings, NEW r \in Requests, OnFile(r)
      PROVE  LET described == UNION {Describes(s) : s \in enquiry[r].message}
             IN  /\ Filed(r).reply.reasons \cap RiskReasons = described
                 /\ described # {} =>
                       /\ Filed(r).reply.route = "human_escalation"
                       /\ Filed(r).reply.intent = None
                       /\ Filed(r).sources = {}
                       /\ heard[r] = Silence
    <2> DEFINE risks == RisksIn(enquiry[r].message)
    <2>1. Kept(r) /\ Reading(r)
        BY <1>1 DEF AgentInvariant, OnRecord, Readings
    <2>2. Filed(r).reply = Replied(outcome[r]) /\ Filed(r).sources = Allowed(r)
        BY <1>1, <2>1 DEF Kept, Filed
    <2>3. /\ Judged(enquiry[r], decided[r])
          /\ \/ decided[r].kind # "proceed" /\ outcome[r] = decided[r] /\ heard[r] = Silence
             \/ decided[r].kind = "proceed" /\ Safe(outcome[r])
        BY <1>1, <2>1 DEF OnFile, Reading
    <2>4. CASE risks # {}
        <3>1. decided[r] = Stopped("escalate", risks, None)
            BY <2>3, <2>4 DEF Judged
        <3>2. decided[r].kind = "escalate" /\ decided[r].intent = None
            BY <3>1 DEF Stopped
        <3>3. outcome[r] = decided[r] /\ heard[r] = Silence /\ Allowed(r) = {}
            BY <2>3, <3>2 DEF Allowed
        <3>4. RouteOf(outcome[r]) = "human_escalation"
            BY <3>2, <3>3 DEF RouteOf
        <3>5. outcome[r].reasons \cap RiskReasons = risks
            BY <2>3, <3>3 DEF Judged
        <3>6. QED
            BY <2>2, <3>2, <3>3, <3>4, <3>5, RepliesRepeat, DescribedIsFound
    <2>5. CASE risks = {}
        <3>1. outcome[r].reasons \cap RiskReasons = {}
            BY <2>3, <2>5 DEF Judged, Safe
        <3>2. QED
            BY <2>2, <2>5, <3>1, RepliesRepeat, DescribedIsFound
    <2>6. QED
        BY <2>4, <2>5
<1>2. AgentInvariant /\ Readings => DangerReachesAPersonUnread
    BY <1>1 DEF DangerReachesAPersonUnread
<1>3. QED
    BY <1>2, AgentKeepsFaith, ReadingsStand, PTL

\* An intent about somebody's own order needs their account and its reference.
LEMMA OrdersNeedTheirOwner ==
    ASSUME NEW e, NEW intent \in Intents \ PolicyIntents,
           ProfileFor(intent).inputs \subseteq Known(e),
           LookupFor(e, intent).asks \in {"order", "refund"}
    PROVE  /\ LookupFor(e, intent).customer = e.customer
           /\ None \notin {LookupFor(e, intent).customer, LookupFor(e, intent).about}
<1>1. intent \in {"refund_status", "order_status"}
    BY DEF Intents, PolicyIntents, LookupFor
<1>2. {"commerce_account", "order_id"} \subseteq Known(e)
    BY <1>1 DEF ProfileFor, PolicyIntents, CommerceProfile, Profile
<1>3. e.customer # None /\ e.order # None
    BY <1>2 DEF Known
<1>4. LookupFor(e, intent).customer = e.customer /\ LookupFor(e, intent).about = e.order
    BY <1>1 DEF LookupFor
<1>5. QED
    BY <1>3, <1>4

\* No source is read that the record does not list, and no order is asked about
\* but by its reference, on behalf of the account that sent the message.
THEOREM ReadingIsRecorded == AgentSpec => []ReadsOnlyWhatItRecords
<1>1. ASSUME AgentInvariant, Readings, NEW r \in Requests, OnFile(r), heard[r] # Silence
      PROVE  /\ heard[r].source \in Filed(r).sources \cap Connected
             /\ heard[r].lookup.asks \in {"order", "refund"} =>
                   /\ heard[r].lookup.customer = enquiry[r].customer
                   /\ None \notin {heard[r].lookup.customer, heard[r].lookup.about}
    <2>1. Kept(r) /\ Reading(r)
        BY <1>1 DEF AgentInvariant, OnRecord, Readings
    <2>2. /\ Judged(enquiry[r], decided[r]) /\ decided[r].kind = "proceed"
          /\ ReadFor(heard[r], enquiry[r], decided[r].intent)
        BY <1>1, <2>1 DEF OnFile, Reading
    <2>3. Filed(r).sources = Permitted(decided[r].intent)
        BY <1>1, <2>1, <2>2 DEF Kept, Filed, Allowed
    <2>4. heard[r].source \in Filed(r).sources \cap Connected
        BY <1>1, <2>2, <2>3 DEF ReadFor
    <2>5. ASSUME heard[r].lookup.asks \in {"order", "refund"}
          PROVE  /\ heard[r].lookup.customer = enquiry[r].customer
                 /\ None \notin {heard[r].lookup.customer, heard[r].lookup.about}
        <3>1. heard[r].lookup # NoLookup
            BY <2>5 DEF NoLookup, None
        <3>2. /\ heard[r].lookup = LookupFor(enquiry[r], decided[r].intent)
              /\ decided[r].intent \in Intents \ PolicyIntents
            BY <1>1, <2>2, <3>1 DEF ReadFor
        <3>3. ProfileFor(decided[r].intent).inputs \subseteq Known(enquiry[r])
            BY <2>2 DEF Judged
        <3>4. QED
            BY <2>5, <3>2, <3>3, OrdersNeedTheirOwner
    <2>6. QED
        BY <2>4, <2>5
<1>2. AgentInvariant /\ Readings => ReadsOnlyWhatItRecords
    BY <1>1 DEF ReadsOnlyWhatItRecords
<1>3. QED
    BY <1>2, AgentKeepsFaith, ReadingsStand, PTL

\* Each outcome keeps the intent it is about, and only a gateway that has no
\* such row makes the customer look again.
LEMMA OutcomesKeepTheirIntent ==
    ASSUME NEW o, NEW h, NEW e, NEW intent, WorkedOut(o, h, e, intent)
    PROVE  o.intent = intent
<1>1. \A kind, reasons : Stopped(kind, reasons, intent).intent = intent
    BY DEF Stopped
<1>2. \A cited, measured : Planned(e, intent, cited, measured).intent = intent
    BY DEF Planned
<1>3. FromKnowledgeBase(e, intent, Search(h.lexical, h.semantic)).intent = intent
    BY <1>1, <1>2 DEF FromKnowledgeBase
<1>4. FromCommerce(e, intent, h.answer).intent = intent
    BY <1>1, <1>2 DEF FromCommerce, IsTheRow
<1>5. QED
    BY <1>1, <1>3, <1>4 DEF WorkedOut, NotConnected

LEMMA PlansFindSomething ==
    ASSUME NEW e, NEW intent \in Intents, NEW cited, NEW measured
    PROVE  Planned(e, intent, cited, measured).reasons \cap NotFound = {}
<1> DEFINE plan  == Planned(e, intent, cited, measured)
           rated == Rate(intent, measured)
<1>1. \A f \in DOMAIN rated : Why[f] \in EvidenceReasons
    BY FactorsHaveReasons DEF Rate
<1>2. \/ plan.reasons = {}
      \/ plan.reasons = {"nothing_approved_to_say"}
      \/ \E weak \in SUBSET DOMAIN rated : plan.reasons = {Why[f] : f \in weak}
    BY DEF Planned
<1>3. (EvidenceReasons \cup {"nothing_approved_to_say"}) \cap NotFound = {}
    BY DEF EvidenceReasons, NotFound
<1> HIDE DEF rated
<1>4. plan.reasons \subseteq EvidenceReasons \cup {"nothing_approved_to_say"}
    BY <1>1, <1>2
<1>5. QED
    BY <1>3, <1>4

LEMMA OnlyAMissingRowIsMissing ==
    ASSUME NEW o, NEW h, NEW e, NEW intent \in Intents, WorkedOut(o, h, e, intent)
    PROVE  IF h.answer.shape = "not_available"
           THEN o = Stopped("clarify", {NotFoundReason(intent)}, intent)
           ELSE o.reasons \cap NotFound = {}
<1>1. \A kind, reason : reason \notin NotFound
            => Stopped(kind, {reason}, intent).reasons \cap NotFound = {}
    BY DEF Stopped
<1>2. "source_unavailable" \notin NotFound /\ "no_supporting_evidence" \notin NotFound
    BY DEF NotFound
<1>3. Silence.answer.shape # "not_available"
    BY DEF Silence
<1>4. CASE h.answer = Silence.answer /\ o = NotConnected(intent)
    BY <1>1, <1>2, <1>3, <1>4 DEF NotConnected
<1>5. CASE /\ h.answer = Silence.answer
           /\ o = FromKnowledgeBase(e, intent, Search(h.lexical, h.semantic))
    <2>1. o.reasons \cap NotFound = {}
        BY <1>1, <1>2, <1>5, PlansFindSomething DEF FromKnowledgeBase
    <2>2. QED
        BY <1>3, <1>5, <2>1
<1>6. CASE o = FromCommerce(e, intent, h.answer)
    <2>1. CASE h.answer.shape = "not_available"
        BY <1>6, <2>1 DEF FromCommerce, IsTheRow
    <2>2. CASE h.answer.shape # "not_available"
        <3>1. \/ o = Stopped("review", {"source_unavailable"}, intent)
              \/ \E cited, measured : o = Planned(e, intent, cited, measured)
            BY <1>6, <2>2 DEF FromCommerce
        <3>2. QED
            BY <1>1, <1>2, <2>2, <3>1, PlansFindSomething
    <2>3. QED
        BY <2>1, <2>2
<1>7. QED
    BY <1>4, <1>5, <1>6 DEF WorkedOut

\* Whoever is chasing a refund is never answered from a written policy, nor asked
\* whether that policy is what they meant.
THEOREM RefundsAreLookedUp == AgentSpec => []ChasedRefundsAreLookedUp
<1>1. ASSUME AgentInvariant, Readings, NEW r \in Requests, OnFile(r), Chases(enquiry[r])
      PROVE  /\ heard[r].source # "knowledge_base"
             /\ Filed(r).reply.intent \in {None, "refund_status"}
             /\ OnlyChases(enquiry[r]) => Filed(r).reply.intent = "refund_status"
    <2>1. Kept(r) /\ Reading(r)
        BY <1>1 DEF AgentInvariant, OnRecord, Readings
    <2>2. Filed(r).reply.intent = outcome[r].intent
        BY <1>1, <2>1, RepliesRepeat DEF Kept, Filed
    <2>3. /\ Judged(enquiry[r], decided[r])
          /\ \/ decided[r].kind # "proceed" /\ outcome[r] = decided[r] /\ heard[r] = Silence
             \/ /\ decided[r].kind = "proceed"
                /\ ReadFor(heard[r], enquiry[r], decided[r].intent)
                /\ WorkedOut(outcome[r], heard[r], enquiry[r], decided[r].intent)
        BY <1>1, <2>1 DEF OnFile, Reading
    <2>4. /\ decided[r].intent \in {None, "refund_status"}
          /\ OnlyChases(enquiry[r]) => decided[r].intent = "refund_status"
        BY <1>1, <2>3 DEF Judged
    <2>5. CASE decided[r].kind # "proceed"
        BY <2>2, <2>3, <2>4, <2>5 DEF Silence, None
    <2>6. CASE decided[r].kind = "proceed"
        <3>1. decided[r].intent = "refund_status"
            BY <2>3, <2>4, <2>6 DEF Judged, Intents, None
        <3>2. outcome[r].intent = "refund_status"
            BY <2>3, <2>6, <3>1, OutcomesKeepTheirIntent
        <3>3. "knowledge_base" \notin Permitted("refund_status")
            BY DEF Permitted, ProfileFor, PolicyIntents, CommerceProfile, Profile
        <3>4. heard[r].source # "knowledge_base"
            BY <2>3, <2>6, <3>1, <3>3 DEF ReadFor, Silence, None
        <3>5. QED
            BY <2>2, <3>2, <3>4
    <2>7. QED
        BY <2>5, <2>6
<1>2. ASSUME NEW r \in Requests,
             \A s \in enquiry[r].message : s.names \subseteq {"return_policy"} /\ Describes(s) = {}
      PROVE  Chases(enquiry[r]) => OnlyChases(enquiry[r])
    <2>1. UNION {Describes(s) : s \in enquiry[r].message} = {}
        BY <1>2
    <2>2. RisksIn(enquiry[r].message) = {}
        BY <2>1, DescribedIsFound
    <2>3. QED
        BY <1>2, <2>2 DEF OnlyChases
<1>3. AgentInvariant /\ Readings => ChasedRefundsAreLookedUp
    BY <1>1, <1>2 DEF ChasedRefundsAreLookedUp, Chases
<1>4. QED
    BY <1>3, AgentKeepsFaith, ReadingsStand, PTL

\* The sentence that has a customer check what they typed is chosen only for a
\* reason that says it was not found, and whenever that is the one reason.
LEMMA OnlyAMissingRowIsChecked ==
    ASSUME NEW o, Explained(o)
    PROVE  /\ Replied(o).message = "check_the_reference" => o.reasons \cap NotFound # {}
           /\ \A reason \in NotFound :
                 RouteOf(o) = "clarification" /\ o.reasons = {reason}
                     => Replied(o).message = "check_the_reference"
<1> DEFINE route   == RouteOf(o)
           says(r) == IF r \in DOMAIN Says THEN Says[r] ELSE DefaultMessage[route]
<1>1. route = "direct_response" => Replied(o).message = None
    BY RepliesRepeat
<1>2. None # "check_the_reference"
    BY DEF None
<1>3. CASE route # "direct_response"
    <2>1. PICK r \in o.reasons : Replied(o).message = says(r)
        BY <1>3, RepliesRepeat, TellIsOneOfThem
    <2>2. route \in Routes \ {"direct_response"}
        BY <1>3 DEF Explained
    <2>3. DefaultMessage[route] # "check_the_reference"
        BY <2>2 DEF DefaultMessage, Routes
    <2>4. DOMAIN Says = {"missing_order_id", "missing_product_reference", "multiple_intents",
                         "unresolved_intent", "order_not_found", "product_not_found",
                         "customer_not_linked"}
        BY DEF Says
    <2>5. \A x \in DOMAIN Says : Says[x] = "check_the_reference" <=> x \in NotFound
        BY <2>4 DEF Says, NotFound
    <2>6. NotFound \subseteq DOMAIN Says
        BY <2>4 DEF NotFound
    <2>7. says(r) = "check_the_reference" <=> r \in NotFound
        BY <2>3, <2>5, <2>6
    <2>8. QED
        BY <2>1, <2>7
<1>4. QED
    BY <1>1, <1>2, <1>3

\* A customer is asked to check what they typed exactly when the gateway said
\* there is no such row.
THEOREM FaultsStayOurs == AgentSpec => []FaultsAreNotTheCustomers
<1>1. ASSUME AgentInvariant, Readings, NEW r \in Requests, OnFile(r)
      PROVE  Filed(r).reply.message = "check_the_reference"
                <=> heard[r].answer.shape = "not_available"
    <2>1. Kept(r) /\ Reading(r) /\ Explained(outcome[r])
        BY <1>1 DEF AgentInvariant, OnRecord, Readings, Attempts, Attempt, OnFile, Pending
    <2>2. Filed(r).reply.message = Replied(outcome[r]).message
        BY <1>1, <2>1 DEF Kept, Filed
    <2>3. /\ Judged(enquiry[r], decided[r])
          /\ \/ decided[r].kind # "proceed" /\ outcome[r] = decided[r] /\ heard[r] = Silence
             \/ /\ decided[r].kind = "proceed"
                /\ WorkedOut(outcome[r], heard[r], enquiry[r], decided[r].intent)
        BY <1>1, <2>1 DEF OnFile, Reading
    <2>4. CASE decided[r].kind # "proceed"
        <3>1. outcome[r].reasons \cap NotFound = {}
            BY <2>3, <2>4 DEF Judged
        <3>2. heard[r].answer.shape # "not_available"
            BY <2>3, <2>4 DEF Silence
        <3>3. QED
            BY <2>1, <2>2, <3>1, <3>2, OnlyAMissingRowIsChecked
    <2>5. CASE decided[r].kind = "proceed"
        <3>1. decided[r].intent \in Intents
            BY <2>3, <2>5 DEF Judged
        <3>2. IF heard[r].answer.shape = "not_available"
              THEN outcome[r] = Stopped("clarify", {NotFoundReason(decided[r].intent)},
                                        decided[r].intent)
              ELSE outcome[r].reasons \cap NotFound = {}
            BY <2>3, <2>5, <3>1, OnlyAMissingRowIsMissing
        <3>3. NotFoundReason(decided[r].intent) \in NotFound
            BY DEF NotFoundReason, NotFound
        <3>4. ASSUME heard[r].answer.shape = "not_available"
              PROVE  Replied(outcome[r]).message = "check_the_reference"
            <4>1. /\ outcome[r].kind = "clarify"
                  /\ outcome[r].reasons = {NotFoundReason(decided[r].intent)}
                BY <3>2, <3>4 DEF Stopped
            <4>2. RouteOf(outcome[r]) = "clarification"
                BY <4>1 DEF RouteOf
            <4>3. QED
                BY <2>1, <3>3, <4>1, <4>2, OnlyAMissingRowIsChecked
        <3>5. QED
            BY <2>1, <2>2, <3>2, <3>4, OnlyAMissingRowIsChecked
    <2>6. QED
        BY <2>4, <2>5
<1>2. AgentInvariant /\ Readings => FaultsAreNotTheCustomers
    BY <1>1 DEF FaultsAreNotTheCustomers
<1>3. QED
    BY <1>2, AgentKeepsFaith, ReadingsStand, PTL

-----------------------------------------------------------------------------
(* What is said *)

\* A rating that sends an answer leaves no factor below it.
LEMMA WeakestBounds ==
    ASSUME NEW ratings \in SUBSET Levels, ratings # {},
           RouteAt(Weakest(ratings)) = "direct_response"
    PROVE  \A l \in ratings : l \in {READY, ACCEPTABLE}
<1>1. \A l \in ratings : l \in {0, 1, 2, 3}
    BY DEF Levels
<1>2. \E l \in ratings : \A m \in ratings : l <= m
    <2>1. CASE 0 \in ratings
        BY <1>1, <2>1
    <2>2. CASE 0 \notin ratings /\ 1 \in ratings
        BY <1>1, <2>2
    <2>3. CASE 0 \notin ratings /\ 1 \notin ratings /\ 2 \in ratings
        BY <1>1, <2>3
    <2>4. CASE 0 \notin ratings /\ 1 \notin ratings /\ 2 \notin ratings
        BY <1>1, <2>4
    <2>5. QED
        BY <2>1, <2>2, <2>3, <2>4
<1>3. /\ Weakest(ratings) \in ratings
      /\ \A l \in ratings : Weakest(ratings) <= l
    BY <1>2 DEF Weakest
<1>4. Weakest(ratings) \in {READY, ACCEPTABLE}
    BY <1>1, <1>3 DEF RouteAt, READY, ACCEPTABLE, REVIEW_ONLY, UNUSABLE
<1>5. QED
    BY <1>1, <1>3, <1>4 DEF READY, ACCEPTABLE

\* A plan that is sent says all that was asked in approved sentences, and every
\* factor its profile requires was found good.
LEMMA SentPlansSayEverything ==
    ASSUME NEW e, NEW intent \in Intents, NEW cited, NEW measured,
           \A f \in DOMAIN measured : measured[f] \in Levels,
           RouteOf(Planned(e, intent, cited, measured)) = "direct_response"
    PROVE  /\ Planned(e, intent, cited, measured).wording = FactsIn(e.message)
           /\ CanSay(FactsIn(e.message), e.locale)
           /\ \A f \in ProfileFor(intent).factors :
                 f \in DOMAIN measured /\ measured[f] \in {READY, ACCEPTABLE}
<1> DEFINE plan  == Planned(e, intent, cited, measured)
           rated == Rate(intent, measured)
           levels == {rated[f] : f \in DOMAIN rated}
           level == Weakest(levels)
           says  == CanSay(FactsIn(e.message), e.locale)
<1>1. /\ DOMAIN rated = ProfileFor(intent).factors /\ DOMAIN rated # {}
      /\ \A f \in DOMAIN rated : rated[f] = IF f \in DOMAIN measured THEN measured[f] ELSE UNUSABLE
    BY FactorsHaveReasons DEF Rate
<1> HIDE DEF rated
<1>2. levels \in SUBSET Levels /\ levels # {}
    BY <1>1 DEF UNUSABLE, Levels
<1>3. /\ plan.kind = "plan" /\ plan.level = level
      /\ RouteAt(level) = "direct_response" /\ says => plan.wording = FactsIn(e.message)
      /\ RouteAt(level) = "direct_response" /\ ~says => plan.reasons = {"nothing_approved_to_say"}
    BY DEF Planned, rated
<1> HIDE DEF plan, says, levels
<1>4. RouteOf(plan) = IF plan.reasons = {"nothing_approved_to_say"}
                      THEN "internal_review" ELSE RouteAt(plan.level)
    BY <1>3 DEF RouteOf
<1>5. RouteOf(plan) = "direct_response"
    BY DEF plan
<1>6. RouteAt(level) = "direct_response" /\ says
    BY <1>3, <1>4, <1>5
<1>7. \A l \in levels : l \in {READY, ACCEPTABLE}
    BY <1>2, <1>6, WeakestBounds
<1>8. \A f \in DOMAIN rated : rated[f] \in {READY, ACCEPTABLE}
    BY <1>7 DEF levels
<1>9. UNUSABLE \notin {READY, ACCEPTABLE}
    BY DEF UNUSABLE, READY, ACCEPTABLE
<1>10. \A f \in ProfileFor(intent).factors :
          f \in DOMAIN measured /\ measured[f] \in {READY, ACCEPTABLE}
    BY <1>1, <1>8, <1>9
<1>11. QED
    BY <1>3, <1>6, <1>10 DEF plan, says

\* Coverage is good where everything asked is there, and freshness where the
\* reading is neither too old nor yet to come.
LEMMA GoodMeansSupported ==
    /\ \A requested, carried :
          CoverageOf(requested, carried) \in {READY, ACCEPTABLE} => requested \subseteq carried
    /\ \A row : row.age \in Int /\ FreshnessOf(row) \in {READY, ACCEPTABLE}
                                /\ row.observed \in {"live", "cached"}
                    => row.age \in 0..Ttl
<1>1. ASSUME NEW requested, NEW carried, ~(requested \subseteq carried)
      PROVE  CoverageOf(requested, carried) \notin {READY, ACCEPTABLE}
    <2>1. requested # {}
        BY <1>1
    <2>2. CASE requested \cap carried # {}
        BY <1>1, <2>1, <2>2 DEF CoverageOf, REVIEW_ONLY, READY, ACCEPTABLE
    <2>3. CASE requested \cap carried = {}
        BY <1>1, <2>1, <2>3 DEF CoverageOf, UNUSABLE, READY, ACCEPTABLE
    <2>4. QED
        BY <2>2, <2>3
<1>2. ASSUME NEW row, row.age \in Int, row.observed \in {"live", "cached"}, row.age \notin 0..Ttl
      PROVE  FreshnessOf(row) \notin {READY, ACCEPTABLE}
    <2>1. Ttl \in Nat /\ ReadableFor \in Nat /\ Ttl <= ReadableFor
        BY SourcesAssumption
    <2>2. CASE row.age < 0
        BY <1>2, <2>1, <2>2 DEF FreshnessOf, UNUSABLE, READY, ACCEPTABLE
    <2>3. CASE row.age \in Ttl+1..ReadableFor
        BY <1>2, <2>1, <2>3 DEF FreshnessOf, REVIEW_ONLY, READY, ACCEPTABLE
    <2>4. CASE row.age > ReadableFor
        BY <1>2, <2>1, <2>4 DEF FreshnessOf, UNUSABLE, READY, ACCEPTABLE
    <2>5. CASE 0 <= row.age /\ row.age <= Ttl
        BY <1>2, <2>1, <2>5
    <2>6. row.age < 0 \/ (0 <= row.age /\ row.age <= Ttl) \/ row.age \in Ttl+1..ReadableFor
              \/ row.age > ReadableFor
        BY <1>2, <2>1
    <2>7. QED
        BY <2>2, <2>3, <2>4, <2>5, <2>6
<1>3. QED
    BY <1>1, <1>2

\* What a message asks, said twice.
LEMMA AskedIsFound ==
    ASSUME NEW message
    PROVE  AsksFor(message) = FactsIn(message)
<1>1. \A f : f \in AsksFor(message) <=>
          \/ \E s \in message : f \in s.wants
          \/ \E s \in message : \E p \in s.policies : f \in WholePolicy[p]
    <2> DEFINE named  == UNION {s.policies : s \in message}
               wanted == UNION {s.wants : s \in message}
               whole  == UNION {WholePolicy[p] : p \in named}
    <2>1. \A p : p \in named <=> \E s \in message : p \in s.policies
        OBVIOUS
    <2>2. \A f : f \in wanted <=> \E s \in message : f \in s.wants
        OBVIOUS
    <2>3. AsksFor(message) = wanted \cup whole
        BY DEF AsksFor
    <2> HIDE DEF named, wanted
    <2>4. \A f : f \in whole <=> \E p \in named : f \in WholePolicy[p]
        OBVIOUS
    <2> HIDE DEF whole
    <2>5. \A f : f \in AsksFor(message) <=> f \in wanted \/ f \in whole
        BY <2>3
    <2>6. \A f : f \in whole <=> \E s \in message : \E p \in s.policies : f \in WholePolicy[p]
        BY <2>1, <2>4
    <2>7. QED
        BY <2>2, <2>5, <2>6
<1>2. \A f : f \in FactsIn(message) <=>
          \E s \in message : f \in s.wants \/ \E p \in s.policies : f \in WholePolicy[p]
    BY DEF FactsIn
<1>3. QED
    BY <1>1, <1>2

LEMMA SentFromPolicies ==
    ASSUME NEW e, NEW intent \in PolicyIntents, NEW hits,
           RouteOf(FromKnowledgeBase(e, intent, hits)) = "direct_response"
    PROVE  /\ FromKnowledgeBase(e, intent, hits).wording = FactsIn(e.message)
           /\ FromKnowledgeBase(e, intent, hits).cited
                = [source |-> "knowledge_base", reference |-> hits[1].entry.reference]
           /\ CanSay(FactsIn(e.message), e.locale)
           /\ hits # <<>> /\ FactsIn(e.message) \subseteq hits[1].entry.facts
           /\ RelevanceOf(hits) \in {READY, ACCEPTABLE}
<1> DEFINE best     == hits[1].entry
           cited    == [source |-> "knowledge_base", reference |-> best.reference]
           measured == [relevance |-> RelevanceOf(hits),
                        coverage  |-> CoverageOf(FactsIn(e.message), best.facts),
                        authority |-> AuthorityOver(intent, {"knowledge_base"})]
           o        == FromKnowledgeBase(e, intent, hits)
<1>1. hits # <<>>
    <2>1. RouteOf(Stopped("handover", {"no_supporting_evidence"}, intent)) = "human_escalation"
        BY DEF RouteOf, Stopped
    <2>2. QED
        BY <2>1 DEF FromKnowledgeBase
<1>2. o = Planned(e, intent, cited, measured)
    BY <1>1 DEF FromKnowledgeBase
<1>3. /\ DOMAIN measured = {"relevance", "coverage", "authority"}
      /\ measured["relevance"] = RelevanceOf(hits)
      /\ measured["coverage"]  = CoverageOf(FactsIn(e.message), best.facts)
      /\ measured["authority"] = AuthorityOver(intent, {"knowledge_base"})
    OBVIOUS
<1> HIDE DEF measured
<1>4. \A f \in DOMAIN measured : measured[f] \in Levels
    BY <1>3, RatingsAreLevels
<1>5. intent \in Intents /\ {"coverage", "relevance"} \subseteq ProfileFor(intent).factors
    BY DEF PolicyIntents, Intents, ProfileFor, PolicyProfile, Profile
<1> HIDE DEF cited
<1>6. /\ o.wording = FactsIn(e.message) /\ CanSay(FactsIn(e.message), e.locale)
      /\ measured["coverage"] \in {READY, ACCEPTABLE}
      /\ measured["relevance"] \in {READY, ACCEPTABLE}
    BY <1>2, <1>4, <1>5, SentPlansSayEverything
<1>7. o.cited = cited
    BY <1>2 DEF Planned
<1>8. QED
    BY <1>1, <1>3, <1>6, <1>7, GoodMeansSupported DEF cited

LEMMA SentFromRecords ==
    ASSUME NEW e, NEW intent \in Intents \ PolicyIntents, NEW answer,
           answer.shape = "found" => ReadProperly(answer.record),
           RouteOf(FromCommerce(e, intent, answer)) = "direct_response"
    PROVE  /\ IsTheRow(LookupFor(e, intent), answer)
           /\ FromCommerce(e, intent, answer).wording = FactsIn(e.message)
           /\ CanSay(FactsIn(e.message), e.locale)
           /\ FactsIn(e.message) \subseteq FactsOf(answer.record)
           /\ answer.record.age \in 0..Ttl
           /\ FromCommerce(e, intent, answer).cited
                = [source |-> "commerce", reference |-> answer.record.identity]
<1> DEFINE cited    == [source |-> "commerce", reference |-> answer.record.identity]
           measured == [coverage  |-> CoverageOf(FactsIn(e.message), FactsOf(answer.record)),
                        authority |-> AuthorityOver(intent, {"commerce"}),
                        freshness |-> FreshnessOf(answer.record)]
           o        == FromCommerce(e, intent, answer)
<1>1. answer.shape # "not_available" /\ IsTheRow(LookupFor(e, intent), answer)
    <2>1. RouteOf(Stopped("clarify", {NotFoundReason(intent)}, intent)) = "clarification"
        BY DEF RouteOf, Stopped
    <2>2. RouteOf(Stopped("review", {"source_unavailable"}, intent)) = "internal_review"
        BY DEF RouteOf, Stopped
    <2>3. IsTheRow(LookupFor(e, intent), answer) => answer.shape # "not_available"
        BY DEF IsTheRow
    <2>4. CASE answer.shape = "not_available"
        BY <2>1, <2>3, <2>4 DEF FromCommerce
    <2>5. CASE answer.shape # "not_available" /\ ~IsTheRow(LookupFor(e, intent), answer)
        BY <2>2, <2>5 DEF FromCommerce
    <2>6. QED
        BY <2>4, <2>5
<1>2. o = Planned(e, intent, cited, measured)
    BY <1>1 DEF FromCommerce
<1>3. ReadProperly(answer.record)
    BY <1>1 DEF IsTheRow
<1>4. /\ DOMAIN measured = {"coverage", "authority", "freshness"}
      /\ measured["coverage"]  = CoverageOf(FactsIn(e.message), FactsOf(answer.record))
      /\ measured["authority"] = AuthorityOver(intent, {"commerce"})
      /\ measured["freshness"] = FreshnessOf(answer.record)
    OBVIOUS
<1> HIDE DEF measured
<1>5. FreshnessOf(answer.record) \in Levels
    BY <1>3, RatingsAreLevels DEF ReadProperly
<1>6. \A f \in DOMAIN measured : measured[f] \in Levels
    BY <1>4, <1>5, RatingsAreLevels
<1>7. {"coverage", "freshness"} \subseteq ProfileFor(intent).factors
    BY DEF PolicyIntents, Intents, ProfileFor, CommerceProfile, Profile
<1> HIDE DEF cited
<1>8. /\ o.wording = FactsIn(e.message) /\ CanSay(FactsIn(e.message), e.locale)
      /\ measured["coverage"] \in {READY, ACCEPTABLE}
      /\ measured["freshness"] \in {READY, ACCEPTABLE}
    BY <1>2, <1>6, <1>7, SentPlansSayEverything
<1>9. o.cited = cited
    BY <1>2 DEF Planned
<1>10. QED
    BY <1>1, <1>3, <1>4, <1>8, <1>9, GoodMeansSupported DEF ReadProperly, cited

\* The entry a search cites is one of the policies it was drawn over, and it
\* is not meaning alone that found one.
LEMMA CitedIsWritten ==
    ASSUME NEW locale, NEW lexical \in RankingsOver(Written(locale)),
           NEW semantic \in RankingsOver(Written(locale)) \cup {<<>>},
           RelevanceOf(Search(lexical, semantic)) \in {READY, ACCEPTABLE}
    PROVE  /\ lexical # <<>>
           /\ Search(lexical, semantic)[1].entry \in ToSet(lexical) \cup ToSet(semantic)
           /\ Search(lexical, semantic)[1].entry.locale = locale
<1> DEFINE page == Search(lexical, semantic)
<1>1. IsFiniteSet(Written(locale))
    BY AgentAssumption, FS_Subset DEF Written
<1>2. IsRanking(<<>>) /\ ToSet(<<>>) = {}
    BY DEF IsRanking, IsInjective, ToSet
<1>3. /\ IsRanking(lexical) /\ ToSet(lexical) \subseteq Written(locale)
      /\ IsRanking(semantic) /\ ToSet(semantic) \subseteq Written(locale)
    BY <1>1, <1>2, DrawnIsRanking
<1>4. page # <<>> /\ lexical # <<>>
    BY <1>3, RelevanceShows
<1>5. page[1] \in ToSet(page)
    <2>1. page \in Seq(Findings(lexical, semantic))
        BY <1>3, SearchFacts
    <2>2. QED
        BY <1>4, <2>1 DEF ToSet
<1>6. page[1].entry \in ToSet(lexical) \cup ToSet(semantic)
    BY <1>3, <1>5, HitsOnThePage
<1>7. QED
    BY <1>3, <1>4, <1>6 DEF Written

\* A row that carries every fact asked for has every field filled in that
\* settles any of them: only a sum is settled by two, which come together.
LEMMA CarriedIsSettled ==
    ASSUME NEW row, row.kind \in Kinds, Buildable(row), NEW f \in FactsOf(row)
    PROVE  LET settles == {field \in DOMAIN States[row.kind] : States[row.kind][field] = f}
           IN  settles # {} /\ settles \subseteq row.filled
<1>1. PICK field \in row.filled : States[row.kind][field] = f
    BY DEF FactsOf
<1>2. field \in DOMAIN States[row.kind]
    BY DEF Buildable
<1>3. ASSUME NEW other \in DOMAIN States[row.kind], States[row.kind][other] = f
      PROVE  other \in row.filled
    <2>1. CASE row.kind = "order"
        <3>1. other = field
            BY <1>1, <1>2, <1>3, <2>1 DEF States
        <3>2. QED
            BY <3>1
    <2>2. CASE row.kind = "refund"
        <3>1. other = field \/ {other, field} = {"amount", "currency"}
            BY <1>1, <1>2, <1>3, <2>2 DEF States
        <3>2. QED
            BY <3>1 DEF Buildable
    <2>3. CASE row.kind = "product"
        <3>1. other = field
            BY <1>1, <1>2, <1>3, <2>3 DEF States
        <3>2. QED
            BY <3>1
    <2>4. QED
        BY <2>1, <2>2, <2>3 DEF Kinds
<1>4. QED
    BY <1>1, <1>2, <1>3

LEMMA AnsweredFromEvidence ==
    ASSUME AgentInvariant, Readings, NEW r \in Requests, OnFile(r),
           Filed(r).reply.route = "direct_response"
    PROVE  LET asked == AsksFor(enquiry[r].message)
           IN  /\ asked # {}
               /\ Filed(r).reply.wording = asked
               /\ \A f \in asked : <<f, enquiry[r].locale>> \in Approved
               /\ SupportsEverythingAsked(r)
<1> DEFINE e      == enquiry[r]
           intent == decided[r].intent
           o      == outcome[r]
           h      == heard[r]
<1>1. Kept(r) /\ Reading(r) /\ Attempt(r)
    BY DEF AgentInvariant, OnRecord, Readings, Attempts
<1>2. /\ Filed(r).reply = Replied(o)
      /\ RouteOf(o) = "direct_response"
      /\ Filed(r).reply.wording = o.wording /\ Filed(r).reply.cited = o.cited
    BY <1>1, RepliesRepeat DEF Kept, Filed, Replied
<1>3. /\ decided[r].kind = "proceed" /\ intent \in Intents
      /\ ReadFor(h, e, intent) /\ WorkedOut(o, h, e, intent)
    <2>1. Judged(e, decided[r])
        BY <1>1 DEF OnFile, Reading
    <2>2. decided[r].kind # "proceed" => RouteOf(decided[r]) # "direct_response"
        BY <2>1 DEF Judged, RouteOf
    <2>3. QED
        BY <1>1, <1>2, <2>1, <2>2 DEF OnFile, Reading, Judged
<1>4. AsksFor(e.message) = FactsIn(e.message)
    BY AskedIsFound
<1>5. CASE o = NotConnected(intent)
    BY <1>2, <1>5 DEF NotConnected, Stopped, RouteOf
<1>6. CASE /\ h.source = "knowledge_base"
           /\ h.lexical \in RankingsOver(Written(e.locale))
           /\ h.semantic \in RankingsOver(Written(e.locale)) \cup {<<>>}
           /\ o = FromKnowledgeBase(e, intent, Search(h.lexical, h.semantic))
    <2> DEFINE hits == Search(h.lexical, h.semantic)
               best == hits[1].entry
    <2>1. intent \in PolicyIntents
        BY <1>3, <1>6 DEF ReadFor, Permitted, ProfileFor, PolicyIntents, Intents,
                          CommerceProfile, Profile, Silence, None
    <2>2. /\ o.wording = FactsIn(e.message) /\ CanSay(FactsIn(e.message), e.locale)
          /\ o.cited = [source |-> "knowledge_base", reference |-> best.reference]
          /\ FactsIn(e.message) \subseteq best.facts
          /\ hits # <<>> /\ RelevanceOf(hits) \in {READY, ACCEPTABLE}
        <3>1. RouteOf(FromKnowledgeBase(e, intent, hits)) = "direct_response"
            BY <1>2, <1>6
        <3>2. o = FromKnowledgeBase(e, intent, hits)
            BY <1>6
        <3> HIDE DEF e, intent, o, hits
        <3>3. QED
            BY <2>1, <3>1, <3>2, SentFromPolicies
    <2>3. /\ h.lexical # <<>> /\ best.locale = e.locale
          /\ best \in ToSet(h.lexical) \cup ToSet(h.semantic)
        BY <1>6, <2>2, CitedIsWritten
    <2> HIDE DEF best
    <2>4. SupportsEverythingAsked(r)
        BY <1>2, <1>4, <1>6, <2>2, <2>3 DEF SupportsEverythingAsked
    <2>5. QED
        BY <1>2, <1>4, <2>2, <2>4 DEF CanSay
<1>7. CASE /\ h.source = "commerce" /\ h.lookup = LookupFor(e, intent)
           /\ h.answer.shape = "found" => ReadProperly(h.answer.record)
           /\ o = FromCommerce(e, intent, h.answer)
    <2> DEFINE row == h.answer.record
    <2>1. intent \in PolicyIntents => Permitted(intent) = {"knowledge_base", "history"}
        BY DEF Permitted, ProfileFor, PolicyIntents, PolicyProfile, Profile
    <2>2. h # Silence
        BY <1>7 DEF Silence, None
    <2>3. h.source \in Permitted(intent)
        BY <1>3, <2>2 DEF ReadFor
    <2>4. intent \in Intents \ PolicyIntents
        BY <1>3, <1>7, <2>1, <2>3
    <2>5. /\ IsTheRow(h.lookup, h.answer)
          /\ o.wording = FactsIn(e.message) /\ CanSay(FactsIn(e.message), e.locale)
          /\ FactsIn(e.message) \subseteq FactsOf(row)
          /\ row.age \in 0..Ttl
          /\ o.cited = [source |-> "commerce", reference |-> row.identity]
        BY <1>2, <1>7, <2>4, SentFromRecords
    <2>6. h.lookup.about \in {e.order, e.product}
        BY <1>7, <2>4 DEF LookupFor, Intents, PolicyIntents
    <2>7. /\ h.answer.shape = "found" /\ row.identity \in {e.order, e.product}
          /\ row.kind \in Kinds /\ Buildable(row)
        BY <1>7, <2>5, <2>6 DEF IsTheRow, ReadProperly
    <2>8. \A f \in FactsIn(e.message) :
              LET settles == {field \in DOMAIN States[row.kind] : States[row.kind][field] = f}
              IN  settles # {} /\ settles \subseteq row.filled
        BY <2>5, <2>7, CarriedIsSettled
    <2> HIDE DEF row
    <2>9. SupportsEverythingAsked(r)
        BY <1>2, <1>4, <1>7, <2>5, <2>7, <2>8 DEF SupportsEverythingAsked, row
    <2>10. QED
        BY <1>2, <1>4, <2>5, <2>9 DEF CanSay
<1>8. QED
    BY <1>3, <1>5, <1>6, <1>7 DEF WorkedOut

\* A direct answer says everything the customer asked and nothing else, in
\* approved sentences of their language, and rests on evidence that states all
\* of it: a policy in that language which words found, or a row about what was
\* named, complete and neither too old nor yet to come.
THEOREM AnswersAreSupported == AgentSpec => []AnswersRestOnEvidence
<1>1. AgentInvariant /\ Readings => AnswersRestOnEvidence
    BY AnsweredFromEvidence DEF AnswersRestOnEvidence
<1>2. QED
    BY <1>1, AgentKeepsFaith, ReadingsStand, PTL

-----------------------------------------------------------------------------
(* What else every variable is *)

Bookkeeping ==
    /\ index \in {"down", "lexical", "hybrid"}
    /\ reference \in [Requests -> References \cup {None}]
    /\ \A r \in Requests : enquiry[r].locale \in Locales \cup {None}
    /\ \A r \in Requests : told[r].case \in References \cup {None}
    /\ minted \subseteq References
    /\ crashes \in 0..MaxCrashes

LEMMA BookkeepingBegins == AgentInit => Bookkeeping
BY AgentAssumption DEF AgentInit, Bookkeeping, NoEnquiry, NoReply

LEMMA BookkeepingHolds ==
    AgentInvariant /\ Bookkeeping /\ [AgentNext]_agentVars => Bookkeeping'
<1> SUFFICES ASSUME AgentInvariant, Bookkeeping, [AgentNext]_agentVars
             PROVE  Bookkeeping'
    OBVIOUS
<1>1. ASSUME UNCHANGED <<index, reference, enquiry, told, minted, crashes>>
      PROVE  Bookkeeping'
    BY <1>1 DEF Bookkeeping
<1>2. CASE Boot
    BY <1>2 DEF Boot, Bookkeeping
<1>3. CASE Crash
    <2>1. crashes' \in 0..MaxCrashes
        BY <1>3, AgentAssumption DEF Crash, Bookkeeping
    <2>2. QED
        BY <1>3, <2>1 DEF Crash, Bookkeeping
<1>4. ASSUME NEW r \in Requests, NEW message \in Messages, NEW ref \in References,
             Receive(r, message, ref)
      PROVE  Bookkeeping'
    <2> DEFINE e == [message EXCEPT !.locale = LanguageOf(message.locale)]
    <2>1. /\ reference' = [reference EXCEPT ![r] = ref]
          /\ enquiry' = [enquiry EXCEPT ![r] = e]
          /\ minted' = minted \cup {ref}
          /\ UNCHANGED <<index, told, crashes>>
        BY <1>4 DEF Receive
    <2>2. LanguageOf(message.locale) \in Locales
        BY AgentAssumption DEF LanguageOf, DefaultLocale
    <2>3. e.locale = LanguageOf(message.locale)
        BY MessagesAssumption
    <2> HIDE DEF e
    <2>4. \A s \in Requests : enquiry'[s].locale \in Locales \cup {None}
        BY <2>1, <2>2, <2>3 DEF Bookkeeping, AgentInvariant, Attempts
    <2>5. QED
        BY <2>1, <2>4 DEF Bookkeeping
<1>5. ASSUME NEW r \in Requests, Deliver(r)
      PROVE  Bookkeeping'
    <2> DEFINE said == [case |-> reference[r], reply |-> Replied(outcome[r])]
    <2>1. told' = [told EXCEPT ![r] = said]
          /\ UNCHANGED <<index, reference, enquiry, minted, crashes>>
        BY <1>5 DEF Deliver
    <2>2. said.case \in References \cup {None}
        BY DEF Bookkeeping
    <2> HIDE DEF said
    <2>3. \A s \in Requests : told'[s].case \in References \cup {None}
        BY <2>1, <2>2 DEF Bookkeeping, AgentInvariant, OnRecord
    <2>4. QED
        BY <2>1, <2>3 DEF Bookkeeping
<1>6. ASSUME NEW r \in Requests, Step(r), ~Deliver(r)
      PROVE  Bookkeeping'
    BY <1>1, <1>6 DEF Step, TriageMessage, FindNothingConnected, SearchPolicies, LookUp,
                      SourceRaises, Record, RecordFails, LoseReply
<1>7. ASSUME NEW c \in References, StaffWork(c)
      PROVE  Bookkeeping'
    BY <1>1, <1>7 DEF StaffWork
<1>8. CASE UNCHANGED agentVars
    BY <1>1, <1>8 DEF agentVars
<1>9. QED
    BY <1>2, <1>3, <1>4, <1>5, <1>6, <1>7, <1>8 DEF AgentNext

\* Every variable of the agent stays of its type.
THEOREM AgentTyped == AgentSpec => []AgentTypeOK
<1>1. AgentInvariant /\ Readings /\ Bookkeeping => AgentTypeOK
    <2> SUFFICES ASSUME AgentInvariant, Readings, Bookkeeping
                 PROVE  AgentTypeOK
        OBVIOUS
    <2>1. /\ DOMAIN enquiry = Requests /\ DOMAIN decided = Requests /\ DOMAIN heard = Requests
          /\ DOMAIN outcome = Requests /\ DOMAIN told = Requests
        BY DEF AgentInvariant, Attempts, OnRecord, Readings
    <2>2. \A v \in {enquiry, decided, heard, outcome, told} : DOMAIN v = Requests
        BY <2>1
    <2>3. QED
        BY <2>2 DEF AgentTypeOK, AgentInvariant, Attempts, OnRecord, Bookkeeping
<1>2. QED
    BY <1>1, AgentKeepsFaith, ReadingsStand, BookkeepingBegins, BookkeepingHolds, PTL
       DEF AgentSpec

=============================================================================
