------------------------------- MODULE Triage -------------------------------
(***************************************************************************)
(* What a message is, decided before anything is fetched                    *)
(* (app/agent/triage.py, enquiry.py).                                       *)
(*                                                                          *)
(* An enquiry is the message, as Readers takes it apart, the language it is *)
(* answered in, and what came with it: the account's customer number, an    *)
(* order and a product.                                                     *)
(***************************************************************************)
EXTENDS Readers

CONSTANT
    ClassifierPresent   \* whether an IntentClassifier was configured

ASSUME ClassifierAssumption == ClassifierPresent \in BOOLEAN

\* Enquiry.known: derived from the values, never passed beside them.
Known(e) ==
    {i \in Inputs : CASE i = "commerce_account"  -> e.customer # None
                      [] i = "order_id"          -> e.order # None
                      [] i = "product_reference" -> e.product # None}

Unrated == -1   \* the reliability of an outcome nothing was scored for

NoCitation == [source |-> None, reference |-> None]

\* An outcome decided without scoring: Escalate, Clarify, Review and Handover.
Stopped(kind, reasons, intent) ==
    [kind   |-> kind,        reasons |-> reasons,  intent  |-> intent,
     cited  |-> NoCitation,  level   |-> Unrated,  wording |-> {}]

Proceed(intent) == Stopped("proceed", {}, intent)

\* The classifier is asked only about a message the phrase rules made nothing
\* of, and never about one the risk rules stopped.
AsksClassifier(e) ==
    RisksIn(e.message) = {} /\ IntentsIn(e.message) = {} /\ ClassifierPresent

Unavailable == "unavailable"   \* ClassifierUnavailableError
Classifications == Intents \cup {None, Unavailable}

\* The one input a request with several missing stops for: what only we can
\* supply first, then by name.
WorstMissing(missing) ==
    CHOOSE need \in missing :
        \/ need = "commerce_account"
        \/ /\ "commerce_account" \notin missing
           /\ need = "order_id" \/ "order_id" \notin missing

\* A request whose intent is settled: placed, or stopped for want of a value.
Placed(e, intent) ==
    LET missing == ProfileFor(intent).inputs \ Known(e)
        reason  == ReasonFor[WorstMissing(missing)]
    IN  CASE missing = {} -> Proceed(intent)
          [] missing # {} /\ reason \in EscalationReasons ->
                 Stopped("escalate", {reason}, intent)
          [] missing # {} /\ reason \notin EscalationReasons ->
                 Stopped("clarify", {reason}, intent)

\* triage(): "classified" is what the classifier returned, or None where it
\* was not asked.  The order of the cases is the safety property.
TriageOf(e, classified) ==
    LET risks   == RisksIn(e.message)
        matched == IntentsIn(e.message)
    IN  CASE risks # {} ->
                 Stopped("escalate", risks, None)
          [] risks = {} /\ classified = Unavailable ->
                 Stopped("review", {"intent_check_unavailable"}, None)
          [] risks = {} /\ Cardinality(matched) > 1 ->
                 Stopped("clarify", {"multiple_intents"}, None)
          [] risks = {} /\ matched = {} /\ classified = None ->
                 Stopped("clarify", {"unresolved_intent"}, None)
          [] risks = {} /\ matched = {} /\ classified \in Intents ->
                 Placed(e, classified)
          [] risks = {} /\ Cardinality(matched) = 1 ->
                 Placed(e, CHOOSE i \in matched : TRUE)

=============================================================================
