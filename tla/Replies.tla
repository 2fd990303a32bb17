------------------------------- MODULE Replies -------------------------------
(***************************************************************************)
(* What a customer is told about an outcome (app/schemas/support.py,        *)
(* app/agent/messages.py): one reply shape per route, and one approved      *)
(* sentence chosen from the reasons by a declared order.                    *)
(***************************************************************************)
EXTENDS Answering

\* _DEFAULT: where a request went decides what its sender hears ...
DefaultMessage ==
    [clarification    |-> "ask_what_is_meant",
     human_escalation |-> "handed_to_a_specialist",
     internal_review  |-> "being_checked_here"]

\* _SAYS: ... and a few codes refine it.
Says ==
    [missing_order_id          |-> "ask_for_order_number",
     missing_product_reference |-> "ask_which_product",
     multiple_intents          |-> "ask_which_first",
     unresolved_intent         |-> "ask_what_is_meant",
     order_not_found           |-> "check_the_reference",
     product_not_found         |-> "check_the_reference",
     customer_not_linked       |-> "account_not_linked"]

\* _FIRST: one request can carry several codes and its sender gets one sentence.
First == <<"handed_to_a_specialist", "account_not_linked", "being_checked_here",
           "ask_which_first", "ask_for_order_number", "ask_which_product",
           "check_the_reference", "ask_what_is_meant">>

\* MessageBook.tell
Tell(reasons, route) ==
    LET keys == {IF r \in DOMAIN Says THEN Says[r] ELSE DefaultMessage[route] : r \in reasons}
    IN  First[CHOOSE i \in DOMAIN First :
                /\ First[i] \in keys
                /\ \A j \in DOMAIN First : First[j] \in keys => i <= j]

\* Mutant: a plan held back for want of a sentence goes where its rating sends it.
RouteOfRating(outcome) ==
    CASE outcome.kind \in {"escalate", "handover"} -> "human_escalation"
      [] outcome.kind = "clarify"                  -> "clarification"
      [] outcome.kind = "review"                   -> "internal_review"
      [] outcome.kind = "plan"                     -> RouteAt(outcome.level)

\* Plan.route, and the route each of the gates' outcomes is.  A plan held back
\* waits here whatever its ratings say.
RouteOf(outcome) ==
    CASE outcome.kind \in {"escalate", "handover"} -> "human_escalation"
      [] outcome.kind = "clarify"                  -> "clarification"
      [] outcome.kind = "review"                   -> "internal_review"
      [] outcome.kind = "plan" ->
             IF outcome.reasons = {"nothing_approved_to_say"}
             THEN "internal_review"
             ELSE RouteAt(outcome.level)

\* replied(): "sent" is the sentence, or the facts an answer's wording states.
Replied(outcome) ==
    LET route == RouteOf(outcome)
    IN  [route   |-> route,
         reasons |-> outcome.reasons,
         intent  |-> outcome.intent,
         cited   |-> outcome.cited,
         level   |-> outcome.level,
         wording |-> outcome.wording,
         message |-> IF route = "direct_response" THEN None ELSE Tell(outcome.reasons, route)]

=============================================================================
