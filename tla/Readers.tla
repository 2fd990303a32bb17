------------------------------ MODULE Readers ------------------------------
(***************************************************************************)
(* What the phrase rules read in a message (app/agent/risk.py, intent.py,   *)
(* facts.py).                                                               *)
(*                                                                          *)
(* A message is the set of its sentences, and a sentence is known by which  *)
(* of the phrase lists something in it matches.  Dangers are judged one     *)
(* sentence at a time; what is wanted is read from the message as a whole.  *)
(***************************************************************************)
EXTENDS Profiles

\* The intents _RULES has phrases for.  Where a refund stands is only ever read
\* from somebody chasing one.
NamedIntents == Intents \ {"refund_status"}

\* _WHOLE_POLICY: what asking for a policy by name asks for.
WholePolicy ==
    [returns  |-> {"return_window", "return_eligibility", "return_excluded_categories",
                   "return_sale_items", "return_final_sale", "proof_of_purchase"},
     shipping |-> {"standard_delivery_time"}]

Sentence ==
    [reports  : SUBSET RiskReasons,   \* wordings that can only be an incident
     mentions : SUBSET RiskReasons,   \* subjects somebody may also be asking about
     mine     : BOOLEAN,              \* _FIRST_PERSON
     past     : BOOLEAN,              \* _ALREADY_HAPPENED
     asks     : BOOLEAN,              \* _ADVISORY
     names    : SUBSET NamedIntents,  \* intent._RULES
     chases   : BOOLEAN,              \* _CHASING_A_REFUND
     wants    : SUBSET Facts,         \* facts._RULES
     policies : SUBSET DOMAIN WholePolicy]

-----------------------------------------------------------------------------
(* risk.py *)

\* _is_advisory: a question about policy, unless somebody describes in it what
\* happened to their own account.
IsAdvisory(s) == s.asks /\ ~(s.mine /\ s.past)

\* Mutant: one question anywhere makes the whole message a question.
RisksInAltogether(message) ==
    (UNION {s.reports : s \in message}) \cup
        IF \E s \in message : IsAdvisory(s) THEN {} ELSE UNION {s.mentions : s \in message}

\* risks_in: within a sentence the report wins.
RisksIn(message) ==
    UNION {s.reports \cup IF IsAdvisory(s) THEN {} ELSE s.mentions : s \in message}

-----------------------------------------------------------------------------
(* intent.py *)

\* Mutant: the policy match is dropped and nothing takes its place.
IntentsInDiscarding(message) ==
    (UNION {s.names : s \in message}) \
        IF \E s \in message : s.chases THEN {"return_policy"} ELSE {}

\* intents_in: somebody chasing a refund shares the returns policy's whole
\* vocabulary, and is not asking what it says.
IntentsIn(message) ==
    LET named == UNION {s.names : s \in message}
    IN  IF \E s \in message : s.chases
        THEN (named \ {"return_policy"}) \cup {"refund_status"}
        ELSE named

-----------------------------------------------------------------------------
(* facts.py *)

\* Mutant: a policy asked for by name asks for nothing in particular.
FactsInNamed(message) == UNION {s.wants : s \in message}

\* facts_in
FactsIn(message) ==
    UNION {s.wants \cup UNION {WholePolicy[p] : p \in s.policies} : s \in message}

=============================================================================
