---------------------------- MODULE SupportAgent ----------------------------
(***************************************************************************)
(* One customer message from the endpoint to the reply                      *)
(* (app/services/support.py, app/api/support.py, DatabaseCases.record), for *)
(* any number of them at once: triage, the one source that owns the claim,  *)
(* the record, and only then the reply.  Around it: the process starting    *)
(* and dying, the embedder and the shop's gateway answering as they like,   *)
(* the database refusing a commit, the connection dropping after it, the    *)
(* customer sending the message again, and staff working what was recorded. *)
(*                                                                          *)
(* The queue columns of support_cases are CaseQueue's rows; the columns     *)
(* that say what was decided are records, written by the same insert.       *)
(***************************************************************************)
EXTENDS Replies, CaseQueue

CONSTANTS
    Requests,           \* the messages customers send
    Messages,           \* what they can say and supply
    Entries,            \* the approved policies: [reference, locale, facts]
    AnswersTo(_),       \* what the shop's gateway can come back with to a lookup
    EmbedderConfigured, \* whether a token for the hosted embedder is set
    MaxCrashes          \* bound on how often the process dies

ASSUME AgentAssumption ==
    /\ EmbedderConfigured \in BOOLEAN
    /\ MaxCrashes \in Nat
    /\ None \notin Requests
    /\ IsFiniteSet(Entries)    \* the files of a directory
    /\ "en" \in Locales         \* DEFAULT_LOCALE: Locale

\* What arrives is an enquiry, and a row that was found is one the validators
\* of its kind let through, and says how it was read.
ASSUME MessagesAssumption ==
    \A m \in Messages :
        /\ m = [message |-> m.message, locale |-> m.locale, customer |-> m.customer,
                order |-> m.order, product |-> m.product]
        /\ m.message \subseteq Sentence
ASSUME GatewayAssumption ==
    \A m \in Messages, intent \in Intents \ PolicyIntents :
        \A answer \in AnswersTo(LookupFor(m, intent)) :
            answer.shape = "found" =>
                /\ answer.record.kind \in Kinds /\ Buildable(answer.record)
                /\ answer.record.age \in Int /\ answer.record.observed \in {"live", "cached"}

VARIABLES
    index,      \* the process: down, or up with a lexical or a hybrid index
    phase,      \* how far each message has got
    enquiry,    \* what it was read as
    reference,  \* the case reference its current attempt was minted
    decided,    \* what triage made of it
    heard,      \* what the source it was allowed to ask came back with
    outcome,    \* what it came to
    told,       \* the reply its customer received
    records,    \* the decision columns of support_cases, by reference
    minted,     \* every reference ever minted
    crashes     \* how often the process has died

agentVars == <<index, phase, enquiry, reference, decided, heard, outcome, told,
               records, minted, crashes, rows>>

-----------------------------------------------------------------------------
(* Values that stand for "nothing yet" *)

NoLookup == [asks |-> None, about |-> None, customer |-> None]
Silence  == [source   |-> None, lookup |-> NoLookup, lexical |-> <<>>,
             semantic |-> <<>>, answer |-> [shape |-> "nothing"]]
Undecided == Stopped("undecided", {}, None)
NoEnquiry == [message |-> {}, locale |-> None, customer |-> None, order |-> None, product |-> None]
NoReply   == [case |-> None, reply |-> Undecided]
NoRecord  == [request |-> None, reply |-> Undecided, sources |-> {}]

AgentInit ==
    /\ QueueInit
    /\ index = "down"
    /\ phase = [r \in Requests |-> "unsent"]
    /\ enquiry = [r \in Requests |-> NoEnquiry]
    /\ reference = [r \in Requests |-> None]
    /\ decided = [r \in Requests |-> Undecided]
    /\ heard = [r \in Requests |-> Silence]
    /\ outcome = [r \in Requests |-> Undecided]
    /\ told = [r \in Requests |-> NoReply]
    /\ records = [c \in References |-> NoRecord]
    /\ minted = {}
    /\ crashes = 0

-----------------------------------------------------------------------------
(* The process *)

\* lifespan and PolicyIndex.warm: an embedder that cannot be reached at startup
\* leaves this process lexical for good.
Boot ==
    /\ index = "down"
    /\ index' \in IF EmbedderConfigured THEN {"lexical", "hybrid"} ELSE {"lexical"}
    /\ UNCHANGED <<phase, enquiry, reference, decided, heard, outcome, told, records,
                   minted, crashes, rows>>

Pending == {"received", "placed", "decided", "recorded"}

\* The process dies.  Every message it was dealing with fails at its customer,
\* whether or not its case had been committed.
Crash ==
    /\ index # "down"
    /\ crashes < MaxCrashes
    /\ crashes' = crashes + 1
    /\ index' = "down"
    /\ phase' = [r \in Requests |-> IF phase[r] \in Pending THEN "failed" ELSE phase[r]]
    /\ UNCHANGED <<enquiry, reference, decided, heard, outcome, told, records, minted, rows>>

-----------------------------------------------------------------------------
(* One message *)

DefaultLocale == "en"

\* Mutant: a language nothing is written in is let through.
LanguageAsStored(stored) == stored

\* _language_of: the account's language, or ours where nothing is written in it.
LanguageOf(stored) == IF stored \in Locales THEN stored ELSE DefaultLocale

Enter(r, step) == phase' = [phase EXCEPT ![r] = step]

\* A message arrives, for the first time or because it was sent again after an
\* error, and a reference nobody has used is minted before anything is decided.
Receive(r, message, ref) ==
    /\ index # "down"
    /\ \/ phase[r] = "unsent"
       \/ phase[r] = "failed" /\ enquiry[r] = [message EXCEPT !.locale = LanguageOf(message.locale)]
    /\ ref \notin minted
    /\ minted' = minted \cup {ref}
    /\ reference' = [reference EXCEPT ![r] = ref]
    /\ enquiry' = [enquiry EXCEPT ![r] = [message EXCEPT !.locale = LanguageOf(message.locale)]]
    /\ decided' = [decided EXCEPT ![r] = Undecided]
    /\ heard' = [heard EXCEPT ![r] = Silence]
    /\ outcome' = [outcome EXCEPT ![r] = Undecided]
    /\ Enter(r, "received")
    /\ UNCHANGED <<index, told, records, crashes, rows>>

\* What a request came to, and everything the reply will be built from.
Reaches(r, result) ==
    /\ outcome' = [outcome EXCEPT ![r] = result]
    /\ Enter(r, "decided")

\* triage, with whatever a configured classifier returns where it is asked.
TriageMessage(r) ==
    /\ phase[r] = "received"
    /\ \E classified \in IF AsksClassifier(enquiry[r]) THEN Classifications ELSE {None} :
          LET decision == TriageOf(enquiry[r], classified)
          IN  /\ decided' = [decided EXCEPT ![r] = decision]
              /\ \/ decision.kind = "proceed" /\ Enter(r, "placed") /\ UNCHANGED outcome
                 \/ decision.kind # "proceed" /\ Reaches(r, decision)
    /\ UNCHANGED <<index, enquiry, reference, heard, told, records, minted, crashes, rows>>

\* plan_for: see that the profile's sources are connected before approaching
\* any, and then approach the one it requires.
FindNothingConnected(r) ==
    /\ phase[r] = "placed"
    /\ SourcesMissing(decided[r].intent)
    /\ Reaches(r, NotConnected(decided[r].intent))
    /\ UNCHANGED <<index, enquiry, reference, decided, heard, told, records, minted, crashes, rows>>

PlansFrom(r, source) ==
    /\ phase[r] = "placed"
    /\ ~SourcesMissing(decided[r].intent)
    /\ source \in ProfileFor(decided[r].intent).required

Written(locale) == {e \in Entries : e.locale = locale}

\* Mutant: a process without vectors waits for them.
SemanticRankingsOnly(r) ==
    IF index = "hybrid" THEN RankingsOver(Written(enquiry[r].locale)) ELSE {}

\* _semantic_ranking: nothing without vectors, and nothing for this query where
\* the embedder cannot be reached.
SemanticRankings(r) ==
    IF index = "hybrid" THEN RankingsOver(Written(enquiry[r].locale)) ELSE {<<>>}

SearchPolicies(r) ==
    /\ PlansFrom(r, "knowledge_base")
    /\ \E lexical \in RankingsOver(Written(enquiry[r].locale)),
          semantic \in SemanticRankings(r) :
          /\ heard' = [heard EXCEPT ![r] = [Silence EXCEPT !.source   = "knowledge_base",
                                                           !.lexical  = lexical,
                                                           !.semantic = semantic]]
          /\ Reaches(r, FromKnowledgeBase(enquiry[r], decided[r].intent,
                                          Search(lexical, semantic)))
    /\ UNCHANGED <<index, enquiry, reference, decided, told, records, minted, crashes, rows>>

Asked(r) == LookupFor(enquiry[r], decided[r].intent)

LookUp(r) ==
    /\ PlansFrom(r, "commerce")
    /\ \E answer \in AnswersTo(Asked(r)) :
          /\ answer.shape # "misconfigured"
          /\ heard' = [heard EXCEPT ![r] = [Silence EXCEPT !.source = "commerce",
                                                           !.lookup = Asked(r),
                                                           !.answer = answer]]
          /\ Reaches(r, FromCommerce(enquiry[r], decided[r].intent, answer))
    /\ UNCHANGED <<index, enquiry, reference, decided, told, records, minted, crashes, rows>>

\* What nothing catches: a refused key at the embedder, vectors of another
\* width than the corpus has, a misconfigured gateway.  The customer gets a
\* server error and no case is written.
SourceRaises(r) ==
    /\ \/ PlansFrom(r, "knowledge_base") /\ index = "hybrid"
       \/ PlansFrom(r, "commerce") /\ \E answer \in AnswersTo(Asked(r)) : answer.shape = "misconfigured"
    /\ Enter(r, "failed")
    /\ UNCHANGED <<index, enquiry, reference, decided, heard, outcome, told, records, minted, crashes, rows>>

\* SupportAgent.answer: what a placed request was permitted to read, and
\* nothing for one that triage stopped.
Allowed(r) ==
    IF decided[r].kind = "proceed" THEN Permitted(decided[r].intent) ELSE {}

\* Mutant: a message sent again replaces the case its last attempt was filed as.
RecordOverEarlier(r) ==
    /\ phase[r] = "decided"
    /\ LET reply == Replied(outcome[r])
           mine  == {c \in References : records[c].request = r}
           c     == IF mine = {} THEN reference[r] ELSE CHOOSE m \in mine : TRUE
       IN  /\ rows' = [rows EXCEPT ![c] = NewRow(reply.route)]
           /\ records' = [records EXCEPT ![c] =
                            [request |-> r, reply |-> reply, sources |-> Allowed(r)]]
    /\ Enter(r, "recorded")
    /\ UNCHANGED <<index, enquiry, reference, decided, heard, outcome, told, minted, crashes>>

\* cases.record: one insert, committed before the reply is returned.
Record(r) ==
    /\ phase[r] = "decided"
    /\ LET reply == Replied(outcome[r])
       IN  /\ Open(reference[r], reply.route)
           /\ records' = [records EXCEPT ![reference[r]] =
                            [request |-> r, reply |-> reply, sources |-> Allowed(r)]]
    /\ Enter(r, "recorded")
    /\ UNCHANGED <<index, enquiry, reference, decided, heard, outcome, told, minted, crashes>>

\* A failure to write it is a failure to reply.
RecordFails(r) ==
    /\ phase[r] = "decided"
    /\ Enter(r, "failed")
    /\ UNCHANGED <<index, enquiry, reference, decided, heard, outcome, told, records, minted, crashes, rows>>

\* Mutant: the reply is returned before the record is written.
DeliverFirst(r) ==
    /\ phase[r] = "decided"
    /\ told' = [told EXCEPT ![r] = [case |-> reference[r], reply |-> Replied(outcome[r])]]
    /\ Enter(r, "answered")
    /\ UNCHANGED <<index, enquiry, reference, decided, heard, outcome, records, minted, crashes, rows>>

Deliver(r) ==
    /\ phase[r] = "recorded"
    /\ told' = [told EXCEPT ![r] = [case |-> reference[r], reply |-> Replied(outcome[r])]]
    /\ Enter(r, "answered")
    /\ UNCHANGED <<index, enquiry, reference, decided, heard, outcome, records, minted, crashes, rows>>

\* The connection drops after the commit: a case nobody was told about.
LoseReply(r) ==
    /\ phase[r] = "recorded"
    /\ Enter(r, "failed")
    /\ UNCHANGED <<index, enquiry, reference, decided, heard, outcome, told, records, minted, crashes, rows>>

-----------------------------------------------------------------------------
(* Staff, as the queue promises they can work.                              *)

StaffWork(c) ==
    /\ \E agent \in Staff : Claim(c, agent) \/ \E note \in Notes : Resolve(c, agent, note)
    /\ UNCHANGED <<index, phase, enquiry, reference, decided, heard, outcome, told, records, minted, crashes>>

Step(r) ==
    \/ TriageMessage(r) \/ FindNothingConnected(r) \/ SearchPolicies(r) \/ LookUp(r)
    \/ SourceRaises(r) \/ Record(r) \/ RecordFails(r) \/ Deliver(r) \/ LoseReply(r)

AgentNext ==
    \/ Boot
    \/ Crash
    \/ \E r \in Requests :
          \/ \E message \in Messages, ref \in References : Receive(r, message, ref)
          \/ Step(r)
    \/ \E c \in References : StaffWork(c)

AgentSpec == AgentInit /\ [][AgentNext]_agentVars

-----------------------------------------------------------------------------
(* Properties                                                               *)

Phases == Pending \cup {"unsent", "failed", "answered"}

\* Every variable that does not hold a computed decision is of its type.
AgentTypeOK ==
    /\ QueueTypeOK
    /\ index \in {"down", "lexical", "hybrid"}
    /\ phase \in [Requests -> Phases]
    /\ reference \in [Requests -> References \cup {None}]
    /\ \A v \in {enquiry, decided, heard, outcome, told} : DOMAIN v = Requests
    /\ \A r \in Requests : enquiry[r].locale \in Locales \cup {None}
    /\ DOMAIN records = References
    /\ \A r \in Requests : told[r].case \in References \cup {None}
    /\ minted \subseteq References
    /\ crashes \in 0..MaxCrashes

\* SupportAgent.answer: "The record is written before the reply is returned".
\* Whoever was answered holds the name of a case of their own, which says what
\* they were told and stands in the queue under the route they were given.
RecordedBeforeTold ==
    \A r \in Requests : phase[r] = "answered" =>
        LET c == told[r].case
        IN  /\ c \in References
            /\ records[c].request = r
            /\ records[c].reply = told[r].reply
            /\ rows[c].route = told[r].reply.route

\* The sentences that say one of us has the message.
PromisesSomebody == {"handed_to_a_specialist", "account_not_linked", "being_checked_here"}

\* "Telling somebody their message has reached a colleague, with nothing put
\* anywhere a colleague looks ... is an untrue sentence": a customer is told so
\* exactly when their case is one staff can work, or have finished.
ToldOfAColleagueMeansQueued ==
    \A r \in Requests : phase[r] = "answered" =>
        LET row == rows[told[r].case]
        IN  told[r].reply.message \in PromisesSomebody
                <=> Workable(row) \/ row.resolved_by # Nobody

\* What is on file about the attempt a message is now at.
OnFile(r) == phase[r] \in {"recorded", "answered"}
Filed(r)  == records[reference[r]]

\* What a sentence says has happened: what it reports, whatever question is
\* wrapped around it, and what it mentions unless it only asks about it.
Describes(s) == s.reports \cup IF s.asks /\ ~(s.mine /\ s.past) THEN {} ELSE s.mentions

\* triage: "Risk is checked first and outranks everything": a danger described
\* in any one sentence, whatever the others ask, reaches a person under its own
\* name, and nothing was read, placed or classified on the way; and nobody is
\* taken for reporting a danger they did not speak of.
DangerReachesAPersonUnread ==
    \A r \in Requests : OnFile(r) =>
        LET described == UNION {Describes(s) : s \in enquiry[r].message}
        IN  /\ Filed(r).reply.reasons \cap RiskReasons = described
            /\ described # {} =>
                  /\ Filed(r).reply.route = "human_escalation"
                  /\ Filed(r).reply.intent = None
                  /\ Filed(r).sources = {}
                  /\ heard[r] = Silence

\* intents_in: a returns policy cannot say where somebody's money went.  Whoever
\* is chasing a refund is never answered from a written policy, nor shown to a
\* classifier that might hand that policy back; and where the returns policy's
\* vocabulary is all else they used, and they describe no danger, they are taken
\* to ask about their refund, and not asked which of the two they meant.
ChasedRefundsAreLookedUp ==
    \A r \in Requests : OnFile(r) /\ (\E s \in enquiry[r].message : s.chases) =>
        /\ heard[r].source # "knowledge_base"
        /\ Filed(r).reply.intent \in {None, "refund_status"}
        /\ (\A s \in enquiry[r].message : s.names \subseteq {"return_policy"} /\ Describes(s) = {})
              => Filed(r).reply.intent = "refund_status"

\* No source is read that the record does not list, and no order is asked
\* about except by its reference on behalf of the account that sent the message.
ReadsOnlyWhatItRecords ==
    \A r \in Requests : OnFile(r) /\ heard[r] # Silence =>
        /\ heard[r].source \in Filed(r).sources \cap Connected
        /\ heard[r].lookup.asks \in {"order", "refund"} =>
              /\ heard[r].lookup.customer = enquiry[r].customer
              /\ None \notin {heard[r].lookup.customer, heard[r].lookup.about}

\* Everything a message asks, a policy it names standing for all that is in it.
AsksFor(message) ==
    (UNION {s.wants : s \in message}) \cup
    (UNION {WholePolicy[p] : p \in UNION {s.policies : s \in message}})

\* Whether the evidence read for a message states everything it asked: one
\* policy in its own language that words, and not meaning alone, found; or a
\* row about the reference it named, read neither too long ago nor yet to come,
\* with every field filled in that settles any of it.
SupportsEverythingAsked(r) ==
    LET cited == Filed(r).reply.cited
        asked == AsksFor(enquiry[r].message)
    IN  \/ /\ heard[r].source = "knowledge_base"
           /\ heard[r].lexical # <<>>
           /\ \E e \in ToSet(heard[r].lexical) \cup ToSet(heard[r].semantic) :
                 /\ cited = [source |-> "knowledge_base", reference |-> e.reference]
                 /\ e.locale = enquiry[r].locale
                 /\ asked \subseteq e.facts
        \/ /\ heard[r].source = "commerce"
           /\ heard[r].answer.shape = "found"
           /\ LET row      == heard[r].answer.record
                  settles(f) == {field \in DOMAIN States[row.kind] : States[row.kind][field] = f}
              IN  /\ cited = [source |-> "commerce", reference |-> row.identity]
                  /\ row.identity \in {enquiry[r].order, enquiry[r].product}
                  /\ \A f \in asked : settles(f) # {} /\ settles(f) \subseteq row.filled
                  /\ row.age \in 0..Ttl

\* A direct answer says everything the customer asked and nothing else, in
\* approved sentences of their language, and rests on evidence that states it.
AnswersRestOnEvidence ==
    \A r \in Requests : OnFile(r) /\ Filed(r).reply.route = "direct_response" =>
        LET asked == AsksFor(enquiry[r].message)
        IN  /\ asked # {}
            /\ Filed(r).reply.wording = asked
            /\ \A f \in asked : <<f, enquiry[r].locale>> \in Approved
            /\ SupportsEverythingAsked(r)

\* answered_with and _from_commerce: a customer is asked to check what they
\* typed exactly when the gateway said there is no such row, and never because
\* our own records failed to reply or replied about something else.
FaultsAreNotTheCustomers ==
    \A r \in Requests : OnFile(r) =>
        (Filed(r).reply.message = "check_the_reference"
            <=> heard[r].answer.shape = "not_available")

ReasonsOf ==
    [direct_response  |-> {},
     clarification    |-> ClarificationReasons,
     internal_review  |-> ReviewReasons \cup EvidenceReasons,
     human_escalation |-> EscalationReasons \cup EvidenceReasons]

\* Every case says why it is where it is, in codes that belong to its route,
\* and only an answer that was sent has nothing to explain.
EveryOutcomeIsExplained ==
    \A c \in References : rows[c].route # Absent =>
        LET reply == records[c].reply
        IN  /\ reply.reasons \subseteq ReasonsOf[rows[c].route]
            /\ reply.reasons = {} <=> rows[c].route = "direct_response"

\* A decision is the machine's account of itself, and a reply is a copy of it:
\* the decision columns and the replies are a book that CaseBook describes.  No
\* retry, no other message and nobody on the staff rewrites what was filed;
\* nobody is answered twice, or but from a case of their own already filed; and
\* nothing more is filed for somebody who was answered.
Book == INSTANCE CaseBook
    WITH book <- records, letters <- told, NoEntry <- NoRecord, NoLetter <- NoReply
KeepsTheBook == Book!BookSpec

\* A message whose answer is written down, but only in another language than
\* its own: nothing in its own says any of what it asked.
OnlyWrittenElsewhere(r) ==
    LET asked     == AsksFor(enquiry[r].message)
        states(e) == e.facts \cap asked
    IN  /\ asked # {}
        /\ \E e \in Entries : states(e) = asked
        /\ \A e \in Written(enquiry[r].locale) : states(e) = {}

\* architecture.md, Locale: "Where the answer needs policy prose that exists
\* only in another language, the request goes to internal review."  It does
\* not hold: finding nothing, or something that states none of it, escalates.
OtherLanguageIsReviewed ==
    \A r \in Requests :
        /\ OnFile(r) /\ heard[r].source = "knowledge_base"
        /\ OnlyWrittenElsewhere(r)
        => Filed(r).reply.route = "internal_review"

=============================================================================
