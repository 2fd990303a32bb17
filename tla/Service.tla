------------------------------- MODULE Service -------------------------------
(***************************************************************************)
(* The process as it is deployed: customers' messages (SupportAgent) and    *)
(* the staff's calls (CaseDesk) served side by side, meeting in one table   *)
(* of cases, with the shop of app/agent/demo.py behind the gateway          *)
(* (src/main.py, app/api/support.py, app/api/cases.py).                     *)
(*                                                                          *)
(* SupportAgent on its own lets staff work a case in one step.  Here they   *)
(* do it statement by statement, and are subject to the deaths that take    *)
(* customers' messages with them.  Who is on the staff does not change      *)
(* here: an account that loses its role is CaseDesk's own matter.           *)
(***************************************************************************)
EXTENDS SupportAgent, CaseDesk, Storefront

\* The shop behind the gateway answers by what is filed, unless it cannot be
\* reached.
ASSUME ShopAssumption ==
    \A m \in Messages, intent \in Intents \ PolicyIntents :
        \A answer \in AnswersTo(LookupFor(m, intent)) :
            \/ answer \in DemoAnswers(LookupFor(m, intent))
            \/ answer = [shape |-> "unavailable"]

agentOwn == <<index, phase, enquiry, reference, decided, heard, outcome, told,
              records, minted, crashes>>
deskOwn  == <<calls, lock, created, active, seen, notices, failures>>
serviceVars == <<rows, agentOwn, deskOwn>>

ServiceInit == AgentInit /\ DeskInit

-----------------------------------------------------------------------------
(* Customers *)

Arrives(r) ==
    /\ \E message \in Messages, ref \in References : Receive(r, message, ref)
    /\ UNCHANGED deskOwn

\* Everything answer() does but the insert.
Considers(r) ==
    /\ \/ TriageMessage(r) \/ FindNothingConnected(r) \/ SearchPolicies(r)
       \/ LookUp(r) \/ SourceRaises(r) \/ RecordFails(r)
       \/ Deliver(r) \/ LoseReply(r)
    /\ UNCHANGED deskOwn

\* record(): the row is stamped when it is built and visible when it commits.
Stamps(r) ==
    /\ phase[r] = "decided"
    /\ Stamp(reference[r])
    /\ UNCHANGED agentOwn

Files(r) ==
    /\ Record(r)
    /\ Arrive(reference[r], rows'[reference[r]].route)

Handled(r) == Considers(r) \/ Stamps(r) \/ Files(r)

-----------------------------------------------------------------------------
(* Staff *)

\* A call needs a process to come to.
Presses(k, op, agent, ref, note) ==
    /\ index # "down"
    /\ Submit(k, op, agent, ref, note)
    /\ UNCHANGED agentOwn

Serves(k) == Handles(k) /\ UNCHANGED agentOwn

Drops(k) == Fail(k) /\ UNCHANGED agentOwn

-----------------------------------------------------------------------------
(* The process.  Dying, it takes the customers' messages and the staff's    *)
(* calls with it at once, and the database rolls back what was open.        *)

Starts == Boot /\ UNCHANGED deskOwn

Dies ==
    /\ Crash
    /\ calls' = [k \in Calls |-> Idle]
    /\ lock' = [c \in References |-> Unlocked]
    /\ UNCHANGED <<created, active, seen, notices, failures>>

ServiceNext ==
    \/ Starts \/ Dies
    \/ \E r \in Requests : Arrives(r) \/ Handled(r)
    \/ \E k \in Calls :
          \/ \E a \in Staff :
                \/ Presses(k, "list", a, NoRef, NoNote)
                \/ \E c \in References : Presses(k, "claim", a, c, NoNote)
                \/ \E c \in References, n \in Notes : Presses(k, "resolve", a, c, n)
          \/ Serves(k) \/ Drops(k)

ServiceSpec == ServiceInit /\ [][ServiceNext]_serviceVars

-----------------------------------------------------------------------------
(* Properties *)

\* Every variable is of its type.
ServiceTypeOK == AgentTypeOK /\ DeskTypeOK

\* Staff who work statement by statement, in calls that die, are staff as the
\* agent takes them to be: what a customer's message comes to, what is filed
\* about it and what may become of the row is SupportAgent's specification,
\* so that all that is shown of it there holds with the desk in place.
WorksAsTheAgentAssumes == AgentSpec

\* demo.py: "there is no arrangement of this file in which a record reaches
\* somebody who should not see it".  An order or a refund that a customer's
\* message was answered or rated from is filed under that customer's account,
\* and somebody naming another's hears what they would of one that is nobody's.
OnlyTheirOwnRows ==
    \A r \in Requests : OnFile(r) /\ heard[r].lookup.asks \in {"order", "refund"} =>
        LET theirs == {f \in Filings : /\ f.kind = heard[r].lookup.asks
                                       /\ f.owner = enquiry[r].customer
                                       /\ f.reference = enquiry[r].order}
        IN  /\ heard[r].answer.shape = "found" => theirs # {}
            /\ theirs = {} /\ heard[r].answer.shape # "unavailable"
                   => Filed(r).reply.message = "check_the_reference"

-----------------------------------------------------------------------------
(* Liveness.  The process is restarted, handlers run to their end and a     *)
(* database queues those who wait for a row.  Of people it is assumed that  *)
(* somebody still on the staff keeps reading the list and resolving what it *)
(* shows, and not that a customer tries again.                              *)

OpensList(a) ==
    a \in active /\ \E k \in Calls : Presses(k, "list", a, NoRef, NoNote)
ClosesListed(a, c) ==
    /\ a \in active /\ c \in seen[a]
    /\ \E k \in Calls, n \in Notes : Presses(k, "resolve", a, c, n)

ServiceFairness ==
    /\ WF_serviceVars(Starts)
    /\ \A r \in Requests : WF_serviceVars(Handled(r))
    /\ \A k \in Calls : SF_serviceVars(Serves(k))
    /\ \A a \in Staff : SF_serviceVars(OpensList(a))
    /\ \A a \in Staff, c \in References : SF_serviceVars(ClosesListed(a, c))

FairServiceSpec == ServiceSpec /\ ServiceFairness

\* Nobody waits for ever: a message that was received is answered, or fails
\* where its sender can see it, through outages, crashes and restarts.
EveryMessageEnds == \A r \in Requests : []<>(phase[r] \notin Pending)

\* "Being checked here" is kept: whoever was told that one of us has the
\* message has a case that somebody finds on the list and finishes.
PromisesAreKept ==
    \A r \in Requests :
        []<>(phase[r] = "answered" /\ told[r].reply.message \in PromisesSomebody
                => rows[told[r].case].closed)

=============================================================================
