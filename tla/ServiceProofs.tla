---------------------------- MODULE ServiceProofs ----------------------------
(***************************************************************************)
(* The agent and the desk, side by side in one process.  Each step of it is *)
(* the desk's own or leaves the desk alone, or is a death; and each is the  *)
(* agent's own or leaves the agent alone.  So it implements the agent with  *)
(* a staff that works in one step, and what is shown of either holds here:  *)
(* whatever is read, written and rolled back between a call's statements,   *)
(* and whenever the process dies.                                           *)
(***************************************************************************)
EXTENDS Service, SupportAgentProofs, CaseDeskProofs

-----------------------------------------------------------------------------
(* The steps *)

\* What the two halves rest on: the desk on its own invariant, and the insert
\* on the outcome it files.
ServiceInvariant == Attempts /\ DeskInvariant

LEMMA ServiceBegins == ServiceInit => ServiceInvariant
<1>1. DeskInit => DeskInvariant
    BY DeskStartsTyped, NamesAssumption
       DEF DeskInit, DeskInvariant, LockIsHeldForTheRowAsItIs, WordIsGood, Knows, Heard, Idle,
           NotTold
<1>2. QED
    BY <1>1, AttemptsBegin DEF ServiceInit, ServiceInvariant

\* A commit is a claim or a resolve of the row as it is, done at once.
LEMMA CommitsAreWork ==
    ASSUME DeskInvariant, NEW k \in Calls, Commit(k), UNCHANGED agentOwn
    PROVE  \E c \in References : StaffWork(c)
<1> DEFINE call == calls[k]
           c    == call.ref
<1>1. /\ call.step = "written" /\ c \in References /\ call.agent \in Staff
      /\ call.op \in {"claim", "resolve"}
      /\ call.op = "resolve" => call.note \in Notes
    BY DEF Commit, DeskInvariant, DeskTyped, CallsAreAimed, DeskTypeOK, Call, Ops
<1>2. /\ Matches(call, rows[c])
      /\ rows' = [rows EXCEPT ![c] = Effect(call, rows[c])]
    BY <1>1 DEF Commit, DeskInvariant, LockIsHeldForTheRowAsItIs
<1>3. UNCHANGED <<index, phase, enquiry, reference, decided, heard, outcome, told, records,
                  minted, crashes>>
    BY DEF agentOwn
<1>4. CASE call.op = "claim"
    <2>1. Claim(c, call.agent)
        BY <1>2, <1>4 DEF Claim, Matches, Effect
    <2>2. QED
        BY <1>1, <1>3, <2>1 DEF StaffWork
<1>5. CASE call.op = "resolve"
    <2>1. Resolve(c, call.agent, call.note)
        BY <1>2, <1>5 DEF Resolve, Matches, Effect
    <2>2. QED
        BY <1>1, <1>3, <1>5, <2>1 DEF StaffWork
<1>6. QED
    BY <1>1, <1>4, <1>5

\* Whatever the process does is the agent's doing or leaves the agent alone.
LEMMA StepsAreTheAgents ==
    DeskInvariant /\ [ServiceNext]_serviceVars => [AgentNext]_agentVars
<1> SUFFICES ASSUME DeskInvariant, [ServiceNext]_serviceVars
             PROVE  AgentNext \/ UNCHANGED agentVars
    OBVIOUS
<1>1. ASSUME UNCHANGED <<rows, agentOwn>>
      PROVE  UNCHANGED agentVars
    BY <1>1 DEF agentOwn, agentVars
<1>2. CASE Starts \/ Dies
    BY <1>2 DEF Starts, Dies, AgentNext
<1>3. ASSUME NEW r \in Requests, Arrives(r) PROVE AgentNext
    BY <1>3 DEF Arrives, AgentNext
<1>4. ASSUME NEW r \in Requests, Considers(r) \/ Files(r) PROVE AgentNext
    BY <1>4 DEF Considers, Files, Step, AgentNext
<1>5. ASSUME NEW r \in Requests, Stamps(r) PROVE UNCHANGED agentVars
    BY <1>1, <1>5 DEF Stamps, Stamp
<1>6. ASSUME NEW k \in Calls, NEW op, NEW agent, NEW ref, NEW note,
             Presses(k, op, agent, ref, note)
      PROVE  UNCHANGED agentVars
    BY <1>1, <1>6 DEF Presses, Submit
<1>7. ASSUME NEW k \in Calls, Serves(k) PROVE AgentNext \/ UNCHANGED agentVars
    <2>1. CASE Commit(k)
        BY <1>7, <2>1, CommitsAreWork DEF Serves, AgentNext
    <2>2. CASE Admit(k) \/ List(k) \/ Update(k) \/ Confirm(k) \/ Explain(k)
        BY <1>1, <1>7, <2>2 DEF Serves, Admit, List, Update, Confirm, Explain
    <2>3. QED
        BY <1>7, <2>1, <2>2 DEF Serves, Handles
<1>8. ASSUME NEW k \in Calls, Drops(k) PROVE UNCHANGED agentVars
    BY <1>1, <1>8 DEF Drops, Fail
<1>9. CASE UNCHANGED serviceVars
    BY <1>1, <1>9 DEF serviceVars
<1>10. QED
    BY <1>2, <1>3, <1>4, <1>5, <1>6, <1>7, <1>8, <1>9 DEF ServiceNext, Handled

\* What a message is filed under is a reference, and it is filed as a route a
\* row can have: the insert is a case arriving at the desk.
LEMMA FilingIsArriving ==
    ASSUME ServiceInvariant, NEW r \in Requests, Files(r)
    PROVE  DeskNext
<1> DEFINE c     == reference[r]
           route == Replied(outcome[r]).route
<1>1. phase[r] = "decided" /\ rows' = [rows EXCEPT ![c] = NewRow(route)]
    BY DEF Files, Record, Open
<1>2. c \in References /\ Explained(outcome[r])
    BY <1>1 DEF ServiceInvariant, Attempts, Attempt, Pending
<1>3. route \in AnsweredRoutes \cup NeedsSomebody
    BY <1>2, RepliesRepeat, RoutesAreRoutes DEF Explained
<1>4. rows \in [References -> Row]
    BY DEF ServiceInvariant, DeskInvariant, DeskTyped, DeskTypeOK, QueueTypeOK
<1> HIDE DEF route
<1>5. rows'[c].route = route
    BY <1>1, <1>2, <1>4 DEF NewRow
<1>6. Arrive(c, route)
    BY <1>5 DEF Files
<1>7. QED
    BY <1>2, <1>3, <1>6 DEF DeskNext

\* Whatever the process does, but die, is the desk's doing or leaves it alone.
LEMMA StepsAreTheDesks ==
    ASSUME ServiceInvariant, [ServiceNext]_serviceVars, ~Dies
    PROVE  DeskNext \/ UNCHANGED deskVars
<1>1. ASSUME UNCHANGED <<rows, deskOwn>> PROVE UNCHANGED deskVars
    BY <1>1 DEF deskOwn, deskVars
<1>2. CASE Starts
    BY <1>1, <1>2 DEF Starts, Boot
<1>3. ASSUME NEW r \in Requests, Arrives(r) PROVE UNCHANGED deskVars
    BY <1>1, <1>3 DEF Arrives, Receive
<1>4. ASSUME NEW r \in Requests, Considers(r) PROVE UNCHANGED deskVars
    <2>1. UNCHANGED rows
        BY <1>4 DEF Considers, TriageMessage, FindNothingConnected, SearchPolicies, LookUp,
                    SourceRaises, RecordFails, Deliver, LoseReply
    <2>2. QED
        BY <1>1, <1>4, <2>1 DEF Considers
<1>5. ASSUME NEW r \in Requests, Stamps(r) PROVE DeskNext
    <2>1. reference[r] \in References
        BY <1>5 DEF Stamps, ServiceInvariant, Attempts, Attempt, Pending
    <2>2. QED
        BY <1>5, <2>1 DEF Stamps, DeskNext
<1>6. ASSUME NEW k \in Calls, NEW a \in Staff,
             \/ Presses(k, "list", a, NoRef, NoNote)
             \/ \E c \in References : Presses(k, "claim", a, c, NoNote)
             \/ \E c \in References, n \in Notes : Presses(k, "resolve", a, c, n)
      PROVE  DeskNext
    BY <1>6 DEF Presses, DeskNext
<1>7. ASSUME NEW k \in Calls, Serves(k) \/ Drops(k) PROVE DeskNext
    BY <1>7 DEF Serves, Drops, Handles, DeskNext
<1>8. CASE UNCHANGED serviceVars
    BY <1>1, <1>8 DEF serviceVars
<1>9. QED
    BY <1>2, <1>3, <1>4, <1>5, <1>6, <1>7, <1>8, FilingIsArriving DEF ServiceNext, Handled

\* Dying ends every call and frees every row, and takes back nothing that
\* anybody was told.
LEMMA DyingKeepsTheDesk ==
    ASSUME DeskInvariant, Dies
    PROVE  DeskInvariant'
<1>1. /\ calls' = [k \in Calls |-> Idle]
      /\ lock' = [c \in References |-> Unlocked]
      /\ UNCHANGED <<rows, created, active, seen, notices, failures>>
    BY DEF Dies, Crash
<1>2. Idle \in Call /\ Idle.step = "idle"
    BY DEF Idle, Call, Steps, Ops, NewRow, Row
<1>3. DeskTyped'
    BY <1>1, <1>2 DEF DeskInvariant, DeskTyped, DeskTypeOK, CallsAreAimed, QueueTypeOK
<1>4. LockIsHeldForTheRowAsItIs'
    BY <1>1, <1>2, NamesAssumption DEF LockIsHeldForTheRowAsItIs
<1>5. \A k \in Calls : Knows(calls[k])'
    BY <1>1, <1>2 DEF Knows
<1>6. \A a \in Staff : Heard(a)'
    BY <1>1 DEF DeskInvariant, WordIsGood, Heard
<1>7. QED
    BY <1>3, <1>4, <1>5, <1>6 DEF DeskInvariant, WordIsGood

LEMMA ServiceSteps == ServiceInvariant /\ [ServiceNext]_serviceVars => ServiceInvariant'
<1> SUFFICES ASSUME ServiceInvariant, [ServiceNext]_serviceVars
             PROVE  ServiceInvariant'
    OBVIOUS
<1>1. Attempts'
    BY StepsAreTheAgents, AttemptsHold DEF ServiceInvariant
<1>2. CASE Dies
    BY <1>1, <1>2, DyingKeepsTheDesk DEF ServiceInvariant
<1>3. CASE DeskNext
    <2>1. DeskTyped' /\ LockIsHeldForTheRowAsItIs' /\ WordIsGood'
        BY <1>3, DeskStepsKeepTyped, DeskStepsKeepLocks, DeskStepsKeepWord
           DEF ServiceInvariant, DeskInvariant
    <2>2. QED
        BY <1>1, <2>1 DEF ServiceInvariant, DeskInvariant
<1>4. CASE UNCHANGED deskVars
    <2>1. DeskTyped'
        BY <1>4 DEF ServiceInvariant, DeskInvariant, DeskTyped, DeskTypeOK, CallsAreAimed,
                    QueueTypeOK, deskVars
    <2>2. LockIsHeldForTheRowAsItIs'
        BY <1>4 DEF ServiceInvariant, DeskInvariant, LockIsHeldForTheRowAsItIs, Matches, Effect,
                    deskVars
    <2>3. WordIsGood'
        BY <1>4 DEF ServiceInvariant, DeskInvariant, WordIsGood, Knows, Heard, Matches, Done,
                    deskVars
    <2>4. QED
        BY <1>1, <2>1, <2>2, <2>3 DEF ServiceInvariant, DeskInvariant
<1>5. QED
    BY <1>2, <1>3, <1>4, StepsAreTheDesks

LEMMA ServiceStands == ServiceSpec => []ServiceInvariant
BY ServiceBegins, ServiceSteps, PTL DEF ServiceSpec

-----------------------------------------------------------------------------
(* What follows *)

\* Staff who work statement by statement, in calls that die with the process,
\* are staff as the agent takes them to be: the whole implements the agent.
THEOREM ServiceImplementsAgent == ServiceSpec => WorksAsTheAgentAssumes
<1>1. ServiceInit => AgentInit
    BY DEF ServiceInit
<1>2. ServiceInvariant => DeskInvariant
    BY DEF ServiceInvariant
<1>3. QED
    BY <1>1, <1>2, ServiceStands, StepsAreTheAgents, PTL
       DEF ServiceSpec, WorksAsTheAgentAssumes, AgentSpec

\* Every variable of the whole process stays of its type.
THEOREM ServiceTyped == ServiceSpec => []ServiceTypeOK
<1>1. ServiceInvariant => DeskTypeOK
    BY DEF ServiceInvariant, DeskInvariant, DeskTyped
<1>2. QED
    BY <1>1, ServiceStands, ServiceImplementsAgent, AgentTyped, PTL
       DEF WorksAsTheAgentAssumes, ServiceTypeOK

\* No death of the process, and nothing customers do meanwhile, makes untrue
\* what a member of staff was told: the claim, the resolve or the refusal.
THEOREM StaffAreToldTheTruth ==
    ServiceSpec => [](ClaimedMeansYours /\ ResolvedMeansRecorded /\ RefusalsAreTrue)
<1>1. ServiceInvariant => ClaimedMeansYours /\ ResolvedMeansRecorded /\ RefusalsAreTrue
    BY DEF ServiceInvariant, DeskInvariant, WordIsGood, Heard, ClaimedMeansYours,
           ResolvedMeansRecorded, RefusalsAreTrue
<1>2. QED
    BY <1>1, ServiceStands, PTL

\* What is shown of the agent with a staff that works in one step holds with
\* the desk in place: of what customers are told, of what their answers rest
\* on, and of what is on file.
THEOREM CustomersAreToldTheTruth ==
    ServiceSpec => /\ [](/\ RecordedBeforeTold /\ ToldOfAColleagueMeansQueued
                         /\ AnswersRestOnEvidence /\ DangerReachesAPersonUnread
                         /\ FaultsAreNotTheCustomers /\ ReadsOnlyWhatItRecords)
                   /\ KeepsTheBook
BY ServiceImplementsAgent, NobodyIsToldUnrecorded, PromisesAreQueued, AnswersAreSupported,
   DangerIsNeverRead, FaultsStayOurs, ReadingIsRecorded, AgentKeepsTheBook, PTL
   DEF WorksAsTheAgentAssumes

\* What the shop says of a lookup depends on what is filed under its key alone.
LEMMA TheShopGoesByTheKey ==
    ASSUME NEW lookup, NEW answer \in DemoAnswers(lookup)
    PROVE  /\ answer.shape = "found" => UnderKey(lookup) # {}
           /\ UnderKey(lookup) = {} => answer.shape = "not_available"
BY DEF DemoAnswers, NotAvailable, Found

\* An order or a refund that an answer was made from is one filed under the
\* account that asked, and nobody can tell another's order from one there is
\* not.
THEOREM NobodyReadsAnothersOrder == ServiceSpec => []OnlyTheirOwnRows
<1>1. ASSUME AgentInvariant, Readings, FaultsAreNotTheCustomers, NEW r \in Requests,
             OnFile(r), heard[r].lookup.asks \in {"order", "refund"}
      PROVE  LET theirs == {f \in Filings : /\ f.kind = heard[r].lookup.asks
                                            /\ f.owner = enquiry[r].customer
                                            /\ f.reference = enquiry[r].order}
             IN  /\ heard[r].answer.shape = "found" => theirs # {}
                 /\ theirs = {} /\ heard[r].answer.shape # "unavailable"
                        => Filed(r).reply.message = "check_the_reference"
    <2> DEFINE h      == heard[r]
               e      == enquiry[r]
               intent == decided[r].intent
               theirs == {f \in Filings : /\ f.kind = h.lookup.asks
                                          /\ f.owner = e.customer
                                          /\ f.reference = e.order}
    <2>1. h.lookup.asks # None /\ h.lookup # NoLookup /\ h # Silence
        BY <1>1 DEF NoLookup, Silence, None
    <2>2. /\ ReadFor(h, e, intent) /\ WorkedOut(outcome[r], h, e, intent)
          /\ \E m \in Messages : CameFrom(e, m)
        BY <1>1, <2>1 DEF AgentInvariant, Attempts, Attempt, Readings, Reading, OnFile, Pending
    <2>3. /\ h.lookup = LookupFor(e, intent) /\ intent \in Intents \ PolicyIntents
          /\ h.source \in Permitted(intent) \cap Connected
        BY <2>1, <2>2 DEF ReadFor
    <2>4. h.source = "commerce"
        <3>1. Permitted(intent) = {"commerce", "history"}
            BY <2>3 DEF Permitted, ProfileFor, Intents, PolicyIntents, CommerceProfile, Profile
        <3>2. QED
            BY <2>3, <3>1, SourcesAssumption
    <2>5. h.answer \in AnswersTo(h.lookup)
        BY <2>2, <2>4 DEF WorkedOut, None
    <2>6. PICK m \in Messages : CameFrom(e, m)
        BY <2>2
    <2>7. h.lookup = LookupFor(m, intent)
        BY <2>3, <2>6 DEF CameFrom, LookupFor
    <2>8. \/ h.answer \in DemoAnswers(h.lookup)
          \/ h.answer = [shape |-> "unavailable"]
        BY <2>3, <2>5, <2>7, ShopAssumption
    <2>9. theirs = UnderKey(h.lookup)
        BY <1>1, <2>3 DEF UnderKey, LookupFor, Intents, PolicyIntents
    <2>10. h.answer.shape = "found" => theirs # {}
        BY <2>8, <2>9, TheShopGoesByTheKey
    <2>11. theirs = {} /\ h.answer.shape # "unavailable" => h.answer.shape = "not_available"
        BY <2>8, <2>9, TheShopGoesByTheKey
    <2>12. QED
        BY <1>1, <2>10, <2>11 DEF FaultsAreNotTheCustomers
<1>2. AgentInvariant /\ Readings /\ FaultsAreNotTheCustomers => OnlyTheirOwnRows
    BY <1>1 DEF OnlyTheirOwnRows
<1>3. QED
    BY <1>2, ServiceImplementsAgent, AgentKeepsFaith, ReadingsStand, FaultsStayOurs, PTL
       DEF WorksAsTheAgentAssumes

=============================================================================
