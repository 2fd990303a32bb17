------------------------------ MODULE CaseDesk ------------------------------
(***************************************************************************)
(* Working the queue, as app/services/cases.py and app/api/cases.py do it.  *)
(*                                                                          *)
(* A call is one HTTP request with a database session of its own.  It is    *)
(* admitted by a read of the caller's account, then runs one conditional    *)
(* UPDATE, which locks the row it matches until the transaction ends, then  *)
(* a commit and a second read for the reply.  An UPDATE of a locked row     *)
(* waits, and re-evaluates its WHERE on what was committed; that is READ    *)
(* COMMITTED on PostgreSQL, and SQLite's one writer at a time allows no     *)
(* more.  Any call may die between two statements: the database rolls an    *)
(* open transaction back, and a commit that was done stays done.            *)
(***************************************************************************)
EXTENDS CaseQueue, Naturals

CONSTANTS
    Calls,       \* the HTTP requests that may be in progress at once
    ListLimit,   \* CaseDesk.waiting(limit=50)
    Observed,    \* the staff whose answers are kept, for the properties about them
    MaxFailures  \* bound on the calls that die part way through

\* There are finitely many uuid4s to draw a reference from.
ASSUME DeskAssumption ==
    /\ Calls # {} /\ Staff # {}
    /\ IsFiniteSet(References)
    /\ ListLimit \in Nat /\ MaxFailures \in Nat

VARIABLES
    calls,     \* what each call is doing
    lock,      \* the call whose open transaction holds a row, by reference
    created,   \* created_at: the order cases were stamped in; 0 before
    active,    \* the accounts get_current_staff would admit now
    seen,      \* what each member of staff was last shown of the queue
    notices,   \* the last answer about a case that reached each of them
    failures   \* how many calls have died

deskVars == <<rows, calls, lock, created, active, seen, notices, failures>>

Unlocked == "unlocked"   \* nobody's transaction holds the row
NoRef    == "no ref"     \* a call about the whole queue

ASSUME NamesAssumption == Unlocked \notin Calls /\ NoRef \notin References

Steps == {"idle", "received", "admitted", "written", "missed", "committed"}
Ops   == {"list", "claim", "resolve"}

Call == [step  : Steps,                 op   : Ops,
         agent : Staff \cup {Nobody},   ref  : References \cup {NoRef},
         note  : Notes \cup {NoNote},   write : Row]

Idle == [step |-> "idle", op   |-> "list", agent |-> Nobody,
         ref  |-> NoRef,  note |-> NoNote, write |-> NewRow(Absent)]

\* What somebody is told about a case: the two 200s and the two 409s.  A 404
\* says nothing that a later step could make untrue, and is not kept.
Answer == [answer : {"nothing", "claimed", "resolved", "taken", "closed"},
           ref    : References \cup {NoRef},
           note   : Notes \cup {NoNote}]
NotTold == [answer |-> "nothing", ref |-> NoRef, note |-> NoNote]

DeskInit ==
    /\ QueueInit
    /\ calls = [k \in Calls |-> Idle]
    /\ lock = [c \in References |-> Unlocked]
    /\ created = [c \in References |-> 0]
    /\ active = Staff
    /\ seen = [a \in Staff |-> {}]
    /\ notices = [a \in Staff |-> NotTold]
    /\ failures = 0

-----------------------------------------------------------------------------
(* Cases arriving: the INSERT stamps created_at before the row is visible,  *)
(* so two requests may commit in the other order, or one of them never.     *)

Stamp(c) ==
    /\ created[c] = 0
    /\ created' = [created EXCEPT ![c] =
                      1 + Cardinality({d \in References : created[d] # 0})]
    /\ UNCHANGED <<rows, calls, lock, active, seen, notices, failures>>

Arrive(c, route) ==
    /\ created[c] # 0
    /\ Open(c, route)
    /\ UNCHANGED <<calls, lock, created, active, seen, notices, failures>>

-----------------------------------------------------------------------------
(* The endpoints                                                            *)

\* A reference is a UUID, so one that can be named is one that was told to a
\* customer or listed: its row is there.
Submit(k, op, agent, ref, note) ==
    /\ calls[k].step = "idle"
    /\ ref \in References => rows[ref].route # Absent
    /\ calls' = [calls EXCEPT ![k] = [Idle EXCEPT !.step = "received", !.op  = op,
                                                  !.agent = agent, !.ref = ref,
                                                  !.note  = note]]
    /\ UNCHANGED <<rows, lock, created, active, seen, notices, failures>>

Ends(k) == calls' = [calls EXCEPT ![k] = Idle]
Moves(k, step) == calls' = [calls EXCEPT ![k].step = step]

\* get_current_staff: read once, before the desk is reached, and not again.
Admit(k) ==
    /\ calls[k].step = "received"
    /\ IF calls[k].agent \in active THEN Moves(k, "admitted") ELSE Ends(k)
    /\ UNCHANGED <<rows, lock, created, active, seen, notices, failures>>

\* Mutant: the list leaves out what somebody has taken.
WaitingUnclaimed ==
    LET open == {c \in References : Claimable(rows[c])}
    IN  {c \in open : Cardinality({d \in open : created[d] < created[c]}) < ListLimit}

\* CaseDesk.waiting: the oldest open cases, and no more than the limit of them.
Waiting ==
    LET open == {c \in References : Workable(rows[c])}
    IN  {c \in open : Cardinality({d \in open : created[d] < created[c]}) < ListLimit}

List(k) ==
    /\ calls[k].step = "admitted" /\ calls[k].op = "list"
    /\ seen' = [seen EXCEPT ![calls[k].agent] = Waiting]
    /\ Ends(k)
    /\ UNCHANGED <<rows, lock, created, active, notices, failures>>

\* Mutant: claim forgets to look whether the case has an owner.
MatchesAnyOpen(call, row) == call.op # "list" /\ Workable(row)

\* The WHERE clause of the call's UPDATE, and what its SET makes of the row.
Matches(call, row) ==
    CASE call.op = "claim"   -> Claimable(row)
      [] call.op = "resolve" -> Workable(row)
      [] OTHER               -> FALSE

\* Mutant: resolving leaves the owner as it was, none included.
EffectUnowned(call, row) ==
    IF call.op = "claim" THEN Taken(row, call.agent)
                         ELSE [Finished(row, call.agent, call.note) EXCEPT
                                 !.assigned_to = row.assigned_to]

Effect(call, row) ==
    IF call.op = "claim" THEN Taken(row, call.agent)
                         ELSE Finished(row, call.agent, call.note)

\* The conditional UPDATE: it waits for the row, then either writes it and
\* keeps it locked, or changes no rows and is rolled back.
Update(k) ==
    LET call == calls[k]
    IN  /\ call.step = "admitted" /\ call.op # "list"
        /\ lock[call.ref] = Unlocked
        /\ \/ /\ Matches(call, rows[call.ref])
              /\ lock' = [lock EXCEPT ![call.ref] = k]
              /\ calls' = [calls EXCEPT ![k].step = "written",
                                        ![k].write = Effect(call, rows[call.ref])]
           \/ /\ ~Matches(call, rows[call.ref])
              /\ Moves(k, "missed")
              /\ UNCHANGED lock
        /\ UNCHANGED <<rows, created, active, seen, notices, failures>>

Commit(k) ==
    LET call == calls[k]
    IN  /\ call.step = "written"
        /\ rows' = [rows EXCEPT ![call.ref] = call.write]
        /\ lock' = [lock EXCEPT ![call.ref] = Unlocked]
        /\ Moves(k, "committed")
        /\ UNCHANGED <<created, active, seen, notices, failures>>

Tells(k, answer, note) ==
    notices' = [a \in Staff |-> IF a = calls[k].agent /\ a \in Observed
                             THEN [answer |-> answer, ref |-> calls[k].ref, note |-> note]
                             ELSE notices[a]]

\* _reload and the 200.
Confirm(k) ==
    /\ calls[k].step = "committed"
    /\ Tells(k, IF calls[k].op = "claim" THEN "claimed" ELSE "resolved", calls[k].note)
    /\ Ends(k)
    /\ UNCHANGED <<rows, lock, created, active, seen, failures>>

\* Mutant: whatever was missed is said to be closed.
ExplanationClosed(op, row) == IF row.route \in NeedsSomebody THEN "closed" ELSE "missing"

\* _workable, and what claim and resolve raise after it: consulted only to say
\* which of the reasons it was.
Explanation(op, row) ==
    CASE row.route \notin NeedsSomebody              -> "missing"
      [] row.route \in NeedsSomebody /\ row.closed   -> "closed"
      [] Workable(row) /\ op = "claim"               -> "taken"
      [] Workable(row) /\ op # "claim"               -> "closed"

\* A 409 with the reason as it stands now, or a 404.
Explain(k) ==
    /\ calls[k].step = "missed"
    /\ LET answer == Explanation(calls[k].op, rows[calls[k].ref])
       IN  IF answer = "missing" THEN UNCHANGED notices ELSE Tells(k, answer, NoNote)
    /\ Ends(k)
    /\ UNCHANGED <<rows, lock, created, active, seen, failures>>

\* A process, a connection or a client dies.  Whatever the call had locked is
\* rolled back, and its caller hears nothing.
Fail(k) ==
    /\ calls[k].step # "idle"
    /\ failures < MaxFailures
    /\ failures' = failures + 1
    /\ lock' = [c \in References |-> IF lock[c] = k THEN Unlocked ELSE lock[c]]
    /\ Ends(k)
    /\ UNCHANGED <<rows, created, active, seen, notices>>

\* An account loses its role or is deactivated.  Somebody always remains.
Leave(a) ==
    /\ a \in active
    /\ active # {a}
    /\ active' = active \ {a}
    /\ UNCHANGED <<rows, calls, lock, created, seen, notices, failures>>

DeskNext ==
    \/ \E c \in References :
          \/ Stamp(c)
          \/ \E route \in AnsweredRoutes \cup NeedsSomebody : Arrive(c, route)
    \/ \E k \in Calls :
          \/ \E a \in Staff :
                \/ Submit(k, "list", a, NoRef, NoNote)
                \/ \E c \in References : Submit(k, "claim", a, c, NoNote)
                \/ \E c \in References, n \in Notes : Submit(k, "resolve", a, c, n)
          \/ Admit(k) \/ List(k) \/ Update(k) \/ Commit(k)
          \/ Confirm(k) \/ Explain(k) \/ Fail(k)
    \/ \E a \in Staff : Leave(a)

DeskSpec == DeskInit /\ [][DeskNext]_deskVars

-----------------------------------------------------------------------------
(* Properties                                                               *)

\* Every variable is of its type.
DeskTypeOK ==
    /\ QueueTypeOK
    /\ calls \in [Calls -> Call]
    /\ lock \in [References -> Calls \cup {Unlocked}]
    /\ created \in [References -> Nat]
    /\ active \subseteq Staff
    /\ seen \in [Staff -> SUBSET References]
    /\ notices \in [Staff -> Answer]
    /\ failures \in Nat

\* A row is locked by exactly the call that has written it and not committed,
\* and what that call will commit is its SET applied to the row as it stands.
LockIsHeldForTheRowAsItIs ==
    \A k \in Calls :
        /\ \A c \in References :
              lock[c] = k <=> calls[k].step = "written" /\ calls[k].ref = c
        /\ calls[k].step = "written" =>
              /\ Matches(calls[k], rows[calls[k].ref])
              /\ calls[k].write = Effect(calls[k], rows[calls[k].ref])

\* A 200 to a claim is a promise: whoever got it owns the case from then on,
\* so of all the people who pressed claim at most one was told it is theirs.
ClaimedMeansYours ==
    \A a \in Staff : notices[a].answer = "claimed" =>
        rows[notices[a].ref].assigned_to = a

\* A 200 to a resolve is kept: the case says who finished it, and in the words
\* they used, whatever anybody else presses afterwards.
ResolvedMeansRecorded ==
    \A a \in Staff : notices[a].answer = "resolved" =>
        LET row == rows[notices[a].ref]
        IN  row.closed /\ row.resolved_by = a /\ row.resolution = notices[a].note

\* A 409 is true, although it is read in a transaction of its own after the
\* write it explains was rolled back: "resolved" only of a closed case, and
\* "with somebody" only of one that has an owner.
RefusalsAreTrue ==
    \A a \in Staff :
        /\ notices[a].answer = "closed" => rows[notices[a].ref].closed
        /\ notices[a].answer = "taken"  => rows[notices[a].ref].assigned_to # Nobody

\* CaseAlreadyTakenError: "Somebody else has it."  It does not hold: whoever
\* claims twice, or claims again after losing the answer, is refused because
\* of themselves.
TakenMeansSomebodyElse ==
    \A a \in Staff : notices[a].answer = "taken" => rows[notices[a].ref].assigned_to # a

-----------------------------------------------------------------------------
(* Liveness, for a queue that is worked.  The code finishes what it starts; *)
(* that somebody still on the staff keeps reading the list, and resolves    *)
(* what it showed them, is an assumption about the people.                  *)

Handles(k) == Admit(k) \/ List(k) \/ Update(k) \/ Commit(k) \/ Confirm(k) \/ Explain(k)

Reads(a) ==
    a \in active /\ \E k \in Calls : Submit(k, "list", a, NoRef, NoNote)
Works(a, c) ==
    /\ a \in active /\ c \in seen[a]
    /\ \E k \in Calls, n \in Notes : Submit(k, "resolve", a, c, n)

DeskFairness ==
    /\ \A k \in Calls : WF_deskVars(Handles(k)) /\ SF_deskVars(Update(k))
    /\ \A a \in Staff : SF_deskVars(Reads(a))
    /\ \A a \in Staff, c \in References : SF_deskVars(Works(a, c))

FairDeskSpec == DeskSpec /\ DeskFairness

\* Oldest first, a page at a time, reaches everybody: a case that needs a
\* person is eventually closed, however many are open, whatever is claimed and
\* left, whoever leaves, and although calls die half way.
EveryCaseIsFinished ==
    \A c \in References : []<>(rows[c].route \in NeedsSomebody => rows[c].closed)

=============================================================================
