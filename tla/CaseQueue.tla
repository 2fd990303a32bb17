------------------------------ MODULE CaseQueue ------------------------------
(***************************************************************************)
(* What the support table promises as a queue (app/models/support.py, and   *)
(* the docstrings of app/services/cases.py): a case is opened once, belongs *)
(* to whoever took it first, is finished once, and what the person who      *)
(* finished it wrote is never replaced.  Every operation is one step here;  *)
(* CaseDesk shows that the statements, commits and crashes of the code      *)
(* implement it, and SupportAgent builds on it.                             *)
(***************************************************************************)
EXTENDS FiniteSets

CONSTANTS
    References,  \* the names cases are minted under
    Staff,       \* the people who work the queue
    Notes        \* what somebody can write on closing a case

Nobody == "nobody"   \* a null assigned_to or resolved_by
NoNote == "no note"  \* a null resolution

ASSUME PeopleAssumption == Nobody \notin Staff /\ NoNote \notin Notes

VARIABLE rows   \* the queue columns of support_cases, by reference

\* Mutant: only what was escalated is thought to need somebody.
NeedsASpecialist == {"human_escalation"}

AnsweredRoutes == {"direct_response", "clarification"}
NeedsSomebody  == {"human_escalation", "internal_review"}  \* NEEDS_SOMEBODY
Absent         == "absent"                                 \* no such row

Row == [route       : AnsweredRoutes \cup NeedsSomebody \cup {Absent},
        assigned_to : Staff \cup {Nobody},
        resolved_by : Staff \cup {Nobody},
        resolution  : Notes \cup {NoNote},
        closed      : BOOLEAN]

NewRow(route) ==
    [route       |-> route,  assigned_to |-> Nobody, resolved_by |-> Nobody,
     resolution  |-> NoNote, closed      |-> FALSE]

\* Mutants: a WHERE without closed_at IS NULL, and one without assigned_to IS
\* NULL.
WorkableForEver(row)  == row.route \in NeedsSomebody
ClaimableFromAnybody(row) == row.route \in NeedsSomebody /\ ~row.closed

\* The WHERE clauses: an open case somebody here has to finish, and one nobody has.
Workable(row)  == row.route \in NeedsSomebody /\ ~row.closed
Claimable(row) == Workable(row) /\ row.assigned_to = Nobody

\* Mutant: resolving takes an owned case over.
FinishedAndTakenOver(row, agent, note) ==
    [row EXCEPT !.assigned_to = agent, !.resolved_by = agent,
                !.resolution  = note,  !.closed      = TRUE]

\* The SET clauses of claim and resolve.
Taken(row, agent) == [row EXCEPT !.assigned_to = agent]
Finished(row, agent, note) ==
    [row EXCEPT !.assigned_to = IF row.assigned_to = Nobody THEN agent ELSE row.assigned_to,
                !.resolved_by = agent,
                !.resolution  = note,
                !.closed      = TRUE]

-----------------------------------------------------------------------------
QueueInit == rows = [c \in References |-> NewRow(Absent)]

\* DatabaseCases.record: one insert, under a reference no row has.
Open(c, route) ==
    /\ rows[c].route = Absent
    /\ rows' = [rows EXCEPT ![c] = NewRow(route)]

\* CaseDesk.claim and CaseDesk.resolve, where they succeed.
Claim(c, agent) ==
    /\ Claimable(rows[c])
    /\ rows' = [rows EXCEPT ![c] = Taken(rows[c], agent)]

Resolve(c, agent, note) ==
    /\ Workable(rows[c])
    /\ rows' = [rows EXCEPT ![c] = Finished(rows[c], agent, note)]

QueueNext ==
    \E c \in References :
        \/ \E route \in AnsweredRoutes \cup NeedsSomebody : Open(c, route)
        \/ \E agent \in Staff : Claim(c, agent)
        \/ \E agent \in Staff, note \in Notes : Resolve(c, agent, note)

QueueSpec == QueueInit /\ [][QueueNext]_rows

-----------------------------------------------------------------------------
(* What follows from the promise, for every set of cases and staff.         *)

\* Every row is one the table can hold.
QueueTypeOK == rows \in [References -> Row]

\* A closed case names who finished it and what they wrote, and has an owner;
\* an open one has neither; nobody is ever put on a case that was answered.
ClosedIsAccountedFor ==
    \A c \in References :
        /\ rows[c].closed <=> rows[c].resolved_by # Nobody
        /\ rows[c].closed <=> rows[c].resolution # NoNote
        /\ rows[c].closed => rows[c].assigned_to # Nobody
        /\ rows[c].assigned_to # Nobody => rows[c].route \in NeedsSomebody

\* The first claim and the first account of what was done both stand: no later
\* step replaces an owner or touches a closed case, and no row changes route.
FirstWriterStands ==
    [][\A c \in References :
          /\ rows[c].closed => rows'[c] = rows[c]
          /\ rows[c].assigned_to # Nobody => rows'[c].assigned_to = rows[c].assigned_to
          /\ rows[c].route # Absent => rows'[c].route = rows[c].route]_rows

=============================================================================
