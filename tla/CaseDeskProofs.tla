--------------------------- MODULE CaseDeskProofs ---------------------------
(***************************************************************************)
(* What the queue promises holds for every set of cases, staff and notes.   *)
(* And for any number of calls and crashes the desk keeps its types, its    *)
(* row locks, and implements the queue; so what is proved of the queue      *)
(* holds of the desk.                                                       *)
(***************************************************************************)
EXTENDS CaseDesk, TLAPS, FiniteSetTheorems

-----------------------------------------------------------------------------
(* The queue *)

\* Each operation leaves one row changed, and that row is one the table can
\* hold: NewRow, Taken and Finished only ever build rows.
LEMMA OperationsBuildRows ==
    ASSUME QueueTypeOK, NEW c \in References
    PROVE  /\ \A route \in AnsweredRoutes \cup NeedsSomebody \cup {Absent} :
                 NewRow(route) \in Row
           /\ \A agent \in Staff : Taken(rows[c], agent) \in Row
           /\ \A agent \in Staff, note \in Notes : Finished(rows[c], agent, note) \in Row
<1>1. rows[c] \in Row
    BY DEF QueueTypeOK
<1>2. QED
    BY <1>1 DEF Row, NewRow, Taken, Finished

\* Every row in the table stays one the table can hold.
THEOREM QueueTyped == QueueSpec => []QueueTypeOK
<1>1. QueueInit => QueueTypeOK
    BY DEF QueueInit, QueueTypeOK, NewRow, Row
<1>2. QueueTypeOK /\ [QueueNext]_rows => QueueTypeOK'
  <2> SUFFICES ASSUME QueueTypeOK, [QueueNext]_rows
               PROVE  QueueTypeOK'
    OBVIOUS
  <2>1. ASSUME NEW c \in References, NEW route \in AnsweredRoutes \cup NeedsSomebody,
               Open(c, route)
        PROVE  QueueTypeOK'
    BY <2>1, OperationsBuildRows DEF Open, QueueTypeOK
  <2>2. ASSUME NEW c \in References, NEW agent \in Staff, Claim(c, agent)
        PROVE  QueueTypeOK'
    BY <2>2, OperationsBuildRows DEF Claim, QueueTypeOK
  <2>3. ASSUME NEW c \in References, NEW agent \in Staff, NEW note \in Notes,
               Resolve(c, agent, note)
        PROVE  QueueTypeOK'
    BY <2>3, OperationsBuildRows DEF Resolve, QueueTypeOK
  <2>4. CASE UNCHANGED rows
    BY <2>4 DEF QueueTypeOK
  <2> QED
    BY <2>1, <2>2, <2>3, <2>4 DEF QueueNext
<1>3. QED
    BY <1>1, <1>2, PTL DEF QueueSpec

\* What is true of a row that is accounted for; ClosedIsAccountedFor says it of
\* every row of the table.
AccountedFor(row) ==
    /\ row.closed <=> row.resolved_by # Nobody
    /\ row.closed <=> row.resolution # NoNote
    /\ row.closed => row.assigned_to # Nobody
    /\ row.assigned_to # Nobody => row.route \in NeedsSomebody

\* Opening, claiming and resolving each leave an accounted row accounted for;
\* resolving does because it names an owner where there was none.
LEMMA OperationsAccount ==
    ASSUME NEW row \in Row, AccountedFor(row), NEW agent \in Staff, NEW note \in Notes
    PROVE  /\ \A route : AccountedFor(NewRow(route))
           /\ Claimable(row) => AccountedFor(Taken(row, agent))
           /\ Workable(row) => AccountedFor(Finished(row, agent, note))
BY PeopleAssumption
   DEF AccountedFor, Row, NewRow, Taken, Finished, Claimable, Workable

\* A closed case names who finished it, what they wrote and its owner, and an
\* open one does not: there is no half-closed case.
THEOREM QueueAccounted == QueueSpec => []ClosedIsAccountedFor
<1> DEFINE Inv == ClosedIsAccountedFor
<1>1. QueueInit => Inv
    BY DEF QueueInit, ClosedIsAccountedFor, NewRow
<1>2. QueueTypeOK /\ Inv /\ [QueueNext]_rows => Inv'
  <2> SUFFICES ASSUME QueueTypeOK, Inv, [QueueNext]_rows, NEW d \in References
               PROVE  AccountedFor(rows'[d])
    BY DEF ClosedIsAccountedFor, AccountedFor
  <2>1. rows[d] \in Row /\ AccountedFor(rows[d])
    BY DEF QueueTypeOK, ClosedIsAccountedFor, AccountedFor
  <2>2. ASSUME NEW c \in References, NEW route \in AnsweredRoutes \cup NeedsSomebody,
               Open(c, route)
        PROVE  AccountedFor(rows'[d])
    BY <2>1, <2>2 DEF Open, QueueTypeOK, AccountedFor, NewRow
  <2>3. ASSUME NEW c \in References, NEW agent \in Staff, Claim(c, agent)
        PROVE  AccountedFor(rows'[d])
    BY <2>1, <2>3, PeopleAssumption
       DEF Claim, QueueTypeOK, AccountedFor, Taken, Claimable, Workable, Row
  <2>4. ASSUME NEW c \in References, NEW agent \in Staff, NEW note \in Notes,
               Resolve(c, agent, note)
        PROVE  AccountedFor(rows'[d])
    BY <2>1, <2>4, OperationsAccount DEF Resolve, QueueTypeOK
  <2>5. CASE UNCHANGED rows
    BY <2>1, <2>5
  <2> QED
    BY <2>2, <2>3, <2>4, <2>5 DEF QueueNext
<1>3. QED
    BY <1>1, <1>2, QueueTyped, PTL DEF QueueSpec

\* The first claim and the first account of what was done both stand.
THEOREM QueueKeepsTheFirst == QueueSpec => FirstWriterStands
<1> DEFINE Keeps(c) ==
        /\ rows[c].closed => rows'[c] = rows[c]
        /\ rows[c].assigned_to # Nobody => rows'[c].assigned_to = rows[c].assigned_to
        /\ rows[c].route # Absent => rows'[c].route = rows[c].route
<1>1. QueueTypeOK /\ ClosedIsAccountedFor /\ [QueueNext]_rows
        => [\A c \in References : Keeps(c)]_rows
  <2> SUFFICES ASSUME QueueTypeOK, ClosedIsAccountedFor, QueueNext, NEW d \in References
               PROVE  Keeps(d)
    OBVIOUS
  <2>1. rows[d] \in Row /\ AccountedFor(rows[d])
    BY DEF QueueTypeOK, ClosedIsAccountedFor, AccountedFor
  <2>2. ASSUME NEW c \in References, NEW route \in AnsweredRoutes \cup NeedsSomebody,
               Open(c, route)
        PROVE  Keeps(d)
    <3>1. c # d => Keeps(d)
        BY <2>2 DEF Open, QueueTypeOK
    <3>2. rows[c].route = Absent /\ Absent \notin NeedsSomebody
        BY <2>2 DEF Open, Absent, NeedsSomebody
    <3>3. c = d => ~rows[d].closed /\ rows[d].assigned_to = Nobody
        BY <2>1, <3>2 DEF AccountedFor
    <3> QED
        BY <3>1, <3>2, <3>3
  <2>3. ASSUME NEW c \in References, NEW agent \in Staff, Claim(c, agent)
        PROVE  Keeps(d)
    BY <2>1, <2>3 DEF Claim, QueueTypeOK, Taken, Claimable, Workable, Row
  <2>4. ASSUME NEW c \in References, NEW agent \in Staff, NEW note \in Notes,
               Resolve(c, agent, note)
        PROVE  Keeps(d)
    BY <2>1, <2>4 DEF Resolve, QueueTypeOK, Finished, Workable, Row
  <2> QED
    BY <2>2, <2>3, <2>4 DEF QueueNext
<1>2. QED
    BY <1>1, QueueTyped, QueueAccounted, PTL DEF QueueSpec, FirstWriterStands

-----------------------------------------------------------------------------
(* The desk *)

\* A call that reaches the UPDATE is not a list, one that works a case names it,
\* and whoever makes it and what they wrote are somebody and something.
CallsAreAimed ==
    \A k \in Calls : calls[k].step # "idle" =>
        /\ calls[k].agent \in Staff
        /\ calls[k].step \in {"written", "missed", "committed"} => calls[k].op # "list"
        /\ calls[k].op # "list" => calls[k].ref \in References
        /\ calls[k].op = "resolve" => calls[k].note \in Notes

DeskTyped == DeskTypeOK /\ CallsAreAimed

\* A desk nobody has called yet is well typed.
LEMMA DeskStartsTyped == DeskInit => DeskTyped
BY DEF DeskInit, DeskTyped, DeskTypeOK, CallsAreAimed, QueueInit, QueueTypeOK, Idle, Call,
       Steps, Ops, NewRow, Row, NotTold, Answer

\* Ending a call, or moving it to another step, disturbs none of this.
LEMMA EndingKeepsTyped ==
    ASSUME DeskTyped, NEW k \in Calls, Ends(k)
    PROVE  calls' \in [Calls -> Call] /\ CallsAreAimed'
BY DEF DeskTyped, DeskTypeOK, CallsAreAimed, Ends, Idle, Call, Steps, Ops, NewRow, Row

\* A call that only moves on to another step keeps what it was aimed at.
LEMMA MovingKeepsTyped ==
    ASSUME DeskTyped, NEW k \in Calls, NEW s \in Steps, Moves(k, s), calls[k].step # "idle",
           s \in {"written", "missed", "committed"} => calls[k].op # "list"
    PROVE  calls' \in [Calls -> Call] /\ CallsAreAimed'
BY DEF DeskTyped, DeskTypeOK, CallsAreAimed, Moves, Call

\* What the UPDATE of an admitted call writes is a row.
LEMMA EffectIsARow ==
    ASSUME DeskTyped, NEW k \in Calls, calls[k].step # "idle", calls[k].op # "list"
    PROVE  /\ calls[k].ref \in References
           /\ rows[calls[k].ref] \in Row
           /\ calls[k].op \in {"claim", "resolve"}
           /\ Effect(calls[k], rows[calls[k].ref]) \in Row
<1>1. /\ calls[k].ref \in References /\ calls[k].agent \in Staff
      /\ calls[k].op \in {"claim", "resolve"}
      /\ calls[k].op = "resolve" => calls[k].note \in Notes
    BY DEF DeskTyped, CallsAreAimed, DeskTypeOK, Call, Ops
<1>2. QueueTypeOK
    BY DEF DeskTyped, DeskTypeOK
<1>3. rows[calls[k].ref] \in Row
    BY <1>1, <1>2 DEF QueueTypeOK
<1>4. CASE calls[k].op = "claim"
    BY <1>1, <1>2, <1>3, <1>4, OperationsBuildRows DEF Effect
<1>5. CASE calls[k].op = "resolve"
    BY <1>1, <1>2, <1>3, <1>5, OperationsBuildRows DEF Effect
<1> QED
    BY <1>1, <1>3, <1>4, <1>5

\* The answers a step can write down are answers, and name a case that exists.
LEMMA TellingKeepsTyped ==
    ASSUME DeskTyped, NEW k \in Calls, calls[k].step # "idle", calls[k].op # "list",
           NEW answer \in {"claimed", "resolved", "taken", "closed"},
           NEW note \in Notes \cup {NoNote}, Tells(k, answer, note)
    PROVE  notices' \in [Staff -> Answer]
<1>1. calls[k].agent \in Staff /\ calls[k].ref \in References
    BY DEF DeskTyped, CallsAreAimed
<1>2. [answer |-> answer, ref |-> calls[k].ref, note |-> note] \in Answer
    BY <1>1 DEF Answer
<1> QED
    BY <1>1, <1>2 DEF Tells, DeskTyped, DeskTypeOK

\* No step of the desk, and no stuttering, takes a variable out of its type.
LEMMA DeskStepsKeepTyped ==
    ASSUME DeskTyped, DeskNext
    PROVE  DeskTyped'
<1> USE DEF DeskTyped
<1>1. ASSUME NEW c \in References, Stamp(c) PROVE DeskTyped'
  <2>1. 1 + Cardinality({d \in References : created[d] # 0}) \in Nat
    <3>1. IsFiniteSet({d \in References : created[d] # 0})
        BY DeskAssumption, FS_Subset
    <3> QED
        BY <3>1, FS_CardinalityType
  <2> QED
    BY <1>1, <2>1 DEF Stamp, DeskTypeOK, CallsAreAimed, QueueTypeOK
<1>2. ASSUME NEW c \in References, NEW route \in AnsweredRoutes \cup NeedsSomebody,
             Arrive(c, route)
      PROVE  DeskTyped'
  <2>1. QueueTypeOK'
    BY <1>2, OperationsBuildRows DEF Arrive, Open, DeskTypeOK, QueueTypeOK
  <2> QED
    BY <1>2, <2>1 DEF Arrive, DeskTypeOK, CallsAreAimed
<1>3. ASSUME NEW k \in Calls, NEW op \in Ops, NEW agent \in Staff,
             NEW ref \in References \cup {NoRef}, NEW note \in Notes \cup {NoNote},
             op # "list" => ref \in References, op = "resolve" => note \in Notes,
             Submit(k, op, agent, ref, note)
      PROVE  DeskTyped'
  <2> DEFINE new == [Idle EXCEPT !.step = "received", !.op = op, !.agent = agent,
                                 !.ref = ref, !.note = note]
  <2>1. /\ new \in Call
        /\ new.step = "received" /\ new.agent = agent /\ new.op = op /\ new.ref = ref /\ new.note = note
    BY DEF Idle, Call, Steps, Ops, NewRow, Row
  <2>2. calls' = [calls EXCEPT ![k] = new]
    BY <1>3 DEF Submit
  <2> HIDE DEF new
  <2>3. calls' \in [Calls -> Call] /\ CallsAreAimed'
    BY <1>3, <2>1, <2>2 DEF DeskTypeOK, CallsAreAimed
  <2> QED
    BY <1>3, <2>3 DEF Submit, DeskTypeOK, QueueTypeOK
<1>4. ASSUME NEW k \in Calls, Admit(k) PROVE DeskTyped'
  <2>1. calls' \in [Calls -> Call] /\ CallsAreAimed'
    BY <1>4, EndingKeepsTyped, MovingKeepsTyped DEF Admit, Steps
  <2> QED
    BY <1>4, <2>1 DEF Admit, DeskTypeOK, QueueTypeOK
<1>5. ASSUME NEW k \in Calls, List(k) PROVE DeskTyped'
  <2>1. calls' \in [Calls -> Call] /\ CallsAreAimed'
    BY <1>5, EndingKeepsTyped DEF List
  <2>2. seen' \in [Staff -> SUBSET References]
    BY <1>5 DEF List, Waiting, DeskTypeOK
  <2> QED
    BY <1>5, <2>1, <2>2 DEF List, DeskTypeOK, QueueTypeOK
<1>6. ASSUME NEW k \in Calls, Update(k) PROVE DeskTyped'
  <2> DEFINE row == Effect(calls[k], rows[calls[k].ref])
  <2>1. row \in Row /\ calls[k].ref \in References
    BY <1>6, EffectIsARow DEF Update
  <2> HIDE DEF row
  <2>2. CASE ~Matches(calls[k], rows[calls[k].ref])
    <3>1. calls' \in [Calls -> Call] /\ CallsAreAimed'
        BY <1>6, <2>2, MovingKeepsTyped DEF Update, Steps
    <3> QED
        BY <1>6, <2>2, <3>1 DEF Update, DeskTypeOK, QueueTypeOK
  <2>3. CASE Matches(calls[k], rows[calls[k].ref])
    <3>1. /\ calls' = [calls EXCEPT ![k].step = "written", ![k].write = row]
          /\ lock' = [lock EXCEPT ![calls[k].ref] = k]
        BY <1>6, <2>3 DEF Update, row
    <3>2. calls' \in [Calls -> Call] /\ CallsAreAimed'
        BY <1>6, <2>1, <3>1 DEF Update, DeskTypeOK, CallsAreAimed, Call, Steps
    <3> QED
        BY <1>6, <2>1, <3>1, <3>2 DEF Update, DeskTypeOK, QueueTypeOK
  <2> QED
    BY <2>2, <2>3
<1>7. ASSUME NEW k \in Calls, Commit(k) PROVE DeskTyped'
  <2>1. calls' \in [Calls -> Call] /\ CallsAreAimed'
    BY <1>7, MovingKeepsTyped DEF Commit, Steps, CallsAreAimed
  <2>2. calls[k].write \in Row
    BY DEF DeskTypeOK, Call
  <2>3. QueueTypeOK'
    BY <1>7, <2>2 DEF Commit, DeskTypeOK, QueueTypeOK
  <2> QED
    BY <1>7, <2>1, <2>3 DEF Commit, DeskTypeOK
<1>8. ASSUME NEW k \in Calls, Confirm(k) PROVE DeskTyped'
  <2>1. calls' \in [Calls -> Call] /\ CallsAreAimed'
    BY <1>8, EndingKeepsTyped DEF Confirm
  <2>2. calls[k].op # "list" /\ calls[k].note \in Notes \cup {NoNote}
    BY <1>8 DEF Confirm, CallsAreAimed, DeskTypeOK, Call
  <2>3. notices' \in [Staff -> Answer]
    BY <1>8, <2>2, TellingKeepsTyped DEF Confirm
  <2> QED
    BY <1>8, <2>1, <2>3 DEF Confirm, DeskTypeOK, QueueTypeOK
<1>9. ASSUME NEW k \in Calls, Explain(k) PROVE DeskTyped'
  <2> DEFINE answer == Explanation(calls[k].op, rows[calls[k].ref])
  <2>1. calls' \in [Calls -> Call] /\ CallsAreAimed'
    BY <1>9, EndingKeepsTyped DEF Explain
  <2>2. calls[k].op # "list" /\ calls[k].step # "idle"
    BY <1>9 DEF Explain, CallsAreAimed
  <2>3. rows[calls[k].ref] \in Row
    BY <2>2, EffectIsARow
  <2>4. answer \in {"missing", "closed", "taken"}
    BY <2>3 DEF Explanation, Workable, Row
  <2> HIDE DEF answer
  <2>5. IF answer = "missing" THEN UNCHANGED notices ELSE Tells(k, answer, NoNote)
    BY <1>9 DEF Explain, answer
  <2>6. notices' \in [Staff -> Answer]
    BY <2>2, <2>4, <2>5, TellingKeepsTyped DEF DeskTypeOK
  <2> QED
    BY <1>9, <2>1, <2>6 DEF Explain, DeskTypeOK, QueueTypeOK
<1>10. ASSUME NEW k \in Calls, Fail(k) PROVE DeskTyped'
  <2>1. calls' \in [Calls -> Call] /\ CallsAreAimed'
    BY <1>10, EndingKeepsTyped DEF Fail
  <2> QED
    BY <1>10, <2>1 DEF Fail, DeskTypeOK, QueueTypeOK
<1>11. ASSUME NEW a \in Staff, Leave(a) PROVE DeskTyped'
    BY <1>11 DEF Leave, DeskTypeOK, QueueTypeOK, CallsAreAimed
<1>12. ASSUME NEW k \in Calls, NEW a \in Staff,
              \/ Submit(k, "list", a, NoRef, NoNote)
              \/ \E c \in References : Submit(k, "claim", a, c, NoNote)
              \/ \E c \in References, n \in Notes : Submit(k, "resolve", a, c, n)
       PROVE  DeskTyped'
  <2>1. CASE Submit(k, "list", a, NoRef, NoNote)
    BY <1>3, <2>1 DEF Ops
  <2>2. ASSUME NEW c \in References, Submit(k, "claim", a, c, NoNote) PROVE DeskTyped'
    BY <1>3, <2>2 DEF Ops
  <2>3. ASSUME NEW c \in References, NEW n \in Notes, Submit(k, "resolve", a, c, n)
        PROVE  DeskTyped'
    BY <1>3, <2>3 DEF Ops
  <2> QED
    BY <1>12, <2>1, <2>2, <2>3
<1> QED
    BY <1>1, <1>2, <1>4, <1>5, <1>6, <1>7, <1>8, <1>9, <1>10, <1>11, <1>12 DEF DeskNext

\* Every variable of the desk stays of its type.
THEOREM DeskTypes == DeskSpec => []DeskTypeOK
<1>1. DeskTyped /\ UNCHANGED deskVars => DeskTyped'
    BY DEF DeskTyped, DeskTypeOK, CallsAreAimed, QueueTypeOK, deskVars
<1>2. DeskTyped => DeskTypeOK
    BY DEF DeskTyped
<1> QED
    BY DeskStartsTyped, DeskStepsKeepTyped, <1>1, <1>2, PTL DEF DeskSpec

-----------------------------------------------------------------------------
(* The row locks *)

\* A step that neither begins nor ends a transaction leaves the locks right.
LEMMA QuietStepsKeepLocks ==
    ASSUME LockIsHeldForTheRowAsItIs, NEW k \in Calls,
           calls[k].step # "written", calls'[k].step # "written",
           \A j \in Calls \ {k} : calls'[j] = calls[j],
           UNCHANGED <<rows, lock>>
    PROVE  LockIsHeldForTheRowAsItIs'
BY DEF LockIsHeldForTheRowAsItIs, Matches, Effect

\* No step of the desk leaves a lock without its writer, or a writer without
\* its lock on the row it read.
LEMMA DeskStepsKeepLocks ==
    ASSUME DeskTyped, LockIsHeldForTheRowAsItIs, DeskNext
    PROVE  LockIsHeldForTheRowAsItIs'
<1> DEFINE Inv == LockIsHeldForTheRowAsItIs
<1> USE DEF DeskTyped
<1>0. /\ calls \in [Calls -> Call] /\ lock \in [References -> Calls \cup {Unlocked}]
      /\ rows \in [References -> Row] /\ Unlocked \notin Calls
    BY NamesAssumption DEF DeskTypeOK, QueueTypeOK
<1>1. ASSUME NEW k \in Calls,
             calls[k].step # "written",
             \/ Ends(k)
             \/ \E s \in Steps \ {"written"} : Moves(k, s)
             \/ \E op \in Ops, a \in Staff, c \in References \cup {NoRef},
                   n \in Notes \cup {NoNote} : Submit(k, op, a, c, n),
             UNCHANGED <<rows, lock>>
      PROVE  Inv'
  <2> DEFINE Elsewhere == \A j \in Calls \ {k} : calls'[j] = calls[j]
  <2>1. calls'[k].step # "written" /\ Elsewhere
    <3>1. CASE Ends(k)
        BY <1>0, <3>1 DEF Ends, Idle
    <3>2. ASSUME NEW s \in Steps \ {"written"}, Moves(k, s)
          PROVE  calls'[k].step # "written" /\ Elsewhere
        BY <1>0, <3>2 DEF Moves, Call
    <3>3. ASSUME NEW op \in Ops, NEW a \in Staff, NEW c \in References \cup {NoRef},
                 NEW n \in Notes \cup {NoNote}, Submit(k, op, a, c, n)
          PROVE  calls'[k].step # "written" /\ Elsewhere
        BY <1>0, <3>3 DEF Submit, Idle
    <3> QED
        BY <1>1, <3>1, <3>2, <3>3
  <2> QED
    BY <1>1, <2>1, QuietStepsKeepLocks
<1>2. ASSUME NEW c \in References, Stamp(c) PROVE Inv'
    BY <1>2 DEF Stamp, LockIsHeldForTheRowAsItIs, Matches, Effect
<1>3. ASSUME NEW c \in References, NEW route \in AnsweredRoutes \cup NeedsSomebody,
             Arrive(c, route)
      PROVE  Inv'
  <2>1. \A k \in Calls : calls[k].step = "written" => calls[k].ref # c
    BY <1>3 DEF Arrive, Open, LockIsHeldForTheRowAsItIs, Matches, Claimable, Workable,
                Absent, NeedsSomebody
  <2>2. \A k \in Calls : calls[k].step = "written" => rows'[calls[k].ref] = rows[calls[k].ref]
    BY <1>0, <1>3, <2>1 DEF Arrive, Open, CallsAreAimed
  <2> QED
    BY <1>3, <2>2 DEF Arrive, LockIsHeldForTheRowAsItIs, Matches, Effect
<1>4. ASSUME NEW k \in Calls, Admit(k) PROVE Inv'
    BY <1>1, <1>4 DEF Admit, Steps
<1>5. ASSUME NEW k \in Calls, List(k) PROVE Inv'
    BY <1>1, <1>5 DEF List
<1>6. ASSUME NEW k \in Calls, Update(k) PROVE Inv'
  <2> DEFINE ref == calls[k].ref
             row == Effect(calls[k], rows[ref])
  <2>1. ref \in References /\ lock[ref] = Unlocked /\ calls[k].step = "admitted"
        /\ UNCHANGED rows
    BY <1>6 DEF Update, CallsAreAimed
  <2>2. CASE ~Matches(calls[k], rows[ref])
    BY <1>1, <1>6, <2>1, <2>2 DEF Update, Steps
  <2>3. CASE Matches(calls[k], rows[ref])
    <3>1. /\ calls' = [calls EXCEPT ![k].step = "written", ![k].write = row]
          /\ lock' = [lock EXCEPT ![ref] = k]
        BY <1>6, <2>3 DEF Update
    <3>2. /\ calls'[k].step = "written" /\ calls'[k].write = row
          /\ calls'[k].op = calls[k].op /\ calls'[k].ref = ref
          /\ calls'[k].agent = calls[k].agent /\ calls'[k].note = calls[k].note
          /\ \A j \in Calls \ {k} : calls'[j] = calls[j]
        BY <1>0, <3>1 DEF Call
    <3>3. lock'[ref] = k /\ \A c \in References \ {ref} : lock'[c] = lock[c]
        BY <1>0, <2>1, <3>1
    <3>4. \A c \in References : lock[c] # k
        BY <2>1 DEF LockIsHeldForTheRowAsItIs
    <3>5. \A j \in Calls, c \in References :
              lock'[c] = j <=> calls'[j].step = "written" /\ calls'[j].ref = c
        BY <1>0, <2>1, <3>2, <3>3, <3>4 DEF LockIsHeldForTheRowAsItIs
    <3>6. \A j \in Calls : calls'[j].step = "written" =>
              /\ Matches(calls'[j], rows'[calls'[j].ref])
              /\ calls'[j].write = Effect(calls'[j], rows'[calls'[j].ref])
      <4>1. Matches(calls'[k], rows'[ref]) /\ calls'[k].write = Effect(calls'[k], rows'[ref])
        BY <2>1, <2>3, <3>2 DEF Matches, Effect
      <4> QED
        BY <2>1, <3>2, <4>1 DEF LockIsHeldForTheRowAsItIs
    <3> QED
        BY <3>5, <3>6 DEF LockIsHeldForTheRowAsItIs
  <2> QED
    BY <2>2, <2>3
<1>7. ASSUME NEW k \in Calls, Commit(k) PROVE Inv'
  <2> DEFINE ref == calls[k].ref
  <2>1. ref \in References /\ lock[ref] = k /\ calls[k].step = "written"
    BY <1>7 DEF Commit, CallsAreAimed, LockIsHeldForTheRowAsItIs
  <2>2. /\ calls'[k].step = "committed"
        /\ \A j \in Calls \ {k} : calls'[j] = calls[j]
        /\ lock'[ref] = Unlocked
        /\ \A c \in References \ {ref} : lock'[c] = lock[c] /\ rows'[c] = rows[c]
    BY <1>0, <1>7, <2>1 DEF Commit, Moves, Call
  <2>3. \A j \in Calls \ {k} : calls[j].step = "written" =>
            calls[j].ref # ref /\ calls[j].ref \in References
    BY <2>1 DEF LockIsHeldForTheRowAsItIs, CallsAreAimed
  <2>4. \A j \in Calls, c \in References :
            lock'[c] = j <=> calls'[j].step = "written" /\ calls'[j].ref = c
    <3> SUFFICES ASSUME NEW j \in Calls, NEW c \in References
                 PROVE  lock'[c] = j <=> calls'[j].step = "written" /\ calls'[j].ref = c
        OBVIOUS
    <3>1. lock[c] = j <=> calls[j].step = "written" /\ calls[j].ref = c
        BY DEF LockIsHeldForTheRowAsItIs
    <3>2. CASE j = k
        BY <1>0, <2>1, <2>2, <3>1, <3>2
    <3>3. CASE j # k
        BY <1>0, <2>2, <2>3, <3>1, <3>3
    <3> QED
        BY <3>2, <3>3
  <2>5. \A j \in Calls : calls'[j].step = "written" =>
            /\ Matches(calls'[j], rows'[calls'[j].ref])
            /\ calls'[j].write = Effect(calls'[j], rows'[calls'[j].ref])
    <3> SUFFICES ASSUME NEW j \in Calls, calls'[j].step = "written"
                 PROVE  /\ Matches(calls'[j], rows'[calls'[j].ref])
                        /\ calls'[j].write = Effect(calls'[j], rows'[calls'[j].ref])
        OBVIOUS
    <3>1. /\ calls'[j] = calls[j] /\ calls[j].step = "written"
          /\ rows'[calls[j].ref] = rows[calls[j].ref]
        BY <2>2, <2>3
    <3> QED
        BY <3>1 DEF LockIsHeldForTheRowAsItIs
  <2> QED
    BY <2>4, <2>5 DEF LockIsHeldForTheRowAsItIs
<1>8. ASSUME NEW k \in Calls, Confirm(k) PROVE Inv'
    BY <1>1, <1>8 DEF Confirm
<1>9. ASSUME NEW k \in Calls, Explain(k) PROVE Inv'
    BY <1>1, <1>9 DEF Explain
<1>10. ASSUME NEW k \in Calls, Fail(k) PROVE Inv'
  <2>1. /\ calls'[k].step # "written"
        /\ \A j \in Calls \ {k} : calls'[j] = calls[j]
        /\ \A c \in References : lock'[c] = IF lock[c] = k THEN Unlocked ELSE lock[c]
        /\ UNCHANGED rows
    BY <1>0, <1>10 DEF Fail, Ends, Idle
  <2> QED
    BY <1>0, <2>1 DEF LockIsHeldForTheRowAsItIs, Matches, Effect
<1>11. ASSUME NEW a \in Staff, Leave(a) PROVE Inv'
    BY <1>11 DEF Leave, LockIsHeldForTheRowAsItIs, Matches, Effect
<1>12. ASSUME NEW k \in Calls, NEW a \in Staff,
              \/ Submit(k, "list", a, NoRef, NoNote)
              \/ \E c \in References : Submit(k, "claim", a, c, NoNote)
              \/ \E c \in References, n \in Notes : Submit(k, "resolve", a, c, n)
       PROVE  Inv'
  <2>1. calls[k].step # "written" /\ UNCHANGED <<rows, lock>>
    BY <1>12 DEF Submit
  <2>2. \E op \in Ops, c \in References \cup {NoRef}, n \in Notes \cup {NoNote} :
            Submit(k, op, a, c, n)
    BY <1>12 DEF Ops
  <2> QED
    BY <1>1, <2>1, <2>2
<1> QED
    BY <1>2, <1>3, <1>4, <1>5, <1>6, <1>7, <1>8, <1>9, <1>10, <1>11, <1>12 DEF DeskNext

\* A row is locked by exactly the call that has written it, and what that call
\* will commit is its SET applied to the row as it stands: nothing another call
\* committed is overwritten unread.
THEOREM DeskLocks == DeskSpec => [](DeskTyped /\ LockIsHeldForTheRowAsItIs)
<1>1. DeskInit => LockIsHeldForTheRowAsItIs
    BY NamesAssumption DEF DeskInit, LockIsHeldForTheRowAsItIs, Idle
<1>2. DeskTyped /\ UNCHANGED deskVars => DeskTyped'
    BY DEF DeskTyped, DeskTypeOK, CallsAreAimed, QueueTypeOK, deskVars
<1>3. LockIsHeldForTheRowAsItIs /\ UNCHANGED deskVars => LockIsHeldForTheRowAsItIs'
    BY DEF LockIsHeldForTheRowAsItIs, Matches, Effect, deskVars
<1> QED
    BY DeskStartsTyped, DeskStepsKeepTyped, DeskStepsKeepLocks, <1>1, <1>2, <1>3, PTL
       DEF DeskSpec

-----------------------------------------------------------------------------
(* The desk implements the queue *)

\* A commit is the queue's claim or resolve, and an insert is its open; every
\* other step leaves the table alone.
LEMMA DeskStepsAreQueueSteps ==
    ASSUME DeskTyped, LockIsHeldForTheRowAsItIs, DeskNext
    PROVE  [QueueNext]_rows
<1> USE DEF DeskTyped
<1>1. ASSUME NEW k \in Calls, Commit(k) PROVE QueueNext
  <2> DEFINE call == calls[k]
  <2>1. /\ call.step = "written" /\ call.ref \in References /\ call.agent \in Staff
        /\ call.op \in {"claim", "resolve"}
        /\ call.op = "resolve" => call.note \in Notes
    BY <1>1 DEF Commit, CallsAreAimed, DeskTypeOK, Call, Ops
  <2>2. /\ Matches(call, rows[call.ref])
        /\ rows' = [rows EXCEPT ![call.ref] = Effect(call, rows[call.ref])]
    BY <1>1, <2>1 DEF Commit, LockIsHeldForTheRowAsItIs
  <2>3. CASE call.op = "claim"
    <3>1. Claim(call.ref, call.agent)
        BY <2>2, <2>3 DEF Claim, Matches, Effect
    <3> QED
        BY <2>1, <3>1 DEF QueueNext
  <2>4. CASE call.op = "resolve"
    <3>1. Resolve(call.ref, call.agent, call.note)
        BY <2>2, <2>4 DEF Resolve, Matches, Effect
    <3> QED
        BY <2>1, <2>4, <3>1 DEF QueueNext
  <2> QED
    BY <2>1, <2>3, <2>4
<1>2. ASSUME NEW c \in References, NEW route \in AnsweredRoutes \cup NeedsSomebody,
             Arrive(c, route)
      PROVE  QueueNext
    BY <1>2 DEF Arrive, QueueNext
<1> QED
    BY <1>1, <1>2
       DEF DeskNext, Stamp, Submit, Admit, List, Update, Confirm, Explain, Fail, Leave

\* The statements, locks, commits and crashes of the desk implement the queue.
THEOREM DeskImplementsQueue == DeskSpec => QueueSpec
<1>1. DeskInit => QueueInit
    BY DEF DeskInit
<1>2. UNCHANGED deskVars => UNCHANGED rows
    BY DEF deskVars
<1> QED
    BY DeskLocks, DeskStepsAreQueueSteps, <1>1, <1>2, PTL DEF DeskSpec, QueueSpec

\* No case is half closed, whatever order calls run in and wherever they die.
THEOREM DeskAccounts == DeskSpec => []ClosedIsAccountedFor
BY DeskImplementsQueue, QueueAccounted, PTL

\* No call replaces an owner, or touches what was written on closing a case.
THEOREM DeskKeepsTheFirst == DeskSpec => FirstWriterStands
BY DeskImplementsQueue, QueueKeepsTheFirst, PTL

-----------------------------------------------------------------------------
(* What people were told *)

\* What a call that has committed has done to the row.
Done(call, row) ==
    IF call.op = "claim" THEN row.assigned_to = call.agent
    ELSE row.closed /\ row.resolved_by = call.agent /\ row.resolution = call.note

\* What a call on its way to an answer may rely on: the case exists, what it
\* could not match it still cannot, and what it did is done.
Knows(call) == call.step # "idle" /\ call.op # "list" =>
    /\ rows[call.ref].route # Absent
    /\ call.step = "missed" => ~Matches(call, rows[call.ref])
    /\ call.step = "committed" => Done(call, rows[call.ref])

\* What somebody was last told is so.
Heard(a) == notices[a].answer # "nothing" =>
    LET row == rows[notices[a].ref]
    IN  /\ notices[a].ref \in References /\ row.route # Absent
        /\ notices[a].answer = "claimed" => row.assigned_to = a
        /\ notices[a].answer = "resolved" =>
              row.closed /\ row.resolved_by = a /\ row.resolution = notices[a].note
        /\ notices[a].answer = "closed" => row.closed
        /\ notices[a].answer = "taken" => row.assigned_to # Nobody

WordIsGood == (\A k \in Calls : Knows(calls[k])) /\ (\A a \in Staff : Heard(a))

DeskInvariant == DeskTyped /\ LockIsHeldForTheRowAsItIs /\ WordIsGood

\* A row that is there only gains: a route for good, an owner for good, and
\* nothing once it is closed.
RowsOnlyGain ==
    \A c \in References : rows[c].route # Absent =>
        /\ rows'[c].route = rows[c].route
        /\ rows[c].closed => rows'[c] = rows[c]
        /\ rows[c].assigned_to # Nobody => rows'[c].assigned_to = rows[c].assigned_to

LEMMA DeskStepsOnlyGain ==
    ASSUME DeskTyped, LockIsHeldForTheRowAsItIs, DeskNext
    PROVE  RowsOnlyGain
<1>1. rows \in [References -> Row]
    BY DEF DeskTyped, DeskTypeOK, QueueTypeOK
<1>2. [QueueNext]_rows
    BY DeskStepsAreQueueSteps
<1>3. CASE UNCHANGED rows
    BY <1>3 DEF RowsOnlyGain
<1>4. ASSUME NEW d \in References, NEW route, Open(d, route) PROVE RowsOnlyGain
    BY <1>1, <1>4 DEF Open, RowsOnlyGain
<1>5. ASSUME NEW d \in References, NEW agent \in Staff, Claim(d, agent) PROVE RowsOnlyGain
    BY <1>1, <1>5 DEF Claim, Claimable, Workable, Taken, RowsOnlyGain, Row
<1>6. ASSUME NEW d \in References, NEW agent \in Staff, NEW note \in Notes,
             Resolve(d, agent, note)
      PROVE  RowsOnlyGain
    BY <1>1, <1>6 DEF Resolve, Workable, Finished, RowsOnlyGain, Row
<1> QED
    BY <1>2, <1>3, <1>4, <1>5, <1>6 DEF QueueNext

\* What a call knows, and what somebody heard, stays true of rows that gain.
LEMMA KnowledgeStands ==
    ASSUME DeskTyped, RowsOnlyGain, NEW j \in Calls, calls'[j] = calls[j], Knows(calls[j])
    PROVE  Knows(calls[j])'
<1> SUFFICES ASSUME calls[j].step # "idle", calls[j].op # "list"
             PROVE  Knows(calls[j])'
    BY DEF Knows
<1>1. /\ calls[j].ref \in References /\ rows[calls[j].ref].route # Absent
      /\ calls[j].agent \in Staff
    BY DEF DeskTyped, CallsAreAimed, Knows
<1>2. /\ rows'[calls[j].ref].route = rows[calls[j].ref].route
      /\ rows[calls[j].ref].closed => rows'[calls[j].ref] = rows[calls[j].ref]
      /\ rows[calls[j].ref].assigned_to # Nobody =>
            rows'[calls[j].ref].assigned_to = rows[calls[j].ref].assigned_to
    BY <1>1 DEF RowsOnlyGain
<1>3. ~Matches(calls[j], rows[calls[j].ref]) => ~Matches(calls[j], rows'[calls[j].ref])
    BY <1>2 DEF Matches, Claimable, Workable
<1>4. Done(calls[j], rows[calls[j].ref]) => Done(calls[j], rows'[calls[j].ref])
    BY <1>1, <1>2, PeopleAssumption DEF Done
<1> QED
    BY <1>1, <1>2, <1>3, <1>4 DEF Knows, Matches, Done

LEMMA WordStands ==
    ASSUME RowsOnlyGain, NEW a \in Staff, notices'[a] = notices[a], Heard(a)
    PROVE  Heard(a)'
BY PeopleAssumption DEF Heard, RowsOnlyGain

\* A step that tells nobody anything, and gives no call anything new to know.
LEMMA QuietStepsKeepWord ==
    ASSUME DeskInvariant, RowsOnlyGain, UNCHANGED notices,
           \A j \in Calls : \/ calls'[j] = calls[j]
                            \/ calls'[j].step = "idle" \/ calls'[j].op = "list"
                            \/ Knows(calls[j])'
    PROVE  WordIsGood'
<1>1. ASSUME NEW j \in Calls PROVE Knows(calls[j])'
    <2>1. CASE calls'[j] = calls[j]
        BY <2>1, KnowledgeStands DEF DeskInvariant, WordIsGood
    <2>2. CASE calls'[j].step = "idle" \/ calls'[j].op = "list"
        BY <2>2 DEF Knows
    <2> QED
        BY <2>1, <2>2
<1>2. ASSUME NEW a \in Staff PROVE Heard(a)'
    BY WordStands DEF DeskInvariant, WordIsGood
<1> QED
    BY <1>1, <1>2 DEF WordIsGood

\* An answer is true of the row as it is when it is given.
LEMMA AnswersAreTrue ==
    ASSUME DeskInvariant, NEW k \in Calls, Ends(k), UNCHANGED rows,
           calls[k].step # "idle", calls[k].op # "list",
           NEW answer, NEW note, Tells(k, answer, note),
           LET row == rows[calls[k].ref]
           IN  /\ answer = "claimed" => row.assigned_to = calls[k].agent
               /\ answer = "resolved" => /\ row.closed /\ row.resolved_by = calls[k].agent
                                         /\ row.resolution = note
               /\ answer = "closed" => row.closed
               /\ answer = "taken" => row.assigned_to # Nobody
    PROVE  WordIsGood'
<1>0. /\ DeskTyped /\ calls[k].ref \in References /\ rows[calls[k].ref].route # Absent
      /\ RowsOnlyGain
    BY DEF DeskInvariant, DeskTyped, CallsAreAimed, WordIsGood, Knows, RowsOnlyGain
<1>1. ASSUME NEW j \in Calls PROVE Knows(calls[j])'
    <2>1. CASE j = k
        BY <2>1 DEF Ends, Idle, Knows, DeskInvariant, DeskTyped, DeskTypeOK
    <2>2. CASE j # k
        BY <1>0, <2>2, KnowledgeStands DEF Ends, DeskInvariant, DeskTyped, DeskTypeOK, WordIsGood
    <2> QED
        BY <2>1, <2>2
<1>2. ASSUME NEW a \in Staff PROVE Heard(a)'
    <2>1. CASE notices'[a] = notices[a]
        BY <1>0, <2>1, WordStands DEF DeskInvariant, WordIsGood
    <2>2. CASE notices'[a] # notices[a]
        <3>1. /\ a = calls[k].agent
              /\ notices'[a] = [answer |-> answer, ref |-> calls[k].ref, note |-> note]
            BY <2>2 DEF Tells
        <3> QED
            BY <1>0, <3>1 DEF Heard
    <2> QED
        BY <2>1, <2>2
<1> QED
    BY <1>1, <1>2 DEF WordIsGood

\* No step of the desk makes anything untrue that somebody was told.
LEMMA DeskStepsKeepWord ==
    ASSUME DeskInvariant, DeskNext
    PROVE  WordIsGood'
<1>0. /\ DeskTyped /\ RowsOnlyGain /\ DeskTyped'
      /\ calls \in [Calls -> Call] /\ rows \in [References -> Row]
    BY DeskStepsOnlyGain, DeskStepsKeepTyped DEF DeskInvariant, DeskTyped, DeskTypeOK, QueueTypeOK
<1>1. ASSUME NEW k \in Calls, Ends(k), UNCHANGED notices PROVE WordIsGood'
    BY <1>0, <1>1, QuietStepsKeepWord DEF Ends, Idle
<1>2. ASSUME UNCHANGED <<calls, notices>> PROVE WordIsGood'
    BY <1>0, <1>2, QuietStepsKeepWord
<1>3. ASSUME NEW k \in Calls, NEW op, NEW a, NEW ref \in References \cup {NoRef}, NEW n,
             op # "list" => ref \in References, Submit(k, op, a, ref, n)
      PROVE  WordIsGood'
  <2>1. /\ calls'[k].step = "received" /\ calls'[k].op = op /\ calls'[k].ref = ref
        /\ \A j \in Calls \ {k} : calls'[j] = calls[j]
        /\ UNCHANGED <<rows, notices>>
    BY <1>0, <1>3 DEF Submit, Idle
  <2>2. op # "list" => Knows(calls[k])'
    BY <1>3, <2>1 DEF Knows, Submit
  <2> QED
    BY <1>0, <2>1, <2>2, QuietStepsKeepWord
<1>4. ASSUME NEW k \in Calls, Admit(k) PROVE WordIsGood'
  <2>1. CASE Ends(k)
    BY <1>1, <1>4, <2>1 DEF Admit
  <2>2. CASE Moves(k, "admitted")
    <3>1. /\ calls'[k].step = "admitted" /\ calls'[k].op = calls[k].op
          /\ calls'[k].ref = calls[k].ref /\ calls[k].step = "received"
          /\ \A j \in Calls \ {k} : calls'[j] = calls[j]
          /\ UNCHANGED <<rows, notices>>
        BY <1>0, <1>4, <2>2 DEF Admit, Moves, Call
    <3>2. calls[k].op # "list" => Knows(calls[k])'
        BY <3>1 DEF Knows, DeskInvariant, WordIsGood
    <3> QED
        BY <1>0, <3>1, <3>2, QuietStepsKeepWord
  <2> QED
    BY <1>4, <2>1, <2>2 DEF Admit
<1>5. ASSUME NEW k \in Calls, Update(k) PROVE WordIsGood'
  <2>1. /\ calls[k].ref \in References /\ rows[calls[k].ref].route # Absent
        /\ UNCHANGED <<rows, notices>>
    BY <1>5 DEF Update, DeskInvariant, DeskTyped, CallsAreAimed, WordIsGood, Knows
  <2>2. CASE Matches(calls[k], rows[calls[k].ref])
    <3>1. /\ calls'[k].step = "written" /\ calls'[k].ref = calls[k].ref
          /\ \A j \in Calls \ {k} : calls'[j] = calls[j]
        BY <1>0, <1>5, <2>2 DEF Update, Call
    <3>2. Knows(calls[k])'
        BY <2>1, <3>1 DEF Knows
    <3> QED
        BY <1>0, <2>1, <3>1, <3>2, QuietStepsKeepWord
  <2>3. CASE ~Matches(calls[k], rows[calls[k].ref])
    <3>1. /\ calls'[k].step = "missed" /\ calls'[k].ref = calls[k].ref
          /\ calls'[k].op = calls[k].op
          /\ \A j \in Calls \ {k} : calls'[j] = calls[j]
        BY <1>0, <1>5, <2>3 DEF Update, Moves, Call
    <3>2. ~Matches(calls'[k], rows'[calls'[k].ref])
        BY <2>1, <2>3, <3>1 DEF Matches
    <3>3. Knows(calls[k])'
        BY <2>1, <3>1, <3>2 DEF Knows, Matches
    <3> QED
        BY <1>0, <2>1, <3>1, <3>3, QuietStepsKeepWord
  <2> QED
    BY <2>2, <2>3
<1>6. ASSUME NEW k \in Calls, Commit(k) PROVE WordIsGood'
  <2> DEFINE call == calls[k]
  <2>1. /\ call.step = "written" /\ call.ref \in References /\ call.op \in {"claim", "resolve"}
        /\ rows[call.ref].route # Absent /\ rows[call.ref] \in Row
        /\ call.write = Effect(call, rows[call.ref])
    BY <1>0, <1>6
       DEF Commit, DeskInvariant, DeskTyped, CallsAreAimed, WordIsGood, Knows,
           LockIsHeldForTheRowAsItIs, Call, Ops
  <2>2. /\ calls'[k].step = "committed" /\ calls'[k].op = call.op /\ calls'[k].ref = call.ref
        /\ calls'[k].agent = call.agent /\ calls'[k].note = call.note
        /\ \A j \in Calls \ {k} : calls'[j] = calls[j]
        /\ rows'[call.ref] = Effect(call, rows[call.ref])
        /\ UNCHANGED notices
    BY <1>0, <1>6, <2>1 DEF Commit, Moves, Call
  <2>3. rows'[call.ref].route # Absent
    BY <1>0, <2>1 DEF RowsOnlyGain
  <2>4. Done(calls'[k], rows'[calls'[k].ref])
    BY <2>1, <2>2 DEF Done, Effect, Taken, Finished, Row
  <2>5. Knows(calls[k])'
    BY <2>2, <2>3, <2>4 DEF Knows, Done
  <2> QED
    BY <1>0, <2>2, <2>5, QuietStepsKeepWord
<1>7. ASSUME NEW k \in Calls, Confirm(k) PROVE WordIsGood'
  <2>1. /\ calls[k].step = "committed" /\ calls[k].op \in {"claim", "resolve"}
        /\ Done(calls[k], rows[calls[k].ref]) /\ Ends(k) /\ UNCHANGED rows
    BY <1>0, <1>7
       DEF Confirm, DeskInvariant, DeskTyped, CallsAreAimed, WordIsGood, Knows, Call, Ops
  <2>2. CASE calls[k].op = "claim"
    BY <1>7, <2>1, <2>2, AnswersAreTrue DEF Confirm, Done
  <2>3. CASE calls[k].op = "resolve"
    BY <1>7, <2>1, <2>3, AnswersAreTrue DEF Confirm, Done
  <2> QED
    BY <2>1, <2>2, <2>3
<1>8. ASSUME NEW k \in Calls, Explain(k) PROVE WordIsGood'
  <2> DEFINE row    == rows[calls[k].ref]
             answer == Explanation(calls[k].op, row)
  <2>1. /\ calls[k].step = "missed" /\ calls[k].op \in {"claim", "resolve"}
        /\ ~Matches(calls[k], row) /\ Ends(k) /\ UNCHANGED rows
    BY <1>0, <1>8
       DEF Explain, DeskInvariant, DeskTyped, CallsAreAimed, WordIsGood, Knows, Call, Ops
  <2>2. row \in Row
    BY <1>8, EffectIsARow DEF Explain, DeskInvariant, DeskTyped, CallsAreAimed
  <2>3. /\ answer \in {"missing", "closed", "taken"}
        /\ answer = "closed" => row.closed
        /\ answer = "taken" => row.assigned_to # Nobody
    BY <2>1, <2>2 DEF Explanation, Matches, Claimable, Workable, Row
  <2> HIDE DEF answer, row
  <2>4. CASE answer = "missing"
    BY <1>1, <1>8, <2>1, <2>4 DEF Explain, answer, row
  <2>5. CASE answer # "missing"
    <3>1. Tells(k, answer, NoNote)
        BY <1>8, <2>5 DEF Explain, answer, row
    <3> QED
        BY <2>1, <2>3, <2>5, <3>1, AnswersAreTrue DEF row
  <2> QED
    BY <2>4, <2>5
<1>9. ASSUME NEW k \in Calls, NEW a \in Staff,
             \/ Submit(k, "list", a, NoRef, NoNote)
             \/ \E c \in References : Submit(k, "claim", a, c, NoNote)
             \/ \E c \in References, n \in Notes : Submit(k, "resolve", a, c, n)
      PROVE  WordIsGood'
    BY <1>3, <1>9
<1> QED
    BY <1>1, <1>2, <1>4, <1>5, <1>6, <1>7, <1>8, <1>9
       DEF DeskNext, Stamp, Arrive, List, Fail, Leave

\* What calls hold, know and have told people agrees with the table.
THEOREM DeskInforms == DeskSpec => []DeskInvariant
<1>1. DeskInit => WordIsGood
    BY DEF DeskInit, WordIsGood, Knows, Heard, Idle, NotTold
<1>2. WordIsGood /\ UNCHANGED deskVars => WordIsGood'
    BY DEF WordIsGood, Knows, Heard, Matches, Done, deskVars
<1>3. DeskTyped /\ LockIsHeldForTheRowAsItIs /\ WordIsGood /\ DeskNext => WordIsGood'
    BY DeskStepsKeepWord DEF DeskInvariant
<1>4. DeskTyped /\ LockIsHeldForTheRowAsItIs /\ WordIsGood => DeskInvariant
    BY DEF DeskInvariant
<1> QED
    BY DeskLocks, <1>1, <1>2, <1>3, <1>4, PTL DEF DeskSpec

\* Whoever was told that a case is theirs has it, and nobody else was told so.
THEOREM ClaimsAreKept == DeskSpec => []ClaimedMeansYours
<1>1. DeskInvariant => ClaimedMeansYours
    BY DEF DeskInvariant, WordIsGood, Heard, ClaimedMeansYours
<1> QED
    BY <1>1, DeskInforms, PTL

\* Whoever was told that a case is finished is named in it, with their words.
THEOREM ResolutionsAreKept == DeskSpec => []ResolvedMeansRecorded
<1>1. DeskInvariant => ResolvedMeansRecorded
    BY DEF DeskInvariant, WordIsGood, Heard, ResolvedMeansRecorded
<1> QED
    BY <1>1, DeskInforms, PTL

\* The reason given with a 409 is true, and stays so.
THEOREM ReasonsAreTrue == DeskSpec => []RefusalsAreTrue
<1>1. DeskInvariant => RefusalsAreTrue
    BY DEF DeskInvariant, WordIsGood, Heard, RefusalsAreTrue
<1> QED
    BY <1>1, DeskInforms, PTL

=============================================================================
