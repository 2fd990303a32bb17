--------------------------- MODULE AccountsProofs ---------------------------
(***************************************************************************)
(* Any number of accounts, API tokens, calls and deaths: a name has one     *)
(* owner, what people were told stays true, and no late write undoes what   *)
(* was done meanwhile.                                                      *)
(***************************************************************************)
EXTENDS Accounts, TLAPS

-----------------------------------------------------------------------------
(* The invariant *)

\* A password opens the account, or the seed has taken the account over.
Fits(i, password) == users[i].hash.of = password \/ users[i].linked

\* The account is what the seed printed.
Shows(i) == users[i].linked /\ (users[i].hash.of = DemoPassword \/ overtaken)

\* What a call carries, whatever is in the tables.
Aimed(c) == c.step # "idle" =>
    /\ AboutUsers(c) => c.name \in Names /\ c.password \in Passwords
    /\ c.op = "seed" => c.name = DemoName /\ c.password = DemoPassword
    /\ c.op = "signup" \/ c.step = "received" => c.row = "new"
    /\ c.op = "login" /\ c.step # "received" =>
           c.row = "old" /\ c.step # "committed" /\ c.hash.of = c.password
    /\ c.op # "login" => c.hash = NoHash
    /\ c.op = "issue" => c.id \in Ids
    /\ c.op = "use" => c.key \in Keys

\* A call about an account found it, or found nobody of the name; and what it
\* has in hand is still so.
AtUsers(c) == AboutUsers(c) =>
    /\ (c.step \in {"read", "written"} /\ c.row = "old") \/ c.step = "committed" =>
           c.id \in Named(c.name)
    /\ c.step = "written" /\ c.row = "new" =>
           c.id \in Ids \ There /\ Named(c.name) = {}
    /\ c.op = "login" /\ c.step \in {"read", "written"} => Fits(c.id, c.password)
    /\ c.op = "signup" /\ c.step = "committed" => Fits(c.id, c.password)
    /\ c.op = "seed" /\ c.step = "committed" => Shows(c.id)

\* A call about a token has one that was made, or draws one that was not.
AtKeys(c) ==
    /\ c.op = "use" /\ c.step # "idle" => keys[c.key].owner # NoId
    /\ c.op = "use" /\ c.step = "received" /\ c.late => Over(c.key)
    /\ c.op = "use" /\ c.step \in {"read", "written", "committed"} => ~c.late
    /\ c.op = "use" /\ c.step = "committed" => keys[c.key].used
    /\ c.op = "issue" /\ c.step = "written" => c.key \in Keys /\ keys[c.key].owner = NoId
    /\ c.op = "issue" /\ c.step = "committed" => c.key \in Keys /\ keys[c.key].owner # NoId

\* Two calls do not write one row, insert one name, or welcome one account.
Clear(c, d) ==
    /\ c.step = "written" /\ d.step = "written" /\ AboutUsers(c) /\ AboutUsers(d) =>
           c.id # d.id /\ (c.row = "new" /\ d.row = "new" => c.name # d.name)
    /\ c.step = "written" /\ d.step = "written" /\ ~AboutUsers(c) /\ ~AboutUsers(d) =>
           c.key # d.key
    /\ c.step = "committed" /\ d.step = "committed" /\ c.op = "signup" /\ d.op = "signup" =>
           c.id # d.id

CallsHold ==
    /\ calls \in [Calls -> Call]
    /\ \A k \in Calls : Aimed(calls[k]) /\ AtUsers(calls[k]) /\ AtKeys(calls[k])
    /\ \A j, k \in Calls : j # k => Clear(calls[j], calls[k])

TablesHold ==
    /\ users \in [Ids -> User]
    /\ keys \in [Keys -> Key]
    /\ overtaken \in BOOLEAN
    /\ OneAccountPerName

\* What people were told.
WordHolds ==
    /\ welcomed \subseteq [id : Ids, name : Names, password : Passwords]
    /\ \A w \in welcomed : w.id \in Named(w.name) /\ Fits(w.id, w.password)
    /\ \A v, w \in welcomed : v.id = w.id => v = w
    /\ \A w \in welcomed, k \in Calls :
           calls[k].op = "signup" /\ calls[k].step = "committed" => calls[k].id # w.id
    /\ conflicts \subseteq Names /\ ConflictsAreTrue
    /\ seeded \in BOOLEAN
    /\ seeded => \E i \in Named(DemoName) : Shows(i)
    /\ issued \subseteq Keys /\ expired \subseteq Keys /\ answered \subseteq Keys
    /\ \A t \in issued : keys[t].owner # NoId
    /\ \A t \in answered : keys[t].owner # NoId /\ keys[t].used
    /\ failures \in Nat

AccountsInvariant == TablesHold /\ CallsHold /\ WordHolds

-----------------------------------------------------------------------------
(* Calls that leave the tables alone *)

LEMMA IdleHolds ==
    /\ Idle \in Call /\ Idle.step = "idle"
    /\ Aimed(Idle) /\ AtUsers(Idle) /\ AtKeys(Idle)
    /\ \A c : Clear(Idle, c) /\ Clear(c, Idle)
BY DEF Idle, Call, Ops, Steps, Hash, NoHash, NewHash, Aimed, AtUsers, AtKeys, Clear, AboutUsers

\* One call is another now, the tables are what they were.
LEMMA OneCallChanges ==
    ASSUME CallsHold, NEW k \in Calls, NEW c \in Call,
           calls' = [calls EXCEPT ![k] = c],
           UNCHANGED <<users, keys, expired, overtaken>>,
           Aimed(c), AtUsers(c), AtKeys(c),
           \A j \in Calls \ {k} : Clear(calls[j], c) /\ Clear(c, calls[j])
    PROVE  CallsHold'
<1>1. calls' \in [Calls -> Call]
    BY DEF CallsHold
<1>2. \A j \in Calls : calls'[j] = IF j = k THEN c ELSE calls[j]
    BY DEF CallsHold
<1>3. \A j \in Calls : Aimed(calls'[j])
    BY <1>2 DEF CallsHold
<1>4. ASSUME NEW j \in Calls PROVE AtUsers(calls[j])' /\ AtKeys(calls[j])'
    <2>1. AtUsers(calls'[j]) /\ AtKeys(calls'[j])
        BY <1>2 DEF CallsHold
    <2>2. QED
        BY <2>1 DEF AtUsers, AtKeys, Named, There, Fits, Shows, Over, AboutUsers
<1>5. \A i, j \in Calls : i # j => Clear(calls'[i], calls'[j])
    BY <1>2 DEF CallsHold
<1>6. QED
    BY <1>1, <1>3, <1>4, <1>5 DEF CallsHold, Aimed, Clear, AboutUsers

LEMMA OneCallEnds ==
    ASSUME CallsHold, NEW k \in Calls, Ends(k), UNCHANGED <<users, keys, expired, overtaken>>
    PROVE  CallsHold'
BY IdleHolds, OneCallChanges DEF Ends

\* A call that only moves on.
LEMMA MovedOn ==
    ASSUME CallsHold, NEW k \in Calls, NEW step \in Steps, Moves(k, step)
    PROVE  /\ calls' = [calls EXCEPT ![k] = [calls[k] EXCEPT !.step = step]]
           /\ [calls[k] EXCEPT !.step = step] \in Call
BY DEF Moves, CallsHold, Call

\* What arrives is aimed at somebody, or at a token that was issued, and knows
\* whether it is late.
LEMMA SubmitKeepsCalls ==
    ASSUME AccountsInvariant, NEW k \in Calls, NEW c \in Call, Submit(k, c),
           c.row = "new", c.hash = NoHash,
           AboutUsers(c) => c.name \in Names /\ c.password \in Passwords,
           c.op = "seed" => c.name = DemoName /\ c.password = DemoPassword,
           c.op = "issue" => c.id \in Ids,
           c.op = "use" => c.key \in issued /\ c.late = Over(c.key)
    PROVE  CallsHold' /\ calls'[k].step = "received"
<1> DEFINE new == [c EXCEPT !.step = "received"]
<1>1. /\ new \in Call /\ new.step = "received" /\ new.op = c.op /\ new.name = c.name
      /\ new.password = c.password /\ new.id = c.id /\ new.key = c.key /\ new.hash = c.hash
      /\ new.row = c.row /\ new.late = c.late
    BY DEF Call, Steps
<1>2. calls' = [calls EXCEPT ![k] = new] /\ UNCHANGED <<users, keys, expired, overtaken>>
    BY DEF Submit
<1> HIDE DEF new
<1>3. Aimed(new)
    BY <1>1 DEF Aimed, AboutUsers, AccountsInvariant, WordHolds
<1>4. AtUsers(new)
    BY <1>1 DEF AtUsers, AboutUsers
<1>5. AtKeys(new)
    BY <1>1 DEF AtKeys, AccountsInvariant, WordHolds
<1>6. \A j \in Calls : Clear(calls[j], new) /\ Clear(new, calls[j])
    BY <1>1 DEF Clear
<1>7. calls'[k].step = "received"
    BY <1>1, <1>2 DEF AccountsInvariant, CallsHold
<1>8. QED
    BY <1>1, <1>2, <1>3, <1>4, <1>5, <1>6, <1>7, OneCallChanges DEF AccountsInvariant

LEMMA ArrivesKeepsCalls ==
    ASSUME AccountsInvariant, NEW k \in Calls, Arrives(k)
    PROVE  CallsHold' /\ calls'[k].step = "received"
<1>1. /\ Idle \in Call /\ Idle.row = "new" /\ Idle.hash = NoHash
    BY DEF Idle, Call, Ops, Steps, Hash, NoHash, NewHash
<1>2. ASSUME NEW op \in {"signup", "login"}, NEW n \in Names, NEW p \in Passwords,
             Submit(k, [Idle EXCEPT !.op = op, !.name = n, !.password = p])
      PROVE  CallsHold' /\ calls'[k].step = "received"
    <2> DEFINE c == [Idle EXCEPT !.op = op, !.name = n, !.password = p]
    <2>1. /\ c \in Call /\ c.row = "new" /\ c.hash = NoHash /\ c.op = op
          /\ c.name = n /\ c.password = p
        BY <1>1 DEF Call, Ops
    <2> HIDE DEF c
    <2>2. QED BY <1>2, <2>1, SubmitKeepsCalls DEF c
<1>3. ASSUME Submit(k, [Idle EXCEPT !.op = "seed", !.name = DemoName, !.password = DemoPassword])
      PROVE  CallsHold' /\ calls'[k].step = "received"
    <2> DEFINE c == [Idle EXCEPT !.op = "seed", !.name = DemoName, !.password = DemoPassword]
    <2>1. /\ c \in Call /\ c.row = "new" /\ c.hash = NoHash /\ c.op = "seed"
          /\ c.name = DemoName /\ c.password = DemoPassword
        BY <1>1, AccountsAssumption DEF Call, Ops
    <2> HIDE DEF c
    <2>2. QED BY <1>3, <2>1, AccountsAssumption, SubmitKeepsCalls DEF c
<1>4. ASSUME NEW i \in There, Submit(k, [Idle EXCEPT !.op = "issue", !.id = i])
      PROVE  CallsHold' /\ calls'[k].step = "received"
    <2> DEFINE c == [Idle EXCEPT !.op = "issue", !.id = i]
    <2>1. /\ c \in Call /\ c.row = "new" /\ c.hash = NoHash /\ c.op = "issue"
          /\ c.id \in Ids
        BY <1>1 DEF Call, Ops, There
    <2> HIDE DEF c
    <2>2. QED BY <1>4, <2>1, SubmitKeepsCalls DEF c, AboutUsers
<1>5. ASSUME NEW t \in issued, Submit(k, [Idle EXCEPT !.op = "use", !.key = t, !.late = Over(t)])
      PROVE  CallsHold' /\ calls'[k].step = "received"
    <2> DEFINE c == [Idle EXCEPT !.op = "use", !.key = t, !.late = Over(t)]
    <2>0. Over(t) \in BOOLEAN
        BY DEF Over, AccountsInvariant, TablesHold, WordHolds, Key
    <2>1. /\ c \in Call /\ c.row = "new" /\ c.hash = NoHash /\ c.op = "use"
          /\ c.key = t /\ c.late = Over(t)
        BY <1>1, <2>0 DEF Call, Ops, AccountsInvariant, WordHolds
    <2> HIDE DEF c
    <2>2. QED BY <1>5, <2>1, SubmitKeepsCalls DEF c, AboutUsers
<1>6. QED
    BY <1>2, <1>3, <1>4, <1>5 DEF Arrives

\* A call that has only read is in nobody's way.
LEMMA OneCallReads ==
    ASSUME CallsHold, NEW k \in Calls, NEW c \in Call, c.step = "read",
           calls' = [calls EXCEPT ![k] = c],
           UNCHANGED <<users, keys, expired, overtaken>>,
           Aimed(c), AtUsers(c), AtKeys(c)
    PROVE  CallsHold'
<1>1. \A j \in Calls : Clear(calls[j], c) /\ Clear(c, calls[j])
    BY DEF Clear
<1>2. QED
    BY <1>1, OneCallChanges

\* The reads.
LEMMA FindsKeepCalls ==
    ASSUME AccountsInvariant, NEW k \in Calls,
           FindTaken(k) \/ FindDemo(k) \/ FindOwner(k) \/ FindKey(k) \/ Authenticate(k)
    PROVE  CallsHold'
<1>0. /\ CallsHold /\ calls[k] \in Call /\ Aimed(calls[k]) /\ AtKeys(calls[k])
      /\ UNCHANGED <<users, keys, expired, overtaken>> /\ calls[k].step = "received"
    BY DEF AccountsInvariant, CallsHold, FindTaken, FindDemo, FindOwner, FindKey, Authenticate
<1>1. CASE Ends(k)
    BY <1>0, <1>1, OneCallEnds
<1>2. CASE Moves(k, "read") /\ (FindTaken(k) \/ FindDemo(k) \/ FindOwner(k))
    <2> DEFINE new == [calls[k] EXCEPT !.step = "read"]
    <2>1. /\ new \in Call /\ calls' = [calls EXCEPT ![k] = new]
          /\ new.step = "read" /\ new.op = calls[k].op /\ new.name = calls[k].name
          /\ new.password = calls[k].password /\ new.id = calls[k].id /\ new.key = calls[k].key
          /\ new.hash = calls[k].hash /\ new.row = calls[k].row /\ new.late = calls[k].late
        BY <1>0, <1>2, MovedOn, ZenonT(30) DEF Steps, Call
    <2>2. calls[k].op \in {"signup", "seed", "issue"}
        BY <1>2 DEF FindTaken, FindDemo, FindOwner
    <2> HIDE DEF new
    <2>3. Aimed(new)
        BY <1>0, <2>1, <2>2 DEF Aimed, AboutUsers
    <2>4. AtUsers(new)
        BY <1>0, <2>1, <2>2 DEF Aimed, AtUsers, AboutUsers
    <2>5. AtKeys(new)
        BY <2>1, <2>2 DEF AtKeys
    <2>6. QED
        BY <1>0, <2>1, <2>3, <2>4, <2>5, OneCallReads
<1>3. ASSUME FindDemo(k), NEW i \in Named(DemoName),
             calls' = [calls EXCEPT ![k].id = i, ![k].row = "old", ![k].step = "read"]
      PROVE  CallsHold'
    <2> DEFINE new == [calls[k] EXCEPT !.id = i, !.row = "old", !.step = "read"]
    <2>1. /\ new \in Call /\ calls' = [calls EXCEPT ![k] = new]
          /\ new.step = "read" /\ new.op = "seed" /\ new.name = calls[k].name
          /\ new.password = calls[k].password /\ new.id = i
          /\ new.hash = calls[k].hash /\ new.row = "old" /\ calls[k].op = "seed"
        BY <1>0, <1>3 DEF FindDemo, Named, Call, Steps, CallsHold
    <2> HIDE DEF new
    <2>3. Aimed(new)
        BY <1>0, <2>1 DEF Aimed, AboutUsers
    <2>4. AtUsers(new)
        BY <1>0, <2>1 DEF Aimed, AtUsers, AboutUsers
    <2>5. AtKeys(new)
        BY <2>1 DEF AtKeys
    <2>6. QED
        BY <1>0, <2>1, <2>3, <2>4, <2>5, OneCallReads
<1>4. ASSUME FindKey(k), Usable(calls[k].key),
             calls' = [calls EXCEPT ![k].step = "read", ![k].row = "old"]
      PROVE  CallsHold'
    <2> DEFINE new == [calls[k] EXCEPT !.step = "read", !.row = "old"]
    <2>1. /\ new \in Call /\ calls' = [calls EXCEPT ![k] = new]
          /\ new.step = "read" /\ new.op = "use" /\ new.key = calls[k].key
          /\ new.hash = calls[k].hash /\ new.late = calls[k].late /\ calls[k].op = "use"
        BY <1>0, <1>4 DEF FindKey, Call, Steps, CallsHold
    <2> HIDE DEF new
    <2>2. ~calls[k].late
        BY <1>0, <1>4 DEF AtKeys, FindKey, Usable, Over
    <2>3. Aimed(new)
        BY <1>0, <2>1 DEF Aimed, AboutUsers
    <2>4. AtUsers(new)
        BY <2>1 DEF AtUsers, AboutUsers
    <2>5. AtKeys(new)
        BY <1>0, <2>1, <2>2 DEF AtKeys
    <2>6. QED
        BY <1>0, <2>1, <2>3, <2>4, <2>5, OneCallReads
<1>5. ASSUME Authenticate(k), NEW i \in Named(calls[k].name),
             users[i].hash.of = calls[k].password,
             calls' = [calls EXCEPT ![k].step = "read", ![k].row = "old",
                                    ![k].id = i, ![k].hash = users[i].hash]
      PROVE  CallsHold'
    <2> DEFINE new == [calls[k] EXCEPT !.step = "read", !.row = "old",
                                       !.id = i, !.hash = users[i].hash]
    <2>1. users[i].hash \in Hash /\ i \in Ids
        BY DEF AccountsInvariant, TablesHold, User, Named
    <2>2. /\ new \in Call /\ calls' = [calls EXCEPT ![k] = new]
          /\ new.step = "read" /\ new.op = "login" /\ new.name = calls[k].name
          /\ new.password = calls[k].password /\ new.id = i
          /\ new.hash = users[i].hash /\ new.row = "old" /\ calls[k].op = "login"
        BY <1>0, <1>5, <2>1 DEF Authenticate, Call, Steps, CallsHold
    <2> HIDE DEF new
    <2>3. Aimed(new)
        BY <1>0, <1>5, <2>2 DEF Aimed, AboutUsers
    <2>4. AtUsers(new)
        BY <1>5, <2>2 DEF AtUsers, AboutUsers, Fits
    <2>5. AtKeys(new)
        BY <2>2 DEF AtKeys
    <2>6. QED
        BY <1>0, <2>2, <2>3, <2>4, <2>5, OneCallReads
<1>6. QED
    BY <1>1, <1>2, <1>3, <1>4, <1>5 DEF FindTaken, FindDemo, FindOwner, FindKey, Authenticate

\* What the index says is about the names that are there or being written.
LEMMA InsertingSays ==
    ASSUME NEW name
    PROVE  /\ Inserting(name) = "inserts" => ~NameHeld(name) /\ Named(name) = {}
           /\ Inserting(name) = "collides" => Named(name) # {}
<1>1. CASE NameHeld(name)
    BY <1>1 DEF Inserting
<1>2. CASE ~NameHeld(name) /\ Named(name) # {}
    BY <1>2 DEF Inserting
<1>3. CASE ~NameHeld(name) /\ Named(name) = {}
    BY <1>3 DEF Inserting
<1>4. QED
    BY <1>1, <1>2, <1>3

\* The row that is inserted has an id and a name of its own.
LEMMA InsertUserKeepsCalls ==
    ASSUME AccountsInvariant, NEW k \in Calls, InsertUser(k)
    PROVE  CallsHold'
<1>0. /\ CallsHold /\ calls[k] \in Call /\ Aimed(calls[k])
      /\ UNCHANGED <<users, keys, expired, overtaken>>
      /\ calls[k].step = "read" /\ AboutUsers(calls[k]) /\ calls[k].row = "new"
    BY DEF AccountsInvariant, CallsHold, InsertUser
<1>1. CASE Ends(k)
    BY <1>0, <1>1, OneCallEnds
<1>2. ASSUME Inserting(calls[k].name) = "inserts", NEW i \in Ids, NextId(i),
             calls' = [calls EXCEPT ![k].id = i, ![k].step = "written"]
      PROVE  CallsHold'
    <2> DEFINE new == [calls[k] EXCEPT !.id = i, !.step = "written"]
    <2>1. /\ new \in Call /\ calls' = [calls EXCEPT ![k] = new]
          /\ new.step = "written" /\ new.op = calls[k].op /\ new.name = calls[k].name
          /\ new.password = calls[k].password /\ new.id = i
          /\ new.hash = calls[k].hash /\ new.row = "new"
        BY <1>0, <1>2 DEF Call, Steps, CallsHold
    <2> HIDE DEF new
    <2>2. i \in Ids \ There /\ ~UserHeld(i) /\ ~NameHeld(new.name) /\ Named(new.name) = {}
        BY <1>2, <2>1, InsertingSays DEF NextId
    <2>3. new.op \in {"signup", "seed"}
        BY <1>0, <2>1 DEF Aimed, AboutUsers
    <2>4. Aimed(new)
        BY <1>0, <2>1, <2>3 DEF Aimed, AboutUsers
    <2>5. AtUsers(new)
        BY <2>1, <2>2, <2>3 DEF AtUsers
    <2>6. AtKeys(new)
        BY <2>3 DEF AtKeys
    <2>7. ASSUME NEW j \in Calls PROVE Clear(calls[j], new) /\ Clear(new, calls[j])
        BY <2>1, <2>2, <2>3 DEF Clear, UserHeld, NameHeld, Writing, AboutUsers
    <2>8. QED
        BY <1>0, <2>1, <2>4, <2>5, <2>6, <2>7, OneCallChanges
<1>3. QED
    BY <1>1, <1>2 DEF InsertUser

\* An UPDATE waits for the row.
LEMMA UpdateUserKeepsCalls ==
    ASSUME AccountsInvariant, NEW k \in Calls, UpdateUser(k)
    PROVE  CallsHold'
<1>0. /\ CallsHold /\ calls[k] \in Call /\ Aimed(calls[k]) /\ AtUsers(calls[k])
      /\ UNCHANGED <<users, keys, expired, overtaken>>
      /\ calls[k].step = "read" /\ AboutUsers(calls[k]) /\ calls[k].row = "old"
      /\ ~UserHeld(calls[k].id) /\ Moves(k, "written")
    BY DEF AccountsInvariant, CallsHold, UpdateUser
<1> DEFINE new == [calls[k] EXCEPT !.step = "written"]
<1>1. /\ new \in Call /\ calls' = [calls EXCEPT ![k] = new]
      /\ new.step = "written" /\ new.op = calls[k].op /\ new.name = calls[k].name
      /\ new.password = calls[k].password /\ new.id = calls[k].id
      /\ new.hash = calls[k].hash /\ new.row = "old"
    BY <1>0, MovedOn, ZenonT(30) DEF Call, Steps
<1> HIDE DEF new
<1>2. Aimed(new)
    BY <1>0, <1>1 DEF Aimed, AboutUsers
<1>3. AtUsers(new)
    BY <1>0, <1>1 DEF AtUsers, AboutUsers
<1>4. AtKeys(new)
    BY <1>0, <1>1 DEF AtKeys, AboutUsers
<1>5. ASSUME NEW j \in Calls PROVE Clear(calls[j], new) /\ Clear(new, calls[j])
    BY <1>0, <1>1 DEF Clear, UserHeld, Writing, AboutUsers
<1>6. QED
    BY <1>0, <1>1, <1>2, <1>3, <1>4, <1>5, OneCallChanges

LEMMA InsertKeyKeepsCalls ==
    ASSUME AccountsInvariant, NEW k \in Calls, InsertKey(k)
    PROVE  CallsHold'
<1>0. /\ CallsHold /\ calls[k] \in Call /\ Aimed(calls[k])
      /\ UNCHANGED <<users, keys, expired, overtaken>>
      /\ calls[k].step = "read" /\ calls[k].op = "issue"
    BY DEF AccountsInvariant, CallsHold, InsertKey
<1>1. PICK t \in Keys : /\ keys[t].owner = NoId /\ ~KeyHeld(t)
                        /\ calls' = [calls EXCEPT ![k].key = t, ![k].step = "written"]
    BY DEF InsertKey
<1> DEFINE new == [calls[k] EXCEPT !.key = t, !.step = "written"]
<1>2. /\ new \in Call /\ calls' = [calls EXCEPT ![k] = new]
      /\ new.step = "written" /\ new.op = "issue" /\ new.id = calls[k].id
      /\ new.hash = calls[k].hash /\ new.key = t
    BY <1>0, <1>1 DEF Call, Steps, CallsHold
<1> HIDE DEF new
<1>3. Aimed(new)
    BY <1>0, <1>2 DEF Aimed, AboutUsers
<1>4. AtUsers(new)
    BY <1>2 DEF AtUsers, AboutUsers
<1>5. AtKeys(new)
    BY <1>1, <1>2 DEF AtKeys
<1>6. ASSUME NEW j \in Calls PROVE Clear(calls[j], new) /\ Clear(new, calls[j])
    BY <1>1, <1>2 DEF Clear, KeyHeld, Writing, AboutUsers
<1>7. QED
    BY <1>0, <1>2, <1>3, <1>4, <1>5, <1>6, OneCallChanges

LEMMA UpdateKeyKeepsCalls ==
    ASSUME AccountsInvariant, NEW k \in Calls, UpdateKey(k)
    PROVE  CallsHold'
<1>0. /\ CallsHold /\ calls[k] \in Call /\ Aimed(calls[k]) /\ AtKeys(calls[k])
      /\ UNCHANGED <<users, keys, expired, overtaken>>
      /\ calls[k].step = "read" /\ calls[k].op = "use"
      /\ ~KeyHeld(calls[k].key) /\ Moves(k, "written")
    BY DEF AccountsInvariant, CallsHold, UpdateKey
<1> DEFINE new == [calls[k] EXCEPT !.step = "written"]
<1>1. /\ new \in Call /\ calls' = [calls EXCEPT ![k] = new]
      /\ new.step = "written" /\ new.op = "use" /\ new.key = calls[k].key
      /\ new.hash = calls[k].hash /\ new.late = calls[k].late
    BY <1>0, MovedOn, ZenonT(30) DEF Call, Steps
<1> HIDE DEF new
<1>2. Aimed(new)
    BY <1>0, <1>1 DEF Aimed, AboutUsers
<1>3. AtUsers(new)
    BY <1>1 DEF AtUsers, AboutUsers
<1>4. AtKeys(new)
    BY <1>0, <1>1 DEF AtKeys
<1>5. ASSUME NEW j \in Calls PROVE Clear(calls[j], new) /\ Clear(new, calls[j])
    BY <1>0, <1>1 DEF Clear, KeyHeld, Writing, AboutUsers
<1>6. QED
    BY <1>0, <1>1, <1>2, <1>3, <1>4, <1>5, OneCallChanges

-----------------------------------------------------------------------------
(* Steps that write the tables *)

\* Rows stay what they are wherever a call or somebody's word depends on it.
RowsKept ==
    /\ \A i \in There : /\ users'[i].name = users[i].name
                        /\ users[i].linked => users'[i].linked
                        /\ ~users[i].active => ~users'[i].active
                        /\ \A p \in Passwords : Fits(i, p) => Fits(i, p)'
                        /\ Shows(i) => Shows(i)'
    /\ \A t \in Keys : keys[t].owner # NoId =>
                          /\ keys'[t].owner = keys[t].owner
                          /\ keys[t].used => keys'[t].used
                          /\ keys[t].revoked => keys'[t].revoked
    /\ expired \subseteq expired' /\ expired' \subseteq Keys

LEMMA NothingWritten ==
    ASSUME AccountsInvariant, UNCHANGED <<users, keys, expired, overtaken>>
    PROVE  RowsKept
BY DEF RowsKept, Fits, Shows, AccountsInvariant, WordHolds

\* An account keeps its name.
LEMMA NamesKept ==
    ASSUME RowsKept, NEW n \in Names, NEW i \in Named(n)
    PROVE  i \in There /\ i \in Named(n)'
BY AccountsAssumption DEF RowsKept, Named, There

\* A token that was over stays so.
LEMMA OverKept ==
    ASSUME RowsKept, NEW t \in Keys, keys[t].owner # NoId, Over(t)
    PROVE  Over(t)'
<1>1. keys'[t].owner = keys[t].owner
    BY DEF RowsKept
<1>2. CASE keys[t].revoked \/ t \in expired
    BY <1>2 DEF RowsKept, Over
<1>3. CASE keys[t].owner \in There /\ ~users[keys[t].owner].active
    <2>1. /\ keys[t].owner \in Ids /\ users[keys[t].owner].name # NoName
          /\ users'[keys[t].owner].name = users[keys[t].owner].name
          /\ ~users'[keys[t].owner].active
        BY <1>3 DEF RowsKept, There
    <2>2. QED
        BY <1>1, <2>1 DEF Over, There
<1>4. QED
    BY <1>2, <1>3 DEF Over

\* What the other calls have in hand is still so, if nobody inserts what they
\* are inserting.
LEMMA OthersStand ==
    ASSUME AccountsInvariant, RowsKept, NEW j \in Calls, calls'[j] = calls[j],
           calls[j].step = "written" /\ AboutUsers(calls[j]) /\ calls[j].row = "new" =>
               calls[j].id \notin There' /\ Named(calls[j].name)' = {},
           calls[j].step = "written" /\ calls[j].op = "issue" => keys'[calls[j].key].owner = NoId
    PROVE  Aimed(calls[j])' /\ AtUsers(calls[j])' /\ AtKeys(calls[j])'
<1>1. /\ calls[j] \in Call /\ Aimed(calls[j]) /\ AtUsers(calls[j]) /\ AtKeys(calls[j])
    BY DEF AccountsInvariant, CallsHold
<1>2. Aimed(calls[j])'
    BY <1>1 DEF Aimed, AboutUsers
<1>3. AtUsers(calls[j])'
    <2> SUFFICES ASSUME AboutUsers(calls[j])
                 PROVE  AtUsers(calls[j])'
        BY DEF AtUsers, AboutUsers
    <2>1. CASE calls[j].step \in {"idle", "received"}
        BY <2>1 DEF AtUsers
    <2>2. calls[j].step \notin {"idle", "received"} =>
              calls[j].name \in Names /\ calls[j].password \in Passwords
        BY <1>1 DEF Aimed
    <2>3. CASE calls[j].id \in Named(calls[j].name) /\ calls[j].step \notin {"idle", "received"}
        <3>1. calls[j].id \in There /\ calls[j].id \in Named(calls[j].name)'
            BY <2>2, <2>3, NamesKept
        <3>2. /\ Fits(calls[j].id, calls[j].password) => Fits(calls[j].id, calls[j].password)'
              /\ Shows(calls[j].id) => Shows(calls[j].id)'
            BY <2>2, <2>3, <3>1 DEF RowsKept, Fits, Shows
        <3>3. ~(calls[j].step = "written" /\ calls[j].row = "new")
            BY <1>1, <2>3 DEF AtUsers
        <3>4. QED
            BY <1>1, <3>1, <3>2, <3>3 DEF AtUsers, AboutUsers
    <2>4. CASE calls[j].id \notin Named(calls[j].name) /\ calls[j].step \notin {"idle", "received"}
        <3>1. calls[j].row = "new" /\ calls[j].step \in {"read", "written"} /\ calls[j].op # "login"
            BY <1>1, <2>4 DEF AtUsers, Call, Steps, Aimed
        <3>2. CASE calls[j].step = "read"
            BY <3>1, <3>2 DEF AtUsers
        <3>3. CASE calls[j].step = "written"
            <4>1. calls[j].id \in Ids /\ calls[j].id \notin There'
                BY <1>1, <3>1, <3>3 DEF AtUsers
            <4>2. Named(calls[j].name)' = {}
                BY <3>1, <3>3
            <4>3. calls'[j].id \in (Ids \ There)'
                BY <4>1 DEF Ids
            <4>4. QED
                BY <3>1, <3>3, <4>2, <4>3 DEF AtUsers
        <3>4. QED
            BY <3>1, <3>2, <3>3
    <2>5. QED
        BY <2>1, <2>3, <2>4
<1>4. AtKeys(calls[j])'
    <2>1. CASE calls[j].op = "use" /\ calls[j].step # "idle"
        <3>1. /\ calls[j].key \in Keys /\ keys[calls[j].key].owner # NoId
            BY <1>1, <2>1 DEF Aimed, AtKeys
        <3>2. /\ keys'[calls[j].key].owner # NoId
              /\ keys[calls[j].key].used => keys'[calls[j].key].used
            BY <3>1 DEF RowsKept
        <3>3. Over(calls[j].key) => Over(calls[j].key)'
            <4>1. \A t \in Keys : keys[t].owner # NoId /\ Over(t) => Over(t)'
                BY OverKept
            <4>2. QED BY <3>1, <4>1 DEF Over
        <3>4. QED
            BY <1>1, <2>1, <3>2, <3>3 DEF AtKeys
    <2>2. CASE calls[j].op = "issue" /\ calls[j].step \in {"written", "committed"}
        BY <1>1, <2>2 DEF AtKeys, RowsKept
    <2>3. QED
        BY <2>1, <2>2 DEF AtKeys
<1>5. QED
    BY <1>2, <1>3, <1>4

\* What people were told stays true of rows that are kept, and a refusal is
\* true if the name is there.
LEMMA WordStands ==
    ASSUME AccountsInvariant, RowsKept, CallsHold',
           UNCHANGED <<welcomed, seeded, issued, answered>>,
           conflicts' \subseteq Names,
           \A n \in conflicts' \ conflicts : Named(n) # {},
           failures' \in Nat,
           \A j \in Calls : calls'[j].op = "signup" /\ calls'[j].step = "committed" =>
               calls'[j] = calls[j] \/ calls'[j].id \notin There
    PROVE  WordHolds'
<1> USE DEF AccountsInvariant
<1>1. \A n \in Names : Named(n) # {} => Named(n)' # {}
    BY NamesKept
<1>2. ConflictsAreTrue'
    BY <1>1 DEF WordHolds, ConflictsAreTrue
<1>3. ASSUME NEW w \in welcomed
      PROVE  /\ w.id \in There /\ w.id \in Named(w.name)' /\ Fits(w.id, w.password)'
             /\ \A k \in Calls : calls'[k].op = "signup" /\ calls'[k].step = "committed" =>
                    calls'[k].id # w.id
    <2>1. /\ w.name \in Names /\ w.password \in Passwords /\ w.id \in Named(w.name)
          /\ Fits(w.id, w.password)
        BY DEF WordHolds
    <2>2. w.id \in There /\ w.id \in Named(w.name)'
        BY <2>1, NamesKept
    <2>3. Fits(w.id, w.password)'
        BY <2>1, <2>2 DEF RowsKept, Fits
    <2>4. QED
        BY <2>2, <2>3 DEF WordHolds
<1>4. ASSUME seeded PROVE \E i \in Named(DemoName)' : Shows(i)'
    <2>1. PICK i \in Named(DemoName) : Shows(i)
        BY <1>4 DEF WordHolds
    <2>2. i \in There /\ i \in Named(DemoName)'
        BY <2>1, NamesKept, AccountsAssumption
    <2>3. Shows(i)'
        BY <2>1, <2>2 DEF RowsKept, Shows
    <2>4. QED
        BY <2>2, <2>3
<1>5. /\ \A t \in issued : keys'[t].owner # NoId
      /\ \A t \in answered : keys'[t].owner # NoId /\ keys'[t].used
    BY DEF WordHolds, RowsKept
<1>6. /\ expired' \subseteq Keys
    BY DEF RowsKept
<1>7. QED
    BY <1>2, <1>3, <1>4, <1>5, <1>6 DEF WordHolds

\* Steps that leave the tables and the answers alone.
LEMMA QuietStep ==
    ASSUME AccountsInvariant, CallsHold',
           UNCHANGED <<users, keys, expired, overtaken, welcomed, seeded, issued, answered>>,
           conflicts' \subseteq Names,
           \A n \in conflicts' \ conflicts : Named(n) # {},
           failures' \in Nat,
           \A j \in Calls : calls'[j].step = "committed" => calls'[j] = calls[j]
    PROVE  AccountsInvariant'
<1>1. WordHolds'
    BY NothingWritten, WordStands
<1>2. TablesHold'
    BY DEF AccountsInvariant, TablesHold, OneAccountPerName, There
<1>3. QED
    BY <1>1, <1>2 DEF AccountsInvariant

\* Nobody is at "committed" who was not, unless the step commits.
LEMMA OneCallMoves ==
    ASSUME AccountsInvariant, NEW k \in Calls, NEW c,
           calls' = [calls EXCEPT ![k] = c], c.step # "committed"
    PROVE  \A j \in Calls : calls'[j].step = "committed" => calls'[j] = calls[j]
BY DEF AccountsInvariant, CallsHold

LEMMA EndsQuietly ==
    ASSUME AccountsInvariant, NEW k \in Calls, Ends(k)
    PROVE  \A j \in Calls : calls'[j].step = "committed" => calls'[j] = calls[j]
BY OneCallMoves DEF Ends, Idle

LEMMA MovesQuietly ==
    ASSUME AccountsInvariant, NEW k \in Calls, NEW step, step # "committed", Moves(k, step)
    PROVE  \A j \in Calls : calls'[j].step = "committed" => calls'[j] = calls[j]
BY DEF Moves, AccountsInvariant, CallsHold, Call

LEMMA ArrivesKeeps ==
    ASSUME AccountsInvariant, NEW k \in Calls, Arrives(k)
    PROVE  AccountsInvariant'
<1>1. CallsHold' /\ calls'[k].step = "received"
    BY ArrivesKeepsCalls
<1>2. /\ \A j \in Calls \ {k} : calls'[j] = calls[j]
      /\ UNCHANGED <<users, keys, expired, overtaken, welcomed, seeded, issued, answered>>
      /\ UNCHANGED <<conflicts, failures>>
    BY DEF Arrives, Submit, AccountsInvariant, CallsHold
<1>3. QED
    BY <1>1, <1>2, QuietStep DEF AccountsInvariant, WordHolds

LEMMA HandlesQuietly ==
    ASSUME AccountsInvariant, NEW k \in Calls,
           \/ FindTaken(k) \/ FindDemo(k) \/ FindOwner(k) \/ FindKey(k) \/ Authenticate(k)
           \/ InsertUser(k) \/ UpdateUser(k) \/ InsertKey(k) \/ UpdateKey(k)
    PROVE  AccountsInvariant'
<1>1. CallsHold'
    BY FindsKeepCalls, InsertUserKeepsCalls, UpdateUserKeepsCalls, InsertKeyKeepsCalls,
       UpdateKeyKeepsCalls
<1>2. UNCHANGED <<users, keys, expired, overtaken, welcomed, seeded, issued, answered, failures>>
    BY DEF FindTaken, FindDemo, FindOwner, FindKey, Authenticate, InsertUser, UpdateUser,
           InsertKey, UpdateKey
<1>3. /\ conflicts' \subseteq Names
      /\ \A n \in conflicts' \ conflicts : Named(n) # {}
    <2>1. CASE FindTaken(k)
        BY <2>1 DEF FindTaken, AccountsInvariant, WordHolds, CallsHold, Aimed, AboutUsers
    <2>2. CASE InsertUser(k)
        BY <2>2, InsertingSays
           DEF InsertUser, AccountsInvariant, WordHolds, CallsHold, Aimed
    <2>3. CASE UNCHANGED conflicts
        BY <2>3 DEF AccountsInvariant, WordHolds
    <2>4. QED
        BY <2>1, <2>2, <2>3 DEF FindDemo, FindOwner, FindKey, Authenticate, UpdateUser,
                                InsertKey, UpdateKey
<1>4. \A j \in Calls : calls'[j].step = "committed" => calls'[j] = calls[j]
    <2>1. CASE Ends(k) \/ Moves(k, "read") \/ Moves(k, "written")
        BY <2>1, EndsQuietly, MovesQuietly
    <2>2. CASE \E i : calls' = [calls EXCEPT ![k].id = i, ![k].row = "old", ![k].step = "read"]
        BY <2>2 DEF AccountsInvariant, CallsHold, Call
    <2>3. CASE calls' = [calls EXCEPT ![k].step = "read", ![k].row = "old"]
        BY <2>3 DEF AccountsInvariant, CallsHold, Call
    <2>4. CASE \E i : calls' = [calls EXCEPT ![k].step = "read", ![k].row = "old",
                                             ![k].id = i, ![k].hash = users[i].hash]
        BY <2>4 DEF AccountsInvariant, CallsHold, Call
    <2>5. CASE \E i : calls' = [calls EXCEPT ![k].id = i, ![k].step = "written"]
        BY <2>5 DEF AccountsInvariant, CallsHold, Call
    <2>6. CASE \E t : calls' = [calls EXCEPT ![k].key = t, ![k].step = "written"]
        BY <2>6 DEF AccountsInvariant, CallsHold, Call
    <2>7. CASE FindTaken(k) \/ FindOwner(k) \/ UpdateUser(k) \/ UpdateKey(k)
        BY <2>1, <2>7 DEF FindTaken, FindOwner, UpdateUser, UpdateKey
    <2>8. CASE FindDemo(k) \/ FindKey(k)
        BY <2>1, <2>2, <2>3, <2>8 DEF FindDemo, FindKey
    <2>9. CASE Authenticate(k)
        BY <2>1, <2>4, <2>9 DEF Authenticate
    <2>10. CASE InsertUser(k) \/ InsertKey(k)
        BY <2>1, <2>5, <2>6, <2>10 DEF InsertUser, InsertKey
    <2>11. QED
        BY <2>7, <2>8, <2>9, <2>10
<1>5. QED
    BY <1>1, <1>2, <1>3, <1>4, QuietStep DEF AccountsInvariant, WordHolds

LEMMA FailKeeps ==
    ASSUME AccountsInvariant, NEW k \in Calls, Fail(k)
    PROVE  AccountsInvariant'
<1>1. /\ CallsHold' /\ Ends(k)
      /\ UNCHANGED <<users, keys, expired, overtaken, welcomed, seeded, issued, answered>>
      /\ UNCHANGED conflicts /\ failures' = failures + 1
    BY OneCallEnds DEF Fail, AccountsInvariant
<1>2. QED
    BY <1>1, EndsQuietly, QuietStep DEF AccountsInvariant, WordHolds

\* What a call found true when it committed is what its answer says.
LEMMA DeliverKeeps ==
    ASSUME AccountsInvariant, NEW k \in Calls, Deliver(k)
    PROVE  AccountsInvariant'
<1>0. /\ calls[k] \in Call /\ Aimed(calls[k]) /\ AtUsers(calls[k]) /\ AtKeys(calls[k])
      /\ calls[k].step = "committed" /\ Ends(k)
      /\ UNCHANGED <<users, keys, expired, overtaken, conflicts, failures>>
    BY DEF Deliver, Deliverable, AccountsInvariant, CallsHold
<1>1. CallsHold' /\ TablesHold'
    BY <1>0, OneCallEnds DEF AccountsInvariant, TablesHold, OneAccountPerName, There
<1>2. \A j \in Calls : /\ calls'[j].step = "committed" => j # k /\ calls'[j] = calls[j]
    BY <1>0 DEF Ends, Idle, AccountsInvariant, CallsHold
<1> DEFINE mine == [id |-> calls[k].id, name |-> calls[k].name, password |-> calls[k].password]
<1>3. CASE calls[k].op = "signup"
    <2>1. /\ calls[k].name \in Names /\ calls[k].password \in Passwords
          /\ calls[k].id \in Named(calls[k].name) /\ calls[k].id \in Ids
          /\ Fits(calls[k].id, calls[k].password)
        BY <1>0, <1>3 DEF Aimed, AtUsers, AboutUsers, Named
    <2>2. /\ welcomed' = welcomed \cup {mine}
          /\ UNCHANGED <<issued, answered>> /\ seeded' = seeded
        BY <1>3 DEF Deliver, AccountsInvariant, WordHolds
    <2>3. \A w \in welcomed : w.id # calls[k].id
        BY <1>0, <1>3 DEF AccountsInvariant, WordHolds
    <2>4. \A j \in Calls : calls'[j].op = "signup" /\ calls'[j].step = "committed"
                              => calls'[j].id # calls[k].id
        BY <1>0, <1>2, <1>3 DEF AccountsInvariant, CallsHold, Clear
    <2>5. \A w \in welcomed, j \in Calls :
              calls'[j].op = "signup" /\ calls'[j].step = "committed" => calls'[j].id # w.id
        BY <1>2 DEF AccountsInvariant, WordHolds
    <2>6. /\ mine.id = calls[k].id /\ mine.name = calls[k].name
          /\ mine.password = calls[k].password
          /\ mine \in [id : Ids, name : Names, password : Passwords]
        BY <2>1
    <2> HIDE DEF mine
    <2>7. \A w \in welcomed' : w.id \in Named(w.name)' /\ Fits(w.id, w.password)'
        BY <1>0, <2>1, <2>2, <2>6 DEF AccountsInvariant, WordHolds, Named, Fits
    <2>8. \A v, w \in welcomed' : v.id = w.id => v = w
        BY <2>2, <2>3, <2>6 DEF AccountsInvariant, WordHolds
    <2>9. \A w \in welcomed', j \in Calls :
              calls'[j].op = "signup" /\ calls'[j].step = "committed" => calls'[j].id # w.id
        BY <2>2, <2>4, <2>5, <2>6
    <2>10. WordHolds'
        <3>1. welcomed' \subseteq [id : Ids, name : Names, password : Passwords]
            BY <2>2, <2>6 DEF AccountsInvariant, WordHolds
        <3>2. (seeded => \E i \in Named(DemoName) : Shows(i))'
            BY <1>0, <2>2 DEF AccountsInvariant, WordHolds, Named, Shows
        <3>3. QED
            BY <1>0, <2>2, <2>7, <2>8, <2>9, <3>1, <3>2
               DEF AccountsInvariant, WordHolds, ConflictsAreTrue, Named
    <2>11. QED
        BY <1>1, <2>10 DEF AccountsInvariant
<1>4. CASE calls[k].op # "signup"
    <2>1. UNCHANGED welcomed
        BY <1>4 DEF Deliver
    <2>2. /\ \A w \in welcomed : w.id \in Named(w.name)' /\ Fits(w.id, w.password)'
          /\ \A w \in welcomed, j \in Calls :
                calls'[j].op = "signup" /\ calls'[j].step = "committed" => calls'[j].id # w.id
        BY <1>0, <1>2 DEF AccountsInvariant, WordHolds, Named, Fits
    <2>3. seeded' \in BOOLEAN /\ (seeded' => \E i \in Named(DemoName) : Shows(i))
        <3>1. CASE calls[k].op = "seed"
            BY <1>0, <3>1 DEF Aimed, AtUsers, AboutUsers, Deliver, AccountsInvariant, WordHolds
        <3>2. CASE calls[k].op # "seed"
            BY <3>2 DEF Deliver, AccountsInvariant, WordHolds
        <3>3. QED BY <3>1, <3>2
    <2>4. (seeded => \E i \in Named(DemoName) : Shows(i))'
        BY <1>0, <2>3 DEF Named, Shows
    <2>5. /\ issued' \subseteq Keys /\ \A t \in issued' : keys[t].owner # NoId
          /\ answered' \subseteq Keys
          /\ \A t \in answered' : keys[t].owner # NoId /\ keys[t].used
        BY <1>0 DEF Deliver, Aimed, AtKeys, AccountsInvariant, WordHolds
    <2>6. WordHolds'
        BY <1>0, <2>1, <2>2, <2>3, <2>4, <2>5
           DEF AccountsInvariant, WordHolds, ConflictsAreTrue, Named
    <2>7. QED
        BY <1>1, <2>6 DEF AccountsInvariant
<1>5. QED
    BY <1>3, <1>4

\* Whatever happens to a row that is there, no call is disturbed.
LEMMA OutsideStep ==
    ASSUME AccountsInvariant, RowsKept, TablesHold', UNCHANGED calls, There' = There,
           \A t \in Keys : keys[t].owner = NoId => keys'[t].owner = NoId,
           \A n \in Names : Named(n)' = Named(n),
           UNCHANGED <<welcomed, conflicts, seeded, issued, answered, failures>>
    PROVE  AccountsInvariant'
<1>1. ASSUME NEW j \in Calls
      PROVE  Aimed(calls[j])' /\ AtUsers(calls[j])' /\ AtKeys(calls[j])'
    <2>1. /\ calls[j] \in Call /\ Aimed(calls[j]) /\ AtUsers(calls[j]) /\ AtKeys(calls[j])
        BY DEF AccountsInvariant, CallsHold
    <2>2. calls[j].step = "written" /\ AboutUsers(calls[j]) /\ calls[j].row = "new" =>
              calls[j].id \notin There' /\ Named(calls[j].name)' = {}
        BY <2>1 DEF Aimed, AtUsers
    <2>3. calls[j].step = "written" /\ calls[j].op = "issue" => keys'[calls[j].key].owner = NoId
        BY <2>1 DEF AtKeys
    <2>4. QED
        BY <2>2, <2>3, OthersStand
<1>2. CallsHold'
    BY <1>1 DEF AccountsInvariant, CallsHold, Clear, AboutUsers
<1>3. QED
    BY <1>2, WordStands DEF AccountsInvariant, WordHolds

LEMMA ExpireKeeps ==
    ASSUME AccountsInvariant, NEW t \in Keys, Expire(t)
    PROVE  AccountsInvariant' /\ RowsKept
<1>1. /\ expired' = expired \cup {t}
      /\ UNCHANGED <<users, keys, calls, welcomed, conflicts, seeded, overtaken, issued,
                     answered, failures>>
    BY DEF Expire
<1>2. RowsKept
    BY <1>1 DEF RowsKept, Fits, Shows, AccountsInvariant, WordHolds
<1>3. TablesHold'
    BY <1>1 DEF AccountsInvariant, TablesHold, OneAccountPerName, There
<1>4. There' = There /\ \A n \in Names : Named(n)' = Named(n)
    BY <1>1 DEF There, Named
<1>5. QED
    BY <1>1, <1>2, <1>3, <1>4, OutsideStep

LEMMA RevokeKeeps ==
    ASSUME AccountsInvariant, NEW t \in Keys, Revoke(t)
    PROVE  AccountsInvariant' /\ RowsKept
<1>1. /\ keys' = [keys EXCEPT ![t].revoked = TRUE] /\ keys[t].owner # NoId
      /\ UNCHANGED <<users, calls, expired, welcomed, conflicts, seeded, overtaken, issued,
                     answered, failures>>
    BY DEF Revoke
<1>2. /\ keys' \in [Keys -> Key]
      /\ \A u \in Keys : /\ keys'[u].owner = keys[u].owner
                         /\ keys'[u].used = keys[u].used
                         /\ keys[u].revoked => keys'[u].revoked
    BY <1>1 DEF AccountsInvariant, TablesHold, Key
<1>3. RowsKept
    BY <1>1, <1>2 DEF RowsKept, Fits, Shows, AccountsInvariant, WordHolds
<1>4. TablesHold'
    BY <1>1, <1>2 DEF AccountsInvariant, TablesHold, OneAccountPerName, There
<1>5. There' = There /\ \A n \in Names : Named(n)' = Named(n)
    BY <1>1 DEF There, Named
<1>6. QED
    BY <1>1, <1>2, <1>3, <1>4, <1>5, OutsideStep

LEMMA DeactivateKeeps ==
    ASSUME AccountsInvariant, NEW i \in Ids, Deactivate(i)
    PROVE  AccountsInvariant' /\ RowsKept
<1>1. /\ users' = [users EXCEPT ![i].active = FALSE]
      /\ UNCHANGED <<keys, calls, expired, welcomed, conflicts, seeded, overtaken, issued,
                     answered, failures>>
    BY DEF Deactivate
<1>2. /\ users' \in [Ids -> User]
      /\ \A h \in Ids : /\ users'[h].name = users[h].name
                        /\ users'[h].hash = users[h].hash
                        /\ users'[h].linked = users[h].linked
                        /\ ~users[h].active => ~users'[h].active
    BY <1>1 DEF AccountsInvariant, TablesHold, User
<1>3. There' = There /\ \A n \in Names : Named(n)' = Named(n)
    BY <1>2 DEF There, Named
<1>4. RowsKept
    BY <1>1, <1>2 DEF RowsKept, Fits, Shows, AccountsInvariant, WordHolds, There
<1>5. TablesHold'
    BY <1>1, <1>2, <1>3 DEF AccountsInvariant, TablesHold, OneAccountPerName, There
<1>6. QED
    BY <1>1, <1>3, <1>4, <1>5, OutsideStep

-----------------------------------------------------------------------------
(* The commit *)

\* What becomes of the row a call about an account commits.
LEMMA RowCommitted ==
    ASSUME AccountsInvariant, NEW k \in Calls, Commit(k), AboutUsers(calls[k])
    PROVE  LET c == calls[k]
           IN  /\ c.id \in Ids
               /\ users' \in [Ids -> User]
               /\ \A h \in Ids \ {c.id} : users'[h] = users[h]
               /\ users'[c.id].name = c.name
               /\ users'[c.id].hash.of = c.password
               /\ c.row = "old" => /\ users[c.id].name = c.name
                                   /\ users'[c.id].active = users[c.id].active
                                   /\ users[c.id].linked => users'[c.id].linked
               /\ c.op = "seed" => users'[c.id].linked
               /\ UNCHANGED keys
<1>1. /\ calls[k] \in Call /\ Aimed(calls[k]) /\ AtUsers(calls[k]) /\ calls[k].step = "written"
      /\ users' = [users EXCEPT ![calls[k].id] = UserAfter(calls[k], @)] /\ UNCHANGED keys
    BY DEF Commit, Writing, AccountsInvariant, CallsHold
<1>2. /\ calls[k].name \in Names /\ calls[k].password \in Passwords /\ calls[k].id \in Ids
      /\ calls[k].row \in {"new", "old"}
      /\ calls[k].row = "old" => users[calls[k].id].name = calls[k].name
    BY <1>1 DEF Aimed, AtUsers, Named, Call
<1>3. NewHash(calls[k].password) \in Hash /\ NewHash(calls[k].password).of = calls[k].password
    BY <1>2 DEF NewHash, Hash
<1>4. Customer(calls[k].name, NoHash) \in User
    BY <1>2 DEF Customer, User, NoHash, NewHash, Hash
<1>5. users \in [Ids -> User]
    BY DEF AccountsInvariant, TablesHold
<1> DEFINE before == IF calls[k].row = "new" THEN Customer(calls[k].name, NoHash)
                     ELSE users[calls[k].id]
<1>6. before \in User /\ before.name = calls[k].name
    BY <1>2, <1>4, <1>5 DEF Customer
<1>7. users'[calls[k].id] = [before EXCEPT !.hash   = NewHash(calls[k].password),
                                           !.linked = @ \/ calls[k].op = "seed"]
    BY <1>1, <1>2, <1>5 DEF UserAfter
<1>8. calls[k].row = "old" => before = users[calls[k].id]
    OBVIOUS
<1> HIDE DEF before
<1>9. /\ users'[calls[k].id] \in User
      /\ users'[calls[k].id].name = calls[k].name
      /\ users'[calls[k].id].hash.of = calls[k].password
      /\ users'[calls[k].id].active = before.active
      /\ before.linked => users'[calls[k].id].linked
      /\ calls[k].op = "seed" => users'[calls[k].id].linked
    BY <1>3, <1>6, <1>7 DEF User
<1>10. \A h \in Ids \ {calls[k].id} : users'[h] = users[h]
    BY <1>1, <1>5
<1>11. users' \in [Ids -> User]
    BY <1>1, <1>5, <1>9, <1>10
<1>12. QED
    BY <1>1, <1>2, <1>8, <1>9, <1>10, <1>11

\* An UPDATE of an account keeps what anybody else knows of it: a sign-in that
\* replaces a hash it read writes one of the same password, unless an upgrade
\* has overtaken another write, which is remembered.
LEMMA UserCommitKeepsRows ==
    ASSUME AccountsInvariant, NEW k \in Calls, Commit(k), AboutUsers(calls[k])
    PROVE  RowsKept /\ TablesHold'
<1> DEFINE c == calls[k]
<1>0. /\ c \in Call /\ Aimed(c) /\ AtUsers(c) /\ c.step = "written"
      /\ overtaken' = (overtaken \/ c.hash \notin {NoHash, users[c.id].hash})
      /\ UNCHANGED expired
    BY DEF Commit, Writing, AccountsInvariant, CallsHold
<1>1. /\ c.id \in Ids
      /\ users' \in [Ids -> User] /\ users \in [Ids -> User]
      /\ \A h \in Ids \ {c.id} : users'[h] = users[h]
      /\ users'[c.id].name = c.name
      /\ users'[c.id].hash.of = c.password
      /\ c.row = "old" => /\ users[c.id].name = c.name
                          /\ users'[c.id].active = users[c.id].active
                          /\ users[c.id].linked => users'[c.id].linked
      /\ c.op = "seed" => users'[c.id].linked
      /\ UNCHANGED keys
    BY RowCommitted DEF AccountsInvariant, TablesHold
<1>2. /\ c.name \in Names /\ c.password \in Passwords /\ c.row \in {"new", "old"}
      /\ c.row = "new" => c.id \notin There /\ Named(c.name) = {}
      /\ c.op = "seed" => c.password = DemoPassword
      /\ c.op = "login" => /\ c.row = "old" /\ c.hash.of = c.password
                           /\ Fits(c.id, c.password)
      /\ c.op = "signup" => c.row = "new"
    BY <1>0 DEF Aimed, AtUsers, Call
<1>3. c.op \in {"signup", "login", "seed"}
    BY DEF AboutUsers
<1> HIDE DEF c
<1>4. c.op = "login" => c.hash # NoHash
    BY <1>2, AccountsAssumption DEF NoHash, NewHash
<1>5. overtaken => overtaken'
    BY <1>0
<1>6. ASSUME NEW i \in There
      PROVE  /\ users'[i].name = users[i].name
             /\ users[i].linked => users'[i].linked
             /\ ~users[i].active => ~users'[i].active
             /\ \A p \in Passwords : Fits(i, p) => Fits(i, p)'
             /\ Shows(i) => Shows(i)'
    <2>1. CASE i # c.id
        BY <1>1, <1>5, <2>1 DEF There, Fits, Shows
    <2>2. CASE i = c.id
        <3>1. /\ c.row = "old" /\ c.op \in {"login", "seed"}
            BY <1>2, <1>3, <2>2
        <3>2. /\ users'[i].name = users[i].name
              /\ users[i].linked => users'[i].linked
              /\ ~users[i].active => ~users'[i].active
            BY <1>1, <2>2, <3>1
        <3>3. \A p \in Passwords : Fits(i, p) => Fits(i, p)'
            BY <1>1, <1>2, <2>2, <3>1, <3>2 DEF Fits
        <3>4. Shows(i) => Shows(i)'
            <4>1. CASE c.op = "seed"
                BY <1>1, <1>2, <2>2, <4>1 DEF Shows
            <4>2. CASE c.op = "login" /\ c.hash = users[i].hash
                BY <1>1, <1>2, <1>5, <2>2, <3>2, <4>2 DEF Shows
            <4>3. CASE c.op = "login" /\ c.hash # users[i].hash
                BY <1>0, <1>4, <2>2, <3>2, <4>3 DEF Shows
            <4>4. QED BY <3>1, <4>1, <4>2, <4>3
        <3>5. QED
            BY <3>2, <3>3, <3>4
    <2>3. QED
        BY <2>1, <2>2
<1>7. RowsKept
    BY <1>0, <1>1, <1>6 DEF RowsKept, AccountsInvariant, WordHolds
<1>8. \A i \in There : i # c.id => users[i].name # c.name
    <2>1. CASE c.row = "new"
        BY <1>2, <2>1 DEF Named, There
    <2>2. CASE c.row = "old"
        BY <1>1, <1>2, <2>2, AccountsAssumption
           DEF AccountsInvariant, TablesHold, OneAccountPerName, There
    <2>3. QED
        BY <1>2, <2>1, <2>2
<1>9. OneAccountPerName'
    <2> SUFFICES ASSUME NEW i \in There', NEW j \in There', users'[i].name = users'[j].name
                 PROVE  i = j
        BY DEF OneAccountPerName
    <2>1. \A h \in There' : h # c.id => h \in There /\ users'[h].name = users[h].name
        BY <1>1 DEF There
    <2>2. QED
        BY <1>1, <1>8, <2>1 DEF AccountsInvariant, TablesHold, OneAccountPerName
<1>10. QED
    BY <1>0, <1>1, <1>7, <1>9 DEF AccountsInvariant, TablesHold

LEMMA KeyCommitKeepsRows ==
    ASSUME AccountsInvariant, NEW k \in Calls, Commit(k), ~AboutUsers(calls[k])
    PROVE  LET c == calls[k]
           IN  /\ RowsKept /\ TablesHold' /\ UNCHANGED users
               /\ c.key \in Keys /\ keys'[c.key].owner # NoId
               /\ c.op = "use" => keys'[c.key].used
               /\ \A t \in Keys \ {c.key} : keys'[t] = keys[t]
<1> DEFINE c == calls[k]
<1>0. /\ c \in Call /\ Aimed(c) /\ AtKeys(c) /\ c.step = "written" /\ c.op \in {"issue", "use"}
      /\ UNCHANGED <<users, overtaken, expired>>
      /\ keys' = [keys EXCEPT ![c.key] = KeyAfter(c, @)]
      /\ keys \in [Keys -> Key]
    BY DEF Commit, Writing, AccountsInvariant, CallsHold, TablesHold, AboutUsers, Call, Ops
<1>1. /\ c.key \in Keys
      /\ c.op = "issue" => c.id \in Ids /\ keys[c.key].owner = NoId
      /\ c.op = "use" => keys[c.key].owner # NoId
    BY <1>0 DEF Aimed, AtKeys
<1> HIDE DEF c
<1>2. keys'[c.key] = KeyAfter(c, keys[c.key]) /\ \A t \in Keys \ {c.key} : keys'[t] = keys[t]
    BY <1>0, <1>1
<1>3. /\ KeyAfter(c, keys[c.key]) \in Key
      /\ KeyAfter(c, keys[c.key]).owner # NoId
      /\ c.op = "use" => /\ KeyAfter(c, keys[c.key]).owner = keys[c.key].owner
                         /\ KeyAfter(c, keys[c.key]).revoked = keys[c.key].revoked
                         /\ KeyAfter(c, keys[c.key]).used
    <2>1. CASE c.op = "issue"
        BY <1>1, <2>1 DEF KeyAfter, NewKey, Key, Ids, NoId
    <2>2. CASE c.op = "use"
        BY <1>0, <1>1, <2>2 DEF KeyAfter, Key
    <2>3. QED
        BY <1>0, <2>1, <2>2
<1>4. keys' \in [Keys -> Key]
    BY <1>0, <1>2, <1>3
<1>5. RowsKept
    BY <1>0, <1>1, <1>2, <1>3 DEF RowsKept, Fits, Shows, AccountsInvariant, WordHolds
<1>6. TablesHold'
    BY <1>0, <1>4 DEF AccountsInvariant, TablesHold, OneAccountPerName, There
<1>7. QED
    BY <1>0, <1>1, <1>2, <1>3, <1>5, <1>6 DEF c

\* After a commit the call that made it has what it says, and the rest what
\* they had.
LEMMA CommitKeepsCalls ==
    ASSUME AccountsInvariant, NEW k \in Calls, Commit(k),
           RowsKept,
           \A j \in Calls \ {k} : Aimed(calls[j])' /\ AtUsers(calls[j])' /\ AtKeys(calls[j])',
           calls[k].op # "login" => AtUsers(calls[k])' /\ AtKeys(calls[k])'
    PROVE  CallsHold'
<1>0. /\ calls \in [Calls -> Call] /\ calls[k] \in Call /\ Aimed(calls[k])
      /\ calls[k].step = "written"
    BY DEF AccountsInvariant, CallsHold, Commit, Writing
<1>1. CASE calls[k].op = "login"
    <2>1. calls' = [calls EXCEPT ![k] = Idle]
        BY <1>1 DEF Commit, Ends
    <2>2. calls' \in [Calls -> Call] /\ calls'[k] = Idle
        BY <1>0, <2>1, IdleHolds
    <2>3. \A i \in Calls \ {k} : calls'[i] = calls[i]
        BY <1>0, <2>1
    <2>4. Aimed(calls[k])' /\ AtUsers(calls[k])' /\ AtKeys(calls[k])'
        BY <2>2 DEF Idle, Aimed, AtUsers, AtKeys, AboutUsers
    <2>5. \A i, j \in Calls : i # j => Clear(calls'[i], calls'[j])
        BY <2>2, <2>3, IdleHolds DEF AccountsInvariant, CallsHold
    <2>6. QED
        BY <2>2, <2>4, <2>5 DEF CallsHold, Clear, AboutUsers
<1>2. CASE calls[k].op # "login"
    <2> DEFINE new == [calls[k] EXCEPT !.step = "committed"]
    <2>1. /\ new \in Call /\ calls' = [calls EXCEPT ![k] = new]
          /\ new.step = "committed" /\ new.op = calls[k].op /\ new.name = calls[k].name
          /\ new.password = calls[k].password /\ new.id = calls[k].id /\ new.key = calls[k].key
          /\ new.hash = calls[k].hash /\ new.row = calls[k].row /\ new.late = calls[k].late
        BY <1>0, <1>2 DEF Commit, Moves, Call, Steps
    <2> HIDE DEF new
    <2>2. calls' \in [Calls -> Call] /\ calls'[k] = new
        BY <1>0, <2>1
    <2>3. \A i \in Calls \ {k} : calls'[i] = calls[i]
        BY <1>0, <2>1
    <2>4. Aimed(calls[k])'
        BY <1>0, <1>2, <2>1, <2>2 DEF Aimed, AboutUsers
    <2>5. ASSUME NEW j \in Calls \ {k}, calls[j].step = "committed",
                 calls[j].op = "signup", calls[k].op = "signup"
          PROVE  calls[j].id # calls[k].id
        <3>1. calls[j].id \in There
            BY <2>5, AccountsAssumption
               DEF AccountsInvariant, CallsHold, Aimed, AtUsers, AboutUsers, Named, There
        <3>2. calls[k].id \notin There
            BY <1>0, <2>5 DEF AccountsInvariant, CallsHold, Aimed, AtUsers, AboutUsers
        <3>3. QED
            BY <3>1, <3>2
    <2>6. \A j \in Calls \ {k} : Clear(calls[j], new) /\ Clear(new, calls[j])
        BY <2>1, <2>5 DEF Clear
    <2>7. \A i, j \in Calls : i # j => Clear(calls'[i], calls'[j])
        BY <2>2, <2>3, <2>6 DEF AccountsInvariant, CallsHold
    <2>8. QED
        BY <1>2, <2>2, <2>4, <2>7 DEF CallsHold, Clear, AboutUsers
<1>3. QED
    BY <1>1, <1>2

LEMMA CommitKeeps ==
    ASSUME AccountsInvariant, NEW k \in Calls, Commit(k)
    PROVE  AccountsInvariant' /\ RowsKept
<1>0. /\ calls \in [Calls -> Call] /\ calls[k] \in Call /\ Aimed(calls[k])
      /\ AtUsers(calls[k]) /\ AtKeys(calls[k]) /\ calls[k].step = "written"
      /\ UNCHANGED <<welcomed, conflicts, seeded, issued, answered, failures>>
    BY DEF AccountsInvariant, CallsHold, Commit, Writing
<1>1. RowsKept /\ TablesHold'
    BY UserCommitKeepsRows, KeyCommitKeepsRows
<1>2. \A j \in Calls \ {k} : calls'[j] = calls[j]
    BY <1>0 DEF Commit, Ends, Moves
<1>3. ASSUME NEW j \in Calls \ {k}
      PROVE  Aimed(calls[j])' /\ AtUsers(calls[j])' /\ AtKeys(calls[j])'
    <2>1. /\ calls[j] \in Call /\ AtUsers(calls[j]) /\ AtKeys(calls[j])
          /\ Clear(calls[j], calls[k])
        BY DEF AccountsInvariant, CallsHold
    <2>2. ASSUME calls[j].step = "written", AboutUsers(calls[j]), calls[j].row = "new"
          PROVE  calls[j].id \notin There' /\ Named(calls[j].name)' = {}
        <3>1. calls[j].id \in Ids \ There /\ Named(calls[j].name) = {}
            BY <2>1, <2>2 DEF AtUsers
        <3>2. CASE ~AboutUsers(calls[k])
            <4>1. UNCHANGED users
                BY <3>2, KeyCommitKeepsRows
            <4>2. There' = There /\ Named(calls[j].name)' = Named(calls[j].name)
                BY <1>2, <4>1 DEF There, Named
            <4>3. QED
                BY <3>1, <4>2
        <3>3. CASE AboutUsers(calls[k])
            <4>1. calls[j].id # calls[k].id
                BY <1>0, <2>1, <2>2, <3>3 DEF Clear
            <4>2. calls[j].name # calls[k].name
                <5>1. CASE calls[k].row = "new"
                    BY <1>0, <2>1, <2>2, <3>3, <5>1 DEF Clear
                <5>2. CASE calls[k].row # "new"
                    BY <1>0, <3>1, <3>3, <5>2 DEF AtUsers, Call
                <5>3. QED BY <5>1, <5>2
            <4>3. /\ \A h \in Ids \ {calls[k].id} : users'[h] = users[h]
                  /\ users'[calls[k].id].name = calls[k].name
                BY <3>3, RowCommitted
            <4>4. Named(calls[j].name)' = {}
                BY <1>2, <3>1, <4>2, <4>3 DEF Named
            <4>5. QED
                BY <1>2, <3>1, <4>1, <4>3, <4>4 DEF There
        <3>4. QED
            BY <3>2, <3>3
    <2>3. ASSUME calls[j].step = "written", calls[j].op = "issue"
          PROVE  keys'[calls[j].key].owner = NoId
        <3>1. calls[j].key \in Keys /\ keys[calls[j].key].owner = NoId
            BY <2>1, <2>3 DEF AtKeys
        <3>2. CASE AboutUsers(calls[k])
            BY <3>1, <3>2, RowCommitted
        <3>3. CASE ~AboutUsers(calls[k])
            BY <1>0, <2>1, <2>3, <3>1, <3>3, KeyCommitKeepsRows DEF Clear, AboutUsers
        <3>4. QED
            BY <3>2, <3>3
    <2>4. QED
        BY <1>1, <1>2, <2>2, <2>3, OthersStand
<1>4. ASSUME calls[k].op # "login"
      PROVE  AtUsers(calls[k])' /\ AtKeys(calls[k])'
    <2>1. /\ calls'[k].step = "committed" /\ calls'[k].op = calls[k].op
          /\ calls'[k].name = calls[k].name /\ calls'[k].password = calls[k].password
          /\ calls'[k].id = calls[k].id /\ calls'[k].key = calls[k].key
          /\ calls'[k].late = calls[k].late
        BY <1>0, <1>4 DEF Commit, Moves, Call
    <2>2. CASE AboutUsers(calls[k])
        <3>1. /\ calls[k].id \in Ids /\ users'[calls[k].id].name = calls[k].name
              /\ users'[calls[k].id].hash.of = calls[k].password
              /\ calls[k].op = "seed" => users'[calls[k].id].linked
            BY <2>2, RowCommitted
        <3>2. calls[k].op = "seed" => calls[k].password = DemoPassword
            BY <1>0 DEF Aimed
        <3>3. AtUsers(calls[k])'
            BY <1>4, <2>1, <3>1, <3>2 DEF AtUsers, Named, Fits, Shows
        <3>4. AtKeys(calls[k])'
            BY <2>1, <2>2 DEF AtKeys, AboutUsers
        <3>5. QED
            BY <3>3, <3>4
    <2>3. CASE ~AboutUsers(calls[k])
        BY <1>0, <2>1, <2>3, KeyCommitKeepsRows DEF AtUsers, AtKeys, AboutUsers
    <2>4. QED
        BY <2>2, <2>3
<1>5. CallsHold'
    BY <1>1, <1>3, <1>4, CommitKeepsCalls
<1>6. ASSUME NEW j \in Calls, calls'[j].op = "signup", calls'[j].step = "committed"
      PROVE  calls'[j] = calls[j] \/ calls'[j].id \notin There
    <2>1. CASE j # k
        BY <1>2, <2>1
    <2>2. CASE j = k
        <3>1. calls'[k].id = calls[k].id /\ calls[k].op = "signup"
            BY <1>0, <1>6, <2>2 DEF Commit, Ends, Moves, Idle, Call
        <3>2. calls[k].id \notin There
            BY <1>0, <3>1 DEF Aimed, AtUsers, AboutUsers
        <3>3. QED
            BY <2>2, <3>1, <3>2
    <2>3. QED
        BY <2>1, <2>2
<1>7. WordHolds'
    BY <1>0, <1>1, <1>5, <1>6, WordStands DEF AccountsInvariant, WordHolds
<1>8. QED
    BY <1>1, <1>5, <1>7 DEF AccountsInvariant

-----------------------------------------------------------------------------
(* The theorems *)

LEMMA InvariantInit == AccountsInit => AccountsInvariant
<1> SUFFICES ASSUME AccountsInit PROVE AccountsInvariant
    OBVIOUS
<1>1. NoHash \in Hash /\ NoUser \in User /\ NoUser.name = NoName
    BY DEF NoHash, NewHash, Hash, NoUser, User
<1>2. ASSUME NEW n \in Names, NEW p \in Legacy
      PROVE  Customer(n, OldHash(p)) \in User
    BY AccountsAssumption DEF Customer, OldHash, Hash, User
<1>3. users \in [Ids -> User] /\ \A i \in Ids : i # 1 => users[i].name = NoName
    BY <1>1, <1>2 DEF AccountsInit
<1>4. OneAccountPerName
    BY <1>3 DEF OneAccountPerName, There
<1>5. keys \in [Keys -> Key]
    BY DEF AccountsInit, Key, NewKey, NoId
<1>6. CallsHold
    BY IdleHolds DEF AccountsInit, CallsHold, Aimed, AtUsers, AtKeys, Idle
<1>7. WordHolds
    BY DEF AccountsInit, WordHolds, ConflictsAreTrue, Idle
<1>8. TablesHold
    BY <1>3, <1>4, <1>5 DEF AccountsInit, TablesHold
<1>9. QED
    BY <1>6, <1>7, <1>8 DEF AccountsInvariant

LEMMA InvariantNext ==
    AccountsInvariant /\ [AccountsNext]_accountVars => AccountsInvariant' /\ RowsKept
<1> SUFFICES ASSUME AccountsInvariant, [AccountsNext]_accountVars
             PROVE  AccountsInvariant' /\ RowsKept
    OBVIOUS
<1>1. CASE UNCHANGED accountVars
    <2>1. CallsHold'
        BY <1>1 DEF accountVars, AccountsInvariant, CallsHold, Aimed, AtUsers, AtKeys, Clear,
                    AboutUsers, Named, There, Fits, Shows, Over
    <2>2. AccountsInvariant'
        BY <1>1, <2>1, QuietStep DEF accountVars, AccountsInvariant, WordHolds
    <2>3. QED
        BY <1>1, <2>2, NothingWritten DEF accountVars
<1>2. ASSUME NEW k \in Calls, Arrives(k) \/ Handles(k) \/ Fail(k)
      PROVE  AccountsInvariant' /\ RowsKept
    <2>1. CASE Arrives(k)
        BY <2>1, ArrivesKeeps, NothingWritten DEF Arrives, Submit
    <2>2. CASE \/ FindTaken(k) \/ FindDemo(k) \/ FindOwner(k) \/ FindKey(k) \/ Authenticate(k)
               \/ InsertUser(k) \/ UpdateUser(k) \/ InsertKey(k) \/ UpdateKey(k)
        <3>1. UNCHANGED <<users, keys, expired, overtaken>>
            BY <2>2 DEF FindTaken, FindDemo, FindOwner, FindKey, Authenticate, InsertUser,
                        UpdateUser, InsertKey, UpdateKey
        <3>2. QED
            BY <2>2, <3>1, HandlesQuietly, NothingWritten
    <2>3. CASE Commit(k)
        BY <2>3, CommitKeeps
    <2>4. CASE Deliver(k)
        BY <2>4, DeliverKeeps, NothingWritten DEF Deliver
    <2>5. CASE Fail(k)
        BY <2>5, FailKeeps, NothingWritten DEF Fail
    <2>6. QED
        BY <1>2, <2>1, <2>2, <2>3, <2>4, <2>5 DEF Handles
<1>3. ASSUME NEW t \in Keys, Expire(t) \/ Revoke(t)
      PROVE  AccountsInvariant' /\ RowsKept
    BY <1>3, ExpireKeeps, RevokeKeeps
<1>4. ASSUME NEW i \in Ids, Deactivate(i)
      PROVE  AccountsInvariant' /\ RowsKept
    BY <1>4, DeactivateKeeps
<1>5. QED
    BY <1>1, <1>2, <1>3, <1>4 DEF AccountsNext

\* What a call has in hand, what the tables hold and what people were told
\* agree at every step.
THEOREM AccountsStand == AccountsSpec => []AccountsInvariant
<1>1. AccountsInit => AccountsInvariant
    BY InvariantInit
<1>2. AccountsInvariant /\ [AccountsNext]_accountVars => AccountsInvariant'
    BY InvariantNext
<1>3. QED
    BY <1>1, <1>2, PTL DEF AccountsSpec

\* Of the sign-ups and seeds that race for a name one gets it (create_user,
\* seed.link_a_demo_customer), so the sign-in that reads by name finds one row.
THEOREM NamesAreUnique == AccountsSpec => []OneAccountPerName
<1>1. AccountsInvariant => OneAccountPerName
    BY DEF AccountsInvariant, TablesHold
<1>2. QED
    BY <1>1, AccountsStand, PTL

\* Whoever was answered with a 201 has the account, which opens with their
\* password unless the seed took it over, and is the only one who was.
THEOREM WelcomesAreKept == AccountsSpec => []WelcomedMeansYours
<1>1. AccountsInvariant => WelcomedMeansYours
    <2> SUFFICES ASSUME AccountsInvariant PROVE WelcomedMeansYours
        OBVIOUS
    <2>1. \A w \in welcomed : /\ w.id \in There /\ users[w.id].name = w.name
                              /\ users[w.id].hash.of = w.password \/ users[w.id].linked
        BY AccountsAssumption DEF AccountsInvariant, WordHolds, Named, There, Fits
    <2>2. \A v, w \in welcomed : v.name = w.name => v = w
        BY <2>1 DEF AccountsInvariant, TablesHold, WordHolds, OneAccountPerName
    <2>3. QED
        BY <2>1, <2>2 DEF WelcomedMeansYours
<1>2. QED
    BY <1>1, AccountsStand, PTL

\* A 409 names somebody: the account a sign-up lost to is there, and stays.
THEOREM RefusalsName == AccountsSpec => []ConflictsAreTrue
<1>1. AccountsInvariant => ConflictsAreTrue
    BY DEF AccountsInvariant, WordHolds
<1>2. QED
    BY <1>1, AccountsStand, PTL

\* What the seed prints opens the account it linked, unless an upgrade of a
\* hash was written over it.
THEOREM SeedIsTrue == AccountsSpec => []SeededAccountOpens
<1>1. AccountsInvariant => SeededAccountOpens
    BY DEF AccountsInvariant, WordHolds, SeededAccountOpens, Shows
<1>2. QED
    BY <1>1, AccountsStand, PTL

\* A token that was over when its call arrived lets nobody in, and one that let
\* somebody in says so.
THEOREM UsesStayHonest == AccountsSpec => []UsesAreHonest
<1>1. AccountsInvariant => UsesAreHonest
    BY DEF AccountsInvariant, CallsHold, WordHolds, AtKeys, UsesAreHonest, LateUsesAreRefused,
           UsesAreOnFile
<1>2. QED
    BY <1>1, AccountsStand, PTL

\* No write undoes a revocation, a deactivation, a first use or a link that was
\* made after what it was decided from was read.
THEOREM NothingGetsUndone == AccountsSpec => NothingIsUndone
<1> DEFINE Kept == /\ \A t \in Keys : keys[t].owner # NoId =>
                         /\ keys'[t].owner = keys[t].owner
                         /\ keys[t].used => keys'[t].used
                         /\ keys[t].revoked => keys'[t].revoked
                   /\ \A i \in There :
                         /\ users'[i].name = users[i].name
                         /\ ~users[i].active => ~users'[i].active
                         /\ users[i].linked => users'[i].linked
<1>1. AccountsInvariant /\ [AccountsNext]_accountVars => [Kept]_accountVars
    BY InvariantNext DEF RowsKept
<1>2. QED
    BY <1>1, AccountsStand, PTL DEF AccountsSpec, NothingIsUndone

=============================================================================
