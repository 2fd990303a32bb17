------------------------------ MODULE Accounts ------------------------------
(***************************************************************************)
(* Accounts and API tokens: signing up and making a token (app/api/auth.py),*)
(* signing in as far as it writes to the account (authenticate_user, which  *)
(* replaces an old hash), presenting a token (get_current_user_token), and  *)
(* the seed that points the demo account at the invented rows (app/seed.py).*)
(*                                                                          *)
(* Every one of these reads, computes a hash or compares a clock, and only  *)
(* then writes.  The write waits for a row another open transaction has     *)
(* written, and an INSERT for another of the same name; what was read may   *)
(* have changed by then.  A call may die between any two statements.        *)
(***************************************************************************)
EXTENDS Naturals, FiniteSets

CONSTANTS
    Names,         \* usernames
    DemoName,      \* seed.USERNAME
    Passwords,     \* passwords
    DemoPassword,  \* seed.PASSWORD
    Legacy,        \* the passwords that may still be stored as bcrypt hashes
    MaxId,         \* bound on users.id
    Keys,          \* the values secrets.token_urlsafe may draw
    Calls,         \* the HTTP requests, and runs of the seed, at once
    MaxFailures    \* bound on the calls that die part way through

NoName   == "no name"  \* nobody's: the row is not there
NoSecret == "no password"
NoId     == 0
NoKey    == "no key"
Ids      == 1..MaxId

ASSUME AccountsAssumption ==
    /\ DemoName \in Names /\ DemoPassword \in Passwords /\ Legacy \subseteq Passwords
    /\ NoName \notin Names /\ NoSecret \notin Passwords
    /\ NoKey \notin Keys
    /\ MaxId \in Nat /\ MaxFailures \in Nat

VARIABLES
    users,      \* the users table
    keys,       \* the api_tokens table
    calls,      \* what each call is doing
    expired,    \* the API tokens whose expires_at has passed
    welcomed,   \* the sign-ups answered with a 201
    conflicts,  \* the names somebody was refused with a 409
    seeded,     \* whether a run of the seed has printed its account
    overtaken,  \* whether an upgrade has replaced a hash it did not read
    issued,     \* the API tokens that reached a client
    answered,   \* the API tokens a use of which was answered
    failures    \* how many calls have died

accountVars == <<users, keys, calls, expired, welcomed, conflicts, seeded, overtaken,
                 issued, answered, failures>>

\* A hash is known by the password it is of and the scheme that made it.
Hash    == [of : Passwords \cup {NoSecret}, by : {"argon2", "bcrypt"}]
NewHash(password) == [of |-> password, by |-> "argon2"]
OldHash(password) == [of |-> password, by |-> "bcrypt"]
NoHash  == NewHash(NoSecret)

User    == [name : Names \cup {NoName}, hash : Hash, active : BOOLEAN, linked : BOOLEAN]
NoUser  == [name |-> NoName, hash |-> NoHash, active |-> FALSE, linked |-> FALSE]
Customer(name, hash) == [name |-> name, hash |-> hash, active |-> TRUE, linked |-> FALSE]

Key     == [owner : Ids \cup {NoId}, revoked : BOOLEAN, used : BOOLEAN]
NewKey(owner) == [owner |-> owner, revoked |-> FALSE, used |-> FALSE]

Ops   == {"signup", "login", "seed", "issue", "use"}
Steps == {"idle", "received", "read", "written", "committed"}

Call == [op   : Ops,                    step     : Steps,
         name : Names \cup {NoName},    password : Passwords \cup {NoSecret},
         id   : Ids \cup {NoId},        key      : Keys \cup {NoKey},
         hash : Hash,                   row      : {"new", "old"},
         late : BOOLEAN]
Idle == [op   |-> "signup", step     |-> "idle",
         name |-> NoName,   password |-> NoSecret,
         id   |-> NoId,     key      |-> NoKey,
         hash |-> NoHash,   row      |-> "new",
         late |-> FALSE]

There == {i \in Ids : users[i].name # NoName}
Named(name) == {i \in Ids : users[i].name = name}

\* Nobody, or somebody from before Argon2: their hash is of the older scheme.
AccountsInit ==
    /\ \/ users = [i \in Ids |-> NoUser]
       \/ \E n \in Names, p \in Legacy :
             users = [i \in Ids |-> IF i = 1 THEN Customer(n, OldHash(p)) ELSE NoUser]
    /\ keys = [t \in Keys |-> NewKey(NoId)]
    /\ calls = [k \in Calls |-> Idle]
    /\ welcomed = {} /\ conflicts = {} /\ issued = {} /\ expired = {}
    /\ seeded = FALSE /\ overtaken = FALSE
    /\ answered = {}
    /\ failures = 0

Ends(k)        == calls' = [calls EXCEPT ![k] = Idle]
Moves(k, step) == calls' = [calls EXCEPT ![k].step = step]

-----------------------------------------------------------------------------
(* What arrives *)

\* Mutant: a token is good whatever has become of its owner.
UsableByAnybody(t) ==
    /\ keys[t].owner \in There
    /\ ~keys[t].revoked
    /\ t \notin expired

\* get_current_user_token: what it asks of the record and its user.
Usable(t) ==
    /\ keys[t].owner \in There
    /\ ~keys[t].revoked
    /\ t \notin expired
    /\ users[keys[t].owner].active

\* Whether nothing in the tables admits the token any more.
Over(t) ==
    \/ keys[t].revoked
    \/ t \in expired
    \/ keys[t].owner \in There /\ ~users[keys[t].owner].active

Submit(k, call) ==
    /\ calls[k].step = "idle"
    /\ calls' = [calls EXCEPT ![k] = [call EXCEPT !.step = "received"]]
    /\ UNCHANGED <<users, keys, expired, welcomed, conflicts, seeded, overtaken, issued,
                   answered, failures>>

\* The bound: a token is asked for only while there is one for each call.
KeysLeft ==
    Cardinality({j \in Calls : calls[j].op = "issue" /\ calls[j].step \in {"received", "read"}})
        < Cardinality({t \in Keys : keys[t].owner = NoId /\ ~\E j \in Calls : calls[j].key = t})

Arrives(k) ==
    \/ \E op \in {"signup", "login"}, n \in Names, p \in Passwords :
          Submit(k, [Idle EXCEPT !.op = op, !.name = n, !.password = p])
    \/ Submit(k, [Idle EXCEPT !.op = "seed", !.name = DemoName, !.password = DemoPassword])
    \/ KeysLeft /\ \E i \in There : Submit(k, [Idle EXCEPT !.op = "issue", !.id = i])
    \/ \E t \in issued : Submit(k, [Idle EXCEPT !.op = "use", !.key = t, !.late = Over(t)])

-----------------------------------------------------------------------------
(* The reads, and what is decided from them *)

\* The SELECT of create_user.
FindTaken(k) ==
    /\ calls[k].step = "received" /\ calls[k].op = "signup"
    /\ \/ /\ Named(calls[k].name) = {}
          /\ Moves(k, "read")
          /\ UNCHANGED conflicts
       \/ /\ Named(calls[k].name) # {}
          /\ conflicts' = conflicts \cup {calls[k].name}
          /\ Ends(k)
    /\ UNCHANGED <<users, keys, expired, welcomed, seeded, overtaken, issued, answered, failures>>

\* authenticate_user up to its decision.  Unless the hash needs an upgrade
\* nothing is written here; the session that follows is Sessions' CommitLogin.
Authenticate(k) ==
    /\ calls[k].step = "received" /\ calls[k].op = "login"
    /\ LET opened == {i \in Named(calls[k].name) :
                         users[i].active /\ users[i].hash.of = calls[k].password}
           old    == {i \in opened : users[i].hash.by = "bcrypt"}
       IN  \/ old = {} /\ Ends(k)
           \/ \E i \in old :
                 calls' = [calls EXCEPT ![k].step = "read", ![k].row = "old",
                                        ![k].id = i, ![k].hash = users[i].hash]
    /\ UNCHANGED <<users, keys, expired, welcomed, conflicts, seeded, overtaken, issued,
                   answered, failures>>

\* The SELECT of link_a_demo_customer.
FindDemo(k) ==
    /\ calls[k].step = "received" /\ calls[k].op = "seed"
    /\ \/ Named(DemoName) = {} /\ Moves(k, "read")
       \/ \E i \in Named(DemoName) :
             calls' = [calls EXCEPT ![k].id = i, ![k].row = "old", ![k].step = "read"]
    /\ UNCHANGED <<users, keys, expired, welcomed, conflicts, seeded, overtaken, issued,
                   answered, failures>>

\* get_current_user, for create_api_token.
FindOwner(k) ==
    /\ calls[k].step = "received" /\ calls[k].op = "issue"
    /\ IF users[calls[k].id].active THEN Moves(k, "read") ELSE Ends(k)
    /\ UNCHANGED <<users, keys, expired, welcomed, conflicts, seeded, overtaken, issued,
                   answered, failures>>

\* get_current_user_token, up to the write of last_used_at.  It reads the token
\* and then its user; as nothing reactivates an account, one that is active at
\* the second read was active at the first, and the two are taken for one.
FindKey(k) ==
    /\ calls[k].step = "received" /\ calls[k].op = "use"
    /\ IF Usable(calls[k].key)
       THEN calls' = [calls EXCEPT ![k].step = "read", ![k].row = "old"]
       ELSE Ends(k)
    /\ UNCHANGED <<users, keys, expired, welcomed, conflicts, seeded, overtaken, issued,
                   answered, failures>>

-----------------------------------------------------------------------------
(* The writes *)

AboutUsers(call) == call.op \in {"signup", "login", "seed"}

\* Whether an open transaction has written the row or the name.
Writing(k)     == calls[k].step = "written"
UserHeld(i)    == \E j \in Calls : Writing(j) /\ AboutUsers(calls[j]) /\ calls[j].id = i
KeyHeld(t)     == \E j \in Calls : Writing(j) /\ ~AboutUsers(calls[j]) /\ calls[j].key = t
NameHeld(name) == \E j \in Calls : /\ Writing(j) /\ AboutUsers(calls[j])
                                   /\ calls[j].row = "new" /\ calls[j].name = name

\* Ids are handed out in order, and not while an open transaction has one.
NextId(i) ==
    /\ i \notin There /\ ~UserHeld(i)
    /\ \A h \in 1..(i - 1) : h \in There \/ UserHeld(h)

\* Mutant: the column is not unique.
InsertingUnindexed(name) == "inserts"

\* Mutant: a name that somebody may be about to take counts as taken.
InsertingImpatient(name) ==
    IF NameHeld(name) \/ Named(name) # {} THEN "collides" ELSE "inserts"

\* Mutant: an INSERT waits for everybody who may be about to take the name.
InsertingLast(name) ==
    IF \/ NameHeld(name)
       \/ Cardinality({j \in Calls : calls[j].step = "read" /\ calls[j].name = name}) > 1
    THEN "waits" ELSE IF Named(name) # {} THEN "collides" ELSE "inserts"

\* What the unique index says to an INSERT: wait for another of the same name
\* to end; then there is one, or there is none.
Inserting(name) ==
    CASE NameHeld(name)                        -> "waits"
      [] ~NameHeld(name) /\ Named(name) # {}   -> "collides"
      [] ~NameHeld(name) /\ Named(name) = {}   -> "inserts"

\* The flush of db.add(user).  A collision raises IntegrityError, which
\* create_user rolls back and answers with a 409, and the seed does not catch.
InsertUser(k) ==
    LET call == calls[k]
    IN  /\ call.step = "read" /\ AboutUsers(call) /\ call.row = "new"
        /\ \/ /\ Inserting(call.name) = "inserts"
              /\ \E i \in Ids :
                    /\ NextId(i)
                    /\ calls' = [calls EXCEPT ![k].id = i, ![k].step = "written"]
              /\ UNCHANGED conflicts
           \/ /\ Inserting(call.name) = "collides"
              /\ conflicts' = IF call.op = "signup" THEN conflicts \cup {call.name}
                                                    ELSE conflicts
              /\ Ends(k)
        /\ UNCHANGED <<users, keys, expired, welcomed, seeded, overtaken, issued, answered,
                       failures>>

\* The UPDATE of an account's row, by its id and nothing else.
UpdateUser(k) ==
    /\ calls[k].step = "read" /\ AboutUsers(calls[k]) /\ calls[k].row = "old"
    /\ ~UserHeld(calls[k].id)
    /\ Moves(k, "written")
    /\ UNCHANGED <<users, keys, expired, welcomed, conflicts, seeded, overtaken, issued,
                   answered, failures>>

\* create_api_token: a value nobody has, for ever or for some days.
InsertKey(k) ==
    LET call == calls[k]
    IN  /\ call.step = "read" /\ call.op = "issue"
        /\ \E t \in Keys :
              /\ keys[t].owner = NoId /\ ~KeyHeld(t)
              /\ calls' = [calls EXCEPT ![k].key = t, ![k].step = "written"]
        /\ UNCHANGED <<users, keys, expired, welcomed, conflicts, seeded, overtaken, issued,
                       answered, failures>>

UpdateKey(k) ==
    /\ calls[k].step = "read" /\ calls[k].op = "use"
    /\ ~KeyHeld(calls[k].key)
    /\ Moves(k, "written")
    /\ UNCHANGED <<users, keys, expired, welcomed, conflicts, seeded, overtaken, issued,
                   answered, failures>>

\* Mutant: the seed leaves the password of an account it finds.
UserAfterLinked(call, user) ==
    LET before == IF call.row = "new" THEN Customer(call.name, NewHash(call.password)) ELSE user
    IN  [before EXCEPT !.linked = @ \/ call.op = "seed"]

\* What a call leaves of the account's row: an INSERT of all of it, or an
\* UPDATE of the columns that were assigned.
UserAfter(call, user) ==
    LET before == IF call.row = "new" THEN Customer(call.name, NoHash) ELSE user
    IN  [before EXCEPT !.hash   = NewHash(call.password),
                       !.linked = @ \/ call.op = "seed"]

\* Mutant: the use writes the token's row back as it was when it was let in.
KeyAfterWhole(call, key) ==
    IF call.op = "issue" THEN NewKey(call.id) ELSE [NewKey(key.owner) EXCEPT !.used = TRUE]

KeyAfter(call, key) ==
    IF call.op = "issue" THEN NewKey(call.id) ELSE [key EXCEPT !.used = TRUE]

Commit(k) ==
    LET call == calls[k]
    IN  /\ Writing(k)
        /\ \/ /\ AboutUsers(call)
              /\ users' = [users EXCEPT ![call.id] = UserAfter(call, @)]
              /\ overtaken' = (overtaken \/ call.hash \notin {NoHash, users[call.id].hash})
              /\ UNCHANGED keys
           \/ /\ ~AboutUsers(call)
              /\ keys' = [keys EXCEPT ![call.key] = KeyAfter(call, @)]
              /\ UNCHANGED <<users, overtaken>>
        /\ IF call.op = "login" THEN Ends(k) ELSE Moves(k, "committed")
        /\ UNCHANGED <<expired, welcomed, conflicts, seeded, issued, answered, failures>>

\* Mutant: a call is answered before its commit.
DeliverableEarly(call) == call.step \in {"written", "committed"}

Deliverable(call) == call.step = "committed"

\* The answer: 201 with the account (read again by refresh) or with the token's
\* value, 200, or what the seed prints.
Deliver(k) ==
    LET call == calls[k]
    IN  /\ Deliverable(call)
        /\ welcomed' = IF call.op # "signup" THEN welcomed
                       ELSE welcomed \cup {[id |-> call.id, name |-> call.name,
                                            password |-> call.password]}
        /\ seeded' = (seeded \/ call.op = "seed")
        /\ issued' = IF call.op = "issue" THEN issued \cup {call.key} ELSE issued
        /\ answered' = IF call.op = "use" THEN answered \cup {call.key} ELSE answered
        /\ Ends(k)
        /\ UNCHANGED <<users, keys, expired, conflicts, overtaken, failures>>

-----------------------------------------------------------------------------
(* What happens around the calls *)

Fail(k) ==
    /\ calls[k].step # "idle" /\ failures < MaxFailures
    /\ failures' = failures + 1
    /\ Ends(k)
    /\ UNCHANGED <<users, keys, expired, welcomed, conflicts, seeded, overtaken, issued, answered>>

\* A token was made for ever or for some days; these have passed.
Expire(t) ==
    /\ keys[t].owner # NoId
    /\ expired' = expired \cup {t}
    /\ UNCHANGED <<users, keys, calls, welcomed, conflicts, seeded, overtaken, issued,
                   answered, failures>>

\* Nothing in the application sets revoked_at of an API token or clears
\* is_active; somebody with the database does, in one statement.
Revoke(t) ==
    /\ keys[t].owner # NoId /\ ~keys[t].revoked /\ ~KeyHeld(t)
    /\ keys' = [keys EXCEPT ![t].revoked = TRUE]
    /\ UNCHANGED <<users, calls, expired, welcomed, conflicts, seeded, overtaken, issued,
                   answered, failures>>

Deactivate(i) ==
    /\ i \in There /\ users[i].active /\ ~UserHeld(i)
    /\ users' = [users EXCEPT ![i].active = FALSE]
    /\ UNCHANGED <<keys, calls, expired, welcomed, conflicts, seeded, overtaken, issued,
                   answered, failures>>

Handles(k) ==
    \/ FindTaken(k) \/ Authenticate(k) \/ FindDemo(k) \/ FindOwner(k) \/ FindKey(k)
    \/ InsertUser(k) \/ UpdateUser(k) \/ InsertKey(k) \/ UpdateKey(k)
    \/ Commit(k) \/ Deliver(k)

AccountsNext ==
    \/ \E k \in Calls : Arrives(k) \/ Handles(k) \/ Fail(k)
    \/ \E t \in Keys : Expire(t) \/ Revoke(t)
    \/ \E i \in Ids : Deactivate(i)

AccountsSpec == AccountsInit /\ [][AccountsNext]_accountVars

-----------------------------------------------------------------------------
(* Properties *)

\* Every variable is of its type.
AccountsTypeOK ==
    /\ users \in [Ids -> User]
    /\ keys \in [Keys -> Key]
    /\ calls \in [Calls -> Call]
    /\ welcomed \subseteq [id : Ids, name : Names, password : Passwords]
    /\ conflicts \subseteq Names
    /\ seeded \in BOOLEAN /\ overtaken \in BOOLEAN
    /\ issued \subseteq Keys /\ expired \subseteq Keys /\ answered \subseteq Keys
    /\ failures \in Nat

\* The sign-in reads by name and expects one row (scalar_one_or_none): a name
\* that two sign-ups raced for, or a sign-up and the seed, has one account.
OneAccountPerName ==
    \A i, j \in There : users[i].name = users[j].name => i = j

\* create_user: whoever was welcomed has the account of that name, which opens
\* with their password for as long as the seed does not take it over; and so
\* of several people who asked for a name at most one was told it is theirs.
WelcomedMeansYours ==
    /\ \A w \in welcomed :
          /\ users[w.id].name = w.name
          /\ users[w.id].hash.of = w.password \/ users[w.id].linked
    /\ \A v, w \in welcomed : v.name = w.name => v = w

\* "Username is already registered" is true, whether the SELECT or the index
\* found it, although the account it lost to was not committed when it asked.
ConflictsAreTrue == \A n \in conflicts : Named(n) # {}

\* seed.main prints a name and a password: they are the account's, if it is in
\* use at all, and reach the invented rows, unless a sign-in with the former
\* password was at the time replacing a hash from before Argon2, whose write is
\* by id and puts it back.
SeededAccountOpens ==
    seeded => \E i \in Named(DemoName) :
                 /\ users[i].linked
                 /\ users[i].hash.of = DemoPassword \/ overtaken

\* A call that arrives once its token is revoked, has expired, or belongs to an
\* account that was deactivated, is not let in, whatever else is in progress.
LateUsesAreRefused ==
    \A k \in Calls :
        calls[k].op = "use" /\ calls[k].step \in {"read", "written", "committed"}
            => ~calls[k].late

\* A use that was answered is on file: nobody can be shown a token that was
\* "never used" and let somebody in.
UsesAreOnFile == \A t \in answered : keys[t].used

\* What a token's row says of it is what happened: it lets nobody in who came
\* after the row, or its owner's, says it was over, and has let nobody in
\* unless it says so.
UsesAreHonest == LateUsesAreRefused /\ UsesAreOnFile

\* The write of last_used_at and the upgrade of a hash come after the checks
\* they follow, and undo nothing that happened in between: a revoked token
\* stays revoked, a deactivated account stays deactivated, nobody is renamed
\* and nobody's link to the shop is taken away.
NothingIsUndone ==
    [][/\ \A t \in Keys : keys[t].owner # NoId =>
             /\ keys'[t].owner = keys[t].owner
             /\ keys[t].used => keys'[t].used
             /\ keys[t].revoked => keys'[t].revoked
       /\ \A i \in There :
             /\ users'[i].name = users[i].name
             /\ ~users[i].active => ~users'[i].active
             /\ users[i].linked => users'[i].linked]_accountVars

-----------------------------------------------------------------------------
(* Liveness: a handler that can go on does, and one that waits for a row or  *)
(* a name which is free again and again gets it: a database queues waiters. *)

FairAccountsSpec == AccountsSpec /\ \A k \in Calls : SF_accountVars(Handles(k))

\* Nobody waits for ever: of calls that want the same name or the same row,
\* one of which may die holding it, each is answered or refused.
EveryAccountCallEnds ==
    \A k \in Calls : []<>(calls[k].step = "idle")

=============================================================================
