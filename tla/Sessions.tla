------------------------------ MODULE Sessions ------------------------------
(***************************************************************************)
(* Signing in, refreshing and signing out, as app/services/auth.py and      *)
(* app/api/auth.py do it: every call reads what it needs, claims the token  *)
(* with a conditional UPDATE that locks the row it matches, commits, and    *)
(* only then answers.  Calls interleave at every statement; any of them may *)
(* die, which rolls an open transaction back and loses an answer that was   *)
(* not yet delivered.  Tokens expire and accounts are deactivated at any    *)
(* moment.  A token is a signed value: only one that was delivered can be   *)
(* presented, by anybody it may have reached.                               *)
(***************************************************************************)
EXTENDS TokenChain, Naturals

CONSTANTS
    Calls,       \* the HTTP requests that may be in progress at once
    MaxFailures  \* bound on the calls that die part way through

ASSUME SessionsAssumption == MaxFailures \in Nat

VARIABLES
    calls,     \* what each call is doing
    lock,      \* the call whose open transaction holds a token's row
    active,    \* the accounts with is_active
    expired,   \* the tokens whose expires_at has passed
    minted,    \* the jti drawn so far
    held,      \* the tokens that reached a client
    ended,     \* the tokens whose sign-out was answered with a 204
    failures   \* how many calls have died

sessionVars == <<chain, calls, lock, active, expired, minted, held, ended, failures>>

Unlocked == "unlocked"
ASSUME CallsAssumption == Unlocked \notin Calls

Ops   == {"login", "refresh", "logout"}
Steps == {"idle", "received", "read", "admitted", "claimed", "committed"}

Call == [op    : Ops,                       step  : Steps,
         user  : Users \cup {NoUser},       token : Tokens \cup {NoToken},
         fresh : Tokens \cup {NoToken}]
Idle == [op    |-> "login", step  |-> "idle", user |-> NoUser,
         token |-> NoToken, fresh |-> NoToken]

SessionsInit ==
    /\ ChainInit
    /\ calls = [k \in Calls |-> Idle]
    /\ lock = [t \in Tokens |-> Unlocked]
    /\ active = Users
    /\ expired = {} /\ minted = {} /\ held = {} /\ ended = {}
    /\ failures = 0

Ends(k)        == calls' = [calls EXCEPT ![k] = Idle]
Moves(k, step) == calls' = [calls EXCEPT ![k].step = step]

-----------------------------------------------------------------------------
(* What reaches the endpoints *)

Submit(k, op, user, token) ==
    /\ calls[k].step = "idle"
    /\ calls' = [calls EXCEPT ![k] = [Idle EXCEPT !.op = op, !.step = "received",
                                                  !.user = user, !.token = token]]
    /\ UNCHANGED <<chain, lock, active, expired, minted, held, ended, failures>>

\* The bound: a call that will need a new token arrives only while there are
\* more of them than calls under way that may draw one.
TokensLeft ==
    Cardinality({k \in Calls : calls[k].step \in {"received", "read"}})
        < Cardinality(Tokens \ minted)

\* A login names an account; a refresh presents a token that reached somebody,
\* and its signature says whose it is; a logout presents one too, from whoever
\* is signed in, whose it need not be.
Arrives(k) ==
    \/ TokensLeft /\ \E user \in Users : Submit(k, "login", user, NoToken)
    \/ TokensLeft /\ \E token \in held : Submit(k, "refresh", chain[token].user, token)
    \/ \E user \in Users, token \in held : Submit(k, "logout", user, token)

-----------------------------------------------------------------------------
(* The reads, each of which may be out of date when it is acted on *)

\* rotate_refresh_token: the SELECT of the presented token.
ReadToken(k) ==
    /\ calls[k].op = "refresh" /\ calls[k].step = "received"
    /\ IF chain[calls[k].token].live /\ calls[k].token \notin expired
       THEN Moves(k, "read") ELSE Ends(k)
    /\ UNCHANGED <<chain, lock, active, expired, minted, held, ended, failures>>

\* An account that is active, as all three ask, and for a logout a token of its
\* own that decode_token accepts.
Admissible(call) ==
    /\ call.user \in active
    /\ call.op = "logout" => /\ call.token \notin expired
                             /\ chain[call.token].user = call.user

\* The SELECT of the account, in authenticate_user, in rotate_refresh_token
\* and, for a logout, in get_current_user; then the new token is drawn.
ReadUser(k) ==
    /\ \/ calls[k].op = "refresh" /\ calls[k].step = "read"
       \/ calls[k].op # "refresh" /\ calls[k].step = "received"
    /\ \/ /\ ~Admissible(calls[k])
          /\ Ends(k)
          /\ UNCHANGED minted
       \/ /\ Admissible(calls[k])
          /\ calls[k].op = "logout"
          /\ Moves(k, "admitted")
          /\ UNCHANGED minted
       \/ /\ Admissible(calls[k])
          /\ calls[k].op # "logout"
          /\ \E fresh \in Tokens \ minted :
                /\ calls' = [calls EXCEPT ![k].step = "admitted", ![k].fresh = fresh]
                /\ minted' = minted \cup {fresh}
    /\ UNCHANGED <<chain, lock, active, expired, held, ended, failures>>

-----------------------------------------------------------------------------
(* The writes *)

\* Mutant: the UPDATE matches the jti alone.
ClaimWhatever(k) ==
    LET token == calls[k].token
    IN  /\ calls[k].op # "login" /\ calls[k].step = "admitted"
        /\ lock[token] = Unlocked
        /\ lock' = [lock EXCEPT ![token] = k]
        /\ Moves(k, "claimed")
        /\ UNCHANGED <<chain, active, expired, minted, held, ended, failures>>

\* Mutant: the row is claimed without waiting for whoever holds it.
ClaimWithoutWaiting(k) ==
    LET token == calls[k].token
    IN  /\ calls[k].op # "login" /\ calls[k].step = "admitted"
        /\ chain[token].live
        /\ lock' = [lock EXCEPT ![token] = k]
        /\ Moves(k, "claimed")
        /\ UNCHANGED <<chain, active, expired, minted, held, ended, failures>>

\* "Claim the token with a conditional update rather than a row lock": it
\* waits for the row, and matches it only while revoked_at is null.
ClaimToken(k) ==
    LET token == calls[k].token
    IN  /\ calls[k].op # "login" /\ calls[k].step = "admitted"
        /\ lock[token] = Unlocked
        /\ \/ /\ chain[token].live
              /\ lock' = [lock EXCEPT ![token] = k]
              /\ Moves(k, "claimed")
           \/ /\ ~chain[token].live
              /\ Ends(k)
              /\ UNCHANGED lock
        /\ UNCHANGED <<chain, active, expired, minted, held, ended, failures>>

\* The commit: of an insert alone, of a claim with its replacement, or of a
\* claim alone.
CommitLogin(k) ==
    /\ calls[k].op = "login" /\ calls[k].step = "admitted"
    /\ SignIn(calls[k].fresh, calls[k].user)
    /\ Moves(k, "committed")
    /\ UNCHANGED <<lock, active, expired, minted, held, ended, failures>>

\* Mutant: the transaction is left open.
LeaveLocked(token) == UNCHANGED lock

Release(token) == lock' = [lock EXCEPT ![token] = Unlocked]

CommitRefresh(k) ==
    /\ calls[k].op = "refresh" /\ calls[k].step = "claimed"
    /\ chain' = Replacement(calls[k].token, calls[k].fresh)
    /\ Release(calls[k].token)
    /\ Moves(k, "committed")
    /\ UNCHANGED <<active, expired, minted, held, ended, failures>>

CommitLogout(k) ==
    /\ calls[k].op = "logout" /\ calls[k].step = "claimed"
    /\ chain' = [chain EXCEPT ![calls[k].token].live = FALSE]
    /\ Release(calls[k].token)
    /\ Moves(k, "committed")
    /\ UNCHANGED <<active, expired, minted, held, ended, failures>>

\* The answer: a pair of tokens, or a 204.
Deliver(k) ==
    /\ calls[k].step = "committed"
    /\ IF calls[k].op = "logout"
       THEN ended' = ended \cup {calls[k].token} /\ UNCHANGED held
       ELSE held' = held \cup {calls[k].fresh} /\ UNCHANGED ended
    /\ Ends(k)
    /\ UNCHANGED <<chain, lock, active, expired, minted, failures>>

-----------------------------------------------------------------------------
(* What happens around them *)

Fail(k) ==
    /\ calls[k].step # "idle"
    /\ failures < MaxFailures
    /\ failures' = failures + 1
    /\ lock' = [t \in Tokens |-> IF lock[t] = k THEN Unlocked ELSE lock[t]]
    /\ Ends(k)
    /\ UNCHANGED <<chain, active, expired, minted, held, ended>>

Expire(t) ==
    /\ chain[t] # Unissued /\ t \notin expired
    /\ expired' = expired \cup {t}
    /\ UNCHANGED <<chain, calls, lock, active, minted, held, ended, failures>>

Deactivate(user) ==
    /\ user \in active
    /\ active' = active \ {user}
    /\ UNCHANGED <<chain, calls, lock, expired, minted, held, ended, failures>>

Handles(k) ==
    \/ ReadToken(k) \/ ReadUser(k) \/ ClaimToken(k)
    \/ CommitLogin(k) \/ CommitRefresh(k) \/ CommitLogout(k) \/ Deliver(k)

SessionsNext ==
    \/ \E k \in Calls : Arrives(k) \/ Handles(k) \/ Fail(k)
    \/ \E t \in Tokens : Expire(t)
    \/ \E user \in Users : Deactivate(user)

SessionsSpec == SessionsInit /\ [][SessionsNext]_sessionVars

-----------------------------------------------------------------------------
(* Properties                                                               *)

\* Every variable is of its type.
SessionsTypeOK ==
    /\ ChainTypeOK
    /\ calls \in [Calls -> Call]
    /\ lock \in [Tokens -> Calls \cup {Unlocked}]
    /\ active \subseteq Users
    /\ expired \subseteq Tokens /\ minted \subseteq Tokens
    /\ held \subseteq Tokens /\ ended \subseteq Tokens
    /\ failures \in Nat

\* A row is locked by exactly the call that has claimed it and not committed,
\* it is good until that call commits, and the token drawn to replace it is
\* still nobody else's.
ClaimedIsStillGood ==
    \A k \in Calls :
        /\ \A t \in Tokens :
              lock[t] = k <=> calls[k].step = "claimed" /\ calls[k].token = t
        /\ calls[k].step = "claimed" => chain[calls[k].token].live
        /\ calls[k].fresh # NoToken /\ calls[k].step # "committed" =>
              /\ chain[calls[k].fresh] = Unissued
              /\ \A j \in Calls \ {k} : calls[j].fresh # calls[k].fresh

\* A 204 to a logout is kept: from then on nothing descended from that sign-in
\* is good, whatever refresh was under way when it was pressed.
LoggedOutMeansOver ==
    \A t \in ended : \A u \in Tokens : chain[u].login = chain[t].login => ~chain[u].live

\* Every token a client was handed is on file, and unless a sign-in issued it,
\* the token it replaced says so: a chain can be followed from end to end.
HandedOverIsOnFile ==
    \A t \in held :
        /\ chain[t] # Unissued
        /\ t # chain[t].login => \E u \in Tokens : chain[u].replaced_by = t

\* Calls that wait for one another's rows are all answered or refused: no
\* refresh or logout hangs.
EveryCallEnds == \A k \in Calls : calls[k].step = "received" ~> calls[k].step = "idle"

\* Handlers run to their end, and a transaction waiting for a row gets it.
SessionsFairness ==
    \A k \in Calls : WF_sessionVars(Handles(k)) /\ SF_sessionVars(ClaimToken(k))

FairSessionsSpec == SessionsSpec /\ SessionsFairness

=============================================================================
