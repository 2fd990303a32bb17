--------------------------- MODULE SessionsProofs ---------------------------
(***************************************************************************)
(* What the refresh tokens promise holds for every set of tokens and        *)
(* accounts, however many sign-ins, refreshes and sign-outs there are.  And *)
(* for any number of calls, tokens, accounts and crashes the statements of  *)
(* the auth service keep their types and row locks and implement the token  *)
(* chain, so that what is proved of the chain holds of the service; and a   *)
(* logout that was answered is final.                                       *)
(***************************************************************************)
EXTENDS Sessions, TLAPS

-----------------------------------------------------------------------------
(* The token chain *)

\* What makes the two properties inductive: a token that was issued descends
\* from one that was issued, so that a new sign-in finds no token of its own
\* chain; and whatever is named as a successor was issued, so that a new token
\* finds itself named by nobody.
ChainIsClosed ==
    \A t \in Tokens :
        /\ chain[t] # Unissued =>
              /\ chain[t].user \in Users
              /\ chain[t].login \in Tokens
              /\ chain[chain[t].login] # Unissued
        /\ chain[t].replaced_by # NoToken => chain[chain[t].replaced_by] # Unissued

ChainInv ==
    /\ ChainTypeOK
    /\ ChainIsClosed
    /\ OneLiveTokenPerLogin
    /\ SuccessorsContinue

\* An empty table satisfies the inductive invariant.
LEMMA ChainStarts == ChainInit => ChainInv
BY TokensAssumption
   DEF ChainInit, ChainInv, ChainTypeOK, TokenRow, ChainIsClosed, OneLiveTokenPerLogin,
       SuccessorsContinue, Unissued

\* A sign-in: the new token is the whole of its chain.
LEMMA SignInKeeps ==
    ASSUME ChainInv, NEW t \in Tokens, NEW user \in Users, SignIn(t, user)
    PROVE  ChainInv'
<1> USE DEF ChainInv
<1>1. /\ chain' = [chain EXCEPT ![t] = Issued(user, t)]
      /\ chain[t] = Unissued
      /\ t # NoToken /\ user # NoUser
    BY TokensAssumption DEF SignIn
<1>2. /\ chain'[t] = Issued(user, t)
      /\ \A u \in Tokens \ {t} : chain'[u] = chain[u]
    BY <1>1 DEF ChainTypeOK
<1>3. Issued(user, t) \in TokenRow /\ Issued(user, t) # Unissued
    BY <1>1 DEF Issued, Unissued, TokenRow
<1>4. ChainTypeOK'
    BY <1>1, <1>3 DEF ChainTypeOK
<1>5. ChainIsClosed'
    BY <1>1, <1>2, <1>3 DEF ChainIsClosed, Issued, ChainTypeOK, TokenRow
<1>6. \A u \in Tokens \ {t} : chain[u].login # t
    BY <1>1 DEF ChainIsClosed, Unissued
<1>7. OneLiveTokenPerLogin'
    BY <1>2, <1>6 DEF OneLiveTokenPerLogin, Issued
<1>8. \A u \in Tokens : chain[u].replaced_by # t
    BY <1>1 DEF ChainIsClosed
<1>9. SuccessorsContinue'
    BY <1>2, <1>4, <1>8 DEF SuccessorsContinue, Issued, ChainTypeOK, TokenRow
<1> QED
    BY <1>4, <1>5, <1>7, <1>9

\* A refresh: the successor takes the place of the one good token there was.
LEMMA RotateKeeps ==
    ASSUME ChainInv, NEW t \in Tokens, NEW fresh \in Tokens, Rotate(t, fresh)
    PROVE  ChainInv'
<1> USE DEF ChainInv
<1> DEFINE spent == [chain[t] EXCEPT !.live = FALSE, !.replaced_by = fresh]
           heir  == Issued(chain[t].user, chain[t].login)
<1>1. /\ chain[t].live /\ chain[fresh] = Unissued
      /\ t # fresh /\ fresh # NoToken /\ chain[t] # Unissued
    BY TokensAssumption DEF Rotate, Unissued
<1>2. chain[t] \in TokenRow
    BY DEF ChainTypeOK
<1>3. /\ chain'[t] = spent /\ chain'[fresh] = heir
      /\ \A u \in Tokens \ {t, fresh} : chain'[u] = chain[u]
      /\ DOMAIN chain' = Tokens
      /\ chain' = [u \in Tokens |-> chain'[u]]
    BY <1>1, <1>2 DEF Rotate, Replacement, ChainTypeOK, TokenRow
<1>4. /\ spent \in TokenRow /\ heir \in TokenRow
      /\ spent.user = chain[t].user /\ spent.login = chain[t].login
      /\ ~spent.live /\ spent.replaced_by = fresh
      /\ heir.user = chain[t].user /\ heir.login = chain[t].login
      /\ heir.live /\ heir.replaced_by = NoToken
    BY <1>2 DEF TokenRow, Issued
<1> HIDE DEF spent, heir
<1>5. ChainTypeOK'
  <2>1. \A u \in Tokens : chain'[u] \in TokenRow
    BY <1>3, <1>4 DEF ChainTypeOK
  <2> QED
    BY <1>3, <2>1 DEF ChainTypeOK
<1>6. chain[t].user \in Users /\ chain[t].user # NoUser
    BY <1>1, TokensAssumption DEF ChainIsClosed
<1>7. spent # Unissued /\ heir # Unissued
  <2>1. Unissued.user = NoUser
    BY DEF Unissued
  <2> QED
    BY <1>4, <1>6, <2>1
<1>8. ChainIsClosed'
  <2> SUFFICES ASSUME NEW u \in Tokens
               PROVE  /\ chain'[u] # Unissued =>
                            /\ chain'[u].user \in Users
                            /\ chain'[u].login \in Tokens
                            /\ chain'[chain'[u].login] # Unissued
                      /\ chain'[u].replaced_by # NoToken =>
                            chain'[chain'[u].replaced_by] # Unissued
    BY DEF ChainIsClosed
  <2>1. \A v \in Tokens : chain[v] # Unissued => chain'[v] # Unissued
    BY <1>3, <1>7
  <2>2. chain[t].login \in Tokens /\ chain[chain[t].login] # Unissued
    BY <1>1 DEF ChainIsClosed
  <2>3. CASE u = t
    BY <1>3, <1>4, <1>6, <1>7, <2>1, <2>2, <2>3
  <2>5. CASE u = fresh
    BY <1>3, <1>4, <1>6, <1>7, <2>1, <2>2, <2>5
  <2>4. CASE u \notin {t, fresh}
    <3>1. chain'[u] = chain[u] /\ chain[u] \in TokenRow
        BY <1>3, <2>4 DEF ChainTypeOK
    <3>2. chain[u].replaced_by # NoToken => chain[u].replaced_by \in Tokens
        BY <3>1 DEF TokenRow
    <3> QED
        BY <2>1, <3>1, <3>2 DEF ChainIsClosed
  <2> QED
    BY <2>3, <2>4, <2>5
<1>9. OneLiveTokenPerLogin'
  <2>1. \A u \in Tokens : chain[u].live /\ chain[u].login = chain[t].login => u = t
    BY <1>1 DEF OneLiveTokenPerLogin
  <2>2. \A u \in Tokens : chain'[u].live =>
            u # t /\ (u # fresh => chain[u].live /\ chain'[u].login = chain[u].login)
    BY <1>3, <1>4
  <2>3. \A u \in Tokens \ {fresh} : chain'[u].live => chain'[u].login # heir.login
    BY <1>4, <2>1, <2>2
  <2>4. \A u, v \in Tokens \ {fresh} :
            chain'[u].live /\ chain'[v].live /\ chain'[u].login = chain'[v].login => u = v
    BY <2>2 DEF OneLiveTokenPerLogin
  <2> QED
    BY <1>3, <2>3, <2>4 DEF OneLiveTokenPerLogin
<1>10. \A u \in Tokens : chain[u].replaced_by # fresh
    BY <1>1 DEF ChainIsClosed
<1>11. SuccessorsContinue'
  <2>1. \A u \in Tokens : chain'[u].replaced_by # NoToken =>
            LET next == chain'[chain'[u].replaced_by]
            IN  ~chain'[u].live /\ next.user = chain'[u].user /\ next.login = chain'[u].login
    <3> SUFFICES ASSUME NEW u \in Tokens, chain'[u].replaced_by # NoToken
                 PROVE  LET next == chain'[chain'[u].replaced_by]
                        IN  /\ ~chain'[u].live
                            /\ next.user = chain'[u].user /\ next.login = chain'[u].login
        OBVIOUS
    <3>1. CASE u = t
        BY <1>3, <1>4, <3>1
    <3>2. u # fresh
        BY <1>3, <1>4
    <3>3. CASE u # t
      <4>1. chain'[u] = chain[u] /\ chain[u] \in TokenRow
        BY <1>3, <3>2, <3>3 DEF ChainTypeOK
      <4>2. chain[u].replaced_by \in Tokens /\ chain[u].replaced_by # fresh
        BY <4>1, <1>10 DEF TokenRow
      <4>3. /\ chain'[chain[u].replaced_by].user = chain[chain[u].replaced_by].user
            /\ chain'[chain[u].replaced_by].login = chain[chain[u].replaced_by].login
        BY <1>3, <1>4, <4>2
      <4> QED
        BY <4>1, <4>3 DEF SuccessorsContinue
    <3> QED
        BY <3>1, <3>3
  <2>2. \A u, v \in Tokens :
            chain'[u].replaced_by # NoToken /\ chain'[u].replaced_by = chain'[v].replaced_by
                => u = v
    BY <1>3, <1>4, <1>10 DEF SuccessorsContinue
  <2> QED
    BY <2>1, <2>2 DEF SuccessorsContinue
<1> QED
    BY <1>5, <1>8, <1>9, <1>11

\* A sign-out: one token stops being good and nothing else is written.
LEMMA RevokeKeeps ==
    ASSUME ChainInv, NEW t \in Tokens, Revoke(t)
    PROVE  ChainInv'
<1> USE DEF ChainInv
<1> DEFINE spent == [chain[t] EXCEPT !.live = FALSE]
<1>1. chain[t] \in TokenRow /\ chain[t].live
    BY DEF Revoke, ChainTypeOK
<1>2. /\ chain' = [chain EXCEPT ![t] = spent]
      /\ chain'[t] = spent
      /\ \A u \in Tokens \ {t} : chain'[u] = chain[u]
    BY DEF Revoke, ChainTypeOK
<1>3. /\ spent \in TokenRow
      /\ spent.user = chain[t].user /\ spent.login = chain[t].login
      /\ ~spent.live /\ spent.replaced_by = chain[t].replaced_by
    BY <1>1 DEF TokenRow
<1>4. chain[t] # Unissued
    BY <1>1 DEF Unissued
<1>5. spent # Unissued
    BY <1>3, <1>4, TokensAssumption DEF ChainIsClosed, Unissued
<1>6. ChainTypeOK'
    BY <1>2, <1>3 DEF ChainTypeOK
<1>7. \A u \in Tokens : /\ chain'[u].user = chain[u].user
                        /\ chain'[u].login = chain[u].login
                        /\ chain'[u].replaced_by = chain[u].replaced_by
                        /\ chain'[u].live => chain[u].live
                        /\ chain'[u] = Unissued <=> chain[u] = Unissued
    BY <1>2, <1>3, <1>4, <1>5
<1>8. \A u \in Tokens : chain[u].replaced_by \in Tokens \cup {NoToken}
    BY DEF ChainTypeOK, TokenRow
<1>9. ChainIsClosed'
    BY <1>7, <1>8 DEF ChainIsClosed
<1>10. OneLiveTokenPerLogin'
    BY <1>7 DEF OneLiveTokenPerLogin
<1>11. SuccessorsContinue'
    BY <1>7, <1>8 DEF SuccessorsContinue
<1> QED
    BY <1>6, <1>9, <1>10, <1>11

\* The inductive invariant: signing in, refreshing and signing out each keep
\* every row typed, every sign-in's tokens closed under replacement, and at
\* most one of them good.
LEMMA ChainKeeps == ChainInv /\ [ChainNext]_chain => ChainInv'
<1>1. ChainInv /\ ChainNext => ChainInv'
    BY SignInKeeps, RotateKeeps, RevokeKeeps DEF ChainNext
<1>2. ChainInv /\ UNCHANGED chain => ChainInv'
    BY DEF ChainInv, ChainTypeOK, ChainIsClosed, OneLiveTokenPerLogin, SuccessorsContinue
<1> QED
    BY <1>1, <1>2

\* The chain's rows are typed and closed, and each sign-in has at most one good
\* token, in every state it can reach.
THEOREM ChainInvariant == ChainSpec => []ChainInv
BY ChainStarts, ChainKeeps, PTL DEF ChainSpec

\* Every row in the table stays one the table can hold.
THEOREM ChainTyped == ChainSpec => []ChainTypeOK
BY ChainInvariant, PTL DEF ChainInv

\* One sign-in is worth one good token, however often it is refreshed.
THEOREM ChainHasOneLiveToken == ChainSpec => []OneLiveTokenPerLogin
BY ChainInvariant, PTL DEF ChainInv

\* Whatever was replaced is spent, and its one successor continues its sign-in.
THEOREM ChainContinues == ChainSpec => []SuccessorsContinue
BY ChainInvariant, PTL DEF ChainInv

\* A token that was issued and is no longer good never is again.
THEOREM ChainStaysSpent == ChainSpec => SpentStaysSpent
<1> DEFINE Stays(t) == chain[t] # Unissued /\ ~chain[t].live => chain'[t] = chain[t]
<1>1. ChainInv /\ [ChainNext]_chain => [\A t \in Tokens : Stays(t)]_chain
  <2> SUFFICES ASSUME ChainInv, ChainNext, NEW d \in Tokens PROVE Stays(d)
    OBVIOUS
  <2>1. ASSUME NEW t \in Tokens, NEW user \in Users, SignIn(t, user) PROVE Stays(d)
    BY <2>1 DEF SignIn, ChainInv, ChainTypeOK
  <2>2. ASSUME NEW t \in Tokens, NEW fresh \in Tokens, Rotate(t, fresh) PROVE Stays(d)
    <3>1. CASE d \in {t, fresh}
        BY <2>2, <3>1 DEF Rotate
    <3>2. CASE d \notin {t, fresh}
        BY <2>2, <3>2 DEF Rotate, Replacement, ChainInv, ChainTypeOK
    <3> QED
        BY <3>1, <3>2
  <2>3. ASSUME NEW t \in Tokens, Revoke(t) PROVE Stays(d)
    BY <2>3 DEF Revoke, ChainInv, ChainTypeOK
  <2> QED
    BY <2>1, <2>2, <2>3 DEF ChainNext
<1>2. QED
    BY <1>1, ChainInvariant, PTL DEF ChainSpec, SpentStaysSpent

-----------------------------------------------------------------------------
(* The service *)

\* What a call under way has in hand: a refresh and a logout a token, a login
\* an account, and the new token from the moment it was drawn until the end.
CallsAreEquipped ==
    \A k \in Calls :
        /\ calls[k].step # "idle" /\ calls[k].op = "login" =>
              calls[k].user \in Users /\ calls[k].step # "claimed"
        /\ calls[k].step # "idle" /\ calls[k].op # "login" => calls[k].token \in Tokens
        /\ calls[k].step \in {"admitted", "claimed", "committed"} /\ calls[k].op # "logout"
              => calls[k].fresh \in minted
        /\ calls[k].step \in {"idle", "received", "read"} \/ calls[k].op = "logout"
              => calls[k].fresh = NoToken
        /\ calls[k].fresh # NoToken => calls[k].fresh \in minted

\* A token nobody drew is not on file.
FiledWasMinted == \A t \in Tokens : chain[t] # Unissued => t \in minted

SessionsInv ==
    /\ ChainInv
    /\ SessionsTypeOK
    /\ CallsAreEquipped
    /\ FiledWasMinted
    /\ ClaimedIsStillGood

\* Before anybody has called, nothing is locked, drawn or on file.
LEMMA SessionsStart == SessionsInit => SessionsInv
BY TokensAssumption, CallsAssumption, SessionsAssumption, ChainStarts
   DEF SessionsInit, ChainInit, SessionsInv, SessionsTypeOK, ChainTypeOK, TokenRow,
       CallsAreEquipped, FiledWasMinted, ClaimedIsStillGood, Unissued, Idle, Call, Ops, Steps

\* A call that ends while it holds no row, or its row is given up with it,
\* leaves what the others hold as it was.
LEMMA EndingKeeps ==
    ASSUME SessionsInv, NEW k \in Calls, Ends(k),
           \A t \in Tokens : lock'[t] = IF lock[t] = k THEN Unlocked ELSE lock[t],
           UNCHANGED <<chain, minted>>
    PROVE  /\ calls' \in [Calls -> Call]
           /\ CallsAreEquipped'
           /\ FiledWasMinted'
           /\ ClaimedIsStillGood'
<1>1. /\ calls \in [Calls -> Call]
      /\ calls' = [calls EXCEPT ![k] = Idle]
      /\ Idle \in Call
      /\ Idle.step = "idle" /\ Idle.fresh = NoToken /\ Idle.op = "login"
    BY DEF SessionsInv, SessionsTypeOK, Ends, Idle, Call, Ops, Steps
<1>2. calls' \in [Calls -> Call]
    BY <1>1
<1>3. CallsAreEquipped'
    BY <1>1 DEF SessionsInv, CallsAreEquipped
<1>4. FiledWasMinted'
    BY DEF SessionsInv, FiledWasMinted
<1>5. ClaimedIsStillGood'
  <2> SUFFICES ASSUME NEW j \in Calls
               PROVE  /\ \A t \in Tokens : lock'[t] = j <=>
                            calls'[j].step = "claimed" /\ calls'[j].token = t
                      /\ calls'[j].step = "claimed" => chain'[calls'[j].token].live
                      /\ calls'[j].fresh # NoToken /\ calls'[j].step # "committed" =>
                            /\ chain'[calls'[j].fresh] = Unissued
                            /\ \A i \in Calls \ {j} : calls'[i].fresh # calls'[j].fresh
    BY DEF ClaimedIsStillGood
  <2>1. CASE j = k
    BY <1>1, <2>1, CallsAssumption
  <2>2. CASE j # k
    BY <1>1, <2>2, CallsAssumption DEF SessionsInv, ClaimedIsStillGood
  <2> QED
    BY <2>1, <2>2
<1> QED
    BY <1>2, <1>3, <1>4, <1>5

\* A call that only reads, and goes on to another step, disturbs nothing.
LEMMA ReadingKeeps ==
    ASSUME SessionsInv, NEW k \in Calls, NEW s \in Steps, Moves(k, s),
           \/ s = "read" /\ calls[k].step = "received"
           \/ s = "admitted" /\ calls[k].op = "logout" /\ calls[k].step = "received",
           UNCHANGED <<chain, lock, minted>>
    PROVE  /\ calls' \in [Calls -> Call]
           /\ CallsAreEquipped'
           /\ FiledWasMinted'
           /\ ClaimedIsStillGood'
<1>1. /\ calls \in [Calls -> Call]
      /\ calls' = [calls EXCEPT ![k].step = s]
    BY DEF SessionsInv, SessionsTypeOK, Moves
<1>2. calls' \in [Calls -> Call]
    BY <1>1 DEF Call
<1>3. /\ calls'[k].step = s /\ calls'[k].op = calls[k].op /\ calls'[k].user = calls[k].user
      /\ calls'[k].token = calls[k].token /\ calls'[k].fresh = calls[k].fresh
      /\ \A j \in Calls \ {k} : calls'[j] = calls[j]
    BY <1>1 DEF Call
<1>4. CallsAreEquipped'
    BY <1>3 DEF SessionsInv, CallsAreEquipped
<1>5. FiledWasMinted'
    BY DEF SessionsInv, FiledWasMinted
<1>6. ClaimedIsStillGood'
    BY <1>3 DEF SessionsInv, ClaimedIsStillGood, CallsAreEquipped
<1> QED
    BY <1>2, <1>4, <1>5, <1>6

\* Drawing a new token gives it to one call, and to nobody who has one.
LEMMA DrawingKeeps ==
    ASSUME SessionsInv, NEW k \in Calls, NEW fresh \in Tokens \ minted,
           calls[k].op # "logout", calls[k].step \in {"received", "read"},
           calls' = [calls EXCEPT ![k].step = "admitted", ![k].fresh = fresh],
           minted' = minted \cup {fresh},
           UNCHANGED <<chain, lock>>
    PROVE  /\ calls' \in [Calls -> Call]
           /\ CallsAreEquipped'
           /\ FiledWasMinted'
           /\ ClaimedIsStillGood'
<1>1. calls \in [Calls -> Call]
    BY DEF SessionsInv, SessionsTypeOK
<1>2. calls' \in [Calls -> Call]
    BY <1>1, ZenonT(30) DEF Call, Steps
<1>3. /\ calls'[k].step = "admitted" /\ calls'[k].op = calls[k].op
      /\ calls'[k].user = calls[k].user /\ calls'[k].token = calls[k].token
      /\ calls'[k].fresh = fresh
      /\ \A j \in Calls \ {k} : calls'[j] = calls[j]
    BY <1>1 DEF Call
<1>4. fresh \in Tokens /\ fresh \notin minted /\ fresh # NoToken
    BY TokensAssumption
<1>5. CallsAreEquipped'
  <2>1. minted' = minted \cup {fresh} /\ calls[k].step # "idle" /\ calls[k].op # "logout"
    OBVIOUS
  <2> SUFFICES ASSUME NEW j \in Calls
               PROVE  /\ calls'[j].step # "idle" /\ calls'[j].op = "login" =>
                            calls'[j].user \in Users /\ calls'[j].step # "claimed"
                      /\ calls'[j].step # "idle" /\ calls'[j].op # "login" =>
                            calls'[j].token \in Tokens
                      /\ /\ calls'[j].step \in {"admitted", "claimed", "committed"}
                         /\ calls'[j].op # "logout"
                         => calls'[j].fresh \in minted'
                      /\ \/ calls'[j].step \in {"idle", "received", "read"}
                         \/ calls'[j].op = "logout"
                         => calls'[j].fresh = NoToken
                      /\ calls'[j].fresh # NoToken => calls'[j].fresh \in minted'
    BY DEF CallsAreEquipped
  <2>2. CASE j = k
    BY <1>3, <2>1, <2>2 DEF SessionsInv, CallsAreEquipped
  <2>3. CASE j # k
    <3>1. calls'[j] = calls[j] /\ minted \subseteq minted'
        BY <1>3, <2>1, <2>3
    <3> QED
        BY <3>1 DEF SessionsInv, CallsAreEquipped
  <2> QED
    BY <2>2, <2>3
<1>6. FiledWasMinted'
    BY DEF SessionsInv, FiledWasMinted
<1>7. chain[fresh] = Unissued
    BY <1>4 DEF SessionsInv, FiledWasMinted
<1>8. \A j \in Calls : calls[j].fresh # fresh
    BY <1>4 DEF SessionsInv, CallsAreEquipped
<1>9. ClaimedIsStillGood'
  <2>1. lock' = lock /\ chain' = chain
    OBVIOUS
  <2> SUFFICES ASSUME NEW j \in Calls
               PROVE  /\ \A t \in Tokens : lock'[t] = j <=>
                            calls'[j].step = "claimed" /\ calls'[j].token = t
                      /\ calls'[j].step = "claimed" => chain'[calls'[j].token].live
                      /\ calls'[j].fresh # NoToken /\ calls'[j].step # "committed" =>
                            /\ chain'[calls'[j].fresh] = Unissued
                            /\ \A i \in Calls \ {j} : calls'[i].fresh # calls'[j].fresh
    BY DEF ClaimedIsStillGood
  <2>2. CASE j = k
    <3>1. \A t \in Tokens : lock[t] # k
        BY DEF SessionsInv, ClaimedIsStillGood
    <3>2. \A i \in Calls \ {k} : calls'[i].fresh # fresh
        BY <1>3, <1>8
    <3> QED
        BY <1>3, <1>7, <2>1, <2>2, <3>1, <3>2
  <2>3. CASE j # k
    <3>1. calls'[j] = calls[j] /\ calls[j].fresh # fresh
        BY <1>3, <1>8, <2>3
    <3>2. \A i \in Calls \ {j} : calls[i].fresh # calls[j].fresh
                                  => calls'[i].fresh # calls[j].fresh
        BY <1>3, <3>1
    <3>3. /\ \A t \in Tokens :
                lock[t] = j <=> calls[j].step = "claimed" /\ calls[j].token = t
          /\ calls[j].step = "claimed" => chain[calls[j].token].live
          /\ calls[j].fresh # NoToken /\ calls[j].step # "committed" =>
                /\ chain[calls[j].fresh] = Unissued
                /\ \A i \in Calls \ {j} : calls[i].fresh # calls[j].fresh
        BY DEF SessionsInv, ClaimedIsStillGood
    <3> QED
        BY <2>1, <3>1, <3>2, <3>3, ZenonT(30)
  <2> QED
    BY <2>2, <2>3
<1> QED
    BY <1>2, <1>5, <1>6, <1>9

\* A claim takes a free row of a good token, and holds it.
LEMMA ClaimingKeeps ==
    ASSUME SessionsInv, NEW k \in Calls,
           calls[k].op # "login", calls[k].step = "admitted",
           lock[calls[k].token] = Unlocked, chain[calls[k].token].live,
           lock' = [lock EXCEPT ![calls[k].token] = k], Moves(k, "claimed"),
           UNCHANGED <<chain, minted>>
    PROVE  /\ calls' \in [Calls -> Call]
           /\ lock' \in [Tokens -> Calls \cup {Unlocked}]
           /\ CallsAreEquipped'
           /\ FiledWasMinted'
           /\ ClaimedIsStillGood'
<1>1. /\ calls \in [Calls -> Call] /\ lock \in [Tokens -> Calls \cup {Unlocked}]
      /\ calls' = [calls EXCEPT ![k].step = "claimed"]
      /\ calls[k].token \in Tokens
    BY DEF SessionsInv, SessionsTypeOK, Moves, CallsAreEquipped
<1>2. calls' \in [Calls -> Call] /\ lock' \in [Tokens -> Calls \cup {Unlocked}]
    BY <1>1 DEF Call, Steps
<1>3. /\ calls'[k].step = "claimed" /\ calls'[k].op = calls[k].op /\ calls'[k].user = calls[k].user
      /\ calls'[k].token = calls[k].token /\ calls'[k].fresh = calls[k].fresh
      /\ \A j \in Calls \ {k} : calls'[j] = calls[j]
    BY <1>1 DEF Call
<1>4. CallsAreEquipped'
    BY <1>3 DEF SessionsInv, CallsAreEquipped
<1>5. FiledWasMinted'
    BY DEF SessionsInv, FiledWasMinted
<1>6. ClaimedIsStillGood'
  <2> SUFFICES ASSUME NEW j \in Calls
               PROVE  /\ \A t \in Tokens : lock'[t] = j <=>
                            calls'[j].step = "claimed" /\ calls'[j].token = t
                      /\ calls'[j].step = "claimed" => chain'[calls'[j].token].live
                      /\ calls'[j].fresh # NoToken /\ calls'[j].step # "committed" =>
                            /\ chain'[calls'[j].fresh] = Unissued
                            /\ \A i \in Calls \ {j} : calls'[i].fresh # calls'[j].fresh
    BY DEF ClaimedIsStillGood
  <2>1. CASE j = k
    BY <1>1, <1>3, <2>1 DEF SessionsInv, ClaimedIsStillGood
  <2>2. CASE j # k
    BY <1>1, <1>3, <2>2, CallsAssumption DEF SessionsInv, ClaimedIsStillGood
  <2> QED
    BY <2>1, <2>2
<1> QED
    BY <1>2, <1>4, <1>5, <1>6

-----------------------------------------------------------------------------
(* The commits, each of which is a step of the chain *)

\* Committing a login signs in.
LEMMA LoginsSignIn ==
    ASSUME SessionsInv, NEW k \in Calls, CommitLogin(k)
    PROVE  ChainNext
<1>1. calls[k].user \in Users /\ calls[k].fresh \in Tokens
    BY DEF SessionsInv, SessionsTypeOK, CallsAreEquipped, CommitLogin
<1> QED
    BY <1>1 DEF CommitLogin, ChainNext

\* Committing a refresh rotates: the token it claimed is still good, and the one
\* it drew is still nobody's.
LEMMA RefreshesRotate ==
    ASSUME SessionsInv, NEW k \in Calls, CommitRefresh(k)
    PROVE  /\ calls[k].token \in Tokens /\ calls[k].fresh \in Tokens
           /\ Rotate(calls[k].token, calls[k].fresh)
<1>1. calls[k].token \in Tokens /\ calls[k].fresh \in Tokens
    BY DEF SessionsInv, SessionsTypeOK, CallsAreEquipped, CommitRefresh
<1>2. chain[calls[k].token].live /\ chain[calls[k].fresh] = Unissued
    BY <1>1, TokensAssumption DEF SessionsInv, ClaimedIsStillGood, CommitRefresh
<1> QED
    BY <1>1, <1>2 DEF CommitRefresh, Rotate

\* Committing a logout revokes a token that is still good.
LEMMA LogoutsRevoke ==
    ASSUME SessionsInv, NEW k \in Calls, CommitLogout(k)
    PROVE  calls[k].token \in Tokens /\ Revoke(calls[k].token)
BY DEF SessionsInv, CallsAreEquipped, ClaimedIsStillGood, CommitLogout, Revoke

\* A commit changes the rows of the tokens in its hands alone, and gives up its
\* lock: whatever the other calls hold stays as it was.
LEMMA CommittingKeeps ==
    ASSUME SessionsInv, NEW k \in Calls,
           CommitLogin(k) \/ CommitRefresh(k) \/ CommitLogout(k)
    PROVE  /\ calls' \in [Calls -> Call]
           /\ CallsAreEquipped'
           /\ FiledWasMinted'
           /\ ClaimedIsStillGood'
<1>1. /\ calls \in [Calls -> Call] /\ lock \in [Tokens -> Calls \cup {Unlocked}]
      /\ chain \in [Tokens -> TokenRow] /\ minted \subseteq Tokens
      /\ calls' = [calls EXCEPT ![k].step = "committed"] /\ minted' = minted
    BY DEF SessionsInv, SessionsTypeOK, ChainTypeOK, Moves, CommitLogin, CommitRefresh,
           CommitLogout
<1>2. calls' \in [Calls -> Call]
    BY <1>1 DEF Call, Steps
<1>3. /\ calls'[k].step = "committed" /\ calls'[k].op = calls[k].op
      /\ calls'[k].user = calls[k].user
      /\ calls'[k].token = calls[k].token /\ calls'[k].fresh = calls[k].fresh
      /\ \A j \in Calls \ {k} : calls'[j] = calls[j]
    BY <1>1 DEF Call
<1>4. CallsAreEquipped'
  <2>1. calls[k].step # "idle"
    BY DEF CommitLogin, CommitRefresh, CommitLogout
  <2>2. calls[k].op # "logout" => calls[k].fresh \in minted
    BY DEF SessionsInv, CallsAreEquipped, CommitLogin, CommitRefresh, CommitLogout
  <2> QED
    BY <1>1, <1>3, <2>1, <2>2 DEF SessionsInv, CallsAreEquipped
<1>5. \A t \in Tokens : chain'[t] # chain[t] =>
          \/ t = calls[k].fresh /\ calls[k].fresh # NoToken
          \/ t = calls[k].token /\ lock[t] = k /\ chain[t].live
  <2>1. CASE CommitLogin(k)
    BY <1>1, <2>1, TokensAssumption DEF CommitLogin, SignIn
  <2>2. CASE CommitRefresh(k)
    BY <1>1, <2>2, RefreshesRotate, TokensAssumption, SMTT(20)
       DEF CommitRefresh, Rotate, Replacement, SessionsInv, ClaimedIsStillGood
  <2>3. CASE CommitLogout(k)
    BY <1>1, <2>3, LogoutsRevoke
       DEF CommitLogout, Revoke, SessionsInv, ClaimedIsStillGood
  <2> QED
    BY <2>1, <2>2, <2>3
<1>6. ~Unissued.live
    BY DEF Unissued
<1>7. FiledWasMinted'
    BY <1>1, <1>5, <1>6 DEF SessionsInv, FiledWasMinted, CallsAreEquipped
<1>8. /\ \A t \in Tokens : lock'[t] = IF lock[t] = k THEN Unlocked ELSE lock[t]
      /\ calls'[k].step # "claimed"
  <2>1. CASE CommitLogin(k)
    BY <1>1, <1>3, <2>1 DEF CommitLogin, SessionsInv, ClaimedIsStillGood, CallsAreEquipped
  <2>2. CASE CommitRefresh(k) \/ CommitLogout(k)
    <3>1. /\ calls[k].token \in Tokens /\ lock' = [lock EXCEPT ![calls[k].token] = Unlocked]
          /\ \A t \in Tokens : lock[t] = k <=> calls[k].token = t
        BY <2>2 DEF CommitRefresh, CommitLogout, Release, SessionsInv, ClaimedIsStillGood,
                    CallsAreEquipped
    <3> QED
        BY <1>1, <1>3, <3>1
  <2> QED
    BY <2>1, <2>2
<1>9. ClaimedIsStillGood'
  <2> SUFFICES ASSUME NEW j \in Calls
               PROVE  /\ \A t \in Tokens : lock'[t] = j <=>
                            calls'[j].step = "claimed" /\ calls'[j].token = t
                      /\ calls'[j].step = "claimed" => chain'[calls'[j].token].live
                      /\ calls'[j].fresh # NoToken /\ calls'[j].step # "committed" =>
                            /\ chain'[calls'[j].fresh] = Unissued
                            /\ \A i \in Calls \ {j} : calls'[i].fresh # calls'[j].fresh
    BY DEF ClaimedIsStillGood
  <2>1. CASE j = k
    BY <1>3, <1>8, <2>1, CallsAssumption
  <2>2. CASE j # k
    <3>1. calls'[j] = calls[j]
        BY <1>3, <2>2
    <3>2. \A t \in Tokens : lock'[t] = j <=> calls'[j].step = "claimed" /\ calls'[j].token = t
        BY <1>8, <2>2, <3>1, CallsAssumption DEF SessionsInv, ClaimedIsStillGood
    <3>3. ASSUME calls[j].step = "claimed" PROVE chain'[calls[j].token].live
      <4>1. /\ calls[j].token \in Tokens /\ chain[calls[j].token].live
            /\ lock[calls[j].token] = j
        BY <3>3 DEF SessionsInv, ClaimedIsStillGood, CallsAreEquipped
      <4>2. calls[k].fresh # NoToken => calls[j].token # calls[k].fresh
        <5>1. calls[k].fresh # NoToken => chain[calls[k].fresh] = Unissued
            BY DEF SessionsInv, ClaimedIsStillGood, CommitLogin, CommitRefresh, CommitLogout
        <5> QED
            BY <1>6, <4>1, <5>1
      <4> QED
        BY <1>5, <2>2, <4>1, <4>2
    <3>4. ASSUME calls[j].fresh # NoToken, calls[j].step # "committed"
          PROVE  /\ chain'[calls[j].fresh] = Unissued
                 /\ \A i \in Calls \ {j} : calls'[i].fresh # calls[j].fresh
      <4>1. /\ calls[j].fresh \in Tokens /\ chain[calls[j].fresh] = Unissued
            /\ \A i \in Calls \ {j} : calls[i].fresh # calls[j].fresh
        BY <1>1, <3>4 DEF SessionsInv, ClaimedIsStillGood, CallsAreEquipped
      <4>2. chain'[calls[j].fresh] = chain[calls[j].fresh]
        BY <1>5, <1>6, <2>2, <4>1
      <4> QED
        BY <1>3, <4>1, <4>2
    <3> QED
        BY <3>1, <3>2, <3>3, <3>4
  <2> QED
    BY <2>1, <2>2
<1> QED
    BY <1>2, <1>4, <1>7, <1>9

-----------------------------------------------------------------------------
(* Every step *)

\* A request that arrives takes an idle call and has nothing yet.
LEMMA SubmittingKeeps ==
    ASSUME SessionsInv, NEW k \in Calls, NEW op \in Ops,
           NEW user \in Users \cup {NoUser}, NEW token \in Tokens \cup {NoToken},
           op = "login" => user \in Users, op # "login" => token \in Tokens,
           Submit(k, op, user, token)
    PROVE  /\ calls' \in [Calls -> Call]
           /\ CallsAreEquipped'
           /\ FiledWasMinted'
           /\ ClaimedIsStillGood'
<1> DEFINE new == [Idle EXCEPT !.op = op, !.step = "received", !.user = user, !.token = token]
<1>1. /\ calls \in [Calls -> Call] /\ calls' = [calls EXCEPT ![k] = new]
      /\ calls[k].step = "idle" /\ UNCHANGED <<chain, lock, minted>>
    BY DEF SessionsInv, SessionsTypeOK, Submit
<1>2. /\ new \in Call
      /\ new.op = op /\ new.step = "received" /\ new.user = user /\ new.token = token
      /\ new.fresh = NoToken
    BY DEF Idle, Call, Steps
<1> HIDE DEF new
<1>3. calls' \in [Calls -> Call]
    BY <1>1, <1>2
<1>4. calls'[k] = new /\ \A j \in Calls \ {k} : calls'[j] = calls[j]
    BY <1>1
<1>5. CallsAreEquipped'
    BY <1>1, <1>2, <1>4 DEF SessionsInv, CallsAreEquipped
<1>6. FiledWasMinted'
    BY <1>1 DEF SessionsInv, FiledWasMinted
<1>7. ClaimedIsStillGood'
    BY <1>1, <1>2, <1>4 DEF SessionsInv, ClaimedIsStillGood
<1> QED
    BY <1>3, <1>5, <1>6, <1>7

\* Every step of the service is a step of the chain, or leaves it as it is: the
\* commits are its steps, and nothing is written before them.
LEMMA StepsImplement ==
    ASSUME SessionsInv, SessionsNext
    PROVE  [ChainNext]_chain
<1>1. ASSUME NEW k \in Calls, CommitLogin(k) PROVE ChainNext
    BY <1>1, LoginsSignIn
<1>2. ASSUME NEW k \in Calls, CommitRefresh(k) PROVE ChainNext
    BY <1>2, RefreshesRotate DEF ChainNext
<1>3. ASSUME NEW k \in Calls, CommitLogout(k) PROVE ChainNext
    BY <1>3, LogoutsRevoke DEF ChainNext
<1>4. ASSUME NEW k \in Calls,
             Arrives(k) \/ ReadToken(k) \/ ReadUser(k) \/ ClaimToken(k) \/ Deliver(k) \/ Fail(k)
      PROVE  UNCHANGED chain
    BY <1>4 DEF Arrives, Submit, ReadToken, ReadUser, ClaimToken, Deliver, Fail
<1>5. ASSUME NEW t \in Tokens, Expire(t) PROVE UNCHANGED chain
    BY <1>5 DEF Expire
<1>6. ASSUME NEW user \in Users, Deactivate(user) PROVE UNCHANGED chain
    BY <1>6 DEF Deactivate
<1> QED
    BY <1>1, <1>2, <1>3, <1>4, <1>5, <1>6 DEF SessionsNext, Handles

\* Every step of a call keeps what each call has in hand, and every row lock.
LEMMA CallsKeep ==
    ASSUME SessionsInv, NEW k \in Calls, Arrives(k) \/ Handles(k) \/ Fail(k)
    PROVE  /\ calls' \in [Calls -> Call]
           /\ lock' \in [Tokens -> Calls \cup {Unlocked}]
           /\ CallsAreEquipped'
           /\ FiledWasMinted'
           /\ ClaimedIsStillGood'
<1>1. /\ calls \in [Calls -> Call] /\ lock \in [Tokens -> Calls \cup {Unlocked}]
      /\ \A t \in Tokens : lock[t] = k => calls[k].step = "claimed"
    BY DEF SessionsInv, SessionsTypeOK, ClaimedIsStillGood
<1>2. CASE Arrives(k)
  <2>1. lock' = lock
    BY <1>2 DEF Arrives, Submit
  <2>2. PICK op \in Ops, user \in Users \cup {NoUser}, token \in Tokens \cup {NoToken} :
            /\ op = "login" => user \in Users
            /\ op # "login" => token \in Tokens
            /\ Submit(k, op, user, token)
    <3>1. CASE \E user \in Users : Submit(k, "login", user, NoToken)
        BY <3>1 DEF Ops
    <3>2. CASE \E token \in held :
                  \/ Submit(k, "refresh", chain[token].user, token)
                  \/ \E user \in Users : Submit(k, "logout", user, token)
      <4>1. \A token \in held : token \in Tokens /\ chain[token].user \in Users \cup {NoUser}
        BY DEF SessionsInv, SessionsTypeOK, ChainTypeOK, TokenRow
      <4>2. "refresh" \in Ops /\ "logout" \in Ops /\ "refresh" # "login" /\ "logout" # "login"
        BY DEF Ops
      <4> QED
        BY <3>2, <4>1, <4>2
    <3> QED
        BY <1>2, <3>1, <3>2 DEF Arrives
  <2> QED
    BY <1>1, <2>1, <2>2, SubmittingKeeps
<1>3. CASE /\ Ends(k) /\ calls[k].step # "claimed" /\ UNCHANGED <<chain, lock, minted>>
  <2>1. \A t \in Tokens : lock'[t] = IF lock[t] = k THEN Unlocked ELSE lock[t]
    BY <1>1, <1>3
  <2> QED
    BY <1>1, <1>3, <2>1, EndingKeeps
<1>4. CASE ReadToken(k)
  <2>1. UNCHANGED <<chain, lock, minted>> /\ calls[k].step = "received"
    BY <1>4 DEF ReadToken
  <2>2. CASE Ends(k)
    BY <1>3, <2>1, <2>2
  <2>3. CASE Moves(k, "read")
    BY <1>1, <2>1, <2>3, ReadingKeeps DEF Steps
  <2> QED
    BY <1>4, <2>2, <2>3 DEF ReadToken
<1>5. CASE ReadUser(k)
  <2>1. UNCHANGED <<chain, lock>> /\ calls[k].step \in {"received", "read"}
    BY <1>5 DEF ReadUser
  <2>2. CASE Ends(k) /\ UNCHANGED minted
    BY <1>3, <2>1, <2>2
  <2>3. CASE calls[k].op = "logout" /\ Moves(k, "admitted") /\ UNCHANGED minted
    <3>1. calls[k].step = "received"
        BY <1>5, <2>3 DEF ReadUser
    <3> QED
        BY <1>1, <2>1, <2>3, <3>1, ReadingKeeps DEF Steps
  <2>4. CASE /\ calls[k].op # "logout"
             /\ \E fresh \in Tokens \ minted :
                   /\ calls' = [calls EXCEPT ![k].step = "admitted", ![k].fresh = fresh]
                   /\ minted' = minted \cup {fresh}
    BY <1>1, <2>1, <2>4, DrawingKeeps
  <2> QED
    BY <1>5, <2>2, <2>3, <2>4 DEF ReadUser
<1>6. CASE ClaimToken(k)
  <2>1. /\ UNCHANGED <<chain, minted>>
        /\ calls[k].op # "login" /\ calls[k].step = "admitted" /\ lock[calls[k].token] = Unlocked
    BY <1>6 DEF ClaimToken
  <2>2. CASE Ends(k) /\ UNCHANGED lock
    BY <1>3, <2>1, <2>2
  <2>3. CASE /\ chain[calls[k].token].live
             /\ lock' = [lock EXCEPT ![calls[k].token] = k] /\ Moves(k, "claimed")
    BY <2>1, <2>3, ClaimingKeeps
  <2> QED
    BY <1>6, <2>2, <2>3 DEF ClaimToken
<1>7. CASE CommitLogin(k) \/ CommitRefresh(k) \/ CommitLogout(k)
  <2>1. lock' \in [Tokens -> Calls \cup {Unlocked}]
    BY <1>1, <1>7 DEF CommitLogin, CommitRefresh, CommitLogout, Release
  <2> QED
    BY <1>7, <2>1, CommittingKeeps
<1>8. CASE Deliver(k)
  <2>1. Ends(k) /\ calls[k].step # "claimed" /\ UNCHANGED <<chain, lock, minted>>
    BY <1>8 DEF Deliver
  <2> QED
    BY <1>3, <2>1
<1>9. CASE Fail(k)
  <2>1. /\ Ends(k) /\ UNCHANGED <<chain, minted>>
        /\ lock' = [t \in Tokens |-> IF lock[t] = k THEN Unlocked ELSE lock[t]]
    BY <1>9 DEF Fail
  <2>2. lock' \in [Tokens -> Calls \cup {Unlocked}]
    BY <1>1, <2>1
  <2> QED
    BY <2>1, <2>2, EndingKeeps
<1> QED
    BY <1>2, <1>4, <1>5, <1>6, <1>7, <1>8, <1>9 DEF Handles

\* Every step of the service keeps the inductive invariant.
LEMMA SessionsStepsKeep == SessionsInv /\ [SessionsNext]_sessionVars => SessionsInv'
<1> SUFFICES ASSUME SessionsInv, [SessionsNext]_sessionVars PROVE SessionsInv'
    OBVIOUS
<1>1. ASSUME UNCHANGED sessionVars PROVE SessionsInv'
    BY <1>1 DEF sessionVars, SessionsInv, ChainInv, ChainTypeOK, ChainIsClosed,
                OneLiveTokenPerLogin, SuccessorsContinue, SessionsTypeOK, CallsAreEquipped,
                FiledWasMinted, ClaimedIsStillGood
<1>2. ASSUME SessionsNext PROVE ChainInv'
    BY <1>2, StepsImplement, ChainKeeps DEF SessionsInv
<1>3. ASSUME NEW k \in Calls, Arrives(k) \/ Handles(k) \/ Fail(k)
      PROVE  /\ active' \subseteq Users
             /\ expired' \subseteq Tokens /\ minted' \subseteq Tokens
             /\ held' \subseteq Tokens /\ ended' \subseteq Tokens
             /\ failures' \in Nat
  <2>1. /\ active \subseteq Users
        /\ expired \subseteq Tokens /\ minted \subseteq Tokens
        /\ held \subseteq Tokens /\ ended \subseteq Tokens
        /\ failures \in Nat
    BY DEF SessionsInv, SessionsTypeOK
  <2>2. CASE Arrives(k) \/ ReadToken(k) \/ ClaimToken(k) \/ CommitLogin(k) \/ CommitRefresh(k)
             \/ CommitLogout(k)
    BY <2>1, <2>2 DEF Arrives, Submit, ReadToken, ClaimToken, CommitLogin, CommitRefresh,
                      CommitLogout
  <2>3. CASE ReadUser(k)
    BY <2>1, <2>3 DEF ReadUser
  <2>4. CASE Deliver(k)
    <3>1. /\ calls[k].op # "logout" => calls[k].fresh \in Tokens
          /\ calls[k].op = "logout" => calls[k].token \in Tokens
        BY <2>1, <2>4 DEF Deliver, SessionsInv, CallsAreEquipped
    <3> QED
        BY <2>1, <2>4, <3>1 DEF Deliver
  <2>5. CASE Fail(k)
    BY <2>1, <2>5 DEF Fail
  <2> QED
    BY <1>3, <2>2, <2>3, <2>4, <2>5 DEF Handles
<1>4. ASSUME NEW k \in Calls, Arrives(k) \/ Handles(k) \/ Fail(k) PROVE SessionsInv'
  <2>1. ChainInv'
    BY <1>2, <1>4 DEF SessionsNext
  <2>2. ChainTypeOK'
    BY <2>1 DEF ChainInv
  <2> QED
    BY <1>3, <1>4, <2>1, <2>2, CallsKeep DEF SessionsInv, SessionsTypeOK
<1>5. ASSUME \/ \E t \in Tokens : Expire(t)
             \/ \E user \in Users : Deactivate(user)
      PROVE  SessionsInv'
  <2>1. UNCHANGED <<chain, calls, lock, minted, held, ended, failures>>
    BY <1>5 DEF Expire, Deactivate
  <2>2. /\ expired' \subseteq Tokens /\ active' \subseteq Users
    BY <1>5 DEF Expire, Deactivate, SessionsInv, SessionsTypeOK
  <2>3. ChainInv'
    BY <1>2, <1>5 DEF SessionsNext
  <2> QED
    BY <2>1, <2>2, <2>3 DEF SessionsInv, ChainInv, SessionsTypeOK, CallsAreEquipped,
                            FiledWasMinted, ClaimedIsStillGood
<1> QED
    BY <1>1, <1>4, <1>5 DEF SessionsNext

\* Whatever is called, dies, expires or is deactivated, types and row locks hold.
THEOREM SessionsInvariant == SessionsSpec => []SessionsInv
BY SessionsStart, SessionsStepsKeep, PTL DEF SessionsSpec

\* Every variable of the service stays of its type.
THEOREM SessionsTyped == SessionsSpec => []SessionsTypeOK
BY SessionsInvariant, PTL DEF SessionsInv

\* A claimed row is one call's alone, is still good when it commits, and the
\* token drawn to replace it is still nobody else's.
THEOREM SessionsClaims == SessionsSpec => []ClaimedIsStillGood
BY SessionsInvariant, PTL DEF SessionsInv

\* The reads, conditional updates, commits and crashes of the code implement the
\* chain of tokens: each commit signs in, rotates or revokes, all else stutters.
THEOREM SessionsImplementChain == SessionsSpec => ChainSpec
<1>1. SessionsInit => ChainInit
    BY DEF SessionsInit
<1>2. SessionsInv /\ [SessionsNext]_sessionVars => [ChainNext]_chain
    BY StepsImplement DEF sessionVars
<1> QED
    BY <1>1, <1>2, SessionsInvariant, PTL DEF SessionsSpec, ChainSpec

\* One sign-in is worth one good token, however its refreshes are interleaved.
THEOREM SessionsHaveOneLiveToken == SessionsSpec => []OneLiveTokenPerLogin
BY SessionsImplementChain, ChainHasOneLiveToken, PTL

\* No two calls replace one token, whichever of them die.
THEOREM SessionsContinue == SessionsSpec => []SuccessorsContinue
BY SessionsImplementChain, ChainContinues, PTL

\* No step of any call makes a spent token good again.
THEOREM SessionsStaySpent == SessionsSpec => SpentStaysSpent
BY SessionsImplementChain, ChainStaysSpent, PTL

-----------------------------------------------------------------------------
(* What a client was told *)

\* The sign-in a token descends from is over: nothing of it is good.
Over(t) ==
    /\ chain[t] # Unissued
    /\ \A u \in Tokens : chain[u].login = chain[t].login => ~chain[u].live

\* The table knows the token, and by what call it came to be.
OnFile(t) ==
    /\ chain[t] # Unissued
    /\ t # chain[t].login => \E u \in Tokens : chain[u].replaced_by = t

\* What was answered is true, and what is committed and about to be answered is.
AnswersAreTrue ==
    /\ \A t \in ended : Over(t)
    /\ \A t \in held : OnFile(t)
    /\ \A k \in Calls : calls[k].step = "committed" =>
          IF calls[k].op = "logout" THEN Over(calls[k].token) ELSE OnFile(calls[k].fresh)

\* What every step of the chain leaves of a token that was issued: its sign-in,
\* and the name of its successor if it has one.
LEMMA IssuedKeepsItsLogin ==
    ASSUME ChainInv, [ChainNext]_chain, NEW t \in Tokens, chain[t] # Unissued
    PROVE  /\ chain'[t] # Unissued
           /\ chain'[t].login = chain[t].login
           /\ chain[t].replaced_by # NoToken => chain'[t].replaced_by = chain[t].replaced_by
<1> DEFINE Kept == /\ chain'[t].user = chain[t].user
                   /\ chain'[t].login = chain[t].login
                   /\ chain[t].replaced_by # NoToken =>
                         chain'[t].replaced_by = chain[t].replaced_by
<1>1. chain \in [Tokens -> TokenRow] /\ chain[t] \in TokenRow /\ chain[t].user # NoUser
    BY TokensAssumption DEF ChainInv, ChainTypeOK, ChainIsClosed
<1>2. ASSUME NEW s \in Tokens, NEW user \in Users, SignIn(s, user) PROVE Kept
    BY <1>1, <1>2 DEF SignIn
<1>3. ASSUME NEW s \in Tokens, NEW fresh \in Tokens, Rotate(s, fresh) PROVE Kept
  <2>1. t # fresh
    BY <1>3 DEF Rotate
  <2>2. CASE t = s
    <3>1. chain[t].replaced_by = NoToken
        BY <1>3, <2>2 DEF Rotate, ChainInv, SuccessorsContinue
    <3>2. chain'[t] = [chain[t] EXCEPT !.live = FALSE, !.replaced_by = fresh]
        BY <1>1, <1>3, <2>1, <2>2 DEF Rotate, Replacement, TokenRow
    <3> QED
        BY <1>1, <3>1, <3>2 DEF TokenRow
  <2>3. CASE t # s
    BY <1>1, <1>3, <2>1, <2>3 DEF Rotate, Replacement
  <2> QED
    BY <2>2, <2>3
<1>4. ASSUME NEW s \in Tokens, Revoke(s) PROVE Kept
  <2>1. CASE t = s
    <3>1. chain'[t] = [chain[t] EXCEPT !.live = FALSE]
        BY <1>1, <1>4, <2>1 DEF Revoke
    <3> QED
        BY <1>1, <3>1 DEF TokenRow
  <2>2. CASE t # s
    BY <1>1, <1>4, <2>2 DEF Revoke
  <2> QED
    BY <2>1, <2>2
<1>5. CASE UNCHANGED chain
    BY <1>5
<1>6. Kept
    BY <1>2, <1>3, <1>4, <1>5 DEF ChainNext
<1>7. chain'[t] # Unissued
    BY <1>1, <1>6 DEF Unissued
<1> QED
    BY <1>6, <1>7

\* A token that is good after a step was good before it, or is new and
\* descends from one that was, or from no sign-in there was.
LEMMA GoodHasAForebear ==
    ASSUME ChainInv, [ChainNext]_chain, NEW u \in Tokens, chain'[u].live
    PROVE  \/ \E s \in Tokens : chain[s].live /\ chain'[u].login = chain[s].login
           \/ chain[u] = Unissued /\ chain'[u].login = u
<1>1. chain \in [Tokens -> TokenRow]
    BY DEF ChainInv, ChainTypeOK
<1>2. ASSUME NEW s \in Tokens, NEW user \in Users, SignIn(s, user)
      PROVE  \/ u = s /\ chain[u] = Unissued /\ chain'[u].login = u
             \/ chain[u].live /\ chain'[u].login = chain[u].login
    BY <1>1, <1>2 DEF SignIn, Issued
<1>3. ASSUME NEW s \in Tokens, NEW fresh \in Tokens, Rotate(s, fresh)
      PROVE  \E v \in Tokens : chain[v].live /\ chain'[u].login = chain[v].login
  <2>1. chain[s].live /\ chain[fresh] = Unissued /\ s # fresh
    BY <1>3 DEF Rotate, Unissued
  <2>2. CASE u = fresh
    BY <1>1, <1>3, <2>1, <2>2 DEF Rotate, Replacement, Issued
  <2>3. CASE u = s
    <3>1. chain'[u] = [chain[u] EXCEPT !.live = FALSE, !.replaced_by = fresh]
        BY <1>1, <1>3, <2>1, <2>3 DEF Rotate, Replacement, TokenRow
    <3>2. chain[u] \in TokenRow
        BY <1>1
    <3>3. ~chain'[u].live
        BY <3>1, <3>2 DEF TokenRow
    <3> QED
        BY <3>3
  <2>4. CASE u \notin {s, fresh}
    BY <1>1, <1>3, <2>4 DEF Rotate, Replacement
  <2> QED
    BY <2>2, <2>3, <2>4
<1>4. ASSUME NEW s \in Tokens, Revoke(s)
      PROVE  chain[u].live /\ chain'[u].login = chain[u].login
  <2>1. CASE u = s
    <3>1. chain'[u] = [chain[u] EXCEPT !.live = FALSE] /\ chain[u] \in TokenRow
        BY <1>1, <1>4, <2>1 DEF Revoke
    <3>2. ~chain'[u].live
        BY <3>1 DEF TokenRow
    <3> QED
        BY <3>2
  <2>2. CASE u # s
    BY <1>1, <1>4, <2>2 DEF Revoke
  <2> QED
    BY <2>1, <2>2
<1>5. CASE UNCHANGED chain
    BY <1>5
<1> QED
    BY <1>2, <1>3, <1>4, <1>5 DEF ChainNext

\* A sign-in that is over stays over: nothing good descends from it any more,
\* and a new sign-in is another one.
LEMMA OverStays ==
    ASSUME ChainInv, [ChainNext]_chain, NEW t \in Tokens, Over(t)
    PROVE  Over(t)'
<1>1. chain'[t] # Unissued /\ chain'[t].login = chain[t].login
    BY IssuedKeepsItsLogin DEF Over
<1>2. chain[t].login \in Tokens /\ chain[chain[t].login] # Unissued
    BY DEF Over, ChainInv, ChainIsClosed
<1>3. ASSUME NEW u \in Tokens, chain'[u].login = chain[t].login, chain'[u].live PROVE FALSE
  <2>1. CASE \E s \in Tokens : chain[s].live /\ chain'[u].login = chain[s].login
    BY <1>3, <2>1 DEF Over
  <2>2. CASE chain[u] = Unissued /\ chain'[u].login = u
    BY <1>2, <1>3, <2>2
  <2> QED
    BY <1>3, <2>1, <2>2, GoodHasAForebear
<1> QED
    BY <1>1, <1>3 DEF Over

\* Revoking the one good token of a sign-in ends it.
LEMMA RevokingEnds ==
    ASSUME ChainInv, NEW t \in Tokens, Revoke(t)
    PROVE  Over(t)'
<1>1. chain \in [Tokens -> TokenRow] /\ chain[t].live /\ chain[t] # Unissued
    BY DEF ChainInv, ChainTypeOK, Revoke, Unissued
<1>2. /\ chain'[t] = [chain[t] EXCEPT !.live = FALSE]
      /\ \A u \in Tokens \ {t} : chain'[u] = chain[u]
    BY <1>1 DEF Revoke
<1>3. chain[t] \in TokenRow
    BY <1>1
<1>4. ~chain'[t].live /\ chain'[t].login = chain[t].login
    BY <1>2, <1>3 DEF TokenRow
<1>5. [ChainNext]_chain
    BY DEF ChainNext
<1>6. chain'[t] # Unissued
    BY <1>1, <1>5, IssuedKeepsItsLogin
<1>7. \A u \in Tokens \ {t} : chain[u].live => chain[u].login # chain[t].login
    BY <1>1 DEF ChainInv, OneLiveTokenPerLogin
<1>8. \A u \in Tokens : chain'[u].login = chain'[t].login => ~chain'[u].live
    BY <1>2, <1>4, <1>7
<1> QED
    BY <1>6, <1>8 DEF Over

\* A token on file stays on file, under the predecessor that names it.
LEMMA OnFileStays ==
    ASSUME ChainInv, [ChainNext]_chain, NEW t \in Tokens, OnFile(t)
    PROVE  OnFile(t)'
<1>1. chain'[t] # Unissued /\ chain'[t].login = chain[t].login
    BY IssuedKeepsItsLogin DEF OnFile
<1>2. ASSUME NEW u \in Tokens, chain[u].replaced_by = t PROVE chain'[u].replaced_by = t
  <2>1. chain[u].replaced_by # NoToken
    BY <1>2, TokensAssumption
  <2>2. chain[u] # Unissued
    BY <2>1 DEF Unissued
  <2> QED
    BY <1>2, <2>1, <2>2, IssuedKeepsItsLogin
<1> QED
    BY <1>1, <1>2 DEF OnFile

\* A call that has committed did so in this step, or had done so before it.
LEMMA CommittedByACommit ==
    ASSUME SessionsInv, SessionsNext, NEW k \in Calls, calls'[k].step = "committed"
    PROVE  /\ calls'[k].op = calls[k].op
           /\ calls'[k].token = calls[k].token /\ calls'[k].fresh = calls[k].fresh
           /\ \/ calls[k].step = "committed"
              \/ CommitLogin(k) \/ CommitRefresh(k) \/ CommitLogout(k)
<1>1. calls \in [Calls -> Call] /\ Idle.step = "idle"
    BY DEF SessionsInv, SessionsTypeOK, Idle
<1>2. ASSUME NEW j \in Calls, Ends(j) PROVE calls'[k] = calls[k]
    BY <1>1, <1>2 DEF Ends
<1>3. ASSUME NEW j \in Calls, NEW s \in Steps, Moves(j, s)
      PROVE  \/ j # k /\ calls'[k] = calls[k]
             \/ /\ j = k /\ s = "committed"
                /\ calls'[k].op = calls[k].op
                /\ calls'[k].token = calls[k].token /\ calls'[k].fresh = calls[k].fresh
    BY <1>1, <1>3 DEF Moves, Call
<1>4. ASSUME NEW j \in Calls, Arrives(j) PROVE calls'[k] = calls[k]
  <2>1. PICK op, user, token : Submit(j, op, user, token)
    BY <1>4 DEF Arrives
  <2> DEFINE new == [Idle EXCEPT !.op = op, !.step = "received", !.user = user, !.token = token]
  <2>2. calls' = [calls EXCEPT ![j] = new]
    BY <2>1 DEF Submit
  <2>3. new.step = "received"
    BY DEF Idle
  <2> HIDE DEF new
  <2> QED
    BY <1>1, <2>2, <2>3
<1>5. ASSUME NEW j \in Calls, ReadToken(j) \/ ClaimToken(j) \/ Deliver(j) \/ Fail(j)
      PROVE  calls'[k] = calls[k]
  <2>1. Ends(j) \/ Moves(j, "read") \/ Moves(j, "claimed")
    BY <1>5 DEF ReadToken, ClaimToken, Deliver, Fail
  <2> QED
    BY <1>2, <1>3, <2>1 DEF Steps
<1>6. ASSUME NEW j \in Calls, ReadUser(j) PROVE calls'[k] = calls[k]
  <2>1. \/ Ends(j)
        \/ Moves(j, "admitted")
        \/ \E fresh \in Tokens :
              calls' = [calls EXCEPT ![j].step = "admitted", ![j].fresh = fresh]
    BY <1>6 DEF ReadUser
  <2>2. ASSUME NEW fresh \in Tokens,
               calls' = [calls EXCEPT ![j].step = "admitted", ![j].fresh = fresh]
        PROVE  calls'[k] = calls[k]
    BY <1>1, <2>2 DEF Call
  <2> QED
    BY <1>2, <1>3, <2>1, <2>2 DEF Steps
<1>7. ASSUME NEW j \in Calls, CommitLogin(j) \/ CommitRefresh(j) \/ CommitLogout(j)
      PROVE  \/ j # k /\ calls'[k] = calls[k]
             \/ /\ j = k /\ calls'[k].op = calls[k].op
                /\ calls'[k].token = calls[k].token /\ calls'[k].fresh = calls[k].fresh
    BY <1>3, <1>7 DEF Steps, CommitLogin, CommitRefresh, CommitLogout
<1>8. CASE \/ \E t \in Tokens : Expire(t)
           \/ \E user \in Users : Deactivate(user)
    BY <1>8 DEF Expire, Deactivate
<1> QED
    BY <1>4, <1>5, <1>6, <1>7, <1>8 DEF SessionsNext, Handles

\* What a call commits is true from then on, what it delivers was true when it was
\* committed, and no step makes an earlier answer false.
LEMMA AnswersStayTrue ==
    ASSUME SessionsInv, AnswersAreTrue, SessionsNext
    PROVE  AnswersAreTrue'
<1>1. ChainInv /\ [ChainNext]_chain
    BY StepsImplement DEF SessionsInv
<1>2. /\ held \subseteq Tokens /\ ended \subseteq Tokens
      /\ \A k \in Calls : calls[k].step = "committed" =>
            IF calls[k].op = "logout" THEN calls[k].token \in Tokens
                                      ELSE calls[k].fresh \in Tokens
    BY DEF SessionsInv, SessionsTypeOK, CallsAreEquipped
<1>3. /\ \A t \in ended : Over(t)'
      /\ \A t \in held : OnFile(t)'
    BY <1>1, <1>2, OverStays, OnFileStays DEF AnswersAreTrue
<1>4. ASSUME NEW k \in Calls, calls[k].step = "committed"
      PROVE  /\ \A t : calls[k].op = "logout" /\ t = calls[k].token => Over(t)'
             /\ \A t : calls[k].op # "logout" /\ t = calls[k].fresh => OnFile(t)'
  <2>1. ASSUME NEW t \in Tokens, calls[k].op = "logout", t = calls[k].token PROVE Over(t)'
    BY <1>1, <1>4, <2>1, OverStays DEF AnswersAreTrue
  <2>2. ASSUME NEW t \in Tokens, calls[k].op # "logout", t = calls[k].fresh PROVE OnFile(t)'
    BY <1>1, <1>4, <2>2, OnFileStays DEF AnswersAreTrue
  <2> QED
    BY <1>2, <1>4, <2>1, <2>2
<1>5. ASSUME NEW k \in Calls, NEW t \in Tokens, CommitLogin(k), t = calls[k].fresh
      PROVE  OnFile(t)'
  <2>1. chain'[t] = Issued(calls[k].user, t)
    BY <1>5 DEF SessionsInv, ChainInv, ChainTypeOK, CommitLogin, SignIn
  <2> QED
    BY <2>1 DEF OnFile, Issued, Unissued
<1>6. ASSUME NEW k \in Calls, NEW t \in Tokens, CommitRefresh(k), t = calls[k].fresh
      PROVE  OnFile(t)'
  <2> DEFINE s == calls[k].token
  <2>1. s \in Tokens /\ chain[s].live /\ chain[t] = Unissued /\ chain' = Replacement(s, t)
    BY <1>6, RefreshesRotate DEF Rotate
  <2>2. s # t
    BY <2>1 DEF Unissued
  <2>3. /\ chain \in [Tokens -> TokenRow] /\ chain[s] \in TokenRow
    BY <2>1 DEF SessionsInv, ChainInv, ChainTypeOK
  <2>4. /\ chain'[t] = Issued(chain[s].user, chain[s].login)
        /\ chain'[s] = [chain[s] EXCEPT !.live = FALSE, !.replaced_by = t]
    BY <2>1, <2>2, <2>3 DEF Replacement, TokenRow
  <2>5. chain'[s].replaced_by = t /\ chain'[t] # Unissued
    BY <2>3, <2>4 DEF TokenRow, Issued, Unissued
  <2> QED
    BY <2>1, <2>5 DEF OnFile
<1>7. ASSUME NEW k \in Calls, NEW t \in Tokens, CommitLogout(k), t = calls[k].token
      PROVE  Over(t)'
    BY <1>1, <1>7, LogoutsRevoke, RevokingEnds
<1>8. ASSUME NEW k \in Calls, calls'[k].step = "committed"
      PROVE  /\ \A t : calls'[k].op = "logout" /\ t = calls'[k].token => Over(t)'
             /\ \A t : calls'[k].op # "logout" /\ t = calls'[k].fresh => OnFile(t)'
  <2>1. /\ calls'[k].op = calls[k].op
        /\ calls'[k].token = calls[k].token /\ calls'[k].fresh = calls[k].fresh
        /\ \/ calls[k].step = "committed"
           \/ CommitLogin(k) \/ CommitRefresh(k) \/ CommitLogout(k)
    BY <1>8, CommittedByACommit
  <2>2. CASE calls[k].step = "committed"
    BY <1>4, <2>1, <2>2
  <2>3. CASE CommitLogin(k)
    <3>1. calls[k].op = "login" /\ calls[k].fresh \in Tokens
        BY <2>3 DEF CommitLogin, SessionsInv, SessionsTypeOK, CallsAreEquipped
    <3> QED
        BY <1>5, <2>1, <2>3, <3>1
  <2>4. CASE CommitRefresh(k)
    <3>1. calls[k].op = "refresh" /\ calls[k].fresh \in Tokens
        BY <2>4, RefreshesRotate DEF CommitRefresh
    <3> QED
        BY <1>6, <2>1, <2>4, <3>1
  <2>5. CASE CommitLogout(k)
    <3>1. calls[k].op = "logout" /\ calls[k].token \in Tokens
        BY <2>5, LogoutsRevoke DEF CommitLogout
    <3> QED
        BY <1>7, <2>1, <2>5, <3>1
  <2> QED
    BY <2>1, <2>2, <2>3, <2>4, <2>5
<1>9. /\ held' = held
         \/ \E k \in Calls : /\ calls[k].step = "committed" /\ calls[k].op # "logout"
                            /\ held' = held \cup {calls[k].fresh}
      /\ ended' = ended
         \/ \E k \in Calls : /\ calls[k].step = "committed" /\ calls[k].op = "logout"
                            /\ ended' = ended \cup {calls[k].token}
  <2>1. ASSUME NEW k \in Calls, Arrives(k) \/ ReadToken(k) \/ ReadUser(k) \/ ClaimToken(k)
                                \/ CommitLogin(k) \/ CommitRefresh(k) \/ CommitLogout(k)
                                \/ Fail(k)
        PROVE  held' = held /\ ended' = ended
    BY <2>1 DEF Arrives, Submit, ReadToken, ReadUser, ClaimToken, CommitLogin, CommitRefresh,
                CommitLogout, Fail
  <2>2. CASE \/ \E t \in Tokens : Expire(t)
             \/ \E user \in Users : Deactivate(user)
    BY <2>2 DEF Expire, Deactivate
  <2>3. ASSUME NEW k \in Calls, Deliver(k)
        PROVE  /\ calls[k].step = "committed"
               /\ \/ calls[k].op = "logout" /\ held' = held
                     /\ ended' = ended \cup {calls[k].token}
                  \/ calls[k].op # "logout" /\ ended' = ended
                     /\ held' = held \cup {calls[k].fresh}
    BY <2>3 DEF Deliver
  <2> QED
    BY <2>1, <2>2, <2>3 DEF SessionsNext, Handles
<1>10. /\ \A t \in ended' : Over(t)'
       /\ \A t \in held' : OnFile(t)'
    BY <1>3, <1>4, <1>9
<1> QED
    BY <1>8, <1>10 DEF AnswersAreTrue, Over, OnFile

\* What any client was told, or is about to be, stays true for ever.
THEOREM SessionsAnswer == SessionsSpec => []AnswersAreTrue
<1>1. SessionsInit => AnswersAreTrue
    BY DEF SessionsInit, AnswersAreTrue, Idle
<1>2. SessionsInv /\ AnswersAreTrue /\ [SessionsNext]_sessionVars => AnswersAreTrue'
    BY AnswersStayTrue DEF sessionVars, AnswersAreTrue, Over, OnFile
<1> QED
    BY <1>1, <1>2, SessionsInvariant, PTL DEF SessionsSpec

\* A 204 to a logout is kept for ever: nothing good descends from that sign-in.
THEOREM SessionsLogOut == SessionsSpec => []LoggedOutMeansOver
<1>1. AnswersAreTrue => LoggedOutMeansOver
    BY DEF AnswersAreTrue, Over, LoggedOutMeansOver
<1> QED
    BY <1>1, SessionsAnswer, PTL

\* Every token a client was handed is on file, and its chain can be followed.
THEOREM SessionsFile == SessionsSpec => []HandedOverIsOnFile
<1>1. AnswersAreTrue => HandedOverIsOnFile
    BY DEF AnswersAreTrue, OnFile, HandedOverIsOnFile
<1> QED
    BY <1>1, SessionsAnswer, PTL

=============================================================================
