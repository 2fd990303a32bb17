----------------------------- MODULE TokenChain -----------------------------
(***************************************************************************)
(* What the refresh_tokens table promises (app/models/user.py, and the      *)
(* docstrings of app/services/auth.py): signing in starts a chain, spending *)
(* a token replaces it by one successor at once, and a revoked token is     *)
(* never good again.  Sessions shows that the reads, conditional UPDATEs,   *)
(* commits and crashes of the code implement it.                            *)
(***************************************************************************)
EXTENDS FiniteSets

CONSTANTS
    Tokens,  \* the jti a refresh token can be issued under
    Users    \* the accounts

NoToken == "no token"   \* a null replaced_by_jti
NoUser  == "no user"

ASSUME TokensAssumption == NoToken \notin Tokens /\ NoUser \notin Users

VARIABLE chain   \* refresh_tokens, by jti

\* "login" is a history field the table does not have: the token that was
\* issued at the sign-in this one descends from.
TokenRow ==
    [user        : Users \cup {NoUser},
     login       : Tokens \cup {NoToken},
     live        : BOOLEAN,
     replaced_by : Tokens \cup {NoToken}]

Unissued == [user |-> NoUser, login |-> NoToken, live |-> FALSE, replaced_by |-> NoToken]
Issued(user, login) ==
    [user |-> user, login |-> login, live |-> TRUE, replaced_by |-> NoToken]

\* Mutant: the successor's row is written and the spent one is left good.
ReplacementAlone(t, fresh) ==
    [chain EXCEPT ![fresh] = Issued(chain[t].user, chain[t].login)]

\* Mutant: the successor starts a chain of its own.
ReplacementStartsOver(t, fresh) ==
    [chain EXCEPT ![t].live        = FALSE,
                  ![t].replaced_by = fresh,
                  ![fresh]         = Issued(chain[t].user, fresh)]

\* Mutant: revoking forgets which token took over.
ReplacementUnnamed(t, fresh) ==
    [chain EXCEPT ![t].live    = FALSE,
                  ![fresh]     = Issued(chain[t].user, chain[t].login)]

\* rotate_refresh_token's two writes.
Replacement(t, fresh) ==
    [chain EXCEPT ![t].live        = FALSE,
                  ![t].replaced_by = fresh,
                  ![fresh]         = Issued(chain[t].user, chain[t].login)]

-----------------------------------------------------------------------------
ChainInit == chain = [t \in Tokens |-> Unissued]

\* create_tokens_for_user
SignIn(t, user) ==
    /\ chain[t] = Unissued
    /\ chain' = [chain EXCEPT ![t] = Issued(user, t)]

\* rotate_refresh_token, where it succeeds.
Rotate(t, fresh) ==
    /\ chain[t].live
    /\ chain[fresh] = Unissued
    /\ chain' = Replacement(t, fresh)

\* revoke_refresh_token, where it succeeds.
Revoke(t) ==
    /\ chain[t].live
    /\ chain' = [chain EXCEPT ![t].live = FALSE]

ChainNext ==
    \E t \in Tokens :
        \/ \E user \in Users : SignIn(t, user)
        \/ \E fresh \in Tokens : Rotate(t, fresh)
        \/ Revoke(t)

ChainSpec == ChainInit /\ [][ChainNext]_chain

-----------------------------------------------------------------------------
(* What follows from the promise, for every set of tokens and accounts.     *)

\* Every row is one the table can hold.
ChainTypeOK == chain \in [Tokens -> TokenRow]

\* However often it is refreshed, one sign-in is worth one good token.
OneLiveTokenPerLogin ==
    \A t, u \in Tokens :
        chain[t].live /\ chain[u].live /\ chain[t].login = chain[u].login => t = u

\* Whatever was replaced is spent, its successor continues the same sign-in of
\* the same account, and no token succeeds two.
SuccessorsContinue ==
    /\ \A t \in Tokens : chain[t].replaced_by # NoToken =>
          LET heir == chain[chain[t].replaced_by]
          IN  ~chain[t].live /\ heir.user = chain[t].user /\ heir.login = chain[t].login
    /\ \A t, u \in Tokens :
          chain[t].replaced_by # NoToken /\ chain[t].replaced_by = chain[u].replaced_by => t = u

\* A token that was issued and is no longer good never is again.
SpentStaysSpent ==
    [][\A t \in Tokens :
          chain[t] # Unissued /\ ~chain[t].live => chain'[t] = chain[t]]_chain

=============================================================================
