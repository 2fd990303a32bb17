------------------------------ MODULE MCSessions ------------------------------
(* Sessions on three tokens and two calls at once. *)
EXTENDS Sessions

\* Tokens are interchangeable, and TLC cannot use symmetry on liveness: the
\* order in which they are drawn is fixed by hand.
Nth == CHOOSE f \in [1 .. Cardinality(Tokens) -> Tokens] :
          \A i, j \in DOMAIN f : f[i] = f[j] => i = j

\* One account signs in.  The others are there to present its first token at
\* logout.
Customer == CHOOSE user \in Users : TRUE

OrderedNext ==
    /\ SessionsNext
    /\ \A i, j \in DOMAIN Nth : i < j /\ Nth[j] \in minted' => Nth[i] \in minted'
    /\ \A k \in Calls : calls'[k].user \in Users \ {Customer} =>
          calls'[k].op = "logout" /\ calls'[k].token = Nth[1]
    /\ Users \ active' \subseteq {Customer}

OrderedSpec == SessionsInit /\ [][OrderedNext]_sessionVars /\ SessionsFairness

=============================================================================
