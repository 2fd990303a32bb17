------------------------------ MODULE MCStartup ------------------------------
(* Startup on one policy, one fact and one message, in two languages.        *)
EXTENDS Startup

File(directory, what, locale, version) ==
    [directory |-> directory, what |-> what, locale |-> locale, version |-> version]

MCSorted ==
    <<File("policies", "returns", "en", 1), File("policies", "returns", "en", 2),
      File("policies", "returns", "fr", 1), File("policies", "returns", "fr", 2),
      File("responses", "window", "en", 1), File("responses", "window", "en", 2),
      File("responses", "window", "fr", 1), File("responses", "window", "fr", 2),
      File("outcome_messages", "checked", "en", 1), File("outcome_messages", "checked", "en", 2),
      File("outcome_messages", "checked", "fr", 1), File("outcome_messages", "checked", "fr", 2)>>

ClaimsOf(name, claims) == IF name.directory = "policies" THEN claims ELSE NoClaims
Written(name, approved, claims) ==
    [Absent(name) EXCEPT !.state = "written", !.approved = approved,
                         !.claims = ClaimsOf(name, claims)]

\* The first version in both languages, and the second of the policy with the
\* first kept, so that what was cited under it can still be found.
First  == [n \in Names |-> IF n.version = 1 THEN Written(n, TRUE, "thirty days")
                                            ELSE Absent(n)]
Second == [n \in Names |->
              CASE n.directory # "policies"                   -> First[n]
                [] n.directory = "policies" /\ n.version = 1 -> Written(n, FALSE, "thirty days")
                [] n.directory = "policies" /\ n.version = 2 -> Written(n, TRUE, "ten days")]
MCShipped == {First, Second}

Development == [production |-> FALSE, hardened |-> FALSE, demo |-> TRUE, database |-> TRUE,
                ttl |-> 1, readable |-> 1, embedder |-> "none"]
Production  == [Development EXCEPT !.production = TRUE, !.hardened = TRUE, !.demo = FALSE,
                                   !.readable = 2, !.embedder = "configured"]
MCEnvironments ==
    {Development, Production,
     [Development EXCEPT !.embedder = "misconfigured"],
     [Development EXCEPT !.ttl = 2],    [Development EXCEPT !.database = FALSE],
     [Production EXCEPT !.demo = TRUE], [Production EXCEPT !.hardened = FALSE]}

=============================================================================
