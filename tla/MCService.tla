------------------------------ MODULE MCService ------------------------------
(* Service on the demo shop, with two customers and one member of staff.     *)
EXTENDS Service

MCFacts == {"return_window", "order_state", "tracking_reference", "delivery_estimate",
            "refund_state", "refund_amount", "standard_delivery_time",
            "return_eligibility", "return_excluded_categories", "return_sale_items",
            "return_final_sale", "proof_of_purchase", "stock_availability"}
MCLocales  == {"en", "fr"}
MCApproved == {<<"return_window", "fr">>, <<"stock_availability", "en">>}
MCEntries  == {[reference |-> "returns_fr", locale |-> "fr", facts |-> {"return_window"}]}

Saying(names, wants) ==
    [reports |-> {}, mentions |-> {}, mine |-> FALSE, past |-> FALSE, asks |-> FALSE,
     names |-> names, chases |-> FALSE, wants |-> wants, policies |-> {}]
Sending(sentence, locale, customer, order) ==
    [message |-> {sentence}, locale |-> locale, customer |-> customer, order |-> order,
     product |-> None]

Returns == Saying({"return_policy"}, {"return_window"})
Order   == Saying({"order_status"}, {"order_state"})

\* A policy question, an order of one's own, and an order of somebody else, asked
\* about from an account in a language nothing is written in.
MCMessages ==
    {Sending(Returns, "fr", None, None), Sending(Order, "en", "1", "4471"),
     Sending(Order, "de", "1", "5510")}

\* The shop, when it can be reached.
MCAnswers(lookup) == DemoAnswers(lookup) \cup {[shape |-> "unavailable"]}

Both == {"knowledge_base", "commerce"}

\* References are interchangeable, and TLC cannot use symmetry on liveness: which
\* of them is minted first is fixed.
FirstMinted == CHOOSE c \in References : TRUE

DayNext == ServiceNext /\ (minted' # {} => FirstMinted \in minted')
DaySpec == ServiceInit /\ [][DayNext]_serviceVars /\ ServiceFairness

=============================================================================
