--------------------------- MODULE MCSupportAgent ---------------------------
(* SupportAgent on the policies the repository ships and the messages and    *)
(* gateway answers its tests are about.                                      *)
EXTENDS SupportAgent, TLC

MCFacts ==
    WholePolicy["returns"] \cup
    {"return_shipping_cost", "standard_delivery_time", "express_delivery_time",
     "shipping_destinations", "shipping_cost", "order_state", "delivery_estimate",
     "tracking_reference", "refund_state", "refund_amount", "refund_timing",
     "stock_availability"}
MCLocales == {"en", "fr"}

\* app/agent/responses: no order or refund has an approved sentence, and
\* delivery has none in French.  One for the tracking reference is added, so
\* that a row which may or may not have one is sometimes answered from.
MCApproved ==
    ((WholePolicy["returns"] \cup {"stock_availability", "tracking_reference"}) \X MCLocales)
        \cup ({"standard_delivery_time", "express_delivery_time"} \X {"en"})

\* app/agent/policies: shipping is written in English only.
Delivery == {"standard_delivery_time", "express_delivery_time"}
MCEntries ==
    {[reference |-> "returns_en", locale |-> "en", facts |-> WholePolicy["returns"]],
     [reference |-> "returns_fr", locale |-> "fr", facts |-> WholePolicy["returns"]],
     [reference |-> "shipping_en", locale |-> "en", facts |-> Delivery]}

-----------------------------------------------------------------------------
(* Sentences *)

Small == [reports |-> {},  mentions |-> {},    mine  |-> FALSE, past |-> FALSE,
          asks    |-> FALSE, names  |-> {},    chases |-> FALSE, wants |-> {},
          policies |-> {}]
Asking(names, wants) == [Small EXCEPT !.names = names, !.wants = wants]

Returns  == Asking({"return_policy"}, {"return_window"})
Express  == Asking({"shipping_policy"}, {"express_delivery_time"})
Cost     == Asking({"shipping_policy"}, {"shipping_cost"})
Whole    == [Asking({"return_policy"}, {}) EXCEPT !.policies = {"returns"}]
Order    == Asking({"order_status"}, {"order_state"})
Tracking == Asking({"order_status"}, {"tracking_reference"})
Stock    == Asking({"product_availability"}, {"stock_availability"})
Amount   == Asking({}, {"refund_amount"})
\* "Where is my refund" and "where is my money", which has none of its words.
Refund   == [Asking({"return_policy"}, {"refund_state"}) EXCEPT !.chases = TRUE]
Money    == [Asking({}, {"refund_state"}) EXCEPT !.chases = TRUE]

\* Every way a sentence can speak of a danger, or ask about one.
Spoken == {[Small EXCEPT !.reports = reports, !.mentions = mentions,
                         !.mine = mine, !.past = past, !.asks = asks] :
              reports \in {{}, {"legal_threat"}}, mentions \in {{}, {"account_compromise"}},
              mine \in BOOLEAN, past \in BOOLEAN, asks \in BOOLEAN}
\* "How do you protect accounts?"
Protect == [Small EXCEPT !.mentions = {"account_compromise"}, !.asks = TRUE]

-----------------------------------------------------------------------------
(* Messages *)

Plain(message, locale) == [NoEnquiry EXCEPT !.message = message, !.locale = locale]
Supplied(enq, customer, order, product) ==
    [enq EXCEPT !.customer = customer, !.order = order, !.product = product]

PolicyMessages ==
    {Plain({Returns}, "en"), Plain({Returns}, "fr"), Plain({Returns}, "de"),
     Plain({Whole}, "en"), Plain({Whole, Returns}, "fr"), Plain({Whole, Express}, "en"),
     Plain({Asking({"return_policy"}, {})}, "en"),
     Plain({Express}, "fr"), Plain({Express, Cost}, "en"), Plain({Cost}, "en")}

DangerMessages ==
    {Plain({said}, "en") : said \in Spoken} \cup
    {Plain({said, Protect}, "en") : said \in Spoken} \cup
    {Plain({said, Returns}, "en") : said \in Spoken}

CommerceMessages ==
    {Supplied(Plain({Tracking}, "en"), "1", "4471", None),
     Supplied(Plain({Order, Tracking}, "en"), "1", "4471", None),
     Supplied(Plain({Refund, Amount}, "fr"), "1", "4471", "4471"),
     Supplied(Plain({Money}, "en"), "1", "4471", None),
     Supplied(Plain({Money}, "en"), None, None, None),
     Supplied(Plain({Refund, Express}, "en"), "1", "4471", None),
     Supplied(Plain({Stock}, "en"), None, None, "4471"),
     Supplied(Plain({Stock, Cost}, "fr"), "1", "12", "4471")}

StoppedMessages ==
    {Plain({Small}, "en"), Plain({Asking({}, {"return_window"})}, "en"),
     Plain({Returns, Express}, "en"), Plain({Order, Returns}, "en"),
     Supplied(Plain({Order}, "en"), None, None, None),
     Supplied(Plain({Refund}, "en"), "1", None, None), Plain({Stock}, "en")}

\* Every intent with every combination of inputs, in danger or not.
Threat == [Small EXCEPT !.mentions = {"legal_threat"}]
PlacedMessages ==
    {Supplied(Plain({said} \cup also, "en"), customer, order, product) :
        said \in {Returns, Express, Refund, Order, Stock}, also \in {{}, {Threat}},
        customer \in {None, "1"}, order \in {None, "4471"}, product \in {None, "12"}}

AllMessages ==
    PlacedMessages \cup PolicyMessages \cup DangerMessages \cup CommerceMessages
        \cup StoppedMessages

\* One of each kind: a policy question, a catalogue question and a danger.
FewMessages ==
    {Plain({Returns}, "fr"), Supplied(Plain({Stock}, "en"), None, None, "4471"),
     Plain({Threat}, "en")}

-----------------------------------------------------------------------------
(* Whatever a gateway hands over: rows of every kind, with or without each    *)
(* optional field, about what was asked or something else, of every age about *)
(* the two windows' edges.                                                    *)

Rows(identities, ages) ==
    {row \in UNION {[kind : {kind}, identity : identities, filled : SUBSET DOMAIN States[kind],
                     observed : {"live", "cached"}, age : ages] : kind \in Kinds} :
        Buildable(row)}
Shapes(shapes) == {[shape |-> s] : s \in shapes}
Finds(rs) == {[shape |-> "found", record |-> row] : row \in rs}

AnyAnswer(lookup) ==
    Finds(Rows({"4471", "12"}, -1..3))
        \cup Shapes({"not_available", "unavailable", "malformed", "misconfigured"})
FewAnswers(lookup) ==
    Finds({[kind |-> "product", identity |-> "4471", filled |-> {"in_stock"},
            observed |-> "live", age |-> 0]})
        \cup Shapes({"not_available", "misconfigured"})

Both     == {"knowledge_base", "commerce"}
OnlyText == {"knowledge_base"}

\* Messages are interchangeable, and so are the references they are filed under.
Interchangeable == Permutations(Requests) \cup Permutations(References)

=============================================================================
