----------------------------- MODULE Storefront -----------------------------
(***************************************************************************)
(* The invented shop behind the gateway (app/agent/demo.py).  A row is filed *)
(* under the account it belongs to, so that asking for somebody else's is   *)
(* asking for a key that is not there.                                      *)
(***************************************************************************)
EXTENDS Records

\* _ORDERS, _REFUNDS and _PRODUCTS: what is filed under whom.
Filing(kind, owner, reference, filled) ==
    [kind |-> kind, owner |-> owner, reference |-> reference, filled |-> filled]

Filings ==
    {Filing("order",   "1", "4471", {"state", "tracking_reference", "expected_delivery"}),
     Filing("order",   "1", "4472", {"state"}),
     Filing("order",   "1", "4468", {"state", "tracking_reference", "expected_delivery"}),
     Filing("order",   "2", "5510", {"state", "tracking_reference", "expected_delivery"}),
     Filing("refund",  "1", "4468", {"state", "amount", "currency"}),
     Filing("refund",  "1", "4472", {"state"}),
     Filing("refund",  "2", "5510", {"state"}),
     Filing("product", None, "12", {"in_stock"}),
     Filing("product", None, "13", {"in_stock"}),
     Filing("product", None, "27", {"in_stock"})}

NotAvailable == [shape |-> "not_available"]

\* Read at the moment it is asked for.
Found(filing) ==
    [shape  |-> "found",
     record |-> [kind   |-> filing.kind,   identity |-> filing.reference,
                 filled |-> filing.filled, observed |-> "live", age |-> 0]]

\* Mutant: filed under the reference alone.
UnderKeyAlone(lookup) ==
    {f \in Filings : f.kind = lookup.asks /\ f.reference = lookup.about}

\* The key a lookup names: the account and the reference, or for a catalogue
\* the reference alone.
UnderKey(lookup) ==
    {f \in Filings : /\ f.kind = lookup.asks
                     /\ f.reference = lookup.about
                     /\ f.owner = lookup.customer}

\* DemoStorefront.order, refund and product.
DemoAnswers(lookup) ==
    IF UnderKey(lookup) = {} THEN {NotAvailable} ELSE {Found(f) : f \in UnderKey(lookup)}

=============================================================================
