------------------------------ MODULE Records ------------------------------
(***************************************************************************)
(* The shop's own records and the terms on which they may be asked for      *)
(* (app/agent/commerce.py).                                                 *)
(*                                                                          *)
(* A row is its kind, whose number it bears, which of its optional fields   *)
(* are filled in, whether it was read live, and how long ago.  What a row   *)
(* can settle follows from the fields that are filled.                      *)
(***************************************************************************)
EXTENDS Profiles

CONSTANTS
    Connected,   \* the sources an adapter is wired up for
    Ttl,         \* how long a reading stays useful
    ReadableFor  \* how long a reading stays legible; Settings keeps it >= Ttl

ASSUME SourcesAssumption ==
    /\ Connected \subseteq {"knowledge_base", "commerce"}
    /\ Ttl \in Nat /\ ReadableFor \in Nat /\ Ttl <= ReadableFor

Kinds == {"order", "refund", "product"}

\* Record.STATES: which question each field settles.
States ==
    [order   |-> [state |-> "order_state", tracking_reference |-> "tracking_reference",
                  expected_delivery |-> "delivery_estimate"],
     refund  |-> [state |-> "refund_state", amount |-> "refund_amount",
                  currency |-> "refund_amount"],
     product |-> [in_stock |-> "stock_availability"]]

\* The fields a row of a kind cannot be built without.
Demanded == [order |-> {"state"}, refund |-> {"state"}, product |-> {"in_stock"}]

\* The validators of the three: a sum arrives with its currency or not at all.
Buildable(row) ==
    /\ row.filled \subseteq DOMAIN States[row.kind]
    /\ Demanded[row.kind] \subseteq row.filled
    /\ "amount" \in row.filled <=> "currency" \in row.filled

\* facts: what this row settles, as against what its kind is about.
FactsOf(row) == {States[row.kind][field] : field \in row.filled}

-----------------------------------------------------------------------------
\* freshness_of: age is the clock less observed_at, so a reading dated after
\* the clock has a negative one.
FreshnessOf(row) ==
    CASE row.age < 0                                   -> UNUSABLE
      [] row.age \in 0..Ttl /\ row.observed = "live"   -> READY
      [] row.age \in 0..Ttl /\ row.observed = "cached" -> ACCEPTABLE
      [] row.age \in Ttl+1..ReadableFor                -> REVIEW_ONLY
      [] row.age > ReadableFor                         -> UNUSABLE

\* answered_with: a row of the kind asked for, about what was asked.
IsTheRow(lookup, answer) ==
    /\ answer.shape = "found"
    /\ answer.record.kind = lookup.asks
    /\ answer.record.identity = lookup.about

=============================================================================
