------------------------------ MODULE AtMostOnce ------------------------------
(***************************************************************************)
(* What a mutation of the eToro Demo account promises its callers           *)
(* (app/broker/etoro_demo_v2.py): under one client_order_id at most one     *)
(* order ever reaches the account, and whoever is told that its request was *)
(* accepted is told so about that very request.                             *)
(***************************************************************************)
EXTENDS Sequences

CONSTANTS Keys, Payloads

VARIABLES
    orders,     \* the orders the account has received under a key
    answered    \* the requests whose caller has been told "accepted"

Init ==
    /\ orders = [k \in Keys |-> <<>>]
    /\ answered = {}

Place(k, p) ==
    /\ orders[k] = <<>>
    /\ orders' = [orders EXCEPT ![k] = <<p>>]
    /\ UNCHANGED answered

Tell(k, p) ==
    /\ orders[k] = <<p>>
    /\ answered' = answered \cup {<<k, p>>}
    /\ UNCHANGED orders

Next == \E k \in Keys, p \in Payloads : Place(k, p) \/ Tell(k, p)

Spec == Init /\ [][Next]_<<orders, answered>>
=============================================================================
