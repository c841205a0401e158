------------------------------ MODULE DemoOrders ------------------------------
(***************************************************************************)
(* EToroDemoV2Client._submit_idempotent and its durable request table       *)
(* (app/broker/etoro_demo_v2.py, storage/repositories.py).  A caller        *)
(* reserves its client_order_id, sends, and records the answer, in three    *)
(* steps that a refusal, a lost answer or a restart may separate; whoever   *)
(* finds the key reserved looks the order up and never sends again.         *)
(*                                                                          *)
(*   table   the request row of a key: what was asked, whether an answer    *)
(*           is stored;  flight: requests on the wire                       *)
(*   placed, told   the orders and the answers of AtMostOnce                *)
(*   call    what each caller is at                                         *)
(***************************************************************************)
EXTENDS Naturals, Sequences

CONSTANTS Keys, Payloads, Callers, None

ASSUME NoneIsNoPayload == None \notin Payloads

VARIABLES table, flight, placed, told, call

orderVars == <<table, flight, placed, told, call>>

Steps == {"idle", "post", "wait", "lookup", "complete", "ok", "raised"}
NoRow == [payload |-> None, response |-> FALSE]
NoCall == [pc |-> "idle", key |-> None, payload |-> None]

OrdersInit ==
    /\ table = [k \in Keys |-> NoRow]
    /\ flight = {}
    /\ placed = [k \in Keys |-> <<>>]
    /\ told = {}
    /\ call = [c \in Callers |-> NoCall]

At(c, pc) == call[c].pc = pc
Goto(c, pc) == call' = [call EXCEPT ![c].pc = pc]

-----------------------------------------------------------------------------
(* _submit_idempotent *)

\* Mutant: whoever finds the key reserved sends too.
ReserveAndSend(c, k, p) ==
    /\ At(c, "idle")
    /\ call' = [call EXCEPT ![c] = [pc |-> "post", key |-> k, payload |-> p]]
    /\ table' = [table EXCEPT ![k] = [payload |-> p, response |-> FALSE]]
    /\ UNCHANGED <<flight, placed, told>>

\* EToroDemoIdempotencyRepository.reserve and what its row decides: a new key is sent, a key
\* used for something else is an error, a stored answer is returned, the rest is looked up.
Reserve(c, k, p) ==
    /\ At(c, "idle")
    /\ LET row == table[k]
           next == CASE row.payload = None -> "post"
                     [] row.payload \notin {None, p} -> "raised"
                     [] row.payload = p /\ row.response -> "ok"
                     [] row.payload = p /\ ~row.response -> "lookup"
       IN  /\ call' = [call EXCEPT ![c] = [pc |-> next, key |-> k, payload |-> p]]
           /\ table' = IF row.payload = None
                       THEN [table EXCEPT ![k] = [payload |-> p, response |-> FALSE]] ELSE table
           /\ told' = IF next = "ok" THEN told \cup {<<k, p>>} ELSE told
    /\ UNCHANGED <<flight, placed>>

Post(c) ==
    /\ At(c, "post")
    /\ flight' = flight \cup {<<call[c].key, call[c].payload>>}
    /\ Goto(c, "wait")
    /\ UNCHANGED <<table, placed, told>>

\* The rate limiter's cooldown, a rejection or no connection: the row stays reserved.
PostRefused(c) ==
    /\ At(c, "post")
    /\ Goto(c, "raised")
    /\ UNCHANGED <<table, flight, placed, told>>

\* The answer, or get_order by the request id, names the order.
Found(c) ==
    /\ call[c].pc \in {"wait", "lookup"}
    /\ placed[call[c].key] # <<>>
    /\ Goto(c, "complete")
    /\ UNCHANGED <<table, flight, placed, told>>

\* A timeout, or an order the lookup cannot see: the caller gives up, the request may not.
GiveUp(c) ==
    /\ call[c].pc \in {"wait", "lookup"}
    /\ Goto(c, "raised")
    /\ UNCHANGED <<table, flight, placed, told>>

Complete(c) ==
    /\ At(c, "complete")
    /\ table' = [table EXCEPT ![call[c].key].response = TRUE]
    /\ told' = told \cup {<<call[c].key, call[c].payload>>}
    /\ Goto(c, "ok")
    /\ UNCHANGED <<flight, placed>>

Return(c) ==
    /\ call[c].pc \in {"ok", "raised"}
    /\ call' = [call EXCEPT ![c] = NoCall]
    /\ UNCHANGED <<table, flight, placed, told>>

-----------------------------------------------------------------------------
(* The account, the reconciliation, restarts *)

Arrive(k, p) ==
    /\ <<k, p>> \in flight
    /\ flight' = flight \ {<<k, p>>}
    /\ placed' = [placed EXCEPT ![k] = Append(@, p)]
    /\ UNCHANGED <<table, told, call>>

Drop(k, p) ==
    /\ <<k, p>> \in flight
    /\ flight' = flight \ {<<k, p>>}
    /\ UNCHANGED <<table, placed, told, call>>

\* EToroDemoReconciliationService completes every row whose order it finds.
CompleteRow(k) ==
    /\ table[k].payload # None
    /\ placed[k] # <<>>
    /\ table' = [table EXCEPT ![k].response = TRUE]
    /\ UNCHANGED <<flight, placed, told, call>>

Restart ==
    /\ call' = [c \in Callers |-> NoCall]
    /\ UNCHANGED <<table, flight, placed, told>>

OrdersNext ==
    \/ \E c \in Callers, k \in Keys, p \in Payloads : Reserve(c, k, p)
    \/ \E c \in Callers : Post(c) \/ PostRefused(c) \/ Found(c) \/ GiveUp(c) \/ Complete(c)
                            \/ Return(c)
    \/ \E k \in Keys, p \in Payloads : Arrive(k, p) \/ Drop(k, p)
    \/ \E k \in Keys : CompleteRow(k)
    \/ Restart

OrdersSpec == OrdersInit /\ [][OrdersNext]_orderVars

-----------------------------------------------------------------------------
(* Properties *)

\* The request table, the wire, the account and the callers of the client keep their types.
OrdersTypeOK ==
    /\ table \in [Keys -> [payload: Payloads \cup {None}, response: BOOLEAN]]
    /\ flight \in SUBSET (Keys \X Payloads)
    /\ placed \in [Keys -> Seq(Payloads)]
    /\ told \in SUBSET (Keys \X Payloads)
    /\ \A c \in Callers :
        \/ call[c] = NoCall
        \/ call[c] \in [pc: Steps \ {"idle"}, key: Keys, payload: Payloads]
    /\ DOMAIN call = Callers

\* The refinement mapping: the orders of the account, and what the callers have been told.
Promise == INSTANCE AtMostOnce WITH orders <- placed, answered <- told

\* No caller, restart, late arrival or reconciliation makes the client send a second order
\* under one client_order_id, or report as accepted a request that is not that order.
SubmitsAtMostOnce == Promise!Spec
=============================================================================
