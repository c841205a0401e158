---------------------------- MODULE Reconciliation ----------------------------
(***************************************************************************)
(* AlpacaReconciliationService (app/automation/reconciliation.py): the      *)
(* periodic sweep and the trade-update stream write the same execution rows *)
(* from copies, an in-memory fingerprint cache skips unchanged rows, bare   *)
(* positions are flattened and unsafe drift trips the circuit breaker.      *)
(*                                                                          *)
(*   bro      the broker's view (external): a bracket entry order, its      *)
(*            legs, and a standalone market sell that closes the position   *)
(*   row      executions table: status and where realized_pnl_usd comes from*)
(*   snap     broker_orders rows; held: active broker_position_snapshots    *)
(*   written  _written: the fingerprint last written for each row           *)
(*   fails    reconciliation:consecutive_failures                           *)
(*   halted   circuit breaker and kill switch                               *)
(*   sw, st   program counter and locals of the sweep and of the stream     *)
(*   faults   faults and stream updates so far (bounds the state space)     *)
(*                                                                          *)
(* Each order has a symbol of its own.                                      *)
(***************************************************************************)
EXTENDS Integers, FiniteSets

CONSTANTS
    N,              \* orders 1..N, in the order get_all_orders returns them
    Slices,         \* REFRESH_SLICES
    SliceOf,        \* the slice each cache key hashes into
    WriteBudget,    \* UNKNOWN_WRITE_BUDGET
    Attempts,       \* alpaca_reconciliation_max_attempts
    Threshold,      \* reconciliation_failures_before_kill_switch
    MaxFaults       \* bound: faults and stream updates

Orders == 1..N
Keys == {"execution", "order"} \X Orders
None == "none"

ASSUME ReconciliationConstants ==
    /\ N \in Nat \ {0}
    /\ Slices \in Nat \ {0}
    /\ SliceOf \in [Keys -> 0..(Slices - 1)]
    /\ WriteBudget \in Nat
    /\ Attempts \in Nat \ {0}
    /\ Threshold \in Nat \ {0}
    /\ MaxFaults \in Nat

VARIABLES bro, row, snap, held, written, fails, halted, sw, st, faults

vars == <<bro, row, snap, held, written, fails, halted, sw, st, faults>>
tables == <<row, snap, held, written, fails, halted>>

-----------------------------------------------------------------------------
(* State *)

\* "rejected" stands for expired too.  legs: "live" while the stop leg works, "target"
\* when only the take-profit does, "filled" once either leg has filled.
OrderState == [st: {None, "new", "filled", "canceled", "rejected"},
               legs: {None, "live", "target", "dead", "filled"},
               exit: {None, "working", "filled"}]
NoOrder == [st |-> None, legs |-> None, exit |-> None]

\* The order and its legs; the sell is an order of its own, whose row is not tracked.
Bracket(p) == [p EXCEPT !.exit = None]

Row == [st: {None, "submitted", "filled", "canceled", "failed"}, pnl: {None, "leg", "exit"}]
NoRow == [st |-> None, pnl |-> None]

\* What the fingerprints of the execution row and of the order rows distinguish (the
\* rows of an order and of its legs are one).
Fingerprint(p, x) == <<p.st, p.legs, x>>
FingerprintOf(k, p, known) == IF k = "execution" THEN Fingerprint(p, p.exit = "filled")
                                                 ELSE Fingerprint(p, known)
Fingerprints == {Fingerprint(p, x) : p \in OrderState, x \in BOOLEAN}
\* No order on record has this one: nothing written, or forgotten.
Unwritten == Fingerprint(NoOrder, FALSE)

Issues == {"unknown", "bare", "mismatch", "blocked", "error"}

Sweep == [pc: {"idle", "begin", "positions", "executions", "execution", "marked", "order",
               "ordered", "protect", "finish", "cancel", "close"},
          i: Orders, no: 0..(Slices - 1), try: 0..Attempts, budget: 0..WriteBudget,
          orders: [Orders -> OrderState], pos: SUBSET Orders, rows: [Orders -> Row],
          issues: SUBSET Issues]
IdleSweep(no) == [pc |-> "idle", i |-> 1, no |-> no, try |-> 0, budget |-> 0,
                  orders |-> [o \in Orders |-> NoOrder], pos |-> {},
                  rows |-> [o \in Orders |-> NoRow], issues |-> {}]

Stream == [pc: {"idle", "get", "write", "upsert", "forget"}, o: Orders, row: Row,
           pay: OrderState]
IdleStream == [pc |-> "idle", o |-> 1, row |-> NoRow, pay |-> NoOrder]

Init ==
    /\ bro = [o \in Orders |-> NoOrder]
    /\ row = [o \in Orders |-> NoRow]
    /\ snap = [o \in Orders |-> NoOrder]
    /\ held = {}
    /\ written = [k \in Keys |-> Unwritten]
    /\ fails = 0
    /\ halted = FALSE
    /\ sw = IdleSweep(0)
    /\ st = IdleStream
    /\ faults = 0

Position(o) == bro[o].st = "filled" /\ bro[o].legs # "filled" /\ bro[o].exit # "filled"

\* A position with no working stop and no close under way; a bare one has no working
\* leg at all.
Unprotected(o) == Position(o) /\ bro[o].legs \in {"target", "dead"} /\ bro[o].exit = None
Bare(o) == Unprotected(o) /\ bro[o].legs = "dead"

-----------------------------------------------------------------------------
(* The broker (external) and the coordinator *)

Broker(o, new) ==
    /\ bro' = [bro EXCEPT ![o] = new]
    /\ UNCHANGED <<tables, sw, st, faults>>

\* The coordinator submits a bracket order; its stop leg is held from the start.
Accept(o) ==
    /\ bro[o].st = None
    /\ ~halted
    /\ Broker(o, [st |-> "new", legs |-> "live", exit |-> None])

\* It records the execution afterwards; a crash in between leaves it unrecorded.
RecordExecution(o) ==
    /\ bro[o].st # None
    /\ row[o].st = None
    /\ row' = [row EXCEPT ![o].st = "submitted"]
    /\ UNCHANGED <<bro, snap, held, written, fails, halted, sw, st, faults>>

Fill(o) == bro[o].st = "new" /\ Broker(o, [bro[o] EXCEPT !.st = "filled"])

EntryDies(o) ==
    /\ bro[o].st = "new"
    /\ \E s \in {"canceled", "rejected"} : Broker(o, [bro[o] EXCEPT !.st = s, !.legs = "dead"])

LegFills(o) ==
    /\ Position(o)
    /\ bro[o].legs \in {"live", "target"}
    /\ Broker(o, [bro[o] EXCEPT !.legs = "filled"])

\* The stop leg, or both legs, expire or are cancelled at the broker.
StopDies(o) ==
    /\ Position(o)
    /\ bro[o].legs = "live"
    /\ \E l \in {"target", "dead"} : Broker(o, [bro[o] EXCEPT !.legs = l])

\* A strategy exit or an operator cancels the legs and sells.
StrategyExit(o) ==
    /\ Position(o)
    /\ bro[o].exit = None
    /\ Broker(o, [bro[o] EXCEPT !.legs = "dead", !.exit = "working"])

ExitFills(o) == bro[o].exit = "working" /\ Broker(o, [bro[o] EXCEPT !.exit = "filled"])

ResumeAutomation ==
    /\ halted
    /\ halted' = FALSE
    /\ UNCHANGED <<bro, row, snap, held, written, fails, sw, st, faults>>

-----------------------------------------------------------------------------
(* _update_execution *)

\* Mutant: any standalone sell counts, filled or not.
UpdatedByAnyExit(r, p, exits) ==
    [st |-> IF p.st = "filled" THEN "filled" ELSE r.st,
     pnl |-> IF p.st = "filled" THEN "exit" ELSE None]

\* The copy r with the broker's payload p applied.  A filled leg decides the realized
\* result, then a filled standalone sell if the caller knows of one; otherwise it is 0.
Updated(r, p, exits) ==
    [st |-> CASE p.st = "filled" -> "filled"
              [] p.st = "canceled" -> "canceled"
              [] p.st = "rejected" -> "failed"
              [] OTHER -> r.st,
     pnl |-> CASE p.st = "filled" /\ p.legs = "filled" -> "leg"
               [] p.st = "filled" /\ p.legs # "filled" /\ exits -> "exit"
               [] OTHER -> None]

-----------------------------------------------------------------------------
(* The sweep: reconcile, _reconcile_once, _reconcile *)

SweepAt(pc) == sw.pc = pc

\* Mutant: no rolling refresh.
EvictNothing(no) == written

\* The rolling refresh forgets one slice of the cache.
Evict(no) == [k \in Keys |-> IF SliceOf[k] = no THEN Unwritten ELSE written[k]]

\* One attempt (the first one under _sweep_lock): evict a slice, reset the write budget,
\* verify the account, read the orders.  The eviction commutes with every step of the
\* others, so it happens together with the read.
BeginAttempt ==
    /\ sw.pc \in {"idle", "begin"}
    /\ LET no == (sw.no + 1) % Slices
           attempt == [sw EXCEPT !.pc = "positions", !.no = no, !.budget = WriteBudget,
                                 !.orders = bro, !.try = IF SweepAt("idle") THEN 1 ELSE @]
       IN /\ written' = Evict(no)
          /\ \/ sw' = attempt /\ UNCHANGED faults
             \/ /\ faults < MaxFaults
                /\ faults' = faults + 1
                /\ \E issue \in {"mismatch", "blocked"} :
                      sw' = [attempt EXCEPT !.issues = {issue}]
    /\ UNCHANGED <<bro, row, snap, held, fails, halted, st>>

ReadPositions ==
    /\ SweepAt("positions")
    /\ LET open == {o \in Orders : Position(o)}
       IN /\ sw' = [sw EXCEPT !.pc = "executions", !.pos = open]
          /\ held' = open
    /\ UNCHANGED <<bro, row, snap, written, fails, halted, st, faults>>

ReadExecutions ==
    /\ SweepAt("executions")
    /\ sw' = [sw EXCEPT !.pc = "execution", !.rows = row]
    /\ UNCHANGED <<bro, tables, st, faults>>

\* Order i as the sweep read it, and whether an execution of ours is known for it.
Payload == sw.orders[sw.i]
Owned(o) == sw.orders[o].st # None /\ sw.rows[o].st # None

\* _changed: a row known to differ is written, one in an unknown state while the budget lasts.
Changed(k) ==
    LET last == written[<<k, sw.i>>]
    IN IF last = Unwritten THEN sw.budget > 0 ELSE last # FingerprintOf(k, Payload, Owned(sw.i))

Spend(k) == IF written[<<k, sw.i>>] = Unwritten THEN sw.budget - 1 ELSE sw.budget

SweepExecution ==
    /\ SweepAt("execution")
    /\ IF Owned(sw.i) /\ Changed("execution")
       THEN /\ row' = [row EXCEPT ![sw.i] =
                          Updated(sw.rows[sw.i], Payload, Payload.exit = "filled")]
            /\ sw' = [sw EXCEPT !.pc = "marked", !.budget = Spend("execution")]
       ELSE /\ sw' = [sw EXCEPT !.pc = "order"]
            /\ UNCHANGED row
    /\ UNCHANGED <<bro, snap, held, written, fails, halted, st, faults>>

Mark(k) == written' = [written EXCEPT ![<<k, sw.i>>] = FingerprintOf(k, Payload, Owned(sw.i))]

MarkExecution ==
    /\ SweepAt("marked")
    /\ Mark("execution")
    /\ sw' = [sw EXCEPT !.pc = "order"]
    /\ UNCHANGED <<bro, row, snap, held, fails, halted, st, faults>>

\* The next order, or the positions.
NextOrder ==
    sw' = IF sw.i < N THEN [sw EXCEPT !.pc = "execution", !.i = @ + 1]
                      ELSE [sw EXCEPT !.pc = "protect", !.i = 1, !.budget = 0]

SweepOrder ==
    /\ SweepAt("order")
    /\ IF Payload.st # None /\ Changed("order")
       THEN /\ snap' = [snap EXCEPT ![sw.i] = Bracket(Payload)]
            /\ sw' = [sw EXCEPT !.pc = "ordered", !.budget = Spend("order")]
       ELSE NextOrder /\ UNCHANGED snap
    /\ UNCHANGED <<bro, row, held, written, fails, halted, st, faults>>

MarkOrder ==
    /\ SweepAt("ordered")
    /\ Mark("order")
    /\ NextOrder
    /\ UNCHANGED <<bro, row, snap, held, fails, halted, st, faults>>

\* What the sweep makes of a position it read: fine, or closed, or an issue.
Protected(o) == Owned(o) /\ sw.orders[o].legs = "live"
ClosingInFlight(o) == sw.orders[o].exit = "working"

\* The next position, or the end of the attempt.
NextPosition(new) ==
    /\ sw' = IF sw.i < N
             THEN [sw EXCEPT !.i = @ + 1, !.issues = @ \cup new]
             ELSE [IdleSweep(sw.no) EXCEPT !.pc = "finish", !.issues = sw.issues \cup new]
    /\ UNCHANGED <<tables, st>>

SafePosition ==
    /\ SweepAt("protect")
    /\ sw.i \notin sw.pos \/ Protected(sw.i) \/ ClosingInFlight(sw.i)
    /\ NextPosition(IF sw.i \in sw.pos /\ ~Owned(sw.i) THEN {"unknown"} ELSE {})
    /\ UNCHANGED <<bro, faults>>

UnownedPosition ==
    /\ SweepAt("protect")
    /\ sw.i \in sw.pos
    /\ ~Owned(sw.i)
    /\ ~ClosingInFlight(sw.i)
    /\ NextPosition({"unknown", "bare"})
    /\ UNCHANGED <<bro, faults>>

\* Mutant: the position is only reported as handled.
FlattenNothing(o) == UNCHANGED bro

\* close_position at the broker: a sell for shares no working order holds; "position
\* not found" and "insufficient qty available" leave things as they are.
ClosePosition(o) ==
    bro' = IF Position(o) /\ bro[o].legs = "dead" /\ bro[o].exit = None
           THEN [bro EXCEPT ![o].exit = "working"] ELSE bro

FlattenUnprotected ==
    /\ SweepAt("protect")
    /\ sw.i \in sw.pos
    /\ Owned(sw.i) /\ ~Protected(sw.i) /\ ~ClosingInFlight(sw.i)
    /\ \/ ClosePosition(sw.i) /\ NextPosition({}) /\ UNCHANGED faults
       \/ /\ faults < MaxFaults
          /\ faults' = faults + 1
          /\ NextPosition({"bare"})
          /\ UNCHANGED bro

\* A broker or storage call of the sweep raises: another attempt, or an error result.
\* A row whose follow-up events raise is written and not marked.
SweepRaises ==
    /\ sw.pc \in {"positions", "executions", "execution", "marked", "order", "protect"}
    /\ faults < MaxFaults
    /\ faults' = faults + 1
    /\ sw' = IF sw.try < Attempts
             THEN [IdleSweep(sw.no) EXCEPT !.pc = "begin", !.try = sw.try + 1]
             ELSE [IdleSweep(sw.no) EXCEPT !.pc = "finish", !.issues = {"error"}]
    /\ UNCHANGED <<bro, tables, st>>

Immediate(issues) == issues \cap {"mismatch", "unknown", "bare"} # {}

Capped(n) == IF n > Threshold THEN Threshold ELSE n

\* _record_failure: drift that is unsafe at once, or too many failures in a row, trip the
\* breaker; the emergency stop follows unless the account is not ours.
RecordFailure(issues) ==
    LET n == Capped(fails + 1)
        trip == Immediate(issues) \/ n >= Threshold
    IN /\ fails' = n
       /\ halted' = (halted \/ trip)
       /\ sw' = [IdleSweep(sw.no) EXCEPT
                    !.pc = IF trip /\ "mismatch" \notin issues THEN "cancel" ELSE "idle"]

\* A clean sweep resets the count.
FinishSweep ==
    /\ SweepAt("finish")
    /\ \/ sw.issues = {} /\ fails' = 0 /\ UNCHANGED halted /\ sw' = IdleSweep(sw.no)
       \/ sw.issues # {} /\ RecordFailure(sw.issues)
    /\ UNCHANGED <<bro, row, snap, held, written, st, faults>>

\* _emergency_stop: cancel every order, then close every position; either call may fail.
CancelAllOrders ==
    /\ SweepAt("cancel")
    /\ \/ /\ bro' = [o \in Orders |->
                       [st   |-> IF bro[o].st = "new" THEN "canceled" ELSE bro[o].st,
                        legs |-> IF bro[o].legs \in {"live", "target"} THEN "dead" ELSE bro[o].legs,
                        exit |-> IF bro[o].exit = "working" THEN None ELSE bro[o].exit]]
          /\ UNCHANGED faults
       \/ faults < MaxFaults /\ faults' = faults + 1 /\ UNCHANGED bro
    /\ sw' = [sw EXCEPT !.pc = "close"]
    /\ UNCHANGED <<tables, st>>

CloseAllPositions ==
    /\ SweepAt("close")
    /\ \/ /\ bro' = [o \in Orders |->
                       IF Position(o) THEN [bro[o] EXCEPT !.legs = "dead", !.exit = "working"]
                                      ELSE bro[o]]
          /\ UNCHANGED faults
       \/ faults < MaxFaults /\ faults' = faults + 1 /\ UNCHANGED bro
    /\ sw' = IdleSweep(sw.no)
    /\ UNCHANGED <<tables, st>>

-----------------------------------------------------------------------------
(* The trade-update stream: ingest_order_update *)

StreamAt(pc) == st.pc = pc

\* An update for an order arrives, late, repeated or not at all.
StreamUpdate(o) ==
    /\ StreamAt("idle")
    /\ faults < MaxFaults
    /\ row[o].st # None
    /\ faults' = faults + 1
    /\ st' = [st EXCEPT !.pc = "get", !.o = o, !.row = row[o]]
    /\ UNCHANGED <<bro, tables, sw>>

StreamGetOrder ==
    /\ StreamAt("get")
    /\ st' = [st EXCEPT !.pc = "write", !.pay = Bracket(bro[st.o])]
    /\ UNCHANGED <<bro, tables, sw, faults>>

\* It knows of no standalone exits.
StreamWrite ==
    /\ StreamAt("write")
    /\ row' = [row EXCEPT ![st.o] = Updated(st.row, st.pay, FALSE)]
    /\ st' = [st EXCEPT !.pc = "upsert", !.row = NoRow]
    /\ UNCHANGED <<bro, snap, held, written, fails, halted, sw, faults>>

StreamUpsert ==
    /\ StreamAt("upsert")
    /\ snap' = [snap EXCEPT ![st.o] = st.pay]
    /\ st' = [st EXCEPT !.pc = "forget", !.pay = NoOrder]
    /\ UNCHANGED <<bro, row, held, written, fails, halted, sw, faults>>

\* The rows' fingerprints are dropped, so that the next sweep writes them again.
StreamForget ==
    /\ StreamAt("forget")
    /\ written' = [k \in Keys |-> IF k[2] = st.o THEN Unwritten ELSE written[k]]
    /\ st' = IdleStream
    /\ UNCHANGED <<bro, row, snap, held, fails, halted, sw, faults>>

\* handle_update swallows the exception; what was written stays written.
StreamRaises ==
    /\ st.pc \in {"get", "write", "upsert", "forget"}
    /\ faults < MaxFaults
    /\ faults' = faults + 1
    /\ st' = IdleStream
    /\ UNCHANGED <<bro, tables, sw>>

\* The process restarts: the cache, the sweep and the stream handler are gone.
Restart ==
    /\ faults < MaxFaults
    /\ faults' = faults + 1
    /\ written' = [k \in Keys |-> Unwritten]
    /\ sw' = IdleSweep(0)
    /\ st' = IdleStream
    /\ UNCHANGED <<bro, row, snap, held, fails, halted>>

-----------------------------------------------------------------------------
SweepStep ==
    \/ BeginAttempt \/ ReadPositions \/ ReadExecutions
    \/ SweepExecution \/ MarkExecution \/ SweepOrder \/ MarkOrder
    \/ SafePosition \/ UnownedPosition \/ FlattenUnprotected
    \/ FinishSweep \/ CancelAllOrders \/ CloseAllPositions

StreamStep == StreamGetOrder \/ StreamWrite \/ StreamUpsert \/ StreamForget

Market(o) ==
    \/ Accept(o) \/ RecordExecution(o) \/ Fill(o) \/ EntryDies(o) \/ LegFills(o)
    \/ StopDies(o) \/ StrategyExit(o) \/ ExitFills(o)

Next ==
    \/ \E o \in Orders : Market(o) \/ StreamUpdate(o)
    \/ SweepStep \/ StreamStep
    \/ SweepRaises \/ StreamRaises \/ Restart \/ ResumeAutomation

Spec == Init /\ [][Next]_vars
LiveSpec == Spec /\ WF_vars(SweepStep) /\ WF_vars(StreamStep)

-----------------------------------------------------------------------------
(* Properties *)

\* Every variable has its type.
TypeOK ==
    /\ bro \in [Orders -> OrderState]
    /\ row \in [Orders -> Row]
    /\ snap \in [Orders -> OrderState]
    /\ held \subseteq Orders
    /\ written \in [Keys -> Fingerprints]
    /\ fails \in 0..Threshold
    /\ halted \in BOOLEAN
    /\ sw \in Sweep
    /\ st \in Stream
    /\ faults \in 0..MaxFaults

\* However late a copy is written back, an execution row never claims a fill, a
\* cancellation or a realized result that the broker did not have (reconciliation.py
\* 456-497): the daily-loss cap and the cooldown count only real results.
BookedIsReal ==
    \A o \in Orders :
        /\ row[o].st \in {"filled", "canceled"} => bro[o].st = row[o].st
        /\ row[o].st = "failed" => bro[o].st = "rejected"
        /\ row[o].pnl = "leg" => bro[o].legs = "filled"
        /\ row[o].pnl = "exit" => bro[o].exit = "filled"

\* The row and the order snapshot say what the broker says.
Current(o) ==
    /\ row[o].st # None => row[o] = Updated(row[o], bro[o], bro[o].exit = "filled")
    /\ bro[o].st # None => snap[o] = Bracket(bro[o])

\* Once faults and stream updates have stopped, the cache hides no difference for ever:
\* every row ends up at the broker's final state and stays there.
RowsConverge == <>[](\A o \in Orders : Current(o))

\* A position left without any working leg is closed, although the sweep decides on
\* snapshots that the coordinator and the broker overtake.
BareIsHandled == \A o \in Orders : Bare(o) ~> ~Bare(o)

\* "An unattended bot must never hold a position without a working stop": such a
\* position does not stay as it is, even if its take-profit leg still works.  The code does
\* not keep this (README, section 5).
UnprotectedIsHandled == \A o \in Orders : Unprotected(o) ~> ~Unprotected(o)

\* "The stream and the periodic sweep can never diverge": a realized result, once
\* booked, is not taken back by the other writer.  The code does not keep this (README,
\* section 5).
BookedStays == [][\A o \in Orders : row[o].pnl # None => row'[o].pnl # None]_vars
=============================================================================
