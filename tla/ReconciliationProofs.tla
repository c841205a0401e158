-------------------------- MODULE ReconciliationProofs --------------------------
(***************************************************************************)
(* For any number of orders, cache slices, write budgets, attempts and      *)
(* faults: the types of Reconciliation hold, and its execution rows claim   *)
(* nothing that the broker did not have.                                    *)
(*                                                                          *)
(* The argument: what the broker has once reached (filled, canceled,        *)
(* rejected, a filled leg, a filled exit) it never leaves, so every copy of *)
(* an order, however old, is Behind the order, and every copy of a row is   *)
(* as Justified as the row was.  Applying a copy of an order to a copy of a *)
(* row therefore gives a justified row.                                     *)
(***************************************************************************)
EXTENDS Reconciliation, TLAPS

-----------------------------------------------------------------------------
(* Types *)

LEMMA ModuloInRange ==
    ASSUME NEW n \in Int, NEW d \in Nat \ {0}
    PROVE  n % d \in 0..(d - 1)
  BY SMT

Statuses == {None, "new", "filled", "canceled", "rejected"}
Legs == {None, "live", "target", "dead", "filled"}
Exits == {None, "working", "filled"}

LEMMA OrderParts ==
    ASSUME NEW p \in OrderState
    PROVE  /\ \A s \in Statuses : [p EXCEPT !.st = s] \in OrderState
           /\ \A l \in Legs : [p EXCEPT !.legs = l] \in OrderState
           /\ \A e \in Exits : [p EXCEPT !.exit = e] \in OrderState
           /\ \A s \in Statuses, l \in Legs : [p EXCEPT !.st = s, !.legs = l] \in OrderState
           /\ \A l \in Legs, e \in Exits : [p EXCEPT !.legs = l, !.exit = e] \in OrderState
           /\ \A s \in Statuses, l \in Legs, e \in Exits :
                 [st |-> s, legs |-> l, exit |-> e] \in OrderState
           /\ Bracket(p) \in OrderState
  BY DEF OrderState, Bracket, None, Statuses, Legs, Exits

LEMMA UpdatedIsRow ==
    ASSUME NEW r \in Row, NEW p \in OrderState, NEW exits \in BOOLEAN
    PROVE  Updated(r, p, exits) \in Row
  BY DEF Updated, Row, OrderState, None

LEMMA FingerprintIsTyped ==
    ASSUME NEW p \in OrderState, NEW x \in BOOLEAN
    PROVE  Fingerprint(p, x) \in Fingerprints
<1>1. \E q \in OrderState, y \in BOOLEAN : Fingerprint(p, x) = Fingerprint(q, y)
  OBVIOUS
<1>. QED
  BY <1>1 DEF Fingerprints

LEMMA NothingIsTyped ==
    ASSUME ReconciliationConstants
    PROVE  /\ NoOrder \in OrderState
           /\ NoRow \in Row
           /\ Unwritten \in Fingerprints
           /\ 1 \in Orders
           /\ IdleStream \in Stream
           /\ \A no \in 0..(Slices - 1) : IdleSweep(no) \in Sweep
<1>1. NoOrder \in OrderState /\ NoRow \in Row /\ 1 \in Orders
  BY DEF NoOrder, OrderState, NoRow, Row, None, Orders, ReconciliationConstants
<1>2. Unwritten \in Fingerprints
  BY <1>1, FingerprintIsTyped DEF Unwritten
<1>3. IdleStream \in Stream
  BY <1>1 DEF IdleStream, Stream
<1>4. \A no \in 0..(Slices - 1) : IdleSweep(no) \in Sweep
  BY <1>1 DEF IdleSweep, Sweep, ReconciliationConstants
<1>. QED
  BY <1>1, <1>2, <1>3, <1>4

LEMMA TypeInit == ASSUME ReconciliationConstants PROVE Init => TypeOK
<1>. SUFFICES ASSUME Init PROVE TypeOK
  OBVIOUS
<1>1. sw \in Sweep
  BY NothingIsTyped DEF Init, ReconciliationConstants
<1>2. fails \in 0..Threshold /\ faults \in 0..MaxFaults
  BY DEF Init, ReconciliationConstants
<1>. QED
  BY <1>1, <1>2, NothingIsTyped DEF Init, TypeOK

LEMMA BrokerKeepsTypes ==
    ASSUME TypeOK, NEW o \in Orders, NEW p \in OrderState, Broker(o, p)
    PROVE  TypeOK'
  BY DEF Broker, TypeOK, tables

LEMMA MarketKeepsTypes ==
    ASSUME TypeOK, NEW o \in Orders, Market(o)
    PROVE  TypeOK'
<1>. USE BrokerKeepsTypes
<1>0. bro[o] \in OrderState /\ row[o] \in Row
  BY DEF TypeOK
<1>1. CASE Accept(o)
  BY <1>0, <1>1, OrderParts DEF Accept, Statuses, Legs, Exits
<1>2. CASE RecordExecution(o)
  <2>1. [row[o] EXCEPT !.st = "submitted"] \in Row
    BY <1>0 DEF Row
  <2>. QED
    BY <1>2, <2>1 DEF RecordExecution, TypeOK
<1>3. CASE Fill(o)
  BY <1>0, <1>3, OrderParts DEF Fill, Statuses
<1>4. CASE EntryDies(o)
  BY <1>0, <1>4, OrderParts DEF EntryDies, Statuses, Legs
<1>5. CASE LegFills(o)
  BY <1>0, <1>5, OrderParts DEF LegFills, Legs
<1>6. CASE StopDies(o)
  BY <1>0, <1>6, OrderParts DEF StopDies, Legs
<1>7. CASE StrategyExit(o)
  BY <1>0, <1>7, OrderParts DEF StrategyExit, Legs, Exits
<1>8. CASE ExitFills(o)
  BY <1>0, <1>8, OrderParts DEF ExitFills, Exits
<1>. QED
  BY <1>1, <1>2, <1>3, <1>4, <1>5, <1>6, <1>7, <1>8 DEF Market

LEMMA StreamParts ==
    ASSUME NEW s \in Stream, NEW o \in Orders, NEW r \in Row, NEW p \in OrderState
    PROVE  /\ s.o \in Orders /\ s.row \in Row /\ s.pay \in OrderState
           /\ [s EXCEPT !.pc = "get", !.o = o, !.row = r] \in Stream
           /\ [s EXCEPT !.pc = "write", !.pay = p] \in Stream
           /\ [s EXCEPT !.pc = "upsert", !.row = r] \in Stream
           /\ [s EXCEPT !.pc = "forget", !.pay = p] \in Stream
  BY DEF Stream

LEMMA StreamKeepsTypes ==
    ASSUME ReconciliationConstants, TypeOK,
           StreamStep \/ StreamRaises \/ Restart \/ ResumeAutomation
              \/ \E o \in Orders : StreamUpdate(o)
    PROVE  TypeOK'
<1>. USE NothingIsTyped DEF TypeOK, tables
<1>0. faults < MaxFaults => faults + 1 \in 0..MaxFaults
  BY DEF ReconciliationConstants
<1>1. CASE \E o \in Orders : StreamUpdate(o)
  <2>1. PICK o \in Orders : StreamUpdate(o)
    BY <1>1
  <2>2. st' \in Stream
    BY <2>1, StreamParts DEF StreamUpdate
  <2>. QED
    BY <1>0, <2>1, <2>2 DEF StreamUpdate
<1>2. CASE StreamGetOrder
  <2>1. st.o \in Orders
    BY StreamParts
  <2>2. Bracket(bro[st.o]) \in OrderState
    BY <2>1, OrderParts DEF Statuses, Legs, Exits
  <2>3. st' \in Stream
    BY <1>2, <2>2, StreamParts DEF StreamGetOrder
  <2>. QED
    BY <1>2, <2>3 DEF StreamGetOrder
<1>3. CASE StreamWrite
  <2>1. st.row \in Row /\ st.pay \in OrderState /\ st.o \in Orders
    BY StreamParts
  <2>2. Updated(st.row, st.pay, FALSE) \in Row
    BY <2>1, UpdatedIsRow
  <2>3. st' \in Stream
    BY <1>3, StreamParts DEF StreamWrite
  <2>. QED
    BY <1>3, <2>2, <2>3 DEF StreamWrite
<1>4. CASE StreamUpsert
  <2>1. st.pay \in OrderState /\ st' \in Stream
    BY <1>4, StreamParts DEF StreamUpsert
  <2>. QED
    BY <1>4, <2>1 DEF StreamUpsert
<1>5. CASE StreamForget
  BY <1>5 DEF StreamForget
<1>6. CASE StreamRaises
  BY <1>0, <1>6 DEF StreamRaises
<1>7. CASE Restart
  <2>1. sw' \in Sweep
    BY <1>7 DEF Restart, ReconciliationConstants
  <2>. QED
    BY <1>0, <1>7, <2>1 DEF Restart
<1>8. CASE ResumeAutomation
  BY <1>8 DEF ResumeAutomation
<1>. QED
  BY <1>1, <1>2, <1>3, <1>4, <1>5, <1>6, <1>7, <1>8 DEF StreamStep

\* What the steps of the sweep make of its locals.
LEMMA SweepParts ==
    ASSUME ReconciliationConstants, NEW s \in Sweep
    PROVE  /\ s.i \in Orders /\ s.no \in 0..(Slices - 1) /\ s.budget \in 0..WriteBudget
           /\ s.try \in 0..Attempts /\ s.orders \in [Orders -> OrderState]
           /\ s.pos \subseteq Orders /\ s.rows \in [Orders -> Row] /\ s.issues \subseteq Issues
           /\ \A no \in 0..(Slices - 1), os \in [Orders -> OrderState], t \in {1, s.try} :
                 [s EXCEPT !.pc = "positions", !.no = no, !.budget = WriteBudget,
                           !.orders = os, !.try = t] \in Sweep
           /\ \A open \in SUBSET Orders : [s EXCEPT !.pc = "executions", !.pos = open] \in Sweep
           /\ \A rs \in [Orders -> Row] : [s EXCEPT !.pc = "execution", !.rows = rs] \in Sweep
           /\ \A pc \in {"marked", "ordered"}, b \in 0..WriteBudget :
                 [s EXCEPT !.pc = pc, !.budget = b] \in Sweep
           /\ \A pc \in {"order", "cancel", "close", "idle"} : [s EXCEPT !.pc = pc] \in Sweep
           /\ \A i \in Orders : [s EXCEPT !.pc = "execution", !.i = i] \in Sweep
           /\ \A i \in Orders : [s EXCEPT !.pc = "protect", !.i = i, !.budget = 0] \in Sweep
           /\ \A i \in Orders, new \in SUBSET Issues :
                 [s EXCEPT !.i = i, !.issues = s.issues \cup new] \in Sweep
           /\ \A issues \in SUBSET Issues : [s EXCEPT !.issues = issues] \in Sweep
           /\ \A issues \in SUBSET Issues : [s EXCEPT !.pc = "finish", !.issues = issues] \in Sweep
           /\ \A t \in 0..Attempts : [s EXCEPT !.pc = "begin", !.try = t] \in Sweep
<1>0. /\ {0, WriteBudget} \subseteq 0..WriteBudget
      /\ {1, s.try} \subseteq 0..Attempts
  BY DEF Sweep, ReconciliationConstants
<1>1. /\ s.i \in Orders /\ s.no \in 0..(Slices - 1) /\ s.budget \in 0..WriteBudget
      /\ s.try \in 0..Attempts /\ s.orders \in [Orders -> OrderState]
      /\ s.pos \subseteq Orders /\ s.rows \in [Orders -> Row] /\ s.issues \subseteq Issues
  BY DEF Sweep
<1>2. \A no \in 0..(Slices - 1), os \in [Orders -> OrderState], t \in {1, s.try} :
         [s EXCEPT !.pc = "positions", !.no = no, !.budget = WriteBudget,
         !.orders = os, !.try = t] \in Sweep
  BY <1>0 DEF Sweep
<1>3. \A open \in SUBSET Orders : [s EXCEPT !.pc = "executions", !.pos = open] \in Sweep
  BY DEF Sweep
<1>4. \A rs \in [Orders -> Row] : [s EXCEPT !.pc = "execution", !.rows = rs] \in Sweep
  BY DEF Sweep
<1>5. \A pc \in {"marked", "ordered"}, b \in 0..WriteBudget :
         [s EXCEPT !.pc = pc, !.budget = b] \in Sweep
  BY DEF Sweep
<1>6. \A pc \in {"order", "cancel", "close", "idle"} : [s EXCEPT !.pc = pc] \in Sweep
  BY DEF Sweep
<1>7. \A i \in Orders : [s EXCEPT !.pc = "execution", !.i = i] \in Sweep
  BY DEF Sweep
<1>8. \A i \in Orders : [s EXCEPT !.pc = "protect", !.i = i, !.budget = 0] \in Sweep
  BY <1>0 DEF Sweep
<1>9. \A i \in Orders, new \in SUBSET Issues :
         [s EXCEPT !.i = i, !.issues = s.issues \cup new] \in Sweep
  BY DEF Sweep
<1>10. \A issues \in SUBSET Issues : [s EXCEPT !.issues = issues] \in Sweep
  BY DEF Sweep
<1>11. \A issues \in SUBSET Issues : [s EXCEPT !.pc = "finish", !.issues = issues] \in Sweep
  BY DEF Sweep
<1>12. \A t \in 0..Attempts : [s EXCEPT !.pc = "begin", !.try = t] \in Sweep
  BY DEF Sweep
<1>. QED
  BY <1>1, <1>2, <1>3, <1>4, <1>5, <1>6, <1>7, <1>8, <1>9, <1>10, <1>11, <1>12

LEMMA NextIsOrder ==
    ASSUME ReconciliationConstants, NEW i \in Orders, i < N
    PROVE  i + 1 \in Orders
  BY DEF Orders, ReconciliationConstants

LEMMA SpendInRange ==
    ASSUME ReconciliationConstants, TypeOK, NEW k \in {"execution", "order"}, Changed(k)
    PROVE  Spend(k) \in 0..WriteBudget
<1>1. sw.budget \in 0..WriteBudget
  BY SweepParts DEF TypeOK
<1>2. written[<<k, sw.i>>] = Unwritten => sw.budget > 0
  BY DEF Changed
<1>. QED
  BY <1>1, <1>2 DEF Spend, ReconciliationConstants

LEMMA NextOrderIsTyped ==
    ASSUME ReconciliationConstants, TypeOK, NextOrder
    PROVE  sw' \in Sweep
<1>1. sw.i < N => sw.i + 1 \in Orders
  BY SweepParts, NextIsOrder DEF TypeOK
<1>. QED
  BY <1>1, SweepParts, NothingIsTyped DEF TypeOK, NextOrder

LEMMA NextPositionIsTyped ==
    ASSUME ReconciliationConstants, TypeOK, NEW new \in SUBSET Issues, NextPosition(new)
    PROVE  sw' \in Sweep
<1>1. sw.i < N => sw.i + 1 \in Orders
  BY SweepParts, NextIsOrder DEF TypeOK
<1>2. IdleSweep(sw.no) \in Sweep /\ sw.issues \cup new \in SUBSET Issues
  BY SweepParts, NothingIsTyped DEF TypeOK
<1>3. [IdleSweep(sw.no) EXCEPT !.pc = "finish", !.issues = sw.issues \cup new] \in Sweep
  BY <1>2, SweepParts
<1>4. sw.i < N => [sw EXCEPT !.i = sw.i + 1, !.issues = sw.issues \cup new] \in Sweep
  BY <1>1, SweepParts DEF TypeOK
<1>. QED
  BY <1>3, <1>4 DEF NextPosition

LEMMA SweepReadsKeepTypes ==
    ASSUME ReconciliationConstants, TypeOK,
           BeginAttempt \/ ReadPositions \/ ReadExecutions
    PROVE  TypeOK'
<1>0. sw \in Sweep /\ (faults < MaxFaults => faults + 1 \in 0..MaxFaults)
  BY DEF TypeOK, ReconciliationConstants
<1>1. CASE BeginAttempt
  <2> DEFINE no == (sw.no + 1) % Slices
             t == IF SweepAt("idle") THEN 1 ELSE sw.try
             attempt == [sw EXCEPT !.pc = "positions", !.no = no, !.budget = WriteBudget,
                                   !.orders = bro, !.try = t]
  <2>1. no \in 0..(Slices - 1)
    <3>1. sw.no \in 0..(Slices - 1) /\ Slices \in Nat \ {0}
      BY <1>0, SweepParts DEF ReconciliationConstants
    <3>2. sw.no + 1 \in Int
      BY <3>1
    <3>. QED
      BY <3>1, <3>2, ModuloInRange
  <2>2. attempt \in Sweep
    <3> HIDE DEF no
    <3>. QED
      BY <1>0, <2>1, SweepParts DEF TypeOK
  <2>3. \A issue \in {"mismatch", "blocked"} : [attempt EXCEPT !.issues = {issue}] \in Sweep
    <3> HIDE DEF attempt
    <3>1. \A issue \in {"mismatch", "blocked"} : {issue} \in SUBSET Issues
      BY DEF Issues
    <3>. QED
      BY <2>2, <3>1, SweepParts
  <2>4. written' \in [Keys -> Fingerprints]
    BY <1>1, NothingIsTyped DEF BeginAttempt, Evict, TypeOK
  <2>5. sw' \in Sweep /\ faults' \in 0..MaxFaults
    <3>1. \/ sw' = attempt /\ UNCHANGED faults
          \/ /\ faults < MaxFaults /\ faults' = faults + 1
             /\ \E issue \in {"mismatch", "blocked"} : sw' = [attempt EXCEPT !.issues = {issue}]
      BY <1>1 DEF BeginAttempt
    <3> HIDE DEF attempt
    <3>. QED
      BY <1>0, <2>2, <2>3, <3>1 DEF TypeOK
  <2>. QED
    BY <1>1, <2>4, <2>5 DEF BeginAttempt, TypeOK
<1>2. CASE ReadPositions
  <2>1. sw' \in Sweep /\ held' \subseteq Orders
    BY <1>0, <1>2, SweepParts DEF ReadPositions
  <2>. QED
    BY <1>2, <2>1 DEF ReadPositions, TypeOK
<1>3. CASE ReadExecutions
  <2>1. sw' \in Sweep
    BY <1>0, <1>3, SweepParts DEF ReadExecutions, TypeOK
  <2>. QED
    BY <1>3, <2>1 DEF ReadExecutions, TypeOK, tables
<1>. QED
  BY <1>1, <1>2, <1>3

LEMMA SweepWritesKeepTypes ==
    ASSUME ReconciliationConstants, TypeOK,
           SweepExecution \/ MarkExecution \/ SweepOrder \/ MarkOrder
    PROVE  TypeOK'
<1>0. /\ sw \in Sweep /\ sw.i \in Orders /\ Payload \in OrderState
      /\ sw.rows[sw.i] \in Row
  BY SweepParts DEF TypeOK, Payload
<1>1. CASE SweepExecution
  <2>1. CASE Owned(sw.i) /\ Changed("execution")
    <3>1. Updated(sw.rows[sw.i], Payload, Payload.exit = "filled") \in Row
      BY <1>0, UpdatedIsRow
    <3>2. sw' \in Sweep
      <4>1. Spend("execution") \in 0..WriteBudget
        BY <2>1, SpendInRange
      <4>2. sw' = [sw EXCEPT !.pc = "marked", !.budget = Spend("execution")]
        BY <1>1, <2>1 DEF SweepExecution
      <4>. QED
        BY <1>0, <4>1, <4>2, SweepParts
    <3>. QED
      BY <1>1, <2>1, <3>1, <3>2 DEF SweepExecution, TypeOK
  <2>2. CASE ~(Owned(sw.i) /\ Changed("execution"))
    <3>1. sw' \in Sweep
      BY <1>0, <1>1, <2>2, SweepParts DEF SweepExecution
    <3>. QED
      BY <1>1, <2>2, <3>1 DEF SweepExecution, TypeOK
  <2>. QED
    BY <2>1, <2>2
<1>2. ASSUME NEW k \in {"execution", "order"}, Mark(k)
      PROVE  written' \in [Keys -> Fingerprints]
  <2>1. Owned(sw.i) \in BOOLEAN /\ (Payload.exit = "filled") \in BOOLEAN
    BY DEF Owned
  <2>2. FingerprintOf(k, Payload, Owned(sw.i)) \in Fingerprints
    BY <1>0, <2>1, FingerprintIsTyped DEF FingerprintOf
  <2>. QED
    BY <1>2, <2>2 DEF Mark, TypeOK
<1>3. CASE MarkExecution
  <2>1. sw' \in Sweep
    BY <1>0, <1>3, SweepParts DEF MarkExecution
  <2>2. written' \in [Keys -> Fingerprints]
    BY <1>2, <1>3 DEF MarkExecution
  <2>. QED
    BY <1>3, <2>1, <2>2 DEF MarkExecution, TypeOK
<1>4. CASE SweepOrder
  <2>1. CASE Payload.st # None /\ Changed("order")
    <3>1. sw' \in Sweep
      <4>1. Spend("order") \in 0..WriteBudget
        BY <2>1, SpendInRange
      <4>2. sw' = [sw EXCEPT !.pc = "ordered", !.budget = Spend("order")]
        BY <1>4, <2>1 DEF SweepOrder
      <4>. QED
        BY <1>0, <4>1, <4>2, SweepParts
    <3>2. Bracket(Payload) \in OrderState
      BY <1>0, OrderParts
    <3>. QED
      BY <1>4, <2>1, <3>1, <3>2 DEF SweepOrder, TypeOK
  <2>2. CASE ~(Payload.st # None /\ Changed("order"))
    <3>1. sw' \in Sweep
      BY <1>4, <2>2, NextOrderIsTyped DEF SweepOrder
    <3>. QED
      BY <1>4, <2>2, <3>1 DEF SweepOrder, TypeOK
  <2>. QED
    BY <2>1, <2>2
<1>5. CASE MarkOrder
  <2>1. sw' \in Sweep
    BY <1>5, NextOrderIsTyped DEF MarkOrder
  <2>2. written' \in [Keys -> Fingerprints]
    BY <1>2, <1>5 DEF MarkOrder
  <2>. QED
    BY <1>5, <2>1, <2>2 DEF MarkOrder, TypeOK
<1>. QED
  BY <1>1, <1>3, <1>4, <1>5

LEMMA SweepEndKeepsTypes ==
    ASSUME ReconciliationConstants, TypeOK,
           \/ SafePosition \/ UnownedPosition \/ FlattenUnprotected \/ SweepRaises
           \/ FinishSweep \/ CancelAllOrders \/ CloseAllPositions
    PROVE  TypeOK'
<1>0. /\ sw \in Sweep /\ sw.i \in Orders /\ sw.no \in 0..(Slices - 1)
      /\ bro \in [Orders -> OrderState] /\ faults \in 0..MaxFaults
      /\ (faults < MaxFaults => faults + 1 \in 0..MaxFaults)
  <2>1. sw \in Sweep /\ bro \in [Orders -> OrderState] /\ faults \in 0..MaxFaults
    BY DEF TypeOK
  <2>2. faults < MaxFaults => faults + 1 \in 0..MaxFaults
    BY <2>1 DEF ReconciliationConstants
  <2>. QED
    BY <2>1, <2>2, SweepParts
<1>1. IdleSweep(sw.no) \in Sweep
  BY <1>0, NothingIsTyped
<1>2. CASE SafePosition
  <2>1. /\ {} \in SUBSET Issues /\ {"unknown"} \in SUBSET Issues
    BY DEF Issues
  <2>2. sw' \in Sweep
    BY <1>2, <2>1, NextPositionIsTyped DEF SafePosition
  <2>. QED
    BY <1>2, <2>2 DEF SafePosition, NextPosition, tables, TypeOK
<1>3. CASE UnownedPosition
  <2>1. {"unknown", "bare"} \in SUBSET Issues
    BY DEF Issues
  <2>2. sw' \in Sweep
    BY <1>3, <2>1, NextPositionIsTyped DEF UnownedPosition
  <2>. QED
    BY <1>3, <2>2 DEF UnownedPosition, NextPosition, tables, TypeOK
<1>4. CASE FlattenUnprotected
  <2>1. {} \in SUBSET Issues /\ {"bare"} \in SUBSET Issues
    BY DEF Issues
  <2>2. sw' \in Sweep
    BY <1>4, <2>1, NextPositionIsTyped DEF FlattenUnprotected
  <2>3. bro' \in [Orders -> OrderState]
    <3>1. [bro[sw.i] EXCEPT !.exit = "working"] \in OrderState
      BY <1>0, OrderParts DEF Exits
    <3>2. bro' = bro \/ bro' = [bro EXCEPT ![sw.i] = [bro[sw.i] EXCEPT !.exit = "working"]]
      BY <1>4 DEF FlattenUnprotected, ClosePosition
    <3>. QED
      BY <1>0, <3>1, <3>2
  <2>4. faults' \in 0..MaxFaults
    BY <1>0, <1>4 DEF FlattenUnprotected
  <2>5. UNCHANGED <<tables, st>>
    BY <1>4 DEF FlattenUnprotected, NextPosition
  <2>. QED
    BY <2>2, <2>3, <2>4, <2>5 DEF tables, TypeOK
<1>5. CASE SweepRaises
  <2>1. sw.try < Attempts => sw.try + 1 \in 0..Attempts
    <3>1. sw.try \in 0..Attempts
      BY <1>0, SweepParts
    <3>. QED
      BY <3>1 DEF ReconciliationConstants
  <2>2. {"error"} \in SUBSET Issues
    BY DEF Issues
  <2>3. sw' \in Sweep
    BY <1>1, <1>5, <2>1, <2>2, SweepParts DEF SweepRaises
  <2>. QED
    BY <1>0, <1>5, <2>3 DEF SweepRaises, tables, TypeOK
<1>6. CASE FinishSweep
  <2>1. CASE fails' = 0 /\ UNCHANGED halted /\ sw' = IdleSweep(sw.no)
    <3>1. 0 \in 0..Threshold
      BY DEF ReconciliationConstants
    <3>. QED
      BY <1>1, <1>6, <2>1, <3>1 DEF FinishSweep, TypeOK
  <2>2. CASE RecordFailure(sw.issues)
    <3>1. fails' \in 0..Threshold
      BY <2>2 DEF RecordFailure, Capped, TypeOK, ReconciliationConstants
    <3>2. halted' \in BOOLEAN
      BY <2>2 DEF RecordFailure, Immediate, TypeOK
    <3>3. \E pc \in {"cancel", "idle"} : sw' = [IdleSweep(sw.no) EXCEPT !.pc = pc]
      BY <2>2 DEF RecordFailure
    <3>4. sw' \in Sweep
      <4>1. PICK pc \in {"order", "cancel", "close", "idle"} :
              sw' = [IdleSweep(sw.no) EXCEPT !.pc = pc]
        BY <3>3
      <4>. QED
        BY <1>1, <4>1, SweepParts
    <3>. QED
      BY <1>6, <3>1, <3>2, <3>4 DEF FinishSweep, TypeOK
  <2>. QED
    BY <1>6, <2>1, <2>2 DEF FinishSweep
<1>7. CASE CancelAllOrders
  <2>1. sw' \in Sweep
    BY <1>0, <1>7, SweepParts DEF CancelAllOrders
  <2>2. \A o \in Orders :
          [st   |-> IF bro[o].st = "new" THEN "canceled" ELSE bro[o].st,
           legs |-> IF bro[o].legs \in {"live", "target"} THEN "dead" ELSE bro[o].legs,
           exit |-> IF bro[o].exit = "working" THEN None ELSE bro[o].exit] \in OrderState
    BY <1>0 DEF OrderState, None
  <2>3. bro' \in [Orders -> OrderState]
    BY <1>0, <1>7, <2>2 DEF CancelAllOrders
  <2>4. faults' \in 0..MaxFaults
    BY <1>0, <1>7 DEF CancelAllOrders
  <2>. QED
    BY <1>7, <2>1, <2>3, <2>4 DEF CancelAllOrders, tables, TypeOK
<1>8. CASE CloseAllPositions
  <2>1. \A o \in Orders : [bro[o] EXCEPT !.legs = "dead", !.exit = "working"] \in OrderState
    BY <1>0, OrderParts DEF Legs, Exits
  <2>2. bro' \in [Orders -> OrderState]
    BY <1>0, <1>8, <2>1 DEF CloseAllPositions
  <2>3. faults' \in 0..MaxFaults
    BY <1>0, <1>8 DEF CloseAllPositions
  <2>. QED
    BY <1>1, <1>8, <2>2, <2>3 DEF CloseAllPositions, tables, TypeOK
<1>. QED
  BY <1>2, <1>3, <1>4, <1>5, <1>6, <1>7, <1>8

LEMMA TypeStep == ASSUME ReconciliationConstants, TypeOK, [Next]_vars PROVE TypeOK'
<1>1. CASE Next
  BY <1>1, MarketKeepsTypes, StreamKeepsTypes, SweepReadsKeepTypes, SweepWritesKeepTypes,
     SweepEndKeepsTypes DEF Next, SweepStep
<1>2. CASE UNCHANGED vars
  BY <1>2 DEF vars, TypeOK
<1>. QED
  BY <1>1, <1>2

\* The rows, the cache and the locals of the sweep and of the stream keep their types,
\* through restarts, failed attempts and the emergency stop: the write budget never goes
\* below zero, the attempts never beyond their number, the failures never beyond the
\* threshold (reconciliation.py 118-160, 443-454, 585-625).
THEOREM TypesKept == Spec => []TypeOK
<1>1. Init => TypeOK
  BY TypeInit, ReconciliationConstants
<1>2. TypeOK /\ [Next]_vars => TypeOK'
  BY TypeStep, ReconciliationConstants
<1>. QED
  BY <1>1, <1>2, PTL DEF Spec

-----------------------------------------------------------------------------
(* What is booked *)

\* An order whose leg has filled, or that has an exit, is a filled order.
Ordered(p) == p.legs = "filled" \/ p.exit # None => p.st = "filled"

\* q is the order p, possibly later: what p has reached, q has.
Behind(p, q) ==
    /\ p.st \in {"filled", "canceled", "rejected"} => q.st = p.st
    /\ p.legs = "filled" => q.legs = "filled"
    /\ p.exit = "filled" => q.exit = "filled"

\* What the row r claims of the order q.
Justified(r, q) ==
    /\ r.st \in {"filled", "canceled"} => q.st = r.st
    /\ r.st = "failed" => q.st = "rejected"
    /\ r.pnl = "leg" => q.legs = "filled"
    /\ r.pnl = "exit" => q.exit = "filled"

BrokerOK == \A o \in Orders : Ordered(bro[o])
RowsOK == \A o \in Orders : Justified(row[o], bro[o])
SweepOK == \A o \in Orders : Behind(sw.orders[o], bro[o]) /\ Justified(sw.rows[o], bro[o])
StreamOK ==
    /\ Behind(st.pay, bro[st.o]) /\ Justified(st.row, bro[st.o])
    /\ st.pc = "idle" => st.pay = NoOrder

BookedInv == TypeOK /\ BrokerOK /\ RowsOK /\ SweepOK /\ StreamOK

\* The broker only goes forward.
Advances(p, q) == q \in OrderState /\ Behind(p, q) /\ Ordered(q)
Forward == \A o \in Orders : Advances(bro[o], bro'[o])

LEMMA BehindForward ==
    ASSUME NEW p \in OrderState, NEW q \in OrderState, NEW s \in OrderState, NEW r \in Row,
           Behind(q, s)
    PROVE  /\ Behind(p, q) => Behind(p, s)
           /\ Justified(r, q) => Justified(r, s)
  BY DEF Behind, Justified, OrderState, Row

\* An order that is nobody's, and the order as it is.
LEMMA BehindBase ==
    ASSUME NEW q
    PROVE  /\ Behind(NoOrder, q) /\ Justified(NoRow, q)
           /\ Behind(q, q)
           /\ q \in OrderState => Behind(Bracket(q), q)
  BY DEF Behind, Justified, NoOrder, NoRow, None, Bracket, OrderState

\* The heart of the argument: a late copy applied to a late copy.
LEMMA UpdatedIsJustified ==
    ASSUME NEW r \in Row, NEW p \in OrderState, NEW q \in OrderState, NEW exits \in BOOLEAN,
           Justified(r, q), Behind(p, q), exits => p.exit = "filled"
    PROVE  Justified(Updated(r, p, exits), q)
  BY DEF Justified, Behind, Updated, Row, OrderState, None

\* What the broker, a close and the emergency stop do to an order.
LEMMA Moves ==
    ASSUME NEW p \in OrderState, Ordered(p)
    PROVE  /\ p.st = None => Advances(p, [st |-> "new", legs |-> "live", exit |-> None])
           /\ p.st = "new" => Advances(p, [p EXCEPT !.st = "filled"])
           /\ \A s \in {"canceled", "rejected"} :
                 p.st = "new" => Advances(p, [p EXCEPT !.st = s, !.legs = "dead"])
           /\ p.st = "filled" => Advances(p, [p EXCEPT !.legs = "filled"])
           /\ \A l \in {"target", "dead"} :
                 p.legs # "filled" => Advances(p, [p EXCEPT !.legs = l])
           /\ p.st = "filled" /\ p.legs # "filled" /\ p.exit # "filled"
                 => Advances(p, [p EXCEPT !.legs = "dead", !.exit = "working"])
           /\ p.st = "filled" /\ p.exit # "filled" => Advances(p, [p EXCEPT !.exit = "working"])
           /\ p.exit = "working" => Advances(p, [p EXCEPT !.exit = "filled"])
           /\ Advances(p, [st   |-> IF p.st = "new" THEN "canceled" ELSE p.st,
                           legs |-> IF p.legs \in {"live", "target"} THEN "dead" ELSE p.legs,
                           exit |-> IF p.exit = "working" THEN None ELSE p.exit])
           /\ Advances(p, p)
  BY DEF OrderState, Ordered, Behind, Advances, None

LEMMA BrokerForward ==
    ASSUME TypeOK, BrokerOK, [Next]_vars
    PROVE  Forward
<1>0. bro \in [Orders -> OrderState] /\ \A o \in Orders : bro[o] \in OrderState /\ Ordered(bro[o])
  BY DEF TypeOK, BrokerOK
<1>1. bro' = bro => Forward
  BY <1>0, Moves DEF Forward
<1>2. ASSUME NEW o \in Orders, NEW p, Advances(bro[o], p), bro' = [bro EXCEPT ![o] = p]
      PROVE  Forward
  <2>1. ASSUME NEW u \in Orders PROVE Advances(bro[u], bro'[u])
    BY <1>0, <1>2, Moves
  <2>. QED
    BY <2>1 DEF Forward
<1>3. ASSUME NEW o \in Orders, Market(o)
      PROVE  Forward
  <2>0. bro[o] \in OrderState /\ Ordered(bro[o])
    BY <1>0
  <2>1. CASE Accept(o)
    BY <1>2, <2>0, <2>1, Moves DEF Accept, Broker
  <2>2. CASE RecordExecution(o)
    BY <1>1, <2>2 DEF RecordExecution
  <2>3. CASE Fill(o)
    BY <1>2, <2>0, <2>3, Moves DEF Fill, Broker
  <2>4. CASE EntryDies(o)
    BY <1>2, <2>0, <2>4, Moves DEF EntryDies, Broker
  <2>5. CASE LegFills(o)
    BY <1>2, <2>0, <2>5, Moves DEF LegFills, Position, Broker
  <2>6. CASE StopDies(o)
    BY <1>2, <2>0, <2>6, Moves DEF StopDies, Position, Broker
  <2>7. CASE StrategyExit(o)
    BY <1>2, <2>0, <2>7, Moves DEF StrategyExit, Position, Broker
  <2>8. CASE ExitFills(o)
    BY <1>2, <2>0, <2>8, Moves DEF ExitFills, Broker
  <2>. QED
    BY <1>3, <2>1, <2>2, <2>3, <2>4, <2>5, <2>6, <2>7, <2>8 DEF Market
<1>4. CASE FlattenUnprotected
  <2>1. CASE bro' = bro
    BY <1>1, <2>1
  <2>2. CASE Position(sw.i) /\ bro' = [bro EXCEPT ![sw.i].exit = "working"]
    <3>1. sw.i \in Orders
      BY SweepParts, ReconciliationConstants DEF TypeOK
    <3>2. bro[sw.i] \in OrderState /\ Ordered(bro[sw.i])
      BY <1>0, <3>1
    <3>. QED
      BY <1>2, <2>2, <3>1, <3>2, Moves DEF Position
  <2>. QED
    BY <1>4, <2>1, <2>2 DEF FlattenUnprotected, ClosePosition
<1>5. CASE CancelAllOrders
  <2>1. CASE bro' = bro
    BY <1>1, <2>1
  <2>2. CASE bro' # bro
    BY <1>0, <1>5, <2>2, Moves DEF CancelAllOrders, Forward
  <2>. QED
    BY <2>1, <2>2
<1>6. CASE CloseAllPositions
  <2>1. CASE bro' = bro
    BY <1>1, <2>1
  <2>2. CASE bro' # bro
    <3>1. ASSUME NEW o \in Orders PROVE Advances(bro[o], bro'[o])
      BY <1>0, <1>6, <2>2, Moves DEF CloseAllPositions, Position
    <3>. QED
      BY <3>1 DEF Forward
  <2>. QED
    BY <2>1, <2>2
<1>7. CASE /\ ~FlattenUnprotected /\ ~CancelAllOrders /\ ~CloseAllPositions
           /\ ~\E o \in Orders : Market(o)
  <2>1. bro' = bro
    BY <1>7 DEF Next, vars, SweepStep, StreamStep, StreamUpdate, BeginAttempt, ReadPositions,
       ReadExecutions, SweepExecution, MarkExecution, SweepOrder, MarkOrder, SafePosition,
       UnownedPosition, FinishSweep, StreamGetOrder, StreamWrite, StreamUpsert, StreamForget,
       SweepRaises, StreamRaises, Restart, ResumeAutomation
  <2>. QED
    BY <1>1, <2>1
<1>. QED
  BY <1>3, <1>4, <1>5, <1>6, <1>7

\* Copies that are kept stay behind, and rows that are kept stay justified.
LEMMA KeptIsFine ==
    ASSUME TypeOK, Forward, NEW o \in Orders, NEW p \in OrderState, NEW r \in Row
    PROVE  /\ Behind(p, bro[o]) => Behind(p, bro'[o])
           /\ Justified(r, bro[o]) => Justified(r, bro'[o])
<1>1. bro[o] \in OrderState /\ bro'[o] \in OrderState /\ Behind(bro[o], bro'[o])
  BY DEF TypeOK, Forward, Advances
<1>. QED
  BY <1>1, BehindForward

LEMMA RowsStep ==
    ASSUME BookedInv, [Next]_vars, Forward
    PROVE  RowsOK'
<1>0. TypeOK /\ sw \in Sweep /\ st \in Stream
  BY DEF BookedInv, TypeOK
<1>1. CASE row' = row
  <2>1. ASSUME NEW o \in Orders PROVE Justified(row'[o], bro'[o])
    BY <1>0, <1>1, KeptIsFine, NothingIsTyped, ReconciliationConstants DEF BookedInv, TypeOK, RowsOK
  <2>. QED
    BY <2>1 DEF RowsOK
<1>2. ASSUME NEW o \in Orders, NEW r, Justified(r, bro[o]), row' = [row EXCEPT ![o] = r],
             bro' = bro
      PROVE  RowsOK'
  BY <1>2 DEF BookedInv, TypeOK, RowsOK
<1>3. ASSUME NEW o \in Orders, RecordExecution(o)
      PROVE  RowsOK'
  <2>1. row[o] \in Row /\ Justified(row[o], bro[o])
    BY DEF BookedInv, TypeOK, RowsOK
  <2>2. Justified([row[o] EXCEPT !.st = "submitted"], bro[o])
    BY <2>1 DEF Justified, Row
  <2>. QED
    BY <1>2, <1>3, <2>2 DEF RecordExecution
<1>4. CASE SweepExecution /\ row' # row
  <2>1. sw.i \in Orders
    BY <1>0, SweepParts, ReconciliationConstants
  <2>2. /\ Payload \in OrderState /\ sw.rows[sw.i] \in Row /\ bro[sw.i] \in OrderState
    BY <1>0, <2>1, SweepParts, ReconciliationConstants DEF Payload, TypeOK
  <2>3. Behind(Payload, bro[sw.i]) /\ Justified(sw.rows[sw.i], bro[sw.i])
    BY <2>1 DEF BookedInv, SweepOK, Payload
  <2>4. Justified(Updated(sw.rows[sw.i], Payload, Payload.exit = "filled"), bro[sw.i])
    BY <2>2, <2>3, UpdatedIsJustified
  <2>. QED
    BY <1>2, <1>4, <2>1, <2>4 DEF SweepExecution
<1>5. CASE StreamWrite
  <2>1. st.o \in Orders
    BY <1>0 DEF Stream
  <2>2. st.pay \in OrderState /\ st.row \in Row /\ bro[st.o] \in OrderState
    BY <1>0, <2>1 DEF Stream, TypeOK
  <2>3. Behind(st.pay, bro[st.o]) /\ Justified(st.row, bro[st.o])
    BY DEF BookedInv, StreamOK
  <2>4. Justified(Updated(st.row, st.pay, FALSE), bro[st.o])
    BY <2>2, <2>3, UpdatedIsJustified
  <2>. QED
    BY <1>2, <1>5, <2>1, <2>4 DEF StreamWrite
<1>6. CASE /\ ~SweepExecution /\ ~StreamWrite
           /\ ~\E o \in Orders : RecordExecution(o)
  <2>1. row' = row
    BY <1>6 DEF Next, vars, tables, SweepStep, StreamStep, StreamUpdate, BeginAttempt, ReadPositions,
       ReadExecutions, MarkExecution, SweepOrder, MarkOrder, SafePosition, NextPosition,
       UnownedPosition, FinishSweep, StreamGetOrder, StreamUpsert, StreamForget,
       SweepRaises, StreamRaises, Restart, ResumeAutomation, FlattenUnprotected,
       CancelAllOrders, CloseAllPositions, Market, Accept, Fill, EntryDies, LegFills, StopDies,
       StrategyExit, ExitFills, Broker
  <2>. QED
    BY <1>1, <2>1
<1>. QED
  BY <1>1, <1>3, <1>4, <1>5, <1>6

\* The sweep's copies: taken from the broker and the table, kept, or dropped.
LEMMA SweepCopiesStep ==
    ASSUME BookedInv, [Next]_vars, Forward
    PROVE  SweepOK'
<1>0. /\ TypeOK /\ sw \in Sweep /\ bro \in [Orders -> OrderState] /\ row \in [Orders -> Row]
      /\ sw.orders \in [Orders -> OrderState] /\ sw.rows \in [Orders -> Row]
  BY SweepParts, ReconciliationConstants DEF BookedInv, TypeOK
<1>1. ASSUME sw'.orders \in {sw.orders, bro}, sw'.rows \in {sw.rows, row}
      PROVE  SweepOK'
  <2>1. ASSUME NEW o \in Orders
        PROVE  Behind(sw'.orders[o], bro'[o]) /\ Justified(sw'.rows[o], bro'[o])
    <3>1. sw'.orders[o] \in OrderState /\ sw'.rows[o] \in Row
      BY <1>0, <1>1
    <3>2. Behind(sw'.orders[o], bro[o]) /\ Justified(sw'.rows[o], bro[o])
      BY <1>1, BehindBase DEF BookedInv, SweepOK, RowsOK
    <3>. QED
      BY <1>0, <3>1, <3>2, KeptIsFine
  <2>. QED
    BY <2>1 DEF SweepOK
<1>2. ASSUME sw'.orders = [o \in Orders |-> NoOrder], sw'.rows = [o \in Orders |-> NoRow]
      PROVE  SweepOK'
  BY <1>2, BehindBase DEF SweepOK
<1>3. CASE sw' = sw
  BY <1>1, <1>3
<1>4. CASE BeginAttempt
  <2> DEFINE attempt == [sw EXCEPT !.pc = "positions", !.no = (sw.no + 1) % Slices,
                                   !.budget = WriteBudget, !.orders = bro,
                                   !.try = IF SweepAt("idle") THEN 1 ELSE sw.try]
  <2>1. sw' = attempt \/ \E issue \in {"mismatch", "blocked"} : sw' = [attempt EXCEPT !.issues = {issue}]
    BY <1>4 DEF BeginAttempt
  <2>2. sw'.orders = bro /\ sw'.rows = sw.rows
    BY <1>0, <2>1 DEF Sweep
  <2>. QED
    BY <1>1, <2>2
<1>5. CASE ReadPositions \/ ReadExecutions
  <2>1. sw'.orders = sw.orders /\ sw'.rows \in {sw.rows, row}
    BY <1>0, <1>5 DEF ReadPositions, ReadExecutions, Sweep
  <2>. QED
    BY <1>1, <2>1
<1>6. CASE SweepExecution \/ MarkExecution \/ SweepOrder \/ MarkOrder
  <2>1. sw'.orders = sw.orders /\ sw'.rows = sw.rows
    BY <1>0, <1>6 DEF SweepExecution, MarkExecution, SweepOrder, MarkOrder, NextOrder, Sweep
  <2>. QED
    BY <1>1, <2>1
<1>7. CASE CancelAllOrders
  <2>1. sw'.orders = sw.orders /\ sw'.rows = sw.rows
    BY <1>0, <1>7 DEF CancelAllOrders, Sweep
  <2>. QED
    BY <1>1, <2>1
<1>8. ASSUME NEW new, NextPosition(new)
      PROVE  SweepOK'
  <2>1. CASE sw.i < N
    <3>1. sw'.orders = sw.orders /\ sw'.rows = sw.rows
      BY <1>0, <1>8, <2>1 DEF NextPosition, Sweep
    <3>. QED
      BY <1>1, <3>1
  <2>2. CASE ~(sw.i < N)
    BY <1>2, <1>8, <2>2 DEF NextPosition, IdleSweep
  <2>. QED
    BY <2>1, <2>2
<1>9. CASE SafePosition \/ UnownedPosition \/ FlattenUnprotected
  BY <1>8, <1>9 DEF SafePosition, UnownedPosition, FlattenUnprotected
<1>10. CASE SweepRaises \/ FinishSweep \/ CloseAllPositions \/ Restart
  <2>1. CASE SweepRaises
    BY <1>2, <2>1 DEF SweepRaises, IdleSweep
  <2>2. CASE FinishSweep
    <3>1. \/ sw' = IdleSweep(sw.no)
          \/ \E pc \in {"cancel", "idle"} : sw' = [IdleSweep(sw.no) EXCEPT !.pc = pc]
      BY <2>2 DEF FinishSweep, RecordFailure
    <3>. QED
      BY <1>2, <3>1 DEF IdleSweep
  <2>3. CASE CloseAllPositions
    BY <1>2, <2>3 DEF CloseAllPositions, IdleSweep
  <2>4. CASE Restart
    BY <1>2, <2>4 DEF Restart, IdleSweep
  <2>. QED
    BY <1>10, <2>1, <2>2, <2>3, <2>4
<1>11. CASE \/ \E o \in Orders : Market(o) \/ StreamUpdate(o)
            \/ StreamStep \/ StreamRaises \/ ResumeAutomation \/ UNCHANGED vars
  <2>1. sw' = sw
    BY <1>11 DEF Market, Accept, RecordExecution, Fill, EntryDies, LegFills, StopDies, StrategyExit,
       ExitFills, Broker, StreamUpdate, StreamStep, StreamGetOrder, StreamWrite, StreamUpsert,
       StreamForget, StreamRaises, ResumeAutomation, vars
  <2>. QED
    BY <1>3, <2>1
<1>. QED
  BY <1>4, <1>5, <1>6, <1>7, <1>9, <1>10, <1>11 DEF Next, SweepStep

\* The same for the stream's copies.
LEMMA StreamCopiesStep ==
    ASSUME BookedInv, [Next]_vars, Forward
    PROVE  StreamOK'
<1>0. /\ TypeOK /\ st \in Stream /\ st.o \in Orders /\ st.pay \in OrderState /\ st.row \in Row
      /\ Behind(st.pay, bro[st.o]) /\ Justified(st.row, bro[st.o])
      /\ st.pc = "idle" => st.pay = NoOrder
      /\ NoOrder \in OrderState /\ NoRow \in Row /\ 1 \in Orders
  BY NothingIsTyped, ReconciliationConstants DEF BookedInv, TypeOK, Stream, StreamOK
<1>1. ASSUME st'.o \in Orders, st'.pay \in OrderState, st'.row \in Row,
             Behind(st'.pay, bro[st'.o]), Justified(st'.row, bro[st'.o]),
             st'.pc = "idle" => st'.pay = NoOrder
      PROVE  StreamOK'
  BY <1>0, <1>1, KeptIsFine DEF StreamOK
<1>2. CASE \E o \in Orders : StreamUpdate(o)
  <2>1. PICK o \in Orders : StreamUpdate(o)
    BY <1>2
  <2>2. st'.pc = "get" /\ st'.o = o /\ st'.row = row[o] /\ st'.pay = st.pay /\ st.pc = "idle"
    BY <1>0, <2>1 DEF StreamUpdate, StreamAt, Stream
  <2>3. row[o] \in Row /\ Justified(row[o], bro[o])
    BY DEF BookedInv, TypeOK, RowsOK
  <2>4. Behind(st.pay, bro[o])
    BY <1>0, <2>2, BehindBase
  <2>. QED
    BY <1>0, <1>1, <2>2, <2>3, <2>4
<1>3. CASE StreamGetOrder
  <2>1. /\ st'.pc = "write" /\ st'.o = st.o /\ st'.row = st.row
        /\ st'.pay = Bracket(bro[st.o])
    BY <1>0, <1>3 DEF StreamGetOrder, Stream
  <2>2. bro[st.o] \in OrderState
    BY <1>0 DEF TypeOK
  <2>3. Bracket(bro[st.o]) \in OrderState /\ Behind(Bracket(bro[st.o]), bro[st.o])
    BY <2>2, OrderParts, BehindBase
  <2>. QED
    BY <1>0, <1>1, <2>1, <2>3
<1>4. CASE StreamWrite
  <2>1. st'.pc = "upsert" /\ st'.o = st.o /\ st'.row = NoRow /\ st'.pay = st.pay
    BY <1>0, <1>4 DEF StreamWrite, Stream
  <2>. QED
    BY <1>0, <1>1, <2>1, BehindBase
<1>5. CASE StreamUpsert
  <2>1. st'.pc = "forget" /\ st'.o = st.o /\ st'.row = st.row /\ st'.pay = NoOrder
    BY <1>0, <1>5 DEF StreamUpsert, Stream
  <2>. QED
    BY <1>0, <1>1, <2>1, BehindBase
<1>6. CASE StreamForget \/ StreamRaises \/ Restart
  <2>1. st'.o = 1 /\ st'.row = NoRow /\ st'.pay = NoOrder
    BY <1>6 DEF StreamForget, StreamRaises, Restart, IdleStream
  <2>. QED
    BY <1>0, <1>1, <2>1, BehindBase
<1>7. CASE st' = st
  BY <1>0, <1>1, <1>7
<1>8. CASE \/ \E o \in Orders : Market(o)
           \/ SweepStep \/ SweepRaises \/ ResumeAutomation \/ UNCHANGED vars
  <2>1. st' = st
    BY <1>8 DEF Market, Accept, RecordExecution, Fill, EntryDies, LegFills, StopDies, StrategyExit,
       ExitFills, Broker, SweepStep, BeginAttempt, ReadPositions, ReadExecutions, SweepExecution,
       MarkExecution, SweepOrder, MarkOrder, SafePosition, UnownedPosition, FlattenUnprotected,
       NextPosition, FinishSweep, CancelAllOrders, CloseAllPositions, SweepRaises,
       ResumeAutomation, vars
  <2>. QED
    BY <1>7, <2>1
<1>. QED
  BY <1>2, <1>3, <1>4, <1>5, <1>6, <1>8 DEF Next, StreamStep

\* The stream and the sweep write whole rows from copies that the broker has overtaken, through
\* failed attempts, restarts and the emergency stop; even so no row claims a fill, a
\* cancellation or a realized result that the broker did not have (reconciliation.py 456-497).
THEOREM BookedIsRealAlways == Spec => []BookedIsReal
<1>1. Init => BookedInv
  <2>. SUFFICES ASSUME Init PROVE BookedInv
    OBVIOUS
  <2>1. TypeOK
    BY TypeInit, ReconciliationConstants
  <2>2. BrokerOK
    BY DEF Init, BrokerOK, Ordered, NoOrder, None
  <2>3. RowsOK
    BY BehindBase DEF Init, RowsOK
  <2>4. SweepOK
    BY BehindBase DEF Init, SweepOK, IdleSweep
  <2>5. StreamOK
    BY BehindBase DEF Init, StreamOK, IdleStream
  <2>. QED
    BY <2>1, <2>2, <2>3, <2>4, <2>5 DEF BookedInv
<1>2. BookedInv /\ [Next]_vars => BookedInv'
  <2>. SUFFICES ASSUME BookedInv, [Next]_vars PROVE BookedInv'
    OBVIOUS
  <2>1. TypeOK'
    BY TypeStep, ReconciliationConstants DEF BookedInv
  <2>2. Forward
    BY BrokerForward DEF BookedInv
  <2>3. BrokerOK'
    BY <2>2 DEF Forward, Advances, BrokerOK
  <2>. QED
    BY <2>1, <2>2, <2>3, RowsStep, SweepCopiesStep, StreamCopiesStep DEF BookedInv
<1>3. BookedInv => BookedIsReal
  BY DEF BookedInv, RowsOK, Justified, BookedIsReal
<1>. QED
  BY <1>1, <1>2, <1>3, PTL DEF Spec
=============================================================================
