--------------------------- MODULE EtoroLiveProofs ---------------------------
(***************************************************************************)
(* Proofs about the real-money copy of the paper account (EtoroLive), for   *)
(* any number of symbols, orders, half days and failures.                   *)
(*                                                                          *)
(* The lock of the mirror's sections is private to a process.  The daily    *)
(* cap, one order per symbol, its stop and its card are proved as long as   *)
(* no two processes are in a section at once (Serial): always with one      *)
(* container, and with two as if the lock were shared.  That only strategy  *)
(* exits are copied needs no such assumption.                               *)
(***************************************************************************)
EXTENDS EtoroLive, FiniteSetTheorems, TLAPS

-----------------------------------------------------------------------------
(* Types: no row ever counts more than DailyCap, and the orders are used in order *)

Counted == [day: 0..Day(MaxNow), trades_today: 0..DailyCap, open_symbols: SUBSET Symbols]

UsedInOrder == \E n \in 0..MaxOrders : \A o \in Orders : ord[o].st # "none" <=> o <= n

TypeInv ==
    /\ TypeOK
    /\ UsedInOrder
    /\ row \in Counted
    /\ \A c \in Procs :
        /\ p[c].row \in Counted /\ p[c].before \in Counted
        /\ p[c].pc = "ahead" => p[c].row.trades_today < DailyCap


-----------------------------------------------------------------------------
(* Days *)

LEMMA DayType == \A t \in Times : Day(t) \in 0..Day(MaxNow) /\ t \in Nat
BY EtoroLiveConstants DEF Day, Times

LEMMA DayMonotone == \A t, u \in Times : t <= u => Day(t) <= Day(u)
BY EtoroLiveConstants DEF Day, Times

LEMMA ConstantTypes ==
    /\ MaxOrders \in Nat \ {0} /\ DailyCap \in Nat \ {0} /\ OpenCap \in Nat \ {0}
    /\ FlatReads \in Nat \ {0} /\ ReadFailures \in Nat \ {0}
    /\ MaxNow \in Nat /\ MaxFaults \in Nat /\ Day(MaxNow) \in Nat
BY EtoroLiveConstants DEF Day

(* Records *)

LEMMA CountedIsRow == \A r \in Counted : r \in Row
BY ConstantTypes DEF Counted, Row

LEMMA CountedParts ==
  ASSUME NEW r \in Counted
  PROVE  /\ r.day \in 0..Day(MaxNow) /\ r.trades_today \in 0..DailyCap
         /\ r.open_symbols \subseteq Symbols
BY DEF Counted

LEMMA NewRow ==
  ASSUME NEW r \in Counted, NEW os \in SUBSET Symbols
  PROVE  /\ [r EXCEPT !.open_symbols = os] \in Counted
         /\ [r EXCEPT !.open_symbols = os].day = r.day
         /\ [r EXCEPT !.open_symbols = os].trades_today = r.trades_today
         /\ [r EXCEPT !.open_symbols = os].open_symbols = os
BY DEF Counted

LEMMA CountOne ==
  ASSUME NEW r \in Counted, r.trades_today < DailyCap, NEW s \in Symbols,
         NEW q, q = [r EXCEPT !.trades_today = r.trades_today + 1,
                              !.open_symbols = r.open_symbols \cup {s}]
  PROVE  /\ q \in Counted /\ q.day = r.day /\ q.trades_today = r.trades_today + 1
         /\ q.open_symbols = r.open_symbols \cup {s}
<1>1. r.trades_today + 1 \in 0..DailyCap
  BY ConstantTypes, CountedParts
<1>2. r.open_symbols \cup {s} \in SUBSET Symbols
  BY CountedParts
<1> QED BY <1>1, <1>2 DEF Counted

LEMMA TodayRow ==
  ASSUME row \in Counted, now \in Times
  PROVE  /\ StateToday \in Counted /\ StateToday.day = Day(now)
         /\ StateToday.open_symbols = row.open_symbols
         /\ StateToday.trades_today = IF row.day = Day(now) THEN row.trades_today ELSE 0
<1>1. Day(now) \in 0..Day(MaxNow) /\ 0 \in 0..DailyCap
  BY ConstantTypes, DayType
<1>2. CASE row.day = Day(now)
  BY <1>2 DEF StateToday
<1>3. CASE row.day # Day(now)
  <2>1. StateToday = [row EXCEPT !.day = Day(now), !.trades_today = 0]
    BY <1>3 DEF StateToday
  <2>2. /\ StateToday \in Counted /\ StateToday.day = Day(now)
        /\ StateToday.trades_today = 0 /\ StateToday.open_symbols = row.open_symbols
    <3> DEFINE d == Day(now)
    <3> HIDE DEF d
    <3>1. d \in 0..Day(MaxNow) /\ StateToday = [row EXCEPT !.day = d, !.trades_today = 0]
      BY <1>1, <2>1 DEF d
    <3>2. /\ StateToday \in Counted /\ StateToday.day = d
          /\ StateToday.trades_today = 0 /\ StateToday.open_symbols = row.open_symbols
      BY <1>1, <3>1 DEF Counted
    <3> QED BY <3>2 DEF d
  <2> QED BY <1>3, <2>2
<1> QED BY <1>2, <1>3

LEMMA SomeSymbol == NoOrder.sym \in Symbols
BY EtoroLiveConstants DEF NoOrder

LEMMA NoneTyped ==
  /\ NoOrder \in Order /\ NoCard \in Card /\ NoStop \in Stop
  /\ NoRow \in Counted /\ GuardStart \in Guard
<1>1. NoOrder \in Order
  BY SomeSymbol, ConstantTypes DEF NoOrder, Order, Times
<1>2. NoCard \in Card
  BY SomeSymbol, ConstantTypes DEF NoCard, Card, Times
<1>3. NoStop \in Stop /\ NoRow \in Counted /\ GuardStart \in Guard
  BY ConstantTypes DEF NoStop, Stop, NoRow, Counted, GuardStart, Guard
<1> QED BY <1>1, <1>2, <1>3

LEMMA FreeTyped == Free \in Process /\ Free.pc = "free"
BY SomeSymbol, NoneTyped, ConstantTypes, CountedIsRow DEF Free, Process, Sections, Orders

-----------------------------------------------------------------------------
(* What steps do to the orders, and to the section of a process *)

\* No order is new: some fill, some are closed.
Evolves == \A o \in Orders :
    /\ ord'[o].sym = ord[o].sym /\ ord'[o].at = ord[o].at /\ ord[o].ends \subseteq ord'[o].ends
    /\ \/ ord'[o].st = ord[o].st
       \/ ord[o].st = "queued" /\ ord'[o].st = "open"
       \/ ord[o].st \in {"queued", "open"} /\ ord'[o].st = "closed"

LEMMA SameOrders == ASSUME UNCHANGED ord PROVE Evolves
BY DEF Evolves

LEMMA ClosedFacts ==
  ASSUME ord \in [Orders -> Order], NEW os, NEW who \in {"etoro", "bot", "copy"},
         ord' = ClosedBy(os, who)
  PROVE  /\ ord' \in [Orders -> Order] /\ Evolves
         /\ \A o \in Orders : /\ ord'[o].ends = ord[o].ends
                              /\ o \in os => ord'[o].st # "open"
                              /\ o \notin os => ord'[o] = ord[o]
                              /\ ord'[o].exit # ord[o].exit => o \in os /\ ord[o].st = "open" /\ ord'[o].exit = who
<1>1. ASSUME NEW x \in Order, NEW y, y = [x EXCEPT !.st = "closed", !.exit = who]
      PROVE  /\ y \in Order /\ y.st = "closed" /\ y.exit = who
             /\ y.sym = x.sym /\ y.at = x.at /\ y.ends = x.ends
  <2>1. y \in Order
    BY <1>1 DEF Order
  <2>2. y.st = "closed" /\ y.exit = who /\ y.sym = x.sym /\ y.at = x.at /\ y.ends = x.ends
    BY <1>1 DEF Order
  <2> QED BY <2>1, <2>2
<1> DEFINE new(o) == [ord[o] EXCEPT !.st = "closed", !.exit = who]
<1>2. \A o \in Orders : ord'[o] = IF o \in os /\ ord[o].st = "open" THEN new(o) ELSE ord[o]
  BY DEF ClosedBy
<1>3. \A o \in Orders :
        /\ new(o) \in Order /\ new(o).st = "closed" /\ new(o).exit = who /\ new(o).sym = ord[o].sym
        /\ new(o).at = ord[o].at /\ new(o).ends = ord[o].ends
  <2> TAKE o \in Orders
  <2> QED BY <1>1
<1> HIDE DEF new
<1>4. ord' \in [Orders -> Order]
  BY <1>2, <1>3 DEF ClosedBy
<1> QED BY <1>2, <1>3, <1>4 DEF Evolves

LEMMA FillFacts ==
  ASSUME ord \in [Orders -> Order], NEW o \in Orders, OrderFills(o) \/ EtoroCloses(o)
  PROVE  /\ ord' \in [Orders -> Order] /\ Evolves
         /\ \A q \in Orders : ord'[q].ends = ord[q].ends /\ ord'[q].exit \in {ord[q].exit, "etoro"}
<1>1. ord[o] \in Order
  OBVIOUS
<1>2. ASSUME NEW x \in Order, NEW y, y = [x EXCEPT !.st = "closed", !.exit = "etoro"]
      PROVE  y \in Order /\ y.st = "closed" /\ y.exit = "etoro" /\ y.sym = x.sym /\ y.at = x.at /\ y.ends = x.ends
  <2>1. y \in Order BY <1>2 DEF Order
  <2>2. y.st = "closed" /\ y.exit = "etoro" /\ y.sym = x.sym /\ y.at = x.at /\ y.ends = x.ends BY <1>2 DEF Order
  <2> QED BY <2>1, <2>2
<1>3. PICK new \in Order : /\ ord' = [ord EXCEPT ![o] = new]
                           /\ new.sym = ord[o].sym /\ new.at = ord[o].at /\ new.ends = ord[o].ends
                           /\ new.exit \in {ord[o].exit, "etoro"}
                           /\ \/ ord[o].st = "queued" /\ new.st = "open"
                              \/ ord[o].st \in {"queued", "open"} /\ new.st = "closed"
  <2>1. CASE OrderFills(o)
    <3> DEFINE late == Aged(o)
    <3>1. late \in BOOLEAN
      BY DEF Aged
    <3>2. PICK y : /\ ord' = [ord EXCEPT ![o] = y]
                   /\ \/ y = [ord[o] EXCEPT !.st = "open", !.late = late]
                      \/ y = [ord[o] EXCEPT !.st = "open", !.late = late, !.bare = TRUE]
      BY <2>1 DEF OrderFills, Broker
    <3> HIDE DEF late
    <3>3. y \in Order
      BY <1>1, <3>1, <3>2 DEF Order
    <3>4. y.st = "open" /\ y.exit = ord[o].exit /\ y.sym = ord[o].sym /\ y.at = ord[o].at /\ y.ends = ord[o].ends
      BY <1>1, <3>1, <3>2 DEF Order
    <3> QED BY <2>1, <3>2, <3>3, <3>4 DEF OrderFills
  <2>2. CASE EtoroCloses(o)
    <3>1. PICK y : ord' = [ord EXCEPT ![o] = y] /\ y = [ord[o] EXCEPT !.st = "closed", !.exit = "etoro"]
      BY <2>2 DEF EtoroCloses, Broker
    <3> QED BY <1>2, <2>2, <3>1 DEF EtoroCloses, Alive
  <2> QED BY <2>1, <2>2
<1> QED BY <1>3 DEF Evolves

LEMMA PaperEndFacts ==
  ASSUME ord \in [Orders -> Order], NEW s \in Symbols, NEW how \in {"strategy", "safety"},
         PaperEnds(s, how)
  PROVE  /\ ord' \in [Orders -> Order] /\ Evolves
         /\ \A o \in Orders : /\ ord'[o].st = ord[o].st /\ ord'[o].exit = ord[o].exit
                              /\ Alive(o) /\ ord[o].sym = s => how \in ord'[o].ends
                              /\ how \notin ord'[o].ends => ord'[o].ends = ord[o].ends
<1>1. ASSUME NEW x \in Order
      PROVE  [x EXCEPT !.ends = x.ends \cup {how}] \in Order
  BY DEF Order
<1> DEFINE new(o) == [ord[o] EXCEPT !.ends = ord[o].ends \cup {how}]
<1>2. \A o \in Orders : ord'[o] = IF Alive(o) /\ ord[o].sym = s THEN new(o) ELSE ord[o]
  BY DEF PaperEnds
<1>3. \A o \in Orders :
        /\ new(o) \in Order /\ new(o).st = ord[o].st /\ new(o).exit = ord[o].exit /\ new(o).sym = ord[o].sym
        /\ new(o).at = ord[o].at /\ new(o).ends = ord[o].ends \cup {how}
  BY <1>1 DEF Order
<1> HIDE DEF new
<1>4. ord' \in [Orders -> Order]
  BY <1>2, <1>3 DEF PaperEnds
<1> QED BY <1>2, <1>3, <1>4 DEF Evolves

LEMMA StillUsedInOrder == ASSUME UsedInOrder, Evolves PROVE UsedInOrder'
BY DEF UsedInOrder, Evolves

Others(c) == \A d \in Procs : d # c => p'[d] = p[d]
SameEntry(x, y) == /\ y.s = x.s /\ y.o = x.o /\ y.refused = x.refused
                   /\ y.row = x.row /\ y.before = x.before
SameScan(x, y) == /\ y.pos = x.pos /\ y.stops = x.stops /\ y.todo = x.todo
                  /\ y.drop = x.drop /\ y.cards = x.cards /\ y.due = x.due

LEMMA Moved ==
  ASSUME p \in [Procs -> Process], NEW c \in Procs, NEW y \in Process, p' = [p EXCEPT ![c] = y]
  PROVE  p' \in [Procs -> Process] /\ p'[c] = y /\ Others(c)
BY DEF Others

LEMMA GotoFacts ==
  ASSUME p \in [Procs -> Process], NEW c \in Procs, NEW pc \in Sections, pc # "free", Goto(c, pc)
  PROVE  /\ p' \in [Procs -> Process] /\ Others(c)
         /\ p'[c].pc = pc /\ SameEntry(p[c], p'[c]) /\ SameScan(p[c], p'[c])
<1> DEFINE y == [p[c] EXCEPT !.pc = pc]
<1>1. p' = [p EXCEPT ![c] = y]
  BY DEF Goto
<1>2. y \in Process
  BY DEF Process
<1>3. y.pc = pc /\ SameEntry(p[c], y) /\ SameScan(p[c], y)
  BY DEF Process, SameEntry, SameScan
<1> HIDE DEF y
<1> QED BY <1>1, <1>2, <1>3, Moved

LEMMA GotoFree ==
  ASSUME p \in [Procs -> Process], NEW c \in Procs, Goto(c, "free")
  PROVE  p' \in [Procs -> Process] /\ p'[c] = Free /\ Others(c)
BY FreeTyped, Moved DEF Goto

LEMMA MirrorFacts ==
  ASSUME TypeInv, NEW c \in Procs, NEW s \in Symbols, Mirror(c, s)
  PROVE  /\ p' \in [Procs -> Process] /\ Others(c)
         /\ p'[c].pc = "ahead" /\ p'[c].s = s /\ p'[c].row = StateToday
         /\ p'[c].before = NoRow /\ ~p'[c].refused
<1> DEFINE r == StateToday
           y == [Free EXCEPT !.pc = "ahead", !.s = s, !.row = r]
<1>1. p' = [p EXCEPT ![c] = y] /\ p \in [Procs -> Process]
  BY DEF Mirror, TypeInv, TypeOK
<1>2. r \in Row
  BY TodayRow, CountedIsRow DEF TypeInv, TypeOK
<1>3. Free.before = NoRow /\ ~Free.refused
  BY DEF Free
<1> HIDE DEF r
<1>4. y \in Process
  BY <1>2, FreeTyped DEF Process, Sections
<1>5. y.pc = "ahead" /\ y.s = s /\ y.row = r /\ y.before = NoRow /\ ~y.refused
  BY <1>3, FreeTyped DEF Process
<1> HIDE DEF y
<1> QED BY <1>1, <1>4, <1>5, Moved DEF r

LEMMA WriteAheadFacts ==
  ASSUME TypeInv, NEW c \in Procs, WriteAhead(c)
  PROVE  /\ p' \in [Procs -> Process] /\ Others(c)
         /\ p'[c].pc = "remember" /\ p'[c].s = p[c].s /\ p'[c].refused = p[c].refused
         /\ p'[c].before = p[c].row /\ p'[c].row = row' /\ row' \in Counted
         /\ row'.day = p[c].row.day /\ row'.trades_today = p[c].row.trades_today + 1
         /\ row'.open_symbols = p[c].row.open_symbols \cup {p[c].s}
<1> DEFINE before == p[c].row
           y == [p[c] EXCEPT !.pc = "remember", !.before = before, !.row = row']
<1>1. /\ row' = [before EXCEPT !.trades_today = before.trades_today + 1,
                               !.open_symbols = before.open_symbols \cup {p[c].s}]
      /\ p' = [p EXCEPT ![c] = y] /\ p \in [Procs -> Process]
  BY DEF WriteAhead, TypeInv, TypeOK
<1>2. before \in Counted /\ before.trades_today < DailyCap /\ p[c] \in Process
  BY DEF WriteAhead, TypeInv, TypeOK
<1>3. p[c].s \in Symbols
  BY <1>2 DEF Process
<1>4. before \in Row
  BY <1>2, CountedIsRow
<1> HIDE DEF before
<1>5. before.trades_today + 1 \in 0..DailyCap /\ before.open_symbols \cup {p[c].s} \in SUBSET Symbols
  BY <1>2, <1>3, CountedParts, ConstantTypes
<1>6. row' \in Counted
  BY <1>1, <1>2, <1>5 DEF Counted
<1>7. /\ row'.day = before.day /\ row'.trades_today = before.trades_today + 1
      /\ row'.open_symbols = before.open_symbols \cup {p[c].s}
  BY <1>1, <1>2 DEF Counted
<1>8. row' \in Row
  BY <1>6, CountedIsRow
<1>9. y \in Process
  BY <1>2, <1>4, <1>8 DEF Process, Sections
<1>10. /\ y.pc = "remember" /\ y.s = p[c].s /\ y.refused = p[c].refused
       /\ y.before = before /\ y.row = row'
  BY <1>2 DEF Process
<1> HIDE DEF y
<1>11. p'[c] = y /\ p' \in [Procs -> Process] /\ Others(c)
  BY <1>1, <1>9, Moved
<1> QED BY <1>6, <1>7, <1>10, <1>11 DEF before

\* The next free order exists because the orders are used one after the other.
LEMMA AcceptFacts ==
  ASSUME TypeInv, NEW c \in Procs, Accept(c)
  PROVE  /\ NextOrder \in Orders /\ ord[NextOrder].st = "none"
         /\ ord' \in [Orders -> Order] /\ UsedInOrder'
         /\ ord'[NextOrder].st = "queued" /\ ord'[NextOrder].sym = p[c].s
         /\ ord'[NextOrder].at = now /\ ord'[NextOrder].ends = {} /\ ord'[NextOrder].exit = "none"
         /\ \A q \in Orders : q # NextOrder => ord'[q] = ord[q]
<1>1. PICK n \in 0..MaxOrders : \A o \in Orders : ord[o].st # "none" <=> o <= n
  BY DEF TypeInv, UsedInOrder
<1>2. n \in Nat /\ \A o \in Orders : o \in Nat /\ 1 <= o /\ o <= MaxOrders
  BY ConstantTypes DEF Orders
<1>3. PICK o \in Orders : ord[o].st = "none"
  BY DEF Accept
<1>4. n + 1 \in Orders /\ n + 1 \in 0..MaxOrders
  BY <1>1, <1>2, <1>3, ConstantTypes DEF Orders
<1>5. ord[n + 1].st = "none" /\ \A q \in 1..n : ord[q].st # "none"
  <2>1. ASSUME NEW q \in 1..n PROVE ord[q].st # "none"
    <3>1. q \in Orders /\ q <= n
      BY <1>2, <1>4, ConstantTypes DEF Orders
    <3> QED BY <1>1, <3>1
  <2>2. ~(n + 1 <= n)
    BY <1>2
  <2> QED BY <1>1, <1>4, <2>1, <2>2
<1>6. /\ NextOrder \in Orders /\ ord[NextOrder].st = "none"
      /\ \A q \in 1..(NextOrder - 1) : ord[q].st # "none"
  <2>1. (n + 1) - 1 = n
    BY <1>2
  <2>2. \E x \in Orders : ord[x].st = "none" /\ \A q \in 1..(x - 1) : ord[q].st # "none"
    BY <1>4, <1>5, <2>1
  <2> QED BY <2>2, Zenon DEF NextOrder
<1> DEFINE m == NextOrder
           b == Beside(p[c].s)
           new == [NoOrder EXCEPT !.st = "queued", !.sym = p[c].s, !.at = now, !.astray = b]
<1>7. ord' = [ord EXCEPT ![m] = new] /\ ord \in [Orders -> Order]
  BY DEF Accept, TypeInv, TypeOK
<1>b. b \in BOOLEAN
  BY DEF Beside
<1> HIDE DEF m, b
<1>8. p[c].s \in Symbols /\ now \in Times
  BY DEF TypeInv, TypeOK, Process
<1>9. new \in Order
  BY <1>8, <1>b, NoneTyped DEF Order
<1>10. new.st = "queued" /\ new.sym = p[c].s /\ new.at = now /\ new.ends = {} /\ new.exit = "none"
  BY DEF NoOrder
<1> HIDE DEF new
<1>11. m = n + 1
  <2>1. m \in Orders /\ ~(m <= n) /\ ~(n + 1 <= m - 1)
    <3>1. m \in Orders /\ ~(m <= n)
      BY <1>1, <1>6 DEF m
    <3>2. ASSUME n + 1 <= m - 1 PROVE FALSE
      BY <1>2, <1>5, <1>6, <3>1, <3>2 DEF m
    <3> QED BY <3>1, <3>2
  <2> QED BY <1>2, <2>1
<1>12. ASSUME NEW q \in Orders PROVE ord'[q].st # "none" <=> q <= n + 1
  <2>1. CASE q = m
    BY <1>2, <1>7, <1>10, <1>11, <2>1
  <2>2. CASE q # m
    <3>1. ord'[q] = ord[q] /\ (q <= n + 1 <=> q <= n)
      BY <1>2, <1>7, <1>11, <2>2
    <3> QED BY <1>1, <3>1
  <2> QED BY <2>1, <2>2
<1>13. UsedInOrder'
  BY <1>4, <1>12 DEF UsedInOrder
<1> QED BY <1>6, <1>7, <1>9, <1>10, <1>13 DEF m

LEMMA PostFacts ==
  ASSUME TypeInv, NEW c \in Procs, PostOrder(c)
  PROVE  /\ p' \in [Procs -> Process] /\ Others(c)
         /\ p'[c].s = p[c].s /\ p'[c].row = p[c].row /\ p'[c].before = p[c].before
         /\ \/ p'[c].pc = "confirm" /\ Accept(c) /\ p'[c].o = NextOrder
            \/ p'[c].pc = "halt" /\ (Accept(c) \/ UNCHANGED ord)
            \/ p'[c].pc = "undo" /\ UNCHANGED ord
<1>1. p \in [Procs -> Process] /\ p[c] \in Process
  BY DEF TypeInv, TypeOK
<1>2. CASE Accept(c) /\ p' = [p EXCEPT ![c].pc = "confirm", ![c].o = NextOrder]
  <2> DEFINE n == NextOrder
             y == [p[c] EXCEPT !.pc = "confirm", !.o = n]
  <2>1. n \in Orders
    BY <1>2, AcceptFacts
  <2>2. p' = [p EXCEPT ![c] = y]
    BY <1>2, <1>1
  <2> HIDE DEF n
  <2>3. y \in Process
    BY <1>1, <2>1 DEF Process, Sections
  <2>4. y.pc = "confirm" /\ y.o = n /\ y.s = p[c].s /\ y.row = p[c].row /\ y.before = p[c].before
    BY <1>1 DEF Process
  <2> HIDE DEF y
  <2> QED BY <1>1, <1>2, <2>2, <2>3, <2>4, Moved DEF n
<1>3. CASE Goto(c, "halt") /\ (Accept(c) \/ UNCHANGED ord)
  BY <1>1, <1>3, GotoFacts DEF SameEntry, Sections
<1>4. CASE Goto(c, "undo") /\ UNCHANGED ord
  BY <1>1, <1>4, GotoFacts DEF SameEntry, Sections
<1>5. CASE p' = [p EXCEPT ![c].pc = "undo", ![c].refused = TRUE] /\ UNCHANGED ord
  <2> DEFINE y == [p[c] EXCEPT !.pc = "undo", !.refused = TRUE]
  <2>2. p' = [p EXCEPT ![c] = y]
    BY <1>5, <1>1
  <2>3. y \in Process
    BY <1>1 DEF Process, Sections
  <2>4. y.pc = "undo" /\ y.s = p[c].s /\ y.row = p[c].row /\ y.before = p[c].before
    BY <1>1 DEF Process
  <2> HIDE DEF y
  <2> QED BY <1>1, <1>5, <2>2, <2>3, <2>4, Moved
<1> QED BY <1>2, <1>3, <1>4, <1>5 DEF PostOrder

LEMMA ReconcileFacts ==
  ASSUME TypeInv, NEW c \in Procs, Reconcile(c)
  PROVE  /\ p' \in [Procs -> Process] /\ Others(c)
         /\ p'[c].pc = "reconcile" /\ p'[c].row \in Counted /\ p'[c].before \in Counted
         /\ p'[c].row.day = Day(now) /\ p'[c].row.trades_today = StateToday.trades_today
         /\ p'[c].row.open_symbols = {ord[o].sym : o \in Positions}
<1> DEFINE r == StateToday
           os == {ord[o].sym : o \in Positions}
           new == [r EXCEPT !.open_symbols = os]
           pos == Positions
           y == [Free EXCEPT !.pc = "reconcile", !.pos = pos, !.row = new]
<1>1. p' = [p EXCEPT ![c] = y] /\ p \in [Procs -> Process]
  BY DEF Reconcile, TypeInv, TypeOK
<1>2. r \in Counted /\ r.day = Day(now) /\ ord \in [Orders -> Order]
  BY TodayRow DEF TypeInv, TypeOK
<1>3. os \in SUBSET Symbols /\ pos \in SUBSET Orders
  BY <1>2 DEF Positions, Order
<1> HIDE DEF r, os, pos
<1>4. /\ new \in Counted /\ new.day = Day(now) /\ new.trades_today = r.trades_today
      /\ new.open_symbols = os
  BY <1>2, <1>3, NewRow
<1>5. new \in Row /\ NoRow \in Counted /\ Free.before = NoRow
  BY <1>4, CountedIsRow, NoneTyped DEF Free
<1> HIDE DEF new
<1>6. y \in Process
  BY <1>3, <1>5, FreeTyped DEF Process, Sections
<1>7. y.pc = "reconcile" /\ y.row = new /\ y.before = NoRow
  BY <1>5, FreeTyped DEF Process
<1> HIDE DEF y
<1> QED BY <1>1, <1>4, <1>5, <1>6, <1>7, Moved DEF r, os

LEMMA CloseFacts ==
  ASSUME TypeInv, NEW c \in Procs, NEW o \in Orders, CloseUnprotected(c, o)
  PROVE  /\ p' \in [Procs -> Process] /\ Others(c)
         /\ p'[c].pc = "reconcile" /\ SameEntry(p[c], p'[c])
         /\ ord' \in [Orders -> Order] /\ Evolves /\ \A q \in Orders : ord'[q].ends = ord[q].ends
         /\ \A q \in Orders : ord'[q].exit # ord[q].exit => ord'[q].exit = "bot"
         /\ halted' \in BOOLEAN /\ (halted => halted')
<1> DEFINE pos == p[c].pos \ {o}
           y == [p[c] EXCEPT !.pos = pos]
<1>1. p' = [p EXCEPT ![c] = y] /\ p \in [Procs -> Process] /\ p[c] \in Process /\ p[c].pc = "reconcile"
  BY DEF CloseUnprotected, TypeInv, TypeOK
<1>2. pos \in SUBSET Orders
  BY <1>1 DEF Process
<1> HIDE DEF pos
<1>3. y \in Process
  BY <1>1, <1>2 DEF Process
<1>4. y.pc = p[c].pc /\ SameEntry(p[c], y)
  BY <1>1 DEF Process, SameEntry
<1> HIDE DEF y
<1>5. ord \in [Orders -> Order] /\ (ord' = ClosedBy({o}, "bot") \/ UNCHANGED ord)
  BY DEF CloseUnprotected, TypeInv, TypeOK
<1>6. /\ ord' \in [Orders -> Order] /\ Evolves /\ \A q \in Orders : ord'[q].ends = ord[q].ends
      /\ \A q \in Orders : ord'[q].exit # ord[q].exit => ord'[q].exit = "bot"
  <2>1. CASE ord' = ClosedBy({o}, "bot")
    <3> DEFINE os == {o}
    <3>1. ord' = ClosedBy(os, "bot")
      BY <2>1
    <3> HIDE DEF os
    <3>2. /\ ord' \in [Orders -> Order] /\ Evolves
          /\ \A q \in Orders : /\ ord'[q].ends = ord[q].ends
                               /\ ord'[q].exit # ord[q].exit => ord'[q].exit = "bot"
      <4>1. "bot" \in {"etoro", "bot", "copy"}
        OBVIOUS
      <4> HIDE DEF Evolves
      <4> QED BY <1>5, <3>1, <4>1, ClosedFacts
    <3> QED BY <3>2
  <2>2. CASE UNCHANGED ord
    BY <1>5, <2>2, SameOrders
  <2> QED BY <1>5, <2>1, <2>2
<1>7. halted' \in BOOLEAN /\ (halted => halted')
  <2>1. halted \in BOOLEAN
    BY DEF TypeInv, TypeOK
  <2>2. UNCHANGED halted \/ halted' = TRUE
    BY DEF CloseUnprotected
  <2> QED BY <2>1, <2>2
<1> QED BY <1>1, <1>3, <1>4, <1>6, <1>7, Moved

LEMMA CheckFacts ==
  ASSUME TypeInv, NEW c \in Procs, CheckBackupStops(c)
  PROVE  /\ p' \in [Procs -> Process] /\ Others(c)
         /\ p'[c].pc = "backup" /\ p'[c].row \in Counted /\ p'[c].before \in Counted
         /\ p'[c].pos = Positions /\ p'[c].stops = stops
         /\ p'[c].todo \subseteq SymbolsOf(Positions)
         /\ \A s \in p'[c].drop : /\ s \in Symbols \ SymbolsOf(Positions) /\ stops[s] # NoStop
                                  /\ stops[s].seen \/ now - stops[s].at >= Hours24
<1> DEFINE known == {s \in Symbols : stops[s] # NoStop}
           held == known \cap SymbolsOf(Positions)
           drop == {s \in known \ held : stops[s].seen \/ now - stops[s].at >= Hours24}
           pos == Positions
           y == [Free EXCEPT !.pc = "backup", !.stops = stops, !.pos = pos, !.todo = held, !.drop = drop]
<1>1. p' = [p EXCEPT ![c] = y] /\ p \in [Procs -> Process] /\ stops \in [Symbols -> Stop]
  BY DEF CheckBackupStops, TypeInv, TypeOK
<1>2. /\ held \in SUBSET Symbols /\ drop \in SUBSET Symbols /\ pos \in SUBSET Orders
      /\ held \subseteq SymbolsOf(Positions)
  BY DEF Positions
<1>3. \A s \in drop : /\ s \in Symbols \ SymbolsOf(Positions) /\ stops[s] # NoStop
                      /\ stops[s].seen \/ now - stops[s].at >= Hours24
  OBVIOUS
<1>4. NoRow \in Counted /\ Free.before = NoRow /\ Free.row = NoRow
  BY NoneTyped DEF Free
<1> HIDE DEF known, held, drop
<1> HIDE DEF pos
<1>5. y \in Process
  BY <1>1, <1>2, FreeTyped DEF Process, Sections
<1>6. /\ y.pc = "backup" /\ y.row = NoRow /\ y.before = NoRow
      /\ y.pos = pos /\ y.stops = stops /\ y.todo = held /\ y.drop = drop
  BY <1>4, FreeTyped DEF Process
<1> HIDE DEF y
<1>7. p' \in [Procs -> Process] /\ p'[c] = y /\ Others(c)
  BY <1>1, <1>5, Moved
<1> QED BY <1>2, <1>3, <1>4, <1>6, <1>7 DEF pos

LEMMA BackupStopFacts ==
  ASSUME TypeInv, NEW c \in Procs, NEW s \in Symbols, BackupStop(c, s)
  PROVE  /\ p' \in [Procs -> Process] /\ g' \in [Procs -> Guard] /\ Others(c)
         /\ p[c].pc = "backup" /\ p'[c].pc = "backup" /\ SameEntry(p[c], p'[c])
         /\ p'[c].pos = p[c].pos /\ p'[c].stops = p[c].stops
         /\ s \in p[c].todo /\ p'[c].todo \subseteq p[c].todo
         /\ \/ p'[c].drop = p[c].drop /\ UNCHANGED ord
            \/ /\ p'[c].drop = p[c].drop \cup {s}
               /\ ord' = ClosedBy({o \in p[c].pos : ord[o].sym = s}, "bot")
         /\ halted' \in BOOLEAN /\ (halted => halted')
<1> DEFINE todo == p[c].todo \ {s}
           drop == p[c].drop \cup {s}
           y1 == [p[c] EXCEPT !.todo = todo]
           y2 == [p[c] EXCEPT !.todo = todo, !.drop = drop]
<1>1. p \in [Procs -> Process] /\ p[c] \in Process /\ g \in [Procs -> Guard] /\ halted \in BOOLEAN
  BY DEF TypeInv, TypeOK
<1>2. /\ p[c].pc = "backup" /\ s \in p[c].todo
      /\ \/ p' = [p EXCEPT ![c] = y1] /\ UNCHANGED <<ord, g>>
         \/ /\ p' = [p EXCEPT ![c] = y2] /\ Stage(c, "backup", g[c].closes \cup {s})
            /\ ord' = ClosedBy({o \in p[c].pos : ord[o].sym = s}, "bot")
      /\ halted' \in BOOLEAN /\ (halted => halted')
  BY <1>1 DEF BackupStop
<1>3. todo \in SUBSET Symbols /\ drop \in SUBSET Symbols /\ todo \subseteq p[c].todo
  BY <1>1 DEF Process
<1>4. [stage |-> "backup", closes |-> g[c].closes \cup {s}] \in Guard
  BY <1>1 DEF Guard
<1>5. g' \in [Procs -> Guard]
  BY <1>1, <1>2, <1>4 DEF Stage
<1> HIDE DEF todo, drop
<1>6. y1 \in Process
  BY <1>1, <1>3 DEF Process
<1>7. y2 \in Process
  BY <1>1, <1>3 DEF Process
<1>8. /\ y1.pc = p[c].pc /\ SameEntry(p[c], y1) /\ y1.pos = p[c].pos /\ y1.stops = p[c].stops
      /\ y1.todo = todo /\ y1.drop = p[c].drop
  BY <1>1 DEF Process, SameEntry
<1>9. /\ y2.pc = p[c].pc /\ SameEntry(p[c], y2) /\ y2.pos = p[c].pos /\ y2.stops = p[c].stops
      /\ y2.todo = todo /\ y2.drop = drop
  BY <1>1 DEF Process, SameEntry
<1> HIDE DEF y1, y2
<1>10. CASE p' = [p EXCEPT ![c] = y1] /\ UNCHANGED <<ord, g>>
  <2>1. p' \in [Procs -> Process] /\ p'[c] = y1 /\ Others(c)
    BY <1>1, <1>6, <1>10, Moved
  <2> QED BY <1>2, <1>3, <1>5, <1>8, <1>10, <2>1
<1>11. CASE /\ p' = [p EXCEPT ![c] = y2]
            /\ ord' = ClosedBy({o \in p[c].pos : ord[o].sym = s}, "bot")
  <2>1. p' \in [Procs -> Process] /\ p'[c] = y2 /\ Others(c)
    BY <1>1, <1>7, <1>11, Moved
  <2> QED BY <1>2, <1>3, <1>5, <1>9, <1>11, <2>1 DEF drop
<1> QED BY <1>2, <1>10, <1>11

LEMMA CountFlatFacts ==
  ASSUME cards \in [Orders -> Card], NEW o \in Orders, NEW held, NEW skip,
         NEW n, n = CountFlat(o, held, skip)
  PROVE  /\ n \in Card
         /\ \/ n = NoCard
            \/ /\ cards[o].status = "open" /\ n.status = "open" /\ cards[o].ids # {}
               /\ n.sym = cards[o].sym /\ n.at = cards[o].at /\ n.ids = cards[o].ids
               /\ n.detached = cards[o].detached
               /\ \/ n.paper_seen = cards[o].paper_seen /\ n.flat = cards[o].flat
                  \/ /\ ~n.detached /\ n.paper_seen /\ n.flat = 0 /\ cards[o].sym \in held
                  \/ /\ ~n.detached /\ n.paper_seen /\ cards[o].paper_seen /\ cards[o].sym \notin held
                     /\ n.flat = cards[o].flat + 1
<1> DEFINE card == cards[o]
           seen == [card EXCEPT !.paper_seen = TRUE, !.flat = 0]
           k == IF card.flat < FlatReads THEN card.flat + 1 ELSE card.flat
           more == [card EXCEPT !.flat = k]
<1>1. card \in Card /\ NoCard \in Card
  BY NoneTyped
<1>2. \/ n = NoCard
      \/ card.status = "open" /\ card.ids # {} /\ n = card
      \/ card.status = "open" /\ card.ids # {} /\ ~card.detached /\ card.sym \in held /\ n = seen
      \/ /\ card.status = "open" /\ card.ids # {} /\ ~card.detached /\ card.sym \notin held
         /\ card.paper_seen /\ n = more
  BY DEF CountFlat
<1>3. k \in 0..FlatReads /\ (k = card.flat \/ k = card.flat + 1) /\ 0 \in 0..FlatReads
  BY <1>1, ConstantTypes DEF Card
<1> HIDE DEF card, k
<1>4. seen \in Card
  BY <1>1, <1>3 DEF Card
<1>5. more \in Card
  BY <1>1, <1>3 DEF Card
<1>6. /\ seen.status = card.status /\ seen.sym = card.sym /\ seen.at = card.at /\ seen.ids = card.ids
      /\ seen.detached = card.detached /\ seen.paper_seen /\ seen.flat = 0
  BY <1>1 DEF Card
<1>7. /\ more.status = card.status /\ more.sym = card.sym /\ more.at = card.at /\ more.ids = card.ids
      /\ more.detached = card.detached /\ more.paper_seen = card.paper_seen /\ more.flat = k
  BY <1>1 DEF Card
<1> HIDE DEF seen, more
<1>8. CASE n = NoCard
  BY <1>1, <1>8
<1>9. CASE card.status = "open" /\ card.ids # {} /\ n = card
  BY <1>1, <1>9 DEF card
<1>10. CASE card.status = "open" /\ card.ids # {} /\ ~card.detached /\ card.sym \in held /\ n = seen
  BY <1>4, <1>6, <1>10 DEF card
<1>11. CASE /\ card.status = "open" /\ card.ids # {} /\ ~card.detached /\ card.sym \notin held
            /\ card.paper_seen /\ n = more
  BY <1>3, <1>5, <1>7, <1>11 DEF card
<1> QED BY <1>2, <1>8, <1>9, <1>10, <1>11

LEMMA CopyReadFacts ==
  ASSUME TypeInv, NEW c \in Procs, CopyPaperExits(c)
  PROVE  /\ p' \in [Procs -> Process] /\ Others(c)
         /\ p'[c].pc = "exit" /\ p'[c].row \in Counted /\ p'[c].before \in Counted
         /\ \E held, skip :
              /\ held \subseteq {s \in Symbols : paper[s] # "flat"}
              /\ \A s \in Symbols \ held : paper[s] = "flat" \/ FirstFlat(s)
              /\ p'[c].cards = [o \in Orders |-> CountFlat(o, held, skip)]
              /\ p'[c].due = {o \in Orders : /\ Following(o) /\ cards[o].sym \notin held \cup skip
                                             /\ p'[c].cards[o].flat >= FlatReads}
<1> DEFINE now_held == {s \in Symbols : paper[s] # "flat"}
           skip == g[c].closes
           cs(h) == [o \in Orders |-> CountFlat(o, h, skip)]
           due(h) == {o \in Orders : Following(o) /\ cards[o].sym \notin h \cup skip /\ cs(h)[o].flat >= FlatReads}
           y(h) == [Free EXCEPT !.pc = "exit", !.cards = cs(h), !.due = due(h)]
<1>1. PICK held : /\ held \subseteq now_held
                  /\ \A s \in Symbols \ held : paper[s] = "flat" \/ FirstFlat(s)
                  /\ p' = [p EXCEPT ![c] = y(held)]
  <2>1. CASE p' = [p EXCEPT ![c] = y(now_held)]
    BY <2>1
  <2>2. ASSUME NEW s \in now_held, FirstFlat(s), p' = [p EXCEPT ![c] = y(now_held \ {s})]
        PROVE  \E held : /\ held \subseteq now_held
                         /\ \A q \in Symbols \ held : paper[q] = "flat" \/ FirstFlat(q)
                         /\ p' = [p EXCEPT ![c] = y(held)]
    <3>1. \A q \in Symbols \ (now_held \ {s}) : paper[q] = "flat" \/ FirstFlat(q)
      BY <2>2
    <3> HIDE DEF y, now_held
    <3> QED BY <2>2, <3>1
  <2> QED BY <2>1, <2>2 DEF CopyPaperExits
<1>2. p \in [Procs -> Process] /\ cards \in [Orders -> Card]
  BY DEF TypeInv, TypeOK
<1>3. cs(held) \in [Orders -> Card]
  BY <1>2, CountFlatFacts
<1>4. due(held) \in SUBSET Orders
  OBVIOUS
<1>5. NoRow \in Counted /\ Free.before = NoRow /\ Free.row = NoRow
  BY NoneTyped DEF Free
<1>6. due(held) = {o \in Orders : Following(o) /\ cards[o].sym \notin held \cup skip /\ cs(held)[o].flat >= FlatReads}
  OBVIOUS
<1>7. cs(held) = [o \in Orders |-> CountFlat(o, held, skip)]
  OBVIOUS
<1> HIDE DEF cs, due
<1>8. y(held) \in Process
  BY <1>3, <1>4, FreeTyped DEF Process, Sections
<1>9. y(held).pc = "exit" /\ y(held).row = NoRow /\ y(held).before = NoRow /\ y(held).cards = cs(held) /\ y(held).due = due(held)
  BY <1>5, FreeTyped DEF Process
<1> HIDE DEF y
<1>10. p' \in [Procs -> Process] /\ p'[c] = y(held) /\ Others(c)
  BY <1>1, <1>2, <1>8, Moved
<1>11. /\ p'[c].cards = [o \in Orders |-> CountFlat(o, held, skip)]
       /\ p'[c].due = {o \in Orders : /\ Following(o) /\ cards[o].sym \notin held \cup skip
                                      /\ p'[c].cards[o].flat >= FlatReads}
  BY <1>6, <1>7, <1>9, <1>10
<1> HIDE DEF skip
<1>12. \E skip1 : /\ p'[c].cards = [o \in Orders |-> CountFlat(o, held, skip1)]
                  /\ p'[c].due = {o \in Orders : /\ Following(o) /\ cards[o].sym \notin held \cup skip1
                                                 /\ p'[c].cards[o].flat >= FlatReads}
  BY <1>11
<1> QED BY <1>1, <1>5, <1>9, <1>10, <1>12

LEMMA CopyExitFacts ==
  ASSUME TypeInv, NEW c \in Procs, NEW o \in Orders, CopyExit(c, o),
         NEW card, card = p[c].cards[o]
  PROVE  /\ p' \in [Procs -> Process] /\ Others(c)
         /\ p[c].pc = "exit" /\ p'[c].pc = "exit" /\ SameEntry(p[c], p'[c])
         /\ o \in p[c].due /\ p'[c].due = p[c].due \ {o}
         /\ card \in Card
         /\ \A q \in Orders : q # o => p'[c].cards[q] = p[c].cards[q]
         /\ \/ p'[c].cards = p[c].cards /\ UNCHANGED <<ord, stops>>
            \/ p'[c].cards[o] = [card EXCEPT !.detached = TRUE] /\ UNCHANGED <<ord, stops>>
            \/ /\ p'[c].cards[o] = [card EXCEPT !.status = "closed"] /\ ~SafetyFlatten(card)
               /\ ord' = ClosedBy(card.ids, "copy") /\ stops' = [stops EXCEPT ![card.sym] = NoStop]
<1> DEFINE due == p[c].due \ {o}
           away == [card EXCEPT !.detached = TRUE]
           closed == [card EXCEPT !.status = "closed"]
           cs1 == [p[c].cards EXCEPT ![o] = away]
           cs2 == [p[c].cards EXCEPT ![o] = closed]
           y1 == [p[c] EXCEPT !.due = due]
           y2 == [p[c] EXCEPT !.cards = cs1, !.due = due]
           y3 == [p[c] EXCEPT !.cards = cs2, !.due = due]
<1>1. p \in [Procs -> Process] /\ p[c] \in Process
  BY DEF TypeInv, TypeOK
<1>2. /\ p[c].pc = "exit" /\ o \in p[c].due
      /\ \/ p' = [p EXCEPT ![c] = y1] /\ UNCHANGED <<ord, stops>>
         \/ p' = [p EXCEPT ![c].cards[o].detached = TRUE, ![c].due = due] /\ UNCHANGED <<ord, stops>>
         \/ /\ p' = [p EXCEPT ![c].cards[o].status = "closed", ![c].due = due] /\ ~SafetyFlatten(card)
            /\ ord' = ClosedBy(card.ids, "copy") /\ stops' = [stops EXCEPT ![card.sym] = NoStop]
  BY <1>1 DEF CopyExit
<1>3. p[c].cards \in [Orders -> Card] /\ card \in Card /\ due \in SUBSET Orders
  BY <1>1 DEF Process
<1>4. away \in Card
  BY <1>3 DEF Card
<1>5. closed \in Card
  BY <1>3 DEF Card
<1>6. CASE p' = [p EXCEPT ![c] = y1] /\ UNCHANGED <<ord, stops>>
  <2> HIDE DEF due
  <2>1. y1 \in Process
    BY <1>1, <1>3 DEF Process
  <2>2. y1.pc = p[c].pc /\ SameEntry(p[c], y1) /\ y1.due = due /\ y1.cards = p[c].cards
    BY <1>1 DEF Process, SameEntry
  <2> HIDE DEF y1
  <2>3. p' \in [Procs -> Process] /\ p'[c] = y1 /\ Others(c)
    BY <1>1, <1>6, <2>1, Moved
  <2> QED BY <1>2, <1>3, <1>6, <2>2, <2>3 DEF due
<1>7. CASE p' = [p EXCEPT ![c].cards[o].detached = TRUE, ![c].due = due] /\ UNCHANGED <<ord, stops>>
  <2> HIDE DEF due
  <2>1. p' = [p EXCEPT ![c] = y2]
    BY <1>1, <1>7
  <2>2. cs1 \in [Orders -> Card] /\ cs1[o] = away /\ \A q \in Orders : q # o => cs1[q] = p[c].cards[q]
    BY <1>3, <1>4
  <2> HIDE DEF cs1
  <2>3. y2 \in Process
    BY <1>1, <1>3, <2>2 DEF Process
  <2>4. y2.pc = p[c].pc /\ SameEntry(p[c], y2) /\ y2.due = due /\ y2.cards = cs1
    BY <1>1 DEF Process, SameEntry
  <2> HIDE DEF y2
  <2>5. p' \in [Procs -> Process] /\ p'[c] = y2 /\ Others(c)
    BY <1>1, <2>1, <2>3, Moved
  <2> QED BY <1>2, <1>3, <1>7, <2>2, <2>4, <2>5 DEF due
<1>8. CASE /\ p' = [p EXCEPT ![c].cards[o].status = "closed", ![c].due = due] /\ ~SafetyFlatten(card)
           /\ ord' = ClosedBy(card.ids, "copy") /\ stops' = [stops EXCEPT ![card.sym] = NoStop]
  <2> HIDE DEF due
  <2>1. p' = [p EXCEPT ![c] = y3]
    BY <1>1, <1>8
  <2>2. cs2 \in [Orders -> Card] /\ cs2[o] = closed /\ \A q \in Orders : q # o => cs2[q] = p[c].cards[q]
    BY <1>3, <1>5
  <2> HIDE DEF cs2
  <2>3. y3 \in Process
    BY <1>1, <1>3, <2>2 DEF Process
  <2>4. y3.pc = p[c].pc /\ SameEntry(p[c], y3) /\ y3.due = due /\ y3.cards = cs2
    BY <1>1 DEF Process, SameEntry
  <2> HIDE DEF y3
  <2>5. p' \in [Procs -> Process] /\ p'[c] = y3 /\ Others(c)
    BY <1>1, <2>1, <2>3, Moved
  <2> QED BY <1>2, <1>3, <1>8, <2>2, <2>4, <2>5 DEF due
<1> QED BY <1>2, <1>6, <1>7, <1>8

\* The positions of a card: those it is known by, or before it is matched, those of its symbol.
HeldBy(card, pos) == IF card.ids # {} THEN card.ids \cap pos ELSE {o \in pos : ord[o].sym = card.sym}

LEMMA ScoredFacts ==
  ASSUME NEW card \in Card, card.status \in {"pending_fill", "open"}, NEW pos \in SUBSET Orders,
         NEW n, n = Scored(card, pos),
         NEW held, held = HeldBy(card, pos)
  PROVE  /\ n \in Card
         /\ n.sym = card.sym /\ n.at = card.at /\ n.detached = card.detached
         /\ n.paper_seen = card.paper_seen /\ n.flat = card.flat
         /\ \/ n = card
            \/ card.status = "pending_fill" /\ n.status = "open" /\ n.ids = held /\ held # {}
            \/ card.status = "open" /\ n.status = "closed" /\ n.ids = card.ids /\ held = {}
            \/ /\ card.status = "pending_fill" /\ n.status = "not_filled" /\ n.ids = card.ids /\ held = {}
               /\ now - card.at > Hours24
<1> DEFINE fill == [card EXCEPT !.status = "open", !.ids = held]
           shut == [card EXCEPT !.status = "closed"]
           lost == [card EXCEPT !.status = "not_filled"]
<1>1. held \in SUBSET Orders
  BY DEF Card, HeldBy
<1>2. \/ n = card
      \/ card.status = "pending_fill" /\ held # {} /\ n = fill
      \/ card.status = "open" /\ held = {} /\ n = shut
      \/ card.status = "pending_fill" /\ held = {} /\ now - card.at > Hours24 /\ n = lost
  BY DEF Scored, HeldBy
<1>3. CASE n = card
  BY <1>3
<1>4. CASE card.status = "pending_fill" /\ held # {} /\ n = fill
  <2>1. fill \in Card
    BY <1>1 DEF Card
  <2>2. /\ fill.sym = card.sym /\ fill.at = card.at /\ fill.detached = card.detached
        /\ fill.paper_seen = card.paper_seen /\ fill.flat = card.flat /\ fill.status = "open" /\ fill.ids = held
    BY DEF Card
  <2> HIDE DEF fill
  <2> QED BY <1>4, <2>1, <2>2
<1>5. CASE card.status = "open" /\ held = {} /\ n = shut
  <2>1. shut \in Card
    BY DEF Card
  <2>2. /\ shut.sym = card.sym /\ shut.at = card.at /\ shut.detached = card.detached
        /\ shut.paper_seen = card.paper_seen /\ shut.flat = card.flat /\ shut.status = "closed" /\ shut.ids = card.ids
    BY DEF Card
  <2> HIDE DEF shut
  <2> QED BY <1>5, <2>1, <2>2
<1>6. CASE card.status = "pending_fill" /\ held = {} /\ now - card.at > Hours24 /\ n = lost
  <2>1. lost \in Card
    BY DEF Card
  <2>2. /\ lost.sym = card.sym /\ lost.at = card.at /\ lost.detached = card.detached
        /\ lost.paper_seen = card.paper_seen /\ lost.flat = card.flat /\ lost.status = "not_filled" /\ lost.ids = card.ids
    BY DEF Card
  <2> HIDE DEF lost
  <2> QED BY <1>6, <2>1, <2>2
<1> QED BY <1>2, <1>3, <1>4, <1>5, <1>6

LEMMA UpdateFacts ==
  ASSUME TypeInv, NEW c \in Procs, UpdateScorecard(c)
  PROVE  /\ p' \in [Procs -> Process] /\ Others(c)
         /\ p'[c].pc = "score" /\ p'[c].row \in Counted /\ p'[c].before \in Counted
         /\ p'[c].cards = [o \in Orders |-> IF Live(cards, o) THEN Scored(cards[o], Positions) ELSE NoCard]
<1> DEFINE cs == [o \in Orders |-> IF Live(cards, o) THEN Scored(cards[o], Positions) ELSE NoCard]
           y == [Free EXCEPT !.pc = "score", !.cards = cs]
<1>1. p' = [p EXCEPT ![c] = y] /\ p \in [Procs -> Process] /\ cards \in [Orders -> Card]
  BY DEF UpdateScorecard, TypeInv, TypeOK
<1>2. Positions \in SUBSET Orders
  BY DEF Positions
<1>3. ASSUME NEW o \in Orders, Live(cards, o) PROVE Scored(cards[o], Positions) \in Card
  BY <1>1, <1>2, <1>3, ScoredFacts DEF Live
<1>4. cs \in [Orders -> Card]
  BY <1>3, NoneTyped
<1>5. NoRow \in Counted /\ Free.before = NoRow /\ Free.row = NoRow
  BY NoneTyped DEF Free
<1> HIDE DEF cs
<1>6. y \in Process
  BY <1>4, FreeTyped DEF Process, Sections
<1>7. y.pc = "score" /\ y.row = NoRow /\ y.before = NoRow /\ y.cards = cs
  BY <1>5, FreeTyped DEF Process
<1> HIDE DEF y
<1>8. p' \in [Procs -> Process] /\ p'[c] = y /\ Others(c)
  BY <1>1, <1>6, Moved
<1> QED BY <1>5, <1>7, <1>8 DEF cs

LEMMA SaveFacts ==
  ASSUME TypeInv, NEW c \in Procs, ExitSave(c) \/ ScorecardSave(c)
  PROVE  /\ p' \in [Procs -> Process] /\ p'[c] = Free /\ Others(c) /\ g' \in [Procs -> Guard]
         /\ cards' \in [Orders -> Card]
         /\ \A o \in Orders : \/ cards'[o] = cards[o]
                              \/ cards'[o] = p[c].cards[o] /\ p[c].cards[o] # NoCard
<1>1. /\ p \in [Procs -> Process] /\ p[c] \in Process /\ cards \in [Orders -> Card] /\ g \in [Procs -> Guard]
      /\ Goto(c, "free") /\ (Stage(c, "score", g[c].closes) \/ Stage(c, "backup", {}))
      /\ cards' = [o \in Orders |-> IF p[c].cards[o] # NoCard /\ cards[o] # NoCard
                                    THEN p[c].cards[o] ELSE cards[o]]
  BY DEF ExitSave, ScorecardSave, TypeInv, TypeOK
<1>2. p[c].cards \in [Orders -> Card]
  BY <1>1 DEF Process
<1>3. /\ [stage |-> "score", closes |-> g[c].closes] \in Guard
      /\ [stage |-> "backup", closes |-> {}] \in Guard
  BY <1>1 DEF Guard
<1>4. g' \in [Procs -> Guard]
  BY <1>1, <1>3 DEF Stage
<1> QED BY <1>1, <1>2, <1>4, GotoFree

\* A section that a crash or an exception ends: no order changes but for its history.
LEMMA EndsFacts ==
  ASSUME TypeInv, NEW c \in Procs, Ends(c)
  PROVE  /\ ord' \in [Orders -> Order] /\ Evolves
         /\ \A o \in Orders : ord'[o].ends = ord[o].ends /\ ord'[o].exit = ord[o].exit
         /\ p' \in [Procs -> Process] /\ p'[c] = Free /\ Others(c)
         /\ (\A o \in Orders : ~ord'[o].astray) => Unrecorded(c) = {} /\ ord' = ord
<1>1. /\ ord \in [Orders -> Order] /\ p \in [Procs -> Process] /\ p' = [p EXCEPT ![c] = Free]
      /\ ord' = [o \in Orders |-> IF o \in Unrecorded(c) THEN [ord[o] EXCEPT !.astray = TRUE] ELSE ord[o]]
  BY DEF Ends, TypeInv, TypeOK
<1>2. ASSUME NEW x \in Order, NEW y, y = [x EXCEPT !.astray = TRUE]
      PROVE  /\ y \in Order /\ y.astray
             /\ y.st = x.st /\ y.sym = x.sym /\ y.at = x.at /\ y.ends = x.ends /\ y.exit = x.exit
  <2>1. y \in Order BY <1>2 DEF Order
  <2>2. y.astray /\ y.st = x.st /\ y.sym = x.sym /\ y.at = x.at /\ y.ends = x.ends /\ y.exit = x.exit
    BY <1>2 DEF Order
  <2> QED BY <2>1, <2>2
<1> DEFINE new(o) == [ord[o] EXCEPT !.astray = TRUE]
<1>3. \A o \in Orders :
        /\ new(o) \in Order /\ new(o).astray /\ new(o).st = ord[o].st /\ new(o).sym = ord[o].sym
        /\ new(o).at = ord[o].at /\ new(o).ends = ord[o].ends /\ new(o).exit = ord[o].exit
  <2> TAKE o \in Orders
  <2> QED BY <1>1, <1>2
<1>4. \A o \in Orders : ord'[o] = IF o \in Unrecorded(c) THEN new(o) ELSE ord[o]
  BY <1>1
<1> HIDE DEF new
<1>5. ord' \in [Orders -> Order]
  BY <1>1, <1>3, <1>4
<1>6. p' \in [Procs -> Process] /\ p'[c] = Free /\ Others(c)
  BY <1>1, FreeTyped, NoneTyped, Moved
<1>7. ASSUME \A o \in Orders : ~ord'[o].astray PROVE Unrecorded(c) = {} /\ ord' = ord
  <2>1. Unrecorded(c) = {}
    BY <1>3, <1>4, <1>7 DEF Unrecorded
  <2>2. \A o \in Orders : ord'[o] = ord[o]
    BY <1>4, <2>1
  <2> QED BY <1>1, <1>5, <2>1, <2>2
<1> QED BY <1>3, <1>4, <1>5, <1>6, <1>7 DEF Evolves

LEMMA RecordFacts ==
  ASSUME TypeInv, NEW c \in Procs, record_entry(c)
  PROVE  /\ p' \in [Procs -> Process] /\ p'[c] = Free /\ Others(c)
         /\ p[c].o \in Orders /\ cards' \in [Orders -> Card]
         /\ \A q \in Orders : q # p[c].o => cards'[q] = cards[q]
         /\ cards'[p[c].o].status = "pending_fill" /\ cards'[p[c].o].sym = p[c].s
         /\ cards'[p[c].o].at = now /\ cards'[p[c].o].ids = {} /\ ~cards'[p[c].o].paper_seen
         /\ cards'[p[c].o].flat = 0
<1> DEFINE o == p[c].o
           s == p[c].s
           new == [NoCard EXCEPT !.status = "pending_fill", !.sym = s, !.at = now]
<1>1. /\ p \in [Procs -> Process] /\ p[c] \in Process /\ cards \in [Orders -> Card] /\ now \in Times
      /\ Goto(c, "free") /\ cards' = [cards EXCEPT ![o] = new]
  BY DEF record_entry, TypeInv, TypeOK
<1>2. o \in Orders /\ s \in Symbols
  BY <1>1 DEF Process
<1> HIDE DEF o, s
<1>3. new \in Card
  BY <1>1, <1>2, NoneTyped DEF Card
<1>4. new.status = "pending_fill" /\ new.sym = s /\ new.at = now /\ new.ids = {} /\ ~new.paper_seen /\ new.flat = 0
  BY DEF NoCard
<1> HIDE DEF new
<1>5. p' \in [Procs -> Process] /\ p'[c] = Free /\ Others(c)
  BY <1>1, GotoFree
<1> QED BY <1>1, <1>2, <1>3, <1>4, <1>5 DEF o, s

LEMMA BackupSaveFacts ==
  ASSUME TypeInv, NEW c \in Procs, BackupSave(c)
  PROVE  /\ p' \in [Procs -> Process] /\ p'[c] = Free /\ Others(c) /\ g' \in [Procs -> Guard]
         /\ stops' \in [Symbols -> Stop]
         /\ \A s \in Symbols :
              \/ s \in p[c].drop /\ stops'[s] = NoStop
              \/ s \notin p[c].drop /\ stops'[s] = stops[s]
              \/ /\ s \notin p[c].drop /\ s \in SymbolsOf(p[c].pos)
                 /\ stops'[s].at = stops[s].at /\ stops'[s].seen /\ stops'[s] # NoStop
<1> DEFINE seen(s) == [stops[s] EXCEPT !.seen = TRUE]
<1>1. /\ p \in [Procs -> Process] /\ stops \in [Symbols -> Stop] /\ g \in [Procs -> Guard]
      /\ Goto(c, "free") /\ Stage(c, "exit", g[c].closes)
  BY DEF BackupSave, TypeInv, TypeOK
<1>2. /\ stops' = [s \in Symbols |-> stops'[s]]
      /\ \A s \in Symbols :
           \/ s \in p[c].drop /\ stops'[s] = NoStop
           \/ s \notin p[c].drop /\ stops'[s] = stops[s]
           \/ s \notin p[c].drop /\ s \in SymbolsOf(p[c].pos) /\ stops'[s] = seen(s)
  BY DEF BackupSave
<1>3. ASSUME NEW s \in Symbols
      PROVE  seen(s) \in Stop /\ seen(s).at = stops[s].at /\ seen(s).seen
  BY <1>1 DEF Stop
<1>4. \A x : x.seen => x # NoStop
  BY DEF NoStop
<1> HIDE DEF seen
<1>5. \A s \in Symbols : stops'[s] \in Stop
  BY <1>1, <1>2, <1>3, NoneTyped
<1>6. [stage |-> "exit", closes |-> g[c].closes] \in Guard
  BY <1>1 DEF Guard
<1>7. stops' \in [Symbols -> Stop] /\ g' \in [Procs -> Guard]
  BY <1>1, <1>2, <1>5, <1>6 DEF Stage
<1> QED BY <1>1, <1>2, <1>3, <1>4, <1>7, GotoFree

-----------------------------------------------------------------------------
(* Type correctness *)

\* The part of TypeInv about the sections, from the section of the process that moved.
LEMMA MovedRows ==
  ASSUME TypeInv, NEW c \in Procs, Others(c),
         p'[c].row \in Counted, p'[c].before \in Counted,
         p'[c].pc = "ahead" => p'[c].row.trades_today < DailyCap
  PROVE  \A d \in Procs : /\ p'[d].row \in Counted /\ p'[d].before \in Counted
                          /\ p'[d].pc = "ahead" => p'[d].row.trades_today < DailyCap
BY DEF Others, TypeInv

LEMMA FreeRows ==
  ASSUME TypeInv, NEW c \in Procs, Others(c), p'[c] = Free
  PROVE  \A d \in Procs : /\ p'[d].row \in Counted /\ p'[d].before \in Counted
                          /\ p'[d].pc = "ahead" => p'[d].row.trades_today < DailyCap
<1>1. Free.row \in Counted /\ Free.before \in Counted /\ Free.pc # "ahead"
  BY NoneTyped DEF Free
<1> QED BY <1>1, MovedRows

LEMMA FaultType ==
  ASSUME faults \in 0..MaxFaults
  PROVE  /\ \A f : Fault(f) => faults' \in 0..MaxFaults
         /\ NoFault => faults' \in 0..MaxFaults
         /\ \A e : Event(e) => faults' \in 0..MaxFaults
BY ConstantTypes DEF Fault, NoFault, Event

LEMMA ExternalTypes == ASSUME TypeInv, External \/ Pass PROVE TypeInv'
<1> USE FaultType DEF TypeInv, TypeOK
<1>1. ASSUME NEW o \in Orders, OrderFills(o) \/ EtoroCloses(o) PROVE TypeInv'
  <2>1. ord' \in [Orders -> Order] /\ UsedInOrder'
    BY <1>1, FillFacts, StillUsedInOrder
  <2>2. UNCHANGED <<low, papers, tables, now, p, g>> /\ faults' \in 0..MaxFaults
    BY <1>1 DEF OrderFills, EtoroCloses, Broker
  <2> QED BY <2>1, <2>2 DEF papers, tables
<1>2. ASSUME NEW s \in Symbols, PriceFalls(s) \/ PriceRises(s) PROVE TypeInv'
  <2>1. UNCHANGED <<ord, papers, tables, now, p, g>> /\ low' \subseteq Symbols /\ faults' \in 0..MaxFaults
    BY <1>2 DEF PriceFalls, PriceRises
  <2>2. UsedInOrder'
    BY <2>1, SameOrders, StillUsedInOrder
  <2> QED BY <2>1, <2>2 DEF papers, tables
<1>3. ASSUME NEW s \in Symbols, PaperEnters(s) \/ mark_paper_safety_flatten(s) PROVE TypeInv'
  <2>1. /\ UNCHANGED <<ord, low, row, halted, fails, stops, cards, kill, now, p, g>>
        /\ paper' \in [Symbols -> {"flat", "held", "closing"}] /\ want' \subseteq Symbols
        /\ mark' \in [Symbols -> Times \cup {Never}] /\ faults' \in 0..MaxFaults
    BY <1>3 DEF PaperEnters, mark_paper_safety_flatten, broker, tables
  <2>2. UsedInOrder'
    BY <2>1, SameOrders, StillUsedInOrder
  <2> QED BY <2>1, <2>2
<1>4. ASSUME NEW s \in Symbols, PaperExits(s) \/ SafetyFlattenFills(s) PROVE TypeInv'
  <2>1. PICK how \in {"strategy", "safety"} : PaperEnds(s, how)
    BY <1>4 DEF PaperExits, SafetyFlattenFills
  <2>2. ord' \in [Orders -> Order] /\ UsedInOrder'
    BY <2>1, PaperEndFacts, StillUsedInOrder
  <2>3. /\ UNCHANGED <<low, want, tables, now, p, g, faults>>
        /\ paper' \in [Symbols -> {"flat", "held", "closing"}]
    BY <2>1 DEF PaperEnds
  <2> QED BY <2>2, <2>3 DEF tables
<1>5. CASE KillSwitchOn \/ KillSwitchOff \/ ClearHalt
  <2>1. /\ UNCHANGED <<ord, low, want, row, fails, stops, cards, now, p, g>>
        /\ paper' \in [Symbols -> {"flat", "held", "closing"}]
        /\ mark' \in [Symbols -> Times \cup {Never}] /\ faults' \in 0..MaxFaults
        /\ kill' \in BOOLEAN /\ halted' \in BOOLEAN
    BY <1>5 DEF KillSwitchOn, KillSwitchOff, ClearHalt, broker, papers, tables
  <2>2. UsedInOrder'
    BY <2>1, SameOrders, StillUsedInOrder
  <2> QED BY <2>1, <2>2
<1>6. CASE Pass
  <2>1. UNCHANGED <<broker, papers, tables, p, g, faults>> /\ now' \in Times
    BY <1>6, ConstantTypes DEF Pass, Times
  <2>2. UsedInOrder'
    BY <2>1, SameOrders, StillUsedInOrder DEF broker
  <2> QED BY <2>1, <2>2 DEF broker, papers, tables
<1> QED BY <1>1, <1>2, <1>3, <1>4, <1>5, <1>6 DEF External

LEMMA EndsTypes ==
  ASSUME TypeInv, NEW c \in Procs, Ends(c), faults' \in 0..MaxFaults, g' \in [Procs -> Guard]
  PROVE  TypeInv'
<1>1. UNCHANGED <<low, papers, tables, now>>
  BY DEF Ends
<1>2. UsedInOrder'
  BY EndsFacts, StillUsedInOrder DEF TypeInv
<1> QED BY <1>1, <1>2, EndsFacts, FreeRows DEF TypeInv, TypeOK, papers, tables

LEMMA CopyTypes == ASSUME TypeInv, NEW c \in Procs, Copy(c) PROVE TypeInv'
<1> USE FaultType DEF TypeInv, TypeOK
<1>0. p[c] \in Process /\ p[c].s \in Symbols
  BY DEF Process
<1>1. ASSUME NEW s \in Symbols, MirrorBlocked(c, s) PROVE TypeInv'
  <2>1. UNCHANGED <<broker, paper, tables, now, p, g>> /\ want' \subseteq Symbols /\ faults' \in 0..MaxFaults
    BY <1>1 DEF MirrorBlocked, Refuse
  <2>2. UsedInOrder'
    BY <2>1, SameOrders, StillUsedInOrder DEF broker
  <2> QED BY <2>1, <2>2 DEF broker, tables
<1>2. ASSUME NEW s \in Symbols, Mirror(c, s) PROVE TypeInv'
  <2>1. /\ UNCHANGED <<broker, paper, tables, now, g, faults>> /\ want' \subseteq Symbols
        /\ StateToday.trades_today < DailyCap
    <3>1. ~(StateToday.trades_today >= DailyCap)
      BY <1>2 DEF Mirror, Blocked
    <3>2. StateToday.trades_today \in Nat
      BY TodayRow, CountedParts
    <3> QED BY <1>2, <3>1, <3>2, ConstantTypes DEF Mirror
  <2>2. UsedInOrder'
    BY <2>1, SameOrders, StillUsedInOrder DEF broker
  <2>3. \A d \in Procs : /\ p'[d].row \in Counted /\ p'[d].before \in Counted
                         /\ p'[d].pc = "ahead" => p'[d].row.trades_today < DailyCap
    BY <1>2, <2>1, MirrorFacts, TodayRow, NoneTyped, MovedRows
  <2> QED BY <1>2, <2>1, <2>2, <2>3, MirrorFacts DEF broker, tables
<1>3. CASE WriteAhead(c)
  <2>1. UNCHANGED <<broker, papers, halted, fails, stops, cards, mark, kill, now, g, faults>>
    BY <1>3 DEF WriteAhead
  <2>2. UsedInOrder'
    BY <2>1, SameOrders, StillUsedInOrder DEF broker
  <2>3. \A d \in Procs : /\ p'[d].row \in Counted /\ p'[d].before \in Counted
                         /\ p'[d].pc = "ahead" => p'[d].row.trades_today < DailyCap
    BY <1>3, WriteAheadFacts, MovedRows
  <2>4. row' \in Counted /\ row' \in Row /\ p' \in [Procs -> Process]
    BY <1>3, WriteAheadFacts, CountedIsRow
  <2> QED BY <2>1, <2>2, <2>3, <2>4 DEF broker, papers
<1>4. CASE PostOrder(c)
  <2>1. UNCHANGED <<low, papers, tables, now, g>> /\ faults' \in 0..MaxFaults
    BY <1>4 DEF PostOrder
  <2>2. ord' \in [Orders -> Order] /\ UsedInOrder'
    <3>1. CASE Accept(c)
      BY <3>1, AcceptFacts
    <3>2. CASE UNCHANGED ord
      BY <3>2, SameOrders, StillUsedInOrder
    <3> QED BY <1>4, <3>1, <3>2, PostFacts
  <2>3. \A d \in Procs : /\ p'[d].row \in Counted /\ p'[d].before \in Counted
                         /\ p'[d].pc = "ahead" => p'[d].row.trades_today < DailyCap
    BY <1>4, PostFacts, MovedRows
  <2> QED BY <1>4, <2>1, <2>2, <2>3, PostFacts DEF papers, tables
<1>5. CASE remember_stop(c) \/ Undo(c) \/ Confirm(c)
  <2>1. PICK pc \in {"post", "forget", "record"} : Goto(c, pc)
    BY <1>5 DEF remember_stop, Undo, Confirm
  <2>2. /\ UNCHANGED <<broker, papers, halted, fails, cards, mark, kill, now, g, faults>>
        /\ stops' \in [Symbols -> Stop]
    <3>1. [at |-> now, seen |-> FALSE] \in Stop
      BY DEF Stop
    <3> QED BY <1>0, <1>5, <3>1 DEF remember_stop, Undo, Confirm
  <2>3. row' \in Counted /\ row' \in Row
    BY <1>5, CountedIsRow DEF remember_stop, Undo, Confirm
  <2>4. UsedInOrder'
    BY <2>2, SameOrders, StillUsedInOrder DEF broker
  <2>5. p' \in [Procs -> Process] /\ Others(c) /\ p'[c].pc = pc /\ SameEntry(p[c], p'[c])
    BY <2>1, GotoFacts DEF Sections
  <2>6. \A d \in Procs : /\ p'[d].row \in Counted /\ p'[d].before \in Counted
                         /\ p'[d].pc = "ahead" => p'[d].row.trades_today < DailyCap
    BY <2>5, MovedRows DEF SameEntry
  <2> QED BY <2>2, <2>3, <2>4, <2>5, <2>6 DEF broker, papers
<1>6. CASE forget_stop(c)
  <2>1. /\ UNCHANGED <<broker, papers, row, halted, fails, cards, mark, kill, now, g, faults>>
        /\ stops' \in [Symbols -> Stop]
    BY <1>0, <1>6, NoneTyped DEF forget_stop
  <2>2. UsedInOrder'
    BY <2>1, SameOrders, StillUsedInOrder DEF broker
  <2>3. Goto(c, "halt") \/ Goto(c, "free")
    BY <1>6 DEF forget_stop
  <2>4. CASE Goto(c, "halt")
    <3>1. p' \in [Procs -> Process] /\ Others(c) /\ p'[c].pc = "halt" /\ SameEntry(p[c], p'[c])
      BY <2>4, GotoFacts DEF Sections
    <3>2. \A d \in Procs : /\ p'[d].row \in Counted /\ p'[d].before \in Counted
                           /\ p'[d].pc = "ahead" => p'[d].row.trades_today < DailyCap
      BY <3>1, MovedRows DEF SameEntry
    <3> QED BY <2>1, <2>2, <3>1, <3>2 DEF broker, papers
  <2>5. CASE Goto(c, "free")
    BY <2>1, <2>2, <2>5, GotoFree, FreeRows DEF broker, papers
  <2> QED BY <2>3, <2>4, <2>5
<1>7. CASE Halt(c)
  <2>1. /\ UNCHANGED <<broker, papers, row, fails, stops, cards, mark, kill, now, g, faults>>
        /\ halted' \in BOOLEAN /\ Goto(c, "free")
    BY <1>7 DEF Halt
  <2>2. UsedInOrder'
    BY <2>1, SameOrders, StillUsedInOrder DEF broker
  <2> QED BY <2>1, <2>2, GotoFree, FreeRows DEF broker, papers
<1>8. CASE record_entry(c)
  <2>1. UNCHANGED <<broker, papers, row, halted, fails, stops, mark, kill, now, g, faults>>
    BY <1>8 DEF record_entry
  <2>2. UsedInOrder'
    BY <2>1, SameOrders, StillUsedInOrder DEF broker
  <2> QED BY <1>8, <2>1, <2>2, RecordFacts, FreeRows DEF broker, papers
<1>9. CASE CopyRaises(c)
  BY <1>9, EndsTypes, FaultType DEF CopyRaises, TypeInv, TypeOK
<1> QED BY <1>1, <1>2, <1>3, <1>4, <1>5, <1>6, <1>7, <1>8, <1>9 DEF Copy

LEMMA MaintainTypes == ASSUME TypeInv, NEW c \in Procs, Maintain(c) PROVE TypeInv'
<1> USE FaultType DEF TypeInv, TypeOK
<1>1. CASE ReconcileReadFails(c)
  <2>1. /\ UNCHANGED <<broker, papers, row, stops, cards, mark, kill, now, p, g>>
        /\ faults' \in 0..MaxFaults
    BY <1>1 DEF ReconcileReadFails
  <2>2. fails' \in 0..ReadFailures
    BY <1>1, ConstantTypes DEF ReconcileReadFails
  <2>3. halted' \in BOOLEAN
    BY <1>1 DEF ReconcileReadFails
  <2>4. UsedInOrder'
    BY <2>1, SameOrders, StillUsedInOrder DEF broker
  <2> QED BY <2>1, <2>2, <2>3, <2>4 DEF broker, papers
<1>2. CASE Reconcile(c)
  <2>1. /\ UNCHANGED <<broker, papers, row, halted, stops, cards, mark, kill, now, g, faults>>
        /\ fails' \in 0..ReadFailures
    BY <1>2, ConstantTypes DEF Reconcile
  <2>2. UsedInOrder'
    BY <2>1, SameOrders, StillUsedInOrder DEF broker
  <2>3. \A d \in Procs : /\ p'[d].row \in Counted /\ p'[d].before \in Counted
                         /\ p'[d].pc = "ahead" => p'[d].row.trades_today < DailyCap
    BY <1>2, ReconcileFacts, MovedRows
  <2> QED BY <1>2, <2>1, <2>2, <2>3, ReconcileFacts DEF broker, papers
<1>3. ASSUME NEW o \in Orders, CloseUnprotected(c, o) PROVE TypeInv'
  <2>1. /\ UNCHANGED <<low, papers, row, fails, stops, cards, mark, kill, now, g>>
        /\ faults' \in 0..MaxFaults
    BY <1>3 DEF CloseUnprotected
  <2>2. /\ p' \in [Procs -> Process] /\ Others(c) /\ p'[c].pc = "reconcile" /\ SameEntry(p[c], p'[c])
        /\ ord' \in [Orders -> Order] /\ Evolves /\ halted' \in BOOLEAN
    BY <1>3, CloseFacts
  <2>3. \A d \in Procs : /\ p'[d].row \in Counted /\ p'[d].before \in Counted
                         /\ p'[d].pc = "ahead" => p'[d].row.trades_today < DailyCap
    BY <2>2, MovedRows DEF SameEntry
  <2> QED BY <2>1, <2>2, <2>3, StillUsedInOrder DEF papers
<1>4. CASE ReconcileSave(c)
  <2>1. /\ UNCHANGED <<broker, papers, halted, fails, stops, cards, mark, kill, now, g, faults>>
        /\ row' \in Counted /\ row' \in Row /\ Goto(c, "free")
    BY <1>4, CountedIsRow DEF ReconcileSave
  <2>2. UsedInOrder'
    BY <2>1, SameOrders, StillUsedInOrder DEF broker
  <2> QED BY <2>1, <2>2, GotoFree, FreeRows DEF broker, papers
<1> QED BY <1>1, <1>2, <1>3, <1>4 DEF Maintain

LEMMA TickTypes == ASSUME TypeInv, NEW c \in Procs, Tick(c) PROVE TypeInv'
<1> USE FaultType DEF TypeInv, TypeOK
<1>1. CASE GuardStepFails(c) \/ CopyNothing(c)
  <2>1. /\ UNCHANGED <<broker, papers, tables, now, p>> /\ faults' \in 0..MaxFaults
        /\ \E stage \in {"backup", "exit", "score"}, closes \in SUBSET Symbols : Stage(c, stage, closes)
    <3>1. g[c].stage \in {"backup", "exit", "score"} /\ g[c].closes \in SUBSET Symbols
      BY DEF Guard
    <3>2. NextStage[g[c].stage] \in {"backup", "exit", "score"}
      BY <3>1 DEF NextStage
    <3> QED BY <1>1, <3>1, <3>2 DEF GuardStepFails, CopyNothing
  <2>2. g' \in [Procs -> Guard]
    BY <2>1 DEF Stage, Guard
  <2>3. UsedInOrder'
    BY <2>1, SameOrders, StillUsedInOrder DEF broker
  <2> QED BY <2>1, <2>2, <2>3 DEF broker, papers, tables
<1>2. CASE CheckBackupStops(c)
  <2>1. UNCHANGED <<broker, papers, tables, now, g, faults>>
    BY <1>2 DEF CheckBackupStops
  <2>2. UsedInOrder'
    BY <2>1, SameOrders, StillUsedInOrder DEF broker
  <2>3. \A d \in Procs : /\ p'[d].row \in Counted /\ p'[d].before \in Counted
                         /\ p'[d].pc = "ahead" => p'[d].row.trades_today < DailyCap
    BY <1>2, CheckFacts, MovedRows
  <2> QED BY <1>2, <2>1, <2>2, <2>3, CheckFacts DEF broker, papers, tables
<1>3. CASE BackupSave(c)
  <2>1. UNCHANGED <<broker, papers, row, halted, fails, cards, mark, kill, now, faults>>
    BY <1>3 DEF BackupSave
  <2>2. UsedInOrder'
    BY <2>1, SameOrders, StillUsedInOrder DEF broker
  <2> QED BY <1>3, <2>1, <2>2, BackupSaveFacts, FreeRows DEF broker, papers
<1>4. ASSUME NEW s \in Symbols, BackupStop(c, s) PROVE TypeInv'
  <2>1. UNCHANGED <<low, papers, row, fails, stops, cards, mark, kill, now>> /\ faults' \in 0..MaxFaults
    BY <1>4 DEF BackupStop
  <2>2. /\ p' \in [Procs -> Process] /\ g' \in [Procs -> Guard] /\ Others(c)
        /\ p'[c].pc = "backup" /\ SameEntry(p[c], p'[c]) /\ halted' \in BOOLEAN
        /\ (UNCHANGED ord \/ ord' = ClosedBy({o \in p[c].pos : ord[o].sym = s}, "bot"))
    BY <1>4, BackupStopFacts
  <2>3. ord' \in [Orders -> Order] /\ Evolves
    BY <2>2, ClosedFacts, SameOrders
  <2>4. \A d \in Procs : /\ p'[d].row \in Counted /\ p'[d].before \in Counted
                         /\ p'[d].pc = "ahead" => p'[d].row.trades_today < DailyCap
    BY <2>2, MovedRows DEF SameEntry
  <2> QED BY <2>1, <2>2, <2>3, <2>4, StillUsedInOrder DEF papers
<1>5. CASE CopyPaperExits(c)
  <2>1. UNCHANGED <<broker, papers, tables, now, g>> /\ faults' \in 0..MaxFaults
    BY <1>5 DEF CopyPaperExits
  <2>2. UsedInOrder'
    BY <2>1, SameOrders, StillUsedInOrder DEF broker
  <2>3. p' \in [Procs -> Process] /\ Others(c) /\ p'[c].pc = "exit" /\ p'[c].row \in Counted /\ p'[c].before \in Counted
    BY <1>5, CopyReadFacts
  <2>4. \A d \in Procs : /\ p'[d].row \in Counted /\ p'[d].before \in Counted
                         /\ p'[d].pc = "ahead" => p'[d].row.trades_today < DailyCap
    BY <2>3, MovedRows
  <2> QED BY <2>1, <2>2, <2>3, <2>4 DEF broker, papers, tables
<1>6. CASE ExitSave(c) \/ ScorecardSave(c)
  <2>1. UNCHANGED <<broker, papers, row, halted, fails, stops, mark, kill, now, faults>>
    BY <1>6 DEF ExitSave, ScorecardSave
  <2>2. UsedInOrder'
    BY <2>1, SameOrders, StillUsedInOrder DEF broker
  <2> QED BY <1>6, <2>1, <2>2, SaveFacts, FreeRows DEF broker, papers
<1>7. ASSUME NEW o \in Orders, CopyExit(c, o) PROVE TypeInv'
  <2> DEFINE card == p[c].cards[o]
  <2>1. UNCHANGED <<low, papers, row, halted, fails, cards, mark, kill, now, g>> /\ faults' \in 0..MaxFaults
    BY <1>7 DEF CopyExit
  <2>2. /\ p' \in [Procs -> Process] /\ Others(c) /\ p'[c].pc = "exit" /\ SameEntry(p[c], p'[c])
        /\ card \in Card
        /\ \/ UNCHANGED <<ord, stops>>
           \/ ord' = ClosedBy(card.ids, "copy") /\ stops' = [stops EXCEPT ![card.sym] = NoStop]
    BY <1>7, CopyExitFacts
  <2> HIDE DEF card
  <2>3. ord' \in [Orders -> Order] /\ Evolves /\ stops' \in [Symbols -> Stop]
    BY <2>2, ClosedFacts, SameOrders, NoneTyped
  <2>4. \A d \in Procs : /\ p'[d].row \in Counted /\ p'[d].before \in Counted
                         /\ p'[d].pc = "ahead" => p'[d].row.trades_today < DailyCap
    BY <2>2, MovedRows DEF SameEntry
  <2> QED BY <2>1, <2>2, <2>3, <2>4, StillUsedInOrder DEF papers
<1>8. CASE UpdateScorecard(c)
  <2>1. UNCHANGED <<broker, papers, tables, now, g, faults>>
    BY <1>8 DEF UpdateScorecard
  <2>2. UsedInOrder'
    BY <2>1, SameOrders, StillUsedInOrder DEF broker
  <2>3. \A d \in Procs : /\ p'[d].row \in Counted /\ p'[d].before \in Counted
                         /\ p'[d].pc = "ahead" => p'[d].row.trades_today < DailyCap
    BY <1>8, UpdateFacts, MovedRows
  <2> QED BY <1>8, <2>1, <2>2, <2>3, UpdateFacts DEF broker, papers, tables
<1> QED BY <1>1, <1>2, <1>3, <1>4, <1>5, <1>6, <1>7, <1>8 DEF Tick

LEMMA CrashTypes == ASSUME TypeInv, NEW c \in Procs, Crash(c) PROVE TypeInv'
<1>1. Ends(c) /\ faults' \in 0..MaxFaults /\ g' = [g EXCEPT ![c] = GuardStart] /\ g \in [Procs -> Guard]
  BY FaultType DEF Crash, TypeInv, TypeOK
<1>2. g' \in [Procs -> Guard]
  BY <1>1, NoneTyped
<1> QED BY <1>1, <1>2, EndsTypes

LEMMA TypesInitially == Init => TypeInv
<1> SUFFICES ASSUME Init PROVE TypeInv
  OBVIOUS
<1>1. TypeOK
  <2>1. /\ ord \in [Orders -> Order] /\ stops \in [Symbols -> Stop] /\ cards \in [Orders -> Card]
        /\ row \in Row /\ g \in [Procs -> Guard]
    BY NoneTyped, CountedIsRow DEF Init
  <2>2. p \in [Procs -> Process]
    BY FreeTyped DEF Init
  <2>3. /\ low \subseteq Symbols /\ want \subseteq Symbols /\ halted \in BOOLEAN /\ kill \in BOOLEAN
        /\ paper \in [Symbols -> {"flat", "held", "closing"}]
        /\ mark \in [Symbols -> Times \cup {Never}]
    BY DEF Init
  <2>4. fails \in 0..ReadFailures /\ now \in Times /\ faults \in 0..MaxFaults
    BY ConstantTypes DEF Init, Times
  <2> QED BY <2>1, <2>2, <2>3, <2>4 DEF TypeOK
<1>2. UsedInOrder
  <2>1. \A o \in Orders : ord[o].st = "none" /\ ~(o <= 0)
    BY ConstantTypes DEF Init, NoOrder, Orders
  <2>2. 0 \in 0..MaxOrders
    BY ConstantTypes
  <2> QED BY <2>1, <2>2 DEF UsedInOrder
<1>3. row \in Counted /\ \A c \in Procs : p[c] = Free
  BY NoneTyped DEF Init
<1>4. Free.row \in Counted /\ Free.before \in Counted /\ Free.pc # "ahead"
  BY NoneTyped DEF Free
<1> QED BY <1>1, <1>2, <1>3, <1>4 DEF TypeInv

LEMMA TypesStutter == ASSUME TypeInv, UNCHANGED vars PROVE TypeInv'
BY DEF TypeInv, TypeOK, UsedInOrder, vars, broker, papers, tables

LEMMA TypesKept == TypeInv /\ [Next]_vars => TypeInv'
BY ExternalTypes, CopyTypes, MaintainTypes, TickTypes, CrashTypes, TypesStutter DEF Next

\* The rows, the account, the cards and every section keep their types, whatever fails and
\* however many processes there are.
THEOREM TypesCorrect == Spec => []TypeInv
BY TypesInitially, TypesKept, PTL DEF Spec

-----------------------------------------------------------------------------
(* The daily cap *)

\* The lock of the mirror's sections is private to a process: with one container, or a lock
\* that the containers share, only one process is in a section.
Serial == \A c, d \in Procs : p[c].pc # "free" /\ p[d].pc # "free" => c = d

Sent(d) == {o \in Orders : ord[o].st # "none" /\ Day(ord[o].at) = d}
Today == Day(now)

\* A row of today that counts every order of today, and k more.
Covers(r, k) == r.day = Today /\ Cardinality(Sent(Today)) + k <= r.trades_today

RowCovers ==
    /\ row.day <= Today
    /\ row.day = Today => Covers(row, 0)
    /\ row.day # Today => Sent(Today) = {}

\* The count is saved before the order is sent, taken back only when nothing was sent, and
\* what reconcile saves was counted before.
SectionCovers(c) ==
    /\ p[c].pc \in {"ahead", "confirm", "reconcile"} => Covers(p[c].row, 0)
    /\ p[c].pc \in {"remember", "post"} =>
          Covers(row, 1) /\ Covers(p[c].row, 1) /\ Covers(p[c].before, 0)
    /\ p[c].pc = "undo" => Covers(p[c].before, 0)

CapInv ==
    /\ RowCovers
    /\ \A o \in Orders : ord[o].st # "none" => ord[o].at <= now
    /\ \A d \in 0..Day(MaxNow) : Cardinality(Sent(d)) <= DailyCap
    /\ \A c \in Procs : SectionCovers(c)

LEMMA OthersFree ==
  ASSUME Serial, Serial', NEW c \in Procs, Others(c), p[c].pc # "free" \/ p'[c].pc # "free"
  PROVE  \A d \in Procs : d # c => p[d].pc = "free" /\ p'[d] = p[d]
BY DEF Serial, Others

LEMMA SentFinite == \A d : IsFiniteSet(Sent(d)) /\ Cardinality(Sent(d)) \in Nat
<1> TAKE d
<1>1. IsFiniteSet(Orders)
  BY ConstantTypes, FS_Interval DEF Orders
<1>2. Sent(d) \subseteq Orders
  BY DEF Sent
<1> QED BY <1>1, <1>2, FS_Subset, FS_CardinalityType

LEMMA SentSame == ASSUME Evolves PROVE \A d : Sent(d)' = Sent(d)
BY DEF Evolves, Sent

LEMMA SentMore ==
  ASSUME TypeInv, NEW c \in Procs, Accept(c), UNCHANGED now
  PROVE  /\ Cardinality(Sent(Today)') = Cardinality(Sent(Today)) + 1
         /\ \A d : d # Today => Sent(d)' = Sent(d)
<1>1. Sent(Today)' = Sent(Today) \cup {NextOrder} /\ NextOrder \notin Sent(Today)
  BY AcceptFacts DEF Sent, Today
<1>2. \A d : d # Today => Sent(d)' = Sent(d)
  BY AcceptFacts DEF Sent, Today
<1> QED BY <1>1, <1>2, SentFinite, FS_AddElement

LEMMA EvolvedAges ==
  ASSUME Evolves, UNCHANGED now, \A o \in Orders : ord[o].st # "none" => ord[o].at <= now
  PROVE  \A o \in Orders : ord'[o].st # "none" => ord'[o].at <= now'
BY DEF Evolves

\* Steps that touch neither the row nor a section that holds one.
LEMMA CapIdle ==
  ASSUME CapInv, Evolves, UNCHANGED <<row, now>>,
         \/ UNCHANGED p
         \/ \E c \in Procs : Others(c) /\ p'[c].pc \in {"backup", "exit", "score", "halt", "forget", "free"}
  PROVE  CapInv'
<1>1. Today' = Today /\ Sent(Today)' = Sent(Today) /\ \A d : Sent(d)' = Sent(d)
  BY SentSame DEF Today
<1>2. RowCovers'
  BY <1>1 DEF CapInv, RowCovers, Covers
<1>3. \A d \in 0..Day(MaxNow) : Cardinality(Sent(d)') <= DailyCap
  BY <1>1 DEF CapInv
<1>4. ASSUME NEW c \in Procs PROVE SectionCovers(c)'
  <2>1. CASE p'[c] = p[c]
    BY <1>1, <2>1 DEF CapInv, SectionCovers, Covers
  <2>2. CASE p'[c].pc \in {"backup", "exit", "score", "halt", "forget", "free"}
    BY <2>2 DEF SectionCovers
  <2> QED BY <2>1, <2>2 DEF Others
<1> QED BY <1>2, <1>3, <1>4, EvolvedAges DEF CapInv

LEMMA CapEnds == ASSUME TypeInv, CapInv, NEW c \in Procs, Ends(c) PROVE CapInv'
<1>1. UNCHANGED <<row, now>> /\ Evolves /\ Others(c) /\ p'[c].pc = "free"
  BY EndsFacts, FreeTyped DEF Ends, tables
<1> QED BY <1>1, CapIdle

LEMMA CapExternal == ASSUME TypeInv, CapInv, External PROVE CapInv'
<1>1. UNCHANGED <<row, now, p>>
  BY DEF External, OrderFills, EtoroCloses, Broker, PriceFalls, PriceRises, PaperEnters, PaperExits,
         mark_paper_safety_flatten, SafetyFlattenFills, PaperEnds, KillSwitchOn, KillSwitchOff,
         ClearHalt, tables
<1>2. ord \in [Orders -> Order]
  BY DEF TypeInv, TypeOK
<1>3. Evolves
  <2>1. ASSUME NEW o \in Orders, OrderFills(o) \/ EtoroCloses(o) PROVE Evolves
    BY <1>2, <2>1, FillFacts
  <2>2. ASSUME NEW s \in Symbols, PaperExits(s) \/ SafetyFlattenFills(s) PROVE Evolves
    BY <1>2, <2>2, PaperEndFacts DEF PaperExits, SafetyFlattenFills
  <2>3. CASE UNCHANGED ord
    BY <2>3, SameOrders
  <2> QED BY <2>1, <2>2, <2>3 DEF External, PriceFalls, PriceRises, PaperEnters,
             mark_paper_safety_flatten, KillSwitchOn, KillSwitchOff, ClearHalt, broker
<1> QED BY <1>1, <1>3, CapIdle

\* On a new day nothing has been sent.
LEMMA CapPass == ASSUME TypeInv, CapInv, Pass PROVE CapInv'
<1>1. UNCHANGED <<ord, row, p>> /\ now' = now + 1 /\ now \in Times /\ now' \in Times
  BY ConstantTypes DEF Pass, broker, tables, TypeInv, TypeOK, Times
<1>2. /\ now \in Nat /\ Today \in Nat /\ Today' \in Nat /\ Today <= Today' /\ now <= now'
      /\ Today' \in 0..Day(MaxNow)
  BY <1>1, DayType, DayMonotone DEF Today
<1>3. \A d : Sent(d)' = Sent(d)
  BY <1>1, SameOrders, SentSame
<1>4. row.day \in Nat
  BY CountedParts DEF TypeInv
<1>5. ASSUME Today' # Today PROVE Sent(Today)' = {}
  <2>1. ASSUME NEW o \in Orders, ord[o].st # "none" PROVE Day(ord[o].at) <= Today
    <3>1. ord[o].at <= now /\ ord[o].at \in Times
      BY <2>1 DEF CapInv, TypeInv, TypeOK, Order
    <3> QED BY <1>1, <3>1, DayMonotone DEF Today
  <2>2. ASSUME NEW o \in Orders, ord[o].st # "none", Day(ord[o].at) = Today' PROVE FALSE
    <3>1. Day(ord[o].at) <= Today
      BY <2>1, <2>2
    <3> QED BY <1>2, <1>5, <2>2, <3>1
  <2>3. Sent(Today)' = {o \in Orders : ord[o].st # "none" /\ Day(ord[o].at) = Today'}
    BY <1>1 DEF Sent
  <2> QED BY <2>2, <2>3
<1>6. RowCovers'
  <2>1. CASE Today' = Today
    <3>1. Sent(Today)' = Sent(Today)
      BY <1>1, <2>1 DEF Sent, Today
    <3> QED BY <1>1, <2>1, <3>1 DEF CapInv, RowCovers, Covers
  <2>2. CASE Today' # Today
    <3>1. row.day <= Today /\ Today < Today'
      BY <1>2, <2>2 DEF CapInv, RowCovers
    <3>2. row'.day < Today'
      BY <1>1, <1>2, <1>4, <3>1
    <3> QED BY <1>1, <1>2, <1>4, <1>5, <2>2, <3>2 DEF RowCovers
  <2> QED BY <2>1, <2>2
<1>7. \A c \in Procs : SectionCovers(c)'
  BY <1>1 DEF Pass, SectionCovers
<1>8. \A o \in Orders : ord'[o].st # "none" => ord'[o].at <= now'
  <2> SUFFICES ASSUME NEW o \in Orders, ord[o].st # "none" PROVE ord[o].at <= now'
    BY <1>1
  <2>1. ord[o].at <= now /\ ord[o].at \in Nat
    BY DayType DEF CapInv, TypeInv, TypeOK, Order
  <2> QED BY <1>2, <2>1, <1>1
<1> QED BY <1>3, <1>6, <1>7, <1>8 DEF CapInv

\* The row as of today counts every order of today.
LEMMA TodayCovers ==
  ASSUME TypeInv, CapInv
  PROVE  Covers(StateToday, 0) /\ StateToday \in Counted
<1>1. /\ StateToday \in Counted /\ StateToday.day = Today
      /\ StateToday.trades_today = IF row.day = Today THEN row.trades_today ELSE 0
  BY TodayRow DEF TypeInv, TypeOK, Today
<1>2. CASE row.day = Today
  BY <1>1, <1>2 DEF CapInv, RowCovers, Covers
<1>3. CASE row.day # Today
  <2>1. Cardinality(Sent(Today)) = 0 /\ StateToday.trades_today = 0
    BY <1>1, <1>3, FS_EmptySet DEF CapInv, RowCovers
  <2> QED BY <1>1, <2>1 DEF Covers
<1> QED BY <1>2, <1>3

\* A step of the process that holds the lock, with the row it leaves behind.
LEMMA CapSection ==
  ASSUME TypeInv, CapInv, Serial, Serial', NEW c \in Procs, Others(c), Evolves, UNCHANGED now,
         p[c].pc # "free" \/ p'[c].pc # "free",
         RowCovers', SectionCovers(c)'
  PROVE  CapInv'
<1>1. \A d : Sent(d)' = Sent(d)
  BY SentSame
<1>2. ASSUME NEW d \in Procs, d # c PROVE SectionCovers(d)'
  <2>1. p'[d].pc = "free"
    BY <1>2, OthersFree
  <2> QED BY <2>1 DEF SectionCovers
<1> QED BY <1>1, <1>2, EvolvedAges DEF CapInv

LEMMA SameCovers ==
  ASSUME Evolves, UNCHANGED now
  PROVE  Today' = Today /\ Sent(Today)' = Sent(Today)
BY SentSame DEF Today

LEMMA CapCopy == ASSUME TypeInv, CapInv, Serial, Serial', NEW c \in Procs, Copy(c) PROVE CapInv'
<1>1. ASSUME NEW s \in Symbols, MirrorBlocked(c, s) PROVE CapInv'
  <2>1. UNCHANGED <<ord, row, now, p>>
    BY <1>1 DEF MirrorBlocked, Refuse, broker, tables
  <2> QED BY <2>1, CapIdle, SameOrders
<1>2. ASSUME NEW s \in Symbols, Mirror(c, s) PROVE CapInv'
  <2>1. UNCHANGED <<ord, row, now>>
    BY <1>2 DEF Mirror, broker, tables
  <2>2. Others(c) /\ p'[c].pc = "ahead" /\ p'[c].row = StateToday /\ Covers(StateToday, 0)
    BY <1>2, MirrorFacts, TodayCovers
  <2>3. Evolves /\ Today' = Today /\ Sent(Today)' = Sent(Today)
    BY <2>1, SameOrders, SameCovers
  <2>4. RowCovers' /\ SectionCovers(c)'
    BY <2>1, <2>2, <2>3 DEF CapInv, RowCovers, SectionCovers, Covers
  <2> QED BY <2>1, <2>2, <2>3, <2>4, CapSection
<1>3. CASE WriteAhead(c)
  <2>1. UNCHANGED <<ord, now>> /\ p[c].pc = "ahead"
    BY <1>3 DEF WriteAhead, broker
  <2>2. /\ Others(c) /\ p'[c].pc = "remember" /\ p'[c].before = p[c].row /\ p'[c].row = row'
        /\ row'.day = p[c].row.day /\ row'.trades_today = p[c].row.trades_today + 1
    BY <1>3, WriteAheadFacts
  <2>3. Evolves /\ Today' = Today /\ Sent(Today)' = Sent(Today)
    BY <2>1, SameOrders, SameCovers
  <2>4. p[c].row.day = Today /\ Cardinality(Sent(Today)) <= p[c].row.trades_today
    BY <2>1, SentFinite DEF CapInv, SectionCovers, Covers
  <2>5. p[c].row.trades_today \in Nat /\ Cardinality(Sent(Today)) \in Nat /\ Today \in Nat
    BY SentFinite, CountedParts, DayType DEF TypeInv, TypeOK, Today
  <2>6. RowCovers'
    BY <2>2, <2>3, <2>4, <2>5 DEF RowCovers, Covers
  <2>7. SectionCovers(c)'
    BY <2>2, <2>3, <2>4, <2>5 DEF SectionCovers, Covers
  <2> QED BY <2>1, <2>2, <2>3, <2>6, <2>7, CapSection
<1>4. CASE remember_stop(c)
  <2>1. UNCHANGED <<ord, row, now>> /\ p[c].pc = "remember" /\ Goto(c, "post")
    BY <1>4 DEF remember_stop, broker
  <2>2. Others(c) /\ p'[c].pc = "post" /\ SameEntry(p[c], p'[c])
    BY <2>1, GotoFacts DEF TypeInv, TypeOK, Sections
  <2>3. Evolves /\ Today' = Today /\ Sent(Today)' = Sent(Today)
    BY <2>1, SameOrders, SameCovers
  <2>4. RowCovers' /\ SectionCovers(c)'
    BY <2>1, <2>2, <2>3 DEF CapInv, RowCovers, SectionCovers, Covers, SameEntry
  <2> QED BY <2>1, <2>2, <2>3, <2>4, CapSection
<1>5. CASE PostOrder(c)
  <2>1. UNCHANGED <<row, now>> /\ p[c].pc = "post"
    BY <1>5 DEF PostOrder, tables
  <2>2. /\ Others(c) /\ p'[c].row = p[c].row /\ p'[c].before = p[c].before
        /\ p'[c].pc \in {"confirm", "halt", "undo"} /\ (Accept(c) \/ UNCHANGED ord)
        /\ p'[c].pc = "undo" => UNCHANGED ord
    BY <1>5, PostFacts
  <2>3. Today' = Today
    BY <2>1 DEF Today
  <2>4. /\ row.day = Today /\ p[c].row.day = Today /\ p[c].before.day = Today
        /\ Cardinality(Sent(Today)) + 1 <= row.trades_today
        /\ Cardinality(Sent(Today)) + 1 <= p[c].row.trades_today
        /\ Cardinality(Sent(Today)) + 0 <= p[c].before.trades_today
    BY <2>1 DEF CapInv, SectionCovers, Covers
  <2>5. /\ Cardinality(Sent(Today)) \in Nat /\ row.trades_today \in 0..DailyCap /\ Today \in Nat
        /\ p[c].row.trades_today \in Nat /\ p[c].before.trades_today \in Nat
    BY SentFinite, CountedParts, DayType DEF TypeInv, TypeOK, Today
  <2>6. CASE UNCHANGED ord
    <3>1. Evolves /\ Sent(Today)' = Sent(Today)
      BY <2>1, <2>6, SameOrders, SameCovers
    <3>2. RowCovers' /\ SectionCovers(c)'
      BY <2>1, <2>2, <2>3, <2>4, <2>5, <3>1 DEF RowCovers, SectionCovers, Covers
    <3> QED BY <2>1, <2>2, <3>1, <3>2, CapSection
  <2>7. CASE Accept(c) /\ p'[c].pc # "undo"
    <3>1. /\ Cardinality(Sent(Today)') = Cardinality(Sent(Today)) + 1
          /\ \A d : d # Today => Sent(d)' = Sent(d)
      BY <2>1, <2>7, SentMore
    <3>2. RowCovers'
      BY <2>1, <2>3, <2>4, <2>5, <3>1 DEF RowCovers, Covers
    <3>3. SectionCovers(c)'
      BY <2>1, <2>2, <2>3, <2>4, <2>5, <2>7, <3>1 DEF SectionCovers, Covers
    <3>4. ASSUME NEW d \in Procs, d # c PROVE SectionCovers(d)'
      <4>1. p'[d].pc = "free"
        BY <2>1, <2>2, <3>4, OthersFree
      <4> QED BY <4>1 DEF SectionCovers
    <3>5. ASSUME NEW d \in 0..Day(MaxNow) PROVE Cardinality(Sent(d)') <= DailyCap
      <4>1. CASE d = Today
        <5>1. Sent(d)' = Sent(Today)'
          BY <2>3, <4>1 DEF Sent
        <5> QED BY <2>4, <2>5, <3>1, <5>1, ConstantTypes
      <4>2. CASE d # Today
        BY <3>1, <4>2 DEF CapInv
      <4> QED BY <4>1, <4>2
    <3>6. \A o \in Orders : ord'[o].st # "none" => ord'[o].at <= now'
      <4>1. now \in Nat
        BY DayType DEF TypeInv, TypeOK
      <4> QED BY <2>1, <2>7, <4>1, AcceptFacts DEF CapInv
    <3> QED BY <3>2, <3>3, <3>4, <3>5, <3>6 DEF CapInv
  <2> QED BY <2>2, <2>6, <2>7
<1>6. CASE Undo(c)
  <2>1. UNCHANGED <<ord, now>> /\ p[c].pc = "undo" /\ Goto(c, "forget") /\ row' = p[c].before
    BY <1>6 DEF Undo, broker
  <2>2. Others(c) /\ p'[c].pc = "forget"
    BY <2>1, GotoFacts DEF TypeInv, TypeOK, Sections
  <2>3. Evolves /\ Today' = Today /\ Sent(Today)' = Sent(Today)
    BY <2>1, SameOrders, SameCovers
  <2>4. Covers(p[c].before, 0) /\ Today \in Nat
    BY <2>1, DayType DEF CapInv, SectionCovers, TypeInv, TypeOK, Today
  <2>5. RowCovers' /\ SectionCovers(c)'
    BY <2>1, <2>2, <2>3, <2>4 DEF RowCovers, SectionCovers, Covers
  <2> QED BY <2>1, <2>2, <2>3, <2>5, CapSection
<1>7. CASE Confirm(c)
  <2>1. UNCHANGED <<ord, now>> /\ p[c].pc = "confirm" /\ Goto(c, "record") /\ row' = p[c].row
    BY <1>7 DEF Confirm, broker
  <2>2. Others(c) /\ p'[c].pc = "record"
    BY <2>1, GotoFacts DEF TypeInv, TypeOK, Sections
  <2>3. Evolves /\ Today' = Today /\ Sent(Today)' = Sent(Today)
    BY <2>1, SameOrders, SameCovers
  <2>4. Covers(p[c].row, 0) /\ Today \in Nat
    BY <2>1, DayType DEF CapInv, SectionCovers, TypeInv, TypeOK, Today
  <2>5. RowCovers' /\ SectionCovers(c)'
    BY <2>1, <2>2, <2>3, <2>4 DEF RowCovers, SectionCovers, Covers
  <2> QED BY <2>1, <2>2, <2>3, <2>5, CapSection
<1>8. CASE forget_stop(c)
  <2>1. UNCHANGED <<ord, row, now>> /\ (Goto(c, "halt") \/ Goto(c, "free"))
    BY <1>8 DEF forget_stop, broker
  <2>2. Others(c) /\ p'[c].pc \in {"halt", "free"}
    BY <2>1, GotoFacts, GotoFree, FreeTyped DEF TypeInv, TypeOK, Sections
  <2> QED BY <2>1, <2>2, CapIdle, SameOrders
<1>9. CASE Halt(c) \/ record_entry(c)
  <2>1. UNCHANGED <<ord, row, now>> /\ Goto(c, "free")
    BY <1>9 DEF Halt, record_entry, broker
  <2>2. Others(c) /\ p'[c].pc = "free"
    BY <2>1, GotoFree, FreeTyped DEF TypeInv, TypeOK
  <2> QED BY <2>1, <2>2, CapIdle, SameOrders
<1>10. CASE CopyRaises(c)
  BY <1>10, CapEnds DEF CopyRaises
<1> QED BY <1>1, <1>2, <1>3, <1>4, <1>5, <1>6, <1>7, <1>8, <1>9, <1>10 DEF Copy

LEMMA CapMaintain == ASSUME TypeInv, CapInv, Serial, Serial', NEW c \in Procs, Maintain(c) PROVE CapInv'
<1>1. CASE ReconcileReadFails(c)
  <2>1. UNCHANGED <<ord, row, now, p>>
    BY <1>1 DEF ReconcileReadFails, broker
  <2> QED BY <2>1, CapIdle, SameOrders
<1>2. CASE Reconcile(c)
  <2>1. UNCHANGED <<ord, row, now>>
    BY <1>2 DEF Reconcile, broker
  <2>2. /\ Others(c) /\ p'[c].pc = "reconcile" /\ p'[c].row.day = Today
        /\ p'[c].row.trades_today = StateToday.trades_today /\ Covers(StateToday, 0)
    BY <1>2, ReconcileFacts, TodayCovers DEF Today
  <2>3. Evolves /\ Today' = Today /\ Sent(Today)' = Sent(Today)
    BY <2>1, SameOrders, SameCovers
  <2>4. RowCovers' /\ SectionCovers(c)'
    BY <2>1, <2>2, <2>3 DEF CapInv, RowCovers, SectionCovers, Covers
  <2> QED BY <2>1, <2>2, <2>3, <2>4, CapSection
<1>3. ASSUME NEW o \in Orders, CloseUnprotected(c, o) PROVE CapInv'
  <2>1. UNCHANGED <<row, now>> /\ p[c].pc = "reconcile"
    BY <1>3 DEF CloseUnprotected
  <2>2. Others(c) /\ p'[c].pc = "reconcile" /\ SameEntry(p[c], p'[c]) /\ Evolves
    BY <1>3, CloseFacts
  <2>3. Today' = Today /\ Sent(Today)' = Sent(Today)
    BY <2>1, <2>2, SameCovers
  <2>4. RowCovers' /\ SectionCovers(c)'
    BY <2>1, <2>2, <2>3 DEF CapInv, RowCovers, SectionCovers, Covers, SameEntry
  <2> QED BY <2>1, <2>2, <2>4, CapSection
<1>4. CASE ReconcileSave(c)
  <2>1. UNCHANGED <<ord, now>> /\ p[c].pc = "reconcile" /\ Goto(c, "free") /\ row' = p[c].row
    BY <1>4 DEF ReconcileSave, broker
  <2>2. Others(c) /\ p'[c].pc = "free"
    BY <2>1, GotoFree, FreeTyped DEF TypeInv, TypeOK
  <2>3. Evolves /\ Today' = Today /\ Sent(Today)' = Sent(Today)
    BY <2>1, SameOrders, SameCovers
  <2>4. Covers(p[c].row, 0) /\ Today \in Nat
    BY <2>1, DayType DEF CapInv, SectionCovers, TypeInv, TypeOK, Today
  <2>5. RowCovers' /\ SectionCovers(c)'
    BY <2>1, <2>2, <2>3, <2>4 DEF RowCovers, SectionCovers, Covers
  <2> QED BY <2>1, <2>2, <2>3, <2>5, CapSection
<1> QED BY <1>1, <1>2, <1>3, <1>4 DEF Maintain

LEMMA CapTick == ASSUME TypeInv, CapInv, NEW c \in Procs, Tick(c) PROVE CapInv'
<1>0. UNCHANGED <<row, now>>
  BY DEF Tick, GuardStepFails, CheckBackupStops, BackupSave, BackupStop, CopyPaperExits,
         CopyNothing, ExitSave, CopyExit, UpdateScorecard, ScorecardSave, tables
<1>1. CASE GuardStepFails(c) \/ CopyNothing(c)
  <2>1. UNCHANGED <<ord, p>>
    BY <1>1 DEF GuardStepFails, CopyNothing, broker
  <2> QED BY <1>0, <2>1, CapIdle, SameOrders
<1>2. CASE \/ CheckBackupStops(c) \/ BackupSave(c) \/ CopyPaperExits(c) \/ ExitSave(c)
           \/ UpdateScorecard(c) \/ ScorecardSave(c)
  <2>1. UNCHANGED ord
    BY <1>2 DEF CheckBackupStops, BackupSave, CopyPaperExits, ExitSave, UpdateScorecard, ScorecardSave,
                broker
  <2>2. Others(c) /\ p'[c].pc \in {"backup", "exit", "score", "free"}
    BY <1>2, CheckFacts, BackupSaveFacts, CopyReadFacts, SaveFacts, UpdateFacts, FreeTyped
  <2> QED BY <1>0, <2>1, <2>2, CapIdle, SameOrders
<1>3. ASSUME NEW s \in Symbols, BackupStop(c, s) PROVE CapInv'
  <2>1. /\ Others(c) /\ p'[c].pc = "backup"
        /\ (UNCHANGED ord \/ ord' = ClosedBy({o \in p[c].pos : ord[o].sym = s}, "bot"))
    BY <1>3, BackupStopFacts
  <2>2. Evolves
    BY <2>1, ClosedFacts, SameOrders DEF TypeInv, TypeOK
  <2> QED BY <1>0, <2>1, <2>2, CapIdle
<1>4. ASSUME NEW o \in Orders, CopyExit(c, o) PROVE CapInv'
  <2> DEFINE ids == p[c].cards[o].ids
  <2>1. /\ Others(c) /\ p'[c].pc = "exit"
        /\ (UNCHANGED ord \/ ord' = ClosedBy(ids, "copy"))
    BY <1>4, CopyExitFacts
  <2> HIDE DEF ids
  <2>2. Evolves
    BY <2>1, ClosedFacts, SameOrders DEF TypeInv, TypeOK
  <2> QED BY <1>0, <2>1, <2>2, CapIdle
<1> QED BY <1>1, <1>2, <1>3, <1>4 DEF Tick

LEMMA CapInitially == Init => CapInv
<1> SUFFICES ASSUME Init PROVE CapInv
  OBVIOUS
<1>1. /\ \A o \in Orders : ord[o].st = "none"
      /\ \A c \in Procs : p[c].pc = "free"
      /\ now = 0 /\ row.day = 0
  BY FreeTyped DEF Init, NoOrder, NoRow
<1>2. \A d : Sent(d) = {}
  BY <1>1 DEF Sent
<1>3. Cardinality({}) = 0 /\ Today = 0 /\ row.trades_today = 0
  BY <1>1, FS_EmptySet DEF Today, Day, Init, NoRow
<1> QED BY <1>1, <1>2, <1>3, ConstantTypes DEF CapInv, RowCovers, SectionCovers, Covers

LEMMA CapKept == TypeInv /\ CapInv /\ Serial /\ Serial' /\ [Next]_vars => CapInv'
<1> SUFFICES ASSUME TypeInv, CapInv, Serial, Serial', [Next]_vars PROVE CapInv'
  OBVIOUS
<1>1. CASE UNCHANGED vars
  BY <1>1, CapIdle, SameOrders DEF vars, broker, tables
<1> QED BY <1>1, CapExternal, CapPass, CapCopy, CapMaintain, CapTick, CapEnds DEF Next, Crash

\* No day sees more than DailyCap orders at eToro, counting those of unknown fate and those of
\* a process that died: the count is saved before the order is sent (mirror, write-ahead), and
\* only given back when the order was certainly not placed.
THEOREM DailyCapKept == Spec /\ []Serial => []DailyCapHolds
<1>1. CapInv => DailyCapHolds
  BY DEF CapInv, DailyCapHolds, Sent
<1> QED BY <1>1, TypesInitially, TypesKept, CapInitially, CapKept, PTL DEF Spec

\* One container needs no further assumption.
LEMMA AloneIsSerial == ASSUME NEW c, Procs = {c} PROVE Serial
BY DEF Serial

\* With a single container the cap is kept in every behaviour, whatever crashes, times out or
\* is undone: the sections of mirror and reconcile cannot meet in one process (its RLock).
THEOREM DailyCapKeptAlone == ASSUME NEW c, Procs = {c} PROVE Spec => []DailyCapHolds
BY AloneIsSerial, DailyCapKept, PTL

-----------------------------------------------------------------------------
(* One order per symbol, its stop and its card *)

\* eToro decides about an order within a day, as the scorecard assumes when it calls an order
\* it has not seen for a day "not filled" (NOT_FILLED_AFTER).
DecidedInADay == \A o \in Orders : ord[o].st = "queued" => ~Aged(o)

\* No mirror() ended, by a crash or an exception, after an order that reached eToro and before its
\* card, or before the halt if its fate is unknown.
CardsWritten == \A o \in Orders : ~ord[o].astray

NoneAlive(s) == \A o \in Orders : Alive(o) => ord[o].sym # s
NoLiveCard(s) == \A o \in Orders : Live(cards, o) => cards[o].sym # s

\* A card tells the truth about its order.
CardOK(card, o) == card.status # "none" =>
    /\ ord[o].st # "none" /\ card.sym = ord[o].sym /\ card.at = ord[o].at
    /\ card.status = "pending_fill" => card.ids = {}
    /\ card.status = "open" => card.ids = {o} /\ ord[o].st # "queued"
    /\ card.status \in {"closed", "not_filled"} => ~Alive(o)

\* The order of a section that has yet to record it, or to halt because of it.
InFlight(c, o) == \/ p[c].pc = "halt" /\ ord[o].sym = p[c].s
                  \/ p[c].pc \in {"confirm", "record"} /\ p[c].o = o

\* What a row must hold so that the mirror buys no symbol twice: the positions without a card.
Remembers(open) == halted \/ \A o \in Orders :
    \/ ~Alive(o) \/ Live(cards, o) \/ (\E c \in Procs : InFlight(c, o))
    \/ ord[o].st = "open" /\ ord[o].sym \in open

Bound ==
    /\ \A o, q \in Orders : Alive(o) /\ Alive(q) /\ ord[o].sym = ord[q].sym => o = q
    /\ \A o, q \in Orders : Live(cards, o) /\ Alive(q) /\ cards[o].sym = ord[q].sym => o = q
    /\ \A o, q \in Orders : Live(cards, o) /\ Live(cards, q) /\ cards[o].sym = cards[q].sym => o = q

StopsFit == \A o \in Orders : Alive(o) =>
    /\ stops[ord[o].sym] # NoStop /\ stops[ord[o].sym].at = ord[o].at
    /\ stops[ord[o].sym].seen => ord[o].st = "open"

\* The sections of mirror, from the blockers to the card.
EntrySection(c) ==
    /\ p[c].pc \in {"ahead", "remember", "post", "undo", "forget"} => NoneAlive(p[c].s)
    /\ p[c].pc \in {"ahead", "remember", "post", "confirm", "record"} => NoLiveCard(p[c].s)
    /\ p[c].pc = "post" => stops[p[c].s] = [at |-> now, seen |-> FALSE]
    /\ p[c].pc \in {"ahead", "remember", "post", "confirm", "reconcile"} => Remembers(p[c].row.open_symbols)
    /\ p[c].pc \in {"remember", "post", "undo"} => Remembers(p[c].before.open_symbols)
    /\ p[c].pc \in {"confirm", "record"} =>
          /\ ord[p[c].o].st # "none" /\ ord[p[c].o].sym = p[c].s /\ ord[p[c].o].at = now
          /\ \A o \in Orders : Alive(o) /\ ord[o].sym = p[c].s => o = p[c].o

BackupSection(c) == p[c].pc = "backup" =>
    /\ \A o \in p[c].pos : ord[o].st \in {"open", "closed"}
    /\ p[c].todo \subseteq SymbolsOf(p[c].pos)
    /\ \A o \in Orders : Alive(o) /\ ord[o].sym \in SymbolsOf(p[c].pos) => o \in p[c].pos
    /\ \A s \in p[c].drop : NoneAlive(s)

CardSection(c) ==
    /\ p[c].pc \in {"exit", "score"} => \A o \in Orders :
          /\ CardOK(p[c].cards[o], o)
          /\ p[c].cards[o] # NoCard => p[c].cards[o].status # "none" /\ Live(cards, o)
    /\ p[c].pc = "exit" => \A o \in p[c].due : o \in Orders /\ p[c].cards[o].status = "open"

BookInv ==
    /\ Bound
    /\ StopsFit
    /\ \A o \in Orders : CardOK(cards[o], o)
    /\ Remembers(row.open_symbols)
    /\ \A c \in Procs : EntrySection(c) /\ BackupSection(c) /\ CardSection(c)

LEMMA Evolved ==
  ASSUME Evolves
  PROVE  \A o \in Orders :
           /\ ord'[o].sym = ord[o].sym /\ ord'[o].at = ord[o].at
           /\ Alive(o)' => Alive(o)
           /\ ord[o].st # "none" => ord'[o].st # "none"
           /\ ord[o].st \in {"open", "closed"} => ord'[o].st \in {"open", "closed"}
           /\ ord[o].st = "open" /\ Alive(o)' => ord'[o].st = "open"
           /\ ord[o].st \notin {"queued", "none"} => ord'[o].st \notin {"queued", "none"}
BY DEF Evolves, Alive

LEMMA EvolvedBound == ASSUME Bound, Evolves, UNCHANGED cards PROVE Bound'
BY Evolved DEF Bound, Live

LEMMA EvolvedStops == ASSUME StopsFit, Evolves, UNCHANGED stops PROVE StopsFit'
BY Evolved DEF StopsFit

LEMMA EvolvedCards ==
  ASSUME \A o \in Orders : CardOK(cards[o], o), Evolves, UNCHANGED cards
  PROVE  \A o \in Orders : CardOK(cards[o], o)'
BY Evolved DEF CardOK

LEMMA EvolvedRemembers ==
  ASSUME NEW open, Remembers(open), Evolves, UNCHANGED cards, halted => halted',
         \A o \in Orders : (\E c \in Procs : InFlight(c, o)) => (\E c \in Procs : InFlight(c, o))'
  PROVE  halted' \/ \A o \in Orders :
           \/ ~Alive(o)' \/ Live(cards, o)' \/ (\E c \in Procs : InFlight(c, o))'
           \/ ord'[o].st = "open" /\ ord'[o].sym \in open
BY Evolved DEF Remembers, Live


LEMMA EvolvedSymbols ==
  ASSUME Evolves, NEW os \in SUBSET Orders
  PROVE  {ord'[o].sym : o \in os} = {ord[o].sym : o \in os}
BY Evolved

LEMMA SectionTypes ==
  ASSUME TypeInv, NEW c \in Procs
  PROVE  /\ p[c] \in Process /\ p[c].pos \in SUBSET Orders /\ p[c].s \in Symbols /\ p[c].o \in Orders
         /\ p[c].todo \in SUBSET Symbols /\ p[c].drop \in SUBSET Symbols /\ p[c].due \in SUBSET Orders
         /\ p[c].stops \in [Symbols -> Stop] /\ p[c].cards \in [Orders -> Card]
BY DEF TypeInv, TypeOK, Process

LEMMA FlightsKept ==
  ASSUME Evolves, NEW c \in Procs, Others(c),
         \/ p[c].pc \notin {"halt", "confirm", "record"}
         \/ p'[c].pc = p[c].pc /\ p'[c].s = p[c].s /\ p'[c].o = p[c].o
         \/ p[c].pc = "confirm" /\ p'[c].pc = "record" /\ p'[c].o = p[c].o
  PROVE  \A o \in Orders : (\E d \in Procs : InFlight(d, o)) => (\E d \in Procs : InFlight(d, o))'
<1> TAKE o \in Orders
<1> SUFFICES ASSUME NEW d \in Procs, InFlight(d, o) PROVE InFlight(d, o)'
  OBVIOUS
<1>1. CASE d # c
  BY <1>1, Evolved DEF InFlight, Others
<1>2. CASE d = c
  BY <1>2, Evolved DEF InFlight
<1> QED BY <1>1, <1>2

LEMMA FlightsSame ==
  ASSUME Evolves, UNCHANGED p
  PROVE  \A o \in Orders : (\E d \in Procs : InFlight(d, o)) => (\E d \in Procs : InFlight(d, o))'
BY Evolved DEF InFlight

LEMMA EntryKept ==
  ASSUME NEW c \in Procs, p[c].o \in Orders, EntrySection(c), Evolves, UNCHANGED <<stops, cards, now>>, halted => halted',
         p'[c].pc = p[c].pc, SameEntry(p[c], p'[c]),
         \A o \in Orders : (\E d \in Procs : InFlight(d, o)) => (\E d \in Procs : InFlight(d, o))'
  PROVE  EntrySection(c)'
<1> DEFINE r == p[c].row.open_symbols
           b == p[c].before.open_symbols
<1>1. p'[c].s = p[c].s /\ p'[c].o = p[c].o /\ p'[c].row.open_symbols = r /\ p'[c].before.open_symbols = b
  BY DEF SameEntry
<1>2. p[c].pc \in {"ahead", "remember", "post", "undo", "forget"} => NoneAlive(p[c].s)'
  BY <1>1, Evolved DEF EntrySection, NoneAlive
<1>3. p[c].pc \in {"ahead", "remember", "post", "confirm", "record"} => NoLiveCard(p[c].s)'
  BY <1>1 DEF EntrySection, NoLiveCard, Live
<1>4. p[c].pc \in {"ahead", "remember", "post", "confirm", "reconcile"} => Remembers(p[c].row.open_symbols)'
  <2> SUFFICES ASSUME p[c].pc \in {"ahead", "remember", "post", "confirm", "reconcile"}
               PROVE  Remembers(p[c].row.open_symbols)'
    OBVIOUS
  <2>1. Remembers(r)
    BY DEF EntrySection
  <2> HIDE DEF r
  <2> QED BY <1>1, <2>1, EvolvedRemembers DEF Remembers
<1>5. p[c].pc \in {"remember", "post", "undo"} => Remembers(p[c].before.open_symbols)'
  <2> SUFFICES ASSUME p[c].pc \in {"remember", "post", "undo"}
               PROVE  Remembers(p[c].before.open_symbols)'
    OBVIOUS
  <2>1. Remembers(b)
    BY DEF EntrySection
  <2> HIDE DEF b
  <2> QED BY <1>1, <2>1, EvolvedRemembers DEF Remembers
<1>6. p[c].pc = "post" => stops'[p'[c].s] = [at |-> now', seen |-> FALSE]
  BY <1>1 DEF EntrySection
<1>7. p[c].pc \in {"confirm", "record"} =>
        /\ ord'[p[c].o].st # "none" /\ ord'[p[c].o].sym = p[c].s /\ ord'[p[c].o].at = now'
        /\ \A o \in Orders : Alive(o)' /\ ord'[o].sym = p[c].s => o = p[c].o
  BY <1>1, Evolved DEF EntrySection
<1> QED BY <1>1, <1>2, <1>3, <1>4, <1>5, <1>6, <1>7 DEF EntrySection

LEMMA BackupKept ==
  ASSUME TypeInv, NEW c \in Procs, BackupSection(c), Evolves, p[c].pc = "backup",
         p'[c].pos = p[c].pos, p'[c].todo \subseteq p[c].todo,
         \A s \in p'[c].drop : s \in p[c].drop \/ NoneAlive(s)'
  PROVE  BackupSection(c)'
<1>1. p[c].pos \in SUBSET Orders
  BY SectionTypes
<1>2. SymbolsOf(p[c].pos)' = SymbolsOf(p[c].pos)
  BY <1>1, EvolvedSymbols DEF SymbolsOf
<1>3. \A o \in p'[c].pos : ord'[o].st \in {"open", "closed"}
  BY <1>1, Evolved DEF BackupSection
<1>4. \A o \in Orders : Alive(o)' /\ ord'[o].sym \in SymbolsOf(p[c].pos)' => o \in p'[c].pos
  BY <1>1, <1>2, Evolved DEF BackupSection
<1>5. \A s \in p'[c].drop : NoneAlive(s)'
  BY Evolved DEF BackupSection, NoneAlive
<1> QED BY <1>2, <1>3, <1>4, <1>5 DEF BackupSection

LEMMA CardKept ==
  ASSUME NEW c \in Procs, CardSection(c), Evolves, UNCHANGED cards,
         p'[c].pc = p[c].pc, p'[c].cards = p[c].cards, p'[c].due \subseteq p[c].due
  PROVE  CardSection(c)'
<1>1. ASSUME p[c].pc \in {"exit", "score"}, NEW o \in Orders
      PROVE  /\ CardOK(p[c].cards[o], o)'
             /\ p'[c].cards[o] # NoCard => p'[c].cards[o].status # "none" /\ Live(cards, o)'
  <2>1. CardOK(p[c].cards[o], o) /\ (p[c].cards[o] # NoCard => p[c].cards[o].status # "none" /\ Live(cards, o))
    BY <1>1 DEF CardSection
  <2> QED BY <2>1, Evolved DEF CardOK, Live
<1> QED BY <1>1 DEF CardSection


\* A step that leaves the tables and the sections alone, or halts the mirror.
LEMMA BookStill ==
  ASSUME TypeInv, BookInv, Evolves, UNCHANGED <<row, stops, cards, now, p>>, halted => halted'
  PROVE  BookInv'
<1>1. \A o \in Orders : (\E d \in Procs : InFlight(d, o)) => (\E d \in Procs : InFlight(d, o))'
  BY FlightsSame
<1>2. Bound' /\ StopsFit' /\ \A o \in Orders : CardOK(cards[o], o)'
  BY EvolvedBound, EvolvedStops, EvolvedCards DEF BookInv
<1>3. Remembers(row.open_symbols)'
  <2> DEFINE r == row.open_symbols
  <2>1. Remembers(r) /\ row'.open_symbols = r
    BY DEF BookInv
  <2> HIDE DEF r
  <2> QED BY <1>1, <2>1, EvolvedRemembers DEF Remembers
<1>4. ASSUME NEW c \in Procs PROVE EntrySection(c)' /\ BackupSection(c)' /\ CardSection(c)'
  <2>1. EntrySection(c)'
    BY <1>1, EntryKept, SectionTypes DEF BookInv, SameEntry
  <2>2. BackupSection(c)'
    BY BackupKept DEF BookInv, BackupSection
  <2>3. CardSection(c)'
    BY CardKept DEF BookInv
  <2> QED BY <2>1, <2>2, <2>3
<1> QED BY <1>2, <1>3, <1>4 DEF BookInv

\* While c is in a section, the sections of the others say nothing.
LEMMA OneSection ==
  ASSUME BookInv, Serial, Serial', NEW c \in Procs, Others(c), p[c].pc # "free" \/ p'[c].pc # "free",
         Bound', StopsFit', \A o \in Orders : CardOK(cards[o], o)', Remembers(row.open_symbols)',
         EntrySection(c)', BackupSection(c)', CardSection(c)'
  PROVE  BookInv'
<1>1. ASSUME NEW d \in Procs, d # c PROVE EntrySection(d)' /\ BackupSection(d)' /\ CardSection(d)'
  <2>1. p'[d].pc = "free"
    BY <1>1, OthersFree
  <2> QED BY <2>1 DEF EntrySection, BackupSection, CardSection
<1> QED BY <1>1 DEF BookInv

\* A step of c that leaves the cards, the stops and the clock alone.
LEMMA BookMoves ==
  ASSUME TypeInv, BookInv, Serial, Serial', NEW c \in Procs, Others(c), p[c].pc # "free" \/ p'[c].pc # "free",
         Evolves, UNCHANGED <<stops, cards, now>>, halted => halted',
         \/ halted'
         \/ p[c].pc \notin {"halt", "confirm", "record"}
         \/ p'[c].pc = p[c].pc /\ p'[c].s = p[c].s /\ p'[c].o = p[c].o
         \/ p[c].pc = "confirm" /\ p'[c].pc = "record" /\ p'[c].o = p[c].o,
         NEW open, row'.open_symbols = open, Remembers(open),
         EntrySection(c)', BackupSection(c)', CardSection(c)'
  PROVE  BookInv'
<1>1. Bound' /\ StopsFit' /\ \A o \in Orders : CardOK(cards[o], o)'
  BY EvolvedBound, EvolvedStops, EvolvedCards DEF BookInv
<1>2. Remembers(row.open_symbols)'
  <2>1. CASE halted'
    BY <2>1 DEF Remembers
  <2>2. CASE ~halted'
    BY <2>2, FlightsKept, EvolvedRemembers DEF Remembers
  <2> QED BY <2>1, <2>2
<1> QED BY <1>1, <1>2, OneSection

LEMMA FreeSections ==
  ASSUME NEW c \in Procs, p'[c] = Free
  PROVE  EntrySection(c)' /\ BackupSection(c)' /\ CardSection(c)'
BY FreeTyped DEF EntrySection, BackupSection, CardSection

LEMMA RowRemembered == ASSUME BookInv PROVE Remembers(row.open_symbols)
BY DEF BookInv

LEMMA TodaySymbols == ASSUME TypeInv PROVE StateToday.open_symbols = row.open_symbols
BY DEF TypeInv, Counted, StateToday


LEMMA BookExternal == ASSUME TypeInv, BookInv, External PROVE BookInv'
<1>1. ord \in [Orders -> Order]
  BY DEF TypeInv, TypeOK
<1>2. ASSUME NEW o \in Orders, OrderFills(o) \/ EtoroCloses(o) PROVE BookInv'
  <2>1. UNCHANGED <<tables, now, p>>
    BY <1>2 DEF OrderFills, EtoroCloses, Broker
  <2> QED BY <1>1, <1>2, <2>1, FillFacts, BookStill DEF tables
<1>3. ASSUME NEW s \in Symbols, PriceFalls(s) \/ PriceRises(s) \/ PaperEnters(s) \/ mark_paper_safety_flatten(s)
      PROVE  BookInv'
  <2>1. UNCHANGED <<ord, row, halted, stops, cards, now, p>>
    BY <1>3 DEF PriceFalls, PriceRises, PaperEnters, mark_paper_safety_flatten, broker, tables
  <2> QED BY <2>1, SameOrders, BookStill
<1>4. ASSUME NEW s \in Symbols, PaperExits(s) \/ SafetyFlattenFills(s) PROVE BookInv'
  <2>1. PICK how \in {"strategy", "safety"} : PaperEnds(s, how)
    BY <1>4 DEF PaperExits, SafetyFlattenFills
  <2>2. UNCHANGED <<tables, now, p>>
    BY <2>1 DEF PaperEnds
  <2> QED BY <1>1, <2>1, <2>2, PaperEndFacts, BookStill DEF tables
<1>5. CASE KillSwitchOn \/ KillSwitchOff
  <2>1. UNCHANGED <<ord, row, halted, stops, cards, now, p>>
    BY <1>5 DEF KillSwitchOn, KillSwitchOff, broker
  <2> QED BY <2>1, SameOrders, BookStill
<1>6. CASE ClearHalt
  <2>1. UNCHANGED <<ord, row, stops, cards, now, p>> /\ \A c \in Procs : p[c].pc = "free"
    BY <1>6 DEF ClearHalt, broker
  <2>2. Bound' /\ StopsFit' /\ \A o \in Orders : CardOK(cards[o], o)'
    BY <2>1, SameOrders, EvolvedBound, EvolvedStops, EvolvedCards DEF BookInv
  <2>3. Remembers(row.open_symbols)'
    <3> SUFFICES ASSUME NEW o \in Orders
                 PROVE  \/ ~Alive(o)' \/ Live(cards, o)'
                        \/ ord'[o].st = "open" /\ ord'[o].sym \in row'.open_symbols
      BY DEF Remembers
    <3>1. Alive(o) => Known(o)
      BY <1>6 DEF ClearHalt
    <3>2. cards[o].status \in {"none", "pending_fill", "open", "closed", "not_filled"}
      BY DEF TypeInv, TypeOK, Card
    <3>3. cards[o].status \in {"closed", "not_filled"} => ~Alive(o)
      BY DEF BookInv, CardOK
    <3> QED BY <2>1, <3>1, <3>2, <3>3 DEF Known, Live, Alive
  <2>4. \A c \in Procs : EntrySection(c)' /\ BackupSection(c)' /\ CardSection(c)'
    BY <2>1 DEF EntrySection, BackupSection, CardSection
  <2> QED BY <2>2, <2>3, <2>4 DEF BookInv
<1> QED BY <1>2, <1>3, <1>4, <1>5, <1>6 DEF External

LEMMA BookPass == ASSUME TypeInv, BookInv, Pass PROVE BookInv'
<1>1. UNCHANGED <<ord, row, halted, stops, cards, p>> /\ \A c \in Procs : p[c].pc = "free"
  BY DEF Pass, broker, tables
<1>2. Bound' /\ StopsFit' /\ \A o \in Orders : CardOK(cards[o], o)'
  BY <1>1, SameOrders, EvolvedBound, EvolvedStops, EvolvedCards DEF BookInv
<1>3. Remembers(row.open_symbols)'
  BY <1>1, RowRemembered DEF Remembers, Alive, Live, InFlight
<1>4. \A c \in Procs : EntrySection(c)' /\ BackupSection(c)' /\ CardSection(c)'
  BY <1>1 DEF EntrySection, BackupSection, CardSection
<1> QED BY <1>2, <1>3, <1>4 DEF BookInv

\* The symbol is neither in the row nor on a live card, and no order is in flight: no order of
\* the symbol is alive.
LEMMA BookMirror ==
  ASSUME TypeInv, BookInv, Serial, Serial', NEW c \in Procs, NEW s \in Symbols, Mirror(c, s)
  PROVE  BookInv'
<1>1. /\ Others(c) /\ p[c].pc = "free" /\ p'[c].pc = "ahead" /\ p'[c].s = s
      /\ p'[c].row.open_symbols = row.open_symbols
  BY MirrorFacts, TodaySymbols DEF Mirror
<1>2. UNCHANGED <<ord, row, halted, stops, cards, now>>
  BY DEF Mirror, broker, tables
<1>3. ~halted /\ s \notin effective_open_symbols(StateToday)
  BY DEF Mirror, Blocked
<1>4. \A o \in Orders, d \in Procs : ~InFlight(d, o)
  BY <1>1, OthersFree DEF InFlight
<1>5. s \notin row.open_symbols /\ NoLiveCard(s)
  BY <1>3, TodaySymbols DEF effective_open_symbols, NoLiveCard
<1>6. NoneAlive(s)
  <2> SUFFICES ASSUME NEW o \in Orders, Alive(o), ord[o].sym = s PROVE FALSE
    BY DEF NoneAlive
  <2>1. Live(cards, o)
    BY <1>3, <1>4, <1>5, RowRemembered DEF Remembers
  <2>2. cards[o].sym = s
    BY <2>1 DEF Live, BookInv, CardOK
  <2> QED BY <1>5, <2>1, <2>2 DEF NoLiveCard
<1>7. EntrySection(c)'
  <2>1. NoneAlive(s)' /\ NoLiveCard(s)'
    BY <1>2, <1>5, <1>6 DEF NoneAlive, NoLiveCard, Alive, Live
  <2>2. Remembers(row.open_symbols)
    BY RowRemembered
  <2>3. Remembers(p[c].row.open_symbols)'
    BY <1>1, <1>2, <1>3, <1>4, <2>2 DEF Remembers, Alive, Live
  <2> QED BY <1>1, <2>1, <2>3 DEF EntrySection, NoneAlive, NoLiveCard
<1>8. BackupSection(c)' /\ CardSection(c)'
  BY <1>1 DEF BackupSection, CardSection
<1>9. row'.open_symbols = row.open_symbols /\ Remembers(row.open_symbols)
  BY <1>2, RowRemembered
<1> QED BY <1>1, <1>2, <1>7, <1>8, <1>9, SameOrders, BookMoves


LEMMA RemembersMore == ASSUME NEW a, NEW b, a \subseteq b, Remembers(a) PROVE Remembers(b)
BY DEF Remembers

LEMMA BookWriteAhead ==
  ASSUME TypeInv, BookInv, Serial, Serial', NEW c \in Procs, WriteAhead(c)
  PROVE  BookInv'
<1> DEFINE old == p[c].row.open_symbols
           new == p[c].row.open_symbols \cup {p[c].s}
<1>1. /\ Others(c) /\ p[c].pc = "ahead" /\ p'[c].pc = "remember" /\ p'[c].s = p[c].s
      /\ p'[c].before.open_symbols = old /\ p'[c].row.open_symbols = new /\ row'.open_symbols = new
  BY WriteAheadFacts DEF WriteAhead
<1>2. UNCHANGED <<ord, halted, stops, cards, now>>
  BY DEF WriteAhead, broker
<1>3. NoneAlive(p[c].s) /\ NoLiveCard(p[c].s) /\ Remembers(old)
  BY <1>1 DEF BookInv, EntrySection
<1>4. Remembers(new)
  BY <1>3, RemembersMore
<1> HIDE DEF old, new
<1>5. \A o \in Orders : (\E d \in Procs : InFlight(d, o)) => (\E d \in Procs : InFlight(d, o))'
  BY <1>1, <1>2, SameOrders, FlightsKept
<1>6. EntrySection(c)'
  <2>1. NoneAlive(p[c].s)' /\ NoLiveCard(p[c].s)'
    BY <1>1, <1>2, <1>3 DEF NoneAlive, NoLiveCard, Alive, Live
  <2>2. Remembers(p[c].row.open_symbols)'
    BY <1>1, <1>2, <1>4, <1>5, SameOrders, EvolvedRemembers DEF Remembers
  <2>3. Remembers(p[c].before.open_symbols)'
    BY <1>1, <1>2, <1>3, <1>5, SameOrders, EvolvedRemembers DEF Remembers
  <2> QED BY <1>1, <2>1, <2>2, <2>3 DEF EntrySection
<1>7. BackupSection(c)' /\ CardSection(c)'
  BY <1>1 DEF BackupSection, CardSection
<1> QED BY <1>1, <1>2, <1>4, <1>6, <1>7, SameOrders, BookMoves

\* Writing or forgetting the stop of a symbol without a live order.
LEMMA StopMoves ==
  ASSUME TypeInv, BookInv, Serial, Serial', NEW c \in Procs, Others(c), p[c].pc \in {"remember", "forget"},
         UNCHANGED <<ord, row, halted, cards, now>>, NEW stop, stops' = [stops EXCEPT ![p[c].s] = stop],
         EntrySection(c)', BackupSection(c)', CardSection(c)'
  PROVE  BookInv'
<1>1. NoneAlive(p[c].s)
  BY DEF BookInv, EntrySection
<1>2. StopsFit'
  BY <1>1, SameOrders, Evolved DEF BookInv, StopsFit, NoneAlive, TypeInv, TypeOK
<1>3. Bound' /\ \A o \in Orders : CardOK(cards[o], o)'
  BY SameOrders, EvolvedBound, EvolvedCards DEF BookInv
<1>4. \A o \in Orders : (\E d \in Procs : InFlight(d, o)) => (\E d \in Procs : InFlight(d, o))'
  BY SameOrders, FlightsKept
<1>5. Remembers(row.open_symbols)'
  <2> DEFINE r == row.open_symbols
  <2>1. Remembers(r) /\ row'.open_symbols = r
    BY DEF BookInv
  <2> HIDE DEF r
  <2> QED BY <1>4, <2>1, SameOrders, EvolvedRemembers DEF Remembers
<1> QED BY <1>2, <1>3, <1>5, OneSection

LEMMA BookRememberStop ==
  ASSUME TypeInv, BookInv, Serial, Serial', NEW c \in Procs, remember_stop(c)
  PROVE  BookInv'
<1>1. /\ Others(c) /\ p[c].pc = "remember" /\ p'[c].pc = "post" /\ SameEntry(p[c], p'[c])
  BY GotoFacts DEF remember_stop, Sections, TypeInv, TypeOK
<1>2. /\ UNCHANGED <<ord, row, halted, cards, now>>
      /\ stops' = [stops EXCEPT ![p[c].s] = [at |-> now, seen |-> FALSE]]
  BY DEF remember_stop, broker
<1> DEFINE r == p[c].row.open_symbols
           b == p[c].before.open_symbols
<1>3. NoneAlive(p[c].s) /\ NoLiveCard(p[c].s) /\ Remembers(r) /\ Remembers(b)
  BY <1>1 DEF BookInv, EntrySection
<1>4. p'[c].s = p[c].s /\ p'[c].row.open_symbols = r /\ p'[c].before.open_symbols = b
  BY <1>1 DEF SameEntry
<1> HIDE DEF r, b
<1>5. \A o \in Orders : (\E d \in Procs : InFlight(d, o)) => (\E d \in Procs : InFlight(d, o))'
  BY <1>1, <1>2, SameOrders, FlightsKept
<1>6. EntrySection(c)'
  <2>1. NoneAlive(p[c].s)' /\ NoLiveCard(p[c].s)'
    BY <1>2, <1>3, <1>4 DEF NoneAlive, NoLiveCard, Alive, Live
  <2>2. Remembers(p[c].row.open_symbols)'
    BY <1>2, <1>3, <1>4, <1>5, SameOrders, EvolvedRemembers DEF Remembers
  <2>3. Remembers(p[c].before.open_symbols)'
    BY <1>2, <1>3, <1>4, <1>5, SameOrders, EvolvedRemembers DEF Remembers
  <2>4. stops'[p'[c].s] = [at |-> now', seen |-> FALSE]
    BY <1>2, <1>4, SectionTypes DEF TypeInv, TypeOK
  <2> QED BY <1>1, <1>4, <2>1, <2>2, <2>3, <2>4 DEF EntrySection
<1>7. BackupSection(c)' /\ CardSection(c)'
  BY <1>1 DEF BackupSection, CardSection
<1> QED BY <1>1, <1>2, <1>6, <1>7, StopMoves

LEMMA BookForgetStop ==
  ASSUME TypeInv, BookInv, Serial, Serial', NEW c \in Procs, forget_stop(c)
  PROVE  BookInv'
<1>1. Others(c) /\ p[c].pc = "forget" /\ p'[c].pc \in {"halt", "free"}
  BY GotoFacts, GotoFree, FreeTyped DEF forget_stop, Sections, TypeInv, TypeOK
<1>2. UNCHANGED <<ord, row, halted, cards, now>> /\ stops' = [stops EXCEPT ![p[c].s] = NoStop]
  BY DEF forget_stop, broker
<1>3. EntrySection(c)' /\ BackupSection(c)' /\ CardSection(c)'
  BY <1>1 DEF EntrySection, BackupSection, CardSection
<1> QED BY <1>1, <1>2, <1>3, StopMoves


\* The order that eToro takes: the symbol had none, its stop is on record, and the section
\* remembers it until it has a card or the mirror is halted.
LEMMA BookAccept ==
  ASSUME TypeInv, BookInv, Serial, Serial', NEW c \in Procs, Others(c), p[c].pc = "post", Accept(c),
         UNCHANGED <<row, halted, stops, cards, now>>, p'[c].s = p[c].s, p'[c].row = p[c].row,
         p'[c].pc = "halt" \/ (p'[c].pc = "confirm" /\ p'[c].o = NextOrder)
  PROVE  BookInv'
<1>0. PICK n \in Orders : n = NextOrder
  BY AcceptFacts
<1>s. PICK s : s = p[c].s
  OBVIOUS
<1>r. PICK r : r = p[c].row.open_symbols
  OBVIOUS
<1>1. /\ n \in Orders /\ ord[n].st = "none"
      /\ ord'[n].st = "queued" /\ ord'[n].sym = s /\ ord'[n].at = now
      /\ \A q \in Orders : q # n => ord'[q] = ord[q]
  BY <1>0, <1>s, AcceptFacts
<1>2. /\ NoneAlive(s) /\ NoLiveCard(s) /\ stops[s] = [at |-> now, seen |-> FALSE] /\ Remembers(r)
  BY <1>s, <1>r DEF BookInv, EntrySection
<1>3. cards[n].status = "none" /\ ~Live(cards, n)
  BY <1>1 DEF BookInv, CardOK, Live
<1>4. p'[c].row.open_symbols = r /\ p'[c].s = s /\ (p'[c].pc = "confirm" => p'[c].o = n)
  BY <1>0, <1>s, <1>r
<1>5. \A q \in Orders : q # n => (Alive(q)' <=> Alive(q))
  BY <1>1 DEF Alive
<1>6. \A q \in Orders : q # n /\ Alive(q) => ord[q].sym # s
  BY <1>2 DEF NoneAlive
<1>7. \A q \in Orders : Live(cards, q)' <=> Live(cards, q)
  BY DEF Live
<1>8. \A q \in Orders : Live(cards, q) => q # n /\ cards[q].sym # s
  BY <1>2, <1>3 DEF NoLiveCard
<1>9. now \in Nat
  BY DayType DEF TypeInv, TypeOK
<1>10. InFlight(c, n)'
  BY <1>1, <1>4 DEF InFlight
<1>11. \A q \in Orders, d \in Procs : ~InFlight(d, q)
  BY OthersFree DEF InFlight
<1>12. Remembers(row.open_symbols)
  BY RowRemembered
<1>13. Bound'
  <2>1. \A o, q \in Orders : Alive(o)' /\ Alive(q)' /\ ord'[o].sym = ord'[q].sym => o = q
    BY <1>1, <1>5, <1>6 DEF BookInv, Bound
  <2>2. \A o, q \in Orders : Live(cards, o)' /\ Alive(q)' /\ cards'[o].sym = ord'[q].sym => o = q
    BY <1>1, <1>5, <1>7, <1>8 DEF BookInv, Bound
  <2>3. \A o, q \in Orders : Live(cards, o)' /\ Live(cards, q)' /\ cards'[o].sym = cards'[q].sym => o = q
    BY <1>7 DEF BookInv, Bound
  <2> QED BY <2>1, <2>2, <2>3 DEF Bound
<1>14. StopsFit'
  <2> SUFFICES ASSUME NEW o \in Orders, Alive(o)'
               PROVE  /\ stops[ord'[o].sym] # NoStop /\ stops[ord'[o].sym].at = ord'[o].at
                      /\ stops[ord'[o].sym].seen => ord'[o].st = "open"
    BY DEF StopsFit
  <2>1. CASE o = n
    BY <1>1, <1>2, <1>9, <2>1 DEF NoStop, Never
  <2>2. CASE o # n
    BY <1>1, <1>5, <2>2 DEF BookInv, StopsFit
  <2> QED BY <2>1, <2>2
<1>15. \A o \in Orders : CardOK(cards[o], o)'
  <2> TAKE o \in Orders
  <2>1. CASE o = n
    BY <1>3, <2>1 DEF CardOK
  <2>2. CASE o # n
    BY <1>1, <1>5, <2>2 DEF BookInv, CardOK
  <2> QED BY <2>1, <2>2
<1>16. Remembers(row.open_symbols)'
  BY <1>1, <1>5, <1>7, <1>10, <1>11, <1>12 DEF Remembers
<1>17. EntrySection(c)'
  <2>1. Remembers(p[c].row.open_symbols)'
    BY <1>1, <1>2, <1>4, <1>5, <1>7, <1>10, <1>11 DEF Remembers
  <2>2. NoLiveCard(p[c].s)'
    BY <1>2, <1>4, <1>7 DEF NoLiveCard
  <2>3. p'[c].pc = "confirm" =>
          /\ ord'[p'[c].o].st # "none" /\ ord'[p'[c].o].sym = p'[c].s /\ ord'[p'[c].o].at = now'
          /\ \A o \in Orders : Alive(o)' /\ ord'[o].sym = p'[c].s => o = p'[c].o
    BY <1>1, <1>4, <1>5, <1>6
  <2> QED BY <2>1, <2>2, <2>3 DEF EntrySection
<1>18. BackupSection(c)' /\ CardSection(c)'
  BY DEF BackupSection, CardSection
<1> QED BY <1>13, <1>14, <1>15, <1>16, <1>17, <1>18, OneSection

LEMMA BookPostOrder ==
  ASSUME TypeInv, BookInv, Serial, Serial', NEW c \in Procs, PostOrder(c)
  PROVE  BookInv'
<1>1. UNCHANGED <<row, halted, stops, cards, now>> /\ p[c].pc = "post"
  BY DEF PostOrder, tables
<1>2. /\ Others(c) /\ p'[c].s = p[c].s /\ p'[c].row = p[c].row /\ p'[c].before = p[c].before
      /\ \/ p'[c].pc = "confirm" /\ Accept(c) /\ p'[c].o = NextOrder
         \/ p'[c].pc = "halt" /\ (Accept(c) \/ UNCHANGED ord)
         \/ p'[c].pc = "undo" /\ UNCHANGED ord
  BY PostFacts
<1>3. CASE (p'[c].pc = "confirm" /\ Accept(c) /\ p'[c].o = NextOrder) \/ (p'[c].pc = "halt" /\ Accept(c))
  <2>1. Accept(c)
    BY <1>3
  <2>2. p'[c].pc = "halt" \/ (p'[c].pc = "confirm" /\ p'[c].o = NextOrder)
    BY <1>3
  <2>3. Others(c) /\ p'[c].s = p[c].s /\ p'[c].row = p[c].row
    BY <1>2
  <2> QED BY <1>1, <2>1, <2>2, <2>3, BookAccept
<1>4. CASE UNCHANGED ord /\ (p'[c].pc = "halt" \/ p'[c].pc = "undo")
  <2> DEFINE b == p[c].before.open_symbols
  <2>1. NoneAlive(p[c].s) /\ Remembers(b) /\ p'[c].before.open_symbols = b
    BY <1>1, <1>2 DEF BookInv, EntrySection
  <2> HIDE DEF b
  <2>2. \A o \in Orders : (\E d \in Procs : InFlight(d, o)) => (\E d \in Procs : InFlight(d, o))'
    BY <1>1, <1>2, <1>4, SameOrders, FlightsKept
  <2>3. NoneAlive(p[c].s)'
    BY <1>2, <1>4, <2>1 DEF NoneAlive, Alive
  <2>4. Remembers(p[c].before.open_symbols)'
    BY <1>1, <1>4, <2>1, <2>2, SameOrders, EvolvedRemembers DEF Remembers
  <2>5. EntrySection(c)' /\ BackupSection(c)' /\ CardSection(c)'
    BY <1>4, <2>3, <2>4 DEF EntrySection, BackupSection, CardSection
  <2> QED BY <1>1, <1>2, <1>4, <2>5, SameOrders, RowRemembered, BookMoves
<1> QED BY <1>2, <1>3, <1>4


LEMMA BookUndo ==
  ASSUME TypeInv, BookInv, Serial, Serial', NEW c \in Procs, Undo(c)
  PROVE  BookInv'
<1>1. Others(c) /\ p[c].pc = "undo" /\ p'[c].pc = "forget" /\ SameEntry(p[c], p'[c])
  BY GotoFacts DEF Undo, Sections, TypeInv, TypeOK
<1>2. UNCHANGED <<ord, halted, stops, cards, now>> /\ row' = p[c].before
  BY DEF Undo, broker
<1>3. NoneAlive(p[c].s) /\ Remembers(p[c].before.open_symbols)
  BY <1>1 DEF BookInv, EntrySection
<1>4. NoneAlive(p[c].s)'
  BY <1>1, <1>2, <1>3 DEF NoneAlive, Alive, SameEntry
<1>5. EntrySection(c)' /\ BackupSection(c)' /\ CardSection(c)'
  BY <1>1, <1>4 DEF EntrySection, BackupSection, CardSection
<1> QED BY <1>1, <1>2, <1>3, <1>5, SameOrders, BookMoves

LEMMA BookHalt ==
  ASSUME TypeInv, BookInv, Serial, Serial', NEW c \in Procs, Halt(c)
  PROVE  BookInv'
<1>1. Others(c) /\ p[c].pc = "halt" /\ p'[c] = Free
  BY GotoFree DEF Halt, TypeInv, TypeOK
<1>2. UNCHANGED <<ord, row, stops, cards, now>> /\ halted'
  BY DEF Halt, broker
<1> QED BY <1>1, <1>2, SameOrders, FreeSections, RowRemembered, BookMoves

LEMMA BookConfirm ==
  ASSUME TypeInv, BookInv, Serial, Serial', NEW c \in Procs, Confirm(c)
  PROVE  BookInv'
<1>1. Others(c) /\ p[c].pc = "confirm" /\ p'[c].pc = "record" /\ p'[c].s = p[c].s /\ p'[c].o = p[c].o
  BY GotoFacts DEF Confirm, Sections, TypeInv, TypeOK, SameEntry
<1>2. UNCHANGED <<ord, halted, stops, cards, now>> /\ row' = p[c].row
  BY DEF Confirm, broker
<1>3. /\ NoLiveCard(p[c].s) /\ Remembers(p[c].row.open_symbols)
      /\ ord[p[c].o].st # "none" /\ ord[p[c].o].sym = p[c].s /\ ord[p[c].o].at = now
      /\ \A o \in Orders : Alive(o) /\ ord[o].sym = p[c].s => o = p[c].o
  BY <1>1 DEF BookInv, EntrySection
<1>4. NoLiveCard(p[c].s)'
  BY <1>1, <1>2, <1>3 DEF NoLiveCard, Live
<1>5. EntrySection(c)'
  BY <1>1, <1>2, <1>3, <1>4 DEF EntrySection, Alive
<1>6. BackupSection(c)' /\ CardSection(c)'
  BY <1>1 DEF BackupSection, CardSection
<1> QED BY <1>1, <1>2, <1>3, <1>5, <1>6, SameOrders, BookMoves

\* The new card is the only live one of its symbol, and its order the only live order.
LEMMA BookRecord ==
  ASSUME TypeInv, BookInv, Serial, Serial', NEW c \in Procs, record_entry(c)
  PROVE  BookInv'
<1>0. PICK n \in Orders : n = p[c].o
  BY SectionTypes
<1>s. PICK s : s = p[c].s
  OBVIOUS
<1>1. /\ Others(c) /\ p[c].pc = "record" /\ p'[c] = Free
      /\ \A q \in Orders : q # n => cards'[q] = cards[q]
      /\ cards'[n].status = "pending_fill" /\ cards'[n].sym = s /\ cards'[n].at = now /\ cards'[n].ids = {}
  BY <1>0, <1>s, RecordFacts DEF record_entry
<1>2. UNCHANGED <<ord, row, halted, stops, now>>
  BY DEF record_entry, broker
<1>3. /\ NoLiveCard(s) /\ ord[n].st # "none" /\ ord[n].sym = s /\ ord[n].at = now
      /\ \A o \in Orders : Alive(o) /\ ord[o].sym = s => o = n
  BY <1>0, <1>s, <1>1 DEF BookInv, EntrySection
<1>4. \A q \in Orders : (Live(cards, q)' <=> q = n \/ Live(cards, q)) /\ (Alive(q)' <=> Alive(q))
  BY <1>1, <1>2 DEF Live, Alive
<1>5. \A q \in Orders : Live(cards, q) => cards[q].sym # s
  BY <1>3 DEF NoLiveCard
<1>6. Bound'
  <2>1. \A o, q \in Orders : Alive(o)' /\ Alive(q)' /\ ord'[o].sym = ord'[q].sym => o = q
    BY <1>2, <1>4 DEF BookInv, Bound
  <2>2. \A o, q \in Orders : Live(cards, o)' /\ Alive(q)' /\ cards'[o].sym = ord'[q].sym => o = q
    BY <1>1, <1>2, <1>3, <1>4 DEF BookInv, Bound
  <2>3. \A o, q \in Orders : Live(cards, o)' /\ Live(cards, q)' /\ cards'[o].sym = cards'[q].sym => o = q
    BY <1>1, <1>4, <1>5 DEF BookInv, Bound
  <2> QED BY <2>1, <2>2, <2>3 DEF Bound
<1>7. StopsFit'
  BY <1>2, SameOrders, EvolvedStops DEF BookInv
<1>8. \A o \in Orders : CardOK(cards[o], o)'
  <2> TAKE o \in Orders
  <2>1. CASE o = n
    BY <1>1, <1>2, <1>3, <2>1 DEF CardOK
  <2>2. CASE o # n
    BY <1>1, <1>2, <1>4, <2>2 DEF BookInv, CardOK
  <2> QED BY <2>1, <2>2
<1>9. Remembers(row.open_symbols)'
  <2>1. \A q \in Orders, d \in Procs : InFlight(d, q) => q = n
    BY <1>0, <1>1, OthersFree DEF InFlight
  <2> QED BY <1>2, <1>4, <2>1, RowRemembered DEF Remembers
<1> QED BY <1>1, <1>6, <1>7, <1>8, <1>9, FreeSections, OneSection

\* A section ends at a crash or an exception: its order has a card, or is not at eToro.
LEMMA BookEnds ==
  ASSUME TypeInv, BookInv, Serial, Serial', NEW c \in Procs, p[c].pc # "free", Ends(c), CardsWritten'
  PROVE  BookInv'
<1>1. /\ UNCHANGED <<row, halted, stops, cards, now>> /\ p'[c] = Free /\ Others(c)
      /\ UNCHANGED ord /\ Unrecorded(c) = {} /\ Evolves
  BY EndsFacts DEF Ends, tables, CardsWritten
<1>2. Bound' /\ StopsFit' /\ \A o \in Orders : CardOK(cards[o], o)'
  BY <1>1, EvolvedBound, EvolvedStops, EvolvedCards DEF BookInv
<1>3. \A o \in Orders : Alive(o) /\ InFlight(c, o) => Live(cards, o)
  <2> TAKE o \in Orders
  <2> SUFFICES ASSUME Alive(o), InFlight(c, o) PROVE Live(cards, o)
    OBVIOUS
  <2>1. p[c].pc \in {"halt", "confirm", "record"} /\ ord[o].sym = p[c].s
    BY DEF InFlight, BookInv, EntrySection
  <2>2. cards[o].status # "none"
    BY <1>1, <2>1 DEF Unrecorded
  <2>3. cards[o] \in Card /\ CardOK(cards[o], o)
    BY DEF TypeInv, TypeOK, BookInv
  <2> QED BY <2>2, <2>3 DEF Card, CardOK, Live
<1>4. Remembers(row.open_symbols)'
  <2> DEFINE r == row.open_symbols
  <2>1. Remembers(r) /\ row'.open_symbols = r
    BY <1>1 DEF BookInv
  <2> HIDE DEF r
  <2>2. \A o \in Orders, d \in Procs : Alive(o) /\ InFlight(d, o) => Live(cards, o) \/ InFlight(d, o)'
    <3> TAKE o \in Orders, d \in Procs
    <3>1. CASE d = c
      BY <1>3, <3>1
    <3>2. CASE d # c
      BY <1>1, <3>2 DEF InFlight, Others
    <3> QED BY <3>1, <3>2
  <2>3. \A o \in Orders : Alive(o)' = Alive(o) /\ Live(cards, o)' = Live(cards, o) /\ ord'[o] = ord[o]
    BY <1>1 DEF Alive, Live
  <2> QED BY <1>1, <2>1, <2>2, <2>3 DEF Remembers
<1> QED BY <1>1, <1>2, <1>4, FreeSections, OneSection

LEMMA BookCopy ==
  ASSUME TypeInv, BookInv, Serial, Serial', CardsWritten', NEW c \in Procs, Copy(c)
  PROVE  BookInv'
<1>1. ASSUME NEW s \in Symbols, MirrorBlocked(c, s) PROVE BookInv'
  <2>1. UNCHANGED <<ord, row, halted, stops, cards, now, p>>
    BY <1>1 DEF MirrorBlocked, Refuse, broker, tables
  <2> QED BY <2>1, SameOrders, BookStill
<1> QED BY <1>1, BookMirror, BookWriteAhead, BookRememberStop, BookPostOrder, BookUndo, BookForgetStop,
           BookHalt, BookConfirm, BookRecord, BookEnds DEF Copy, CopyRaises


LEMMA BookReconcile ==
  ASSUME TypeInv, BookInv, Serial, Serial', NEW c \in Procs, Reconcile(c)
  PROVE  BookInv'
<1>1. /\ Others(c) /\ p[c].pc = "free" /\ p'[c].pc = "reconcile"
      /\ p'[c].row.open_symbols = {ord[o].sym : o \in Positions}
  BY ReconcileFacts DEF Reconcile
<1>2. UNCHANGED <<ord, row, halted, stops, cards, now>>
  BY DEF Reconcile, broker
<1>3. \A o \in Orders, d \in Procs : ~InFlight(d, o)
  BY <1>1, OthersFree DEF InFlight
<1>4. Remembers(p[c].row.open_symbols)'
  BY <1>1, <1>2, <1>3, RowRemembered DEF Remembers, Alive, Live, Positions
<1>5. EntrySection(c)' /\ BackupSection(c)' /\ CardSection(c)'
  BY <1>1, <1>4 DEF EntrySection, BackupSection, CardSection
<1> QED BY <1>1, <1>2, <1>5, SameOrders, RowRemembered, BookMoves

LEMMA BookClose ==
  ASSUME TypeInv, BookInv, Serial, Serial', NEW c \in Procs, NEW o \in Orders, CloseUnprotected(c, o)
  PROVE  BookInv'
<1>1. /\ Others(c) /\ p[c].pc = "reconcile" /\ p'[c].pc = "reconcile" /\ SameEntry(p[c], p'[c])
      /\ Evolves /\ (halted => halted')
  BY CloseFacts DEF CloseUnprotected
<1>2. UNCHANGED <<row, stops, cards, now>>
  BY DEF CloseUnprotected
<1>3. \A q \in Orders : (\E d \in Procs : InFlight(d, q)) => (\E d \in Procs : InFlight(d, q))'
  BY <1>1, FlightsKept
<1>4. EntrySection(c)'
  BY <1>1, <1>2, <1>3, SectionTypes, EntryKept DEF BookInv
<1>5. BackupSection(c)' /\ CardSection(c)'
  BY <1>1 DEF BackupSection, CardSection
<1> QED BY <1>1, <1>2, <1>4, <1>5, RowRemembered, BookMoves

LEMMA BookReconcileSave ==
  ASSUME TypeInv, BookInv, Serial, Serial', NEW c \in Procs, ReconcileSave(c)
  PROVE  BookInv'
<1>1. Others(c) /\ p[c].pc = "reconcile" /\ p'[c] = Free
  BY GotoFree DEF ReconcileSave, TypeInv, TypeOK
<1>2. UNCHANGED <<ord, halted, stops, cards, now>> /\ row' = p[c].row
  BY DEF ReconcileSave, broker
<1>3. Remembers(p[c].row.open_symbols)
  BY <1>1 DEF BookInv, EntrySection
<1> QED BY <1>1, <1>2, <1>3, SameOrders, FreeSections, BookMoves

LEMMA BookMaintain ==
  ASSUME TypeInv, BookInv, Serial, Serial', NEW c \in Procs, Maintain(c)
  PROVE  BookInv'
<1>1. CASE ReconcileReadFails(c)
  <2>1. UNCHANGED <<ord, row, stops, cards, now, p>> /\ (halted => halted')
    BY <1>1 DEF ReconcileReadFails, broker
  <2> QED BY <2>1, SameOrders, BookStill
<1> QED BY <1>1, BookReconcile, BookClose, BookReconcileSave DEF Maintain

\* A stop is to be dropped when its position is gone, or was not seen for a day: either way no
\* order of the symbol is alive.
LEMMA BookCheckStops ==
  ASSUME TypeInv, BookInv, Serial, Serial', DecidedInADay, NEW c \in Procs, CheckBackupStops(c)
  PROVE  BookInv'
<1>1. /\ Others(c) /\ p[c].pc = "free" /\ p'[c].pc = "backup" /\ p'[c].pos = Positions
      /\ p'[c].todo \subseteq SymbolsOf(Positions)
      /\ \A s \in p'[c].drop : /\ s \in Symbols \ SymbolsOf(Positions)
                               /\ stops[s].seen \/ now - stops[s].at >= Hours24
  BY CheckFacts DEF CheckBackupStops, Idle
<1>2. UNCHANGED <<ord, row, halted, stops, cards, now>>
  BY DEF CheckBackupStops, broker, tables
<1>3. ASSUME NEW o \in Orders, Alive(o), ord[o].sym \in SymbolsOf(Positions) PROVE o \in Positions
  <2>1. PICK q \in Positions : ord[q].sym = ord[o].sym
    BY <1>3 DEF SymbolsOf
  <2>2. q \in Orders /\ Alive(q)
    BY DEF Positions, Alive
  <2> QED BY <1>3, <2>1, <2>2 DEF BookInv, Bound
<1>4. ASSUME NEW s \in p'[c].drop PROVE NoneAlive(s)
  <2> SUFFICES ASSUME NEW o \in Orders, Alive(o), ord[o].sym = s PROVE FALSE
    BY DEF NoneAlive
  <2>1. ord[o].st # "open"
    BY <1>1, <1>4 DEF SymbolsOf, Positions
  <2>2. ord[o].st = "queued" /\ ~Aged(o)
    BY <2>1 DEF Alive, DecidedInADay
  <2>3. stops[s].at = ord[o].at /\ ~stops[s].seen
    BY <2>1 DEF BookInv, StopsFit
  <2> QED BY <1>1, <1>4, <2>2, <2>3 DEF Aged
<1>5. EntrySection(c)' /\ CardSection(c)'
  BY <1>1 DEF EntrySection, CardSection
<1>6. BackupSection(c)'
  <2>1. SymbolsOf(p[c].pos)' = SymbolsOf(Positions)
    BY <1>1, <1>2 DEF SymbolsOf
  <2>2. \A o \in p'[c].pos : ord'[o].st \in {"open", "closed"}
    BY <1>1, <1>2 DEF Positions
  <2>3. \A o \in Orders : Alive(o)' /\ ord'[o].sym \in SymbolsOf(p[c].pos)' => o \in p'[c].pos
    BY <1>1, <1>2, <1>3, <2>1 DEF Alive
  <2>4. \A s \in p'[c].drop : NoneAlive(s)'
    BY <1>2, <1>4 DEF NoneAlive, Alive
  <2> QED BY <1>1, <2>1, <2>2, <2>3, <2>4 DEF BackupSection
<1> QED BY <1>1, <1>2, <1>5, <1>6, SameOrders, RowRemembered, BookMoves

\* What the pass closed is no more: its positions were all the live orders of the symbol.
LEMMA BookBackupStop ==
  ASSUME TypeInv, BookInv, Serial, Serial', NEW c \in Procs, NEW s \in Symbols, BackupStop(c, s)
  PROVE  BookInv'
<1> DEFINE mine == {o \in p[c].pos : ord[o].sym = s}
<1>1. /\ Others(c) /\ p[c].pc = "backup" /\ p'[c].pc = "backup" /\ p'[c].pos = p[c].pos
      /\ s \in p[c].todo /\ p'[c].todo \subseteq p[c].todo /\ (halted => halted')
      /\ \/ p'[c].drop = p[c].drop /\ UNCHANGED ord
         \/ p'[c].drop = p[c].drop \cup {s} /\ ord' = ClosedBy(mine, "bot")
  BY BackupStopFacts
<1>2. UNCHANGED <<row, stops, cards, now>> /\ ord \in [Orders -> Order]
  BY DEF BackupStop, TypeInv, TypeOK
<1>3. BackupSection(c)
  BY DEF BookInv
<1>4. Evolves
  BY <1>1, <1>2, SameOrders, ClosedFacts
<1>5. ASSUME ord' = ClosedBy(mine, "bot") PROVE NoneAlive(s)'
  <2> SUFFICES ASSUME NEW o \in Orders, Alive(o)', ord'[o].sym = s PROVE FALSE
    BY DEF NoneAlive
  <2>1. Alive(o) /\ ord[o].sym = s
    BY <1>4, Evolved
  <2>2. o \in mine /\ ord[o].st \in {"open", "closed"}
    BY <1>1, <1>3, <2>1 DEF BackupSection
  <2>3. ord'[o].st # "open"
    BY <1>2, <1>5, <2>2, ClosedFacts
  <2> QED BY <1>4, <2>2, <2>3, Evolved DEF Alive
<1>6. BackupSection(c)'
  BY <1>1, <1>3, <1>4, <1>5, BackupKept
<1>7. EntrySection(c)' /\ CardSection(c)'
  BY <1>1 DEF EntrySection, CardSection
<1> QED BY <1>1, <1>2, <1>4, <1>6, <1>7, RowRemembered, BookMoves


LEMMA BookBackupSave ==
  ASSUME TypeInv, BookInv, Serial, Serial', NEW c \in Procs, BackupSave(c)
  PROVE  BookInv'
<1>1. /\ Others(c) /\ p[c].pc = "backup" /\ p'[c] = Free
      /\ \A s \in Symbols :
           \/ s \in p[c].drop /\ stops'[s] = NoStop
           \/ s \notin p[c].drop /\ stops'[s] = stops[s]
           \/ /\ s \notin p[c].drop /\ s \in SymbolsOf(p[c].pos)
              /\ stops'[s].at = stops[s].at /\ stops'[s].seen /\ stops'[s] # NoStop
  BY BackupSaveFacts DEF BackupSave
<1>2. UNCHANGED <<ord, row, halted, cards, now>>
  BY DEF BackupSave, broker
<1>3. BackupSection(c)
  BY DEF BookInv
<1>4. StopsFit'
  <2> SUFFICES ASSUME NEW o \in Orders, Alive(o)
               PROVE  /\ stops'[ord[o].sym] # NoStop /\ stops'[ord[o].sym].at = ord[o].at
                      /\ stops'[ord[o].sym].seen => ord[o].st = "open"
    BY <1>2 DEF StopsFit, Alive
  <2>1. ord[o].sym \in Symbols
    BY DEF TypeInv, TypeOK, Order
  <2>2. ord[o].sym \notin p[c].drop
    BY <1>1, <1>3 DEF BackupSection, NoneAlive
  <2>3. ord[o].sym \in SymbolsOf(p[c].pos) => ord[o].st = "open"
    BY <1>1, <1>3 DEF BackupSection, Alive
  <2> QED BY <1>1, <2>1, <2>2, <2>3 DEF BookInv, StopsFit
<1>5. Bound' /\ \A o \in Orders : CardOK(cards[o], o)'
  BY <1>2, SameOrders, EvolvedBound, EvolvedCards DEF BookInv
<1>6. \A o \in Orders : (\E d \in Procs : InFlight(d, o)) => (\E d \in Procs : InFlight(d, o))'
  BY <1>1, <1>2, SameOrders, FlightsKept
<1>7. Remembers(row.open_symbols)'
  BY <1>2, <1>6, RowRemembered DEF Remembers, Alive, Live
<1> QED BY <1>1, <1>4, <1>5, <1>7, FreeSections, OneSection

LEMMA BookCopyRead ==
  ASSUME TypeInv, BookInv, Serial, Serial', NEW c \in Procs, CopyPaperExits(c)
  PROVE  BookInv'
<1>1. /\ Others(c) /\ p[c].pc = "free" /\ p'[c].pc = "exit"
  BY CopyReadFacts DEF CopyPaperExits, Idle
<1>2. PICK held, skip :
        /\ p'[c].cards = [o \in Orders |-> CountFlat(o, held, skip)]
        /\ p'[c].due = {o \in Orders : /\ Following(o) /\ cards[o].sym \notin held \cup skip
                                       /\ p'[c].cards[o].flat >= FlatReads}
  BY CopyReadFacts
<1>3. UNCHANGED <<ord, row, halted, stops, cards, now>> /\ cards \in [Orders -> Card]
  BY DEF CopyPaperExits, broker, tables, TypeInv, TypeOK
<1>4. \A o \in Orders :
        LET n == p'[c].cards[o]
        IN  \/ n = NoCard
            \/ /\ cards[o].status = "open" /\ n.status = "open"
               /\ n.sym = cards[o].sym /\ n.at = cards[o].at /\ n.ids = cards[o].ids
  <2> TAKE o \in Orders
  <2>1. p'[c].cards[o] = CountFlat(o, held, skip)
    BY <1>2
  <2> QED BY <1>3, <2>1, CountFlatFacts
<1>5. NoCard.status = "none" /\ NoCard.flat = 0
  BY DEF NoCard
<1>6. \A o \in Orders : CardOK(p[c].cards[o], o)'
  BY <1>3, <1>4, <1>5 DEF BookInv, CardOK, Alive
<1>7. \A o \in Orders : p'[c].cards[o] # NoCard => p'[c].cards[o].status # "none" /\ Live(cards, o)'
  BY <1>3, <1>4 DEF Live
<1>8. \A o \in p'[c].due : o \in Orders /\ p'[c].cards[o].status = "open"
  BY <1>2, <1>4, <1>5, ConstantTypes
<1>9. EntrySection(c)' /\ BackupSection(c)' /\ CardSection(c)'
  BY <1>1, <1>6, <1>7, <1>8 DEF EntrySection, BackupSection, CardSection
<1> QED BY <1>1, <1>3, <1>9, SameOrders, RowRemembered, BookMoves

\* What is saved on a live card agrees with its order, and a card is closed only after it.
LEMMA BookSave ==
  ASSUME TypeInv, BookInv, Serial, Serial', NEW c \in Procs, ExitSave(c) \/ ScorecardSave(c)
  PROVE  BookInv'
<1>1. /\ Others(c) /\ p[c].pc \in {"exit", "score"} /\ p'[c] = Free
      /\ cards \in [Orders -> Card] /\ cards' \in [Orders -> Card]
      /\ \A o \in Orders : cards'[o] = cards[o] \/ (cards'[o] = p[c].cards[o] /\ p[c].cards[o] # NoCard)
  BY SaveFacts DEF ExitSave, ScorecardSave, TypeInv, TypeOK
<1>2. UNCHANGED <<ord, row, halted, stops, now>>
  BY DEF ExitSave, ScorecardSave, broker
<1>3. \A o \in Orders :
        /\ CardOK(p[c].cards[o], o) /\ CardOK(cards[o], o)
        /\ p[c].cards[o] # NoCard => p[c].cards[o].status # "none" /\ Live(cards, o)
  BY <1>1 DEF BookInv, CardSection
<1>4. \A o \in Orders : CardOK(cards'[o], o)
  BY <1>1, <1>3
<1>5. \A o \in Orders : CardOK(cards[o], o)'
  BY <1>2, <1>4 DEF CardOK, Alive
<1>6. \A o \in Orders : Live(cards, o)' => Live(cards, o) /\ cards'[o].sym = cards[o].sym
  BY <1>1, <1>3, <1>4 DEF Live, CardOK
<1>7. \A o \in Orders : Live(cards, o) /\ Alive(o) => Live(cards, o)'
  <2> SUFFICES ASSUME NEW o \in Orders, Live(cards, o), Alive(o) PROVE Live(cards, o)'
    OBVIOUS
  <2>1. cards'[o].status \in {"none", "pending_fill", "open", "closed", "not_filled"}
    BY <1>1 DEF Card
  <2>2. cards'[o].status # "none"
    BY <1>1, <1>3 DEF Live
  <2>3. cards'[o].status \notin {"closed", "not_filled"}
    BY <1>4 DEF CardOK
  <2> QED BY <2>1, <2>2, <2>3 DEF Live
<1>8. Bound'
  BY <1>2, <1>6 DEF BookInv, Bound, Alive
<1>9. StopsFit'
  BY <1>2, SameOrders, EvolvedStops DEF BookInv
<1>10. \A o \in Orders : (\E d \in Procs : InFlight(d, o)) => (\E d \in Procs : InFlight(d, o))'
  BY <1>1, <1>2, SameOrders, FlightsKept
<1>11. Remembers(row.open_symbols)'
  BY <1>2, <1>7, <1>10, RowRemembered DEF Remembers, Alive
<1> QED BY <1>1, <1>5, <1>8, <1>9, <1>11, FreeSections, OneSection


\* A copied exit closes the one order of its card, so no order needs the stop it forgets.
LEMMA BookCopyExit ==
  ASSUME TypeInv, BookInv, Serial, Serial', NEW c \in Procs, NEW o \in Orders, CopyExit(c, o)
  PROVE  BookInv'
<1>0. PICK card : card = p[c].cards[o]
  OBVIOUS
<1>1. /\ Others(c) /\ p[c].pc = "exit" /\ p'[c].pc = "exit" /\ o \in p[c].due /\ p'[c].due = p[c].due \ {o}
      /\ card \in Card
      /\ \A q \in Orders : q # o => p'[c].cards[q] = p[c].cards[q]
      /\ \/ p'[c].cards = p[c].cards /\ UNCHANGED <<ord, stops>>
         \/ p'[c].cards[o] = [card EXCEPT !.detached = TRUE] /\ UNCHANGED <<ord, stops>>
         \/ /\ p'[c].cards[o] = [card EXCEPT !.status = "closed"]
            /\ ord' = ClosedBy(card.ids, "copy") /\ stops' = [stops EXCEPT ![card.sym] = NoStop]
  BY <1>0, CopyExitFacts
<1>2. UNCHANGED <<row, halted, cards, now>> /\ ord \in [Orders -> Order] /\ stops \in [Symbols -> Stop]
  BY DEF CopyExit, TypeInv, TypeOK
<1>3. CardSection(c) /\ card.status = "open" /\ CardOK(card, o) /\ Live(cards, o)
  <2>1. CardSection(c) /\ card.status = "open"
    BY <1>0, <1>1 DEF BookInv, CardSection
  <2>2. card # NoCard
    BY <2>1 DEF NoCard
  <2> QED BY <1>0, <1>1, <2>1, <2>2 DEF CardSection
<1>4. card.ids = {o} /\ card.sym = ord[o].sym /\ ord[o].st # "queued" /\ card.at = ord[o].at
      /\ cards[o].sym = ord[o].sym
  BY <1>3 DEF CardOK, BookInv, Live
<1>5. Evolves
  BY <1>1, <1>2, SameOrders, ClosedFacts
<1>6. ASSUME ord' = ClosedBy(card.ids, "copy") PROVE ~Alive(o)' /\ NoneAlive(card.sym)'
  <2>1. ~Alive(o)'
    <3>1. o \in card.ids
      BY <1>4
    <3>2. ord'[o].st # "open"
      BY <1>2, <1>6, <3>1, ClosedFacts
    <3>3. ord'[o].st # "queued"
      BY <1>4, <1>5 DEF Evolves
    <3> QED BY <3>2, <3>3 DEF Alive
  <2>2. ASSUME NEW q \in Orders, Alive(q)', ord'[q].sym = card.sym PROVE FALSE
    <3>1. Alive(q) /\ ord[q].sym = cards[o].sym
      BY <1>4, <1>5, <2>2, Evolved
    <3>2. q = o
      BY <1>3, <3>1 DEF BookInv, Bound
    <3> QED BY <2>1, <2>2, <3>2
  <2> QED BY <2>1, <2>2 DEF NoneAlive
<1>7. StopsFit'
  <2>1. CASE UNCHANGED stops
    BY <1>5, <2>1, EvolvedStops DEF BookInv
  <2>2. CASE ord' = ClosedBy(card.ids, "copy") /\ stops' = [stops EXCEPT ![card.sym] = NoStop]
    <3>1. \A q \in Orders : Alive(q)' => stops'[ord'[q].sym] = stops[ord[q].sym]
      BY <1>2, <1>5, <1>6, <2>2, Evolved DEF NoneAlive
    <3> QED BY <1>5, <3>1, Evolved DEF BookInv, StopsFit
  <2> QED BY <1>1, <2>1, <2>2
<1>8. Bound' /\ \A q \in Orders : CardOK(cards[q], q)'
  BY <1>2, <1>5, EvolvedBound, EvolvedCards DEF BookInv
<1>9. \A q \in Orders : (\E d \in Procs : InFlight(d, q)) => (\E d \in Procs : InFlight(d, q))'
  BY <1>1, <1>5, FlightsKept
<1>10. Remembers(row.open_symbols)'
  <2> DEFINE r == row.open_symbols
  <2>1. Remembers(r) /\ row'.open_symbols = r
    BY <1>2, RowRemembered
  <2> HIDE DEF r
  <2> QED BY <1>2, <1>5, <1>9, <2>1, EvolvedRemembers DEF Remembers
<1>11. ASSUME NEW q \in Orders
       PROVE  /\ CardOK(p[c].cards[q], q)'
              /\ p'[c].cards[q] # NoCard => p'[c].cards[q].status # "none" /\ Live(cards, q)'
  <2>1. /\ CardOK(p[c].cards[q], q)
        /\ p[c].cards[q] # NoCard => p[c].cards[q].status # "none" /\ Live(cards, q)
    BY <1>1, <1>3 DEF CardSection
  <2>2. CASE p'[c].cards[q] = p[c].cards[q]
    BY <1>2, <1>5, <2>1, <2>2, Evolved DEF CardOK, Live
  <2>3. CASE q = o /\ p'[c].cards[o] = [card EXCEPT !.detached = TRUE]
    <3>1. /\ p'[c].cards[o].status = card.status /\ p'[c].cards[o].sym = card.sym
          /\ p'[c].cards[o].at = card.at /\ p'[c].cards[o].ids = card.ids
      BY <1>1, <2>3 DEF Card
    <3> QED BY <1>2, <1>3, <1>4, <1>5, <2>3, <3>1, Evolved DEF CardOK, Live
  <2>4. CASE q = o /\ p'[c].cards[o] = [card EXCEPT !.status = "closed"] /\ ord' = ClosedBy(card.ids, "copy")
    <3>1. /\ p'[c].cards[o].status = "closed" /\ p'[c].cards[o].sym = card.sym
          /\ p'[c].cards[o].at = card.at
      BY <1>1, <2>4 DEF Card
    <3>2. ord[o].st # "none"
      BY <1>3 DEF CardOK
    <3> QED BY <1>2, <1>3, <1>4, <1>5, <1>6, <2>4, <3>1, <3>2, Evolved DEF CardOK, Live
  <2> QED BY <1>1, <2>2, <2>3, <2>4
<1>12. \A q \in p'[c].due : q \in Orders /\ p'[c].cards[q].status = "open"
  BY <1>1, <1>3 DEF CardSection
<1>13. EntrySection(c)' /\ BackupSection(c)' /\ CardSection(c)'
  BY <1>1, <1>11, <1>12 DEF EntrySection, BackupSection, CardSection
<1> QED BY <1>1, <1>7, <1>8, <1>10, <1>13, OneSection

\* A fill is matched with the only live order of its symbol.
LEMMA BookUpdate ==
  ASSUME TypeInv, BookInv, Serial, Serial', DecidedInADay, NEW c \in Procs, UpdateScorecard(c)
  PROVE  BookInv'
<1>1. /\ Others(c) /\ p[c].pc = "free" /\ p'[c].pc = "score"
      /\ p'[c].cards = [o \in Orders |-> IF Live(cards, o) THEN Scored(cards[o], Positions) ELSE NoCard]
  BY UpdateFacts DEF UpdateScorecard, Idle
<1>2. UNCHANGED <<ord, row, halted, stops, cards, now>> /\ cards \in [Orders -> Card]
  BY DEF UpdateScorecard, broker, tables, TypeInv, TypeOK
<1>3. ASSUME NEW o \in Orders
      PROVE  /\ CardOK(p[c].cards[o], o)'
             /\ p'[c].cards[o] # NoCard => p'[c].cards[o].status # "none" /\ Live(cards, o)'
  <2>1. CASE ~Live(cards, o)
    BY <1>1, <2>1 DEF CardOK, NoCard
  <2>2. CASE Live(cards, o)
    <3>1. PICK card, n, held :
            /\ card = cards[o] /\ n = Scored(card, Positions) /\ held = HeldBy(card, Positions)
      OBVIOUS
    <3>2. card \in Card /\ card.status \in {"pending_fill", "open"} /\ Positions \in SUBSET Orders
      BY <1>2, <2>2, <3>1 DEF Live, Positions
    <3>3. /\ n.sym = card.sym /\ n.at = card.at
          /\ \/ n = card
             \/ card.status = "pending_fill" /\ n.status = "open" /\ n.ids = held /\ held # {}
             \/ card.status = "open" /\ n.status = "closed" /\ n.ids = card.ids /\ held = {}
             \/ /\ card.status = "pending_fill" /\ n.status = "not_filled" /\ n.ids = card.ids /\ held = {}
                /\ now - card.at > Hours24
      BY <3>1, <3>2, ScoredFacts
    <3>4. CardOK(card, o)
      BY <3>1 DEF BookInv
    <3>5. ord[o].st # "none" /\ card.sym = ord[o].sym /\ card.at = ord[o].at
      BY <3>2, <3>4 DEF CardOK
    <3>6. CardOK(n, o)
      <4>1. CASE n = card
        BY <3>4, <4>1
      <4>2. CASE card.status = "pending_fill" /\ n.status = "open" /\ n.ids = held /\ held # {}
        <5>1. held = {q \in Positions : ord[q].sym = card.sym}
          BY <3>1, <3>4, <4>2 DEF CardOK, HeldBy
        <5>2. \A q \in held : q = o
          BY <2>2, <3>1, <5>1 DEF BookInv, Bound, Positions, Alive
        <5>3. held = {o} /\ ord[o].st = "open"
          BY <4>2, <5>1, <5>2 DEF Positions
        <5> QED BY <3>3, <3>5, <4>2, <5>3 DEF CardOK
      <4>3. CASE card.status = "open" /\ n.status = "closed" /\ n.ids = card.ids /\ held = {}
        <5>1. card.ids = {o} /\ ord[o].st # "queued"
          BY <3>4, <4>3 DEF CardOK
        <5>2. ord[o].st # "open"
          BY <3>1, <4>3, <5>1 DEF Positions, HeldBy
        <5> QED BY <3>3, <3>5, <4>3, <5>1, <5>2 DEF CardOK, Alive
      <4>4. CASE /\ card.status = "pending_fill" /\ n.status = "not_filled" /\ held = {}
                 /\ now - card.at > Hours24
        <5>1. held = {q \in Positions : ord[q].sym = card.sym}
          BY <3>1, <3>4, <4>4 DEF CardOK, HeldBy
        <5>2. ord[o].st # "open"
          BY <3>5, <4>4, <5>1 DEF Positions
        <5>3. Aged(o)
          <6>1. now - ord[o].at > 2
            BY <3>5, <4>4 DEF Hours24
          <6>2. now \in Int /\ ord[o].at \in Int
            BY DayType, ConstantTypes DEF TypeInv, TypeOK, Order
          <6> QED BY <6>1, <6>2 DEF Aged, Hours24
        <5> QED BY <3>3, <3>5, <4>4, <5>2, <5>3 DEF CardOK, Alive, DecidedInADay
      <4> QED BY <3>3, <4>1, <4>2, <4>3, <4>4
    <3>7. p'[c].cards[o] = n /\ n.status # "none"
      BY <1>1, <2>2, <3>1, <3>2, <3>3
    <3> QED BY <1>2, <2>2, <3>6, <3>7 DEF CardOK, Alive, Live
  <2> QED BY <2>1, <2>2
<1>4. EntrySection(c)' /\ BackupSection(c)' /\ CardSection(c)'
  BY <1>1, <1>3 DEF EntrySection, BackupSection, CardSection
<1> QED BY <1>1, <1>2, <1>4, SameOrders, RowRemembered, BookMoves


LEMMA BookTick ==
  ASSUME TypeInv, BookInv, Serial, Serial', DecidedInADay, NEW c \in Procs, Tick(c)
  PROVE  BookInv'
<1>1. CASE GuardStepFails(c) \/ CopyNothing(c)
  <2>1. UNCHANGED <<ord, row, halted, stops, cards, now, p>>
    BY <1>1 DEF GuardStepFails, CopyNothing, broker, tables
  <2> QED BY <2>1, SameOrders, BookStill
<1> QED BY <1>1, BookCheckStops, BookBackupStop, BookBackupSave, BookCopyRead, BookSave, BookCopyExit,
           BookUpdate DEF Tick

\* What is lost with the process was only memory, as long as no order was in flight.
LEMMA BookInitially == Init => BookInv
<1> SUFFICES ASSUME Init PROVE BookInv
  OBVIOUS
<1>1. \A o \in Orders : ord[o].st = "none" /\ cards[o].status = "none"
  BY DEF Init, NoOrder, NoCard
<1>2. \A o \in Orders : ~Alive(o) /\ ~Live(cards, o)
  BY <1>1 DEF Alive, Live
<1>3. \A c \in Procs : p[c].pc = "free"
  BY FreeTyped DEF Init
<1>4. Bound /\ StopsFit /\ (\A o \in Orders : CardOK(cards[o], o)) /\ Remembers(row.open_symbols)
  BY <1>1, <1>2 DEF Bound, StopsFit, CardOK, Remembers
<1>5. \A c \in Procs : EntrySection(c) /\ BackupSection(c) /\ CardSection(c)
  BY <1>3 DEF EntrySection, BackupSection, CardSection
<1> QED BY <1>4, <1>5 DEF BookInv

LEMMA BookKept ==
  /\ TypeInv /\ BookInv /\ Serial /\ Serial' /\ DecidedInADay /\ CardsWritten'
  /\ [Next]_vars
  => BookInv'
<1> SUFFICES ASSUME TypeInv, BookInv, Serial, Serial', DecidedInADay, CardsWritten', [Next]_vars
             PROVE  BookInv'
  OBVIOUS
<1>1. CASE UNCHANGED vars
  <2>1. UNCHANGED <<ord, row, halted, stops, cards, now, p>>
    BY <1>1 DEF vars, broker, tables
  <2> QED BY <2>1, SameOrders, BookStill
<1>2. CASE Next
  BY <1>2, BookExternal, BookPass, BookCopy, BookMaintain, BookTick, BookEnds DEF Next, Crash
<1> QED BY <1>1, <1>2

\* While eToro decides about every order within a day and no order goes without its card, by a
\* crash or by an exception between the two:
\* no symbol ever has two live orders or positions, though reconcile forgets orders that have
\* not filled and a fill is matched to its card by symbol alone (mirror, reconcile);
THEOREM OnePerSymbolKept ==
  Spec /\ []Serial /\ []DecidedInADay /\ []CardsWritten => []OnePerSymbol
<1>1. BookInv => OnePerSymbol
  BY ConstantTypes DEF BookInv, Bound, OnePerSymbol, Orders
<1> QED BY <1>1, TypesInitially, TypesKept, BookInitially, BookKept, PTL DEF Spec

\* every order at eToro has its intended stop on record, across the passes of the guard that
\* save a copy read earlier and the rejected orders that take their stop back (remember_stop);
THEOREM StopAlwaysKept ==
  Spec /\ []Serial /\ []DecidedInADay /\ []CardsWritten => []StopKept
<1>1. BookInv => StopKept
  BY DEF BookInv, StopsFit, StopKept
<1> QED BY <1>1, TypesInitially, TypesKept, BookInitially, BookKept, PTL DEF Spec

\* and a card says closed or not filled only when its order is no more (update_scorecard,
\* copy_paper_exits).
THEOREM CardsTrue ==
  Spec /\ []Serial /\ []DecidedInADay /\ []CardsWritten => []CardFollowsPosition
<1>1. BookInv => CardFollowsPosition
  BY DEF BookInv, CardOK, CardFollowsPosition
<1> QED BY <1>1, TypesInitially, TypesKept, BookInitially, BookKept, PTL DEF Spec


-----------------------------------------------------------------------------
(* Only strategy exits are copied *)

\* The market opens at least every other half day: what the day that _safety_flatten looks
\* back spans.  A weekend breaks this.
DailySessions == \A t \in Times : t \notin OpenTimes /\ t < MaxNow => t + 1 \in OpenTimes

Unended(q, os) == os[q].st \in {"queued", "open"} /\ "strategy" \notin os[q].ends

\* An exit that _safety_flatten recognises by the marker.
MarkedAt(card, mk, t) == mk[card.sym] # Never /\ t - mk[card.sym] < Hours24 /\ mk[card.sym] >= card.at

DueAt(card, os, mk, t) ==
    card.status = "open" /\ \A q \in card.ids : Unended(q, os) => MarkedAt(card, mk, t)

\* A card as of the orders os, the paper positions pap, the markers mk and the half day t: a
\* paper position of the card that reads flat was ended by a strategy or is marked.
WatchAt(card, os, pap, mk, t) ==
    /\ card.at <= t
    /\ \A q \in card.ids : os[q].st # "none" /\ os[q].sym = card.sym
    /\ card.status = "pending_fill" => ~card.paper_seen
    /\ card.flat > 0 => card.paper_seen
    /\ card.status # "none" /\ pap[card.sym] = "closing" => mk[card.sym] >= card.at
    /\ card.status = "open" /\ ~card.detached /\ card.paper_seen /\ pap[card.sym] = "flat" =>
          /\ card.ids # {} => t \in OpenTimes
          /\ DueAt(card, os, mk, t)

\* The sections of mirror that may yet record an order of this half day.
EntryPcs == {"ahead", "remember", "post", "confirm", "record"}

\* A flatten submitted after hours is marked as of the half day before the open it fills at; a
\* paper entry that is still being mirrored was entered in this half day, and so marked in it.
ClosingOK == \A s \in Symbols : paper[s] = "closing" =>
    /\ mark[s] = now \/ (MarketOpen /\ mark[s] = now - 1)
    /\ s \in want => mark[s] = now
    /\ \A c \in Procs : p[c].pc \in EntryPcs /\ p[c].s = s => mark[s] = now

WatchSection(c) ==
    /\ p[c].pc \in {"exit", "score"} => \A o \in Orders : WatchAt(p[c].cards[o], ord, paper, mark, now)
    /\ p[c].pc = "exit" => \A o \in p[c].due : DueAt(p[c].cards[o], ord, mark, now)

MarkInv ==
    /\ \A s \in Symbols : mark[s] <= now
    /\ ClosingOK
    /\ \A o \in Orders : WatchAt(cards[o], ord, paper, mark, now)
    /\ \A c \in Procs : WatchSection(c)
    /\ CopiedExitIsStrategy

LEMMA MarkTypes ==
  ASSUME TypeInv
  PROVE  /\ now \in Nat /\ now \in Times /\ \A s \in Symbols : mark[s] \in Times \cup {Never} /\ mark[s] \in Int
         /\ ord \in [Orders -> Order] /\ cards \in [Orders -> Card]
         /\ \A c \in Procs : p[c].cards \in [Orders -> Card] /\ p[c].due \in SUBSET Orders
<1>1. now \in Times /\ \A s \in Symbols : mark[s] \in Times \cup {Never}
  BY DEF TypeInv, TypeOK
<1>2. now \in Nat /\ \A s \in Symbols : mark[s] \in Int
  BY <1>1, DayType DEF Never
<1>3. \A c \in Procs : p[c].cards \in [Orders -> Card] /\ p[c].due \in SUBSET Orders
  BY SectionTypes
<1> QED BY <1>1, <1>2, <1>3 DEF TypeInv, TypeOK

LEMMA CardType ==
  ASSUME NEW card \in Card
  PROVE  /\ card.ids \subseteq Orders /\ card.sym \in Symbols /\ card.at \in Times /\ card.at \in Nat
         /\ card.flat \in Nat /\ card.detached \in BOOLEAN /\ card.paper_seen \in BOOLEAN
<1>1. card.ids \subseteq Orders /\ card.sym \in Symbols /\ card.at \in Times
  BY DEF Card
<1>2. card.flat \in 0..FlatReads /\ FlatReads \in Nat
  BY ConstantTypes DEF Card
<1>3. card.detached \in BOOLEAN /\ card.paper_seen \in BOOLEAN
  BY DEF Card
<1> QED BY <1>1, <1>2, <1>3, DayType

\* What happens to the orders a card knows.
Onward == \A q \in Orders : ord[q].st # "none" =>
    ord'[q].st # "none" /\ ord'[q].sym = ord[q].sym /\ (Unended(q, ord') => Unended(q, ord))

LEMMA EvolvesOnward == ASSUME Evolves PROVE Onward
BY DEF Evolves, Onward, Unended

LEMMA AcceptOnward == ASSUME TypeInv, NEW c \in Procs, Accept(c) PROVE Onward
BY AcceptFacts DEF Onward, Unended

\* A due card stays due while markers only get newer.
LEMMA DueKept ==
  ASSUME TypeInv, NEW card \in Card, DueAt(card, ord, mark, now), WatchAt(card, ord, paper, mark, now),
         Onward, UNCHANGED now,
         \A s \in Symbols : mark'[s] = mark[s] \/ mark'[s] = now
  PROVE  DueAt(card, ord', mark', now')
<1>1. \A q \in card.ids : Unended(q, ord') => Unended(q, ord)
  BY CardType DEF Onward, WatchAt
<1>2. MarkedAt(card, mark, now) => MarkedAt(card, mark', now')
  BY CardType, MarkTypes DEF MarkedAt, Never, Hours24, WatchAt
<1> QED BY <1>1, <1>2 DEF DueAt

LEMMA IdsKept ==
  ASSUME NEW card \in Card, Onward, \A q \in card.ids : ord[q].st # "none" /\ ord[q].sym = card.sym
  PROVE  \A q \in card.ids : ord'[q].st # "none" /\ ord'[q].sym = card.sym
BY CardType DEF Onward

\* Steps of the rest of the system.
LEMMA WatchKept ==
  ASSUME TypeInv, NEW card \in Card, WatchAt(card, ord, paper, mark, now), Onward,
         UNCHANGED <<paper, mark, now>>
  PROVE  WatchAt(card, ord', paper', mark', now')
<1>1. DueAt(card, ord, mark, now) => DueAt(card, ord', mark', now')
  BY DueKept DEF WatchAt
<1>2. \A q \in card.ids : ord'[q].st # "none" /\ ord'[q].sym = card.sym
  BY IdsKept DEF WatchAt
<1> QED BY <1>1, <1>2 DEF WatchAt


LEMMA WatchEnters ==
  ASSUME TypeInv, NEW s \in Symbols, PaperEnters(s), NEW card \in Card, WatchAt(card, ord, paper, mark, now)
  PROVE  WatchAt(card, ord', paper', mark', now')
<1>1. UNCHANGED <<ord, mark, now>> /\ paper' = [paper EXCEPT ![s] = "held"] /\ paper \in [Symbols -> {"flat", "held", "closing"}]
  BY DEF PaperEnters, broker, tables, TypeInv, TypeOK
<1>2. card.sym \in Symbols
  BY CardType
<1>3. paper'[card.sym] = paper[card.sym] \/ paper'[card.sym] = "held"
  BY <1>1, <1>2
<1> QED BY <1>1, <1>3 DEF WatchAt

\* A strategy that ends the paper position ends it for every order of the symbol.
LEMMA WatchExits ==
  ASSUME TypeInv, NEW s \in Symbols, PaperExits(s), NEW card \in Card, WatchAt(card, ord, paper, mark, now)
  PROVE  WatchAt(card, ord', paper', mark', now')
<1>1. /\ MarketOpen /\ PaperEnds(s, "strategy") /\ UNCHANGED <<mark, now>>
      /\ paper' = [paper EXCEPT ![s] = "flat"] /\ paper \in [Symbols -> {"flat", "held", "closing"}]
  BY DEF PaperExits, PaperEnds, tables, TypeInv, TypeOK
<1>2. /\ Onward
      /\ \A q \in Orders : /\ ord'[q].st = ord[q].st
                           /\ Alive(q) /\ ord[q].sym = s => "strategy" \in ord'[q].ends
  BY <1>1, MarkTypes, PaperEndFacts, EvolvesOnward
<1>3. \A q \in card.ids : ord'[q].st # "none" /\ ord'[q].sym = card.sym
  BY <1>2, IdsKept DEF WatchAt
<1>4. card.sym \in Symbols /\ card.ids \subseteq Orders
  BY CardType
<1>5. CASE card.sym = s
  <2>1. \A q \in card.ids : ~Unended(q, ord')
    BY <1>2, <1>4, <1>5 DEF WatchAt, Unended, Alive
  <2>2. card.status = "open" => DueAt(card, ord', mark', now')
    BY <2>1 DEF DueAt
  <2>3. paper'[card.sym] = "flat"
    BY <1>1, <1>4, <1>5
  <2> QED BY <1>1, <1>3, <2>2, <2>3 DEF WatchAt, MarketOpen
<1>6. CASE card.sym # s
  <2>1. paper'[card.sym] = paper[card.sym]
    BY <1>1, <1>4, <1>6
  <2>2. DueAt(card, ord, mark, now) => DueAt(card, ord', mark', now')
    BY <1>1, <1>2, DueKept DEF WatchAt
  <2> QED BY <1>1, <1>3, <2>1, <2>2 DEF WatchAt
<1> QED BY <1>5, <1>6

\* A flatten that fills is marked, since the card's order or later.
LEMMA WatchFlattens ==
  ASSUME TypeInv, ClosingOK, NEW s \in Symbols, SafetyFlattenFills(s),
         NEW card \in Card, WatchAt(card, ord, paper, mark, now)
  PROVE  WatchAt(card, ord', paper', mark', now')
<1>1. /\ MarketOpen /\ paper[s] = "closing" /\ PaperEnds(s, "safety") /\ UNCHANGED <<mark, now>>
      /\ paper' = [paper EXCEPT ![s] = "flat"] /\ paper \in [Symbols -> {"flat", "held", "closing"}]
  BY DEF SafetyFlattenFills, PaperEnds, tables, TypeInv, TypeOK
<1>2. Onward
  BY <1>1, MarkTypes, PaperEndFacts, EvolvesOnward
<1>3. \A q \in card.ids : ord'[q].st # "none" /\ ord'[q].sym = card.sym
  BY <1>2, IdsKept DEF WatchAt
<1>4. card.sym \in Symbols /\ card.at \in Nat
  BY CardType
<1>5. CASE card.sym = s
  <2>1. card.status # "none" => mark[s] >= card.at
    BY <1>1, <1>5 DEF WatchAt
  <2>2. mark[s] = now \/ mark[s] = now - 1
    BY <1>1 DEF ClosingOK
  <2>3. card.status # "none" => MarkedAt(card, mark', now')
    BY <1>1, <1>4, <1>5, <2>1, <2>2, MarkTypes DEF MarkedAt, Never, Hours24
  <2>4. card.status = "open" => DueAt(card, ord', mark', now')
    BY <2>3 DEF DueAt
  <2>5. paper'[card.sym] = "flat"
    BY <1>1, <1>4, <1>5
  <2> QED BY <1>1, <1>3, <2>4, <2>5 DEF WatchAt, MarketOpen
<1>6. CASE card.sym # s
  <2>1. paper'[card.sym] = paper[card.sym]
    BY <1>1, <1>4, <1>6
  <2>2. DueAt(card, ord, mark, now) => DueAt(card, ord', mark', now')
    BY <1>1, <1>2, DueKept DEF WatchAt
  <2> QED BY <1>1, <1>3, <2>1, <2>2 DEF WatchAt
<1> QED BY <1>5, <1>6

\* The safety flatten of one symbol, or of all of them.
Marks == \A s \in Symbols : \/ mark'[s] = mark[s] /\ paper'[s] = paper[s]
                            \/ mark'[s] = now /\ paper'[s] \in {paper[s], "closing"}

LEMMA WatchMarks ==
  ASSUME TypeInv, Marks, UNCHANGED <<ord, now>>, NEW card \in Card, WatchAt(card, ord, paper, mark, now)
  PROVE  WatchAt(card, ord', paper', mark', now')
<1>1. Onward
  BY SameOrders, EvolvesOnward
<1>2. DueAt(card, ord, mark, now) => DueAt(card, ord', mark', now')
  BY <1>1, DueKept DEF WatchAt, Marks
<1>3. card.sym \in Symbols /\ card.at \in Nat
  BY CardType
<1>4. CASE mark'[card.sym] = mark[card.sym] /\ paper'[card.sym] = paper[card.sym]
  BY <1>2, <1>4 DEF WatchAt
<1>5. CASE mark'[card.sym] = now /\ paper'[card.sym] \in {paper[card.sym], "closing"}
  <2>1. mark'[card.sym] >= card.at
    BY <1>3, <1>5, MarkTypes DEF WatchAt
  <2>2. paper'[card.sym] = "flat" => paper[card.sym] = "flat"
    BY <1>5
  <2> QED BY <1>2, <1>5, <2>1, <2>2 DEF WatchAt
<1> QED BY <1>3, <1>4, <1>5 DEF Marks


LEMMA CopiedKept ==
  ASSUME CopiedExitIsStrategy,
         \A o \in Orders : ord'[o].exit = "copy" => ord[o].exit = "copy" /\ ord[o].ends \subseteq ord'[o].ends
  PROVE  CopiedExitIsStrategy'
BY DEF CopiedExitIsStrategy

\* A step of eToro, of the paper account or of the operator.
LEMMA MarkAround ==
  ASSUME TypeInv, MarkInv, UNCHANGED <<cards, p, now>>, Onward, CopiedExitIsStrategy', ClosingOK',
         \A s \in Symbols : mark'[s] = mark[s] \/ mark'[s] = now,
         \A card \in Card : WatchAt(card, ord, paper, mark, now) => WatchAt(card, ord', paper', mark', now')
  PROVE  MarkInv'
<1>1. \A s \in Symbols : mark'[s] <= now'
  BY MarkTypes DEF MarkInv
<1>2. \A o \in Orders : WatchAt(cards'[o], ord', paper', mark', now')
  BY MarkTypes DEF MarkInv
<1>3. ASSUME NEW c \in Procs PROVE WatchSection(c)'
  <2>1. WatchSection(c) /\ p[c].cards \in [Orders -> Card] /\ p[c].due \in SUBSET Orders
    BY MarkTypes DEF MarkInv
  <2>2. p[c].pc \in {"exit", "score"} => \A o \in Orders : WatchAt(p[c].cards[o], ord', paper', mark', now')
    BY <2>1 DEF WatchSection
  <2>3. p[c].pc = "exit" => \A o \in p[c].due : DueAt(p[c].cards[o], ord', mark', now')
    BY <2>1, DueKept DEF WatchSection
  <2> QED BY <2>2, <2>3 DEF WatchSection
<1> QED BY <1>1, <1>2, <1>3 DEF MarkInv

LEMMA MarkExternal == ASSUME TypeInv, MarkInv, External PROVE MarkInv'
<1>1. /\ CopiedExitIsStrategy /\ ClosingOK /\ \A s \in Symbols : mark[s] <= now
  BY DEF MarkInv
<1>2. ASSUME NEW o \in Orders, OrderFills(o) \/ EtoroCloses(o) PROVE MarkInv'
  <2>1. UNCHANGED <<papers, tables, now, p>>
    BY <1>2 DEF OrderFills, EtoroCloses, Broker
  <2>2. /\ Evolves
        /\ \A q \in Orders : ord'[q].ends = ord[q].ends /\ ord'[q].exit \in {ord[q].exit, "etoro"}
    BY <1>2, MarkTypes, FillFacts
  <2>3. CopiedExitIsStrategy'
    BY <1>1, <2>2, CopiedKept
  <2>4. ClosingOK'
    BY <1>1, <2>1 DEF ClosingOK, papers, tables, MarketOpen
  <2> QED BY <2>1, <2>2, <2>3, <2>4, EvolvesOnward, WatchKept, MarkAround DEF papers, tables
<1>3. ASSUME NEW s \in Symbols, PriceFalls(s) \/ PriceRises(s) PROVE MarkInv'
  <2>1. UNCHANGED <<ord, papers, tables, now, p>>
    BY <1>3 DEF PriceFalls, PriceRises
  <2>2. CopiedExitIsStrategy' /\ ClosingOK'
    BY <1>1, <2>1 DEF CopiedExitIsStrategy, ClosingOK, papers, tables, MarketOpen
  <2> QED BY <2>1, <2>2, SameOrders, EvolvesOnward, WatchKept, MarkAround DEF papers, tables
<1>4. ASSUME NEW s \in Symbols, PaperEnters(s) PROVE MarkInv'
  <2>1. UNCHANGED <<ord, tables, now, p>> /\ paper' = [paper EXCEPT ![s] = "held"] /\ want' = want \cup {s}
    BY <1>4 DEF PaperEnters, broker
  <2>2. CopiedExitIsStrategy'
    BY <1>1, <2>1 DEF CopiedExitIsStrategy
  <2>3. ClosingOK'
    <3>1. \A q \in Symbols : paper'[q] = "closing" => q # s /\ paper[q] = "closing"
      BY <2>1 DEF TypeInv, TypeOK
    <3> QED BY <1>1, <2>1, <3>1 DEF ClosingOK, tables, MarketOpen
  <2> QED BY <1>4, <2>1, <2>2, <2>3, SameOrders, EvolvesOnward, WatchEnters, MarkAround DEF tables
<1>5. ASSUME NEW s \in Symbols, PaperExits(s) \/ SafetyFlattenFills(s) PROVE MarkInv'
  <2>1. PICK how \in {"strategy", "safety"} : PaperEnds(s, how)
    BY <1>5 DEF PaperExits, SafetyFlattenFills
  <2>2. UNCHANGED <<want, tables, now, p>> /\ paper' = [paper EXCEPT ![s] = "flat"]
    BY <2>1 DEF PaperEnds
  <2>3. Evolves /\ \A q \in Orders : ord'[q].exit = ord[q].exit /\ ord[q].ends \subseteq ord'[q].ends
    BY <2>1, MarkTypes, PaperEndFacts DEF Evolves
  <2>4. CopiedExitIsStrategy'
    BY <1>1, <2>3, CopiedKept
  <2>5. ClosingOK'
    <3>1. \A q \in Symbols : paper'[q] = "closing" => paper[q] = "closing"
      BY <2>2 DEF TypeInv, TypeOK
    <3> QED BY <1>1, <2>2, <3>1 DEF ClosingOK, tables, MarketOpen
  <2>6. \A card \in Card : WatchAt(card, ord, paper, mark, now) => WatchAt(card, ord', paper', mark', now')
    BY <1>1, <1>5, WatchExits, WatchFlattens
  <2> QED BY <2>2, <2>3, <2>4, <2>5, <2>6, EvolvesOnward, MarkAround DEF tables
<1>6. ASSUME Marks, UNCHANGED <<ord, want, cards, now, p>> PROVE MarkInv'
  <2>1. CopiedExitIsStrategy'
    BY <1>1, <1>6 DEF CopiedExitIsStrategy
  <2>2. ClosingOK'
    BY <1>1, <1>6 DEF ClosingOK, Marks, MarketOpen
  <2> QED BY <1>6, <2>1, <2>2, SameOrders, EvolvesOnward, WatchMarks, MarkAround DEF Marks
<1>7. ASSUME NEW s \in Symbols, mark_paper_safety_flatten(s) PROVE MarkInv'
  <2>1. Marks
    BY <1>7 DEF mark_paper_safety_flatten, Marks, TypeInv, TypeOK
  <2>2. UNCHANGED <<ord, want, cards, now, p>>
    BY <1>7 DEF mark_paper_safety_flatten, broker
  <2> QED BY <1>6, <2>1, <2>2
<1>8. CASE KillSwitchOn
  <2>1. Marks
    BY <1>8 DEF KillSwitchOn, Marks
  <2>2. UNCHANGED <<ord, want, cards, now, p>>
    BY <1>8 DEF KillSwitchOn, broker
  <2> QED BY <1>6, <2>1, <2>2
<1>9. CASE KillSwitchOff \/ ClearHalt
  <2>1. UNCHANGED <<ord, paper, want, mark, cards, now, p>>
    BY <1>9 DEF KillSwitchOff, ClearHalt, broker, papers
  <2> QED BY <1>6, <2>1 DEF Marks
<1> QED BY <1>2, <1>3, <1>4, <1>5, <1>7, <1>8, <1>9 DEF External

\* Half a day passes: in the session every flat read has been acted on and every flatten filled,
\* so what is still closing was marked just before this open.
LEMMA MarkPass == ASSUME TypeInv, MarkInv, DailySessions, Pass PROVE MarkInv'
<1>1. /\ UNCHANGED <<ord, paper, want, mark, cards, p>> /\ now' = now + 1 /\ now < MaxNow
      /\ want = {} /\ Settled /\ (MarketOpen => \A s \in Symbols : paper[s] # "closing")
      /\ \A c \in Procs : p[c].pc = "free"
  BY DEF Pass, broker, papers, tables
<1>2. CopiedExitIsStrategy'
  BY <1>1 DEF MarkInv, CopiedExitIsStrategy
<1>3. \A s \in Symbols : mark'[s] <= now'
  BY <1>1, MarkTypes DEF MarkInv
<1>4. ClosingOK'
  <2> SUFFICES ASSUME NEW s \in Symbols, paper[s] = "closing"
               PROVE  MarketOpen' /\ mark[s] = now' - 1
    BY <1>1 DEF ClosingOK, EntryPcs
  <2>1. now \notin OpenTimes /\ mark[s] = now
    BY <1>1 DEF MarkInv, ClosingOK, MarketOpen
  <2>2. now' \in OpenTimes
    BY <1>1, <2>1, MarkTypes DEF DailySessions
  <2> QED BY <1>1, <2>1, <2>2, MarkTypes DEF MarketOpen
<1>5. ASSUME NEW o \in Orders PROVE WatchAt(cards'[o], ord', paper', mark', now')
  <2>1. PICK card \in Card : card = cards[o]
    BY MarkTypes
  <2>2. WatchAt(card, ord, paper, mark, now)
    BY <2>1 DEF MarkInv
  <2>3. card.at <= now'
    BY <1>1, <2>2, CardType, MarkTypes DEF WatchAt
  <2>4. card.status = "open" /\ ~card.detached /\ card.paper_seen /\ paper[card.sym] = "flat" => card.ids = {}
    BY <1>1, <2>1, <2>2 DEF WatchAt, Settled, MarketOpen, Following
  <2>5. card.ids = {} /\ card.status = "open" => DueAt(card, ord', mark', now')
    BY DEF DueAt
  <2> QED BY <1>1, <2>1, <2>2, <2>3, <2>4, <2>5 DEF WatchAt
<1>6. \A c \in Procs : WatchSection(c)'
  BY <1>1 DEF WatchSection
<1> QED BY <1>2, <1>3, <1>4, <1>5, <1>6 DEF MarkInv


LEMMA MarkStill ==
  ASSUME TypeInv, MarkInv, UNCHANGED <<ord, paper, mark, cards, now, p>>, want' \subseteq want
  PROVE  MarkInv'
<1>1. CopiedExitIsStrategy' /\ ClosingOK'
  BY DEF MarkInv, CopiedExitIsStrategy, ClosingOK, MarketOpen
<1> QED BY <1>1, SameOrders, EvolvesOnward, WatchKept, MarkAround

\* A step of c, when what it saves and reads fits the account.
LEMMA MarkMoves ==
  ASSUME TypeInv, TypeInv', MarkInv, NEW c \in Procs, Others(c), Onward, CopiedExitIsStrategy',
         UNCHANGED <<paper, mark, now>>, want' \subseteq want,
         \A o \in Orders : WatchAt(cards'[o], ord, paper, mark, now),
         p'[c].pc \in EntryPcs /\ paper[p'[c].s] = "closing" => mark[p'[c].s] = now,
         p'[c].pc \in {"exit", "score"} => \A o \in Orders : WatchAt(p'[c].cards[o], ord, paper, mark, now),
         p'[c].pc = "exit" => \A o \in p'[c].due : DueAt(p'[c].cards[o], ord, mark, now)
  PROVE  MarkInv'
<1>1. \A s \in Symbols : mark'[s] <= now'
  BY DEF MarkInv
<1>2. ClosingOK'
  <2>1. \A s \in Symbols : paper[s] = "closing" =>
          /\ mark[s] = now \/ (MarketOpen /\ mark[s] = now - 1)
          /\ s \in want => mark[s] = now
          /\ \A d \in Procs : p[d].pc \in EntryPcs /\ p[d].s = s => mark[s] = now
    BY DEF MarkInv, ClosingOK, EntryPcs
  <2>2. \A s \in Symbols : paper[s] = "closing" =>
          \A d \in Procs : p'[d].pc \in EntryPcs /\ p'[d].s = s => mark[s] = now
    BY <2>1 DEF Others
  <2> QED BY <2>1, <2>2 DEF ClosingOK, EntryPcs, MarketOpen
<1>3. \A card \in Card : WatchAt(card, ord, paper, mark, now) => WatchAt(card, ord', paper', mark', now')
  BY WatchKept
<1>4. /\ cards' \in [Orders -> Card]
      /\ \A d \in Procs : p'[d].cards \in [Orders -> Card] /\ p'[d].due \in SUBSET Orders
  BY DEF TypeInv, TypeOK, Process
<1>5. \A o \in Orders : WatchAt(cards'[o], ord', paper', mark', now')
  BY <1>3, <1>4
<1>6. ASSUME NEW d \in Procs PROVE WatchSection(d)'
  <2>1. /\ p'[d].pc \in {"exit", "score"} => \A o \in Orders : WatchAt(p'[d].cards[o], ord, paper, mark, now)
        /\ p'[d].pc = "exit" => \A o \in p'[d].due : DueAt(p'[d].cards[o], ord, mark, now)
    <3>1. CASE d = c
      BY <3>1
    <3>2. CASE d # c
      <4>1. p'[d] = p[d] /\ WatchSection(d)
        BY <3>2 DEF Others, MarkInv
      <4> QED BY <4>1 DEF WatchSection
    <3> QED BY <3>1, <3>2
  <2>2. p'[d].pc \in {"exit", "score"} => \A o \in Orders : WatchAt(p'[d].cards[o], ord', paper', mark', now')
    BY <1>3, <1>4, <2>1
  <2>3. p'[d].pc = "exit" => \A o \in p'[d].due : DueAt(p'[d].cards[o], ord', mark', now')
    <3> SUFFICES ASSUME p'[d].pc = "exit", NEW o \in p'[d].due
                 PROVE  DueAt(p'[d].cards[o], ord', mark', now')
      OBVIOUS
    <3>1. PICK card \in Card : card = p'[d].cards[o] /\ o \in Orders
      BY <1>4
    <3>2. WatchAt(card, ord, paper, mark, now) /\ DueAt(card, ord, mark, now)
      BY <2>1, <3>1
    <3> QED BY <3>1, <3>2, DueKept
  <2> QED BY <2>2, <2>3 DEF WatchSection
<1> QED BY <1>1, <1>2, <1>5, <1>6 DEF MarkInv

\* A step of c outside the copy and the scorecard that saves no card.
LEMMA MarkAside ==
  ASSUME TypeInv, TypeInv', MarkInv, NEW c \in Procs, Others(c), Onward,
         \A o \in Orders : ord'[o].exit = "copy" => ord[o].exit = "copy" /\ ord[o].ends \subseteq ord'[o].ends,
         UNCHANGED <<paper, mark, cards, now>>, want' \subseteq want,
         p'[c].pc \notin {"exit", "score"},
         \/ p'[c].pc \notin EntryPcs
         \/ p'[c].s = p[c].s /\ p[c].pc \in EntryPcs
  PROVE  MarkInv'
<1>1. CopiedExitIsStrategy'
  BY CopiedKept DEF MarkInv
<1>2. \A o \in Orders : WatchAt(cards'[o], ord, paper, mark, now)
  BY DEF MarkInv
<1>3. p[c].s \in Symbols
  BY SectionTypes
<1>4. p'[c].pc \in EntryPcs /\ paper[p'[c].s] = "closing" => mark[p'[c].s] = now
  BY <1>3 DEF MarkInv, ClosingOK, EntryPcs
<1> QED BY <1>1, <1>2, <1>4, MarkMoves


LEMMA MarkEnds == ASSUME TypeInv, TypeInv', MarkInv, NEW c \in Procs, Ends(c) PROVE MarkInv'
<1>1. /\ Others(c) /\ p'[c].pc = "free" /\ Onward
      /\ \A o \in Orders : ord'[o].exit = "copy" => ord[o].exit = "copy" /\ ord[o].ends \subseteq ord'[o].ends
  BY EndsFacts, FreeTyped, EvolvesOnward
<1>2. UNCHANGED <<paper, want, mark, cards, now>>
  BY DEF Ends, papers, tables
<1> QED BY <1>1, <1>2, MarkAside DEF EntryPcs

LEMMA MarkCopy == ASSUME TypeInv, TypeInv', MarkInv, NEW c \in Procs, Copy(c) PROVE MarkInv'
<1>0. p \in [Procs -> Process]
  BY DEF TypeInv, TypeOK
<1>1. ASSUME NEW s \in Symbols, MirrorBlocked(c, s) PROVE MarkInv'
  <2>1. UNCHANGED <<ord, paper, mark, cards, now, p>> /\ want' \subseteq want
    BY <1>1 DEF MirrorBlocked, Refuse, broker, tables
  <2> QED BY <2>1, MarkStill
<1>2. ASSUME NEW s \in Symbols, Mirror(c, s) PROVE MarkInv'
  <2>1. Others(c) /\ p'[c].pc = "ahead" /\ p'[c].s = s
    BY <1>2, MirrorFacts
  <2>2. UNCHANGED <<ord, paper, mark, cards, now>> /\ want' \subseteq want /\ s \in want
    BY <1>2 DEF Mirror, broker, tables
  <2>3. CopiedExitIsStrategy' /\ \A o \in Orders : WatchAt(cards'[o], ord, paper, mark, now)
    BY <2>2 DEF MarkInv, CopiedExitIsStrategy
  <2>4. paper[s] = "closing" => mark[s] = now
    BY <2>2 DEF MarkInv, ClosingOK
  <2> QED BY <2>1, <2>2, <2>3, <2>4, SameOrders, EvolvesOnward, MarkMoves
<1>3. CASE WriteAhead(c)
  <2>1. Others(c) /\ p'[c].pc = "remember" /\ p'[c].s = p[c].s /\ p[c].pc = "ahead"
    BY <1>3, WriteAheadFacts DEF WriteAhead
  <2>2. UNCHANGED <<ord, paper, want, mark, cards, now>>
    BY <1>3 DEF WriteAhead, broker, papers
  <2> QED BY <2>1, <2>2, SameOrders, EvolvesOnward, MarkAside DEF EntryPcs
<1>4. CASE remember_stop(c)
  <2>1. Others(c) /\ p'[c].pc = "post" /\ p'[c].s = p[c].s /\ p[c].pc = "remember"
    BY <1>0, <1>4, GotoFacts DEF remember_stop, Sections, SameEntry
  <2>2. UNCHANGED <<ord, paper, want, mark, cards, now>>
    BY <1>4 DEF remember_stop, broker, papers
  <2> QED BY <2>1, <2>2, SameOrders, EvolvesOnward, MarkAside DEF EntryPcs
<1>5. CASE PostOrder(c)
  <2>1. Others(c) /\ p'[c].pc \in {"confirm", "halt", "undo"} /\ p'[c].s = p[c].s /\ p[c].pc = "post"
        /\ (Accept(c) \/ UNCHANGED ord)
    BY <1>5, PostFacts DEF PostOrder
  <2>2. UNCHANGED <<paper, want, mark, cards, now>>
    BY <1>5 DEF PostOrder, papers, tables
  <2>3. Onward
    BY <2>1, AcceptOnward, SameOrders, EvolvesOnward
  <2>4. \A o \in Orders : ord'[o].exit = "copy" => ord[o].exit = "copy" /\ ord[o].ends \subseteq ord'[o].ends
    BY <2>1, AcceptFacts
  <2> QED BY <2>1, <2>2, <2>3, <2>4, MarkAside DEF EntryPcs
<1>6. CASE Undo(c) \/ forget_stop(c) \/ Halt(c)
  <2>1. Others(c) /\ p'[c].pc \in {"forget", "halt", "free"}
    BY <1>0, <1>6, GotoFacts, GotoFree, FreeTyped DEF Undo, forget_stop, Halt, Sections
  <2>2. UNCHANGED <<ord, paper, want, mark, cards, now>>
    BY <1>6 DEF Undo, forget_stop, Halt, broker, papers
  <2> QED BY <2>1, <2>2, SameOrders, EvolvesOnward, MarkAside DEF EntryPcs
<1>7. CASE Confirm(c)
  <2>1. Others(c) /\ p'[c].pc = "record" /\ p'[c].s = p[c].s /\ p[c].pc = "confirm"
    BY <1>0, <1>7, GotoFacts DEF Confirm, Sections, SameEntry
  <2>2. UNCHANGED <<ord, paper, want, mark, cards, now>>
    BY <1>7 DEF Confirm, broker, papers
  <2> QED BY <2>1, <2>2, SameOrders, EvolvesOnward, MarkAside DEF EntryPcs
<1>8. CASE record_entry(c)
  <2>0. PICK n \in Orders, s \in Symbols : n = p[c].o /\ s = p[c].s
    BY SectionTypes
  <2>1. /\ Others(c) /\ p'[c].pc = "free" /\ p[c].pc = "record"
        /\ \A q \in Orders : q # n => cards'[q] = cards[q]
        /\ cards'[n].status = "pending_fill" /\ cards'[n].sym = s /\ cards'[n].at = now
        /\ cards'[n].ids = {} /\ ~cards'[n].paper_seen /\ cards'[n].flat = 0
    BY <1>8, <2>0, RecordFacts, FreeTyped DEF record_entry
  <2>2. UNCHANGED <<ord, paper, want, mark, now>>
    BY <1>8 DEF record_entry, broker, papers
  <2>3. paper[s] = "closing" => mark[s] = now
    BY <2>0, <2>1 DEF MarkInv, ClosingOK, EntryPcs
  <2>4. WatchAt(cards'[n], ord, paper, mark, now)
    BY <2>1, <2>3, MarkTypes DEF WatchAt
  <2>5. \A o \in Orders : WatchAt(cards'[o], ord, paper, mark, now)
    BY <2>1, <2>4 DEF MarkInv
  <2>6. CopiedExitIsStrategy'
    BY <2>2 DEF MarkInv, CopiedExitIsStrategy
  <2> QED BY <2>1, <2>2, <2>5, <2>6, SameOrders, EvolvesOnward, MarkMoves DEF EntryPcs
<1>9. CASE CopyRaises(c)
  BY <1>9, MarkEnds DEF CopyRaises
<1> QED BY <1>1, <1>2, <1>3, <1>4, <1>5, <1>6, <1>7, <1>8, <1>9 DEF Copy

LEMMA MarkMaintain == ASSUME TypeInv, TypeInv', MarkInv, NEW c \in Procs, Maintain(c) PROVE MarkInv'
<1>1. CASE ReconcileReadFails(c)
  <2>1. UNCHANGED <<ord, paper, want, mark, cards, now, p>>
    BY <1>1 DEF ReconcileReadFails, broker, papers
  <2> QED BY <2>1, MarkStill
<1>2. CASE Reconcile(c)
  <2>1. Others(c) /\ p'[c].pc = "reconcile"
    BY <1>2, ReconcileFacts
  <2>2. UNCHANGED <<ord, paper, want, mark, cards, now>>
    BY <1>2 DEF Reconcile, broker, papers
  <2> QED BY <2>1, <2>2, SameOrders, EvolvesOnward, MarkAside DEF EntryPcs
<1>3. ASSUME NEW o \in Orders, CloseUnprotected(c, o) PROVE MarkInv'
  <2>1. /\ Others(c) /\ p'[c].pc = "reconcile" /\ Evolves
        /\ \A q \in Orders : ord'[q].ends = ord[q].ends /\ (ord'[q].exit # ord[q].exit => ord'[q].exit = "bot")
    BY <1>3, CloseFacts
  <2>2. UNCHANGED <<paper, want, mark, cards, now>>
    BY <1>3 DEF CloseUnprotected, papers
  <2> QED BY <2>1, <2>2, EvolvesOnward, MarkAside DEF EntryPcs
<1>4. CASE ReconcileSave(c)
  <2>1. Others(c) /\ p'[c].pc = "free"
    BY <1>4, GotoFree, FreeTyped DEF ReconcileSave, TypeInv, TypeOK
  <2>2. UNCHANGED <<ord, paper, want, mark, cards, now>>
    BY <1>4 DEF ReconcileSave, broker, papers
  <2> QED BY <2>1, <2>2, SameOrders, EvolvesOnward, MarkAside DEF EntryPcs
<1> QED BY <1>1, <1>2, <1>3, <1>4 DEF Maintain


LEMMA MarkBackup ==
  ASSUME TypeInv, TypeInv', MarkInv, NEW c \in Procs,
         CheckBackupStops(c) \/ BackupSave(c) \/ \E s \in Symbols : BackupStop(c, s)
  PROVE  MarkInv'
<1>1. CASE CheckBackupStops(c)
  <2>1. Others(c) /\ p'[c].pc = "backup"
    BY <1>1, CheckFacts
  <2>2. UNCHANGED <<ord, paper, want, mark, cards, now>>
    BY <1>1 DEF CheckBackupStops, broker, papers, tables
  <2> QED BY <2>1, <2>2, SameOrders, EvolvesOnward, MarkAside DEF EntryPcs
<1>2. CASE BackupSave(c)
  <2>1. Others(c) /\ p'[c].pc = "free"
    BY <1>2, BackupSaveFacts, FreeTyped
  <2>2. UNCHANGED <<ord, paper, want, mark, cards, now>>
    BY <1>2 DEF BackupSave, broker, papers
  <2> QED BY <2>1, <2>2, SameOrders, EvolvesOnward, MarkAside DEF EntryPcs
<1>3. ASSUME NEW s \in Symbols, BackupStop(c, s) PROVE MarkInv'
  <2> DEFINE mine == {o \in p[c].pos : ord[o].sym = s}
  <2>1. Others(c) /\ p'[c].pc = "backup" /\ (UNCHANGED ord \/ ord' = ClosedBy(mine, "bot"))
    BY <1>3, BackupStopFacts
  <2> HIDE DEF mine
  <2>2. UNCHANGED <<paper, want, mark, cards, now>>
    BY <1>3 DEF BackupStop, papers
  <2>3. /\ Evolves
        /\ \A q \in Orders : ord'[q].ends = ord[q].ends /\ (ord'[q].exit # ord[q].exit => ord'[q].exit = "bot")
    <3>1. CASE UNCHANGED ord
      BY <3>1, SameOrders
    <3>2. CASE ord' = ClosedBy(mine, "bot")
      BY <3>2, MarkTypes, ClosedFacts
    <3> QED BY <2>1, <3>1, <3>2
  <2> QED BY <2>1, <2>2, <2>3, EvolvesOnward, MarkAside DEF EntryPcs
<1> QED BY <1>1, <1>2, <1>3

\* A card that reads flat often enough is due: not all of these reads missed a position.
LEMMA MarkRead ==
  ASSUME TypeInv, TypeInv', MarkInv, FlatReads >= 2, NEW c \in Procs, CopyPaperExits(c)
  PROVE  MarkInv'
<1>1. Others(c) /\ p'[c].pc = "exit"
  BY CopyReadFacts
<1>2. PICK held, skip :
        /\ held \subseteq {s \in Symbols : paper[s] # "flat"}
        /\ \A s \in Symbols \ held : paper[s] = "flat" \/ FirstFlat(s)
        /\ p'[c].cards = [o \in Orders |-> CountFlat(o, held, skip)]
        /\ p'[c].due = {o \in Orders : /\ Following(o) /\ cards[o].sym \notin held \cup skip
                                       /\ p'[c].cards[o].flat >= FlatReads}
  BY CopyReadFacts
<1>3. UNCHANGED <<ord, paper, want, mark, cards, now>>
  BY DEF CopyPaperExits, broker, papers, tables
<1>4. FlatReads \in Nat /\ NoCard.status = "none" /\ NoCard.flat = 0 /\ NoCard.at = 0 /\ NoCard.ids = {}
  BY ConstantTypes DEF NoCard
<1>5. ASSUME NEW o \in Orders
      PROVE  /\ WatchAt(p'[c].cards[o], ord, paper, mark, now)
             /\ o \in p'[c].due => DueAt(p'[c].cards[o], ord, mark, now)
  <2>1. PICK card \in Card : card = cards[o]
    BY MarkTypes
  <2>2. PICK n : n = p'[c].cards[o] /\ n = CountFlat(o, held, skip)
    BY <1>2
  <2>3. /\ n \in Card
        /\ \/ n = NoCard
           \/ /\ card.status = "open" /\ n.status = "open" /\ card.ids # {}
              /\ n.sym = card.sym /\ n.at = card.at /\ n.ids = card.ids /\ n.detached = card.detached
              /\ \/ n.paper_seen = card.paper_seen /\ n.flat = card.flat
                 \/ /\ ~n.detached /\ n.paper_seen /\ n.flat = 0 /\ card.sym \in held
                 \/ /\ ~n.detached /\ n.paper_seen /\ card.paper_seen /\ card.sym \notin held
                    /\ n.flat = card.flat + 1
    BY <2>1, <2>2, MarkTypes, CountFlatFacts
  <2>4. WatchAt(card, ord, paper, mark, now)
    BY <2>1 DEF MarkInv
  <2>5. CASE n = NoCard
    <3>1. WatchAt(n, ord, paper, mark, now)
      BY <1>4, <2>5, MarkTypes DEF WatchAt, NoCard
    <3>2. o \notin p'[c].due
      BY <1>2, <1>4, <2>2, <2>5
    <3> QED BY <2>2, <3>1, <3>2
  <2>6. CASE /\ card.status = "open" /\ n.status = "open" /\ card.ids # {}
             /\ n.sym = card.sym /\ n.at = card.at /\ n.ids = card.ids /\ n.detached = card.detached
             /\ \/ n.paper_seen = card.paper_seen /\ n.flat = card.flat
                \/ /\ ~n.detached /\ n.paper_seen /\ n.flat = 0 /\ card.sym \in held
                \/ /\ ~n.detached /\ n.paper_seen /\ card.paper_seen /\ card.sym \notin held
                   /\ n.flat = card.flat + 1
    <3>1. DueAt(card, ord, mark, now) => DueAt(n, ord, mark, now)
      BY <2>6 DEF DueAt, MarkedAt
    <3>2. paper[card.sym] = "flat" => card.sym \notin held
      BY <1>2
    <3>3. WatchAt(n, ord, paper, mark, now)
      BY <2>4, <2>6, <3>1, <3>2 DEF WatchAt
    <3>4. ASSUME o \in p'[c].due PROVE DueAt(n, ord, mark, now)
      <4>1. Following(o) /\ card.sym \notin held /\ n.flat >= FlatReads
        BY <1>2, <2>1, <2>2, <3>4
      <4>2. card.flat > 0 /\ card.paper_seen
        BY <1>4, <2>4, <2>6, <4>1, CardType DEF WatchAt
      <4>3. ~FirstFlat(card.sym)
        BY <2>1, <4>1, <4>2, CardType DEF FirstFlat
      <4>4. paper[card.sym] = "flat"
        BY <1>2, <4>1, <4>3, CardType
      <4>5. ~card.detached
        BY <2>1, <4>1 DEF Following
      <4> QED BY <2>4, <2>6, <3>1, <4>2, <4>4, <4>5 DEF WatchAt
    <3> QED BY <2>2, <3>3, <3>4
  <2> QED BY <2>3, <2>5, <2>6
<1>6. CopiedExitIsStrategy' /\ \A o \in Orders : WatchAt(cards'[o], ord, paper, mark, now)
  BY <1>3 DEF MarkInv, CopiedExitIsStrategy
<1>7. p'[c].due \subseteq Orders
  BY <1>2
<1> QED BY <1>1, <1>3, <1>5, <1>6, <1>7, SameOrders, EvolvesOnward, MarkMoves DEF EntryPcs

\* What is closed as a copy was due and is not marked: a strategy ended it.
LEMMA MarkExit ==
  ASSUME TypeInv, TypeInv', MarkInv, NEW c \in Procs, NEW o \in Orders, CopyExit(c, o)
  PROVE  MarkInv'
<1>0. PICK card : card = p[c].cards[o]
  OBVIOUS
<1>1. /\ Others(c) /\ p[c].pc = "exit" /\ p'[c].pc = "exit" /\ o \in p[c].due /\ p'[c].due = p[c].due \ {o}
      /\ card \in Card
      /\ \A q \in Orders : q # o => p'[c].cards[q] = p[c].cards[q]
      /\ \/ p'[c].cards = p[c].cards /\ UNCHANGED ord
         \/ p'[c].cards[o] = [card EXCEPT !.detached = TRUE] /\ UNCHANGED ord
         \/ /\ p'[c].cards[o] = [card EXCEPT !.status = "closed"] /\ ~SafetyFlatten(card)
            /\ ord' = ClosedBy(card.ids, "copy")
  BY <1>0, CopyExitFacts
<1>2. UNCHANGED <<paper, want, mark, cards, now>>
  BY DEF CopyExit, papers
<1>3. /\ \A q \in Orders : WatchAt(p[c].cards[q], ord, paper, mark, now)
      /\ \A q \in p[c].due : DueAt(p[c].cards[q], ord, mark, now)
      /\ p[c].due \in SUBSET Orders
  BY <1>1, MarkTypes DEF MarkInv, WatchSection
<1>4. WatchAt(card, ord, paper, mark, now) /\ DueAt(card, ord, mark, now)
  BY <1>0, <1>1, <1>3
<1>5. Evolves
  BY <1>1, MarkTypes, SameOrders, ClosedFacts
<1>6. WatchAt(p'[c].cards[o], ord, paper, mark, now)
  <2>1. PICK n : n = p'[c].cards[o]
    OBVIOUS
  <2>2. CASE n = card
    BY <1>4, <2>1, <2>2
  <2>3. CASE n = [card EXCEPT !.detached = TRUE]
    <3>1. n.status = card.status /\ n.sym = card.sym /\ n.at = card.at /\ n.ids = card.ids
          /\ n.detached /\ n.paper_seen = card.paper_seen /\ n.flat = card.flat
      BY <1>1, <2>3 DEF Card
    <3> QED BY <1>4, <2>1, <3>1 DEF WatchAt
  <2>4. CASE n = [card EXCEPT !.status = "closed"]
    <3>1. n.status = "closed" /\ n.sym = card.sym /\ n.at = card.at /\ n.ids = card.ids
          /\ n.paper_seen = card.paper_seen /\ n.flat = card.flat
      BY <1>1, <2>4 DEF Card
    <3> QED BY <1>4, <2>1, <3>1 DEF WatchAt, DueAt
  <2> QED BY <1>0, <1>1, <2>1, <2>2, <2>3, <2>4
<1>7. \A q \in Orders : WatchAt(p'[c].cards[q], ord, paper, mark, now)
  BY <1>1, <1>3, <1>6
<1>8. \A q \in p'[c].due : DueAt(p'[c].cards[q], ord, mark, now)
  BY <1>1, <1>3
<1>9. CopiedExitIsStrategy'
  <2> SUFFICES ASSUME NEW q \in Orders, ord'[q].exit = "copy" PROVE "strategy" \in ord'[q].ends
    BY DEF CopiedExitIsStrategy
  <2>1. CASE ord'[q].exit = ord[q].exit
    BY <1>5, <2>1 DEF Evolves, MarkInv, CopiedExitIsStrategy
  <2>2. CASE ord'[q].exit # ord[q].exit
    <3>1. ~SafetyFlatten(card) /\ ord' = ClosedBy(card.ids, "copy")
      BY <1>1, <2>2
    <3>2. q \in card.ids /\ ord[q].st = "open" /\ ord'[q].ends = ord[q].ends
      BY <2>2, <3>1, MarkTypes, ClosedFacts
    <3>3. ~MarkedAt(card, mark, now)
      BY <3>1 DEF SafetyFlatten, MarkedAt
    <3> QED BY <1>4, <3>2, <3>3 DEF DueAt, Unended
  <2> QED BY <2>1, <2>2
<1>10. \A q \in Orders : WatchAt(cards'[q], ord, paper, mark, now)
  BY <1>2 DEF MarkInv
<1> QED BY <1>1, <1>2, <1>5, <1>7, <1>8, <1>9, <1>10, EvolvesOnward, MarkMoves DEF EntryPcs


LEMMA MarkUpdate ==
  ASSUME TypeInv, TypeInv', MarkInv, NEW c \in Procs, UpdateScorecard(c)
  PROVE  MarkInv'
<1>1. /\ Others(c) /\ p'[c].pc = "score"
      /\ p'[c].cards = [o \in Orders |-> IF Live(cards, o) THEN Scored(cards[o], Positions) ELSE NoCard]
  BY UpdateFacts
<1>2. UNCHANGED <<ord, paper, want, mark, cards, now>>
  BY DEF UpdateScorecard, broker, papers, tables
<1>3. ASSUME NEW o \in Orders PROVE WatchAt(p'[c].cards[o], ord, paper, mark, now)
  <2>1. CASE ~Live(cards, o)
    <3>1. p'[c].cards[o] = NoCard
      BY <1>1, <2>1
    <3> QED BY <3>1, MarkTypes DEF WatchAt, NoCard
  <2>2. CASE Live(cards, o)
    <3>1. PICK card, n, held : card = cards[o] /\ n = Scored(card, Positions) /\ held = HeldBy(card, Positions)
      OBVIOUS
    <3>2. card \in Card /\ card.status \in {"pending_fill", "open"} /\ Positions \in SUBSET Orders
      BY <2>2, <3>1, MarkTypes DEF Live, Positions
    <3>3. /\ n.sym = card.sym /\ n.at = card.at /\ n.detached = card.detached
          /\ n.paper_seen = card.paper_seen /\ n.flat = card.flat
          /\ \/ n = card
             \/ card.status = "pending_fill" /\ n.status = "open" /\ n.ids = held
             \/ n.status \in {"closed", "not_filled"} /\ n.ids = card.ids
      BY <3>1, <3>2, ScoredFacts
    <3>4. WatchAt(card, ord, paper, mark, now)
      BY <3>1 DEF MarkInv
    <3>5. \A q \in held : ord[q].st # "none" /\ ord[q].sym = card.sym
      BY <3>1, <3>4 DEF HeldBy, Positions, WatchAt
    <3>6. WatchAt(n, ord, paper, mark, now)
      <4>1. CASE n = card
        BY <3>4, <4>1
      <4>2. CASE card.status = "pending_fill" /\ n.status = "open" /\ n.ids = held
        BY <3>3, <3>4, <3>5, <4>2 DEF WatchAt
      <4>3. CASE n.status \in {"closed", "not_filled"} /\ n.ids = card.ids
        BY <3>2, <3>3, <3>4, <4>3 DEF WatchAt
      <4> QED BY <3>3, <4>1, <4>2, <4>3
    <3>7. p'[c].cards[o] = n
      BY <1>1, <2>2, <3>1
    <3> QED BY <3>6, <3>7
  <2> QED BY <2>1, <2>2
<1>4. CopiedExitIsStrategy' /\ \A o \in Orders : WatchAt(cards'[o], ord, paper, mark, now)
  BY <1>2 DEF MarkInv, CopiedExitIsStrategy
<1> QED BY <1>1, <1>2, <1>3, <1>4, SameOrders, EvolvesOnward, MarkMoves DEF EntryPcs

LEMMA MarkSave ==
  ASSUME TypeInv, TypeInv', MarkInv, NEW c \in Procs, ExitSave(c) \/ ScorecardSave(c)
  PROVE  MarkInv'
<1>1. /\ Others(c) /\ p'[c].pc = "free" /\ p[c].pc \in {"exit", "score"}
      /\ \A o \in Orders : cards'[o] = cards[o] \/ cards'[o] = p[c].cards[o]
  BY SaveFacts, FreeTyped DEF ExitSave, ScorecardSave
<1>2. UNCHANGED <<ord, paper, want, mark, now>>
  BY DEF ExitSave, ScorecardSave, broker, papers
<1>3. \A o \in Orders : WatchAt(cards'[o], ord, paper, mark, now)
  BY <1>1 DEF MarkInv, WatchSection
<1>4. CopiedExitIsStrategy'
  BY <1>2 DEF MarkInv, CopiedExitIsStrategy
<1> QED BY <1>1, <1>2, <1>3, <1>4, SameOrders, EvolvesOnward, MarkMoves DEF EntryPcs

LEMMA MarkTick ==
  ASSUME TypeInv, TypeInv', MarkInv, FlatReads >= 2, NEW c \in Procs, Tick(c)
  PROVE  MarkInv'
<1>1. CASE GuardStepFails(c) \/ CopyNothing(c)
  <2>1. UNCHANGED <<ord, paper, want, mark, cards, now, p>>
    BY <1>1 DEF GuardStepFails, CopyNothing, broker, papers, tables
  <2> QED BY <2>1, MarkStill
<1> QED BY <1>1, MarkBackup, MarkRead, MarkExit, MarkUpdate, MarkSave DEF Tick

LEMMA MarkInitially == Init => MarkInv
<1> SUFFICES ASSUME Init PROVE MarkInv
  OBVIOUS
<1>1. /\ \A o \in Orders : ord[o].exit = "none" /\ cards[o] = NoCard
      /\ \A s \in Symbols : paper[s] = "flat" /\ mark[s] = -1
      /\ now = 0 /\ \A c \in Procs : p[c].pc = "free"
  BY FreeTyped DEF Init, NoOrder, Never
<1>2. \A o \in Orders : WatchAt(cards[o], ord, paper, mark, now)
  BY <1>1 DEF WatchAt, NoCard
<1>3. ClosingOK /\ CopiedExitIsStrategy /\ \A c \in Procs : WatchSection(c)
  BY <1>1 DEF ClosingOK, CopiedExitIsStrategy, WatchSection
<1> QED BY <1>1, <1>2, <1>3 DEF MarkInv

LEMMA MarkKept ==
  ASSUME DailySessions, FlatReads >= 2
  PROVE  TypeInv /\ TypeInv' /\ MarkInv /\ [Next]_vars => MarkInv'
<1> SUFFICES ASSUME TypeInv, TypeInv', MarkInv, [Next]_vars PROVE MarkInv'
  OBVIOUS
<1>1. CASE UNCHANGED vars
  <2>1. UNCHANGED <<ord, paper, want, mark, cards, now, p>>
    BY <1>1 DEF vars, broker, papers, tables
  <2> QED BY <2>1, MarkStill
<1> QED BY <1>1, MarkExternal, MarkPass, MarkCopy, MarkMaintain, MarkTick, MarkEnds DEF Next, Crash

\* A real position is closed as a copy only after a strategy ended its paper position: a read
\* that misses a position is not repeated, a process that dies reads the paper account again,
\* and every safety flatten that fills was marked within the day that _safety_flatten looks
\* back.  This holds for any number of containers, whatever becomes of the orders and whatever
\* process dies, where the market opens at least every other half day.
THEOREM CopiedExitsAreStrategies ==
  ASSUME DailySessions, FlatReads >= 2
  PROVE  Spec => []CopiedExitIsStrategy
<1>1. MarkInv => CopiedExitIsStrategy
  BY DEF MarkInv
<1>2. TypeInv /\ TypeInv' /\ MarkInv /\ [Next]_vars => MarkInv'
  BY MarkKept
<1> QED BY <1>1, <1>2, TypesInitially, TypesKept, MarkInitially, PTL DEF Spec
=============================================================================
