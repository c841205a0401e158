------------------------------- MODULE EtoroLive -------------------------------
(***************************************************************************)
(* The real-money eToro account that follows the Alpaca paper account       *)
(* (app/broker/etoro_live_*.py).  The mirror copies paper entries, reconcile*)
(* refreshes its view of the account, and the guard's tick runs the backup  *)
(* stops, the copy of paper exits and the scorecard.                        *)
(*                                                                          *)
(* All of them share JSON rows of runtime_state, loaded and saved whole,    *)
(* under a lock that is private to a process: p[c] is the section that      *)
(* holds the lock of process c, g[c] the place of its guard thread between  *)
(* sections.  A restart or a deploy is a crash of one process.              *)
(*                                                                          *)
(*   ord      orders at eToro (external): a position is an order that filled*)
(*   low      symbols whose price is at or below the intended stop          *)
(*   paper    the paper account's positions                                 *)
(*   want     paper entries the execution thread has yet to offer           *)
(*   row      etoro_live:state; halted, fails: the halt flag, failed reads  *)
(*   stops    etoro_live:intended_stops;  cards: etoro_live:scorecard       *)
(*   mark     paper_safety_flatten;  kill: automation:kill_switch           *)
(*   now      time in half days                                             *)
(***************************************************************************)
EXTENDS Integers, FiniteSets

CONSTANTS
    Procs,          \* containers: one, or two during a deploy
    Symbols,
    MaxOrders,      \* bound: orders of the mirror
    DailyCap,       \* HARD_MAX_TRADES_PER_DAY
    OpenCap,        \* HARD_MAX_OPEN_POSITIONS
    FlatReads,      \* FLAT_READS_TO_CLOSE
    ReadFailures,   \* RECONCILE_FAILURES_TO_HALT
    MaxNow,         \* bound: the last half day
    OpenTimes,      \* half days in which the US market is open
    Faults,         \* the failures and events that may happen
    MaxFaults       \* bound: how many failures and emergency stops

Times == 0..MaxNow
Orders == 1..MaxOrders
Never == -1
Hours24 == 2        \* UNSEEN_GRACE, NOT_FILLED_AFTER and SAFETY_WINDOW in half days
FaultNames == {"crash", "timeout", "reject", "limit", "refuse", "read", "close", "misread",
               "bare", "safety", "kill", "gate", "low", "clear", "raise"}

ASSUME EtoroLiveConstants ==
    /\ Procs # {} /\ IsFiniteSet(Procs)
    /\ Symbols # {} /\ IsFiniteSet(Symbols)
    /\ {MaxOrders, DailyCap, OpenCap, FlatReads, ReadFailures} \subseteq Nat \ {0}
    /\ MaxNow \in Nat /\ OpenTimes \subseteq Times
    /\ Faults \subseteq FaultNames /\ MaxFaults \in Nat

VARIABLES ord, low, paper, want, row, halted, fails, stops, cards, mark, kill,
          now, p, g, faults

broker == <<ord, low>>
papers == <<paper, want>>
tables == <<row, halted, fails, stops, cards, mark, kill>>
vars == <<broker, papers, tables, now, p, g, faults>>

-----------------------------------------------------------------------------
(* State *)

Day(t) == t \div 2

\* exit: who closed the position, "copy" being the copy of a paper exit.  Three histories:
\* ends, how the paper position ended while the order was alive; late, a fill more than a day
\* after the order; astray, an order whose mirror() ended before its card was written, or one
\* sent beside such an order.
Order == [st: {"none", "queued", "open", "closed"}, sym: Symbols, at: Times, bare: BOOLEAN,
          exit: {"none", "etoro", "bot", "copy"}, ends: SUBSET {"strategy", "safety"},
          late: BOOLEAN, astray: BOOLEAN]
NoOrder == [st |-> "none", sym |-> CHOOSE s \in Symbols : TRUE, at |-> 0, bare |-> FALSE,
            exit |-> "none", ends |-> {}, late |-> FALSE, astray |-> FALSE]

Row == [day: 0..Day(MaxNow), trades_today: 0..(MaxOrders + DailyCap), open_symbols: SUBSET Symbols]
NoStop == [at |-> Never, seen |-> FALSE]
Stop == [at: Times \cup {Never}, seen: BOOLEAN]
Card == [status: {"none", "pending_fill", "open", "closed", "not_filled"}, sym: Symbols,
         at: Times, ids: SUBSET Orders, paper_seen: BOOLEAN, flat: 0..FlatReads,
         detached: BOOLEAN]
NoCard == [status |-> "none", sym |-> NoOrder.sym, at |-> 0, ids |-> {}, paper_seen |-> FALSE,
           flat |-> 0, detached |-> FALSE]

Live(cs, o) == cs[o].status \in {"pending_fill", "open"}

Sections == {"free", "ahead", "remember", "post", "undo", "forget", "halt", "confirm", "record",
             "reconcile", "backup", "exit", "score"}
Process == [pc: Sections, s: Symbols, o: Orders, refused: BOOLEAN, row: Row, before: Row,
            pos: SUBSET Orders, stops: [Symbols -> Stop], todo: SUBSET Symbols,
            drop: SUBSET Symbols, cards: [Orders -> Card], due: SUBSET Orders]
NoRow == [day |-> 0, trades_today |-> 0, open_symbols |-> {}]
Free == [pc |-> "free", s |-> NoOrder.sym, o |-> 1, refused |-> FALSE, row |-> NoRow,
         before |-> NoRow, pos |-> {}, stops |-> [s \in Symbols |-> NoStop], todo |-> {},
         drop |-> {}, cards |-> [o \in Orders |-> NoCard], due |-> {}]

Guard == [stage: {"backup", "exit", "score"}, closes: SUBSET Symbols]
GuardStart == [stage |-> "backup", closes |-> {}]

Init ==
    /\ ord = [o \in Orders |-> NoOrder]
    /\ low = {}
    /\ paper = [s \in Symbols |-> "flat"]
    /\ want = {}
    /\ row = NoRow
    /\ halted = FALSE
    /\ fails = 0
    /\ stops = [s \in Symbols |-> NoStop]
    /\ cards = [o \in Orders |-> NoCard]
    /\ mark = [s \in Symbols |-> Never]
    /\ kill = FALSE
    /\ now = 0
    /\ p = [c \in Procs |-> Free]
    /\ g = [c \in Procs |-> GuardStart]
    /\ faults = 0

Alive(o) == ord[o].st \in {"queued", "open"}
Positions == {o \in Orders : ord[o].st = "open"}
Aged(o) == now - ord[o].at >= Hours24
MarketOpen == now \in OpenTimes

Fault(f) == f \in Faults /\ faults < MaxFaults /\ faults' = faults + 1
NoFault == UNCHANGED faults
Event(e) == e \in Faults /\ NoFault

-----------------------------------------------------------------------------
(* eToro (external) *)

Broker(o, new) ==
    /\ ord' = [ord EXCEPT ![o] = new]
    /\ UNCHANGED <<low, papers, tables, now, p, g>>

OrderFills(o) ==
    /\ ord[o].st = "queued"
    /\ \/ NoFault /\ Broker(o, [ord[o] EXCEPT !.st = "open", !.late = Aged(o)])
       \/ Event("bare") /\ Broker(o, [ord[o] EXCEPT !.st = "open", !.late = Aged(o), !.bare = TRUE])

\* eToro closes the position at its own stop or target, or drops the order.
EtoroCloses(o) ==
    /\ Alive(o)
    /\ NoFault
    /\ Broker(o, [ord[o] EXCEPT !.st = "closed", !.exit = "etoro"])

PriceFalls(s) ==
    /\ s \notin low
    /\ Event("low")
    /\ low' = low \cup {s}
    /\ UNCHANGED <<ord, papers, tables, now, p, g>>

PriceRises(s) ==
    /\ s \in low
    /\ low' = low \ {s}
    /\ UNCHANGED <<ord, papers, tables, now, p, g, faults>>

ClosedBy(os, who) == [o \in Orders |-> IF o \in os /\ ord[o].st = "open"
                                       THEN [ord[o] EXCEPT !.st = "closed", !.exit = who]
                                       ELSE ord[o]]

-----------------------------------------------------------------------------
(* The paper account *)

\* A paper entry is submitted and then offered to the mirror.
PaperEnters(s) ==
    /\ paper[s] = "flat"
    /\ MarketOpen /\ ~kill
    /\ paper' = [paper EXCEPT ![s] = "held"]
    /\ want' = want \cup {s}
    /\ UNCHANGED <<broker, tables, now, p, g, faults>>

PaperEnds(s, how) ==
    /\ paper' = [paper EXCEPT ![s] = "flat"]
    /\ ord' = [o \in Orders |-> IF Alive(o) /\ ord[o].sym = s
                               THEN [ord[o] EXCEPT !.ends = @ \cup {how}] ELSE ord[o]]
    /\ UNCHANGED <<low, want, tables, now, p, g, faults>>

\* A stop, target, time limit or signal exit.
PaperExits(s) ==
    /\ paper[s] = "held"
    /\ MarketOpen
    /\ PaperEnds(s, "strategy")

\* Reconciliation marks the flatten of an unprotected position, then submits it.
mark_paper_safety_flatten(s) ==
    /\ paper[s] = "held"
    /\ Event("safety")
    /\ mark' = [mark EXCEPT ![s] = now]
    /\ paper' = [paper EXCEPT ![s] = "closing"]
    /\ UNCHANGED <<broker, want, row, halted, fails, stops, cards, kill, now, p, g>>

\* The emergency stop marks all symbols, then closes all positions.
KillSwitchOn ==
    /\ ~kill
    /\ Fault("kill")
    /\ kill' = TRUE
    /\ mark' = [s \in Symbols |-> now]
    /\ paper' = [s \in Symbols |-> IF paper[s] = "held" THEN "closing" ELSE paper[s]]
    /\ UNCHANGED <<broker, want, row, halted, fails, stops, cards, now, p, g>>

KillSwitchOff ==
    /\ kill
    /\ kill' = FALSE
    /\ UNCHANGED <<broker, papers, row, halted, fails, stops, cards, mark, now, p, g, faults>>

\* A flatten submitted after hours fills at the next open.
SafetyFlattenFills(s) ==
    /\ paper[s] = "closing"
    /\ MarketOpen
    /\ PaperEnds(s, "safety")

-----------------------------------------------------------------------------
(* The mirror *)

\* _state: the row as of today.
StateToday == IF row.day # Day(now) THEN [row EXCEPT !.day = Day(now), !.trades_today = 0] ELSE row

\* Mutant: the scorecard's pending entries are not counted as open.
effective_without_cards(r) == r.open_symbols

effective_open_symbols(r) == r.open_symbols \cup {cards[o].sym : o \in {q \in Orders : Live(cards, q)}}

\* The reasons the properties tell apart; all other gates are one verdict (fault "gate").
Blocked(s) ==
    LET held == effective_open_symbols(StateToday)
    IN  \/ halted
        \/ StateToday.trades_today >= DailyCap
        \/ s \in held
        \/ Cardinality(held) >= OpenCap

Goto(c, pc) == p' = [p EXCEPT ![c] = IF pc = "free" THEN Free ELSE [p[c] EXCEPT !.pc = pc]]
Refuse(s) ==
    /\ want' = want \ {s}
    /\ UNCHANGED <<broker, paper, tables, now, p, g>>

\* mirror: the blockers, the leverage, the stake and the sale of reserve SPY, which may fail.
MirrorBlocked(c, s) ==
    /\ p[c].pc = "free"
    /\ s \in want
    /\ \/ Blocked(s) /\ NoFault
       \/ Fault("gate")
    /\ Refuse(s)

Mirror(c, s) ==
    /\ p[c].pc = "free"
    /\ s \in want
    /\ ~Blocked(s)
    /\ \E o \in Orders : ord[o].st = "none"   \* bound
    /\ p' = [p EXCEPT ![c] = [Free EXCEPT !.pc = "ahead", !.s = s, !.row = StateToday]]
    /\ want' = want \ {s}
    /\ UNCHANGED <<broker, paper, tables, now, g, faults>>

\* Mutant: the count is saved only once the order is confirmed.
WriteAheadUncounted(c) ==
    /\ p[c].pc = "ahead"
    /\ LET r == [p[c].row EXCEPT !.open_symbols = @ \cup {p[c].s}]
       IN  /\ row' = r
           /\ p' = [p EXCEPT ![c].pc = "remember", ![c].before = p[c].row,
                             ![c].row = [r EXCEPT !.trades_today = @ + 1]]
    /\ UNCHANGED <<broker, papers, halted, fails, stops, cards, mark, kill, now, g, faults>>

\* The write-ahead: the count and the symbol, then the stop, before the order is sent.
WriteAhead(c) ==
    /\ p[c].pc = "ahead"
    /\ LET r == [p[c].row EXCEPT !.trades_today = @ + 1,
                                 !.open_symbols = @ \cup {p[c].s}]
       IN  /\ row' = r
           /\ p' = [p EXCEPT ![c].pc = "remember", ![c].before = p[c].row, ![c].row = r]
    /\ UNCHANGED <<broker, papers, halted, fails, stops, cards, mark, kill, now, g, faults>>

remember_stop(c) ==
    /\ p[c].pc = "remember"
    /\ stops' = [stops EXCEPT ![p[c].s] = [at |-> now, seen |-> FALSE]]
    /\ Goto(c, "post")
    /\ UNCHANGED <<broker, papers, row, halted, fails, cards, mark, kill, now, g, faults>>

\* open_market_order_by_amount: accepted; accepted or lost with no answer; rejected,
\* rate-limited before it was sent, or refused with a status 4xx.
NextOrder == CHOOSE o \in Orders : ord[o].st = "none" /\ \A q \in 1..(o - 1) : ord[q].st # "none"
Beside(s) == \E q \in Orders : Alive(q) /\ ord[q].sym = s /\ ord[q].astray
Accept(c) ==
    /\ \E o \in Orders : ord[o].st = "none"
    /\ ord' = [ord EXCEPT ![NextOrder] = [NoOrder EXCEPT !.st = "queued", !.sym = p[c].s, !.at = now,
                                                         !.astray = Beside(p[c].s)]]
PostOrder(c) ==
    /\ p[c].pc = "post"
    /\ \/ /\ Accept(c) /\ NoFault
          /\ p' = [p EXCEPT ![c].pc = "confirm", ![c].o = NextOrder]
       \/ /\ Fault("timeout") /\ Goto(c, "halt")
          /\ Accept(c) \/ UNCHANGED ord
       \/ /\ Fault("reject") \/ Fault("limit")
          /\ Goto(c, "undo") /\ UNCHANGED ord
       \/ /\ Fault("refuse") /\ UNCHANGED ord
          /\ p' = [p EXCEPT ![c].pc = "undo", ![c].refused = TRUE]
    /\ UNCHANGED <<low, papers, tables, now, g>>

\* Nothing was opened: the row as it was before, and the stop forgotten.
Undo(c) ==
    /\ p[c].pc = "undo"
    /\ row' = p[c].before
    /\ Goto(c, "forget")
    /\ UNCHANGED <<broker, papers, halted, fails, stops, cards, mark, kill, now, g, faults>>

forget_stop(c) ==
    /\ p[c].pc = "forget"
    /\ stops' = [stops EXCEPT ![p[c].s] = NoStop]
    /\ Goto(c, IF p[c].refused THEN "halt" ELSE "free")
    /\ UNCHANGED <<broker, papers, row, halted, fails, cards, mark, kill, now, g, faults>>

Halt(c) ==
    /\ p[c].pc = "halt"
    /\ halted' = TRUE
    /\ Goto(c, "free")
    /\ UNCHANGED <<broker, papers, row, fails, stops, cards, mark, kill, now, g, faults>>

\* The count of successful 1x trades, saved with the whole row.
Confirm(c) ==
    /\ p[c].pc = "confirm"
    /\ row' = p[c].row
    /\ Goto(c, "record")
    /\ UNCHANGED <<broker, papers, halted, fails, stops, cards, mark, kill, now, g, faults>>

record_entry(c) ==
    /\ p[c].pc = "record"
    /\ cards' = [cards EXCEPT ![p[c].o] = [NoCard EXCEPT !.status = "pending_fill",
                                                         !.sym = p[c].s, !.at = now]]
    /\ Goto(c, "free")
    /\ UNCHANGED <<broker, papers, row, halted, fails, stops, mark, kill, now, g, faults>>

\* A section ends where it is; an order in flight whose card is not written goes astray.
Unrecorded(c) == {o \in Orders : /\ p[c].pc \in {"halt", "confirm", "record"}
                                /\ Alive(o) /\ ord[o].sym = p[c].s /\ cards[o].status = "none"}
Ends(c) ==
    /\ ord' = [o \in Orders |-> IF o \in Unrecorded(c) THEN [ord[o] EXCEPT !.astray = TRUE] ELSE ord[o]]
    /\ p' = [p EXCEPT ![c] = Free]
    /\ UNCHANGED <<low, papers, tables, now>>

\* A read or write of the database raises: mirror() ends there and its caller goes on.  Only
\* record_entry's exception is caught, with the same outcome: an order without a card.
CopyRaises(c) ==
    /\ p[c].pc \in {"ahead", "remember", "undo", "forget", "halt", "confirm", "record"}
    /\ Fault("raise")
    /\ Ends(c)
    /\ UNCHANGED g

-----------------------------------------------------------------------------
(* Reconcile *)

ReconcileReadFails(c) ==
    /\ p[c].pc = "free"
    /\ Fault("read")
    /\ fails' = IF fails + 1 < ReadFailures THEN fails + 1 ELSE ReadFailures
    /\ halted' = (halted \/ fails + 1 >= ReadFailures)
    /\ UNCHANGED <<broker, papers, row, stops, cards, mark, kill, now, p, g>>

\* The portfolio is the truth about open symbols: what is not a position is dropped.
Reconcile(c) ==
    /\ p[c].pc = "free"
    /\ fails' = 0
    /\ p' = [p EXCEPT ![c] = [Free EXCEPT !.pc = "reconcile", !.pos = Positions,
                 !.row = [StateToday EXCEPT !.open_symbols = {ord[o].sym : o \in Positions}]]]
    /\ UNCHANGED <<broker, papers, row, halted, stops, cards, mark, kill, now, g, faults>>

\* Mutant: only positions the mirror did not open are checked for a stop.
BareStrangers(c) == {o \in p[c].pos : ord[o].bare /\ ord[o].sym \notin row.open_symbols}

BareIn(c) == {o \in p[c].pos : ord[o].bare}
\* Positions without a stop are closed; a close that fails halts the mirror.
CloseUnprotected(c, o) ==
    /\ p[c].pc = "reconcile"
    /\ o \in BareIn(c)
    /\ \/ NoFault /\ ord' = ClosedBy({o}, "bot") /\ UNCHANGED halted
       \/ Fault("close") /\ halted' = TRUE /\ UNCHANGED ord
    /\ p' = [p EXCEPT ![c].pos = @ \ {o}]
    /\ UNCHANGED <<low, papers, row, fails, stops, cards, mark, kill, now, g>>

ReconcileSave(c) ==
    /\ p[c].pc = "reconcile"
    /\ BareIn(c) = {}
    /\ row' = p[c].row
    /\ Goto(c, "free")
    /\ UNCHANGED <<broker, papers, halted, fails, stops, cards, mark, kill, now, g, faults>>

-----------------------------------------------------------------------------
(* The guard's tick *)

Stage(c, stage, closes) == g' = [g EXCEPT ![c] = [stage |-> stage, closes |-> closes]]
Idle(c, stage) == p[c].pc = "free" /\ g[c].stage = stage
NextStage == [backup |-> "exit", exit |-> "score", score |-> "backup"]

\* A step of the tick that fails, or reads something malformed, changes nothing.
GuardStepFails(c) ==
    /\ p[c].pc = "free"
    /\ Fault("read")
    /\ Stage(c, NextStage[g[c].stage], IF g[c].stage = "score" THEN {} ELSE g[c].closes)
    /\ UNCHANGED <<broker, papers, tables, now, p>>

SymbolsOf(os) == {ord[o].sym : o \in os}
\* Mutant: a stop is dropped the first time its position is not there.
CheckBackupStopsNoGrace(c) ==
    /\ Idle(c, "backup")
    /\ LET known == {s \in Symbols : stops[s] # NoStop}
           held == known \cap SymbolsOf(Positions)
       IN  p' = [p EXCEPT ![c] = [Free EXCEPT !.pc = "backup", !.stops = stops, !.pos = Positions,
                    !.todo = held, !.drop = known \ held]]
    /\ UNCHANGED <<broker, papers, tables, now, g, faults>>

\* Mutant: a position is compared with its stop only the first time it is seen.
CheckBackupStopsOnce(c) ==
    /\ Idle(c, "backup")
    /\ LET known == {s \in Symbols : stops[s] # NoStop}
           held == known \cap SymbolsOf(Positions)
       IN  p' = [p EXCEPT ![c] = [Free EXCEPT !.pc = "backup", !.stops = stops, !.pos = Positions,
                    !.todo = {s \in held : ~stops[s].seen},
                    !.drop = {s \in known \ held : stops[s].seen \/ now - stops[s].at >= Hours24}]]
    /\ UNCHANGED <<broker, papers, tables, now, g, faults>>

\* _check: stops whose position is gone, or was never seen for a day, are to be dropped.
CheckBackupStops(c) ==
    /\ Idle(c, "backup")
    /\ LET known == {s \in Symbols : stops[s] # NoStop}
           held == known \cap SymbolsOf(Positions)
       IN  p' = [p EXCEPT ![c] = [Free EXCEPT !.pc = "backup", !.stops = stops, !.pos = Positions,
                    !.todo = held,
                    !.drop = {s \in known \ held : stops[s].seen \/ now - stops[s].at >= Hours24}]]
    /\ UNCHANGED <<broker, papers, tables, now, g, faults>>

\* The positions of one symbol: kept above the stop, closed at or below it.  A close that
\* fails keeps the stop: silently if rate-limited, else with a halt if it is still open.
BackupStop(c, s) ==
    LET mine == {o \in p[c].pos : ord[o].sym = s}
        gone == {o \in Positions : ord[o].sym = s} = {}
    IN  /\ p[c].pc = "backup"
        /\ s \in p[c].todo
        /\ \/ s \notin low /\ NoFault /\ UNCHANGED <<ord, halted, g>>
              /\ p' = [p EXCEPT ![c].todo = @ \ {s}]
           \/ s \in low /\ NoFault /\ UNCHANGED halted
              /\ ord' = ClosedBy(mine, "bot")
              /\ p' = [p EXCEPT ![c].todo = @ \ {s}, ![c].drop = @ \cup {s}]
              /\ Stage(c, "backup", g[c].closes \cup {s})
           \/ s \in low /\ Fault("limit") /\ UNCHANGED <<ord, halted, g>>
              /\ p' = [p EXCEPT ![c].todo = @ \ {s}]
           \/ s \in low /\ ~gone /\ Fault("close") /\ halted' = TRUE /\ UNCHANGED <<ord, g>>
              /\ p' = [p EXCEPT ![c].todo = @ \ {s}]
        /\ UNCHANGED <<low, papers, row, fails, stops, cards, mark, kill, now>>

\* The merge: only what this pass dropped goes; what it saw is marked seen.
BackupSave(c) ==
    /\ p[c].pc = "backup"
    /\ p[c].todo = {}
    /\ stops' = [s \in Symbols |->
                    IF s \in p[c].drop THEN NoStop
                    ELSE IF stops[s] # NoStop /\ s \in SymbolsOf(p[c].pos)
                                              /\ p[c].stops[s] # NoStop
                         THEN [stops[s] EXCEPT !.seen = TRUE]
                         ELSE stops[s]]
    /\ Goto(c, "free")
    /\ Stage(c, "exit", g[c].closes)
    /\ UNCHANGED <<broker, papers, row, halted, fails, cards, mark, kill, now, faults>>

\* copy_paper_exits: one read of the paper account counts the flat reads of the live cards.
Following(o) == cards[o].status = "open" /\ cards[o].ids # {} /\ ~cards[o].detached
\* Mutant: a flat read starts the count again.
CountFlatOnce(o, held, skip) ==
    IF cards[o].status # "open" \/ cards[o].ids = {} THEN NoCard
    ELSE IF cards[o].detached THEN cards[o]
    ELSE IF cards[o].sym \in held THEN [cards[o] EXCEPT !.paper_seen = TRUE, !.flat = 0]
    ELSE IF ~cards[o].paper_seen \/ cards[o].sym \in skip THEN cards[o]
    ELSE [cards[o] EXCEPT !.flat = 1]

CountFlat(o, held, skip) ==
    IF cards[o].status # "open" \/ cards[o].ids = {} THEN NoCard
    ELSE IF cards[o].detached THEN cards[o]
    ELSE IF cards[o].sym \in held THEN [cards[o] EXCEPT !.paper_seen = TRUE, !.flat = 0]
    ELSE IF ~cards[o].paper_seen \/ cards[o].sym \in skip THEN cards[o]
    ELSE [cards[o] EXCEPT !.flat = IF @ < FlatReads THEN @ + 1 ELSE @]

\* A read may miss a position, but not twice in a row.
FirstFlat(s) == \A o \in Orders : Following(o) /\ cards[o].sym = s => cards[o].flat = 0

CopyPaperExits(c) ==
    /\ Idle(c, "exit")
    /\ MarketOpen /\ (\E o \in Orders : Following(o))
    /\ LET held == {s \in Symbols : paper[s] # "flat"}
           Read(h) == LET cs == [o \in Orders |-> CountFlat(o, h, g[c].closes)]
                      IN  p' = [p EXCEPT ![c] = [Free EXCEPT !.pc = "exit", !.cards = cs,
                             !.due = {o \in Orders : Following(o) /\ cards[o].sym \notin h \cup g[c].closes
                                                     /\ cs[o].flat >= FlatReads}]]
       IN  \/ NoFault /\ Read(held)
           \/ Fault("misread") /\ (\E s \in {q \in held : FirstFlat(q)} : Read(held \ {s}))
    /\ UNCHANGED <<broker, papers, tables, now, g>>

CopyNothing(c) ==
    /\ Idle(c, "exit")
    /\ ~MarketOpen \/ (\A o \in Orders : ~Following(o))
    /\ Stage(c, "score", g[c].closes)
    /\ UNCHANGED <<broker, papers, tables, now, p, faults>>

\* Mutant: only the kill switch, not the marker, tells a safety flatten.
SafetyFlattenKillOnly(card) == kill

\* _safety_flatten: an exit under the kill switch or after a marker of the last day is left.
SafetyFlatten(card) ==
    kill \/ (mark[card.sym] # Never /\ now - mark[card.sym] < Hours24 /\ mark[card.sym] >= card.at)

\* A due card: detached after a safety flatten; else its positions are closed and its stop
\* forgotten; a close that fails is tried again at the next tick.
CopyExit(c, o) ==
    LET card == p[c].cards[o]
    IN  /\ p[c].pc = "exit"
        /\ o \in p[c].due
        /\ \/ /\ SafetyFlatten(card) /\ NoFault
              /\ p' = [p EXCEPT ![c].cards[o].detached = TRUE, ![c].due = @ \ {o}]
              /\ UNCHANGED <<ord, stops>>
           \/ /\ ~SafetyFlatten(card) /\ NoFault
              /\ ord' = ClosedBy(card.ids, "copy")
              /\ stops' = [stops EXCEPT ![card.sym] = NoStop]
              /\ p' = [p EXCEPT ![c].cards[o].status = "closed", ![c].due = @ \ {o}]
           \/ /\ ~SafetyFlatten(card) /\ Fault("close")
              /\ p' = [p EXCEPT ![c].due = @ \ {o}]
              /\ UNCHANGED <<ord, stops>>
        /\ UNCHANGED <<low, papers, row, halted, fails, cards, mark, kill, now, g>>

ExitSave(c) ==
    /\ p[c].pc = "exit"
    /\ p[c].due = {}
    /\ cards' = [o \in Orders |-> IF p[c].cards[o] # NoCard /\ cards[o] # NoCard
                                  THEN p[c].cards[o] ELSE cards[o]]
    /\ Goto(c, "free")
    /\ Stage(c, "score", g[c].closes)
    /\ UNCHANGED <<broker, papers, row, halted, fails, stops, mark, kill, now, faults>>

\* Mutant: an order that is not yet a position counts as not filled.
ScoredImpatient(card, pos) ==
    LET held == IF card.ids # {} THEN card.ids \cap pos ELSE {o \in pos : ord[o].sym = card.sym}
    IN  IF held # {}
        THEN IF card.status = "pending_fill" THEN [card EXCEPT !.status = "open", !.ids = held]
                                             ELSE card
        ELSE [card EXCEPT !.status = IF card.status = "open" THEN "closed" ELSE "not_filled"]

\* update_scorecard for one card: a fill is first matched by symbol, then followed by its
\* positions; gone means closed, and an order not seen for a day is not filled.
Scored(card, pos) ==
    LET held == IF card.ids # {} THEN card.ids \cap pos ELSE {o \in pos : ord[o].sym = card.sym}
    IN  IF held # {}
        THEN IF card.status = "pending_fill" THEN [card EXCEPT !.status = "open", !.ids = held]
                                             ELSE card
        ELSE IF card.status = "open" THEN [card EXCEPT !.status = "closed"]
        ELSE IF now - card.at > Hours24 THEN [card EXCEPT !.status = "not_filled"]
        ELSE card

UpdateScorecard(c) ==
    /\ Idle(c, "score")
    /\ p' = [p EXCEPT ![c] = [Free EXCEPT !.pc = "score", !.cards =
                [o \in Orders |-> IF Live(cards, o) THEN Scored(cards[o], Positions) ELSE NoCard]]]
    /\ UNCHANGED <<broker, papers, tables, now, g, faults>>

ScorecardSave(c) ==
    /\ p[c].pc = "score"
    /\ cards' = [o \in Orders |-> IF p[c].cards[o] # NoCard /\ cards[o] # NoCard
                                  THEN p[c].cards[o] ELSE cards[o]]
    /\ Goto(c, "free")
    /\ Stage(c, "backup", {})
    /\ UNCHANGED <<broker, papers, row, halted, fails, stops, mark, kill, now, faults>>

-----------------------------------------------------------------------------
(* Time, crashes, the operator *)

\* The guard ticks every minute: it acts on a position that reads flat within the session.
Settled == MarketOpen => \A o \in Orders : Following(o) /\ cards[o].paper_seen => paper[cards[o].sym] = "held"

\* Sections are short and a paper entry is offered at once: half a day does not pass in
\* between.  Market orders do not outlive an open session.
Pass ==
    /\ now < MaxNow
    /\ want = {} /\ Settled
    /\ MarketOpen => \A s \in Symbols : paper[s] # "closing"
    /\ \A c \in Procs : p[c].pc = "free"
    /\ now' = now + 1
    /\ UNCHANGED <<broker, papers, tables, p, g, faults>>

\* A process ends anywhere and another one takes its place.
Crash(c) ==
    /\ p[c].pc # "free"
    /\ Fault("crash")
    /\ Ends(c)
    /\ g' = [g EXCEPT ![c] = GuardStart]

\* The bot knows of the order: it has a card, or reconcile has seen its position.
Known(o) == cards[o].status # "none" \/ (ord[o].st = "open" /\ ord[o].sym \in row.open_symbols)

\* The operator clears the halt once no order of unknown fate is left and no pass is running.
ClearHalt ==
    /\ halted
    /\ Event("clear")
    /\ \A o \in Orders : Alive(o) => Known(o)
    /\ \A c \in Procs : p[c].pc = "free"
    /\ halted' = FALSE
    /\ UNCHANGED <<broker, papers, row, fails, stops, cards, mark, kill, now, p, g>>

External ==
    \/ \E o \in Orders : OrderFills(o) \/ EtoroCloses(o)
    \/ \E s \in Symbols : PriceFalls(s) \/ PriceRises(s) \/ PaperEnters(s) \/ PaperExits(s)
                          \/ mark_paper_safety_flatten(s) \/ SafetyFlattenFills(s)
    \/ KillSwitchOn \/ KillSwitchOff \/ ClearHalt

Copy(c) ==
    \/ \E s \in Symbols : MirrorBlocked(c, s) \/ Mirror(c, s)
    \/ WriteAhead(c) \/ remember_stop(c) \/ PostOrder(c) \/ Undo(c) \/ forget_stop(c) \/ Halt(c)
    \/ Confirm(c) \/ record_entry(c) \/ CopyRaises(c)

Maintain(c) ==
    \/ ReconcileReadFails(c) \/ Reconcile(c) \/ ReconcileSave(c)
    \/ \E o \in Orders : CloseUnprotected(c, o)

Tick(c) ==
    \/ GuardStepFails(c)
    \/ CheckBackupStops(c) \/ BackupSave(c) \/ (\E s \in Symbols : BackupStop(c, s))
    \/ CopyPaperExits(c) \/ CopyNothing(c) \/ ExitSave(c) \/ (\E o \in Orders : CopyExit(c, o))
    \/ UpdateScorecard(c) \/ ScorecardSave(c)

Next ==
    \/ External
    \/ \E c \in Procs : Copy(c) \/ Maintain(c) \/ Tick(c) \/ Crash(c)
    \/ Pass

Spec == Init /\ [][Next]_vars

\* A started section ends; the lock's sections are short and periodic, so the guard and
\* maintenance get it again and again; time goes on.
LiveSpec ==
    /\ Spec
    /\ \A c \in Procs : WF_vars(Copy(c)) /\ SF_vars(Reconcile(c)) /\ SF_vars(Tick(c))
                        /\ WF_vars(Maintain(c) /\ p[c].pc # "free")
    /\ WF_vars(Pass)

-----------------------------------------------------------------------------
(* Properties *)

\* The rows, the account and the processes keep their types.
TypeOK ==
    /\ ord \in [Orders -> Order] /\ low \subseteq Symbols
    /\ paper \in [Symbols -> {"flat", "held", "closing"}] /\ want \subseteq Symbols
    /\ row \in Row /\ halted \in BOOLEAN /\ fails \in 0..ReadFailures
    /\ stops \in [Symbols -> Stop] /\ cards \in [Orders -> Card]
    /\ mark \in [Symbols -> Times \cup {Never}] /\ kill \in BOOLEAN
    /\ now \in Times /\ faults \in 0..MaxFaults
    /\ p \in [Procs -> Process] /\ g \in [Procs -> Guard]

\* eToro did not decide about the order within a day: it is still queued, or filled later.
Overdue(o) == ord[o].late \/ (ord[o].st = "queued" /\ Aged(o))

\* Every order at eToro, whatever became of the call that sent it, has its intended stop on
\* record for the backup stop (write-ahead, merge), unless it was undecided for a day or went
\* astray: one rejected beside it, or closed as its copy, forgets its stop.
StopKept == \A o \in Orders : Alive(o) =>
    stops[ord[o].sym] # NoStop \/ Overdue(o) \/ ord[o].astray

\* At most DailyCap orders reach eToro in a day, counting those of unknown fate and those
\* of a process that died (the count is saved before the order is sent).
DailyCapHolds == \A d \in 0..Day(MaxNow) :
    Cardinality({o \in Orders : ord[o].st # "none" /\ Day(ord[o].at) = d}) <= DailyCap

\* No order is sent in a symbol that has a live one (etoro_live_symbol_already_open), though
\* reconcile drops orders that have not filled from the open symbols: unless the earlier one
\* went astray.
OnePerSymbol == \A o, q \in Orders :
    o < q /\ Alive(o) /\ Alive(q) /\ ord[o].sym = ord[q].sym => ord[o].astray

\* The copy of paper exits closes a real position only when a strategy ended its paper
\* position: not on one wrong read, not after a safety flatten.
CopiedExitIsStrategy == \A o \in Orders : ord[o].exit = "copy" => "strategy" \in ord[o].ends

\* A card says closed or not filled only when its order is no more, unless it was undecided for
\* a day or went astray: a position held for days that filled in time keeps an open card.
CardFollowsPosition == \A o \in Orders :
    cards[o].status \in {"closed", "not_filled"} /\ Alive(o) => Overdue(o) \/ ord[o].astray

\* A strategy exit on paper is copied, unless the paper position comes back first.
ExitIsCopied == \A o \in Orders :
    Following(o) /\ cards[o].paper_seen /\ paper[cards[o].sym] = "flat"
        ~> ~Following(o) \/ paper[cards[o].sym] # "flat"

\* A position whose price stays at or below its intended stop is closed.
LowIsClosed == \A o \in Orders :
    ord[o].st = "open" /\ ~ord[o].late /\ ord[o].sym \in low
        ~> ord[o].st = "closed" \/ ord[o].sym \notin low

\* A position eToro holds without a stop is closed by reconcile.
BareIsClosed == \A o \in Orders : ord[o].st = "open" /\ ord[o].bare ~> ord[o].st = "closed"
=============================================================================
