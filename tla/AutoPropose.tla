----------------------------- MODULE AutoPropose -----------------------------
(***************************************************************************)
(* Scan candidates become paper orders: auto_propose_candidates             *)
(* (app/workflow/operations.py) with the paper-only rules of                *)
(* app/workflow/paper_only.py, the unattended approval of                   *)
(* app/automation/unattended.py and the risk gate of app/risk/, both at     *)
(* the proposal and, under _ENTRY_LOCK, at the order.  An entry is either   *)
(* eligible (the eToro mirror copies it) or paper-only, and a paper-only    *)
(* one must leave room for the eligible ones.                               *)
(*                                                                          *)
(*   entry   a proposal with its queue item, its execution row (what the    *)
(*           program knows of its order) and where its order really is      *)
(*   newer   for each entry's row, the later rows of its symbol             *)
(*   etoro   the symbols the mirror's records count as held or in flight    *)
(*   pass    the auto-propose pass each thread is in: its copies of what it *)
(*           has read, and the candidate it is at                           *)
(*   gate    the entry that process_queue_item has under _ENTRY_LOCK        *)
(***************************************************************************)
EXTENDS Naturals, FiniteSets

CONSTANTS
    Ids, Symbols, None,
    GroupOf,        \* a symbol's correlation group
    Threads,        \* the scheduler, and requests that run a scan
    MaxTrades,      \* max_trades_per_day
    MaxOpen,        \* max_open_positions
    Heat,           \* positions that portfolio_max_heat_pct has room for
    GroupCap,       \* max_daily_entries_per_correlation_bucket
    Leave,          \* LEAVE_FOR_ETORO
    LeaveInGroup,   \* LEAVE_IN_GROUP
    MaxOnly,        \* MAX_OPEN_PAPER_ONLY
    Events,         \* a subset of {"human", "stream"}
    MaxFaults       \* a bound: exceptions, crashes, positions the mirror finds

ASSUME AutoProposeConstants ==
    /\ IsFiniteSet(Ids)
    /\ None \notin Ids \cup Symbols \cup Threads
    /\ MaxTrades \in Nat /\ GroupCap \in Nat /\ Leave \in Nat /\ LeaveInGroup \in Nat
    /\ MaxOpen \in Nat /\ Heat \in Nat /\ MaxOnly \in Nat
    /\ MaxFaults \in Nat

VARIABLES entry, newer, etoro, pass, gate, faults

vars == <<entry, newer, etoro, pass, gate, faults>>

\* item: "queued" also while it is processed.  row: what the entry's execution row says; at: where
\* its order is at the broker.  astray (history): a paper-only entry that has escaped its pass, by a
\* crash, an exception before it, a failed or late withdrawal, or a midnight before it filled.
NoEntry == [symbol |-> None, only |-> FALSE, status |-> "none", item |-> "none",
            row |-> "none", at |-> "none", today |-> FALSE, astray |-> FALSE]
NoPass == [pc |-> "idle", onlyLeft |-> FALSE, existing |-> {}, free |-> None, book |-> None,
           fits |-> None, made |-> 0, symbol |-> None, only |-> FALSE, id |-> None,
           raised |-> FALSE]
\* by: the pass that holds the lock, or None.  adopted (history): since the eToro account was
\* checked, the mirror has found a position in the entry's symbol that it did not make.
NoGate == [id |-> None, pc |-> "free", by |-> None, adopted |-> FALSE]

Init ==
    /\ entry = [i \in Ids |-> NoEntry]
    /\ newer = [i \in Ids |-> {}]
    /\ etoro = {}
    /\ pass = [c \in Threads |-> NoPass]
    /\ gate = NoGate
    /\ faults = 0

Fault == faults < MaxFaults /\ faults' = faults + 1

-----------------------------------------------------------------------------
(* What the program and the broker can be asked *)

Known == {i \in Ids : entry[i].symbol # None}
SymbolsOf(S) == {entry[i].symbol : i \in S}
OpenProposals == {i \in Known : entry[i].status \in {"pending", "approved"}}
\* executions.count_since(start of day): rows of any status
TradesToday == Cardinality({i \in Known : entry[i].row # "none" /\ entry[i].today})
\* The broker's portfolio.
Held == SymbolsOf({i \in Known : entry[i].at = "held"})
\* entries_today_by_bucket: rows placed or filled
GroupEntries(s) ==
    Cardinality({i \in Known : /\ entry[i].row \in {"submitted", "filled"} /\ entry[i].today
                               /\ GroupOf[entry[i].symbol] = GroupOf[s]})

\* RiskManager.validate_order on the context of this moment: the day's trades, one position a
\* symbol, the group's entries, the heat, and paper's open positions unless eToro's room decides.
RiskPasses(s, paperRoom) ==
    /\ TradesToday < MaxTrades
    /\ s \notin Held
    /\ GroupEntries(s) < GroupCap
    /\ Cardinality(Held) + 1 <= Heat
    /\ paperRoom => Cardinality(Held) < MaxOpen

\* An entry nothing will look at again gives its id back; a row is looked at as long as an older
\* entry in its symbol lives.
Live == {"working", "held"}
Settled(es, i) ==
    /\ es[i].status \notin {"pending", "approved"} /\ es[i].at \notin Live
    /\ es[i].item # "queued"
    /\ es[i].row = "none" \/ (~es[i].today /\ es[i].row # "submitted")
    /\ \A j \in Ids : i \in newer[j] => es[j].at \notin Live
Become(es) ==
    /\ entry' = [i \in Ids |-> IF Settled(es, i) THEN NoEntry ELSE es[i]]
    /\ newer' = [i \in Ids |-> {j \in newer[i] : ~Settled(es, i) /\ ~Settled(es, j)}]
Set(i, e) == Become([entry EXCEPT ![i] = e])

Rejected(e) == [e EXCEPT !.status = "closed"]
Left(e, why) == [e EXCEPT !.astray = @ \/ (e.only /\ why)]

-----------------------------------------------------------------------------
(* PaperOnlyPass: what a paper-only candidate is judged on *)

At(c, pc) == pass[c].pc = pc
Goto(c, pc) == pass' = [pass EXCEPT ![c].pc = pc]
\* On to the next candidate.
Onward(p) == [p EXCEPT !.pc = "next", !.symbol = None, !.only = FALSE, !.id = None]

\* held_symbols, once a pass; an unreadable record refuses for the rest of it.
ReadHeld(c) ==
    /\ At(c, "guard") /\ pass[c].free = None
    /\ \/ pass' = [pass EXCEPT ![c].free = Symbols \ etoro] /\ UNCHANGED faults
       \/ pass' = [pass EXCEPT ![c].free = {}] /\ Fault
    /\ UNCHANGED <<entry, newer, etoro, gate>>

\* _paper_book, first the risk context (the day's trades, the broker's positions) ...
ReadContext(c) ==
    /\ At(c, "guard") /\ pass[c].free # None /\ pass[c].fits = None
    /\ pass' = [pass EXCEPT ![c].pc = "rows",
                            ![c].book = [trades |-> TradesToday, held |-> Held]]
    /\ UNCHANGED <<entry, newer, etoro, gate, faults>>

\* Mutant: entries not yet filled take no place.
UnfilledNone(held) == {}

\* Each symbol's newest row of a placed or filled entry.
Latest == {i \in Known : /\ entry[i].row \in {"submitted", "filled"}
                         /\ \A j \in newer[i] : entry[j].row \in {"dead", "failed"}}

\* Today's entries whose row says that they have not filled, outside the positions read before.
Unfilled(held) ==
    SymbolsOf({i \in Latest : /\ entry[i].row = "submitted" /\ entry[i].today
                              /\ entry[i].symbol \notin held})

\* The positions and unfilled entries that are paper-only, or cannot be told apart.
PaperOnlyOf(symbols) == symbols \ SymbolsOf({i \in Latest : ~entry[i].only})

\* Mutant: the group's entries are not looked at.
HeadroomNoGroup(book, s) == book.trades + 1 + Leave <= MaxTrades

\* _headroom: what the day must still have.
Headroom(book, s) ==
    /\ book.trades + 1 + Leave <= MaxTrades
    /\ GroupEntries(s) + 1 + LeaveInGroup <= GroupCap

\* _book_headroom: what paper's open room and heat must still have.
BookHeadroom(book, s) ==
    LET unfilled == Unfilled(book.held)
        after == Cardinality(book.held) + Cardinality(unfilled) + 1 + Leave
    IN  /\ s \notin book.held \cup unfilled
        /\ Cardinality(PaperOnlyOf(book.held \cup unfilled)) < MaxOnly
        /\ after <= MaxOpen /\ after <= Heat

ReadRows(c) ==
    /\ At(c, "rows")
    /\ pass' = [pass EXCEPT ![c].pc = "guard", ![c].book = None, ![c].fits =
                  {s \in Symbols : Headroom(pass[c].book, s) /\ BookHeadroom(pass[c].book, s)}]
    /\ UNCHANGED <<entry, newer, etoro, gate, faults>>

\* Outside the rules, or the tick's budget is spent, or the unattended path would not take it.
StandAside(c) ==
    /\ At(c, "guard")
    /\ pass' = [pass EXCEPT ![c] = Onward(@)]
    /\ UNCHANGED <<entry, newer, etoro, gate, faults>>

Admit(c) ==
    /\ At(c, "guard")
    /\ pass[c].free # None /\ pass[c].fits # None
    /\ pass[c].symbol \in pass[c].free \cap pass[c].fits
    /\ Goto(c, "create")
    /\ UNCHANGED <<entry, newer, etoro, gate, faults>>

-----------------------------------------------------------------------------
(* auto_propose_candidates *)

\* A run's pass takes every candidate, the riders' pass after it only paper-only ones.
StartPass(c, riders) ==
    /\ At(c, "idle")
    /\ pass' = [pass EXCEPT ![c] = [NoPass EXCEPT !.pc = "next", !.onlyLeft = riders,
                                                  !.existing = SymbolsOf(OpenProposals)]]
    /\ UNCHANGED <<entry, newer, etoro, gate, faults>>

\* Paper-only candidates come after all the others, at most one of them is proposed; whether a
\* candidate passes candidate_proposal_blockers and the drop reasons is an input.
Consider(c, s, only) ==
    /\ At(c, "next")
    /\ s \notin pass[c].existing
    /\ only \/ ~pass[c].onlyLeft
    /\ only => pass[c].made = 0
    /\ pass' = [pass EXCEPT ![c].pc = IF only THEN "guard" ELSE "create", ![c].onlyLeft = only,
                            ![c].symbol = s, ![c].only = only]
    /\ UNCHANGED <<entry, newer, etoro, gate, faults>>

EndPass(c) ==
    /\ At(c, "next")
    /\ pass' = [pass EXCEPT ![c] = NoPass]
    /\ UNCHANGED <<entry, newer, etoro, gate, faults>>

Proposed(p) == [NoEntry EXCEPT !.symbol = p.symbol, !.only = p.only, !.status = "pending"]

\* create_proposal behind the risk gate; eToro's room may decide for an entry it would copy.
Proposes(c, i, lost) ==
    /\ At(c, "create")
    /\ entry[i] = NoEntry /\ \A d \in Threads : pass[d].id # i
    /\ \E paperRoom \in BOOLEAN :
         (pass[c].only => paperRoom) /\ RiskPasses(pass[c].symbol, paperRoom)
    /\ Set(i, Left(Proposed(pass[c]), lost))
    /\ UNCHANGED <<etoro, gate>>

CreateProposal(c, i) ==
    /\ Proposes(c, i, FALSE) /\ UNCHANGED faults
    /\ pass' = [pass EXCEPT ![c] =
                  IF pass[c].only
                  THEN [NoPass EXCEPT !.pc = "auto", !.id = i, !.made = pass[c].made + 1, !.onlyLeft = TRUE,
                                      !.symbol = pass[c].symbol, !.only = TRUE]
                  ELSE [@ EXCEPT !.pc = "auto", !.id = i,
                                 !.existing = pass[c].existing \cup {pass[c].symbol}]]

\* A line of the log after it raises: create_proposal's own loses the candidate, the pass's own
\* ends it; the proposal is left pending.
LoseProposal(c, i) ==
    /\ Proposes(c, i, TRUE) /\ Fault
    /\ \E p \in {Onward(pass[c]), NoPass} : pass' = [pass EXCEPT ![c] = p]

ProposalFails(c) ==
    /\ At(c, "create")
    /\ pass' = [pass EXCEPT ![c] = Onward(@)]
    /\ UNCHANGED <<entry, newer, etoro, gate, faults>>

\* What a step of approve_enqueue_execute leads to: a paper-only entry that is not placed is
\* withdrawn; an exception ends the pass.
After(c, result) ==
    IF pass[c].only /\ result # "placed"
    THEN pass' = [pass EXCEPT ![c].pc = "withdraw", ![c].raised = result = "raised"]
    ELSE pass' = [pass EXCEPT ![c] = IF result = "raised" THEN NoPass ELSE Onward(@)]

\* candidate_blockers, then approve_proposal by the automatic reviewer.
AutoApprove(c) ==
    /\ At(c, "auto")
    /\ LET i == pass[c].id IN
       \/ /\ entry[i].status = "pending"
          /\ Set(i, [entry[i] EXCEPT !.status = "approved"])
          /\ (Goto(c, "enqueue") /\ UNCHANGED faults) \/ (After(c, "raised") /\ Fault)
       \/ /\ After(c, "raised")
          /\ (entry[i].status # "pending" /\ UNCHANGED faults) \/ Fault
          /\ UNCHANGED <<entry, newer>>
       \/ /\ After(c, "blocked")
          /\ UNCHANGED <<entry, newer, faults>>
    /\ UNCHANGED <<etoro, gate>>

\* enqueue_approved_proposal: one open item a symbol (a partial unique index).
OpenItem(s) == \E j \in Known : entry[j].item = "queued" /\ entry[j].symbol = s
CanQueue(i) == entry[i].status = "approved" /\ ~OpenItem(entry[i].symbol)
Queued(e) == [e EXCEPT !.item = "queued"]

\* Its last call may fail when the item is queued.
Enqueue(c) ==
    /\ At(c, "enqueue")
    /\ LET i == pass[c].id IN
       \/ /\ CanQueue(i)
          /\ Set(i, Queued(entry[i]))
          /\ (Goto(c, "process") /\ UNCHANGED faults) \/ (After(c, "raised") /\ Fault)
       \/ /\ After(c, "raised")
          /\ (~CanQueue(i) /\ UNCHANGED faults) \/ Fault
          /\ UNCHANGED <<entry, newer>>
    /\ UNCHANGED <<etoro, gate>>

-----------------------------------------------------------------------------
(* process_queue_item, from one step to the next under _ENTRY_LOCK *)

\* Mutant: the order is not checked against the eToro account again.
HeldReasonsNone(e) == FALSE

\* paper_only_held_reasons, read again under the lock.
HeldReasons(e) == e.only /\ e.symbol \in etoro

Holds(i, by) == gate.id = i /\ gate.by = by

\* A queued or blocked item can be claimed, unless a broker has answered for it.
Claimable(i) ==
    \/ entry[i].item = "queued"
    \/ entry[i].item = "blocked" /\ entry[i].row = "none" /\ ~OpenItem(entry[i].symbol)

\* The claim, the proposal's status, the eToro account, the day's trades ...
Check(i, by) ==
    /\ gate = NoGate /\ Claimable(i)
    /\ entry[i].status = "approved" /\ entry[i].row = "none"
    /\ ~HeldReasons(entry[i]) /\ TradesToday < MaxTrades
    /\ Set(i, Queued(entry[i]))
    /\ gate' = [NoGate EXCEPT !.id = i, !.pc = "risk", !.by = by]
    /\ UNCHANGED <<etoro, faults>>

\* ... the risk gate; eToro's room may decide for an entry it would copy ...
Risk(i, by) ==
    /\ Holds(i, by) /\ gate.pc = "risk"
    /\ \E paperRoom \in BOOLEAN :
         (entry[i].only => paperRoom) /\ RiskPasses(entry[i].symbol, paperRoom)
    /\ gate' = [gate EXCEPT !.pc = "order"]
    /\ UNCHANGED <<entry, newer, etoro, faults>>

\* An execution row is written, the newest of its symbol.
Record(i, e) ==
    /\ entry' = [entry EXCEPT ![i] = e]
    /\ newer' = [j \in Ids |-> IF entry[j].row # "none" /\ entry[j].symbol = entry[i].symbol
                               THEN newer[j] \cup {i} ELSE newer[j]]

Ordered(e) == [e EXCEPT !.status = "executed", !.item = "none", !.row = "submitted",
                        !.at = "working", !.today = TRUE]

\* ... and the order, which unless paper-only is perhaps copied.
Submit(i, by) ==
    /\ Holds(i, by) /\ gate.pc = "order" /\ entry[i].at = "none"
    /\ Record(i, Ordered(entry[i]))
    /\ gate' = NoGate
    /\ \/ UNCHANGED etoro
       \/ ~entry[i].only /\ etoro' = etoro \cup {entry[i].symbol}

\* The submission fails, or its answer is lost: the row says FAILED in either case.
SubmitFails(i, by) ==
    /\ Fault
    /\ Holds(i, by) /\ gate.pc = "order"
    /\ \E at \in IF entry[i].at = "none" THEN {"gone", "working"} ELSE {entry[i].at} :
         Record(i, [entry[i] EXCEPT !.item = "none", !.row = "failed", !.at = at, !.today = TRUE])
    /\ gate' = NoGate
    /\ UNCHANGED etoro

\* A check or the risk gate blocks the item.
Block(i, by) ==
    /\ (gate = NoGate /\ Claimable(i)) \/ Holds(i, by)
    /\ Set(i, [entry[i] EXCEPT !.item = IF entry[i].status = "approved" THEN "blocked" ELSE "none"])
    /\ gate' = NoGate
    /\ UNCHANGED <<etoro, faults>>

\* An exception leaves the item as it is.
Raise(i, by) ==
    /\ Fault
    /\ gate = NoGate \/ Holds(i, by)
    /\ gate' = NoGate
    /\ UNCHANGED <<entry, newer, etoro>>

\* An error after the order reaches the pass, too.
ProcessItem(c) ==
    /\ At(c, "process")
    /\ LET i == pass[c].id IN
       \/ (Check(i, c) \/ Risk(i, c)) /\ UNCHANGED pass
       \/ Submit(i, c) /\ ((After(c, "placed") /\ UNCHANGED faults) \/ (After(c, "raised") /\ Fault))
       \/ (SubmitFails(i, c) \/ Block(i, c)) /\ After(c, "blocked")
       \/ Raise(i, c) /\ After(c, "raised")
       \/ /\ gate = NoGate /\ ~Claimable(i)
          /\ After(c, IF entry[i].row \in {"none", "failed"} THEN "blocked" ELSE "placed")
          /\ UNCHANGED <<entry, newer, etoro, gate, faults>>

\* process_ready_queue takes what is queued; a person may name a blocked item.
QueuePass(i) ==
    /\ entry[i].item = "queued" \/ "human" \in Events
    /\ \/ Check(i, None) \/ Risk(i, None) \/ SubmitFails(i, None) \/ Block(i, None)
       \/ Submit(i, None) /\ UNCHANGED faults
       \/ gate # NoGate /\ Raise(i, None)
    /\ UNCHANGED pass

-----------------------------------------------------------------------------
(* _withdraw *)

\* reject_proposal would go through, and no order is known.
CanReject(i) == i \in OpenProposals /\ entry[i].row \notin {"submitted", "filled"}

\* Mutant: only a refusal is withdrawn, an exception is not.
WithdrawUnlessRaised(c) ==
    /\ At(c, "withdraw")
    /\ LET i == pass[c].id IN
       \/ CanReject(i) /\ ~pass[c].raised /\ Set(i, Left(Rejected(entry[i]), gate.id = i))
       \/ (~CanReject(i) \/ pass[c].raised) /\ UNCHANGED <<entry, newer>>
    /\ pass' = [pass EXCEPT ![c] = IF @.raised THEN NoPass ELSE Onward(@)]
    /\ UNCHANGED <<etoro, gate, faults>>

\* Rejected, even while its order is under way; an exception leaves it as it is.
Withdraw(c) ==
    /\ At(c, "withdraw")
    /\ LET i == pass[c].id IN
       \/ CanReject(i) /\ Set(i, Left(Rejected(entry[i]), gate.id = i)) /\ UNCHANGED faults
       \/ /\ Set(i, Left(entry[i], i \in OpenProposals \/ gate.id = i))
          /\ (~CanReject(i) /\ UNCHANGED faults) \/ Fault
    /\ pass' = [pass EXCEPT ![c] = IF @.raised THEN NoPass ELSE Onward(@)]
    /\ UNCHANGED <<etoro, gate>>

-----------------------------------------------------------------------------
(* People, the brokers, time, restarts *)

\* approve_proposal refuses a person's approval of a paper-only proposal.
MayApprove(i) == entry[i].status = "pending" /\ ~entry[i].only

\* A person's own proposal, by request or chat command, approved and queued.
HumanTrades(i, s) ==
    /\ "human" \in Events
    /\ entry[i] = NoEntry /\ \A d \in Threads : pass[d].id # i
    /\ \E paperRoom \in BOOLEAN : RiskPasses(s, paperRoom)
    /\ ~OpenItem(s)
    /\ Set(i, [NoEntry EXCEPT !.symbol = s, !.status = "approved", !.item = "queued"])
    /\ UNCHANGED <<etoro, pass, gate, faults>>

HumanApproves(i) ==
    /\ "human" \in Events
    /\ MayApprove(i) /\ ~OpenItem(entry[i].symbol)
    /\ Set(i, [entry[i] EXCEPT !.status = "approved", !.item = "queued"])
    /\ UNCHANGED <<etoro, pass, gate, faults>>

\* POST /execution/queue: any approved proposal (here none whose order has failed).
HumanQueues(i) ==
    /\ "human" \in Events
    /\ CanQueue(i) /\ entry[i].row = "none"
    /\ Set(i, Queued(entry[i]))
    /\ UNCHANGED <<etoro, pass, gate, faults>>

\* A person rejects a proposal, or a pending or approved one expires.
Ends(i) ==
    /\ i \in OpenProposals
    /\ Set(i, Rejected(entry[i]))
    /\ UNCHANGED <<etoro, pass, gate, faults>>

Fills(i) ==
    /\ entry[i].at = "working"
    /\ Set(i, [entry[i] EXCEPT !.at = "held"])
    /\ UNCHANGED <<etoro, pass, gate, faults>>

Exits(i) ==
    /\ entry[i].at = "held"
    /\ Set(i, [entry[i] EXCEPT !.at = "gone"])
    /\ UNCHANGED <<etoro, pass, gate, faults>>

\* The scheduler's reconciliation never runs inside its own pass; the trade stream may.
Watched == "stream" \in Events \/ \A c \in Threads : At(c, "idle")

Synced(i) ==
    /\ Watched
    /\ entry[i].at \in {"held", "gone"} /\ entry[i].row = "submitted"
    /\ Set(i, [entry[i] EXCEPT !.row = "filled"])
    /\ UNCHANGED <<etoro, pass, gate, faults>>

\* An order found dead; until it is, it counts as working.
Dies(i) ==
    /\ Watched
    /\ entry[i].at = "working"
    /\ Set(i, [entry[i] EXCEPT !.at = "gone", !.row = IF @ = "submitted" THEN "dead" ELSE @])
    /\ UNCHANGED <<etoro, pass, gate, faults>>

\* The exit copy has closed the eToro position.
EtoroCloses(s) ==
    /\ s \in etoro
    /\ etoro' = etoro \ {s}
    /\ UNCHANGED <<entry, newer, pass, gate, faults>>

\* The mirror's reconcile takes up a position that it has no order for, under no lock of entries
\* (what it takes up before an entry is checked only refuses it).
Adopts(s) ==
    /\ Fault
    /\ s \notin etoro /\ gate # NoGate /\ entry[gate.id].symbol = s
    /\ etoro' = etoro \cup {s}
    /\ gate' = [gate EXCEPT !.adopted = TRUE]
    /\ UNCHANGED <<entry, newer, pass>>

\* Unfilled at midnight, or filled then between a pass's two reads.
Overnight(i) ==
    \/ entry[i].at = "working"
    \/ entry[i].row = "submitted" /\ \E c \in Threads : At(c, "rows")

\* 00:00 UTC: the brackets are good till cancelled and work on.
Midnight ==
    /\ \E i \in Ids : entry[i].today
    /\ Become([i \in Ids |-> [Left(entry[i], Overnight(i)) EXCEPT !.today = FALSE]])
    /\ UNCHANGED <<etoro, pass, gate, faults>>

\* The process dies, perhaps between the order and its row, and starts again.
Restart ==
    /\ Fault
    /\ gate # NoGate \/ \E c \in Threads : ~At(c, "idle")
    /\ \E sent \in SUBSET {i \in Ids : gate.id = i /\ gate.pc = "order" /\ entry[i].at = "none"} :
         Become([i \in Ids |->
           [Left(entry[i], i \in OpenProposals \/ gate.id = i) EXCEPT
              !.at = IF i \in sent THEN "working" ELSE @]])
    /\ pass' = [c \in Threads |-> NoPass]
    /\ gate' = NoGate
    /\ UNCHANGED etoro

Step(c) ==
    \/ \E riders \in BOOLEAN : StartPass(c, riders)
    \/ \E s \in Symbols, only \in BOOLEAN : Consider(c, s, only)
    \/ ReadHeld(c) \/ ReadContext(c) \/ ReadRows(c) \/ StandAside(c) \/ Admit(c)
    \/ \E i \in Ids : CreateProposal(c, i) \/ LoseProposal(c, i)
    \/ ProposalFails(c) \/ AutoApprove(c) \/ Enqueue(c) \/ ProcessItem(c) \/ Withdraw(c)
    \/ EndPass(c)

Next ==
    \/ \E c \in Threads : Step(c)
    \/ \E i \in Ids : \/ HumanApproves(i) \/ HumanQueues(i) \/ Ends(i) \/ QueuePass(i)
                      \/ Fills(i) \/ Dies(i) \/ Exits(i) \/ Synced(i)
    \/ \E i \in Ids, s \in Symbols : HumanTrades(i, s)
    \/ \E s \in Symbols : EtoroCloses(s) \/ Adopts(s)
    \/ Midnight \/ Restart

Spec == Init /\ [][Next]_vars

-----------------------------------------------------------------------------
(* Properties *)

(* Of the paper-only entries that have not gone astray (section 5 of the README has the others).
   A lost answer's order is in no place: its row says FAILED. *)

OnlyToday == {i \in Known : /\ entry[i].only /\ ~entry[i].astray
                            /\ entry[i].row # "none" /\ entry[i].today}
\* The paper-only positions, open or unfilled, that no newer entry in their symbol hides.
OnlyPlaces == {i \in Latest : entry[i].only /\ ~entry[i].astray /\ entry[i].at \in Live}

\* Rule 4: paper-only entries, failed ones too, never take the last LEAVE_FOR_ETORO of the day's
\* paper trades, nor the last LEAVE_IN_GROUP of the day's entries of a correlation group.
OnlyLeavesDay ==
    /\ Cardinality(OnlyToday) + Leave <= MaxTrades
    /\ \A s \in Symbols :
         Cardinality({i \in OnlyToday : /\ GroupOf[entry[i].symbol] = GroupOf[s]
                                        /\ entry[i].row \in {"submitted", "filled"}})
           + LeaveInGroup <= GroupCap

\* Rule 5: paper-only positions, open or unfilled, never take the last LEAVE_FOR_ETORO places of
\* paper's open room or heat (_book_headroom; each symbol's newest entry is counted, as the code
\* does).
OnlyLeavesPlaces ==
    LET taken == Cardinality(SymbolsOf(OnlyPlaces))
    IN  taken + Leave <= MaxOpen /\ taken + Leave <= Heat

\* Nor are there ever more than MAX_OPEN_PAPER_ONLY of them in symbols where nothing else was
\* ordered since (_paper_book's paper_only).
OnlyMarked == {i \in OnlyPlaces : \A j \in newer[i] : entry[j].only \/ entry[j].row = "failed"}
OnlyWithinMax == Cardinality(SymbolsOf(OnlyMarked)) <= MaxOnly

\* MAX_OPEN_PAPER_ONLY "paper-only positions open or unfilled at once" (paper_only.py:112), without
\* that condition.
OnlyWithinMaxAlways == Cardinality(SymbolsOf(OnlyPlaces)) <= MaxOnly

\* Rule 6: outside the pass that makes it no paper-only proposal is open, to be approved or
\* processed later without rules 4 and 5, unless its withdrawal failed or was never reached.
OnlyNeverWaits ==
    \A i \in OpenProposals : entry[i].only =>
        \/ entry[i].astray
        \/ \E c \in Threads : /\ pass[c].id = i
                              /\ pass[c].pc \in {"auto", "enqueue", "process", "withdraw"}

\* Rule 3: no paper-only order, recorded or not, reaches the broker in a symbol that the eToro
\* account holds or has in flight by a copy, whatever its pass read of it before and whoever
\* processes it: between the check and the order, only what reconcile finds can come in.
OnlyAvoidsEtoro ==
    [][\A i \in Ids : entry[i].at = "none" /\ entry'[i].at = "working" /\ entry[i].only
                        => entry[i].symbol \notin etoro \/ gate.adopted]_vars
=============================================================================
