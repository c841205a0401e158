-------------------------- MODULE ExecutionPipeline --------------------------
(***************************************************************************)
(* Proposals, the execution queue, execution records and the broker.        *)
(*                                                                          *)
(* Every repository call is a transaction of its own, so each handler below *)
(* is a sequence of steps: it reads a row, decides on its copy, and writes  *)
(* the whole row back.  A thread's copy lives in loc; two threads, or two   *)
(* containers during a deploy, interleave between any two steps.            *)
(*                                                                          *)
(*   prop    approvals table (app/approvals/service.py)                     *)
(*   past    proposals whose expires_at has passed                          *)
(*   queue   execution_queue table (app/execution/coordinator.py)           *)
(*   stale   processing items older than workflow_lock_timeout_minutes      *)
(*   exec    executions table; latest: the newest row of each proposal      *)
(*   orders  orders the broker has accepted (external)                      *)
(*   halted  AutomationService.execution_blockers() is not empty            *)
(*   lock    _ENTRY_LOCK, one per process                                   *)
(*   loc     program counter and local variables of each thread             *)
(***************************************************************************)
EXTENDS Integers, FiniteSets

CONSTANTS
    Proposals,      \* proposal ids
    Symbols,
    SymbolOf,       \* the symbol of each proposal's order
    QueueIds,       \* ids of queue items; a client_order_id is sha256(proposal:item)
    ExecIds,        \* ids of execution records
    Threads,        \* request handlers, Telegram commands, the scheduler's worker
    Procs,          \* operating system processes (containers)
    ProcOf,         \* the process each thread runs in
    Route,          \* where process_queue_item sends the order
    Fallback,       \* paper_simulated_fallback_enabled
    Requests,       \* the requests that arrive (bounds the state space)
    Events          \* the environment events and faults that happen

None == "none"

ASSUME PipelineConstants ==
    /\ SymbolOf \in [Proposals -> Symbols]
    /\ ProcOf \in [Threads -> Procs]
    /\ Route \in {"alpaca", "etoro", "self_simulated"}
    /\ Fallback \in BOOLEAN
    /\ Requests \subseteq {"list", "approve", "reject", "enqueue", "execute", "process"}
    /\ Events \subseteq {"crash", "error", "lost", "slow", "halt", "expiry"}
    /\ QueueIds \cap ExecIds = {}
    /\ None \notin QueueIds \cup ExecIds \cup Proposals \cup Threads

VARIABLES prop, past, queue, stale, exec, latest, orders, halted, lock, loc

db   == <<prop, past, queue, stale, exec, latest, orders, halted>>
vars == <<prop, past, queue, stale, exec, latest, orders, halted, lock, loc>>

-----------------------------------------------------------------------------
(* State *)

ApprovalStatus == {None, "pending", "approved", "rejected", "expired", "executed"}
QueueStatus    == {None, "queued", "processing", "executed", "blocked"}
ExecutionStatus == {None, "validated", "submitted", "failed", "blocked"}

ProposalRow  == [st: ApprovalStatus, ex: ExecIds \cup {None}]
QueueRow     == [st: QueueStatus, p: Proposals \cup {None}, ex: ExecIds \cup {None}]
ExecutionRow == [st: ExecutionStatus, p: Proposals \cup {None},
                 ord: QueueIds \cup ExecIds \cup {None}, cid: QueueIds \cup {None}]

\* Where a thread is.  "get" and "expire" are ProposalService.get_proposal, which
\* returns to the step named by k.
Steps == {"idle", "get", "expire", "approve", "reject", "check_open", "insert",
          "item", "latest", "adopt", "claim", "reload", "checked", "gates", "block",
          "submit", "dupcheck", "record", "mark", "mirror", "finish", "fail", "failitem",
          "trade", "refuse", "validated", "buy", "update", "return"}

Local == [pc: Steps, k: Steps, p: Proposals \cup {None}, q: QueueIds \cup {None},
          snap: ProposalRow, was: QueueStatus, row: ExecIds \cup {None},
          ex: ExecIds \cup {None}, then: Steps, try: BOOLEAN]

NoRow == [st |-> None, ex |-> None]
Idle  == [pc |-> "idle", k |-> "idle", p |-> None, q |-> None, snap |-> NoRow,
          was |-> None, row |-> None, ex |-> None, then |-> "idle", try |-> FALSE]

Undecided  == {"pending", "approved"}
OpenStatus == {"queued", "processing"}
DeadStatus == {"failed", "blocked"}
\* What the broker's answer is recorded as.
BrokerStatus == {"submitted"} \cup DeadStatus

SymbolOfItem(q) == SymbolOf[queue[q].p]
OpenFor(s) == {q \in QueueIds : queue[q].st \in OpenStatus /\ SymbolOfItem(q) = s}
FreeExec == {e \in ExecIds : exec[e].st = None}

\* Mutant: the index covers queued items only.
IndexAllowsQueuedOnly(q, s) == {o \in OpenFor(s) : queue[o].st = "queued"} \subseteq {q}

\* The partial unique index on open items lets item q be open for symbol s.
IndexAllows(q, s) == OpenFor(s) \subseteq {q}

Init ==
    /\ prop = [p \in Proposals |-> NoRow]
    /\ past = {}
    /\ queue = [q \in QueueIds |-> [st |-> None, p |-> None, ex |-> None]]
    /\ stale = {}
    /\ exec = [e \in ExecIds |-> [st |-> None, p |-> None, ord |-> None, cid |-> None]]
    /\ latest = [p \in Proposals |-> None]
    /\ orders = {}
    /\ halted = FALSE
    /\ lock = [c \in Procs |-> None]
    /\ loc = [t \in Threads |-> Idle]

-----------------------------------------------------------------------------
(* Control helpers *)

\* Thread t continues with locals l; "return" leaves the handler and its
\* "with _ENTRY_LOCK" block.
Goto(t, l) ==
    /\ loc' = [loc EXCEPT ![t] = IF l.pc = "return" THEN Idle ELSE l]
    /\ lock' = IF l.pc = "return" /\ lock[ProcOf[t]] = t
               THEN [lock EXCEPT ![ProcOf[t]] = None] ELSE lock

At(t, pc) == loc[t].pc = pc
\* The next step; the copy get_proposal returned is no longer used.
Jump(t, pc) == Goto(t, [loc[t] EXCEPT !.pc = pc, !.k = "idle", !.snap = NoRow])

\* An exception: caught by the coordinator's try block, otherwise it leaves the handler.
Raise(t) ==
    Goto(t, [loc[t] EXCEPT !.pc = IF loc[t].try THEN "fail" ELSE "return", !.try = FALSE,
                           !.ex = None, !.then = "idle", !.k = "idle", !.snap = NoRow])

\* mark_executed(p, e), which starts with get_proposal; then continue at step s.
CallMarkExecuted(t, e, s) ==
    Goto(t, [loc[t] EXCEPT !.ex = e, !.pc = "get", !.k = "mark", !.then = s])

\* INSERT INTO executions: one new row, which becomes the proposal's newest.  Its
\* request payload carries the client_order_id of the item, if there is one.
CreateExecution(t, e, s, o) ==
    /\ e \in FreeExec
    /\ exec' = [exec EXCEPT ![e] = [st |-> s, p |-> loc[t].p, ord |-> o, cid |-> loc[t].q]]
    /\ latest' = [latest EXCEPT ![loc[t].p] = e]

\* UPDATE execution_queue: status and payload come from the caller's copy.
UpdateItem(q, s, e) ==
    /\ queue' = [queue EXCEPT ![q] = [@ EXCEPT !.st = s, !.ex = e]]
    /\ stale' = stale \ {q}

-----------------------------------------------------------------------------
(* ProposalService *)

CreateProposal(p) ==
    /\ prop[p].st = None
    /\ prop' = [prop EXCEPT ![p].st = "pending"]
    /\ UNCHANGED <<past, queue, stale, exec, latest, orders, halted, lock, loc>>

\* Time passes expires_at; nothing is written until somebody reads the proposal.
PassExpiry(p) ==
    /\ "expiry" \in Events
    /\ prop[p].st # None
    /\ p \notin past
    /\ past' = past \cup {p}
    /\ UNCHANGED <<prop, queue, stale, exec, latest, orders, halted, lock, loc>>

\* A request for proposal p arrives; its handler starts with get_proposal and
\* continues at k ("return" for the list and get routes).
Request(t, p, k) ==
    /\ At(t, "idle")
    /\ prop[p].st # None
    /\ Goto(t, [Idle EXCEPT !.pc = "get", !.k = k, !.p = p])
    /\ UNCHANGED db

RequestList(t, p)    == "list" \in Requests /\ Request(t, p, "return")
RequestApprove(t, p) == "approve" \in Requests /\ Request(t, p, "approve")
RequestReject(t, p)  == "reject" \in Requests /\ Request(t, p, "reject")
RequestEnqueue(t, p) == "enqueue" \in Requests /\ Request(t, p, "check_open")
RequestExecute(t, p) == "execute" \in Requests /\ Request(t, p, "trade")

GetProposal(t) ==
    /\ At(t, "get")
    /\ LET row == prop[loc[t].p]
           late == row.st \in Undecided /\ loc[t].p \in past
       IN Goto(t, [loc[t] EXCEPT !.snap = row, !.pc = IF late THEN "expire" ELSE loc[t].k])
    /\ UNCHANGED db

ExpireIfNeeded(t) ==
    /\ At(t, "expire")
    /\ LET row == [loc[t].snap EXCEPT !.st = "expired"]
       IN /\ prop' = [prop EXCEPT ![loc[t].p] = row]
          /\ Goto(t, [loc[t] EXCEPT !.snap = row, !.pc = loc[t].k])
    /\ UNCHANGED <<past, queue, stale, exec, latest, orders, halted>>

\* Only a pending proposal is approved; a paper-only one also needs the automatic
\* reviewer, so the call may be refused.
Approve(t) ==
    /\ At(t, "approve")
    /\ \/ /\ loc[t].snap.st = "pending"
          /\ prop' = [prop EXCEPT ![loc[t].p] = [loc[t].snap EXCEPT !.st = "approved"]]
       \/ UNCHANGED prop
    /\ Jump(t, "return")
    /\ UNCHANGED <<past, queue, stale, exec, latest, orders, halted>>

Reject(t) ==
    /\ At(t, "reject")
    /\ prop' = IF loc[t].snap.st \in Undecided
               THEN [prop EXCEPT ![loc[t].p] = [loc[t].snap EXCEPT !.st = "rejected"]]
               ELSE prop
    /\ Jump(t, "return")
    /\ UNCHANGED <<past, queue, stale, exec, latest, orders, halted>>

\* Mutant: execution_id is not written.
MarkExecutedWithoutId(t) ==
    /\ At(t, "mark")
    /\ prop' = [prop EXCEPT ![loc[t].p] = [loc[t].snap EXCEPT !.st = "executed"]]
    /\ Jump(t, loc[t].then)
    /\ UNCHANGED <<past, queue, stale, exec, latest, orders, halted>>

\* mark_executed writes its copy back whatever the status it read.
MarkExecuted(t) ==
    /\ At(t, "mark")
    /\ prop' = [prop EXCEPT ![loc[t].p] = [st |-> "executed", ex |-> loc[t].ex]]
    /\ Jump(t, loc[t].then)
    /\ UNCHANGED <<past, queue, stale, exec, latest, orders, halted>>

-----------------------------------------------------------------------------
(* ExecutionCoordinator: enqueue *)

\* The approval check and the fast path on latest_open_for_symbol.
CheckOpen(t) ==
    /\ At(t, "check_open")
    /\ Jump(t, IF loc[t].snap.st = "approved" /\ OpenFor(SymbolOf[loc[t].p]) = {}
               THEN "insert" ELSE "return")
    /\ UNCHANGED db

\* The partial unique index idx_queue_unique_open_per_symbol decides.
Insert(t) ==
    /\ At(t, "insert")
    /\ \E q \in QueueIds :
          /\ queue[q].st = None
          /\ queue' = IF IndexAllows(q, SymbolOf[loc[t].p])
                      THEN [queue EXCEPT ![q] = [st |-> "queued", p |-> loc[t].p, ex |-> None]]
                      ELSE queue
    /\ Jump(t, "return")
    /\ UNCHANGED <<prop, past, stale, exec, latest, orders, halted>>

-----------------------------------------------------------------------------
(* ExecutionCoordinator: process_queue_item *)

RequestProcess(t, q) ==
    /\ "process" \in Requests
    /\ At(t, "idle")
    /\ queue[q].st # None
    /\ lock[ProcOf[t]] = None
    /\ lock' = [lock EXCEPT ![ProcOf[t]] = t]
    /\ loc' = [loc EXCEPT ![t] =
                  [Idle EXCEPT !.pc = "item", !.q = q, !.p = queue[q].p]]
    /\ UNCHANGED db

\* Mutant: the payload's execution id is not looked at.
ReadItemIgnoringPayload(t) ==
    /\ At(t, "item")
    /\ Goto(t, [loc[t] EXCEPT !.was = queue[loc[t].q].st, !.pc = "latest"])
    /\ UNCHANGED db

\* An item whose payload names an execution is done.
ReadItem(t) ==
    /\ At(t, "item")
    /\ LET item == queue[loc[t].q]
       IN Goto(t, [loc[t] EXCEPT !.was = item.st,
                      !.pc = IF item.ex # None THEN "return" ELSE "latest"])
    /\ UNCHANGED db

\* Mutant: no execution is adopted.
ReadLatestWithoutAdoption(t) ==
    /\ At(t, "latest")
    /\ Goto(t, [loc[t] EXCEPT !.was = None,
                   !.pc = IF loc[t].was = "executed" THEN "return" ELSE "claim"])
    /\ UNCHANGED db

\* Mutant: a failed or blocked execution is adopted too.
ReadLatestOfAnyStatus(t) ==
    /\ At(t, "latest")
    /\ LET e == latest[loc[t].p]
       IN Goto(t, [loc[t] EXCEPT !.was = None, !.ex = e,
                      !.pc = IF e # None THEN "adopt" ELSE "claim"])
    /\ UNCHANGED db

\* Mutant: the newest execution of another proposal is adopted too.
ReadLatestOfAnyProposal(t) ==
    /\ At(t, "latest")
    /\ LET found == {e \in ExecIds : exec[e].st \notin DeadStatus \cup {None}}
       IN IF found # {}
          THEN \E e \in found : Goto(t, [loc[t] EXCEPT !.was = None, !.pc = "adopt", !.ex = e])
          ELSE Goto(t, [loc[t] EXCEPT !.was = None,
                           !.pc = IF loc[t].was = "executed" THEN "return" ELSE "claim"])
    /\ UNCHANGED db

\* An execution of the same proposal that did not fail is adopted; a finished
\* item is left alone.
ReadLatest(t) ==
    /\ At(t, "latest")
    /\ LET e == latest[loc[t].p]
       IN IF e # None /\ exec[e].st \notin DeadStatus
          THEN Goto(t, [loc[t] EXCEPT !.was = None, !.pc = "adopt", !.ex = e])
          ELSE Goto(t, [loc[t] EXCEPT !.was = None,
                           !.pc = IF loc[t].was = "executed" THEN "return" ELSE "claim"])
    /\ UNCHANGED db

\* Mutant: the adopted execution's status is copied into the item.
AdoptExecutionStatus(t) ==
    /\ At(t, "adopt")
    /\ UpdateItem(loc[t].q, exec[loc[t].ex].st, loc[t].ex)
    /\ Jump(t, "return")
    /\ UNCHANGED <<prop, past, exec, latest, orders, halted>>

AdoptExecution(t) ==
    /\ At(t, "adopt")
    /\ UpdateItem(loc[t].q, "executed", loc[t].ex)
    /\ Jump(t, "return")
    /\ UNCHANGED <<prop, past, exec, latest, orders, halted>>

\* Mutant: only blocked and abandoned items can be claimed.
ClaimableAgainOnly(q) ==
    \/ queue[q].st = "blocked"
    \/ queue[q].st = "processing" /\ q \in stale

Claimable(q) ==
    \/ queue[q].st \in {"queued", "blocked"}
    \/ queue[q].st = "processing" /\ q \in stale

\* One conditional UPDATE.  Re-opening a blocked item while the symbol has another
\* open one violates the index, and the exception leaves the handler.
ClaimForProcessing(t) ==
    /\ At(t, "claim")
    /\ LET q == loc[t].q
       IN IF Claimable(q) /\ IndexAllows(q, SymbolOfItem(q))
          THEN UpdateItem(q, "processing", queue[q].ex) /\ Jump(t, "reload")
          ELSE UNCHANGED <<queue, stale>> /\ Jump(t, "return")
    /\ UNCHANGED <<prop, past, exec, latest, orders, halted>>

\* The item is read again, then get_proposal.
ReloadItem(t) ==
    /\ At(t, "reload")
    /\ Goto(t, [loc[t] EXCEPT !.row = queue[loc[t].q].ex, !.pc = "get", !.k = "checked"])
    /\ UNCHANGED db

\* Mutant: returns without blocking the claimed item.
CheckApprovedWithoutBlock(t) ==
    /\ At(t, "checked")
    /\ Jump(t, IF loc[t].snap.st = "approved" THEN "gates" ELSE "return")
    /\ UNCHANGED db

CheckApproved(t) ==
    /\ At(t, "checked")
    /\ Jump(t, IF loc[t].snap.st = "approved" THEN "gates" ELSE "block")
    /\ UNCHANGED db

\* Automation blockers, quote, drift, account, daily cap, risk and bracket checks.
\* What the market and the account say is the environment's choice; an account
\* mismatch trips the circuit breaker.  A second look at the payload precedes the
\* broker; it returns without touching the item.
PassGates(t) ==
    /\ At(t, "gates")
    /\ \/ /\ ~halted
          /\ CASE Route = "self_simulated" -> Jump(t, "record")
               [] Route # "self_simulated" /\ loc[t].row # None -> Jump(t, "return")
               [] Route = "alpaca" /\ loc[t].row = None ->
                     Goto(t, [loc[t] EXCEPT !.pc = "submit", !.try = TRUE])
               [] Route = "etoro" /\ loc[t].row = None ->
                     Goto(t, [loc[t] EXCEPT !.pc = "get", !.k = "trade", !.try = TRUE])
          /\ UNCHANGED halted
       \/ Jump(t, "block") /\ UNCHANGED halted
       \/ "halt" \in Events /\ Route = "alpaca" /\ Jump(t, "block") /\ halted' = TRUE
    /\ UNCHANGED <<prop, past, queue, stale, exec, latest, orders>>

BlockItem(t) ==
    /\ At(t, "block")
    /\ UpdateItem(loc[t].q, "blocked", loc[t].row)
    /\ Jump(t, "return")
    /\ UNCHANGED <<prop, past, exec, latest, orders, halted>>

\* The order sent to Alpaca carries the item's client_order_id; Alpaca accepts one
\* order per id and answers a repeat with the order it has.
ClientOrderId(t) == loc[t].q

SubmitOrder(t) ==
    /\ At(t, "submit")
    /\ \/ orders' = orders \cup {ClientOrderId(t)} /\ Jump(t, "dupcheck")
       \/ UNCHANGED orders /\ Raise(t)
       \/ "lost" \in Events /\ orders' = orders \cup {ClientOrderId(t)} /\ Raise(t)
    /\ UNCHANGED <<prop, past, queue, stale, exec, latest, halted>>

\* Mutant: neither the lookup nor the unique index on broker_order_id.
RecordedAsNothing(o) == {}

\* An execution with this broker_order_id is reused.
RecordedAs(o) == {e \in ExecIds : exec[e].ord = o}

CheckDuplicate(t) ==
    /\ At(t, "dupcheck")
    /\ IF RecordedAs(ClientOrderId(t)) = {}
       THEN Jump(t, "record")
       ELSE \E e \in RecordedAs(ClientOrderId(t)) :
                CallMarkExecuted(t, e, "finish")
    /\ UNCHANGED db

\* broker_order_id is unique, so a second INSERT for the same order raises.
RecordExecution(t) ==
    /\ At(t, "record")
    /\ LET o == IF Route = "alpaca" THEN ClientOrderId(t) ELSE None
       IN IF o # None /\ RecordedAs(o) # {}
          THEN Raise(t) /\ UNCHANGED <<exec, latest>>
          ELSE \E e \in FreeExec,
                  s \in IF Route = "alpaca" THEN BrokerStatus ELSE {"submitted"} :
                   /\ CreateExecution(t, e, s, o)
                   /\ CallMarkExecuted(t, e, IF Route = "alpaca" THEN "mirror" ELSE "finish")
    /\ UNCHANGED <<prop, past, queue, stale, orders, halted>>

\* _mirror_parallel: a failed comparison order may trip the breaker, and the
\* account lookup before it may raise into the coordinator.
MirrorParallel(t) ==
    /\ At(t, "mirror")
    /\ \/ Jump(t, "finish") /\ halted' \in {halted, halted \/ "halt" \in Events}
       \/ "error" \in Events /\ Raise(t) /\ UNCHANGED halted
    /\ UNCHANGED <<prop, past, queue, stale, exec, latest, orders>>

FinishItem(t) ==
    /\ At(t, "finish")
    /\ UpdateItem(loc[t].q, "executed", loc[t].ex)
    /\ Jump(t, "return")
    /\ UNCHANGED <<prop, past, exec, latest, orders, halted>>

\* The except branch: a simulated fill when the fallback is on (and paper's own
\* room allowed the entry), else a failed execution and a blocked item.
BrokerFailed(t) ==
    /\ At(t, "fail")
    /\ \E e \in FreeExec :
          \/ /\ Fallback
             /\ CreateExecution(t, e, "submitted", None)
             /\ CallMarkExecuted(t, e, "finish")
          \/ /\ CreateExecution(t, e, "failed", None)
             /\ Goto(t, [loc[t] EXCEPT !.ex = e, !.pc = "failitem"])
    /\ UNCHANGED <<prop, past, queue, stale, orders, halted>>

\* Mutant: the failed execution's id is not kept on the item.
BlockFailedItemWithoutId(t) ==
    /\ At(t, "failitem")
    /\ UpdateItem(loc[t].q, "blocked", loc[t].row)
    /\ Jump(t, "return")
    /\ UNCHANGED <<prop, past, exec, latest, orders, halted>>

BlockFailedItem(t) ==
    /\ At(t, "failitem")
    /\ UpdateItem(loc[t].q, "blocked", loc[t].ex)
    /\ Jump(t, "return")
    /\ UNCHANGED <<prop, past, exec, latest, orders, halted>>

-----------------------------------------------------------------------------
(* TraderService.execute_proposal, from the queue (Route = "etoro") or directly *)

Trade(t) ==
    /\ At(t, "trade")
    /\ \/ loc[t].snap.st = "approved" /\ Jump(t, "validated")
       \/ Jump(t, "refuse")
    /\ UNCHANGED db

\* A blocked record, then PermissionError or ValueError.  (The record of a proposal
\* that is not approved has no request payload; cid is set for both.)
RefuseTrade(t) ==
    /\ At(t, "refuse")
    /\ \E e \in FreeExec : CreateExecution(t, e, "blocked", None)
    /\ Raise(t)
    /\ UNCHANGED <<prop, past, queue, stale, orders, halted>>

CreateValidated(t) ==
    /\ At(t, "validated")
    /\ \E e \in FreeExec :
          /\ CreateExecution(t, e, "validated", None)
          /\ Goto(t, [loc[t] EXCEPT !.ex = e, !.pc = "buy"])
    /\ UNCHANGED <<prop, past, queue, stale, orders, halted>>

\* The legacy eToro endpoint has no idempotency key: each call is a new order.
OpenMarketOrder(t) ==
    /\ At(t, "buy")
    /\ \/ orders' = orders \cup {loc[t].ex} /\ Jump(t, "update")
       \/ UNCHANGED orders /\ Raise(t)
       \/ "lost" \in Events /\ orders' = orders \cup {loc[t].ex} /\ Raise(t)
    /\ UNCHANGED <<prop, past, queue, stale, exec, latest, halted>>

UpdateExecution(t) ==
    /\ At(t, "update")
    /\ \E s \in BrokerStatus :
          exec' = [exec EXCEPT ![loc[t].ex] = [@ EXCEPT !.st = s, !.ord = loc[t].ex]]
    /\ CallMarkExecuted(t, loc[t].ex, IF loc[t].q = None THEN "return" ELSE "finish")
    /\ UNCHANGED <<prop, past, queue, stale, latest, orders, halted>>

-----------------------------------------------------------------------------
(* Faults and the environment *)

\* A storage call or a market-data read raises.
RaiseError(t) ==
    /\ "error" \in Events
    /\ ~At(t, "idle")
    /\ Raise(t)
    /\ UNCHANGED db

\* A process dies and restarts: its threads and its lock are gone, the tables stay.
Crash(c) ==
    /\ "crash" \in Events
    /\ loc' = [t \in Threads |-> IF ProcOf[t] = c THEN Idle ELSE loc[t]]
    /\ lock' = [lock EXCEPT ![c] = None]
    /\ UNCHANGED db

Claimed == {"reload", "get", "expire", "checked", "gates", "block", "submit", "dupcheck",
            "record", "mark", "mirror", "finish", "fail", "failitem", "trade", "refuse",
            "validated", "buy", "update"}

\* The lock timeout passes for a processing item.  Unless "slow", a live worker is
\* always done with its item before that.
PassLockTimeout(q) ==
    /\ queue[q].st = "processing"
    /\ q \notin stale
    /\ "slow" \in Events \/ \A t \in Threads : loc[t].q = q => loc[t].pc \notin Claimed
    /\ stale' = stale \cup {q}
    /\ UNCHANGED <<prop, past, queue, exec, latest, orders, halted, lock, loc>>

\* AutomationService: pause, kill switch or circuit breaker, and resume.
HaltAutomation ==
    /\ "halt" \in Events
    /\ ~halted
    /\ halted' = TRUE
    /\ UNCHANGED <<prop, past, queue, stale, exec, latest, orders, lock, loc>>

ResumeAutomation ==
    /\ halted
    /\ halted' = FALSE
    /\ UNCHANGED <<prop, past, queue, stale, exec, latest, orders, lock, loc>>

-----------------------------------------------------------------------------
(* Specification *)

Step(t) ==
    \/ GetProposal(t) \/ ExpireIfNeeded(t) \/ Approve(t) \/ Reject(t) \/ MarkExecuted(t)
    \/ CheckOpen(t) \/ Insert(t)
    \/ ReadItem(t) \/ ReadLatest(t) \/ AdoptExecution(t) \/ ClaimForProcessing(t)
    \/ ReloadItem(t) \/ CheckApproved(t) \/ PassGates(t) \/ BlockItem(t)
    \/ SubmitOrder(t) \/ CheckDuplicate(t) \/ RecordExecution(t) \/ MirrorParallel(t)
    \/ FinishItem(t) \/ BrokerFailed(t) \/ BlockFailedItem(t)
    \/ Trade(t) \/ RefuseTrade(t) \/ CreateValidated(t) \/ OpenMarketOrder(t)
    \/ UpdateExecution(t)

Arrive(t) ==
    \/ \E p \in Proposals : \/ RequestList(t, p) \/ RequestApprove(t, p)
                            \/ RequestReject(t, p) \/ RequestEnqueue(t, p)
                            \/ RequestExecute(t, p)
    \/ \E q \in QueueIds : RequestProcess(t, q)

Environment ==
    \/ \E p \in Proposals : CreateProposal(p) \/ PassExpiry(p)
    \/ \E q \in QueueIds : PassLockTimeout(q)
    \/ \E c \in Procs : Crash(c)
    \/ HaltAutomation \/ ResumeAutomation

Next == Environment \/ \E t \in Threads : Arrive(t) \/ Step(t) \/ RaiseError(t)

Spec == Init /\ [][Next]_vars

\* Handlers go on, and a queue pass that comes again and again while automation is not
\* halted picks the item up.
Fairness ==
    /\ \A t \in Threads : WF_vars(Step(t))
    /\ \A q \in QueueIds :
          SF_vars(\E t \in Threads : ~halted /\ queue[q].st = "queued" /\ RequestProcess(t, q))

LiveSpec == Spec /\ Fairness

-----------------------------------------------------------------------------
(* Properties *)

\* Every variable has its type.
TypeOK ==
    /\ prop \in [Proposals -> ProposalRow]
    /\ past \subseteq Proposals
    /\ queue \in [QueueIds -> QueueRow]
    /\ stale \subseteq QueueIds
    /\ exec \in [ExecIds -> ExecutionRow]
    /\ latest \in [Proposals -> ExecIds \cup {None}]
    /\ orders \subseteq QueueIds \cup ExecIds
    /\ halted \in BOOLEAN
    /\ lock \in [Procs -> Threads \cup {None}]
    /\ loc \in [Threads -> Local]

\* At most one queued or processing item per symbol, however enqueue, claim and
\* re-claim of blocked or stale items interleave (coordinator.py 67-131).
OneOpenItemPerSymbol ==
    \A q1, q2 \in QueueIds :
        /\ queue[q1].st \in OpenStatus
        /\ queue[q2].st \in OpenStatus
        /\ SymbolOfItem(q1) = SymbolOfItem(q2)
        => q1 = q2

\* An executed proposal or item names an execution record of that same proposal,
\* whatever stale copies other threads write back.
ExecutedHasOwnExecution ==
    /\ \A p \in Proposals : prop[p].st = "executed" =>
          prop[p].ex # None /\ exec[prop[p].ex].p = p
    /\ \A q \in QueueIds : queue[q].st = "executed" =>
          queue[q].ex # None /\ exec[queue[q].ex].p = queue[q].p

\* A broker order is the order of at most one execution record, although a slow
\* worker and the one that re-claimed its item both get it back from the broker.
OrderRecordedOnce ==
    \A e1, e2 \in ExecIds :
        exec[e1].ord = exec[e2].ord /\ exec[e1].ord # None => e1 = e2

\* An executed item's execution carries an order the broker accepted: a submission
\* that failed never ends as executed (Alpaca route, no simulated fallback).
ExecutedItemHasOrder ==
    \A q \in QueueIds : queue[q].st = "executed" => exec[queue[q].ex].ord \in orders

(* The inductive strengthening of the two invariants above. *)

\* Steps at which a thread holds a queue item, and at which it holds an execution.
ItemSteps == {"item", "latest", "adopt", "claim", "reload", "checked", "gates", "block",
              "submit", "dupcheck", "record", "mirror", "finish", "fail", "failitem"}
ExecutionSteps == {"adopt", "mark", "mirror", "finish", "failitem", "buy", "update"}

\* Execution id e, if there is one, is a record of proposal p in table rows.
Names(rows, e, p) == e # None => rows[e].st # None /\ rows[e].p = p

\* A thread's copies agree with the tables, now and at the step it will return to.
LocalOK(l, rows, items) ==
    /\ l.pc # "idle" => l.p # None
    /\ l.q # None => items[l.q].st # None /\ items[l.q].p = l.p
    /\ Names(rows, l.row, l.p)
    /\ Names(rows, l.ex, l.p)
    /\ Names(rows, l.snap.ex, l.p)
    /\ l.try \/ l.pc \in ItemSteps \/ l.k \in ItemSteps \/ l.then \in ItemSteps => l.q # None
    /\ l.pc \in ExecutionSteps \/ l.k \in ExecutionSteps \/ l.then \in ExecutionSteps
          => l.ex # None

\* A stored execution, item or newest-row entry belongs to a proposal, and an item's
\* order is recorded for the item's own proposal.
RowsOK ==
    /\ \A e \in ExecIds : /\ exec[e].st # None => exec[e].p # None
                          /\ exec[e].ord \in ExecIds => exec[e].ord = e
                          /\ exec[e].ord \in QueueIds =>
                                /\ exec[e].st # None
                                /\ queue[exec[e].ord].st # None
                                /\ queue[exec[e].ord].p = exec[e].p
    /\ \A q \in QueueIds : /\ queue[q].st # None => queue[q].p # None
                           /\ Names(exec, queue[q].ex, queue[q].p)
    /\ \A p \in Proposals : Names(exec, latest[p], p) /\ Names(exec, prop[p].ex, p)

\* Every execution id in a row, or in a thread's copy of a row, names a record of
\* that row's own proposal: no interleaving of whole-row writes mixes two proposals.
ReferencesAgree == RowsOK /\ \A t \in Threads : LocalOK(loc[t], exec, queue)

\* The proposal an order belongs to.
ProposalOfOrder(o) == IF o \in QueueIds THEN queue[o].p ELSE exec[o].p

\* Orders of proposal p that no execution record reports as dead.
LiveOrders(p) ==
    {o \in orders : /\ ProposalOfOrder(o) = p
                    /\ \A e \in RecordedAs(o) : exec[e].st \notin DeadStatus}

\* A proposal has at most one order that was not rejected, across re-enqueues, restarts,
\* repeated processing and lost updates of the proposal row, while the queue is processed
\* by one container (two can break it: README, section 5).
OneLiveOrderPerProposal == \A p \in Proposals : Cardinality(LiveOrders(p)) <= 1

\* An item whose submission already produced an execution record is not sent to the
\* broker again (the blocked item keeps the failed execution's id).
NoResubmission ==
    [][\A t \in Threads : SubmitOrder(t) =>
          \A e \in ExecIds : exec[e].st # None => exec[e].cid # loc[t].q]_vars

\* An item that names its execution is not open, so it no longer keeps its symbol
\* out of the queue.
DoneItemReleasesSymbol ==
    \A q \in QueueIds : queue[q].ex # None => queue[q].st \notin OpenStatus

\* No item stays queued for ever while automation runs: it is picked up, or automation is
\* halted meanwhile.  While a halt lasts no pass lists the queue (workflow/service.py
\* 114-122, unattended.py 336-337), so the item waits for the resume, as long as that takes.
QueuedItemIsPickedUp ==
    \A q \in QueueIds : queue[q].st = "queued" ~> queue[q].st # "queued" \/ halted

\* A claimed item ends executed or blocked.
ClaimedItemIsResolved ==
    \A q \in QueueIds : queue[q].st = "processing" ~> queue[q].st # "processing"

\* "Mark an approved proposal as executed": the row turns executed only from approved.
\* The code does not keep this (README, section 5).
OnlyApprovedBecomesExecuted ==
    [][\A p \in Proposals : prop'[p].st = "executed" =>
          prop[p].st \in {"approved", "executed"}]_vars

\* Queue processing is blocked while the kill switch is on: no order reaches the broker.
\* The code does not keep this (README, section 5).
NoOrderWhileHalted == [][halted => orders' = orders]_vars
=============================================================================
