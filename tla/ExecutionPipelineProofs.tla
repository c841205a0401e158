---------------------- MODULE ExecutionPipelineProofs ----------------------
(***************************************************************************)
(* Proofs about ExecutionPipeline for every number of proposals, items,    *)
(* execution records, threads and processes, on every route, with every    *)
(* fault.                                                                   *)
(*                                                                          *)
(* The inductive invariant is Inv.  A step writes at most one row of one    *)
(* table and moves one thread, so the proof has two kinds of lemmas: what   *)
(* a write to each table keeps (Good' and Keeps), and that the locals a     *)
(* thread continues with are right (LocalOK).                               *)
(***************************************************************************)
EXTENDS ExecutionPipeline, FiniteSetTheorems, TLAPS

\* The type of everything but the threads and their locks.
TablesOK ==
    /\ prop \in [Proposals -> ProposalRow]
    /\ past \subseteq Proposals
    /\ queue \in [QueueIds -> QueueRow]
    /\ stale \subseteq QueueIds
    /\ exec \in [ExecIds -> ExecutionRow]
    /\ latest \in [Proposals -> ExecIds \cup {None}]
    /\ orders \subseteq QueueIds \cup ExecIds
    /\ halted \in BOOLEAN

\* What the tables satisfy between any two steps.
Good ==
    /\ TablesOK
    /\ RowsOK
    /\ ExecutedHasOwnExecution
    /\ OrderRecordedOnce
    /\ OneOpenItemPerSymbol

ThreadsOK ==
    /\ loc \in [Threads -> Local]
    /\ lock \in [Procs -> Threads \cup {None}]
    /\ \A t \in Threads : LocalOK(loc[t], exec, queue)

\* The inductive invariant.
Inv == Good /\ ThreadsOK

\* What a step never does to a stored row: delete it, or give it to another proposal.
Keeps ==
    /\ \A e \in ExecIds : exec[e].st # None =>
          exec'[e].st # None /\ exec'[e].p = exec[e].p
    /\ \A q \in QueueIds : queue[q].st # None =>
          queue'[q].st # None /\ queue'[q].p = queue[q].p

-----------------------------------------------------------------------------
(* Threads *)

\* A thread's copies stay right while stored rows keep their proposals.
LEMMA LocalKept ==
    ASSUME NEW l \in Local, LocalOK(l, exec, queue), Keeps
    PROVE  LocalOK(l, exec', queue')
BY PipelineConstants DEF Local, LocalOK, Keeps, Names, ProposalRow

\* An idle thread has nothing that could be wrong.
LEMMA IdleOK ==
    ASSUME NEW rows, NEW items
    PROVE  Idle \in Local /\ LocalOK(Idle, rows, items)
BY PipelineConstants DEF Idle, Local, LocalOK, Names, ProposalRow, NoRow, Steps,
   ItemSteps, ExecutionSteps, ApprovalStatus, QueueStatus

\* Goto gives one thread locals that are right; the others keep theirs.
LEMMA GotoOK ==
    ASSUME ThreadsOK, Keeps, NEW t \in Threads, NEW l \in Local,
           Goto(t, l), LocalOK(l, exec', queue')
    PROVE  ThreadsOK'
<1>1. loc' = [loc EXCEPT ![t] = IF l.pc = "return" THEN Idle ELSE l]
  BY DEF Goto
<1>2. lock' \in [Procs -> Threads \cup {None}]
  BY DEF Goto, ThreadsOK
<1>3. loc' \in [Threads -> Local]
  BY <1>1, IdleOK DEF ThreadsOK
<1>4. ASSUME NEW u \in Threads PROVE LocalOK(loc'[u], exec', queue')
  <2>1. CASE u = t
    BY <1>1, <2>1, IdleOK DEF ThreadsOK
  <2>2. CASE u # t
    <3>1. loc'[u] = loc[u] /\ loc[u] \in Local
      BY <1>1, <2>2 DEF ThreadsOK
    <3>2. LocalOK(loc[u], exec, queue)
      BY DEF ThreadsOK
    <3> QED BY <3>1, <3>2, LocalKept
  <2> QED BY <2>1, <2>2
<1> QED BY <1>2, <1>3, <1>4 DEF ThreadsOK

\* Jump: the step s needs an item, or an execution, only if the thread has one.
LEMMA JumpOK ==
    ASSUME NEW r \in Local, NEW rows, NEW items, LocalOK(r, rows, items), r.p # None,
           NEW s \in Steps,
           s \in ItemSteps => r.q # None, s \in ExecutionSteps => r.ex # None
    PROVE  LET l == [r EXCEPT !.pc = s, !.k = "idle", !.snap = NoRow]
           IN  l \in Local /\ LocalOK(l, rows, items)
<1> DEFINE l == [r EXCEPT !.pc = s, !.k = "idle", !.snap = NoRow]
<1>1. NoRow \in ProposalRow
  BY DEF NoRow, ProposalRow, ApprovalStatus
<1>2. l \in Local
  BY <1>1 DEF Local, Steps
<1>3. /\ l.pc = s /\ l.k = "idle" /\ l.snap = NoRow /\ l.p = r.p /\ l.q = r.q
      /\ l.row = r.row /\ l.ex = r.ex /\ l.then = r.then /\ l.try = r.try
  BY DEF Local
<1>4. LocalOK(l, rows, items)
  <2> HIDE DEF l
  <2> QED BY <1>3 DEF LocalOK, Names, NoRow, ItemSteps, ExecutionSteps
<1> QED BY <1>2, <1>4

\* Raise: the except branch runs only where the coordinator's try block had an item.
LEMMA RaiseOK ==
    ASSUME NEW r \in Local, NEW rows, NEW items, LocalOK(r, rows, items), r.p # None
    PROVE  LET l == [r EXCEPT !.pc = IF r.try THEN "fail" ELSE "return", !.try = FALSE,
                        !.ex = None, !.then = "idle", !.k = "idle", !.snap = NoRow]
           IN  l \in Local /\ LocalOK(l, rows, items)
<1> DEFINE a == IF r.try THEN "fail" ELSE "return"
           l == [r EXCEPT !.pc = a, !.try = FALSE,
                    !.ex = None, !.then = "idle", !.k = "idle", !.snap = NoRow]
<1>1. NoRow \in ProposalRow /\ a \in Steps
  BY DEF NoRow, ProposalRow, ApprovalStatus, Steps
<1>2. l \in Local
  <2> HIDE DEF a
  <2> QED BY <1>1 DEF Local, Steps
<1>3. /\ l.pc = a /\ l.k = "idle" /\ l.snap = NoRow /\ l.p = r.p /\ l.q = r.q
      /\ l.row = r.row /\ l.ex = None /\ l.then = "idle" /\ l.try = FALSE
  <2> HIDE DEF a
  <2> QED BY DEF Local
<1>4. LocalOK(l, rows, items)
  <2> HIDE DEF l
  <2> QED BY <1>3 DEF LocalOK, Names, NoRow, ItemSteps, ExecutionSteps
<1> QED BY <1>2, <1>4

\* get_proposal: a copy of the thread's own proposal, and the step that follows.
LEMMA ReadOK ==
    ASSUME NEW r \in Local, NEW rows, NEW items, LocalOK(r, rows, items), r.p # None,
           NEW row \in ProposalRow, Names(rows, row.ex, r.p), NEW s \in {"expire", r.k}
    PROVE  LET l == [r EXCEPT !.snap = row, !.pc = s]
           IN  l \in Local /\ LocalOK(l, rows, items)
<1> DEFINE l == [r EXCEPT !.snap = row, !.pc = s]
<1>1. l \in Local
  BY DEF Local, Steps
<1>2. /\ l.pc = s /\ l.k = r.k /\ l.snap = row /\ l.p = r.p /\ l.q = r.q
      /\ l.row = r.row /\ l.ex = r.ex /\ l.then = r.then /\ l.try = r.try
  BY DEF Local
<1>3. LocalOK(l, rows, items)
  <2> HIDE DEF l
  <2> QED BY <1>2 DEF LocalOK, ItemSteps, ExecutionSteps
<1> QED BY <1>1, <1>3

\* The item's status is noted and the next step chosen.
LEMMA NoteOK ==
    ASSUME NEW r \in Local, NEW rows, NEW items, LocalOK(r, rows, items), r.p # None,
           NEW w \in QueueStatus, NEW s \in {"return", "latest", "claim"}, r.q # None
    PROVE  LET l == [r EXCEPT !.was = w, !.pc = s]
           IN  l \in Local /\ LocalOK(l, rows, items)
<1> DEFINE l == [r EXCEPT !.was = w, !.pc = s]
<1>1. l \in Local
  BY DEF Local, Steps
<1>2. /\ l.pc = s /\ l.k = r.k /\ l.snap = r.snap /\ l.p = r.p /\ l.q = r.q
      /\ l.row = r.row /\ l.ex = r.ex /\ l.then = r.then /\ l.try = r.try
  BY DEF Local
<1>3. LocalOK(l, rows, items)
  <2> HIDE DEF l
  <2> QED BY <1>2 DEF LocalOK, ItemSteps, ExecutionSteps
<1> QED BY <1>1, <1>3

\* An execution of the thread's proposal is adopted.
LEMMA AdoptOK ==
    ASSUME NEW r \in Local, NEW rows, NEW items, LocalOK(r, rows, items), r.p # None,
           NEW e \in ExecIds, Names(rows, e, r.p), e # None, r.q # None
    PROVE  LET l == [r EXCEPT !.was = None, !.pc = "adopt", !.ex = e]
           IN  l \in Local /\ LocalOK(l, rows, items)
<1> DEFINE l == [r EXCEPT !.was = None, !.pc = "adopt", !.ex = e]
<1>1. l \in Local
  <2>1. None \in QueueStatus /\ "adopt" \in Steps
    BY DEF QueueStatus, Steps
  <2> QED BY <2>1 DEF Local
<1>2. /\ l.pc = "adopt" /\ l.k = r.k /\ l.snap = r.snap /\ l.p = r.p /\ l.q = r.q
      /\ l.row = r.row /\ l.ex = e /\ l.then = r.then /\ l.try = r.try
  BY DEF Local
<1>3. LocalOK(l, rows, items)
  <2> HIDE DEF l
  <2> QED BY <1>2 DEF LocalOK
<1> QED BY <1>1, <1>3

\* The item is read again and get_proposal called.
LEMMA ReloadOK ==
    ASSUME NEW r \in Local, NEW rows, NEW items, LocalOK(r, rows, items), r.p # None,
           NEW e \in ExecIds \cup {None}, Names(rows, e, r.p), r.q # None
    PROVE  LET l == [r EXCEPT !.row = e, !.pc = "get", !.k = "checked"]
           IN  l \in Local /\ LocalOK(l, rows, items)
<1> DEFINE l == [r EXCEPT !.row = e, !.pc = "get", !.k = "checked"]
<1>1. l \in Local
  BY DEF Local, Steps
<1>2. /\ l.pc = "get" /\ l.k = "checked" /\ l.snap = r.snap /\ l.p = r.p /\ l.q = r.q
      /\ l.row = e /\ l.ex = r.ex /\ l.then = r.then /\ l.try = r.try
  BY DEF Local
<1>3. LocalOK(l, rows, items)
  <2> HIDE DEF l
  <2> QED BY <1>2 DEF LocalOK, ItemSteps, ExecutionSteps
<1> QED BY <1>1, <1>3

\* The coordinator enters its try block.
LEMMA TryOK ==
    ASSUME NEW r \in Local, NEW rows, NEW items, LocalOK(r, rows, items), r.p # None,
           r.q # None
    PROVE  /\ LET l == [r EXCEPT !.pc = "submit", !.try = TRUE]
              IN  l \in Local /\ LocalOK(l, rows, items)
           /\ LET l == [r EXCEPT !.pc = "get", !.k = "trade", !.try = TRUE]
              IN  l \in Local /\ LocalOK(l, rows, items)
<1> DEFINE l == [r EXCEPT !.pc = "submit", !.try = TRUE]
           m == [r EXCEPT !.pc = "get", !.k = "trade", !.try = TRUE]
<1>1. l \in Local /\ m \in Local
  BY DEF Local, Steps
<1>2. /\ l.pc = "submit" /\ l.k = r.k /\ l.snap = r.snap /\ l.p = r.p /\ l.q = r.q
      /\ l.row = r.row /\ l.ex = r.ex /\ l.then = r.then /\ l.try = TRUE
  BY DEF Local
<1>3. /\ m.pc = "get" /\ m.k = "trade" /\ m.snap = r.snap /\ m.p = r.p /\ m.q = r.q
      /\ m.row = r.row /\ m.ex = r.ex /\ m.then = r.then /\ m.try = TRUE
  BY DEF Local
<1>4. LocalOK(l, rows, items)
  <2> HIDE DEF l
  <2> QED BY <1>2 DEF LocalOK, ItemSteps, ExecutionSteps
<1>5. LocalOK(m, rows, items)
  <2> HIDE DEF m
  <2> QED BY <1>3 DEF LocalOK, ItemSteps, ExecutionSteps
<1> QED BY <1>1, <1>4, <1>5

\* mark_executed is called with an execution of the thread's proposal.
LEMMA MarkOK ==
    ASSUME NEW r \in Local, NEW rows, NEW items, LocalOK(r, rows, items), r.p # None,
           NEW e \in ExecIds, Names(rows, e, r.p), e # None,
           NEW s \in {"finish", "mirror", "return"}, s # "return" => r.q # None
    PROVE  LET l == [r EXCEPT !.ex = e, !.pc = "get", !.k = "mark", !.then = s]
           IN  l \in Local /\ LocalOK(l, rows, items)
<1> DEFINE l == [r EXCEPT !.ex = e, !.pc = "get", !.k = "mark", !.then = s]
<1>1. l \in Local
  BY DEF Local, Steps
<1>2. /\ l.pc = "get" /\ l.k = "mark" /\ l.snap = r.snap /\ l.p = r.p /\ l.q = r.q
      /\ l.row = r.row /\ l.ex = e /\ l.then = s /\ l.try = r.try
  BY DEF Local
<1>3. LocalOK(l, rows, items)
  <2> HIDE DEF l
  <2> QED BY <1>2 DEF LocalOK, ItemSteps, ExecutionSteps
<1> QED BY <1>1, <1>3

\* The thread keeps the id of the execution it created.
LEMMA HoldOK ==
    ASSUME NEW r \in Local, NEW rows, NEW items, LocalOK(r, rows, items), r.p # None,
           NEW e \in ExecIds, Names(rows, e, r.p), e # None,
           NEW s \in {"failitem", "buy"}, s = "failitem" => r.q # None
    PROVE  LET l == [r EXCEPT !.ex = e, !.pc = s]
           IN  l \in Local /\ LocalOK(l, rows, items)
<1> DEFINE l == [r EXCEPT !.ex = e, !.pc = s]
<1>1. l \in Local
  BY DEF Local, Steps
<1>2. /\ l.pc = s /\ l.k = r.k /\ l.snap = r.snap /\ l.p = r.p /\ l.q = r.q
      /\ l.row = r.row /\ l.ex = e /\ l.then = r.then /\ l.try = r.try
  BY DEF Local
<1>3. LocalOK(l, rows, items)
  <2> HIDE DEF l
  <2> QED BY <1>2 DEF LocalOK, ItemSteps, ExecutionSteps
<1> QED BY <1>1, <1>3
-----------------------------------------------------------------------------
(* Tables *)

\* Steps that write no row.
LEMMA SameRows ==
    ASSUME Good, UNCHANGED <<prop, queue, exec, latest>>,
           past' \subseteq Proposals, stale' \subseteq QueueIds,
           orders' \subseteq QueueIds \cup ExecIds, halted' \in BOOLEAN
    PROVE  Good' /\ Keeps
<1>1. TablesOK' /\ Keeps
  BY DEF Good, TablesOK, Keeps
<1>2. RowsOK'
  BY DEF Good, RowsOK, Names
<1>3. ExecutedHasOwnExecution'
  BY DEF Good, ExecutedHasOwnExecution
<1>4. OrderRecordedOnce'
  BY DEF Good, OrderRecordedOnce
<1>5. OneOpenItemPerSymbol'
  BY DEF Good, OneOpenItemPerSymbol, SymbolOfItem
<1> QED BY <1>1, <1>2, <1>3, <1>4, <1>5 DEF Good

\* One approvals row is written.
LEMMA WriteProposal ==
    ASSUME Good, NEW p \in Proposals, NEW row \in ProposalRow,
           prop' = [prop EXCEPT ![p] = row],
           Names(exec, row.ex, p), row.st = "executed" => row.ex # None,
           UNCHANGED <<past, queue, stale, exec, latest, orders, halted>>
    PROVE  Good' /\ Keeps
<1>1. TablesOK' /\ Keeps
  BY DEF Good, TablesOK, Keeps
<1>2. RowsOK'
  BY DEF Good, RowsOK, Names, TablesOK
<1>3. ExecutedHasOwnExecution'
  BY DEF Good, ExecutedHasOwnExecution, Names, TablesOK
<1>4. OrderRecordedOnce'
  BY DEF Good, OrderRecordedOnce
<1>5. OneOpenItemPerSymbol'
  BY DEF Good, OneOpenItemPerSymbol, SymbolOfItem
<1> QED BY <1>1, <1>2, <1>3, <1>4, <1>5 DEF Good

\* One execution_queue row is written, by INSERT, claim or UPDATE.
LEMMA WriteItem ==
    ASSUME Good, NEW q \in QueueIds, NEW row \in QueueRow,
           queue' = [queue EXCEPT ![q] = row],
           row.st # None, row.p # None, queue[q].st # None => row.p = queue[q].p,
           Names(exec, row.ex, row.p), row.st = "executed" => row.ex # None,
           row.st \in OpenStatus => IndexAllows(q, SymbolOf[row.p]),
           stale' \subseteq QueueIds,
           UNCHANGED <<prop, past, exec, latest, orders, halted>>
    PROVE  Good' /\ Keeps
<1>1. TablesOK' /\ Keeps
  BY DEF Good, TablesOK, Keeps
<1>2. RowsOK'
  BY DEF Good, RowsOK, Names, TablesOK
<1>3. ExecutedHasOwnExecution'
  BY DEF Good, ExecutedHasOwnExecution, Names, TablesOK
<1>4. OrderRecordedOnce'
  BY DEF Good, OrderRecordedOnce
<1>5. OneOpenItemPerSymbol'
  <2>1. queue \in [QueueIds -> QueueRow] /\ OneOpenItemPerSymbol
    BY DEF Good, TablesOK
  <2> QED BY <2>1 DEF OneOpenItemPerSymbol, SymbolOfItem, IndexAllows, OpenFor
<1> QED BY <1>1, <1>2, <1>3, <1>4, <1>5 DEF Good

\* One executions row is inserted, for proposal p, and becomes its newest.
LEMMA InsertExecution ==
    ASSUME Good, NEW e \in ExecIds, NEW row \in ExecutionRow, NEW p \in Proposals,
           exec[e].st = None, exec' = [exec EXCEPT ![e] = row], row.p = p, row.st # None,
           latest' = [latest EXCEPT ![p] = e],
           row.ord \in QueueIds \cup {None},
           row.ord # None => /\ RecordedAs(row.ord) = {}
                             /\ queue[row.ord].st # None /\ queue[row.ord].p = p,
           UNCHANGED <<prop, past, queue, stale, orders, halted>>
    PROVE  Good' /\ Keeps /\ Names(exec', e, p)
<1>1. TablesOK' /\ Keeps /\ Names(exec', e, p)
  BY DEF Good, TablesOK, Keeps, Names
<1>2. RowsOK'
  BY PipelineConstants DEF Good, RowsOK, Names, TablesOK
<1>3. ExecutedHasOwnExecution'
  BY DEF Good, ExecutedHasOwnExecution, RowsOK, Names, TablesOK
<1>4. OrderRecordedOnce'
  BY DEF Good, OrderRecordedOnce, RecordedAs, TablesOK
<1>5. OneOpenItemPerSymbol'
  BY DEF Good, OneOpenItemPerSymbol, SymbolOfItem
<1> QED BY <1>1, <1>2, <1>3, <1>4, <1>5 DEF Good

\* One executions row gets its broker order.
LEMMA FillExecution ==
    ASSUME Good, NEW e \in ExecIds, NEW row \in ExecutionRow,
           exec[e].st # None, exec' = [exec EXCEPT ![e] = row],
           row.st # None, row.p = exec[e].p, row.ord = e,
           UNCHANGED <<prop, past, queue, stale, latest, orders, halted>>
    PROVE  Good' /\ Keeps
<1>1. TablesOK' /\ Keeps
  BY DEF Good, TablesOK, Keeps
<1>2. RowsOK'
  BY PipelineConstants DEF Good, RowsOK, Names, TablesOK
<1>3. ExecutedHasOwnExecution'
  BY DEF Good, ExecutedHasOwnExecution, TablesOK
<1>4. OrderRecordedOnce'
  <2>1. /\ exec \in [ExecIds -> ExecutionRow]
        /\ \A f \in ExecIds : exec[f].ord \in ExecIds => exec[f].ord = f
        /\ OrderRecordedOnce
    <3>1. exec \in [ExecIds -> ExecutionRow] /\ RowsOK /\ OrderRecordedOnce
      BY DEF Good, TablesOK
    <3>2. \A f \in ExecIds : exec[f].ord \in ExecIds => exec[f].ord = f
      BY <3>1 DEF RowsOK
    <3> QED BY <3>1, <3>2
  <2>2. \A f \in ExecIds : exec'[f] = IF f = e THEN row ELSE exec[f]
    BY <2>1
  <2>3. \A f \in ExecIds : f # e => exec'[f].ord # e
    BY <2>1, <2>2
  <2>4. \A f \in ExecIds : f = e => exec'[f].ord = e
    BY <2>2
  <2>5. \A f, g \in ExecIds : f # e /\ g # e =>
           (exec'[f].ord = exec'[g].ord /\ exec'[f].ord # None => f = g)
    BY <2>1, <2>2 DEF OrderRecordedOnce
  <2> QED BY <2>3, <2>4, <2>5 DEF OrderRecordedOnce
<1>5. OneOpenItemPerSymbol'
  BY DEF Good, OneOpenItemPerSymbol, SymbolOfItem
<1> QED BY <1>1, <1>2, <1>3, <1>4, <1>5 DEF Good
-----------------------------------------------------------------------------
(* One thread's step, from the two kinds of lemmas *)

\* What a thread in a handler knows of its own locals.
LEMMA ThreadFacts ==
    ASSUME Inv, NEW t \in Threads, loc[t].pc # "idle"
    PROVE  /\ loc[t] \in Local
           /\ LocalOK(loc[t], exec, queue)
           /\ loc[t].p \in Proposals /\ loc[t].p # None
           /\ loc[t].pc \in ItemSteps \/ loc[t].try \/ loc[t].k \in ItemSteps
                \/ loc[t].then \in ItemSteps => loc[t].q # None
           /\ loc[t].q # None => /\ loc[t].q \in QueueIds
                                 /\ queue[loc[t].q].st # None
                                 /\ queue[loc[t].q].p = loc[t].p
           /\ loc[t].pc \in ExecutionSteps \/ loc[t].k \in ExecutionSteps
                \/ loc[t].then \in ExecutionSteps => loc[t].ex # None
           /\ loc[t].ex # None => /\ loc[t].ex \in ExecIds
                                  /\ exec[loc[t].ex].st # None
                                  /\ exec[loc[t].ex].p = loc[t].p
           /\ loc[t].row # None => loc[t].row \in ExecIds
           /\ Names(exec, loc[t].row, loc[t].p)
           /\ loc[t].snap \in ProposalRow
           /\ Names(exec, loc[t].snap.ex, loc[t].p)
<1>1. loc[t] \in Local /\ LocalOK(loc[t], exec, queue)
  BY DEF Inv, ThreadsOK
<1> QED BY <1>1 DEF Local, LocalOK, Names

LEMMA GotoStep ==
    ASSUME Inv, Good', Keeps, NEW t \in Threads, NEW l \in Local,
           LocalOK(l, exec, queue) \/ LocalOK(l, exec', queue'), Goto(t, l)
    PROVE  Inv'
<1>1. LocalOK(l, exec', queue')
  BY LocalKept
<1> QED BY <1>1, GotoOK DEF Inv

LEMMA JumpStep ==
    ASSUME Inv, Good', Keeps, NEW t \in Threads, loc[t].pc # "idle", NEW s \in Steps,
           s \in ItemSteps => loc[t].q # None, s \in ExecutionSteps => loc[t].ex # None,
           Jump(t, s)
    PROVE  Inv'
<1> DEFINE l == [loc[t] EXCEPT !.pc = s, !.k = "idle", !.snap = NoRow]
<1>1. l \in Local /\ LocalOK(l, exec, queue)
  BY ThreadFacts, JumpOK
<1>2. Goto(t, l)
  BY DEF Jump
<1> HIDE DEF l
<1> QED BY <1>1, <1>2, GotoStep

LEMMA RaiseStep ==
    ASSUME Inv, Good', Keeps, NEW t \in Threads, loc[t].pc # "idle", Raise(t)
    PROVE  Inv'
<1> DEFINE l == [loc[t] EXCEPT !.pc = IF loc[t].try THEN "fail" ELSE "return",
                    !.try = FALSE, !.ex = None, !.then = "idle", !.k = "idle",
                    !.snap = NoRow]
<1>1. l \in Local /\ LocalOK(l, exec, queue)
  BY ThreadFacts, RaiseOK
<1>2. Goto(t, l)
  BY DEF Raise
<1> HIDE DEF l
<1> QED BY <1>1, <1>2, GotoStep

\* UPDATE execution_queue by a thread that holds the item.
LEMMA UpdateItemStep ==
    ASSUME Inv, NEW q \in QueueIds, queue[q].st # None, NEW s \in QueueStatus \ {None},
           NEW e \in ExecIds \cup {None}, Names(exec, e, queue[q].p),
           s = "executed" => e # None,
           s \in OpenStatus => IndexAllows(q, SymbolOf[queue[q].p]),
           UpdateItem(q, s, e), UNCHANGED <<prop, past, exec, latest, orders, halted>>
    PROVE  Good' /\ Keeps
<1> DEFINE row == [queue[q] EXCEPT !.st = s, !.ex = e]
<1>1. Good /\ queue \in [QueueIds -> QueueRow] /\ stale \subseteq QueueIds
      /\ queue[q].p # None
  BY DEF Inv, Good, TablesOK, RowsOK
<1>2. queue' = [queue EXCEPT ![q] = row] /\ stale' \subseteq QueueIds
  BY <1>1 DEF UpdateItem
<1>3. row \in QueueRow /\ row.st = s /\ row.ex = e /\ row.p = queue[q].p
  BY <1>1 DEF QueueRow
<1> HIDE DEF row
<1> QED BY <1>1, <1>2, <1>3, WriteItem

\* INSERT INTO executions by a thread in a handler.
LEMMA CreateStep ==
    ASSUME Inv, NEW t \in Threads, loc[t].pc # "idle", NEW e \in ExecIds,
           NEW s \in ExecutionStatus \ {None}, NEW o \in QueueIds \cup {None},
           o # None => o = loc[t].q /\ RecordedAs(o) = {}, CreateExecution(t, e, s, o),
           UNCHANGED <<prop, past, queue, stale, orders, halted>>
    PROVE  Good' /\ Keeps /\ Names(exec', e, loc[t].p) /\ e # None
<1> DEFINE row == [st |-> s, p |-> loc[t].p, ord |-> o, cid |-> loc[t].q]
<1>1. loc[t].p \in Proposals /\ loc[t].q \in QueueIds \cup {None}
  BY ThreadFacts
<1>2. row \in ExecutionRow /\ row.p = loc[t].p /\ row.st = s /\ row.ord = o
  BY <1>1 DEF ExecutionRow
<1>3. /\ exec[e].st = None
      /\ exec' = [exec EXCEPT ![e] = row]
      /\ latest' = [latest EXCEPT ![loc[t].p] = e]
  BY DEF CreateExecution, FreeExec
<1> HIDE DEF row
<1>4. e # None
  BY PipelineConstants
<1>5. row.ord # None => /\ RecordedAs(row.ord) = {}
                        /\ queue[row.ord].st # None /\ queue[row.ord].p = loc[t].p
  BY <1>2, ThreadFacts
<1> QED BY <1>1, <1>2, <1>3, <1>4, <1>5, InsertExecution DEF Inv
-----------------------------------------------------------------------------
(* The steps of a thread *)

\* A step that touches only the thread.
LEMMA SameTables ==
    ASSUME Inv, UNCHANGED db
    PROVE  Good' /\ Keeps
<1>1. /\ past' \subseteq Proposals /\ stale' \subseteq QueueIds /\ halted' \in BOOLEAN
      /\ orders' \subseteq QueueIds \cup ExecIds
  BY DEF Inv, Good, TablesOK, db
<1> QED BY <1>1, SameRows DEF Inv, db

\* get_proposal and the writes of ProposalService keep the invariant.
LEMMA ProposalSteps ==
    ASSUME Inv, NEW t \in Threads,
           \/ GetProposal(t) \/ ExpireIfNeeded(t) \/ Approve(t) \/ Reject(t)
           \/ MarkExecuted(t)
    PROVE  Inv'
<1>0. Good /\ prop \in [Proposals -> ProposalRow]
      /\ \A p \in Proposals : Names(exec, prop[p].ex, p)
  BY DEF Inv, Good, TablesOK, RowsOK
<1>1. CASE GetProposal(t)
  <2> DEFINE row == prop[loc[t].p]
             s == IF row.st \in Undecided /\ loc[t].p \in past THEN "expire" ELSE loc[t].k
             l == [loc[t] EXCEPT !.snap = row, !.pc = s]
  <2>1. loc[t].pc # "idle"
    BY <1>1 DEF GetProposal, At
  <2>2. Goto(t, l) /\ UNCHANGED db
    BY <1>1 DEF GetProposal
  <2>3. row \in ProposalRow /\ Names(exec, row.ex, loc[t].p) /\ s \in {"expire", loc[t].k}
    BY <1>0, <2>1, ThreadFacts
  <2>4. l \in Local /\ LocalOK(l, exec, queue)
    <3> HIDE DEF row, s
    <3> QED BY <2>1, <2>3, ThreadFacts, ReadOK
  <2>5. Good' /\ Keeps
    BY <2>2, SameTables
  <2> HIDE DEF l
  <2> QED BY <2>2, <2>4, <2>5, GotoStep
<1>2. CASE ExpireIfNeeded(t)
  <2> DEFINE row == [loc[t].snap EXCEPT !.st = "expired"]
             l == [loc[t] EXCEPT !.snap = row, !.pc = loc[t].k]
  <2>1. loc[t].pc # "idle"
    BY <1>2 DEF ExpireIfNeeded, At
  <2>2. row \in ProposalRow /\ row.st = "expired" /\ row.ex = loc[t].snap.ex
    BY <2>1, ThreadFacts DEF ProposalRow, ApprovalStatus
  <2>3. /\ prop' = [prop EXCEPT ![loc[t].p] = row]
        /\ Goto(t, l)
        /\ UNCHANGED <<past, queue, stale, exec, latest, orders, halted>>
    BY <1>2 DEF ExpireIfNeeded
  <2>4. Names(exec, row.ex, loc[t].p)
    BY <2>1, <2>2, ThreadFacts
  <2>5. l \in Local /\ LocalOK(l, exec, queue)
    <3> HIDE DEF row
    <3> QED BY <2>1, <2>2, <2>4, ThreadFacts, ReadOK
  <2> HIDE DEF row, l
  <2>6. Good' /\ Keeps
    BY <1>0, <2>1, <2>2, <2>3, <2>4, ThreadFacts, WriteProposal
  <2> QED BY <2>3, <2>5, <2>6, GotoStep
<1>3. ASSUME NEW s \in {"approved", "rejected"}, loc[t].pc # "idle",
             prop' = [prop EXCEPT ![loc[t].p] = [loc[t].snap EXCEPT !.st = s]],
             UNCHANGED <<past, queue, stale, exec, latest, orders, halted>>
      PROVE  Good' /\ Keeps
  <2> DEFINE row == [loc[t].snap EXCEPT !.st = s]
  <2>1. row \in ProposalRow /\ row.st = s /\ row.ex = loc[t].snap.ex
    BY <1>3, ThreadFacts DEF ProposalRow, ApprovalStatus
  <2>2. Names(exec, row.ex, loc[t].p)
    BY <1>3, <2>1, ThreadFacts
  <2>3. /\ prop' = [prop EXCEPT ![loc[t].p] = row]
        /\ UNCHANGED <<past, queue, stale, exec, latest, orders, halted>>
    BY <1>3
  <2>4. loc[t].p \in Proposals /\ row.st # "executed"
    BY <1>3, <2>1, ThreadFacts
  <2> HIDE DEF row
  <2> QED BY <1>0, <2>1, <2>2, <2>3, <2>4, WriteProposal
<1>4. CASE Approve(t)
  <2>1. loc[t].pc # "idle" /\ Jump(t, "return")
    BY <1>4 DEF Approve, At
  <2>2. Good' /\ Keeps
    BY <1>3, <1>4, <2>1, SameTables DEF Approve, db
  <2> QED BY <2>1, <2>2, JumpStep DEF Steps, ItemSteps, ExecutionSteps
<1>5. CASE Reject(t)
  <2>1. loc[t].pc # "idle" /\ Jump(t, "return")
    BY <1>5 DEF Reject, At
  <2>2. Good' /\ Keeps
    BY <1>3, <1>5, <2>1, SameTables DEF Reject, db
  <2> QED BY <2>1, <2>2, JumpStep DEF Steps, ItemSteps, ExecutionSteps
<1>6. CASE MarkExecuted(t)
  <2> DEFINE row == [st |-> "executed", ex |-> loc[t].ex]
  <2>1. /\ loc[t].pc # "idle"
        /\ prop' = [prop EXCEPT ![loc[t].p] = row]
        /\ Jump(t, loc[t].then)
        /\ UNCHANGED <<past, queue, stale, exec, latest, orders, halted>>
    BY <1>6 DEF MarkExecuted, At
  <2>2. loc[t].ex # None
    BY <1>6, <2>1, ThreadFacts DEF MarkExecuted, At, ExecutionSteps
  <2>3. row \in ProposalRow /\ row.ex = loc[t].ex /\ Names(exec, row.ex, loc[t].p)
    BY <2>1, <2>2, ThreadFacts DEF ProposalRow, ApprovalStatus, Names
  <2> HIDE DEF row
  <2>4. Good' /\ Keeps
    BY <1>0, <2>1, <2>2, <2>3, ThreadFacts, WriteProposal
  <2>5. loc[t].then \in Steps /\ (loc[t].then \in ItemSteps => loc[t].q # None)
    BY <2>1, ThreadFacts DEF Local
  <2> QED BY <2>1, <2>2, <2>4, <2>5, JumpStep
<1> QED BY <1>1, <1>2, <1>4, <1>5, <1>6
\* enqueue and the steps of process_queue_item before its broker keep the invariant.
LEMMA QueueSteps ==
    ASSUME Inv, NEW t \in Threads,
           \/ CheckOpen(t) \/ Insert(t) \/ ReadItem(t) \/ ReadLatest(t)
           \/ AdoptExecution(t) \/ ClaimForProcessing(t) \/ ReloadItem(t)
           \/ CheckApproved(t) \/ PassGates(t) \/ BlockItem(t)
    PROVE  Inv'
<1>0. /\ Good
      /\ queue \in [QueueIds -> QueueRow] /\ stale \subseteq QueueIds
      /\ \A q \in QueueIds : queue[q].st # None => queue[q].p # None
      /\ \A q \in QueueIds : Names(exec, queue[q].ex, queue[q].p)
      /\ latest \in [Proposals -> ExecIds \cup {None}]
      /\ \A p \in Proposals : Names(exec, latest[p], p)
  BY DEF Inv, Good, TablesOK, RowsOK
<1>1. CASE CheckOpen(t)
  <2>1. loc[t].pc # "idle" /\ (Jump(t, "insert") \/ Jump(t, "return")) /\ UNCHANGED db
    BY <1>1 DEF CheckOpen, At
  <2>2. Good' /\ Keeps
    BY <2>1, SameTables
  <2> QED BY <2>1, <2>2, JumpStep DEF Steps, ItemSteps, ExecutionSteps
<1>2. CASE Insert(t)
  <2>1. loc[t].pc # "idle" /\ Jump(t, "return")
    BY <1>2 DEF Insert, At
  <2>2. Good' /\ Keeps
    <3>1. PICK q \in QueueIds :
             /\ queue[q].st = None
             /\ queue' = IF IndexAllows(q, SymbolOf[loc[t].p])
                         THEN [queue EXCEPT ![q] =
                                  [st |-> "queued", p |-> loc[t].p, ex |-> None]]
                         ELSE queue
      BY <1>2 DEF Insert
    <3> DEFINE row == [st |-> "queued", p |-> loc[t].p, ex |-> None]
    <3>2. row \in QueueRow /\ row.st = "queued" /\ row.p = loc[t].p /\ row.p # None
          /\ row.ex = None
      BY <2>1, ThreadFacts DEF QueueRow, QueueStatus
    <3>3. UNCHANGED <<prop, past, stale, exec, latest, orders, halted>>
      BY <1>2 DEF Insert
    <3>4. CASE IndexAllows(q, SymbolOf[loc[t].p])
      <4>1. queue' = [queue EXCEPT ![q] = row]
        BY <3>1, <3>4
      <4>2. Names(exec, row.ex, row.p)
        BY <3>2 DEF Names
      <4>3. row.st # None /\ row.st # "executed" /\ stale' \subseteq QueueIds
        BY <1>0, <3>2, <3>3 DEF None
      <4> HIDE DEF row
      <4> QED BY <1>0, <3>1, <3>2, <3>3, <3>4, <4>1, <4>2, <4>3, WriteItem
    <3>5. CASE ~IndexAllows(q, SymbolOf[loc[t].p])
      BY <3>1, <3>3, <3>5, SameTables DEF db
    <3> QED BY <3>4, <3>5
  <2> QED BY <2>1, <2>2, JumpStep DEF Steps, ItemSteps, ExecutionSteps
<1>3. CASE ReadItem(t)
  <2> DEFINE w == queue[loc[t].q].st
             s == IF queue[loc[t].q].ex # None THEN "return" ELSE "latest"
             l == [loc[t] EXCEPT !.was = w, !.pc = s]
  <2>1. loc[t].pc = "item" /\ Goto(t, l) /\ UNCHANGED db
    BY <1>3 DEF ReadItem, At
  <2>2. loc[t].q # None /\ loc[t].q \in QueueIds /\ s \in {"return", "latest", "claim"}
    BY <2>1, ThreadFacts DEF ItemSteps
  <2>3. w \in QueueStatus
    BY <1>0, <2>2 DEF QueueRow
  <2>4. l \in Local /\ LocalOK(l, exec, queue)
    <3> HIDE DEF w, s
    <3> QED BY <2>1, <2>2, <2>3, ThreadFacts, NoteOK
  <2>5. Good' /\ Keeps
    BY <2>1, SameTables
  <2> HIDE DEF l
  <2> QED BY <2>1, <2>4, <2>5, GotoStep
<1>4. CASE ReadLatest(t)
  <2> DEFINE e == latest[loc[t].p]
             s == IF loc[t].was = "executed" THEN "return" ELSE "claim"
             l == [loc[t] EXCEPT !.was = None, !.pc = "adopt", !.ex = e]
             m == [loc[t] EXCEPT !.was = None, !.pc = s]
  <2>1. /\ loc[t].pc = "latest" /\ UNCHANGED db
        /\ (e # None /\ Goto(t, l)) \/ Goto(t, m)
    BY <1>4 DEF ReadLatest, At
  <2>2. loc[t].q # None /\ s \in {"return", "latest", "claim"} /\ None \in QueueStatus
    BY <2>1, ThreadFacts DEF ItemSteps, QueueStatus
  <2>3. e \in ExecIds \cup {None} /\ Names(exec, e, loc[t].p)
    BY <1>0, <2>1, ThreadFacts
  <2>4. Good' /\ Keeps
    BY <2>1, SameTables
  <2>5. e # None => l \in Local /\ LocalOK(l, exec, queue)
    <3> HIDE DEF e
    <3> QED BY <2>1, <2>2, <2>3, ThreadFacts, AdoptOK
  <2>6. m \in Local /\ LocalOK(m, exec, queue)
    <3> HIDE DEF s
    <3> QED BY <2>1, <2>2, ThreadFacts, NoteOK
  <2> HIDE DEF e, l, m
  <2> QED BY <2>1, <2>4, <2>5, <2>6, GotoStep
<1>5. CASE AdoptExecution(t)
  <2>1. /\ loc[t].pc = "adopt" /\ Jump(t, "return")
        /\ UpdateItem(loc[t].q, "executed", loc[t].ex)
        /\ UNCHANGED <<prop, past, exec, latest, orders, halted>>
    BY <1>5 DEF AdoptExecution, At
  <2>2. /\ loc[t].q \in QueueIds /\ queue[loc[t].q].st # None
        /\ loc[t].ex \in ExecIds /\ loc[t].ex # None
        /\ Names(exec, loc[t].ex, queue[loc[t].q].p)
    BY <2>1, ThreadFacts DEF ItemSteps, ExecutionSteps, Names
  <2>3. Good' /\ Keeps
    BY <2>1, <2>2, UpdateItemStep DEF QueueStatus, OpenStatus, None
  <2> QED BY <2>1, <2>3, JumpStep DEF Steps, ItemSteps, ExecutionSteps
<1>6. CASE ClaimForProcessing(t)
  <2>1. loc[t].pc = "claim" /\ UNCHANGED <<prop, past, exec, latest, orders, halted>>
    BY <1>6 DEF ClaimForProcessing, At
  <2>2. loc[t].q # None /\ loc[t].q \in QueueIds /\ queue[loc[t].q].st # None
    BY <2>1, ThreadFacts DEF ItemSteps
  <2>3. CASE Claimable(loc[t].q) /\ IndexAllows(loc[t].q, SymbolOfItem(loc[t].q))
    <3>1. UpdateItem(loc[t].q, "processing", queue[loc[t].q].ex) /\ Jump(t, "reload")
      BY <1>6, <2>3 DEF ClaimForProcessing
    <3>2. queue[loc[t].q].ex \in ExecIds \cup {None}
      BY <1>0, <2>2 DEF QueueRow
    <3>3. Good' /\ Keeps
      BY <1>0, <2>1, <2>2, <2>3, <3>1, <3>2, UpdateItemStep
         DEF QueueStatus, OpenStatus, None, SymbolOfItem
    <3> QED BY <2>1, <2>2, <3>1, <3>3, JumpStep DEF Steps, ItemSteps, ExecutionSteps
  <2>4. CASE ~(Claimable(loc[t].q) /\ IndexAllows(loc[t].q, SymbolOfItem(loc[t].q)))
    <3>1. UNCHANGED <<queue, stale>> /\ Jump(t, "return")
      BY <1>6, <2>4 DEF ClaimForProcessing
    <3>2. Good' /\ Keeps
      BY <2>1, <3>1, SameTables DEF db
    <3> QED BY <2>1, <3>1, <3>2, JumpStep DEF Steps, ItemSteps, ExecutionSteps
  <2> QED BY <2>3, <2>4
<1>7. CASE ReloadItem(t)
  <2> DEFINE e == queue[loc[t].q].ex
             l == [loc[t] EXCEPT !.row = e, !.pc = "get", !.k = "checked"]
  <2>1. loc[t].pc = "reload" /\ Goto(t, l) /\ UNCHANGED db
    BY <1>7 DEF ReloadItem, At
  <2>2. /\ loc[t].q # None /\ loc[t].q \in QueueIds
        /\ queue[loc[t].q].p = loc[t].p
    BY <2>1, ThreadFacts DEF ItemSteps
  <2>3. e \in ExecIds \cup {None} /\ Names(exec, e, loc[t].p)
    BY <1>0, <2>2 DEF QueueRow
  <2>4. l \in Local /\ LocalOK(l, exec, queue)
    <3> HIDE DEF e
    <3> QED BY <2>1, <2>2, <2>3, ThreadFacts, ReloadOK
  <2>5. Good' /\ Keeps
    BY <2>1, SameTables
  <2> HIDE DEF l
  <2> QED BY <2>1, <2>4, <2>5, GotoStep
<1>8. CASE CheckApproved(t)
  <2>1. loc[t].pc = "checked" /\ (Jump(t, "gates") \/ Jump(t, "block")) /\ UNCHANGED db
    BY <1>8 DEF CheckApproved, At
  <2>2. Good' /\ Keeps
    BY <2>1, SameTables
  <2>3. loc[t].q # None
    BY <2>1, ThreadFacts DEF ItemSteps
  <2> QED BY <2>1, <2>2, <2>3, JumpStep DEF Steps, ExecutionSteps
<1>9. CASE PassGates(t)
  <2> DEFINE l == [loc[t] EXCEPT !.pc = "submit", !.try = TRUE]
             m == [loc[t] EXCEPT !.pc = "get", !.k = "trade", !.try = TRUE]
  <2>1. /\ loc[t].pc = "gates"
        /\ UNCHANGED <<prop, past, queue, stale, exec, latest, orders>>
        /\ halted' \in {halted, TRUE}
        /\ \/ Jump(t, "record") \/ Jump(t, "return") \/ Jump(t, "block")
           \/ Goto(t, l) \/ Goto(t, m)
    BY <1>9, PipelineConstants DEF PassGates, At
  <2>2. loc[t].q # None
    BY <2>1, ThreadFacts DEF ItemSteps
  <2>3. Good' /\ Keeps
    BY <1>0, <2>1, SameRows DEF Good, TablesOK
  <2>4. l \in Local /\ LocalOK(l, exec, queue) /\ m \in Local /\ LocalOK(m, exec, queue)
    BY <2>1, <2>2, ThreadFacts, TryOK
  <2> HIDE DEF l, m
  <2>5. CASE Jump(t, "record") \/ Jump(t, "return") \/ Jump(t, "block")
    BY <2>1, <2>2, <2>3, <2>5, JumpStep DEF Steps, ExecutionSteps
  <2>6. CASE Goto(t, l) \/ Goto(t, m)
    BY <2>3, <2>4, <2>6, GotoStep
  <2> QED BY <2>1, <2>5, <2>6
<1>10. CASE BlockItem(t)
  <2>1. /\ loc[t].pc = "block" /\ Jump(t, "return")
        /\ UpdateItem(loc[t].q, "blocked", loc[t].row)
        /\ UNCHANGED <<prop, past, exec, latest, orders, halted>>
    BY <1>10 DEF BlockItem, At
  <2>2. /\ loc[t].q \in QueueIds /\ queue[loc[t].q].st # None
        /\ loc[t].row \in ExecIds \cup {None}
        /\ Names(exec, loc[t].row, queue[loc[t].q].p)
    BY <2>1, ThreadFacts DEF ItemSteps
  <2>3. Good' /\ Keeps
    BY <2>1, <2>2, UpdateItemStep DEF QueueStatus, OpenStatus, None
  <2> QED BY <2>1, <2>3, JumpStep DEF Steps, ItemSteps, ExecutionSteps
<1> QED BY <1>1, <1>2, <1>3, <1>4, <1>5, <1>6, <1>7, <1>8, <1>9, <1>10
\* mark_executed is called for an execution of the thread's proposal.
LEMMA CallMarkStep ==
    ASSUME Inv, Good', Keeps, NEW t \in Threads, loc[t].pc # "idle", NEW e \in ExecIds,
           Names(exec, e, loc[t].p) \/ Names(exec', e, loc[t].p),
           NEW s \in {"finish", "mirror", "return"}, s # "return" => loc[t].q # None,
           CallMarkExecuted(t, e, s)
    PROVE  Inv'
<1> DEFINE l == [loc[t] EXCEPT !.ex = e, !.pc = "get", !.k = "mark", !.then = s]
<1>1. LocalOK(loc[t], exec', queue') /\ Names(exec', e, loc[t].p) /\ e # None
  BY ThreadFacts, LocalKept, PipelineConstants DEF Keeps, Names
<1>2. l \in Local /\ LocalOK(l, exec', queue')
  BY <1>1, ThreadFacts, MarkOK
<1>3. Goto(t, l)
  BY DEF CallMarkExecuted
<1> HIDE DEF l
<1> QED BY <1>2, <1>3, GotoStep

\* The thread goes on with the execution it created.
LEMMA HoldStep ==
    ASSUME Inv, Good', Keeps, NEW t \in Threads, loc[t].pc # "idle", NEW e \in ExecIds,
           Names(exec', e, loc[t].p),
           NEW s \in {"failitem", "buy"}, s = "failitem" => loc[t].q # None,
           Goto(t, [loc[t] EXCEPT !.ex = e, !.pc = s])
    PROVE  Inv'
<1> DEFINE l == [loc[t] EXCEPT !.ex = e, !.pc = s]
<1>1. LocalOK(loc[t], exec', queue') /\ e # None
  BY ThreadFacts, LocalKept, PipelineConstants
<1>2. l \in Local /\ LocalOK(l, exec', queue')
  BY <1>1, ThreadFacts, HoldOK
<1> HIDE DEF l
<1> QED BY <1>2, GotoStep DEF l

\* Submission, its record and the except branch keep the invariant.
LEMMA BrokerSteps ==
    ASSUME Inv, NEW t \in Threads,
           \/ SubmitOrder(t) \/ CheckDuplicate(t) \/ RecordExecution(t)
           \/ MirrorParallel(t) \/ FinishItem(t) \/ BrokerFailed(t) \/ BlockFailedItem(t)
    PROVE  Inv'
<1>0. /\ Good
      /\ past \subseteq Proposals /\ stale \subseteq QueueIds /\ halted \in BOOLEAN
      /\ orders \subseteq QueueIds \cup ExecIds
  BY DEF Inv, Good, TablesOK
<1>1. CASE SubmitOrder(t)
  <2>1. /\ loc[t].pc = "submit"
        /\ UNCHANGED <<prop, past, queue, stale, exec, latest, halted>>
        /\ orders' \in {orders, orders \cup {loc[t].q}}
        /\ Jump(t, "dupcheck") \/ Raise(t)
    BY <1>1 DEF SubmitOrder, At, ClientOrderId
  <2>2. loc[t].q # None /\ loc[t].q \in QueueIds
    BY <2>1, ThreadFacts DEF ItemSteps
  <2>3. Good' /\ Keeps
    BY <1>0, <2>1, <2>2, SameRows
  <2>4. CASE Jump(t, "dupcheck")
    BY <2>1, <2>2, <2>3, <2>4, JumpStep DEF Steps, ExecutionSteps
  <2>5. CASE Raise(t)
    BY <2>1, <2>3, <2>5, RaiseStep
  <2> QED BY <2>1, <2>4, <2>5
<1>2. CASE CheckDuplicate(t)
  <2>1. /\ loc[t].pc = "dupcheck" /\ UNCHANGED db
        /\ \/ Jump(t, "record")
           \/ \E e \in RecordedAs(loc[t].q) : CallMarkExecuted(t, e, "finish")
    BY <1>2 DEF CheckDuplicate, At, ClientOrderId
  <2>2. /\ loc[t].q # None /\ loc[t].q \in QueueIds
        /\ queue[loc[t].q].p = loc[t].p
    BY <2>1, ThreadFacts DEF ItemSteps
  <2>3. Good' /\ Keeps
    BY <2>1, SameTables
  <2>4. CASE Jump(t, "record")
    BY <2>1, <2>2, <2>3, <2>4, JumpStep DEF Steps, ExecutionSteps
  <2>5. ASSUME NEW e \in RecordedAs(loc[t].q), CallMarkExecuted(t, e, "finish")
        PROVE  Inv'
    <3>1. e \in ExecIds /\ exec[e].ord = loc[t].q
      BY DEF RecordedAs
    <3>2. Names(exec, e, loc[t].p)
      BY <1>0, <2>2, <3>1 DEF Good, RowsOK, Names
    <3> QED BY <2>1, <2>2, <2>3, <2>5, <3>1, <3>2, CallMarkStep
  <2> QED BY <2>1, <2>4, <2>5
<1>3. CASE RecordExecution(t)
  <2> DEFINE o == IF Route = "alpaca" THEN loc[t].q ELSE None
             k == IF Route = "alpaca" THEN "mirror" ELSE "finish"
  <2>1. /\ loc[t].pc = "record"
        /\ UNCHANGED <<prop, past, queue, stale, orders, halted>>
        /\ \/ Raise(t) /\ UNCHANGED <<exec, latest>>
           \/ \E e \in ExecIds, s \in BrokerStatus :
                 /\ o # None => RecordedAs(o) = {}
                 /\ CreateExecution(t, e, s, o)
                 /\ CallMarkExecuted(t, e, k)
    BY <1>3 DEF RecordExecution, At, ClientOrderId, FreeExec, BrokerStatus
  <2>2. loc[t].q # None /\ loc[t].q \in QueueIds
    BY <2>1, ThreadFacts DEF ItemSteps
  <2>3. o \in QueueIds \cup {None} /\ (o # None => o = loc[t].q) /\ k \in {"finish", "mirror"}
    BY <2>2
  <2> HIDE DEF o, k
  <2>4. CASE Raise(t) /\ UNCHANGED <<exec, latest>>
    BY <2>1, <2>4, SameTables, RaiseStep DEF db
  <2>5. ASSUME NEW e \in ExecIds, NEW s \in BrokerStatus,
               o # None => RecordedAs(o) = {},
               CreateExecution(t, e, s, o), CallMarkExecuted(t, e, k)
        PROVE  Inv'
    <3>1. s \in ExecutionStatus \ {None} /\ loc[t].pc # "idle"
      BY <2>1 DEF BrokerStatus, DeadStatus, ExecutionStatus, None
    <3>2. Good' /\ Keeps /\ Names(exec', e, loc[t].p)
      BY <2>1, <2>3, <2>5, <3>1, CreateStep
    <3> QED BY <2>2, <2>3, <2>5, <3>1, <3>2, CallMarkStep
  <2> QED BY <2>1, <2>4, <2>5
<1>4. CASE MirrorParallel(t)
  <2>1. /\ loc[t].pc = "mirror"
        /\ UNCHANGED <<prop, past, queue, stale, exec, latest, orders>>
        /\ Jump(t, "finish") \/ Raise(t)
    BY <1>4 DEF MirrorParallel, At
  <2>2. halted' \in BOOLEAN
    BY <1>0, <1>4 DEF MirrorParallel
  <2>3. loc[t].q # None /\ loc[t].ex # None
    BY <2>1, ThreadFacts DEF ItemSteps, ExecutionSteps
  <2>4. Good' /\ Keeps
    BY <1>0, <2>1, <2>2, SameRows
  <2>5. CASE Jump(t, "finish")
    BY <2>1, <2>3, <2>4, <2>5, JumpStep DEF Steps
  <2>6. CASE Raise(t)
    BY <2>1, <2>4, <2>6, RaiseStep
  <2> QED BY <2>1, <2>5, <2>6
<1>5. CASE FinishItem(t)
  <2>1. /\ loc[t].pc = "finish" /\ Jump(t, "return")
        /\ UpdateItem(loc[t].q, "executed", loc[t].ex)
        /\ UNCHANGED <<prop, past, exec, latest, orders, halted>>
    BY <1>5 DEF FinishItem, At
  <2>2. /\ loc[t].q \in QueueIds /\ queue[loc[t].q].st # None
        /\ loc[t].ex \in ExecIds /\ loc[t].ex # None
        /\ Names(exec, loc[t].ex, queue[loc[t].q].p)
    BY <2>1, ThreadFacts DEF ItemSteps, ExecutionSteps, Names
  <2>3. Good' /\ Keeps
    BY <2>1, <2>2, UpdateItemStep DEF QueueStatus, OpenStatus, None
  <2> QED BY <2>1, <2>3, JumpStep DEF Steps, ItemSteps, ExecutionSteps
<1>6. CASE BrokerFailed(t)
  <2>1. /\ loc[t].pc = "fail"
        /\ UNCHANGED <<prop, past, queue, stale, orders, halted>>
        /\ \E e \in ExecIds :
              \/ CreateExecution(t, e, "submitted", None) /\ CallMarkExecuted(t, e, "finish")
              \/ /\ CreateExecution(t, e, "failed", None)
                 /\ Goto(t, [loc[t] EXCEPT !.ex = e, !.pc = "failitem"])
    BY <1>6 DEF BrokerFailed, At, FreeExec
  <2>2. loc[t].q # None
    BY <2>1, ThreadFacts DEF ItemSteps
  <2>3. {"submitted", "failed"} \subseteq ExecutionStatus \ {None}
    BY DEF ExecutionStatus, None
  <2>4. ASSUME NEW e \in ExecIds,
               CreateExecution(t, e, "submitted", None), CallMarkExecuted(t, e, "finish")
        PROVE  Inv'
    <3>1. Good' /\ Keeps /\ Names(exec', e, loc[t].p)
      BY <2>1, <2>3, <2>4, CreateStep
    <3> QED BY <2>1, <2>2, <2>4, <3>1, CallMarkStep
  <2>5. ASSUME NEW e \in ExecIds, CreateExecution(t, e, "failed", None),
               Goto(t, [loc[t] EXCEPT !.ex = e, !.pc = "failitem"])
        PROVE  Inv'
    <3>1. Good' /\ Keeps /\ Names(exec', e, loc[t].p)
      BY <2>1, <2>3, <2>5, CreateStep
    <3> QED BY <2>1, <2>2, <2>5, <3>1, HoldStep
  <2> QED BY <2>1, <2>4, <2>5
<1>7. CASE BlockFailedItem(t)
  <2>1. /\ loc[t].pc = "failitem" /\ Jump(t, "return")
        /\ UpdateItem(loc[t].q, "blocked", loc[t].ex)
        /\ UNCHANGED <<prop, past, exec, latest, orders, halted>>
    BY <1>7 DEF BlockFailedItem, At
  <2>2. /\ loc[t].q \in QueueIds /\ queue[loc[t].q].st # None
        /\ loc[t].ex \in ExecIds
        /\ Names(exec, loc[t].ex, queue[loc[t].q].p)
    BY <2>1, ThreadFacts DEF ItemSteps, ExecutionSteps, Names
  <2>3. Good' /\ Keeps
    BY <2>1, <2>2, UpdateItemStep DEF QueueStatus, OpenStatus, None
  <2> QED BY <2>1, <2>3, JumpStep DEF Steps, ItemSteps, ExecutionSteps
<1> QED BY <1>1, <1>2, <1>3, <1>4, <1>5, <1>6, <1>7

\* TraderService keeps the invariant.
LEMMA TraderSteps ==
    ASSUME Inv, NEW t \in Threads,
           \/ Trade(t) \/ RefuseTrade(t) \/ CreateValidated(t) \/ OpenMarketOrder(t)
           \/ UpdateExecution(t)
    PROVE  Inv'
<1>0. /\ Good /\ exec \in [ExecIds -> ExecutionRow]
      /\ past \subseteq Proposals /\ stale \subseteq QueueIds /\ halted \in BOOLEAN
      /\ orders \subseteq QueueIds \cup ExecIds
  BY DEF Inv, Good, TablesOK
<1>1. CASE Trade(t)
  <2>1. loc[t].pc # "idle" /\ (Jump(t, "validated") \/ Jump(t, "refuse")) /\ UNCHANGED db
    BY <1>1 DEF Trade, At
  <2>2. Good' /\ Keeps
    BY <2>1, SameTables
  <2> QED BY <2>1, <2>2, JumpStep DEF Steps, ItemSteps, ExecutionSteps
<1>2. CASE RefuseTrade(t)
  <2>1. /\ loc[t].pc # "idle" /\ Raise(t)
        /\ UNCHANGED <<prop, past, queue, stale, orders, halted>>
        /\ \E e \in ExecIds : CreateExecution(t, e, "blocked", None)
    BY <1>2 DEF RefuseTrade, At, FreeExec
  <2>2. "blocked" \in ExecutionStatus \ {None}
    BY DEF ExecutionStatus, None
  <2>3. Good' /\ Keeps
    BY <2>1, <2>2, CreateStep
  <2> QED BY <2>1, <2>3, RaiseStep
<1>3. CASE CreateValidated(t)
  <2>1. loc[t].pc # "idle" /\ UNCHANGED <<prop, past, queue, stale, orders, halted>>
    BY <1>3 DEF CreateValidated, At
  <2>2. PICK e \in ExecIds : /\ CreateExecution(t, e, "validated", None)
                             /\ Goto(t, [loc[t] EXCEPT !.ex = e, !.pc = "buy"])
    BY <1>3 DEF CreateValidated, FreeExec
  <2>3. "validated" \in ExecutionStatus \ {None}
    BY DEF ExecutionStatus, None
  <2>4. Good' /\ Keeps /\ Names(exec', e, loc[t].p)
    BY <2>1, <2>2, <2>3, CreateStep
  <2> QED BY <2>1, <2>2, <2>4, HoldStep
<1>4. CASE OpenMarketOrder(t)
  <2>1. /\ loc[t].pc = "buy"
        /\ UNCHANGED <<prop, past, queue, stale, exec, latest, halted>>
        /\ orders' \in {orders, orders \cup {loc[t].ex}}
        /\ Jump(t, "update") \/ Raise(t)
    BY <1>4 DEF OpenMarketOrder, At
  <2>2. loc[t].ex # None /\ loc[t].ex \in ExecIds
    BY <2>1, ThreadFacts DEF ExecutionSteps
  <2>3. Good' /\ Keeps
    BY <1>0, <2>1, <2>2, SameRows
  <2>4. CASE Jump(t, "update")
    BY <2>1, <2>2, <2>3, <2>4, JumpStep DEF Steps, ItemSteps
  <2>5. CASE Raise(t)
    BY <2>1, <2>3, <2>5, RaiseStep
  <2> QED BY <2>1, <2>4, <2>5
<1>5. CASE UpdateExecution(t)
  <2> DEFINE e == loc[t].ex
             k == IF loc[t].q = None THEN "return" ELSE "finish"
  <2>1. /\ loc[t].pc = "update"
        /\ UNCHANGED <<prop, past, queue, stale, latest, orders, halted>>
        /\ CallMarkExecuted(t, e, k)
    BY <1>5 DEF UpdateExecution, At
  <2>2. e \in ExecIds /\ exec[e].st # None /\ Names(exec, e, loc[t].p)
    BY <2>1, ThreadFacts DEF ExecutionSteps, Names
  <2>3. PICK s \in BrokerStatus :
           exec' = [exec EXCEPT ![e] = [@ EXCEPT !.st = s, !.ord = e]]
    BY <1>5 DEF UpdateExecution
  <2> DEFINE row == [exec[e] EXCEPT !.st = s, !.ord = e]
  <2>4. exec' = [exec EXCEPT ![e] = row]
    BY <2>3
  <2>5. row \in ExecutionRow /\ row.st = s /\ row.ord = e /\ row.p = exec[e].p
    BY <1>0, <2>2 DEF ExecutionRow, ExecutionStatus, BrokerStatus, DeadStatus
  <2>6. s # None
    BY DEF BrokerStatus, DeadStatus, None
  <2>7. k \in {"finish", "mirror", "return"} /\ (k # "return" => loc[t].q # None)
    OBVIOUS
  <2> HIDE DEF e, k, row
  <2>8. Good' /\ Keeps
    BY <1>0, <2>1, <2>2, <2>4, <2>5, <2>6, FillExecution
  <2> QED BY <2>1, <2>2, <2>7, <2>8, CallMarkStep
<1> QED BY <1>1, <1>2, <1>3, <1>4, <1>5
-----------------------------------------------------------------------------
(* Requests, faults and the environment *)

\* An arriving request keeps the invariant.
LEMMA ArriveSteps ==
    ASSUME Inv, NEW t \in Threads, Arrive(t)
    PROVE  Inv'
<1>1. ASSUME NEW p \in Proposals, NEW k \in {"return", "approve", "reject", "check_open", "trade"},
             Request(t, p, k)
      PROVE  Inv'
  <2> DEFINE l == [Idle EXCEPT !.pc = "get", !.k = k, !.p = p]
  <2>1. Goto(t, l) /\ UNCHANGED db
    BY <1>1 DEF Request
  <2>2. p # None
    BY PipelineConstants
  <2>3. /\ Idle \in Local
        /\ Idle.q = None /\ Idle.row = None /\ Idle.ex = None /\ Idle.snap = NoRow
        /\ Idle.k = "idle" /\ Idle.then = "idle" /\ Idle.try = FALSE
    BY IdleOK DEF Idle
  <2>4. l \in Local
    BY <2>3 DEF Local, Steps
  <2>5. LocalOK(l, exec, queue)
    <3>1. /\ l.pc = "get" /\ l.k = k /\ l.p = p /\ l.q = Idle.q /\ l.snap = Idle.snap
          /\ l.row = Idle.row /\ l.ex = Idle.ex /\ l.then = Idle.then /\ l.try = Idle.try
      BY <2>3 DEF Local
    <3> HIDE DEF l
    <3> QED BY <2>2, <2>3, <3>1 DEF LocalOK, Names, NoRow, ItemSteps, ExecutionSteps
  <2> HIDE DEF l
  <2>6. Good' /\ Keeps
    BY <2>1, SameTables
  <2> QED BY <2>1, <2>4, <2>5, <2>6, GotoStep
<1>2. ASSUME NEW q \in QueueIds, RequestProcess(t, q)
      PROVE  Inv'
  <2> DEFINE l == [Idle EXCEPT !.pc = "item", !.q = q, !.p = queue[q].p]
  <2>1. /\ queue[q].st # None /\ UNCHANGED db
        /\ lock' = [lock EXCEPT ![ProcOf[t]] = t]
        /\ loc' = [loc EXCEPT ![t] = l]
    BY <1>2 DEF RequestProcess
  <2>2. queue[q].p \in Proposals /\ queue[q].p # None /\ q # None
    BY <2>1, PipelineConstants DEF Inv, Good, TablesOK, QueueRow, RowsOK
  <2>3. /\ Idle \in Local
        /\ Idle.q = None /\ Idle.row = None /\ Idle.ex = None /\ Idle.snap = NoRow
        /\ Idle.k = "idle" /\ Idle.then = "idle" /\ Idle.try = FALSE
    BY IdleOK DEF Idle
  <2>4. l \in Local
    BY <2>2, <2>3 DEF Local, Steps
  <2>5. LocalOK(l, exec, queue)
    <3>1. /\ l.pc = "item" /\ l.k = Idle.k /\ l.p = queue[q].p /\ l.q = q
          /\ l.snap = Idle.snap /\ l.row = Idle.row /\ l.ex = Idle.ex
          /\ l.then = Idle.then /\ l.try = Idle.try
      BY <2>3 DEF Local
    <3> HIDE DEF l
    <3> QED BY <2>1, <2>2, <2>3, <3>1 DEF LocalOK, Names, NoRow, ItemSteps, ExecutionSteps
  <2> HIDE DEF l
  <2>6. Good' /\ Keeps
    BY <2>1, SameTables
  <2>7. \A u \in Threads : LocalOK(loc'[u], exec, queue)
    BY <2>1, <2>5 DEF Inv, ThreadsOK
  <2>8. ThreadsOK'
    BY <2>1, <2>4, <2>7, PipelineConstants DEF Inv, ThreadsOK, db
  <2> QED BY <2>6, <2>8 DEF Inv
<1> QED BY <1>1, <1>2 DEF Arrive, RequestList, RequestApprove, RequestReject,
                          RequestEnqueue, RequestExecute

\* The environment keeps the invariant.
LEMMA EnvironmentSteps ==
    ASSUME Inv, Environment
    PROVE  Inv'
<1>0. /\ Good /\ prop \in [Proposals -> ProposalRow]
      /\ past \subseteq Proposals /\ stale \subseteq QueueIds /\ halted \in BOOLEAN
      /\ orders \subseteq QueueIds \cup ExecIds
  BY DEF Inv, Good, TablesOK
<1>1. ASSUME UNCHANGED <<queue, exec, lock, loc>>
      PROVE  ThreadsOK'
  BY <1>1 DEF Inv, ThreadsOK
<1>2. ASSUME NEW p \in Proposals, CreateProposal(p)
      PROVE  Inv'
  <2> DEFINE row == [prop[p] EXCEPT !.st = "pending"]
  <2>1. /\ prop' = [prop EXCEPT ![p] = row]
        /\ UNCHANGED <<past, queue, stale, exec, latest, orders, halted, lock, loc>>
    BY <1>2 DEF CreateProposal
  <2>2. row \in ProposalRow /\ row.st = "pending" /\ row.ex = prop[p].ex
    BY <1>0 DEF ProposalRow, ApprovalStatus
  <2>3. Names(exec, row.ex, p)
    BY <1>0, <2>2 DEF Good, RowsOK
  <2> HIDE DEF row
  <2>4. Good'
    BY <1>0, <2>1, <2>2, <2>3, WriteProposal
  <2> QED BY <1>1, <2>1, <2>4 DEF Inv
<1>3. ASSUME NEW p \in Proposals, PassExpiry(p)
      PROVE  Inv'
  BY <1>0, <1>1, <1>3, SameRows DEF PassExpiry, Inv
<1>4. ASSUME NEW q \in QueueIds, PassLockTimeout(q)
      PROVE  Inv'
  BY <1>0, <1>1, <1>4, SameRows DEF PassLockTimeout, Inv
<1>5. ASSUME NEW c \in Procs, Crash(c)
      PROVE  Inv'
  <2>1. /\ UNCHANGED db
        /\ loc' = [t \in Threads |-> IF ProcOf[t] = c THEN Idle ELSE loc[t]]
        /\ lock' = [lock EXCEPT ![c] = None]
    BY <1>5 DEF Crash
  <2>2. Good'
    BY <2>1, SameTables
  <2>3. loc' \in [Threads -> Local] /\ \A t \in Threads : LocalOK(loc'[t], exec, queue)
    BY <2>1, IdleOK DEF Inv, ThreadsOK
  <2>4. ThreadsOK'
    BY <2>1, <2>3 DEF Inv, ThreadsOK, db
  <2> QED BY <2>2, <2>4 DEF Inv
<1>6. CASE HaltAutomation \/ ResumeAutomation
  BY <1>0, <1>1, <1>6, SameRows DEF HaltAutomation, ResumeAutomation, Inv
<1> QED BY <1>2, <1>3, <1>4, <1>5, <1>6 DEF Environment

-----------------------------------------------------------------------------
(* Theorems *)

LEMMA InitInv == Init => Inv
<1> SUFFICES ASSUME Init PROVE Inv
  OBVIOUS
<1>1. TablesOK
  BY DEF Init, TablesOK, ProposalRow, QueueRow, ExecutionRow, NoRow, ApprovalStatus,
         QueueStatus, ExecutionStatus
<1>2. RowsOK
  BY PipelineConstants DEF Init, RowsOK, Names, NoRow
<1>3. ExecutedHasOwnExecution /\ OrderRecordedOnce
  BY DEF Init, ExecutedHasOwnExecution, OrderRecordedOnce, NoRow, None
<1>4. OneOpenItemPerSymbol
  BY DEF Init, OneOpenItemPerSymbol, OpenStatus, None
<1>5. ThreadsOK
  BY IdleOK DEF Init, ThreadsOK
<1> QED BY <1>1, <1>2, <1>3, <1>4, <1>5 DEF Inv, Good

LEMMA NextInv == Inv /\ [Next]_vars => Inv'
<1> SUFFICES ASSUME Inv, [Next]_vars PROVE Inv'
  OBVIOUS
<1>1. ASSUME NEW t \in Threads, Step(t) PROVE Inv'
  BY <1>1, ProposalSteps, QueueSteps, BrokerSteps, TraderSteps DEF Step
<1>2. ASSUME NEW t \in Threads, RaiseError(t) PROVE Inv'
  <2>1. loc[t].pc # "idle" /\ Raise(t) /\ UNCHANGED db
    BY <1>2 DEF RaiseError, At
  <2> QED BY <2>1, SameTables, RaiseStep
<1>3. CASE UNCHANGED vars
  <2>1. Good'
    BY <1>3, SameTables DEF vars, db
  <2>2. ThreadsOK'
    BY <1>3 DEF vars, Inv, ThreadsOK
  <2> QED BY <2>1, <2>2 DEF Inv
<1> QED BY <1>1, <1>2, <1>3, ArriveSteps, EnvironmentSteps DEF Next

LEMMA Invariance == Spec => []Inv
BY InitInv, NextInv, PTL DEF Spec

\* Type correctness: no handler, however it is interleaved, interrupted or repeated,
\* leaves a row or a local variable outside its type.
THEOREM TypeCorrect == Spec => []TypeOK
<1>1. Inv => TypeOK
  BY DEF Inv, Good, TablesOK, ThreadsOK, TypeOK
<1> QED BY <1>1, Invariance, PTL

\* The partial unique index keeps one queued or processing item per symbol under any
\* number of threads and processes that enqueue, claim and re-claim.
THEOREM OneOpenItem == Spec => []OneOpenItemPerSymbol
<1>1. Inv => OneOpenItemPerSymbol
  BY DEF Inv, Good
<1> QED BY <1>1, Invariance, PTL

\* Execution ids in rows and in threads' copies of rows never cross proposals, and an
\* item's broker order is recorded for the item's own proposal.
THEOREM ReferencesNeverCross == Spec => []ReferencesAgree
<1>1. Inv => ReferencesAgree
  BY DEF Inv, Good, ThreadsOK, ReferencesAgree
<1> QED BY <1>1, Invariance, PTL

\* An executed proposal or item names an execution of that same proposal, on every
\* route and after any crash, error or lost response.
THEOREM ExecutedIsBacked == Spec => []ExecutedHasOwnExecution
<1>1. Inv => ExecutedHasOwnExecution
  BY DEF Inv, Good
<1> QED BY <1>1, Invariance, PTL

\* get_by_broker_order_id finds at most one record: a broker order is never recorded twice.
THEOREM OrdersRecordedOnce == Spec => []OrderRecordedOnce
<1>1. Inv => OrderRecordedOnce
  BY DEF Inv, Good
<1> QED BY <1>1, Invariance, PTL

-----------------------------------------------------------------------------
(* Where a step takes a thread *)

\* Thread t goes to step s, or leaves its handler; its proposal and item stay the same.
To(t, s, k, e, then, row, try) ==
    /\ \A u \in Threads \ {t} : loc'[u] = loc[u]
    /\ s = "return" => loc'[t] = Idle
    /\ s # "return" => /\ loc'[t].pc = s /\ loc'[t].k = k /\ loc'[t].ex = e
                       /\ loc'[t].then = then /\ loc'[t].row = row /\ loc'[t].try = try
                       /\ loc'[t].p = loc[t].p /\ loc'[t].q = loc[t].q
    /\ lock' = IF s = "return" /\ lock[ProcOf[t]] = t
               THEN [lock EXCEPT ![ProcOf[t]] = None] ELSE lock

LEMMA IdleFields ==
    /\ Idle.pc = "idle" /\ Idle.k = "idle" /\ Idle.q = None /\ Idle.p = None /\ Idle.ex = None
    /\ Idle.row = None /\ Idle.then = "idle" /\ Idle.try = FALSE
BY DEF Idle

LEMMA GotoTo ==
    ASSUME Inv, NEW t \in Threads, NEW l \in Local, Goto(t, l), l.p = loc[t].p, l.q = loc[t].q
    PROVE  To(t, l.pc, l.k, l.ex, l.then, l.row, l.try)
BY DEF Goto, To, Inv, ThreadsOK

LEMMA JumpTo ==
    ASSUME Inv, NEW t \in Threads, NEW s \in Steps, Jump(t, s)
    PROVE  To(t, s, "idle", loc[t].ex, loc[t].then, loc[t].row, loc[t].try)
<1> DEFINE l == [loc[t] EXCEPT !.pc = s, !.k = "idle", !.snap = NoRow]
<1>1. loc[t] \in Local /\ NoRow \in ProposalRow
  BY DEF Inv, ThreadsOK, NoRow, ProposalRow, ApprovalStatus
<1>2. l \in Local /\ Goto(t, l)
  <2>1. Goto(t, l)
    BY DEF Jump
  <2>2. l \in Local
    BY <1>1 DEF Local, Steps
  <2> QED BY <2>1, <2>2
<1>3. /\ l.pc = s /\ l.k = "idle" /\ l.p = loc[t].p /\ l.q = loc[t].q /\ l.ex = loc[t].ex
      /\ l.then = loc[t].then /\ l.row = loc[t].row /\ l.try = loc[t].try
  BY <1>1 DEF Local
<1> HIDE DEF l
<1> QED BY <1>2, <1>3, GotoTo

LEMMA RaiseTo ==
    ASSUME Inv, NEW t \in Threads, Raise(t)
    PROVE  To(t, IF loc[t].try THEN "fail" ELSE "return", "idle", None, "idle", loc[t].row, FALSE)
<1> DEFINE a == IF loc[t].try THEN "fail" ELSE "return"
           l == [loc[t] EXCEPT !.pc = a, !.try = FALSE, !.ex = None, !.then = "idle", !.k = "idle",
                    !.snap = NoRow]
<1>1. loc[t] \in Local /\ NoRow \in ProposalRow /\ a \in Steps
  BY DEF Inv, ThreadsOK, NoRow, ProposalRow, ApprovalStatus, Steps
<1>2. Goto(t, l)
  BY DEF Raise
<1> HIDE DEF a
<1>3. l \in Local
  BY <1>1 DEF Local, Steps
<1>4. /\ l.pc = a /\ l.k = "idle" /\ l.p = loc[t].p /\ l.q = loc[t].q /\ l.ex = None
      /\ l.then = "idle" /\ l.row = loc[t].row /\ l.try = FALSE
  BY <1>1 DEF Local
<1> HIDE DEF l
<1>5. To(t, a, "idle", None, "idle", loc[t].row, FALSE)
  BY <1>2, <1>3, <1>4, GotoTo
<1> QED BY <1>5 DEF a

LEMMA CallMarkTo ==
    ASSUME Inv, NEW t \in Threads, NEW e \in ExecIds, NEW s \in Steps, CallMarkExecuted(t, e, s)
    PROVE  To(t, "get", "mark", e, s, loc[t].row, loc[t].try)
<1> DEFINE l == [loc[t] EXCEPT !.ex = e, !.pc = "get", !.k = "mark", !.then = s]
<1>1. loc[t] \in Local /\ Goto(t, l)
  BY DEF Inv, ThreadsOK, CallMarkExecuted
<1>2. l \in Local
  BY <1>1 DEF Local, Steps
<1>3. /\ l.pc = "get" /\ l.k = "mark" /\ l.p = loc[t].p /\ l.q = loc[t].q /\ l.ex = e
      /\ l.then = s /\ l.row = loc[t].row /\ l.try = loc[t].try
  BY <1>1 DEF Local
<1> HIDE DEF l
<1> QED BY <1>1, <1>2, <1>3, GotoTo

\* The other moves: a copy is taken, or the next step is named.
LEMMA CopyTo ==
    ASSUME Inv, NEW t \in Threads, NEW row \in ProposalRow, NEW s \in Steps,
           Goto(t, [loc[t] EXCEPT !.snap = row, !.pc = s])
    PROVE  To(t, s, loc[t].k, loc[t].ex, loc[t].then, loc[t].row, loc[t].try)
<1> DEFINE l == [loc[t] EXCEPT !.snap = row, !.pc = s]
<1>1. loc[t] \in Local /\ l \in Local /\ Goto(t, l)
  BY DEF Inv, ThreadsOK, Local
<1>2. /\ l.pc = s /\ l.k = loc[t].k /\ l.p = loc[t].p /\ l.q = loc[t].q /\ l.ex = loc[t].ex
      /\ l.then = loc[t].then /\ l.row = loc[t].row /\ l.try = loc[t].try
  BY <1>1 DEF Local
<1> HIDE DEF l
<1> QED BY <1>1, <1>2, GotoTo

LEMMA NoteTo ==
    ASSUME Inv, NEW t \in Threads, NEW w \in QueueStatus, NEW s \in Steps,
           Goto(t, [loc[t] EXCEPT !.was = w, !.pc = s])
    PROVE  To(t, s, loc[t].k, loc[t].ex, loc[t].then, loc[t].row, loc[t].try)
<1> DEFINE l == [loc[t] EXCEPT !.was = w, !.pc = s]
<1>1. loc[t] \in Local /\ l \in Local /\ Goto(t, l)
  BY DEF Inv, ThreadsOK, Local
<1>2. /\ l.pc = s /\ l.k = loc[t].k /\ l.p = loc[t].p /\ l.q = loc[t].q /\ l.ex = loc[t].ex
      /\ l.then = loc[t].then /\ l.row = loc[t].row /\ l.try = loc[t].try
  BY <1>1 DEF Local
<1> HIDE DEF l
<1> QED BY <1>1, <1>2, GotoTo

LEMMA HoldTo ==
    ASSUME Inv, NEW t \in Threads, NEW e \in ExecIds, NEW s \in Steps,
           \/ Goto(t, [loc[t] EXCEPT !.ex = e, !.pc = s])
           \/ Goto(t, [loc[t] EXCEPT !.was = None, !.pc = s, !.ex = e])
    PROVE  To(t, s, loc[t].k, e, loc[t].then, loc[t].row, loc[t].try)
<1>0. loc[t] \in Local /\ None \in QueueStatus
  BY DEF Inv, ThreadsOK, QueueStatus
<1>1. CASE Goto(t, [loc[t] EXCEPT !.ex = e, !.pc = s])
  <2> DEFINE l == [loc[t] EXCEPT !.ex = e, !.pc = s]
  <2>1. l \in Local /\ Goto(t, l)
    BY <1>0, <1>1 DEF Local
  <2>2. /\ l.pc = s /\ l.k = loc[t].k /\ l.p = loc[t].p /\ l.q = loc[t].q /\ l.ex = e
        /\ l.then = loc[t].then /\ l.row = loc[t].row /\ l.try = loc[t].try
    BY <1>0 DEF Local
  <2> HIDE DEF l
  <2> QED BY <2>1, <2>2, GotoTo
<1>2. CASE Goto(t, [loc[t] EXCEPT !.was = None, !.pc = s, !.ex = e])
  <2> DEFINE l == [loc[t] EXCEPT !.was = None, !.pc = s, !.ex = e]
  <2>1. l \in Local /\ Goto(t, l)
    BY <1>0, <1>2 DEF Local
  <2>2. /\ l.pc = s /\ l.k = loc[t].k /\ l.p = loc[t].p /\ l.q = loc[t].q /\ l.ex = e
        /\ l.then = loc[t].then /\ l.row = loc[t].row /\ l.try = loc[t].try
    BY <1>0 DEF Local
  <2> HIDE DEF l
  <2> QED BY <2>1, <2>2, GotoTo
<1> QED BY <1>1, <1>2

LEMMA ReloadTo ==
    ASSUME Inv, NEW t \in Threads, At(t, "reload"), ReloadItem(t)
    PROVE  To(t, "get", "checked", loc[t].ex, loc[t].then, queue[loc[t].q].ex, loc[t].try)
<1> DEFINE l == [loc[t] EXCEPT !.row = queue[loc[t].q].ex, !.pc = "get", !.k = "checked"]
<1>1. loc[t] \in Local /\ Goto(t, l) /\ queue[loc[t].q].ex \in ExecIds \cup {None}
  BY ThreadFacts DEF Inv, Good, TablesOK, QueueRow, ReloadItem, At, ItemSteps
<1>2. l \in Local
  BY <1>1 DEF Local, Steps
<1>3. /\ l.pc = "get" /\ l.k = "checked" /\ l.p = loc[t].p /\ l.q = loc[t].q /\ l.ex = loc[t].ex
      /\ l.then = loc[t].then /\ l.row = queue[loc[t].q].ex /\ l.try = loc[t].try
  BY <1>1 DEF Local
<1> HIDE DEF l
<1> QED BY <1>1, <1>2, <1>3, GotoTo

LEMMA TryTo ==
    ASSUME Inv, NEW t \in Threads, NEW s \in Steps, NEW k \in Steps,
           \/ Goto(t, [loc[t] EXCEPT !.pc = s, !.try = TRUE]) /\ k = loc[t].k
           \/ Goto(t, [loc[t] EXCEPT !.pc = s, !.k = k, !.try = TRUE])
    PROVE  To(t, s, k, loc[t].ex, loc[t].then, loc[t].row, TRUE)
<1>0. loc[t] \in Local
  BY DEF Inv, ThreadsOK
<1>1. CASE Goto(t, [loc[t] EXCEPT !.pc = s, !.try = TRUE]) /\ k = loc[t].k
  <2> DEFINE l == [loc[t] EXCEPT !.pc = s, !.try = TRUE]
  <2>1. l \in Local /\ Goto(t, l)
    BY <1>0, <1>1 DEF Local
  <2>2. /\ l.pc = s /\ l.k = loc[t].k /\ l.p = loc[t].p /\ l.q = loc[t].q /\ l.ex = loc[t].ex
        /\ l.then = loc[t].then /\ l.row = loc[t].row /\ l.try = TRUE
    BY <1>0 DEF Local
  <2> HIDE DEF l
  <2> QED BY <1>1, <2>1, <2>2, GotoTo
<1>2. CASE Goto(t, [loc[t] EXCEPT !.pc = s, !.k = k, !.try = TRUE])
  <2> DEFINE l == [loc[t] EXCEPT !.pc = s, !.k = k, !.try = TRUE]
  <2>1. l \in Local /\ Goto(t, l)
    BY <1>0, <1>2 DEF Local
  <2>2. /\ l.pc = s /\ l.k = k /\ l.p = loc[t].p /\ l.q = loc[t].q /\ l.ex = loc[t].ex
        /\ l.then = loc[t].then /\ l.row = loc[t].row /\ l.try = TRUE
    BY <1>0 DEF Local
  <2> HIDE DEF l
  <2> QED BY <2>1, <2>2, GotoTo
<1> QED BY <1>1, <1>2

\* A step that writes none of these rows.
saved == <<queue, exec, latest, orders>>

\* t goes to s and keeps the rest, or forgets the step it would have returned to.
Goes(t, s)  == To(t, s, loc[t].k, loc[t].ex, loc[t].then, loc[t].row, loc[t].try)
Jumps(t, s) == To(t, s, "idle", loc[t].ex, loc[t].then, loc[t].row, loc[t].try)
Raises(t)   == To(t, IF loc[t].try THEN "fail" ELSE "return", "idle", None, "idle", loc[t].row, FALSE)
Marks(t, e, s) == To(t, "get", "mark", e, s, loc[t].row, loc[t].try)

LEMMA ProposalMoves ==
    ASSUME Inv, NEW t \in Threads
    PROVE  /\ GetProposal(t) => /\ UNCHANGED saved /\ loc[t].pc = "get"
                                /\ Goes(t, "expire") \/ Goes(t, loc[t].k)
           /\ ExpireIfNeeded(t) => UNCHANGED saved /\ loc[t].pc = "expire" /\ Goes(t, loc[t].k)
           /\ Approve(t) \/ Reject(t) => /\ UNCHANGED saved /\ loc[t].pc \in {"approve", "reject"}
                                         /\ Jumps(t, "return")
           /\ MarkExecuted(t) => UNCHANGED saved /\ loc[t].pc = "mark" /\ Jumps(t, loc[t].then)
           /\ CheckOpen(t) => /\ UNCHANGED saved /\ loc[t].pc = "check_open"
                              /\ Jumps(t, "insert") \/ Jumps(t, "return")
           /\ Insert(t) => /\ UNCHANGED <<exec, latest, orders>> /\ loc[t].pc = "insert"
                           /\ Jumps(t, "return")
                           /\ \E q \in QueueIds :
                                /\ queue[q].st = None
                                /\ queue' \in {queue, [queue EXCEPT ![q] =
                                        [st |-> "queued", p |-> loc[t].p, ex |-> None]]}
<1>0. /\ loc[t] \in Local /\ {"return", "expire", "insert"} \subseteq Steps
      /\ loc[t].k \in Steps /\ loc[t].then \in Steps
  BY DEF Inv, ThreadsOK, Local, Steps
<1>1. ASSUME GetProposal(t)
      PROVE  /\ UNCHANGED saved /\ loc[t].pc = "get"
             /\ Goes(t, "expire") \/ Goes(t, loc[t].k)
  <2>1. loc[t].pc = "get" /\ UNCHANGED saved
    BY <1>1 DEF GetProposal, At, db, saved
  <2>2. prop[loc[t].p] \in ProposalRow
    BY <2>1, ThreadFacts DEF Inv, Good, TablesOK
  <2>3. PICK s \in {"expire", loc[t].k} : Goto(t, [loc[t] EXCEPT !.snap = prop[loc[t].p], !.pc = s])
    BY <1>1 DEF GetProposal
  <2> QED BY <1>0, <2>1, <2>2, <2>3, CopyTo DEF Goes
<1>2. ASSUME ExpireIfNeeded(t)
      PROVE  UNCHANGED saved /\ loc[t].pc = "expire" /\ Goes(t, loc[t].k)
  <2>1. /\ UNCHANGED saved /\ loc[t].pc = "expire"
        /\ Goto(t, [loc[t] EXCEPT !.snap = [loc[t].snap EXCEPT !.st = "expired"], !.pc = loc[t].k])
    BY <1>2 DEF ExpireIfNeeded, At, saved
  <2>2. [loc[t].snap EXCEPT !.st = "expired"] \in ProposalRow
    BY <2>1, ThreadFacts DEF ProposalRow, ApprovalStatus
  <2> QED BY <1>0, <2>1, <2>2, CopyTo DEF Goes
<1>3. ASSUME Approve(t) \/ Reject(t)
      PROVE  UNCHANGED saved /\ loc[t].pc \in {"approve", "reject"} /\ Jumps(t, "return")
  <2>1. UNCHANGED saved /\ loc[t].pc \in {"approve", "reject"} /\ Jump(t, "return")
    BY <1>3 DEF Approve, Reject, At, saved
  <2> QED BY <1>0, <2>1, JumpTo DEF Jumps
<1>4. ASSUME MarkExecuted(t)
      PROVE  UNCHANGED saved /\ loc[t].pc = "mark" /\ Jumps(t, loc[t].then)
  <2>1. UNCHANGED saved /\ loc[t].pc = "mark" /\ Jump(t, loc[t].then)
    BY <1>4 DEF MarkExecuted, At, saved
  <2> QED BY <1>0, <2>1, JumpTo DEF Jumps
<1>5. ASSUME CheckOpen(t)
      PROVE  /\ UNCHANGED saved /\ loc[t].pc = "check_open"
             /\ Jumps(t, "insert") \/ Jumps(t, "return")
  <2>1. /\ UNCHANGED saved /\ loc[t].pc = "check_open"
        /\ Jump(t, "insert") \/ Jump(t, "return")
    BY <1>5 DEF CheckOpen, At, db, saved
  <2> QED BY <1>0, <2>1, JumpTo DEF Jumps
<1>6. ASSUME Insert(t)
      PROVE  /\ UNCHANGED <<exec, latest, orders>> /\ loc[t].pc = "insert"
             /\ Jumps(t, "return")
             /\ \E q \in QueueIds :
                  /\ queue[q].st = None
                  /\ queue' \in {queue, [queue EXCEPT ![q] =
                          [st |-> "queued", p |-> loc[t].p, ex |-> None]]}
  <2>1. UNCHANGED <<exec, latest, orders>> /\ loc[t].pc = "insert" /\ Jump(t, "return")
    BY <1>6 DEF Insert, At
  <2>2. \E q \in QueueIds :
           /\ queue[q].st = None
           /\ queue' \in {queue, [queue EXCEPT ![q] =
                   [st |-> "queued", p |-> loc[t].p, ex |-> None]]}
    BY <1>6 DEF Insert
  <2>3. Jumps(t, "return")
    BY <1>0, <2>1, JumpTo DEF Jumps
  <2> QED BY <2>1, <2>2, <2>3
<1> QED BY <1>1, <1>2, <1>3, <1>4, <1>5, <1>6

\* UpdateItem by a thread at its item.
Writes(t, s, e) ==
    /\ queue' = [queue EXCEPT ![loc[t].q] = [@ EXCEPT !.st = s, !.ex = e]]
    /\ UNCHANGED <<exec, latest, orders>>

LEMMA ItemMoves ==
    ASSUME Inv, NEW t \in Threads
    PROVE  /\ ReadItem(t) => /\ UNCHANGED saved /\ loc[t].pc = "item"
                             /\ \/ Goes(t, "latest") /\ queue[loc[t].q].ex = None
                                \/ Goes(t, "return")
           /\ ReadLatest(t) =>
                /\ UNCHANGED saved /\ loc[t].pc = "latest"
                /\ \/ \E e \in ExecIds : /\ e = latest[loc[t].p] /\ exec[e].st \notin DeadStatus
                                         /\ To(t, "adopt", loc[t].k, e, loc[t].then, loc[t].row, loc[t].try)
                   \/ /\ Goes(t, "claim")
                      /\ latest[loc[t].p] = None \/ exec[latest[loc[t].p]].st \in DeadStatus
                   \/ Goes(t, "return")
           /\ AdoptExecution(t) => /\ loc[t].pc = "adopt" /\ Writes(t, "executed", loc[t].ex)
                                   /\ Jumps(t, "return")
           /\ ClaimForProcessing(t) =>
                /\ loc[t].pc = "claim"
                /\ \/ Writes(t, "processing", queue[loc[t].q].ex) /\ Jumps(t, "reload")
                   \/ UNCHANGED saved /\ Jumps(t, "return")
           /\ ReloadItem(t) =>
                /\ UNCHANGED saved /\ loc[t].pc = "reload"
                /\ To(t, "get", "checked", loc[t].ex, loc[t].then, queue[loc[t].q].ex, loc[t].try)
           /\ CheckApproved(t) => /\ UNCHANGED saved /\ loc[t].pc = "checked"
                                  /\ Jumps(t, "gates") \/ Jumps(t, "block")
           /\ PassGates(t) =>
                /\ UNCHANGED saved /\ loc[t].pc = "gates"
                /\ \/ Route = "self_simulated" /\ Jumps(t, "record")
                   \/ Jumps(t, "return") /\ loc[t].row # None
                   \/ Route = "alpaca" /\ To(t, "submit", loc[t].k, loc[t].ex, loc[t].then, loc[t].row, TRUE)
                   \/ Route = "etoro" /\ To(t, "get", "trade", loc[t].ex, loc[t].then, loc[t].row, TRUE)
                   \/ Jumps(t, "block")
           /\ BlockItem(t) => /\ loc[t].pc = "block" /\ Writes(t, "blocked", loc[t].row)
                              /\ Jumps(t, "return")
<1>0. /\ loc[t] \in Local /\ loc[t].k \in Steps
      /\ {"return", "latest", "adopt", "claim", "reload", "gates", "block", "record", "submit",
          "get", "trade"} \subseteq Steps
  BY DEF Inv, ThreadsOK, Local, Steps
<1>1. ASSUME ReadItem(t)
      PROVE  /\ UNCHANGED saved /\ loc[t].pc = "item"
             /\ \/ Goes(t, "latest") /\ queue[loc[t].q].ex = None
                \/ Goes(t, "return")
  <2>1. UNCHANGED saved /\ loc[t].pc = "item"
    BY <1>1 DEF ReadItem, At, db, saved
  <2>2. queue[loc[t].q].st \in QueueStatus
    BY <2>1, ThreadFacts DEF ItemSteps, Inv, Good, TablesOK, QueueRow
  <2>3. PICK s \in {"latest", "return"} :
           /\ Goto(t, [loc[t] EXCEPT !.was = queue[loc[t].q].st, !.pc = s])
           /\ s = "latest" => queue[loc[t].q].ex = None
    BY <1>1 DEF ReadItem
  <2> QED BY <1>0, <2>1, <2>2, <2>3, NoteTo DEF Goes
<1>2. ASSUME ReadLatest(t)
      PROVE  /\ UNCHANGED saved /\ loc[t].pc = "latest"
             /\ \/ \E e \in ExecIds : /\ e = latest[loc[t].p] /\ exec[e].st \notin DeadStatus
                                      /\ To(t, "adopt", loc[t].k, e, loc[t].then, loc[t].row, loc[t].try)
                \/ /\ Goes(t, "claim")
                   /\ latest[loc[t].p] = None \/ exec[latest[loc[t].p]].st \in DeadStatus
                \/ Goes(t, "return")
  <2>1. UNCHANGED saved /\ loc[t].pc = "latest"
    BY <1>2 DEF ReadLatest, At, db, saved
  <2>2. latest[loc[t].p] \in ExecIds \cup {None} /\ None \in QueueStatus
    BY <2>1, ThreadFacts DEF Inv, Good, TablesOK, QueueStatus
  <2>3. CASE latest[loc[t].p] # None /\ exec[latest[loc[t].p]].st \notin DeadStatus
    <3>1. PICK e \in ExecIds : e = latest[loc[t].p]
      BY <2>2, <2>3
    <3>2. Goto(t, [loc[t] EXCEPT !.was = None, !.pc = "adopt", !.ex = e])
      BY <1>2, <2>3, <3>1 DEF ReadLatest
    <3> QED BY <1>0, <2>1, <2>3, <3>1, <3>2, HoldTo
  <2>4. CASE ~(latest[loc[t].p] # None /\ exec[latest[loc[t].p]].st \notin DeadStatus)
    <3>1. PICK s \in {"return", "claim"} : Goto(t, [loc[t] EXCEPT !.was = None, !.pc = s])
      BY <1>2, <2>4 DEF ReadLatest
    <3>2. Goes(t, s)
      BY <1>0, <2>2, <3>1, NoteTo DEF Goes
    <3> QED BY <2>1, <2>4, <3>1, <3>2
  <2> QED BY <2>3, <2>4
<1>3. ASSUME AdoptExecution(t)
      PROVE  loc[t].pc = "adopt" /\ Writes(t, "executed", loc[t].ex) /\ Jumps(t, "return")
  <2>1. loc[t].pc = "adopt" /\ Writes(t, "executed", loc[t].ex) /\ Jump(t, "return")
    BY <1>3 DEF AdoptExecution, At, UpdateItem, Writes
  <2> QED BY <1>0, <2>1, JumpTo DEF Jumps
<1>4. ASSUME ClaimForProcessing(t)
      PROVE  /\ loc[t].pc = "claim"
             /\ \/ Writes(t, "processing", queue[loc[t].q].ex) /\ Jumps(t, "reload")
                \/ UNCHANGED saved /\ Jumps(t, "return")
  <2>1. /\ loc[t].pc = "claim"
        /\ \/ Writes(t, "processing", queue[loc[t].q].ex) /\ Jump(t, "reload")
           \/ UNCHANGED saved /\ Jump(t, "return")
    BY <1>4 DEF ClaimForProcessing, At, UpdateItem, Writes, saved
  <2> QED BY <1>0, <2>1, JumpTo DEF Jumps
<1>5. ASSUME ReloadItem(t)
      PROVE  /\ UNCHANGED saved /\ loc[t].pc = "reload"
             /\ To(t, "get", "checked", loc[t].ex, loc[t].then, queue[loc[t].q].ex, loc[t].try)
  <2>1. UNCHANGED saved /\ loc[t].pc = "reload" /\ At(t, "reload")
    BY <1>5 DEF ReloadItem, At, db, saved
  <2> QED BY <1>5, <2>1, ReloadTo
<1>6. ASSUME CheckApproved(t)
      PROVE  /\ UNCHANGED saved /\ loc[t].pc = "checked"
             /\ Jumps(t, "gates") \/ Jumps(t, "block")
  <2>1. /\ UNCHANGED saved /\ loc[t].pc = "checked"
        /\ Jump(t, "gates") \/ Jump(t, "block")
    BY <1>6 DEF CheckApproved, At, db, saved
  <2> QED BY <1>0, <2>1, JumpTo DEF Jumps
<1>7. ASSUME PassGates(t)
      PROVE  /\ UNCHANGED saved /\ loc[t].pc = "gates"
             /\ \/ Route = "self_simulated" /\ Jumps(t, "record")
                \/ Jumps(t, "return") /\ loc[t].row # None
                \/ Route = "alpaca" /\ To(t, "submit", loc[t].k, loc[t].ex, loc[t].then, loc[t].row, TRUE)
                \/ Route = "etoro" /\ To(t, "get", "trade", loc[t].ex, loc[t].then, loc[t].row, TRUE)
                \/ Jumps(t, "block")
  <2>1. UNCHANGED saved /\ loc[t].pc = "gates"
    BY <1>7 DEF PassGates, At, saved
  <2>2. \/ Route = "self_simulated" /\ Jump(t, "record")
        \/ Jump(t, "return") /\ loc[t].row # None
        \/ Route = "alpaca" /\ Goto(t, [loc[t] EXCEPT !.pc = "submit", !.try = TRUE])
        \/ Route = "etoro" /\ Goto(t, [loc[t] EXCEPT !.pc = "get", !.k = "trade", !.try = TRUE])
        \/ Jump(t, "block")
    <3>1. CASE Route = "self_simulated"
      BY <1>7, <3>1 DEF PassGates
    <3>2. CASE Route # "self_simulated" /\ loc[t].row # None
      BY <1>7, <3>2 DEF PassGates
    <3>3. CASE Route = "alpaca" /\ loc[t].row = None
      BY <1>7, <3>3 DEF PassGates
    <3>4. CASE Route = "etoro" /\ loc[t].row = None
      BY <1>7, <3>4 DEF PassGates
    <3> QED BY <3>1, <3>2, <3>3, <3>4, PipelineConstants
  <2>3. /\ Jump(t, "record") => Jumps(t, "record")
        /\ Jump(t, "return") => Jumps(t, "return")
        /\ Jump(t, "block") => Jumps(t, "block")
    BY <1>0, JumpTo DEF Jumps
  <2>4. Goto(t, [loc[t] EXCEPT !.pc = "submit", !.try = TRUE])
          => To(t, "submit", loc[t].k, loc[t].ex, loc[t].then, loc[t].row, TRUE)
    BY <1>0, TryTo
  <2>5. Goto(t, [loc[t] EXCEPT !.pc = "get", !.k = "trade", !.try = TRUE])
          => To(t, "get", "trade", loc[t].ex, loc[t].then, loc[t].row, TRUE)
    BY <1>0, TryTo
  <2> QED BY <2>1, <2>2, <2>3, <2>4, <2>5
<1>8. ASSUME BlockItem(t)
      PROVE  loc[t].pc = "block" /\ Writes(t, "blocked", loc[t].row) /\ Jumps(t, "return")
  <2>1. loc[t].pc = "block" /\ Writes(t, "blocked", loc[t].row) /\ Jump(t, "return")
    BY <1>8 DEF BlockItem, At, UpdateItem, Writes
  <2> QED BY <1>0, <2>1, JumpTo DEF Jumps
<1> QED BY <1>1, <1>2, <1>3, <1>4, <1>5, <1>6, <1>7, <1>8

\* INSERT INTO executions by t: record e with status s and order o.
Creates(t, e, s, o) ==
    /\ exec[e].st = None
    /\ exec' = [exec EXCEPT ![e] = [st |-> s, p |-> loc[t].p, ord |-> o, cid |-> loc[t].q]]
    /\ latest' = [latest EXCEPT ![loc[t].p] = e]
    /\ UNCHANGED <<queue, orders>>

Orders(o) == orders' = orders \cup {o} /\ UNCHANGED <<queue, exec, latest>>

LEMMA BrokerMoves ==
    ASSUME Inv, NEW t \in Threads
    PROVE  /\ SubmitOrder(t) =>
                /\ loc[t].pc = "submit"
                /\ \/ Orders(loc[t].q) /\ Jumps(t, "dupcheck")
                   \/ UNCHANGED saved /\ Raises(t)
                   \/ "lost" \in Events /\ Orders(loc[t].q) /\ Raises(t)
           /\ CheckDuplicate(t) =>
                /\ UNCHANGED saved /\ loc[t].pc = "dupcheck"
                /\ \/ RecordedAs(loc[t].q) = {} /\ Jumps(t, "record")
                   \/ \E e \in RecordedAs(loc[t].q) : Marks(t, e, "finish")
           /\ RecordExecution(t) =>
                /\ loc[t].pc = "record"
                /\ \/ /\ Route = "alpaca" /\ RecordedAs(loc[t].q) # {}
                      /\ UNCHANGED saved /\ Raises(t)
                   \/ \E e \in ExecIds, s \in BrokerStatus :
                         /\ Creates(t, e, s, IF Route = "alpaca" THEN loc[t].q ELSE None)
                         /\ Marks(t, e, IF Route = "alpaca" THEN "mirror" ELSE "finish")
           /\ MirrorParallel(t) =>
                /\ UNCHANGED saved /\ loc[t].pc = "mirror"
                /\ \/ Jumps(t, "finish")
                   \/ "error" \in Events /\ Raises(t)
           /\ FinishItem(t) => /\ loc[t].pc = "finish" /\ Writes(t, "executed", loc[t].ex)
                               /\ Jumps(t, "return")
           /\ BrokerFailed(t) =>
                /\ loc[t].pc = "fail"
                /\ \E e \in ExecIds :
                      \/ Fallback /\ Creates(t, e, "submitted", None) /\ Marks(t, e, "finish")
                      \/ /\ Creates(t, e, "failed", None)
                         /\ To(t, "failitem", loc[t].k, e, loc[t].then, loc[t].row, loc[t].try)
           /\ BlockFailedItem(t) => /\ loc[t].pc = "failitem" /\ Writes(t, "blocked", loc[t].ex)
                                    /\ Jumps(t, "return")
           /\ RaiseError(t) => /\ "error" \in Events /\ loc[t].pc # "idle"
                               /\ UNCHANGED saved /\ Raises(t)
<1>0. {"return", "dupcheck", "record", "finish", "mirror", "failitem"} \subseteq Steps
  BY DEF Steps
<1>r. Raise(t) => Raises(t)
  BY RaiseTo DEF Raises
<1>m. ASSUME NEW e \in ExecIds, NEW s \in {"finish", "mirror"}, CallMarkExecuted(t, e, s)
      PROVE  Marks(t, e, s)
  BY <1>0, <1>m, CallMarkTo DEF Marks
<1>1. ASSUME SubmitOrder(t)
      PROVE  /\ loc[t].pc = "submit"
             /\ \/ Orders(loc[t].q) /\ Jumps(t, "dupcheck")
                \/ UNCHANGED saved /\ Raises(t)
                \/ "lost" \in Events /\ Orders(loc[t].q) /\ Raises(t)
  <2>1. /\ loc[t].pc = "submit" /\ UNCHANGED <<queue, exec, latest>>
        /\ \/ orders' = orders \cup {loc[t].q} /\ Jump(t, "dupcheck")
           \/ UNCHANGED orders /\ Raise(t)
           \/ "lost" \in Events /\ orders' = orders \cup {loc[t].q} /\ Raise(t)
    BY <1>1 DEF SubmitOrder, At, ClientOrderId
  <2>2. Jump(t, "dupcheck") => Jumps(t, "dupcheck")
    BY <1>0, JumpTo DEF Jumps
  <2> QED BY <1>r, <2>1, <2>2 DEF Orders, saved
<1>2. ASSUME CheckDuplicate(t)
      PROVE  /\ UNCHANGED saved /\ loc[t].pc = "dupcheck"
             /\ \/ RecordedAs(loc[t].q) = {} /\ Jumps(t, "record")
                \/ \E e \in RecordedAs(loc[t].q) : Marks(t, e, "finish")
  <2>1. UNCHANGED saved /\ loc[t].pc = "dupcheck"
    BY <1>2 DEF CheckDuplicate, At, db, saved
  <2>2. CASE RecordedAs(loc[t].q) = {}
    <3>1. Jump(t, "record")
      BY <1>2, <2>2 DEF CheckDuplicate, ClientOrderId
    <3>2. Jumps(t, "record")
      BY <1>0, <3>1, JumpTo DEF Jumps
    <3> QED BY <2>1, <2>2, <3>2
  <2>3. CASE RecordedAs(loc[t].q) # {}
    <3>1. PICK e \in RecordedAs(loc[t].q) : CallMarkExecuted(t, e, "finish")
      BY <1>2, <2>3 DEF CheckDuplicate, ClientOrderId
    <3>2. e \in ExecIds
      BY DEF RecordedAs
    <3>3. Marks(t, e, "finish")
      BY <1>m, <3>1, <3>2
    <3> QED BY <2>1, <3>3
  <2> QED BY <2>2, <2>3
<1>3. ASSUME RecordExecution(t)
      PROVE  /\ loc[t].pc = "record"
             /\ \/ /\ Route = "alpaca" /\ RecordedAs(loc[t].q) # {}
                   /\ UNCHANGED saved /\ Raises(t)
                \/ \E e \in ExecIds, s \in BrokerStatus :
                      /\ Creates(t, e, s, IF Route = "alpaca" THEN loc[t].q ELSE None)
                      /\ Marks(t, e, IF Route = "alpaca" THEN "mirror" ELSE "finish")
  <2> DEFINE o == IF Route = "alpaca" THEN loc[t].q ELSE None
             n == IF Route = "alpaca" THEN "mirror" ELSE "finish"
  <2>1. loc[t].pc = "record" /\ UNCHANGED <<queue, orders>>
    BY <1>3 DEF RecordExecution, At
  <2>2. CASE o # None /\ RecordedAs(o) # {}
    BY <1>3, <1>r, <2>1, <2>2 DEF RecordExecution, ClientOrderId, saved
  <2>3. CASE ~(o # None /\ RecordedAs(o) # {})
    <3>1. PICK e \in FreeExec, s \in BrokerStatus :
             CreateExecution(t, e, s, o) /\ CallMarkExecuted(t, e, n)
      BY <1>3, <2>3 DEF RecordExecution, ClientOrderId, BrokerStatus
    <3>2. e \in ExecIds /\ exec[e].st = None /\ n \in {"finish", "mirror"}
      BY DEF FreeExec
    <3>3. Creates(t, e, s, o)
      BY <2>1, <3>1, <3>2 DEF CreateExecution, Creates
    <3> HIDE DEF n, o
    <3>4. Marks(t, e, n)
      BY <1>m, <3>1, <3>2
    <3> QED BY <2>1, <3>2, <3>3, <3>4 DEF n, o
  <2> QED BY <2>2, <2>3
<1>4. ASSUME MirrorParallel(t)
      PROVE  /\ UNCHANGED saved /\ loc[t].pc = "mirror"
             /\ \/ Jumps(t, "finish")
                \/ "error" \in Events /\ Raises(t)
  <2>1. /\ UNCHANGED saved /\ loc[t].pc = "mirror"
        /\ Jump(t, "finish") \/ ("error" \in Events /\ Raise(t))
    BY <1>4 DEF MirrorParallel, At, saved
  <2>2. Jump(t, "finish") => Jumps(t, "finish")
    BY <1>0, JumpTo DEF Jumps
  <2> QED BY <1>r, <2>1, <2>2
<1>5. ASSUME FinishItem(t)
      PROVE  loc[t].pc = "finish" /\ Writes(t, "executed", loc[t].ex) /\ Jumps(t, "return")
  <2>1. loc[t].pc = "finish" /\ Writes(t, "executed", loc[t].ex) /\ Jump(t, "return")
    BY <1>5 DEF FinishItem, At, UpdateItem, Writes
  <2> QED BY <1>0, <2>1, JumpTo DEF Jumps
<1>6. ASSUME BrokerFailed(t)
      PROVE  /\ loc[t].pc = "fail"
             /\ \E e \in ExecIds :
                   \/ Fallback /\ Creates(t, e, "submitted", None) /\ Marks(t, e, "finish")
                   \/ /\ Creates(t, e, "failed", None)
                      /\ To(t, "failitem", loc[t].k, e, loc[t].then, loc[t].row, loc[t].try)
  <2>1. loc[t].pc = "fail" /\ UNCHANGED <<queue, orders>>
    BY <1>6 DEF BrokerFailed, At
  <2>2. PICK e \in FreeExec :
           \/ /\ Fallback
              /\ CreateExecution(t, e, "submitted", None)
              /\ CallMarkExecuted(t, e, "finish")
           \/ /\ CreateExecution(t, e, "failed", None)
              /\ Goto(t, [loc[t] EXCEPT !.ex = e, !.pc = "failitem"])
    BY <1>6 DEF BrokerFailed
  <2>3. e \in ExecIds /\ exec[e].st = None
    BY DEF FreeExec
  <2>4. \A s \in {"submitted", "failed"} : CreateExecution(t, e, s, None) => Creates(t, e, s, None)
    BY <2>1, <2>3 DEF CreateExecution, Creates
  <2>5. CallMarkExecuted(t, e, "finish") => Marks(t, e, "finish")
    BY <1>m, <2>3
  <2>6. Goto(t, [loc[t] EXCEPT !.ex = e, !.pc = "failitem"])
           => To(t, "failitem", loc[t].k, e, loc[t].then, loc[t].row, loc[t].try)
    BY <1>0, <2>3, HoldTo
  <2> QED BY <2>1, <2>2, <2>3, <2>4, <2>5, <2>6
<1>7. ASSUME BlockFailedItem(t)
      PROVE  loc[t].pc = "failitem" /\ Writes(t, "blocked", loc[t].ex) /\ Jumps(t, "return")
  <2>1. loc[t].pc = "failitem" /\ Writes(t, "blocked", loc[t].ex) /\ Jump(t, "return")
    BY <1>7 DEF BlockFailedItem, At, UpdateItem, Writes
  <2> QED BY <1>0, <2>1, JumpTo DEF Jumps
<1>8. ASSUME RaiseError(t)
      PROVE  "error" \in Events /\ loc[t].pc # "idle" /\ UNCHANGED saved /\ Raises(t)
  BY <1>8, <1>r DEF RaiseError, At, db, saved
<1> QED BY <1>1, <1>2, <1>3, <1>4, <1>5, <1>6, <1>7, <1>8

LEMMA TraderMoves ==
    ASSUME Inv, NEW t \in Threads
    PROVE  /\ Trade(t) => /\ UNCHANGED saved /\ loc[t].pc = "trade"
                          /\ Jumps(t, "validated") \/ Jumps(t, "refuse")
           /\ RefuseTrade(t) => /\ loc[t].pc = "refuse" /\ Raises(t)
                                /\ \E e \in ExecIds : Creates(t, e, "blocked", None)
           /\ CreateValidated(t) =>
                /\ loc[t].pc = "validated"
                /\ \E e \in ExecIds :
                      /\ Creates(t, e, "validated", None)
                      /\ To(t, "buy", loc[t].k, e, loc[t].then, loc[t].row, loc[t].try)
           /\ OpenMarketOrder(t) =>
                /\ loc[t].pc = "buy"
                /\ \/ Orders(loc[t].ex) /\ Jumps(t, "update")
                   \/ UNCHANGED saved /\ Raises(t)
                   \/ "lost" \in Events /\ Orders(loc[t].ex) /\ Raises(t)
           /\ UpdateExecution(t) =>
                /\ loc[t].pc = "update" /\ UNCHANGED <<queue, latest, orders>>
                /\ \E s \in BrokerStatus :
                      exec' = [exec EXCEPT ![loc[t].ex] = [@ EXCEPT !.st = s, !.ord = loc[t].ex]]
                /\ Marks(t, loc[t].ex, IF loc[t].q = None THEN "return" ELSE "finish")
<1>0. {"validated", "refuse", "buy", "update", "return", "finish"} \subseteq Steps
  BY DEF Steps
<1>r. Raise(t) => Raises(t)
  BY RaiseTo DEF Raises
<1>1. ASSUME Trade(t)
      PROVE  /\ UNCHANGED saved /\ loc[t].pc = "trade"
             /\ Jumps(t, "validated") \/ Jumps(t, "refuse")
  <2>1. /\ UNCHANGED saved /\ loc[t].pc = "trade"
        /\ Jump(t, "validated") \/ Jump(t, "refuse")
    BY <1>1 DEF Trade, At, db, saved
  <2> QED BY <1>0, <2>1, JumpTo DEF Jumps
<1>2. ASSUME RefuseTrade(t)
      PROVE  /\ loc[t].pc = "refuse" /\ Raises(t)
             /\ \E e \in ExecIds : Creates(t, e, "blocked", None)
  <2>1. PICK e \in FreeExec : CreateExecution(t, e, "blocked", None)
    BY <1>2 DEF RefuseTrade
  <2>2. e \in ExecIds /\ Creates(t, e, "blocked", None)
    BY <1>2, <2>1 DEF RefuseTrade, FreeExec, CreateExecution, Creates
  <2> QED BY <1>2, <1>r, <2>2 DEF RefuseTrade, At
<1>3. ASSUME CreateValidated(t)
      PROVE  /\ loc[t].pc = "validated"
             /\ \E e \in ExecIds :
                   /\ Creates(t, e, "validated", None)
                   /\ To(t, "buy", loc[t].k, e, loc[t].then, loc[t].row, loc[t].try)
  <2>1. PICK e \in FreeExec : /\ CreateExecution(t, e, "validated", None)
                              /\ Goto(t, [loc[t] EXCEPT !.ex = e, !.pc = "buy"])
    BY <1>3 DEF CreateValidated
  <2>2. e \in ExecIds /\ Creates(t, e, "validated", None)
    BY <1>3, <2>1 DEF CreateValidated, FreeExec, CreateExecution, Creates
  <2>3. To(t, "buy", loc[t].k, e, loc[t].then, loc[t].row, loc[t].try)
    BY <1>0, <2>1, <2>2, HoldTo
  <2> QED BY <1>3, <2>2, <2>3 DEF CreateValidated, At
<1>4. ASSUME OpenMarketOrder(t)
      PROVE  /\ loc[t].pc = "buy"
             /\ \/ Orders(loc[t].ex) /\ Jumps(t, "update")
                \/ UNCHANGED saved /\ Raises(t)
                \/ "lost" \in Events /\ Orders(loc[t].ex) /\ Raises(t)
  <2>1. /\ loc[t].pc = "buy" /\ UNCHANGED <<queue, exec, latest>>
        /\ \/ orders' = orders \cup {loc[t].ex} /\ Jump(t, "update")
           \/ UNCHANGED orders /\ Raise(t)
           \/ "lost" \in Events /\ orders' = orders \cup {loc[t].ex} /\ Raise(t)
    BY <1>4 DEF OpenMarketOrder, At
  <2>2. Jump(t, "update") => Jumps(t, "update")
    BY <1>0, JumpTo DEF Jumps
  <2> QED BY <1>r, <2>1, <2>2 DEF Orders, saved
<1>5. ASSUME UpdateExecution(t)
      PROVE  /\ loc[t].pc = "update" /\ UNCHANGED <<queue, latest, orders>>
             /\ \E s \in BrokerStatus :
                   exec' = [exec EXCEPT ![loc[t].ex] = [@ EXCEPT !.st = s, !.ord = loc[t].ex]]
             /\ Marks(t, loc[t].ex, IF loc[t].q = None THEN "return" ELSE "finish")
  <2> DEFINE n == IF loc[t].q = None THEN "return" ELSE "finish"
  <2>1. /\ loc[t].pc = "update" /\ UNCHANGED <<queue, latest, orders>>
        /\ \E s \in BrokerStatus :
              exec' = [exec EXCEPT ![loc[t].ex] = [@ EXCEPT !.st = s, !.ord = loc[t].ex]]
        /\ CallMarkExecuted(t, loc[t].ex, n)
    BY <1>5 DEF UpdateExecution, At
  <2>2. loc[t].ex \in ExecIds /\ n \in Steps
    BY <1>0, <2>1, ThreadFacts DEF ExecutionSteps
  <2> HIDE DEF n
  <2>3. Marks(t, loc[t].ex, n)
    BY <2>1, <2>2, CallMarkTo DEF Marks
  <2> QED BY <2>1, <2>3 DEF n
<1> QED BY <1>1, <1>2, <1>3, <1>4, <1>5

\* A request takes an idle thread; an item's request takes its process's lock too.
LEMMA ArriveMoves ==
    ASSUME Inv, NEW t \in Threads, Arrive(t)
    PROVE  /\ UNCHANGED saved /\ loc[t].pc = "idle"
           /\ \A u \in Threads \ {t} : loc'[u] = loc[u]
           /\ loc'[t].ex = None /\ loc'[t].row = None /\ loc'[t].then = "idle" /\ loc'[t].try = FALSE
           /\ \/ /\ loc'[t].pc = "get" /\ loc'[t].q = None
                 /\ lock' = lock
                 /\ \/ loc'[t].k \in {"return", "approve", "reject", "check_open"}
                    \/ loc'[t].k = "trade" /\ "execute" \in Requests
              \/ /\ loc'[t].pc = "item" /\ loc'[t].q \in QueueIds /\ loc'[t].k = "idle"
                 /\ loc'[t].p = queue[loc'[t].q].p /\ queue[loc'[t].q].st # None
                 /\ lock[ProcOf[t]] = None /\ lock' = [lock EXCEPT ![ProcOf[t]] = t]
<1>0. loc \in [Threads -> Local]
  BY DEF Inv, ThreadsOK
<1>1. ASSUME NEW p \in Proposals, NEW k \in {"return", "approve", "reject", "check_open", "trade"},
             Request(t, p, k)
      PROVE  /\ UNCHANGED saved /\ loc[t].pc = "idle"
             /\ \A u \in Threads \ {t} : loc'[u] = loc[u]
             /\ loc'[t].ex = None /\ loc'[t].row = None /\ loc'[t].then = "idle" /\ loc'[t].try = FALSE
             /\ loc'[t].pc = "get" /\ loc'[t].q = None /\ lock' = lock /\ loc'[t].k = k
  <2> DEFINE l == [Idle EXCEPT !.pc = "get", !.k = k, !.p = p]
  <2>1. /\ l.pc = "get" /\ l.k = k /\ l.q = None /\ l.ex = None /\ l.row = None
        /\ l.then = "idle" /\ l.try = FALSE
    BY DEF Idle
  <2>2. UNCHANGED saved /\ loc[t].pc = "idle" /\ Goto(t, l)
    BY <1>1 DEF Request, At, db, saved
  <2> HIDE DEF l
  <2>3. loc' = [loc EXCEPT ![t] = l] /\ lock' = lock
    BY <2>1, <2>2 DEF Goto
  <2> QED BY <1>0, <2>1, <2>2, <2>3
<1>2. ASSUME NEW q \in QueueIds, RequestProcess(t, q)
      PROVE  /\ UNCHANGED saved /\ loc[t].pc = "idle"
             /\ \A u \in Threads \ {t} : loc'[u] = loc[u]
             /\ loc'[t].ex = None /\ loc'[t].row = None /\ loc'[t].then = "idle" /\ loc'[t].try = FALSE
             /\ loc'[t].pc = "item" /\ loc'[t].q = q /\ loc'[t].k = "idle"
             /\ loc'[t].p = queue[q].p /\ queue[q].st # None
             /\ lock[ProcOf[t]] = None /\ lock' = [lock EXCEPT ![ProcOf[t]] = t]
  <2> DEFINE l == [Idle EXCEPT !.pc = "item", !.q = q, !.p = queue[q].p]
  <2>1. /\ l.pc = "item" /\ l.k = "idle" /\ l.q = q /\ l.p = queue[q].p /\ l.ex = None
        /\ l.row = None /\ l.then = "idle" /\ l.try = FALSE
    BY DEF Idle
  <2>2. /\ UNCHANGED saved /\ loc[t].pc = "idle" /\ loc' = [loc EXCEPT ![t] = l]
        /\ queue[q].st # None /\ lock[ProcOf[t]] = None /\ lock' = [lock EXCEPT ![ProcOf[t]] = t]
    BY <1>2 DEF RequestProcess, At, db, saved
  <2> HIDE DEF l
  <2> QED BY <1>0, <2>1, <2>2
<1>3. CASE \E p \in Proposals : RequestList(t, p)
  BY <1>1, <1>3 DEF RequestList
<1>4. CASE \E p \in Proposals : RequestApprove(t, p)
  BY <1>1, <1>4 DEF RequestApprove
<1>5. CASE \E p \in Proposals : RequestReject(t, p)
  BY <1>1, <1>5 DEF RequestReject
<1>6. CASE \E p \in Proposals : RequestEnqueue(t, p)
  BY <1>1, <1>6 DEF RequestEnqueue
<1>7. CASE \E p \in Proposals : RequestExecute(t, p)
  BY <1>1, <1>7 DEF RequestExecute
<1>8. CASE \E q \in QueueIds : RequestProcess(t, q)
  BY <1>2, <1>8
<1> QED BY <1>3, <1>4, <1>5, <1>6, <1>7, <1>8 DEF Arrive

\* The environment writes none of these rows; a crash idles the threads of one process.
LEMMA EnvironmentMoves ==
    ASSUME Inv, Environment
    PROVE  /\ UNCHANGED saved
           /\ \/ loc' = loc /\ lock' = lock
              \/ \E c \in Procs :
                    /\ "crash" \in Events
                    /\ loc' = [t \in Threads |-> IF ProcOf[t] = c THEN Idle ELSE loc[t]]
                    /\ lock' = [lock EXCEPT ![c] = None]
<1>1. ASSUME NEW p \in Proposals, CreateProposal(p) \/ PassExpiry(p)
      PROVE  UNCHANGED saved /\ loc' = loc /\ lock' = lock
  BY <1>1 DEF CreateProposal, PassExpiry, saved
<1>2. ASSUME NEW q \in QueueIds, PassLockTimeout(q)
      PROVE  UNCHANGED saved /\ loc' = loc /\ lock' = lock
  BY <1>2 DEF PassLockTimeout, saved
<1>3. ASSUME HaltAutomation \/ ResumeAutomation
      PROVE  UNCHANGED saved /\ loc' = loc /\ lock' = lock
  BY <1>3 DEF HaltAutomation, ResumeAutomation, saved
<1>4. ASSUME NEW c \in Procs, Crash(c)
      PROVE  /\ UNCHANGED saved /\ "crash" \in Events
             /\ loc' = [t \in Threads |-> IF ProcOf[t] = c THEN Idle ELSE loc[t]]
             /\ lock' = [lock EXCEPT ![c] = None]
  BY <1>4 DEF Crash, db, saved
<1> QED BY <1>1, <1>2, <1>3, <1>4 DEF Environment

-----------------------------------------------------------------------------
(* The process lock, and what a worker knows about its item *)

\* All threads run in one container.
OneContainer == \A t, u \in Threads : ProcOf[t] = ProcOf[u]

\* A thread with a queue item holds its process's lock (`with _ENTRY_LOCK`).
LockHeld == \A t \in Threads : loc[t].q # None => lock[ProcOf[t]] = t

\* After its first look at the item, a worker's item names no execution, and neither
\* does the copy it read when it claimed it.
FreshItem ==
    \A t \in Threads : loc[t].q # None =>
        /\ loc[t].row = None
        /\ queue[loc[t].q].ex = None \/ (loc[t].pc = "item" /\ ~loc[t].try)

LEMMA LockedTo ==
    ASSUME Inv, LockHeld, NEW t \in Threads, NEW s, NEW k, NEW e, NEW then, NEW row, NEW try,
           To(t, s, k, e, then, row, try)
    PROVE  LockHeld'
<1> SUFFICES ASSUME NEW u \in Threads, loc'[u].q # None PROVE lock'[ProcOf[u]] = u
  BY DEF LockHeld
<1>0. ProcOf[u] \in Procs /\ ProcOf[t] \in Procs /\ lock \in [Procs -> Threads \cup {None}]
  BY PipelineConstants DEF Inv, ThreadsOK
<1>1. CASE u = t
  <2>1. s # "return" /\ loc'[t].q = loc[t].q
    BY <1>1, IdleFields DEF To
  <2> QED BY <1>1, <2>1 DEF To, LockHeld
<1>2. CASE u # t
  <2>1. lock[ProcOf[u]] = u
    BY <1>2 DEF To, LockHeld
  <2>2. s = "return" /\ lock[ProcOf[t]] = t => ProcOf[u] # ProcOf[t]
    BY <1>2, <2>1
  <2> QED BY <1>0, <2>1, <2>2 DEF To
<1> QED BY <1>1, <1>2

\* Under one lock, only one thread has an item.
LEMMA Alone ==
    ASSUME OneContainer, LockHeld, NEW t \in Threads, NEW u \in Threads,
           loc[t].q # None, loc[u].q # None
    PROVE  t = u
BY DEF OneContainer, LockHeld

\* A step that writes no item keeps what the workers know.
LEMMA FreshTo ==
    ASSUME Inv, FreshItem, NEW t \in Threads, loc[t].pc # "idle", queue' = queue,
           NEW s, NEW k, NEW e, NEW then, NEW row, NEW try, To(t, s, k, e, then, row, try),
           loc[t].q # None /\ s # "return" =>
              /\ row = None
              /\ queue[loc[t].q].ex = None \/ (s = "item" /\ ~try)
    PROVE  FreshItem'
<1> SUFFICES ASSUME NEW u \in Threads, loc'[u].q # None
             PROVE  /\ loc'[u].row = None
                    /\ queue'[loc'[u].q].ex = None \/ (loc'[u].pc = "item" /\ ~loc'[u].try)
  BY DEF FreshItem
<1>1. CASE u = t
  BY <1>1, IdleFields DEF To
<1>2. CASE u # t
  BY <1>2 DEF To, FreshItem
<1> QED BY <1>1, <1>2

\* The only thread with an item writes it and is done, or writes no execution id.
LEMMA FreshWrite ==
    ASSUME Inv, OneContainer, LockHeld, FreshItem, DoneItemReleasesSymbol,
           NEW t \in Threads, loc[t].pc # "idle", loc[t].q # None,
           NEW st, NEW id, Writes(t, st, id), id # None => st \notin OpenStatus,
           NEW s, NEW k, NEW e, NEW then, NEW try, To(t, s, k, e, then, loc[t].row, try),
           s = "return" \/ id = None
    PROVE  LockHeld' /\ FreshItem' /\ DoneItemReleasesSymbol'
<1>0. loc[t].q \in QueueIds /\ queue \in [QueueIds -> QueueRow]
  BY ThreadFacts DEF Inv, Good, TablesOK
<1>1. /\ queue'[loc[t].q].ex = id /\ queue'[loc[t].q].st = st
      /\ \A q \in QueueIds : q # loc[t].q => queue'[q] = queue[q]
  BY <1>0 DEF Writes, QueueRow
<1>2. LockHeld'
  BY LockedTo
<1>3. DoneItemReleasesSymbol'
  BY <1>1 DEF DoneItemReleasesSymbol
<1>4. ASSUME NEW u \in Threads, loc'[u].q # None
      PROVE  /\ loc'[u].row = None
             /\ queue'[loc'[u].q].ex = None \/ (loc'[u].pc = "item" /\ ~loc'[u].try)
  <2>1. u = t
    <3> SUFFICES ASSUME u # t PROVE FALSE
      OBVIOUS
    <3>1. loc[u].q # None
      BY <1>4 DEF To
    <3> QED BY <3>1, Alone
  <2>2. s # "return" /\ loc'[t].q = loc[t].q /\ loc'[t].row = loc[t].row
    BY <1>4, <2>1, IdleFields DEF To
  <2> QED BY <1>1, <2>1, <2>2 DEF FreshItem
<1> QED BY <1>2, <1>3, <1>4 DEF FreshItem

\* The lock invariant and the two about items, together.
ReleaseInv == LockHeld /\ FreshItem /\ DoneItemReleasesSymbol

LEMMA ReleaseQuiet ==
    ASSUME Inv, ReleaseInv, NEW t \in Threads, loc[t].pc # "idle", queue' = queue,
           NEW s, NEW k, NEW e, NEW then, NEW row, NEW try, To(t, s, k, e, then, row, try),
           loc[t].q # None /\ s # "return" =>
              /\ row = None
              /\ queue[loc[t].q].ex = None \/ (s = "item" /\ ~try)
    PROVE  ReleaseInv'
<1>1. LockHeld' /\ FreshItem'
  BY LockedTo, FreshTo DEF ReleaseInv
<1>2. DoneItemReleasesSymbol'
  BY DEF ReleaseInv, DoneItemReleasesSymbol
<1> QED BY <1>1, <1>2 DEF ReleaseInv

\* What a worker past the first look knows.
LEMMA FreshFacts ==
    ASSUME ReleaseInv, NEW t \in Threads
    PROVE  /\ loc[t].q # None => loc[t].row = None
           /\ loc[t].q # None /\ (loc[t].pc # "item" \/ loc[t].try) => queue[loc[t].q].ex = None
BY DEF ReleaseInv, FreshItem

LEMMA ReleaseStep ==
    ASSUME Inv, OneContainer, ReleaseInv, NEW t \in Threads, Step(t) \/ RaiseError(t)
    PROVE  ReleaseInv'
<1>f. /\ loc[t].q # None => loc[t].row = None
      /\ loc[t].q # None /\ (loc[t].pc # "item" \/ loc[t].try) => queue[loc[t].q].ex = None
  BY FreshFacts
<1>w. ASSUME NEW st, NEW id, Writes(t, st, id), id # None => st \notin OpenStatus,
             loc[t].pc \in ItemSteps, NEW s, Jumps(t, s), s = "return" \/ id = None
      PROVE  ReleaseInv'
  <2>1. loc[t].pc # "idle" /\ loc[t].q # None
    <3>1. loc[t].pc # "idle"
      BY <1>w DEF ItemSteps
    <3> QED BY <1>w, <3>1, ThreadFacts
  <2> QED BY <1>w, <2>1, FreshWrite DEF Jumps, ReleaseInv
<1>r. ASSUME loc[t].pc # "idle", queue' = queue, Raises(t)
      PROVE  ReleaseInv'
  <2>1. (IF loc[t].try THEN "fail" ELSE "return") # "return" => loc[t].try
    OBVIOUS
  <2> QED BY <1>f, <1>r, <2>1, ReleaseQuiet DEF Raises
<1>j. ASSUME loc[t].pc \notin {"idle", "item"}, queue' = queue, NEW s, NEW k, NEW e, NEW then,
             NEW try, To(t, s, k, e, then, loc[t].row, try)
      PROVE  ReleaseInv'
  BY <1>f, <1>j, ReleaseQuiet
<1>1. CASE GetProposal(t)
  BY <1>1, <1>j, ProposalMoves DEF saved, Goes
<1>2. CASE ExpireIfNeeded(t)
  BY <1>2, <1>j, ProposalMoves DEF saved, Goes
<1>3. CASE Approve(t) \/ Reject(t)
  BY <1>3, <1>j, ProposalMoves DEF saved, Jumps
<1>4. CASE MarkExecuted(t)
  BY <1>4, <1>j, ProposalMoves DEF saved, Jumps
<1>5. CASE CheckOpen(t)
  BY <1>5, <1>j, ProposalMoves DEF saved, Jumps
<1>6. CASE Insert(t)
  <2>1. loc[t].pc = "insert" /\ Jumps(t, "return")
    BY <1>6, ProposalMoves
  <2>2. PICK q \in QueueIds : /\ queue[q].st = None
                              /\ queue' \in {queue, [queue EXCEPT ![q] =
                                      [st |-> "queued", p |-> loc[t].p, ex |-> None]]}
    BY <1>6, ProposalMoves
  <2>3. CASE queue' = queue
    BY <1>j, <2>1, <2>3 DEF Jumps
  <2>4. CASE queue' = [queue EXCEPT ![q] = [st |-> "queued", p |-> loc[t].p, ex |-> None]]
    <3>1. LockHeld'
      BY <2>1, LockedTo DEF Jumps, ReleaseInv
    <3>2. queue \in [QueueIds -> QueueRow]
      BY DEF Inv, Good, TablesOK
    <3>3. queue'[q].ex = None /\ \A o \in QueueIds \ {q} : queue'[o] = queue[o]
      BY <2>4, <3>2
    <3>4. DoneItemReleasesSymbol'
      BY <3>3 DEF ReleaseInv, DoneItemReleasesSymbol
    <3>5. ASSUME NEW u \in Threads, loc'[u].q # None
          PROVE  /\ loc'[u].row = None
                 /\ queue'[loc'[u].q].ex = None \/ (loc'[u].pc = "item" /\ ~loc'[u].try)
      <4>1. u # t /\ loc'[u] = loc[u]
        BY <2>1, <3>5, IdleFields DEF Jumps, To
      <4>2. loc[u] \in Local
        BY DEF Inv, ThreadsOK
      <4>3. loc[u].q \in QueueIds
        BY <3>5, <4>1, <4>2 DEF Local
      <4> QED BY <3>3, <3>5, <4>1, <4>3 DEF ReleaseInv, FreshItem
    <3> QED BY <3>1, <3>4, <3>5 DEF ReleaseInv, FreshItem
  <2> QED BY <2>2, <2>3, <2>4
<1>7. CASE ReadItem(t)
  <2>1. queue' = queue /\ loc[t].pc = "item" /\ loc[t].q # None
    BY <1>7, ItemMoves, ThreadFacts DEF saved, ItemSteps
  <2>2. CASE Goes(t, "latest") /\ queue[loc[t].q].ex = None
    BY <1>f, <2>1, <2>2, ReleaseQuiet DEF Goes
  <2>3. CASE Goes(t, "return")
    BY <1>f, <2>1, <2>3, ReleaseQuiet DEF Goes
  <2> QED BY <1>7, <2>2, <2>3, ItemMoves
<1>8. CASE ReadLatest(t)
  BY <1>8, <1>j, ItemMoves DEF saved, Goes
<1>9. CASE AdoptExecution(t)
  BY <1>9, <1>w, ItemMoves DEF ItemSteps, OpenStatus
<1>10. CASE ClaimForProcessing(t)
  <2>1. loc[t].pc = "claim" /\ loc[t].q # None
    BY <1>10, ItemMoves, ThreadFacts DEF ItemSteps
  <2>2. CASE Writes(t, "processing", queue[loc[t].q].ex) /\ Jumps(t, "reload")
    BY <1>f, <1>w, <2>1, <2>2 DEF ItemSteps
  <2>3. CASE UNCHANGED saved /\ Jumps(t, "return")
    BY <1>j, <2>1, <2>3 DEF saved, Jumps
  <2> QED BY <1>10, <2>2, <2>3, ItemMoves
<1>11. CASE ReloadItem(t)
  <2>1. /\ queue' = queue /\ loc[t].pc = "reload" /\ loc[t].q # None
        /\ To(t, "get", "checked", loc[t].ex, loc[t].then, queue[loc[t].q].ex, loc[t].try)
    BY <1>11, ItemMoves, ThreadFacts DEF saved, ItemSteps
  <2> QED BY <1>f, <2>1, ReleaseQuiet
<1>12. CASE CheckApproved(t)
  BY <1>12, <1>j, ItemMoves DEF saved, Jumps
<1>13. CASE PassGates(t)
  BY <1>13, <1>j, ItemMoves DEF saved, Jumps
<1>14. CASE BlockItem(t)
  BY <1>14, <1>w, ItemMoves DEF ItemSteps, OpenStatus
<1>15. CASE SubmitOrder(t)
  <2>1. loc[t].pc = "submit" /\ queue' = queue /\ (Jumps(t, "dupcheck") \/ Raises(t))
    BY <1>15, BrokerMoves DEF saved, Orders
  <2> QED BY <1>j, <1>r, <2>1 DEF Jumps
<1>16. CASE CheckDuplicate(t)
  BY <1>16, <1>j, BrokerMoves DEF saved, Jumps, Marks
<1>17. CASE RecordExecution(t)
  <2>1. /\ loc[t].pc = "record" /\ queue' = queue
        /\ Raises(t) \/ \E e, n : Marks(t, e, n)
    BY <1>17, BrokerMoves DEF saved, Creates
  <2> QED BY <1>j, <1>r, <2>1 DEF Marks
<1>18. CASE MirrorParallel(t)
  BY <1>18, <1>j, <1>r, BrokerMoves DEF saved, Jumps
<1>19. CASE FinishItem(t)
  BY <1>19, <1>w, BrokerMoves DEF ItemSteps, OpenStatus
<1>20. CASE BrokerFailed(t)
  <2>1. /\ loc[t].pc = "fail" /\ queue' = queue
        /\ \E e : Marks(t, e, "finish")
                  \/ To(t, "failitem", loc[t].k, e, loc[t].then, loc[t].row, loc[t].try)
    BY <1>20, BrokerMoves DEF Creates
  <2> QED BY <1>j, <2>1 DEF Marks
<1>21. CASE BlockFailedItem(t)
  BY <1>21, <1>w, BrokerMoves DEF ItemSteps, OpenStatus
<1>22. CASE Trade(t)
  BY <1>22, <1>j, TraderMoves DEF saved, Jumps
<1>23. CASE RefuseTrade(t)
  BY <1>23, <1>r, TraderMoves DEF Creates
<1>24. CASE CreateValidated(t)
  BY <1>24, <1>j, TraderMoves DEF Creates
<1>25. CASE OpenMarketOrder(t)
  <2>1. loc[t].pc = "buy" /\ queue' = queue /\ (Jumps(t, "update") \/ Raises(t))
    BY <1>25, TraderMoves DEF saved, Orders
  <2> QED BY <1>j, <1>r, <2>1 DEF Jumps
<1>26. CASE UpdateExecution(t)
  BY <1>26, <1>j, TraderMoves DEF Marks
<1>27. CASE RaiseError(t)
  BY <1>27, <1>r, BrokerMoves DEF saved
<1> QED BY <1>1, <1>2, <1>3, <1>4, <1>5, <1>6, <1>7, <1>8, <1>9, <1>10, <1>11, <1>12, <1>13, <1>14,
   <1>15, <1>16, <1>17, <1>18, <1>19, <1>20, <1>21, <1>22, <1>23, <1>24, <1>25, <1>26, <1>27 DEF Step

LEMMA ReleaseArrive ==
    ASSUME Inv, ReleaseInv, NEW t \in Threads, Arrive(t)
    PROVE  ReleaseInv'
<1>1. /\ queue' = queue /\ \A u \in Threads \ {t} : loc'[u] = loc[u]
      /\ loc'[t].row = None /\ loc'[t].try = FALSE
      /\ \/ loc'[t].q = None /\ lock' = lock
         \/ /\ loc'[t].pc = "item" /\ lock[ProcOf[t]] = None
            /\ lock' = [lock EXCEPT ![ProcOf[t]] = t]
  BY ArriveMoves DEF saved
<1>0. lock \in [Procs -> Threads \cup {None}] /\ \A u \in Threads : ProcOf[u] \in Procs /\ u # None
  BY PipelineConstants DEF Inv, ThreadsOK
<1>2. LockHeld'
  BY <1>0, <1>1 DEF ReleaseInv, LockHeld
<1>3. FreshItem'
  BY <1>1 DEF ReleaseInv, FreshItem
<1>4. DoneItemReleasesSymbol'
  BY <1>1 DEF ReleaseInv, DoneItemReleasesSymbol
<1> QED BY <1>2, <1>3, <1>4 DEF ReleaseInv

LEMMA ReleaseEnvironment ==
    ASSUME Inv, ReleaseInv, Environment
    PROVE  ReleaseInv'
<1>1. queue' = queue
  BY EnvironmentMoves DEF saved
<1>2. CASE loc' = loc /\ lock' = lock
  BY <1>1, <1>2 DEF ReleaseInv, LockHeld, FreshItem, DoneItemReleasesSymbol
<1>3. CASE \E c \in Procs : /\ loc' = [t \in Threads |-> IF ProcOf[t] = c THEN Idle ELSE loc[t]]
                            /\ lock' = [lock EXCEPT ![c] = None]
  <2>1. PICK c \in Procs : /\ loc' = [t \in Threads |-> IF ProcOf[t] = c THEN Idle ELSE loc[t]]
                           /\ lock' = [lock EXCEPT ![c] = None]
    BY <1>3
  <2>2. \A t \in Threads : loc'[t].q # None => loc'[t] = loc[t] /\ ProcOf[t] # c
    BY <2>1, IdleFields
  <2>3. LockHeld'
    BY <2>1, <2>2 DEF ReleaseInv, LockHeld, Inv, ThreadsOK
  <2>4. FreshItem' /\ DoneItemReleasesSymbol'
    BY <1>1, <2>2 DEF ReleaseInv, FreshItem, DoneItemReleasesSymbol
  <2> QED BY <2>3, <2>4 DEF ReleaseInv
<1> QED BY <1>2, <1>3, EnvironmentMoves

LEMMA ReleaseInit == Init => ReleaseInv
BY IdleFields DEF Init, ReleaseInv, LockHeld, FreshItem, DoneItemReleasesSymbol

LEMMA ReleaseNext == OneContainer /\ Inv /\ ReleaseInv /\ [Next]_vars => ReleaseInv'
<1> SUFFICES ASSUME OneContainer, Inv, ReleaseInv, [Next]_vars PROVE ReleaseInv'
  OBVIOUS
<1>1. CASE Environment
  BY <1>1, ReleaseEnvironment
<1>2. CASE \E t \in Threads : Arrive(t)
  BY <1>2, ReleaseArrive
<1>3. CASE \E t \in Threads : Step(t) \/ RaiseError(t)
  BY <1>3, ReleaseStep
<1>4. CASE UNCHANGED vars
  BY <1>4 DEF vars, ReleaseInv, LockHeld, FreshItem, DoneItemReleasesSymbol
<1> QED BY <1>1, <1>2, <1>3, <1>4 DEF Next

LEMMA ReleaseInvariance == OneContainer => (Spec => [](Inv /\ ReleaseInv))
<1> SUFFICES ASSUME OneContainer PROVE Spec => [](Inv /\ ReleaseInv)
  OBVIOUS
<1>1. Init => Inv /\ ReleaseInv
  BY InitInv, ReleaseInit
<1>2. Inv /\ ReleaseInv /\ [Next]_vars => (Inv /\ ReleaseInv)'
  BY NextInv, ReleaseNext
<1> QED BY <1>1, <1>2, PTL DEF Spec

\* An item that names its execution keeps no symbol out of the queue, on every route and
\* with every fault, while one container processes the queue: whoever re-claims an item
\* under _ENTRY_LOCK has just seen that its payload names none (coordinator.py 93-130),
\* and every write of an execution id closes the item.  Two containers break it.
THEOREM DoneItemReleases == OneContainer => (Spec => []DoneItemReleasesSymbol)
<1> SUFFICES ASSUME OneContainer PROVE Spec => []DoneItemReleasesSymbol
  OBVIOUS
<1>1. Spec => [](Inv /\ ReleaseInv)
  BY ReleaseInvariance
<1>2. Inv /\ ReleaseInv => DoneItemReleasesSymbol
  BY DEF ReleaseInv
<1> QED BY <1>1, <1>2, PTL

-----------------------------------------------------------------------------
(* An executed item's order *)

\* Every order goes to Alpaca from the queue: no simulated fill, no direct execution.
NoOtherRoute == Route = "alpaca" /\ ~Fallback /\ "execute" \notin Requests

TraderPcs == {"trade", "refuse", "validated", "buy", "update"}
NotNamed == {"adopt", "mirror", "finish", "dupcheck", "record"}

\* A thread that will name execution e for item q, at step s with k and then to follow,
\* names one whose order the broker accepted.
BackedAt(s, k, then, q, e) ==
    /\ s \notin TraderPcs /\ k \notin TraderPcs \cup NotNamed
    /\ then \in {"idle", "mirror", "finish"}
    /\ s \in {"dupcheck", "record"} => q \in orders
    /\ s \in {"adopt", "mark", "mirror", "finish"} \/ (s \in {"get", "expire"} /\ k = "mark")
          => exec[e].ord \in orders

Backed(l) == BackedAt(l.pc, l.k, l.then, l.q, l.ex)

\* An execution that did not fail has its order.
SuccessHasOrder ==
    \A e \in ExecIds : exec[e].st \notin DeadStatus \cup {None} => exec[e].ord \in orders

OrderInv == SuccessHasOrder /\ ExecutedItemHasOrder /\ \A t \in Threads : Backed(loc[t])

\* Orders stay and stored executions are not rewritten; a new one that did not fail has
\* its order.
Stays ==
    /\ orders \subseteq orders'
    /\ \A e \in ExecIds : /\ exec[e].st # None => exec'[e] = exec[e]
                          /\ exec'[e] = exec[e] \/ exec'[e].st \in DeadStatus
                                \/ exec'[e].ord \in orders'

LEMMA IdleBacked == Backed(Idle)
BY IdleFields DEF Backed, BackedAt, TraderPcs, NotNamed

\* What another thread names stays accepted.
LEMMA BackedKept ==
    ASSUME Inv, Stays, NEW u \in Threads, Backed(loc[u]), loc'[u] = loc[u]
    PROVE  Backed(loc[u])'
<1>1. CASE loc[u].pc = "idle"
  BY <1>1 DEF Backed, BackedAt, Stays, TraderPcs, NotNamed
<1>2. CASE loc[u].pc # "idle"
  <2>1. loc[u].ex # None => loc[u].ex \in ExecIds /\ exec[loc[u].ex].st # None
    BY <1>2, ThreadFacts
  <2>2. loc[u].pc \in ExecutionSteps \/ loc[u].k \in ExecutionSteps => loc[u].ex # None
    BY <1>2, ThreadFacts
  <2>3. loc[u].pc \in {"adopt", "mark", "mirror", "finish"} \/ loc[u].k = "mark"
           => exec'[loc[u].ex] = exec[loc[u].ex]
    BY <2>1, <2>2 DEF ExecutionSteps, Stays
  <2> QED BY <2>3 DEF Backed, BackedAt, Stays
<1> QED BY <1>1, <1>2

LEMMA BackedTo ==
    ASSUME Inv, OrderInv, Stays, NEW t \in Threads,
           NEW s, NEW k, NEW e, NEW then, NEW row, NEW try, To(t, s, k, e, then, row, try),
           \/ s = "return"
           \/ /\ s \notin TraderPcs /\ k \notin TraderPcs \cup NotNamed
              /\ then \in {"idle", "mirror", "finish"}
              /\ s \in {"dupcheck", "record"} => loc[t].q \in orders'
              /\ s \in {"adopt", "mark", "mirror", "finish"} \/ (s \in {"get", "expire"} /\ k = "mark")
                    => exec'[e].ord \in orders'
    PROVE  \A u \in Threads : Backed(loc[u])'
<1> SUFFICES ASSUME NEW u \in Threads PROVE Backed(loc[u])'
  OBVIOUS
<1>1. CASE u # t
  BY <1>1, BackedKept DEF To, OrderInv
<1>2. CASE u = t /\ s = "return"
  <2>1. loc'[u] = Idle
    BY <1>2 DEF To
  <2> QED BY <2>1, IdleFields DEF Backed, BackedAt, TraderPcs, NotNamed
<1>3. CASE u = t /\ s # "return"
  <2>1. /\ loc'[t].pc = s /\ loc'[t].k = k /\ loc'[t].ex = e /\ loc'[t].then = then
        /\ loc'[t].q = loc[t].q
    BY <1>3 DEF To
  <2> QED BY <1>3, <2>1 DEF Backed, BackedAt
<1> QED BY <1>1, <1>2, <1>3

\* The tables' part: each item keeps its row, or is not executed, or names such an order.
LEMMA OrdersKept ==
    ASSUME Inv, OrderInv, Stays,
           \A q \in QueueIds : \/ queue'[q] = queue[q]
                               \/ queue'[q].st # "executed"
                               \/ exec'[queue'[q].ex].ord \in orders'
    PROVE  SuccessHasOrder' /\ ExecutedItemHasOrder'
<1>1. SuccessHasOrder'
  BY DEF OrderInv, SuccessHasOrder, Stays, DeadStatus
<1>2. ASSUME NEW q \in QueueIds, queue'[q].st = "executed" PROVE exec'[queue'[q].ex].ord \in orders'
  <2>1. CASE queue'[q] = queue[q]
    <3>1. exec[queue[q].ex].ord \in orders
      BY <1>2, <2>1 DEF OrderInv, ExecutedItemHasOrder
    <3>2. queue[q].ex \in ExecIds /\ exec[queue[q].ex].st # None
      BY <1>2, <2>1 DEF Inv, Good, ExecutedHasOwnExecution, RowsOK, Names, TablesOK, QueueRow
    <3> QED BY <2>1, <3>1, <3>2 DEF Stays
  <2> QED BY <1>2, <2>1
<1> QED BY <1>1, <1>2 DEF ExecutedItemHasOrder

\* A step that writes no item.
LEMMA OrderQuiet ==
    ASSUME Inv, OrderInv, Stays, queue' = queue, \A u \in Threads : Backed(loc[u])'
    PROVE  OrderInv'
BY OrdersKept DEF OrderInv

LEMMA SavedStays == UNCHANGED saved => Stays /\ queue' = queue
BY DEF saved, Stays

LEMMA CreatesStays ==
    ASSUME Inv, NEW t \in Threads, NEW e \in ExecIds, NEW s, NEW o, Creates(t, e, s, o),
           s \in DeadStatus \/ o \in orders
    PROVE  Stays /\ queue' = queue /\ exec'[e].ord = o
<1>1. exec \in [ExecIds -> ExecutionRow]
  BY DEF Inv, Good, TablesOK
<1>2. exec'[e].st = s /\ exec'[e].ord = o /\ \A f \in ExecIds \ {e} : exec'[f] = exec[f]
  BY <1>1 DEF Creates
<1> QED BY <1>2 DEF Creates, Stays

LEMMA OrderStep ==
    ASSUME Inv, NoOtherRoute, OrderInv, NEW t \in Threads, Step(t) \/ RaiseError(t)
    PROVE  OrderInv'
<1>b. /\ loc[t].pc \notin TraderPcs /\ loc[t].k \notin TraderPcs \cup NotNamed
      /\ loc[t].then \in {"idle", "mirror", "finish"}
      /\ loc[t].pc \in {"dupcheck", "record"} => loc[t].q \in orders
      /\ loc[t].pc \in {"adopt", "mark", "mirror", "finish"}
            \/ (loc[t].pc \in {"get", "expire"} /\ loc[t].k = "mark") => exec[loc[t].ex].ord \in orders
  BY DEF OrderInv, Backed, BackedAt
<1>t. "idle" \notin TraderPcs \cup NotNamed
  BY DEF TraderPcs, NotNamed
\* A jump to a step that names no order; the exception; a step along the same handler.
<1>j. ASSUME NEW s, Jumps(t, s), Stays, queue' = queue,
             s \notin TraderPcs \cup {"dupcheck", "record", "adopt", "mark", "mirror", "finish"}
      PROVE  OrderInv'
  BY <1>b, <1>j, <1>t, BackedTo, OrderQuiet DEF Jumps
<1>r. ASSUME Raises(t), Stays, queue' = queue
      PROVE  OrderInv'
  <2>1. (IF loc[t].try THEN "fail" ELSE "return")
           \notin TraderPcs \cup {"dupcheck", "record", "adopt", "mark", "mirror", "finish", "get", "expire"}
    BY DEF TraderPcs
  <2> QED BY <1>r, <1>t, <2>1, BackedTo, OrderQuiet DEF Raises
<1>g. ASSUME NEW s, Goes(t, s), Stays, queue' = queue,
             s \notin TraderPcs \cup {"dupcheck", "record", "adopt", "mirror", "finish"},
             s \in {"mark", "get", "expire"} /\ loc[t].k = "mark" => exec'[loc[t].ex].ord \in orders',
             s = "mark" => loc[t].k = "mark"
      PROVE  OrderInv'
  BY <1>b, <1>g, BackedTo, OrderQuiet DEF Goes
<1>w. ASSUME NEW st, NEW id, Writes(t, st, id), st = "executed" => exec[id].ord \in orders,
             loc[t].q \in QueueIds, NEW s, Jumps(t, s), s \in {"return", "reload"}
      PROVE  OrderInv'
  <2>1. Stays /\ exec' = exec /\ orders' = orders
    BY <1>w DEF Writes, Stays
  <2>2. queue \in [QueueIds -> QueueRow]
    BY DEF Inv, Good, TablesOK
  <2>3. \A q \in QueueIds : q # loc[t].q => queue'[q] = queue[q]
    BY <1>w, <2>2 DEF Writes
  <2>4. queue'[loc[t].q].st = st /\ queue'[loc[t].q].ex = id
    BY <1>w, <2>2 DEF Writes, QueueRow
  <2>5. SuccessHasOrder' /\ ExecutedItemHasOrder'
    BY <1>w, <2>1, <2>3, <2>4, OrdersKept
  <2>6. \A u \in Threads : Backed(loc[u])'
    BY <1>b, <1>t, <1>w, <2>1, BackedTo DEF Jumps, TraderPcs
  <2> QED BY <2>5, <2>6 DEF OrderInv
<1>m. ASSUME NEW e, NEW s, Marks(t, e, s), s \in {"mirror", "finish"}, Stays, queue' = queue,
             exec'[e].ord \in orders'
      PROVE  OrderInv'
  BY <1>m, BackedTo, OrderQuiet DEF Marks, TraderPcs, NotNamed
<1>1. CASE GetProposal(t)
  <2>1. Stays /\ queue' = queue /\ loc[t].pc = "get" /\ exec' = exec /\ orders' = orders
    BY <1>1, ProposalMoves, SavedStays DEF saved
  <2>2. Goes(t, "expire") \/ Goes(t, loc[t].k)
    BY <1>1, ProposalMoves
  <2> QED BY <1>b, <1>g, <2>1, <2>2 DEF TraderPcs, NotNamed
<1>2. CASE ExpireIfNeeded(t)
  <2>1. /\ Stays /\ queue' = queue /\ loc[t].pc = "expire" /\ exec' = exec /\ orders' = orders
        /\ Goes(t, loc[t].k)
    BY <1>2, ProposalMoves, SavedStays DEF saved
  <2> QED BY <1>b, <1>g, <2>1 DEF TraderPcs, NotNamed
<1>3. CASE Approve(t) \/ Reject(t)
  BY <1>3, <1>j, ProposalMoves, SavedStays DEF TraderPcs
<1>4. CASE MarkExecuted(t)
  <2>1. Stays /\ queue' = queue /\ loc[t].pc = "mark" /\ exec' = exec /\ orders' = orders
    BY <1>4, ProposalMoves, SavedStays DEF saved
  <2>2. Jumps(t, loc[t].then)
    BY <1>4, ProposalMoves
  <2>3. \A u \in Threads : Backed(loc[u])'
    BY <1>b, <1>t, <2>1, <2>2, BackedTo DEF Jumps, TraderPcs
  <2> QED BY <2>1, <2>3, OrderQuiet
<1>5. CASE CheckOpen(t)
  BY <1>5, <1>j, ProposalMoves, SavedStays DEF TraderPcs
<1>6. CASE Insert(t)
  <2>1. /\ UNCHANGED <<exec, latest, orders>> /\ Jumps(t, "return")
    BY <1>6, ProposalMoves
  <2>2. Stays
    BY <2>1 DEF Stays
  <2>3. PICK q \in QueueIds : queue' \in {queue, [queue EXCEPT ![q] =
                                  [st |-> "queued", p |-> loc[t].p, ex |-> None]]}
    BY <1>6, ProposalMoves
  <2>4. queue \in [QueueIds -> QueueRow]
    BY DEF Inv, Good, TablesOK
  <2>5. \A o \in QueueIds : queue'[o] = queue[o] \/ queue'[o].st # "executed"
    BY <2>3, <2>4
  <2>6. SuccessHasOrder' /\ ExecutedItemHasOrder'
    BY <2>2, <2>5, OrdersKept
  <2>7. \A u \in Threads : Backed(loc[u])'
    BY <2>1, <2>2, BackedTo DEF Jumps
  <2> QED BY <2>6, <2>7 DEF OrderInv
<1>7. CASE ReadItem(t)
  BY <1>7, <1>g, ItemMoves, SavedStays DEF TraderPcs
<1>8. CASE ReadLatest(t)
  <2>1. Stays /\ queue' = queue /\ loc[t].pc = "latest" /\ exec' = exec /\ orders' = orders
    BY <1>8, ItemMoves, SavedStays DEF saved
  <2>2. CASE Goes(t, "claim") \/ Goes(t, "return")
    BY <1>g, <2>1, <2>2 DEF TraderPcs
  <2>3. ASSUME NEW e \in ExecIds, e = latest[loc[t].p], exec[e].st \notin DeadStatus,
               To(t, "adopt", loc[t].k, e, loc[t].then, loc[t].row, loc[t].try)
        PROVE  OrderInv'
    <3>1. loc[t].p \in Proposals /\ e # None
      BY <2>1, ThreadFacts, PipelineConstants
    <3>2. exec[e].st # None
      BY <2>3, <3>1 DEF Inv, Good, RowsOK, Names
    <3>3. exec'[e].ord \in orders'
      BY <2>1, <2>3, <3>2 DEF OrderInv, SuccessHasOrder
    <3>4. \A u \in Threads : Backed(loc[u])'
      BY <1>b, <2>1, <2>3, <3>3, BackedTo DEF TraderPcs
    <3> QED BY <2>1, <3>4, OrderQuiet
  <2> QED BY <1>8, <2>2, <2>3, ItemMoves
<1>9. CASE AdoptExecution(t)
  <2>1. loc[t].pc = "adopt" /\ loc[t].q \in QueueIds
    BY <1>9, ItemMoves, ThreadFacts DEF ItemSteps
  <2> QED BY <1>9, <1>b, <1>w, <2>1, ItemMoves
<1>10. CASE ClaimForProcessing(t)
  <2>1. loc[t].pc = "claim" /\ loc[t].q \in QueueIds
    BY <1>10, ItemMoves, ThreadFacts DEF ItemSteps
  <2>2. CASE Writes(t, "processing", queue[loc[t].q].ex) /\ Jumps(t, "reload")
    BY <1>w, <2>1, <2>2
  <2>3. CASE UNCHANGED saved /\ Jumps(t, "return")
    BY <1>j, <2>3, SavedStays DEF TraderPcs
  <2> QED BY <1>10, <2>2, <2>3, ItemMoves
<1>11. CASE ReloadItem(t)
  <2>1. /\ Stays /\ queue' = queue
        /\ To(t, "get", "checked", loc[t].ex, loc[t].then, queue[loc[t].q].ex, loc[t].try)
    BY <1>11, ItemMoves, SavedStays
  <2>2. \A u \in Threads : Backed(loc[u])'
    BY <1>b, <2>1, BackedTo DEF TraderPcs, NotNamed
  <2> QED BY <2>1, <2>2, OrderQuiet
<1>12. CASE CheckApproved(t)
  BY <1>12, <1>j, ItemMoves, SavedStays DEF TraderPcs
<1>13. CASE PassGates(t)
  <2>1. /\ Stays /\ queue' = queue
        /\ \/ Jumps(t, "return") \/ Jumps(t, "block")
           \/ To(t, "submit", loc[t].k, loc[t].ex, loc[t].then, loc[t].row, TRUE)
    BY <1>13, ItemMoves, SavedStays DEF NoOtherRoute
  <2>2. CASE Jumps(t, "return") \/ Jumps(t, "block")
    BY <1>j, <2>1, <2>2 DEF TraderPcs
  <2>3. CASE To(t, "submit", loc[t].k, loc[t].ex, loc[t].then, loc[t].row, TRUE)
    <3>1. \A u \in Threads : Backed(loc[u])'
      BY <1>b, <2>1, <2>3, BackedTo DEF TraderPcs
    <3> QED BY <2>1, <3>1, OrderQuiet
  <2> QED BY <2>1, <2>2, <2>3
<1>14. CASE BlockItem(t)
  <2>1. loc[t].pc = "block" /\ loc[t].q \in QueueIds
    BY <1>14, ItemMoves, ThreadFacts DEF ItemSteps
  <2> QED BY <1>14, <1>w, <2>1, ItemMoves
<1>15. CASE SubmitOrder(t)
  <2>1. \/ Orders(loc[t].q) /\ Jumps(t, "dupcheck")
        \/ UNCHANGED saved /\ Raises(t)
        \/ Orders(loc[t].q) /\ Raises(t)
    BY <1>15, BrokerMoves
  <2>2. Orders(loc[t].q) => Stays /\ queue' = queue /\ loc[t].q \in orders'
    BY DEF Orders, Stays
  <2>3. CASE Orders(loc[t].q) /\ Jumps(t, "dupcheck")
    <3>1. \A u \in Threads : Backed(loc[u])'
      BY <1>b, <1>t, <2>2, <2>3, BackedTo DEF Jumps, TraderPcs
    <3> QED BY <2>2, <2>3, <3>1, OrderQuiet
  <2>4. CASE UNCHANGED saved /\ Raises(t)
    BY <1>r, <2>4, SavedStays
  <2>5. CASE Orders(loc[t].q) /\ Raises(t)
    BY <1>r, <2>2, <2>5
  <2> QED BY <2>1, <2>3, <2>4, <2>5
<1>16. CASE CheckDuplicate(t)
  <2>1. Stays /\ queue' = queue /\ loc[t].pc = "dupcheck" /\ exec' = exec /\ orders' = orders
    BY <1>16, BrokerMoves, SavedStays DEF saved
  <2>2. CASE Jumps(t, "record")
    <3>1. \A u \in Threads : Backed(loc[u])'
      BY <1>b, <1>t, <2>1, <2>2, BackedTo DEF Jumps, TraderPcs
    <3> QED BY <2>1, <3>1, OrderQuiet
  <2>3. ASSUME NEW e \in RecordedAs(loc[t].q), Marks(t, e, "finish") PROVE OrderInv'
    <3>1. exec'[e].ord \in orders'
      BY <1>b, <2>1 DEF RecordedAs
    <3> QED BY <1>m, <2>1, <2>3, <3>1
  <2> QED BY <1>16, <2>2, <2>3, BrokerMoves
<1>17. CASE RecordExecution(t)
  <2>1. CASE UNCHANGED saved /\ Raises(t)
    BY <1>r, <2>1, SavedStays
  <2>2. ASSUME NEW e \in ExecIds, NEW s \in BrokerStatus,
               Creates(t, e, s, loc[t].q), Marks(t, e, "mirror")
        PROVE  OrderInv'
    <3>1. loc[t].q \in orders
      BY <1>17, <1>b, BrokerMoves
    <3>2. Stays /\ queue' = queue /\ exec'[e].ord = loc[t].q
      BY <2>2, <3>1, CreatesStays
    <3>3. exec'[e].ord \in orders'
      BY <3>1, <3>2 DEF Stays
    <3> QED BY <1>m, <2>2, <3>2, <3>3
  <2> QED BY <1>17, <2>1, <2>2, BrokerMoves DEF NoOtherRoute
<1>18. CASE MirrorParallel(t)
  <2>1. Stays /\ queue' = queue /\ loc[t].pc = "mirror" /\ exec' = exec /\ orders' = orders
    BY <1>18, BrokerMoves, SavedStays DEF saved
  <2>2. CASE Jumps(t, "finish")
    <3>1. \A u \in Threads : Backed(loc[u])'
      BY <1>b, <1>t, <2>1, <2>2, BackedTo DEF Jumps, TraderPcs
    <3> QED BY <2>1, <3>1, OrderQuiet
  <2>3. CASE Raises(t)
    BY <1>r, <2>1, <2>3
  <2> QED BY <1>18, <2>2, <2>3, BrokerMoves
<1>19. CASE FinishItem(t)
  <2>1. loc[t].pc = "finish" /\ loc[t].q \in QueueIds
    BY <1>19, BrokerMoves, ThreadFacts DEF ItemSteps
  <2> QED BY <1>19, <1>b, <1>w, <2>1, BrokerMoves
<1>20. CASE BrokerFailed(t)
  <2>1. PICK e \in ExecIds :
           /\ Creates(t, e, "failed", None)
           /\ To(t, "failitem", loc[t].k, e, loc[t].then, loc[t].row, loc[t].try)
    BY <1>20, BrokerMoves DEF NoOtherRoute
  <2>2. Stays /\ queue' = queue
    BY <2>1, CreatesStays DEF DeadStatus
  <2>3. \A u \in Threads : Backed(loc[u])'
    BY <1>b, <2>1, <2>2, BackedTo DEF TraderPcs
  <2> QED BY <2>2, <2>3, OrderQuiet
<1>21. CASE BlockFailedItem(t)
  <2>1. loc[t].pc = "failitem" /\ loc[t].q \in QueueIds
    BY <1>21, BrokerMoves, ThreadFacts DEF ItemSteps
  <2> QED BY <1>21, <1>w, <2>1, BrokerMoves
<1>22. CASE Trade(t) \/ RefuseTrade(t) \/ CreateValidated(t) \/ OpenMarketOrder(t) \/ UpdateExecution(t)
  <2>1. loc[t].pc \in TraderPcs
    BY <1>22, TraderMoves DEF TraderPcs
  <2> QED BY <1>b, <2>1
<1>23. CASE RaiseError(t)
  BY <1>23, <1>r, BrokerMoves, SavedStays
<1> QED BY <1>1, <1>2, <1>3, <1>4, <1>5, <1>6, <1>7, <1>8, <1>9, <1>10, <1>11, <1>12, <1>13, <1>14,
   <1>15, <1>16, <1>17, <1>18, <1>19, <1>20, <1>21, <1>22, <1>23 DEF Step

LEMMA OrderArrive ==
    ASSUME Inv, NoOtherRoute, OrderInv, NEW t \in Threads, Arrive(t)
    PROVE  OrderInv'
<1>1. Stays /\ queue' = queue
  BY ArriveMoves, SavedStays
<1>2. ASSUME NEW u \in Threads PROVE Backed(loc[u])'
  <2>1. CASE u # t
    BY <1>1, <2>1, ArriveMoves, BackedKept DEF OrderInv
  <2>2. CASE u = t
    <3>1. /\ loc'[t].then = "idle" /\ loc'[t].pc \in {"get", "item"}
          /\ loc'[t].k \in {"idle", "return", "approve", "reject", "check_open"}
      BY ArriveMoves DEF NoOtherRoute
    <3> QED BY <2>2, <3>1 DEF Backed, BackedAt, TraderPcs, NotNamed
  <2> QED BY <2>1, <2>2
<1> QED BY <1>1, <1>2, OrderQuiet

LEMMA OrderEnvironment ==
    ASSUME Inv, OrderInv, Environment
    PROVE  OrderInv'
<1>1. Stays /\ queue' = queue
  BY EnvironmentMoves, SavedStays
<1>2. ASSUME NEW u \in Threads PROVE Backed(loc[u])'
  <2>1. CASE loc'[u] = loc[u]
    BY <1>1, <2>1, BackedKept DEF OrderInv
  <2>2. CASE loc'[u] = Idle
    BY <2>2, IdleFields DEF Backed, BackedAt, TraderPcs, NotNamed
  <2> QED BY <2>1, <2>2, EnvironmentMoves
<1> QED BY <1>1, <1>2, OrderQuiet

\* An item is executed only with an order the broker accepted, whatever raises, is lost or
\* crashes in between, and however many containers process the queue: the finish, the
\* adoption of the newest execution and the reuse of a recorded order all name an execution
\* written after the broker's answer (coordinator.py 107-117, 349-353, 541-561), on the Alpaca route
\* without the simulated fallback.
THEOREM ExecutedHasOrder == NoOtherRoute => (Spec => []ExecutedItemHasOrder)
<1> SUFFICES ASSUME NoOtherRoute PROVE Spec => []ExecutedItemHasOrder
  OBVIOUS
<1>1. Init => Inv /\ OrderInv
  <2> SUFFICES ASSUME Init PROVE OrderInv
    BY InitInv
  <2>1. \A t \in Threads : loc[t] = Idle
    BY DEF Init
  <2>2. SuccessHasOrder /\ ExecutedItemHasOrder
    BY DEF Init, SuccessHasOrder, ExecutedItemHasOrder, None
  <2> QED BY <2>1, <2>2, IdleBacked DEF OrderInv
<1>2. Inv /\ OrderInv /\ [Next]_vars => (Inv /\ OrderInv)'
  <2> SUFFICES ASSUME Inv, OrderInv, [Next]_vars PROVE OrderInv'
    BY NextInv
  <2>1. CASE UNCHANGED vars
    <3>1. Stays /\ queue' = queue /\ loc' = loc
      BY <2>1, SavedStays DEF vars, saved
    <3>2. \A u \in Threads : Backed(loc[u])'
      BY <3>1, BackedKept DEF OrderInv
    <3> QED BY <3>1, <3>2, OrderQuiet
  <2> QED BY <2>1, OrderStep, OrderArrive, OrderEnvironment DEF Next
<1>3. Inv /\ OrderInv => ExecutedItemHasOrder
  BY DEF OrderInv
<1> QED BY <1>1, <1>2, <1>3, PTL DEF Spec

-----------------------------------------------------------------------------
(* One live order per proposal *)

\* Every order comes from the queue, the broker's answers reach their caller, and on the
\* Alpaca route no process dies between an order and its record (README, section 5).
QueueOnly ==
    /\ "execute" \notin Requests /\ "lost" \notin Events /\ "error" \notin Events
    /\ Route = "alpaca" => "crash" \notin Events

\* The steps of a worker that has sent no order: none of its proposal's orders is live.
BeforeOrder == {"claim", "reload", "checked", "gates", "submit", "trade", "refuse", "validated",
                "buy", "fail"}

\* What the worker of item q of proposal p knows at step s, with k to follow and execution e.
StageAt(s, k, e, p, q) ==
    /\ s \in BeforeOrder \/ (s \in {"get", "expire"} /\ k \in {"checked", "trade"})
          => LiveOrders(p) = {}
    /\ s = "submit" => Route = "alpaca"
    /\ s \in {"dupcheck", "record"} => /\ LiveOrders(p) \subseteq {q}
                                       /\ Route # "alpaca" => LiveOrders(p) = {}
                                       /\ Route = "alpaca" => q \in orders
    /\ s = "dupcheck" => Route = "alpaca" /\ \A f \in RecordedAs(q) : exec[f].st \in DeadStatus
    /\ s = "record" /\ Route = "alpaca" => RecordedAs(q) = {}
    /\ s \in {"buy", "update"} => /\ latest[p] = e /\ exec[e].st = "validated"
                                  /\ exec[e].ord = None /\ LiveOrders(p) \subseteq {e}
    /\ s = "update" => e \in orders

Stage(l) == StageAt(l.pc, l.k, l.ex, l.p, l.q)

\* The steps get_proposal and mark_executed return to, and who is in TraderService.
CourseAt(s, k, then, q) ==
    /\ k \in {"idle", "return", "approve", "reject", "check_open", "trade", "checked", "mark"}
    /\ then \in {"idle", "mirror", "finish"}
    /\ s \in TraderPcs \/ k \in TraderPcs => q # None

Course(l) == CourseAt(l.pc, l.k, l.then, l.q)

Stored(o) == (o \in QueueIds => queue[o].st # None) /\ (o \in ExecIds => exec[o].st # None)

\* The proposal's newest execution did not fail: a worker that looks will adopt it.
Alive(p) == latest[p] # None /\ exec[latest[p]].st \notin DeadStatus

\* A worker has sent the order and not recorded it yet.
Recording(p) ==
    \E t \in Threads : loc[t].q # None /\ loc[t].p = p /\ loc[t].pc \in {"dupcheck", "record"}

OrdersOK ==
    /\ \A o \in orders : Stored(o)
    /\ \A e \in ExecIds : exec[e].ord # None => exec[e].ord \in orders

LiveInv ==
    /\ OrdersOK
    /\ \A p \in Proposals : \A o1, o2 \in LiveOrders(p) : o1 = o2
    /\ \A p \in Proposals : LiveOrders(p) # {} => Alive(p) \/ Recording(p)
    /\ \A t \in Threads : Course(loc[t]) /\ Stage(loc[t])

\* A thread without an item is at none of the worker's steps.
LEMMA NoStage ==
    ASSUME NEW l, NEW rows, NEW items, LocalOK(l, rows, items), l.q = None,
           l.pc \in TraderPcs \/ l.k \in TraderPcs => l.q # None
    PROVE  /\ l.pc \notin BeforeOrder \cup {"dupcheck", "record", "buy", "update"}
           /\ l.k \notin {"checked", "trade"}
BY DEF LocalOK, BeforeOrder, ItemSteps, TraderPcs

\* A step that writes at most executions and orders of proposal p.
Touches(p) ==
    /\ orders \subseteq orders'
    /\ \A o \in orders' \ orders : ProposalOfOrder(o) = p /\ Stored(o)
    /\ \A r \in Proposals \ {p} : latest'[r] = latest[r]
    /\ \A f \in ExecIds :
          \/ exec'[f] = exec[f]
          \/ /\ exec[f].st = None \/ exec[f].p = p
             /\ exec[f].ord = None
             /\ \/ exec'[f].ord = None
                \/ exec'[f].ord \in orders' /\ ProposalOfOrder(exec'[f].ord) = p

\* The proposal of a stored order does not change.
LEMMA OwnerKept ==
    ASSUME Inv, Keeps, NEW o \in QueueIds \cup ExecIds, Stored(o)
    PROVE  ProposalOfOrder(o)' = ProposalOfOrder(o) /\ Stored(o)'
BY DEF ProposalOfOrder, Stored, Keeps

\* Such a step changes the live orders of p only, and adds at most the new order.
LEMMA LiveFrame ==
    ASSUME Inv, Inv', Keeps, OrdersOK, NEW p \in Proposals, Touches(p)
    PROVE  /\ OrdersOK'
           /\ \A r \in Proposals \ {p} : LiveOrders(r)' = LiveOrders(r)
           /\ LiveOrders(p)' \subseteq LiveOrders(p) \cup (orders' \ orders)
<1>0. orders \subseteq QueueIds \cup ExecIds /\ None \notin orders
  BY PipelineConstants DEF Inv, Good, TablesOK
<1>1. \A o \in orders : ProposalOfOrder(o)' = ProposalOfOrder(o) /\ Stored(o)'
  BY <1>0, OwnerKept DEF OrdersOK
<1>2. OrdersOK'
  <2>1. ASSUME NEW o \in orders' PROVE Stored(o)'
    <3>1. CASE o \in orders
      BY <1>1, <3>1
    <3>2. CASE o \notin orders
      BY <3>2 DEF Touches, Stored, Keeps
    <3> QED BY <3>1, <3>2
  <2>2. ASSUME NEW f \in ExecIds, exec'[f].ord # None PROVE exec'[f].ord \in orders'
    BY <2>2 DEF Touches, OrdersOK
  <2> QED BY <2>1, <2>2 DEF OrdersOK
<1>3. \A o \in orders : \A f \in RecordedAs(o) : exec'[f] = exec[f]
  BY <1>0 DEF Touches, RecordedAs
<1>4. \A o \in orders : RecordedAs(o) \subseteq RecordedAs(o)'
  BY <1>3 DEF RecordedAs
<1>5. \A o \in orders : ProposalOfOrder(o) # p => RecordedAs(o)' = RecordedAs(o)
  <2> SUFFICES ASSUME NEW o \in orders, ProposalOfOrder(o) # p, NEW f \in ExecIds, exec'[f].ord = o
               PROVE  exec[f].ord = o
    BY <1>4 DEF RecordedAs
  <2> QED BY <1>0 DEF Touches
<1>6. ASSUME NEW r \in Proposals \ {p} PROVE LiveOrders(r)' = LiveOrders(r)
  <2>1. ASSUME NEW o \in LiveOrders(r) PROVE o \in LiveOrders(r)'
    <3>1. o \in orders /\ ProposalOfOrder(o) = r /\ \A e \in RecordedAs(o) : exec[e].st \notin DeadStatus
      BY DEF LiveOrders
    <3>2. o \in orders' /\ ProposalOfOrder(o)' = r /\ RecordedAs(o)' = RecordedAs(o)
      BY <1>1, <1>5, <3>1 DEF Touches
    <3> QED BY <1>3, <3>1, <3>2 DEF LiveOrders
  <2>2. ASSUME NEW o \in LiveOrders(r)' PROVE o \in LiveOrders(r)
    <3>1. o \in orders' /\ ProposalOfOrder(o)' = r /\ \A e \in RecordedAs(o)' : exec'[e].st \notin DeadStatus
      BY DEF LiveOrders
    <3>2. o \in orders
      <4> SUFFICES ASSUME o \notin orders PROVE FALSE
        OBVIOUS
      <4>1. ProposalOfOrder(o) = p /\ Stored(o)
        BY <3>1 DEF Touches
      <4>2. o \in QueueIds \cup ExecIds
        BY <3>1 DEF Inv, Good, TablesOK
      <4> QED BY <3>1, <4>1, <4>2, OwnerKept
    <3>3. ProposalOfOrder(o) = r /\ RecordedAs(o)' = RecordedAs(o)
      BY <1>1, <1>5, <3>1, <3>2
    <3> QED BY <1>3, <3>1, <3>2, <3>3 DEF LiveOrders
  <2> QED BY <2>1, <2>2
<1>7. ASSUME NEW o \in LiveOrders(p)', o \notin orders' \ orders PROVE o \in LiveOrders(p)
  <2>1. o \in orders /\ ProposalOfOrder(o)' = p /\ \A e \in RecordedAs(o)' : exec'[e].st \notin DeadStatus
    BY <1>7 DEF LiveOrders
  <2>2. \A e \in RecordedAs(o) : exec[e].st \notin DeadStatus
    BY <1>3, <1>4, <2>1
  <2> QED BY <1>1, <2>1, <2>2 DEF LiveOrders
<1> QED BY <1>2, <1>6, <1>7

\* A step that writes no execution and no order.
LEMMA LiveSame ==
    ASSUME Inv, Inv', Keeps, OrdersOK, UNCHANGED <<exec, latest, orders>>
    PROVE  /\ OrdersOK'
           /\ \A p \in Proposals : LiveOrders(p)' = LiveOrders(p) /\ (Alive(p)' <=> Alive(p))
           /\ \A o \in QueueIds : RecordedAs(o)' = RecordedAs(o)
<1>1. \A p \in Proposals : Touches(p)
  BY DEF Touches
<1>2. \A p \in Proposals : LiveOrders(p)' \subseteq LiveOrders(p)
  BY <1>1, LiveFrame
<1>3. \A p \in Proposals : LiveOrders(p) \subseteq LiveOrders(p)'
  <2> SUFFICES ASSUME NEW p \in Proposals, NEW o \in LiveOrders(p) PROVE o \in LiveOrders(p)'
    OBVIOUS
  <2>1. o \in orders /\ ProposalOfOrder(o) = p /\ \A e \in RecordedAs(o) : exec[e].st \notin DeadStatus
    BY DEF LiveOrders
  <2>2. ProposalOfOrder(o)' = p
    <3>1. o \in QueueIds \cup ExecIds /\ Stored(o)
      BY <2>1 DEF OrdersOK, Inv, Good, TablesOK
    <3> QED BY <2>1, <3>1, OwnerKept
  <2> QED BY <2>1, <2>2 DEF LiveOrders, RecordedAs
<1>4. OrdersOK'
  <2>1. \A o \in orders : Stored(o)'
    <3>1. \A o \in orders : o \in QueueIds \cup ExecIds /\ Stored(o)
      BY DEF OrdersOK, Inv, Good, TablesOK
    <3> QED BY <3>1, OwnerKept
  <2> QED BY <2>1 DEF OrdersOK
<1> QED BY <1>2, <1>3, <1>4 DEF Alive, RecordedAs

\* What a thread knows survives a step of another that writes no execution and no order.
LEMMA StageKept ==
    ASSUME Inv, Inv', Keeps, OrdersOK, UNCHANGED <<exec, latest, orders>>,
           NEW u \in Threads, Stage(loc[u]), Course(loc[u]), loc'[u] = loc[u]
    PROVE  Stage(loc[u])' /\ Course(loc[u])'
<1>1. Course(loc[u])'
  BY DEF Course, CourseAt
<1>2. CASE loc[u].pc = "idle"
  BY <1>2 DEF Stage, StageAt, BeforeOrder
<1>3. CASE loc[u].pc # "idle"
  <2>1. loc[u].p \in Proposals
    BY <1>3, ThreadFacts
  <2>2. LiveOrders(loc[u].p)' = LiveOrders(loc[u].p)
    <3>1. PICK p \in Proposals : p = loc[u].p
      BY <2>1
    <3>2. LiveOrders(p)' = LiveOrders(p)
      BY LiveSame
    <3> QED BY <3>1, <3>2 DEF LiveOrders
  <2>3. RecordedAs(loc[u].q)' = RecordedAs(loc[u].q)
    BY DEF RecordedAs
  <2> QED BY <2>2, <2>3 DEF Stage, StageAt
<1> QED BY <1>1, <1>2, <1>3

\* What t continues with, from the predicates at its next step.
LEMMA MovedTo ==
    ASSUME NEW t \in Threads,
           NEW s, NEW k, NEW e, NEW then, NEW row, NEW try, To(t, s, k, e, then, row, try),
           NEW p, p = loc[t].p, NEW q, q = loc[t].q,
           s # "return" => CourseAt(s, k, then, q) /\ StageAt(s, k, e, p, q)'
    PROVE  Course(loc[t])' /\ Stage(loc[t])'
<1>1. CASE s = "return"
  <2>1. loc'[t] = Idle
    BY <1>1 DEF To
  <2> QED BY <2>1, IdleFields DEF Course, CourseAt, Stage, StageAt, BeforeOrder, TraderPcs
<1>2. CASE s # "return"
  <2>1. /\ loc'[t].pc = s /\ loc'[t].k = k /\ loc'[t].ex = e /\ loc'[t].then = then
        /\ loc'[t].p = p /\ loc'[t].q = q
    BY <1>2 DEF To
  <2>2. CourseAt(loc'[t].pc, loc'[t].k, loc'[t].then, loc'[t].q)
    BY <1>2, <2>1
  <2>3. Stage(loc[t])'
    <3>1. LiveOrders(loc[t].p)' = LiveOrders(p)' /\ RecordedAs(loc[t].q)' = RecordedAs(q)'
      BY <2>1 DEF LiveOrders, RecordedAs
    <3> QED BY <1>2, <2>1, <3>1 DEF Stage, StageAt
  <2> QED BY <2>2, <2>3 DEF Course, CourseAt
<1> QED BY <1>1, <1>2

\* A step that writes no execution and no order, by any thread.
LEMMA LiveQuiet ==
    ASSUME Inv, Inv', Keeps, LiveInv, UNCHANGED <<exec, latest, orders>>,
           NEW t \in Threads, loc[t].pc # "idle",
           NEW s, NEW k, NEW e, NEW then, NEW row, NEW try, To(t, s, k, e, then, row, try),
           s # "return" => CourseAt(s, k, then, loc[t].q) /\ StageAt(s, k, e, loc[t].p, loc[t].q),
           \/ loc[t].pc \notin {"dupcheck", "record"}
           \/ LiveOrders(loc[t].p) = {}
           \/ s = "record"
    PROVE  LiveInv'
<1>0. PICK p \in Proposals, q \in QueueIds \cup {None} : p = loc[t].p /\ q = loc[t].q
  BY ThreadFacts DEF Local
<1>1. OrdersOK /\ OrdersOK'
  BY LiveSame DEF LiveInv
<1>2. \A r \in Proposals : LiveOrders(r)' = LiveOrders(r) /\ (Alive(r)' <=> Alive(r))
  BY <1>1, LiveSame
<1>3. Course(loc[t])' /\ Stage(loc[t])'
  <2>1. s # "return" => StageAt(s, k, e, p, q)'
    <3>1. LiveOrders(p)' = LiveOrders(p)
      BY <1>2
    <3>2. RecordedAs(q)' = RecordedAs(q)
      BY DEF RecordedAs
    <3>3. s # "return" => StageAt(s, k, e, p, q)
      BY <1>0
    <3> QED BY <3>1, <3>2, <3>3 DEF StageAt
  <2>2. s # "return" => CourseAt(s, k, then, q)
    BY <1>0
  <2> QED BY <1>0, <2>1, <2>2, MovedTo
<1>4. \A u \in Threads \ {t} : Course(loc[u])' /\ Stage(loc[u])'
  BY <1>1, StageKept DEF To, LiveInv
<1>5. ASSUME NEW r \in Proposals, LiveOrders(r)' # {} PROVE Alive(r)' \/ Recording(r)'
  <2>1. LiveOrders(r) # {} /\ (Alive(r) \/ Recording(r))
    BY <1>2, <1>5 DEF LiveInv
  <2>2. CASE Alive(r)
    BY <1>2, <2>2
  <2>3. CASE Recording(r)
    <3>1. PICK u \in Threads : loc[u].q # None /\ loc[u].p = r /\ loc[u].pc \in {"dupcheck", "record"}
      BY <2>3 DEF Recording
    <3>2. CASE u # t
      <4>1. loc'[u] = loc[u]
        BY <3>2 DEF To
      <4> QED BY <3>1, <4>1 DEF Recording
    <3>3. CASE u = t
      <4>1. s = "record"
        BY <2>1, <3>1, <3>3
      <4>2. loc'[t].pc = "record" /\ loc'[t].q = loc[t].q /\ loc'[t].p = loc[t].p
        BY <4>1 DEF To
      <4> QED BY <3>1, <3>3, <4>2 DEF Recording
    <3> QED BY <3>2, <3>3
  <2> QED BY <2>1, <2>2, <2>3
<1>6. \A r \in Proposals : \A o1, o2 \in LiveOrders(r)' : o1 = o2
  BY <1>2 DEF LiveInv
<1> QED BY <1>1, <1>3, <1>4, <1>5, <1>6 DEF LiveInv

\* A step of the worker that writes an execution or an order of its proposal.
LEMMA LiveWork ==
    ASSUME Inv, Inv', Keeps, OneContainer, LockHeld, LiveInv,
           NEW t \in Threads, loc[t].pc # "idle", loc[t].q # None,
           NEW p \in Proposals, p = loc[t].p, NEW q, q = loc[t].q, Touches(p),
           NEW s, NEW k, NEW e, NEW then, NEW row, NEW try, To(t, s, k, e, then, row, try),
           s # "return" => CourseAt(s, k, then, q) /\ StageAt(s, k, e, p, q)',
           NEW o, LiveOrders(p)' \subseteq {o},
           LiveOrders(p)' # {} => Alive(p)' \/ s \in {"dupcheck", "record"}
    PROVE  LiveInv'
<1>1. OrdersOK' /\ \A r \in Proposals \ {p} : LiveOrders(r)' = LiveOrders(r)
  BY LiveFrame DEF LiveInv
<1>2. Course(loc[t])' /\ Stage(loc[t])'
  BY MovedTo
<1>3. ASSUME NEW u \in Threads \ {t} PROVE Course(loc[u])' /\ Stage(loc[u])'
  <2>1. loc'[u] = loc[u] /\ loc[u].q = None
    BY Alone DEF To
  <2>2. Course(loc[u])
    BY DEF LiveInv
  <2>3. LocalOK(loc[u], exec, queue)
    BY DEF Inv, ThreadsOK
  <2>4. /\ loc[u].pc \notin BeforeOrder \cup {"dupcheck", "record", "buy", "update"}
        /\ loc[u].k \notin {"checked", "trade"}
    BY <2>1, <2>2, <2>3, NoStage DEF Course, CourseAt
  <2> QED BY <2>1, <2>2, <2>4 DEF Course, CourseAt, Stage, StageAt, BeforeOrder
<1>4. ASSUME NEW r \in Proposals \ {p}, LiveOrders(r)' # {} PROVE Alive(r)'
  <2>1. Alive(r) \/ Recording(r)
    BY <1>1, <1>4 DEF LiveInv
  <2>2. ~Recording(r)
    BY Alone DEF Recording
  <2>3. latest[r] # None /\ exec[latest[r]].st \notin DeadStatus
    BY <2>1, <2>2 DEF Alive
  <2>4. latest[r] \in ExecIds /\ exec[latest[r]].st # None /\ exec[latest[r]].p = r
    BY <2>3 DEF Inv, Good, TablesOK, RowsOK, Names
  <2> QED BY <2>3, <2>4 DEF Alive, Touches
<1>5. LiveOrders(p)' # {} => Alive(p)' \/ Recording(p)'
  <2>1. s \in {"dupcheck", "record"} => loc'[t].pc = s /\ loc'[t].q = loc[t].q /\ loc'[t].p = p
    BY DEF To
  <2> QED BY <2>1 DEF Recording
<1>6. \A r \in Proposals : \A o1, o2 \in LiveOrders(r)' : o1 = o2
  BY <1>1 DEF LiveInv
<1>7. \A r \in Proposals : LiveOrders(r)' # {} => Alive(r)' \/ Recording(r)'
  BY <1>4, <1>5
<1> QED BY <1>1, <1>2, <1>3, <1>6, <1>7 DEF LiveInv

LEMMA SavedKeeps == UNCHANGED saved => Keeps /\ UNCHANGED <<exec, latest, orders>>
BY DEF saved, Keeps

LEMMA WritesKeeps ==
    ASSUME Inv, NEW t \in Threads, NEW s, NEW e, Writes(t, s, e), s # None, loc[t].q \in QueueIds
    PROVE  Keeps
<1>1. queue \in [QueueIds -> QueueRow]
  BY DEF Inv, Good, TablesOK
<1>2. /\ queue'[loc[t].q].st = s /\ queue'[loc[t].q].p = queue[loc[t].q].p
      /\ \A q \in QueueIds \ {loc[t].q} : queue'[q] = queue[q]
  BY <1>1 DEF Writes, QueueRow
<1> QED BY <1>2 DEF Writes, Keeps

\* A new execution of the worker's proposal touches that proposal only.
LEMMA CreatesTouches ==
    ASSUME Inv, OrdersOK, NEW t \in Threads, loc[t].pc # "idle", NEW p \in Proposals, p = loc[t].p,
           NEW e \in ExecIds, NEW s \in ExecutionStatus \ {None}, NEW o, Creates(t, e, s, o),
           o = None \/ (o = loc[t].q /\ o \in orders)
    PROVE  /\ Keeps /\ Touches(p) /\ orders' = orders
           /\ exec'[e].st = s /\ exec'[e].ord = o /\ latest'[p] = e /\ e # None
           /\ exec[e].ord = None /\ \A f \in ExecIds \ {e} : exec'[f] = exec[f]
<1>0. exec \in [ExecIds -> ExecutionRow] /\ latest \in [Proposals -> ExecIds \cup {None}]
      /\ orders \subseteq QueueIds \cup ExecIds
  BY DEF Inv, Good, TablesOK
<1>1. /\ exec[e].st = None /\ orders' = orders /\ queue' = queue
      /\ exec'[e].st = s /\ exec'[e].ord = o /\ latest'[p] = e
      /\ \A f \in ExecIds \ {e} : exec'[f] = exec[f]
      /\ \A r \in Proposals \ {p} : latest'[r] = latest[r]
  BY <1>0 DEF Creates
<1>2. exec[e].ord = None
  <2> SUFFICES ASSUME exec[e].ord # None PROVE FALSE
    OBVIOUS
  <2>1. exec[e].ord \in orders /\ Stored(exec[e].ord)
    BY DEF OrdersOK
  <2>2. exec[e].ord \in QueueIds \cup ExecIds
    BY <1>0, <2>1
  <2> QED BY <1>1, <2>1, <2>2 DEF Stored, Inv, Good, RowsOK
<1>3. o # None => ProposalOfOrder(o) = p
  <2> SUFFICES ASSUME o # None PROVE ProposalOfOrder(o) = p
    OBVIOUS
  <2>1. o \in QueueIds /\ queue[o].p = p
    BY ThreadFacts
  <2> QED BY <2>1 DEF ProposalOfOrder
<1>4. Keeps
  BY <1>1 DEF Keeps
<1>5. Touches(p)
  BY <1>1, <1>2, <1>3 DEF Touches
<1> QED BY <1>1, <1>2, <1>4, <1>5, PipelineConstants

\* A new order of the worker's proposal.
LEMMA OrdersTouches ==
    ASSUME Inv, OrdersOK, NEW p \in Proposals, NEW o, Orders(o),
           ProposalOfOrder(o) = p, Stored(o)
    PROVE  Keeps /\ Touches(p) /\ orders' = orders \cup {o} /\ exec' = exec /\ latest' = latest
BY DEF Orders, Touches, Keeps

\* The worker's steps in TraderService (eToro route).
LEMMA LiveTrader ==
    ASSUME Inv, Inv', QueueOnly, OneContainer, LockHeld, LiveInv, NEW t \in Threads,
           \/ Trade(t) \/ RefuseTrade(t) \/ CreateValidated(t) \/ OpenMarketOrder(t)
           \/ UpdateExecution(t)
    PROVE  LiveInv'
<1>0. loc[t].pc \in TraderPcs /\ loc[t].pc # "idle"
  BY TraderMoves DEF TraderPcs
<1>1. /\ Course(loc[t]) /\ Stage(loc[t]) /\ OrdersOK
  BY DEF LiveInv
<1>2. loc[t].q # None /\ loc[t].q \in QueueIds
  BY <1>0, <1>1, ThreadFacts DEF Course, CourseAt
<1>3. PICK p \in Proposals, q \in QueueIds, x \in ExecIds \cup {None} :
         p = loc[t].p /\ q = loc[t].q /\ x = loc[t].ex
  BY <1>0, <1>2, ThreadFacts DEF Local
<1>4. StageAt(loc[t].pc, loc[t].k, x, p, q)
  BY <1>1, <1>3 DEF Stage
<1>5. CourseAt("idle", loc[t].k, loc[t].then, q) /\ q # None
  BY <1>1, <1>2, <1>3 DEF Course, CourseAt
<1>c. \A s : CourseAt(s, "idle", loc[t].then, q) /\ CourseAt(s, "mark", "finish", q)
             /\ CourseAt(s, loc[t].k, loc[t].then, q) /\ CourseAt(s, "idle", "idle", q)
  BY <1>5 DEF CourseAt, TraderPcs
\* The exception, where none of the proposal's orders is live afterwards.
<1>r. ASSUME Raises(t), Keeps, Touches(p), LiveOrders(p)' = {} PROVE LiveInv'
  <2>1. PICK s \in {"fail", "return"} : To(t, s, "idle", None, "idle", loc[t].row, FALSE)
    BY <1>r DEF Raises
  <2>2. s # "return" => StageAt(s, "idle", None, p, q)'
    BY <1>r DEF StageAt, BeforeOrder
  <2> QED BY <1>0, <1>2, <1>3, <1>c, <1>r, <2>1, <2>2, LiveWork
<1>6. CASE Trade(t)
  <2>1. /\ Keeps /\ UNCHANGED <<exec, latest, orders>> /\ loc[t].pc = "trade"
        /\ Jumps(t, "validated") \/ Jumps(t, "refuse")
    BY <1>6, TraderMoves, SavedKeeps
  <2>2. LiveOrders(p) = {}
    BY <1>4, <2>1 DEF StageAt, BeforeOrder
  <2>3. \A s \in {"validated", "refuse"} : StageAt(s, "idle", x, p, q)
    BY <2>2 DEF StageAt, BeforeOrder
  <2> QED BY <1>0, <1>3, <1>c, <2>1, <2>3, LiveQuiet DEF Jumps
<1>7. CASE RefuseTrade(t)
  <2>1. loc[t].pc = "refuse" /\ Raises(t)
    BY <1>7, TraderMoves
  <2>2. PICK e \in ExecIds : Creates(t, e, "blocked", None)
    BY <1>7, TraderMoves
  <2>3. Keeps /\ Touches(p) /\ orders' = orders
    BY <1>0, <1>1, <1>3, <2>2, CreatesTouches DEF ExecutionStatus, None
  <2>4. LiveOrders(p) = {}
    BY <1>4, <2>1 DEF StageAt, BeforeOrder
  <2>5. LiveOrders(p)' = {}
    BY <1>1, <2>3, <2>4, LiveFrame
  <2> QED BY <1>r, <2>1, <2>3, <2>5
<1>8. CASE CreateValidated(t)
  <2>1. loc[t].pc = "validated"
    BY <1>8, TraderMoves
  <2>2. PICK e \in ExecIds :
           /\ Creates(t, e, "validated", None)
           /\ To(t, "buy", loc[t].k, e, loc[t].then, loc[t].row, loc[t].try)
    BY <1>8, TraderMoves
  <2>3. /\ Keeps /\ Touches(p) /\ orders' = orders
        /\ exec'[e].st = "validated" /\ exec'[e].ord = None /\ latest'[p] = e
    BY <1>0, <1>1, <1>3, <2>2, CreatesTouches DEF ExecutionStatus, None
  <2>4. LiveOrders(p) = {}
    BY <1>4, <2>1 DEF StageAt, BeforeOrder
  <2>5. LiveOrders(p)' = {}
    BY <1>1, <2>3, <2>4, LiveFrame
  <2>6. \A k : StageAt("buy", k, e, p, q)'
    BY <2>3, <2>5 DEF StageAt, BeforeOrder
  <2> QED BY <1>0, <1>2, <1>3, <1>c, <2>2, <2>3, <2>5, <2>6, LiveWork
<1>9. CASE OpenMarketOrder(t)
  <2>1. /\ loc[t].pc = "buy"
        /\ \/ Orders(loc[t].ex) /\ Jumps(t, "update")
           \/ UNCHANGED saved /\ Raises(t)
    BY <1>9, TraderMoves DEF QueueOnly
  <2>2. /\ LiveOrders(p) = {} /\ latest[p] = x /\ exec[x].st = "validated" /\ exec[x].ord = None
    BY <1>4, <2>1 DEF StageAt, BeforeOrder
  <2>3. x \in ExecIds /\ exec[x].st # None /\ exec[x].p = p
    BY <1>0, <1>3, <2>1, ThreadFacts DEF ExecutionSteps
  <2>4. CASE UNCHANGED saved /\ Raises(t)
    <3>1. Keeps /\ UNCHANGED <<exec, latest, orders>> /\ Touches(p)
      BY <2>4, SavedKeeps DEF Touches
    <3>2. LiveOrders(p)' = {}
      BY <1>1, <2>2, <3>1, LiveFrame
    <3> QED BY <1>r, <2>4, <3>1, <3>2
  <2>5. CASE Orders(loc[t].ex) /\ Jumps(t, "update")
    <3>1. ProposalOfOrder(x) = p /\ Stored(x)
      BY <2>3, PipelineConstants DEF ProposalOfOrder, Stored
    <3>2. Keeps /\ Touches(p) /\ orders' = orders \cup {x} /\ exec' = exec /\ latest' = latest
      BY <1>1, <1>3, <2>5, <3>1, OrdersTouches
    <3>3. LiveOrders(p)' \subseteq {x}
      BY <1>1, <2>2, <3>2, LiveFrame
    <3>4. Alive(p)'
      BY <2>2, <2>3, <3>2, PipelineConstants DEF Alive, DeadStatus
    <3>5. StageAt("update", "idle", x, p, q)'
      BY <2>2, <3>2, <3>3 DEF StageAt, BeforeOrder
    <3> QED BY <1>0, <1>2, <1>3, <1>c, <2>5, <3>2, <3>3, <3>4, <3>5, LiveWork DEF Jumps
  <2> QED BY <2>1, <2>4, <2>5
<1>10. CASE UpdateExecution(t)
  <2>1. loc[t].pc = "update" /\ UNCHANGED <<queue, latest, orders>> /\ Marks(t, loc[t].ex, "finish")
    BY <1>2, <1>10, TraderMoves
  <2>2. PICK s \in BrokerStatus :
           exec' = [exec EXCEPT ![loc[t].ex] = [@ EXCEPT !.st = s, !.ord = loc[t].ex]]
    BY <1>10, TraderMoves
  <2>3. /\ LiveOrders(p) \subseteq {x} /\ latest[p] = x /\ exec[x].ord = None /\ x \in orders
    BY <1>4, <2>1 DEF StageAt
  <2>4. x \in ExecIds /\ x # None /\ exec[x].st # None /\ exec[x].p = p
    BY <1>0, <1>3, <2>1, ThreadFacts DEF ExecutionSteps
  <2>5. /\ exec'[x].st = s /\ exec'[x].ord = x /\ exec'[x].p = p
        /\ \A f \in ExecIds \ {x} : exec'[f] = exec[f]
    BY <1>3, <2>2, <2>4 DEF Inv, Good, TablesOK, ExecutionRow
  <2>6. ProposalOfOrder(x) = p
    BY <2>4, PipelineConstants DEF ProposalOfOrder
  <2>7. Touches(p)
    BY <2>1, <2>3, <2>4, <2>5, <2>6 DEF Touches
  <2>8. s # None
    BY DEF BrokerStatus, DeadStatus, None
  <2>9. Keeps
    BY <2>1, <2>4, <2>5, <2>8 DEF Keeps
  <2>10. LiveOrders(p)' \subseteq {x}
    BY <1>1, <2>1, <2>3, <2>7, <2>9, LiveFrame
  <2>11. LiveOrders(p)' # {} => Alive(p)'
    <3> SUFFICES ASSUME LiveOrders(p)' # {} PROVE Alive(p)'
      OBVIOUS
    <3>1. x \in LiveOrders(p)'
      BY <2>10
    <3>2. exec'[x].st \notin DeadStatus
      BY <2>4, <2>5, <3>1 DEF LiveOrders, RecordedAs
    <3> QED BY <2>1, <2>3, <2>4, <3>2 DEF Alive
  <2>12. StageAt("get", "mark", x, p, q)'
    BY DEF StageAt, BeforeOrder
  <2> QED BY <1>0, <1>2, <1>3, <1>c, <2>1, <2>7, <2>9, <2>10, <2>11, <2>12, LiveWork DEF Marks
<1> QED BY <1>6, <1>7, <1>8, <1>9, <1>10

\* The worker's steps at Alpaca, the record, and what follows it.
LEMMA LiveBroker ==
    ASSUME Inv, Inv', QueueOnly, OneContainer, LockHeld, LiveInv, NEW t \in Threads,
           \/ SubmitOrder(t) \/ CheckDuplicate(t) \/ RecordExecution(t) \/ MirrorParallel(t)
           \/ FinishItem(t) \/ BrokerFailed(t) \/ BlockFailedItem(t) \/ RaiseError(t)
    PROVE  LiveInv'
<1>0. loc[t].pc \in {"submit", "dupcheck", "record", "mirror", "finish", "fail", "failitem"}
  BY BrokerMoves DEF QueueOnly
<1>1. /\ Course(loc[t]) /\ Stage(loc[t]) /\ OrdersOK
  BY DEF LiveInv
<1>2. loc[t].q # None /\ loc[t].q \in QueueIds /\ loc[t].pc # "idle" /\ queue[loc[t].q].st # None
      /\ queue[loc[t].q].p = loc[t].p
  BY <1>0, ThreadFacts DEF ItemSteps
<1>3. PICK p \in Proposals, q \in QueueIds, x \in ExecIds \cup {None} :
         p = loc[t].p /\ q = loc[t].q /\ x = loc[t].ex
  BY <1>2, ThreadFacts DEF Local
<1>4. StageAt(loc[t].pc, loc[t].k, x, p, q)
  BY <1>1, <1>3 DEF Stage
<1>5. CourseAt("idle", loc[t].k, loc[t].then, q) /\ q # None
  BY <1>1, <1>2, <1>3 DEF Course, CourseAt
<1>c. \A s : /\ CourseAt(s, "idle", loc[t].then, q) /\ CourseAt(s, loc[t].k, loc[t].then, q)
             /\ CourseAt(s, "mark", "finish", q) /\ CourseAt(s, "mark", "mirror", q)
             /\ CourseAt(s, "idle", "idle", q)
  BY <1>5 DEF CourseAt, TraderPcs
<1>6. CASE SubmitOrder(t)
  <2>1. /\ loc[t].pc = "submit"
        /\ \/ Orders(loc[t].q) /\ Jumps(t, "dupcheck")
           \/ UNCHANGED saved /\ Raises(t)
    BY <1>6, BrokerMoves DEF QueueOnly
  <2>2. LiveOrders(p) = {} /\ Route = "alpaca"
    BY <1>4, <2>1 DEF StageAt, BeforeOrder
  <2>3. ProposalOfOrder(q) = p /\ Stored(q)
    BY <1>2, <1>3, PipelineConstants DEF ProposalOfOrder, Stored
  <2>4. CASE UNCHANGED saved /\ Raises(t)
    <3>1. Keeps /\ UNCHANGED <<exec, latest, orders>>
      BY <2>4, SavedKeeps
    <3>2. PICK s \in {"fail", "return"} : To(t, s, "idle", None, "idle", loc[t].row, FALSE)
      BY <2>4 DEF Raises
    <3>3. StageAt(s, "idle", None, p, q)
      BY <2>2, <3>2 DEF StageAt, BeforeOrder
    <3> QED BY <1>2, <1>3, <1>c, <2>1, <3>1, <3>2, <3>3, LiveQuiet
  <2>5. CASE Orders(loc[t].q) /\ Jumps(t, "dupcheck")
    <3>1. Keeps /\ Touches(p) /\ orders' = orders \cup {q} /\ exec' = exec /\ latest' = latest
      BY <1>1, <1>3, <2>3, <2>5, OrdersTouches
    <3>2. LiveOrders(p)' \subseteq {q}
      BY <1>1, <2>2, <3>1, LiveFrame
    <3>3. \A f \in RecordedAs(q) : exec[f].st \in DeadStatus
      <4> SUFFICES ASSUME NEW f \in RecordedAs(q) PROVE exec[f].st \in DeadStatus
        OBVIOUS
      <4>1. f \in ExecIds /\ exec[f].ord = q /\ q \in orders
        BY <1>1, <1>5 DEF RecordedAs, OrdersOK
      <4>2. RecordedAs(q) = {f}
        BY <1>5, <4>1 DEF RecordedAs, Inv, Good, OrderRecordedOnce
      <4>3. q \notin LiveOrders(p)
        BY <2>2
      <4> QED BY <2>3, <4>1, <4>2, <4>3 DEF LiveOrders
    <3>4. StageAt("dupcheck", "idle", x, p, q)'
      BY <2>2, <3>1, <3>2, <3>3 DEF StageAt, BeforeOrder, RecordedAs
    <3>5. To(t, "dupcheck", "idle", x, loc[t].then, loc[t].row, loc[t].try)
      BY <1>3, <2>5 DEF Jumps
    <3>6. CourseAt("dupcheck", "idle", loc[t].then, q) /\ "dupcheck" \in {"dupcheck", "record"}
      BY <1>c
    <3>7. loc[t].pc # "idle" /\ loc[t].q # None /\ Keeps /\ Touches(p)
      BY <1>2, <3>1
    <3> QED BY <1>3, <3>2, <3>4, <3>5, <3>6, <3>7, LiveWork
  <2> QED BY <2>1, <2>4, <2>5
<1>7. CASE CheckDuplicate(t)
  <2>1. loc[t].pc = "dupcheck" /\ Keeps /\ UNCHANGED <<exec, latest, orders>>
    BY <1>7, BrokerMoves, SavedKeeps
  <2>2. /\ LiveOrders(p) \subseteq {q} /\ Route = "alpaca" /\ q \in orders
        /\ \A f \in RecordedAs(q) : exec[f].st \in DeadStatus
    BY <1>4, <2>1 DEF StageAt
  <2>3. CASE RecordedAs(q) = {} /\ Jumps(t, "record")
    <3>1. StageAt("record", "idle", x, p, q)
      BY <2>2, <2>3 DEF StageAt, BeforeOrder
    <3> QED BY <1>2, <1>3, <1>c, <2>1, <2>3, <3>1, LiveQuiet DEF Jumps
  <2>4. ASSUME NEW e \in RecordedAs(q), Marks(t, e, "finish") PROVE LiveInv'
    <3>1. q \notin LiveOrders(p)
      BY <2>2, <2>4 DEF LiveOrders
    <3>2. LiveOrders(p) = {}
      BY <2>2, <3>1
    <3>3. StageAt("get", "mark", e, p, q)
      BY DEF StageAt, BeforeOrder
    <3> QED BY <1>2, <1>3, <1>c, <2>1, <2>4, <3>2, <3>3, LiveQuiet DEF Marks
  <2>5. \/ RecordedAs(q) = {} /\ Jumps(t, "record")
        \/ \E e \in RecordedAs(q) : Marks(t, e, "finish")
    BY <1>3, <1>7, BrokerMoves
  <2> QED BY <2>3, <2>4, <2>5
<1>8. CASE RecordExecution(t)
  <2>1. loc[t].pc = "record"
    BY <1>8, BrokerMoves
  <2>2. LiveOrders(p) \subseteq {q} /\ (Route # "alpaca" => LiveOrders(p) = {})
    BY <1>4, <2>1 DEF StageAt
  <2>3. Route = "alpaca" => RecordedAs(q) = {}
    BY <1>4, <2>1 DEF StageAt
  <2> DEFINE o == IF Route = "alpaca" THEN q ELSE None
             n == IF Route = "alpaca" THEN "mirror" ELSE "finish"
  <2>4. PICK e \in ExecIds, s \in BrokerStatus : Creates(t, e, s, o) /\ Marks(t, e, n)
    BY <1>3, <1>8, <2>3, BrokerMoves
  <2>5. CourseAt("get", "mark", n, q)
    BY <1>c
  <2>6. s \in ExecutionStatus \ {None}
    BY DEF BrokerStatus, DeadStatus, ExecutionStatus, None
  <2>7. o = None \/ (o = loc[t].q /\ o \in orders)
    BY <1>3, <1>4, <2>1 DEF StageAt
  <2> HIDE DEF o
  <2>8. /\ Keeps /\ Touches(p) /\ orders' = orders /\ e # None
        /\ exec'[e].st = s /\ exec'[e].ord = o /\ latest'[p] = e
    BY <1>1, <1>2, <1>3, <2>4, <2>6, <2>7, CreatesTouches
  <2>9. LiveOrders(p)' \subseteq LiveOrders(p)
    BY <1>1, <2>8, LiveFrame
  <2>10. LiveOrders(p)' # {} => Alive(p)'
    <3> SUFFICES ASSUME LiveOrders(p)' # {} PROVE Alive(p)'
      OBVIOUS
    <3>1. q \in LiveOrders(p)' /\ o = q
      BY <2>2, <2>9 DEF o
    <3>2. exec'[e].st \notin DeadStatus
      BY <2>8, <3>1 DEF LiveOrders, RecordedAs
    <3> QED BY <2>8, <3>2 DEF Alive
  <2>11. StageAt("get", "mark", e, p, q)'
    BY DEF StageAt, BeforeOrder
  <2> HIDE DEF n
  <2> QED BY <1>2, <1>3, <2>2, <2>4, <2>5, <2>8, <2>9, <2>10, <2>11, LiveWork DEF Marks
<1>9. CASE MirrorParallel(t)
  <2>1. /\ Keeps /\ UNCHANGED <<exec, latest, orders>> /\ loc[t].pc = "mirror" /\ Jumps(t, "finish")
    BY <1>9, BrokerMoves, SavedKeeps DEF QueueOnly
  <2>2. StageAt("finish", "idle", x, p, q)
    BY DEF StageAt, BeforeOrder
  <2> QED BY <1>2, <1>3, <1>c, <2>1, <2>2, LiveQuiet DEF Jumps
<1>10. CASE FinishItem(t) \/ BlockFailedItem(t)
  <2>1. /\ loc[t].pc \in {"finish", "failitem"} /\ Jumps(t, "return")
        /\ Writes(t, "executed", loc[t].ex) \/ Writes(t, "blocked", loc[t].ex)
    BY <1>10, BrokerMoves
  <2>2. Keeps /\ UNCHANGED <<exec, latest, orders>>
    BY <1>2, <2>1, WritesKeeps DEF Writes, None
  <2> QED BY <1>2, <2>1, <2>2, LiveQuiet DEF Jumps
<1>11. CASE BrokerFailed(t)
  <2>1. loc[t].pc = "fail"
    BY <1>11, BrokerMoves
  <2>2. LiveOrders(p) = {}
    BY <1>4, <2>1 DEF StageAt, BeforeOrder
  <2>3. PICK e \in ExecIds :
           \/ Creates(t, e, "submitted", None) /\ Marks(t, e, "finish")
           \/ /\ Creates(t, e, "failed", None)
              /\ To(t, "failitem", loc[t].k, e, loc[t].then, loc[t].row, loc[t].try)
    BY <1>11, BrokerMoves
  <2>4. {"submitted", "failed"} \subseteq ExecutionStatus \ {None}
    BY DEF ExecutionStatus, None
  <2>5. Keeps /\ Touches(p) /\ orders' = orders
    BY <1>1, <1>2, <1>3, <2>3, <2>4, CreatesTouches
  <2>6. LiveOrders(p)' = {}
    BY <1>1, <2>2, <2>5, LiveFrame
  <2>7. \A k : StageAt("failitem", k, e, p, q)' /\ StageAt("get", "mark", e, p, q)'
    BY DEF StageAt, BeforeOrder
  <2>8. CASE Marks(t, e, "finish")
    BY <1>2, <1>3, <1>c, <2>5, <2>6, <2>7, <2>8, LiveWork DEF Marks
  <2>9. CASE To(t, "failitem", loc[t].k, e, loc[t].then, loc[t].row, loc[t].try)
    BY <1>2, <1>3, <1>c, <2>5, <2>6, <2>7, <2>9, LiveWork
  <2> QED BY <2>3, <2>8, <2>9
<1>12. CASE RaiseError(t)
  BY <1>12, BrokerMoves DEF QueueOnly
<1> QED BY <1>6, <1>7, <1>8, <1>9, <1>10, <1>11, <1>12

\* The proposal service's steps and the queue's steps before an order: no execution and no
\* order is written.
LEMMA LiveQueue ==
    ASSUME Inv, Inv', QueueOnly, OneContainer, LockHeld, LiveInv, NEW t \in Threads,
           \/ GetProposal(t) \/ ExpireIfNeeded(t) \/ Approve(t) \/ Reject(t) \/ MarkExecuted(t)
           \/ CheckOpen(t) \/ Insert(t) \/ ReadItem(t) \/ ReadLatest(t) \/ AdoptExecution(t)
           \/ ClaimForProcessing(t) \/ ReloadItem(t) \/ CheckApproved(t) \/ PassGates(t)
           \/ BlockItem(t)
    PROVE  LiveInv'
<1>0. loc[t].pc \in {"get", "expire", "approve", "reject", "mark", "check_open", "insert", "item",
                     "latest", "adopt", "claim", "reload", "checked", "gates", "block"}
  BY ProposalMoves, ItemMoves
<1>1. Course(loc[t]) /\ Stage(loc[t]) /\ loc[t].pc # "idle" /\ loc[t].pc \notin {"dupcheck", "record"}
  BY <1>0 DEF LiveInv
<1>2. PICK p \in Proposals, q \in QueueIds \cup {None}, x \in ExecIds \cup {None} :
         p = loc[t].p /\ q = loc[t].q /\ x = loc[t].ex
  BY <1>1, ThreadFacts DEF Local
<1>3. StageAt(loc[t].pc, loc[t].k, x, p, q) /\ CourseAt(loc[t].pc, loc[t].k, loc[t].then, q)
  BY <1>1, <1>2 DEF Stage, Course
<1>4. loc[t].pc \in ItemSteps => q \in QueueIds /\ q # None
  BY <1>1, <1>2, ThreadFacts
\* A jump, and a step along the same handler.
<1>j. ASSUME NEW s, Jumps(t, s), Keeps, UNCHANGED <<exec, latest, orders>>,
             s \notin TraderPcs,
             s # "return" => StageAt(s, "idle", x, p, q)
      PROVE  LiveInv'
  <2>1. CourseAt(s, "idle", loc[t].then, q)
    BY <1>3, <1>j DEF CourseAt, TraderPcs
  <2>2. To(t, s, "idle", loc[t].ex, loc[t].then, loc[t].row, loc[t].try)
    BY <1>j DEF Jumps
  <2> QED BY <1>1, <1>2, <1>j, <2>1, <2>2, LiveQuiet
<1>g. ASSUME NEW s, Goes(t, s), Keeps, UNCHANGED <<exec, latest, orders>>,
             s \in TraderPcs => s = loc[t].k,
             s # "return" => StageAt(s, loc[t].k, x, p, q)
      PROVE  LiveInv'
  <2>1. CourseAt(s, loc[t].k, loc[t].then, q)
    BY <1>3, <1>g DEF CourseAt
  <2>2. To(t, s, loc[t].k, loc[t].ex, loc[t].then, loc[t].row, loc[t].try)
    BY <1>g DEF Goes
  <2> QED BY <1>1, <1>2, <1>g, <2>1, <2>2, LiveQuiet
\* Steps about which a thread knows nothing.
<1>n. \A s, k : s \in {"insert", "idle", "mirror", "finish", "block", "latest"}
                   => StageAt(s, k, x, p, q) /\ s \notin TraderPcs
  BY DEF StageAt, BeforeOrder, TraderPcs
<1>b. \A s : s \in {"reload", "gates"} /\ LiveOrders(p) = {} => StageAt(s, "idle", x, p, q) /\ s \notin TraderPcs
  BY DEF StageAt, BeforeOrder, TraderPcs
<1>r. "return" \notin TraderPcs
  BY DEF TraderPcs
<1>5. CASE GetProposal(t) \/ ExpireIfNeeded(t)
  <2>1. /\ Keeps /\ UNCHANGED <<exec, latest, orders>> /\ loc[t].pc \in {"get", "expire"}
        /\ Goes(t, "expire") \/ Goes(t, loc[t].k)
    BY <1>5, ProposalMoves, SavedKeeps
  <2>2. StageAt("expire", loc[t].k, x, p, q)
    BY <1>3, <2>1 DEF StageAt, BeforeOrder
  <2>3. StageAt(loc[t].k, loc[t].k, x, p, q)
    BY <1>3, <2>1 DEF StageAt, CourseAt, BeforeOrder
  <2>4. "expire" \notin TraderPcs
    BY DEF TraderPcs
  <2> QED BY <1>g, <2>1, <2>2, <2>3, <2>4
<1>6. CASE Approve(t) \/ Reject(t)
  BY <1>6, <1>j, <1>r, ProposalMoves, SavedKeeps
<1>7. CASE MarkExecuted(t)
  <2>1. Keeps /\ UNCHANGED <<exec, latest, orders>> /\ Jumps(t, loc[t].then)
    BY <1>7, ProposalMoves, SavedKeeps
  <2>2. loc[t].then \in {"idle", "mirror", "finish"}
    BY <1>3 DEF CourseAt
  <2> QED BY <1>j, <1>n, <2>1, <2>2
<1>8. CASE CheckOpen(t)
  BY <1>8, <1>j, <1>n, <1>r, ProposalMoves, SavedKeeps
<1>9. CASE Insert(t)
  <2>1. UNCHANGED <<exec, latest, orders>> /\ Jumps(t, "return")
    BY <1>9, ProposalMoves
  <2>2. PICK o \in QueueIds : /\ queue[o].st = None
                              /\ queue' \in {queue, [queue EXCEPT ![o] =
                                      [st |-> "queued", p |-> loc[t].p, ex |-> None]]}
    BY <1>9, ProposalMoves
  <2>3. Keeps
    BY <2>1, <2>2 DEF Keeps, Inv, Good, TablesOK
  <2> QED BY <1>j, <1>r, <2>1, <2>3
<1>10. CASE ReadItem(t)
  <2>1. Keeps /\ UNCHANGED <<exec, latest, orders>> /\ (Goes(t, "latest") \/ Goes(t, "return"))
    BY <1>10, ItemMoves, SavedKeeps
  <2>2. StageAt("latest", loc[t].k, x, p, q) /\ "latest" \notin TraderPcs
    BY <1>n
  <2> QED BY <1>g, <1>r, <2>1, <2>2
<1>11. CASE ReadLatest(t)
  <2>1. Keeps /\ UNCHANGED <<exec, latest, orders>> /\ loc[t].pc = "latest" /\ q # None
    BY <1>4, <1>11, ItemMoves, SavedKeeps DEF ItemSteps
  <2>2. ASSUME NEW e \in ExecIds, To(t, "adopt", loc[t].k, e, loc[t].then, loc[t].row, loc[t].try)
        PROVE  LiveInv'
    <3>1. CourseAt("adopt", loc[t].k, loc[t].then, q)
      BY <1>3 DEF CourseAt, TraderPcs
    <3>2. StageAt("adopt", loc[t].k, e, p, q)
      BY DEF StageAt, BeforeOrder
    <3> QED BY <1>1, <1>2, <2>1, <2>2, <3>1, <3>2, LiveQuiet
  <2>3. CASE Goes(t, "claim") /\ (latest[loc[t].p] = None \/ exec[latest[loc[t].p]].st \in DeadStatus)
    <3>1. ~Alive(p)
      BY <1>2, <2>3 DEF Alive
    <3>2. ~Recording(p)
      BY <1>2, <2>1, Alone DEF Recording
    <3>3. LiveOrders(p) = {}
      BY <3>1, <3>2 DEF LiveInv
    <3>4. StageAt("claim", loc[t].k, x, p, q) /\ "claim" \notin TraderPcs
      BY <3>3 DEF StageAt, BeforeOrder, TraderPcs
    <3> QED BY <1>g, <2>1, <2>3, <3>4
  <2>4. CASE Goes(t, "return")
    BY <1>g, <1>r, <2>1, <2>4
  <2> QED BY <1>11, <2>2, <2>3, <2>4, ItemMoves
<1>12. CASE AdoptExecution(t) \/ BlockItem(t)
  <2>1. /\ loc[t].pc \in ItemSteps /\ Jumps(t, "return")
        /\ Writes(t, "executed", loc[t].ex) \/ Writes(t, "blocked", loc[t].row)
    BY <1>12, ItemMoves DEF ItemSteps
  <2>2. Keeps /\ UNCHANGED <<exec, latest, orders>>
    BY <1>2, <1>4, <2>1, WritesKeeps DEF Writes, None
  <2> QED BY <1>j, <1>r, <2>1, <2>2
<1>13. CASE ClaimForProcessing(t)
  <2>1. loc[t].pc = "claim" /\ loc[t].q \in QueueIds
    BY <1>2, <1>4, <1>13, ItemMoves DEF ItemSteps
  <2>2. LiveOrders(p) = {}
    BY <1>3, <2>1 DEF StageAt, BeforeOrder
  <2>3. CASE Writes(t, "processing", queue[loc[t].q].ex) /\ Jumps(t, "reload")
    <3>1. Keeps /\ UNCHANGED <<exec, latest, orders>>
      BY <2>1, <2>3, WritesKeeps DEF Writes, None
    <3> QED BY <1>b, <1>j, <2>2, <2>3, <3>1
  <2>4. CASE UNCHANGED saved /\ Jumps(t, "return")
    BY <1>j, <1>r, <2>4, SavedKeeps
  <2> QED BY <1>13, <2>3, <2>4, ItemMoves
<1>14. CASE ReloadItem(t)
  <2>1. /\ Keeps /\ UNCHANGED <<exec, latest, orders>> /\ loc[t].pc = "reload"
        /\ To(t, "get", "checked", loc[t].ex, loc[t].then, queue[loc[t].q].ex, loc[t].try)
    BY <1>14, ItemMoves, SavedKeeps
  <2>2. StageAt("get", "checked", x, p, q)
    BY <1>3, <2>1 DEF StageAt, BeforeOrder
  <2>3. CourseAt("get", "checked", loc[t].then, q)
    BY <1>3 DEF CourseAt, TraderPcs
  <2> QED BY <1>1, <1>2, <2>1, <2>2, <2>3, LiveQuiet
<1>15. CASE CheckApproved(t)
  <2>1. Keeps /\ UNCHANGED <<exec, latest, orders>> /\ loc[t].pc = "checked"
    BY <1>15, ItemMoves, SavedKeeps
  <2>2. LiveOrders(p) = {}
    BY <1>3, <2>1 DEF StageAt, BeforeOrder
  <2> QED BY <1>15, <1>b, <1>j, <1>n, <2>1, <2>2, ItemMoves
<1>16. CASE PassGates(t)
  <2>1. Keeps /\ UNCHANGED <<exec, latest, orders>> /\ loc[t].pc = "gates" /\ q # None
    BY <1>4, <1>16, ItemMoves, SavedKeeps DEF ItemSteps
  <2>2. LiveOrders(p) = {}
    BY <1>3, <2>1 DEF StageAt, BeforeOrder
  <2>3. CASE Route = "self_simulated" /\ Jumps(t, "record")
    <3>1. StageAt("record", "idle", x, p, q) /\ "record" \notin TraderPcs
      BY <2>2, <2>3 DEF StageAt, BeforeOrder, TraderPcs
    <3> QED BY <1>j, <2>1, <2>3, <3>1
  <2>4. CASE Jumps(t, "return") \/ Jumps(t, "block")
    BY <1>j, <1>n, <1>r, <2>1, <2>4
  <2>5. CASE Route = "alpaca" /\ To(t, "submit", loc[t].k, loc[t].ex, loc[t].then, loc[t].row, TRUE)
    <3>1. StageAt("submit", loc[t].k, x, p, q)
      BY <2>2, <2>5 DEF StageAt, BeforeOrder
    <3>2. CourseAt("submit", loc[t].k, loc[t].then, q)
      BY <1>3 DEF CourseAt, TraderPcs
    <3> QED BY <1>1, <1>2, <2>1, <2>5, <3>1, <3>2, LiveQuiet
  <2>6. CASE To(t, "get", "trade", loc[t].ex, loc[t].then, loc[t].row, TRUE)
    <3>1. StageAt("get", "trade", x, p, q)
      BY <2>2 DEF StageAt, BeforeOrder
    <3>2. CourseAt("get", "trade", loc[t].then, q)
      BY <1>3, <2>1 DEF CourseAt, TraderPcs
    <3> QED BY <1>1, <1>2, <2>1, <2>6, <3>1, <3>2, LiveQuiet
  <2> QED BY <1>16, <2>3, <2>4, <2>5, <2>6, ItemMoves
<1> QED BY <1>5, <1>6, <1>7, <1>8, <1>9, <1>10, <1>11, <1>12, <1>13, <1>14, <1>15, <1>16

LEMMA LiveArrive ==
    ASSUME Inv, Inv', QueueOnly, LiveInv, NEW t \in Threads, Arrive(t)
    PROVE  LiveInv'
<1>1. Keeps /\ UNCHANGED <<exec, latest, orders>> /\ loc[t].pc = "idle"
  BY ArriveMoves, SavedKeeps
<1>2. OrdersOK /\ OrdersOK'
  BY <1>1, LiveSame DEF LiveInv
<1>3. \A r \in Proposals : LiveOrders(r)' = LiveOrders(r) /\ (Alive(r)' <=> Alive(r))
  BY <1>1, <1>2, LiveSame
<1>4. ASSUME NEW u \in Threads PROVE Course(loc[u])' /\ Stage(loc[u])'
  <2>1. CASE u # t
    BY <1>1, <1>2, <2>1, ArriveMoves, StageKept DEF LiveInv
  <2>2. CASE u = t
    <3>1. /\ loc'[t].then = "idle" /\ loc'[t].pc \in {"get", "item"}
          /\ loc'[t].k \in {"idle", "return", "approve", "reject", "check_open"}
      BY ArriveMoves DEF QueueOnly
    <3> QED BY <2>2, <3>1 DEF Course, CourseAt, Stage, StageAt, BeforeOrder, TraderPcs
  <2> QED BY <2>1, <2>2
<1>5. \A r \in Proposals : Recording(r) => Recording(r)'
  BY <1>1, ArriveMoves DEF Recording
<1> QED BY <1>2, <1>3, <1>4, <1>5 DEF LiveInv

LEMMA LiveEnvironment ==
    ASSUME Inv, Inv', QueueOnly, LiveInv, Environment
    PROVE  LiveInv'
<1>1. Keeps /\ UNCHANGED <<exec, latest, orders>>
  BY EnvironmentMoves, SavedKeeps
<1>2. OrdersOK /\ OrdersOK'
  BY <1>1, LiveSame DEF LiveInv
<1>3. \A r \in Proposals : LiveOrders(r)' = LiveOrders(r) /\ (Alive(r)' <=> Alive(r))
  BY <1>1, <1>2, LiveSame
<1>4. ASSUME NEW u \in Threads
      PROVE  loc'[u] = loc[u] \/ (loc'[u] = Idle /\ "crash" \in Events)
  BY EnvironmentMoves
<1>5. ASSUME NEW u \in Threads PROVE Course(loc[u])' /\ Stage(loc[u])'
  <2>1. CASE loc'[u] = loc[u]
    BY <1>1, <1>2, <2>1, StageKept DEF LiveInv
  <2>2. CASE loc'[u] = Idle
    BY <2>2, IdleFields DEF Course, CourseAt, Stage, StageAt, BeforeOrder, TraderPcs
  <2> QED BY <1>4, <2>1, <2>2
<1>6. ASSUME NEW r \in Proposals, LiveOrders(r)' # {} PROVE Alive(r)' \/ Recording(r)'
  <2>1. LiveOrders(r) # {} /\ (Alive(r) \/ Recording(r))
    BY <1>3, <1>6 DEF LiveInv
  <2>2. CASE Alive(r)
    BY <1>3, <2>2
  <2>3. CASE Recording(r)
    <3>1. PICK u \in Threads : loc[u].q # None /\ loc[u].p = r /\ loc[u].pc \in {"dupcheck", "record"}
      BY <2>3 DEF Recording
    <3>2. Route = "alpaca"
      BY <2>1, <3>1 DEF LiveInv, Stage, StageAt
    <3>3. loc'[u] = loc[u]
      BY <1>4, <3>2 DEF QueueOnly
    <3> QED BY <3>1, <3>3 DEF Recording
  <2> QED BY <2>1, <2>2, <2>3
<1> QED BY <1>2, <1>3, <1>5, <1>6 DEF LiveInv

\* One element at most.
LEMMA AtMostOne ==
    ASSUME LiveInv, NEW p \in Proposals
    PROVE  Cardinality(LiveOrders(p)) <= 1
<1>1. CASE LiveOrders(p) = {}
  BY <1>1, FS_EmptySet
<1>2. CASE LiveOrders(p) # {}
  <2>1. PICK o : o \in LiveOrders(p)
    BY <1>2
  <2>2. LiveOrders(p) = {o}
    BY <2>1 DEF LiveInv
  <2>3. Cardinality({o}) = 1
    BY FS_Singleton
  <2> QED BY <2>2, <2>3
<1> QED BY <1>1, <1>2

\* A proposal never has two orders that were not rejected, across any number of re-enqueues,
\* threads and re-claimed items, while one container processes the queue and every order comes
\* from it: under _ENTRY_LOCK a worker looks for an execution that did not fail before it
\* claims, and records the order before it lets go (coordinator.py 93-130, 541-561;
\* trader.py 112-154).  On the eToro route a crash changes nothing: the record is written
\* first.  On the Alpaca route it is excluded.
THEOREM OneLiveOrder == OneContainer /\ QueueOnly => (Spec => []OneLiveOrderPerProposal)
<1> SUFFICES ASSUME OneContainer, QueueOnly PROVE Spec => []OneLiveOrderPerProposal
  OBVIOUS
<1>1. Init => Inv /\ ReleaseInv /\ LiveInv
  <2> SUFFICES ASSUME Init PROVE LiveInv
    BY InitInv, ReleaseInit
  <2>1. \A t \in Threads : loc[t] = Idle
    BY DEF Init
  <2>2. Course(Idle) /\ Stage(Idle)
    BY IdleFields DEF Course, CourseAt, Stage, StageAt, BeforeOrder, TraderPcs
  <2>3. OrdersOK /\ \A p \in Proposals : LiveOrders(p) = {}
    BY DEF Init, OrdersOK, LiveOrders
  <2> QED BY <2>1, <2>2, <2>3 DEF LiveInv
<1>2. Inv /\ ReleaseInv /\ LiveInv /\ [Next]_vars => (Inv /\ ReleaseInv /\ LiveInv)'
  <2> SUFFICES ASSUME Inv, ReleaseInv, LiveInv, [Next]_vars PROVE LiveInv'
    BY NextInv, ReleaseNext
  <2>1. Inv' /\ LockHeld
    BY NextInv DEF ReleaseInv
  <2>2. CASE UNCHANGED vars
    <3>1. Keeps /\ UNCHANGED <<exec, latest, orders>> /\ loc' = loc
      BY <2>2, SavedKeeps DEF vars, saved
    <3>2. OrdersOK /\ OrdersOK'
      BY <2>1, <3>1, LiveSame DEF LiveInv
    <3>3. \A r \in Proposals : LiveOrders(r)' = LiveOrders(r) /\ (Alive(r)' <=> Alive(r))
      BY <2>1, <3>1, <3>2, LiveSame
    <3>4. \A u \in Threads : Course(loc[u])' /\ Stage(loc[u])'
      BY <2>1, <3>1, <3>2, StageKept DEF LiveInv
    <3>5. \A r \in Proposals : Recording(r)' <=> Recording(r)
      BY <3>1 DEF Recording
    <3> QED BY <3>2, <3>3, <3>4, <3>5 DEF LiveInv
  <2>3. ASSUME NEW t \in Threads, Step(t) PROVE LiveInv'
    BY <2>1, <2>3, LiveQueue, LiveBroker, LiveTrader DEF Step
  <2>4. ASSUME NEW t \in Threads, RaiseError(t) PROVE LiveInv'
    BY <2>1, <2>4, LiveBroker
  <2> QED BY <2>1, <2>2, <2>3, <2>4, LiveArrive, LiveEnvironment DEF Next
<1>3. LiveInv => OneLiveOrderPerProposal
  BY AtMostOne DEF OneLiveOrderPerProposal
<1> QED BY <1>1, <1>2, <1>3, PTL DEF Spec

-----------------------------------------------------------------------------
(* No second submission *)

\* One container sends to Alpaca, and neither a crash nor a storage error comes between an
\* execution's record and the write of its id to the item.
RecordsFollow == Route = "alpaca" /\ "crash" \notin Events /\ "error" \notin Events

\* No execution record carries the item's client_order_id.
Unsent(q) == \A e \in ExecIds : exec[e].st # None => exec[e].cid # q

\* A worker between its first look at the item and the record of the execution; one
\* between that record and the write of its id to the item.
Early(s, k) ==
    \/ s \in {"latest", "claim", "reload", "checked", "gates", "block", "submit", "dupcheck",
              "record", "fail"}
    \/ s \in {"get", "expire"} /\ k = "checked"
Closing(s, k) ==
    s \in {"mark", "mirror", "finish", "failitem"} \/ (s \in {"get", "expire"} /\ k = "mark")

SendingAt(s, k, then, q) ==
    /\ s \notin TraderPcs /\ k \in {"idle", "checked", "mark"}
    /\ then \in {"idle", "mirror", "finish"}
    /\ s = "mark" \/ (s \in {"get", "expire"} /\ k = "mark") => then # "idle"
    /\ Early(s, k) => Unsent(q)

Sending(l) == l.q # None => SendingAt(l.pc, l.k, l.then, l.q)

\* Whoever recorded an execution of item q is about to write its id there, or has.
Named(q) ==
    \/ queue[q].ex # None
    \/ \E t \in Threads : loc[t].q = q /\ Closing(loc[t].pc, loc[t].k)

ResubInv ==
    /\ \A t \in Threads : Sending(loc[t])
    /\ \A q \in QueueIds : Unsent(q) \/ Named(q)
    /\ \A q \in QueueIds : queue[q].st = None => queue[q].ex = None

\* Executions are not deleted, and a new one is of item q.
Records(q) ==
    \A e \in ExecIds : exec'[e].st # None => \/ exec[e].st # None /\ exec'[e].cid = exec[e].cid
                                             \/ exec'[e].cid = q

LEMMA IdleSending == Sending(Idle)
BY IdleFields DEF Sending

LEMMA UnsentKept ==
    ASSUME NEW q, NEW o, Records(q), o # q, Unsent(o)
    PROVE  Unsent(o)'
BY DEF Unsent, Records

LEMMA ResubTo ==
    ASSUME Inv, OneContainer, LockHeld, ResubInv, NEW t \in Threads, loc[t].pc # "idle",
           NEW q \in QueueIds \cup {None}, q = loc[t].q, Records(q),
           \A o \in QueueIds : /\ queue[o].ex # None => queue'[o].ex # None
                               /\ queue'[o] = queue[o] \/ queue'[o].st # None,
           NEW s, NEW k, NEW e, NEW then, NEW row, NEW try, To(t, s, k, e, then, row, try),
           q # None /\ s # "return" => SendingAt(s, k, then, q)',
           q # None /\ (Closing(loc[t].pc, loc[t].k) \/ ~(Unsent(q) => Unsent(q)'))
              => queue'[q].ex # None \/ (s # "return" /\ Closing(s, k))
    PROVE  ResubInv'
<1>1. ASSUME NEW u \in Threads PROVE Sending(loc[u])'
  <2>1. CASE u = t
    <3>1. CASE s = "return" \/ q = None
      BY <2>1, <3>1, IdleFields DEF To, Sending
    <3>2. CASE s # "return" /\ q # None
      <4>1. loc'[t].pc = s /\ loc'[t].k = k /\ loc'[t].then = then /\ loc'[t].q = q
        BY <3>2 DEF To
      <4> QED BY <2>1, <3>2, <4>1 DEF Sending, SendingAt, Unsent
    <3> QED BY <3>1, <3>2
  <2>2. CASE u # t
    <3>1. loc'[u] = loc[u] /\ Sending(loc[u])
      BY <2>2 DEF To, ResubInv
    <3>2. loc[u].q # None => loc[u].q # q
      BY <2>2, Alone
    <3>3. loc[u].q # None /\ Unsent(loc[u].q) => Unsent(loc[u].q)'
      BY <3>1, <3>2 DEF Unsent, Records
    <3> QED BY <3>1, <3>3 DEF Sending, SendingAt
  <2> QED BY <2>1, <2>2
<1>2. ASSUME NEW o \in QueueIds, ~Unsent(o)' PROVE Named(o)'
  <2>0. o # None
    BY PipelineConstants
  <2>1. CASE o # q
    <3>1. Named(o)
      BY <1>2, <2>1, UnsentKept DEF ResubInv
    <3>2. CASE queue[o].ex # None
      BY <3>2 DEF Named
    <3>3. CASE \E u \in Threads : loc[u].q = o /\ Closing(loc[u].pc, loc[u].k)
      <4>1. PICK u \in Threads : loc[u].q = o /\ Closing(loc[u].pc, loc[u].k)
        BY <3>3
      <4>2. loc'[u] = loc[u]
        BY <2>1, <4>1 DEF To
      <4> QED BY <4>1, <4>2 DEF Named, Closing
    <3> QED BY <3>1, <3>2, <3>3 DEF Named
  <2>2. CASE o = q
    <3>1. CASE queue[q].ex # None
      BY <2>2, <3>1 DEF Named
    <3>2. CASE queue[q].ex = None
      <4>1. Closing(loc[t].pc, loc[t].k) \/ ~(Unsent(q) => Unsent(q)')
        <5> SUFFICES ASSUME ~Unsent(q) PROVE Closing(loc[t].pc, loc[t].k)
          BY <1>2, <2>2
        <5>1. PICK u \in Threads : loc[u].q = q /\ Closing(loc[u].pc, loc[u].k)
          BY <2>2, <3>2 DEF ResubInv, Named
        <5>2. u = t
          BY <2>0, <2>2, <5>1, Alone
        <5> QED BY <5>1, <5>2
      <4>2. CASE queue'[q].ex # None
        BY <2>2, <4>2 DEF Named
      <4>3. CASE s # "return" /\ Closing(s, k)
        <5>1. loc'[t].pc = s /\ loc'[t].k = k /\ loc'[t].q = q
          BY <4>3 DEF To
        <5> QED BY <2>2, <4>3, <5>1 DEF Named, Closing
      <4> QED BY <2>0, <2>2, <4>1, <4>2, <4>3
    <3> QED BY <3>1, <3>2
  <2> QED BY <2>1, <2>2
<1>3. \A o \in QueueIds : queue'[o].st = None => queue'[o].ex = None
  BY DEF ResubInv
<1> QED BY <1>1, <1>2, <1>3 DEF ResubInv

\* A step that writes no execution.
LEMMA ResubQuiet ==
    ASSUME Inv, OneContainer, LockHeld, ResubInv, NEW t \in Threads, loc[t].pc # "idle",
           exec' = exec, \A o \in QueueIds : /\ queue[o].ex # None => queue'[o].ex # None
                                             /\ queue'[o] = queue[o] \/ queue'[o].st # None,
           NEW s, NEW k, NEW e, NEW then, NEW row, NEW try, To(t, s, k, e, then, row, try),
           loc[t].q # None /\ s # "return" => SendingAt(s, k, then, loc[t].q),
           loc[t].q # None /\ Closing(loc[t].pc, loc[t].k)
              => queue'[loc[t].q].ex # None \/ (s # "return" /\ Closing(s, k))
    PROVE  ResubInv'
<1>1. PICK q \in QueueIds \cup {None} : q = loc[t].q
  BY ThreadFacts DEF Local
<1>2. Records(q) /\ (Unsent(q)' <=> Unsent(q))
  BY DEF Records, Unsent
<1>3. SendingAt(s, k, then, q) => SendingAt(s, k, then, q)'
  BY <1>2 DEF SendingAt
<1> QED BY <1>1, <1>2, <1>3, ResubTo

\* What the worker of an item knows: its item names an execution, or it is about to name
\* the one it recorded, or there is none.
LEMMA ResubFacts ==
    ASSUME OneContainer, LockHeld, ResubInv, NEW t \in Threads, loc[t].q \in QueueIds,
           loc[t].q # None
    PROVE  /\ SendingAt(loc[t].pc, loc[t].k, loc[t].then, loc[t].q)
           /\ \/ queue[loc[t].q].ex # None
              \/ Closing(loc[t].pc, loc[t].k)
              \/ Unsent(loc[t].q)
<1>1. SendingAt(loc[t].pc, loc[t].k, loc[t].then, loc[t].q)
  BY DEF ResubInv, Sending
<1>2. CASE Named(loc[t].q) /\ queue[loc[t].q].ex = None
  <2>1. PICK u \in Threads : loc[u].q = loc[t].q /\ Closing(loc[u].pc, loc[u].k)
    BY <1>2 DEF Named
  <2>2. u = t
    BY <2>1, Alone
  <2> QED BY <1>1, <2>1, <2>2
<1> QED BY <1>1, <1>2 DEF ResubInv

\* A new execution of the worker's item, recorded before its id is written.
LEMMA ResubCreates ==
    ASSUME Inv, OneContainer, LockHeld, ResubInv, NEW t \in Threads, loc[t].pc # "idle",
           NEW x \in ExecIds, NEW st, NEW o, Creates(t, x, st, o),
           NEW s, NEW k, NEW e, NEW then, NEW row, NEW try, To(t, s, k, e, then, row, try),
           loc[t].q # None => /\ s # "return" /\ Closing(s, k) /\ ~Early(s, k)
                              /\ \A q : SendingAt(s, k, then, q)
    PROVE  ResubInv'
<1>1. PICK q \in QueueIds \cup {None} : q = loc[t].q
  BY ThreadFacts DEF Local
<1>2. Records(q)
  <2>1. exec \in [ExecIds -> ExecutionRow]
    BY DEF Inv, Good, TablesOK
  <2> QED BY <1>1, <2>1 DEF Creates, Records
<1>3. q # None => SendingAt(s, k, then, q)'
  BY <1>1 DEF SendingAt
<1>4. queue' = queue
  BY DEF Creates
<1> QED BY <1>1, <1>2, <1>3, <1>4, ResubTo

LEMMA ResubStep ==
    ASSUME Inv, RecordsFollow, OneContainer, ReleaseInv, ResubInv, NEW t \in Threads,
           Step(t) \/ RaiseError(t)
    PROVE  ResubInv'
<1>0. LockHeld
  BY DEF ReleaseInv
<1>q. loc[t].q # None /\ loc[t].pc # "idle" =>
         /\ loc[t].q \in QueueIds
         /\ SendingAt(loc[t].pc, loc[t].k, loc[t].then, loc[t].q)
         /\ \/ queue[loc[t].q].ex # None
            \/ Closing(loc[t].pc, loc[t].k)
            \/ Unsent(loc[t].q)
  BY <1>0, ThreadFacts, ResubFacts
<1>i. loc[t].pc \in ItemSteps => loc[t].q # None /\ loc[t].pc # "idle"
  BY ThreadFacts DEF ItemSteps
\* A step of an early worker, or of a thread without an item.
<1>e. ASSUME loc[t].pc # "idle", exec' = exec, queue' = queue,
             NEW s, NEW k, NEW e, NEW then, NEW row, NEW try, To(t, s, k, e, then, row, try),
             loc[t].q # None => ~Closing(loc[t].pc, loc[t].k),
             loc[t].q # None /\ s # "return" => SendingAt(s, k, then, loc[t].q)
      PROVE  ResubInv'
  BY <1>0, <1>e, ResubQuiet
\* The exception: none can come while an item's execution is recorded and not named.
<1>r. ASSUME loc[t].pc \in {"submit", "record", "refuse", "buy"}, exec' = exec, queue' = queue, Raises(t)
      PROVE  ResubInv'
  <2>1. PICK s \in {"fail", "return"} : To(t, s, "idle", None, "idle", loc[t].row, FALSE)
    BY <1>r DEF Raises
  <2>2. ~Closing(loc[t].pc, loc[t].k) /\ loc[t].pc # "idle"
    BY <1>r DEF Closing
  <2>3. loc[t].q # None => Unsent(loc[t].q)
    BY <1>q, <1>r, <2>2 DEF SendingAt, Early, TraderPcs
  <2>4. loc[t].q # None => SendingAt(s, "idle", "idle", loc[t].q)
    BY <2>3 DEF SendingAt, TraderPcs
  <2> QED BY <1>e, <1>r, <2>1, <2>2, <2>4
\* A write that closes the item, or keeps its empty execution id.
<1>w. ASSUME loc[t].pc \in ItemSteps, NEW st, NEW id, st # None, Writes(t, st, id),
             id # None \/ queue[loc[t].q].ex = None, NEW s, Jumps(t, s),
             Closing(loc[t].pc, loc[t].k) => id # None,
             s # "return" => SendingAt(s, "idle", loc[t].then, loc[t].q)
      PROVE  ResubInv'
  <2>1. queue \in [QueueIds -> QueueRow]
    BY DEF Inv, Good, TablesOK
  <2>2. /\ exec' = exec /\ queue'[loc[t].q].ex = id /\ queue'[loc[t].q].st = st
        /\ \A o \in QueueIds \ {loc[t].q} : queue'[o] = queue[o]
    BY <1>i, <1>q, <1>w, <2>1 DEF Writes, QueueRow
  <2>3. \A o \in QueueIds : /\ queue[o].ex # None => queue'[o].ex # None
                            /\ queue'[o] = queue[o] \/ queue'[o].st # None
    BY <1>w, <2>2
  <2>4. To(t, s, "idle", loc[t].ex, loc[t].then, loc[t].row, loc[t].try)
    BY <1>w DEF Jumps
  <2> QED BY <1>0, <1>i, <1>w, <2>2, <2>3, <2>4, ResubQuiet
<1>1. CASE GetProposal(t) \/ ExpireIfNeeded(t)
  <2>1. exec' = exec /\ queue' = queue /\ loc[t].pc \in {"get", "expire"}
    BY <1>1, ProposalMoves DEF saved
  <2>2. PICK s \in {"expire", loc[t].k} :
           To(t, s, loc[t].k, loc[t].ex, loc[t].then, loc[t].row, loc[t].try)
    BY <1>1, ProposalMoves DEF Goes
  <2>3. loc[t].pc # "idle"
    BY <2>1
  <2>4. loc[t].q # None => /\ SendingAt(s, loc[t].k, loc[t].then, loc[t].q)
                           /\ Closing(loc[t].pc, loc[t].k) => s # "return" /\ Closing(s, loc[t].k)
    BY <1>q, <2>1, <2>3 DEF SendingAt, Early, Closing, TraderPcs
  <2> QED BY <1>0, <2>1, <2>2, <2>3, <2>4, ResubQuiet
<1>2. CASE Approve(t) \/ Reject(t)
  <2>1. exec' = exec /\ queue' = queue /\ loc[t].pc \in {"approve", "reject"} /\ Jumps(t, "return")
    BY <1>2, ProposalMoves DEF saved
  <2>2. ~Closing(loc[t].pc, loc[t].k) /\ loc[t].pc # "idle"
    BY <2>1 DEF Closing
  <2> QED BY <1>e, <2>1, <2>2 DEF Jumps
<1>3. CASE MarkExecuted(t)
  <2>1. exec' = exec /\ queue' = queue /\ loc[t].pc = "mark" /\ Jumps(t, loc[t].then)
    BY <1>3, ProposalMoves DEF saved
  <2>2. To(t, loc[t].then, "idle", loc[t].ex, loc[t].then, loc[t].row, loc[t].try)
    BY <2>1 DEF Jumps
  <2>3. loc[t].q # None => /\ SendingAt(loc[t].then, "idle", loc[t].then, loc[t].q)
                           /\ loc[t].then # "return" /\ Closing(loc[t].then, "idle")
    BY <1>q, <2>1 DEF SendingAt, Early, Closing, TraderPcs
  <2> QED BY <1>0, <2>1, <2>2, <2>3, ResubQuiet
<1>4. CASE CheckOpen(t)
  <2>1. exec' = exec /\ queue' = queue /\ loc[t].pc = "check_open"
    BY <1>4, ProposalMoves DEF saved
  <2>2. PICK s \in {"insert", "return"} :
           To(t, s, "idle", loc[t].ex, loc[t].then, loc[t].row, loc[t].try)
    BY <1>4, ProposalMoves DEF Jumps
  <2>3. loc[t].q # None => /\ SendingAt(s, "idle", loc[t].then, loc[t].q)
                           /\ ~Closing(loc[t].pc, loc[t].k)
    BY <1>q, <2>1 DEF SendingAt, Early, Closing, TraderPcs
  <2> QED BY <1>e, <2>1, <2>2, <2>3
<1>5. CASE Insert(t)
  <2>1. exec' = exec /\ loc[t].pc = "insert" /\ Jumps(t, "return")
    BY <1>5, ProposalMoves
  <2>2. PICK o \in QueueIds : queue' \in {queue, [queue EXCEPT ![o] =
                                 [st |-> "queued", p |-> loc[t].p, ex |-> None]]} /\ queue[o].st = None
    BY <1>5, ProposalMoves
  <2>3. queue[o].ex = None
    BY <2>2 DEF ResubInv
  <2>4. \A r \in QueueIds : /\ queue[r].ex # None => queue'[r].ex # None
                            /\ queue'[r] = queue[r] \/ queue'[r].st # None
    BY <2>2, <2>3 DEF Inv, Good, TablesOK, None
  <2>5. ~Closing(loc[t].pc, loc[t].k)
    BY <2>1 DEF Closing
  <2> QED BY <1>0, <2>1, <2>4, <2>5, ResubQuiet DEF Jumps
<1>6. CASE ReadItem(t)
  <2>1. exec' = exec /\ queue' = queue /\ loc[t].pc = "item"
    BY <1>6, ItemMoves DEF saved
  <2>2. ~Closing(loc[t].pc, loc[t].k) /\ loc[t].q # None /\ loc[t].pc # "idle"
    BY <1>i, <2>1 DEF Closing, ItemSteps
  <2>3. CASE Goes(t, "return")
    BY <1>e, <2>1, <2>2, <2>3 DEF Goes
  <2>4. CASE Goes(t, "latest") /\ queue[loc[t].q].ex = None
    <3>1. SendingAt("latest", loc[t].k, loc[t].then, loc[t].q)
      BY <1>q, <2>2, <2>4 DEF SendingAt, TraderPcs
    <3> QED BY <1>e, <2>1, <2>2, <2>4, <3>1 DEF Goes
  <2> QED BY <1>6, <2>3, <2>4, ItemMoves
<1>7. CASE ReadLatest(t)
  <2>1. exec' = exec /\ queue' = queue /\ loc[t].pc = "latest"
    BY <1>7, ItemMoves DEF saved
  <2>2. ~Closing(loc[t].pc, loc[t].k) /\ loc[t].q # None /\ loc[t].pc # "idle"
    BY <1>i, <2>1 DEF Closing, ItemSteps
  <2>3. \E s \in {"adopt", "claim", "return"} : \E e :
           To(t, s, loc[t].k, e, loc[t].then, loc[t].row, loc[t].try)
    BY <1>7, ItemMoves DEF Goes
  <2>4. \A s \in {"adopt", "claim", "return"} : SendingAt(s, loc[t].k, loc[t].then, loc[t].q)
    BY <1>q, <2>1, <2>2 DEF SendingAt, Early, TraderPcs
  <2> QED BY <1>e, <2>1, <2>2, <2>3, <2>4
<1>8. CASE AdoptExecution(t)
  <2>1. loc[t].pc = "adopt" /\ Writes(t, "executed", loc[t].ex) /\ Jumps(t, "return")
    BY <1>8, ItemMoves
  <2>2. loc[t].pc \in ItemSteps /\ loc[t].ex # None
    BY <2>1, ThreadFacts DEF ItemSteps, ExecutionSteps
  <2> QED BY <1>w, <2>1, <2>2 DEF None
<1>9. CASE ClaimForProcessing(t)
  <2>1. loc[t].pc = "claim" /\ loc[t].pc \in ItemSteps /\ loc[t].q # None
    BY <1>9, <1>i, ItemMoves DEF ItemSteps
  <2>2. ~Closing(loc[t].pc, loc[t].k) /\ queue[loc[t].q].ex = None
    BY <2>1, FreshFacts DEF Closing
  <2>3. SendingAt("reload", "idle", loc[t].then, loc[t].q)
    BY <1>q, <2>1 DEF SendingAt, Early, TraderPcs
  <2>4. CASE Writes(t, "processing", queue[loc[t].q].ex) /\ Jumps(t, "reload")
    <3>1. PICK id : id = queue[loc[t].q].ex
      OBVIOUS
    <3>2. Writes(t, "processing", id)
      BY <2>4, <3>1
    <3> QED BY <1>w, <2>1, <2>2, <2>3, <2>4, <3>1, <3>2 DEF None
  <2>5. CASE UNCHANGED saved /\ Jumps(t, "return")
    BY <1>e, <2>1, <2>2, <2>5 DEF saved, Jumps
  <2> QED BY <1>9, <2>4, <2>5, ItemMoves
<1>10. CASE ReloadItem(t)
  <2>1. /\ exec' = exec /\ queue' = queue /\ loc[t].pc = "reload"
        /\ To(t, "get", "checked", loc[t].ex, loc[t].then, queue[loc[t].q].ex, loc[t].try)
    BY <1>10, ItemMoves DEF saved
  <2>2. ~Closing(loc[t].pc, loc[t].k) /\ loc[t].q # None /\ loc[t].pc # "idle"
    BY <1>i, <2>1 DEF Closing, ItemSteps
  <2>3. SendingAt("get", "checked", loc[t].then, loc[t].q)
    BY <1>q, <2>1, <2>2 DEF SendingAt, Early, TraderPcs
  <2> QED BY <1>e, <2>1, <2>2, <2>3
<1>11. CASE CheckApproved(t)
  <2>1. exec' = exec /\ queue' = queue /\ loc[t].pc = "checked"
    BY <1>11, ItemMoves DEF saved
  <2>2. ~Closing(loc[t].pc, loc[t].k) /\ loc[t].q # None /\ loc[t].pc # "idle"
    BY <1>i, <2>1 DEF Closing, ItemSteps
  <2>3. \A s \in {"gates", "block"} : SendingAt(s, "idle", loc[t].then, loc[t].q)
    BY <1>q, <2>1, <2>2 DEF SendingAt, Early, TraderPcs
  <2> QED BY <1>11, <1>e, <2>1, <2>2, <2>3, ItemMoves DEF Jumps
<1>12. CASE PassGates(t)
  <2>1. exec' = exec /\ queue' = queue /\ loc[t].pc = "gates"
    BY <1>12, ItemMoves DEF saved
  <2>2. ~Closing(loc[t].pc, loc[t].k) /\ loc[t].q # None /\ loc[t].pc # "idle"
    BY <1>i, <2>1 DEF Closing, ItemSteps
  <2>3. \E s \in {"return", "block", "submit"}, k \in {"idle", loc[t].k} : \E try :
           To(t, s, k, loc[t].ex, loc[t].then, loc[t].row, try)
    BY <1>12, ItemMoves DEF Jumps, RecordsFollow
  <2>4. \A s \in {"return", "block", "submit"}, k \in {"idle", loc[t].k} :
           SendingAt(s, k, loc[t].then, loc[t].q)
    BY <1>q, <2>1, <2>2 DEF SendingAt, Early, TraderPcs
  <2> QED BY <1>e, <2>1, <2>2, <2>3, <2>4
<1>13. CASE BlockItem(t)
  <2>1. loc[t].pc = "block" /\ Writes(t, "blocked", loc[t].row) /\ Jumps(t, "return")
    BY <1>13, ItemMoves
  <2>2. loc[t].pc \in ItemSteps /\ ~Closing(loc[t].pc, loc[t].k) /\ queue[loc[t].q].ex = None
    BY <1>i, <2>1, FreshFacts DEF ItemSteps, Closing
  <2> QED BY <1>w, <2>1, <2>2 DEF None
<1>14. CASE SubmitOrder(t)
  <2>1. exec' = exec /\ queue' = queue /\ loc[t].pc = "submit"
    BY <1>14, BrokerMoves DEF saved, Orders
  <2>2. ~Closing(loc[t].pc, loc[t].k) /\ loc[t].q # None /\ loc[t].pc # "idle"
    BY <1>i, <2>1 DEF Closing, ItemSteps
  <2>3. SendingAt("dupcheck", "idle", loc[t].then, loc[t].q)
    BY <1>q, <2>1, <2>2 DEF SendingAt, Early, TraderPcs
  <2>4. CASE Jumps(t, "dupcheck")
    BY <1>e, <2>1, <2>2, <2>3, <2>4 DEF Jumps
  <2> QED BY <1>14, <1>r, <2>1, <2>4, BrokerMoves
<1>15. CASE CheckDuplicate(t)
  <2>1. exec' = exec /\ queue' = queue /\ loc[t].pc = "dupcheck"
    BY <1>15, BrokerMoves DEF saved
  <2>2. ~Closing(loc[t].pc, loc[t].k) /\ loc[t].q # None /\ loc[t].pc # "idle"
    BY <1>i, <2>1 DEF Closing, ItemSteps
  <2>3. SendingAt("record", "idle", loc[t].then, loc[t].q) /\ SendingAt("get", "mark", "finish", loc[t].q)
    BY <1>q, <2>1, <2>2 DEF SendingAt, Early, TraderPcs
  <2>4. CASE Jumps(t, "record")
    BY <1>e, <2>1, <2>2, <2>3, <2>4 DEF Jumps
  <2>5. CASE \E e : Marks(t, e, "finish")
    BY <1>e, <2>1, <2>2, <2>3, <2>5 DEF Marks
  <2> QED BY <1>15, <2>4, <2>5, BrokerMoves
<1>n. /\ \A q : SendingAt("get", "mark", "mirror", q) /\ SendingAt("get", "mark", "finish", q)
      /\ Closing("get", "mark") /\ ~Early("get", "mark")
      /\ \A k : Closing("failitem", k) /\ ~Early("failitem", k)
  BY DEF SendingAt, Early, Closing, TraderPcs
<1>16. CASE RecordExecution(t)
  <2>1. loc[t].pc = "record"
    BY <1>16, BrokerMoves
  <2>2. CASE UNCHANGED saved /\ Raises(t)
    BY <1>r, <2>1, <2>2 DEF saved
  <2>3. ASSUME NEW e \in ExecIds, NEW s, Creates(t, e, s, loc[t].q), Marks(t, e, "mirror")
        PROVE  ResubInv'
    <3>1. PICK o : o = loc[t].q
      OBVIOUS
    <3>2. Creates(t, e, s, o)
      BY <2>3, <3>1
    <3>3. To(t, "get", "mark", e, "mirror", loc[t].row, loc[t].try)
      BY <2>3 DEF Marks
    <3> QED BY <1>0, <1>n, <2>1, <3>2, <3>3, ResubCreates
  <2> QED BY <1>16, <2>2, <2>3, BrokerMoves DEF RecordsFollow
<1>17. CASE MirrorParallel(t)
  <2>1. exec' = exec /\ queue' = queue /\ loc[t].pc = "mirror" /\ Jumps(t, "finish")
    BY <1>17, BrokerMoves DEF saved, RecordsFollow
  <2>2. loc[t].q # None /\ loc[t].pc # "idle"
    BY <1>i, <2>1 DEF ItemSteps
  <2>3. SendingAt("finish", "idle", loc[t].then, loc[t].q) /\ Closing("finish", "idle")
    BY <1>q, <2>1, <2>2 DEF SendingAt, Early, TraderPcs, Closing
  <2> QED BY <1>0, <2>1, <2>2, <2>3, ResubQuiet DEF Jumps
<1>18. CASE FinishItem(t)
  <2>1. loc[t].pc = "finish" /\ Writes(t, "executed", loc[t].ex) /\ Jumps(t, "return")
    BY <1>18, BrokerMoves
  <2>2. loc[t].pc \in ItemSteps /\ loc[t].ex # None
    BY <2>1, ThreadFacts DEF ItemSteps, ExecutionSteps
  <2> QED BY <1>w, <2>1, <2>2 DEF None
<1>19. CASE BrokerFailed(t)
  <2>1. loc[t].pc = "fail" /\ loc[t].q # None
    BY <1>19, <1>i, BrokerMoves DEF ItemSteps
  <2>2. PICK e \in ExecIds :
           \/ Creates(t, e, "submitted", None) /\ Marks(t, e, "finish")
           \/ /\ Creates(t, e, "failed", None)
              /\ To(t, "failitem", loc[t].k, e, loc[t].then, loc[t].row, loc[t].try)
    BY <1>19, BrokerMoves
  <2>3. CASE Creates(t, e, "submitted", None) /\ Marks(t, e, "finish")
    <3>1. To(t, "get", "mark", e, "finish", loc[t].row, loc[t].try)
      BY <2>3 DEF Marks
    <3> QED BY <1>0, <1>n, <2>1, <2>3, <3>1, ResubCreates
  <2>4. CASE /\ Creates(t, e, "failed", None)
             /\ To(t, "failitem", loc[t].k, e, loc[t].then, loc[t].row, loc[t].try)
    <3>1. \A q : SendingAt("failitem", loc[t].k, loc[t].then, q)
      BY <1>q, <2>1 DEF SendingAt, Early, TraderPcs
    <3> QED BY <1>0, <1>n, <2>1, <2>4, <3>1, ResubCreates
  <2> QED BY <2>2, <2>3, <2>4
<1>20. CASE BlockFailedItem(t)
  <2>1. loc[t].pc = "failitem" /\ Writes(t, "blocked", loc[t].ex) /\ Jumps(t, "return")
    BY <1>20, BrokerMoves
  <2>2. loc[t].pc \in ItemSteps /\ loc[t].ex # None
    BY <2>1, ThreadFacts DEF ItemSteps, ExecutionSteps
  <2> QED BY <1>w, <2>1, <2>2 DEF None
\* TraderService, for a thread without an item: the client_order_id is of none.
<1>21. CASE Trade(t) \/ RefuseTrade(t) \/ CreateValidated(t) \/ OpenMarketOrder(t) \/ UpdateExecution(t)
  <2>1. loc[t].pc \in TraderPcs /\ loc[t].pc # "idle"
    BY <1>21, TraderMoves DEF TraderPcs
  <2>2. loc[t].q = None
    BY <1>q, <2>1 DEF SendingAt
  <2>3. CASE Trade(t)
    BY <1>e, <2>1, <2>2, <2>3, TraderMoves DEF saved, Jumps
  <2>4. CASE RefuseTrade(t)
    <3>1. PICK e \in ExecIds : Creates(t, e, "blocked", None)
      BY <2>4, TraderMoves
    <3>2. Raises(t)
      BY <2>4, TraderMoves
    <3> QED BY <1>0, <2>1, <2>2, <3>1, <3>2, ResubCreates DEF Raises
  <2>5. CASE CreateValidated(t)
    <3>1. PICK e \in ExecIds :
             /\ Creates(t, e, "validated", None)
             /\ To(t, "buy", loc[t].k, e, loc[t].then, loc[t].row, loc[t].try)
      BY <2>5, TraderMoves
    <3> QED BY <1>0, <2>1, <2>2, <3>1, ResubCreates
  <2>6. CASE OpenMarketOrder(t)
    <3>1. exec' = exec /\ queue' = queue /\ (Jumps(t, "update") \/ Raises(t))
      BY <2>6, TraderMoves DEF saved, Orders
    <3> QED BY <1>e, <2>1, <2>2, <3>1 DEF Jumps, Raises
  <2>7. CASE UpdateExecution(t)
    <3>1. /\ queue' = queue /\ loc[t].pc = "update"
          /\ To(t, "get", "mark", loc[t].ex, "return", loc[t].row, loc[t].try)
      BY <2>2, <2>7, TraderMoves DEF Marks
    <3>2. PICK s \in BrokerStatus :
             exec' = [exec EXCEPT ![loc[t].ex] = [@ EXCEPT !.st = s, !.ord = loc[t].ex]]
      BY <2>7, TraderMoves
    <3>3. loc[t].ex \in ExecIds /\ exec[loc[t].ex].st # None /\ exec \in [ExecIds -> ExecutionRow]
      BY <3>1, ThreadFacts DEF ExecutionSteps, Inv, Good, TablesOK
    <3>4. Records(None)
      BY <3>2, <3>3 DEF Records, ExecutionRow
    <3> QED BY <1>0, <2>1, <2>2, <3>1, <3>4, ResubTo
  <2> QED BY <1>21, <2>3, <2>4, <2>5, <2>6, <2>7
<1>22. CASE RaiseError(t)
  BY <1>22, BrokerMoves DEF RecordsFollow
<1> QED BY <1>1, <1>2, <1>3, <1>4, <1>5, <1>6, <1>7, <1>8, <1>9, <1>10, <1>11, <1>12, <1>13, <1>14,
   <1>15, <1>16, <1>17, <1>18, <1>19, <1>20, <1>21, <1>22 DEF Step

LEMMA ResubArrive ==
    ASSUME Inv, OneContainer, ReleaseInv, ResubInv, NEW t \in Threads, Arrive(t)
    PROVE  ResubInv'
<1>1. exec' = exec /\ queue' = queue /\ loc[t].pc = "idle" /\ \A u \in Threads \ {t} : loc'[u] = loc[u]
  BY ArriveMoves DEF saved
<1>2. \A q : Unsent(q)' <=> Unsent(q)
  BY <1>1 DEF Unsent
<1>3. Sending(loc[t])'
  <2>1. CASE loc'[t].q = None
    BY <2>1 DEF Sending
  <2>2. CASE loc'[t].pc = "item" /\ loc'[t].k = "idle"
    <3>1. loc'[t].then = "idle"
      BY ArriveMoves
    <3> QED BY <2>2, <3>1 DEF Sending, SendingAt, Early, TraderPcs
  <2> QED BY <2>1, <2>2, ArriveMoves
<1>4. ASSUME NEW u \in Threads, u # t PROVE Sending(loc[u])'
  <2>1. loc'[u] = loc[u] /\ Sending(loc[u])
    BY <1>1, <1>4 DEF ResubInv
  <2> QED BY <1>2, <2>1 DEF Sending, SendingAt
<1>5. ASSUME NEW q \in QueueIds, Named(q) PROVE Named(q)'
  <2>1. CASE queue[q].ex # None
    BY <1>1, <2>1 DEF Named
  <2>2. CASE \E u \in Threads : loc[u].q = q /\ Closing(loc[u].pc, loc[u].k)
    <3>1. PICK u \in Threads : loc[u].q = q /\ Closing(loc[u].pc, loc[u].k)
      BY <2>2
    <3>2. loc'[u] = loc[u]
      <4>1. q # None
        BY PipelineConstants
      <4>2. u # t
        BY <1>1, <3>1 DEF Closing
      <4> QED BY <1>1, <4>2
    <3> QED BY <3>1, <3>2 DEF Named
  <2> QED BY <1>5, <2>1, <2>2 DEF Named
<1>6. \A q \in QueueIds : queue'[q].st = None => queue'[q].ex = None
  BY <1>1 DEF ResubInv
<1> QED BY <1>2, <1>3, <1>4, <1>5, <1>6 DEF ResubInv

\* Nothing written, nobody moved.
LEMMA ResubStutter ==
    ASSUME ResubInv, exec' = exec, queue' = queue, loc' = loc
    PROVE  ResubInv'
BY DEF ResubInv, Sending, SendingAt, Unsent, Named

\* An item whose submission already produced an execution record is not sent to the broker
\* again, through any number of lock timeouts, re-enqueues and re-processings of the item:
\* the record carries the item's client_order_id, and the thread that wrote it writes its id
\* to the item before it lets go of _ENTRY_LOCK, where the next worker's reads find it
\* (coordinator.py 93-130, 330-353).  A crash or a storage error between the two writes
\* would undo that, and so would a second container: both are excluded.
THEOREM NotSentTwice == OneContainer /\ RecordsFollow => (Spec => NoResubmission)
<1> SUFFICES ASSUME OneContainer, RecordsFollow PROVE Spec => NoResubmission
  OBVIOUS
<1> DEFINE Sends == \A t \in Threads : SubmitOrder(t) =>
                        \A e \in ExecIds : exec[e].st # None => exec[e].cid # loc[t].q
<1>1. Init => Inv /\ ReleaseInv /\ ResubInv
  <2> SUFFICES ASSUME Init PROVE ResubInv
    BY InitInv, ReleaseInit
  <2>1. \A t \in Threads : loc[t] = Idle
    BY DEF Init
  <2>2. \A q : Unsent(q)
    BY DEF Init, Unsent
  <2>3. \A q \in QueueIds : queue[q].ex = None
    BY DEF Init
  <2> QED BY <2>1, <2>2, <2>3, IdleSending DEF ResubInv
<1>2. Inv /\ ReleaseInv /\ ResubInv /\ [Next]_vars => (Inv /\ ReleaseInv /\ ResubInv)'
  <2> SUFFICES ASSUME Inv, ReleaseInv, ResubInv, [Next]_vars PROVE ResubInv'
    BY NextInv, ReleaseNext
  <2>1. CASE UNCHANGED vars
    BY <2>1, ResubStutter DEF vars
  <2>2. CASE Environment
    <3>1. exec' = exec /\ queue' = queue
      BY <2>2, EnvironmentMoves DEF saved
    <3>2. loc' = loc
      BY <2>2 DEF Environment, Crash, CreateProposal, PassExpiry, PassLockTimeout,
                  HaltAutomation, ResumeAutomation, RecordsFollow
    <3> QED BY <3>1, <3>2, ResubStutter
  <2> QED BY <2>1, <2>2, ResubArrive, ResubStep DEF Next
<1>3. Inv /\ ReleaseInv /\ ResubInv => [Sends]_vars
  <2> SUFFICES ASSUME Inv, ReleaseInv, ResubInv, NEW t \in Threads, SubmitOrder(t)
               PROVE  Unsent(loc[t].q)
    BY DEF Unsent
  <2>1. loc[t].pc = "submit"
    BY DEF SubmitOrder, At
  <2>2. loc[t].q # None
    BY <2>1, ThreadFacts DEF ItemSteps
  <2> QED BY <2>1, <2>2 DEF ResubInv, Sending, SendingAt, Early
<1> QED BY <1>1, <1>2, <1>3, PTL DEF Spec, NoResubmission
=============================================================================
