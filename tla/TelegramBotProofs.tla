-------------------------- MODULE TelegramBotProofs --------------------------
(***************************************************************************)
(* The command bot takes every update at most once and passes none over,    *)
(* for every number of updates, batch size, crashes and errors.  TakenOnce  *)
(* is not inductive: it needs that the batch in memory is exactly what      *)
(* follows telegram_last_update_id, and that nothing beyond that id was     *)
(* begun.  A scan is refused only while another has the slot: a taken lock  *)
(* is owed by the loop or by a scan of the current generation.              *)
(***************************************************************************)
EXTENDS TelegramBot, SequenceTheorems, TLAPS

Idle == {"poll", "next", "tasks"}
Handling == {"handle", "reply", "recover", "refused", "clear", "clearRefused", "acquire", "submit",
          "wait", "stop"}

LoopTypeOK ==
    /\ kinds \in Seq(Commands) /\ Len(kinds) <= MaxUpdates
    /\ lastId \in Nat /\ lastId <= Len(kinds)
    /\ bot \in [pc: Idle \cup Handling, batch: Seq(Nat), u: Nat]
    /\ bot.pc \in Handling => bot.u \in 1..lastId
    /\ runs \in [Updates -> Nat]

\* The batch is the run of updates after the last one taken.
BatchFollows ==
    /\ lastId + Len(bot.batch) <= Len(kinds)
    /\ \A n \in 1..Len(bot.batch) : bot.batch[n] = lastId + n

\* Nothing beyond the last update taken was begun, and that one only when it is handled.
NotAhead ==
    /\ \A u \in Updates : u > lastId => runs[u] = 0
    /\ bot.pc = "handle" => bot.u = lastId /\ runs[lastId] = 0

BotInv == LoopTypeOK /\ BatchFollows /\ NotAhead /\ TakenOnce

\* The loop starts with nothing taken.
LEMMA InitBotInv == Init => BotInv
  BY BotConstants DEF Init, BotInv, LoopTypeOK, BatchFollows, NotAhead, TakenOnce, Idle, Handling,
     Updates, At

\* A step that leaves the queue, the last id and the counts alone, keeps the batch or drops it,
\* and does not go to the start of a command.
LEMMA QuietStep ==
    ASSUME BotInv,
           UNCHANGED <<kinds, lastId, runs, lost>>,
           bot' \in [pc: Idle \cup Handling, batch: Seq(Nat), u: Nat],
           bot'.batch = bot.batch \/ bot'.batch = <<>>,
           bot.pc # "handle", bot'.pc # "handle",
           bot'.pc \in Handling => bot.pc \in Handling /\ bot'.u = bot.u
    PROVE  BotInv'
  <1>1. LoopTypeOK'
    BY DEF BotInv, LoopTypeOK
  <1>2. BatchFollows'
    <2>1. CASE bot'.batch = bot.batch
      BY <2>1 DEF BotInv, BatchFollows
    <2>2. CASE bot'.batch = <<>>
      BY <2>2 DEF BotInv, BatchFollows, LoopTypeOK
    <2>3. QED BY <2>1, <2>2
  <1>3. NotAhead'
    BY DEF BotInv, NotAhead
  <1>4. TakenOnce'
    BY DEF BotInv, TakenOnce, At
  <1>5. QED BY <1>1, <1>2, <1>3, <1>4 DEF BotInv

LEMMA PollPreserves == BotInv /\ Poll => BotInv'
  <1> SUFFICES ASSUME BotInv, Poll PROVE BotInv' OBVIOUS
  <1>1. CASE bot'.pc = "tasks"
    <2>1. bot' = [bot EXCEPT !.pc = "tasks"]
      BY <1>1 DEF Poll, Goto, BotInv, LoopTypeOK, Idle, Handling
    <2>2. QED BY <2>1, QuietStep DEF Poll, BotInv, LoopTypeOK, Idle, Handling, At
  <1>2. CASE bot'.pc # "tasks"
    <2> DEFINE k == IF Len(kinds) - lastId < Batch THEN Len(kinds) - lastId ELSE Batch
               b == [n \in 1..k |-> lastId + n]
    <2>1. bot' = [pc |-> "next", u |-> 0, batch |-> b]
      BY <1>2 DEF Poll, Goto, BotInv, LoopTypeOK
    <2>2. k \in Nat /\ lastId + k <= Len(kinds)
      BY BotConstants DEF BotInv, LoopTypeOK
    <2>3. b \in Seq(Nat) /\ Len(b) = k /\ \A n \in 1..k : b[n] = lastId + n
      <3>1. \A n \in 1..k : lastId + n \in Nat
        BY <2>2 DEF BotInv, LoopTypeOK
      <3>2. b \in [1..k -> Nat]
        BY <3>1
      <3>3. QED BY <2>2, <3>2
    <2> HIDE DEF b, k
    <2>4. bot'.batch = b /\ bot'.pc = "next" /\ bot' \in [pc: Idle \cup Handling, batch: Seq(Nat), u: Nat]
      BY <2>1, <2>3 DEF BotInv, LoopTypeOK, Idle
    <2>5. UNCHANGED <<kinds, lastId, runs, lost>> /\ bot.pc = "poll"
      BY DEF Poll, At
    <2>6. LoopTypeOK'
      BY <2>4, <2>5 DEF BotInv, LoopTypeOK, Idle, Handling
    <2>7. BatchFollows'
      BY <2>2, <2>3, <2>4, <2>5 DEF BatchFollows
    <2>8. NotAhead' /\ TakenOnce'
      BY <2>4, <2>5 DEF BotInv, NotAhead, TakenOnce, At
    <2>9. QED BY <2>6, <2>7, <2>8 DEF BotInv
  <1>3. QED BY <1>1, <1>2

LEMMA TakePreserves == BotInv /\ TakeUpdate => BotInv'
  <1> SUFFICES ASSUME BotInv, TakeUpdate PROVE BotInv' OBVIOUS
  <1>1. CASE Abandon /\ UNCHANGED lastId
    BY <1>1, QuietStep DEF Abandon, TakeUpdate, BotInv, LoopTypeOK, Idle, Handling, At
  <1>2. CASE /\ lastId' = Head(bot.batch)
             /\ bot' = [pc |-> "handle", batch |-> Tail(bot.batch), u |-> Head(bot.batch)]
    <2>0. bot.batch \in Seq(Nat) /\ bot.batch # <<>> /\ bot.pc = "next"
      BY DEF TakeUpdate, BotInv, LoopTypeOK, At
    <2>1. Len(bot.batch) >= 1 /\ Head(bot.batch) = bot.batch[1]
      BY <2>0, EmptySeq, HeadTailProperties
    <2>2. lastId' = lastId + 1 /\ lastId + 1 <= Len(kinds) /\ lastId \in Nat
      BY <1>2, <2>1 DEF BotInv, BatchFollows, LoopTypeOK
    <2>3. /\ Tail(bot.batch) \in Seq(Nat) /\ Len(Tail(bot.batch)) = Len(bot.batch) - 1
          /\ \A n \in 1..Len(Tail(bot.batch)) : Tail(bot.batch)[n] = bot.batch[n + 1]
      BY <2>0, HeadTailProperties
    <2>4. /\ bot'.pc = "handle" /\ bot'.batch = Tail(bot.batch) /\ bot'.u = lastId'
          /\ bot' \in [pc: Idle \cup Handling, batch: Seq(Nat), u: Nat]
      BY <1>2, <2>2, <2>3 DEF BotInv, LoopTypeOK, Handling
    <2>5. UNCHANGED <<kinds, runs, lost>>
      BY DEF TakeUpdate
    <2>6. LoopTypeOK'
      BY <2>2, <2>4, <2>5 DEF BotInv, LoopTypeOK
    <2>7. BatchFollows'
      <3>1. lastId' + Len(bot'.batch) <= Len(kinds')
        BY <2>2, <2>3, <2>4, <2>5 DEF BotInv, BatchFollows, LoopTypeOK
      <3>2. ASSUME NEW n \in 1..Len(bot'.batch) PROVE bot'.batch[n] = lastId' + n
        <4>1. n + 1 \in 1..Len(bot.batch)
          BY <2>0, <2>3, <2>4
        <4>2. bot.batch[n + 1] = lastId + (n + 1)
          BY <4>1 DEF BotInv, BatchFollows
        <4>3. QED BY <2>2, <2>3, <2>4, <4>2
      <3>3. QED BY <3>1, <3>2 DEF BatchFollows
    <2>8. NotAhead'
      <3>1. lastId + 1 \in Updates
        BY <2>2, BotConstants DEF Updates, BotInv, LoopTypeOK
      <3>2. QED BY <2>2, <2>4, <2>5, <3>1 DEF BotInv, NotAhead, Updates
    <2>9. TakenOnce'
      <3>1. ASSUME NEW u \in Updates
            PROVE  /\ runs'[u] <= 1
                   /\ u <= lastId' => runs'[u] = 1 \/ u \in lost' \/ (At("handle")' /\ bot'.u = u)
        <4>1. u \in Nat
          BY BotConstants DEF Updates
        <4>2. runs[u] <= 1 /\ (u <= lastId => runs[u] = 1 \/ u \in lost)
          BY <2>0 DEF BotInv, TakenOnce, At
        <4>3. u <= lastId' => u <= lastId \/ u = lastId'
          BY <2>2, <4>1
        <4>4. QED BY <2>4, <2>5, <4>2, <4>3 DEF At
      <3>2. QED BY <3>1 DEF TakenOnce
    <2>10. QED BY <2>6, <2>7, <2>8, <2>9 DEF BotInv
  <1>3. QED BY <1>1, <1>2 DEF TakeUpdate

LEMMA HandlePreserves == BotInv /\ HandleText => BotInv'
  <1> SUFFICES ASSUME BotInv, HandleText PROVE BotInv' OBVIOUS
  <1>1. bot.pc = "handle" /\ bot.u = lastId /\ runs[lastId] = 0 /\ lastId \in Updates
    <2>1. bot.pc = "handle" /\ bot.pc \in Handling
      BY DEF HandleText, At, Handling
    <2>2. bot.u = lastId /\ runs[lastId] = 0 /\ lastId \in 1..lastId
      BY <2>1 DEF BotInv, NotAhead, LoopTypeOK
    <2>3. QED BY <2>1, <2>2, BotConstants DEF BotInv, LoopTypeOK, Updates
  <1>2. runs' = [runs EXCEPT ![lastId] = 1] /\ runs' \in [Updates -> Nat]
    BY <1>1 DEF HandleText, BotInv, LoopTypeOK
  <1>3. /\ bot'.pc \in {"reply", "recover"} /\ bot'.batch = bot.batch /\ bot'.u = bot.u
        /\ bot' \in [pc: Idle \cup Handling, batch: Seq(Nat), u: Nat]
    BY DEF HandleText, Goto, BotInv, LoopTypeOK, Handling
  <1>4. UNCHANGED <<kinds, lastId, lost>>
    BY DEF HandleText
  <1>5. LoopTypeOK'
    BY <1>1, <1>2, <1>3, <1>4 DEF BotInv, LoopTypeOK, Handling
  <1>6. BatchFollows'
    BY <1>3, <1>4 DEF BotInv, BatchFollows
  <1>7. NotAhead'
    BY <1>1, <1>2, <1>3, <1>4 DEF BotInv, NotAhead, LoopTypeOK, Updates
  <1>8. TakenOnce'
    BY <1>1, <1>2, <1>3, <1>4 DEF BotInv, TakenOnce, LoopTypeOK, Updates, At
  <1>9. QED BY <1>5, <1>6, <1>7, <1>8 DEF BotInv

\* The other steps of the loop: they stay with the update in hand, or end with it.
LEMMA LoopPreserves == BotInv /\ Loop => BotInv'
  <1> SUFFICES ASSUME BotInv, Loop PROVE BotInv' OBVIOUS
  <1>1. CASE EndBatch
    BY <1>1, QuietStep DEF EndBatch, Goto, At, BotInv, LoopTypeOK, Idle, Handling
  <1>2. CASE ScheduledTasks
    BY <1>2, QuietStep DEF ScheduledTasks, Goto, At, BotInv, LoopTypeOK, Idle, Handling
  <1>3. CASE Reply
    <2>1. CASE Abandon
      BY <1>3, <2>1, QuietStep DEF Reply, Abandon, At, BotInv, LoopTypeOK, Idle, Handling
    <2>2. CASE bot' = [pc |-> "next", batch |-> bot.batch, u |-> 0]
      BY <1>3, <2>2, QuietStep DEF Reply, At, BotInv, LoopTypeOK, Idle, Handling
    <2>3. QED BY <1>3, <2>1, <2>2 DEF Reply
  <1>4. CASE Recover
    <2>1. bot.pc \in Handling /\ bot.pc # "handle"
      BY <1>4 DEF Recover, At, Handling
    <2>2. After(FALSE) \in Handling \ {"handle"}
      BY DEF After, Handling
    <2>3. \E pc \in Handling \ {"handle"} : bot' = [bot EXCEPT !.pc = pc]
      BY <1>4, <2>2 DEF Recover, Goto, Handling
    <2>4. QED BY <1>4, <2>1, <2>3, QuietStep DEF Recover, BotInv, LoopTypeOK
  <1>5. CASE ClearActiveScan
    <2>1. \E pc \in Handling \ {"handle"} : bot' = [bot EXCEPT !.pc = pc]
      BY <1>5 DEF ClearActiveScan, Goto, After, Handling
    <2>2. bot.pc \in Handling \ {"handle"}
      BY <1>5 DEF ClearActiveScan, At, Handling
    <2>3. QED BY <1>5, <2>1, <2>2, QuietStep DEF ClearActiveScan, BotInv, LoopTypeOK
  <1>6. CASE AcquireSlot
    <2>1. \E pc \in {"refused", "submit"} : bot' = [bot EXCEPT !.pc = pc]
      BY <1>6 DEF AcquireSlot, Goto
    <2>2. QED BY <1>6, <2>1, QuietStep DEF AcquireSlot, At, Handling, BotInv, LoopTypeOK
  <1>7. CASE Submit
    <2>1. \E pc \in {"reply", "wait"} : bot' = [bot EXCEPT !.pc = pc]
      BY <1>7 DEF Submit, Goto
    <2>2. QED BY <1>7, <2>1, QuietStep DEF Submit, At, Handling, BotInv, LoopTypeOK
  <1>8. CASE Wait \/ StopScan
    BY <1>8, QuietStep DEF Wait, StopScan, Goto, At, Handling, BotInv, LoopTypeOK
  <1>9. QED
    BY <1>1, <1>2, <1>3, <1>4, <1>5, <1>6, <1>7, <1>8, PollPreserves, TakePreserves,
       HandlePreserves DEF Loop

\* The worker threads and the clock do not touch the loop's state.
LEMMA WorkerPreserves ==
    ASSUME BotInv, UNCHANGED <<kinds, lastId, bot, runs, lost>>
    PROVE  BotInv'
  BY DEF BotInv, LoopTypeOK, BatchFollows, NotAhead, TakenOnce, At

\* New messages only lengthen Telegram's queue.
LEMMA ArrivePreserves ==
    ASSUME BotInv, NEW k \in Commands, Arrive(k)
    PROVE  BotInv'
  <1>1. /\ kinds' \in Seq(Commands) /\ Len(kinds') = Len(kinds) + 1
        /\ Len(kinds) \in Nat /\ Len(kinds') <= MaxUpdates
    BY BotConstants, AppendProperties DEF Arrive, BotInv, LoopTypeOK
  <1>2. UNCHANGED <<lastId, bot, runs, lost>>
    BY DEF Arrive
  <1>3. LoopTypeOK' /\ BatchFollows'
    BY <1>1, <1>2 DEF BotInv, LoopTypeOK, BatchFollows
  <1>4. NotAhead' /\ TakenOnce'
    BY <1>2 DEF BotInv, NotAhead, TakenOnce, At
  <1>5. QED BY <1>3, <1>4 DEF BotInv

\* A process that dies holding an update leaves it in lost.
LEMMA RestartPreserves == BotInv /\ Restart => BotInv'
  <1> SUFFICES ASSUME BotInv, Restart PROVE BotInv' OBVIOUS
  <1>1. bot' = [pc |-> "poll", batch |-> <<>>, u |-> 0] /\ UNCHANGED <<kinds, lastId, runs>>
    BY DEF Restart
  <1>2. LoopTypeOK' /\ BatchFollows' /\ NotAhead'
    BY <1>1 DEF BotInv, LoopTypeOK, BatchFollows, NotAhead, Idle, Handling
  <1>3. TakenOnce'
    BY <1>1 DEF BotInv, TakenOnce, Restart, At
  <1>4. QED BY <1>2, <1>3 DEF BotInv

LEMMA NextBotInv == BotInv /\ [Next]_vars => BotInv'
  <1> SUFFICES ASSUME BotInv, [Next]_vars PROVE BotInv' OBVIOUS
  <1>1. CASE Loop
    BY <1>1, LoopPreserves
  <1>2. CASE \E s \in Updates : Worker(s) \/ GrowOld(s)
    BY <1>2, WorkerPreserves DEF Worker, GrowOld, StartScan, EndScan, SendResult,
       CheckGeneration, ClearSlot, Unlock
  <1>3. CASE \E k \in Commands : Arrive(k)
    BY <1>3, ArrivePreserves
  <1>4. CASE Restart
    BY <1>4, RestartPreserves
  <1>5. CASE UNCHANGED vars
    BY <1>5, WorkerPreserves DEF vars
  <1>6. QED BY <1>1, <1>2, <1>3, <1>4, <1>5 DEF Next

\* Every update of the chat is begun at most once, and none up to the last one taken is passed
\* over except by a process that died with it in hand (TelegramBotService.handle_update,
\* poll_once).
THEOREM CommandsTakenOnce == Spec => []TakenOnce
  <1>1. BotInv => TakenOnce
    BY DEF BotInv
  <1>2. QED BY InitBotInv, NextBotInv, <1>1, PTL DEF Spec

-----------------------------------------------------------------------------
(* The scan slot *)

ScanRow == [st: {"none", "queued", "running", "done", "cancelled"}, gen: Nat, pool: Nat,
            stop: BOOLEAN, old: BOOLEAN, cb: {"none", "send", "check", "clear", "unlock", "over"},
            result: {"none", "sent", "failed"}]

SlotTypeOK ==
    /\ slot \in [lock: BOOLEAN, gen: Nat, future: Updates \cup {0}, info: Nat]
    /\ scan \in [Updates -> ScanRow] /\ pool \in Nat

\* A scan whose callbacks have still to release the lock taken in this generation.
Winding(x, gen) == x.st # "none" /\ x.cb # "over" /\ x.gen = gen

\* The loop is between taking the lock and submitting, or about to release it.
Between == {"submit", "clear", "clearRefused"}

\* The lock is taken for a scan that will release it.
LockIsOwed == slot.lock => At("submit") \/ At("clear") \/ At("clearRefused")
                             \/ \E s \in Updates : Winding(scan[s], slot.gen)

SlotInv == SlotTypeOK /\ LockIsOwed

LEMMA InitSlotInv == Init => SlotInv
  <1> SUFFICES ASSUME Init PROVE SlotInv OBVIOUS
  <1>1. NoScan \in ScanRow
    BY DEF NoScan, ScanRow
  <1>2. slot.lock = FALSE /\ SlotTypeOK
    BY <1>1 DEF Init, FreeSlot, SlotTypeOK
  <1>3. QED BY <1>2 DEF SlotInv, LockIsOwed

\* A step that leaves the slot alone and ends no scan that is still to release it.
LEMMA ScanMoves ==
    ASSUME SlotInv, UNCHANGED <<slot, pool>>, bot.pc \in Between => bot'.pc \in Between,
           scan' \in [Updates -> ScanRow],
           \A s \in Updates : Winding(scan[s], slot.gen) => Winding(scan'[s], slot.gen)
    PROVE  SlotInv'
  BY DEF SlotInv, SlotTypeOK, LockIsOwed, At, Between

\* The same when only one scan is written.
LEMMA OneScanMoves ==
    ASSUME SlotInv, UNCHANGED <<slot, pool>>, bot.pc \in Between => bot'.pc \in Between,
           NEW s \in Updates, NEW x \in ScanRow, scan' = [scan EXCEPT ![s] = x],
           Winding(scan[s], slot.gen) => Winding(x, slot.gen)
    PROVE  SlotInv'
  <1>1. scan'[s] = x /\ \A r \in Updates \ {s} : scan'[r] = scan[r]
    BY DEF SlotInv, SlotTypeOK
  <1>2. scan' \in [Updates -> ScanRow]
    BY DEF SlotInv, SlotTypeOK
  <1>3. QED BY <1>1, <1>2, ScanMoves

LEMMA UpdateInHand ==
    ASSUME BotInv, bot.pc \in Handling
    PROVE  bot.u \in Updates
  BY BotConstants DEF BotInv, LoopTypeOK, Updates

\* The loop's steps that do not touch the slot.
LEMMA LoopAside ==
    ASSUME SlotInv, BotInv,
           Poll \/ TakeUpdate \/ EndBatch \/ ScheduledTasks \/ HandleText \/ Reply \/ Wait \/ StopScan
    PROVE  SlotInv'
  <1>1. CASE Poll \/ TakeUpdate \/ EndBatch \/ ScheduledTasks \/ HandleText \/ Reply
    <2>1. bot.pc \notin Between /\ UNCHANGED <<slot, scan, pool>>
      BY <1>1 DEF Poll, TakeUpdate, EndBatch, ScheduledTasks, HandleText, Reply, At, Between
    <2>2. QED BY <2>1, ScanMoves DEF SlotInv, SlotTypeOK
  <1>2. CASE Wait \/ StopScan
    <2>1. bot.pc \notin Between /\ UNCHANGED <<slot, pool>> /\ bot.u \in Updates
      BY <1>2, UpdateInHand DEF Wait, StopScan, At, Between, Handling
    <2>2. CASE scan' = scan
      BY <2>1, <2>2, ScanMoves DEF SlotInv, SlotTypeOK
    <2>3. ASSUME NEW s \in Updates, scan' = [scan EXCEPT ![s].stop = TRUE] PROVE SlotInv'
      <3> DEFINE x == [scan[s] EXCEPT !.stop = TRUE]
      <3>1. scan[s] \in ScanRow
        BY DEF SlotInv, SlotTypeOK
      <3>2. x \in ScanRow /\ x.st = scan[s].st /\ x.cb = scan[s].cb /\ x.gen = scan[s].gen
        BY <3>1 DEF ScanRow
      <3>3. scan' = [scan EXCEPT ![s] = x]
        BY <2>3 DEF SlotInv, SlotTypeOK
      <3> HIDE DEF x
      <3>4. QED BY <2>1, <3>2, <3>3, OneScanMoves DEF Winding
    <2>4. slot.future # 0 => slot.future \in Updates
      BY DEF SlotInv, SlotTypeOK
    <2>5. QED BY <1>2, <2>1, <2>2, <2>3, <2>4 DEF Wait, StopScan
  <1>3. QED BY <1>1, <1>2

\* A recovery starts a new generation and goes on to release the lock.
LEMMA RecoverSlot ==
    ASSUME SlotInv, BotInv, Recover
    PROVE  SlotInv'
  <1>0. /\ slot \in [lock: BOOLEAN, gen: Nat, future: Updates \cup {0}, info: Nat]
        /\ scan \in [Updates -> ScanRow] /\ pool \in Nat /\ bot.pc \notin Between
    BY DEF SlotInv, SlotTypeOK, Recover, At, Between
  <1>1. CASE UNCHANGED <<slot, scan, pool>>
    BY <1>0, <1>1, ScanMoves
  <1>2. CASE /\ slot' = [slot EXCEPT !.gen = @ + 1] /\ scan' \in [Updates -> ScanRow] /\ pool' \in Nat
             /\ Goto(IF At("refused") THEN "clearRefused" ELSE "clear")
    <2>1. bot'.pc \in {"clear", "clearRefused"}
      BY <1>2 DEF Goto, BotInv, LoopTypeOK
    <2>2. SlotTypeOK'
      BY <1>0, <1>2 DEF SlotTypeOK
    <2>3. QED BY <2>1, <2>2 DEF SlotInv, LockIsOwed, At
  <1>3. CASE /\ Found = "stale" /\ pool' = pool + 1
             /\ \E unsent : scan' = [s \in Updates |-> GivenUp(s, unsent)]
    <2> PICK unsent : scan' = [s \in Updates |-> GivenUp(s, unsent)]
      BY <1>3
    <2>1. ASSUME NEW s \in Updates PROVE GivenUp(s, unsent) \in ScanRow
      <3> DEFINE r == IF s = unsent THEN "failed" ELSE "sent"
      <3>1. scan[s] \in ScanRow /\ r \in {"none", "sent", "failed"}
        BY <1>0
      <3> HIDE DEF r
      <3>2. /\ [scan[s] EXCEPT !.st = "cancelled", !.cb = "over",
                               !.stop = scan[s].stop \/ s = slot.future, !.result = r] \in ScanRow
            /\ [scan[s] EXCEPT !.stop = TRUE] \in ScanRow
        BY <3>1 DEF ScanRow
      <3>3. QED BY <3>1, <3>2 DEF GivenUp, r
    <2>2. scan' \in [Updates -> ScanRow]
      BY <2>1
    <2>3. /\ slot' = [slot EXCEPT !.gen = @ + 1]
          /\ Goto(IF At("refused") THEN "clearRefused" ELSE "clear")
      BY <1>3 DEF Recover
    <2>4. pool' \in Nat
      <3>1. pool \in Nat
        BY <1>0
      <3>2. pool' = pool + 1
        BY <1>3
      <3>3. QED BY <3>1, <3>2
    <2>5. QED BY <1>2, <2>2, <2>3, <2>4
  <1>4. CASE Found \in {"orphan", "done"} /\ UNCHANGED <<scan, pool>>
    BY <1>0, <1>1, <1>2, <1>4 DEF Recover
  <1>5. QED BY <1>1, <1>3, <1>4 DEF Recover

\* The loop's steps on the slot: the lock is released, or taken, or its scan submitted.
LEMMA LoopSlot ==
    ASSUME SlotInv, BotInv, ClearActiveScan \/ AcquireSlot \/ Submit
    PROVE  SlotInv'
  <1>0. /\ slot \in [lock: BOOLEAN, gen: Nat, future: Updates \cup {0}, info: Nat]
        /\ scan \in [Updates -> ScanRow] /\ pool \in Nat
        /\ bot \in [pc: Idle \cup Handling, batch: Seq(Nat), u: Nat]
    BY DEF SlotInv, SlotTypeOK, BotInv, LoopTypeOK
  <1>1. CASE ClearActiveScan
    <2>1. slot' = [slot EXCEPT !.future = 0, !.info = 0, !.lock = FALSE] /\ UNCHANGED <<scan, pool>>
      BY <1>1 DEF ClearActiveScan
    <2>2. QED BY <1>0, <2>1 DEF SlotInv, SlotTypeOK, LockIsOwed
  <1>2. CASE AcquireSlot
    <2>1. CASE slot.lock
      BY <1>0, <1>2, <2>1, ScanMoves DEF AcquireSlot, At, Between
    <2>2. CASE ~slot.lock
      <3>1. /\ slot' = [slot EXCEPT !.lock = TRUE, !.gen = @ + 1, !.info = bot.u]
            /\ bot'.pc = "submit" /\ UNCHANGED <<scan, pool>>
        BY <1>0, <1>2, <2>2 DEF AcquireSlot, Goto
      <3>2. bot.u \in Nat /\ slot.gen + 1 \in Nat
        BY <1>0
      <3>3. slot' \in [lock: BOOLEAN, gen: Nat, future: Updates \cup {0}, info: Nat]
        BY <1>0, <3>1, <3>2
      <3>4. SlotTypeOK'
        BY <1>0, <3>1, <3>3 DEF SlotTypeOK
      <3>5. QED BY <3>1, <3>4 DEF SlotInv, LockIsOwed, At
    <2>3. QED BY <2>1, <2>2
  <1>3. CASE Submit
    <2> DEFINE x == [NoScan EXCEPT !.st = "queued", !.gen = slot.gen, !.pool = pool,
                                   !.cb = IF Kind(bot.u) = "deep" THEN "send" ELSE "check"]
    <2>1. bot.u \in Updates
      BY <1>3, UpdateInHand DEF Submit, At, Handling
    <2>2. x \in ScanRow /\ Winding(x, slot.gen)
      BY <1>0 DEF NoScan, ScanRow, Winding
    <2>3. scan' = [scan EXCEPT ![bot.u] = x] /\ slot' = [slot EXCEPT !.future = bot.u] /\ pool' = pool
      BY <1>3 DEF Submit
    <2> HIDE DEF x
    <2>4. SlotTypeOK' /\ slot'.gen = slot.gen
      BY <1>0, <2>1, <2>2, <2>3 DEF SlotTypeOK
    <2>5. scan'[bot.u] = x
      BY <1>0, <2>1, <2>3
    <2>6. QED BY <2>1, <2>2, <2>4, <2>5 DEF SlotInv, LockIsOwed
  <1>4. QED BY <1>1, <1>2, <1>3

\* A worker gives up the release only when the lock is of a later generation.
LEMMA WorkerSlot ==
    ASSUME SlotInv, NEW s \in Updates, Worker(s) \/ GrowOld(s)
    PROVE  SlotInv'
  <1>0. /\ slot \in [lock: BOOLEAN, gen: Nat, future: Updates \cup {0}, info: Nat]
        /\ scan \in [Updates -> ScanRow] /\ scan[s] \in ScanRow /\ pool \in Nat
    BY DEF SlotInv, SlotTypeOK
  <1>1. bot' = bot /\ pool' = pool
    BY DEF Worker, GrowOld, StartScan, EndScan, SendResult, CheckGeneration, ClearSlot, Unlock
  <1>2. ASSUME slot' = slot, NEW x \in ScanRow, scan' = [scan EXCEPT ![s] = x],
               Winding(scan[s], slot.gen) => Winding(x, slot.gen)
        PROVE  SlotInv'
    BY <1>1, <1>2, OneScanMoves
  <1>3. CASE StartScan(s)
    <2> DEFINE x == [scan[s] EXCEPT !.st = "running"]
    <2>1. x \in ScanRow /\ x.st = "running" /\ x.cb = scan[s].cb /\ x.gen = scan[s].gen
      BY <1>0 DEF ScanRow
    <2>2. scan' = [scan EXCEPT ![s] = x] /\ slot' = slot
      BY <1>0, <1>3 DEF StartScan
    <2> HIDE DEF x
    <2>3. QED BY <1>2, <2>1, <2>2 DEF Winding
  <1>4. CASE EndScan(s)
    <2> DEFINE x == [scan[s] EXCEPT !.st = "done"]
    <2>1. x \in ScanRow /\ x.st = "done" /\ x.cb = scan[s].cb /\ x.gen = scan[s].gen
      BY <1>0 DEF ScanRow
    <2>2. scan' = [scan EXCEPT ![s] = x] /\ slot' = slot
      BY <1>0, <1>4 DEF EndScan
    <2> HIDE DEF x
    <2>3. QED BY <1>2, <2>1, <2>2 DEF Winding
  <1>5. CASE GrowOld(s)
    <2> DEFINE x == [scan[s] EXCEPT !.old = TRUE]
    <2>1. x \in ScanRow /\ x.st = scan[s].st /\ x.cb = scan[s].cb /\ x.gen = scan[s].gen
      BY <1>0 DEF ScanRow
    <2>2. scan' = [scan EXCEPT ![s] = x] /\ slot' = slot
      BY <1>0, <1>5 DEF GrowOld
    <2> HIDE DEF x
    <2>3. QED BY <1>2, <2>1, <2>2 DEF Winding
  <1>6. CASE SendResult(s)
    <2>1. ASSUME NEW r \in {"none", "sent", "failed"},
                 scan' = [scan EXCEPT ![s].cb = "check", ![s].result = r]
          PROVE  SlotInv'
      <3> DEFINE x == [scan[s] EXCEPT !.cb = "check", !.result = r]
      <3>1. x \in ScanRow /\ x.st = scan[s].st /\ x.cb = "check" /\ x.gen = scan[s].gen
        BY <1>0 DEF ScanRow
      <3>2. scan' = [scan EXCEPT ![s] = x] /\ slot' = slot
        BY <1>0, <1>6, <2>1 DEF SendResult
      <3> HIDE DEF x
      <3>3. QED BY <1>2, <3>1, <3>2 DEF Winding
    <2>2. QED BY <1>6, <2>1 DEF SendResult
  <1>7. CASE CheckGeneration(s) /\ scan[s].gen = slot.gen
    <2> DEFINE x == [scan[s] EXCEPT !.cb = "clear"]
    <2>1. x \in ScanRow /\ x.st = scan[s].st /\ x.cb = "clear" /\ x.gen = scan[s].gen
      BY <1>0 DEF ScanRow
    <2>2. scan' = [scan EXCEPT ![s] = x] /\ slot' = slot
      BY <1>0, <1>7 DEF CheckGeneration
    <2> HIDE DEF x
    <2>3. QED BY <1>2, <2>1, <2>2 DEF Winding
  <1>8. CASE CheckGeneration(s) /\ scan[s].gen # slot.gen
    <2>1. Over(scan[s]) \in ScanRow /\ ~Winding(scan[s], slot.gen)
      BY <1>0, <1>8 DEF Over, ScanRow, Winding
    <2>2. scan' = [scan EXCEPT ![s] = Over(scan[s])] /\ slot' = slot
      BY <1>0, <1>8 DEF CheckGeneration
    <2>3. QED BY <1>2, <2>1, <2>2
  <1>9. CASE ClearSlot(s)
    <2> DEFINE x == [scan[s] EXCEPT !.cb = "unlock"]
    <2>1. x \in ScanRow /\ x.st = scan[s].st /\ x.cb = "unlock" /\ x.gen = scan[s].gen
      BY <1>0 DEF ScanRow
    <2>2. scan' = [scan EXCEPT ![s] = x] /\ slot' = [slot EXCEPT !.future = 0, !.info = 0]
      BY <1>0, <1>9 DEF ClearSlot
    <2> HIDE DEF x
    <2>3. /\ scan'[s] = x /\ \A r \in Updates \ {s} : scan'[r] = scan[r]
          /\ scan' \in [Updates -> ScanRow]
      BY <1>0, <2>1, <2>2
    <2>4. /\ slot' \in [lock: BOOLEAN, gen: Nat, future: Updates \cup {0}, info: Nat]
          /\ slot'.lock = slot.lock /\ slot'.gen = slot.gen
      BY <1>0, <2>2
    <2>5. \A r \in Updates : Winding(scan[r], slot.gen) => Winding(scan'[r], slot'.gen)
      BY <2>1, <2>3, <2>4 DEF Winding
    <2>6. QED BY <1>0, <1>1, <2>3, <2>4, <2>5 DEF SlotInv, SlotTypeOK, LockIsOwed, At
  <1>10. CASE Unlock(s)
    <2>1. Over(scan[s]) \in ScanRow
      BY <1>0 DEF Over, ScanRow
    <2>2. scan' = [scan EXCEPT ![s] = Over(scan[s])] /\ slot' = [slot EXCEPT !.lock = FALSE]
      BY <1>0, <1>10 DEF Unlock
    <2>3. SlotTypeOK' /\ slot'.lock = FALSE
      BY <1>0, <1>1, <2>1, <2>2 DEF SlotTypeOK
    <2>4. QED BY <2>3 DEF SlotInv, LockIsOwed
  <1>11. QED BY <1>3, <1>4, <1>5, <1>6, <1>7, <1>8, <1>9, <1>10 DEF Worker

LEMMA NextSlotInv == SlotInv /\ BotInv /\ [Next]_vars => SlotInv'
  <1> SUFFICES ASSUME SlotInv, BotInv, [Next]_vars PROVE SlotInv' OBVIOUS
  <1>1. CASE Loop
    BY <1>1, LoopAside, RecoverSlot, LoopSlot DEF Loop
  <1>2. CASE \E s \in Updates : Worker(s) \/ GrowOld(s)
    BY <1>2, WorkerSlot
  <1>3. CASE \E k \in Commands : Arrive(k)
    BY <1>3, ScanMoves DEF Arrive, SlotInv, SlotTypeOK
  <1>4. CASE Restart
    <2>1. NoScan \in ScanRow
      BY DEF NoScan, ScanRow
    <2>2. slot' = FreeSlot /\ scan' = [u \in Updates |-> NoScan] /\ pool' = 1
      BY <1>4 DEF Restart
    <2>3. QED BY <2>1, <2>2 DEF FreeSlot, SlotInv, SlotTypeOK, LockIsOwed
  <1>5. CASE UNCHANGED vars
    BY <1>5, ScanMoves DEF vars, SlotInv, SlotTypeOK
  <1>6. QED BY <1>1, <1>2, <1>3, <1>4, <1>5 DEF Next

\* A scan is refused only while an earlier one runs, waits or is being wound up: every way the lock
\* is kept has a scan that will release it, whatever was recovered, given up or went stale
\* (_submit_scan, _recover_stale_scan_if_needed, _release_scan).
THEOREM RefusalsAreBusy == Spec => RefusedIsBusy
  <1> DEFINE Busily == AcquireSlot /\ bot'.pc = "refused" =>
                         \E s \in Updates : scan[s].st # "none" /\ scan[s].cb # "over"
  <1>1. BotInv /\ SlotInv => Busily
    <2> SUFFICES ASSUME BotInv, SlotInv, AcquireSlot, bot'.pc = "refused"
                 PROVE  \E s \in Updates : scan[s].st # "none" /\ scan[s].cb # "over"
      OBVIOUS
    <2>1. slot.lock
      BY DEF AcquireSlot, Goto, BotInv, LoopTypeOK
    <2>2. QED BY <2>1 DEF SlotInv, LockIsOwed, AcquireSlot, At, Winding
  <1>2. RefusedIsBusy <=> [][Busily]_vars
    BY DEF RefusedIsBusy
  <1> HIDE DEF Busily
  <1>3. QED BY <1>1, <1>2, InitBotInv, InitSlotInv, NextBotInv, NextSlotInv, PTL DEF Spec
=============================================================================
