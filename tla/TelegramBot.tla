----------------------------- MODULE TelegramBot -----------------------------
(***************************************************************************)
(* The command bot in polling mode (app/notifications/telegram_bot.py): one *)
(* loop fetches updates and handles them one after another, remembering in  *)
(* the database the last one it took; a screener scan runs in a pool of one *)
(* worker thread, whose done callbacks send the answer of a background scan *)
(* and give the scan slot back.  The slot (lock, generation, future) is     *)
(* shared by the two threads without a lock around it.                      *)
(*                                                                          *)
(*   kinds   what the updates sent so far ask for (Telegram's queue)        *)
(*   lastId  telegram_last_update_id                                        *)
(*   bot     the loop: its batch, the update it is at                       *)
(*   runs    how often each update's command was started                    *)
(*   lost    the updates taken by a process that died before it began them  *)
(*   slot    _scan_lock, _scan_generation, _active_scan_*                   *)
(*   scan    the scan that each update's command started                    *)
(*   pool    which executor is _scan_executor (they are replaced)           *)
(***************************************************************************)
EXTENDS Naturals, Sequences

CONSTANTS
    Commands,       \* the kinds of command that are sent
    MaxUpdates,     \* updates in a behaviour
    Batch,          \* the limit of get_updates
    MaxCrashes,     \* restarts of the bot process
    MaxErrors,      \* calls of the database or of Telegram that raise
    MaxPools        \* executors

ASSUME BotConstants ==
    /\ Commands \subseteq {"scan", "deep", "status", "cancel", "other"}
    /\ MaxUpdates \in Nat /\ Batch \in Nat \ {0}
    /\ MaxCrashes \in Nat /\ MaxErrors \in Nat /\ MaxPools \in Nat \ {0}

VARIABLES kinds, lastId, bot, runs, lost, slot, scan, pool, errors, crashes

vars == <<kinds, lastId, bot, runs, lost, slot, scan, pool, errors, crashes>>

Updates == 1..MaxUpdates
NoScan == [st |-> "none", gen |-> 0, pool |-> 0, stop |-> FALSE, old |-> FALSE, cb |-> "none",
           result |-> "none"]

\* result: whether the chat was sent the result of a background scan, or that call failed.
\* info: whose are the cancel event, the start time and the label.
FreeSlot == [lock |-> FALSE, gen |-> 0, future |-> 0, info |-> 0]

Init ==
    /\ kinds = <<>> /\ lastId = 0
    /\ bot = [pc |-> "poll", batch |-> <<>>, u |-> 0]
    /\ runs = [u \in Updates |-> 0] /\ lost = {}
    /\ slot = FreeSlot
    /\ scan = [u \in Updates |-> NoScan]
    /\ pool = 1 /\ errors = 0 /\ crashes = 0

Kind(u) == kinds[u]
At(pc) == bot.pc = pc
Goto(pc) == bot' = [bot EXCEPT !.pc = pc]
\* The rest of the batch is fetched again by the next poll.
Abandon == bot' = [pc |-> "tasks", batch |-> <<>>, u |-> 0]

Fails ==
    /\ errors < MaxErrors
    /\ errors' = errors + 1

-----------------------------------------------------------------------------
(* The loop *)

\* Telegram receives a message: a scan answered at once, a background scan, a command about the
\* scan in progress, or any other.
Arrive(k) ==
    /\ Len(kinds) < MaxUpdates
    /\ kinds' = Append(kinds, k)
    /\ UNCHANGED <<lastId, bot, runs, lost, slot, scan, pool, errors, crashes>>

\* poll_once: the updates after the last one taken, oldest first.
Poll ==
    /\ At("poll")
    /\ \/ /\ bot' = [pc |-> "next", u |-> 0, batch |->
                       [n \in 1..(IF Len(kinds) - lastId < Batch THEN Len(kinds) - lastId
                                  ELSE Batch) |-> lastId + n]]
          /\ UNCHANGED errors
       \/ Fails /\ Goto("tasks")
    /\ UNCHANGED <<kinds, lastId, runs, lost, slot, scan, pool, crashes>>

\* Mutant: the update is remembered only when its command has been handled.
TakeUpdateUnsaved ==
    /\ At("next") /\ bot.batch # <<>>
    /\ \/ /\ bot' = [pc |-> "handle", batch |-> Tail(bot.batch), u |-> Head(bot.batch)]
          /\ UNCHANGED <<lastId, errors>>
       \/ Fails /\ Abandon /\ UNCHANGED lastId
    /\ UNCHANGED <<kinds, runs, lost, slot, scan, pool, crashes>>

\* handle_update: the id is saved before anything is done.
TakeUpdate ==
    /\ At("next") /\ bot.batch # <<>>
    /\ \/ /\ lastId' = Head(bot.batch)
          /\ bot' = [pc |-> "handle", batch |-> Tail(bot.batch), u |-> Head(bot.batch)]
          /\ UNCHANGED errors
       \/ Fails /\ Abandon /\ UNCHANGED lastId
    /\ UNCHANGED <<kinds, runs, lost, slot, scan, pool, crashes>>

EndBatch ==
    /\ At("next") /\ bot.batch = <<>>
    /\ Goto("tasks")
    /\ UNCHANGED <<kinds, lastId, runs, lost, slot, scan, pool, errors, crashes>>

\* run_scheduled_tasks; whatever it raises is logged.
ScheduledTasks ==
    /\ At("tasks")
    /\ Goto("poll")
    /\ UNCHANGED <<kinds, lastId, runs, lost, slot, scan, pool, errors, crashes>>

\* _handle_text_impl: commands about scans look at the slot first.
HandleText ==
    /\ At("handle")
    /\ runs' = [runs EXCEPT ![bot.u] = @ + 1]
    /\ Goto(IF Kind(bot.u) = "other" THEN "reply" ELSE "recover")
    /\ UNCHANGED <<kinds, lastId, lost, slot, scan, pool, errors, crashes>>

\* send_text of the reply; when that raises, and the notice of the error too, the poll ends.
Reply ==
    /\ At("reply")
    /\ \/ bot' = [pc |-> "next", batch |-> bot.batch, u |-> 0] /\ UNCHANGED errors
       \/ Fails /\ Abandon
    /\ UNCHANGED <<kinds, lastId, runs, lost, slot, scan, pool, crashes>>

-----------------------------------------------------------------------------
(* The scan slot, from the loop's thread *)

Done(s) == scan[s].st \in {"done", "cancelled"}

\* What _recover_stale_scan_if_needed finds.
Found ==
    CASE slot.future = 0 -> IF slot.lock THEN "orphan" ELSE "nothing"
      [] slot.future # 0 /\ Done(slot.future) -> "done"
      [] slot.future # 0 /\ ~Done(slot.future) ->
           IF slot.info # 0 /\ scan[slot.future].old THEN "stale" ELSE "nothing"

\* Where a command goes after the look at the slot, with or without a recovery.
After(recovered) ==
    CASE Kind(bot.u) \in {"scan", "deep"} /\ At("refused") -> "reply"
      [] Kind(bot.u) \in {"scan", "deep"} /\ ~At("refused") -> "acquire"
      [] Kind(bot.u) = "status" -> "reply"
      [] OTHER -> IF recovered THEN "reply" ELSE "stop"

\* A scan waiting in the executor is cancelled with it; its callbacks answer the chat at once.
DropsQueued(s) == scan[s].st = "queued" /\ scan[s].pool = pool
GivenUp(s, unsent) ==
    IF DropsQueued(s)
    THEN [scan[s] EXCEPT !.st = "cancelled", !.cb = "over", !.stop = @ \/ s = slot.future,
                         !.result = IF s = unsent THEN "failed" ELSE "sent"]
    ELSE IF s = slot.future THEN [scan[s] EXCEPT !.stop = TRUE] ELSE scan[s]

Recover ==
    /\ At("recover") \/ At("refused")
    /\ \/ Found = "nothing" /\ Goto(After(FALSE)) /\ UNCHANGED <<slot, scan, pool>>
       \/ /\ Found \in {"orphan", "done"}
          /\ slot' = [slot EXCEPT !.gen = @ + 1]
          /\ Goto(IF At("refused") THEN "clearRefused" ELSE "clear")
          /\ UNCHANGED <<scan, pool>>
       \/ \* the scan is told to stop, its executor is given up with all that is queued in it
          /\ Found = "stale" /\ pool < MaxPools
          /\ slot' = [slot EXCEPT !.gen = @ + 1]
          /\ \E unsent \in {0} \cup {s \in Updates : DropsQueued(s)} :
               /\ IF unsent = 0 THEN UNCHANGED errors ELSE Fails
               /\ scan' = [s \in Updates |-> GivenUp(s, unsent)]
          /\ pool' = pool + 1
          /\ Goto(IF At("refused") THEN "clearRefused" ELSE "clear")
    /\ Found # "stale" => UNCHANGED errors
    /\ UNCHANGED <<kinds, lastId, runs, lost, crashes>>

\* Mutant: the recovery forgets the lock.
ClearActiveScanKeepLock ==
    /\ At("clear") \/ At("clearRefused")
    /\ slot' = [slot EXCEPT !.future = 0, !.info = 0]
    /\ Goto(IF At("clearRefused") THEN "reply" ELSE After(TRUE))
    /\ UNCHANGED <<kinds, lastId, runs, lost, scan, pool, errors, crashes>>

\* _clear_active_scan(release_lock=True)
ClearActiveScan ==
    /\ At("clear") \/ At("clearRefused")
    /\ slot' = [slot EXCEPT !.future = 0, !.info = 0, !.lock = FALSE]
    /\ Goto(IF At("clearRefused") THEN "reply" ELSE After(TRUE))
    /\ UNCHANGED <<kinds, lastId, runs, lost, scan, pool, errors, crashes>>

\* _submit_scan takes the lock or refuses; the refusal's text looks at the slot once more.
AcquireSlot ==
    /\ At("acquire")
    /\ IF slot.lock THEN Goto("refused") /\ UNCHANGED slot
       ELSE slot' = [slot EXCEPT !.lock = TRUE, !.gen = @ + 1, !.info = bot.u] /\ Goto("submit")
    /\ UNCHANGED <<kinds, lastId, runs, lost, scan, pool, errors, crashes>>

\* Mutant: the callback that answers a background scan is not attached.
SubmitUnanswered ==
    /\ At("submit")
    /\ slot' = [slot EXCEPT !.future = bot.u]
    /\ scan' = [scan EXCEPT ![bot.u] = [NoScan EXCEPT !.st = "queued", !.gen = slot.gen,
                  !.pool = pool, !.cb = "check"]]
    /\ Goto(IF Kind(bot.u) = "deep" THEN "reply" ELSE "wait")
    /\ UNCHANGED <<kinds, lastId, runs, lost, pool, errors, crashes>>

\* The future is made known, then its callbacks are attached; a background scan is answered
\* later, the other one is waited for.
Submit ==
    /\ At("submit")
    /\ slot' = [slot EXCEPT !.future = bot.u]
    /\ scan' = [scan EXCEPT ![bot.u] = [NoScan EXCEPT !.st = "queued", !.gen = slot.gen,
                  !.pool = pool, !.cb = IF Kind(bot.u) = "deep" THEN "send" ELSE "check"]]
    /\ Goto(IF Kind(bot.u) = "deep" THEN "reply" ELSE "wait")
    /\ UNCHANGED <<kinds, lastId, runs, lost, pool, errors, crashes>>

\* _run_scan_with_timeout: the result, or a timeout that asks the scan to stop.
Wait ==
    /\ At("wait")
    /\ \/ Done(bot.u) /\ UNCHANGED scan
       \/ ~Done(bot.u) /\ scan' = [scan EXCEPT ![bot.u].stop = TRUE]
    /\ Goto("reply")
    /\ UNCHANGED <<kinds, lastId, runs, lost, slot, pool, errors, crashes>>

\* /cancel_scan
StopScan ==
    /\ At("stop")
    /\ scan' = IF slot.future # 0 /\ ~Done(slot.future) /\ slot.info # 0
               THEN [scan EXCEPT ![slot.future].stop = TRUE] ELSE scan
    /\ Goto("reply")
    /\ UNCHANGED <<kinds, lastId, runs, lost, slot, pool, errors, crashes>>

-----------------------------------------------------------------------------
(* The worker threads *)

InPool(s, p) == scan[s].st # "none" /\ scan[s].pool = p
\* A worker is busy until the callbacks of its scan have run.
Busy(p) == \E s \in Updates : InPool(s, p) /\ \/ scan[s].st = "running"
                                              \/ scan[s].st = "done" /\ scan[s].cb # "over"

StartScan(s) ==
    /\ scan[s].st = "queued"
    /\ ~Busy(scan[s].pool)
    /\ \A r \in 1..(s - 1) : ~(InPool(r, scan[s].pool) /\ scan[r].st = "queued")
    /\ scan' = [scan EXCEPT ![s].st = "running"]
    /\ UNCHANGED <<kinds, lastId, bot, runs, lost, slot, pool, errors, crashes>>

\* scan_universe returns, raises, or stops at a boundary.
EndScan(s) ==
    /\ scan[s].st = "running"
    /\ scan' = [scan EXCEPT ![s].st = "done"]
    /\ UNCHANGED <<kinds, lastId, bot, runs, lost, slot, pool, errors, crashes>>

\* Time passes: the scan is older than telegram_scan_stale_after_seconds.
GrowOld(s) ==
    /\ scan[s].st \in {"queued", "running"} /\ ~scan[s].old
    /\ ~(At("wait") /\ bot.u = s)
    /\ scan' = [scan EXCEPT ![s].old = TRUE]
    /\ UNCHANGED <<kinds, lastId, bot, runs, lost, slot, pool, errors, crashes>>

Over(x) == [x EXCEPT !.cb = "over", !.stop = FALSE, !.old = FALSE]
Callback(s, from) == scan[s].st = "done" /\ scan[s].cb = from

\* _send_result of a background scan: the result, or the failure.  send_text says FALSE or raises
\* and nobody tries again; the callbacks after it run all the same.
SendResult(s) ==
    /\ Callback(s, "send")
    /\ \/ UNCHANGED errors /\ scan' = [scan EXCEPT ![s].cb = "check", ![s].result = "sent"]
       \/ Fails /\ scan' = [scan EXCEPT ![s].cb = "check", ![s].result = "failed"]
    /\ UNCHANGED <<kinds, lastId, bot, runs, lost, slot, pool, crashes>>

\* _release_scan looks at the generation, then clears the slot, then releases the lock.
CheckGeneration(s) ==
    /\ Callback(s, "check")
    /\ scan' = [scan EXCEPT ![s] = IF scan[s].gen = slot.gen THEN [@ EXCEPT !.cb = "clear"]
                                                      ELSE Over(@)]
    /\ UNCHANGED <<kinds, lastId, bot, runs, lost, slot, pool, errors, crashes>>

ClearSlot(s) ==
    /\ Callback(s, "clear")
    /\ slot' = [slot EXCEPT !.future = 0, !.info = 0]
    /\ scan' = [scan EXCEPT ![s].cb = "unlock"]
    /\ UNCHANGED <<kinds, lastId, bot, runs, lost, pool, errors, crashes>>

Unlock(s) ==
    /\ Callback(s, "unlock")
    /\ slot' = [slot EXCEPT !.lock = FALSE]
    /\ scan' = [scan EXCEPT ![s] = Over(@)]
    /\ UNCHANGED <<kinds, lastId, bot, runs, lost, pool, errors, crashes>>

\* The process dies and starts again: only the database is left.
Restart ==
    /\ crashes < MaxCrashes
    /\ crashes' = crashes + 1
    /\ bot' = [pc |-> "poll", batch |-> <<>>, u |-> 0]
    /\ slot' = FreeSlot /\ pool' = 1
    /\ scan' = [u \in Updates |-> NoScan]
    /\ lost' = IF At("handle") THEN lost \cup {bot.u} ELSE lost
    /\ UNCHANGED <<kinds, lastId, runs, errors>>

Loop ==
    \/ Poll \/ TakeUpdate \/ EndBatch \/ ScheduledTasks \/ HandleText \/ Reply
    \/ Recover \/ ClearActiveScan \/ AcquireSlot \/ Submit \/ Wait \/ StopScan

Worker(s) ==
    StartScan(s) \/ EndScan(s) \/ SendResult(s) \/ CheckGeneration(s) \/ ClearSlot(s) \/ Unlock(s)

Next ==
    \/ Loop
    \/ \E s \in Updates : Worker(s) \/ GrowOld(s)
    \/ \E k \in Commands : Arrive(k)
    \/ Restart

Spec == Init /\ [][Next]_vars

\* The loop and the worker threads run on, and a scan ends.
LiveSpec == Spec /\ WF_vars(Loop) /\ \A s \in Updates : WF_vars(Worker(s))

-----------------------------------------------------------------------------
(* Properties *)

\* No command is run twice, and none is passed over: every update up to telegram_last_update_id
\* was started, is about to be, or was taken by a process that died right then.
TakenOnce ==
    \A u \in Updates :
        /\ runs[u] <= 1
        /\ u <= lastId => runs[u] = 1 \/ u \in lost \/ (At("handle") /\ bot.u = u)

\* _submit_scan refuses a scan only while an earlier scan runs, waits or is being wound up: a lock
\* that was not released, or was lost to a recovery, does not shut scans out.
RefusedIsBusy ==
    [][AcquireSlot /\ bot'.pc = "refused" =>
         \E s \in Updates : scan[s].st # "none" /\ scan[s].cb # "over"]_vars

\* Every message is taken although polls, replies and the database fail; every background scan
\* comes to its answer, which its chat gets unless the one call that sends it fails; and when
\* nothing is left to do the scan slot is free, whatever was recovered or failed on the way.
CommandsAreAnswered ==
    []<>(/\ lastId = Len(kinds)
         /\ \A u \in 1..lastId : scan[u].st # "none" /\ Kind(u) = "deep" => scan[u].result # "none"
         /\ ~slot.lock)
=============================================================================
