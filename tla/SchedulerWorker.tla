--------------------------- MODULE SchedulerWorker ---------------------------
(***************************************************************************)
(* The supervised cadence loop of app/automation/scheduler_worker.py: one   *)
(* worker thread runs the due jobs in order, a watchdog replaces a worker   *)
(* that died or stopped heart-beating, and a job that overran its timeout   *)
(* keeps running on an abandoned thread.                                    *)
(*                                                                          *)
(*   now   wall clock, in units                                             *)
(*   stop  _stop_event                                                      *)
(*   gen   _generation; the worker of generation gen is _thread             *)
(*   hb    _last_heartbeat_at                                               *)
(*   w     the worker thread of each generation: program counter, position  *)
(*         in the job list, the tick's own "now" (at), and when its current *)
(*         wait began (since)                                               *)
(*   job   last_run_at, overrun_thread and overrun_since of each job        *)
(*                                                                          *)
(* Time passes only while every worker is waiting (for a job, a join or     *)
(* the tick interval): the loop's own statements take no time.              *)
(***************************************************************************)
EXTENDS Integers, FiniteSetsExt

CONSTANTS
    N,              \* number of jobs; they run in the order 1..N
    Interval,       \* interval_seconds of each job
    Timeout,        \* wall-clock cap of each job, 0 for none
    Tick,           \* tick_interval_seconds
    Stale,          \* stale_restart_seconds
    Grace,          \* overlap_grace_seconds
    MaxTime,        \* bound: the clock stops here
    MaxGen          \* bound: workers ever started

Jobs == 1..N
Gens == 1..MaxGen
Never == -1

ASSUME SchedulerConstants ==
    /\ N \in Nat \ {0}
    /\ Interval \in [Jobs -> Nat \ {0}]
    /\ Timeout \in [Jobs -> Nat]
    /\ Tick \in Nat \ {0}
    /\ Stale \in Nat /\ Stale >= 3 * Tick
    /\ Grace \in Nat
    /\ MaxTime \in Nat
    /\ MaxGen \in Nat \ {0}

VARIABLES now, stop, gen, hb, w, job

vars == <<now, stop, gen, hb, w, job>>

Time == 0..MaxTime
Worker == [pc: {"none", "start", "loop", "check", "run", "sleep", "dead"},
           i: 1..(N + 1), at: Time, since: Time]
Job == [last: Time \cup {Never}, over: {"none", "alive", "done"}, since: Time]

NoWorker == [pc |-> "none", i |-> 1, at |-> 0, since |-> 0]

Init ==
    /\ now = 0
    /\ stop = FALSE
    /\ gen = 0
    /\ hb = 0
    /\ w = [g \in Gens |-> NoWorker]
    /\ job = [j \in Jobs |-> [last |-> Never, over |-> "none", since |-> 0]]

At(g, pc) == w[g].pc = pc
Move(g, pc) == w' = [w EXCEPT ![g].pc = pc]
Alive(g) == g \in Gens /\ w[g].pc \notin {"none", "dead"}

-----------------------------------------------------------------------------
(* Lifecycle *)

\* A new thread with a new generation; the beat is reset first.
Spawn ==
    /\ gen < MaxGen
    /\ gen' = gen + 1
    /\ hb' = now
    /\ w' = [w EXCEPT ![gen + 1].pc = "start"]

\* start() is idempotent while the current thread lives.
Start ==
    /\ ~Alive(gen)
    /\ stop' = FALSE
    /\ Spawn
    /\ UNCHANGED <<now, job>>

Stop ==
    /\ gen > 0
    /\ ~stop
    /\ stop' = TRUE
    /\ UNCHANGED <<now, gen, hb, w, job>>

HeartbeatStale == now - hb > Stale

\* The watchdog, called by the monitor thread and by the readiness probe.
EnsureAlive ==
    /\ ~stop
    /\ gen > 0
    /\ ~Alive(gen) \/ HeartbeatStale
    /\ Spawn
    /\ UNCHANGED <<now, stop, job>>

-----------------------------------------------------------------------------
(* The worker's loop *)

\* _run starts with a heartbeat.
Begin(g) ==
    /\ At(g, "start")
    /\ hb' = now
    /\ Move(g, "loop")
    /\ UNCHANGED <<now, stop, gen, job>>

\* The generation and the stop event are looked at once per tick.
NextTick(g) ==
    /\ At(g, "loop")
    /\ w' = [w EXCEPT ![g] = IF stop \/ gen # g
                             THEN [NoWorker EXCEPT !.pc = "dead"]
                             ELSE [pc |-> "check", i |-> 1, at |-> now, since |-> now]]
    /\ UNCHANGED <<now, stop, gen, hb, job>>

IsDue(j, at) == job[j].last = Never \/ at - job[j].last >= Interval[j]

\* An abandoned run still lives and is not yet presumed hung.
OverrunLives(j, at) == job[j].over = "alive" /\ at - job[j].since < Grace

\* Mutant: an abandoned run is not waited for.
OverrunIgnored(j, at) == FALSE

\* Mutant: a hung run holds its job back for ever.
OverrunBlocksForEver(j, at) == job[j].over = "alive"

\* _previous_run_alive: the job then waits for its next tick.
PreviousRunAlive(j, at) == OverrunLives(j, at)

\* Mutant: no heartbeat before a job.
CheckJobSilently(g) ==
    /\ At(g, "check")
    /\ w[g].i <= N
    /\ LET j == w[g].i
           run == IsDue(j, w[g].at) /\ ~PreviousRunAlive(j, w[g].at)
       IN /\ job' = IF run /\ ~OverrunLives(j, w[g].at)
                    THEN [job EXCEPT ![j].over = "none"] ELSE job
          /\ w' = [w EXCEPT ![g] = IF run THEN [@ EXCEPT !.pc = "run", !.since = now]
                                          ELSE [@ EXCEPT !.i = j + 1]]
    /\ UNCHANGED <<now, stop, gen, hb>>

\* The next job of the list: started, after a heartbeat, if it is due and no
\* abandoned run of it holds it back.
CheckJob(g) ==
    /\ At(g, "check")
    /\ w[g].i <= N
    /\ LET j == w[g].i
           run == IsDue(j, w[g].at) /\ ~PreviousRunAlive(j, w[g].at)
       IN /\ job' = IF run /\ ~OverrunLives(j, w[g].at)
                    THEN [job EXCEPT ![j].over = "none"] ELSE job
          /\ hb' = IF run THEN now ELSE hb
          /\ w' = [w EXCEPT ![g] = IF run THEN [@ EXCEPT !.pc = "run", !.since = now]
                                          ELSE [@ EXCEPT !.i = j + 1]]
    /\ UNCHANGED <<now, stop, gen>>

\* The finally clause: last_run_at is the tick's own time, not the job's end.
Ran(g, over) ==
    job' = [job EXCEPT ![w[g].i] =
               IF over /\ Grace > 0
               THEN [last |-> w[g].at, over |-> "alive", since |-> now]
               ELSE [@ EXCEPT !.last = w[g].at]]

\* The job returns or raises an Exception; either way the next one follows.
JobEnds(g) ==
    /\ At(g, "run")
    /\ Ran(g, FALSE)
    /\ w' = [w EXCEPT ![g] = [@ EXCEPT !.pc = "check", !.i = w[g].i + 1, !.since = now]]
    /\ UNCHANGED <<now, stop, gen, hb>>

\* It raises a BaseException (SystemExit, KeyboardInterrupt): the thread dies.
JobKillsWorker(g) ==
    /\ At(g, "run")
    /\ gen < MaxGen
    /\ Ran(g, FALSE)
    /\ w' = [w EXCEPT ![g] = [NoWorker EXCEPT !.pc = "dead"]]
    /\ UNCHANGED <<now, stop, gen, hb>>

TimedOut(g) == Timeout[w[g].i] > 0 /\ now - w[g].since >= Timeout[w[g].i]

\* join(timeout) gives up: the run is abandoned.
JoinTimesOut(g) ==
    /\ At(g, "run")
    /\ TimedOut(g)
    /\ Ran(g, TRUE)
    /\ w' = [w EXCEPT ![g] = [@ EXCEPT !.pc = "check", !.i = w[g].i + 1, !.since = now]]
    /\ UNCHANGED <<now, stop, gen, hb>>

\* The pass over the jobs ends with a heartbeat, then the tick interval.
EndTick(g) ==
    /\ At(g, "check")
    /\ w[g].i > N
    /\ hb' = now
    /\ w' = [w EXCEPT ![g] = [@ EXCEPT !.pc = "sleep", !.since = now]]
    /\ UNCHANGED <<now, stop, gen, job>>

Wake(g) ==
    /\ At(g, "sleep")
    /\ stop \/ now - w[g].since >= Tick
    /\ Move(g, "loop")
    /\ UNCHANGED <<now, stop, gen, hb, job>>

\* An abandoned run comes to its end.
OverrunEnds(j) ==
    /\ job[j].over = "alive"
    /\ job' = [job EXCEPT ![j].over = "done"]
    /\ UNCHANGED <<now, stop, gen, hb, w>>

Waiting(g) ==
    \/ ~Alive(g)
    \/ At(g, "run") /\ ~TimedOut(g)
    \/ At(g, "sleep") /\ ~stop /\ now - w[g].since < Tick

Pass ==
    /\ gen > 0
    /\ now < MaxTime
    /\ \A g \in Gens : Waiting(g)
    /\ now' = now + 1
    /\ UNCHANGED <<stop, gen, hb, w, job>>

-----------------------------------------------------------------------------
Next ==
    \/ Start \/ Stop \/ EnsureAlive \/ Pass
    \/ \E g \in Gens : \/ Begin(g) \/ NextTick(g) \/ CheckJob(g) \/ JobEnds(g)
                       \/ JobKillsWorker(g) \/ JoinTimesOut(g) \/ EndTick(g) \/ Wake(g)
    \/ \E j \in Jobs : OverrunEnds(j)

Spec == Init /\ [][Next]_vars

-----------------------------------------------------------------------------
(* Properties *)

\* Every variable has its type.
TypeOK ==
    /\ now \in Time
    /\ stop \in BOOLEAN
    /\ gen \in 0..MaxGen
    /\ hb \in Time
    /\ w \in [Gens -> Worker]
    /\ job \in [Jobs -> Job]

\* Runs of job j that are going on: on a worker, or abandoned and not yet presumed hung.
Running(j) == {g \in Gens : At(g, "run") /\ w[g].i = j}

\* Two runs of one job never overlap while every job has a timeout below the
\* staleness limit: neither the next tick nor the next worker starts a job beside a
\* run of it that was abandoned less than the grace ago.
NoOverlap ==
    \A j \in Jobs : /\ Cardinality(Running(j)) <= 1
                    /\ Running(j) # {} => job[j].over # "alive"

\* A worker whose jobs are bounded is never taken for hung, however many of its jobs
\* use up their timeout in one tick.
BoundedWorkerNotHung == Alive(gen) => ~HeartbeatStale

\* How long after the start of its last tick a job may wait, if every job uses up its
\* timeout T: its interval, or its own run and the grace of the abandoned thread; then
\* the other jobs of the tick under way, the tick interval, and the jobs before it.
T == Max({Timeout[j] : j \in Jobs})
StarveBound(j) == Max({Interval[j], N * T + Grace}) + 2 * (N - 1) * T + Tick

\* Jobs that hang, again and again, delay each other and themselves by a bounded time
\* (while the first worker lives and is not told to stop).
NoStarvation ==
    \A j \in Jobs :
        gen = 1 /\ Alive(1) /\ ~stop /\ Running(j) = {}
           => now - Max({job[j].last, 0}) <= StarveBound(j)
=============================================================================
