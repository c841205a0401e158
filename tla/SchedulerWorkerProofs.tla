-------------------------- MODULE SchedulerWorkerProofs --------------------------
(***************************************************************************)
(* For any number of jobs, any intervals, timeouts and grace, and however   *)
(* often the worker dies, is stopped and started again: the types of        *)
(* SchedulerWorker hold, a worker whose jobs are bounded is never replaced, *)
(* and runs of one job do not overlap.                                      *)
(*                                                                          *)
(* The argument: the clock moves only while the worker is in a job or       *)
(* asleep, and it has beaten at the beginning of either; so, while a job    *)
(* may take no longer than the staleness limit, the beat is never stale and *)
(* a new worker is started only after the old one has died.                 *)
(***************************************************************************)
EXTENDS SchedulerWorker, FiniteSetTheorems, WellFoundedInduction, TLAPS

\* scheduler_worker.py 91-93: the cap is "kept below stale_restart_seconds so a bounded job
\* finishes before the self-heal watchdog would force a full restart".
JobsBounded == \A j \in Jobs : Timeout[j] > 0 /\ Timeout[j] <= Stale

-----------------------------------------------------------------------------
(* Types *)

\* A worker that runs a job is at a job of the list; times that are noted are past.
Placed == \A g \in Gens : /\ At(g, "run") => w[g].i \in Jobs
                          /\ w[g].since <= now /\ w[g].at <= now

TypeInv == TypeOK /\ Placed

LEMMA WorkerParts ==
    ASSUME SchedulerConstants, NEW x \in Worker, NEW t \in Time
    PROVE  /\ x.pc \in {"none", "start", "loop", "check", "run", "sleep", "dead"}
           /\ x.i \in 1..(N + 1) /\ x.at \in Time /\ x.since \in Time
           /\ \A pc \in {"start", "loop"} : [x EXCEPT !.pc = pc] \in Worker
           /\ \A pc \in {"run", "sleep"} : [x EXCEPT !.pc = pc, !.since = t] \in Worker
           /\ \A i \in 1..(N + 1) : /\ [x EXCEPT !.i = i] \in Worker
                                    /\ [x EXCEPT !.pc = "check", !.i = i, !.since = t] \in Worker
           /\ [NoWorker EXCEPT !.pc = "dead"] \in Worker
           /\ NoWorker \in Worker
           /\ [pc |-> "check", i |-> 1, at |-> t, since |-> t] \in Worker
<1>1. 0 \in Time /\ 1 \in 1..(N + 1)
  BY DEF Time, SchedulerConstants
<1>. QED
  BY <1>1 DEF Worker, NoWorker

LEMMA JobParts ==
    ASSUME NEW x \in Job, NEW t \in Time, NEW u \in Time
    PROVE  /\ \A o \in {"none", "alive", "done"} : [x EXCEPT !.over = o] \in Job
           /\ [x EXCEPT !.last = t] \in Job
           /\ [last |-> t, over |-> "alive", since |-> u] \in Job
  BY DEF Job

LEMMA TypeInit == ASSUME SchedulerConstants PROVE Init => TypeInv
<1>. SUFFICES ASSUME Init PROVE TypeInv
  OBVIOUS
<1>1. 0 \in Time /\ 0 \in 0..MaxGen
  BY DEF Time, SchedulerConstants
<1>2. NoWorker \in Worker
  BY <1>1 DEF NoWorker, Worker, SchedulerConstants
<1>3. [last |-> Never, over |-> "none", since |-> 0] \in Job
  BY <1>1 DEF Job
<1>4. TypeOK
  BY <1>1, <1>2, <1>3 DEF Init, TypeOK
<1>5. Placed
  BY DEF Init, Placed, At, NoWorker
<1>. QED
  BY <1>4, <1>5 DEF TypeInv

\* One worker's record changes, the clock does not.
LEMMA WorkerChanges ==
    ASSUME TypeInv, now' = now, NEW g \in Gens, NEW x \in Worker, w' = [w EXCEPT ![g] = x],
           x.pc = "run" => x.i \in Jobs, x.since <= now, x.at <= now
    PROVE  w' \in [Gens -> Worker] /\ Placed'
<1>1. w' \in [Gens -> Worker]
  BY DEF TypeInv, TypeOK
<1>2. ASSUME NEW u \in Gens
      PROVE  /\ w'[u].pc = "run" => w'[u].i \in Jobs
             /\ w'[u].since <= now /\ w'[u].at <= now
  BY DEF TypeInv, TypeOK, Placed, At
<1>. QED
  BY <1>1, <1>2 DEF Placed, At

LEMMA SpawnIsTyped ==
    ASSUME SchedulerConstants, TypeInv, Spawn, now' = now
    PROVE  gen' \in 0..MaxGen /\ hb' \in Time /\ w' \in [Gens -> Worker] /\ Placed'
<1>1. gen + 1 \in Gens /\ gen' \in 0..MaxGen /\ hb' \in Time
  BY DEF TypeInv, TypeOK, Spawn, Gens, SchedulerConstants
<1>2. w[gen + 1] \in Worker /\ now \in Time
  BY <1>1 DEF TypeInv, TypeOK
<1>3. [w[gen + 1] EXCEPT !.pc = "start"] \in Worker
  BY <1>2, WorkerParts
<1>4. w[gen + 1].since <= now /\ w[gen + 1].at <= now
  BY <1>1 DEF TypeInv, Placed
<1>5. w' = [w EXCEPT ![gen + 1] = [w[gen + 1] EXCEPT !.pc = "start"]]
  BY DEF Spawn
<1>6. /\ [w[gen + 1] EXCEPT !.pc = "start"].pc = "start"
      /\ [w[gen + 1] EXCEPT !.pc = "start"].since = w[gen + 1].since
      /\ [w[gen + 1] EXCEPT !.pc = "start"].at = w[gen + 1].at
  BY <1>2 DEF Worker
<1>. QED
  BY <1>1, <1>3, <1>4, <1>5, <1>6, WorkerChanges

-----------------------------------------------------------------------------
(* One worker, whose beat is young, beside no run that counts *)

OnlyOne == \A g \in Gens : Alive(g) => g = gen

\* x is the worker's record, b the beat.
Beats(x, b, t) ==
    /\ t - b <= Stale
    /\ x.pc = "run" => b >= x.since /\ t - x.since <= Timeout[x.i]
    /\ x.pc = "sleep" => b >= x.since /\ t - x.since <= Tick

YoungBeat == Alive(gen) => Beats(w[gen], hb, now)

Apart == \A g \in Gens : At(g, "run") => job[w[g].i].over # "alive"

WorkerInv == TypeInv /\ OnlyOne /\ YoungBeat /\ Apart

\* The step of a worker that lives: what its new record x has to fulfil.
LEMMA WorkerStep ==
    ASSUME SchedulerConstants, WorkerInv, NEW g \in Gens, Alive(g), NEW x \in Worker,
           w' = [w EXCEPT ![g] = x], now' = now, gen' = gen, stop' = stop,
           hb' \in Time, job' \in [Jobs -> Job],
           x.pc = "run" => x.i \in Jobs /\ job'[x.i].over # "alive",
           x.since <= now, x.at <= now, Beats(x, hb', now)
    PROVE  WorkerInv'
<1>1. TypeInv'
  <2>1. w' \in [Gens -> Worker] /\ Placed'
    BY WorkerChanges DEF WorkerInv
  <2>. QED
    BY <2>1 DEF WorkerInv, TypeInv, TypeOK
<1>2. g = gen /\ w'[g] = x /\ \A u \in Gens : u # g => w'[u] = w[u] /\ ~Alive(u)
  BY DEF WorkerInv, OnlyOne, TypeInv, TypeOK
<1>3. OnlyOne'
  BY <1>2 DEF OnlyOne, Alive
<1>4. YoungBeat'
  BY <1>2 DEF YoungBeat
<1>5. Apart'
  BY <1>2 DEF Apart, At, Alive
<1>. QED
  BY <1>1, <1>3, <1>4, <1>5 DEF WorkerInv

\* A new worker is started only when there is none.
LEMMA SpawnStep ==
    ASSUME SchedulerConstants, WorkerInv, Spawn, ~Alive(gen), now' = now, stop' \in BOOLEAN,
           job' = job
    PROVE  WorkerInv'
<1>1. TypeInv'
  BY SpawnIsTyped DEF WorkerInv, TypeInv, TypeOK
<1>2. gen + 1 \in Gens /\ gen' = gen + 1 /\ hb' = now /\ now \in Time /\ w \in [Gens -> Worker]
  BY DEF WorkerInv, TypeInv, TypeOK, Spawn, Gens, SchedulerConstants
<1>3. /\ w'[gen + 1].pc = "start"
      /\ \A u \in Gens : u # gen + 1 => w'[u] = w[u] /\ ~Alive(u)
  <2>1. w' = [w EXCEPT ![gen + 1].pc = "start"]
    BY DEF Spawn
  <2>2. \A u \in Gens : ~Alive(u)
    BY DEF WorkerInv, OnlyOne
  <2>3. w[gen + 1] \in Worker
    BY <1>2
  <2>. QED
    BY <1>2, <2>1, <2>2, <2>3 DEF Worker
<1>4. OnlyOne'
  BY <1>2, <1>3 DEF OnlyOne, Alive
<1>5. YoungBeat'
  BY <1>2, <1>3 DEF YoungBeat, Beats, Time, SchedulerConstants
<1>6. Apart'
  BY <1>3 DEF Apart, At, Alive
<1>. QED
  BY <1>1, <1>4, <1>5, <1>6 DEF WorkerInv

\* A beat that is not stale is no reason for a new worker.
LEMMA LifecycleStep ==
    ASSUME SchedulerConstants, WorkerInv, Start \/ Stop \/ EnsureAlive
    PROVE  WorkerInv'
<1>1. CASE Start
  BY <1>1, SpawnStep DEF Start
<1>2. CASE EnsureAlive
  <2>1. ~Alive(gen)
    <3>1. SUFFICES ASSUME Alive(gen) PROVE FALSE
      OBVIOUS
    <3>2. now - hb > Stale /\ now - hb <= Stale
      BY <1>2, <3>1 DEF EnsureAlive, HeartbeatStale, WorkerInv, YoungBeat, Beats
    <3>3. now \in Int /\ hb \in Int /\ Stale \in Int
      BY DEF WorkerInv, TypeInv, TypeOK, Time, SchedulerConstants
    <3>. QED
      BY <3>2, <3>3
  <2>2. stop \in BOOLEAN
    BY DEF WorkerInv, TypeInv, TypeOK
  <2>. QED
    BY <1>2, <2>1, <2>2, SpawnStep DEF EnsureAlive
<1>3. CASE Stop
  BY <1>3 DEF Stop, WorkerInv, TypeInv, TypeOK, Placed, OnlyOne, YoungBeat, Apart, Alive, At
<1>. QED
  BY <1>1, <1>2, <1>3

LEMMA PassStep ==
    ASSUME SchedulerConstants, JobsBounded, WorkerInv, Pass
    PROVE  WorkerInv'
<1>1. /\ now \in Time /\ now' \in Time /\ now' = now + 1 /\ hb \in Time
      /\ UNCHANGED <<stop, gen, hb, w, job>>
  BY DEF WorkerInv, TypeInv, TypeOK, Pass, Time, SchedulerConstants
<1>2. TypeInv'
  <2>1. \A g \in Gens : w[g].since \in Time /\ w[g].at \in Time
    BY WorkerParts, <1>1 DEF WorkerInv, TypeInv, TypeOK
  <2>2. Placed'
    BY <1>1, <2>1 DEF WorkerInv, TypeInv, Placed, At, Time, SchedulerConstants
  <2>. QED
    BY <1>1, <2>2 DEF WorkerInv, TypeInv, TypeOK
<1>3. OnlyOne' /\ Apart'
  BY <1>1 DEF WorkerInv, OnlyOne, Alive, Apart, At
<1>4. YoungBeat'
  <2>. SUFFICES ASSUME Alive(gen) PROVE Beats(w[gen], hb, now + 1)
    BY <1>1 DEF YoungBeat, Alive
  <2>1. gen \in Gens /\ w[gen] \in Worker /\ Beats(w[gen], hb, now) /\ Waiting(gen)
    BY DEF WorkerInv, TypeInv, TypeOK, YoungBeat, Alive, Pass
  <2>2. /\ hb \in Int /\ now \in Int /\ w[gen].since \in Int /\ Stale \in Int /\ Tick \in Int
        /\ Tick <= Stale
    <3>1. w[gen].since \in Time
      BY <1>1, <2>1, WorkerParts
    <3>. QED
      BY <1>1, <3>1 DEF Time, SchedulerConstants
  <2>3. CASE At(gen, "run") /\ ~TimedOut(gen)
    <3>1. w[gen].i \in Jobs
      BY <2>1, <2>3 DEF WorkerInv, TypeInv, Placed
    <3>2. Timeout[w[gen].i] \in Nat /\ 0 < Timeout[w[gen].i] /\ Timeout[w[gen].i] <= Stale
      BY <3>1 DEF JobsBounded, SchedulerConstants
    <3>. QED
      BY <2>1, <2>2, <2>3, <3>2 DEF Beats, At, TimedOut
  <2>4. CASE At(gen, "sleep") /\ now - w[gen].since < Tick
    BY <2>1, <2>2, <2>4 DEF Beats, At
  <2>. QED
    BY <2>1, <2>3, <2>4 DEF Waiting
<1>. QED
  BY <1>2, <1>3, <1>4 DEF WorkerInv

LEMMA LiveWorker ==
    ASSUME SchedulerConstants, WorkerInv, NEW g \in Gens, Alive(g)
    PROVE  /\ w[g] \in Worker /\ w[g].i \in 1..(N + 1) /\ w[g].at \in Time /\ w[g].since \in Time
           /\ w[g].since <= now /\ w[g].at <= now /\ now - hb <= Stale
           /\ At(g, "run") => w[g].i \in Jobs
           /\ now \in Time /\ hb \in Time /\ now - now <= Stale /\ 0 <= now /\ now <= now
           /\ now - now <= Tick /\ now >= now /\ \A j \in Jobs : now - now <= Timeout[j]
           /\ job \in [Jobs -> Job]
<1>1. w[g] \in Worker /\ now \in Time /\ hb \in Time /\ job \in [Jobs -> Job]
  BY DEF WorkerInv, TypeInv, TypeOK
<1>2. now - hb <= Stale
  BY DEF WorkerInv, OnlyOne, YoungBeat, Beats
<1>3. /\ w[g].since <= now /\ w[g].at <= now
      /\ At(g, "run") => w[g].i \in Jobs
  BY DEF WorkerInv, TypeInv, Placed
<1>4. /\ now - now <= Stale /\ 0 <= now /\ now <= now /\ now - now <= Tick /\ now >= now
      /\ \A j \in Jobs : now - now <= Timeout[j]
  BY <1>1 DEF Time, SchedulerConstants
<1>. QED
  BY <1>1, <1>2, <1>3, <1>4, WorkerParts

LEMMA BeginStep ==
    ASSUME SchedulerConstants, WorkerInv, NEW g \in Gens, Begin(g) \/ Wake(g)
    PROVE  WorkerInv'
<1> DEFINE x == [w[g] EXCEPT !.pc = "loop"]
<1>1. Alive(g) /\ w' = [w EXCEPT ![g] = x]
  BY DEF Begin, Wake, Move, Alive, At
<1>2. x \in Worker /\ x.pc = "loop" /\ x.since = w[g].since /\ x.at = w[g].at
  <2>1. w[g] \in Worker /\ now \in Time
    BY <1>1, LiveWorker
  <2>2. x \in Worker
    BY <2>1, WorkerParts
  <2>. QED
    BY <2>1, <2>2 DEF Worker
<1>3. hb' \in {hb, now} /\ now' = now /\ gen' = gen /\ stop' = stop /\ job' = job
  BY DEF Begin, Wake
<1> HIDE DEF x
<1>4. Beats(x, hb', now)
  BY <1>1, <1>2, <1>3, LiveWorker DEF Beats
<1>. QED
  BY <1>1, <1>2, <1>3, <1>4, LiveWorker, WorkerStep

LEMMA NextTickStep ==
    ASSUME SchedulerConstants, WorkerInv, NEW g \in Gens, NextTick(g)
    PROVE  WorkerInv'
<1> DEFINE x == IF stop \/ gen # g THEN [NoWorker EXCEPT !.pc = "dead"]
                ELSE [pc |-> "check", i |-> 1, at |-> now, since |-> now]
<1>1. Alive(g) /\ w' = [w EXCEPT ![g] = x]
  BY DEF NextTick, Alive, At
<1>2. x \in Worker /\ x.pc \in {"dead", "check"} /\ x.since \in {0, now} /\ x.at \in {0, now}
  BY <1>1, LiveWorker, WorkerParts DEF NoWorker
<1>3. hb' = hb /\ now' = now /\ gen' = gen /\ stop' = stop /\ job' = job
  BY DEF NextTick
<1> HIDE DEF x
<1>4. Beats(x, hb', now)
  BY <1>1, <1>2, <1>3, LiveWorker DEF Beats
<1>. QED
  BY <1>1, <1>2, <1>3, <1>4, LiveWorker, WorkerStep

\* A run starts where no abandoned run is taken to live any more.
LEMMA CheckJobStep ==
    ASSUME SchedulerConstants, WorkerInv, NEW g \in Gens, CheckJob(g)
    PROVE  WorkerInv'
<1> DEFINE j == w[g].i
           run == IsDue(j, w[g].at) /\ ~PreviousRunAlive(j, w[g].at)
<1>1. Alive(g) /\ j <= N /\ now' = now /\ gen' = gen /\ stop' = stop
  BY DEF CheckJob, Alive, At
<1>2. j \in Jobs /\ w[g].pc = "check"
  <2>1. j \in 1..(N + 1)
    BY <1>1, LiveWorker
  <2>. QED
    BY <1>1, <2>1 DEF Jobs, CheckJob, At, SchedulerConstants
<1>3. CASE run
  <2> DEFINE x == [w[g] EXCEPT !.pc = "run", !.since = now]
  <2>1. /\ w' = [w EXCEPT ![g] = x] /\ hb' = now
        /\ job' = [job EXCEPT ![j].over = "none"]
    BY <1>3 DEF CheckJob, PreviousRunAlive
  <2>2. x \in Worker /\ x.pc = "run" /\ x.i = j /\ x.since = now /\ x.at = w[g].at
    <3>1. w[g] \in Worker /\ now \in Time
      BY <1>1, LiveWorker
    <3>2. x \in Worker
      BY <3>1, WorkerParts
    <3>. QED
      BY <3>1, <3>2 DEF Worker
  <2>3. [job[j] EXCEPT !.over = "none"] \in Job /\ [job[j] EXCEPT !.over = "none"].over = "none"
    BY <1>1, <1>2, LiveWorker DEF Job
  <2>4. job' \in [Jobs -> Job] /\ job'[j].over = "none"
    BY <1>1, <1>2, <2>1, <2>3, LiveWorker
  <2> HIDE DEF x
  <2>5. Beats(x, hb', now)
    BY <1>1, <1>2, <2>1, <2>2, LiveWorker DEF Beats
  <2>. QED
    BY <1>1, <1>2, <2>1, <2>2, <2>4, <2>5, LiveWorker, WorkerStep
<1>4. CASE ~run
  <2> DEFINE x == [w[g] EXCEPT !.i = j + 1]
  <2>1. w' = [w EXCEPT ![g] = x] /\ hb' = hb /\ job' = job
    BY <1>4 DEF CheckJob
  <2>2. j + 1 \in 1..(N + 1)
    BY <1>2 DEF Jobs, SchedulerConstants
  <2>3. x \in Worker /\ x.pc = "check" /\ x.since = w[g].since /\ x.at = w[g].at
    <3>1. w[g] \in Worker /\ now \in Time
      BY <1>1, LiveWorker
    <3>2. x \in Worker
      BY <2>2, <3>1, WorkerParts
    <3>. QED
      BY <1>2, <3>1, <3>2 DEF Worker
  <2> HIDE DEF x
  <2>4. Beats(x, hb', now)
    BY <1>1, <2>1, <2>3, LiveWorker DEF Beats
  <2>. QED
    BY <1>1, <2>1, <2>3, <2>4, LiveWorker, WorkerStep
<1>. QED
  BY <1>3, <1>4

LEMMA RanIsTyped ==
    ASSUME SchedulerConstants, WorkerInv, NEW g \in Gens, At(g, "run"), NEW over \in BOOLEAN,
           Ran(g, over)
    PROVE  job' \in [Jobs -> Job]
<1>1. Alive(g)
  BY DEF Alive, At
<1>2. w[g].i \in Jobs /\ w[g].at \in Time /\ now \in Time /\ job \in [Jobs -> Job]
  BY <1>1, LiveWorker
<1>3. /\ [last |-> w[g].at, over |-> "alive", since |-> now] \in Job
      /\ [job[w[g].i] EXCEPT !.last = w[g].at] \in Job
  BY <1>2, JobParts
<1>. QED
  BY <1>2, <1>3 DEF Ran

LEMMA JobLeavesStep ==
    ASSUME SchedulerConstants, WorkerInv, NEW g \in Gens,
           JobEnds(g) \/ JoinTimesOut(g) \/ JobKillsWorker(g)
    PROVE  WorkerInv'
<1>1. /\ Alive(g) /\ At(g, "run") /\ now' = now /\ gen' = gen /\ stop' = stop /\ hb' = hb
      /\ (Ran(g, FALSE) \/ Ran(g, TRUE))
  BY DEF JobEnds, JoinTimesOut, JobKillsWorker, Alive, At
<1>2. job' \in [Jobs -> Job]
  BY <1>1, RanIsTyped
<1>3. CASE JobEnds(g) \/ JoinTimesOut(g)
  <2> DEFINE x == [w[g] EXCEPT !.pc = "check", !.i = w[g].i + 1, !.since = now]
  <2>1. w' = [w EXCEPT ![g] = x]
    BY <1>3 DEF JobEnds, JoinTimesOut
  <2>2. w[g].i + 1 \in 1..(N + 1)
    <3>1. w[g].i \in Jobs
      BY <1>1, LiveWorker
    <3>. QED
      BY <3>1 DEF Jobs, SchedulerConstants
  <2>3. x \in Worker /\ x.pc = "check" /\ x.since = now /\ x.at = w[g].at
    <3>1. w[g] \in Worker /\ now \in Time
      BY <1>1, LiveWorker
    <3>2. x \in Worker
      BY <2>2, <3>1, WorkerParts
    <3>. QED
      BY <3>1, <3>2 DEF Worker
  <2> HIDE DEF x
  <2>4. Beats(x, hb', now)
    BY <1>1, <2>3, LiveWorker DEF Beats
  <2>. QED
    BY <1>1, <1>2, <2>1, <2>3, <2>4, LiveWorker, WorkerStep
<1>4. CASE JobKillsWorker(g)
  <2> DEFINE x == [NoWorker EXCEPT !.pc = "dead"]
  <2>1. w' = [w EXCEPT ![g] = x]
    BY <1>4 DEF JobKillsWorker
  <2>2. x \in Worker /\ x.pc = "dead" /\ x.since = 0 /\ x.at = 0
    BY <1>1, LiveWorker, WorkerParts DEF NoWorker
  <2> HIDE DEF x
  <2>3. Beats(x, hb', now)
    BY <1>1, <2>2, LiveWorker DEF Beats
  <2>. QED
    BY <1>1, <1>2, <2>1, <2>2, <2>3, LiveWorker, WorkerStep
<1>. QED
  BY <1>3, <1>4

LEMMA EndTickStep ==
    ASSUME SchedulerConstants, WorkerInv, NEW g \in Gens, EndTick(g)
    PROVE  WorkerInv'
<1> DEFINE x == [w[g] EXCEPT !.pc = "sleep", !.since = now]
<1>1. /\ Alive(g) /\ w' = [w EXCEPT ![g] = x] /\ hb' = now /\ now' = now /\ gen' = gen
      /\ stop' = stop /\ job' = job
  BY DEF EndTick, Alive, At
<1>2. x \in Worker /\ x.pc = "sleep" /\ x.since = now /\ x.at = w[g].at
  <2>1. w[g] \in Worker /\ now \in Time
    BY <1>1, LiveWorker
  <2>2. x \in Worker
    BY <2>1, WorkerParts
  <2>. QED
    BY <2>1, <2>2 DEF Worker
<1> HIDE DEF x
<1>3. Beats(x, hb', now)
  BY <1>1, <1>2, LiveWorker DEF Beats
<1>. QED
  BY <1>1, <1>2, <1>3, LiveWorker, WorkerStep

LEMMA OverrunEndsStep ==
    ASSUME SchedulerConstants, WorkerInv, NEW j \in Jobs, OverrunEnds(j)
    PROVE  WorkerInv'
<1>1. /\ UNCHANGED <<now, stop, gen, hb, w>> /\ job \in [Jobs -> Job]
      /\ job' = [job EXCEPT ![j].over = "done"]
  BY DEF OverrunEnds, WorkerInv, TypeInv, TypeOK
<1>2. [job[j] EXCEPT !.over = "done"] \in Job /\ [job[j] EXCEPT !.over = "done"].over = "done"
  BY <1>1 DEF Job
<1>3. job' \in [Jobs -> Job] /\ \A k \in Jobs : job'[k].over = job[k].over \/ job'[k].over = "done"
  BY <1>1, <1>2
<1>4. TypeInv'
  BY <1>1, <1>3 DEF WorkerInv, TypeInv, TypeOK, Placed, At
<1>5. OnlyOne' /\ YoungBeat'
  BY <1>1 DEF WorkerInv, OnlyOne, YoungBeat, Alive
<1>6. Apart'
  <2>1. \A g \in Gens : At(g, "run") => w[g].i \in Jobs
    BY DEF WorkerInv, TypeInv, Placed
  <2>. QED
    BY <1>1, <1>3, <2>1 DEF WorkerInv, Apart, At
<1>. QED
  BY <1>4, <1>5, <1>6 DEF WorkerInv

LEMMA WorkerInvKept ==
    ASSUME SchedulerConstants, JobsBounded
    PROVE  Spec => []WorkerInv
<1>1. Init => WorkerInv
  <2>. SUFFICES ASSUME Init PROVE WorkerInv
    OBVIOUS
  <2>1. \A g \in Gens : ~Alive(g) /\ ~At(g, "run")
    BY DEF Init, Alive, At, NoWorker
  <2>2. ~Alive(gen)
    BY <2>1 DEF Alive
  <2>. QED
    BY <2>1, <2>2, TypeInit DEF WorkerInv, OnlyOne, YoungBeat, Apart
<1>2. WorkerInv /\ [Next]_vars => WorkerInv'
  <2>. SUFFICES ASSUME WorkerInv, [Next]_vars PROVE WorkerInv'
    OBVIOUS
  <2>1. CASE UNCHANGED vars
    BY <2>1 DEF vars, WorkerInv, TypeInv, TypeOK, Placed, OnlyOne, YoungBeat, Apart, Alive, At
  <2>2. CASE Next
    BY <2>2, LifecycleStep, PassStep, BeginStep, NextTickStep, CheckJobStep, JobLeavesStep,
       EndTickStep, OverrunEndsStep DEF Next
  <2>. QED
    BY <2>1, <2>2
<1>. QED
  BY <1>1, <1>2, PTL DEF Spec

-----------------------------------------------------------------------------
(* Arithmetic of the bound *)

\* Some job has the longest cap (by a least counterexample: the jobs up to n that have none).
LEMMA LongestCap ==
    ASSUME SchedulerConstants
    PROVE  \E m \in Jobs : \A j \in Jobs : Timeout[m] >= Timeout[j]
<1> DEFINE Longest(n) == \E m \in 1..n : \A j \in 1..n : Timeout[m] >= Timeout[j]
           U == {n \in Jobs : ~Longest(n)}
<1>1. \A j \in Jobs : Timeout[j] \in Nat
  BY DEF SchedulerConstants
<1>2. SUFFICES ASSUME U # {} PROVE FALSE
  <2>1. N \in Jobs /\ Jobs = 1..N
    BY DEF Jobs, SchedulerConstants
  <2>2. N \notin U => Longest(N)
    BY <2>1
  <2>. QED
    BY <2>1, <2>2
<1>3. PICK n \in U : \A k \in U : <<k, n>> \notin OpToRel(<, Nat)
  <2>1. U \subseteq Nat
    BY DEF Jobs
  <2>. QED
    BY <1>2, <2>1, NatLessThanWellFounded, WFMin
<1>4. \A k \in U : ~(k < n)
  <2>1. \A k, l \in Nat : k < l => <<k, l>> \in OpToRel(<, Nat)
    BY DEF OpToRel
  <2>2. U \subseteq Nat
    BY DEF Jobs
  <2>. HIDE DEF U
  <2>. QED
    BY <1>3, <2>1, <2>2
<1>5. n \in Jobs /\ n # 1
  BY <1>1 DEF Jobs
<1>6. n - 1 \in Jobs /\ n - 1 < n /\ 1..n = (1..(n - 1)) \cup {n} /\ 1..n \subseteq Jobs
  BY <1>5 DEF Jobs, SchedulerConstants
<1>7. Longest(n - 1)
  BY <1>4, <1>6
<1>8. PICK m \in 1..(n - 1) : \A j \in 1..(n - 1) : Timeout[m] >= Timeout[j]
  BY <1>7
<1>9. Longest(n)
  <2>1. CASE Timeout[m] >= Timeout[n]
    BY <1>6, <1>8, <2>1
  <2>2. CASE Timeout[n] > Timeout[m]
    <3>1. \A j \in 1..n : Timeout[n] >= Timeout[j]
      BY <1>1, <1>5, <1>6, <1>8, <2>2
    <3>. QED
      BY <1>5, <1>6, <3>1 DEF Jobs
  <2>. QED
    BY <1>1, <1>5, <1>6, <1>8, <2>1, <2>2
<1>. QED
  BY <1>9

LEMMA CapsBelowT ==
    ASSUME SchedulerConstants
    PROVE  T \in Nat /\ \A j \in Jobs : Timeout[j] <= T
<1>1. PICK m \in Jobs : \A j \in Jobs : Timeout[m] >= Timeout[j]
  BY LongestCap
<1>2. \E x \in {Timeout[j] : j \in Jobs} : \A y \in {Timeout[j] : j \in Jobs} : x >= y
  BY <1>1
<1>3. T \in {Timeout[j] : j \in Jobs} /\ \A y \in {Timeout[j] : j \in Jobs} : T >= y
  BY <1>2 DEF T, Max
<1>. QED
  BY <1>3 DEF SchedulerConstants

LEMMA LargerOfTwo ==
    ASSUME NEW a \in Int, NEW b \in Int
    PROVE  Max({a, b}) = IF a >= b THEN a ELSE b
<1>1. \E x \in {a, b} : \A y \in {a, b} : x >= y
  OBVIOUS
<1>2. Max({a, b}) \in {a, b} /\ \A y \in {a, b} : Max({a, b}) >= y
  BY <1>1 DEF Max
<1>. QED
  BY <1>2

LEMMA Products ==
    ASSUME NEW n \in Nat, NEW t \in Nat, NEW i \in 1..(n + 1)
    PROVE  /\ n * t \in Nat /\ (n - 1) * t \in Int /\ n * t = (n - 1) * t + t
           /\ (i - 1) * t \in Nat /\ (i - 2) * t \in Int /\ (i - 1) * t = (i - 2) * t + t
           /\ i * t = (i - 1) * t + t
           /\ (i - 1) * t <= n * t
           /\ i <= n => (i - 1) * t <= (n - 1) * t
<1>1. (i - 1) * t \in Nat /\ n * t \in Nat
  OBVIOUS
<1>2. \A a, b \in Int : a <= b => a * t <= b * t
  OBVIOUS
<1>. QED
  BY <1>1, <1>2

LEMMA MoreJobsTakeLonger ==
    ASSUME NEW t \in Nat, NEW a \in Int, NEW b \in Int, a <= b
    PROVE  a * t <= b * t
  OBVIOUS

-----------------------------------------------------------------------------
(* Jobs that hang delay the others for a bounded time *)

LastRun(r) == Max({r.last, 0})

\* A job that is not run when its turn comes ran less than Hold(j) before, and at the beginning
\* of a tick no job has waited longer than Late(j).
Hold(j) == Max({Interval[j], N * T + Grace})
Late(j) == Hold(j) + (N - 1) * T + Tick

\* x is the worker's record, t the time: the jobs before position i have used up T each.
Paced(x, t) ==
    /\ x.pc \in {"check", "run"} => x.since - x.at <= (x.i - 1) * T
    /\ x.pc = "check" => x.since = t
    /\ x.pc = "run" => t - x.since <= T
    /\ x.pc = "sleep" => x.since - x.at <= N * T /\ t - x.since <= Tick

Passed(x, j) == x.pc = "sleep" \/ (x.pc \in {"check", "run"} /\ j < x.i)

\* b is the last run of j.  A job that the tick has passed was run in it, or was held back and
\* used up nothing.
Awaited(x, j, b, t) ==
    /\ x.pc \in {"start", "loop"} => t - b <= Late(j) /\ b <= t
    /\ x.pc \in {"check", "run", "sleep"} => b <= x.at
    /\ (x.pc \in {"check", "run"} /\ j >= x.i) => x.at - b <= Late(j)
    /\ Passed(x, j) => \/ b = x.at
                       \/ /\ x.at - b < Hold(j)
                          /\ x.since - x.at <= (IF x.pc = "sleep" THEN N - 1 ELSE x.i - 2) * T

Steady(x, jb, t) ==
    /\ Paced(x, t)
    /\ \A j \in Jobs : /\ Awaited(x, j, LastRun(jb[j]), t)
                       /\ jb[j].over = "alive" => jb[j].since - LastRun(jb[j]) <= N * T

FirstWorker ==
    /\ gen = 0 => now = 0 /\ \A j \in Jobs : job[j].last = Never /\ job[j].over = "none"
    /\ gen = 1 /\ Alive(1) /\ ~stop => Steady(w[1], job, now)

LEMMA Bounds ==
    ASSUME SchedulerConstants
    PROVE  /\ N \in Nat /\ N >= 1 /\ T \in Nat /\ Tick \in Nat /\ N * T \in Nat /\ (N - 1) * T \in Nat
           /\ N * T = (N - 1) * T + T
           /\ \A j \in Jobs : /\ Hold(j) \in Nat /\ Hold(j) >= Interval[j] /\ Hold(j) >= N * T + Grace
                              /\ Late(j) \in Nat /\ Late(j) = Hold(j) + (N - 1) * T + Tick
                              /\ Interval[j] \in Nat /\ Timeout[j] \in Nat /\ Timeout[j] <= T
                              /\ Grace \in Nat
<1>1. N \in Nat /\ N >= 1 /\ T \in Nat /\ Tick \in Nat /\ Grace \in Nat
  BY CapsBelowT DEF SchedulerConstants
<1>2. N * T \in Nat /\ (N - 1) * T \in Nat /\ N * T = (N - 1) * T + T
  <2>1. N \in 1..(N + 1)
    BY <1>1
  <2>. QED
    BY <1>1, <2>1, Products
<1>3. ASSUME NEW j \in Jobs
      PROVE  /\ Hold(j) \in Nat /\ Hold(j) >= Interval[j] /\ Hold(j) >= N * T + Grace
             /\ Interval[j] \in Nat /\ Timeout[j] \in Nat /\ Timeout[j] <= T
  <2>1. Interval[j] \in Nat /\ Timeout[j] \in Nat /\ Timeout[j] <= T
    BY CapsBelowT DEF SchedulerConstants
  <2>2. Hold(j) = IF Interval[j] >= N * T + Grace THEN Interval[j] ELSE N * T + Grace
    BY <1>1, <1>2, <2>1, LargerOfTwo DEF Hold
  <2>. QED
    BY <1>1, <1>2, <2>1, <2>2
<1>. QED
  BY <1>1, <1>2, <1>3 DEF Late

LEMMA FirstFacts ==
    ASSUME SchedulerConstants, WorkerInv, 1 \in Gens
    PROVE  /\ now \in Nat /\ w[1] \in Worker /\ w[1].i \in 1..(N + 1)
           /\ w[1].at \in Nat /\ w[1].since \in Nat /\ w[1].since <= now /\ w[1].at <= now
           /\ \A j \in Jobs : /\ job[j] \in Job /\ LastRun(job[j]) \in Nat /\ job[j].since \in Nat
                              /\ job[j].last = Never => LastRun(job[j]) = 0
                              /\ job[j].last # Never => LastRun(job[j]) = job[j].last
<1>1. now \in Nat /\ w[1] \in Worker
  BY DEF WorkerInv, TypeInv, TypeOK, Time
<1>2. w[1].i \in 1..(N + 1) /\ w[1].at \in Nat /\ w[1].since \in Nat
  BY <1>1 DEF Worker, Time
<1>3. w[1].since <= now /\ w[1].at <= now
  BY DEF WorkerInv, TypeInv, Placed
<1>4. ASSUME NEW j \in Jobs
      PROVE  /\ job[j] \in Job /\ LastRun(job[j]) \in Nat /\ job[j].since \in Nat
             /\ job[j].last = Never => LastRun(job[j]) = 0
             /\ job[j].last # Never => LastRun(job[j]) = job[j].last
  <2>1. job[j] \in Job
    BY DEF WorkerInv, TypeInv, TypeOK
  <2>2. (job[j].last = Never \/ job[j].last \in Nat) /\ job[j].since \in Nat /\ Never = -1
    BY <2>1 DEF Job, Time, Never
  <2>3. LastRun(job[j]) = IF job[j].last >= 0 THEN job[j].last ELSE 0
    BY <2>2, LargerOfTwo DEF LastRun
  <2>. QED
    BY <2>1, <2>2, <2>3
<1>. QED
  BY <1>1, <1>2, <1>3, <1>4

\* What stays the same for a job when neither its record nor the worker's times change.
LEMMA LoopSteady ==
    ASSUME SchedulerConstants, JobsBounded, WorkerInv, 1 \in Gens, ~stop, gen = 1,
           Steady(w[1], job, now), Begin(1) \/ Wake(1) \/ NextTick(1)
    PROVE  Steady(w'[1], job', now')
<1> DEFINE x == w[1]
<1>1. now' = now /\ job' = job
  BY DEF Begin, Wake, NextTick
<1>3. CASE Begin(1) \/ Wake(1)
  <2>1. w'[1] = [x EXCEPT !.pc = "loop"] /\ w'[1].pc = "loop"
    <3>1. w' = [w EXCEPT ![1].pc = "loop"] /\ w \in [Gens -> Worker]
      BY <1>3 DEF Begin, Wake, Move, WorkerInv, TypeInv, TypeOK
    <3>2. w'[1] = [x EXCEPT !.pc = "loop"]
      BY <3>1
    <3>. QED
      BY <3>1, <3>2 DEF Worker
  <2>2. ASSUME NEW j \in Jobs PROVE now - LastRun(job[j]) <= Late(j) /\ LastRun(job[j]) <= now
    <3>1. CASE Begin(1)
      BY <3>1 DEF Begin, At, Steady, Awaited
    <3>2. CASE Wake(1)
      <4>1. x.pc = "sleep" /\ x.since - x.at <= N * T /\ now - x.since <= Tick
        BY <3>2 DEF Wake, At, Steady, Paced
      <4>2. /\ LastRun(job[j]) <= x.at
            /\ \/ LastRun(job[j]) = x.at
               \/ x.at - LastRun(job[j]) < Hold(j) /\ x.since - x.at <= (N - 1) * T
        BY <4>1 DEF Steady, Awaited, Passed
      <4>. QED
        BY <4>1, <4>2, Bounds, FirstFacts
    <3>. QED
      BY <1>3, <3>1, <3>2
  <2>. QED
    BY <1>1, <2>1, <2>2 DEF Steady, Paced, Awaited, Passed
<1>4. CASE NextTick(1)
  <2>1. w'[1] = [pc |-> "check", i |-> 1, at |-> now, since |-> now]
    BY <1>4 DEF NextTick, WorkerInv, TypeInv, TypeOK
  <2>2. \A j \in Jobs : now - LastRun(job[j]) <= Late(j) /\ LastRun(job[j]) <= now
    BY <1>4 DEF NextTick, At, Steady, Awaited
  <2>3. \A j \in Jobs : j >= 1
    BY DEF Jobs
  <2>4. now - now <= (1 - 1) * T
    BY Bounds, FirstFacts
  <2>5. Paced(w'[1], now)
    BY <2>1, <2>4 DEF Paced
  <2>6. ASSUME NEW j \in Jobs PROVE Awaited(w'[1], j, LastRun(job[j]), now)
    <3>1. j \in Int /\ ~(j < 1)
      BY DEF Jobs
    <3>2. /\ w'[1].pc = "check" /\ w'[1].i = 1 /\ w'[1].at = now
          /\ now - LastRun(job[j]) <= Late(j) /\ LastRun(job[j]) <= now
      BY <2>1, <2>2
    <3>. QED
      BY <3>1, <3>2 DEF Awaited, Passed
  <2>. QED
    BY <1>1, <2>5, <2>6 DEF Steady
<1>. QED
  BY <1>3, <1>4

LEMMA CheckJobSteady ==
    ASSUME SchedulerConstants, JobsBounded, WorkerInv, 1 \in Gens,
           Steady(w[1], job, now), CheckJob(1)
    PROVE  Steady(w'[1], job', now')
<1> DEFINE i == w[1].i
           run == IsDue(i, w[1].at) /\ ~PreviousRunAlive(i, w[1].at)
<1>1. /\ now' = now /\ i \in Jobs /\ w[1].pc = "check" /\ w[1].since = now
      /\ now - w[1].at <= (i - 1) * T
  <2>1. now' = now /\ w[1].pc = "check" /\ i <= N
    BY DEF CheckJob, At
  <2>2. i \in 1..(N + 1) /\ N \in Nat
    BY FirstFacts, Bounds
  <2>3. w[1].since = now /\ w[1].since - w[1].at <= (i - 1) * T
    BY <2>1 DEF Steady, Paced
  <2>. HIDE DEF i
  <2>4. i \in Jobs
    BY <2>1, <2>2 DEF Jobs
  <2>. QED
    BY <2>1, <2>3, <2>4 DEF i
<1>2. CASE run
  <2>1. /\ w'[1] = [w[1] EXCEPT !.pc = "run", !.since = now]
        /\ job' = [job EXCEPT ![i].over = "none"]
    BY <1>2 DEF CheckJob, PreviousRunAlive, WorkerInv, TypeInv, TypeOK
  <2>2. w'[1].pc = "run" /\ w'[1].since = now /\ w'[1].at = w[1].at /\ w'[1].i = i
    BY <2>1, FirstFacts DEF Worker
  <2>3. ASSUME NEW j \in Jobs
        PROVE  /\ job'[j].last = job[j].last /\ job'[j].since = job[j].since
               /\ job'[j].over = "alive" => job[j].over = "alive"
    BY <1>1, <2>1, FirstFacts DEF Job, WorkerInv, TypeInv, TypeOK
  <2>4. Paced(w'[1], now)
    BY <1>1, <2>2, Bounds, FirstFacts DEF Paced
  <2>5. ASSUME NEW j \in Jobs PROVE Awaited(w'[1], j, LastRun(job[j]), now)
    BY <1>1, <2>2 DEF Steady, Awaited, Passed
  <2>. QED
    BY <1>1, <2>3, <2>4, <2>5 DEF Steady, LastRun
<1>3. CASE ~run
  <2>1. w'[1] = [w[1] EXCEPT !.i = i + 1] /\ job' = job
    BY <1>3 DEF CheckJob, WorkerInv, TypeInv, TypeOK
  <2>2. w'[1].pc = "check" /\ w'[1].since = now /\ w'[1].at = w[1].at /\ w'[1].i = i + 1
    BY <1>1, <2>1, FirstFacts DEF Worker
  <2>3. i \in 1..(N + 1) /\ (i - 1) * T <= i * T /\ (i - 1) * T \in Nat /\ i * T \in Nat
        /\ (i - 2) * T \in Int /\ (i - 2) * T <= (i - 1) * T /\ (i + 1 - 1) * T = i * T
        /\ (i + 1 - 2) * T = (i - 1) * T
    <3>1. i \in 1..(N + 1) /\ i + 1 - 1 = i /\ i + 1 - 2 = i - 1
      BY FirstFacts
    <3>. QED
      BY <3>1, Bounds, Products
  <2>4. Paced(w'[1], now)
    BY <1>1, <2>2, <2>3, Bounds, FirstFacts DEF Paced
  <2>5. ASSUME NEW j \in Jobs PROVE Awaited(w'[1], j, LastRun(job[j]), now)
    <3>1. LastRun(job[j]) <= w[1].at /\ j \in Nat /\ i \in Nat
      BY <1>1 DEF Steady, Awaited, Jobs
    <3>2. CASE j > i
      BY <1>1, <2>2, <3>1, <3>2 DEF Steady, Awaited, Passed
    <3>3. CASE j < i
      BY <1>1, <2>2, <2>3, <3>1, <3>3, FirstFacts DEF Steady, Awaited, Passed
    <3>4. CASE j = i
      <4>1. w[1].at - LastRun(job[i]) < Hold(i)
        <5>1. CASE ~IsDue(i, w[1].at)
          BY <1>1, <5>1, FirstFacts, Bounds DEF IsDue
        <5>2. CASE OverrunLives(i, w[1].at)
          BY <1>1, <5>2, FirstFacts, Bounds DEF OverrunLives, Steady
        <5>. QED
          BY <1>3, <5>1, <5>2 DEF PreviousRunAlive
      <4>. QED
        BY <1>1, <2>2, <2>3, <3>1, <3>4, <4>1, FirstFacts DEF Awaited, Passed
    <3>. QED
      BY <3>1, <3>2, <3>3, <3>4
  <2>. QED
    BY <1>1, <2>1, <2>4, <2>5 DEF Steady
<1>. QED
  BY <1>2, <1>3

\* A job ends, or its join gives up, at most T after it began.
LEMMA RanSteady ==
    ASSUME SchedulerConstants, JobsBounded, WorkerInv, 1 \in Gens,
           Steady(w[1], job, now), JobEnds(1) \/ JoinTimesOut(1)
    PROVE  Steady(w'[1], job', now')
<1> DEFINE i == w[1].i
<1>1. /\ now' = now /\ w[1].pc = "run" /\ i \in Jobs
      /\ w'[1] = [w[1] EXCEPT !.pc = "check", !.i = i + 1, !.since = now]
      /\ w[1].since - w[1].at <= (i - 1) * T /\ now - w[1].since <= T
  BY DEF JobEnds, JoinTimesOut, At, Steady, Paced, WorkerInv, TypeInv, TypeOK, Placed
<1>2. w'[1].pc = "check" /\ w'[1].since = now /\ w'[1].at = w[1].at /\ w'[1].i = i + 1
  BY <1>1, FirstFacts DEF Worker
<1>3. /\ i \in 1..(N + 1) /\ (i - 1) * T \in Nat /\ i * T = (i - 1) * T + T
      /\ (i - 2) * T \in Int /\ (i - 1) * T = (i - 2) * T + T /\ (i + 1 - 1) * T = i * T
      /\ (i + 1 - 2) * T = (i - 1) * T /\ i * T <= N * T
  <2>1. i \in Jobs /\ N \in Nat /\ T \in Nat
    BY <1>1, Bounds
  <2>. HIDE DEF i
  <2>2. i \in 1..(N + 1) /\ i + 1 \in 1..(N + 1) /\ i + 1 - 1 = i /\ i + 1 - 2 = i - 1
    BY <2>1 DEF Jobs
  <2>3. /\ (i - 1) * T \in Nat /\ i * T = (i - 1) * T + T
        /\ (i - 2) * T \in Int /\ (i - 1) * T = (i - 2) * T + T
    BY <2>1, <2>2, Products
  <2>4. (i + 1 - 1) * T <= N * T
    BY <2>1, <2>2, Products
  <2>. QED
    BY <2>2, <2>3, <2>4
<1>4. now - w[1].at <= i * T
  BY <1>1, <1>3, Bounds, FirstFacts
<1>5. ASSUME NEW j \in Jobs, j # i PROVE job'[j] = job[j]
  BY <1>1, <1>5 DEF JobEnds, JoinTimesOut, Ran, WorkerInv, TypeInv, TypeOK
<1>6. /\ job'[i].last = w[1].at
      /\ \/ job'[i].since = now
         \/ job'[i].since = job[i].since /\ job'[i].over = job[i].over
  BY <1>1, FirstFacts DEF JobEnds, JoinTimesOut, Ran, WorkerInv, TypeInv, TypeOK, Job
<1>7. LastRun(job'[i]) = w[1].at
  BY <1>6, FirstFacts, LargerOfTwo DEF LastRun
<1>8. Paced(w'[1], now)
  BY <1>2, <1>3, <1>4 DEF Paced
<1>9. ASSUME NEW j \in Jobs
      PROVE  /\ Awaited(w'[1], j, LastRun(job'[j]), now)
             /\ job'[j].over = "alive" => job'[j].since - LastRun(job'[j]) <= N * T
  <2>1. LastRun(job[j]) <= w[1].at /\ j \in Nat /\ i \in Nat
    BY <1>1 DEF Steady, Awaited, Jobs
  <2>2. CASE j > i
    BY <1>1, <1>2, <1>5, <2>1, <2>2 DEF Steady, Awaited, Passed
  <2>3. CASE j < i
    <3>1. Awaited(w'[1], j, LastRun(job[j]), now)
      BY <1>1, <1>2, <1>3, <1>4, <2>1, <2>3, Bounds, FirstFacts DEF Steady, Awaited, Passed
    <3>2. job[j].over = "alive" => job[j].since - LastRun(job[j]) <= N * T
      BY DEF Steady
    <3>3. job'[j] = job[j]
      BY <1>5, <2>1, <2>3
    <3>. QED
      BY <3>1, <3>2, <3>3
  <2>4. CASE j = i
    <3>1. Awaited(w'[1], j, LastRun(job'[j]), now)
      BY <1>1, <1>2, <1>7, <2>1, <2>4, FirstFacts DEF Awaited, Passed
    <3>2. job'[i].over = "alive" => job'[i].since - LastRun(job'[i]) <= N * T
      <4>1. CASE job'[i].since = now
        BY <1>3, <1>4, <1>7, <4>1, Bounds, FirstFacts
      <4>2. CASE job'[i].since = job[i].since /\ job'[i].over = job[i].over
        <5>1. job[i].over = "alive" => job[i].since - LastRun(job[i]) <= N * T
          BY <1>1 DEF Steady
        <5>. QED
          BY <1>1, <1>7, <2>1, <2>4, <4>2, <5>1, Bounds, FirstFacts
      <4>. QED
        BY <1>6, <4>1, <4>2
    <3>. QED
      BY <2>4, <3>1, <3>2
  <2>. QED
    BY <2>1, <2>2, <2>3, <2>4
<1>. QED
  BY <1>1, <1>8, <1>9 DEF Steady

LEMMA EndTickSteady ==
    ASSUME SchedulerConstants, JobsBounded, WorkerInv, 1 \in Gens,
           Steady(w[1], job, now), EndTick(1)
    PROVE  Steady(w'[1], job', now')
<1>1. /\ now' = now /\ job' = job /\ w[1].pc = "check" /\ w[1].i = N + 1
      /\ w[1].since = now /\ now - w[1].at <= (w[1].i - 1) * T
      /\ w'[1] = [w[1] EXCEPT !.pc = "sleep", !.since = now]
  BY FirstFacts, Bounds DEF EndTick, At, Steady, Paced, WorkerInv, TypeInv, TypeOK
<1>2. w'[1].pc = "sleep" /\ w'[1].since = now /\ w'[1].at = w[1].at
  BY <1>1, FirstFacts DEF Worker
<1>3. w[1].i - 1 = N /\ w[1].i - 2 = N - 1 /\ \A j \in Jobs : j < w[1].i
  BY <1>1, Bounds DEF Jobs
<1>4. Paced(w'[1], now)
  BY <1>1, <1>2, <1>3, Bounds, FirstFacts DEF Paced
<1>5. ASSUME NEW j \in Jobs PROVE Awaited(w'[1], j, LastRun(job[j]), now)
  BY <1>1, <1>2, <1>3 DEF Steady, Awaited, Passed
<1>. QED
  BY <1>1, <1>4, <1>5 DEF Steady

LEMMA PassSteady ==
    ASSUME SchedulerConstants, JobsBounded, WorkerInv, 1 \in Gens, Alive(1),
           Steady(w[1], job, now), Pass
    PROVE  Steady(w'[1], job', now')
<1>1. now' = now + 1 /\ w' = w /\ job' = job /\ Waiting(1)
  BY DEF Pass
<1>2. CASE At(1, "run") /\ ~TimedOut(1)
  <2>1. w[1].pc = "run" /\ w[1].i \in Jobs
    BY <1>2 DEF At, WorkerInv, TypeInv, Placed
  <2>2. now + 1 - w[1].since <= T
    BY <1>2, <2>1, Bounds, FirstFacts DEF TimedOut, JobsBounded
  <2>3. Paced(w[1], now + 1)
    <3>1. w[1].since - w[1].at <= (w[1].i - 1) * T
      BY <2>1 DEF Steady, Paced
    <3>2. /\ now \in Int /\ w[1].since \in Int /\ w[1].at \in Int /\ w[1].i \in Int
          /\ T \in Int /\ N \in Int /\ Tick \in Int
      BY Bounds, FirstFacts
    <3>. QED
      BY <2>1, <2>2, <3>1, <3>2 DEF Paced
  <2>4. ASSUME NEW j \in Jobs PROVE Awaited(w[1], j, LastRun(job[j]), now + 1)
    BY <2>1 DEF Steady, Awaited
  <2>. QED
    BY <1>1, <2>3, <2>4 DEF Steady
<1>3. CASE At(1, "sleep") /\ now - w[1].since < Tick
  <2>1. w[1].pc = "sleep" /\ now + 1 - w[1].since <= Tick
    BY <1>3, Bounds, FirstFacts DEF At
  <2>2. Paced(w[1], now + 1)
    <3>1. w[1].since - w[1].at <= N * T
      BY <2>1 DEF Steady, Paced
    <3>2. /\ now \in Int /\ w[1].since \in Int /\ w[1].at \in Int /\ w[1].i \in Int
          /\ T \in Int /\ N \in Int /\ Tick \in Int
      BY Bounds, FirstFacts
    <3>. QED
      BY <2>1, <3>1, <3>2 DEF Paced
  <2>3. ASSUME NEW j \in Jobs PROVE Awaited(w[1], j, LastRun(job[j]), now + 1)
    BY <2>1 DEF Steady, Awaited
  <2>. QED
    BY <1>1, <2>2, <2>3 DEF Steady
<1>. QED
  BY <1>1, <1>2, <1>3 DEF Waiting

LEMMA OverrunEndsSteady ==
    ASSUME SchedulerConstants, JobsBounded, WorkerInv, 1 \in Gens,
           Steady(w[1], job, now), NEW k \in Jobs, OverrunEnds(k)
    PROVE  Steady(w'[1], job', now')
<1>1. now' = now /\ w' = w /\ job' = [job EXCEPT ![k].over = "done"]
  BY DEF OverrunEnds
<1>2. ASSUME NEW j \in Jobs
      PROVE  /\ job'[j].last = job[j].last /\ job'[j].since = job[j].since
             /\ job'[j].over = "alive" => job[j].over = "alive"
  BY <1>1, FirstFacts DEF Job, WorkerInv, TypeInv, TypeOK
<1>. QED
  BY <1>1, <1>2 DEF Steady, LastRun

\* The first worker is started at time 0, when no job has run.
LEMMA FirstStart ==
    ASSUME SchedulerConstants, JobsBounded, WorkerInv, FirstWorker, gen = 0, Start
    PROVE  Steady(w'[1], job', now')
<1>1. 1 \in Gens /\ now = 0 /\ now' = 0 /\ job' = job
  BY DEF Start, Spawn, FirstWorker, Gens, SchedulerConstants
<1>2. w'[1].pc = "start"
  <2>1. w' = [w EXCEPT ![1] = [w[1] EXCEPT !.pc = "start"]] /\ w \in [Gens -> Worker]
    BY DEF Start, Spawn, WorkerInv, TypeInv, TypeOK
  <2>2. w'[1] = [w[1] EXCEPT !.pc = "start"] /\ w[1] \in Worker
    BY <1>1, <2>1
  <2>. QED
    BY <2>2 DEF Worker
<1>3. \A j \in Jobs : LastRun(job[j]) = 0 /\ job[j].over = "none"
  BY <1>1, FirstFacts DEF FirstWorker
<1>4. \A j \in Jobs : 0 - 0 <= Late(j)
  BY Bounds
<1>. QED
  BY <1>1, <1>2, <1>3, <1>4 DEF Steady, Paced, Awaited, Passed

\* Only the lifecycle changes the generation, and only a living worker has steps.
LEMMA GenKept == ASSUME Next, ~Start, ~EnsureAlive PROVE gen' = gen
<1>1. CASE Stop \/ Pass
  BY <1>1 DEF Stop, Pass
<1>2. ASSUME NEW g \in Gens,
             \/ Begin(g) \/ NextTick(g) \/ CheckJob(g) \/ JobEnds(g)
             \/ JobKillsWorker(g) \/ JoinTimesOut(g) \/ EndTick(g) \/ Wake(g)
      PROVE  gen' = gen
  BY <1>2 DEF Begin, NextTick, CheckJob, JobEnds, JobKillsWorker, JoinTimesOut, EndTick, Wake
<1>3. ASSUME NEW j \in Jobs, OverrunEnds(j) PROVE gen' = gen
  BY <1>3 DEF OverrunEnds
<1>. QED
  BY <1>1, <1>2, <1>3 DEF Next

LEMMA LivingSteps ==
    ASSUME NEW g \in Gens,
           \/ Begin(g) \/ NextTick(g) \/ CheckJob(g) \/ JobEnds(g)
           \/ JobKillsWorker(g) \/ JoinTimesOut(g) \/ EndTick(g) \/ Wake(g)
    PROVE  Alive(g)
<1>1. w[g].pc \in {"start", "loop", "check", "run", "sleep"}
  BY DEF Begin, NextTick, CheckJob, JobEnds, JobKillsWorker, JoinTimesOut, EndTick, Wake, At
<1>. QED
  BY <1>1 DEF Alive

LEMMA FirstWorkerKept ==
    ASSUME SchedulerConstants, JobsBounded, WorkerInv, FirstWorker, Next
    PROVE  FirstWorker'
<1>1. gen' = 0 => now' = 0 /\ \A j \in Jobs : job'[j].last = Never /\ job'[j].over = "none"
  <2>. SUFFICES ASSUME gen' = 0
                PROVE  now' = 0 /\ \A j \in Jobs : job'[j].last = Never /\ job'[j].over = "none"
    OBVIOUS
  <2>1. gen = 0 /\ ~Pass /\ ~Start /\ ~EnsureAlive
    <3>1. gen \in Nat
      BY DEF WorkerInv, TypeInv, TypeOK
    <3>2. ~Start /\ ~EnsureAlive
      BY <3>1 DEF Start, EnsureAlive, Spawn
    <3>3. gen' = gen
      BY <3>2, GenKept
    <3>. QED
      BY <3>1, <3>2, <3>3 DEF Pass
  <2>2. \A g \in Gens : ~Alive(g)
    BY <2>1 DEF WorkerInv, OnlyOne, Alive, Gens
  <2>3. \A j \in Jobs : job[j].over = "none"
    BY <2>1 DEF FirstWorker
  <2>4. Stop
    <3>1. \A j \in Jobs : ~OverrunEnds(j)
      BY <2>3 DEF OverrunEnds
    <3>. QED
      BY <2>1, <2>2, <3>1, LivingSteps DEF Next
  <2>. QED
    BY <2>1, <2>4 DEF Stop, FirstWorker
<1>2. ASSUME gen' = 1, Alive(1)', ~stop' PROVE Steady(w'[1], job', now')
  <2>1. 1 \in Gens
    BY <1>2 DEF Alive, Gens
  <2>2. CASE Start
    <3>1. gen = 0
      BY <1>2, <2>2 DEF Start, Spawn, WorkerInv, TypeInv, TypeOK
    <3>. QED
      BY <2>2, <3>1, FirstStart
  <2>3. CASE EnsureAlive
    BY <1>2, <2>3 DEF EnsureAlive, Spawn, WorkerInv, TypeInv, TypeOK
  <2>4. CASE Stop
    BY <1>2, <2>4 DEF Stop
  <2>5. CASE Pass
    <3>1. gen = 1 /\ Alive(1) /\ ~stop
      BY <1>2, <2>5 DEF Pass, Alive
    <3>. QED
      BY <2>1, <2>5, <3>1, PassSteady DEF FirstWorker
  <2>6. ASSUME NEW j \in Jobs, OverrunEnds(j) PROVE Steady(w'[1], job', now')
    <3>1. gen = 1 /\ Alive(1) /\ ~stop
      BY <1>2, <2>6 DEF OverrunEnds, Alive
    <3>. QED
      BY <2>1, <2>6, <3>1, OverrunEndsSteady DEF FirstWorker
  <2>7. ASSUME NEW g \in Gens,
               \/ Begin(g) \/ NextTick(g) \/ CheckJob(g) \/ JobEnds(g)
               \/ JobKillsWorker(g) \/ JoinTimesOut(g) \/ EndTick(g) \/ Wake(g)
        PROVE  Steady(w'[1], job', now')
    <3>1. gen = 1 /\ ~stop /\ Alive(g)
      <4>1. gen' = gen /\ stop' = stop
        BY <2>7 DEF Begin, NextTick, CheckJob, JobEnds, JobKillsWorker, JoinTimesOut, EndTick, Wake
      <4>2. Alive(g)
        BY <2>7, LivingSteps
      <4>. QED
        BY <1>2, <4>1, <4>2
    <3>2. g = 1 /\ Alive(1)
      BY <3>1 DEF WorkerInv, OnlyOne
    <3>3. Steady(w[1], job, now)
      BY <3>1, <3>2 DEF FirstWorker
    <3>4. ~JobKillsWorker(1)
      <4>. SUFFICES ASSUME JobKillsWorker(1) PROVE FALSE
        OBVIOUS
      <4>1. w'[1] = [NoWorker EXCEPT !.pc = "dead"]
        BY <2>1 DEF JobKillsWorker, WorkerInv, TypeInv, TypeOK
      <4>. QED
        BY <1>2, <4>1 DEF Alive, NoWorker
    <3>. QED
      BY <2>1, <2>7, <3>1, <3>2, <3>3, <3>4, LoopSteady, CheckJobSteady, RanSteady, EndTickSteady
  <2>. QED
    BY <2>2, <2>3, <2>4, <2>5, <2>6, <2>7 DEF Next
<1>. QED
  BY <1>1, <1>2 DEF FirstWorker

-----------------------------------------------------------------------------
(* Theorems *)

\* With every cap at or below the staleness limit, the watchdog never takes a living worker for
\* hung, whatever its jobs do and however many of them use up their cap in one tick
\* (scheduler_worker.py 155-176, 219-223, 227-260).
THEOREM WorkerNotHung == JobsBounded => (Spec => []BoundedWorkerNotHung)
<1>. SUFFICES ASSUME JobsBounded PROVE Spec => []BoundedWorkerNotHung
  OBVIOUS
<1>1. WorkerInv => BoundedWorkerNotHung
  <2>. SUFFICES ASSUME WorkerInv, Alive(gen), HeartbeatStale PROVE FALSE
    BY DEF BoundedWorkerNotHung
  <2>1. now \in Int /\ hb \in Int /\ Stale \in Int
    BY SchedulerConstants DEF WorkerInv, TypeInv, TypeOK, Time
  <2>2. now - hb > Stale /\ now - hb <= Stale
    BY DEF HeartbeatStale, WorkerInv, YoungBeat, Beats
  <2>. QED
    BY <2>1, <2>2
<1>2. Spec => []WorkerInv
  BY WorkerInvKept, SchedulerConstants
<1>. QED
  BY <1>1, <1>2, PTL

\* Under the same condition two runs of one job never overlap: not on two workers, through
\* stops, restarts and deaths of the thread, and not on a worker beside an abandoned run that
\* is not yet presumed hung (scheduler_worker.py 178-208, 262-325).
THEOREM RunsDoNotOverlap == JobsBounded => (Spec => []NoOverlap)
<1>. SUFFICES ASSUME JobsBounded PROVE Spec => []NoOverlap
  OBVIOUS
<1>1. WorkerInv => NoOverlap
  <2>. SUFFICES ASSUME WorkerInv, NEW j \in Jobs
                PROVE  /\ Cardinality(Running(j)) <= 1
                       /\ Running(j) # {} => job[j].over # "alive"
    BY DEF NoOverlap
  <2>1. Running(j) \subseteq {gen}
    BY DEF Running, At, Alive, WorkerInv, OnlyOne
  <2>2. IsFiniteSet({gen}) /\ Cardinality({gen}) = 1
    BY FS_Singleton
  <2>3. Cardinality(Running(j)) <= 1
    BY <2>1, <2>2, FS_Subset
  <2>4. Running(j) # {} => job[j].over # "alive"
    BY DEF Running, WorkerInv, Apart
  <2>. QED
    BY <2>3, <2>4
<1>2. Spec => []WorkerInv
  BY WorkerInvKept, SchedulerConstants
<1>. QED
  BY <1>1, <1>2, PTL

\* Under the same condition jobs that hang, again and again, delay each other and themselves by a
\* bounded time: a job that is not running began no longer ago than its interval, or its own run
\* and the grace of the thread it left behind, plus twice the caps of the other jobs and a tick
\* (_maybe_run, _run_job and _previous_run_alive, scheduler_worker.py 178-208, 262-325).
THEOREM JobsDoNotStarve == JobsBounded => (Spec => []NoStarvation)
<1>. SUFFICES ASSUME JobsBounded PROVE Spec => []NoStarvation
  OBVIOUS
<1>1. Spec => []WorkerInv
  BY WorkerInvKept, SchedulerConstants
<1>2. Init => FirstWorker
  BY DEF Init, FirstWorker
<1>3. WorkerInv /\ FirstWorker /\ [Next]_vars => FirstWorker'
  <2>. SUFFICES ASSUME WorkerInv, FirstWorker, [Next]_vars PROVE FirstWorker'
    OBVIOUS
  <2>1. CASE UNCHANGED vars
    BY <2>1 DEF vars, FirstWorker, Alive
  <2>. QED
    BY <2>1, FirstWorkerKept, SchedulerConstants
<1>4. WorkerInv /\ FirstWorker => NoStarvation
  <2>. SUFFICES ASSUME WorkerInv, FirstWorker, NEW j \in Jobs,
                       gen = 1, Alive(1), ~stop, Running(j) = {}
                PROVE  now - Max({job[j].last, 0}) <= StarveBound(j)
    BY DEF NoStarvation
  <2> DEFINE x == w[1]
             b == LastRun(job[j])
  <2>1. 1 \in Gens /\ x \in Worker /\ Paced(x, now) /\ Awaited(x, j, b, now)
    <3>1. 1 \in Gens
      BY DEF Alive
    <3>. QED
      BY <3>1, FirstFacts, SchedulerConstants DEF FirstWorker, Steady
  <2>2. StarveBound(j) = Hold(j) + (N - 1) * T + (N - 1) * T + Tick
    BY Bounds, SchedulerConstants DEF StarveBound, Hold
  <2>3. /\ b \in Nat /\ now \in Nat /\ x.at \in Nat /\ x.since \in Nat /\ x.i \in 1..(N + 1)
        /\ x.at <= now
    BY <2>1, FirstFacts, SchedulerConstants
  <2>4. x.pc = "run" => x.i # j
    BY <2>1 DEF Running, At
  <2>5. x.pc = "run" => x.i \in Jobs
    BY <2>1 DEF WorkerInv, TypeInv, Placed, At
  <2>6. /\ (x.i - 1) * T \in Nat /\ (x.i - 2) * T \in Int /\ (x.i - 1) * T = (x.i - 2) * T + T
        /\ x.i * T = (x.i - 1) * T + T
        /\ (x.i - 1) * T <= N * T /\ x.i <= N => (x.i - 1) * T <= (N - 1) * T
    BY <2>3, Bounds, Products, SchedulerConstants
  <2> HIDE DEF x, b
  <2>7. now - b <= StarveBound(j)
    <3>1. CASE x.pc \in {"start", "loop"}
      BY <2>1, <2>2, <2>3, <3>1, Bounds, SchedulerConstants DEF Awaited
    <3>2. CASE Passed(x, j) /\ b = x.at
      <4>1. now - x.at <= N * T + Tick
        <5>1. CASE x.pc = "sleep"
          BY <2>1, <2>3, <5>1, Bounds, SchedulerConstants DEF Paced
        <5>2. CASE x.pc = "check"
          BY <2>1, <2>3, <2>6, <5>2, Bounds, SchedulerConstants DEF Paced
        <5>3. CASE x.pc = "run"
          <6>1. x.i <= N
            <7>1. N \in Nat /\ x.i \in 1..N
              BY <2>5, <5>3, Bounds, SchedulerConstants DEF Jobs
            <7>. QED
              BY <7>1
          <6>. QED
            BY <2>1, <2>3, <2>6, <5>3, <6>1, Bounds, SchedulerConstants DEF Paced
        <5>. QED
          BY <3>2, <5>1, <5>2, <5>3 DEF Passed
      <4>. QED
        BY <2>2, <2>3, <3>2, <4>1, Bounds, SchedulerConstants
    <3>3. CASE Passed(x, j) /\ b # x.at
      <4>1. x.at - b < Hold(j)
        BY <2>1, <3>3 DEF Awaited
      <4>2. now - x.at <= (N - 1) * T + Tick
        <5>1. x.since - x.at <= (IF x.pc = "sleep" THEN N - 1 ELSE x.i - 2) * T
          BY <2>1, <3>3 DEF Awaited
        <5>2. CASE x.pc = "sleep"
          BY <2>1, <2>3, <5>1, <5>2, Bounds, SchedulerConstants DEF Paced
        <5>3. CASE x.pc = "check"
          BY <2>1, <2>3, <2>6, <5>1, <5>3, Bounds, SchedulerConstants DEF Paced
        <5>4. CASE x.pc = "run"
          <6>1. x.i <= N
            <7>1. N \in Nat /\ x.i \in 1..N
              BY <2>5, <5>4, Bounds, SchedulerConstants DEF Jobs
            <7>. QED
              BY <7>1
          <6>2. x.since - x.at <= (x.i - 2) * T /\ now - x.since <= T
            BY <2>1, <5>1, <5>4 DEF Paced
          <6>3. now - x.at <= (x.i - 1) * T
            <7>1. T \in Nat
              BY Bounds, SchedulerConstants
            <7>. QED
              BY <2>3, <2>6, <6>2, <7>1
          <6>. QED
            BY <2>3, <2>6, <6>1, <6>3, Bounds, SchedulerConstants
        <5>. QED
          BY <3>3, <5>2, <5>3, <5>4 DEF Passed
      <4>. QED
        BY <2>2, <2>3, <4>1, <4>2, Bounds, SchedulerConstants
    <3>4. CASE x.pc \in {"check", "run"} /\ j >= x.i
      <4>1. x.at - b <= Hold(j) + (N - 1) * T + Tick
        BY <2>1, <3>4, Bounds, SchedulerConstants DEF Awaited
      <4>2. now - x.at <= (N - 1) * T
        <5>1. j <= N /\ j \in Nat /\ x.i <= N
          <6>1. N \in Nat /\ j \in 1..N
            BY Bounds, SchedulerConstants DEF Jobs
          <6>. QED
            BY <2>3, <3>4, <6>1
        <5>2. CASE x.pc = "check"
          BY <2>1, <2>3, <2>6, <5>1, <5>2, Bounds, SchedulerConstants DEF Paced
        <5>3. CASE x.pc = "run"
          <6>1. x.i <= N - 1 /\ x.i + 1 \in 1..(N + 1)
            BY <2>3, <2>4, <3>4, <5>1, <5>3, Bounds, SchedulerConstants
          <6>2. x.i * T <= (N - 1) * T
            <7>1. x.i + 1 <= N /\ N \in Nat /\ T \in Nat
              BY <2>3, <6>1, Bounds, SchedulerConstants
            <7>. QED
              BY <2>3, <6>1, <7>1, MoreJobsTakeLonger
          <6>. QED
            BY <2>1, <2>3, <2>6, <5>3, <6>2, Bounds, SchedulerConstants DEF Paced
        <5>. QED
          BY <3>4, <5>2, <5>3
      <4>. QED
        BY <2>2, <2>3, <4>1, <4>2, Bounds, SchedulerConstants
    <3>5. x.pc \in {"start", "loop", "check", "run", "sleep"}
      BY <2>1 DEF Worker, Alive, x
    <3>6. j \in Int /\ x.i \in Int
      BY <2>3 DEF Jobs
    <3>. QED
      BY <3>1, <3>2, <3>3, <3>4, <3>5, <3>6 DEF Passed
  <2>. QED
    BY <2>7 DEF b, LastRun
<1>. QED
  BY <1>1, <1>2, <1>3, <1>4, PTL DEF Spec
=============================================================================
