-------------------------------- MODULE Cadence --------------------------------
(***************************************************************************)
(* One workflow_cadence tick after the other (app/workflow/service.py,      *)
(* cadence_budget.py, operations.py): maintenance, then the scan buckets in *)
(* their fixed order, each under the tick's wall-clock budget and its own   *)
(* workflow lock, beside scans asked for over the API, which take the same  *)
(* locks and know no budget.  A deploy kills both and leaves their locks.   *)
(*                                                                          *)
(*   t      time since the tick started     pos    the bucket to look at next*)
(*   run    the tick's bucket: its stage, number, and the time since it was *)
(*          admitted;  api: the requested scan                              *)
(*   age    time since a bucket's last completed scan, up to its interval   *)
(*   lock   whose stamp a bucket's lock holds, and its age                  *)
(***************************************************************************)
EXTENDS Integers

CONSTANTS
    Last,           \* SCAN_BUCKETS are 1..Last, in order
    JobTimeout,     \* scheduler_job_timeout_seconds
    Reserve,        \* POST_SCAN_RESERVE_SECONDS
    GuardSetup,     \* GUARD_SETUP_SECONDS
    ScanSetup,      \* SCAN_SETUP_SECONDS
    Prestart,       \* INTRADAY_PRESTART_SECONDS, by bucket
    MinScan,        \* MIN_USEFUL_SCAN_SECONDS
    Interval,       \* minutes between the scans of a bucket
    LockTimeout,    \* stale_lock_minutes
    TickWait,       \* background_scheduler_interval_seconds
    MaxMaintain, MaxPre, MaxSetup, Overshoot, MaxPost   \* what the steps take at most

Buckets == 1..Last
\* Mutant: nothing is kept back for the work after the scan.
StopAtCap == JobTimeout

StopAt == JobTimeout - Reserve

ASSUME CadenceConstants ==
    /\ {Last, JobTimeout, Reserve, GuardSetup, ScanSetup, MinScan, LockTimeout, TickWait,
        MaxMaintain, MaxPre, MaxSetup, Overshoot, MaxPost} \subseteq Nat
    /\ Last >= 1
    /\ Prestart \in [Buckets -> Nat] /\ Interval \in [Buckets -> Nat]

\* The measurements the reserve is made for (cadence_budget.py:36-48): the scan stops within
\* Overshoot of its deadline and the work after it fits in the rest of the reserve; work
\* before it may be slower than charged, but not by a whole useful scan.
ASSUME MeasuredCosts ==
    /\ Reserve <= JobTimeout
    /\ Overshoot + MaxPost <= Reserve
    /\ \A b \in Buckets : MaxPre <= GuardSetup + Prestart[b] + MinScan
    /\ MaxSetup <= ScanSetup + MinScan

VARIABLES t, pos, run, api, age, lock

vars == <<t, pos, run, api, age, lock>>

Stages == {"wait", "maintain", "next", "pre", "take", "write", "fits", "setup", "scan", "post",
           "free"}
At(stage) == [stage |-> stage, b |-> 1, spent |-> 0]
ApiIdle == [stage |-> "idle", b |-> 1]
ApiStages == {"idle", "write", "scan", "free"}
Owners == {"none", "tick", "api", "dead"}
Unlocked == [by |-> "none", age |-> 0]

Init ==
    /\ t = 0 /\ pos = 1 /\ run = At("wait") /\ api = ApiIdle
    /\ age \in [Buckets -> {0}]
    /\ lock = [b \in Buckets |-> Unlocked]

-----------------------------------------------------------------------------
(* Time and locks *)

UpTo(x, max) == IF x < max THEN x ELSE max

\* d units pass; ages stop at the value that makes a bucket due and a lock stale.
Aged(d) == [b \in Buckets |-> UpTo(age[b] + d, Interval[b])]
AgedLock(d) == [b \in Buckets |-> IF lock[b] = Unlocked THEN Unlocked
                                  ELSE [lock[b] EXCEPT !.age = UpTo(@ + d, LockTimeout)]]
Elapse(d) ==
    /\ t' = t + d
    /\ age' = Aged(d)
    /\ lock' = AgedLock(d)

Due(b) == age[b] >= Interval[b]
\* Mutant: a lock is never stale.
FreeNoTakeover(b) == lock[b] = Unlocked

Free(b) == lock[b] = Unlocked \/ lock[b].age >= LockTimeout
\* release_workflow_lock: a run that was taken over leaves the newer lock.
Released(b, who) == IF lock[b].by \in {who, "none"} THEN [lock EXCEPT ![b] = Unlocked] ELSE lock

-----------------------------------------------------------------------------
(* The tick *)

\* The next tick is due; one that finds automation blocked returns at once.
Wait ==
    /\ run.stage = "wait"
    /\ age' = Aged(TickWait) /\ lock' = AgedLock(TickWait)
    /\ UNCHANGED <<t, api>>

\* Mutant: the loop starts before the first bucket.
StartTickEarly ==
    /\ Wait
    /\ pos' = 0
    /\ run' = At("maintain")

StartTick ==
    /\ Wait
    /\ pos' = 1
    /\ run' = At("maintain")

PausedTick ==
    /\ Wait
    /\ UNCHANGED <<pos, run>>

Maintain ==
    /\ run.stage = "maintain"
    /\ \E d \in 0..MaxMaintain : Elapse(d)
    /\ run' = At("next")
    /\ UNCHANGED <<pos, api>>

\* Mutant: the intraday symbols are not charged.
AdmitsNoPrestart(b) == StopAt - t - (GuardSetup + ScanSetup) >= MinScan

\* CadenceBudget.admits: the pre-work, a useful scan and the reserve still fit.
Admits(b) == StopAt - t - (GuardSetup + ScanSetup + Prestart[b]) >= MinScan
\* CadenceBudget.scan_fits: the backstop where the real pre-work is spent.
ScanFits == StopAt - t - ScanSetup >= MinScan

NextBucket ==
    /\ run.stage = "next"
    /\ pos <= Last
    /\ pos' = pos + 1
    /\ run' = IF Due(pos) /\ Admits(pos) THEN [stage |-> "pre", b |-> pos, spent |-> 0] ELSE run
    /\ UNCHANGED <<t, api, age, lock>>

EndTick ==
    /\ run.stage = "next"
    /\ pos > Last
    /\ run' = At("wait") /\ t' = 0 /\ pos' = 1
    /\ UNCHANGED <<api, age, lock>>

\* The symbols of an intraday scan and the guard's own reads and writes.
PreWork(d) ==
    /\ run.stage = "pre"
    /\ Elapse(d)
    /\ run' = [run EXCEPT !.stage = "take", !.spent = d]
    /\ UNCHANGED <<pos, api>>

\* _execute_guarded: the lock is read, then written.
TakeLock ==
    /\ run.stage = "take"
    /\ run' = IF Free(run.b) THEN [run EXCEPT !.stage = "write"] ELSE At("next")
    /\ UNCHANGED <<t, pos, api, age, lock>>

WriteLock ==
    /\ run.stage = "write"
    /\ lock' = [lock EXCEPT ![run.b] = [by |-> "tick", age |-> 0]]
    /\ run' = [run EXCEPT !.stage = "fits"]
    /\ UNCHANGED <<t, pos, api, age>>

\* run_scan_task
Backstop ==
    /\ run.stage = "fits"
    /\ run' = [run EXCEPT !.stage = IF ScanFits THEN "setup" ELSE "free", !.spent = 0]
    /\ UNCHANGED <<t, pos, api, age, lock>>

Setup ==
    /\ run.stage = "setup"
    /\ \E d \in 0..MaxSetup : Elapse(d)
    /\ run' = [run EXCEPT !.stage = "scan"]
    /\ UNCHANGED <<pos, api>>

\* scan_universe with the deadline as its cancel_event; an exception ends the task.
Scan(failed) ==
    /\ run.stage = "scan"
    /\ \E d \in 0..(JobTimeout + Overshoot) : t + d <= StopAt + Overshoot /\ Elapse(d)
    /\ run' = [run EXCEPT !.stage = IF failed THEN "free" ELSE "post"]
    /\ UNCHANGED <<pos, api>>

\* Alerts, tracking and proposals; then the bucket counts as run.
PostScan ==
    /\ run.stage = "post"
    /\ \E d \in 0..MaxPost :
        t' = t + d /\ lock' = AgedLock(d) /\ age' = [Aged(d) EXCEPT ![run.b] = 0]
    /\ run' = [run EXCEPT !.stage = "free"]
    /\ UNCHANGED <<pos, api>>

FreeLock ==
    /\ run.stage = "free"
    /\ lock' = Released(run.b, "tick")
    /\ run' = At("next")
    /\ UNCHANGED <<t, pos, api, age>>

-----------------------------------------------------------------------------
(* The API, deploys *)

\* POST /workflow/...: the same guard, no budget.
ApiTake(b) ==
    /\ api.stage = "idle"
    /\ Free(b)
    /\ api' = [stage |-> "write", b |-> b]
    /\ UNCHANGED <<t, pos, run, age, lock>>

ApiWrite ==
    /\ api.stage = "write"
    /\ lock' = [lock EXCEPT ![api.b] = [by |-> "api", age |-> 0]]
    /\ api' = [api EXCEPT !.stage = "scan"]
    /\ UNCHANGED <<t, pos, run, age>>

ApiScan(failed) ==
    /\ api.stage = "scan"
    /\ age' = IF failed THEN age ELSE [age EXCEPT ![api.b] = 0]
    /\ api' = [api EXCEPT !.stage = "free"]
    /\ UNCHANGED <<t, pos, run, lock>>

ApiFree ==
    /\ api.stage = "free"
    /\ lock' = Released(api.b, "api")
    /\ api' = ApiIdle
    /\ UNCHANGED <<t, pos, run, age>>

Deploy ==
    /\ \E b \in Buckets : lock[b].by \in {"tick", "api"}
    /\ run' = At("wait") /\ t' = 0 /\ pos' = 1 /\ api' = ApiIdle
    /\ lock' = [b \in Buckets |-> IF lock[b].by \in {"tick", "api"}
                                  THEN [lock[b] EXCEPT !.by = "dead"] ELSE lock[b]]
    /\ UNCHANGED age

Bucket ==
    \/ NextBucket \/ TakeLock \/ WriteLock \/ Backstop \/ Setup \/ PostScan \/ FreeLock
    \/ \E d \in 0..MaxPre : PreWork(d)
    \/ \E failed \in BOOLEAN : Scan(failed)

Api == ApiWrite \/ ApiFree \/ \E failed \in BOOLEAN : ApiScan(failed)

Next ==
    \/ StartTick \/ PausedTick \/ Maintain \/ Bucket \/ EndTick
    \/ Api \/ (\E b \in Buckets : ApiTake(b))
    \/ Deploy

Spec == Init /\ [][Next]_vars

\* Ticks go on; pre-work is often enough no slower than charged and scans often enough do not
\* fail; deploys and blocked ticks end.
LiveSpec ==
    /\ Spec
    /\ WF_vars(StartTick \/ Maintain \/ Bucket \/ EndTick) /\ WF_vars(Api)
    /\ SF_vars(\E d \in 0..GuardSetup : PreWork(d)) /\ SF_vars(Scan(FALSE))
    /\ <>[][~Deploy /\ ~PausedTick]_vars

-----------------------------------------------------------------------------
(* Properties *)

\* The tick's clock, position and stage, the bucket ages and the workflow locks keep their types.
TypeOK ==
    /\ t \in Nat /\ pos \in 1..(Last + 1)
    /\ run \in [stage: Stages, b: Buckets, spent: Nat]
    /\ api \in [stage: ApiStages, b: Buckets]
    /\ age \in [Buckets -> Nat] /\ lock \in [Buckets -> [by: Owners, age: Nat]]

\* A bucket that was admitted, scanned or not, is done before the worker's cap for the job:
\* whatever maintenance took, the tick is not abandoned because of its buckets.
BucketsFit == run.stage \in {"pre", "take", "write", "fits", "setup", "scan", "post", "free"}
                 => t <= JobTimeout

\* The admission and the backstop agree: a bucket whose pre-work took no longer than was
\* charged for it is not turned away by the backstop.
AdmittedIsScanned == run.stage = "fits" /\ run.spent <= GuardSetup + Prestart[run.b] => ScanFits

\* A due bucket is scanned, though earlier buckets go first and a deploy may leave its lock.
DueIsScanned == \A b \in Buckets :
    Due(b) ~> ~Due(b) \/ \E x \in {run, api} : x.stage = "scan" /\ x.b = b
=============================================================================
