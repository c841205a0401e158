---------------------------- MODULE CadenceProofs ----------------------------
(***************************************************************************)
(* For every number of buckets and every cost within the measurements, a    *)
(* tick's buckets end before the worker's cap, and the backstop never turns *)
(* away a bucket whose pre-work was charged for.                            *)
(***************************************************************************)
EXTENDS Cadence, TLAPS

\* What the tick still has left at each stage of a bucket.
Room ==
    /\ run.stage = "pre" => Admits(run.b)
    /\ run.stage \in {"take", "write", "fits"} =>
          /\ StopAt - (t - run.spent) - (GuardSetup + ScanSetup + Prestart[run.b]) >= MinScan
          /\ run.spent <= MaxPre
    /\ run.stage = "setup" => ScanFits
    /\ run.stage = "scan" => t <= StopAt
    /\ run.stage = "post" => t <= StopAt + Overshoot
    /\ run.stage = "free" => t <= JobTimeout

CadenceInv == TypeOK /\ Room

\* The constants are naturals; there is a first bucket whenever there is a bucket.
LEMMA ConstantTypes ==
    /\ Last >= 1 /\ 1 \in Buckets /\ 1 \in 1..(Last + 1)
    /\ Last \in Nat /\ JobTimeout \in Nat /\ Reserve \in Nat /\ GuardSetup \in Nat
    /\ ScanSetup \in Nat /\ MinScan \in Nat /\ LockTimeout \in Nat /\ TickWait \in Nat
    /\ MaxMaintain \in Nat /\ MaxPre \in Nat /\ MaxSetup \in Nat /\ Overshoot \in Nat
    /\ MaxPost \in Nat /\ StopAt \in Int
    /\ Prestart \in [Buckets -> Nat] /\ Interval \in [Buckets -> Nat]
  BY CadenceConstants DEF StopAt, Buckets

LEMMA AgedType ==
    ASSUME TypeOK, NEW d \in Nat
    PROVE Aged(d) \in [Buckets -> Nat] /\ AgedLock(d) \in [Buckets -> [by: Owners, age: Nat]]
<1>1. ASSUME NEW b \in Buckets PROVE UpTo(age[b] + d, Interval[b]) \in Nat
  <2>1. age[b] \in Nat /\ Interval[b] \in Nat
    BY <1>1, ConstantTypes DEF TypeOK
  <2> QED BY <2>1 DEF UpTo
<1>2. ASSUME NEW b \in Buckets
      PROVE [lock[b] EXCEPT !.age = UpTo(@ + d, LockTimeout)] \in [by: Owners, age: Nat]
  <2>1. lock[b] \in [by: Owners, age: Nat]
    BY <1>2 DEF TypeOK
  <2>2. UpTo(lock[b].age + d, LockTimeout) \in Nat
    <3>1. lock[b].age \in Nat /\ LockTimeout \in Nat
      BY <2>1, ConstantTypes
    <3> QED BY <3>1 DEF UpTo
  <2> QED BY <2>1, <2>2
<1>3. Unlocked \in [by: Owners, age: Nat]
  BY DEF Unlocked, Owners
<1>4. Aged(d) \in [Buckets -> Nat]
  BY <1>1 DEF Aged
<1> QED BY <1>2, <1>3, <1>4 DEF AgedLock

LEMMA ReleasedType ==
    ASSUME TypeOK, NEW b \in Buckets, NEW who \in Owners
    PROVE Released(b, who) \in [Buckets -> [by: Owners, age: Nat]]
<1>1. Unlocked \in [by: Owners, age: Nat]
  BY DEF Unlocked, Owners
<1> QED BY <1>1 DEF Released, TypeOK

LEMMA RecordTypes ==
    /\ Unlocked \in [by: Owners, age: Nat]
    /\ \A stage \in Stages : At(stage) \in [stage: Stages, b: Buckets, spent: Nat]
    /\ ApiIdle \in [stage: ApiStages, b: Buckets]
<1>1. Unlocked \in [by: Owners, age: Nat]
  BY DEF Unlocked, Owners
<1>2. \A stage \in Stages : At(stage) \in [stage: Stages, b: Buckets, spent: Nat]
  BY ConstantTypes DEF At
<1>3. ApiIdle \in [stage: ApiStages, b: Buckets]
  BY ConstantTypes DEF ApiIdle, ApiStages
<1> QED BY <1>1, <1>2, <1>3

LEMMA RunType ==
    ASSUME TypeOK, NEW s \in Stages, NEW n \in Nat
    PROVE /\ [run EXCEPT !.stage = s] \in [stage: Stages, b: Buckets, spent: Nat]
          /\ [run EXCEPT !.stage = s, !.spent = n] \in [stage: Stages, b: Buckets, spent: Nat]
  BY DEF TypeOK

\* Every step keeps the types.
LEMMA TypeStep ==
    ASSUME TypeOK, [Next]_vars
    PROVE TypeOK'
<1> USE ConstantTypes, RecordTypes
<1>1. CASE StartTick
  <2>1. Aged(TickWait) \in [Buckets -> Nat] /\ AgedLock(TickWait) \in [Buckets -> [by: Owners, age: Nat]]
    BY AgedType
  <2>2. run' \in [stage: Stages, b: Buckets, spent: Nat]
    BY <1>1 DEF StartTick, Stages
  <2> QED BY <1>1, <2>1, <2>2 DEF StartTick, Wait, TypeOK
<1>2. CASE PausedTick
  <2>1. Aged(TickWait) \in [Buckets -> Nat] /\ AgedLock(TickWait) \in [Buckets -> [by: Owners, age: Nat]]
    BY AgedType
  <2> QED BY <1>2, <2>1 DEF PausedTick, Wait, TypeOK
<1>3. CASE Maintain
  <2> PICK d \in 0..MaxMaintain : Elapse(d)
    BY <1>3 DEF Maintain
  <2>1. d \in Nat
    OBVIOUS
  <2>2. Aged(d) \in [Buckets -> Nat] /\ AgedLock(d) \in [Buckets -> [by: Owners, age: Nat]]
    BY <2>1, AgedType
  <2> QED BY <1>3, <2>1, <2>2 DEF Maintain, Elapse, TypeOK, Stages
<1>4. CASE NextBucket
  <2>1. pos \in Buckets /\ pos' \in 1..(Last + 1)
    BY <1>4 DEF NextBucket, TypeOK, Buckets
  <2>2. [stage |-> "pre", b |-> pos, spent |-> 0] \in [stage: Stages, b: Buckets, spent: Nat]
    BY <2>1 DEF Stages
  <2> QED BY <1>4, <2>1, <2>2 DEF NextBucket, TypeOK
<1>5. CASE EndTick
  BY <1>5 DEF EndTick, TypeOK, Stages
<1>6. CASE \E d \in 0..MaxPre : PreWork(d)
  <2> PICK d \in 0..MaxPre : PreWork(d)
    BY <1>6
  <2>1. d \in Nat
    OBVIOUS
  <2>2. Aged(d) \in [Buckets -> Nat] /\ AgedLock(d) \in [Buckets -> [by: Owners, age: Nat]]
    BY <2>1, AgedType
  <2>3. run' \in [stage: Stages, b: Buckets, spent: Nat]
    <3>1. "take" \in Stages /\ run' = [run EXCEPT !.stage = "take", !.spent = d]
      BY DEF PreWork, Stages
    <3> QED BY <2>1, <3>1, RunType
  <2> QED BY <2>1, <2>2, <2>3 DEF PreWork, Elapse, TypeOK
<1>7. CASE TakeLock
  BY <1>7 DEF TakeLock, TypeOK, Stages
<1>8. CASE WriteLock
  BY <1>8 DEF WriteLock, TypeOK, Stages, Owners
<1>9. CASE Backstop
  BY <1>9 DEF Backstop, TypeOK, Stages
<1>10. CASE Setup
  <2> PICK d \in 0..MaxSetup : Elapse(d)
    BY <1>10 DEF Setup
  <2>1. d \in Nat
    OBVIOUS
  <2>2. Aged(d) \in [Buckets -> Nat] /\ AgedLock(d) \in [Buckets -> [by: Owners, age: Nat]]
    BY <2>1, AgedType
  <2>3. run' \in [stage: Stages, b: Buckets, spent: Nat]
    <3>1. "scan" \in Stages /\ run' = [run EXCEPT !.stage = "scan"]
      BY <1>10 DEF Setup, Stages
    <3> QED BY <2>1, <3>1, RunType
  <2> QED BY <1>10, <2>1, <2>2, <2>3 DEF Setup, Elapse, TypeOK
<1>11. CASE \E failed \in BOOLEAN : Scan(failed)
  <2> PICK failed \in BOOLEAN : Scan(failed)
    BY <1>11
  <2> PICK d \in 0..(JobTimeout + Overshoot) : Elapse(d)
    BY DEF Scan
  <2>1. d \in Nat
    OBVIOUS
  <2>2. Aged(d) \in [Buckets -> Nat] /\ AgedLock(d) \in [Buckets -> [by: Owners, age: Nat]]
    BY <2>1, AgedType
  <2>3. run' \in [stage: Stages, b: Buckets, spent: Nat]
    <3>1. PICK s \in Stages : run' = [run EXCEPT !.stage = s]
      BY DEF Scan, Stages
    <3> QED BY <2>1, <3>1, RunType
  <2> QED BY <2>1, <2>2, <2>3 DEF Scan, Elapse, TypeOK
<1>12. CASE PostScan
  <2> PICK d \in 0..MaxPost :
        t' = t + d /\ lock' = AgedLock(d) /\ age' = [Aged(d) EXCEPT ![run.b] = 0]
    BY <1>12 DEF PostScan
  <2>1. d \in Nat
    OBVIOUS
  <2>2. Aged(d) \in [Buckets -> Nat] /\ AgedLock(d) \in [Buckets -> [by: Owners, age: Nat]]
    BY <2>1, AgedType
  <2>3. run' \in [stage: Stages, b: Buckets, spent: Nat]
    BY <1>12, <2>1, RunType DEF PostScan, Stages
  <2>4. age' \in [Buckets -> Nat]
    BY <2>2
  <2> QED BY <1>12, <2>1, <2>2, <2>3, <2>4 DEF PostScan, TypeOK
<1>13. CASE FreeLock
  BY <1>13, ReleasedType DEF FreeLock, TypeOK, Stages, Owners
<1>14. CASE \E b \in Buckets : ApiTake(b)
  BY <1>14 DEF ApiTake, TypeOK, ApiStages
<1>15. CASE ApiWrite
  BY <1>15 DEF ApiWrite, TypeOK, ApiStages, Owners
<1>16. CASE \E failed \in BOOLEAN : ApiScan(failed)
  BY <1>16 DEF ApiScan, TypeOK, ApiStages
<1>17. CASE ApiFree
  BY <1>17, ReleasedType DEF ApiFree, TypeOK, ApiStages, Owners
<1>18. CASE Deploy
  <2>1. run' \in [stage: Stages, b: Buckets, spent: Nat]
    BY <1>18 DEF Deploy, Stages
  <2>2. lock' \in [Buckets -> [by: Owners, age: Nat]]
    BY <1>18 DEF Deploy, TypeOK, Owners
  <2> QED BY <1>18, <2>1, <2>2 DEF Deploy, TypeOK
<1>19. CASE UNCHANGED vars
  BY <1>19 DEF vars, TypeOK
<1> QED
  BY <1>1, <1>2, <1>3, <1>4, <1>5, <1>6, <1>7, <1>8, <1>9, <1>10, <1>11, <1>12, <1>13, <1>14,
     <1>15, <1>16, <1>17, <1>18, <1>19 DEF Next, Bucket, Api

\* Every step of a bucket leaves the room the next stage needs.
LEMMA RoomStep ==
    ASSUME TypeOK, Room, [Next]_vars
    PROVE Room'
<1> USE ConstantTypes, MeasuredCosts
<1> USE DEF StopAt
<1>1. CASE StartTick
  BY <1>1 DEF StartTick, Room, At
<1>2. CASE UNCHANGED <<t, run>>
  BY <1>2 DEF Room, Admits, ScanFits
<1>3. CASE Maintain
  BY <1>3 DEF Maintain, Room, At
<1>4. CASE NextBucket
  <2>1. CASE Due(pos) /\ Admits(pos)
    BY <1>4, <2>1 DEF NextBucket, Room, Admits
  <2>2. CASE ~(Due(pos) /\ Admits(pos))
    BY <1>4, <2>2 DEF NextBucket, Room
  <2> QED BY <2>1, <2>2
<1>5. CASE EndTick \/ Deploy
  BY <1>5 DEF EndTick, Deploy, Room, At
<1>6. CASE \E d \in 0..MaxPre : PreWork(d)
  <2> PICK d \in 0..MaxPre : PreWork(d)
    BY <1>6
  <2>1. t' = t + d /\ run'.stage = "take" /\ run'.spent = d /\ run'.b = run.b
    BY DEF PreWork, Elapse, TypeOK
  <2>2. Admits(run.b) /\ run.b \in Buckets
    BY DEF PreWork, Room, TypeOK
  <2>3. t \in Nat /\ d \in Nat /\ Prestart[run.b] \in Nat
    BY <2>2 DEF TypeOK
  <2> QED BY <2>1, <2>2, <2>3 DEF Room, Admits
<1>7. CASE TakeLock
  BY <1>7 DEF TakeLock, Room, TypeOK, At
<1>8. CASE WriteLock
  BY <1>8 DEF WriteLock, Room, TypeOK
<1>9. CASE Backstop
  <2>1. /\ t \in Nat /\ run.spent \in Nat /\ run.b \in Buckets /\ Prestart[run.b] \in Nat
        /\ t' = t
    BY <1>9 DEF Backstop, TypeOK
  <2>2. /\ StopAt - (t - run.spent) - (GuardSetup + ScanSetup + Prestart[run.b]) >= MinScan
        /\ run.spent <= MaxPre
    BY <1>9 DEF Backstop, Room
  <2>3. t <= JobTimeout
    BY <2>1, <2>2
  <2>4. CASE ScanFits
    BY <1>9, <2>1, <2>4 DEF Backstop, Room, TypeOK, ScanFits
  <2>5. CASE ~ScanFits
    BY <1>9, <2>1, <2>3, <2>5 DEF Backstop, Room, TypeOK
  <2> QED BY <2>4, <2>5
<1>10. CASE Setup
  <2> PICK d \in 0..MaxSetup : Elapse(d)
    BY <1>10 DEF Setup
  <2>1. t' <= StopAt
    BY <1>10 DEF Setup, Elapse, Room, ScanFits, TypeOK
  <2> QED BY <1>10, <2>1 DEF Setup, Room, TypeOK
<1>11. CASE \E failed \in BOOLEAN : Scan(failed)
  <2> PICK failed \in BOOLEAN : Scan(failed)
    BY <1>11
  <2>1. t' <= StopAt + Overshoot
    BY DEF Scan, Elapse
  <2>2. t' <= JobTimeout
    BY <2>1 DEF Scan, Elapse, TypeOK
  <2> QED BY <2>1, <2>2 DEF Scan, Room, TypeOK
<1>12. CASE PostScan
  <2>1. t' <= JobTimeout
    BY <1>12 DEF PostScan, Room, TypeOK
  <2> QED BY <1>12, <2>1 DEF PostScan, Room, TypeOK
<1>13. CASE FreeLock
  BY <1>13 DEF FreeLock, Room, At
<1>14. CASE UNCHANGED vars
  BY <1>2, <1>14 DEF vars
<1> QED
  BY <1>1, <1>2, <1>3, <1>4, <1>5, <1>6, <1>7, <1>8, <1>9, <1>10, <1>11, <1>12, <1>13, <1>14
     DEF Next, Bucket, Api, PausedTick, Wait, ApiTake, ApiWrite, ApiScan, ApiFree

\* The invariant of every behaviour.
LEMMA Invariance == Spec => []CadenceInv
<1>1. Init => CadenceInv
  <2> SUFFICES ASSUME Init PROVE CadenceInv
    OBVIOUS
  <2>1. TypeOK
    <3>1. run \in [stage: Stages, b: Buckets, spent: Nat]
      BY RecordTypes DEF Init, Stages
    <3> QED BY <3>1, ConstantTypes, RecordTypes DEF Init, TypeOK
  <2>2. Room
    BY DEF Init, Room, At
  <2> QED BY <2>1, <2>2 DEF CadenceInv
<1>2. CadenceInv /\ [Next]_vars => CadenceInv'
  BY TypeStep, RoomStep DEF CadenceInv
<1> QED BY <1>1, <1>2, PTL DEF Spec

\* The tick, the requested scan, the ages and the locks keep their types.
THEOREM TypeCorrect == Spec => []TypeOK
<1>1. CadenceInv => TypeOK
  BY DEF CadenceInv
<1> QED BY <1>1, Invariance, PTL

\* Whatever the number of buckets and the settings, an admitted bucket is done before the
\* worker abandons the tick, provided the steps stay within the measured costs
\* (run_scheduled_tasks, CadenceBudget).
THEOREM TickFitsItsCap == Spec => []BucketsFit
<1>1. CadenceInv => BucketsFit
  <2> SUFFICES ASSUME CadenceInv PROVE BucketsFit
    OBVIOUS
  <2> USE ConstantTypes, MeasuredCosts
  <2>1. t \in Nat /\ run.spent \in Nat /\ run.b \in Buckets /\ Prestart[run.b] \in Nat
    BY DEF CadenceInv, TypeOK
  <2>2. CASE run.stage \in {"pre", "setup", "scan", "post", "free"}
    BY <2>1, <2>2 DEF CadenceInv, Room, Admits, ScanFits, BucketsFit, StopAt
  <2>3. CASE run.stage \in {"take", "write", "fits"}
    <3>1. /\ StopAt - (t - run.spent) - (GuardSetup + ScanSetup + Prestart[run.b]) >= MinScan
          /\ run.spent <= MaxPre /\ MaxPre <= GuardSetup + Prestart[run.b] + MinScan
      BY <2>1, <2>3 DEF CadenceInv, Room
    <3> QED BY <2>1, <3>1 DEF BucketsFit, StopAt
  <2> QED BY <2>2, <2>3 DEF BucketsFit
<1> QED BY <1>1, Invariance, PTL

\* Admission and backstop agree for all settings: pre-work that took no longer than was
\* charged never costs an admitted bucket its scan (CadenceBudget.admits and scan_fits).
THEOREM BackstopAgrees == Spec => []AdmittedIsScanned
<1>1. CadenceInv => AdmittedIsScanned
  <2> SUFFICES ASSUME CadenceInv, run.stage = "fits", run.spent <= GuardSetup + Prestart[run.b]
               PROVE ScanFits
    BY DEF AdmittedIsScanned
  <2>1. t \in Nat /\ run.spent \in Nat /\ run.b \in Buckets /\ Prestart[run.b] \in Nat
    BY ConstantTypes DEF CadenceInv, TypeOK
  <2>2. StopAt - (t - run.spent) - (GuardSetup + ScanSetup + Prestart[run.b]) >= MinScan
    BY DEF CadenceInv, Room
  <2> QED BY <2>1, <2>2, ConstantTypes DEF ScanFits
<1> QED BY <1>1, Invariance, PTL
=============================================================================
