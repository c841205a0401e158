----------------------------- MODULE DemoOpsProofs -----------------------------
(***************************************************************************)
(* First the idempotent submission of the demo client (DemoOrders): it     *)
(* implements AtMostOnce for any number of keys, payloads and callers.     *)
(* What makes it work is who may still send: only the caller that created  *)
(* the row, and only until its request is on the wire (Sender); everything *)
(* that knows of a request agrees with its row (Agree); and a stored       *)
(* answer has an order behind it (Backed).                                 *)
(*                                                                         *)
(* Then the account under automation (DemoOps), for any number of threads, *)
(* keys, positions, dates, commands and restarts: auto_recover stays       *)
(* within its resumes of a day, and the demo account still submits at most *)
(* once, because automation uses the client only as DemoOrders says.       *)
(***************************************************************************)
EXTENDS DemoOps, TLAPS

-----------------------------------------------------------------------------
(* The idempotent submission *)

\* Callers past the reservation, requests on the wire and orders in the account all are the
\* request of their key's row.
Agree ==
    /\ \A c \in Callers : call[c].pc \in {"post", "wait", "lookup", "complete"}
            => table[call[c].key].payload = call[c].payload
    /\ \A k \in Keys, p \in Payloads : <<k, p>> \in flight => table[k].payload = p
    /\ \A k \in Keys : placed[k] # <<>> => table[k].payload # None /\ placed[k] = <<table[k].payload>>

\* Who is about to send is alone, and has sent nothing; a request on the wire is the first.
Sender ==
    /\ \A c \in Callers : call[c].pc = "post" =>
        /\ placed[call[c].key] = <<>>
        /\ \A p \in Payloads : <<call[c].key, p>> \notin flight
        /\ \A d \in Callers : call[d].pc = "post" /\ call[d].key = call[c].key => d = c
    /\ \A k \in Keys, p \in Payloads : <<k, p>> \in flight => placed[k] = <<>>

\* A stored answer, and an answer about to be stored, has an order behind it.
Backed ==
    /\ \A k \in Keys : table[k].response => placed[k] # <<>>
    /\ \A c \in Callers : call[c].pc = "complete" => placed[call[c].key] # <<>>

OrdersInv == OrdersTypeOK /\ Agree /\ Sender /\ Backed

LEMMA InitOrdersInv == OrdersInit => OrdersInv
  BY DEF OrdersInit, OrdersInv, OrdersTypeOK, Agree, Sender, Backed, NoRow, NoCall, Steps

\* A caller that goes on keeps its request.
LEMMA GotoTyped ==
  ASSUME OrdersTypeOK, NEW c \in Callers, call[c].pc # "idle",
         NEW s \in Steps \ {"idle"}, Goto(c, s)
  PROVE  /\ DOMAIN call' = Callers
         /\ \A d \in Callers :
              \/ call'[d] = NoCall
              \/ call'[d] \in [pc: Steps \ {"idle"}, key: Keys, payload: Payloads]
<1>1. call[c] \in [pc: Steps \ {"idle"}, key: Keys, payload: Payloads]
  BY DEF OrdersTypeOK, NoCall
<1>2. call'[c] = [call[c] EXCEPT !.pc = s] /\ \A d \in Callers \ {c} : call'[d] = call[d]
  BY DEF Goto, OrdersTypeOK
<1>3. [call[c] EXCEPT !.pc = s] \in [pc: Steps \ {"idle"}, key: Keys, payload: Payloads]
  BY <1>1
<1>4. DOMAIN call' = Callers
  BY DEF Goto, OrdersTypeOK
<1> QED BY <1>2, <1>3, <1>4 DEF OrdersTypeOK

LEMMA ReserveInv ==
  ASSUME OrdersInv, NEW c \in Callers, NEW k \in Keys, NEW p \in Payloads, Reserve(c, k, p)
  PROVE  OrdersInv'
<1> USE NoneIsNoPayload DEF At, Goto
<1> DEFINE row == table[k]
           next == CASE row.payload = None -> "post"
                     [] row.payload \notin {None, p} -> "raised"
                     [] row.payload = p /\ row.response -> "ok"
                     [] row.payload = p /\ ~row.response -> "lookup"
<1>t. /\ row \in [payload: Payloads \cup {None}, response: BOOLEAN]
      /\ call' = [call EXCEPT ![c] = [pc |-> next, key |-> k, payload |-> p]]
      /\ UNCHANGED <<flight, placed>>
      /\ DOMAIN call = Callers
  BY DEF Reserve, OrdersInv, OrdersTypeOK
<1>1. CASE row.payload = None
  <2>1. /\ next = "post"
        /\ table' = [table EXCEPT ![k] = [payload |-> p, response |-> FALSE]]
        /\ told' = told
    BY <1>1 DEF Reserve
  <2>f. placed[k] = <<>> /\ \A q \in Payloads : <<k, q>> \notin flight
    BY <1>1 DEF OrdersInv, Agree
  <2>g. \A d \in Callers : call[d].pc = "post" => call[d].key # k
    BY <1>1 DEF OrdersInv, Agree, OrdersTypeOK, NoCall
  <2>2. OrdersTypeOK'
    BY <1>t, <2>1 DEF OrdersInv, OrdersTypeOK, Steps, NoCall
  <2>3. Agree'
    BY <1>t, <2>1, <2>f, <1>1 DEF OrdersInv, Agree, OrdersTypeOK, NoCall
  <2>4. Sender'
    BY <1>t, <2>1, <2>f, <2>g DEF OrdersInv, Sender, OrdersTypeOK, NoCall
  <2>5. Backed'
    BY <1>t, <2>1, <2>f DEF OrdersInv, Backed, OrdersTypeOK, NoCall
  <2> QED BY <2>2, <2>3, <2>4, <2>5 DEF OrdersInv
<1>2. CASE row.payload # None
  <2>1. /\ next \in {"raised", "ok", "lookup"}
        /\ next = "lookup" => row.payload = p
        /\ table' = table
        /\ told' \in SUBSET (Keys \X Payloads)
    <3>1. table' = table
      BY <1>2 DEF Reserve
    <3>2. told' \in SUBSET (Keys \X Payloads)
      BY DEF Reserve, OrdersInv, OrdersTypeOK
    <3>3. next \in {"raised", "ok", "lookup"} /\ (next = "lookup" => row.payload = p)
      BY <1>2, <1>t
    <3> QED BY <3>1, <3>2, <3>3
  <2> HIDE DEF next
  <2>2. OrdersTypeOK'
    BY <1>t, <2>1 DEF OrdersInv, OrdersTypeOK, Steps, NoCall
  <2>3. Agree'
    BY <1>t, <2>1 DEF OrdersInv, Agree, OrdersTypeOK, NoCall
  <2>4. Sender'
    BY <1>t, <2>1 DEF OrdersInv, Sender, OrdersTypeOK, NoCall
  <2>5. Backed'
    BY <1>t, <2>1 DEF OrdersInv, Backed, OrdersTypeOK, NoCall
  <2> QED BY <2>2, <2>3, <2>4, <2>5 DEF OrdersInv
<1> QED BY <1>1, <1>2

\* The steps of a caller that leave the wire and the account alone.
LEMMA CallerInv ==
  ASSUME OrdersInv, NEW c \in Callers,
         PostRefused(c) \/ Found(c) \/ GiveUp(c) \/ Complete(c) \/ Return(c)
  PROVE  OrdersInv'
<1>g. \A s \in Steps \ {"idle"} : call[c].pc # "idle" /\ Goto(c, s) =>
        /\ DOMAIN call' = Callers
        /\ \A d \in Callers : \/ call'[d] = NoCall
                             \/ call'[d] \in [pc: Steps \ {"idle"}, key: Keys, payload: Payloads]
  BY GotoTyped DEF OrdersInv
<1> USE DEF At, Goto, NoCall, OrdersInv
<1>t. DOMAIN call = Callers /\ (call[c].pc # "idle" => call[c].key \in Keys /\ call[c].payload \in Payloads)
  BY DEF OrdersTypeOK
<1>1. CASE PostRefused(c)
  <2>1. OrdersTypeOK'
    BY <1>1, <1>t, <1>g DEF PostRefused, OrdersTypeOK, Steps
  <2>2. Agree'
    BY <1>1, <1>t DEF PostRefused, OrdersTypeOK, Agree
  <2>3. Sender'
    BY <1>1, <1>t DEF PostRefused, OrdersTypeOK, Sender
  <2>4. Backed'
    BY <1>1, <1>t DEF PostRefused, OrdersTypeOK, Backed
  <2> QED BY <2>1, <2>2, <2>3, <2>4
<1>2. CASE Found(c)
  <2>1. OrdersTypeOK'
    BY <1>2, <1>t, <1>g DEF Found, OrdersTypeOK, Steps
  <2>2. Agree'
    BY <1>2, <1>t DEF Found, OrdersTypeOK, Agree
  <2>3. Sender'
    BY <1>2, <1>t DEF Found, OrdersTypeOK, Sender
  <2>4. Backed'
    BY <1>2, <1>t DEF Found, OrdersTypeOK, Backed
  <2> QED BY <2>1, <2>2, <2>3, <2>4
<1>3. CASE GiveUp(c)
  <2>1. OrdersTypeOK'
    BY <1>3, <1>t, <1>g DEF GiveUp, OrdersTypeOK, Steps
  <2>2. Agree'
    BY <1>3, <1>t DEF GiveUp, OrdersTypeOK, Agree
  <2>3. Sender'
    BY <1>3, <1>t DEF GiveUp, OrdersTypeOK, Sender
  <2>4. Backed'
    BY <1>3, <1>t DEF GiveUp, OrdersTypeOK, Backed
  <2> QED BY <2>1, <2>2, <2>3, <2>4
<1>4. CASE Complete(c)
  <2>1. OrdersTypeOK'
    <3>1. table' \in [Keys -> [payload: Payloads \cup {None}, response: BOOLEAN]]
      BY <1>4, <1>t DEF Complete, OrdersTypeOK
    <3>2. told' \in SUBSET (Keys \X Payloads)
      BY <1>4, <1>t DEF Complete, OrdersTypeOK
    <3>3. Goto(c, "ok") /\ "ok" \in Steps \ {"idle"} /\ call[c].pc # "idle"
      BY <1>4 DEF Complete, Steps
    <3>4. UNCHANGED <<flight, placed>>
      BY <1>4 DEF Complete
    <3> QED BY <1>g, <3>1, <3>2, <3>3, <3>4 DEF OrdersTypeOK
  <2>2. Agree'
    BY <1>4, <1>t DEF Complete, OrdersTypeOK, Agree
  <2>3. Sender'
    BY <1>4, <1>t DEF Complete, OrdersTypeOK, Sender
  <2>4. Backed'
    BY <1>4, <1>t DEF Complete, OrdersTypeOK, Backed
  <2> QED BY <2>1, <2>2, <2>3, <2>4
<1>5. CASE Return(c)
  <2>1. OrdersTypeOK'
    BY <1>5, <1>t DEF Return, OrdersTypeOK, Steps
  <2>2. Agree'
    BY <1>5, <1>t DEF Return, OrdersTypeOK, Agree
  <2>3. Sender'
    BY <1>5, <1>t DEF Return, OrdersTypeOK, Sender
  <2>4. Backed'
    BY <1>5, <1>t DEF Return, OrdersTypeOK, Backed
  <2> QED BY <2>1, <2>2, <2>3, <2>4
<1> QED BY <1>1, <1>2, <1>3, <1>4, <1>5

LEMMA PostInv ==
  ASSUME OrdersInv, NEW c \in Callers, Post(c)
  PROVE  OrdersInv'
<1>g. \A s \in Steps \ {"idle"} : call[c].pc # "idle" /\ Goto(c, s) =>
        /\ DOMAIN call' = Callers
        /\ \A d \in Callers : \/ call'[d] = NoCall
                             \/ call'[d] \in [pc: Steps \ {"idle"}, key: Keys, payload: Payloads]
  BY GotoTyped DEF OrdersInv
<1> USE DEF At, Goto, NoCall, OrdersInv
<1>t. /\ DOMAIN call = Callers
      /\ call[c].key \in Keys /\ call[c].payload \in Payloads
  BY DEF OrdersTypeOK, Post
<1>1. OrdersTypeOK'
  BY <1>t, <1>g DEF Post, OrdersTypeOK, Steps
<1>2. Agree'
  BY <1>t DEF Post, OrdersTypeOK, Agree
<1>3. Sender'
  BY <1>t DEF Post, OrdersTypeOK, Sender
<1>4. Backed'
  BY <1>t DEF Post, OrdersTypeOK, Backed
<1> QED BY <1>1, <1>2, <1>3, <1>4

LEMMA AccountInv ==
  ASSUME OrdersInv, NEW k \in Keys, NEW p \in Payloads, Arrive(k, p) \/ Drop(k, p)
  PROVE  OrdersInv'
<1> USE NoneIsNoPayload DEF NoCall, OrdersInv
<1>1. CASE Arrive(k, p)
  <2>1. placed[k] = <<>> /\ table[k].payload = p /\ \A q \in Payloads : <<k, q>> \in flight => q = p
    BY <1>1 DEF Arrive, Agree, Sender
  <2>2. placed' = [placed EXCEPT ![k] = <<p>>]
    BY <1>1, <2>1 DEF Arrive, OrdersTypeOK
  <2>3. <<p>> \in Seq(Payloads)
    OBVIOUS
  <2>4. flight' \subseteq flight /\ <<k, p>> \notin flight' /\ UNCHANGED <<table, told, call>>
    BY <1>1 DEF Arrive
  <2>5. OrdersTypeOK'
    BY <2>2, <2>3, <2>4 DEF OrdersTypeOK
  <2>6. Agree'
    BY <2>1, <2>2, <2>4 DEF OrdersTypeOK, Agree
  <2>7. Sender'
    BY <1>1, <2>1, <2>2, <2>4 DEF Arrive, OrdersTypeOK, Sender
  <2>8. Backed'
    BY <2>2, <2>4 DEF OrdersTypeOK, Backed
  <2> QED BY <2>5, <2>6, <2>7, <2>8
<1>2. CASE Drop(k, p)
  BY <1>2 DEF Drop, OrdersTypeOK, Agree, Sender, Backed
<1> QED BY <1>1, <1>2

LEMMA TableInv ==
  ASSUME OrdersInv, (\E k \in Keys : CompleteRow(k)) \/ Restart
  PROVE  OrdersInv'
<1> USE DEF NoCall, OrdersInv
<1>1. ASSUME NEW k \in Keys, CompleteRow(k) PROVE OrdersInv'
  <2>1. /\ table' = [table EXCEPT ![k].response = TRUE]
        /\ \A j \in Keys : table'[j].payload = table[j].payload
        /\ UNCHANGED <<flight, placed, told, call>>
    BY <1>1 DEF CompleteRow, OrdersTypeOK
  <2>2. OrdersTypeOK'
    BY <2>1 DEF OrdersTypeOK
  <2>3. Agree' /\ Sender'
    BY <2>1 DEF OrdersTypeOK, Agree, Sender
  <2>4. Backed'
    BY <1>1, <2>1 DEF CompleteRow, OrdersTypeOK, Backed
  <2> QED BY <2>2, <2>3, <2>4
<1>2. CASE Restart
  BY <1>2 DEF Restart, OrdersTypeOK, Agree, Sender, Backed
<1> QED BY <1>1, <1>2

LEMMA NextOrdersInv ==
  ASSUME OrdersInv, [OrdersNext]_orderVars
  PROVE  OrdersInv'
<1>1. CASE UNCHANGED orderVars
  BY <1>1 DEF orderVars, OrdersInv, OrdersTypeOK, Agree, Sender, Backed
<1>2. CASE OrdersNext
  BY <1>2, ReserveInv, CallerInv, PostInv, AccountInv, TableInv DEF OrdersNext
<1> QED BY <1>1, <1>2

\* Every request row, caller, request on the wire and order keeps its type.
THEOREM OrdersTypeCorrect == OrdersSpec => []OrdersTypeOK
<1>1. OrdersInv => OrdersTypeOK
  BY DEF OrdersInv
<1> QED BY <1>1, InitOrdersInv, NextOrdersInv, PTL DEF OrdersSpec

\* A step of the client is a step of the promise, or leaves it where it is.
LEMMA StepRefines ==
  ASSUME OrdersInv, [OrdersNext]_orderVars
  PROVE  [Promise!Next]_<<placed, told>>
<1> USE NoneIsNoPayload DEF OrdersInv, Promise!Next, Promise!Place, Promise!Tell
<1>1. ASSUME NEW c \in Callers, NEW k \in Keys, NEW p \in Payloads, Reserve(c, k, p)
      PROVE  [Promise!Next]_<<placed, told>>
  <2>1. CASE table[k].payload = p /\ table[k].response
    <3>1. placed[k] = <<p>>
      BY <2>1 DEF Agree, Backed
    <3>2. told' = told \cup {<<k, p>>} /\ placed' = placed
      BY <1>1, <2>1 DEF Reserve
    <3> QED BY <3>1, <3>2
  <2>2. CASE ~(table[k].payload = p /\ table[k].response)
    <3>1. told' = told /\ placed' = placed
      BY <1>1, <2>2 DEF Reserve, OrdersTypeOK
    <3> QED BY <3>1
  <2> QED BY <2>1, <2>2
<1>2. ASSUME NEW c \in Callers, Complete(c) PROVE [Promise!Next]_<<placed, told>>
  <2>1. /\ call[c].key \in Keys /\ call[c].payload \in Payloads
        /\ placed[call[c].key] = <<call[c].payload>>
    BY <1>2 DEF Complete, At, OrdersTypeOK, NoCall, Agree, Backed
  <2>2. told' = told \cup {<<call[c].key, call[c].payload>>} /\ placed' = placed
    BY <1>2 DEF Complete
  <2> QED BY <2>1, <2>2
<1>3. ASSUME NEW k \in Keys, NEW p \in Payloads, Arrive(k, p)
      PROVE  [Promise!Next]_<<placed, told>>
  <2>1. placed[k] = <<>>
    BY <1>3 DEF Arrive, Sender
  <2>2. placed' = [placed EXCEPT ![k] = <<p>>] /\ told' = told
    BY <1>3, <2>1 DEF Arrive, OrdersTypeOK
  <2> QED BY <2>1, <2>2
<1>4. ASSUME UNCHANGED <<placed, told>> PROVE [Promise!Next]_<<placed, told>>
  BY <1>4
<1>5. CASE OrdersNext
  <2>1. ASSUME NEW c \in Callers, Post(c) \/ PostRefused(c) \/ Found(c) \/ GiveUp(c) \/ Return(c)
        PROVE  UNCHANGED <<placed, told>>
    BY <2>1 DEF Post, PostRefused, Found, GiveUp, Return
  <2>2. ASSUME NEW k \in Keys, NEW p \in Payloads, Drop(k, p) PROVE UNCHANGED <<placed, told>>
    BY <2>2 DEF Drop
  <2>3. ASSUME (\E k \in Keys : CompleteRow(k)) \/ Restart PROVE UNCHANGED <<placed, told>>
    BY <2>3 DEF CompleteRow, Restart
  <2> QED BY <1>1, <1>2, <1>3, <1>4, <1>5, <2>1, <2>2, <2>3 DEF OrdersNext
<1>6. CASE UNCHANGED orderVars
  BY <1>4, <1>6 DEF orderVars
<1> QED BY <1>5, <1>6

\* The submission protocol implements AtMostOnce: whatever is refused, lost, late, retried by
\* other callers, reconciled or restarted, a key has at most one order, and who is told
\* "accepted" is told so about that order.
THEOREM SubmissionIsIdempotent == OrdersSpec => SubmitsAtMostOnce
<1>1. OrdersInit => Promise!Init
  BY DEF OrdersInit, Promise!Init
<1> QED
  BY <1>1, InitOrdersInv, NextOrdersInv, StepRefines, PTL
     DEF OrdersSpec, SubmitsAtMostOnce, Promise!Spec

-----------------------------------------------------------------------------
(* The threads' jobs and the counters *)

Tasks == {"idle", "trip", "close", "mirror", "maintain", "probe", "clear", "begin", "sweep"}
JobRecord == [task: Tasks, left: SUBSET Keys, bad: BOOLEAN, stop: BOOLEAN,
              then: {"idle", "begin"}, count: Nat, on: 1..Days]

\* A job as it may be between two steps: only an emergency stop closes positions.
GoodJob(x) == x \in JobRecord /\ (x.task = "close" => x.left \subseteq Entries)

JobsOK == job \in [Callers -> JobRecord] /\ \A c \in Callers : GoodJob(job[c])

CountersOK ==
    /\ day \in 1..Days /\ crashes \in Nat
    /\ resumes \in [1..Days -> 0..MaxResumes]
    /\ lifted \in [1..Days -> Nat]

\* The scheduler counts on from what it has read: nobody else writes the counter.
Counted(x) ==
    x.task \in {"probe", "clear"} => x.count = resumes[x.on] /\ x.count < MaxResumes

\* A resume that is not counted yet, or was lost in a restart.
Covered(x) ==
    \A d \in 1..Days :
        \/ lifted[d] <= resumes[d] + crashes
        \/ x.task = "clear" /\ x.on = d /\ lifted[d] <= resumes[d] + crashes + 1

ResumeInv == JobsOK /\ CountersOK /\ Counted(job[Scheduler]) /\ Covered(job[Scheduler])

LEMMA SchedulerIsCaller == ASSUME DemoConstants PROVE Scheduler \in Callers
  BY DEF Scheduler, DemoConstants

\* The jobs that Job makes, and the changes to them.
LEMMA JobIsGood ==
    ASSUME DemoConstants, NEW t \in Tasks, t # "close", NEW then \in {"idle", "begin"}
    PROVE  GoodJob(Job(t, then)) /\ Job(t, then).task = t /\ Job(t, then).then = then
<1>1. 1 \in 1..Days /\ 0 \in Nat
  BY DEF DemoConstants
<1>. QED
  BY <1>1 DEF GoodJob, JobRecord, Job

LEMMA JobWithStop ==
    ASSUME NEW z, GoodJob(z), z.task # "close", NEW b \in BOOLEAN
    PROVE  GoodJob([z EXCEPT !.stop = b]) /\ [z EXCEPT !.stop = b].task = z.task
  BY DEF GoodJob, JobRecord

LEMMA JobWithRows ==
    ASSUME NEW z, GoodJob(z), z.task # "close", NEW S \in SUBSET Keys
    PROVE  GoodJob([z EXCEPT !.left = S]) /\ [z EXCEPT !.left = S].task = z.task
  BY DEF GoodJob, JobRecord

LEMMA JobWithCount ==
    ASSUME NEW z, GoodJob(z), z.task # "close", NEW n \in Nat, NEW d \in 1..Days
    PROVE  /\ GoodJob([z EXCEPT !.count = n, !.on = d])
           /\ [z EXCEPT !.count = n, !.on = d].task = z.task
           /\ [z EXCEPT !.count = n, !.on = d].count = n
           /\ [z EXCEPT !.count = n, !.on = d].on = d
  BY DEF GoodJob, JobRecord

LEMMA JobFields ==
    ASSUME NEW x, GoodJob(x)
    PROVE  x.then \in {"idle", "begin"} /\ x.count \in Nat /\ x.on \in 1..Days
  BY DEF GoodJob, JobRecord

LEMMA JobClears ==
    ASSUME NEW x, GoodJob(x)
    PROVE  LET y == [x EXCEPT !.task = "clear"]
           IN  GoodJob(y) /\ y.task = "clear" /\ y.on = x.on /\ y.count = x.count
  BY DEF GoodJob, JobRecord, Tasks

LEMMA JobCloses ==
    ASSUME DemoConstants, NEW x, GoodJob(x), NEW S \in SUBSET Entries
    PROVE  LET y == [x EXCEPT !.task = "close", !.left = S]
           IN  GoodJob(y) /\ y.task = "close"
<1>1. S \in SUBSET Keys
  BY DEF DemoConstants
<1>. QED
  BY <1>1 DEF GoodJob, JobRecord, Tasks

LEMMA JobWithFewer ==
    ASSUME NEW x, GoodJob(x), NEW S \in SUBSET x.left
    PROVE  /\ GoodJob([x EXCEPT !.left = S]) /\ [x EXCEPT !.left = S].task = x.task
           /\ GoodJob([x EXCEPT !.left = S, !.bad = TRUE])
           /\ [x EXCEPT !.left = S, !.bad = TRUE].task = x.task
<1>1. S \in SUBSET Keys /\ (x.task = "close" => S \subseteq Entries)
  BY DEF GoodJob, JobRecord
<1>. QED
  BY <1>1 DEF GoodJob, JobRecord

\* A thread takes up another job; the scheduler's resume is not involved.
LEMMA JobChanges ==
    ASSUME DemoConstants, ResumeInv, NEW c \in Callers, NEW x, GoodJob(x),
           job' = [job EXCEPT ![c] = x], x.task \notin {"probe", "clear"},
           job[c].task # "clear",
           UNCHANGED <<day, crashes, resumes, lifted>>
    PROVE  ResumeInv'
<1>1. JobsOK'
  BY DEF ResumeInv, JobsOK, GoodJob
<1>2. CountersOK'
  BY DEF ResumeInv, CountersOK
<1>3. CASE c = Scheduler
  <2>1. job'[Scheduler] = x /\ \A d \in 1..Days : lifted[d] <= resumes[d] + crashes
    BY <1>3 DEF ResumeInv, JobsOK, Covered
  <2>. QED
    BY <1>1, <1>2, <2>1 DEF ResumeInv, Counted, Covered
<1>4. CASE c # Scheduler
  <2>1. job'[Scheduler] = job[Scheduler]
    BY <1>4 DEF ResumeInv, JobsOK
  <2>. QED
    BY <1>1, <1>2, <2>1 DEF ResumeInv, Counted, Covered
<1>. QED
  BY <1>3, <1>4

LEMMA CountersStay ==
    ASSUME ResumeInv, UNCHANGED <<job, crashes, resumes, lifted>>, day' \in 1..Days
    PROVE  ResumeInv'
  BY DEF ResumeInv, JobsOK, CountersOK, Counted, Covered

LEMMA TripsIsFine ==
    ASSUME DemoConstants, ResumeInv, NEW c \in Callers, NEW cause, NEW then \in {"idle", "begin"},
           Trips(c, cause, then), job[c].task # "clear", UNCHANGED <<day, crashes, resumes, lifted>>
    PROVE  ResumeInv'
<1> DEFINE b == cause # "mismatch"
           x == [Job("trip", then) EXCEPT !.stop = b]
<1>1. "trip" \in Tasks /\ b \in BOOLEAN
  BY DEF Tasks
<1>2. GoodJob(x) /\ x.task = "trip"
  <2> HIDE DEF b
  <2>1. GoodJob(Job("trip", then)) /\ Job("trip", then).task = "trip"
    BY <1>1, JobIsGood
  <2>2. GoodJob([Job("trip", then) EXCEPT !.stop = b])
    BY <1>1, <2>1, JobWithStop
  <2>3. [Job("trip", then) EXCEPT !.stop = b].task = "trip"
    BY <1>1, <2>1, JobWithStop
  <2>. QED
    BY <2>2, <2>3
<1>3. job' = [job EXCEPT ![c] = x]
  BY DEF Trips
<1> HIDE DEF x
<1>. QED
  BY <1>2, <1>3, JobChanges

LEMMA GoesIsFine ==
    ASSUME DemoConstants, ResumeInv, NEW c \in Callers, NEW t \in Tasks \ {"close", "probe", "clear"},
           Goes(c, t), job[c].task # "clear", UNCHANGED <<day, crashes, resumes, lifted>>
    PROVE  ResumeInv'
<1>1. GoodJob(Job(t, "idle")) /\ Job(t, "idle").task = t
  BY JobIsGood
<1>2. job' = [job EXCEPT ![c] = Job(t, "idle")]
  BY DEF Goes
<1>. QED
  BY <1>1, <1>2, JobChanges

LEMMA ThreadFine ==
    ASSUME DemoConstants, ResumeInv, NEW c \in Callers, Thread(c) \/ Mirror(c) \/ RequestRun(c)
    PROVE  ResumeInv'
<1>0. GoodJob(job[c])
  BY DEF ResumeInv, JobsOK
<1>1. CASE Write(c) \/ CloseNext(c) \/ \E k \in Entries, p \in Payloads : OpenOrder(c, k, p)
  <2>1. UNCHANGED <<job, crashes, resumes, lifted, day>>
    BY <1>1 DEF Write, CloseNext, OpenOrder, controlVars
  <2>. QED
    BY <2>1, CountersStay DEF ResumeInv, CountersOK
<1>2. CASE EmergencyStop(c)
  <2>1. UNCHANGED <<crashes, resumes, lifted, day>> /\ job[c].task = "trip"
    BY <1>2 DEF EmergencyStop, controlVars, Doing
  <2>2. CASE job[c].stop
    <3> DEFINE x == [job[c] EXCEPT !.task = "close", !.left = Open]
    <3>1. Open \in SUBSET Entries
      BY DEF Open
    <3>2. GoodJob(x) /\ x.task = "close"
      <4> HIDE DEF Open
      <4>. QED
        BY <1>0, <3>1, JobCloses
    <3>3. job' = [job EXCEPT ![c] = x]
      BY <1>2, <2>2 DEF EmergencyStop
    <3> HIDE DEF x
    <3>. QED
      BY <2>1, <3>2, <3>3, JobChanges
  <2>3. CASE ~job[c].stop
    <3>1. job[c].then \in {"idle", "begin"}
      BY <1>0, JobFields
    <3>2. GoodJob(Job(job[c].then, "idle")) /\ Job(job[c].then, "idle").task = job[c].then
      BY <3>1, JobIsGood DEF Tasks
    <3>3. job' = [job EXCEPT ![c] = Job(job[c].then, "idle")]
      BY <1>2, <2>3 DEF EmergencyStop
    <3>. QED
      BY <2>1, <3>1, <3>2, <3>3, JobChanges
  <2>. QED
    BY <2>2, <2>3
<1>3. CASE Closed(c)
  <2>1. UNCHANGED <<crashes, resumes, lifted, day>> /\ job[c].task = "close"
    BY <1>3 DEF Closed, controlVars, Doing
  <2>2. CASE call[c].pc = "raised"
    <3>1. job[c].then \in {"idle", "begin"}
      BY <1>0, JobFields
    <3>2. GoodJob(Job(job[c].then, "idle")) /\ Job(job[c].then, "idle").task = job[c].then
      BY <3>1, JobIsGood DEF Tasks
    <3>3. job' = [job EXCEPT ![c] = Job(job[c].then, "idle")]
      BY <1>3, <2>2 DEF Closed
    <3>. QED
      BY <2>1, <3>1, <3>2, <3>3, JobChanges
  <2>3. CASE call[c].pc # "raised"
    <3> DEFINE S == {e \in job[c].left : CloseOf[e] # call[c].key}
               x == [job[c] EXCEPT !.left = S]
    <3>1. S \in SUBSET job[c].left
      OBVIOUS
    <3>2. job' = [job EXCEPT ![c] = x]
      BY <1>3, <2>3 DEF Closed
    <3>3. GoodJob(x) /\ x.task = "close"
      <4> HIDE DEF S
      <4>. QED
        BY <1>0, <2>1, <3>1, JobWithFewer
    <3> HIDE DEF x
    <3>. QED
      BY <2>1, <3>2, <3>3, JobChanges
  <2>. QED
    BY <2>2, <2>3
<1>4. CASE StopDone(c)
  <2>1. job[c].then \in Tasks \ {"close", "probe", "clear"}
    BY <1>0, JobFields DEF Tasks
  <2>. QED
    BY <1>4, <2>1, GoesIsFine DEF StopDone, Doing
<1>5. CASE Mirrored(c)
  BY <1>5, GoesIsFine, TripsIsFine DEF Mirrored, Doing, Tasks
<1>6. CASE Mirror(c)
  BY <1>6, GoesIsFine DEF Mirror, Doing, Tasks
<1>7. ASSUME NEW verdict \in {"ok", "issue", "mismatch"}, NEW next \in {"begin", "idle"},
             Reconcile(c, verdict, next)
      PROVE  ResumeInv'
  BY <1>7, GoesIsFine, TripsIsFine DEF Reconcile, Doing, Tasks
<1>8. CASE SweepBegin(c)
  <2> DEFINE S == {k \in Keys : table[k].payload # None}
             x == [Job("sweep", "idle") EXCEPT !.left = S]
  <2>1. GoodJob(Job("sweep", "idle")) /\ Job("sweep", "idle").task = "sweep"
    BY JobIsGood DEF Tasks
  <2>2. GoodJob(x) /\ x.task = "sweep"
    <3>1. S \in SUBSET Keys
      OBVIOUS
    <3> HIDE DEF S
    <3>. QED
      BY <2>1, <3>1, JobWithRows
  <2>3. /\ job' = [job EXCEPT ![c] = x] /\ UNCHANGED <<day, crashes, resumes, lifted>>
        /\ job[c].task = "begin"
    BY <1>8 DEF SweepBegin, Doing, controlVars
  <2> HIDE DEF x
  <2>. QED
    BY <1>0, <2>2, <2>3, JobChanges
<1>9. ASSUME NEW k \in Keys, SweepRow(c, k) PROVE ResumeInv'
  <2> DEFINE S == job[c].left \ {k}
             x == [job[c] EXCEPT !.left = S]
             y == [job[c] EXCEPT !.left = S, !.bad = TRUE]
  <2>1. job[c].task = "sweep" /\ UNCHANGED <<day, crashes, resumes, lifted>>
    BY <1>9 DEF SweepRow, Doing, controlVars
  <2>2. GoodJob(x) /\ x.task = "sweep" /\ GoodJob(y) /\ y.task = "sweep"
    <3>1. S \in SUBSET job[c].left
      OBVIOUS
    <3> HIDE DEF S
    <3>. QED
      BY <1>0, <2>1, <3>1, JobWithFewer
  <2>3. job' = [job EXCEPT ![c] = x] \/ job' = [job EXCEPT ![c] = y]
    BY <1>0, <1>9 DEF SweepRow, ResumeInv, JobsOK
  <2> HIDE DEF x, y
  <2>. QED
    BY <1>0, <2>1, <2>2, <2>3, JobChanges
<1>10. ASSUME NEW verdict \in {"ok", "unresolved", "account"}, SweepEnd(c, verdict) PROVE ResumeInv'
  BY <1>10, GoesIsFine, TripsIsFine DEF SweepEnd, Doing, Tasks
<1>11. CASE MirrorBlocked(c)
  BY <1>11, TripsIsFine DEF MirrorBlocked, Doing
<1>12. CASE RequestRun(c)
  BY <1>12, GoesIsFine DEF RequestRun, Doing, Tasks
<1>. QED
  BY <1>1, <1>2, <1>3, <1>4, <1>5, <1>6, <1>7, <1>8, <1>9, <1>10, <1>11, <1>12 DEF Thread

LEMMA ScheduleFine ==
    ASSUME DemoConstants, ResumeInv, Schedule
    PROVE  ResumeInv'
<1>0. Scheduler \in Callers /\ GoodJob(job[Scheduler])
  BY SchedulerIsCaller DEF ResumeInv, JobsOK
<1>1. CASE Tick
  BY <1>0, <1>1, GoesIsFine DEF Tick, Doing, Tasks
<1>2. CASE try_auto_recover
  <2> DEFINE x == [Job("probe", "idle") EXCEPT !.count = resumes[day], !.on = day]
  <2>1. day \in 1..Days /\ resumes[day] \in Nat /\ resumes[day] < MaxResumes
    <3>1. day \in 1..Days /\ resumes[day] \in 0..MaxResumes
      BY DEF ResumeInv, CountersOK
    <3>2. resumes[day] < MaxResumes
      BY <1>2 DEF try_auto_recover, Recoverable
    <3>3. resumes[day] \in Nat
      BY <3>1
    <3>. QED
      BY <3>1, <3>2, <3>3
  <2>2. GoodJob(Job("probe", "idle")) /\ Job("probe", "idle").task = "probe"
    BY JobIsGood DEF Tasks
  <2>3. GoodJob(x) /\ x.task = "probe" /\ x.count = resumes[day] /\ x.on = day
    <3>1. GoodJob(x)
      BY <2>1, <2>2, JobWithCount
    <3>2. x.task = "probe" /\ x.count = resumes[day] /\ x.on = day
      BY <2>1, <2>2 DEF GoodJob, JobRecord
    <3>. QED
      BY <3>1, <3>2
  <2>4. /\ job' = [job EXCEPT ![Scheduler] = x] /\ UNCHANGED <<day, crashes, resumes, lifted>>
        /\ job[Scheduler].task = "idle"
    BY <1>2 DEF try_auto_recover, Doing
  <2> HIDE DEF x
  <2>5. JobsOK' /\ job'[Scheduler] = x
    BY <1>0, <2>3, <2>4 DEF ResumeInv, JobsOK, GoodJob
  <2>. QED
    BY <2>1, <2>3, <2>4, <2>5 DEF ResumeInv, CountersOK, Counted, Covered
<1>3. ASSUME NEW clean \in BOOLEAN, Probe(clean) PROVE ResumeInv'
  <2>1. job[Scheduler].task = "probe" /\ UNCHANGED <<day, crashes, resumes>>
    BY <1>3 DEF Probe, Doing
  <2>2. CASE /\ job' = [job EXCEPT ![Scheduler].task = "clear"]
             /\ lifted' = [lifted EXCEPT ![job[Scheduler].on] = @ + 1]
    <3> DEFINE x == [job[Scheduler] EXCEPT !.task = "clear"]
    <3>1. /\ GoodJob(x) /\ x.task = "clear" /\ x.on = job[Scheduler].on
          /\ x.count = job[Scheduler].count /\ x.on \in 1..Days
      BY <1>0, <2>1, JobClears, JobFields
    <3>2. job' = [job EXCEPT ![Scheduler] = x]
      BY <2>2
    <3> HIDE DEF x
    <3>3. JobsOK' /\ job'[Scheduler] = x
      BY <1>0, <3>1, <3>2 DEF ResumeInv, JobsOK, GoodJob
    <3>4. CountersOK'
      BY <2>1, <2>2, <3>1 DEF ResumeInv, CountersOK
    <3>5. x.count = resumes'[x.on] /\ x.count < MaxResumes
      BY <2>1, <3>1 DEF ResumeInv, Counted
    <3>6. \A d \in 1..Days :
            \/ lifted'[d] <= resumes'[d] + crashes'
            \/ x.on = d /\ lifted'[d] <= resumes'[d] + crashes' + 1
      <4>1. ASSUME NEW d \in 1..Days
            PROVE  \/ lifted'[d] <= resumes'[d] + crashes'
                   \/ x.on = d /\ lifted'[d] <= resumes'[d] + crashes' + 1
        <5>1. lifted[d] <= resumes[d] + crashes
          BY <2>1 DEF ResumeInv, Covered
        <5>2. lifted[d] \in Nat /\ resumes[d] \in Nat /\ crashes \in Nat
          BY DEF ResumeInv, CountersOK, DemoConstants
        <5>3. x.on = d => lifted'[d] = lifted[d] + 1
          BY <2>2, <3>1 DEF ResumeInv, CountersOK
        <5>4. x.on # d => lifted'[d] = lifted[d]
          BY <2>2, <3>1 DEF ResumeInv, CountersOK
        <5>5. resumes'[d] = resumes[d] /\ crashes' = crashes
          BY <2>1
        <5>. QED
          BY <5>1, <5>2, <5>3, <5>4, <5>5
      <4>. QED
        BY <4>1
    <3>. QED
      BY <3>1, <3>3, <3>4, <3>5, <3>6 DEF ResumeInv, Counted, Covered
  <2>3. CASE Goes(Scheduler, "idle") /\ UNCHANGED lifted
    BY <1>0, <2>1, <2>3, GoesIsFine DEF Tasks
  <2>4. CASE /\ \E cause \in {"issue", "mismatch"} : Trips(Scheduler, cause, "idle")
             /\ UNCHANGED lifted
    BY <1>0, <2>1, <2>4, TripsIsFine
  <2>. QED
    BY <1>3, <2>2, <2>3, <2>4 DEF Probe
<1>4. CASE Recovered
  <2> DEFINE t == IF scan_blockers THEN "idle" ELSE "maintain"
             x == Job(t, "idle")
             d0 == job[Scheduler].on
  <2>1. /\ job[Scheduler].task = "clear" /\ UNCHANGED <<day, crashes, lifted>>
        /\ resumes' = [resumes EXCEPT ![d0] = job[Scheduler].count + 1]
        /\ job' = [job EXCEPT ![Scheduler] = x]
    BY <1>4 DEF Recovered, Doing, Goes
  <2>2. GoodJob(x) /\ x.task \in {"idle", "maintain"}
    <3>1. t \in {"idle", "maintain"}
      OBVIOUS
    <3> HIDE DEF t
    <3>. QED
      BY <3>1, JobIsGood DEF Tasks
  <2> HIDE DEF x
  <2>3. JobsOK' /\ job'[Scheduler] = x
    BY <1>0, <2>1, <2>2 DEF ResumeInv, JobsOK, GoodJob
  <2>4. /\ d0 \in 1..Days /\ job[Scheduler].count = resumes[d0] /\ resumes[d0] < MaxResumes
    BY <1>0, <2>1, JobFields DEF ResumeInv, Counted
  <2>5. resumes[d0] + 1 \in 0..MaxResumes
    BY <2>4 DEF ResumeInv, CountersOK, DemoConstants
  <2>6. CountersOK'
    BY <2>1, <2>4, <2>5 DEF ResumeInv, CountersOK
  <2>7. ASSUME NEW d \in 1..Days PROVE lifted[d] <= resumes'[d] + crashes
    <3>1. lifted[d] \in Nat /\ resumes[d] \in Nat /\ crashes \in Nat
      BY DEF ResumeInv, CountersOK, DemoConstants
    <3>2. d = d0 => resumes'[d] = resumes[d] + 1 /\ lifted[d] <= resumes[d] + crashes + 1
      BY <2>1, <2>4, <3>1 DEF ResumeInv, CountersOK, Covered
    <3>3. d # d0 => resumes'[d] = resumes[d] /\ lifted[d] <= resumes[d] + crashes
      BY <2>1, <2>4 DEF ResumeInv, CountersOK, Covered
    <3>. QED
      BY <3>1, <3>2, <3>3
  <2>. QED
    BY <2>1, <2>2, <2>3, <2>6, <2>7 DEF ResumeInv, Counted, Covered
<1>. QED
  BY <1>1, <1>2, <1>3, <1>4 DEF Schedule

LEMMA CrashFine ==
    ASSUME DemoConstants, ResumeInv, Crash
    PROVE  ResumeInv'
<1>0. Scheduler \in Callers
  BY SchedulerIsCaller
<1>1. /\ GoodJob(Job("maintain", "idle")) /\ Job("maintain", "idle").task = "maintain"
      /\ GoodJob(Idle)
  BY JobIsGood DEF Tasks, Idle
<1>2. /\ job' = [c \in Callers |-> IF c = Scheduler THEN Job("maintain", "idle") ELSE Idle]
      /\ crashes' = crashes + 1 /\ UNCHANGED <<day, resumes, lifted>>
  BY DEF Crash
<1>3. JobsOK' /\ job'[Scheduler] = Job("maintain", "idle")
  BY <1>0, <1>1, <1>2 DEF JobsOK, GoodJob
<1>4. CountersOK'
  BY <1>2 DEF ResumeInv, CountersOK
<1>5. ASSUME NEW d \in 1..Days PROVE lifted[d] <= resumes[d] + (crashes + 1)
  <2>1. lifted[d] \in Nat /\ resumes[d] \in Nat /\ crashes \in Nat
    BY DEF ResumeInv, CountersOK, DemoConstants
  <2>. QED
    BY <2>1 DEF ResumeInv, Covered
<1>. QED
  BY <1>1, <1>2, <1>3, <1>4, <1>5 DEF ResumeInv, Counted, Covered

LEMMA CommandFine ==
    ASSUME DemoConstants, ResumeInv, NEW c \in Callers, NEW what \in Commands, Command(c, what)
    PROVE  ResumeInv'
<1> DEFINE b == what = "kill"
           x == [Job("trip", "idle") EXCEPT !.stop = b]
<1>1. GoodJob(Job("trip", "idle")) /\ Job("trip", "idle").task = "trip" /\ b \in BOOLEAN
  BY JobIsGood DEF Tasks
<1>2. GoodJob(x) /\ x.task = "trip"
  <2> HIDE DEF b
  <2>1. GoodJob([Job("trip", "idle") EXCEPT !.stop = b])
    BY <1>1, JobWithStop
  <2>2. [Job("trip", "idle") EXCEPT !.stop = b].task = "trip"
    BY <1>1, JobWithStop
  <2>. QED
    BY <2>1, <2>2
<1>3. /\ job' = [job EXCEPT ![c] = x] /\ job[c].task = "idle"
      /\ UNCHANGED <<day, crashes, resumes, lifted>>
  BY DEF Command, Doing
<1> HIDE DEF x
<1>. QED
  BY <1>2, <1>3, JobChanges

LEMMA ResumeInvInit == ASSUME DemoConstants PROVE Init => ResumeInv
<1>. SUFFICES ASSUME Init PROVE ResumeInv
  OBVIOUS
<1>1. GoodJob(Idle) /\ Idle.task = "idle"
  BY JobIsGood DEF Tasks, Idle
<1>2. JobsOK /\ job[Scheduler] = Idle
  BY <1>1, SchedulerIsCaller DEF Init, JobsOK, GoodJob
<1>0. /\ resumes = [d \in 1..Days |-> 0] /\ lifted = [d \in 1..Days |-> 0]
      /\ day = 1 /\ crashes = 0
  BY DEF Init
<1>3. CountersOK
  BY <1>0 DEF CountersOK, DemoConstants
<1>4. \A d \in 1..Days : lifted[d] <= resumes[d] + crashes
  BY <1>0
<1>. QED
  BY <1>1, <1>2, <1>3, <1>4 DEF ResumeInv, Counted, Covered

LEMMA ResumeInvStep == ASSUME DemoConstants, ResumeInv, [Next]_vars PROVE ResumeInv'
<1>1. CASE Wire \/ (\E c \in Callers : Call(c)) \/ NextDay \/ UNCHANGED vars
  <2>1. UNCHANGED <<job, crashes, resumes, lifted>>
    BY <1>1 DEF Wire, Call, NextDay, controlVars, vars
  <2>2. day' \in 1..Days
    <3>1. day \in 1..Days /\ Days \in Nat
      BY DEF ResumeInv, CountersOK, DemoConstants
    <3>2. day' = day \/ (day < Days /\ day' = day + 1)
      BY <1>1 DEF Wire, Call, NextDay, controlVars, vars
    <3>. QED
      BY <3>1, <3>2
  <2>. QED
    BY <2>1, <2>2, CountersStay
<1>2. CASE Schedule
  BY <1>2, ScheduleFine
<1>3. CASE Crash
  BY <1>3, CrashFine
<1>4. CASE \E c \in Callers : Thread(c) \/ Mirror(c) \/ RequestRun(c) \/ \E what \in Commands : Command(c, what)
  BY <1>4, ThreadFine, CommandFine
<1>. QED
  BY <1>1, <1>2, <1>3, <1>4 DEF Next

\* auto_recover lifts the breaker at most paper_auto_recover_max_resumes_per_day times for a
\* date, whatever trips, commands, midnights and other threads come in between the reading of
\* the counter and its writing; only a restart between the resume and its count adds one
\* (auto_recover.py 28-112).
THEOREM ResumesStayBounded == Spec => []ResumesBounded
<1>1. ResumeInv => ResumesBounded
  <2>. SUFFICES ASSUME ResumeInv, NEW d \in 1..Days PROVE lifted[d] <= MaxResumes + crashes
    BY DEF ResumesBounded
  <2>1. /\ lifted[d] \in Nat /\ resumes[d] \in Nat /\ resumes[d] <= MaxResumes
        /\ crashes \in Nat /\ MaxResumes \in Nat
    BY DemoConstants DEF ResumeInv, CountersOK
  <2>2. CASE lifted[d] <= resumes[d] + crashes
    BY <2>1, <2>2
  <2>3. CASE resumes[d] < MaxResumes /\ lifted[d] <= resumes[d] + crashes + 1
    BY <2>1, <2>3
  <2>. QED
    BY <2>2, <2>3 DEF ResumeInv, Counted, Covered
<1>. QED
  BY <1>1, ResumeInvInit, ResumeInvStep, DemoConstants, PTL DEF Spec

-----------------------------------------------------------------------------
(* Automation uses the client as DemoOrders describes it *)

\* Every step of DemoOps is a step of the client, or leaves the client's state alone.
LEMMA StepIsOrders ==
    ASSUME DemoConstants, ResumeInv, [Next]_vars
    PROVE  [OrdersNext]_orderVars
<1>0. ClosePayload \in Payloads
  BY DEF ClosePayload, DemoConstants
<1>1. ASSUME NEW c \in Callers, Thread(c) PROVE [OrdersNext]_orderVars
  <2>1. CASE CloseNext(c)
    <3>1. PICK e \in job[c].left : Reserve(c, CloseOf[e], ClosePayload)
      BY <2>1 DEF CloseNext
    <3>2. CloseOf[e] \in Keys
      BY <2>1, <3>1 DEF CloseNext, Doing, ResumeInv, JobsOK, GoodJob, DemoConstants
    <3>. QED
      BY <1>0, <3>1, <3>2 DEF OrdersNext
  <2>2. CASE Closed(c) \/ Mirrored(c)
    BY <2>2 DEF Closed, Mirrored, OrdersNext
  <2>3. CASE \E k \in Entries, p \in Payloads : OpenOrder(c, k, p)
    BY <2>3 DEF OpenOrder, OrdersNext, DemoConstants
  <2>4. CASE Write(c) \/ EmergencyStop(c) \/ StopDone(c) \/ MirrorBlocked(c)
    BY <2>4 DEF Write, EmergencyStop, StopDone, MirrorBlocked
  <2>5. ASSUME NEW k \in Keys, SweepRow(c, k) PROVE [OrdersNext]_orderVars
    BY <2>5 DEF SweepRow, OrdersNext
  <2>6. CASE \/ (\E verdict \in {"ok", "issue", "mismatch"}, next \in {"begin", "idle"} :
                   Reconcile(c, verdict, next))
             \/ SweepBegin(c)
             \/ (\E verdict \in {"ok", "unresolved", "account"} : SweepEnd(c, verdict))
    BY <2>6 DEF Reconcile, SweepBegin, SweepEnd
  <2>. QED
    BY <1>1, <2>1, <2>2, <2>3, <2>4, <2>5, <2>6 DEF Thread
<1>2. CASE Wire \/ \E c \in Callers : Call(c)
  BY <1>2 DEF Wire, Call, OrdersNext
<1>4. CASE Schedule
  BY <1>4 DEF Schedule, Tick, try_auto_recover, Probe, Recovered
<1>5. CASE Crash
  BY <1>5 DEF Crash, OrdersNext
<1>6. CASE \/ NextDay \/ UNCHANGED vars
           \/ \E c \in Callers : \/ Mirror(c) \/ RequestRun(c)
                                \/ \E what \in Commands : Command(c, what)
  BY <1>6 DEF NextDay, vars, orderVars, Mirror, RequestRun, Command
<1>. QED
  BY <1>1, <1>2, <1>4, <1>5, <1>6 DEF Next

\* The mirror, the emergency stop, the reconciliation and restarts together implement
\* AtMostOnce: no interleaving of them places a second order, or a second close, under one
\* client_order_id, or reports an order that is another's (comparison.py 29-134,
\* etoro_demo_v2.py 226-304).
THEOREM AutomationSubmitsAtMostOnce == Spec => SubmitsAtMostOnce
<1>1. Init => OrdersInit
  BY DEF Init
<1>2. Spec => []ResumeInv
  BY ResumeInvInit, ResumeInvStep, DemoConstants, PTL DEF Spec
<1>3. Spec => OrdersSpec
  BY <1>1, <1>2, StepIsOrders, DemoConstants, PTL DEF Spec, OrdersSpec
<1>. QED
  BY <1>3, SubmissionIsIdempotent
-----------------------------------------------------------------------------
(* The writes to come, and the breaker that holds the scheduler *)

Fields == {"paused", "kill", "reason", "circuit"}
Values == {"true", "false", "", "manual", "breaker", "recovered"} \cup Causes

\* One row write; the kill switch is on or off.
Writes == {w \in Fields \X Values : w[1] = "kill" => w[2] \in {"true", "false"}}

RowsTyped == st \in [Fields -> Values] /\ todo \in [Callers -> Seq(Writes)]

\* The scheduler is on its way to switch the kill switch on.
Awaits(s) == \E i \in 1..Len(s) : s[i] = <<"kill", "true">>

\* While the breaker that the scheduler's eToro reconciliation tripped stands, the kill switch is on (or
\* the trip is still being written) and the scheduler is nowhere near another reconciliation.
Held(x, s) ==
    tripped =>
        /\ x.task \in {"trip", "close", "idle", "probe", "clear"}
        /\ x.task \in {"trip", "close"} => x.then = "idle"
        /\ st.kill = "true" \/ (x.task = "trip" /\ Awaits(s))

TripInv == RowsTyped /\ Held(job[Scheduler], todo[Scheduler])

LEMMA ShortSequences ==
    ASSUME NEW W, NEW a \in W, NEW b \in W, NEW c \in W
    PROVE  <<a>> \in Seq(W) /\ <<a, b>> \in Seq(W) /\ <<a, b, c>> \in Seq(W)
  OBVIOUS

LEMMA OneMore ==
    ASSUME NEW W, NEW a \in W, NEW s \in Seq(W)
    PROVE  /\ <<a>> \o s \in Seq(W) /\ Len(<<a>> \o s) = Len(s) + 1
           /\ \A i \in 1..Len(s) : (<<a>> \o s)[i + 1] = s[i]
<1>1. <<a>> \in Seq(W) /\ Len(<<a>>) = 1
  OBVIOUS
<1>. QED
  BY <1>1

LEMMA WritesTyped ==
    /\ \A f \in Fields \ {"kill"}, v \in Values : <<f, v>> \in Writes
    /\ <<"kill", "true">> \in Writes /\ <<"kill", "false">> \in Writes
  BY DEF Writes, Fields, Values

LEMMA SequencesTyped ==
    /\ resume("manual") \in Seq(Writes) /\ resume("recovered") \in Seq(Writes)
    /\ enable_kill_switch("manual") \in Seq(Writes) /\ enable_kill_switch("breaker") \in Seq(Writes)
    /\ pause \in Seq(Writes)
    /\ clear_circuit_breaker \in Seq(Writes)
    /\ clear_circuit_breaker \o resume("recovered") \in Seq(Writes)
<1>1. /\ \A v \in {"true", "false"} : <<"paused", v>> \in Writes /\ <<"kill", v>> \in Writes
      /\ \A v \in {"manual", "breaker", "recovered"} : <<"reason", v>> \in Writes
      /\ <<"circuit", "">> \in Writes
  BY WritesTyped DEF Fields, Values
<1>2. resume("manual") \in Seq(Writes) /\ resume("recovered") \in Seq(Writes)
  BY <1>1, ShortSequences DEF resume
<1>3. enable_kill_switch("manual") \in Seq(Writes) /\ enable_kill_switch("breaker") \in Seq(Writes)
  BY <1>1, ShortSequences DEF enable_kill_switch
<1>4. pause \in Seq(Writes) /\ clear_circuit_breaker \in Seq(Writes)
  BY <1>1, ShortSequences DEF pause, clear_circuit_breaker
<1>5. clear_circuit_breaker \o resume("recovered") \in Seq(Writes)
  BY <1>2, <1>4
<1>. QED
  BY <1>2, <1>3, <1>4, <1>5

LEMMA TripTyped ==
    ASSUME NEW cause \in Causes
    PROVE  trip_circuit_breaker(cause) \in Seq(Writes) /\ Awaits(trip_circuit_breaker(cause))
<1> DEFINE a == <<"circuit", cause>>
           b == enable_kill_switch("breaker")
<1>1. a \in Writes
  BY WritesTyped DEF Fields, Values
<1>2. b \in Seq(Writes)
  BY SequencesTyped
<1>3. Len(b) = 3 /\ b[2] = <<"kill", "true">>
  BY DEF enable_kill_switch
<1>4. trip_circuit_breaker(cause) = <<a>> \o b
  BY DEF trip_circuit_breaker
<1> HIDE DEF a, b
<1>5. <<a>> \o b \in Seq(Writes) /\ Len(<<a>> \o b) = Len(b) + 1
  BY <1>1, <1>2, OneMore
<1>6. (<<a>> \o b)[2 + 1] = b[2]
  BY <1>1, <1>2, <1>3, OneMore
<1>. QED
  BY <1>3, <1>4, <1>5, <1>6 DEF Awaits

LEMMA TodoTyped ==
    ASSUME RowsTyped, NEW c \in Callers, NEW s \in Seq(Writes), todo' = [todo EXCEPT ![c] = s],
           UNCHANGED st
    PROVE  RowsTyped'
  BY DEF RowsTyped

LEMMA HeldStays ==
    ASSUME TripInv, RowsTyped', UNCHANGED <<st, tripped>>,
           job'[Scheduler] = job[Scheduler], todo'[Scheduler] = todo[Scheduler]
    PROVE  TripInv'
  BY DEF TripInv, Held

\* With nothing left to write, the kill switch is on.
LEMMA NothingAwaited ==
    ASSUME TripInv, tripped, todo[Scheduler] = <<>>
    PROVE  st.kill = "true"
<1>1. ~Awaits(<<>>)
  BY DEF Awaits
<1>. QED
  BY <1>1 DEF TripInv, Held

LEMMA HeldBySwitch ==
    ASSUME RowsTyped', NEW x, job'[Scheduler] = x,
           tripped' => /\ st'.kill = "true"
                       /\ x.task \in {"trip", "close", "idle", "probe", "clear"}
                       /\ x.task \in {"trip", "close"} => x.then = "idle"
    PROVE  TripInv'
  BY DEF TripInv, Held

LEMMA TripsHeld ==
    ASSUME DemoConstants, JobsOK, TripInv, NEW c \in Callers, NEW cause \in Causes,
           NEW then \in {"idle", "begin"}, Trips(c, cause, then), UNCHANGED st,
           c = Scheduler => (tripped' => then = "idle"),
           c # Scheduler => UNCHANGED tripped
    PROVE  TripInv'
<1> DEFINE s == trip_circuit_breaker(cause)
           b == cause # "mismatch"
           x == [Job("trip", then) EXCEPT !.stop = b]
<1>1. s \in Seq(Writes) /\ Awaits(s)
  BY TripTyped
<1>2. todo' = [todo EXCEPT ![c] = s] /\ job' = [job EXCEPT ![c] = x]
  BY DEF Trips
<1>3. x.task = "trip" /\ x.then = then
  BY DEF Job
<1> HIDE DEF s, x
<1>4. RowsTyped'
  BY <1>1, <1>2, TodoTyped DEF TripInv
<1>5. CASE c = Scheduler
  <2>1. job'[Scheduler] = x /\ todo'[Scheduler] = s
    BY <1>2, <1>5 DEF JobsOK, TripInv, RowsTyped
  <2>. QED
    BY <1>1, <1>3, <1>4, <1>5, <2>1 DEF TripInv, Held
<1>6. CASE c # Scheduler
  <2>1. job'[Scheduler] = job[Scheduler] /\ todo'[Scheduler] = todo[Scheduler]
    BY <1>2, <1>6, SchedulerIsCaller DEF JobsOK, TripInv, RowsTyped
  <2>. QED
    BY <1>4, <1>6, <2>1, HeldStays
<1>. QED
  BY <1>5, <1>6

\* A thread that has nothing left to write takes up the job x.
LEMMA JobHeld ==
    ASSUME DemoConstants, JobsOK, TripInv, NEW c \in Callers, NEW x, todo[c] = <<>>,
           job' = [job EXCEPT ![c] = x], UNCHANGED <<st, todo, tripped>>,
           c = Scheduler /\ tripped =>
               /\ x.task \in {"close", "idle", "probe", "clear"}
               /\ x.task = "close" => x.then = "idle"
    PROVE  TripInv'
<1>1. RowsTyped'
  BY DEF TripInv, RowsTyped
<1>2. CASE c = Scheduler
  <2>1. job'[Scheduler] = x
    BY <1>2 DEF JobsOK
  <2>2. tripped => st.kill = "true"
    BY <1>2, NothingAwaited
  <2>. QED
    BY <1>1, <1>2, <2>1, <2>2, HeldBySwitch
<1>3. CASE c # Scheduler
  <2>1. job'[Scheduler] = job[Scheduler]
    BY <1>3, SchedulerIsCaller DEF JobsOK
  <2>. QED
    BY <1>1, <2>1, HeldStays
<1>. QED
  BY <1>2, <1>3

LEMMA GoesHeld ==
    ASSUME DemoConstants, JobsOK, TripInv, NEW c \in Callers, NEW t, Goes(c, t), todo[c] = <<>>,
           UNCHANGED <<st, tripped>>, c = Scheduler /\ tripped => t = "idle"
    PROVE  TripInv'
<1>1. Job(t, "idle").task = t
  BY DEF Job
<1>2. job' = [job EXCEPT ![c] = Job(t, "idle")] /\ UNCHANGED todo
  BY DEF Goes
<1>. QED
  BY <1>1, <1>2, JobHeld

LEMMA WriteHeld ==
    ASSUME DemoConstants, TripInv, NEW c \in Callers, Write(c)
    PROVE  TripInv'
<1> DEFINE w == Head(todo[c])
<1>0. Scheduler \in Callers
  BY SchedulerIsCaller
<1>1. /\ todo[c] \in Seq(Writes) /\ todo[c] # <<>> /\ UNCHANGED job
      /\ st' = [st EXCEPT ![w[1]] = w[2]]
      /\ todo' = [todo EXCEPT ![c] = Tail(todo[c])]
      /\ tripped' = (tripped /\ w # <<"kill", "false">>)
  BY DEF Write, TripInv, RowsTyped
<1>2. w \in Writes /\ Tail(todo[c]) \in Seq(Writes)
  BY <1>1
<1>3. /\ w[1] \in Fields /\ w[2] \in Values /\ w = <<w[1], w[2]>>
      /\ w[1] = "kill" => w[2] \in {"true", "false"}
  <2> HIDE DEF w
  <2>. QED
    BY <1>2 DEF Writes
<1>4. RowsTyped'
  <2> HIDE DEF w
  <2>1. st' \in [Fields -> Values]
    BY <1>1, <1>3 DEF TripInv, RowsTyped
  <2>2. todo' \in [Callers -> Seq(Writes)]
    BY <1>1, <1>2 DEF TripInv, RowsTyped
  <2>. QED
    BY <2>1, <2>2 DEF RowsTyped
<1>5. tripped' => tripped /\ (st.kill = "true" => st'.kill = "true")
  <2> HIDE DEF w
  <2>1. w[1] # "kill" => st'.kill = st.kill
    BY <1>1, <1>3 DEF TripInv, RowsTyped, Fields
  <2>2. w[1] = "kill" /\ w[2] = "true" => st'.kill = "true"
    BY <1>1, <1>3 DEF TripInv, RowsTyped, Fields
  <2>. QED
    BY <1>1, <1>3, <2>1, <2>2
<1>6. Awaits(todo[Scheduler]) /\ tripped' => Awaits(todo'[Scheduler]) \/ st'.kill = "true"
  <2>. SUFFICES ASSUME Awaits(todo[Scheduler]) PROVE Awaits(todo'[Scheduler]) \/ st'.kill = "true"
    OBVIOUS
  <2>1. CASE c # Scheduler
    BY <1>0, <1>1, <2>1 DEF TripInv, RowsTyped
  <2>2. CASE c = Scheduler
    <3>1. PICK i \in 1..Len(todo[c]) : todo[c][i] = <<"kill", "true">>
      BY <2>2 DEF Awaits
    <3>2. todo'[Scheduler] = Tail(todo[c])
      BY <1>1, <2>2 DEF TripInv, RowsTyped
    <3>3. CASE i = 1
      <4>1. w = <<"kill", "true">>
        BY <1>1, <3>1, <3>3
      <4>2. w[1] = "kill" /\ w[2] = "true"
        BY <4>1
      <4> HIDE DEF w
      <4>. QED
        BY <1>1, <4>2 DEF TripInv, RowsTyped, Fields
    <3>4. CASE i # 1
      <4>1. i - 1 \in 1..Len(Tail(todo[c])) /\ Tail(todo[c])[i - 1] = todo[c][i]
        BY <1>1, <3>1, <3>4
      <4>. QED
        BY <3>1, <3>2, <4>1 DEF Awaits
    <3>. QED
      BY <3>3, <3>4
  <2>. QED
    BY <2>1, <2>2
<1>7. Held(job[Scheduler], todo[Scheduler])
  BY DEF TripInv
<1>. QED
  BY <1>1, <1>4, <1>5, <1>6, <1>7 DEF TripInv, Held

LEMMA ThreadHeld ==
    ASSUME DemoConstants, JobsOK, TripInv, NEW c \in Callers, Thread(c) \/ Mirror(c) \/ RequestRun(c)
    PROVE  TripInv'
<1>0. GoodJob(job[c])
  BY DEF JobsOK
<1>1. CASE Write(c)
  BY <1>1, WriteHeld
<1>2. CASE CloseNext(c) \/ \E k \in Entries, p \in Payloads : OpenOrder(c, k, p)
  <2>1. UNCHANGED <<job, st, todo, tripped>>
    BY <1>2 DEF CloseNext, OpenOrder, controlVars
  <2>. QED
    BY <2>1 DEF TripInv, RowsTyped, Held
<1>3. CASE EmergencyStop(c)
  <2>1. /\ UNCHANGED <<st, todo, tripped>> /\ todo[c] = <<>> /\ job[c].task = "trip"
    BY <1>3 DEF EmergencyStop, controlVars, Doing
  <2>2. c = Scheduler /\ tripped => job[c].then = "idle"
    BY <2>1 DEF TripInv, Held
  <2>3. CASE job[c].stop
    <3> DEFINE x == [job[c] EXCEPT !.task = "close", !.left = Open]
    <3>1. x.task = "close" /\ x.then = job[c].then
      BY <1>0 DEF GoodJob, JobRecord
    <3>2. job' = [job EXCEPT ![c] = x]
      BY <1>3, <2>3 DEF EmergencyStop
    <3> HIDE DEF x
    <3>. QED
      BY <2>1, <2>2, <3>1, <3>2, JobHeld
  <2>4. CASE ~job[c].stop
    <3>1. job' = [job EXCEPT ![c] = Job(job[c].then, "idle")]
      BY <1>3, <2>4 DEF EmergencyStop
    <3>2. Job(job[c].then, "idle").task = job[c].then
      BY DEF Job
    <3>. QED
      BY <2>1, <2>2, <3>1, <3>2, JobHeld
  <2>. QED
    BY <2>3, <2>4
<1>4. CASE Closed(c)
  <2>1. /\ UNCHANGED <<st, todo, tripped>> /\ todo[c] = <<>> /\ job[c].task = "close"
    BY <1>4 DEF Closed, controlVars, Doing
  <2>2. c = Scheduler /\ tripped => job[c].then = "idle"
    BY <2>1 DEF TripInv, Held
  <2>3. CASE call[c].pc = "raised"
    <3>1. job' = [job EXCEPT ![c] = Job(job[c].then, "idle")]
      BY <1>4, <2>3 DEF Closed
    <3>2. Job(job[c].then, "idle").task = job[c].then
      BY DEF Job
    <3>. QED
      BY <2>1, <2>2, <3>1, <3>2, JobHeld
  <2>4. CASE call[c].pc # "raised"
    <3> DEFINE S == {e \in job[c].left : CloseOf[e] # call[c].key}
               x == [job[c] EXCEPT !.left = S]
    <3>1. x.task = "close" /\ x.then = job[c].then
      BY <1>0, <2>1 DEF GoodJob, JobRecord
    <3>2. job' = [job EXCEPT ![c] = x]
      BY <1>4, <2>4 DEF Closed
    <3> HIDE DEF x
    <3>. QED
      BY <2>1, <2>2, <3>1, <3>2, JobHeld
  <2>. QED
    BY <2>3, <2>4
<1>5. CASE StopDone(c)
  <2>1. /\ UNCHANGED <<st, tripped>> /\ todo[c] = <<>> /\ job[c].task = "close"
        /\ Goes(c, job[c].then)
    BY <1>5 DEF StopDone, Doing
  <2>2. c = Scheduler /\ tripped => job[c].then = "idle"
    BY <2>1 DEF TripInv, Held
  <2>. QED
    BY <2>1, <2>2, GoesHeld
<1>8. CASE MirrorBlocked(c)
  <2>1. UNCHANGED <<st, tripped>> /\ todo[c] = <<>> /\ Trips(c, "issue", "idle")
    BY <1>8 DEF MirrorBlocked, Doing
  <2>. QED
    BY <2>1, TripsHeld DEF Causes
<1>6. CASE Mirrored(c)
  <2>1. UNCHANGED <<st, tripped>> /\ todo[c] = <<>> /\ job[c].task = "mirror"
    BY <1>6 DEF Mirrored, Doing
  <2>2. Trips(c, "issue", "idle") \/ Goes(c, "idle")
    BY <1>6 DEF Mirrored
  <2>. QED
    BY <2>1, <2>2, GoesHeld, TripsHeld DEF Causes
<1>7. CASE Mirror(c)
  <2>1. UNCHANGED <<st, tripped>> /\ todo[c] = <<>> /\ st.kill # "true" /\ Goes(c, "mirror")
    BY <1>7 DEF Mirror, Doing, execution_blockers, scan_blockers
  <2>2. c = Scheduler => ~tripped
    BY <2>1, NothingAwaited
  <2>. QED
    BY <2>1, <2>2, GoesHeld
<1>9. ASSUME NEW verdict \in {"ok", "issue", "mismatch"}, NEW next \in {"begin", "idle"},
             Reconcile(c, verdict, next)
      PROVE  TripInv'
  <2>1. job[c].task = "maintain" /\ todo[c] = <<>> /\ UNCHANGED <<st, tripped>>
    BY <1>9 DEF Reconcile, Doing
  <2>2. c = Scheduler => ~tripped
    BY <2>1 DEF TripInv, Held
  <2>3. \/ Goes(c, next)
        \/ verdict \in Causes /\ Trips(c, verdict, next)
    BY <1>9 DEF Reconcile, Causes
  <2>. QED
    BY <2>1, <2>2, <2>3, GoesHeld, TripsHeld
<1>10. CASE SweepBegin(c) \/ \E k \in Keys : SweepRow(c, k)
  <2>1. job[c].task \in {"begin", "sweep"} /\ UNCHANGED <<st, todo, tripped>>
    BY <1>10 DEF SweepBegin, SweepRow, Doing, controlVars
  <2>2. c = Scheduler => ~tripped
    BY <2>1 DEF TripInv, Held
  <2>3. c # Scheduler => job'[Scheduler] = job[Scheduler]
    BY <1>10, SchedulerIsCaller DEF SweepBegin, SweepRow, JobsOK
  <2>. QED
    BY <2>1, <2>2, <2>3 DEF TripInv, RowsTyped, Held
<1>11. ASSUME NEW verdict \in {"ok", "unresolved", "account"}, SweepEnd(c, verdict) PROVE TripInv'
  <2>1. job[c].task = "sweep" /\ todo[c] = <<>> /\ UNCHANGED st
    BY <1>11 DEF SweepEnd, Doing
  <2>2. c = Scheduler => ~tripped
    BY <2>1 DEF TripInv, Held
  <2>3. \/ /\ verdict \in Causes /\ Trips(c, verdict, "idle")
           /\ c # Scheduler => UNCHANGED tripped
        \/ Goes(c, "idle") /\ UNCHANGED tripped
    BY <1>11 DEF SweepEnd, Finds, Causes
  <2>. QED
    BY <2>1, <2>2, <2>3, GoesHeld, TripsHeld
<1>12. CASE RequestRun(c)
  <2>1. UNCHANGED <<st, tripped>> /\ todo[c] = <<>> /\ c # Scheduler /\ \E t \in {"maintain", "begin"} : Goes(c, t)
    BY <1>12 DEF RequestRun, Doing
  <2>. QED
    BY <2>1, GoesHeld
<1>. QED
  BY <1>1, <1>2, <1>3, <1>4, <1>5, <1>6, <1>7, <1>8, <1>9, <1>10, <1>11, <1>12 DEF Thread

LEMMA ScheduleHeld ==
    ASSUME DemoConstants, JobsOK, TripInv, Schedule
    PROVE  TripInv'
<1>0. Scheduler \in Callers /\ GoodJob(job[Scheduler])
  BY SchedulerIsCaller DEF JobsOK
<1>1. CASE Tick
  <2>1. /\ UNCHANGED <<st, tripped>> /\ todo[Scheduler] = <<>> /\ st.kill # "true"
        /\ Goes(Scheduler, "maintain")
    BY <1>1 DEF Tick, Doing, scan_blockers
  <2>2. ~tripped
    BY <2>1, NothingAwaited
  <2>. QED
    BY <1>0, <2>1, <2>2, GoesHeld
<1>2. CASE try_auto_recover
  <2> DEFINE x == [Job("probe", "idle") EXCEPT !.count = resumes[day], !.on = day]
  <2>1. /\ UNCHANGED <<st, todo, tripped>> /\ todo[Scheduler] = <<>>
        /\ job' = [job EXCEPT ![Scheduler] = x]
    BY <1>2 DEF try_auto_recover, Doing
  <2>2. x.task = "probe"
    BY DEF Job
  <2> HIDE DEF x
  <2>. QED
    BY <1>0, <2>1, <2>2, JobHeld
<1>3. ASSUME NEW clean \in BOOLEAN, Probe(clean) PROVE TripInv'
  <2>1. job[Scheduler].task = "probe" /\ todo[Scheduler] = <<>> /\ UNCHANGED <<st, tripped>>
    BY <1>3 DEF Probe, Doing
  <2>2. CASE /\ todo' = [todo EXCEPT ![Scheduler] = clear_circuit_breaker \o resume("recovered")]
             /\ job' = [job EXCEPT ![Scheduler].task = "clear"]
    <3>1. RowsTyped'
      BY <1>0, <2>1, <2>2, SequencesTyped, TodoTyped DEF TripInv
    <3>2. job'[Scheduler] = [job[Scheduler] EXCEPT !.task = "clear"]
      BY <1>0, <2>2 DEF JobsOK
    <3>3. [job[Scheduler] EXCEPT !.task = "clear"].task = "clear"
      BY <1>0 DEF GoodJob, JobRecord
    <3>4. tripped => st.kill = "true"
      BY <2>1, NothingAwaited
    <3>. QED
      BY <2>1, <3>1, <3>2, <3>3, <3>4, HeldBySwitch
  <2>3. CASE Goes(Scheduler, "idle")
    BY <1>0, <2>1, <2>3, GoesHeld
  <2>4. CASE \E cause \in {"issue", "mismatch"} : Trips(Scheduler, cause, "idle")
    BY <1>0, <2>1, <2>4, TripsHeld DEF Causes
  <2>. QED
    BY <1>3, <2>2, <2>3, <2>4 DEF Probe
<1>4. CASE Recovered
  <2>1. UNCHANGED <<st, tripped>> /\ todo[Scheduler] = <<>>
    BY <1>4 DEF Recovered, Doing
  <2>2. tripped => Goes(Scheduler, "idle")
    BY <1>4, <2>1, NothingAwaited DEF Recovered, scan_blockers
  <2>3. Goes(Scheduler, IF scan_blockers THEN "idle" ELSE "maintain")
    BY <1>4 DEF Recovered
  <2>. QED
    BY <1>0, <2>1, <2>2, <2>3, GoesHeld
<1>. QED
  BY <1>1, <1>2, <1>3, <1>4 DEF Schedule

LEMMA CommandHeld ==
    ASSUME DemoConstants, JobsOK, TripInv, NEW c \in Callers, NEW what \in Commands,
           Command(c, what)
    PROVE  TripInv'
<1>1. PICK s \in Seq(Writes) : todo' = [todo EXCEPT ![c] = s]
  BY SequencesTyped DEF Command, Commands
<1>2. c # Scheduler /\ UNCHANGED <<st, tripped>>
  BY DEF Command
<1>3. job'[Scheduler] = job[Scheduler] /\ todo'[Scheduler] = todo[Scheduler]
  BY <1>1, <1>2, SchedulerIsCaller DEF Command, JobsOK, TripInv, RowsTyped
<1>4. RowsTyped'
  BY <1>1, <1>2, TodoTyped DEF TripInv
<1>. QED
  BY <1>2, <1>3, <1>4, HeldStays

LEMMA CrashHeld == ASSUME TripInv, Crash PROVE TripInv'
<1>1. UNCHANGED st /\ todo' = [c \in Callers |-> <<>>] /\ ~tripped'
  BY DEF Crash
<1>2. <<>> \in Seq(Writes)
  OBVIOUS
<1>. QED
  BY <1>1, <1>2 DEF TripInv, RowsTyped, Held

LEMMA TripInvInit == ASSUME DemoConstants PROVE Init => TripInv
<1>. SUFFICES ASSUME Init PROVE TripInv
  OBVIOUS
<1>1. st \in [Fields -> Values]
  <2>1. st = [paused |-> "false", kill |-> "false", reason |-> "", circuit |-> ""]
    BY DEF Init
  <2>2. st = [f \in Fields |-> st[f]]
    BY <2>1, Zenon DEF Fields
  <2>3. /\ st["paused"] = "false" /\ st["kill"] = "false"
        /\ st["reason"] = "" /\ st["circuit"] = ""
    BY <2>1
  <2>4. \A f \in Fields : st[f] \in Values
    BY <2>3 DEF Fields, Values
  <2>. QED
    BY <2>2, <2>4
<1>2. todo \in [Callers -> Seq(Writes)] /\ ~tripped
  <2>1. <<>> \in Seq(Writes)
    OBVIOUS
  <2>. QED
    BY <2>1 DEF Init
<1>. QED
  BY <1>1, <1>2 DEF TripInv, RowsTyped, Held

LEMMA TripInvStep == ASSUME DemoConstants, JobsOK, TripInv, [Next]_vars PROVE TripInv'
<1>1. CASE Wire \/ (\E c \in Callers : Call(c)) \/ NextDay \/ UNCHANGED vars
  <2>1. UNCHANGED <<job, st, todo, tripped>>
    BY <1>1 DEF Wire, Call, NextDay, controlVars, vars
  <2>. QED
    BY <2>1 DEF TripInv, RowsTyped, Held
<1>2. CASE Schedule
  BY <1>2, ScheduleHeld
<1>3. CASE Crash
  BY <1>3, CrashHeld
<1>4. CASE \E c \in Callers : Thread(c) \/ Mirror(c) \/ RequestRun(c) \/ \E what \in Commands : Command(c, what)
  BY <1>4, ThreadHeld, CommandHeld
<1>. QED
  BY <1>1, <1>2, <1>3, <1>4 DEF Next

\* Between two trips of the breaker by the scheduler's own eToro reconciliation somebody
\* switched the kill switch off or restarted the program, whatever the other threads, with
\* reconciliations that requests ask for among them, write row by row in the meantime
\* (etoro_reconciliation.py, service.py trip_circuit_breaker, auto_recover.py).
THEOREM SweepTripsOnce == Spec => []TripsOnce
<1>1. TripInv => TripsOnce
  BY DEF TripInv, Held, TripsOnce, Doing
<1>2. ResumeInv => JobsOK
  BY DEF ResumeInv
<1>3. Spec => []ResumeInv
  BY ResumeInvInit, ResumeInvStep, DemoConstants, PTL DEF Spec
<1>4. Spec => []TripInv
  BY <1>2, <1>3, TripInvInit, TripInvStep, DemoConstants, PTL DEF Spec
<1>. QED
  BY <1>1, <1>4, PTL
=============================================================================
