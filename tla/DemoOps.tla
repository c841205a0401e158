-------------------------------- MODULE DemoOps --------------------------------
(***************************************************************************)
(* The demo account under automation: mirrored entries and the eToro        *)
(* reconciliation (app/broker/comparison.py, automation/                    *)
(* etoro_reconciliation.py) submit through DemoOrders; what goes wrong in   *)
(* them trips the circuit breaker (automation/service.py), whose emergency  *)
(* stop closes every position through the same idempotent client;           *)
(* automation/auto_recover.py lifts the breaker again.  The controls are    *)
(* rows of runtime_state that each operation writes one after the other.    *)
(*                                                                          *)
(*   st     the control rows           todo   a thread's writes to come     *)
(*   job    what a thread is doing, the rows or positions it has left, and  *)
(*          where it goes on after a trip                                   *)
(*   resumes  auto_recover's counter by day;  day: the date                *)
(*   lifted, tripped, crashes, commands   history: resumes by auto_recover  *)
(*          per date; the scheduler's eToro reconciliation has tripped the  *)
(*          breaker and nobody resumed since; restarts; commands            *)
(***************************************************************************)
EXTENDS DemoOrders

CONSTANTS
    Entries,        \* the keys mirror:<proposal>, one position each
    CloseOf,        \* an entry's key emergency-close:<position>
    Traders,        \* bound: the threads that execute proposals
    MaxResumes,     \* paper_auto_recover_max_resumes_per_day
    Days,           \* bound: the dates 1..Days
    MaxEvents,      \* bound: commands, requested runs, restarts and midnights together
    Operator,       \* the commands used: a subset of Commands
    Faults          \* what may fail: a subset of {"refuse", "drop", "giveup",
                    \* "alpaca", "lookup", "etoro", "mirror"}

ASSUME DemoConstants ==
    /\ Callers # {} /\ Payloads # {} /\ Traders \subseteq Callers
    /\ Entries \subseteq Keys /\ CloseOf \in [Entries -> Keys]
    /\ MaxResumes \in Nat /\ Days \in Nat \ {0} /\ MaxEvents \in Nat

VARIABLES st, todo, job, resumes, day, lifted, tripped, crashes, commands

controlVars == <<st, todo, resumes, day, lifted, tripped, crashes, commands>>
vars == <<table, flight, placed, told, call, st, todo, job, resumes, day, lifted,
          tripped, crashes, commands>>

Commands == {"pause", "kill", "resume", "clear"}
\* What the Alpaca reconciliation or a mirror found, the eToro one, and their account
\* mismatches, which auto_recover never lifts.
Causes == {"issue", "unresolved", "mismatch", "account"}
Mismatches == {"mismatch", "account"}
\* The scheduler runs in one thread, requests and Telegram in the others.
Scheduler == CHOOSE c \in Callers : TRUE

Job(task, then) == [task |-> task, left |-> {}, bad |-> FALSE, stop |-> FALSE, then |-> then,
                    count |-> 0, on |-> 1]
Idle == Job("idle", "idle")

Init ==
    /\ OrdersInit
    /\ st = [paused |-> "false", kill |-> "false", reason |-> "", circuit |-> ""]
    /\ todo = [c \in Callers |-> <<>>]
    /\ job = [c \in Callers |-> Idle]
    /\ resumes = [d \in 1..Days |-> 0]
    /\ day = 1
    /\ lifted = [d \in 1..Days |-> 0]
    /\ tripped = FALSE /\ crashes = 0 /\ commands = 0

-----------------------------------------------------------------------------
(* AutomationService: every operation is a sequence of row writes *)

pause == <<<<"paused", "true">>, <<"reason", "manual">>>>
resume(why) == <<<<"paused", "false">>, <<"kill", "false">>, <<"reason", why>>>>
enable_kill_switch(why) == <<<<"paused", "true">>, <<"kill", "true">>, <<"reason", why>>>>
trip_circuit_breaker(cause) == <<<<"circuit", cause>>>> \o enable_kill_switch("breaker")
clear_circuit_breaker == <<<<"circuit", "">>>>

scan_blockers == st.paused = "true" \/ st.kill = "true"
execution_blockers == scan_blockers \/ st.circuit # ""

Write(c) ==
    /\ todo[c] # <<>>
    /\ st' = [st EXCEPT ![Head(todo[c])[1]] = Head(todo[c])[2]]
    /\ todo' = [todo EXCEPT ![c] = Tail(@)]
    /\ tripped' = (tripped /\ Head(todo[c]) # <<"kill", "false">>)
    /\ UNCHANGED <<orderVars, job, resumes, day, lifted, crashes, commands>>

Events == commands + crashes + (day - 1)

Doing(c, task) == job[c].task = task /\ todo[c] = <<>>

\* The breaker is tripped; the emergency stop follows unless Alpaca's account is the wrong one.
Trips(c, cause, then) ==
    /\ todo' = [todo EXCEPT ![c] = trip_circuit_breaker(cause)]
    /\ job' = [job EXCEPT ![c] = [Job("trip", then) EXCEPT !.stop = cause # "mismatch"]]

Goes(c, task) ==
    /\ job' = [job EXCEPT ![c] = Job(task, "idle")]
    /\ UNCHANGED todo

-----------------------------------------------------------------------------
(* _emergency_stop: close_all_positions of the demo client *)

Open == {e \in Entries : placed[e] # <<>> /\ placed[CloseOf[e]] = <<>>}
ClosePayload == CHOOSE p \in Payloads : TRUE

EmergencyStop(c) ==
    /\ Doing(c, "trip")
    /\ job' = [job EXCEPT ![c] = IF job[c].stop THEN [@ EXCEPT !.task = "close", !.left = Open]
                                 ELSE Job(@.then, "idle")]
    /\ UNCHANGED <<orderVars, controlVars>>

CloseNext(c) ==
    /\ Doing(c, "close")
    /\ \E e \in job[c].left : Reserve(c, CloseOf[e], ClosePayload)
    /\ UNCHANGED <<controlVars, job>>

\* One failing close ends the loop; the rest of the positions stay open.
Closed(c) ==
    /\ Doing(c, "close")
    /\ job' = [job EXCEPT ![c] = IF call[c].pc = "raised" THEN Job(@.then, "idle")
                                 ELSE [@ EXCEPT !.left = {e \in job[c].left : CloseOf[e] # call[c].key}]]
    /\ Return(c)
    /\ UNCHANGED <<controlVars>>

StopDone(c) ==
    /\ Doing(c, "close")
    /\ job[c].left = {} /\ At(c, "idle")
    /\ Goes(c, job[c].then)
    /\ UNCHANGED <<orderVars, st, resumes, day, lifted, tripped, crashes, commands>>

-----------------------------------------------------------------------------
(* ParallelBrokerComparisonService.mirror *)

Mirror(c) ==
    /\ c \in Traders /\ Doing(c, "idle")
    /\ ~execution_blockers
    /\ Goes(c, "mirror")
    /\ UNCHANGED <<orderVars, st, resumes, day, lifted, tripped, crashes, commands>>

OpenOrder(c, k, p) ==
    /\ Doing(c, "mirror")
    /\ Reserve(c, k, p)
    /\ UNCHANGED <<controlVars, job>>

\* Blocked before the reservation: no demo client, or its account is not verified.
MirrorBlocked(c) ==
    /\ "mirror" \in Faults
    /\ Doing(c, "mirror") /\ At(c, "idle")
    /\ Trips(c, "issue", "idle")
    /\ UNCHANGED <<orderVars, st, resumes, day, lifted, tripped, crashes, commands>>

Mirrored(c) ==
    /\ Doing(c, "mirror")
    /\ IF call[c].pc = "raised" THEN Trips(c, "issue", "idle") ELSE Goes(c, "idle")
    /\ Return(c)
    /\ UNCHANGED <<st, resumes, day, lifted, tripped, crashes, commands>>

-----------------------------------------------------------------------------
(* The scheduler: auto_recover, then maintenance *)

\* Mutant: only the Alpaca reconciliation's own causes are recovered from.
RecoverableAlpaca ==
    /\ scan_blockers
    /\ st.reason = "breaker" /\ st.circuit = "issue"
    /\ resumes[day] < MaxResumes

Recoverable ==
    /\ scan_blockers
    /\ st.reason = "breaker" /\ st.circuit \notin Mismatches \cup {""}
    /\ resumes[day] < MaxResumes

\* Mutant: maintenance goes on while automation is stopped.
TickAlways ==
    /\ Doing(Scheduler, "idle")
    /\ Goes(Scheduler, "maintain")
    /\ UNCHANGED <<orderVars, st, resumes, day, lifted, tripped, crashes, commands>>

Tick ==
    /\ Doing(Scheduler, "idle")
    /\ ~scan_blockers
    /\ Goes(Scheduler, "maintain")
    /\ UNCHANGED <<orderVars, st, resumes, day, lifted, tripped, crashes, commands>>

\* The interval since the last probe may be over at any time.
try_auto_recover ==
    /\ Doing(Scheduler, "idle")
    /\ Recoverable
    /\ job' = [job EXCEPT ![Scheduler] = [Job("probe", "idle") EXCEPT !.count = resumes[day], !.on = day]]
    /\ UNCHANGED <<orderVars, st, todo, resumes, day, lifted, tripped, crashes, commands>>

\* A clean reconciliation clears and resumes; a failed one may trip the breaker again.
Probe(clean) ==
    /\ Doing(Scheduler, "probe")
    /\ \/ /\ clean
          /\ todo' = [todo EXCEPT ![Scheduler] = clear_circuit_breaker \o resume("recovered")]
          /\ job' = [job EXCEPT ![Scheduler].task = "clear"]
          /\ lifted' = [lifted EXCEPT ![job[Scheduler].on] = @ + 1]
       \/ /\ ~clean /\ "alpaca" \in Faults
          /\ \E cause \in {"issue", "mismatch"} : Trips(Scheduler, cause, "idle")
          /\ UNCHANGED lifted
       \/ /\ ~clean
          /\ Goes(Scheduler, "idle")
          /\ UNCHANGED lifted
    /\ UNCHANGED <<orderVars, st, resumes, day, tripped, crashes, commands>>

\* Mutant: the resume is not counted.
RecoveredUncounted ==
    /\ Doing(Scheduler, "clear")
    /\ Goes(Scheduler, IF scan_blockers THEN "idle" ELSE "maintain")
    /\ UNCHANGED <<orderVars, st, resumes, day, lifted, tripped, crashes, commands>>

Recovered ==
    /\ Doing(Scheduler, "clear")
    /\ resumes' = [resumes EXCEPT ![job[Scheduler].on] = job[Scheduler].count + 1]
    /\ Goes(Scheduler, IF scan_blockers THEN "idle" ELSE "maintain")
    /\ UNCHANGED <<orderVars, st, day, lifted, tripped, crashes, commands>>

-----------------------------------------------------------------------------
(* The two reconciliations, of the scheduler or of a request *)

\* The routes and the Telegram commands that reconcile look at no blocker: maintenance or
\* the Alpaca reconciliation, or the eToro one alone.
RequestRun(c) ==
    /\ c # Scheduler /\ Doing(c, "idle")
    /\ Events < MaxEvents /\ commands' = commands + 1
    /\ \E task \in {"maintain", "begin"} : Goes(c, task)
    /\ UNCHANGED <<orderVars, st, resumes, day, lifted, tripped, crashes>>

\* AlpacaReconciliationService.reconcile, by its verdict; the eToro one follows if due.
Reconcile(c, verdict, next) ==
    /\ Doing(c, "maintain")
    /\ verdict = "ok" \/ "alpaca" \in Faults
    /\ IF verdict = "ok" THEN Goes(c, next) ELSE Trips(c, verdict, next)
    /\ UNCHANGED <<orderVars, st, resumes, day, lifted, tripped, crashes, commands>>

\* EToroDemoReconciliationService.reconcile: every request row is looked up.
SweepBegin(c) ==
    /\ Doing(c, "begin")
    /\ job' = [job EXCEPT ![c] =
                 [Job("sweep", "idle") EXCEPT !.left = {k \in Keys : table[k].payload # None}]]
    /\ UNCHANGED <<orderVars, controlVars>>

\* A row counts as unresolved when the lookup finds no order, or fails.
SweepRow(c, k) ==
    /\ Doing(c, "sweep")
    /\ k \in job[c].left
    /\ \/ CompleteRow(k) /\ job' = [job EXCEPT ![c].left = @ \ {k}]
       \/ /\ placed[k] = <<>> \/ "lookup" \in Faults
          /\ job' = [job EXCEPT ![c].left = @ \ {k}, ![c].bad = TRUE]
          /\ UNCHANGED orderVars
    /\ UNCHANGED <<controlVars>>

\* What the sweep found wrong: an unresolved row, an unknown or unprotected position, the
\* wrong account, or an exception that ends it early.
Finds(c, verdict) ==
    \/ verdict = "unresolved" /\ job[c].left = {} /\ job[c].bad
    \/ verdict = "unresolved" /\ "etoro" \in Faults
    \/ verdict = "account" /\ job[c].left = {} /\ "etoro" \in Faults

SweepEnd(c, verdict) ==
    /\ Doing(c, "sweep")
    /\ \/ /\ verdict = "ok" /\ job[c].left = {} /\ ~job[c].bad
          /\ Goes(c, "idle") /\ UNCHANGED tripped
       \/ /\ Finds(c, verdict)
          /\ Trips(c, verdict, "idle")
          /\ tripped' = IF c = Scheduler THEN TRUE ELSE tripped
    /\ UNCHANGED <<orderVars, st, resumes, day, lifted, crashes, commands>>

-----------------------------------------------------------------------------
(* The operator, the market, time and restarts *)

\* The routes and the Telegram commands; clear follows a clean reconciliation.
Command(c, what) ==
    /\ c # Scheduler /\ Doing(c, "idle")
    /\ Events < MaxEvents /\ commands' = commands + 1
    /\ what \in Operator
    /\ todo' = [todo EXCEPT ![c] = CASE what = "pause" -> pause
                                     [] what = "kill" -> enable_kill_switch("manual")
                                     [] what = "resume" -> resume("manual")
                                     [] what = "clear" -> clear_circuit_breaker]
    /\ job' = [job EXCEPT ![c] = [Job("trip", "idle") EXCEPT !.stop = what = "kill"]]
    /\ UNCHANGED <<orderVars, st, resumes, day, lifted, tripped, crashes>>

NextDay ==
    /\ day < Days /\ Events < MaxEvents
    /\ day' = day + 1
    /\ UNCHANGED <<orderVars, st, todo, job, resumes, lifted, tripped, crashes, commands>>

\* A restart begins with both reconciliations, blocked or not (main.py startup_tasks).
Crash ==
    /\ Events < MaxEvents
    /\ crashes' = crashes + 1 /\ tripped' = FALSE
    /\ Restart
    /\ todo' = [c \in Callers |-> <<>>]
    /\ job' = [c \in Callers |-> IF c = Scheduler THEN Job("maintain", "idle") ELSE Idle]
    /\ UNCHANGED <<st, resumes, day, lifted, commands>>

\* A submission under way, and what the network does with the requests.
Call(c) ==
    /\ \/ Post(c) \/ Found(c) \/ Complete(c)
       \/ "refuse" \in Faults /\ PostRefused(c)
       \/ GiveUp(c) /\ ("giveup" \in Faults \/ call[c].pc = "lookup" \/ <<call[c].key, call[c].payload>> \notin flight)
    /\ UNCHANGED <<controlVars, job>>

Wire ==
    /\ \E k \in Keys, p \in Payloads : Arrive(k, p) \/ ("drop" \in Faults /\ Drop(k, p))
    /\ UNCHANGED <<controlVars, job>>

Thread(c) ==
    \/ Write(c) \/ EmergencyStop(c) \/ CloseNext(c) \/ Closed(c) \/ StopDone(c)
    \/ Mirrored(c) \/ MirrorBlocked(c)
    \/ (\E k \in Entries, p \in Payloads : OpenOrder(c, k, p))
    \/ (\E verdict \in {"ok", "issue", "mismatch"}, next \in {"begin", "idle"} :
           Reconcile(c, verdict, next))
    \/ SweepBegin(c) \/ (\E k \in Keys : SweepRow(c, k))
    \/ (\E verdict \in {"ok", "unresolved", "account"} : SweepEnd(c, verdict))

Schedule == Tick \/ try_auto_recover \/ Probe(FALSE) \/ Probe(TRUE) \/ Recovered

Next ==
    \/ Schedule \/ Wire
    \/ \E c \in Callers : Call(c) \/ Thread(c) \/ Mirror(c) \/ RequestRun(c) \/ \E what \in Commands : Command(c, what)
    \/ NextDay \/ Crash

Spec == Init /\ [][Next]_vars

\* Threads go on, answers arrive or time out; a reconciliation that is tried again and again is
\* clean some time.
LiveSpec ==
    /\ Spec
    /\ WF_vars(Schedule \/ Thread(Scheduler) \/ Call(Scheduler))
    /\ \A c \in Callers \ {Scheduler} : WF_vars(Thread(c) \/ Call(c))
    /\ WF_vars(Wire)
    /\ SF_vars(Probe(TRUE))

-----------------------------------------------------------------------------
(* Properties *)

\* The control rows, auto_recover's counters and what the threads have left keep their types.
TypeOK ==
    /\ OrdersTypeOK
    /\ st \in [paused: {"true", "false"}, kill: {"true", "false"},
               reason: {"", "manual", "breaker", "recovered"}, circuit: Causes \cup {""}]
    /\ resumes \in [1..Days -> 0..MaxResumes] /\ day \in 1..Days
    /\ \A c \in Callers : job[c].left \subseteq Keys

\* auto_recover lifts the breaker at most paper_auto_recover_max_resumes_per_day times for one
\* date, restarts between the resume and its count aside.
ResumesBounded == \A d \in 1..Days : lifted[d] <= MaxResumes + crashes

\* A request that stays unresolved makes every eToro reconciliation trip the breaker and close
\* the account; the scheduler does not reconcile while it is stopped, so between two such
\* trips of its own somebody has resumed automation or restarted the program, whatever
\* requests, probes and other threads' trips write in the meantime.  A reconciliation that a
\* request asks for looks at no blocker and trips again (README, section 5).
TripsOnce == Doing(Scheduler, "sweep") /\ (\E v \in Causes : Finds(Scheduler, v)) => ~tripped

\* The breaker lets go: scheduling that only a recoverable breaker blocks comes back, an
\* operator takes over, or the day's resumes are used up.
Sick == scan_blockers /\ st.reason = "breaker" /\ st.circuit \in {"issue", "unresolved"}
BreakerHeals == Sick ~> ~Sick \/ resumes[day] >= MaxResumes
=============================================================================
