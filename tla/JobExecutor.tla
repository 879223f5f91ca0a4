----------------------------- MODULE JobExecutor -----------------------------
(***************************************************************************)
(* JobWorker with the instance scheduler of job-scheduler.ts: the timer,   *)
(* the queries it awaits, and what each continuation does with an answer   *)
(* that may be old by then.  A holder is one such chain of awaits.         *)
(*                                                                         *)
(* Time is relative: wait[j] is what remains until the row's scheduledAt   *)
(* (0 = due), and every remaining time goes down with Tick.  What is lost  *)
(* is only by how long a due row is overdue.                               *)
(***************************************************************************)
EXTENDS JobWorker, FiniteSetsExt

CONSTANTS
  MaxWait,     \* bound: the furthest scheduledAt a caller asks for
  MaxTimer,    \* MAX_TIMER_DURATION_MS
  BackoffBase, \* RETRY_BACKOFF_BASE_MS
  BackoffMax,  \* RETRY_BACKOFF_MAX_MS
  PageSize,    \* rows per findPendingJobs
  Rearmers     \* bound: the holders that job:rescheduled events run in

ASSUME TimeAssumption ==
  /\ MaxWait \in Nat \ {0}
  /\ MaxTimer \in 1..MaxWait
  /\ BackoffBase \in 1..MaxWait /\ BackoffMax \in 1..MaxWait
  /\ PageSize \in Nat \ {0}
  /\ Rearmers \subseteq Holders /\ Rearmers # Holders

VARIABLES
  wait,      \* per row, time until scheduledAt
  heldWait,  \* per holder and job, the same for the snapshots it holds
  pc,        \* per holder, where its chain of awaits stands
  target,    \* per holder, the time it is going to arm the timer for
  timer,     \* this.timer of the scheduler: time left, or None
  stray,     \* timers that still run but are no longer referenced
  unawaited  \* history: rows for which a chain ended without a timer

schedVars == <<wait, heldWait, pc, target, timer, stray, unawaited>>
evars == <<vars, schedVars>>

\* The other chains.  They wait for room in the queue (MaxQueue), rearmers
\* never do: the worker's retries cannot wait for a chain that waits for it.
Loaders == Holders \ Rearmers

None == -1
Delays == 0..MaxWait

Pending == {j \in Jobs : row[j].status = "PENDING"}

\* findNextScheduledJob: the earliest PENDING row, due or not.
Mut_EarliestPending ==   \* only rows that lie ahead
  IF \A j \in Pending : wait[j] = 0 THEN None ELSE Min({wait[j] : j \in Pending} \ {0})
EarliestPending == IF Pending = {} THEN None ELSE Min({wait[j] : j \in Pending})

\* findPendingJobs: the first rows by scheduledAt; rows that are due tie.
Pages ==
  {P \in SUBSET Pending :
     /\ Cardinality(P) = Min({PageSize, Cardinality(Pending)})
     /\ \A j \in P, k \in Pending \ P : wait[j] <= wait[k]}

Backoff(attemptsMade) == Min({BackoffBase * 2^(attemptsMade - 1), BackoffMax})

DueOf(h) == {sn \in held[h] : heldWait[h][sn.job] = 0}
FutureOf(h) == {heldWait[h][sn.job] : sn \in held[h]} \ {0}

NoWaits == [j \in Jobs |-> 0]
EnterPc(h, p) == pc' = [pc EXCEPT ![h] = p]

\* setTimeout into this.timer without clearing what it referred to.
ArmOver(t) ==
  /\ stray' = IF timer = None THEN stray ELSE stray \cup {timer}
  /\ timer' = t

-----------------------------------------------------------------------------
EInit ==
  /\ Init
  /\ wait = NoWaits
  /\ heldWait = [h \in Holders |-> NoWaits]
  /\ target = [h \in Holders |-> None]
  /\ timer = None /\ stray = {} /\ unawaited = {}
  /\ \E boot \in Loaders :
       pc = [h \in Holders |-> IF h = boot THEN "load" ELSE "idle"]  \* start()

-----------------------------------------------------------------------------
(* Creation: the service inserts the row, then enqueue emits job:created.  *)

CreateInstance(h, j, delay) ==
  /\ pc[h] = "idle"
  /\ Insert(h, j)
  /\ wait' = [wait EXCEPT ![j] = delay]
  /\ heldWait' = [heldWait EXCEPT ![h] = [NoWaits EXCEPT ![j] = delay]]
  /\ EnterPc(h, "created")
  /\ UNCHANGED <<target, timer, stray, unawaited>>

Mut_OnJobCreated(h) ==   \* the listener is registered twice
  /\ pc[h] = "created"
  /\ \E batch \in Orders(held[h]) :
       /\ {batch[i] : i \in DOMAIN batch} = DueOf(h)
       /\ Release(h, batch \o batch)
  /\ heldWait' = [heldWait EXCEPT ![h] = NoWaits]
  /\ EnterPc(h, "resched")
  /\ UNCHANGED <<wait, target, timer, stray, unawaited>>

OnJobCreated(h) ==
  /\ pc[h] = "created"
  /\ \E batch \in Orders(held[h]) :
       /\ {batch[i] : i \in DOMAIN batch} = DueOf(h)
       /\ Release(h, batch)
  /\ heldWait' = [heldWait EXCEPT ![h] = NoWaits]
  /\ EnterPc(h, "resched")
  /\ UNCHANGED <<wait, target, timer, stray, unawaited>>

-----------------------------------------------------------------------------
(* rescheduleIfNeeded and scheduleNext: a query, then the timer.           *)

ReadNextScheduled(h) ==
  /\ up /\ pc[h] \in {"resched", "next"}
  /\ target' = [target EXCEPT ![h] = EarliestPending]
  /\ EnterPc(h, IF pc[h] = "next" THEN "nextRead" ELSE "reschedRead")
  /\ UNCHANGED <<vars, wait, heldWait, timer, stray, unawaited>>

\* Arms for the row that was read when that lies ahead, by no more than 24h;
\* otherwise the timer stays as it is.
RescheduleIfNeeded(h) ==
  /\ pc[h] = "reschedRead"
  /\ timer' = IF target[h] > 0 /\ target[h] <= MaxTimer THEN target[h] ELSE timer
  /\ unawaited' = IF target[h] = None \/ timer' = target[h] THEN unawaited ELSE unawaited \cup Pending
  /\ target' = [target EXCEPT ![h] = None]
  /\ EnterPc(h, "idle")
  /\ UNCHANGED <<vars, wait, heldWait, stray>>

ScheduleNextArms(h) ==
  /\ pc[h] = "nextRead" /\ target[h] > 0
  /\ ArmOver(Min({target[h], MaxTimer}))
  /\ target' = [target EXCEPT ![h] = None]
  /\ EnterPc(h, "idle")
  /\ UNCHANGED <<vars, wait, heldWait, unawaited>>

\* The earliest row is due (it may be in the queue already): load again.
ScheduleNextLoads(h) ==
  /\ pc[h] = "nextRead" /\ target[h] = 0
  /\ target' = [target EXCEPT ![h] = None]
  /\ EnterPc(h, "load")
  /\ UNCHANGED <<vars, wait, heldWait, timer, stray, unawaited>>

ScheduleNextFindsNone(h) ==
  /\ pc[h] = "nextRead" /\ target[h] = None
  /\ EnterPc(h, "idle")
  /\ UNCHANGED <<vars, wait, heldWait, target, timer, stray, unawaited>>

-----------------------------------------------------------------------------
(* loadExpiredJobs                                                         *)

ReadPage(h) ==
  /\ pc[h] = "load"
  /\ \E page \in Pages :
       /\ Fetch(h, page)
       /\ heldWait' = [heldWait EXCEPT ![h] = [j \in Jobs |-> IF j \in page THEN wait[j] ELSE 0]]
  /\ EnterPc(h, "loaded")
  /\ UNCHANGED <<wait, target, timer, stray, unawaited>>

\* The loop body over one page: what is due goes to the queue, the first row
\* that is not gives nextTimer.  A full page is followed by the same query;
\* else the timer is set for nextTimer, or scheduleNext clears it and asks.
EnqueueDue(h) ==
  /\ pc[h] = "loaded"
  /\ \E batch \in Orders(held[h]) :
       /\ {batch[i] : i \in DOMAIN batch} = DueOf(h)
       /\ Release(h, batch)
  /\ heldWait' = [heldWait EXCEPT ![h] = NoWaits]
  /\ LET nextTimer == IF target[h] = None /\ FutureOf(h) # {} THEN Min(FutureOf(h)) ELSE target[h]
         fullPage  == Cardinality(held[h]) = PageSize
     IN  \/ /\ fullPage
            /\ target' = [target EXCEPT ![h] = nextTimer]
            /\ EnterPc(h, "load")
            /\ UNCHANGED <<timer, unawaited>>
         \/ /\ ~fullPage /\ nextTimer # None                  \* setTimer
            /\ timer' = IF nextTimer > 0 THEN nextTimer ELSE None
            /\ unawaited' = IF nextTimer > 0 THEN unawaited ELSE unawaited \cup Pending
            /\ target' = [target EXCEPT ![h] = None]
            /\ EnterPc(h, "idle")
         \/ /\ ~fullPage /\ nextTimer = None                  \* scheduleNext
            /\ timer' = None
            /\ EnterPc(h, "next")
            /\ UNCHANGED <<target, unawaited>>
  /\ UNCHANGED <<wait, stray>>

\* A query of the scheduler fails: the chain of awaits ends there.
ReadError(h) ==
  /\ pc[h] \in {"load", "next", "resched"}
  /\ FetchError(h)
  /\ target' = [target EXCEPT ![h] = None]
  /\ unawaited' = unawaited \cup Pending
  /\ EnterPc(h, "idle")
  /\ UNCHANGED <<wait, heldWait, timer, stray>>

TimerFires(h) ==
  /\ up /\ timer = 0 /\ pc[h] = "idle"
  /\ timer' = None
  /\ EnterPc(h, "load")
  /\ UNCHANGED <<vars, wait, heldWait, target, stray, unawaited>>

StrayTimerFires(h) ==
  /\ up /\ 0 \in stray /\ pc[h] = "idle"
  /\ stray' = stray \ {0}
  /\ EnterPc(h, "load")
  /\ UNCHANGED <<vars, wait, heldWait, target, timer, unawaited>>

-----------------------------------------------------------------------------
(* The worker's steps; a retry sets scheduledAt and emits job:rescheduled. *)

RetryAndReschedule(s, h) ==
  /\ pc[h] = "idle"
  /\ Retry(s)
  /\ wait' = [wait EXCEPT ![slot[s].snap.job] = Backoff(slot[s].snap.attempts + 1)]
  /\ EnterPc(h, "resched")
  /\ UNCHANGED <<heldWait, target, timer, stray, unawaited>>

WorkerStep(s) ==
  /\ \/ Start(s) \/ Mark(s) \/ MarkGone(s) \/ MarkError(s)
     \/ Return(s) \/ Throw(s) \/ Timeout(s)
     \/ Complete(s) \/ CompleteGone(s) \/ CompleteError(s)
     \/ Fail(s) \/ CaughtGone(s) \/ CaughtError(s)
  /\ UNCHANGED schedVars

ServiceStep ==
  /\ \/ \E j \in Jobs : CancelRead(j) \/ CancelDelete(j)
     \/ \E old \in SUBSET Jobs : Sweep(old)
  /\ UNCHANGED schedVars

CrashAll ==
  /\ Crash
  /\ heldWait' = [h \in Holders |-> NoWaits]
  /\ pc' = [h \in Holders |-> "idle"]
  /\ target' = [h \in Holders |-> None]
  /\ timer' = None /\ stray' = {} /\ unawaited' = {}
  /\ UNCHANGED wait

RestartAll(h) ==
  /\ Restart
  /\ EnterPc(h, "load")
  /\ UNCHANGED <<wait, heldWait, target, timer, stray, unawaited>>

\* One unit of time passes.
Sooner(t) == IF t > 0 THEN t - 1 ELSE t
Tick ==
  /\ wait' = [j \in Jobs |-> Sooner(wait[j])]
  /\ heldWait' = [h \in Holders |-> [j \in Jobs |-> Sooner(heldWait[h][j])]]
  /\ target' = [h \in Holders |-> Sooner(target[h])]
  /\ timer' = Sooner(timer)
  /\ stray' = {Sooner(t) : t \in stray}
  /\ UNCHANGED <<vars, pc, unawaited>>

SchedulerStep(h) ==
  \/ OnJobCreated(h) \/ ReadNextScheduled(h) \/ RescheduleIfNeeded(h)
  \/ ScheduleNextArms(h) \/ ScheduleNextLoads(h) \/ ScheduleNextFindsNone(h)
  \/ ReadPage(h) \/ EnqueueDue(h)

ENext ==
  \/ \E h \in Loaders, j \in Jobs, delay \in Delays : CreateInstance(h, j, delay)
  \/ \E h \in Holders : SchedulerStep(h) \/ ReadError(h)
  \/ \E h \in Loaders : TimerFires(h) \/ StrayTimerFires(h) \/ RestartAll(h)
  \/ \E s \in Slots, h \in Rearmers : RetryAndReschedule(s, h)
  \/ \E s \in Slots : WorkerStep(s)
  \/ ServiceStep
  \/ CrashAll
  \/ Tick

ESpec == EInit /\ [][ENext]_evars

-----------------------------------------------------------------------------
\* No row is forgotten, however loads, announcements and retries overlap on
\* the one timer (scheduleNext and setTimer clear what another chain armed):
\* while no chain is under way, a PENDING row waits in the queue, or a timer
\* runs, which will load it (late, perhaps).  The exception: a chain ended
\* with the row PENDING and no timer, because a query failed, or because
\* rescheduleIfNeeded, which arms for the earliest row only, found that one
\* due or more than MaxTimer away (job-scheduler.ts:95), or because setTimer
\* came when its date had passed (line 109).
NobodyForgotten ==
  up /\ (\A h \in Holders : pc[h] = "idle")
    => \A j \in Pending \ unawaited :
         \/ \E i \in DOMAIN queue : queue[i].job = j
         \/ \E s \in Slots : Busy(s) /\ slot[s].snap.job = j
         \/ timer # None \/ stray # {}

\* "no duplicate execution occurs today" (ISSUES.md:180-181): at most one
\* processJob call per row.
NoDuplicateExecution ==
  \A s, t \in Slots :
    Busy(s) /\ Busy(t) /\ slot[s].snap.job = slot[t].snap.job => s = t
=============================================================================
