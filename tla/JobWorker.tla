------------------------------ MODULE JobWorker ------------------------------
(***************************************************************************)
(* The life of a JobInstance row under the in-process queue: the rows the  *)
(* repository writes, the FIFO p-queue of row snapshots, the processJob    *)
(* calls that p-queue runs, the service calls that insert and cancel rows, *)
(* the sweep of old rows, and a crash of the process.                      *)
(*                                                                         *)
(* WHEN a row is put in the queue is the scheduler's business.  Here it is *)
(* left open: a continuation ("holder") that has read rows may enqueue any *)
(* of them, later, whatever became of the rows meanwhile.  JobExecutor     *)
(* replaces this freedom by the timers of job-scheduler.ts.                *)
(***************************************************************************)
EXTENDS Integers, Sequences, FiniteSets

CONSTANTS
  Jobs,         \* ids of job instances; an id is used for one row only
  Slots,        \* the concurrency of the p-queue
  Holders,      \* continuations that hold rows read before an await
  MaxAttempts,  \* maxAttempts of every row
  AttemptCap,   \* bound: attempts saturates here (no guard looks beyond)
  MaxQueue,     \* bound: length of the queue
  MaxCrashes,   \* bound: crashes of the process
  MaxErrors     \* bound: transient database errors

ASSUME BoundsAssumption ==
  /\ MaxAttempts \in Nat \ {0}
  /\ AttemptCap \in Nat /\ AttemptCap >= MaxAttempts
  /\ MaxQueue \in Nat /\ MaxCrashes \in Nat /\ MaxErrors \in Nat

VARIABLES
  row,         \* table job_instance: status and attempts per id
  held,        \* per holder, the snapshots it read and has not yet enqueued
  queue,       \* p-queue: snapshots waiting for a slot, first in first out
  slot,        \* per slot, the processJob call it runs
  cancelling,  \* ids read as PENDING by a cancelInstance that still awaits
  up,          \* the process runs
  crashes, errors,
  starts,      \* history: PROCESSING marks per row (saturating)
  abandoned    \* history: rows whose last owner was cut off by a failure

stats == <<crashes, errors>>
vars == <<row, held, queue, slot, cancelling, up, stats, starts, abandoned>>

Statuses == {"absent", "PENDING", "PROCESSING", "COMPLETED", "FAILED", "deleted"}
Row == [status: Statuses, attempts: 0..AttemptCap]
Snapshot == [job: Jobs, attempts: 0..AttemptCap]
Idle == [pc |-> "idle"]
Run == [pc: {"mark", "handler", "complete", "caught"}, snap: Snapshot]

Exists(j) == row[j].status \notin {"absent", "deleted"}
Terminal(j) == row[j].status \in {"COMPLETED", "FAILED"}
SnapshotOf(j) == [job |-> j, attempts |-> row[j].attempts]
Busy(s) == slot[s] # Idle
\* A call that has marked its row PROCESSING and not yet written an outcome.
Owns(s, j) == Busy(s) /\ slot[s].pc # "mark" /\ slot[s].snap.job = j

\* attempts: job.attempts + 1
Increment(n) == IF n < AttemptCap THEN n + 1 ELSE AttemptCap

\* prisma.jobInstance.update of an existing row
SetStatus(j, status) == row' = [row EXCEPT ![j].status = status]

Free(s) == slot' = [slot EXCEPT ![s] = Idle]
Goto(s, pc) == slot' = [slot EXCEPT ![s].pc = pc]

TransientError == errors < MaxErrors /\ errors' = errors + 1 /\ UNCHANGED crashes

-----------------------------------------------------------------------------
Init ==
  /\ row = [j \in Jobs |-> [status |-> "absent", attempts |-> 0]]
  /\ held = [h \in Holders |-> {}]
  /\ queue = <<>>
  /\ slot = [s \in Slots |-> Idle]
  /\ cancelling = {}
  /\ up = TRUE
  /\ crashes = 0 /\ errors = 0
  /\ starts = [j \in Jobs |-> 0]
  /\ abandoned = {}

-----------------------------------------------------------------------------
(* Rows and the queue                                                      *)

\* create() commits; the caller's continuation holds the returned row until
\* it enqueues it.
Insert(h, j) ==
  /\ up /\ held[h] = {} /\ row[j].status = "absent"
  /\ row' = [row EXCEPT ![j] = [status |-> "PENDING", attempts |-> 0]]
  /\ held' = [held EXCEPT ![h] = {[job |-> j, attempts |-> 0]}]
  /\ UNCHANGED <<queue, slot, cancelling, up, stats, starts, abandoned>>

\* A query for PENDING rows returns the page `jobs`.
Fetch(h, jobs) ==
  /\ up /\ held[h] = {}
  /\ \A j \in jobs : row[j].status = "PENDING"
  /\ held' = [held EXCEPT ![h] = {SnapshotOf(j) : j \in jobs}]
  /\ UNCHANGED <<row, queue, slot, cancelling, up, stats, starts, abandoned>>

\* A query fails: its continuation does not run.
FetchError(h) ==
  /\ up /\ held[h] = {}
  /\ TransientError
  /\ UNCHANGED <<row, held, queue, slot, cancelling, up, starts, abandoned>>

\* The continuation runs: the snapshots of `batch`, some of those held, are
\* added to the queue in one turn; the others are forgotten.
Release(h, batch) ==
  /\ up
  /\ batch \in Seq(held[h])
  /\ Len(queue) + Len(batch) <= MaxQueue
  /\ queue' = queue \o batch
  /\ held' = [held EXCEPT ![h] = {}]
  /\ UNCHANGED <<row, slot, cancelling, up, stats, starts, abandoned>>

\* p-queue takes the next entry as soon as a slot is free.
Start(s) ==
  /\ up /\ ~Busy(s) /\ queue # <<>>
  /\ slot' = [slot EXCEPT ![s] = [pc |-> "mark", snap |-> Head(queue)]]
  /\ queue' = Tail(queue)
  /\ UNCHANGED <<row, held, cancelling, up, stats, starts, abandoned>>

-----------------------------------------------------------------------------
(* processJob                                                              *)

\* The first update: PROCESSING, attempts from the SNAPSHOT.  Nothing looks
\* at the row's current status.
Mark(s) ==
  /\ Busy(s) /\ slot[s].pc = "mark"
  /\ LET j == slot[s].snap.job
     IN  /\ Exists(j)
         /\ row' = [row EXCEPT ![j] =
              [status |-> "PROCESSING", attempts |-> Increment(slot[s].snap.attempts)]]
         /\ starts' = [starts EXCEPT ![j] = Increment(@)]
         /\ abandoned' = abandoned \ {j}
  /\ Goto(s, "handler")
  /\ UNCHANGED <<held, queue, cancelling, up, stats>>

\* update() throws when the row is gone: outside the try, the call rejects.
MarkGone(s) ==
  /\ Busy(s) /\ slot[s].pc = "mark"
  /\ ~Exists(slot[s].snap.job)
  /\ Free(s)
  /\ UNCHANGED <<row, held, queue, cancelling, up, stats, starts, abandoned>>

\* ... or when the database fails.
MarkError(s) ==
  /\ Busy(s) /\ slot[s].pc = "mark"
  /\ TransientError
  /\ Free(s)
  /\ UNCHANGED <<row, held, queue, cancelling, up, starts, abandoned>>

\* Promise.race: the handler resolves first ...
Return(s) ==
  /\ Busy(s) /\ slot[s].pc = "handler"
  /\ Goto(s, "complete")
  /\ UNCHANGED <<row, held, queue, cancelling, up, stats, starts, abandoned>>

\* ... or throws (or no handler is registered) ...
Throw(s) ==
  /\ Busy(s) /\ slot[s].pc = "handler"
  /\ Goto(s, "caught")
  /\ UNCHANGED <<row, held, queue, cancelling, up, stats, starts, abandoned>>

Mut_Timeout(s) == FALSE   \* the handler is awaited without a timeout

\* ... or the timer of timeoutMs rejects; the handler itself is not stopped.
Timeout(s) ==
  /\ Busy(s) /\ slot[s].pc = "handler"
  /\ Goto(s, "caught")
  /\ UNCHANGED <<row, held, queue, cancelling, up, stats, starts, abandoned>>

Complete(s) ==
  /\ Busy(s) /\ slot[s].pc = "complete"
  /\ Exists(slot[s].snap.job)
  /\ SetStatus(slot[s].snap.job, "COMPLETED")
  /\ Free(s)
  /\ UNCHANGED <<held, queue, cancelling, up, stats, starts, abandoned>>

\* The COMPLETED update is inside the try: its failure is handled like the
\* handler's.
CompleteGone(s) ==
  /\ Busy(s) /\ slot[s].pc = "complete"
  /\ ~Exists(slot[s].snap.job)
  /\ Goto(s, "caught")
  /\ UNCHANGED <<row, held, queue, cancelling, up, stats, starts, abandoned>>

Mut_CompleteError(s) ==   \* the error is swallowed, no outcome is written
  /\ Busy(s) /\ slot[s].pc = "complete"
  /\ TransientError
  /\ Free(s)
  /\ UNCHANGED <<row, held, queue, cancelling, up, starts, abandoned>>

CompleteError(s) ==
  /\ Busy(s) /\ slot[s].pc = "complete"
  /\ TransientError
  /\ Goto(s, "caught")
  /\ UNCHANGED <<row, held, queue, cancelling, up, starts, abandoned>>

Mut_LastAttempt(s) == slot[s].snap.attempts + 2 >= MaxAttempts   \* counts one twice
LastAttempt(s) == slot[s].snap.attempts + 1 >= MaxAttempts

Fail(s) ==
  /\ Busy(s) /\ slot[s].pc = "caught" /\ LastAttempt(s)
  /\ Exists(slot[s].snap.job)
  /\ SetStatus(slot[s].snap.job, "FAILED")
  /\ Free(s)
  /\ UNCHANGED <<held, queue, cancelling, up, stats, starts, abandoned>>

\* Back to PENDING after a backoff; attempts stays what the row has.
Retry(s) ==
  /\ Busy(s) /\ slot[s].pc = "caught" /\ ~LastAttempt(s)
  /\ Exists(slot[s].snap.job)
  /\ SetStatus(slot[s].snap.job, "PENDING")
  /\ Free(s)
  /\ UNCHANGED <<held, queue, cancelling, up, stats, starts, abandoned>>

CaughtGone(s) ==
  /\ Busy(s) /\ slot[s].pc = "caught"
  /\ ~Exists(slot[s].snap.job)
  /\ Free(s)
  /\ UNCHANGED <<row, held, queue, cancelling, up, stats, starts, abandoned>>

\* The update of the catch block fails: the call rejects, the row stays as
\* it is.
CaughtError(s) ==
  /\ Busy(s) /\ slot[s].pc = "caught"
  /\ TransientError
  /\ Free(s)
  /\ abandoned' = abandoned \cup {slot[s].snap.job}
  /\ UNCHANGED <<row, held, queue, cancelling, up, starts>>

-----------------------------------------------------------------------------
(* Cancel, sweep, crash                                                    *)

\* cancelInstance reads the row and checks its status ...
CancelRead(j) ==
  /\ up /\ row[j].status = "PENDING"
  /\ cancelling' = cancelling \cup {j}
  /\ UNCHANGED <<row, held, queue, slot, up, stats, starts, abandoned>>

Mut_CancelDelete(j) ==   \* sets a status the enum does not have
  /\ j \in cancelling
  /\ cancelling' = cancelling \ {j}
  /\ SetStatus(j, "CANCELLED")
  /\ UNCHANGED <<held, queue, slot, up, stats, starts, abandoned>>

\* ... then deletes it by id (which throws when it is already gone).
CancelDelete(j) ==
  /\ j \in cancelling
  /\ cancelling' = cancelling \ {j}
  /\ IF Exists(j) THEN SetStatus(j, "deleted") ELSE UNCHANGED row
  /\ UNCHANGED <<held, queue, slot, up, stats, starts, abandoned>>

\* deleteMany of the terminal rows that are older than the cutoff.
Sweep(old) ==
  /\ up /\ old # {}
  /\ \A j \in old : Terminal(j)
  /\ row' = [j \in Jobs |-> IF j \in old THEN [row[j] EXCEPT !.status = "deleted"]
                                         ELSE row[j]]
  /\ UNCHANGED <<held, queue, slot, cancelling, up, stats, starts, abandoned>>

\* Everything in memory is lost; rows stay.
Crash ==
  /\ up /\ crashes < MaxCrashes
  /\ crashes' = crashes + 1
  /\ up' = FALSE
  /\ held' = [h \in Holders |-> {}]
  /\ queue' = <<>>
  /\ slot' = [s \in Slots |-> Idle]
  /\ cancelling' = {}
  /\ abandoned' = abandoned \cup {j \in Jobs : row[j].status = "PROCESSING"}
  /\ UNCHANGED <<row, errors, starts>>

Restart ==
  /\ ~up
  /\ up' = TRUE
  /\ UNCHANGED <<row, held, queue, slot, cancelling, stats, starts, abandoned>>

-----------------------------------------------------------------------------
\* The orders in which distinct elements of S can be added.
Orders(S) == UNION {{f \in [1..Cardinality(B) -> B] :
                       \A a, b \in 1..Cardinality(B) : f[a] = f[b] => a = b} : B \in SUBSET S}

ProcessJob(s) ==
  \/ Mark(s) \/ MarkGone(s) \/ MarkError(s)
  \/ Return(s) \/ Throw(s) \/ Timeout(s)
  \/ Complete(s) \/ CompleteGone(s) \/ CompleteError(s)
  \/ Fail(s) \/ Retry(s) \/ CaughtGone(s) \/ CaughtError(s)

Next ==
  \/ \E h \in Holders, j \in Jobs : Insert(h, j)
  \/ \E h \in Holders, jobs \in SUBSET Jobs : Fetch(h, jobs)
  \/ \E h \in Holders : FetchError(h)
  \/ \E h \in Holders : \E batch \in Orders(held[h]) : Release(h, batch)
  \/ \E s \in Slots : Start(s) \/ ProcessJob(s)
  \/ \E j \in Jobs : CancelRead(j) \/ CancelDelete(j)
  \/ \E old \in SUBSET Jobs : Sweep(old)
  \/ Crash
  \/ Restart

Spec == Init /\ [][Next]_vars

(* p-queue starts work whenever it can, setTimeout fires, queries return.  *)
(* Nothing is assumed of a handler: it may never settle.                   *)
SlotFairness(s) ==
  /\ WF_vars(Start(s))
  /\ WF_vars(Mark(s) \/ MarkGone(s))
  /\ WF_vars(Timeout(s))
  /\ WF_vars(Complete(s) \/ CompleteGone(s))
  /\ WF_vars(Fail(s) \/ Retry(s) \/ CaughtGone(s))
Fairness == \A s \in Slots : SlotFairness(s)

FairSpec == Spec /\ Fairness

-----------------------------------------------------------------------------
TypeOK ==
  /\ row \in [Jobs -> Row]
  /\ held \in [Holders -> SUBSET Snapshot]
  /\ queue \in Seq(Snapshot)
  /\ slot \in [Slots -> {Idle} \cup Run]
  /\ cancelling \subseteq Jobs
  /\ up \in BOOLEAN
  /\ crashes \in Nat /\ errors \in Nat
  /\ starts \in [Jobs -> 0..AttemptCap]
  /\ abandoned \subseteq Jobs

\* A row is given up (FAILED, job-worker.ts:48-53) only after it was started
\* maxAttempts times, although each call decides from the attempts of its own
\* snapshot, the same snapshot may be queued twice, and a stale call may write
\* a smaller attempts over a larger one.
NeverGivenUpEarly ==
  \A j \in Jobs : row[j].status = "FAILED" => starts[j] >= MaxAttempts

\* A PROCESSING row has a processJob call behind it that has yet to write its
\* outcome, unless a crash or a failed update cut the last one off: several
\* calls for one row, cancellations and sweeps cannot leave it PROCESSING.
ProcessingIsOwned ==
  \A j \in Jobs :
    row[j].status = "PROCESSING" => j \in abandoned \/ \E s \in Slots : Owns(s, j)

\* The queue moves: handlers that never settle cannot hold the slots beyond
\* their timeout (job-worker.ts:32-36), nor can cancelled rows or failed
\* updates, so a queue that has filled up gets shorter again.
QueueMoves == Len(queue) = MaxQueue ~> Len(queue) < MaxQueue
=============================================================================
