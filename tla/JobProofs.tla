------------------------------- MODULE JobProofs -------------------------------
(***************************************************************************)
(* Safety of JobWorker for any jobs, slots, holders and bounds; and that   *)
(* JobExecutor implements it, so that it is safe as well.                  *)
(*                                                                         *)
(* NeverGivenUpEarly is not inductive: Fail looks only at the snapshot the *)
(* call was started with.  It is strengthened by the fact that no copy of  *)
(* attempts, in a row or in a snapshot however old, runs ahead of the      *)
(* number of times the row was started, and that a call which has marked   *)
(* its row is counted in that number.                                      *)
(***************************************************************************)
EXTENDS JobExecutor, TLAPS

\* Every copy of attempts is at most the number of starts of its row.
CopiesLag ==
  /\ \A j \in Jobs : row[j].attempts <= starts[j]
  /\ \A h \in Holders : \A sn \in held[h] : sn.attempts <= starts[sn.job]
  /\ \A i \in 1..Len(queue) : queue[i].attempts <= starts[queue[i].job]
  /\ \A s \in Slots : Busy(s) => slot[s].snap.attempts <= starts[slot[s].snap.job]

\* A call past its mark is one of the starts of its row.
MarkIsCounted ==
  \A s \in Slots :
    Busy(s) /\ slot[s].pc # "mark"
      => Increment(slot[s].snap.attempts) <= starts[slot[s].snap.job]

AttemptsInv == CopiesLag /\ MarkIsCounted /\ NeverGivenUpEarly
-----------------------------------------------------------------------------
(* Helpers                                                                 *)

\* attempts + 1, saturating: in range, at least its argument, monotone.
LEMMA IncrementFacts ==
  ASSUME NEW m \in 0..AttemptCap, NEW n \in 0..AttemptCap, m <= n
  PROVE  /\ Increment(m) \in 0..AttemptCap
         /\ m <= Increment(m)
         /\ Increment(m) <= Increment(n)
BY BoundsAssumption DEF Increment

\* A call moved to another of its points stays a call with its snapshot.
LEMMA GotoFacts ==
  ASSUME TypeOK, NEW s \in Slots, Busy(s),
         NEW p \in {"handler", "complete", "caught"}, Goto(s, p)
  PROVE  /\ slot' \in [Slots -> {Idle} \cup Run]
         /\ slot'[s] \in Run /\ slot'[s].pc = p /\ slot'[s].snap = slot[s].snap
         /\ \A t \in Slots : t # s => slot'[t] = slot[t]
<1>1. slot[s] \in Run
  BY DEF TypeOK, Busy
<1>2. slot'[s] = [slot[s] EXCEPT !.pc = p]
  BY DEF TypeOK, Goto
<1>3. slot'[s] \in Run /\ slot'[s].pc = p /\ slot'[s].snap = slot[s].snap
  BY <1>1, <1>2 DEF Run
<1> QED
  BY <1>3 DEF TypeOK, Goto

\* The parts of the type invariant that a busy slot gives.
LEMMA BusyFacts ==
  ASSUME TypeOK, NEW s \in Slots, Busy(s)
  PROVE  /\ slot[s] \in Run
         /\ slot[s].snap \in Snapshot
         /\ slot[s].snap.job \in Jobs
         /\ slot[s].snap.attempts \in 0..AttemptCap
BY DEF TypeOK, Busy, Run, Snapshot

LEMMA SetStatusType ==
  ASSUME TypeOK, NEW j \in Jobs, NEW st \in Statuses, SetStatus(j, st)
  PROVE  row' \in [Jobs -> Row]
BY DEF TypeOK, SetStatus, Row

LEMMA FreeType ==
  ASSUME TypeOK, NEW s \in Slots, Free(s)
  PROVE  slot' \in [Slots -> {Idle} \cup Run]
BY DEF TypeOK, Free

-----------------------------------------------------------------------------
(* Types                                                                   *)

LEMMA TypeInit == Init => TypeOK
BY BoundsAssumption
   DEF Init, TypeOK, Row, Statuses, Snapshot, Run, Idle

LEMMA TypeStep == TypeOK /\ [Next]_vars => TypeOK'
<1> SUFFICES ASSUME TypeOK, [Next]_vars PROVE TypeOK'
  OBVIOUS
<1> USE DEF stats
<1>1. ASSUME NEW h \in Holders, NEW j \in Jobs, Insert(h, j) PROVE TypeOK'
  <2>1. [status |-> "PENDING", attempts |-> 0] \in Row
    BY BoundsAssumption DEF Row, Statuses
  <2>2. [job |-> j, attempts |-> 0] \in Snapshot
    BY BoundsAssumption DEF Snapshot
  <2> QED
    BY <1>1, <2>1, <2>2 DEF Insert, TypeOK
<1>2. ASSUME NEW h \in Holders, NEW jobs \in SUBSET Jobs, Fetch(h, jobs) PROVE TypeOK'
  <2>1. {SnapshotOf(j) : j \in jobs} \subseteq Snapshot
    BY DEF TypeOK, SnapshotOf, Snapshot, Row
  <2> QED
    BY <1>2, <2>1 DEF Fetch, TypeOK
<1>3. ASSUME NEW h \in Holders, FetchError(h) PROVE TypeOK'
  BY <1>3 DEF FetchError, TransientError, TypeOK
<1>4. ASSUME NEW h \in Holders, NEW batch, Release(h, batch) PROVE TypeOK'
  <2>1. batch \in Seq(Snapshot)
    BY <1>4 DEF Release, TypeOK
  <2>2. queue' \in Seq(Snapshot)
    BY <1>4, <2>1 DEF Release, TypeOK
  <2> QED
    BY <1>4, <2>2 DEF Release, TypeOK
<1>5. ASSUME NEW s \in Slots, Start(s) PROVE TypeOK'
  <2>1. Head(queue) \in Snapshot /\ Tail(queue) \in Seq(Snapshot)
    BY <1>5 DEF Start, TypeOK
  <2>2. [pc |-> "mark", snap |-> Head(queue)] \in Run
    BY <2>1 DEF Run
  <2> QED
    BY <1>5, <2>1, <2>2 DEF Start, TypeOK
<1>6. ASSUME NEW s \in Slots, Mark(s) PROVE TypeOK'
  <2> DEFINE j == slot[s].snap.job
  <2>1. j \in Jobs /\ slot[s].snap.attempts \in 0..AttemptCap
    BY <1>6, BusyFacts DEF Mark
  <2>2. Increment(slot[s].snap.attempts) \in 0..AttemptCap
        /\ Increment(starts[j]) \in 0..AttemptCap
    BY <2>1, IncrementFacts DEF TypeOK
  <2>3. row' \in [Jobs -> Row]
    BY <1>6, <2>1, <2>2 DEF Mark, TypeOK, Row, Statuses
  <2>4. starts' \in [Jobs -> 0..AttemptCap] /\ abandoned' \subseteq Jobs
    BY <1>6, <2>1, <2>2 DEF Mark, TypeOK
  <2>5. slot' \in [Slots -> {Idle} \cup Run]
    BY <1>6, GotoFacts DEF Mark
  <2> QED
    BY <1>6, <2>3, <2>4, <2>5 DEF Mark, TypeOK
<1>7. ASSUME NEW s \in Slots, MarkGone(s) \/ MarkError(s) \/ CaughtGone(s) PROVE TypeOK'
  <2>1. slot' \in [Slots -> {Idle} \cup Run]
    BY <1>7, FreeType DEF MarkGone, MarkError, CaughtGone
  <2> QED
    BY <1>7, <2>1 DEF MarkGone, MarkError, CaughtGone, TransientError, TypeOK
<1>8. ASSUME NEW s \in Slots, Return(s) \/ Throw(s) \/ Timeout(s) PROVE TypeOK'
  <2>1. slot' \in [Slots -> {Idle} \cup Run]
    BY <1>8, GotoFacts DEF Return, Throw, Timeout
  <2> QED
    BY <1>8, <2>1 DEF Return, Throw, Timeout, TypeOK
<1>9. ASSUME NEW s \in Slots, CompleteGone(s) \/ CompleteError(s) PROVE TypeOK'
  <2>1. slot' \in [Slots -> {Idle} \cup Run]
    BY <1>9, GotoFacts DEF CompleteGone, CompleteError
  <2> QED
    BY <1>9, <2>1 DEF CompleteGone, CompleteError, TransientError, TypeOK
<1>10. ASSUME NEW s \in Slots, Complete(s) \/ Fail(s) \/ Retry(s) PROVE TypeOK'
  <2>1. slot' \in [Slots -> {Idle} \cup Run]
    BY <1>10, FreeType DEF Complete, Fail, Retry
  <2>2. slot[s].snap.job \in Jobs
    BY <1>10, BusyFacts DEF Complete, Fail, Retry
  <2>3. row' \in [Jobs -> Row]
    BY <1>10, <2>2, SetStatusType DEF Complete, Fail, Retry, Statuses
  <2> QED
    BY <1>10, <2>1, <2>3 DEF Complete, Fail, Retry, TypeOK
<1>11. ASSUME NEW s \in Slots, CaughtError(s) PROVE TypeOK'
  <2>1. slot' \in [Slots -> {Idle} \cup Run]
    BY <1>11, FreeType DEF CaughtError
  <2>2. slot[s].snap.job \in Jobs
    BY <1>11, BusyFacts DEF CaughtError
  <2> QED
    BY <1>11, <2>1, <2>2 DEF CaughtError, TransientError, TypeOK
<1>12. ASSUME NEW j \in Jobs, CancelRead(j) PROVE TypeOK'
  BY <1>12 DEF CancelRead, TypeOK
<1>13. ASSUME NEW j \in Jobs, CancelDelete(j) PROVE TypeOK'
  <2>1. row' \in [Jobs -> Row]
    BY <1>13, SetStatusType DEF CancelDelete, Statuses, TypeOK
  <2> QED
    BY <1>13, <2>1 DEF CancelDelete, TypeOK
<1>14. ASSUME NEW old \in SUBSET Jobs, Sweep(old) PROVE TypeOK'
  <2>1. row' \in [Jobs -> Row]
    BY <1>14 DEF Sweep, TypeOK, Row, Statuses
  <2> QED
    BY <1>14, <2>1 DEF Sweep, TypeOK
<1>15. ASSUME Crash PROVE TypeOK'
  <2>1. held' \in [Holders -> SUBSET Snapshot] /\ queue' \in Seq(Snapshot)
        /\ slot' \in [Slots -> {Idle} \cup Run]
    BY <1>15 DEF Crash
  <2>2. abandoned' \subseteq Jobs /\ cancelling' \subseteq Jobs
    BY <1>15 DEF Crash, TypeOK
  <2>3. crashes' = crashes + 1 /\ up' = FALSE /\ UNCHANGED <<row, errors, starts>>
    BY <1>15, Zenon DEF Crash
  <2>4. crashes' \in Nat
    BY <2>3 DEF TypeOK
  <2>5. up' \in BOOLEAN
    BY <2>3
  <2> QED
    BY <2>1, <2>2, <2>3, <2>4, <2>5, Zenon DEF TypeOK
<1>16. CASE Restart
  BY <1>16 DEF Restart, TypeOK
<1>17. CASE UNCHANGED vars
  BY <1>17 DEF vars, TypeOK
<1> QED
  BY <1>1, <1>2, <1>3, <1>4, <1>5, <1>6, <1>7, <1>8, <1>9, <1>10, <1>11, <1>12,
     <1>13, <1>14, <1>15, <1>16, <1>17 DEF Next, ProcessJob

\* Every variable keeps its type (the shapes on which job-worker.ts and the
\* queue rely) whatever the number of jobs, slots and holders.
THEOREM TypeCorrect == Spec => []TypeOK
<1>1. Init => TypeOK
  BY TypeInit
<1>2. TypeOK /\ [Next]_vars => TypeOK'
  BY TypeStep
<1> QED
  BY <1>1, <1>2, PTL DEF Spec
-----------------------------------------------------------------------------
(* Ownership                                                               *)

\* A step that touches at most slot s leaves the other owners their rows.
LEMMA OwnersKept ==
  ASSUME NEW s \in Slots, \A t \in Slots : t # s => slot'[t] = slot[t],
         NEW j \in Jobs, NEW t \in Slots, t # s, Owns(t, j)
  PROVE  Owns(t, j)'
BY DEF Owns, Busy

\* A step that does not turn row j PROCESSING, nor touch the slot of a call
\* that owns it, keeps it owned.
LEMMA StaysOwned ==
  ASSUME ProcessingIsOwned,
         NEW j \in Jobs, row'[j].status = "PROCESSING" => row[j].status = "PROCESSING",
         j \in abandoned => j \in abandoned',
         NEW s \in Slots, ~Owns(s, j), \A t \in Slots : t # s => slot'[t] = slot[t]
  PROVE  row'[j].status = "PROCESSING" => j \in abandoned' \/ \E t \in Slots : Owns(t, j)'
<1> SUFFICES ASSUME row'[j].status = "PROCESSING", j \notin abandoned'
             PROVE  \E t \in Slots : Owns(t, j)'
  OBVIOUS
<1>1. PICK t \in Slots : Owns(t, j)
  BY DEF ProcessingIsOwned
<1>2. t # s
  BY <1>1
<1> QED
  BY <1>1, <1>2, OwnersKept

\* The same when no slot changes at all.
LEMMA StaysOwnedSameSlots ==
  ASSUME ProcessingIsOwned, UNCHANGED <<slot, abandoned>>,
         \A j \in Jobs : row'[j].status = "PROCESSING" => row[j].status = "PROCESSING"
  PROVE  ProcessingIsOwned'
BY DEF ProcessingIsOwned, Owns, Busy

LEMMA FreeFacts ==
  ASSUME TypeOK, NEW s \in Slots, Free(s)
  PROVE  slot'[s] = Idle /\ \A t \in Slots : t # s => slot'[t] = slot[t]
BY DEF TypeOK, Free

LEMMA SetStatusFacts ==
  ASSUME TypeOK, NEW j \in Jobs, NEW st, SetStatus(j, st)
  PROVE  /\ row'[j].status = st
         /\ \A k \in Jobs : row'[k].attempts = row[k].attempts
         /\ \A k \in Jobs : k # j => row'[k] = row[k]
BY DEF TypeOK, SetStatus, Row

LEMMA OwnedStep == TypeOK /\ ProcessingIsOwned /\ [Next]_vars => ProcessingIsOwned'
<1> SUFFICES ASSUME TypeOK, ProcessingIsOwned, [Next]_vars PROVE ProcessingIsOwned'
  OBVIOUS
<1> USE DEF stats
<1>1. ASSUME NEW h \in Holders, NEW j \in Jobs, Insert(h, j) PROVE ProcessingIsOwned'
  BY <1>1, StaysOwnedSameSlots DEF Insert, TypeOK
<1>2. ASSUME NEW h \in Holders,
             (\E jobs \in SUBSET Jobs : Fetch(h, jobs)) \/ FetchError(h)
               \/ (\E batch \in Orders(held[h]) : Release(h, batch))
      PROVE  ProcessingIsOwned'
  BY <1>2, StaysOwnedSameSlots DEF Fetch, FetchError, Release
<1>3. ASSUME NEW s \in Slots, Start(s) PROVE ProcessingIsOwned'
  <2>1. \A t \in Slots : t # s => slot'[t] = slot[t]
    BY <1>3 DEF Start, TypeOK
  <2>2. \A j \in Jobs : ~Owns(s, j)
    BY <1>3 DEF Start, Owns
  <2>3. row' = row /\ abandoned' = abandoned
    BY <1>3 DEF Start
  <2> QED
    BY <2>1, <2>2, <2>3, StaysOwned DEF ProcessingIsOwned
<1>4. ASSUME NEW s \in Slots, Mark(s) PROVE ProcessingIsOwned'
  <2> DEFINE k == slot[s].snap.job
  <2>1. k \in Jobs /\ slot'[s] \in Run /\ slot'[s].pc = "handler" /\ slot'[s].snap.job = k
        /\ \A t \in Slots : t # s => slot'[t] = slot[t]
    BY <1>4, BusyFacts, GotoFacts DEF Mark
  <2>2. ASSUME NEW j \in Jobs, j = k PROVE Owns(s, j)'
    BY <2>1, <2>2 DEF Owns, Busy, Idle, Run
  <2>3. \A j \in Jobs : ~Owns(s, j)
    BY <1>4 DEF Mark, Owns
  <2>4. \A j \in Jobs : j # k => row'[j] = row[j] /\ (j \in abandoned => j \in abandoned')
    BY <1>4 DEF Mark, TypeOK
  <2>5. ASSUME NEW j \in Jobs, j # k
        PROVE row'[j].status = "PROCESSING" => j \in abandoned' \/ \E t \in Slots : Owns(t, j)'
    BY <2>1, <2>3, <2>4, <2>5, StaysOwned
  <2> QED
    BY <2>2, <2>5 DEF ProcessingIsOwned
<1>5. ASSUME NEW s \in Slots, MarkGone(s) \/ MarkError(s) PROVE ProcessingIsOwned'
  <2>1. \A t \in Slots : t # s => slot'[t] = slot[t]
    BY <1>5, FreeFacts DEF MarkGone, MarkError
  <2>2. \A j \in Jobs : ~Owns(s, j)
    BY <1>5 DEF MarkGone, MarkError, Owns
  <2>3. row' = row /\ abandoned' = abandoned
    BY <1>5 DEF MarkGone, MarkError
  <2> QED
    BY <2>1, <2>2, <2>3, StaysOwned DEF ProcessingIsOwned
<1>6. ASSUME NEW s \in Slots,
             \/ Return(s) \/ Throw(s) \/ Timeout(s) \/ CompleteGone(s) \/ CompleteError(s)
      PROVE  ProcessingIsOwned'
  <2>1. Busy(s) /\ slot[s].pc # "mark" /\ row' = row /\ abandoned' = abandoned
    BY <1>6 DEF Return, Throw, Timeout, CompleteGone, CompleteError
  <2>2. slot'[s] \in Run /\ slot'[s].pc # "mark" /\ slot'[s].snap = slot[s].snap
        /\ \A t \in Slots : t # s => slot'[t] = slot[t]
    BY <1>6, <2>1, GotoFacts DEF Return, Throw, Timeout, CompleteGone, CompleteError
  <2>3. \A t \in Slots, j \in Jobs : Owns(t, j) => Owns(t, j)'
    BY <2>1, <2>2 DEF Owns, Busy, Idle, Run
  <2> QED
    BY <2>1, <2>3 DEF ProcessingIsOwned
<1>7. ASSUME NEW s \in Slots,
             Complete(s) \/ Fail(s) \/ Retry(s) \/ CaughtGone(s) \/ CaughtError(s)
      PROVE  ProcessingIsOwned'
  <2> DEFINE k == slot[s].snap.job
  <2>1. k \in Jobs
    BY <1>7, BusyFacts DEF Complete, Fail, Retry, CaughtGone, CaughtError
  <2>2. \A t \in Slots : t # s => slot'[t] = slot[t]
    BY <1>7, FreeFacts DEF Complete, Fail, Retry, CaughtGone, CaughtError
  <2>3. row'[k].status # "PROCESSING" \/ k \in abandoned'
    BY <1>7, <2>1, SetStatusFacts DEF Complete, Fail, Retry, CaughtGone, CaughtError, Exists
  <2>4. \A j \in Jobs : j # k => row'[j] = row[j] /\ ~Owns(s, j)
    BY <1>7, <2>1, SetStatusFacts
       DEF Complete, Fail, Retry, CaughtGone, CaughtError, Owns
  <2>5. abandoned \subseteq abandoned'
    BY <1>7 DEF Complete, Fail, Retry, CaughtGone, CaughtError
  <2>6. ASSUME NEW j \in Jobs, j # k
        PROVE row'[j].status = "PROCESSING" => j \in abandoned' \/ \E t \in Slots : Owns(t, j)'
    BY <2>2, <2>4, <2>5, <2>6, StaysOwned
  <2> QED
    BY <2>3, <2>6 DEF ProcessingIsOwned
<1>8. ASSUME NEW j \in Jobs, CancelRead(j) \/ CancelDelete(j) PROVE ProcessingIsOwned'
  <2>1. \A k \in Jobs : row'[k].status = "PROCESSING" => row[k].status = "PROCESSING"
    BY <1>8, SetStatusFacts DEF CancelRead, CancelDelete
  <2> QED
    BY <1>8, <2>1, StaysOwnedSameSlots DEF CancelRead, CancelDelete
<1>9. ASSUME NEW old \in SUBSET Jobs, Sweep(old) PROVE ProcessingIsOwned'
  <2>1. \A k \in Jobs : row'[k].status = "PROCESSING" => row[k].status = "PROCESSING"
    BY <1>9 DEF Sweep, TypeOK, Row
  <2> QED
    BY <1>9, <2>1, StaysOwnedSameSlots DEF Sweep
<1>10. CASE Crash
  BY <1>10 DEF Crash, ProcessingIsOwned
<1>11. CASE Restart
  BY <1>11, StaysOwnedSameSlots DEF Restart
<1>12. CASE UNCHANGED vars
  BY <1>12, StaysOwnedSameSlots DEF vars
<1> QED
  BY <1>1, <1>2, <1>3, <1>4, <1>5, <1>6, <1>7, <1>8, <1>9, <1>10, <1>11, <1>12
     DEF Next, ProcessJob

\* No row is left PROCESSING with nobody to finish it, unless a crash or a
\* failed database update cut its last owner off.
THEOREM Ownership == Spec => []ProcessingIsOwned
<1>1. Init => ProcessingIsOwned
  BY DEF Init, ProcessingIsOwned
<1>2. TypeOK /\ ProcessingIsOwned /\ [Next]_vars => ProcessingIsOwned'
  BY OwnedStep
<1> QED
  BY <1>1, <1>2, TypeCorrect, PTL DEF Spec
-----------------------------------------------------------------------------
(* Attempts                                                                *)

\* What a step may do to the copies of attempts: starts does not go down, a
\* snapshot held, queued or run was one before, or was just read from its row.
LEMMA CopiesKept ==
  ASSUME TypeOK, TypeOK', AttemptsInv,
         \A j \in Jobs : starts[j] <= starts'[j],
         \A j \in Jobs : row'[j].attempts <= starts'[j],
         \A h \in Holders : \A sn \in held'[h] : sn.attempts <= starts[sn.job],
         \A i \in 1..Len(queue') : queue'[i].attempts <= starts[queue'[i].job],
         \A s \in Slots : slot'[s] # Idle => slot'[s].snap.attempts <= starts[slot'[s].snap.job]
  PROVE  CopiesLag'
<1>1. \A h \in Holders : \A sn \in held'[h] : sn \in Snapshot
  BY DEF TypeOK
<1>2. \A i \in 1..Len(queue') : queue'[i] \in Snapshot
  BY DEF TypeOK
<1>3. \A s \in Slots : slot'[s] # Idle => slot'[s].snap \in Snapshot
  BY DEF TypeOK, Run
<1>4. \A sn \in Snapshot : sn.attempts <= starts[sn.job] => sn.attempts <= starts'[sn.job]
  BY DEF TypeOK, Snapshot
<1> QED
  BY <1>1, <1>2, <1>3, <1>4 DEF CopiesLag, Busy

\* A step that changes no starts, and the slots only by moving a call past its
\* mark or by freeing slots, keeps the marks counted.
LEMMA MarksKept ==
  ASSUME AttemptsInv, starts' = starts,
         \A s \in Slots : slot'[s] # Idle /\ slot'[s].pc # "mark"
                            => Busy(s) /\ slot[s].pc # "mark" /\ slot'[s].snap = slot[s].snap
  PROVE  MarkIsCounted'
BY DEF AttemptsInv, MarkIsCounted, Busy, Increment

\* A step that gives up no row and starts none.
LEMMA NoneGivenUp ==
  ASSUME AttemptsInv, starts' = starts,
         \A j \in Jobs : row'[j].status = "FAILED" => row[j].status = "FAILED"
  PROVE  NeverGivenUpEarly'
BY DEF AttemptsInv, NeverGivenUpEarly

\* The three together, for the steps that leave starts, holders' and queued
\* snapshots and the rows' attempts as they are.
LEMMA QuietStep ==
  ASSUME TypeOK, TypeOK', AttemptsInv, UNCHANGED <<held, queue, starts>>,
         \A j \in Jobs : row'[j].attempts = row[j].attempts,
         \A j \in Jobs : row'[j].status = "FAILED" => row[j].status = "FAILED",
         \A s \in Slots : slot'[s] # Idle
                            => /\ Busy(s) /\ slot'[s].snap = slot[s].snap
                               /\ slot'[s].pc # "mark" => slot[s].pc # "mark"
  PROVE  AttemptsInv'
<1>1. MarkIsCounted'
  BY MarksKept
<1>2. NeverGivenUpEarly'
  BY NoneGivenUp
<1>3. \A j \in Jobs : starts[j] <= starts'[j] /\ row'[j].attempts <= starts'[j]
  BY DEF AttemptsInv, CopiesLag, TypeOK
<1>4. CopiesLag'
  BY <1>3, CopiesKept DEF AttemptsInv, CopiesLag
<1> QED
  BY <1>1, <1>2, <1>4 DEF AttemptsInv
LEMMA AttemptsStep == TypeOK /\ TypeOK' /\ AttemptsInv /\ [Next]_vars => AttemptsInv'
<1> SUFFICES ASSUME TypeOK, TypeOK', AttemptsInv, [Next]_vars PROVE AttemptsInv'
  OBVIOUS
<1> USE DEF stats
<1>1. ASSUME NEW h \in Holders, NEW j \in Jobs, Insert(h, j) PROVE AttemptsInv'
  <2>1. row'[j].status = "PENDING" /\ row'[j].attempts = 0
        /\ \A k \in Jobs : k # j => row'[k] = row[k]
    BY <1>1 DEF Insert, TypeOK
  <2>2. \A g \in Holders : \A sn \in held'[g] : sn.attempts <= starts[sn.job]
    BY <1>1 DEF Insert, TypeOK, AttemptsInv, CopiesLag
  <2>3. \A k \in Jobs : starts[k] <= starts'[k] /\ row'[k].attempts <= starts'[k]
    BY <1>1, <2>1 DEF Insert, TypeOK, AttemptsInv, CopiesLag
  <2>4. CopiesLag'
    BY <1>1, <2>2, <2>3, CopiesKept DEF Insert, AttemptsInv, CopiesLag, Busy
  <2>5. MarkIsCounted' /\ NeverGivenUpEarly'
    BY <1>1, <2>1, MarksKept, NoneGivenUp DEF Insert, Busy
  <2> QED
    BY <2>4, <2>5 DEF AttemptsInv
<1>2. ASSUME NEW h \in Holders, NEW jobs \in SUBSET Jobs, Fetch(h, jobs) PROVE AttemptsInv'
  <2>1. \A g \in Holders : \A sn \in held'[g] : sn.attempts <= starts[sn.job]
    BY <1>2 DEF Fetch, SnapshotOf, TypeOK, AttemptsInv, CopiesLag
  <2>2. \A k \in Jobs : starts[k] <= starts'[k] /\ row'[k].attempts <= starts'[k]
    BY <1>2 DEF Fetch, TypeOK, AttemptsInv, CopiesLag
  <2>3. CopiesLag'
    BY <1>2, <2>1, <2>2, CopiesKept DEF Fetch, AttemptsInv, CopiesLag, Busy
  <2>4. MarkIsCounted' /\ NeverGivenUpEarly'
    BY <1>2, MarksKept, NoneGivenUp DEF Fetch, Busy
  <2> QED
    BY <2>3, <2>4 DEF AttemptsInv
<1>3. ASSUME NEW h \in Holders, NEW batch, Release(h, batch) PROVE AttemptsInv'
  <2>1. \A i \in 1..Len(batch) : batch[i].attempts <= starts[batch[i].job]
    BY <1>3 DEF Release, AttemptsInv, CopiesLag
  <2>2. queue \in Seq(Snapshot) /\ batch \in Seq(Snapshot)
    BY <1>3 DEF Release, TypeOK
  <2>3. \A i \in 1..Len(queue') : queue'[i].attempts <= starts[queue'[i].job]
    BY <1>3, <2>1, <2>2 DEF Release, AttemptsInv, CopiesLag
  <2>4. \A g \in Holders : \A sn \in held'[g] : sn.attempts <= starts[sn.job]
    BY <1>3 DEF Release, TypeOK, AttemptsInv, CopiesLag
  <2>5. \A k \in Jobs : starts[k] <= starts'[k] /\ row'[k].attempts <= starts'[k]
    BY <1>3 DEF Release, TypeOK, AttemptsInv, CopiesLag
  <2>6. CopiesLag'
    BY <1>3, <2>3, <2>4, <2>5, CopiesKept DEF Release, AttemptsInv, CopiesLag, Busy
  <2>7. MarkIsCounted' /\ NeverGivenUpEarly'
    BY <1>3, MarksKept, NoneGivenUp DEF Release, Busy
  <2> QED
    BY <2>6, <2>7 DEF AttemptsInv
<1>4. ASSUME NEW s \in Slots, Start(s) PROVE AttemptsInv'
  <2>1. queue \in Seq(Snapshot) /\ queue # <<>>
    BY <1>4 DEF Start, TypeOK
  <2>2. \A i \in 1..Len(queue') : queue'[i].attempts <= starts[queue'[i].job]
    BY <1>4, <2>1 DEF Start, AttemptsInv, CopiesLag
  <2>3. Head(queue).attempts <= starts[Head(queue).job]
    BY <2>1 DEF AttemptsInv, CopiesLag
  <2>4. slot'[s].pc = "mark" /\ slot'[s].snap = Head(queue)
        /\ \A t \in Slots : t # s => slot'[t] = slot[t]
    BY <1>4 DEF Start, TypeOK
  <2>5. \A t \in Slots : slot'[t] # Idle => slot'[t].snap.attempts <= starts[slot'[t].snap.job]
    BY <2>3, <2>4 DEF AttemptsInv, CopiesLag, Busy
  <2>6. \A k \in Jobs : starts[k] <= starts'[k] /\ row'[k].attempts <= starts'[k]
    BY <1>4 DEF Start, TypeOK, AttemptsInv, CopiesLag
  <2>7. CopiesLag'
    BY <1>4, <2>2, <2>5, <2>6, CopiesKept DEF Start, AttemptsInv, CopiesLag
  <2>8. MarkIsCounted' /\ NeverGivenUpEarly'
    BY <1>4, <2>4, MarksKept, NoneGivenUp DEF Start, Busy
  <2> QED
    BY <2>7, <2>8 DEF AttemptsInv
<1>5. ASSUME NEW s \in Slots, Mark(s) PROVE AttemptsInv'
  <2> DEFINE n == slot[s].snap.attempts
  <2>1. PICK k \in Jobs : k = slot[s].snap.job
    BY <1>5, BusyFacts DEF Mark
  <2>2. n \in 0..AttemptCap /\ starts[k] \in 0..AttemptCap /\ n <= starts[k]
    BY <1>5, <2>1, BusyFacts DEF Mark, TypeOK, AttemptsInv, CopiesLag
  <2>3. Increment(n) <= Increment(starts[k])
        /\ Increment(n) \in 0..AttemptCap /\ starts[k] <= Increment(starts[k])
    BY <2>2, IncrementFacts
  <2>4. starts'[k] = Increment(starts[k])
        /\ row'[k].attempts = Increment(n) /\ row'[k].status = "PROCESSING"
        /\ \A j \in Jobs : j # k => row'[j] = row[j] /\ starts'[j] = starts[j]
    BY <1>5, <2>1 DEF Mark, TypeOK
  <2>5. slot'[s].snap = slot[s].snap /\ \A t \in Slots : t # s => slot'[t] = slot[t]
    BY <1>5, GotoFacts DEF Mark
  <2>6. ASSUME NEW j \in Jobs PROVE starts[j] <= starts'[j]
    <3>1. starts[j] \in 0..AttemptCap
      BY DEF TypeOK
    <3>2. CASE j = k
      BY <3>2, <2>3, <2>4
    <3>3. CASE j # k
      BY <3>1, <3>3, <2>4
    <3> QED
      BY <3>2, <3>3
  <2>7. \A j \in Jobs : row'[j].attempts <= starts'[j]
    BY <2>3, <2>4 DEF AttemptsInv, CopiesLag
  <2>8. \A t \in Slots : slot'[t] # Idle => slot'[t].snap.attempts <= starts[slot'[t].snap.job]
    BY <1>5, <2>5 DEF Mark, AttemptsInv, CopiesLag, Busy
  <2>9. CopiesLag'
    BY <1>5, <2>6, <2>7, <2>8, CopiesKept DEF Mark, AttemptsInv, CopiesLag
  <2>10. ASSUME NEW t \in Slots, slot'[t] # Idle, slot'[t].pc # "mark"
         PROVE  Increment(slot'[t].snap.attempts) <= starts'[slot'[t].snap.job]
    <3>1. CASE t = s
      BY <3>1, <2>1, <2>3, <2>4, <2>5
    <3>2. CASE t # s
      <4>1. Busy(t) /\ slot'[t] = slot[t] /\ slot[t].pc # "mark"
        BY <2>5, <2>10, <3>2 DEF Busy
      <4>2. PICK j \in Jobs : j = slot[t].snap.job
        BY <4>1, BusyFacts
      <4>3. slot[t].snap.attempts \in 0..AttemptCap
        BY <4>1, BusyFacts
      <4>4. Increment(slot[t].snap.attempts) <= starts[j]
        BY <4>1, <4>2 DEF AttemptsInv, MarkIsCounted
      <4>5. Increment(slot[t].snap.attempts) \in 0..AttemptCap
        BY <4>3, IncrementFacts
      <4>6. starts[j] \in 0..AttemptCap /\ starts'[j] \in 0..AttemptCap
        BY DEF TypeOK
      <4>7. starts[j] <= starts'[j]
        BY <2>6
      <4> QED
        BY <4>1, <4>2, <4>4, <4>5, <4>6, <4>7
    <3> QED
      BY <3>1, <3>2
  <2>11. MarkIsCounted'
    BY <2>10 DEF MarkIsCounted, Busy, Increment
  <2>12. ASSUME NEW j \in Jobs, row'[j].status = "FAILED" PROVE starts'[j] >= MaxAttempts
    <3>1. j # k /\ row[j].status = "FAILED" /\ starts'[j] = starts[j]
      BY <2>4, <2>12
    <3> QED
      BY <3>1 DEF AttemptsInv, NeverGivenUpEarly
  <2>13. NeverGivenUpEarly'
    BY <2>12 DEF NeverGivenUpEarly
  <2> QED
    BY <2>9, <2>11, <2>13 DEF AttemptsInv
<1>6. ASSUME NEW s \in Slots,
             \/ Return(s) \/ Throw(s) \/ Timeout(s) \/ CompleteGone(s) \/ CompleteError(s)
      PROVE  AttemptsInv'
  <2>1. Busy(s) /\ slot[s].pc # "mark" /\ UNCHANGED <<row, held, queue, starts>>
    BY <1>6 DEF Return, Throw, Timeout, CompleteGone, CompleteError
  <2>2. slot'[s].snap = slot[s].snap /\ \A t \in Slots : t # s => slot'[t] = slot[t]
    BY <1>6, <2>1, GotoFacts DEF Return, Throw, Timeout, CompleteGone, CompleteError
  <2> QED
    BY <2>1, <2>2, QuietStep DEF Busy
<1>7. ASSUME NEW s \in Slots, MarkGone(s) \/ MarkError(s) \/ CaughtGone(s) \/ CaughtError(s)
      PROVE  AttemptsInv'
  <2>1. UNCHANGED <<row, held, queue, starts>>
    BY <1>7 DEF MarkGone, MarkError, CaughtGone, CaughtError
  <2>2. slot'[s] = Idle /\ \A t \in Slots : t # s => slot'[t] = slot[t]
    BY <1>7, FreeFacts DEF MarkGone, MarkError, CaughtGone, CaughtError
  <2> QED
    BY <2>1, <2>2, QuietStep DEF Busy
<1>8. ASSUME NEW s \in Slots, Complete(s) \/ Retry(s) PROVE AttemptsInv'
  <2>1. slot[s].snap.job \in Jobs /\ UNCHANGED <<held, queue, starts>>
    BY <1>8, BusyFacts DEF Complete, Retry
  <2>2. slot'[s] = Idle /\ \A t \in Slots : t # s => slot'[t] = slot[t]
    BY <1>8, FreeFacts DEF Complete, Retry
  <2>3. \A j \in Jobs : /\ row'[j].attempts = row[j].attempts
                        /\ row'[j].status = "FAILED" => row[j].status = "FAILED"
    BY <1>8, <2>1, SetStatusFacts DEF Complete, Retry
  <2> QED
    BY <2>1, <2>2, <2>3, QuietStep DEF Busy
<1>9. ASSUME NEW s \in Slots, Fail(s) PROVE AttemptsInv'
  <2> DEFINE n == slot[s].snap.attempts
  <2>1. PICK k \in Jobs : k = slot[s].snap.job
    BY <1>9, BusyFacts DEF Fail
  <2>2. n \in 0..AttemptCap /\ n + 1 >= MaxAttempts /\ Increment(n) <= starts[k]
    BY <1>9, <2>1, BusyFacts DEF Fail, LastAttempt, AttemptsInv, MarkIsCounted
  <2>3. starts[k] >= MaxAttempts
    BY <2>2, BoundsAssumption DEF Increment, TypeOK
  <2>4. slot'[s] = Idle /\ \A t \in Slots : t # s => slot'[t] = slot[t]
    BY <1>9, FreeFacts DEF Fail
  <2>5. UNCHANGED <<held, queue, starts>>
        /\ (\A j \in Jobs : row'[j].attempts = row[j].attempts)
        /\ (\A j \in Jobs : j # k => row'[j] = row[j])
    BY <1>9, <2>1, SetStatusFacts DEF Fail
  <2>6. \A j \in Jobs : starts[j] <= starts'[j] /\ row'[j].attempts <= starts'[j]
    BY <2>5 DEF TypeOK, AttemptsInv, CopiesLag
  <2>7. CopiesLag'
    BY <2>4, <2>5, <2>6, CopiesKept DEF AttemptsInv, CopiesLag, Busy
  <2>8. MarkIsCounted'
    BY <2>4, <2>5, MarksKept DEF Busy
  <2>9. NeverGivenUpEarly'
    BY <2>3, <2>5 DEF AttemptsInv, NeverGivenUpEarly
  <2> QED
    BY <2>7, <2>8, <2>9 DEF AttemptsInv
<1>10. ASSUME NEW j \in Jobs, CancelRead(j) \/ CancelDelete(j) PROVE AttemptsInv'
  <2>1. UNCHANGED <<held, queue, slot, starts>>
    BY <1>10 DEF CancelRead, CancelDelete
  <2>2. \A k \in Jobs : /\ row'[k].attempts = row[k].attempts
                        /\ row'[k].status = "FAILED" => row[k].status = "FAILED"
    BY <1>10, SetStatusFacts DEF CancelRead, CancelDelete
  <2> QED
    BY <2>1, <2>2, QuietStep DEF Busy
<1>11. ASSUME NEW old \in SUBSET Jobs, Sweep(old) PROVE AttemptsInv'
  <2>1. UNCHANGED <<held, queue, slot, starts>>
    BY <1>11 DEF Sweep
  <2>2. \A k \in Jobs : /\ row'[k].attempts = row[k].attempts
                        /\ row'[k].status = "FAILED" => row[k].status = "FAILED"
    BY <1>11 DEF Sweep, TypeOK, Row
  <2> QED
    BY <2>1, <2>2, QuietStep DEF Busy
<1>12. CASE Crash
  <2>1. row' = row /\ starts' = starts
    BY <1>12, Zenon DEF Crash
  <2>2. held' = [h \in Holders |-> {}] /\ queue' = <<>> /\ slot' = [s \in Slots |-> Idle]
    BY <1>12, Zenon DEF Crash
  <2>3. \A j \in Jobs : starts[j] <= starts'[j] /\ row'[j].attempts <= starts'[j]
    BY <2>1 DEF TypeOK, AttemptsInv, CopiesLag
  <2>4. CopiesLag'
    BY <2>2, <2>3, CopiesKept
  <2>5. MarkIsCounted' /\ NeverGivenUpEarly'
    BY <2>1, <2>2, MarksKept, NoneGivenUp
  <2> QED
    BY <2>4, <2>5 DEF AttemptsInv
<1>13. CASE Restart
  BY <1>13, QuietStep DEF Restart, Busy
<1>14. CASE UNCHANGED vars
  BY <1>14, QuietStep DEF vars, Busy
<1>15. ASSUME NEW h \in Holders, FetchError(h) PROVE AttemptsInv'
  BY <1>15, QuietStep DEF FetchError, Busy
<1> QED
  BY <1>1, <1>2, <1>3, <1>4, <1>5, <1>6, <1>7, <1>8, <1>9, <1>10, <1>11, <1>12,
     <1>13, <1>14, <1>15 DEF Next, ProcessJob

\* A row is given up only after maxAttempts starts, whatever snapshots are
\* queued twice or late and whatever a stale call writes over the row.
THEOREM NotGivenUpEarly == Spec => []NeverGivenUpEarly
<1>1. Init => AttemptsInv
  BY DEF Init, AttemptsInv, CopiesLag, MarkIsCounted, NeverGivenUpEarly, Busy
<1>2. TypeOK /\ TypeOK' /\ AttemptsInv /\ [Next]_vars => AttemptsInv'
  BY AttemptsStep
<1>3. AttemptsInv => NeverGivenUpEarly
  BY DEF AttemptsInv
<1> QED
  BY <1>1, <1>2, <1>3, TypeCorrect, PTL DEF Spec

-----------------------------------------------------------------------------
(* The executor, with its timers and its awaited queries, does nothing to  *)
(* rows, queue and slots that JobWorker does not allow; so what is proved  *)
(* of JobWorker holds of it, for any times, page size and rearmers.        *)

\* The steps of a chain of awaits: they read rows, add to the queue, or touch
\* only the scheduler's own state.
LEMMA SchedulerStepRefines ==
  ASSUME NEW h \in Holders, SchedulerStep(h) \/ ReadError(h)
  PROVE  [Next]_vars
<1>1. CASE OnJobCreated(h)
  BY <1>1 DEF OnJobCreated, Next
<1>2. CASE ReadPage(h)
  <2>1. PICK page \in Pages : Fetch(h, page)
    BY <1>2 DEF ReadPage
  <2>2. page \in SUBSET Jobs
    BY DEF Pages, Pending
  <2> QED
    BY <2>1, <2>2 DEF Next
<1>3. CASE EnqueueDue(h)
  BY <1>3 DEF EnqueueDue, Next
<1>4. CASE ReadError(h)
  BY <1>4 DEF ReadError, Next
<1>5. CASE ReadNextScheduled(h) \/ RescheduleIfNeeded(h)
  BY <1>5 DEF ReadNextScheduled, RescheduleIfNeeded
<1>6. CASE ScheduleNextArms(h) \/ ScheduleNextLoads(h) \/ ScheduleNextFindsNone(h)
  BY <1>6 DEF ScheduleNextArms, ScheduleNextLoads, ScheduleNextFindsNone
<1> QED
  BY <1>1, <1>2, <1>3, <1>4, <1>5, <1>6 DEF SchedulerStep

LEMMA StepRefines == [ENext]_evars => [Next]_vars
<1> SUFFICES ASSUME [ENext]_evars PROVE [Next]_vars
  OBVIOUS
<1>1. ASSUME NEW h \in Loaders, NEW j \in Jobs, NEW delay \in Delays,
             CreateInstance(h, j, delay)
      PROVE  [Next]_vars
  BY <1>1 DEF CreateInstance, Loaders, Next
<1>2. ASSUME NEW h \in Holders, SchedulerStep(h) \/ ReadError(h) PROVE [Next]_vars
  BY <1>2, SchedulerStepRefines
<1>3. ASSUME NEW h \in Loaders, TimerFires(h) \/ StrayTimerFires(h) PROVE [Next]_vars
  BY <1>3 DEF TimerFires, StrayTimerFires
<1>4. ASSUME NEW h \in Loaders, RestartAll(h) PROVE [Next]_vars
  BY <1>4 DEF RestartAll, Next
<1>5. ASSUME NEW s \in Slots, NEW h \in Rearmers, RetryAndReschedule(s, h)
      PROVE  [Next]_vars
  BY <1>5 DEF RetryAndReschedule, ProcessJob, Next
<1>6. ASSUME NEW s \in Slots, WorkerStep(s) PROVE [Next]_vars
  BY <1>6 DEF WorkerStep, ProcessJob, Next
<1>7. CASE ServiceStep
  BY <1>7 DEF ServiceStep, Next
<1>8. CASE CrashAll
  BY <1>8 DEF CrashAll, Next
<1>9. CASE Tick
  BY <1>9 DEF Tick
<1>10. CASE UNCHANGED evars
  BY <1>10 DEF evars
<1> QED
  BY <1>1, <1>2, <1>3, <1>4, <1>5, <1>6, <1>7, <1>8, <1>9, <1>10 DEF ENext

\* The executor implements JobWorker: its initial states and its steps are
\* JobWorker's, or leave JobWorker's state alone.
THEOREM Refinement == ESpec => Spec
<1>1. EInit => Init
  BY DEF EInit
<1>2. [ENext]_evars => [Next]_vars
  BY StepRefines
<1> QED
  BY <1>1, <1>2, PTL DEF ESpec, Spec

\* Under the real scheduler a row is given up only after maxAttempts starts,
\* and none is left PROCESSING without an owner except by a failure.
THEOREM ExecutorSafety == ESpec => [](NeverGivenUpEarly /\ ProcessingIsOwned)
BY Refinement, NotGivenUpEarly, Ownership, PTL
=============================================================================
