------------------------ MODULE NotificationsProofs ------------------------
(***************************************************************************)
(* Safety of notifications, for any calls, recipients and runs, any number *)
(* of attempts, and any number of edits, crashes and failures.             *)
(***************************************************************************)
EXTENDS Notifications, TLAPS

-----------------------------------------------------------------------------
(* Types.                                                                  *)

Run == [pc: RunPCs, job: Calls, attempts: Attempts, left: SUBSET Notes,
        provider: Providers \cup {NoProvider}, note: Notes \cup {NoNote}, owned: BOOLEAN]

\* Where a run is at one notification.
Handling == {"user", "channel", "mail", "sent", "failed"}

\* A run handles notifications of its own job, each once.
Fits(v) ==
  v.pc # "idle" =>
    /\ v.left \subseteq Of(v.job)
    /\ v.note \in Of(v.job) \/ v.note = NoNote
    /\ v.pc \in Handling => v.note \in Of(v.job)
    /\ v.pc = "read" => v.note = NoNote
    /\ v.note \notin v.left

LEMMA NotANote == NoNote \notin Notes
  BY DEF NoNote, Notes

RunsTyped == run \in [Runs -> {Idle} \cup Run] /\ \A r \in Runs : Fits(run[r])

TablesTyped ==
  /\ note \in [Notes -> {"none", "PENDING", "SENT", "FAILED", "deleted"}]
  /\ job \in [Calls -> [status: {"none", "PENDING", "PROCESSING", "COMPLETED", "FAILED", "deleted"},
                        attempts: Attempts]]
  /\ queue \in Seq([job: Calls, attempts: Attempts])

CreatesTyped ==
  /\ db \in [template: BOOLEAN, channel: BOOLEAN, provider: Providers, version: 0..MaxEvents]
  /\ cached \in 0..MaxEvents \cup {None}
  /\ create \in [Calls -> [pc: {"idle", "query", "store", "users", "enqueue", "done"},
                           version: 0..MaxEvents \cup {None}, disabled: BOOLEAN]]
  /\ editing \subseteq Editors /\ cancelling \subseteq Calls
  /\ up \in BOOLEAN /\ trouble \in 0..MaxEvents /\ crashes \in 0..MaxEvents

HistoryTyped ==
  /\ delivered \in [Notes -> 0..2]
  /\ skipped \subseteq Notes /\ unrecorded \subseteq Notes
  /\ overlapped \subseteq Calls /\ overtaken \in BOOLEAN /\ dropped \subseteq Calls

Typed == RunsTyped /\ TablesTyped /\ CreatesTyped /\ HistoryTyped

LEMMA IdleFits == Idle.pc = "idle" /\ Fits(Idle)
  BY DEF Idle, Fits

LEMMA ActiveRun ==
  ASSUME RunsTyped, NEW r \in Runs, run[r].pc # "idle"
  PROVE  run[r] \in Run /\ Fits(run[r]) /\ run[r].job \in Calls /\ Of(run[r].job) \subseteq Notes
  BY IdleFits DEF RunsTyped, Run, Of, Notes

LEMMA SetRun ==
  ASSUME RunsTyped, NEW r \in Runs, NEW v \in {Idle} \cup Run, Fits(v), run' = [run EXCEPT ![r] = v]
  PROVE  RunsTyped'
  <1>1. run' \in [Runs -> {Idle} \cup Run]
    BY DEF RunsTyped
  <1>2. ASSUME NEW q \in Runs PROVE Fits(run'[q])
    BY DEF RunsTyped
  <1>3. (\A q \in Runs : Fits(run[q]))' <=> \A q \in Runs : Fits(run'[q])
    BY DEF Fits, Of
  <1> QED
    BY <1>1, <1>2, <1>3 DEF RunsTyped, Run, Idle

\* What a run makes of itself: it ends, or goes on with the same job.
GoesOn(u, v) == v.job = u.job /\ v.attempts = u.attempts /\ v.owned = u.owned /\ v.pc # "idle"
Becomes(r, v) == run' = [run EXCEPT ![r] = v] /\ v \in {Idle} \cup Run /\ Fits(v)

LEMMA StepRun ==
  ASSUME RunsTyped, NEW r \in Runs, NEW p \in RunPCs \ {"read"}, Step(r, p), run[r].pc # "idle",
         p \in Handling => run[r].pc \in Handling
  PROVE  \E v : Becomes(r, v) /\ GoesOn(run[r], v)
  <1> DEFINE v == [run[r] EXCEPT !.pc = p]
  <1>1. run[r] \in Run /\ Fits(run[r])
    BY ActiveRun
  <1>2. v \in Run /\ GoesOn(run[r], v) /\ Fits(v)
    BY <1>1 DEF Run, GoesOn, Fits, RunPCs
  <1>3. run' = [run EXCEPT ![r] = v]
    BY DEF Step, RunsTyped
  <1> QED
    BY <1>2, <1>3 DEF Becomes

LEMMA TakesRun ==
  ASSUME RunsTyped, NEW r \in Runs, NEW n \in run[r].left, NEW p \in RunPCs \ {"read"}, Takes(r, n, p),
         run[r].pc # "idle"
  PROVE  \E v : Becomes(r, v) /\ GoesOn(run[r], v)
  <1> DEFINE v == [run[r] EXCEPT !.pc = p, !.note = n, !.left = run[r].left \ {n}]
  <1>1. run[r] \in Run /\ Fits(run[r])
    BY ActiveRun
  <1>2. v \in Run /\ GoesOn(run[r], v)
    BY <1>1 DEF Run, GoesOn, RunPCs
  <1>3. Fits(v)
    BY <1>1 DEF Run, Fits
  <1>4. run' = [run EXCEPT ![r] = v]
    BY DEF Takes, RunsTyped
  <1> QED
    BY <1>2, <1>3, <1>4 DEF Becomes

LEMMA DeliverRun ==
  ASSUME Typed, NEW r \in Runs, Deliver(r)
  PROVE  run[r].pc # "idle" /\ \E v : Becomes(r, v) /\ (v = Idle \/ GoesOn(run[r], v))
  <1> USE DEF RunPCs, Handling
  <1>0. RunsTyped /\ db.provider \in Providers
    BY DEF Typed, CreatesTyped
  <1>1. ASSUME NEW x, Finish(r, x) PROVE Becomes(r, Idle)
    BY <1>1, IdleFits DEF Finish, Becomes
  <1>2. CASE ReadNotifications(r)
    <2> DEFINE L == {n \in Of(run[r].job) : note[n] = "PENDING"}
               v == [run[r] EXCEPT !.pc = "each", !.provider = db.provider, !.left = L]
    <2>1. run[r] \in Run /\ Fits(run[r]) /\ Of(run[r].job) \subseteq Notes
      BY <1>0, <1>2, ActiveRun DEF ReadNotifications
    <2>2. v \in Run /\ GoesOn(run[r], v)
      BY <1>0, <2>1 DEF Run, GoesOn
    <2>3. Fits(v)
      BY <1>2, <2>1, <2>2, NotANote DEF Run, Fits, ReadNotifications
    <2>4. run' = [run EXCEPT ![r] = v]
      BY <1>0, <1>2 DEF ReadNotifications, RunsTyped
    <2> QED
      BY <1>2, <2>2, <2>3, <2>4 DEF Becomes, ReadNotifications
  <1>3. ASSUME NEW n \in Notes, DeliverInApp(r, n) \/ TakeEmail(r, n) \/ Skip(r, n)
        PROVE  run[r].pc # "idle" /\ \E v : Becomes(r, v) /\ GoesOn(run[r], v)
    BY <1>0, <1>3, TakesRun DEF DeliverInApp, TakeEmail, Skip, HasNext
  <1>4. CASE ReadUser(r) \/ ReadChannel(r) \/ SendMail(r) \/ AnswerLost(r) \/ MailFails(r)
    BY <1>0, <1>4, StepRun DEF ReadUser, ReadChannel, SendMail, AnswerLost, MailFails
  <1>5. CASE RecordSent(r) \/ RecordFailed(r) \/ RecordSentError(r)
    BY <1>0, <1>1, <1>5, StepRun DEF RecordSent, RecordFailed, RecordSentError, SentThrows, Reject
  <1>6. CASE AllHandled(r) \/ QueryError(r)
    BY <1>1, <1>6 DEF AllHandled, QueryError, Resolve, Reject
  <1> QED
    BY <1>2, <1>3, <1>4, <1>5, <1>6 DEF Deliver

LEMMA FirstOf ==
  ASSUME NEW S, NEW q \in Seq(S), q # <<>>
  PROVE  /\ Head(q) \in S /\ Tail(q) \in Seq(S)
         /\ 1 \in 1..Len(q) /\ Head(q) = q[1]
         /\ \A i \in 1..Len(Tail(q)) : i + 1 \in 1..Len(q) /\ Tail(q)[i] = q[i + 1]
  <1>1. Len(q) \in Nat \ {0}
    OBVIOUS
  <1>2. Tail(q) \in Seq(S) /\ Len(Tail(q)) = Len(q) - 1
    BY <1>1
  <1> QED
    BY <1>1, <1>2

LEMMA StartsRun ==
  ASSUME Typed, NEW r \in Runs, StartRun(r)
  PROVE  \E v : /\ Becomes(r, v) /\ v.pc = "read" /\ v.job = Head(queue).job
                /\ v.attempts = Head(queue).attempts /\ v.owned = TRUE /\ v.left = {} /\ v.note = NoNote
  <1> DEFINE v == [pc |-> "read", job |-> Head(queue).job, attempts |-> Head(queue).attempts,
                   left |-> {}, provider |-> NoProvider, note |-> NoNote, owned |-> TRUE]
  <1>1. Head(queue) \in [job: Calls, attempts: Attempts]
    BY FirstOf DEF StartRun, Typed, TablesTyped
  <1>2. v \in Run /\ Fits(v)
    BY <1>1 DEF Run, Fits, RunPCs, Handling
  <1>3. run' = [run EXCEPT ![r] = v]
    BY DEF StartRun
  <1>4. /\ v.pc = "read" /\ v.job = Head(queue).job /\ v.attempts = Head(queue).attempts
        /\ v.owned = TRUE /\ v.left = {} /\ v.note = NoNote
    OBVIOUS
  <1> HIDE DEF v
  <1> QED
    BY <1>2, <1>3, <1>4 DEF Becomes

LEMMA TimesOut ==
  ASSUME Typed, NEW r \in Runs, Timeout(r)
  PROVE  /\ run[r].pc # "idle" /\ run[r] \in Run /\ Fits(run[r])
         /\ Becomes(r, [run[r] EXCEPT !.owned = FALSE])
  <1> DEFINE v == [run[r] EXCEPT !.owned = FALSE]
  <1>1. run[r] \in Run /\ Fits(run[r])
    BY ActiveRun DEF Typed, Timeout
  <1>2. v \in Run /\ Fits(v)
    BY <1>1 DEF Run, Fits
  <1>3. run' = [run EXCEPT ![r] = v]
    BY DEF Timeout, Typed, RunsTyped
  <1> QED
    BY <1>1, <1>2, <1>3 DEF Becomes, Timeout

\* The steps that no run takes part in.
Apart ==
  \/ \E c \in Calls : Create(c) \/ Load(c) \/ Withdraw(c)
  \/ Refused
  \/ \E e \in Editors : Edit(e)
  \/ \E u \in Users : DeleteUser(u)
  \/ Restart \/ UNCHANGED vars

LEMMA ApartRuns == Apart => UNCHANGED run
  BY DEF Apart, Create, Lookup, QueryTemplate, StoreTemplate, CreateRows, CreateRejected, Enqueue,
     Load, Withdraw, CancelRead, CancelDelete, Sweep, Gone, Refused, Edit, EditTemplate, EditChannel,
     ClearCache, DeleteUser, Restart, vars

LEMMA Steps ==
  [Next]_vars => \/ Apart
                 \/ \E r \in Runs : StartRun(r) \/ Deliver(r) \/ Timeout(r)
                 \/ Crash
  BY DEF Next, Apart

LEMMA SomeRun ==
  ASSUME Typed, NEW r \in Runs, StartRun(r) \/ Deliver(r) \/ Timeout(r)
  PROVE  \E v : Becomes(r, v)
  BY StartsRun, DeliverRun, TimesOut

LEMMA StepRuns == Typed /\ [Next]_vars => RunsTyped'
  <1> SUFFICES ASSUME Typed, [Next]_vars PROVE RunsTyped'
    OBVIOUS
  <1>0. RunsTyped
    BY DEF Typed
  <1>1. CASE UNCHANGED run
    BY <1>0, <1>1 DEF RunsTyped, Fits
  <1>2. ASSUME NEW r \in Runs, NEW v, Becomes(r, v) PROVE RunsTyped'
    BY <1>0, <1>2, SetRun DEF Becomes
  <1>3. CASE Crash
    <2>1. run' = [r \in Runs |-> Idle]
      BY <1>3 DEF Crash
    <2>2. run' \in [Runs -> {Idle} \cup Run]
      BY <2>1
    <2> QED
      BY <2>1, <2>2, IdleFits DEF RunsTyped, Fits, Of, Run, Idle
  <1> QED
    BY <1>1, <1>2, <1>3, ApartRuns, Steps, SomeRun

-----------------------------------------------------------------------------
(* What a delivery does to its job.                                        *)

Ended(r, status) == [job[run[r].job] EXCEPT !.status = status]
\* A run goes on, or ends: as completed with nothing left, or as failed.
GoesOnly(r) == run'[r].pc # "idle" /\ UNCHANGED job
Completes(r) ==
  /\ run'[r] = Idle /\ run[r].pc = "each" /\ run[r].left = {} /\ UNCHANGED note
  /\ job' = IF Writes(r) THEN [job EXCEPT ![run[r].job] = Ended(r, "COMPLETED")] ELSE job
Fails(r) ==
  /\ run'[r] = Idle /\ UNCHANGED note
  /\ job' = IF Writes(r)
            THEN [job EXCEPT ![run[r].job] =
                    Ended(r, IF run[r].attempts + 1 >= MaxAttempts THEN "FAILED" ELSE "PENDING")]
            ELSE job

LEMMA DeliverJob ==
  ASSUME Typed, NEW r \in Runs, Deliver(r)
  PROVE  GoesOnly(r) \/ Completes(r) \/ Fails(r)
  <1>0. RunsTyped
    BY DEF Typed
  <1>1. ASSUME NEW x, Finish(r, x)
        PROVE  /\ run'[r] = Idle
               /\ job' = IF Writes(r) THEN [job EXCEPT ![run[r].job] = x] ELSE job
    BY <1>0, <1>1 DEF Finish, RunsTyped
  <1>2. ASSUME Reject(r), UNCHANGED note PROVE Fails(r)
    BY <1>1, <1>2 DEF Reject, Failed, Fails, Ended
  <1>3. ASSUME NEW p \in RunPCs, Step(r, p), run[r].pc # "idle" PROVE run'[r].pc # "idle"
    BY <1>0, <1>3, ActiveRun DEF Step, RunsTyped, Run, RunPCs
  <1>4. CASE AllHandled(r)
    BY <1>1, <1>4 DEF AllHandled, Resolve, Completes, Ended
  <1>5. CASE QueryError(r)
    BY <1>2, <1>5 DEF QueryError
  <1>6. CASE RecordSent(r) \/ RecordFailed(r) \/ RecordSentError(r)
    BY <1>2, <1>3, <1>6 DEF RecordSent, RecordFailed, RecordSentError, SentThrows, GoesOnly, RunPCs
  <1>7. CASE ReadUser(r) \/ ReadChannel(r) \/ SendMail(r) \/ AnswerLost(r) \/ MailFails(r)
    BY <1>3, <1>7 DEF ReadUser, ReadChannel, SendMail, AnswerLost, MailFails, GoesOnly, RunPCs, rows
  <1>8. CASE ReadNotifications(r) \/ \E n \in Notes : DeliverInApp(r, n) \/ TakeEmail(r, n) \/ Skip(r, n)
    <2>1. run[r].pc # "idle" /\ UNCHANGED job
      BY <1>8 DEF ReadNotifications, DeliverInApp, TakeEmail, Skip, HasNext, rows
    <2>2. run[r] \in Run
      BY <1>0, <2>1, ActiveRun
    <2>3. run'[r].pc # "idle"
      <3>1. CASE ReadNotifications(r)
        BY <1>0, <3>1, <2>2 DEF ReadNotifications, RunsTyped, Run
      <3>2. ASSUME NEW n, NEW p \in RunPCs, Takes(r, n, p) PROVE run'[r].pc # "idle"
        BY <1>0, <2>2, <3>2 DEF Takes, RunsTyped, Run, RunPCs
      <3> QED
        BY <1>8, <3>1, <3>2 DEF DeliverInApp, TakeEmail, Skip, RunPCs
    <2> QED
      BY <2>1, <2>3 DEF GoesOnly
  <1> QED
    BY <1>4, <1>5, <1>6, <1>7, <1>8 DEF Deliver

\* What it does to its notifications.
LEMMA DeliverNotes ==
  ASSUME Typed, NEW r \in Runs, Deliver(r)
  PROVE  \/ UNCHANGED note
         \/ /\ run[r].pc \in {"sent", "failed"} /\ note[run[r].note] # "deleted"
            /\ note' = [note EXCEPT ![run[r].note] = IF run[r].pc = "sent" THEN "SENT" ELSE "FAILED"]
            /\ Step(r, "each")
  BY DEF Deliver, ReadNotifications, DeliverInApp, TakeEmail, Skip, ReadUser, ReadChannel, SendMail,
     AnswerLost, MailFails, RecordSent, RecordFailed, AllHandled, RecordSentError, QueryError, rows

-----------------------------------------------------------------------------
(* Rows and the queue.                                                     *)

Job == [status: {"none", "PENDING", "PROCESSING", "COMPLETED", "FAILED", "deleted"}, attempts: Attempts]

LEMMA SetJob ==
  ASSUME job \in [Calls -> Job], NEW c \in Calls, NEW x \in Job, job' = [job EXCEPT ![c] = x]
  PROVE  job' \in [Calls -> Job]
  OBVIOUS

LEMMA EndedTyped ==
  ASSUME Typed, NEW r \in Runs, run[r].pc # "idle",
         NEW status \in {"PENDING", "COMPLETED", "FAILED"}
  PROVE  run[r].job \in Calls /\ Ended(r, status) \in Job
  <1>1. run[r].job \in Calls
    BY ActiveRun DEF Typed
  <1> QED
    BY <1>1 DEF Typed, TablesTyped, Job, Ended

LEMMA StepTables == Typed /\ [Next]_vars => TablesTyped'
  <1> SUFFICES ASSUME Typed, [Next]_vars PROVE TablesTyped'
    OBVIOUS
  <1>0. /\ note \in [Notes -> {"none", "PENDING", "SENT", "FAILED", "deleted"}]
        /\ job \in [Calls -> Job] /\ queue \in Seq([job: Calls, attempts: Attempts])
    BY DEF Typed, TablesTyped, Job
  <1>1. CASE Apart
    <2>1. ASSUME NEW c \in Calls, CreateRows(c) PROVE TablesTyped'
      <3>1. note' \in [Notes -> {"none", "PENDING", "SENT", "FAILED", "deleted"}]
        BY <1>0, <2>1 DEF CreateRows
      <3>2. job' \in [Calls -> Job]
        BY <1>0, <2>1 DEF CreateRows, Job
      <3> QED
        BY <1>0, <2>1, <3>1, <3>2 DEF CreateRows, TablesTyped, Job
    <2>2. ASSUME NEW c \in Calls, Enqueue(c) \/ Load(c) PROVE TablesTyped'
      <3> DEFINE S == [job: Calls, attempts: Attempts]
      <3>1. PICK x \in S : queue' = Append(queue, x)
        BY <1>0, <2>2 DEF Enqueue, Load, Attempts, Job
      <3>2. queue' \in Seq(S)
        <4> HIDE DEF S
        <4> QED
          BY <1>0, <3>1 DEF S
      <3> QED
        BY <1>0, <2>2, <3>2 DEF Enqueue, Load, rows, TablesTyped, Job
    <2>3. ASSUME NEW u \in Users, DeleteUser(u) PROVE TablesTyped'
      BY <1>0, <2>3 DEF DeleteUser, rows, TablesTyped, Job
    <2>4. CASE UNCHANGED <<note, job, queue>>
      BY <1>0, <2>4 DEF TablesTyped, Job
    <2>5. ASSUME NEW c \in Calls, Withdraw(c) PROVE TablesTyped'
      <3>1. [job[c] EXCEPT !.status = "deleted"] \in Job
        BY <1>0 DEF Job
      <3>2. UNCHANGED <<note, queue>>
         /\ (UNCHANGED job \/ job' = [job EXCEPT ![c] = [job[c] EXCEPT !.status = "deleted"]])
        BY <2>5 DEF Withdraw, CancelRead, CancelDelete, Sweep, Gone, rows
      <3>3. job' \in [Calls -> Job]
        BY <1>0, <3>1, <3>2, SetJob
      <3> QED
        BY <1>0, <3>2, <3>3 DEF TablesTyped, Job
    <2>6. CASE Refused
      <3>1. UNCHANGED <<note, job>> /\ queue # <<>> /\ queue' = Tail(queue)
        BY <2>6 DEF Refused, rows
      <3>2. queue' \in Seq([job: Calls, attempts: Attempts])
        BY <1>0, <3>1, FirstOf
      <3> QED
        BY <1>0, <3>1, <3>2 DEF TablesTyped, Job
    <2> QED
      BY <1>1, <2>1, <2>2, <2>3, <2>4, <2>5, <2>6 DEF Apart, Create, Lookup, QueryTemplate, StoreTemplate,
         CreateRejected, Edit, EditTemplate, EditChannel, ClearCache, Restart, vars, rows
  <1>2. ASSUME NEW r \in Runs, StartRun(r) PROVE TablesTyped'
    <2> DEFINE h == Head(queue)
    <2>1. h \in [job: Calls, attempts: Attempts] /\ Tail(queue) \in Seq([job: Calls, attempts: Attempts])
      BY <1>0, <1>2, FirstOf DEF StartRun
    <2>2. [status |-> "PROCESSING", attempts |-> h.attempts + 1] \in Job
      BY <2>1 DEF Job, Attempts
    <2>3. job' \in [Calls -> Job]
      BY <1>0, <1>2, <2>1, <2>2, SetJob DEF StartRun
    <2> QED
      BY <1>0, <1>2, <2>1, <2>3 DEF StartRun, TablesTyped, Job
  <1>3. ASSUME NEW r \in Runs, Timeout(r) PROVE TablesTyped'
    <2>1. run[r].job \in Calls /\ Failed(r) \in Job
      BY <1>3, EndedTyped DEF Timeout, Failed, Ended
    <2> QED
      BY <1>0, <1>3, <2>1, SetJob DEF Timeout, TablesTyped, Job
  <1>4. ASSUME NEW r \in Runs, Deliver(r) PROVE TablesTyped'
    <2>1. job' \in [Calls -> Job]
      BY <1>0, <1>4, DeliverJob, DeliverRun, EndedTyped, SetJob DEF GoesOnly, Completes, Fails
    <2>2. note' \in [Notes -> {"none", "PENDING", "SENT", "FAILED", "deleted"}]
      BY <1>0, <1>4, DeliverNotes
    <2>3. UNCHANGED queue
      BY <1>4 DEF Deliver, ReadNotifications, DeliverInApp, TakeEmail, Skip, ReadUser, ReadChannel,
         SendMail, AnswerLost, MailFails, RecordSent, RecordFailed, AllHandled, RecordSentError, QueryError
    <2> QED
      BY <1>0, <2>1, <2>2, <2>3 DEF TablesTyped, Job
  <1>5. CASE Crash
    BY <1>0, <1>5 DEF Crash, rows, TablesTyped, Job
  <1> QED
    BY <1>1, <1>2, <1>3, <1>4, <1>5, Steps

-----------------------------------------------------------------------------
(* Calls of create, edits, what has happened, and history.                 *)

LEMMA Budgeted ==
  ASSUME Typed, Budget
  PROVE  /\ db.version + 1 \in 0..MaxEvents /\ trouble + 1 \in 0..MaxEvents
         /\ crashes + 1 \in 0..MaxEvents
  BY NotificationsAssumption DEF Typed, CreatesTyped, Budget

LEMMA StepCreates == Typed /\ [Next]_vars => CreatesTyped'
  <1> SUFFICES ASSUME Typed, [Next]_vars PROVE CreatesTyped'
    OBVIOUS
  <1>0. CreatesTyped
    BY DEF Typed
  <1> DEFINE C == [pc: {"idle", "query", "store", "users", "enqueue", "done"},
                   version: 0..MaxEvents \cup {None}, disabled: BOOLEAN]
  <1>1. CASE Apart
    <2>1. ASSUME NEW c \in Calls, NEW v \in C, create' = [create EXCEPT ![c] = v]
          PROVE  create' \in [Calls -> C]
      BY <1>0, <2>1 DEF CreatesTyped
    <2>2. Unresolved \in C /\ create \in [Calls -> C]
      BY <1>0 DEF Unresolved, CreatesTyped
    <2>3. ASSUME NEW c \in Calls, Create(c) PROVE create' \in [Calls -> C]
      <3>1. CASE Lookup(c) \/ StoreTemplate(c)
        <4>1. PICK p \in {"query", "users"} :
                \/ create' = [create EXCEPT ![c] = [pc |-> p, version |-> cached, disabled |-> FALSE]]
                \/ create' = [create EXCEPT ![c] = [create[c] EXCEPT !.pc = p]]
          BY <2>2, <3>1 DEF Lookup, StoreTemplate, Goto
        <4> QED
          BY <1>0, <2>1, <2>2, <4>1 DEF CreatesTyped
      <3>2. CASE QueryTemplate(c)
        <4>1. [pc |-> "store", version |-> db.version, disabled |-> ~Enabled] \in C
          BY <1>0 DEF CreatesTyped, Enabled
        <4> QED
          BY <2>1, <3>2, <4>1 DEF QueryTemplate
      <3>3. CASE CreateRows(c) \/ CreateRejected(c) \/ Enqueue(c)
        <4>1. PICK p \in {"done", "enqueue"} : create' = [create EXCEPT ![c] = [Unresolved EXCEPT !.pc = p]]
          BY <3>3 DEF CreateRows, CreateRejected, Enqueue, Drop
        <4> QED
          BY <2>1, <2>2, <4>1
      <3> QED
        BY <2>3, <3>1, <3>2, <3>3 DEF Create
    <2>4. ASSUME NEW c \in Calls, Create(c) PROVE cached' \in 0..MaxEvents \cup {None}
      BY <1>0, <2>4 DEF Create, Lookup, QueryTemplate, StoreTemplate, CreateRows, CreateRejected,
         Enqueue, CreatesTyped
    <2>5. ASSUME NEW c \in Calls, Create(c) PROVE CreatesTyped'
      <3>1. UNCHANGED <<db, editing, cancelling, up, trouble, crashes>>
        BY <2>5 DEF Create, Lookup, QueryTemplate, StoreTemplate, CreateRows, CreateRejected, Enqueue
      <3> QED
        BY <1>0, <2>3, <2>4, <2>5, <3>1 DEF CreatesTyped
    <2>6. ASSUME NEW e \in Editors, Edit(e) PROVE CreatesTyped'
      <3>1. CASE ClearCache(e)
        BY <1>0, <3>1 DEF ClearCache, CreatesTyped
      <3>2. ASSUME NEW on \in BOOLEAN, EditTemplate(e, on) PROVE CreatesTyped'
        BY <1>0, <3>2, Budgeted DEF EditTemplate, CreatesTyped
      <3>3. ASSUME NEW on \in BOOLEAN, NEW p \in {db.provider} \cup NewProviders, EditChannel(e, on, p)
            PROVE  CreatesTyped'
        <4>1. p \in Providers
          BY <1>0, NotificationsAssumption DEF CreatesTyped, Providers
        <4> QED
          BY <1>0, <3>3, <4>1, Budgeted DEF EditChannel, CreatesTyped
      <3> QED
        BY <2>6, <3>1, <3>2, <3>3 DEF Edit
    <2>7. ASSUME NEW u \in Users, DeleteUser(u) PROVE CreatesTyped'
      BY <1>0, <2>7, Budgeted DEF DeleteUser, Trouble, callVars, CreatesTyped
    <2>8. CASE Restart
      BY <1>0, <2>8 DEF Restart, callVars, CreatesTyped
    <2>9. CASE (\E c \in Calls : Load(c)) \/ Refused \/ UNCHANGED vars
      BY <1>0, <2>9 DEF Load, Refused, vars, callVars, CreatesTyped
    <2>10. ASSUME NEW c \in Calls, Withdraw(c) PROVE CreatesTyped'
      <3>1. UNCHANGED <<db, cached, create, editing, up, trouble, crashes>> /\ cancelling' \subseteq Calls
        BY <1>0, <2>10 DEF Withdraw, CancelRead, CancelDelete, Sweep, callVars, CreatesTyped
      <3> QED
        BY <1>0, <3>1 DEF CreatesTyped
    <2> QED
      BY <1>1, <2>5, <2>6, <2>7, <2>8, <2>9, <2>10 DEF Apart
  <1>2. ASSUME NEW r \in Runs, StartRun(r) \/ Deliver(r) \/ Timeout(r) PROVE CreatesTyped'
    <2>1. UNCHANGED <<db, callVars, up, crashes>> /\ (UNCHANGED trouble \/ Trouble)
      BY <1>2 DEF StartRun, Timeout, Deliver, ReadNotifications, DeliverInApp, TakeEmail, Skip, ReadUser,
         ReadChannel, SendMail, AnswerLost, MailFails, RecordSent, RecordFailed, AllHandled,
         RecordSentError, QueryError
    <2> QED
      BY <1>0, <2>1, Budgeted DEF Trouble, callVars, CreatesTyped
  <1>3. CASE Crash
    <2>1. create' \in [Calls -> C]
      BY <1>3 DEF Crash, Unresolved
    <2>2. crashes' \in 0..MaxEvents
      BY <1>3, Budgeted DEF Crash
    <2> QED
      BY <1>0, <1>3, <2>1, <2>2 DEF Crash, CreatesTyped
  <1> QED
    BY <1>1, <1>2, <1>3, Steps

LEMMA StepHistory == Typed /\ [Next]_vars => HistoryTyped'
  <1> SUFFICES ASSUME Typed, [Next]_vars PROVE HistoryTyped'
    OBVIOUS
  <1>0. HistoryTyped /\ RunsTyped
    BY DEF Typed
  <1>1. CASE Apart
    <2>1. UNCHANGED <<delivered, skipped, unrecorded, overlapped>>
      BY <1>1 DEF Apart, Create, Lookup, QueryTemplate, StoreTemplate, CreateRows, CreateRejected,
         Enqueue, Load, Withdraw, CancelRead, CancelDelete, Sweep, Gone, Refused, Edit, EditTemplate,
         EditChannel, ClearCache, DeleteUser, Restart, vars, hist
    <2>2. overtaken' \in BOOLEAN
      BY <1>0, <1>1 DEF Apart, Create, Lookup, QueryTemplate, StoreTemplate, CreateRows, CreateRejected,
         Enqueue, Load, Withdraw, CancelRead, CancelDelete, Sweep, Gone, Refused, Edit, EditTemplate,
         EditChannel, ClearCache, DeleteUser, Restart, vars, hist,
         HistoryTyped
    <2>3. dropped' \subseteq Calls
      <3>1. ASSUME NEW c \in Calls, Withdraw(c) PROVE dropped' \subseteq Calls
        BY <1>0, <3>1 DEF Withdraw, CancelRead, CancelDelete, Sweep, Gone, hist, HistoryTyped
      <3>2. CASE ~\E c \in Calls : Withdraw(c)
        BY <1>0, <1>1, <3>2 DEF Apart, Create, Lookup, QueryTemplate, StoreTemplate, CreateRows,
           CreateRejected, Enqueue, Load, Refused, Edit, EditTemplate, EditChannel, ClearCache, DeleteUser,
           Restart, vars, hist, HistoryTyped
      <3> QED
        BY <3>1, <3>2
    <2> QED
      BY <1>0, <2>1, <2>2, <2>3 DEF HistoryTyped
  <1>2. ASSUME NEW r \in Runs, StartRun(r) PROVE HistoryTyped'
    <2>1. queue # <<>>
      BY <1>2 DEF StartRun
    <2>2. Head(queue).job \in Calls
      BY <2>1, FirstOf DEF Typed, TablesTyped
    <2> QED
      BY <1>0, <1>2, <2>2 DEF StartRun, HistoryTyped
  <1>3. ASSUME NEW r \in Runs, Timeout(r) PROVE HistoryTyped'
    BY <1>0, <1>3 DEF Timeout, hist, HistoryTyped
  <1>4. ASSUME NEW r \in Runs, Deliver(r) PROVE HistoryTyped'
    <2>1. ASSUME NEW n \in Notes, Delivered(n) PROVE delivered' \in [Notes -> 0..2]
      BY <1>0, <2>1 DEF Delivered, HistoryTyped
    <2>2. run[r].pc \in Handling => run[r].note \in Notes
      BY <1>0, ActiveRun DEF Handling, Fits
    <2>3. ASSUME NEW n \in Notes, DeliverInApp(r, n) \/ Skip(r, n) PROVE HistoryTyped'
      BY <1>0, <2>1, <2>3 DEF DeliverInApp, Skip, HistoryTyped
    <2>4. CASE SendMail(r)
      <3>1. delivered' \in [Notes -> 0..2]
        BY <2>1, <2>2, <2>4 DEF SendMail, Handling
      <3> QED
        BY <1>0, <2>4, <3>1 DEF SendMail, HistoryTyped
    <2>5. CASE RecordSentError(r)
      BY <1>0, <2>2, <2>5 DEF RecordSentError, Handling, HistoryTyped
    <2>7. CASE AnswerLost(r)
      <3>1. delivered' \in [Notes -> 0..2] /\ run[r].note \in Notes
        BY <2>1, <2>2, <2>7 DEF AnswerLost, Handling
      <3> QED
        BY <1>0, <2>7, <3>1 DEF AnswerLost, HistoryTyped
    <2>6. CASE UNCHANGED hist
      BY <1>0, <2>6 DEF hist, HistoryTyped
    <2> QED
      BY <1>4, <2>3, <2>4, <2>5, <2>6, <2>7 DEF Deliver, ReadNotifications, TakeEmail, ReadUser,
         ReadChannel,
         AnswerLost, MailFails, RecordSent, RecordFailed, AllHandled, QueryError
  <1>5. CASE Crash
    <2>1. ASSUME NEW q \in Runs, run[q].pc = "sent" PROVE run[q].note \in Notes
      BY <1>0, <2>1, ActiveRun DEF Handling, Fits
    <2>2. unrecorded' \subseteq Notes
      BY <1>0, <1>5, <2>1 DEF Crash, HistoryTyped
    <2> QED
      BY <1>0, <1>5, <2>2 DEF Crash, HistoryTyped
  <1> QED
    BY <1>1, <1>2, <1>3, <1>4, <1>5, Steps

LEMMA InitTyped == Init => Typed
  <1> SUFFICES ASSUME Init PROVE Typed
    OBVIOUS
  <1>1. RunsTyped
    BY IdleFits DEF Init, RunsTyped
  <1>2. TablesTyped
    BY DEF Init, TablesTyped, Attempts
  <1>3. CreatesTyped
    <2>1. Unresolved \in [pc: {"idle", "query", "store", "users", "enqueue", "done"},
                          version: 0..MaxEvents \cup {None}, disabled: BOOLEAN]
      BY DEF Unresolved
    <2> QED
      BY <2>1, NotificationsAssumption DEF Init, CreatesTyped
  <1>4. HistoryTyped
    <2>1. delivered = [n \in Notes |-> 0] /\ skipped = {} /\ unrecorded = {} /\ overlapped = {}
          /\ overtaken = FALSE /\ dropped = {}
      BY DEF Init
    <2>2. delivered \in [Notes -> 0..2]
      BY <2>1
    <2>3. overtaken \in BOOLEAN
      BY <2>1
    <2> QED
      BY <2>1, <2>2, <2>3 DEF HistoryTyped
  <1> QED
    BY <1>1, <1>2, <1>3, <1>4 DEF Typed

LEMMA StepTyped == Typed /\ [Next]_vars => Typed'
  BY StepRuns, StepTables, StepCreates, StepHistory DEF Typed

\* Types; what a run is handling is no longer before it.
THEOREM NotificationsTyped == Spec => []TypeOK
  <1>1. Typed => TypeOK
    BY DEF Typed, RunsTyped, TablesTyped, CreatesTyped, HistoryTyped, TypeOK, Run, Fits
  <1> QED
    BY <1>1, InitTyped, StepTyped, PTL DEF Spec

-----------------------------------------------------------------------------
(* The cache.                                                              *)

\* An edit is seen by the cache once it has cleared it, unless a query from
\* before the edit stores its answer after that.
THEOREM StaleOnlyThen == Spec => []StaleOnlyWhenOvertaken
  <1>1. Init => StaleOnlyWhenOvertaken
    <2>1. Init => cached \in {None, db.version}
      BY DEF Init
    <2> QED
      BY <2>1 DEF StaleOnlyWhenOvertaken
  <1>2. ASSUME Typed, StaleOnlyWhenOvertaken, [Next]_vars PROVE StaleOnlyWhenOvertaken'
    <2>1. ASSUME NEW e \in Editors, Edit(e) PROVE StaleOnlyWhenOvertaken'
      BY <2>1 DEF Edit, EditTemplate, EditChannel, ClearCache, StaleOnlyWhenOvertaken
    <2>2. ASSUME NEW c \in Calls, StoreTemplate(c) PROVE StaleOnlyWhenOvertaken'
      BY <1>2, <2>2 DEF StoreTemplate, StaleOnlyWhenOvertaken
    <2>3. CASE Crash
      BY <2>3 DEF Crash, StaleOnlyWhenOvertaken
    <2>4. CASE UNCHANGED <<db, cached, editing, overtaken>>
      BY <1>2, <2>4 DEF StaleOnlyWhenOvertaken
    <2>5. ASSUME NEW r \in Runs, StartRun(r) \/ Deliver(r) \/ Timeout(r)
          PROVE  UNCHANGED <<db, cached, editing, overtaken>>
      BY <2>5 DEF StartRun, Timeout, Deliver, ReadNotifications, DeliverInApp, TakeEmail, Skip, ReadUser,
         ReadChannel, SendMail, AnswerLost, MailFails, RecordSent, RecordFailed, AllHandled,
         RecordSentError, QueryError,
         callVars, hist
    <2>6. CASE Apart
      BY <2>1, <2>2, <2>4, <2>6 DEF Apart, Create, Lookup, QueryTemplate, CreateRows, CreateRejected,
         Enqueue, Load, Withdraw, CancelRead, CancelDelete, Sweep, Gone, Refused, DeleteUser, Restart,
         vars, callVars, hist
    <2> QED
      BY <1>2, <2>3, <2>4, <2>5, <2>6, Steps
  <1> QED
    BY <1>1, <1>2, InitTyped, StepTyped, PTL DEF Spec

-----------------------------------------------------------------------------
(* Which jobs there are, and who runs them.                                *)

LEMMA BecomesAt ==
  ASSUME RunsTyped, NEW r \in Runs, NEW v, Becomes(r, v)
  PROVE  run'[r] = v /\ \A q \in Runs \ {r} : run'[q] = run[q]
  BY DEF RunsTyped, Becomes

\* A call of create that is over, or is about to enqueue the job it inserted.
Begun(c) == create[c].pc \in {"enqueue", "done"}
Queued(x) == \E i \in 1..Len(queue) : queue[i] = x

\* Only the jobs of such calls are run, queued or in the table.
Origins ==
  /\ \A c \in Calls : ~Begun(c) => job[c].status = "none" /\ job[c].attempts = 0
  /\ \A x : Queued(x) => Begun(x.job)
  /\ \A r \in Runs : run[r].pc # "idle" => Begun(run[r].job)

\* Two runs of one job have overlapped.
Alone ==
  \A r, q \in Runs : r # q /\ run[r].pc # "idle" /\ run[q].pc # "idle" /\ run[r].job = run[q].job
                       => run[r].job \in overlapped

\* What the queue gains.
LEMMA AppendQueue ==
  ASSUME Typed, NEW y \in [job: Calls, attempts: Attempts], queue' = Append(queue, y), NEW x, Queued(x)'
  PROVE  Queued(x) \/ x = y
  <1> DEFINE S == [job: Calls, attempts: Attempts]
  <1>1. queue \in Seq(S) /\ y \in S
    BY DEF Typed, TablesTyped
  <1> HIDE DEF S
  <1>2. \A i \in 1..Len(Append(queue, y)) :
          (i \in 1..Len(queue) /\ Append(queue, y)[i] = queue[i]) \/ Append(queue, y)[i] = y
    BY <1>1
  <1>3. PICK i \in 1..Len(queue') : queue'[i] = x
    BY DEF Queued
  <1> QED
    BY <1>2, <1>3 DEF Queued

\* A step of a run leaves what is queued; to start takes one away.
LEMMA QueueShrinks ==
  ASSUME Typed, [Next]_vars, ~\E c \in Calls : Enqueue(c) \/ Load(c), NEW x, Queued(x)'
  PROVE  Queued(x)
  <1>1. CASE UNCHANGED queue
    BY <1>1 DEF Queued
  <1>2. CASE queue' = <<>>
    BY <1>2 DEF Queued
  <1>3. CASE Refused \/ \E r \in Runs : StartRun(r)
    <2>1. queue' = Tail(queue) /\ queue # <<>>
      BY <1>3 DEF Refused, StartRun
    <2>2. \A i \in 1..Len(Tail(queue)) : i + 1 \in 1..Len(queue) /\ Tail(queue)[i] = queue[i + 1]
      BY <2>1, FirstOf DEF Typed, TablesTyped
    <2>3. PICK i \in 1..Len(Tail(queue)) : Tail(queue)[i] = x
      BY <2>1 DEF Queued
    <2> QED
      BY <2>2, <2>3 DEF Queued
  <1>4. ASSUME NEW r \in Runs, Deliver(r) \/ Timeout(r) PROVE UNCHANGED queue
    BY <1>4 DEF Timeout, Deliver, ReadNotifications, DeliverInApp, TakeEmail, Skip, ReadUser,
       ReadChannel, SendMail, AnswerLost, MailFails, RecordSent, RecordFailed, AllHandled,
       RecordSentError, QueryError
  <1>5. CASE Apart
    BY <1>1, <1>3, <1>5 DEF Apart, Create, Lookup, QueryTemplate, StoreTemplate, CreateRows, CreateRejected,
       Withdraw, CancelRead, CancelDelete, Sweep, Edit, EditTemplate, EditChannel, ClearCache,
       DeleteUser, Restart, vars
  <1>6. CASE Crash
    BY <1>2, <1>6 DEF Crash
  <1> QED
    BY <1>1, <1>3, <1>4, <1>5, <1>6, Steps

LEMMA StaysBegun ==
  ASSUME Typed, [Next]_vars, NEW c \in Calls
  PROVE  /\ Begun(c) => Begun(c)'
         /\ Begun(c)' => Begun(c) \/ CreateRows(c) \/ CreateRejected(c) \/ Crash
  <1>0. create \in [Calls -> [pc: {"idle", "query", "store", "users", "enqueue", "done"},
                              version: 0..MaxEvents \cup {None}, disabled: BOOLEAN]]
    BY DEF Typed, CreatesTyped
  <1>1. CASE UNCHANGED create
    BY <1>1 DEF Begun
  <1>2. ASSUME NEW d \in Calls, Create(d), d # c PROVE create'[c] = create[c]
    BY <1>0, <1>2 DEF Create, Lookup, QueryTemplate, StoreTemplate, CreateRows, CreateRejected, Enqueue,
       Goto, Drop
  <1>3. CASE Lookup(c) \/ QueryTemplate(c) \/ StoreTemplate(c)
    BY <1>0, <1>3 DEF Lookup, QueryTemplate, StoreTemplate, Goto, Begun
  <1>4. CASE CreateRows(c) \/ CreateRejected(c)
    BY <1>4 DEF CreateRows, CreateRejected, Begun
  <1>5. CASE Enqueue(c)
    <2>1. create'[c] = [Unresolved EXCEPT !.pc = "done"] /\ Unresolved.pc = "idle"
      BY <1>0, <1>5 DEF Enqueue, Drop, Unresolved
    <2> QED
      BY <1>5, <2>1 DEF Enqueue, Begun, Unresolved
  <1>6. CASE Crash
    <2>1. Begun(c) => create'[c] = [Unresolved EXCEPT !.pc = "done"]
      BY <1>6 DEF Crash, Begun
    <2> QED
      BY <1>6, <2>1 DEF Begun, Unresolved
  <1>7. ASSUME NEW r \in Runs, StartRun(r) \/ Deliver(r) \/ Timeout(r) PROVE UNCHANGED create
    BY <1>7 DEF StartRun, Timeout, Deliver, ReadNotifications, DeliverInApp, TakeEmail, Skip, ReadUser,
       ReadChannel, SendMail, AnswerLost, MailFails, RecordSent, RecordFailed, AllHandled,
       RecordSentError, QueryError,
       callVars
  <1>8. CASE Apart
    <2>1. CASE \E d \in Calls : Create(d)
      <3>1. PICK d \in Calls : Create(d)
        BY <2>1
      <3>2. CASE d # c
        BY <1>2, <3>1, <3>2 DEF Begun
      <3>3. CASE d = c
        BY <1>3, <1>4, <1>5, <3>1, <3>3 DEF Create, CreateRows, CreateRejected, Begun
      <3> QED
        BY <3>2, <3>3
    <2> QED
      BY <1>1, <1>8, <2>1 DEF Apart, Load, Withdraw, CancelRead, CancelDelete, Sweep, Gone, Refused,
         Edit, EditTemplate, EditChannel, ClearCache, DeleteUser, Restart,
         vars, callVars
  <1> QED
    BY <1>1, <1>6, <1>7, <1>8, Steps

\* How a job changes: with its rows, when a run starts, when one that owns it
\* ends or times out, or when it is deleted.
Created(c) == CreateRows(c) /\ job'[c].status = "PENDING" /\ job'[c].attempts = job[c].attempts
Started(c) ==
  \E r \in Runs : /\ StartRun(r) /\ Head(queue).job = c /\ job'[c].status = "PROCESSING"
                  /\ job'[c].attempts = Head(queue).attempts + 1
Left(c, r) ==
  /\ run[r].pc # "idle" /\ Writes(r) /\ run[r].job = c /\ job'[c].attempts = job[c].attempts
  /\ \/ Deliver(r) /\ Completes(r) /\ job'[c].status = "COMPLETED"
     \/ /\ Timeout(r) \/ (Deliver(r) /\ Fails(r))
        /\ job'[c].status = IF run[r].attempts + 1 >= MaxAttempts THEN "FAILED" ELSE "PENDING"
Deleted(c) ==
  /\ job[c].status # "none" /\ job'[c].status = "deleted" /\ job'[c].attempts = job[c].attempts
  /\ UNCHANGED <<note, run, queue, skipped>>
  /\ c \in dropped' \/ job[c].status \in {"COMPLETED", "deleted"}

LEMMA JobStep ==
  ASSUME Typed, [Next]_vars, NEW c \in Calls
  PROVE  job'[c] = job[c] \/ Created(c) \/ Started(c) \/ Deleted(c) \/ \E r \in Runs : Left(c, r)
  <1>0. job \in [Calls -> Job]
    BY DEF Typed, TablesTyped, Job
  <1>1. CASE Apart
    <2>1. ASSUME NEW d \in Calls, CreateRows(d) PROVE job'[c] = job[c] \/ Created(c)
      <3>1. CASE c = d /\ ~create[d].disabled
        <4>1. job' = [job EXCEPT ![c].status = "PENDING"]
          BY <2>1, <3>1 DEF CreateRows
        <4> QED
          BY <1>0, <2>1, <3>1, <4>1 DEF Job, Created
      <3>2. CASE c # d \/ create[d].disabled
        BY <1>0, <2>1, <3>2 DEF CreateRows
      <3> QED
        BY <3>1, <3>2
    <2>3. ASSUME NEW d \in Calls, Withdraw(d) PROVE job'[c] = job[c] \/ Deleted(c)
      <3>1. \/ UNCHANGED job
            \/ /\ job' = [job EXCEPT ![d] = [job[d] EXCEPT !.status = "deleted"]] /\ job[d].status # "none"
               /\ dropped' = IF job[d].status = "COMPLETED" THEN dropped ELSE dropped \cup {d}
               /\ UNCHANGED <<note, run, queue, skipped>>
        BY <2>3 DEF Withdraw, CancelRead, CancelDelete, Sweep, Gone, rows
      <3> QED
        BY <1>0, <3>1 DEF Deleted, Job
    <2>2. CASE ~\E d \in Calls : CreateRows(d) \/ Withdraw(d)
      BY <1>1, <2>2 DEF Apart, Create, Lookup, QueryTemplate, StoreTemplate, CreateRejected, Enqueue,
         Load, Refused, Edit, EditTemplate, EditChannel, ClearCache, DeleteUser, Restart, vars, rows
    <2> QED
      BY <2>1, <2>2, <2>3
  <1>2. ASSUME NEW r \in Runs, StartRun(r) PROVE job'[c] = job[c] \/ Started(c)
    <2>1. job' = [job EXCEPT ![Head(queue).job] =
                    [status |-> "PROCESSING", attempts |-> Head(queue).attempts + 1]]
      BY <1>2 DEF StartRun
    <2> QED
      BY <1>0, <1>2, <2>1 DEF Started
  <1>3. ASSUME NEW r \in Runs, Timeout(r) PROVE job'[c] = job[c] \/ Left(c, r)
    <2> DEFINE x == IF run[r].attempts + 1 >= MaxAttempts THEN "FAILED" ELSE "PENDING"
    <2>1. job' = (IF Writes(r) THEN [job EXCEPT ![run[r].job] = Ended(r, x)] ELSE job) /\ run[r].pc # "idle"
      BY <1>3 DEF Timeout, Failed, Ended
    <2> QED
      BY <1>0, <1>3, <2>1 DEF Left, Ended, Job
  <1>4. ASSUME NEW r \in Runs, Deliver(r) PROVE job'[c] = job[c] \/ Left(c, r)
    <2>1. run[r].pc # "idle"
      BY <1>4, DeliverRun
    <2>2. CASE Completes(r)
      <3>1. job' = IF Writes(r) THEN [job EXCEPT ![run[r].job] = Ended(r, "COMPLETED")] ELSE job
        BY <2>2 DEF Completes
      <3>2. CASE Writes(r) /\ run[r].job = c
        <4>1. job'[c] = Ended(r, "COMPLETED")
          BY <1>0, <3>1, <3>2
        <4> QED
          BY <1>0, <1>4, <2>1, <2>2, <3>2, <4>1 DEF Left, Ended, Job
      <3>3. CASE ~Writes(r) \/ run[r].job # c
        BY <1>0, <3>1, <3>3
      <3> QED
        BY <3>2, <3>3
    <2>3. CASE Fails(r)
      <3> DEFINE x == IF run[r].attempts + 1 >= MaxAttempts THEN "FAILED" ELSE "PENDING"
      <3>1. job' = IF Writes(r) THEN [job EXCEPT ![run[r].job] = Ended(r, x)] ELSE job
        BY <2>3 DEF Fails
      <3>2. CASE Writes(r) /\ run[r].job = c
        <4>1. job'[c] = Ended(r, x)
          BY <1>0, <3>1, <3>2
        <4> QED
          BY <1>0, <1>4, <2>1, <2>3, <3>2, <4>1 DEF Left, Ended, Job
      <3>3. CASE ~Writes(r) \/ run[r].job # c
        BY <1>0, <3>1, <3>3
      <3> QED
        BY <3>2, <3>3
    <2> QED
      BY <1>4, <2>2, <2>3, DeliverJob DEF GoesOnly
  <1>5. CASE Crash
    BY <1>5 DEF Crash, rows
  <1> QED
    BY <1>1, <1>2, <1>3, <1>4, <1>5, Steps

\* What a run knows when it starts.
LEMMA StartAt ==
  ASSUME Typed, NEW r \in Runs, StartRun(r)
  PROVE  /\ run'[r].job = Head(queue).job /\ run'[r].attempts = Head(queue).attempts
         /\ run'[r].pc = "read" /\ run'[r].owned /\ run'[r].left = {} /\ run'[r].note = NoNote
         /\ \A q \in Runs \ {r} : run'[q] = run[q]
  <1>1. PICK v : /\ Becomes(r, v) /\ v.pc = "read" /\ v.job = Head(queue).job
                 /\ v.attempts = Head(queue).attempts /\ v.owned = TRUE /\ v.left = {} /\ v.note = NoNote
    BY StartsRun
  <1>2. run'[r] = v /\ \A q \in Runs \ {r} : run'[q] = run[q]
    BY <1>1, BecomesAt DEF Typed
  <1> QED
    BY <1>1, <1>2

\* How a run changes: it starts, goes on, or ends.
LEMMA RunStep ==
  ASSUME Typed, [Next]_vars, NEW r \in Runs, run'[r].pc # "idle"
  PROVE  \/ run'[r] = run[r] /\ ~StartRun(r) /\ ~Deliver(r) /\ ~Timeout(r)
         \/ /\ StartRun(r) /\ run'[r].job = Head(queue).job /\ run'[r].attempts = Head(queue).attempts
            /\ run'[r].pc = "read" /\ run'[r].owned /\ run'[r].left = {} /\ run'[r].note = NoNote
         \/ Deliver(r) /\ run[r].pc # "idle" /\ GoesOn(run[r], run'[r])
         \/ Timeout(r) /\ run[r].pc # "idle" /\ run'[r] = [run[r] EXCEPT !.owned = FALSE] /\ run[r] \in Run
  <1>0. RunsTyped
    BY DEF Typed
  <1>1. CASE StartRun(r)
    BY <1>1, StartAt
  <1>2. CASE Deliver(r)
    <2>1. PICK v : Becomes(r, v) /\ (v = Idle \/ GoesOn(run[r], v))
      BY <1>2, DeliverRun
    <2>2. run'[r] = v
      BY <1>0, <2>1, BecomesAt
    <2> QED
      BY <1>2, <2>1, <2>2, DeliverRun, IdleFits
  <1>3. CASE Timeout(r)
    BY <1>0, <1>3, TimesOut, BecomesAt
  <1>4. CASE ~StartRun(r) /\ ~Deliver(r) /\ ~Timeout(r)
    <2>1. ASSUME NEW q \in Runs, StartRun(q) \/ Deliver(q) \/ Timeout(q) PROVE run'[r] = run[r]
      BY <1>0, <1>4, <2>1, SomeRun, BecomesAt
    <2>2. ~Crash
      BY IdleFits DEF Crash
    <2> QED
      BY <1>4, <2>1, <2>2, Steps, ApartRuns
  <1> QED
    BY <1>1, <1>2, <1>3, <1>4

\* The run of a step that starts is a new one, and the first in the queue is it.
LEMMA HeadQueued ==
  ASSUME Typed, queue # <<>>
  PROVE  Queued(Head(queue)) /\ Head(queue) \in [job: Calls, attempts: Attempts]
  BY FirstOf DEF Typed, TablesTyped, Queued

LEMMA QueuedTyped ==
  ASSUME Typed, NEW x, Queued(x)
  PROVE  x \in [job: Calls, attempts: Attempts]
  <1> DEFINE S == [job: Calls, attempts: Attempts]
  <1>1. queue \in Seq(S)
    BY DEF Typed, TablesTyped
  <1> HIDE DEF S
  <1>2. x \in S
    BY <1>1 DEF Queued
  <1> QED
    BY <1>2 DEF S

LEMMA EnterQueue ==
  ASSUME Typed, NEW c \in Calls, Enqueue(c) \/ Load(c)
  PROVE  \E y \in [job: Calls, attempts: Attempts] :
           /\ queue' = Append(queue, y) /\ y.job = c
           /\ y.attempts = IF Enqueue(c) THEN 0 ELSE job[c].attempts
  <1>1. CASE Enqueue(c)
    <2> DEFINE y == [job |-> c, attempts |-> 0]
    <2>1. y \in [job: Calls, attempts: Attempts] /\ y.job = c /\ y.attempts = 0
      BY DEF Attempts
    <2> HIDE DEF y
    <2> QED
      BY <1>1, <2>1 DEF Enqueue, y
  <1>2. CASE ~Enqueue(c)
    <2> DEFINE y == [job |-> c, attempts |-> job[c].attempts]
    <2>1. y \in [job: Calls, attempts: Attempts] /\ y.job = c /\ y.attempts = job[c].attempts
      BY DEF Attempts, Typed, TablesTyped
    <2>2. queue' = Append(queue, y)
      BY <1>2 DEF Load
    <2> HIDE DEF y
    <2> QED
      BY <1>2, <2>1, <2>2
  <1> QED
    BY <1>1, <1>2

LEMMA StepOrigins ==
  ASSUME Typed, Origins, [Next]_vars
  PROVE  Origins'
  <1>1. ASSUME NEW c \in Calls, ~Begun(c)' PROVE job'[c].status = "none" /\ job'[c].attempts = 0
    <2>1. ~Begun(c) /\ job[c].status = "none" /\ job[c].attempts = 0
      BY <1>1, StaysBegun DEF Origins
    <2>2. ~Created(c)
      <3>1. CreateRows(c) => Begun(c)'
        <4>1. ASSUME NEW p \in {"done", "enqueue"}, Drop(c, p) PROVE Begun(c)'
          <5>1. create'[c] = [Unresolved EXCEPT !.pc = p]
            BY <4>1 DEF Drop, Typed, CreatesTyped
          <5> QED
            BY <5>1 DEF Unresolved, Begun
        <4> QED
          BY <4>1 DEF CreateRows
      <3> QED
        BY <1>1, <3>1 DEF Created
    <2>3. ~Started(c) /\ ~Deleted(c) /\ ~\E r \in Runs : Left(c, r)
      BY <2>1, HeadQueued DEF Started, StartRun, Deleted, Left, Origins
    <2> QED
      BY <2>1, <2>2, <2>3, JobStep
  <1>2. ASSUME NEW x, Queued(x)' PROVE Begun(x.job)'
    <2>1. ASSUME Queued(x) PROVE x.job \in Calls /\ Begun(x.job)
      BY <2>1, QueuedTyped DEF Origins
    <2>2. ASSUME NEW c \in Calls, Enqueue(c) \/ Load(c) PROVE x.job \in Calls /\ Begun(x.job)
      <3>1. PICK y \in [job: Calls, attempts: Attempts] : queue' = Append(queue, y) /\ y.job = c
        BY <2>2, EnterQueue
      <3>2. Begun(c)
        BY <2>2 DEF Enqueue, Load, Begun, Origins
      <3> QED
        BY <1>2, <2>1, <3>1, <3>2, AppendQueue
    <2>3. x.job \in Calls /\ Begun(x.job)
      BY <1>2, <2>1, <2>2, QueueShrinks
    <2> QED
      BY <2>3, StaysBegun
  <1>3. ASSUME NEW r \in Runs, run'[r].pc # "idle" PROVE Begun(run[r].job)'
    <2>1. CASE StartRun(r)
      <3>1. run'[r].job = Head(queue).job
        BY <1>3, <2>1, StartAt
      <3> QED
        BY <2>1, <3>1, HeadQueued, StaysBegun DEF StartRun, Origins
    <2>2. CASE ~StartRun(r)
      <3>1. run[r].pc # "idle" /\ run'[r].job = run[r].job
        BY <1>3, <2>2, RunStep DEF GoesOn, Run
      <3> QED
        BY <3>1, ActiveRun, StaysBegun DEF Origins, Typed
    <2> QED
      BY <2>1, <2>2
  <1> QED
    BY <1>1, <1>2, <1>3 DEF Origins

LEMMA Grows ==
  ASSUME [Next]_vars
  PROVE  overlapped \subseteq overlapped' /\ unrecorded \subseteq unrecorded'
         /\ skipped \subseteq skipped' /\ dropped \subseteq dropped'
         /\ (trouble \in Nat => trouble' \in {trouble, trouble + 1})
  <1>1. CASE Apart
    BY <1>1 DEF Apart, Create, Lookup, QueryTemplate, StoreTemplate, CreateRows, CreateRejected,
       Enqueue, Load, Withdraw, CancelRead, CancelDelete, Sweep, Gone, Refused, Edit, EditTemplate,
       EditChannel, ClearCache, DeleteUser, Restart, vars, hist, Trouble
  <1>2. ASSUME NEW r \in Runs, StartRun(r) \/ Deliver(r) \/ Timeout(r)
        PROVE  overlapped \subseteq overlapped' /\ unrecorded \subseteq unrecorded'
               /\ skipped \subseteq skipped' /\ dropped \subseteq dropped'
               /\ (trouble \in Nat => trouble' \in {trouble, trouble + 1})
    BY <1>2 DEF StartRun, Timeout, Deliver, ReadNotifications, DeliverInApp, TakeEmail, Skip, ReadUser,
       ReadChannel, SendMail, AnswerLost, MailFails, RecordSent, RecordFailed, AllHandled,
       RecordSentError, QueryError,
       hist, Trouble
  <1>3. CASE Crash
    BY <1>3 DEF Crash
  <1> QED
    BY <1>1, <1>2, <1>3, Steps

LEMMA StepAlone ==
  ASSUME Typed, Alone, [Next]_vars
  PROVE  Alone'
  <1> SUFFICES ASSUME NEW r \in Runs, NEW q \in Runs, r # q, run'[r].pc # "idle", run'[q].pc # "idle",
                      run'[r].job = run'[q].job
               PROVE  run'[r].job \in overlapped'
    BY DEF Alone
  <1>1. ASSUME NEW s \in Runs, NEW t \in Runs, s # t, StartRun(s), run'[t].pc # "idle",
               run'[t].job = run'[s].job
        PROVE  run'[s].job \in overlapped'
    <2>1. run'[s].job = Head(queue).job /\ run'[t] = run[t]
      BY <1>1, StartAt
    <2>2. t \in Active(Head(queue).job)
      BY <1>1, <2>1 DEF Active
    <2> QED
      BY <1>1, <2>1, <2>2 DEF StartRun
  <1>2. CASE ~StartRun(r) /\ ~StartRun(q)
    <2>1. /\ run[r].pc # "idle" /\ run'[r].job = run[r].job
          /\ run[q].pc # "idle" /\ run'[q].job = run[q].job
      BY <1>2, RunStep DEF GoesOn, Run
    <2> QED
      BY <2>1, Grows DEF Alone
  <1> QED
    BY <1>1, <1>2

-----------------------------------------------------------------------------
(* Attempts.                                                               *)

\* A run whose batch has lost a notification since it was read.
Bereft(r) == \E n \in run[r].left \cup {run[r].note} : n \in Notes /\ note[n] = "deleted"

\* Where no runs overlapped, each attempt but the last was ended by trouble of
\* its own, and so is the last one if it has lost a notification.
Tried ==
  /\ \A c \in Calls \ overlapped : job[c].status = "PENDING" => job[c].attempts <= trouble
  /\ \A x : Queued(x) /\ x.job \notin overlapped => x.attempts <= trouble
  /\ \A r \in Runs : run[r].pc # "idle" /\ run[r].job \notin overlapped =>
       /\ run[r].attempts <= trouble
       /\ run[r].owned => job[run[r].job].attempts = run[r].attempts + 1
       /\ Bereft(r) => run[r].attempts < trouble

\* A run that fails has had trouble.
LEMMA FailsByTrouble ==
  ASSUME Typed, Tried, [Next]_vars, NEW r \in Runs, run[r].pc # "idle", run[r].job \notin overlapped,
         Writes(r), Timeout(r) \/ (Deliver(r) /\ Fails(r))
  PROVE  run[r].attempts + 1 <= trouble'
  <1>0. run[r].attempts \in Nat /\ trouble \in Nat /\ run[r].attempts <= trouble /\ RunsTyped
    BY ActiveRun, NotificationsAssumption DEF Run, Attempts, Typed, CreatesTyped, Tried
  <1>1. CASE Timeout(r) \/ RecordSentError(r) \/ QueryError(r)
    BY <1>0, <1>1 DEF Timeout, RecordSentError, QueryError, Trouble
  <1>2. CASE (RecordSent(r) \/ RecordFailed(r)) /\ note[run[r].note] = "deleted"
    <2>1. Bereft(r)
      BY <1>0, <1>2, ActiveRun DEF RecordSent, RecordFailed, Fits, Handling, Bereft
    <2> QED
      BY <1>0, <1>2, <2>1 DEF Tried, RecordSent, RecordFailed
  <1>3. ASSUME Deliver(r), Fails(r), ~RecordSentError(r), ~QueryError(r),
               ~((RecordSent(r) \/ RecordFailed(r)) /\ note[run[r].note] = "deleted")
        PROVE  FALSE
    <2>1. run'[r] = Idle
      BY <1>3 DEF Fails
    <2>2. ASSUME NEW p \in RunPCs, Step(r, p) PROVE FALSE
      <3>1. run'[r].pc = p
        BY <1>0, <2>2, ActiveRun DEF Step, RunsTyped, Run
      <3> QED
        BY <2>1, <3>1, IdleFits DEF RunPCs
    <2>3. ASSUME NEW n, NEW p \in RunPCs, Takes(r, n, p) PROVE FALSE
      <3>1. run'[r].pc = p
        BY <1>0, <2>3, ActiveRun DEF Takes, RunsTyped, Run
      <3> QED
        BY <2>1, <3>1, IdleFits DEF RunPCs
    <2>4. ~ReadNotifications(r)
      <3>1. ReadNotifications(r) => run'[r].pc = "each"
        BY <1>0, ActiveRun DEF ReadNotifications, RunsTyped, Run
      <3> QED
        BY <2>1, <3>1, IdleFits
    <2>5. ~AllHandled(r)
      <3> DEFINE c == run[r].job
                 x == IF run[r].attempts + 1 >= MaxAttempts THEN "FAILED" ELSE "PENDING"
      <3>1. c \in Calls /\ job \in [Calls -> Job]
        BY <1>0, ActiveRun DEF Typed, TablesTyped, Job
      <3>2. job' = [job EXCEPT ![c] = [job[c] EXCEPT !.status = x]]
        BY <1>3 DEF Fails, Ended
      <3>3. job'[c].status # "COMPLETED"
        BY <3>1, <3>2 DEF Job
      <3>4. AllHandled(r) => job' = [job EXCEPT ![c] = [job[c] EXCEPT !.status = "COMPLETED"]]
        BY DEF AllHandled, Resolve, Finish
      <3>5. AllHandled(r) => job'[c].status = "COMPLETED"
        BY <3>1, <3>4 DEF Job
      <3> QED
        BY <3>3, <3>5
    <2> QED
      BY <1>3, <2>2, <2>3, <2>4, <2>5 DEF Deliver, DeliverInApp, TakeEmail, Skip, ReadUser, ReadChannel,
         SendMail, AnswerLost, MailFails, RecordSent, RecordFailed, RunPCs
  <1> QED
    BY <1>1, <1>2, <1>3

\* What a run has before it only gets less once it is read.
LEMMA DeliverLeft ==
  ASSUME Typed, NEW r \in Runs, Deliver(r), run'[r].pc # "idle"
  PROVE  \/ /\ ReadNotifications(r) /\ run'[r].note = run[r].note
            /\ run'[r].left = {n \in Of(run[r].job) : note[n] = "PENDING"}
         \/ run'[r].left \cup {run'[r].note} \subseteq run[r].left \cup {run[r].note}
  <1>0. RunsTyped /\ run[r] \in Run
    BY DeliverRun, ActiveRun DEF Typed
  <1>1. CASE ReadNotifications(r)
    BY <1>0, <1>1 DEF ReadNotifications, RunsTyped, Run
  <1>2. ASSUME NEW p, Step(r, p) PROVE run'[r].left = run[r].left /\ run'[r].note = run[r].note
    BY <1>0, <1>2 DEF Step, RunsTyped, Run
  <1>3. ASSUME NEW n \in run[r].left, NEW p, Takes(r, n, p)
        PROVE  run'[r].left \subseteq run[r].left /\ run'[r].note = n
    BY <1>0, <1>3 DEF Takes, RunsTyped, Run
  <1>4. ASSUME NEW x, Finish(r, x) PROVE FALSE
    BY <1>0, <1>4, IdleFits DEF Finish, RunsTyped
  <1>5. CASE \E n \in Notes : DeliverInApp(r, n) \/ TakeEmail(r, n) \/ Skip(r, n)
    BY <1>3, <1>5 DEF DeliverInApp, TakeEmail, Skip, HasNext
  <1>6. CASE ReadUser(r) \/ ReadChannel(r) \/ SendMail(r) \/ AnswerLost(r) \/ MailFails(r)
             \/ RecordSent(r) \/ RecordFailed(r)
             \/ RecordSentError(r)
    BY <1>2, <1>4, <1>6 DEF ReadUser, ReadChannel, SendMail, AnswerLost, MailFails, RecordSent,
       RecordFailed,
       RecordSentError, SentThrows, Reject
  <1>7. CASE AllHandled(r) \/ QueryError(r)
    BY <1>4, <1>7 DEF AllHandled, QueryError, Resolve, Reject
  <1> QED
    BY <1>1, <1>5, <1>6, <1>7 DEF Deliver

\* How a notification changes.
LEMMA NoteStep ==
  ASSUME Typed, [Next]_vars, NEW n \in Notes, note'[n] # note[n]
  PROVE  \/ /\ note'[n] = "deleted" /\ trouble' = trouble + 1 /\ UNCHANGED <<run, job, queue>>
            /\ UNCHANGED <<delivered, unrecorded, overlapped, skipped>>
         \/ CreateRows(n[1]) /\ note[n] = "none" /\ note'[n] \in {"FAILED", "PENDING"}
         \/ \E r \in Runs : /\ Deliver(r) /\ Step(r, "each") /\ run[r].note = n /\ note[n] # "deleted"
                            /\ \/ run[r].pc = "sent" /\ note'[n] = "SENT"
                               \/ run[r].pc = "failed" /\ note'[n] = "FAILED"
  <1>0. note \in [Notes -> {"none", "PENDING", "SENT", "FAILED", "deleted"}]
    BY DEF Typed, TablesTyped
  <1>1. ASSUME NEW u \in Users, DeleteUser(u) PROVE /\ note'[n] = "deleted" /\ trouble' = trouble + 1
               /\ UNCHANGED <<run, job, queue>> /\ UNCHANGED <<delivered, unrecorded, overlapped, skipped>>
    BY <1>0, <1>1 DEF DeleteUser, Trouble, hist
  <1>2. ASSUME NEW c \in Calls, CreateRows(c)
        PROVE  c = n[1] /\ note[n] = "none" /\ note'[n] \in {"FAILED", "PENDING"}
    BY <1>0, <1>2 DEF CreateRows, Of
  <1>3. CASE Apart
    BY <1>1, <1>2, <1>3 DEF Apart, Create, Lookup, QueryTemplate, StoreTemplate, CreateRejected, Enqueue,
       Load, Withdraw, CancelRead, CancelDelete, Sweep, Gone, Refused, Edit, EditTemplate, EditChannel,
       ClearCache, Restart, vars, rows
  <1>4. ASSUME NEW r \in Runs, Deliver(r)
        PROVE  /\ Step(r, "each") /\ run[r].note = n /\ note[n] # "deleted"
               /\ \/ run[r].pc = "sent" /\ note'[n] = "SENT"
                  \/ run[r].pc = "failed" /\ note'[n] = "FAILED"
    BY <1>0, <1>4, DeliverNotes
  <1>5. ASSUME NEW r \in Runs, StartRun(r) \/ Timeout(r) PROVE UNCHANGED note
    BY <1>5 DEF StartRun, Timeout
  <1>6. CASE Crash
    BY <1>6 DEF Crash, rows
  <1> QED
    BY <1>3, <1>4, <1>5, <1>6, Steps

LEMMA StepTried ==
  ASSUME Typed, Origins, Alone, Tried, [Next]_vars
  PROVE  Tried'
  <1>0. /\ trouble \in Nat /\ trouble' \in Nat /\ trouble <= trouble' /\ overlapped \subseteq overlapped'
        /\ RunsTyped /\ job \in [Calls -> Job] /\ \A c \in Calls : job[c].attempts \in Nat
    BY Grows, NotificationsAssumption DEF Typed, CreatesTyped, TablesTyped, Job, Attempts
  <1>1. ASSUME NEW c \in Calls \ overlapped', job'[c].status = "PENDING" PROVE job'[c].attempts <= trouble'
    <2>1. CASE job'[c] = job[c]
      BY <1>0, <1>1, <2>1 DEF Tried
    <2>2. CASE Created(c)
      <3>1. job[c].attempts = 0
        BY <2>2 DEF Created, CreateRows, Begun, Origins
      <3> QED
        BY <1>0, <2>2, <3>1 DEF Created
    <2>3. ~Started(c)
      BY <1>1 DEF Started
    <2>4. ASSUME NEW r \in Runs, Left(c, r) PROVE job'[c].attempts <= trouble'
      <3>1. /\ run[r].pc # "idle" /\ Writes(r) /\ run[r].job = c /\ c \notin overlapped
            /\ job'[c].attempts = job[c].attempts /\ (Timeout(r) \/ (Deliver(r) /\ Fails(r)))
        BY <1>0, <1>1, <2>4 DEF Left
      <3>2. run[r].attempts + 1 <= trouble'
        BY <3>1, FailsByTrouble
      <3> QED
        BY <3>1, <3>2 DEF Tried, Writes
    <2> QED
      BY <1>1, <2>1, <2>2, <2>3, <2>4, JobStep DEF Deleted
  <1>2. ASSUME NEW x, Queued(x)', x.job \notin overlapped' PROVE x.attempts <= trouble'
    <2>1. ASSUME Queued(x) PROVE x.attempts <= trouble'
      <3>1. x.attempts \in Nat /\ x.attempts <= trouble
        BY <1>0, <1>2, <2>1, QueuedTyped DEF Tried, Attempts
      <3> QED
        BY <1>0, <3>1
    <2>2. ASSUME NEW c \in Calls, Enqueue(c) \/ Load(c), ~Queued(x) PROVE x.attempts <= trouble'
      <3>1. PICK y \in [job: Calls, attempts: Attempts] :
              /\ queue' = Append(queue, y) /\ y.job = c
              /\ y.attempts = IF Enqueue(c) THEN 0 ELSE job[c].attempts
        BY <2>2, EnterQueue
      <3>2. x = y
        BY <1>2, <2>2, <3>1, AppendQueue
      <3>3. ~Enqueue(c) => job[c].attempts <= trouble
        BY <1>0, <1>2, <2>2, <3>1, <3>2 DEF Load, Tried
      <3> QED
        BY <1>0, <3>1, <3>2, <3>3
    <2> QED
      BY <1>2, <2>1, <2>2, QueueShrinks
  <1>3. ASSUME NEW r \in Runs, run'[r].pc # "idle", run'[r].job \notin overlapped'
        PROVE  /\ run'[r].attempts <= trouble'
               /\ run'[r].owned => job'[run'[r].job].attempts = run'[r].attempts + 1
               /\ Bereft(r)' => run'[r].attempts < trouble'
    <2>1. CASE StartRun(r)
      <3> DEFINE h == Head(queue)
      <3>1. run'[r].job = h.job /\ run'[r].attempts = h.attempts /\ run'[r].left = {}
                 /\ run'[r].note = NoNote
        BY <2>1, StartAt
      <3>2. Queued(h) /\ h \in [job: Calls, attempts: Attempts]
        BY <2>1, HeadQueued DEF StartRun
      <3>3. h.attempts <= trouble /\ h.attempts \in Nat
        BY <1>0, <1>3, <3>1, <3>2 DEF Tried, Attempts
      <3>4. job'[h.job].attempts = h.attempts + 1
        BY <1>0, <2>1, <3>2 DEF StartRun
      <3> QED
        BY <1>0, <3>1, <3>3, <3>4, NotANote DEF Bereft
    <2>2. CASE ~StartRun(r)
      <3> DEFINE c == run[r].job
      <3>1. /\ run[r].pc # "idle" /\ run[r] \in Run /\ c \in Calls
            /\ run'[r].job = c /\ run'[r].attempts = run[r].attempts /\ (run'[r].owned => run[r].owned)
        <4>1. run[r].pc # "idle" /\ run[r] \in Run /\ c \in Calls
          BY <1>0, <1>3, <2>2, RunStep, ActiveRun
        <4> QED
          BY <1>3, <2>2, <4>1, RunStep DEF GoesOn, Run
      <3>2. c \notin overlapped /\ run[r].attempts \in Nat /\ run[r].attempts <= trouble
        BY <1>0, <1>3, <3>1 DEF Tried, Run, Attempts
      <3>3. ASSUME run'[r].owned PROVE job'[c].attempts = run[r].attempts + 1
        <4>1. job[c].attempts = run[r].attempts + 1
          BY <3>1, <3>2, <3>3 DEF Tried
        <4>2. ~Created(c)
          BY <3>1 DEF Created, CreateRows, Origins, Begun
        <4>3. ~Started(c)
          <5>1. ASSUME NEW q \in Runs, StartRun(q), Head(queue).job = c PROVE c \in overlapped'
            BY <3>1, <5>1 DEF StartRun, Active
          <5> QED
            BY <1>3, <3>1, <5>1 DEF Started
        <4> QED
          BY <3>1, <4>1, <4>2, <4>3, JobStep DEF Left, Deleted
      <3>4. ASSUME Bereft(r)' PROVE run[r].attempts < trouble'
        <4>1. PICK n \in run'[r].left \cup {run'[r].note} : n \in Notes /\ note'[n] = "deleted"
          BY <3>4 DEF Bereft
        <4>2. CASE note[n] # "deleted"
          <5>1. trouble' = trouble + 1
            BY <1>0, <4>1, <4>2, NoteStep
          <5> QED
            BY <1>0, <3>2, <5>1
        <4>3. CASE note[n] = "deleted"
          <5>1. n \in run[r].left \cup {run[r].note}
            <6>1. CASE Deliver(r)
              BY <1>3, <4>1, <4>3, <6>1, DeliverLeft
            <6>2. CASE ~Deliver(r)
              BY <1>3, <2>2, <4>1, <6>2, RunStep DEF Run
            <6> QED
              BY <6>1, <6>2
          <5>2. run[r].attempts < trouble
            BY <3>1, <3>2, <4>1, <4>3, <5>1 DEF Bereft, Tried
          <5> QED
            BY <1>0, <3>2, <5>2
        <4> QED
          BY <4>2, <4>3
      <3> QED
        BY <1>0, <3>1, <3>2, <3>3, <3>4
    <2> QED
      BY <2>1, <2>2
  <1> QED
    BY <1>1, <1>2, <1>3 DEF Tried

\* A job is given up only after as many failures of the environment as it has
\* attempts, unless its runs overlapped.
THEOREM GivenUps == Spec => []GivenUpOnlyByTrouble
  <1> DEFINE Inv == Typed /\ Origins /\ Alone /\ Tried /\ GivenUpOnlyByTrouble
  <1>1. Init => Inv
    <2> SUFFICES ASSUME Init PROVE Inv
      OBVIOUS
    <2>1. /\ \A c \in Calls : job[c].status = "none" /\ job[c].attempts = 0
          /\ queue = <<>> /\ \A r \in Runs : run[r].pc = "idle"
      BY IdleFits DEF Init
    <2>2. \A x : ~Queued(x)
      BY <2>1 DEF Queued
    <2> QED
      BY <2>1, <2>2, InitTyped DEF Origins, Alone, Tried, GivenUpOnlyByTrouble
  <1>2. Inv /\ [Next]_vars => Inv'
    <2> SUFFICES ASSUME Inv, [Next]_vars PROVE Inv'
      OBVIOUS
    <2>1. ASSUME NEW c \in Calls, job'[c].status = "FAILED", c \notin overlapped'
          PROVE  trouble' >= MaxAttempts
      <3>0. trouble \in Nat /\ trouble' \in {trouble, trouble + 1} /\ c \notin overlapped
        BY <2>1, Grows, NotificationsAssumption DEF Typed, CreatesTyped
      <3>1. CASE job'[c] = job[c]
        BY <2>1, <3>0, <3>1, NotificationsAssumption DEF GivenUpOnlyByTrouble
      <3>2. ASSUME NEW r \in Runs, Left(c, r) PROVE trouble' >= MaxAttempts
        <4>1. /\ run[r].pc # "idle" /\ Writes(r) /\ run[r].job = c
              /\ Timeout(r) \/ (Deliver(r) /\ Fails(r))
              /\ run[r].attempts + 1 >= MaxAttempts
          BY <2>1, <3>2 DEF Left
        <4>2. run[r].attempts + 1 <= trouble' /\ run[r].attempts \in Nat
          BY <3>0, <4>1, FailsByTrouble, ActiveRun DEF Typed, Run, Attempts
        <4> QED
          BY <3>0, <4>1, <4>2, NotificationsAssumption
      <3> QED
        BY <2>1, <3>1, <3>2, JobStep DEF Created, Started, Deleted
    <2>2. GivenUpOnlyByTrouble'
      BY <2>1 DEF GivenUpOnlyByTrouble
    <2> QED
      BY <2>2, StepTyped, StepOrigins, StepAlone, StepTried
  <1> QED
    BY <1>1, <1>2, PTL DEF Spec

-----------------------------------------------------------------------------
(* Deliveries, step by step.                                               *)

\* A run reads its batch, takes one of it, handles it, or ends.
Reads(r) ==
  /\ run[r].pc = "read" /\ run'[r].pc = "each" /\ run'[r].note = run[r].note
  /\ run'[r].left = {n \in Of(run[r].job) : note[n] = "PENDING"}
  /\ UNCHANGED <<note, delivered, skipped, unrecorded>>
TakesOne(r) ==
  \E n \in run[r].left :
    /\ run[r].pc = "each" /\ run'[r].note = n /\ run'[r].left = run[r].left \ {n}
    /\ UNCHANGED <<note, unrecorded>>
    /\ \/ run'[r].pc = "sent" /\ Delivered(n) /\ UNCHANGED skipped
       \/ run'[r].pc = "user" /\ UNCHANGED <<delivered, skipped>>
       \/ run'[r].pc = "each" /\ UNCHANGED delivered /\ skipped' = skipped \cup {n}
Unsent(r) == note[run[r].note] = "deleted" \/ run[r].note \in unrecorded'
Handles(r) ==
  /\ run[r].pc \in Handling
  /\ run'[r].note = run[r].note /\ run'[r].left = run[r].left /\ UNCHANGED skipped
  /\ \/ /\ run[r].pc \in {"user", "channel", "mail"} /\ run'[r].pc \in {"channel", "mail", "failed"}
        /\ UNCHANGED <<note, delivered, unrecorded>>
     \/ /\ run[r].pc = "mail" /\ run'[r].pc = "sent" /\ Delivered(run[r].note)
        /\ UNCHANGED <<note, unrecorded>>
     \/ /\ run[r].pc \in {"sent", "failed"} /\ run'[r].pc = "each" /\ note[run[r].note] # "deleted"
        /\ note' = [note EXCEPT ![run[r].note] = IF run[r].pc = "sent" THEN "SENT" ELSE "FAILED"]
        /\ UNCHANGED <<delivered, unrecorded>>
     \/ /\ run[r].pc = "sent" /\ run'[r].pc = "failed" /\ UNCHANGED <<note, delivered>>
        /\ Unsent(r)
     \/ /\ run[r].pc = "mail" /\ run'[r].pc = "failed" /\ Delivered(run[r].note) /\ UNCHANGED note
        /\ run[r].note \in unrecorded'
EndsRun(r) ==
  /\ run'[r] = Idle /\ UNCHANGED <<note, delivered, skipped>>
  /\ run[r].pc = "sent" => Unsent(r)

LEMMA DeliverMoves ==
  ASSUME Typed, NEW r \in Runs, Deliver(r)
  PROVE  Reads(r) \/ TakesOne(r) \/ Handles(r) \/ EndsRun(r)
  <1>0. RunsTyped /\ run[r] \in Run /\ run[r].pc # "idle"
    BY DeliverRun, ActiveRun DEF Typed
  <1>1. CASE ReadNotifications(r)
    <2>1. UNCHANGED <<note, delivered, skipped, unrecorded>>
      BY <1>1 DEF ReadNotifications, rows, hist
    <2>2. /\ run[r].pc = "read" /\ run'[r].pc = "each" /\ run'[r].note = run[r].note
          /\ run'[r].left = {n \in Of(run[r].job) : note[n] = "PENDING"}
      BY <1>0, <1>1 DEF ReadNotifications, RunsTyped, Run
    <2> QED
      BY <2>1, <2>2 DEF Reads
  <1>2. ASSUME NEW p, Step(r, p)
        PROVE  run'[r].pc = p /\ run'[r].left = run[r].left /\ run'[r].note = run[r].note
    BY <1>0, <1>2 DEF Step, RunsTyped, Run
  <1>3. ASSUME NEW n \in run[r].left, NEW p, Takes(r, n, p)
        PROVE  run'[r].pc = p /\ run'[r].left = run[r].left \ {n} /\ run'[r].note = n
    BY <1>0, <1>3 DEF Takes, RunsTyped, Run
  <1>4. ASSUME NEW x, Finish(r, x) PROVE run'[r] = Idle
    BY <1>0, <1>4 DEF Finish, RunsTyped
  <1>5. ASSUME NEW n \in Notes, DeliverInApp(r, n) \/ TakeEmail(r, n) \/ Skip(r, n)
        PROVE  TakesOne(r)
    <2>1. n \in run[r].left /\ run[r].pc = "each"
      BY <1>5 DEF DeliverInApp, TakeEmail, Skip, HasNext
    <2>2. UNCHANGED <<note, unrecorded>>
      BY <1>5 DEF DeliverInApp, TakeEmail, Skip, rows, hist
    <2>3. \/ Takes(r, n, "sent") /\ Delivered(n) /\ UNCHANGED skipped
          \/ Takes(r, n, "user") /\ UNCHANGED <<delivered, skipped>>
          \/ Takes(r, n, "each") /\ UNCHANGED delivered /\ skipped' = skipped \cup {n}
      BY <1>5 DEF DeliverInApp, TakeEmail, Skip, hist
    <2> QED
      BY <1>3, <2>1, <2>2, <2>3 DEF TakesOne
  <1>6. CASE ReadUser(r) \/ ReadChannel(r) \/ SendMail(r) \/ AnswerLost(r) \/ MailFails(r)
    <2>1. CASE SendMail(r)
      BY <1>2, <2>1 DEF SendMail, Handles, Handling, rows, hist
    <2>3. CASE AnswerLost(r)
      BY <1>2, <2>3 DEF AnswerLost, Handles, Handling, Unsent, rows, hist
    <2>2. CASE ~SendMail(r) /\ ~AnswerLost(r)
      <3>1. UNCHANGED <<note, delivered, skipped, unrecorded>> /\ run[r].pc \in {"user", "channel", "mail"}
        BY <1>6, <2>2 DEF ReadUser, ReadChannel, MailFails, rows, hist
      <3>2. \E p \in {"channel", "mail", "failed"} : Step(r, p)
        BY <1>6, <2>2 DEF ReadUser, ReadChannel, MailFails
      <3> QED
        BY <1>2, <3>1, <3>2 DEF Handles, Handling
    <2> QED
      BY <2>1, <2>2, <2>3
  <1>7. CASE RecordSent(r) \/ RecordSentError(r)
    <2>1. run[r].pc = "sent" /\ UNCHANGED <<delivered, skipped>>
      BY <1>7 DEF RecordSent, RecordSentError, hist
    <2>2. CASE SentThrows(r) /\ UNCHANGED note /\ Unsent(r)
      <3>1. Step(r, "failed") \/ run'[r] = Idle
        BY <1>4, <2>2 DEF SentThrows, Reject
      <3> QED
        BY <1>2, <2>1, <2>2, <3>1 DEF Handles, EndsRun, Handling
    <2>3. CASE ~(SentThrows(r) /\ UNCHANGED note /\ Unsent(r))
      <3>1. ~RecordSentError(r)
        BY <2>3 DEF RecordSentError, Unsent
      <3>2. /\ note[run[r].note] # "deleted" /\ note' = [note EXCEPT ![run[r].note] = "SENT"]
            /\ Step(r, "each") /\ UNCHANGED unrecorded
        BY <1>7, <2>3, <3>1 DEF RecordSent, Unsent, hist
      <3> QED
        BY <1>2, <2>1, <3>2 DEF Handles, Handling
    <2> QED
      BY <2>2, <2>3
  <1>8. CASE RecordFailed(r)
    <2>1. run[r].pc = "failed" /\ UNCHANGED <<delivered, skipped, unrecorded>>
      BY <1>8 DEF RecordFailed, hist
    <2>2. CASE Reject(r) /\ UNCHANGED note
      BY <1>4, <2>1, <2>2 DEF Reject, EndsRun
    <2>3. CASE ~(Reject(r) /\ UNCHANGED note)
      <3>1. /\ note[run[r].note] # "deleted" /\ note' = [note EXCEPT ![run[r].note] = "FAILED"]
            /\ Step(r, "each")
        BY <1>8, <2>3 DEF RecordFailed
      <3> QED
        BY <1>2, <2>1, <3>1 DEF Handles, Handling
    <2> QED
      BY <2>2, <2>3
  <1>9. CASE AllHandled(r) \/ QueryError(r)
    BY <1>4, <1>9 DEF AllHandled, QueryError, Resolve, Reject, EndsRun, hist
  <1> QED
    BY <1>1, <1>5, <1>6, <1>7, <1>8, <1>9 DEF Deliver

-----------------------------------------------------------------------------
(* What is PENDING has a job.                                              *)

\* A run that has read its batch has yet to come to all of it that is PENDING,
\* or has skipped it.
Rest(r) == run[r].left \cup (IF run[r].pc \in Handling THEN {run[r].note} ELSE {})
Covered ==
  \A r \in Runs : run[r].pc \notin {"idle", "read"} =>
    \A n \in Of(run[r].job) : note[n] = "PENDING" /\ n \notin skipped => n \in Rest(r)

LEMMA StepCovered ==
  ASSUME Typed, Origins, Covered, [Next]_vars
  PROVE  Covered'
  <1> SUFFICES ASSUME NEW r \in Runs, run'[r].pc \notin {"idle", "read"}, NEW n \in Of(run'[r].job),
                      note'[n] = "PENDING", n \notin skipped'
               PROVE  n \in Rest(r)'
    BY DEF Covered
  <1>1. ~StartRun(r)
    BY StartAt
  <1>2. /\ run[r].pc # "idle" /\ run'[r].job = run[r].job /\ n \in Of(run[r].job) /\ n \in Notes
        /\ n[1] = run[r].job
    <2>1. run[r].pc # "idle" /\ run'[r].job = run[r].job
      BY <1>1, RunStep DEF GoesOn, Run
    <2> QED
      BY <2>1, ActiveRun DEF Typed, Of
  <1>3. note[n] = "PENDING"
    <2>1. ~CreateRows(n[1])
      BY <1>2 DEF CreateRows, Origins, Begun
    <2> QED
      BY <1>2, <2>1, NoteStep
  <1>4. n \notin skipped
    BY Grows
  <1>5. CASE Deliver(r)
    <2>1. CASE Reads(r)
      BY <1>2, <1>3, <2>1 DEF Reads, Rest
    <2>2. CASE ~Reads(r)
      <3>1. run[r].pc # "read"
        BY <1>5, <2>2, DeliverMoves, IdleFits DEF TakesOne, Handles, EndsRun, Handling
      <3>2. n \in Rest(r)
        BY <1>2, <1>3, <1>4, <3>1 DEF Covered
      <3>3. CASE TakesOne(r)
        BY <3>2, <3>3 DEF TakesOne, Rest, Handling
      <3>4. CASE Handles(r)
        BY <1>2, <3>2, <3>4 DEF Handles, Rest, Handling, Typed, TablesTyped
      <3> QED
        BY <1>5, <2>2, <3>3, <3>4, DeliverMoves, IdleFits DEF EndsRun
    <2> QED
      BY <2>1, <2>2
  <1>6. CASE ~Deliver(r)
    <2>1. run'[r].pc = run[r].pc /\ run'[r].left = run[r].left /\ run'[r].note = run[r].note
      BY <1>1, <1>6, RunStep DEF Run
    <2> QED
      BY <1>2, <1>3, <1>4, <2>1 DEF Covered, Rest
  <1> QED
    BY <1>5, <1>6

\* What is PENDING is to be delivered, was given up or was cut off, and never
\* passed over, unless its provider is not supported, or its job was
\* deleted before it was COMPLETED.
THEOREM PendingHaveJobs == Spec => []PendingHasJob
  <1> DEFINE Inv == Typed /\ Origins /\ Covered /\ PendingHasJob
  <1>1. Init => Inv
    <2> SUFFICES ASSUME Init PROVE Inv
      OBVIOUS
    <2>1. /\ \A c \in Calls : job[c].status = "none" /\ job[c].attempts = 0
          /\ \A n \in Notes : note[n] = "none"
          /\ queue = <<>> /\ \A r \in Runs : run[r].pc = "idle"
      BY IdleFits DEF Init
    <2>2. \A x : ~Queued(x)
      BY <2>1 DEF Queued
    <2> QED
      BY <2>1, <2>2, InitTyped DEF Origins, Covered, PendingHasJob
  <1>2. Inv /\ [Next]_vars => Inv'
    <2> SUFFICES ASSUME Inv, [Next]_vars PROVE Inv'
      OBVIOUS
    <2>1. ASSUME NEW n \in Notes, note'[n] = "PENDING", n \notin skipped'
          PROVE  job'[n[1]].status \in {"PENDING", "PROCESSING", "FAILED"} \/ n[1] \in dropped'
      <3> DEFINE c == n[1]
      <3>0. c \in Calls /\ n \in Of(c) /\ job \in [Calls -> Job]
        BY DEF Notes, Of, Typed, TablesTyped, Job
      <3>1. CASE note[n] # "PENDING"
        <4>1. CreateRows(c)
          BY <2>1, <3>1, NoteStep
        <4>2. ~create[c].disabled
          BY <2>1, <3>0, <4>1 DEF CreateRows
        <4>3. job' = [job EXCEPT ![c].status = "PENDING"]
          BY <4>1, <4>2 DEF CreateRows
        <4> QED
          BY <3>0, <4>3 DEF Job
      <3>2. CASE note[n] = "PENDING" /\ c \notin dropped'
        <4>1. n \notin skipped /\ job[c].status \in {"PENDING", "PROCESSING", "FAILED"}
          BY <2>1, <3>2, Grows DEF PendingHasJob
        <4>2. ASSUME NEW r \in Runs, Left(c, r) PROVE job'[c].status \in {"PENDING", "FAILED"}
          <5>1. ~Completes(r)
            BY <3>0, <3>2, <4>1, <4>2 DEF Completes, Left, Covered, Rest, Handling
          <5> QED
            BY <4>2, <5>1 DEF Left
        <4> QED
          BY <3>0, <3>2, <4>1, <4>2, JobStep DEF Created, Started, Deleted
      <3> QED
        BY <3>1, <3>2
    <2>2. PendingHasJob'
      BY <2>1 DEF PendingHasJob
    <2> QED
      BY <2>2, StepTyped, StepOrigins, StepCovered
  <1> QED
    BY <1>1, <1>2, PTL DEF Spec

-----------------------------------------------------------------------------
(* How often a notification is delivered.                                  *)

Clean(n) == n[1] \notin overlapped /\ n \notin unrecorded
SentBy(n) == \E r \in Runs : run[r].pc = "sent" /\ run[r].note = n

\* Of a notification whose runs did not overlap, and whose delivery was
\* recorded: it is delivered once at most; what failed was not delivered, and
\* what is PENDING was only if the run that did is about to record it.
CleanOnce ==
  \A n \in Notes : Clean(n) =>
    /\ delivered[n] \in {0, 1}
    /\ note[n] = "FAILED" => delivered[n] = 0
    /\ note[n] \in {"none", "PENDING"} /\ delivered[n] # 0 => SentBy(n)

\* What the run that has it knows of it.
Holds(r, n) ==
  /\ n \in run[r].left \/ (n = run[r].note /\ run[r].pc \in {"user", "channel", "mail"}) =>
       note[n] \in {"PENDING", "deleted"} /\ delivered[n] = 0
  /\ n = run[r].note /\ run[r].pc = "failed" =>
       note[n] = "deleted" \/ (note[n] = "PENDING" /\ delivered[n] = 0)
  /\ n = run[r].note /\ run[r].pc = "sent" => note[n] \in {"PENDING", "deleted"}
CleanHeld ==
  \A r \in Runs, n \in Notes : run[r].pc # "idle" /\ n[1] = run[r].job /\ Clean(n) => Holds(r, n)

SentAre ==
  /\ \A n \in Notes : note[n] = "SENT" => delivered[n] > 0
  /\ \A r \in Runs : run[r].pc = "sent" => delivered[run[r].note] > 0

Counted == CleanOnce /\ CleanHeld /\ SentAre

\* Deliveries are counted when they are made.
LEMMA CountStep ==
  ASSUME Typed, [Next]_vars, NEW n \in Notes, delivered'[n] # delivered[n]
  PROVE  /\ UNCHANGED note /\ delivered'[n] > 0 /\ (delivered[n] = 0 => delivered'[n] = 1)
         /\ \E r \in Runs :
              /\ Deliver(r) /\ (run'[r].pc = "sent" \/ n \in unrecorded') /\ run'[r].note = n
                         /\ n[1] = run[r].job
              /\ n \in run[r].left \/ (n = run[r].note /\ run[r].pc = "mail")
  <1>0. delivered \in [Notes -> 0..2]
    BY DEF Typed, HistoryTyped
  <1>1. ASSUME NEW m, Delivered(m) PROVE m = n /\ delivered'[n] > 0
             /\ (delivered[n] = 0 => delivered'[n] = 1)
    BY <1>0, <1>1 DEF Delivered
  <1>2. ASSUME NEW r \in Runs, Deliver(r)
        PROVE  /\ UNCHANGED note /\ delivered'[n] > 0 /\ (delivered[n] = 0 => delivered'[n] = 1)
               /\ (run'[r].pc = "sent" \/ n \in unrecorded') /\ run'[r].note = n /\ n[1] = run[r].job
               /\ n \in run[r].left \/ (n = run[r].note /\ run[r].pc = "mail")
    <2>1. Fits(run[r]) /\ run[r].pc # "idle"
      BY <1>2, DeliverRun, ActiveRun DEF Typed
    <2>2. CASE TakesOne(r)
      BY <1>1, <2>1, <2>2 DEF TakesOne, Fits, Of
    <2>3. CASE Handles(r)
      BY <1>1, <2>1, <2>3 DEF Handles, Fits, Of
    <2> QED
      BY <1>2, <2>2, <2>3, DeliverMoves DEF Reads, EndsRun
  <1>3. CASE ~\E r \in Runs : Deliver(r)
    <2>1. UNCHANGED delivered
      BY <1>3, Steps DEF StartRun, Timeout, Crash, Apart, Create, Lookup, QueryTemplate, StoreTemplate,
         CreateRows, CreateRejected, Enqueue, Load, Withdraw, CancelRead, CancelDelete, Sweep, Gone,
         Refused, Edit, EditTemplate, EditChannel, ClearCache, DeleteUser,
         Restart, vars, hist
    <2> QED
      BY <2>1
  <1> QED
    BY <1>2, <1>3

LEMMA Sole ==
  ASSUME Typed, Alone, NEW r \in Runs, NEW q \in Runs, run[r].pc # "idle", run[q].pc # "idle",
         run[r].job = run[q].job, run[r].job \notin overlapped
  PROVE  r = q
  BY DEF Alone

\* Of what a run has nothing changes unless it does it, but for its deletion.
LEMMA OthersLeave ==
  ASSUME Typed, Origins, Alone, [Next]_vars, NEW r \in Runs, run[r].pc # "idle", ~Deliver(r),
         NEW n \in Notes, n[1] = run[r].job, n[1] \notin overlapped
  PROVE  note'[n] \in {note[n], "deleted"} /\ delivered'[n] = delivered[n]
  <1>1. ASSUME NEW q \in Runs, Deliver(q), n[1] = run[q].job PROVE FALSE
    BY <1>1, DeliverRun, Sole
  <1>2. ASSUME NEW q \in Runs, Deliver(q), run[q].note = n PROVE run[q].job = n[1]
    BY <1>2, DeliverRun, ActiveRun, NotANote DEF Typed, Fits, Of
  <1>3. ~CreateRows(n[1])
    BY DEF CreateRows, Origins, Begun
  <1>4. delivered'[n] = delivered[n]
    BY <1>1, CountStep
  <1>5. note'[n] \in {note[n], "deleted"}
    BY <1>1, <1>2, <1>3, NoteStep
  <1> QED
    BY <1>4, <1>5

LEMMA StepHeld ==
  ASSUME Typed, Origins, Alone, Counted, [Next]_vars,
         NEW r \in Runs, NEW n \in Notes, run'[r].pc # "idle", n[1] = run'[r].job, Clean(n)'
  PROVE  Holds(r, n)'
  <1>0. Clean(n) /\ RunsTyped /\ delivered \in [Notes -> 0..2]
    BY Grows DEF Clean, Typed, HistoryTyped
  <1>1. CASE StartRun(r)
    BY <1>1, StartAt, NotANote DEF Holds
  <1>2. CASE ~StartRun(r)
    <2>1. run[r].pc # "idle" /\ n[1] = run[r].job /\ Fits(run[r]) /\ run[r] \in Run
      <3>1. run[r].pc # "idle" /\ run'[r].job = run[r].job
        BY <1>2, RunStep DEF GoesOn, Run
      <3> QED
        BY <1>0, <3>1, ActiveRun
    <2>2. Holds(r, n)
      BY <1>0, <2>1 DEF Counted, CleanHeld
    <2>3. CASE ~Deliver(r)
      <3>1. run'[r].pc = run[r].pc /\ run'[r].left = run[r].left /\ run'[r].note = run[r].note
        BY <1>2, <2>3, RunStep DEF Run
      <3>2. note'[n] \in {note[n], "deleted"} /\ delivered'[n] = delivered[n]
        BY <1>0, <2>1, <2>3, OthersLeave DEF Clean
      <3> QED
        BY <2>2, <3>1, <3>2 DEF Holds
    <2>4. CASE Deliver(r)
      <3>1. CASE Reads(r)
        <4>1. note[n] = "PENDING" => delivered[n] = 0
          <5>1. ASSUME NEW q \in Runs, run[q].pc = "sent", run[q].note = n PROVE FALSE
            <6>1. run[q].job = n[1]
              BY <1>0, <5>1, ActiveRun DEF Fits, Handling, Of
            <6> QED
              BY <1>0, <2>1, <3>1, <5>1, <6>1, Sole DEF Clean, Reads
          <5> QED
            BY <1>0, <5>1 DEF Counted, CleanOnce, SentBy
        <4>2. n \in run'[r].left => note[n] = "PENDING"
          BY <3>1 DEF Reads
        <4> QED
          BY <3>1, <4>1, <4>2 DEF Reads, Holds
      <3>2. CASE TakesOne(r)
        <4>1. PICK m \in run[r].left :
                /\ run'[r].note = m /\ run'[r].left = run[r].left \ {m} /\ UNCHANGED <<note, unrecorded>>
                /\ \/ run'[r].pc = "sent" /\ Delivered(m)
                   \/ run'[r].pc = "user" /\ UNCHANGED delivered
                   \/ run'[r].pc = "each" /\ UNCHANGED delivered
          BY <3>2 DEF TakesOne
        <4>2. n # m => delivered'[n] = delivered[n]
          BY <1>0, <4>1 DEF Delivered
        <4> QED
          BY <2>2, <4>1, <4>2 DEF Holds
      <3>3. CASE Handles(r)
        <4>1. run[r].note \notin run[r].left /\ run'[r].note = run[r].note /\ run'[r].left = run[r].left
          BY <2>1, <3>3 DEF Fits, Handles
        <4>2. n # run[r].note => note'[n] = note[n] /\ delivered'[n] = delivered[n]
          BY <1>0, <3>3 DEF Handles, Delivered, Typed, TablesTyped
        <4>3. CASE n # run[r].note
          BY <2>2, <4>1, <4>2, <4>3 DEF Holds
        <4>4. CASE n = run[r].note
          <5>1. n \notin run[r].left
            BY <4>1, <4>4
          <5> QED
            BY <1>0, <2>2, <3>3, <4>1, <4>4, <5>1 DEF Handles, Handling, Holds, Unsent, Clean
        <4> QED
          BY <4>3, <4>4
      <3> QED
        BY <2>4, <3>1, <3>2, <3>3, DeliverMoves, IdleFits DEF EndsRun
    <2> QED
      BY <2>3, <2>4
  <1> QED
    BY <1>1, <1>2

\* A run that is about to record a delivery stays so, or records it, or the
\* delivery stays unrecorded.
LEMMA SentStays ==
  ASSUME Typed, Origins, Alone, [Next]_vars, NEW r \in Runs, run[r].pc = "sent",
         run[r].note \notin unrecorded'
  PROVE  \/ run'[r].pc = "sent" /\ run'[r].note = run[r].note
         \/ note'[run[r].note] \notin {"none", "PENDING"}
  <1>0. RunsTyped /\ note \in [Notes -> {"none", "PENDING", "SENT", "FAILED", "deleted"}]
        /\ run[r].note \in Notes /\ run[r].pc # "idle" /\ run[r] \in Run
    BY ActiveRun DEF Typed, TablesTyped, Fits, Handling
  <1>1. CASE Deliver(r)
    BY <1>0, <1>1, DeliverMoves DEF Reads, TakesOne, Handles, EndsRun, Unsent
  <1>2. ~Crash
    BY DEF Crash
  <1>3. ~StartRun(r)
    BY DEF StartRun
  <1>4. CASE Timeout(r)
    <2>1. run'[r] = [run[r] EXCEPT !.owned = FALSE]
      BY <1>0, <1>4, TimesOut, BecomesAt
    <2> QED
      BY <1>0, <2>1 DEF Run
  <1>5. CASE ~Deliver(r) /\ ~Timeout(r)
    <2>1. ASSUME NEW q \in Runs, StartRun(q) \/ Deliver(q) \/ Timeout(q) PROVE run'[r] = run[r]
      BY <1>0, <1>3, <1>5, <2>1, SomeRun, BecomesAt
    <2> QED
      BY <1>2, <2>1, Steps, ApartRuns
  <1> QED
    BY <1>1, <1>4, <1>5

LEMMA StepOnce ==
  ASSUME Typed, Origins, Alone, Counted, [Next]_vars, NEW n \in Notes, Clean(n)'
  PROVE  /\ delivered'[n] \in {0, 1}
         /\ note'[n] = "FAILED" => delivered'[n] = 0
         /\ note'[n] \in {"none", "PENDING"} /\ delivered'[n] # 0 => SentBy(n)'
  <1>0. Clean(n) /\ RunsTyped
    BY Grows DEF Clean, Typed
  <1>1. CASE delivered'[n] # delivered[n]
    <2>1. PICK r \in Runs :
            /\ Deliver(r) /\ (run'[r].pc = "sent" \/ n \in unrecorded') /\ run'[r].note = n
                       /\ n[1] = run[r].job
            /\ n \in run[r].left \/ (n = run[r].note /\ run[r].pc = "mail")
      BY <1>1, CountStep
    <2>4. run'[r].pc = "sent"
      BY <2>1 DEF Clean
    <2>2. Holds(r, n)
      BY <1>0, <2>1, DeliverRun DEF Counted, CleanHeld
    <2>3. note[n] \in {"PENDING", "deleted"} /\ delivered[n] = 0
      BY <2>1, <2>2 DEF Holds
    <2> QED
      BY <1>1, <2>1, <2>3, <2>4, CountStep DEF SentBy
  <1>2. CASE delivered'[n] = delivered[n]
    <2>1. /\ delivered[n] \in {0, 1}
          /\ note[n] = "FAILED" => delivered[n] = 0
          /\ note[n] \in {"none", "PENDING"} /\ delivered[n] # 0 => SentBy(n)
      BY <1>0 DEF Counted, CleanOnce
    <2>2. ASSUME CreateRows(n[1]) PROVE ~SentBy(n)
      <3> SUFFICES ASSUME NEW r \in Runs, run[r].pc = "sent", run[r].note = n PROVE FALSE
        BY DEF SentBy
      <3>1. run[r].job = n[1] /\ run[r].pc # "idle"
        BY <1>0, ActiveRun DEF Fits, Handling, Of
      <3> QED
        BY <2>2, <3>1 DEF CreateRows, Origins, Begun
    <2>3. ASSUME note'[n] = "FAILED", note[n] # "FAILED" PROVE delivered[n] = 0
      <3>1. CASE CreateRows(n[1]) /\ note[n] = "none"
        BY <2>1, <2>2, <3>1
      <3>2. ASSUME NEW r \in Runs, Deliver(r), run[r].note = n, note[n] # "deleted", run[r].pc = "failed"
            PROVE  delivered[n] = 0
        <4>1. run[r].job = n[1]
          BY <1>0, <3>2, ActiveRun DEF Fits, Handling, Of
        <4>2. Holds(r, n)
          BY <1>0, <3>2, <4>1 DEF Counted, CleanHeld
        <4> QED
          BY <3>2, <4>2 DEF Holds
      <3> QED
        BY <2>3, <3>1, <3>2, NoteStep
    <2>4. ASSUME note'[n] \in {"none", "PENDING"}, delivered[n] # 0 PROVE SentBy(n)'
      <3>1. note[n] \in {"none", "PENDING"}
        BY <2>4, NoteStep
      <3>2. PICK r \in Runs : run[r].pc = "sent" /\ run[r].note = n
        BY <2>1, <2>4, <3>1 DEF SentBy
      <3> QED
        BY <2>4, <3>2, SentStays DEF SentBy, Clean
    <2> QED
      BY <1>2, <2>1, <2>3, <2>4
  <1> QED
    BY <1>1, <1>2

LEMMA StepSentAre ==
  ASSUME Typed, SentAre, [Next]_vars
  PROVE  SentAre'
  <1>0. RunsTyped /\ delivered \in [Notes -> 0..2]
    BY DEF Typed, HistoryTyped
  <1>1. ASSUME NEW n \in Notes, delivered[n] > 0 PROVE delivered'[n] > 0
    BY <1>1, CountStep
  <1>2. ASSUME NEW n \in Notes, note'[n] = "SENT" PROVE delivered'[n] > 0
    <2>1. delivered[n] > 0
      BY <1>2, NoteStep DEF SentAre
    <2> QED
      BY <1>1, <2>1
  <1>3. ASSUME NEW r \in Runs, run'[r].pc = "sent" PROVE delivered'[run'[r].note] > 0
    <2>1. CASE run[r].pc = "sent" /\ run'[r].note = run[r].note
      <3>1. run[r].note \in Notes /\ delivered[run[r].note] > 0
        BY <1>0, <2>1, ActiveRun DEF Fits, Handling, SentAre
      <3> QED
        BY <1>1, <2>1, <3>1
    <2>2. CASE Deliver(r)
      <3>1. ASSUME NEW m \in Notes, Delivered(m) PROVE delivered'[m] > 0
        BY <1>0, <3>1 DEF Delivered
      <3>2. Fits(run[r]) /\ Of(run[r].job) \subseteq Notes
        BY <1>0, <2>2, DeliverRun, ActiveRun
      <3>3. CASE TakesOne(r)
        BY <1>3, <3>1, <3>2, <3>3, DeliverRun, <2>2 DEF TakesOne, Fits
      <3>4. CASE Handles(r)
        BY <1>3, <2>2, <3>1, <3>2, <3>4, DeliverRun DEF Handles, Fits
      <3> QED
        BY <1>3, <2>2, <3>3, <3>4, DeliverMoves, IdleFits DEF Reads, EndsRun
    <2>3. ASSUME ~Deliver(r) PROVE run[r].pc = "sent" /\ run'[r].note = run[r].note
      BY <1>3, <2>3, RunStep DEF Run
    <2> QED
      BY <2>1, <2>2, <2>3
  <1> QED
    BY <1>2, <1>3 DEF SentAre

LEMMA Counts ==
  Spec => [](Typed /\ Origins /\ Alone /\ Counted)
  <1> DEFINE Inv == Typed /\ Origins /\ Alone /\ Counted
  <1>1. Init => Inv
    <2> SUFFICES ASSUME Init PROVE Inv
      OBVIOUS
    <2>1. /\ \A c \in Calls : job[c].status = "none" /\ job[c].attempts = 0
          /\ \A n \in Notes : note[n] = "none" /\ delivered[n] = 0
          /\ queue = <<>> /\ \A r \in Runs : run[r].pc = "idle"
      BY IdleFits DEF Init
    <2>2. \A x : ~Queued(x)
      BY <2>1 DEF Queued
    <2> QED
      BY <2>1, <2>2, InitTyped DEF Origins, Alone, Counted, CleanOnce, CleanHeld, SentAre
  <1>2. Inv /\ [Next]_vars => Inv'
    <2> SUFFICES ASSUME Inv, [Next]_vars PROVE Inv'
      OBVIOUS
    <2>1. CleanOnce'
      BY StepOnce DEF CleanOnce
    <2>2. CleanHeld'
      BY StepHeld DEF CleanHeld
    <2>3. SentAre'
      BY StepSentAre DEF Counted
    <2> QED
      BY <2>1, <2>2, <2>3, StepTyped, StepOrigins, StepAlone DEF Counted
  <1> QED
    BY <1>1, <1>2, PTL DEF Spec

\* A notification is delivered twice only if two runs of its job overlapped, or a
\* delivery could not be recorded.
THEOREM DeliveredOnce == Spec => []OnceUnlessDisturbed
  <1>1. Counted => OnceUnlessDisturbed
    BY DEF Counted, CleanOnce, Clean, OnceUnlessDisturbed
  <1> QED
    BY <1>1, Counts, PTL

\* SENT was delivered, and FAILED was not, unless runs overlapped, or the mail
\* had gone when its answer was lost or the SENT update failed.
THEOREM StatusHonest == Spec => []StatusIsHonest
  <1>1. Typed /\ Counted => StatusIsHonest
    BY DEF Typed, HistoryTyped, Counted, CleanOnce, SentAre, Clean, StatusIsHonest
  <1> QED
    BY <1>1, Counts, PTL
=============================================================================
