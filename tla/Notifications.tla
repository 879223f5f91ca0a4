---------------------------- MODULE Notifications ----------------------------
(***************************************************************************)
(* Notifications: the cache in front of the template, creation of the rows *)
(* together with their delivery job, and delivery by a handler whose runs  *)
(* may overlap.  The job system appears by what JobWorker allows it to do. *)
(***************************************************************************)
EXTENDS Integers, Sequences

CONSTANTS
  Calls,       \* calls of createNotificationsFromTemplate, each for one batch
  Users,       \* the recipients of every call
  Runs,        \* bound: runs of deliverNotifications at a time
  NewProviders,\* what an edit may change the channel's provider to
  Editors,     \* calls that update the template or its channel
  MaxAttempts, \* maxAttempts of the delivery job
  MaxQueue,    \* bound: snapshots of jobs in the queue
  MaxEvents    \* bound: edits, crashes and trouble (failed queries, timeouts,
               \*   deleted recipients) taken together

ASSUME NotificationsAssumption ==
  /\ MaxAttempts \in Nat \ {0} /\ MaxQueue \in Nat \ {0}
  /\ MaxEvents \in Nat
  /\ NewProviders \subseteq {"in-app", "smtp-email", "sms"}

VARIABLES
  db,        \* the template with its channel, as stored
  cached,    \* notificationTemplateCache: the version it holds, or None
  create,    \* per call of create, where it stands and the template it resolved
  editing,   \* editors between the update and the clear
  cancelling,\* jobs read as PENDING by a cancelInstance that still awaits
  note,      \* table notification: status per <<call, user>>
  job,       \* table job_instance: the send-notification row of each call
  queue,     \* p-queue: snapshots of jobs
  run,       \* runs of deliverNotifications
  up,
  trouble, crashes,  \* what has happened of MaxEvents, with the edits
  delivered,   \* history: how often each was published or mailed (2: or more)
  skipped,     \* history: left PENDING for want of a provider
  unrecorded,  \* history: delivered, and the answer of the mail server was lost, or
               \*   the SENT update failed or was cut off
  overlapped,  \* history: jobs of which two runs were under way at once
  overtaken,   \* history: the cached version was read before an edit that is newer
  dropped      \* history: jobs deleted before they were COMPLETED

callVars == <<cached, create, editing, cancelling>>
rows == <<note, job>>
hist == <<delivered, skipped, unrecorded, overlapped, overtaken, dropped>>
vars == <<db, callVars, rows, queue, run, up, trouble, crashes, hist>>

None == -1
Notes == Calls \X Users
Of(c) == {c} \X Users
Providers == {"in-app", "smtp-email", "sms"}
NoProvider == "none"
NoNote == <<>>
Idle == [pc |-> "idle"]
Unresolved == [pc |-> "idle", version |-> None, disabled |-> FALSE]

Goto(c, p) == create' = [create EXCEPT ![c].pc = p]
\* The template is no longer needed.
Drop(c, p) == create' = [create EXCEPT ![c] = [Unresolved EXCEPT !.pc = p]]
Budget == db.version + trouble + crashes < MaxEvents
Trouble == Budget /\ trouble' = trouble + 1
Enabled == db.template /\ db.channel

-----------------------------------------------------------------------------
Init ==
  /\ db \in [template: BOOLEAN, channel: BOOLEAN, provider: Providers, version: {0}]
  /\ cached \in {None} \cup (IF Enabled THEN {0} ELSE {})
  /\ create = [c \in Calls |-> Unresolved]
  /\ editing = {} /\ cancelling = {}
  /\ note = [n \in Notes |-> "none"]
  /\ job = [c \in Calls |-> [status |-> "none", attempts |-> 0]]
  /\ queue = <<>>
  /\ run = [r \in Runs |-> Idle]
  /\ up = TRUE /\ trouble = 0 /\ crashes = 0
  /\ delivered = [n \in Notes |-> 0]
  /\ skipped = {} /\ unrecorded = {} /\ overlapped = {}
  /\ overtaken = FALSE /\ dropped = {}

-----------------------------------------------------------------------------
(* createNotificationsFromTemplate                                         *)

\* findTemplateForDelivery: a hit is taken to be enabled.
Lookup(c) ==
  /\ up /\ create[c].pc = "idle"
  /\ create' = [create EXCEPT ![c] =
       IF cached # None THEN [pc |-> "users", version |-> cached, disabled |-> FALSE]
                        ELSE [@ EXCEPT !.pc = "query"]]
  /\ UNCHANGED <<db, cached, editing, cancelling, rows, queue, run, up, trouble, crashes, hist>>

QueryTemplate(c) ==
  /\ create[c].pc = "query"
  /\ create' = [create EXCEPT ![c] =
       [pc |-> "store", version |-> db.version, disabled |-> ~Enabled]]
  /\ UNCHANGED <<db, cached, editing, cancelling, rows, queue, run, up, trouble, crashes, hist>>

\* Only an enabled template is cached, as it was when the query ran.
StoreTemplate(c) ==
  /\ create[c].pc = "store"
  /\ IF create[c].disabled
     THEN UNCHANGED <<cached, overtaken>>
     ELSE /\ cached' = create[c].version
          /\ overtaken' = (create[c].version # db.version)
  /\ Goto(c, "users")
  /\ UNCHANGED <<db, editing, cancelling, rows, queue, run, up, trouble, crashes,
                 delivered, skipped, unrecorded, overlapped, dropped>>

\* The rows, and for an enabled template their job, in one transaction.
CreateRows(c) ==
  /\ create[c].pc = "users"
  /\ \A n \in Of(c) : note[n] = "none"
  /\ note' = [n \in Notes |-> IF n \notin Of(c) THEN note[n]
                              ELSE IF create[c].disabled THEN "FAILED" ELSE "PENDING"]
  /\ IF create[c].disabled
     THEN Drop(c, "done") /\ UNCHANGED job
     ELSE Drop(c, "enqueue") /\ job' = [job EXCEPT ![c].status = "PENDING"]
  /\ UNCHANGED <<db, cached, editing, cancelling, queue, run, up, trouble, crashes, hist>>

\* A query fails, a recipient or a variable is missing: nothing is written.
CreateRejected(c) ==
  /\ create[c].pc \in {"query", "users"}
  /\ Drop(c, "done")
  /\ UNCHANGED <<db, cached, editing, cancelling, rows, queue, run, up, trouble, crashes, hist>>

\* jobExecutor.enqueue, after the commit: the snapshot of the new job.
Enqueue(c) ==
  /\ create[c].pc = "enqueue"
  /\ Len(queue) < MaxQueue
  /\ queue' = Append(queue, [job |-> c, attempts |-> 0])
  /\ Drop(c, "done")
  /\ UNCHANGED <<db, cached, editing, cancelling, rows, run, up, trouble, crashes, hist>>

-----------------------------------------------------------------------------
(* updateNotificationTemplate, updateNotificationChannel                   *)

EditTemplate(e, on) ==
  /\ up /\ e \notin editing /\ Budget
  /\ db' = [db EXCEPT !.template = on, !.version = @ + 1]
  /\ editing' = editing \cup {e}
  /\ UNCHANGED <<cached, create, cancelling, rows, queue, run, up, trouble, crashes, hist>>

EditChannel(e, on, provider) ==
  /\ up /\ e \notin editing /\ Budget
  /\ db' = [db EXCEPT !.channel = on, !.provider = provider, !.version = @ + 1]
  /\ editing' = editing \cup {e}
  /\ UNCHANGED <<cached, create, cancelling, rows, queue, run, up, trouble, crashes, hist>>

Mut_ClearCache(e) ==   \* only a template that is off by now leaves the cache
  /\ e \in editing
  /\ cached' = IF Enabled THEN cached ELSE None
  /\ overtaken' = FALSE
  /\ editing' = editing \ {e}
  /\ UNCHANGED <<db, create, cancelling, rows, queue, run, up, trouble, crashes,
                 delivered, skipped, unrecorded, overlapped, dropped>>

\* The update has committed; the cache is cleared when the call resumes.
ClearCache(e) ==
  /\ e \in editing
  /\ cached' = None
  /\ overtaken' = FALSE
  /\ editing' = editing \ {e}
  /\ UNCHANGED <<db, create, cancelling, rows, queue, run, up, trouble, crashes,
                 delivered, skipped, unrecorded, overlapped, dropped>>

-----------------------------------------------------------------------------
(* The job system: any PENDING row may be queued, also one that is queued  *)
(* already; a started one is PROCESSING.                                   *)

Load(c) ==
  /\ up /\ job[c].status = "PENDING" /\ Len(queue) < MaxQueue
  /\ queue' = Append(queue, [job |-> c, attempts |-> job[c].attempts])
  /\ UNCHANGED <<db, callVars, rows, run, up, trouble, crashes, hist>>

Active(c) == {r \in Runs : run[r].pc # "idle" /\ run[r].job = c}

StartRun(r) ==
  LET c == Head(queue).job
  IN  /\ queue # <<>> /\ run[r].pc = "idle"
      /\ job[c].status # "deleted"
      /\ job' = [job EXCEPT ![c] = [status |-> "PROCESSING", attempts |-> Head(queue).attempts + 1]]
      /\ queue' = Tail(queue)
      /\ run' = [run EXCEPT ![r] =
           [pc |-> "read", job |-> c, attempts |-> Head(queue).attempts,
            left |-> {}, provider |-> NoProvider, note |-> NoNote, owned |-> TRUE]]
      /\ overlapped' = IF Active(c) # {} THEN overlapped \cup {c} ELSE overlapped
      /\ UNCHANGED <<db, callVars, note, up, trouble, crashes,
                     delivered, skipped, unrecorded, overtaken, dropped>>

\* The update to PROCESSING finds no row: the entry leaves the queue.
Refused ==
  /\ queue # <<>> /\ job[Head(queue).job].status = "deleted"
  /\ queue' = Tail(queue)
  /\ UNCHANGED <<db, callVars, rows, run, up, trouble, crashes, hist>>

Gone(c) ==
  /\ job' = [job EXCEPT ![c].status = "deleted"]
  /\ dropped' = IF job[c].status = "COMPLETED" THEN dropped ELSE dropped \cup {c}

\* cancelInstance reads the row and checks its status ...
CancelRead(c) ==
  /\ up /\ job[c].status = "PENDING"
  /\ cancelling' = cancelling \cup {c}
  /\ UNCHANGED <<db, cached, create, editing, rows, queue, run, up, trouble, crashes, hist>>

\* ... and deletes it by its id alone, whatever its status is by then.
CancelDelete(c) ==
  /\ c \in cancelling
  /\ cancelling' = cancelling \ {c}
  /\ IF job[c].status \in {"none", "deleted"} THEN UNCHANGED <<job, dropped>> ELSE Gone(c)
  /\ UNCHANGED <<db, cached, create, editing, note, queue, run, up, trouble, crashes,
                 delivered, skipped, unrecorded, overlapped, overtaken>>

\* The sweep takes rows in their last status.
Sweep(c) ==
  /\ up /\ job[c].status \in {"COMPLETED", "FAILED"}
  /\ Gone(c)
  /\ UNCHANGED <<db, callVars, note, queue, run, up, trouble, crashes,
                 delivered, skipped, unrecorded, overlapped, overtaken>>

\* What processJob writes when the handler of a run fails: it decides by the
\* attempts of its snapshot and leaves those of the row.
Failed(r) == [job[run[r].job] EXCEPT
                !.status = IF run[r].attempts + 1 >= MaxAttempts THEN "FAILED" ELSE "PENDING"]

\* The updates of a run that is over, or timed out, find no row if it is gone.
Writes(r) == run[r].owned /\ job[run[r].job].status # "deleted"

\* A timeout takes the run its job; the run itself goes on.
Timeout(r) ==
  /\ run[r].pc # "idle" /\ run[r].owned
  /\ Trouble
  /\ job' = IF Writes(r) THEN [job EXCEPT ![run[r].job] = Failed(r)] ELSE job
  /\ run' = [run EXCEPT ![r].owned = FALSE]
  /\ UNCHANGED <<db, callVars, note, queue, up, crashes, hist>>

-----------------------------------------------------------------------------
(* deliverNotifications                                                    *)

Step(r, p) == run' = [run EXCEPT ![r].pc = p]
Finish(r, outcome) ==
  /\ run' = [run EXCEPT ![r] = Idle]
  /\ job' = IF Writes(r) THEN [job EXCEPT ![run[r].job] = outcome] ELSE job
Resolve(r) == Finish(r, [job[run[r].job] EXCEPT !.status = "COMPLETED"])
Mut_Reject(r) == Resolve(r)   \* an error of one notification is swallowed
Reject(r) == Finish(r, Failed(r))

Mut_Reread(r) ==   \* the status is not looked at
  /\ run[r].pc = "read"
  /\ run' = [run EXCEPT ![r].pc = "each", ![r].provider = db.provider,
                        ![r].left = {n \in Of(run[r].job) : note[n] # "deleted"}]
  /\ UNCHANGED <<db, callVars, rows, queue, up, trouble, crashes, hist>>

Mut_ReadNotifications(r) ==   \* deleted ones are not left out
  /\ run[r].pc = "read"
  /\ run' = [run EXCEPT ![r].pc = "each", ![r].provider = db.provider,
                        ![r].left = {n \in Of(run[r].job) : note[n] \in {"PENDING", "deleted"}}]
  /\ UNCHANGED <<db, callVars, rows, queue, up, trouble, crashes, hist>>

\* The notifications of the payload that still exist; those not PENDING are
\* passed over in the loop.
ReadNotifications(r) ==
  /\ run[r].pc = "read"
  /\ run' = [run EXCEPT ![r].pc = "each", ![r].provider = db.provider,
                        ![r].left = {n \in Of(run[r].job) : note[n] = "PENDING"}]
  /\ UNCHANGED <<db, callVars, rows, queue, up, trouble, crashes, hist>>

Delivered(n) == delivered' = [delivered EXCEPT ![n] = IF @ < 2 THEN @ + 1 ELSE @]
Takes(r, n, p) == run' = [run EXCEPT ![r].pc = p, ![r].note = n, ![r].left = @ \ {n}]
HasNext(r, n, provider) == run[r].pc = "each" /\ n \in run[r].left /\ run[r].provider = provider

\* eventBus.publish is synchronous; the update is awaited.
DeliverInApp(r, n) ==
  /\ HasNext(r, n, "in-app")
  /\ Delivered(n)
  /\ Takes(r, n, "sent")
  /\ UNCHANGED <<db, callVars, rows, queue, up, trouble, crashes,
                 skipped, unrecorded, overlapped, overtaken, dropped>>

Mut_TakeEmail(r, n) ==   \* the loop does not move on
  /\ HasNext(r, n, "smtp-email")
  /\ run' = [run EXCEPT ![r].pc = "user", ![r].note = n]
  /\ UNCHANGED <<db, callVars, rows, queue, up, trouble, crashes, hist>>

TakeEmail(r, n) ==
  /\ HasNext(r, n, "smtp-email")
  /\ Takes(r, n, "user")
  /\ UNCHANGED <<db, callVars, rows, queue, up, trouble, crashes, hist>>

\* Any other provider: left PENDING.
Skip(r, n) ==
  /\ HasNext(r, n, "sms")
  /\ Takes(r, n, "each")
  /\ skipped' = skipped \cup {n}
  /\ UNCHANGED <<db, callVars, rows, queue, up, trouble, crashes,
                 delivered, unrecorded, overlapped, overtaken, dropped>>

\* The recipient has an address, or there is none (any more).
ReadUser(r) ==
  /\ run[r].pc = "user"
  /\ \E p \in {"channel", "failed"} :
       /\ note[run[r].note] = "deleted" => p = "failed"
       /\ Step(r, p)
  /\ UNCHANGED <<db, callVars, rows, queue, up, trouble, crashes, hist>>

\* sendSmtpEmail reads the channel as it is now.
ReadChannel(r) ==
  /\ run[r].pc = "channel"
  /\ Step(r, IF db.channel /\ db.provider = "smtp-email" THEN "mail" ELSE "failed")
  /\ UNCHANGED <<db, callVars, rows, queue, up, trouble, crashes, hist>>

SendMail(r) ==
  /\ run[r].pc = "mail"
  /\ Delivered(run[r].note)
  /\ Step(r, "sent")
  /\ UNCHANGED <<db, callVars, rows, queue, up, trouble, crashes,
                 skipped, unrecorded, overlapped, overtaken, dropped>>

Mut_MailFails(r) ==   \* a mailer without a result counts as sent
  /\ run[r].pc \in {"channel", "mail"}
  /\ Step(r, "sent")
  /\ UNCHANGED <<db, callVars, rows, queue, up, trouble, crashes, hist>>

\* What the try block throws is recorded.  sendMail may reject although the
\* server has taken the mail: its answer did not come in time.
AnswerLost(r) ==
  /\ run[r].pc = "mail"
  /\ Delivered(run[r].note)
  /\ unrecorded' = unrecorded \cup {run[r].note}
  /\ Step(r, "failed")
  /\ UNCHANGED <<db, callVars, rows, queue, up, trouble, crashes,
                 skipped, overlapped, overtaken, dropped>>

MailFails(r) ==
  /\ run[r].pc \in {"channel", "mail"}
  /\ Step(r, "failed")
  /\ UNCHANGED <<db, callVars, rows, queue, up, trouble, crashes, hist>>

\* An update that throws: within the try of an email it is recorded as
\* FAILED, otherwise the whole run rejects.
SentThrows(r) ==
  IF run[r].provider = "smtp-email" THEN Step(r, "failed") /\ UNCHANGED job ELSE Reject(r)

RecordSent(r) ==
  /\ run[r].pc = "sent"
  /\ IF note[run[r].note] = "deleted"
     THEN SentThrows(r) /\ UNCHANGED note
     ELSE /\ note' = [note EXCEPT ![run[r].note] = "SENT"]
          /\ Step(r, "each") /\ UNCHANGED job
  /\ UNCHANGED <<db, callVars, queue, up, trouble, crashes, hist>>

RecordSentError(r) ==
  /\ run[r].pc = "sent"
  /\ Trouble
  /\ unrecorded' = unrecorded \cup {run[r].note}
  /\ SentThrows(r)
  /\ UNCHANGED <<db, callVars, note, queue, up, crashes,
                 delivered, skipped, overlapped, overtaken, dropped>>

RecordFailed(r) ==
  /\ run[r].pc = "failed"
  /\ IF note[run[r].note] = "deleted"
     THEN Reject(r) /\ UNCHANGED note
     ELSE /\ note' = [note EXCEPT ![run[r].note] = "FAILED"]
          /\ Step(r, "each") /\ UNCHANGED job
  /\ UNCHANGED <<db, callVars, queue, up, trouble, crashes, hist>>

\* A query or the update of a failure fails: the run rejects.
QueryError(r) ==
  /\ run[r].pc \in {"read", "user", "failed"}
  /\ Trouble
  /\ Reject(r)
  /\ UNCHANGED <<db, callVars, note, queue, up, crashes, hist>>

AllHandled(r) ==
  /\ run[r].pc = "each" /\ run[r].left = {}
  /\ Resolve(r)
  /\ UNCHANGED <<db, callVars, note, queue, up, trouble, crashes, hist>>

-----------------------------------------------------------------------------
\* Deleting a user deletes what was addressed to it.
DeleteUser(u) ==
  /\ \E n \in Notes : n[2] = u /\ note[n] # "deleted"
  /\ Trouble
  /\ note' = [n \in Notes |-> IF n[2] = u THEN "deleted" ELSE note[n]]
  /\ UNCHANGED <<db, callVars, job, queue, run, up, crashes, hist>>

Crash ==
  /\ up /\ Budget
  /\ up' = FALSE /\ crashes' = crashes + 1
  /\ unrecorded' = unrecorded \cup {run[r].note : r \in {q \in Runs : run[q].pc = "sent"}}
  /\ cached' = None /\ overtaken' = FALSE
  /\ create' = [c \in Calls |-> IF create[c].pc = "idle" THEN Unresolved
                                ELSE [Unresolved EXCEPT !.pc = "done"]]
  /\ editing' = {} /\ cancelling' = {} /\ queue' = <<>>
  /\ run' = [r \in Runs |-> Idle]
  /\ UNCHANGED <<db, rows, trouble, delivered, skipped, overlapped, dropped>>

Restart ==
  /\ ~up /\ up' = TRUE
  /\ UNCHANGED <<db, callVars, rows, queue, run, trouble, crashes, hist>>

-----------------------------------------------------------------------------
Create(c) ==
  \/ Lookup(c) \/ QueryTemplate(c) \/ StoreTemplate(c)
  \/ CreateRows(c) \/ CreateRejected(c) \/ Enqueue(c)

Withdraw(c) == CancelRead(c) \/ CancelDelete(c) \/ Sweep(c)

Edit(e) ==
  \/ \E on \in BOOLEAN : EditTemplate(e, on)
  \/ \E on \in BOOLEAN, p \in {db.provider} \cup NewProviders : EditChannel(e, on, p)
  \/ ClearCache(e)

Deliver(r) ==
  \/ ReadNotifications(r)
  \/ \E n \in Notes : DeliverInApp(r, n) \/ TakeEmail(r, n) \/ Skip(r, n)
  \/ ReadUser(r) \/ ReadChannel(r) \/ SendMail(r) \/ AnswerLost(r) \/ MailFails(r)
  \/ RecordSent(r) \/ RecordFailed(r) \/ AllHandled(r)
  \/ RecordSentError(r) \/ QueryError(r)

Next ==
  \/ \E c \in Calls : Create(c) \/ Load(c) \/ Withdraw(c)
  \/ Refused
  \/ \E e \in Editors : Edit(e)
  \/ \E r \in Runs : StartRun(r) \/ Deliver(r) \/ Timeout(r)
  \/ \E u \in Users : DeleteUser(u)
  \/ Crash
  \/ Restart

Spec == Init /\ [][Next]_vars

-----------------------------------------------------------------------------
\* Of runs that overlap each counts on from the attempts the others have left.
Attempts == Nat
RunPCs == {"read", "each", "user", "channel", "mail", "sent", "failed"}

\* The type invariant; what a run is handling is no longer before it.
TypeOK ==
  /\ db \in [template: BOOLEAN, channel: BOOLEAN, provider: Providers, version: 0..MaxEvents]
  /\ cached \in 0..MaxEvents \cup {None}
  /\ create \in [Calls -> [pc: {"idle", "query", "store", "users", "enqueue", "done"},
                           version: 0..MaxEvents \cup {None}, disabled: BOOLEAN]]
  /\ editing \subseteq Editors /\ cancelling \subseteq Calls
  /\ note \in [Notes -> {"none", "PENDING", "SENT", "FAILED", "deleted"}]
  /\ job \in [Calls -> [status: {"none", "PENDING", "PROCESSING", "COMPLETED", "FAILED", "deleted"},
                        attempts: Attempts]]
  /\ queue \in Seq([job: Calls, attempts: Attempts])
  /\ run \in [Runs -> {Idle} \cup
       [pc: RunPCs, job: Calls, attempts: Attempts, left: SUBSET Notes,
        provider: Providers \cup {NoProvider}, note: Notes \cup {NoNote}, owned: BOOLEAN]]
  /\ \A r \in Runs : run[r].pc # "idle" => run[r].note \notin run[r].left
  /\ up \in BOOLEAN /\ trouble \in 0..MaxEvents /\ crashes \in 0..MaxEvents
  /\ delivered \in [Notes -> 0..2]
  /\ skipped \subseteq Notes /\ unrecorded \subseteq Notes
  /\ overlapped \subseteq Calls /\ overtaken \in BOOLEAN /\ dropped \subseteq Calls

\* A notification is delivered twice (deliverNotifications,
\* notification.service.ts:153-250) only if two runs of its job overlapped or a
\* delivery could not be recorded (the mail server's answer was lost, the SENT
\* update failed or was cut off): retries, crashes, other failures of the run
\* and other notifications of the batch do not repeat it.
OnceUnlessDisturbed ==
  \A n \in Notes : delivered[n] > 1 => n[1] \in overlapped \/ n \in unrecorded

\* The status tells the truth: SENT was delivered, and FAILED was not unless
\* runs overlapped, or the mail had gone when its answer was lost
\* (mailer.ts:61-63) or when the SENT update failed.
StatusIsHonest ==
  \A n \in Notes :
    /\ note[n] = "SENT" => delivered[n] > 0
    /\ note[n] = "FAILED" /\ delivered[n] > 0 => n[1] \in overlapped \/ n \in unrecorded

\* A PENDING notification has a job that is to deliver it, was given up, or
\* was cut off, never one that COMPLETED (nor one that did and was swept),
\* unless its provider is not supported or the job was deleted before it had
\* done it: cancelled by hand (job-instance.service.ts:56-66), or swept when it
\* was given up.  Rows and job are one transaction and enqueue may be lost to a
\* crash (notification.service.ts:113-142).
PendingHasJob ==
  \A n \in Notes :
    note[n] = "PENDING" /\ n \notin skipped
      => job[n[1]].status \in {"PENDING", "PROCESSING", "FAILED"} \/ n[1] \in dropped

\* A delivery job is given up only after maxAttempts failures of the
\* environment, unless its runs overlapped (then they count each other's
\* attempts): a recipient deleted while its batch is under way costs one
\* attempt, not the delivery of the others.
GivenUpOnlyByTrouble ==
  \A c \in Calls :
    job[c].status = "FAILED" => trouble >= MaxAttempts \/ c \in overlapped

\* An old template stays cached only while an edit has yet to clear the cache,
\* or when a read of the database was overtaken by an edit between its query
\* and its set (template.service.ts:190-206).
StaleOnlyWhenOvertaken ==
  cached \notin {None, db.version} => editing # {} \/ overtaken
=============================================================================
