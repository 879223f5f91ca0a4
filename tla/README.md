# Verification of the service package

TLA+ models of the stateful core of this repository, TLC configurations that
check them on small instances, and proofs checked by TLAPS. Paths below are
relative to `packages/service/src` unless they begin with a capital letter
(`ARCHITECTURE.md`, `ISSUES.md` are at the root).

## 1. The system

The repository is a multi-tenant administration template: a Hono/Prisma
service in `packages/service`, mounted in a Next.js gateway (one Node process,
ARCHITECTURE.md:12), and web applications on top of it. All concurrency is that
of one event loop: code between two `await`s is atomic, and what was read before
an `await` may be old after it. Each such segment is one action below.
PostgreSQL statements are atomic. A transaction is one step where only its outcome
matters, and a step per statement at Read Committed, with the row locks that others wait for,
where others can come between its statements (the avatar's upload, deleteDepartment,
setMemberPositions). Memory (queue, timers, cache, counters, subscriptions) is gone after a crash, rows
and files are not.

| Component | State | Operations | Talks to | Hard behaviour | Correct when |
|---|---|---|---|---|---|
| Job worker and queue (`lib/queues/job-worker.ts`, `job-queue.ts`, `repositories/job-instance.repository.ts`, `services/job-instance.service.ts`) | table `job_instance`; the p-queue of row snapshots; the calls in its slots | create, fetch, add, processJob (mark, handler, timeout, complete, retry, fail), cancel, sweep | scheduler (events), handlers, Postgres | snapshots are old when they run and may be queued twice; timed-out handlers go on; an update may fail or find no row; crash between two writes | no row is given up early, none is PROCESSING without someone working on it, the queue moves |
| Instance scheduler (`lib/queues/job-scheduler.ts`, `job-executor.ts`) | one timer; three chains of awaited queries | start, loadExpiredJobs, scheduleNext, onTimerFire, onJobCreated, rescheduleIfNeeded | queue, worker (events), Postgres | chains interleave at their awaits and overwrite each other's timer | whatever it does is allowed by the worker's specification; no pending row is left without queue or timer |
| Recurring templates (`lib/queues/job-template-scheduler.ts`, `repositories/job.repository.ts`, `services/job-template.service.ts`) | table `job`; claim locks; one timer | claim, dispatch, armTimer, create/update/delete/trigger template | instance scheduler (job:created), Postgres | overlapping dispatches and edits; crash between claim and insert | one instance per occurrence, none lost without a failure, what is due is claimed |
| Job handlers (`states/job-executor/handlers/*`) | none of their own | sweeps, send-notification | tables they clean | run twice, or beside their own retry | idempotent |
| Notifications (`services/notification/*`) | templates, channels, notification rows; cached templates and channels | create, deliver, edit template/channel | cache, mailer, event bus, jobs | a fill of the cache overtakes an edit; mail sent but the update fails; overlapping retries | nothing SENT that was not delivered; nothing PENDING without a job; no stale template for ever |
| Cache (`lib/cache.ts`) | one LRU for all namespaces | get, set, has, delete, clear(prefix) | WebAuthn, notifications, the HTTP surface | eviction across namespaces | a miss is always safe |
| Rate limiting (`middleware/rate-limit.ts`, `lib/rate-limit-*.ts`, `services/rate-limit.service.ts`) | windows, overrides and limits in memory; overrides and defaults in Postgres | hit, release, sweep, set/remove override, edit and reload of the defaults, load at boot | configuration, event bus | edits, reloads and loads cross between their commit and memory; limits change while a window runs | every request is counted in one window; memory agrees with the tables; who is blocked is announced |
| Event bus and SSE (`lib/event-bus.ts`, `routes/events/streamEvents.ts`) | subscriptions | subscribe, emit, close | notifications | stream closes while an event is written | no event for a stranger, no subscription left behind |
| Sessions, authentication (`services/auth.service.ts`, `user.service.ts`, `lib/session.ts`) | users, accounts, sessions, verifications | sign in/out/up, password reset/change, expiry | rate limits, email | sign-in that awaits a hash while all sessions are revoked; refresh, purge and sign-out of one row at once | no session outlives the password it was given for, none in use is deleted |
| WebAuthn (`services/webauthn.service.ts`) | accounts with counters, challenges in the cache | options, register, sign in, remove | cache, sessions | an answer sent twice; two sign-ins with one key; two removals that count each other's key | a challenge counts once; the counter does not go back; a user keeps a way to sign in |
| API tokens, roles, permissions | rows | grant, revoke, assign | organizations, positions | concurrent edits of one set | derived permissions match the grants |
| Departments (`services/department.service.ts`, `member.service.ts`) | a tree of rows, members in them | create, move, delete, assign, remove a member | positions (members) | moves that cross; a deletion of three statements; a cascade | a tree stays a tree, and a deletion keeps the children |
| Positions (`services/position.service.ts`, `role.service.ts`, `user-role.service.ts`) | positions, a role of each, who holds them, assignments of roles | create, rename, delete, set permissions, set a member's positions | roles, members | a role is made late; reads before a transaction of several statements | a role goes with its position, a member has the roles of its positions |
| Organizations, invitations, menus | rows, a tree | create, move, delete | roles | as departments | as departments |
| Attachments (`services/attachment.service.ts`) | uploads shared by hash, attachments, files | create, delete, replace, avatar | files, users | unlink and delete while another request starts to use the upload; files do not roll back | an attachment has its file; an upload goes with its last attachment |
| Logs, configuration, applications, HTTP surface, web UI | rows; none | append, read, route | – | – | – |

## 2. Plan

Order: what every other part relies on first.

1. `JobWorker`: abstract over *when* rows are fetched and retried. It is the
   abstract specification of the job system. **Done, with proofs.**
2. `JobExecutor` (extends `JobWorker`): the real scheduler, shown to implement
   `JobWorker`. **Done, with proofs.**
3. `JobTemplates`: the recurring engine. **Done, with proofs.** Its instances enter
   `JobExecutor` by `CreateInstance`.
4. `Notifications`: the cache in front of the template, creation, delivery by a
   job whose runs may overlap. **Done, with proofs.** It uses what `JobWorker` promises of a job.
5. `Sessions`: accounts, sessions and their event streams, whatever two requests
   of one user do between each other's awaits. **Done, with proofs.**
6. `RateWindow`, what counters of windows promise, and `RateLimit`, shown to
   implement it. **Done, with proofs.**
7. `Attachments`: rows, shared uploads and files. **Done, with proofs.**
8. `OrgTables`, `Departments`, `Positions`, and `Organization`, which composes them
   by the members and requests they share. **Done, with proofs.**
9. `WebAuthn`: challenges, counters, the last way to sign in. **Done, with proofs.**

Left: menus (a tree moved like that of departments), API tokens and the
permissions of roles, the writes of the event streams, the pressure of all
namespaces on the one LRU.

Runs: one passing run per component, plus a violating run where a comment or a test
disagrees with the code. Every safety property of a passing run but `NobodyForgotten` is a theorem. Abstract specifications: `JobWorker` for
the job system and `RateWindow` for the limiter, both used by a refinement; still
worth stating: "an occurrence becomes one instance" for templates, "a read returns a version not
older than the last completed edit" for the cache.

## 3. The modules

### JobWorker

`row[j]` is a row of `job_instance` (status and attempts; `absent` before it is
inserted, `deleted` after), `held[h]` the snapshots that a service call or a
chain of the scheduler has read and not yet passed to `queue.add`, `queue` the
p-queue, `slot[s]` a processJob call with the snapshot it was given and where it
stands. `Fetch` may return any set of PENDING rows, at any time, and `Release`
queues them in any order and may leave some out: that is all the worker knows of
its scheduler. `Mark` … `CaughtError` are the segments of processJob
(job-worker.ts:19-71): every update may succeed, fail (the `errors` bound) or find
the row gone (Prisma throws), and the catch block decides by the attempts
of the *snapshot*, as the code does. `Return` and `Throw` are the handler's end,
`Timeout` the loss of the race. A handler that lost the race goes on in the code;
its result is ignored by processJob, so nothing of it remains here. `CancelRead` and `CancelDelete` are the two
halves of cancelInstance. `Crash` empties memory.

The history variables are `starts` (calls that marked the row) and `abandoned`
(rows whose last owner a crash or a failed update cut off).

### JobExecutor

Adds `wait[j]` (time until `scheduledAt`; time is relative, so `Tick` lowers it),
`timer` (the one referenced by `this.timer`), `stray` (timers that still run
though `this.timer` was overwritten), and per chain `h` its `pc`, the delays of
its snapshots and the target it read. Holders are the chains: those not in
`Rearmers` begin with start, a timer or a created job, those in `Rearmers` with
`job:rescheduled`. `FutureOf`, `DueOf` and `EnqueueDue` translate the loop of
loadExpiredJobs (job-scheduler.ts:28-58) with its `setTimer` at the end, which
does not cap the delay (ARCHITECTURE.md:89-90 says it is capped; beyond 2^31-1 ms
Node fires such a timer at once); `ScheduleNext*` the capped one; `RescheduleIfNeeded` the
path of a created future job. The branch for a full page is in `EnqueueDue`
(the loop asks the same query again); `PageSize` is above the number of rows in
the runs, because with a page of rows that stay PENDING that loop has no end and
nothing else could be seen. History: `unawaited`, the rows that were PENDING when a chain ended
without a timer for one of the reasons that `NobodyForgotten` names: a failed query,
rescheduleIfNeeded with an earliest row that is due or more than 24 h away (job-scheduler.ts:95), setTimer with a
date that has passed (line 109).

A rejection of `JobQueue.add`'s promise is not handled by the code. Under the
gateway (Next.js logs unhandled rejections and goes on) the row keeps its state,
which is how it is modelled; where Node would end the process instead, that is
`Crash`.

### JobTemplates

`tpl[t]` is a row of `job`, with `next` relative to now and `occ` the number of
the value in `nextRunAt`. `occ` rises whenever `nextRunAt` is computed anew and
falls back when an old value is written back, so instances can be counted per
occurrence in `made`. A call `c` is one dispatchDue, or one service call; `age[c]` is
the time since its `now`. `ClaimLock`/`ClaimCommit` are the transaction of
claimDueTemplates with `FOR UPDATE SKIP LOCKED`, `DispatchOne`/`DispatchFails` the
loop with its catch, `ArmClear`/`ArmRead`/`ArmSet` armTimer around its await,
`UpdateRead`/`UpdateWrite` updateTemplate with its stale read: an input that touches neither cron nor enabled (`Keeping`) writes back the
`nextRunAt` that was read. What a claim had taken since then is in `rewound`, and `last` gives the next new occurrence
its number. triggerTemplate
only inserts and announces an instance: `JobExecutor!CreateInstance` with delay 0.

### Notifications

`db` is the template with its channel as stored (enabled flags, provider, and a
`version` that each edit raises); `cached` the version in
`notificationTemplateCache`; `create[c]` a call of createNotificationsFromTemplate
between its awaits (`Lookup`, `QueryTemplate`, `StoreTemplate`, `CreateRows`,
`Enqueue`); `editing` the update calls between their commit and their clear;
`note[n]` the status of a notification; `job[c]`, `queue` the delivery job as
`JobWorker` treats it: any PENDING row may be queued, also twice, a call starts
whatever the row's status is, decides by the attempts of its snapshot, and a
timeout takes it the job while the handler goes on. `run[r]` is a run of
deliverNotifications with the notifications it read as PENDING and has not come
to (`left`), the one in hand (`note`), the provider it read, and whether the job is still
its own (`owned`). Each segment between awaits is an action, and each update has its error:
within the `try` of an email it ends in FAILED, anywhere else it rejects the run. A rejected sendMail is two actions:
`MailFails`, when the server did not take the mail, and `AnswerLost`, when it did and the answer
did not come in time. The row of the job may be cancelled (`CancelRead`, `CancelDelete`) or swept (`Sweep`); a run that has started
goes on and its updates find no row (`Writes`), one still in the queue does not start (`Refused`). History: `dropped`
are the jobs deleted before they were COMPLETED.
An edit is one version whatever fields it changes, and what a template renders to is left out.

### Sessions

One user: no call here touches the rows of another. `user` is its row, `pw` the
password of its credential account (a number: each replacement is a new one; 0
while there is none), `roles` whether an administrator's roles were assigned, `sess` the table
`session`, `streams` the subscriptions of the event bus. `call[c]` is a request
between its awaits, with what it read. Every sign-in ends in `ListDead`, `Purge`,
`Create`, the three queries of createSession; a request under a session begins
with `Authenticate` (getSessionByToken), maybe followed by `Expire` or `Refresh`,
and then does what it wants: nothing that matters, `ChangeCommit`, `OpenStream` or
`Activate`. `SignOutRevoke` and `SignOutClose` are the two halves of signOut.
`FindNone` … `UndoFails` are sign-up and the administrator's createUser (whose compensation swallows a deletion that fails), `Wechat*` the
branches of signInWithWechat with the conflict (P2002) of two first sign-ins.
Passwords are verified in the step that reads the account: what the comparison
sees is what was read. The transactions that replace the password are one step.

Time is relative: `left` is what remains of a session, `since` the time since
`updatedAt`, both cut off where no branch tells the difference. `expiresAt` is
computed a few queries before the insert in the code and at the insert here.
History, for the properties only: `proof`, `late`, `switched`, `revived`,
`closed`, `raced` of a row (explained at `Row`), and "cut off" and "left" of `roles`.

Not in the model: a ban (nothing in the source sets one), edits of name, email and later roles,
sign-in by passkey, audit rows.

### RateWindow and RateLimit

`RateWindow` is the abstract specification: per subject, how many requests its window
has counted (`used`) and how long that still lasts (`left`). The first request
opens a window of one of the `Lengths`, time ends it, and nothing else changes its length. `Windowed` in `RateLimit` says more: which
of its steps each step of the limiter is (a counted request is a `Request` with the length of its policy, and so on), and that
there is no other.

`RateLimit` is one limiter with its subjects. `bucket` is RateLimitStore, `memory` and
`limiter` what rateLimitRegistry holds (overrides, and the limiter with its
defaults), `table` and `conf` the rows behind them; a row carries a version, so that
older can be told from newer. `Request` is the whole middleware: it resolves the
policy, counts (a bucket whose end has come is a new one), and announces the
first refused request. An edit is `UpsertCommit`, `DeleteCommit` or
`ConfigCommit`, then `ApplyOverride` or `ReloadRead` and `ReloadApply`: commit, await,
memory. deleteConfig does not reload (`ConfigDelete`). `Boot*` are the two
loads of app.ts, beside which requests and edits run. The
counters are a refinement of `RateWindow`: `used` and `left` are those of the bucket
while it is open. History: `apart` (what memory need not agree with any more, and why: a failed
query, an older version over a newer one, ConfigDelete) and `seen` (whether the last event
let an administrator see the subject as blocked).

An override has a begin and an end (`from`, `until`, in ticks); `Active` compares both with the clock, as isOverrideActive does.
Left out: the entry for trustProxy, and other limiters, which share nothing but the overrides.

### Attachments

`up[h]` is the row of `upload` with content `h` (the hash is unique), numbered so that a
row inserted after a deletion is another one, `att` the attachments, `avatar` an
avatarId, `file` the paths on disk; a path follows from directory and content.
A call goes through creation (`Lookup`, `WriteFile`, `InsertUpload`, `Attach`), deletion
(`RemoveAttachments`, then `Count`, `Unlink` and `DropUpload` for each upload) or
replacement (`Repoint`, `Move`), one await after another; `InsertRefused`, `AttachRefused`, `DropRefused`,
`UpdateRefused` are the refusals of the database. uploadAvatar
does the same in one transaction: what it has deleted (`gone`, `rm`) the others see when it
commits, its files at once, and an invalid image rolls the rows back and not the files (`RollBack`).
Two deleted attachments that share an upload make the second upload.delete
fail, as in the code; a replacement by the same content elsewhere moves the file. History: `late`, `torn`, `stray`, one for each
exception below.

Creations are of biz "file"; the user who creates is known only by `DeleteCreator`, which deletes
any of its attachments. Who may read or sign, and the checks of size, are left out.

### OrgTables, Departments, Positions, Organization

`OrgTables` has what the services share: `member` (the department of each member)
and `call`, a request with what it read. `Departments` is the tree: `CreateLookup`
and `CreateInsert`, `MoveLookup` and `MoveUpdate`, `AssignLookup` and `AssignUpdate` check first and write later;
a deletion is its lookup and three statements of one transaction (`DeleteReparent`, `DeleteUnassign`,
`DeleteCommit` with the cascade of the foreign key), whose locks others wait for
(`Moved`, `Unassigned`, `Blockers`); `DeleteAbort` is a deadlock, a timeout or a row that has gone.

`Positions` has `position` (code, role), `role` (its code), `holds` (member, position) and `grants`
(member, role). A position gets its role with its first permissions (`PermitCommit`), and
setMemberPositions reads the roles of the old and new positions, each in a query, and
then replaces the rows and the difference of the roles (`SetLookup` … `SetCommit`). `AssignRole`, `UpdateRole` (its code) and `DeleteRole`
are the administration of roles, which knows no positions. The last statements of that transaction are one step (nothing can come
between that changes their effect), which permissions a role has and all names are left out, and so are roles
made by hand with a code that a position would give its role.

`Organization` composes both and adds `RemoveMember`, which touches both. History: `lost`, `late`,
`knotted` of departments, `stray`, `skewed`, `excused` of positions.

### WebAuthn

`challenge` is the namespace of the cache (what has left it, for whatever reason, is
`gone`), `key` the accounts of provider "webauthn" with the counter of their
providerData, `other` the users with another account.
An answer is sent (`RegisterSend`, `SignInSend`) some time after its challenge was issued,
by whomever and more than once, and arrives later (`RegisterArrives`, `SignInArrives`), where the code finds and deletes the
challenge before it awaits anything. `SignInFind`, `SignInUpdate`, `SignInSession` are the awaits of
verifyAuthentication: the user is read with its accounts, the answer compared with that
counter, the counter written over the row there is by then. An answer names any user, any key and any counter up to `MaxCounter`:
of the library's result the code uses the counter only (webauthn.service.ts:525) and does not read `verification.verified`, so
whose answer it is is nothing the model may assume; the library throws only where the counter is not newer (`Newer`; a device that does not count reports 0). `RemoveFind`, `RemoveCount` (two queries
side by side) and `RemoveDelete` are removeWebAuthnCredential. History: `winner`, `highest`, `tangled`, `crossed`.

A user without another account is allowed initially: the services create every user with one,
and the check against removing the last method is for users without. Left
out: the switch of the feature, deleted users, audit rows.

### The other modules

`MCJobWorker`, `MCJobExecutor`, `MCJobTemplates`, `MCNotifications`, `MCSessions`, `MCAttachments`,
`MCRateLimit`, `MCOrganization` and `MCWebAuthn` are the instances for TLC. `JobProofs`,
`JobTemplatesProofs`, `NotificationsProofs`, `SessionsProofs`, `RateLimitProofs`, `AttachmentsProofs`,
`OrganizationProofs` and `WebAuthnProofs` hold the theorems.

## 4. The runs

| Run | Checks | Instance |
|---|---|---|
| `job_worker` | `TypeOK`, `NeverGivenUpEarly`, `ProcessingIsOwned`, `QueueMoves` | one row, two slots, two attempts, a queue of three, one crash, one database error |
| `job_executor` | `Spec` (refinement), `NobodyForgotten` | one row, one slot, two loading chains and a rearmer, two at a time, delays 0..2, timer cap 1, one crash or error |
| `job_executor_dup` | violates `NoDuplicateExecution` | one row, two slots |
| `job_templates` | `TypeOK`, `AtMostOneInstance`, `ClaimedIsAccounted`, `DueIsClaimed` | one template, two calls, three occurrences, one crash, error and edit of any kind |
| `job_templates_twice` | violates `NoDuplicateInstances` | one template, two calls, one edit, no failure |
| `notifications` | `TypeOK`, `OnceUnlessDisturbed`, `StatusIsHonest`, `PendingHasJob`, `GivenUpOnlyByTrouble`, `StaleOnlyWhenOvertaken` | one batch for two recipients, two runs, two attempts, any two events (one, once runs overlap after an edit or a lost answer), or the deletion of the job with one event and lost answers, both without an edit |
| `sessions` | `TypeOK`, `OldPasswordIsOut`, `OnlyDeadDeleted`, `SignedOutIsClosed`, `VerifiedGetsSession`, `RolesOrNoUser` | one user, two calls, two sessions, one replaced password, a life of two units |
| `attachments` | `TypeOK`, `HasFile`, `OnlyLatecomersGo`, `UnusedIsRemoved` | two contents, three attachments, three requests, two at a time, one failure or crash |
| `rate_limit` | `TypeOK`, `MemoryAgrees`, `BlockedIsSeen`, `CountsWindows` (refinement) | one subject, two edits, two at a time, two ticks, three requests a window, one failure or crash |
| `organization` | `TypeOK`, `LostOnlyIfLate`, `TreeUnlessKnotted`, `RolesHaveOwners`, `CodesAgree`, `GrantsFollow` | three requests, two at a time, from every tree of three departments and every state of two positions, one member |
| `organization_own` | violates `NotOwnParent` | the same |
| `webauthn` | `TypeOK`, `ChallengeOnce`, `CounterIsHighest`, `KeepsAMethod` | two users, two keys, two challenges, three requests, two at a time |

What the passing runs show:

* `NeverGivenUpEarly`: FAILED means maxAttempts starts, though `attempts` is
  written from snapshots that may be old or queued twice, and may go down.
* `ProcessingIsOwned`: only a crash or a failed update leaves a row PROCESSING
  with nobody behind it (nothing recovers such a row: start loads PENDING rows).
* `QueueMoves`: a handler that never settles costs its slot `timeoutMs`, not more.
* `Spec`: no timer, page, retry or event does to the rows and the queue what `JobWorker` does not allow.
* `NobodyForgotten`: two chains that overlap on the one timer, each clearing and setting it around awaits, leave no PENDING
  row without a place in the queue or a timer, except where a query failed or the code arms nothing (see `unawaited`).
* `AtMostOneInstance`, `ClaimedIsAccounted`: overlapping dispatches take each
  occurrence once, and it is dispatched, still in hand, or lost by a named failure, exactly one of these, until
  an update that read the row before a claim writes `nextRunAt` back.
* `DueIsClaimed`: `SKIP LOCKED` leaves a due template only to a call that takes it.
* `OnceUnlessDisturbed`: what is published or mailed twice was so because two runs
  of its job overlapped, or because its answer was lost or the SENT update cut off. No retry after any other failure repeats it.
* `StatusIsHonest`: SENT was delivered; FAILED was not, save in the same two cases.
* `PendingHasJob`: no crash or error leaves a PENDING notification without a job
  that is waiting, running or given up (unless its provider is not supported, `skipped`, or the job was cancelled, or swept when given up, `dropped`).
* `GivenUpOnlyByTrouble`: a recipient deleted while its batch is delivered costs one
  attempt and not the other recipients' delivery. (With overlapping runs the
  attempts of the row can rise faster than the failures do, hence the exception.)
* `StaleOnlyWhenOvertaken`: an old template is cached only during an edit or by a
  read whose query and `set` an edit came between.
* `OldPasswordIsOut`: after a change or reset no session of the old password is
  live, whoever refreshes, signs in or changes it at the time, except one whose sign-in had been verified before
  (auth.service.ts:120 creates it after the revocation).
* `OnlyDeadDeleted`: neither sign-in nor sweep deletes a session in use, except one
  refreshed between a sign-in's list and its delete.
* `TypeOK` of `Sessions` has `LastsFromUpdate`: seven days from the last update, unless that was the
  activation of an organization, which puts the next refresh off and not the expiry.
* `SignedOutIsClosed`: after a sign-out no stream of the token is left, except one of a
  request that was already authenticated. (After a change or reset of
  the password, or the deletion of the user, streams stay open: the code closes them at sign-out only.)
* `VerifiedGetsSession`: no conflict or overlap turns a verified sign-in away.
* `RolesOrNoUser`: a new user is left without its roles only by a crash between the two steps, or by two failures: of the
  roles, and of the deletion that was to undo the user.

* `HasFile`: an attachment has its file, unless it is on its way out with its upload, or a file
  is torn: unlinked by a call that then did not delete the row (a failure, a crash, a
  transaction rolled back), or by its path although the same content had been stored there again.
* `OnlyLatecomersGo`: a deletion takes along no attachment but one given that upload after the count.
* `UnusedIsRemoved`: no upload stays without attachment, unless a call ended early, two
  deletions each counted the other's (one in an open transaction), a replacement looked after
  another upload than the attachment had by then, or a user was deleted (the cascade
  removes attachments, not uploads).
* `MemoryAgrees`: once nothing is under way, overrides and defaults in memory are those of the
  tables, unless edits of one subject crossed, a query failed, or deleteConfig removed a default.
* `BlockedIsSeen`: whoever is blocked was announced, by whatever became blocked: a
  request, an edit that lowers the limit, a bypass removed. Loads at the start, and overrides that
  begin or run out by the clock, announce nothing.
* `CountsWindows`: the counters implement `RateWindow`, step by step: each counted request is counted once, in a window as
  long as the policy said when it opened; no edit, sweep, load or override that begins or ends changes an open window.
* `LostOnlyIfLate`: a deleted department takes a child along only if that was put under it after
  the transaction had moved the others (the cascade does), or in a knot.
* `TreeUnlessKnotted`: the departments are a tree until one is moved below itself (moves check
  only that the parent is not the row), or moved while a deletion gives its children the parent it had read.
* `RolesHaveOwners`, `CodesAgree`, `GrantsFollow`: a role stays with its position, its code with the
  position's, and a member has the roles of its positions, outside the races each
  names: chiefly a role made after the member got the position, which nobody grants afterwards, and a code that updateRole gave
  to the role of a position.
* `ChallengeOnce`: however often an answer is sent, it counts once, and for the user the challenge was issued to, if to one. Whether
  that user's device made the answer is for the library to say, and not in the property.
* `CounterIsHighest`: the counter stored is the highest accepted, unless two sign-ins with one key
  overlap between read and update: then the older may be written last.
* `KeepsAMethod`: the check against removing the last way to sign in holds against everything but a second
  removal that has counted as well.

Each exception above is reached in the run: without it the property fails.

The violating runs are disagreements between the code and a comment, a message or a doc:

* a due row waits in the queue as PENDING, is read again by the next load, and two
  calls run it, against ISSUES.md:180-181 "no duplicate execution occurs today";
* an update that changes neither cron nor enabled writes back the `nextRunAt` it read, undoing a claim, and the occurrence is
  dispatched again, against ARCHITECTURE.md:313-314 "concurrent workers cannot create duplicate instances from the same due template";
* two moves make two departments each other's parent, and the deletion of one then makes the other
  its own, against department.service.ts's message "Department cannot be its own parent".

The modules contain further disagreements, as exceptions of passing properties:
cancelInstance deletes a row that became PROCESSING during its await (`Cancel*`, against its
message "Only pending instances can be cancelled"); an old template cached after the edit's clear
stays (`StaleOnlyWhenOvertaken`); an attachment made between the count and the deletion is
deleted with the upload (`OnlyLatecomersGo`, against attachment.service.test.ts's "does not delete upload if other
attachments reference it"); two removals take the last passkey (`KeepsAMethod`, against "Cannot remove the last
remaining sign-in method").

### Bounds

`AttemptCap` (starts per row), `MaxQueue`, `MaxCrashes`, `MaxErrors`, `MaxWait`
(longest delay), `MaxTimer` (24 h in the code; below `MaxWait`, so that long
delays exist), `MaxLate` (how long a call may take), `MaxOcc`, `MaxEdits`, 
`Rearmers` (retries that may await their query at once), and in `Notifications`
`Runs` and `MaxEvents` (edits, crashes and trouble together, `MaxQueue` apart).
`Sessions` is bounded by `Calls`, `SessionIds` and `MaxReplaced`:
two calls overlap, two rows let a purge and an insert meet, one replacement tells old from new; life 2 and
refresh after 1 let a session be refreshed, run out or be put off. One application is
used; the wildcard of streams that name none is in the module and left out of the run, which
it would make too long. Calls and tokens are symmetric: no property of that run is temporal in more than one step.
`Attachments` is bounded by `MaxCalls`, `MaxRows` (rows of one content: one, and its successor) and
`MaxFaults`; `RateLimit` by `MaxEdits`, `MaxTime` (a window of two ticks ends, one of one is
followed by another), `MaxCount` (one more than the limit) and `MaxFaults`; `Organization` and `WebAuthn` by `MaxCalls`,
and `WebAuthn` by `MaxCounter`: 0 for devices that do not count, 1 and 2 to go forward and back. `MCJobExecutor` and `MCNotifications`
have a constraint, `Few`, that keeps the states to one failure and two chains at a time, and to a deletion of the job or lost answers without
an edit, of a deletion with one event more, of edits or lost answers with no event more once runs overlap:
what these do not touch together is checked apart. Two requests overlap, and the third finds what they
left; what more requests in a row could prepare is in the initial states instead: every tree
and every assignment of departments, every position with and without its role and holder, every owner of a key. A
behaviour of `MCOrganization` starts with departments or with positions, for they meet only in the member, whose
removal is in both. Larger instances were checked once and found no more: two subjects (678,000 states),
four requests or two members in the organization (923,000). In these runs three
requests interfere as all do: pairwise.
Two events suffice for each property to fail in a mutant, and for a job of two attempts to be given up. One row with two slots is
where a worker interferes with itself; rows only meet in the queue and in the timer. Two calls are the smallest number that overlap; one
crash and one error suffice to cut any step off, and the proofs lift these bounds
for what they cover. A step that only a bound disables is a step the code would
take: the liveness formulas therefore speak of states where the bound leaves room.

### Fairness

Weak fairness of what the runtime does by itself: p-queue starts work when a slot
is free, setTimeout fires, an awaited query settles, time passes. Strong
fairness is asked of nothing.
Nothing is assumed of handlers, of service calls, of crashes, errors or restarts.
`DueIsClaimed` promises nothing once an error or a crash came between: the code does not retry a failed query.

`CHECK_DEADLOCK FALSE` is set for the runs of attachments, rate limits, organization and passkeys, which end
when the requests that the bounds allow are made, for the notification run, which ends when the batch
is delivered and the events are used up, and for the template runs: with `MaxLate` reached
or all edits used and no template scheduled, the scheduler is rightly idle, and at
`MaxOcc` the model stops counting.

## 5. The proofs

All proofs hold for every value of the constants that satisfies
the assumption of its module: `JobWorkerAssumption`, `JobExecutorAssumption`, `TemplatesAssumption`,
`NotificationsAssumption`, `SessionsAssumption`, `RateLimitAssumption`, `AttachmentsAssumption`,
`OrgAssumption` with `PositionsAssumption`, `WebAuthnAssumption`. They say which
constants are numbers and that special values are not ids; `WebAuthnAssumption` also that there are finitely many keys,
and `AttachmentsAssumption` that a content can have the row it has initially (`MaxRows` is at least 1).

* `TypeCorrect`: `Spec => []TypeOK`.
* `Ownership`: `Spec => []ProcessingIsOwned`; inductive with the types: whoever sets a row
  PROCESSING owns it until it writes the outcome, and each step that ends an owner
  without an outcome puts the row into `abandoned`.
* `NotGivenUpEarly`: `Spec => []NeverGivenUpEarly`. The property is not inductive:
  a call decides by its snapshot's attempts. `AttemptsInv` adds `CopiesLag` (no copy of a row,
  held, queued, in a slot or stored, shows more attempts than `starts`) and
  `MarkIsCounted` (a call that has marked shows at most what is counted), so
  attempts + 1 >= maxAttempts in a call that marked implies that many starts.
* `Refinement`: `ESpec => Spec`, with the variables of `JobWorker` mapped to
  themselves: `SchedulerStepRefines` and `StepRefines` show each step of the
  executor to be a step of `JobWorker` or a stutter.
* `ExecutorSafety`: hence both safety properties hold of the executor.
* `TemplatesTyped`: `Spec => []TypeOK` for the recurring engine.
* `AtMostOnce` and `Accounted`: `AtMostOneInstance` and `ClaimedIsAccounted`, for every kind of update; what one has
  written back after a claim (`rewound`) is exempt, as the violating run shows it must be. Neither
  property is inductive: `made` says nothing of what is yet to be dispatched. `ClaimsInv`
  adds that a claimed occurrence is behind its row (`Behind`, so it is never claimed
  again unless it is in `rewound`), that it is in the hands of one call, which has not made it (`OneHand`), that
  only claimed occurrences are made, once (`Settled`), and that none is forgotten (`Kept`).

* `RateLimitTyped`, `BlockedSeen`: the types, and `BlockedIsSeen` by itself: it is inductive, since
  every step that can block someone sets `seen` or is an exception.
* `WindowsKept`: `CountsWindows`, and from it `WindowsRefined`: `Spec => Windows!Spec`. The mapping reads `used` and `left` off an open bucket;
  `LengthsKept` (every window stored in the limiter, the defaults, the rows, memory, the calls and the boot
  is one of `Lengths`, or 0 where an override has none) is what the steps need, and
  each action is the step of `RateWindow` that `Windowed` says, or a stutter.
* `MemoryKept`: `MemoryAgrees`, which speaks of quiet states only. `MemoryInv` adds what holds on the way: no
  version in memory, in a call or in a load is ahead of its row (`RowsLag`, `ConfLags`), and a row or
  default that memory does not have yet is about to arrive, or is in `apart` (`RowArrives`, `ConfArrives`).
* `PositionsTyped` (`PTypeOK`, with the foreign keys), `RolesOwned`, `CodesPaired`: `Sound` is inductive: rows and requests have what
  they should (`RowsSound`, `CallsSound`) and a role that a request read with a position belongs to no other (`RolesStay`).
  `Paired` is `RolesHaveOwners` and `CodesAgree` together, which with `Sound` are inductive.
* `GrantsFollowed`: `GrantsFollow` is about rows, but setMemberPositions decides by what it read.
  `Agreeing` adds that what it read is still so of every role that is not excused (`SetsKnow`),
  that it has read no role that is yet to be made (`SetsAreOld`), and that it replaces all rows of its
  member (`SetsReplace`). Steps of departments matter to these only by leaving members in.
* `OrganizationTyped`, `ChildrenKept`, `TreeKept`: what is above a department is the least closed set that
  has it (`Reach`), and that departments are a tree is the same as that none of them form a knot, a set that has all their
  parents (`KnotlessTree`): this needs no induction over paths. `Departed` is inductive with the types of the positions: a knot after
  a step would have been one before it (`Knotless`, for a new row, a row that is moved below none of its own,
  and the rows a deletion leaves); the children that a deletion has moved stay where they were, no
  other deletion has them, and where they go stays (`KidsStay`); every other child came late (`OthersLate`).
* `WebAuthnTyped`: types, and that a sign-in about to store a counter is with a key that was registered (`UpdatesRegistered`).
* `ChallengedOnce`: `Taking` adds that a challenge that was taken is in the hands of one request, which has
  not won by it, and never comes back (`OneTaker`), and that who is about to win fits it (`TakersFit`).
* `CounterKept`: `Counting` adds that who is about to store a counter has a newer one than
  the row, unless the key is tangled (`UpdatesRaise`).
* `MethodKept`: an action property. `RemovalsCounted` says that the keys counted are still there unless another
  removal crossed, and the other account too; a deletion with more than one key counted leaves one
  (by cardinality).

* `NotificationsTyped`, with `Fits`: a run handles notifications of its own job, each once.
* `StaleOnlyThen`: inductive by itself.
* `GivenUps`: `Origins` (only jobs that create has inserted run, wait or are in the table), `Alone` (two runs of one
  job at a time are in `overlapped`), and `Tried`: where none overlapped, every attempt but the last was ended by trouble
  of its own, and so is the last once its run has lost a notification of its batch (`Bereft`). Attempts are unbounded
  in the theorem, for overlapping runs count on each other's.
* `PendingHaveJobs`: `Covered` says that a run which has read its batch still has every notification that
  is PENDING in what is left to it (`Rest`), or has skipped it; a job that is gone was COMPLETED or is in `dropped`.
* `DeliveredOnce`, `StatusHonest`: `Counted` says of every notification without overlap and with its delivery recorded (`Clean`)
  that it was delivered at most once, that what is PENDING was delivered only if a run is about to record it
  (`SentBy`), and what the run that holds it knows of it (`CleanHeld`).
* `SessionsTyped`, with what a call under a session knows of it (`Fits`) and what is true of every row (`Good`).
* `OldPasswordsOut`: `Proven` adds that nobody has proved anything before there is a user (`BeforeUser`),
  that rows go with the user (`OnlyWithUser`), and that a sign-in under way rests on the password of today, on
  WeChat, or is late (`CallsProve`).
* `DeletedWereDead`: an action property, by `ListedAreDead`: what a sign-in has on its list is dead, gone, or was refreshed since.
* `SignedOutsClosed`: `Closed` adds that what a sign-out has closed is revoked (`ClosedAreRevoked`) and that a request that can still
  open a stream of it began before (`OpenersAreRaced`).
* `VerifiedGetSessions`: an action property that the types suffice for, action by action. `RolesOrNoUsers` is inductive with the types.
* `AttachmentsTyped`: `Sane` is the types with the foreign key (`Refers`) and `Locks`: what a transaction has deleted
  or inserted and not committed is its own. It deletes rows that are there for the others, an upload only with all that
  refers to it (`Sound`), and two transactions have no row in common (`Apart`). `Spares` is what a step
  must leave of the rows for the transactions of others.
* `LatecomersOnly`: inductive with `Sane`.
* `FilesThere`: `Filed` says of every stored upload, used or not, that its file is on disk, torn, or its row is being deleted by some
  call (`DropsBy`), and the file of a row that is yet to be inserted is there (`Wrote`).
* `UnusedRemoved`: the property speaks of quiet states only. `Looked` says of every upload that all its attachments
  are leaving (`Forlorn`) that a call still has it to look at, to give it to an attachment, or to delete (`Minds`).

With these, every invariant but one and every safety action property of a passing run is proved. Only model-checked:
liveness (`QueueMoves`, `DueIsClaimed`), which is out of the
prover's reach as ENABLED is, and `NobodyForgotten`.

## 6. Not modelled

See `components` in PROJECT.json, with a reason for each. Rendering, validation, routing, reads and UI
are pure or keep no state. Cron arithmetic is left open (any later time). The
effects of a handler that goes on after its timeout belong to the handler. Menus,
API tokens and invitations are rows changed in single statements or moved as departments are; logs are only
appended to. Most of the repository by lines is generated
(Prisma's client), user interface, or route definitions: none of it keeps state of its own.
