----------------------------- MODULE JobTemplates -----------------------------
(***************************************************************************)
(* The recurring engine: the Job template rows, JobTemplateScheduler's     *)
(* claim of due templates, dispatch and timer, and the service calls that  *)
(* create, update, delete and trigger templates while it runs.             *)
(*                                                                         *)
(* Time is relative, as in JobExecutor: next is what remains until         *)
(* nextRunAt, negative when that has passed.  occ names the occurrence:    *)
(* each time nextRunAt is computed anew it gets a number not used before,  *)
(* so a value written back from an old read brings its old occurrence back.*)
(***************************************************************************)
EXTENDS Integers, FiniteSets

CONSTANTS
  Templates,   \* ids of templates; an id is used for one row only
  Calls,       \* bound: calls of the service and of dispatchDue in flight
  Inputs,      \* what updateTemplate is asked to change: cron and enabled
  MaxWait,     \* bound: the longest time a cron expression leaves to its next run
  MaxTimer,    \* MAX_TIMER_DURATION_MS
  MaxLate,     \* bound: how long a call may take (0: no time passes meanwhile)
  MaxOcc,      \* bound: occurrences per template
  MaxCrashes, MaxErrors, MaxEdits   \* bounds: crashes, database errors, service calls

ASSUME TemplatesAssumption ==
  /\ MaxWait \in Nat \ {0} /\ MaxTimer \in 1..MaxWait
  /\ MaxLate \in Nat /\ MaxOcc \in Nat
  /\ MaxCrashes \in Nat /\ MaxErrors \in Nat /\ MaxEdits \in Nat
  /\ "free" \notin Calls
  /\ Inputs \subseteq [cron: {"keep", "set", "clear"}, enabled: {"keep", "on", "off"}]

VARIABLES
  tpl,      \* table job
  lock,     \* per template, the claim transaction that has it FOR UPDATE
  pc,       \* per call, where it stands
  age,      \* per call, the time since it began
  todo,     \* per call, <<template, occurrence>> claimed and not yet dispatched
  seen,     \* per call, the template and row that updateTemplate read
  target,   \* per call, the time it is going to arm the timer for
  timer,    \* this.timer: time left, or None
  stray,    \* timers that run but are no longer referenced
  up,
  made,     \* history: instances created per <<template, occurrence>> (0..2)
  claimed,  \* history: occurrences a claim has taken
  lost,     \* history: occurrences whose instance a failure prevented
  rewound,  \* history: occurrences that an update wrote back after a claim took them
  last,     \* history: per template, the highest occurrence so far
  budget    \* what is left of MaxCrashes, MaxErrors, MaxEdits

sched == <<timer, stray>>
callVars == <<pc, age, todo, seen, target>>
hist == <<made, claimed, lost, rewound, last>>
vars == <<tpl, lock, callVars, sched, up, hist, budget>>

None == -(MaxLate + 1)  \* no time: no timer, nextRunAt null
Free == "free"
Occurrences == Templates \X (0..MaxOcc)
Times == (-MaxLate)..MaxWait
Row == [state: {"new", "live", "deleted"}, enabled: BOOLEAN, cron: BOOLEAN,
        next: Times \cup {None}, occ: 0..MaxOcc]
NoRow == [state |-> "new", enabled |-> FALSE, cron |-> FALSE, next |-> None, occ |-> 0]
NothingSeen == [id |-> Free, row |-> NoRow]

Exists(t) == tpl[t].state = "live"
Scheduled(t) == Exists(t) /\ tpl[t].enabled /\ tpl[t].cron /\ tpl[t].next # None
\* Due for a call whose `now` is age[c] ago.
DueFor(c, t) == Scheduled(t) /\ tpl[t].next <= -age[c]

Spend(what) == budget[what] > 0 /\ budget' = [budget EXCEPT ![what] = @ - 1]
Goto(c, p) == pc' = [pc EXCEPT ![c] = p]

\* nextRunFromNow(cron, now): some time after `now`, which lies `late` back.
NextRuns(late) == {d - late : d \in 1..MaxWait}

-----------------------------------------------------------------------------
\* What an earlier process may have left: no template, one that is switched
\* off or has no cron, or one whose next run lies ahead or is overdue.
StoredRows ==
  {NoRow, [NoRow EXCEPT !.state = "live", !.enabled = TRUE], [NoRow EXCEPT !.state = "live", !.cron = TRUE]}
    \cup {[state |-> "live", enabled |-> TRUE, cron |-> TRUE, next |-> n, occ |-> 0] : n \in Times}

Init ==
  /\ tpl \in [Templates -> StoredRows]
  /\ lock = [t \in Templates |-> Free]
  /\ \E boot \in Calls : pc = [c \in Calls |-> IF c = boot THEN "claim" ELSE "idle"]
  /\ age = [c \in Calls |-> 0]
  /\ todo = [c \in Calls |-> {}]
  /\ seen = [c \in Calls |-> NothingSeen]
  /\ target = [c \in Calls |-> None]
  /\ timer = None /\ stray = {}
  /\ up = TRUE
  /\ made = [o \in Occurrences |-> 0]
  /\ claimed = {} /\ lost = {} /\ rewound = {}
  /\ last = [t \in Templates |-> 0]
  /\ budget = [crashes |-> MaxCrashes, errors |-> MaxErrors, edits |-> MaxEdits]

-----------------------------------------------------------------------------
(* dispatchDue                                                             *)

Mut_ClaimLock(c) ==   \* nextRunAt < now
  /\ pc[c] = "claim"
  /\ lock' = [t \in Templates |-> IF lock[t] = Free /\ Scheduled(t) /\ tpl[t].next < -age[c]
                                 THEN c ELSE lock[t]]
  /\ Goto(c, "locked")
  /\ UNCHANGED <<tpl, age, todo, seen, target, sched, up, hist, budget>>

\* SELECT ... FOR UPDATE SKIP LOCKED, by the `now` of the call.
ClaimLock(c) ==
  /\ pc[c] = "claim"
  /\ lock' = [t \in Templates |-> IF lock[t] = Free /\ DueFor(c, t) THEN c ELSE lock[t]]
  /\ Goto(c, "locked")
  /\ UNCHANGED <<tpl, age, todo, seen, target, sched, up, hist, budget>>

LockedBy(c) == {t \in Templates : lock[t] = c}

Mut_ClaimCommit(c) ==   \* the schedule is not advanced within the claim
  /\ pc[c] = "locked"
  /\ todo' = [todo EXCEPT ![c] = {<<t, tpl[t].occ>> : t \in LockedBy(c)}]
  /\ claimed' = claimed \cup {<<t, tpl[t].occ>> : t \in LockedBy(c)}
  /\ lock' = [t \in Templates |-> IF lock[t] = c THEN Free ELSE lock[t]]
  /\ Goto(c, "dispatch")
  /\ UNCHANGED <<tpl, age, seen, target, sched, up, made, lost, rewound, last, budget>>

\* The schedule of every locked row moves on; commit releases the locks.
ClaimCommit(c) ==
  /\ pc[c] = "locked"
  /\ \A t \in LockedBy(c) : last[t] < MaxOcc
  /\ last' = [t \in Templates |-> IF t \in LockedBy(c) THEN last[t] + 1 ELSE last[t]]
  /\ \E next \in [LockedBy(c) -> NextRuns(age[c])] :
       tpl' = [t \in Templates |->
                 IF t \in LockedBy(c)
                 THEN [tpl[t] EXCEPT !.next = next[t], !.occ = last[t] + 1]
                 ELSE tpl[t]]
  /\ todo' = [todo EXCEPT ![c] = {<<t, tpl[t].occ>> : t \in LockedBy(c)}]
  /\ claimed' = claimed \cup {<<t, tpl[t].occ>> : t \in LockedBy(c)}
  /\ lock' = [t \in Templates |-> IF lock[t] = c THEN Free ELSE lock[t]]
  /\ Goto(c, "dispatch")
  /\ UNCHANGED <<age, seen, target, sched, up, made, lost, rewound, budget>>

Mut_ClaimError(c) ==   \* no transaction: the schedule advances although the claim failed
  /\ pc[c] = "locked"
  /\ Spend("errors")
  /\ \A t \in LockedBy(c) : last[t] < MaxOcc
  /\ last' = [t \in Templates |-> IF t \in LockedBy(c) THEN last[t] + 1 ELSE last[t]]
  /\ tpl' = [t \in Templates |-> IF t \in LockedBy(c)
                                 THEN [tpl[t] EXCEPT !.next = 1, !.occ = last[t] + 1] ELSE tpl[t]]
  /\ claimed' = claimed \cup {<<t, tpl[t].occ>> : t \in LockedBy(c)}
  /\ lock' = [t \in Templates |-> IF lock[t] = c THEN Free ELSE lock[t]]
  /\ Goto(c, "dispatch")
  /\ UNCHANGED <<age, todo, seen, target, sched, up, made, lost, rewound>>

\* The transaction fails and is rolled back; the error is logged and the
\* call goes on with nothing claimed.
ClaimError(c) ==
  /\ pc[c] = "locked"
  /\ Spend("errors")
  /\ lock' = [t \in Templates |-> IF lock[t] = c THEN Free ELSE lock[t]]
  /\ Goto(c, "dispatch")
  /\ UNCHANGED <<tpl, age, todo, seen, target, sched, up, hist>>

\* One instance is created and announced.
DispatchOne(c, o) ==
  /\ pc[c] = "dispatch" /\ o \in todo[c]
  /\ Exists(o[1])
  /\ made' = [made EXCEPT ![o] = IF @ < 2 THEN @ + 1 ELSE @]
  /\ todo' = [todo EXCEPT ![c] = @ \ {o}]
  /\ UNCHANGED <<tpl, lock, pc, age, seen, target, sched, up, claimed, lost, rewound, last, budget>>

\* create fails (the template was deleted and jobId refers to nothing, or the
\* database fails): logged, the other templates are dispatched all the same.
DispatchFails(c, o) ==
  /\ pc[c] = "dispatch" /\ o \in todo[c]
  /\ IF Exists(o[1]) THEN Spend("errors") ELSE UNCHANGED budget
  /\ todo' = [todo EXCEPT ![c] = @ \ {o}]
  /\ lost' = lost \cup {o}
  /\ UNCHANGED <<tpl, lock, pc, age, seen, target, sched, up, made, claimed, rewound, last>>

Dispatched(c) ==
  /\ pc[c] = "dispatch" /\ todo[c] = {}
  /\ Goto(c, "arm")
  /\ UNCHANGED <<tpl, lock, age, todo, seen, target, sched, up, hist, budget>>

-----------------------------------------------------------------------------
(* armTimer                                                                *)

ArmClear(c) ==
  /\ pc[c] = "arm"
  /\ timer' = None
  /\ Goto(c, "armQuery")
  /\ UNCHANGED <<tpl, lock, age, todo, seen, target, stray, up, hist, budget>>

\* findNextDueTemplate: only what lies ahead; a row that is due is no candidate.
Ahead == {tpl[t].next : t \in {u \in Templates : Scheduled(u) /\ tpl[u].next > 0}}
ArmRead(c) ==
  /\ pc[c] = "armQuery"
  /\ IF Ahead = {} THEN /\ Goto(c, "idle") /\ UNCHANGED target
                   ELSE /\ Goto(c, "armSet")
                        /\ \E d \in Ahead : /\ \A e \in Ahead : d <= e
                                            /\ target' = [target EXCEPT ![c] = d]
  /\ age' = [age EXCEPT ![c] = IF Ahead = {} THEN 0 ELSE @]
  /\ UNCHANGED <<tpl, lock, todo, seen, sched, up, hist, budget>>

\* The query of armTimer fails: the timer was cleared and stays so.
ArmError(c) ==
  /\ pc[c] = "armQuery"
  /\ Spend("errors")
  /\ Goto(c, "idle")
  /\ age' = [age EXCEPT ![c] = 0]
  /\ UNCHANGED <<tpl, lock, todo, seen, target, sched, up, hist>>

Mut_ArmSetUncapped(c) ==   \* the whole delay goes to setTimeout
  /\ pc[c] = "armSet"
  /\ IF target[c] > 0
     THEN /\ stray' = IF timer = None THEN stray ELSE stray \cup {timer}
          /\ timer' = target[c]
     ELSE UNCHANGED sched
  /\ target' = [target EXCEPT ![c] = None]
  /\ Goto(c, "idle")
  /\ age' = [age EXCEPT ![c] = 0]
  /\ UNCHANGED <<tpl, lock, todo, seen, up, hist, budget>>

\* setTimeout, capped, when the time read has not passed meanwhile.  A timer
\* that another call armed since ArmClear is overwritten, not cleared.
ArmSet(c) ==
  /\ pc[c] = "armSet"
  /\ IF target[c] > 0
     THEN /\ stray' = IF timer = None THEN stray ELSE stray \cup {timer}
          /\ timer' = IF target[c] < MaxTimer THEN target[c] ELSE MaxTimer
     ELSE UNCHANGED sched
  /\ target' = [target EXCEPT ![c] = None]
  /\ Goto(c, "idle")
  /\ age' = [age EXCEPT ![c] = 0]
  /\ UNCHANGED <<tpl, lock, todo, seen, up, hist, budget>>

TimerFires(c) ==
  /\ up /\ pc[c] = "idle"
  /\ \/ timer = 0 /\ timer' = None /\ UNCHANGED stray
     \/ 0 \in stray /\ stray' = stray \ {0} /\ UNCHANGED timer
  /\ Goto(c, "claim")
  /\ UNCHANGED <<tpl, lock, age, todo, seen, target, up, hist, budget>>

-----------------------------------------------------------------------------
(* JobTemplateService                                                      *)

\* createTemplate: nextRunAt only when enabled with a cron expression.
CreateTemplate(c, t, enabled, cron) ==
  /\ up /\ pc[c] = "idle" /\ tpl[t].state = "new"
  /\ Spend("edits")
  /\ \E d \in 1..MaxWait :
       tpl' = [tpl EXCEPT ![t] =
                 [state |-> "live", enabled |-> enabled, cron |-> cron,
                  next |-> IF enabled /\ cron THEN d ELSE None, occ |-> 0]]
  /\ Goto(c, "arm")
  /\ UNCHANGED <<lock, age, todo, seen, target, sched, up, hist>>

UpdateRead(c, t) ==
  /\ up /\ pc[c] = "idle" /\ Exists(t)
  /\ Spend("edits")
  /\ seen' = [seen EXCEPT ![c] = [id |-> t, row |-> tpl[t]]]
  /\ Goto(c, "update")
  /\ UNCHANGED <<tpl, lock, age, todo, target, sched, up, hist>>

\* An input that leaves both cron and enabled alone.
Keeping(in) == in.cron = "keep" /\ in.enabled = "keep"

\* The row as updateTemplate writes it: what the input leaves out of cron and
\* nextRunAt comes from the row it READ; enabled is left to the database.
Edited(old, cur, in, d, new) ==
  LET cron    == IF in.cron = "keep" THEN old.cron ELSE in.cron = "set"
      enabled == IF in.enabled = "keep" THEN old.enabled ELSE in.enabled = "on"
  IN  [state   |-> "live",
       enabled |-> IF in.enabled = "keep" THEN cur.enabled ELSE enabled,
       cron    |-> cron,
       next    |-> IF Keeping(in) THEN old.next ELSE IF enabled /\ cron THEN d ELSE None,
       occ     |-> IF Keeping(in) THEN old.occ ELSE new]

UpdateWrite(c, in, d) ==
  LET t   == seen[c].id
      old == <<t, seen[c].row.occ>>
  IN  /\ pc[c] = "update"
      /\ lock[t] = Free
      /\ IF Exists(t)
         THEN /\ Keeping(in) \/ last[t] < MaxOcc
              /\ tpl' = [tpl EXCEPT ![t] = Edited(seen[c].row, tpl[t], in, d, last[t] + 1)]
              /\ last' = IF Keeping(in) THEN last ELSE [last EXCEPT ![t] = @ + 1]
              /\ rewound' = IF Keeping(in) /\ old \in claimed THEN rewound \cup {old} ELSE rewound
              /\ Goto(c, "arm") /\ UNCHANGED age
         ELSE /\ Goto(c, "idle") /\ age' = [age EXCEPT ![c] = 0] /\ UNCHANGED <<tpl, last, rewound>>
      /\ seen' = [seen EXCEPT ![c] = NothingSeen]
      /\ UNCHANGED <<lock, todo, target, sched, up, made, claimed, lost, budget>>

DeleteTemplate(c, t) ==
  /\ up /\ pc[c] = "idle" /\ Exists(t) /\ lock[t] = Free
  /\ Spend("edits")
  /\ tpl' = [tpl EXCEPT ![t] = [NoRow EXCEPT !.state = "deleted", !.occ = tpl[t].occ]]
  /\ Goto(c, "arm")
  /\ UNCHANGED <<lock, age, todo, seen, target, sched, up, hist>>

-----------------------------------------------------------------------------
(* Crash, restart, time                                                    *)

\* Memory goes, open transactions are rolled back; what was claimed and not
\* dispatched is not claimed again.
Crash ==
  /\ up /\ Spend("crashes")
  /\ up' = FALSE
  /\ lost' = lost \cup UNION {todo[c] : c \in Calls}
  /\ lock' = [t \in Templates |-> Free]
  /\ pc' = [c \in Calls |-> "idle"]
  /\ age' = [c \in Calls |-> 0]
  /\ todo' = [c \in Calls |-> {}]
  /\ seen' = [c \in Calls |-> NothingSeen]
  /\ target' = [c \in Calls |-> None]
  /\ timer' = None /\ stray' = {}
  /\ UNCHANGED <<tpl, made, claimed, rewound, last>>

Restart(c) ==
  /\ ~up /\ pc[c] = "idle"
  /\ up' = TRUE
  /\ Goto(c, "claim")
  /\ UNCHANGED <<tpl, lock, age, todo, seen, target, sched, hist, budget>>

Sooner(n) == IF n = None THEN n ELSE IF n > -MaxLate THEN n - 1 ELSE n
SoonerTimer(n) == IF n > 0 THEN n - 1 ELSE n
Tick ==
  /\ \A c \in Calls : pc[c] # "idle" => age[c] < MaxLate
  /\ tpl' = [t \in Templates |-> [tpl[t] EXCEPT !.next = Sooner(@)]]
  /\ age' = [c \in Calls |-> IF pc[c] = "idle" THEN 0 ELSE age[c] + 1]
  /\ seen' = [c \in Calls |-> [seen[c] EXCEPT !.row.next = Sooner(@)]]
  /\ target' = [c \in Calls |-> SoonerTimer(target[c])]
  /\ timer' = SoonerTimer(timer)
  /\ stray' = {SoonerTimer(n) : n \in stray}
  /\ UNCHANGED <<lock, pc, todo, up, hist, budget>>

-----------------------------------------------------------------------------
Proceed(c) ==
  \/ ClaimLock(c) \/ ClaimCommit(c)
  \/ \E o \in todo[c] : DispatchOne(c, o)
  \/ \E o \in todo[c] : ~Exists(o[1]) /\ DispatchFails(c, o)
  \/ Dispatched(c) \/ ArmClear(c) \/ ArmRead(c) \/ ArmSet(c)

Service(c) ==
  \/ \E t \in Templates, enabled, cron \in BOOLEAN : CreateTemplate(c, t, enabled, cron)
  \/ \E t \in Templates : UpdateRead(c, t)
  \/ \E in \in Inputs, d \in 1..MaxWait : UpdateWrite(c, in, d)
  \/ \E t \in Templates : DeleteTemplate(c, t)

Next ==
  \/ \E c \in Calls : Proceed(c) \/ TimerFires(c) \/ Service(c) \/ Restart(c)
  \/ \E c \in Calls : ClaimError(c) \/ ArmError(c) \/ \E o \in todo[c] : DispatchFails(c, o)
  \/ Crash
  \/ Tick

Spec == Init /\ [][Next]_vars

(* Awaited queries return; timers fire; time passes.  Service calls,       *)
(* crashes and errors need not happen.                                     *)
Fairness ==
  /\ \A c \in Calls : WF_vars(Proceed(c)) /\ WF_vars(TimerFires(c))
  /\ WF_vars(Tick)
FairSpec == Spec /\ Fairness

-----------------------------------------------------------------------------
TypeOK ==
  /\ tpl \in [Templates -> Row]
  /\ lock \in [Templates -> Calls \cup {Free}]
  /\ pc \in [Calls -> {"idle", "claim", "locked", "dispatch", "arm", "armQuery", "armSet", "update"}]
  /\ age \in [Calls -> 0..MaxLate]
  /\ todo \in [Calls -> SUBSET Occurrences]
  /\ seen \in [Calls -> [id: Templates \cup {Free}, row: Row]]
  /\ target \in [Calls -> 0..MaxWait \cup {None}]
  /\ timer \in 0..MaxTimer \cup {None}
  /\ stray \subseteq 0..MaxTimer
  /\ up \in BOOLEAN
  /\ made \in [Occurrences -> 0..2]
  /\ claimed \subseteq Occurrences /\ lost \subseteq Occurrences
  /\ rewound \subseteq Occurrences
  /\ last \in [Templates -> 0..MaxOcc]
  /\ budget \in [crashes: 0..MaxCrashes, errors: 0..MaxErrors, edits: 0..MaxEdits]

\* An occurrence yields at most one instance, however many dispatches
\* overlap, crash and start again (claimDueTemplates), unless updateTemplate
\* wrote back the nextRunAt it had read after a claim had taken it
\* (job-template.service.ts:112).
AtMostOneInstance == \A o \in Occurrences \ rewound : made[o] <= 1

\* What was claimed is accounted for: its instance exists, or one call still
\* has it to dispatch, or a failure lost it; never two of these.  Same
\* exception: what an update wrote back after its claim is claimed again.
ClaimedIsAccounted ==
  \A o \in claimed \ rewound :
    Cardinality({c \in Calls : o \in todo[c]})
      + (IF made[o] > 0 THEN 1 ELSE 0) + (IF o \in lost THEN 1 ELSE 0) = 1

\* "concurrent workers cannot create duplicate instances from the same due
\* template" (ARCHITECTURE.md:313-314), without an exception.
NoDuplicateInstances == \A o \in Occurrences : made[o] <= 1

\* A template that is due when a dispatch begins (at boot or by a timer) is
\* claimed by it or by another, unless an edit, an error of the database or a
\* crash comes between.
DueIsClaimed ==
  \A t \in Templates, n \in 0..MaxOcc :
    (\E c \in Calls : pc[c] = "claim" /\ DueFor(c, t)) /\ tpl[t].occ = n /\ last[t] < MaxOcc
      ~> tpl[t].occ # n \/ ~Scheduled(t) \/ budget.errors < MaxErrors \/ ~up
=============================================================================
