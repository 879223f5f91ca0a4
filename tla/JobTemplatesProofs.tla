------------------------- MODULE JobTemplatesProofs -------------------------
(***************************************************************************)
(* What holds of the recurring engine for any templates, calls and bounds. *)
(***************************************************************************)
EXTENDS JobTemplates, FiniteSetTheorems, TLAPS

\* A row with its schedule and nothing else is a row.
LEMMA RowNext ==
  ASSUME NEW row \in Row, NEW n \in Times \cup {None}
  PROVE  [row EXCEPT !.next = n] \in Row
  BY DEF Row

\* A row that goes on to its next occurrence is a row.
LEMMA RowAdvanced ==
  ASSUME NEW row \in Row, NEW n \in Times \cup {None}, NEW k \in 0..MaxOcc, k < MaxOcc
  PROVE  /\ [row EXCEPT !.next = n, !.occ = k + 1] \in Row
         /\ k + 1 \in 0..MaxOcc
  <1>1. k + 1 \in 0..MaxOcc
    BY TemplatesAssumption, SMT
  <1>2. QED
    BY <1>1 DEF Row

\* Times stay within their bounds as they pass.
LEMMA SoonerTime ==
  ASSUME NEW n \in Times \cup {None}
  PROVE  Sooner(n) \in Times \cup {None}
  BY TemplatesAssumption, SMT DEF Sooner, Times, None

\* So do the remaining times of timers.
LEMMA SoonerTimers ==
  ASSUME NEW k \in Nat, NEW n \in 0..k \cup {None}
  PROVE  SoonerTimer(n) \in 0..k \cup {None}
  BY TemplatesAssumption, SMT DEF SoonerTimer, None

\* What a cron expression leaves to its next run is such a time.
LEMMA NextRunIsTime ==
  ASSUME NEW late \in 0..MaxLate, NEW n \in NextRuns(late)
  PROVE  n \in Times
  BY TemplatesAssumption, SMT DEF NextRuns, Times

\* What updateTemplate writes is a row.
LEMMA EditedIsRow ==
  ASSUME NEW old \in Row, NEW cur \in Row, NEW in \in Inputs, NEW d \in 1..MaxWait,
         NEW new, Keeping(in) \/ new \in 0..MaxOcc
  PROVE  /\ Edited(old, cur, in, d, new) \in Row
         /\ Edited(old, cur, in, d, new).state = "live"
  <1>1. /\ (IF in.cron = "keep" THEN old.cron ELSE in.cron = "set") \in BOOLEAN
        /\ (IF in.enabled = "keep" THEN cur.enabled ELSE in.enabled = "on") \in BOOLEAN
    BY DEF Row
  <1>2. d \in Times \cup {None} /\ old.next \in Times \cup {None} /\ None \in Times \cup {None}
    BY TemplatesAssumption, SMT DEF Times, Row
  <1>3. (IF Keeping(in) THEN old.occ ELSE new) \in 0..MaxOcc
    BY DEF Row
  <1>4. QED
    BY <1>1, <1>2, <1>3 DEF Edited, Row

\* The row before its insertion and a deleted row are rows.
LEMMA NewRow == NoRow \in Row /\ \A n \in 0..MaxOcc :
                  [NoRow EXCEPT !.state = "deleted", !.occ = n] \in Row
  <1>1. 0 \in 0..MaxOcc
    BY TemplatesAssumption
  <1>2. NoRow \in Row
    BY <1>1 DEF NoRow, Row
  <1>3. QED
    BY <1>2 DEF Row

\* The rows found at boot and an idle scheduler have their types.
LEMMA InitTyped == Init => TypeOK
  <1> SUFFICES ASSUME Init PROVE TypeOK
    OBVIOUS
  <1>1. StoredRows \subseteq Row
    <2>1. 0 \in 0..MaxOcc
      BY TemplatesAssumption
    <2>2. [NoRow EXCEPT !.state = "live", !.enabled = TRUE] \in Row
      BY NewRow DEF Row
    <2>3. [NoRow EXCEPT !.state = "live", !.cron = TRUE] \in Row
      BY NewRow DEF Row
    <2>4. ASSUME NEW n \in Times
          PROVE  [state |-> "live", enabled |-> TRUE, cron |-> TRUE, next |-> n, occ |-> 0] \in Row
      BY <2>1 DEF Row
    <2>5. QED
      BY <2>2, <2>3, <2>4, NewRow DEF StoredRows
  <1>2. tpl \in [Templates -> Row]
    BY <1>1 DEF Init
  <1>3. NothingSeen \in [id: Templates \cup {Free}, row: Row]
    BY NewRow DEF NothingSeen
  <1>4. /\ 0 \in 0..MaxLate /\ 0 \in 0..MaxOcc /\ MaxCrashes \in 0..MaxCrashes
        /\ MaxErrors \in 0..MaxErrors /\ MaxEdits \in 0..MaxEdits
    BY TemplatesAssumption
  <1>5. QED
    BY <1>2, <1>3, <1>4 DEF Init, TypeOK

\* A database error, a crash or an edit that is spent leaves a budget.
LEMMA Spent ==
  ASSUME TypeOK, NEW what \in {"crashes", "errors", "edits"}, Spend(what)
  PROVE  budget' \in [crashes: 0..MaxCrashes, errors: 0..MaxErrors, edits: 0..MaxEdits]
  <1> DEFINE B == [crashes: 0..MaxCrashes, errors: 0..MaxErrors, edits: 0..MaxEdits]
  <1>1. budget \in B
    BY DEF TypeOK
  <1>2. budget[what] - 1 \in 0..MaxCrashes \/ what # "crashes"
    BY <1>1, TemplatesAssumption, SMT DEF Spend
  <1>3. budget[what] - 1 \in 0..MaxErrors \/ what # "errors"
    BY <1>1, TemplatesAssumption, SMT DEF Spend
  <1>4. budget[what] - 1 \in 0..MaxEdits \/ what # "edits"
    BY <1>1, TemplatesAssumption, SMT DEF Spend
  <1>5. QED
    BY <1>1, <1>2, <1>3, <1>4 DEF Spend

-----------------------------------------------------------------------------
\* Types through a dispatch: claim, insert, rearm.
LEMMA DispatchTyped ==
  ASSUME TypeOK, NEW c \in Calls,
         \/ ClaimLock(c) \/ ClaimCommit(c) \/ ClaimError(c)
         \/ \E o \in todo[c] : DispatchOne(c, o) \/ DispatchFails(c, o)
         \/ Dispatched(c)
  PROVE  TypeOK'
  <1> USE DEF Goto, vars, callVars, sched, hist
  <1>1. CASE ClaimLock(c)
    BY <1>1 DEF ClaimLock, TypeOK
  <1>2. CASE ClaimCommit(c)
    <2>1. PICK next \in [LockedBy(c) -> NextRuns(age[c])] :
            tpl' = [t \in Templates |->
                      IF t \in LockedBy(c)
                      THEN [tpl[t] EXCEPT !.next = next[t], !.occ = last[t] + 1]
                      ELSE tpl[t]]
      BY <1>2 DEF ClaimCommit
    <2>2. ASSUME NEW t \in Templates PROVE tpl'[t] \in Row
      <3>1. tpl[t] \in Row /\ age[c] \in 0..MaxLate
        BY DEF TypeOK
      <3>2. CASE t \in LockedBy(c)
        <4>1. next[t] \in Times
          BY <3>1, <3>2, NextRunIsTime
        <4>2. last[t] \in 0..MaxOcc /\ last[t] < MaxOcc
          BY <1>2, <3>2 DEF ClaimCommit, TypeOK
        <4>3. QED
          BY <2>1, <3>1, <3>2, <4>1, <4>2, RowAdvanced
      <3>3. CASE t \notin LockedBy(c)
        BY <2>1, <3>1, <3>3
      <3>4. QED
        BY <3>2, <3>3
    <2>3. tpl' \in [Templates -> Row]
      BY <2>1, <2>2
    <2>4. {<<t, tpl[t].occ>> : t \in LockedBy(c)} \subseteq Occurrences
      BY DEF LockedBy, Occurrences, TypeOK, Row
    <2>5. /\ lock' \in [Templates -> Calls \cup {Free}]
          /\ todo' \in [Calls -> SUBSET Occurrences]
          /\ claimed' \subseteq Occurrences
          /\ pc' \in [Calls -> {"idle", "claim", "locked", "dispatch", "arm", "armQuery", "armSet", "update"}]
      BY <1>2, <2>4 DEF ClaimCommit, TypeOK
    <2>6. UNCHANGED <<age, seen, target, timer, stray, up, made, lost, rewound, budget>>
      BY <1>2 DEF ClaimCommit
    <2>7. last' \in [Templates -> 0..MaxOcc]
      <3>1. ASSUME NEW t \in Templates
            PROVE  (IF t \in LockedBy(c) THEN last[t] + 1 ELSE last[t]) \in 0..MaxOcc
        <4>1. last[t] \in 0..MaxOcc /\ (t \in LockedBy(c) => last[t] < MaxOcc)
          BY <1>2 DEF ClaimCommit, TypeOK
        <4>2. QED
          BY <4>1, TemplatesAssumption
      <3>2. last' = [t \in Templates |-> IF t \in LockedBy(c) THEN last[t] + 1 ELSE last[t]]
        BY <1>2 DEF ClaimCommit
      <3>3. QED
        BY <3>1, <3>2
    <2>8. QED
      BY <2>3, <2>5, <2>6, <2>7 DEF TypeOK
  <1>3. CASE ClaimError(c)
    <2>1. budget' \in [crashes: 0..MaxCrashes, errors: 0..MaxErrors, edits: 0..MaxEdits]
      BY <1>3, Spent DEF ClaimError
    <2>2. QED
      BY <1>3, <2>1 DEF ClaimError, TypeOK
  <1>4. ASSUME NEW o \in todo[c], DispatchOne(c, o) PROVE TypeOK'
    <2>1. o \in Occurrences
      BY DEF TypeOK
    <2>2. made' \in [Occurrences -> 0..2]
      BY <1>4, <2>1, SMT DEF DispatchOne, TypeOK
    <2>3. QED
      BY <1>4, <2>2 DEF DispatchOne, TypeOK
  <1>5. ASSUME NEW o \in todo[c], DispatchFails(c, o) PROVE TypeOK'
    <2>1. budget' \in [crashes: 0..MaxCrashes, errors: 0..MaxErrors, edits: 0..MaxEdits]
      BY <1>5, Spent DEF DispatchFails, TypeOK
    <2>2. o \in Occurrences
      BY DEF TypeOK
    <2>3. QED
      BY <1>5, <2>1, <2>2 DEF DispatchFails, TypeOK
  <1>6. CASE Dispatched(c)
    BY <1>6 DEF Dispatched, TypeOK
  <1>7. QED
    BY <1>1, <1>2, <1>3, <1>4, <1>5, <1>6

\* Types through what the timer does.
LEMMA TimerTyped ==
  ASSUME TypeOK, NEW c \in Calls,
         \/ ArmClear(c) \/ ArmRead(c) \/ ArmError(c) \/ ArmSet(c)
         \/ TimerFires(c) \/ Restart(c)
  PROVE  TypeOK'
  <1> USE DEF Goto, vars, callVars, sched, hist
  <1>1. CASE ArmClear(c)
    BY <1>1 DEF ArmClear, TypeOK
  <1>2. CASE ArmRead(c)
    <2>1. Ahead \subseteq 0..MaxWait
      <3>1. ASSUME NEW t \in Templates, Scheduled(t), tpl[t].next > 0
            PROVE  tpl[t].next \in 0..MaxWait
        <4>1. tpl[t].next \in Times
          BY <3>1 DEF Scheduled, TypeOK, Row
        <4>2. QED
          BY <3>1, <4>1, TemplatesAssumption, SMT DEF Times
      <3>2. QED
        BY <3>1 DEF Ahead
    <2>2. target' \in [Calls -> 0..MaxWait \cup {None}]
      BY <1>2, <2>1 DEF ArmRead, TypeOK
    <2>3. age' \in [Calls -> 0..MaxLate]
      <3>1. 0 \in 0..MaxLate
        BY TemplatesAssumption
      <3>2. QED
        BY <1>2, <3>1 DEF ArmRead, TypeOK
    <2>4. pc' \in [Calls -> {"idle", "claim", "locked", "dispatch", "arm", "armQuery", "armSet", "update"}]
      BY <1>2 DEF ArmRead, TypeOK
    <2>5. QED
      BY <1>2, <2>2, <2>3, <2>4 DEF ArmRead, TypeOK
  <1>3. CASE ArmError(c)
    <2>1. budget' \in [crashes: 0..MaxCrashes, errors: 0..MaxErrors, edits: 0..MaxEdits]
      BY <1>3, Spent DEF ArmError
    <2>2. 0 \in 0..MaxLate
      BY TemplatesAssumption
    <2>3. QED
      BY <1>3, <2>1, <2>2 DEF ArmError, TypeOK
  <1>4. CASE ArmSet(c)
    <2>1. 0 \in 0..MaxLate
      BY TemplatesAssumption
    <2>2. target[c] \in 0..MaxWait \cup {None}
      BY DEF TypeOK
    <2>3. timer' \in 0..MaxTimer \cup {None} /\ stray' \subseteq 0..MaxTimer
      <3>1. timer \in 0..MaxTimer \cup {None} /\ stray \subseteq 0..MaxTimer
        BY DEF TypeOK
      <3>2. CASE target[c] > 0
        <4>1. (IF target[c] < MaxTimer THEN target[c] ELSE MaxTimer) \in 0..MaxTimer
          BY <3>2, <2>2, TemplatesAssumption, SMT DEF None
        <4>2. /\ timer' = IF target[c] < MaxTimer THEN target[c] ELSE MaxTimer
              /\ stray' = IF timer = None THEN stray ELSE stray \cup {timer}
          BY <1>4, <3>2 DEF ArmSet
        <4>3. QED
          BY <3>1, <4>1, <4>2
      <3>3. CASE ~(target[c] > 0)
        BY <1>4, <3>1, <3>3 DEF ArmSet
      <3>4. QED
        BY <3>2, <3>3
    <2>4. QED
      BY <1>4, <2>1, <2>3 DEF ArmSet, TypeOK
  <1>5. CASE TimerFires(c)
    BY <1>5 DEF TimerFires, TypeOK
  <1>6. CASE Restart(c)
    BY <1>6 DEF Restart, TypeOK
  <1>7. QED
    BY <1>1, <1>2, <1>3, <1>4, <1>5, <1>6

\* Types through the service calls.
LEMMA ServiceTyped ==
  ASSUME TypeOK, NEW c \in Calls, Service(c)
  PROVE  TypeOK'
  <1> USE DEF Goto, vars, callVars, sched, hist
  <1>0. 0 \in 0..MaxLate /\ 0 \in 0..MaxOcc /\ 1..MaxWait \subseteq Times
    BY TemplatesAssumption, SMT DEF Times
  <1>1. ASSUME NEW t \in Templates, NEW enabled \in BOOLEAN, NEW cron \in BOOLEAN,
               CreateTemplate(c, t, enabled, cron)
        PROVE  TypeOK'
    <2>1. budget' \in [crashes: 0..MaxCrashes, errors: 0..MaxErrors, edits: 0..MaxEdits]
      BY <1>1, Spent DEF CreateTemplate
    <2>2. PICK d \in 1..MaxWait :
            tpl' = [tpl EXCEPT ![t] =
                      [state |-> "live", enabled |-> enabled, cron |-> cron,
                       next |-> IF enabled /\ cron THEN d ELSE None, occ |-> 0]]
      BY <1>1 DEF CreateTemplate
    <2>3. [state |-> "live", enabled |-> enabled, cron |-> cron,
           next |-> IF enabled /\ cron THEN d ELSE None, occ |-> 0] \in Row
      <3>1. (IF enabled /\ cron THEN d ELSE None) \in Times \cup {None}
        BY <1>0
      <3>2. QED
        BY <1>0, <3>1 DEF Row
    <2>4. tpl' \in [Templates -> Row]
      BY <2>2, <2>3 DEF TypeOK
    <2>5. QED
      BY <1>1, <2>1, <2>4 DEF CreateTemplate, TypeOK
  <1>2. ASSUME NEW t \in Templates, UpdateRead(c, t) PROVE TypeOK'
    <2>1. budget' \in [crashes: 0..MaxCrashes, errors: 0..MaxErrors, edits: 0..MaxEdits]
      BY <1>2, Spent DEF UpdateRead
    <2>2. seen' \in [Calls -> [id: Templates \cup {Free}, row: Row]]
      BY <1>2 DEF UpdateRead, TypeOK
    <2>3. QED
      BY <1>2, <2>1, <2>2 DEF UpdateRead, TypeOK
  <1>3. ASSUME NEW in \in Inputs, NEW d \in 1..MaxWait, UpdateWrite(c, in, d) PROVE TypeOK'
    <2>1. tpl' \in [Templates -> Row] /\ last' \in [Templates -> 0..MaxOcc]
      <3>1. CASE seen[c].id \in Templates /\ Exists(seen[c].id)
        <4>1. /\ seen[c].row \in Row /\ tpl[seen[c].id] \in Row /\ last[seen[c].id] \in 0..MaxOcc
              /\ Keeping(in) \/ last[seen[c].id] < MaxOcc
          BY <1>3, <3>1 DEF UpdateWrite, TypeOK
        <4>2. Keeping(in) \/ last[seen[c].id] + 1 \in 0..MaxOcc
          BY <4>1, TemplatesAssumption
        <4>3. Edited(seen[c].row, tpl[seen[c].id], in, d, last[seen[c].id] + 1) \in Row
          BY <4>1, <4>2, EditedIsRow
        <4>4. /\ tpl' = [tpl EXCEPT ![seen[c].id] =
                           Edited(seen[c].row, tpl[seen[c].id], in, d, last[seen[c].id] + 1)]
              /\ last' = IF Keeping(in) THEN last
                         ELSE [last EXCEPT ![seen[c].id] = last[seen[c].id] + 1]
          BY <1>3, <3>1 DEF UpdateWrite
        <4>5. QED
          BY <4>2, <4>3, <4>4 DEF TypeOK
      <3>2. CASE ~(seen[c].id \in Templates /\ Exists(seen[c].id))
        BY <1>3, <3>2 DEF UpdateWrite, TypeOK
      <3>3. QED
        BY <3>1, <3>2
    <2>2. age' \in [Calls -> 0..MaxLate]
      BY <1>0, <1>3 DEF UpdateWrite, TypeOK
    <2>3. pc' \in [Calls -> {"idle", "claim", "locked", "dispatch", "arm", "armQuery", "armSet", "update"}]
      BY <1>3 DEF UpdateWrite, TypeOK
    <2>4. seen' \in [Calls -> [id: Templates \cup {Free}, row: Row]]
      BY <1>3, NewRow DEF UpdateWrite, TypeOK, NothingSeen
    <2>5. UNCHANGED <<lock, todo, target, timer, stray, up, made, claimed, lost, budget>>
      BY <1>3 DEF UpdateWrite
    <2>6. rewound' \subseteq Occurrences
      <3>1. rewound' \subseteq rewound \cup claimed
        BY <1>3 DEF UpdateWrite
      <3>2. QED
        BY <3>1 DEF TypeOK
    <2>7. QED
      BY <2>1, <2>2, <2>3, <2>4, <2>5, <2>6 DEF TypeOK
  <1>4. ASSUME NEW t \in Templates, DeleteTemplate(c, t) PROVE TypeOK'
    <2>1. budget' \in [crashes: 0..MaxCrashes, errors: 0..MaxErrors, edits: 0..MaxEdits]
      BY <1>4, Spent DEF DeleteTemplate
    <2>2. [NoRow EXCEPT !.state = "deleted", !.occ = tpl[t].occ] \in Row
      <3>1. tpl[t].occ \in 0..MaxOcc
        BY DEF TypeOK, Row
      <3>2. QED
        BY <3>1, NewRow
    <2>3. tpl' \in [Templates -> Row]
      BY <1>4, <2>2 DEF DeleteTemplate, TypeOK
    <2>4. QED
      BY <1>4, <2>1, <2>3 DEF DeleteTemplate, TypeOK
  <1>5. QED
    BY <1>1, <1>2, <1>3, <1>4 DEF Service

\* Types through a crash.
LEMMA CrashTyped ==
  ASSUME TypeOK, Crash
  PROVE  TypeOK'
  <1>1. budget' \in [crashes: 0..MaxCrashes, errors: 0..MaxErrors, edits: 0..MaxEdits]
    BY Spent DEF Crash
  <1>2. 0 \in 0..MaxLate
    BY TemplatesAssumption
  <1>3. lost' \subseteq Occurrences
    BY DEF Crash, TypeOK
  <1>4. seen' \in [Calls -> [id: Templates \cup {Free}, row: Row]]
    BY NewRow DEF Crash, NothingSeen
  <1>5. QED
    BY <1>1, <1>2, <1>3, <1>4 DEF Crash, TypeOK

\* Types as time passes.
LEMMA TickTyped ==
  ASSUME TypeOK, Tick
  PROVE  TypeOK'
  <1>1. ASSUME NEW row \in Row PROVE [row EXCEPT !.next = Sooner(@)] \in Row
    <2>1. row.next \in Times \cup {None}
      BY DEF Row
    <2>2. QED
      BY <2>1, RowNext, SoonerTime
  <1>2. tpl' \in [Templates -> Row]
    BY <1>1 DEF Tick, TypeOK
  <1>3. seen' \in [Calls -> [id: Templates \cup {Free}, row: Row]]
    <2>1. ASSUME NEW c \in Calls
          PROVE  [seen[c] EXCEPT !.row.next = Sooner(@)] \in [id: Templates \cup {Free}, row: Row]
      <3>1. seen[c] \in [id: Templates \cup {Free}, row: Row]
        BY DEF TypeOK
      <3>2. [seen[c].row EXCEPT !.next = Sooner(@)] \in Row
        BY <1>1, <3>1
      <3>3. QED
        BY <3>1, <3>2
    <2>2. QED
      BY <2>1 DEF Tick
  <1>4. age' \in [Calls -> 0..MaxLate]
    <2>1. ASSUME NEW c \in Calls PROVE (IF pc[c] = "idle" THEN 0 ELSE age[c] + 1) \in 0..MaxLate
      <3>1. age[c] \in 0..MaxLate /\ (pc[c] # "idle" => age[c] < MaxLate)
        BY DEF Tick, TypeOK
      <3>2. QED
        BY <3>1, TemplatesAssumption
    <2>2. QED
      BY <2>1 DEF Tick
  <1>5. MaxWait \in Nat /\ MaxTimer \in Nat
    BY TemplatesAssumption
  <1>6. target' \in [Calls -> 0..MaxWait \cup {None}]
    BY <1>5, SoonerTimers DEF Tick, TypeOK
  <1>7. timer' \in 0..MaxTimer \cup {None}
    BY <1>5, SoonerTimers DEF Tick, TypeOK
  <1>8. stray' \subseteq 0..MaxTimer
    <2>1. ASSUME NEW n \in 0..MaxTimer PROVE SoonerTimer(n) \in 0..MaxTimer
      BY <1>5, SMT DEF SoonerTimer
    <2>2. QED
      BY <2>1 DEF Tick, TypeOK
  <1>9. QED
    BY <1>2, <1>3, <1>4, <1>6, <1>7, <1>8 DEF Tick, TypeOK, hist

\* Types through any step.
LEMMA StepTyped == TypeOK /\ [Next]_vars => TypeOK'
  <1> SUFFICES ASSUME TypeOK, [Next]_vars PROVE TypeOK'
    OBVIOUS
  <1>1. ASSUME NEW c \in Calls, Proceed(c) PROVE TypeOK'
    BY <1>1, DispatchTyped, TimerTyped DEF Proceed
  <1>2. ASSUME NEW c \in Calls, TimerFires(c) \/ Restart(c) PROVE TypeOK'
    BY <1>2, TimerTyped
  <1>3. ASSUME NEW c \in Calls, Service(c) PROVE TypeOK'
    BY <1>3, ServiceTyped
  <1>4. ASSUME NEW c \in Calls,
               ClaimError(c) \/ ArmError(c) \/ \E o \in todo[c] : DispatchFails(c, o)
        PROVE  TypeOK'
    BY <1>4, DispatchTyped, TimerTyped
  <1>5. CASE UNCHANGED vars
    BY <1>5 DEF vars, callVars, sched, hist, TypeOK
  <1>6. QED
    BY <1>1, <1>2, <1>3, <1>4, <1>5, CrashTyped, TickTyped DEF Next

\* The type invariant holds for any templates, calls and bounds.
THEOREM TemplatesTyped == Spec => []TypeOK
  BY InitTyped, StepTyped, PTL DEF Spec

-----------------------------------------------------------------------------
(* An occurrence yields at most one instance, and none is forgotten, until *)
(* an update writes it back.                                               *)

\* What is claimed has a number that was given; the occurrence a row is at
\* was not claimed before, unless it was written back; a row that is not
\* stored yet is at occurrence 0 and not locked.
Behind ==
  /\ \A o \in claimed : o[2] <= last[o[1]]
  /\ \A t \in Templates :
       /\ tpl[t].occ <= last[t]
       /\ <<t, tpl[t].occ>> \in claimed => <<t, tpl[t].occ>> \in rewound
       /\ tpl[t].state = "new" => tpl[t].occ = 0 /\ lock[t] = Free
\* What an update has read had been given a number.
ReadBehind ==
  \A c \in Calls : seen[c].id \in Templates => seen[c].row.occ <= last[seen[c].id]

\* What a call has in hand was claimed and, unless it was written back, is in
\* no other hands, not made and not lost.
OneHand ==
  \A c \in Calls :
    /\ pc[c] # "dispatch" => todo[c] = {}
    /\ \A o \in todo[c] :
         /\ o \in claimed
         /\ o \notin rewound => /\ made[o] = 0 /\ o \notin lost
                              /\ \A d \in Calls : o \in todo[d] => c = d
\* Only what was claimed is made, once, and what is made is not lost.
Settled ==
  /\ lost \subseteq claimed
  /\ \A o \in Occurrences :
       /\ made[o] > 0 => o \in claimed
       /\ o \notin rewound => made[o] <= 1 /\ (made[o] > 0 => o \notin lost)
\* Nothing that was claimed is forgotten.
Kept == \A o \in claimed : made[o] > 0 \/ o \in lost \/ \E c \in Calls : o \in todo[c]

ClaimsInv == Behind /\ ReadBehind /\ OneHand /\ Settled /\ Kept

\* At boot nothing is claimed.
LEMMA ClaimsInit == Init => ClaimsInv
  <1> SUFFICES ASSUME Init PROVE ClaimsInv
    OBVIOUS
  <1>1. ASSUME NEW t \in Templates PROVE tpl[t].occ = 0
    <2>1. tpl[t] \in StoredRows
      BY DEF Init
    <2>2. /\ [NoRow EXCEPT !.state = "live", !.enabled = TRUE].occ = 0
          /\ [NoRow EXCEPT !.state = "live", !.cron = TRUE].occ = 0
      BY DEF NoRow
    <2>3. ASSUME NEW n \in Times,
                 tpl[t] = [state |-> "live", enabled |-> TRUE, cron |-> TRUE, next |-> n, occ |-> 0]
          PROVE  tpl[t].occ = 0
      BY <2>3
    <2>4. NoRow.occ = 0
      BY DEF NoRow
    <2>5. \/ tpl[t] \in {NoRow, [NoRow EXCEPT !.state = "live", !.enabled = TRUE],
                         [NoRow EXCEPT !.state = "live", !.cron = TRUE]}
          \/ \E n \in Times :
               tpl[t] = [state |-> "live", enabled |-> TRUE, cron |-> TRUE, next |-> n, occ |-> 0]
      BY <2>1 DEF StoredRows
    <2>6. QED
      BY <2>2, <2>3, <2>4, <2>5
  <1>2. ReadBehind
    BY TemplatesAssumption DEF Init, ReadBehind, NothingSeen, NoRow
  <1>3. QED
    BY <1>1, <1>2 DEF Init, ClaimsInv, Behind, OneHand, Settled, Kept

\* Steps that neither claim nor dispatch: enough that a row stays at its
\* occurrence, goes on to a new one, or to one that is noted as written back.
LEMMA ClaimsFrame ==
  ASSUME TypeOK, TypeOK', ClaimsInv,
         UNCHANGED <<made, claimed, lost, todo>>, rewound \subseteq rewound',
         \A c \in Calls : pc'[c] # "dispatch" => todo[c] = {},
         \A t \in Templates :
           /\ last[t] <= last'[t] /\ tpl'[t].occ <= last'[t]
           /\ \/ tpl'[t].occ = tpl[t].occ
              \/ tpl'[t].occ > last[t]
              \/ <<t, tpl'[t].occ>> \in claimed => <<t, tpl'[t].occ>> \in rewound'
           /\ tpl'[t].state = "new" => tpl'[t].occ = 0 /\ lock'[t] = Free,
         \A c \in Calls : seen'[c].id \in Templates =>
           seen'[c].row.occ <= last'[seen'[c].id]
  PROVE  ClaimsInv'
  <1>1. \A t \in Templates : last[t] \in Nat /\ last'[t] \in Nat /\ tpl'[t].occ \in Nat
    BY TemplatesAssumption DEF TypeOK, Row
  <1>2. ASSUME NEW o \in claimed PROVE o[1] \in Templates /\ o[2] \in Nat /\ o[2] <= last[o[1]]
    BY TemplatesAssumption DEF TypeOK, Occurrences, ClaimsInv, Behind
  <1>3. ASSUME NEW o \in claimed PROVE o[2] <= last'[o[1]]
    <2>1. o[1] \in Templates /\ o[2] \in Nat /\ o[2] <= last[o[1]]
      BY <1>2
    <2>2. last[o[1]] <= last'[o[1]] /\ last[o[1]] \in Nat /\ last'[o[1]] \in Nat
      BY <1>1, <2>1
    <2>3. QED
      BY <2>1, <2>2
  <1>4. ASSUME NEW t \in Templates, <<t, tpl'[t].occ>> \in claimed
        PROVE  <<t, tpl'[t].occ>> \in rewound'
    <2>1. tpl'[t].occ <= last[t]
      BY <1>2, <1>4
    <2>2. CASE tpl'[t].occ = tpl[t].occ
      BY <1>4, <2>2 DEF ClaimsInv, Behind
    <2>3. QED
      BY <1>1, <1>4, <2>1, <2>2
  <1>5. Behind'
    BY <1>3, <1>4 DEF Behind
  <1>6. ReadBehind'
    BY DEF ReadBehind
  <1>7. OneHand'
    BY DEF ClaimsInv, OneHand
  <1>8. Settled'
    BY DEF ClaimsInv, Settled
  <1>9. Kept'
    BY DEF ClaimsInv, Kept
  <1>10. QED
    BY <1>5, <1>6, <1>7, <1>8, <1>9 DEF ClaimsInv

\* A claim takes the rows that it has locked, and moves them on to new
\* occurrences with the same commit.
LEMMA ClaimCommitClaims ==
  ASSUME TypeOK, TypeOK', ClaimsInv, NEW c \in Calls, ClaimCommit(c)
  PROVE  ClaimsInv'
  <1> DEFINE New == {<<t, tpl[t].occ>> : t \in LockedBy(c)}
  <1>1. /\ todo' = [todo EXCEPT ![c] = New]
        /\ claimed' = claimed \cup New
        /\ lock' = [t \in Templates |-> IF lock[t] = c THEN Free ELSE lock[t]]
        /\ pc' = [pc EXCEPT ![c] = "dispatch"]
        /\ pc[c] = "locked"
        /\ UNCHANGED <<made, lost, rewound, seen>>
    BY DEF ClaimCommit, Goto
  <1>2. \A t \in Templates :
          /\ tpl[t].occ \in Nat /\ last[t] \in Nat
          /\ t \in LockedBy(c) => tpl'[t].occ = last[t] + 1 /\ last'[t] = last[t] + 1
          /\ t \notin LockedBy(c) => tpl'[t] = tpl[t] /\ last'[t] = last[t]
          /\ tpl'[t].state = tpl[t].state
    <2>1. PICK next \in [LockedBy(c) -> NextRuns(age[c])] :
            tpl' = [t \in Templates |->
                      IF t \in LockedBy(c)
                      THEN [tpl[t] EXCEPT !.next = next[t], !.occ = last[t] + 1]
                      ELSE tpl[t]]
      BY DEF ClaimCommit
    <2>2. \A t \in Templates : tpl[t] \in Row /\ tpl[t].occ \in Nat /\ last[t] \in Nat
      BY TemplatesAssumption DEF TypeOK, Row
    <2>3. last' = [t \in Templates |-> IF t \in LockedBy(c) THEN last[t] + 1 ELSE last[t]]
      BY DEF ClaimCommit
    <2>4. QED
      BY <2>1, <2>2, <2>3 DEF Row
  <1>3. \A o \in claimed : o \in Occurrences /\ o[1] \in Templates /\ o[2] \in Nat
                            /\ o[2] <= last[o[1]]
    BY TemplatesAssumption DEF TypeOK, Occurrences, ClaimsInv, Behind
  <1>4. ASSUME NEW o \in New
        PROVE  /\ o[1] \in LockedBy(c) /\ o[1] \in Templates /\ o[2] \in Nat /\ o[2] <= last[o[1]]
               /\ o \in claimed => o \in rewound
               /\ o \in Occurrences
    <2>1. PICK t \in LockedBy(c) : o = <<t, tpl[t].occ>>
      OBVIOUS
    <2>2. t \in Templates
      BY DEF LockedBy
    <2>3. QED
      BY <1>2, <2>1, <2>2 DEF Occurrences, TypeOK, Row, ClaimsInv, Behind
  <1>5. Behind'
    <2>1. ASSUME NEW o \in claimed' PROVE o[2] <= last'[o[1]] /\ o[2] <= last[o[1]]
      BY <1>1, <1>2, <1>3, <1>4
    <2>2. ASSUME NEW t \in Templates, tpl'[t].state = "new"
          PROVE  tpl'[t].occ = 0 /\ lock'[t] = Free
      <3>1. tpl[t].occ = 0 /\ lock[t] = Free
        BY <1>2, <2>2 DEF ClaimsInv, Behind
      <3>2. t \notin LockedBy(c)
        BY <3>1, TemplatesAssumption DEF LockedBy, Free
      <3>3. QED
        BY <1>1, <1>2, <3>1, <3>2
    <2>3. ASSUME NEW t \in Templates
          PROVE  /\ tpl'[t].occ <= last'[t]
                 /\ <<t, tpl'[t].occ>> \in claimed' => <<t, tpl'[t].occ>> \in rewound'
      <3>1. CASE t \in LockedBy(c)
        <4>1. tpl'[t].occ = last[t] + 1
          BY <1>2, <3>1
        <4>2. <<t, tpl'[t].occ>> \notin claimed'
          BY <1>2, <2>1, <4>1
        <4>3. QED
          BY <1>2, <3>1, <4>2
      <3>2. CASE t \notin LockedBy(c)
        <4>1. tpl'[t] = tpl[t] /\ last'[t] = last[t]
          BY <1>2, <3>2
        <4>2. <<t, tpl[t].occ>> \notin New
          BY <1>4, <3>2
        <4>3. QED
          BY <1>1, <4>1, <4>2 DEF ClaimsInv, Behind
      <3>3. QED
        BY <3>1, <3>2
    <2>4. QED
      BY <2>1, <2>2, <2>3 DEF Behind
  <1>6. ReadBehind'
    <2>1. ASSUME NEW d \in Calls, seen[d].id \in Templates
          PROVE  seen[d].row.occ <= last'[seen[d].id]
      <3>1. seen[d].row.occ <= last[seen[d].id]
        BY <2>1 DEF ClaimsInv, ReadBehind
      <3>2. seen[d].row.occ \in Nat
        BY TemplatesAssumption DEF TypeOK, Row
      <3>3. QED
        BY <1>2, <2>1, <3>1, <3>2
    <2>2. QED
      BY <1>1, <2>1 DEF ReadBehind
  <1>7. ASSUME NEW o \in New, o \notin rewound PROVE made[o] = 0 /\ o \notin lost
    <2>1. o \in Occurrences /\ o \notin claimed
      BY <1>4, <1>7
    <2>2. made[o] \in 0..2
      BY <2>1 DEF TypeOK
    <2>3. QED
      BY <2>1, <2>2 DEF ClaimsInv, Settled
  <1>8. \A d \in Calls : d # c => todo'[d] = todo[d] /\ pc'[d] = pc[d]
    BY <1>1
  <1>9. todo'[c] = New /\ pc'[c] = "dispatch"
    BY <1>1 DEF TypeOK
  <1>10. OneHand'
    <2>1. ASSUME NEW d \in Calls, NEW o \in todo'[d]
          PROVE  /\ o \in claimed'
                 /\ o \notin rewound' => /\ made'[o] = 0 /\ o \notin lost'
                                       /\ \A e \in Calls : o \in todo'[e] => d = e
      <3>1. CASE d = c
        <4>1. o \in New
          BY <1>9, <3>1
        <4>2. o \notin rewound => \A e \in Calls : e # c => o \notin todo'[e]
          BY <1>4, <1>8, <4>1 DEF ClaimsInv, OneHand
        <4>3. QED
          BY <1>1, <1>7, <3>1, <4>1, <4>2
      <3>2. CASE d # c
        <4>1. o \in todo[d]
          BY <1>8, <3>2
        <4>2. o \in claimed
          BY <4>1 DEF ClaimsInv, OneHand
        <4>3. o \notin rewound => o \notin todo'[c]
          BY <1>4, <1>9, <4>2
        <4>4. QED
          BY <1>1, <1>8, <4>1, <4>2, <4>3 DEF ClaimsInv, OneHand
      <3>3. QED
        BY <3>1, <3>2
    <2>2. ASSUME NEW d \in Calls, pc'[d] # "dispatch" PROVE todo'[d] = {}
      BY <1>8, <1>9, <2>2 DEF ClaimsInv, OneHand
    <2>3. QED
      BY <2>1, <2>2 DEF OneHand
  <1>11. Settled'
    BY <1>1 DEF ClaimsInv, Settled
  <1>12. Kept'
    <2>1. todo[c] = {}
      BY <1>1 DEF ClaimsInv, OneHand
    <2>2. ASSUME NEW o \in claimed
          PROVE  made[o] > 0 \/ o \in lost \/ \E d \in Calls : o \in todo'[d]
      BY <1>8, <2>1 DEF ClaimsInv, Kept
    <2>3. QED
      BY <1>1, <1>9, <2>2 DEF Kept
  <1>13. QED
    BY <1>5, <1>6, <1>10, <1>11, <1>12 DEF ClaimsInv

\* One occurrence leaves the hands of a call: made or lost.
LEMMA DispatchClaims ==
  ASSUME TypeOK, ClaimsInv, NEW c \in Calls, NEW o \in todo[c],
         DispatchOne(c, o) \/ DispatchFails(c, o)
  PROVE  ClaimsInv'
  <1>1. /\ o \in claimed /\ o \in Occurrences /\ pc[c] = "dispatch"
        /\ o \notin rewound => /\ made[o] = 0 /\ o \notin lost
                             /\ \A d \in Calls : d # c => o \notin todo[d]
    BY DEF ClaimsInv, OneHand, TypeOK, DispatchOne, DispatchFails
  <1>2. /\ UNCHANGED <<tpl, lock, pc, claimed, rewound, last, seen>>
        /\ todo' = [todo EXCEPT ![c] = todo[c] \ {o}]
    BY DEF DispatchOne, DispatchFails
  <1>3. \/ made' = [made EXCEPT ![o] = IF made[o] < 2 THEN made[o] + 1 ELSE made[o]] /\ UNCHANGED lost
        \/ lost' = lost \cup {o} /\ UNCHANGED made
    BY DEF DispatchOne, DispatchFails
  <1>4. /\ todo'[c] = todo[c] \ {o}
        /\ \A d \in Calls : d # c => todo'[d] = todo[d]
    BY <1>2 DEF TypeOK
  <1>5. \A p \in Occurrences : p # o => made'[p] = made[p] /\ (p \in lost' <=> p \in lost)
    BY <1>3 DEF TypeOK
  <1>6. /\ made'[o] > 0 \/ o \in lost'
        /\ o \notin rewound => made'[o] \in {0, 1} /\ (made'[o] > 0 => o \notin lost')
    <2>1. made[o] \in 0..2
      BY <1>1 DEF TypeOK
    <2>2. CASE made' = [made EXCEPT ![o] = IF made[o] < 2 THEN made[o] + 1 ELSE made[o]] /\ UNCHANGED lost
      <3>1. made'[o] = IF made[o] < 2 THEN made[o] + 1 ELSE made[o]
        BY <1>1, <2>2 DEF TypeOK
      <3>2. QED
        BY <1>1, <2>1, <2>2, <3>1
    <2>3. CASE lost' = lost \cup {o} /\ UNCHANGED made
      BY <1>1, <2>1, <2>3
    <2>4. QED
      BY <1>3, <2>2, <2>3
  <1>7. \A p \in claimed : p \in Occurrences
    BY DEF TypeOK
  <1>8. Behind' /\ ReadBehind'
    BY <1>2 DEF ClaimsInv, Behind, ReadBehind
  <1>9. OneHand'
    <2>1. ASSUME NEW d \in Calls, NEW p \in todo'[d]
          PROVE  /\ p \in claimed'
                 /\ p \notin rewound' => /\ made'[p] = 0 /\ p \notin lost'
                                       /\ \A e \in Calls : p \in todo'[e] => d = e
      <3>1. p \in todo[d] /\ (p \notin rewound => p # o)
        BY <1>1, <1>4
      <3>2. /\ p \in claimed
            /\ p \notin rewound => /\ made[p] = 0 /\ p \notin lost
                                 /\ \A e \in Calls : p \in todo[e] => d = e
        BY <3>1 DEF ClaimsInv, OneHand
      <3>3. \A e \in Calls : p \in todo'[e] => p \in todo[e]
        BY <1>4
      <3>4. QED
        BY <1>2, <1>5, <1>7, <3>1, <3>2, <3>3
    <2>2. ASSUME NEW d \in Calls, pc'[d] # "dispatch" PROVE todo'[d] = {}
      BY <1>1, <1>2, <1>4, <2>2 DEF ClaimsInv, OneHand
    <2>3. QED
      BY <2>1, <2>2 DEF OneHand
  <1>10. Settled'
    <2>1. lost' \subseteq claimed'
      BY <1>1, <1>2, <1>3 DEF ClaimsInv, Settled
    <2>2. ASSUME NEW p \in Occurrences
          PROVE  /\ made'[p] > 0 => p \in claimed'
                 /\ p \notin rewound' => made'[p] <= 1 /\ (made'[p] > 0 => p \notin lost')
      <3>1. CASE p = o
        BY <1>1, <1>2, <1>6, <3>1
      <3>2. CASE p # o
        BY <1>2, <1>5, <3>2 DEF ClaimsInv, Settled
      <3>3. QED
        BY <3>1, <3>2
    <2>3. QED
      BY <2>1, <2>2 DEF Settled
  <1>11. Kept'
    <2>1. ASSUME NEW p \in claimed, p # o
          PROVE  made'[p] > 0 \/ p \in lost' \/ \E d \in Calls : p \in todo'[d]
      <3>1. made[p] > 0 \/ p \in lost \/ \E d \in Calls : p \in todo[d]
        BY DEF ClaimsInv, Kept
      <3>2. \A d \in Calls : p \in todo[d] => p \in todo'[d]
        BY <1>4, <2>1
      <3>3. QED
        BY <1>5, <1>7, <2>1, <3>1, <3>2
    <2>2. QED
      BY <1>2, <1>6, <2>1 DEF Kept
  <1>12. QED
    BY <1>8, <1>9, <1>10, <1>11 DEF ClaimsInv

\* A crash loses what calls had in hand.
LEMMA CrashClaims ==
  ASSUME TypeOK, ClaimsInv, Crash
  PROVE  ClaimsInv'
  <1>1. /\ lost' = lost \cup UNION {todo[c] : c \in Calls}
        /\ todo' = [c \in Calls |-> {}]
        /\ lock' = [t \in Templates |-> Free]
        /\ seen' = [c \in Calls |-> NothingSeen]
        /\ UNCHANGED <<tpl, made, claimed, rewound, last>>
    BY DEF Crash
  <1>2. Behind' /\ ReadBehind'
    BY <1>1, TemplatesAssumption DEF ClaimsInv, Behind, ReadBehind, NothingSeen, NoRow, TypeOK
  <1>3. OneHand'
    BY <1>1 DEF OneHand
  <1>4. Settled'
    <2>1. ASSUME NEW c \in Calls, NEW o \in todo[c]
          PROVE  o \in claimed /\ (o \notin rewound => made[o] = 0)
      BY DEF ClaimsInv, OneHand
    <2>2. lost' \subseteq claimed
      BY <1>1, <2>1 DEF ClaimsInv, Settled
    <2>3. ASSUME NEW o \in Occurrences, made[o] > 0, o \notin rewound PROVE o \notin lost'
      BY <1>1, <2>1, <2>3 DEF ClaimsInv, Settled
    <2>4. QED
      BY <1>1, <2>2, <2>3 DEF ClaimsInv, Settled
  <1>5. Kept'
    BY <1>1 DEF ClaimsInv, Kept
  <1>6. QED
    BY <1>2, <1>3, <1>4, <1>5 DEF ClaimsInv

\* The calls of the service: a new row starts at occurrence 0, an update that
\* recomputes nextRunAt goes on to a new one, one that writes back what it
\* read notes it, a deleted row keeps its own.
LEMMA ServiceClaims ==
  ASSUME TypeOK, TypeOK', ClaimsInv, NEW c \in Calls, Service(c)
  PROVE  ClaimsInv'
  <1>1. pc[c] \in {"idle", "update"} /\ UNCHANGED <<made, claimed, lost, todo, lock>>
    BY DEF Service, CreateTemplate, UpdateRead, UpdateWrite, DeleteTemplate, hist
  <1>2. pc' = [pc EXCEPT ![c] = pc'[c]]
    BY DEF Service, CreateTemplate, UpdateRead, UpdateWrite, DeleteTemplate, Goto, TypeOK
  <1>3. \A d \in Calls : pc'[d] # "dispatch" => todo[d] = {}
    <2>1. todo[c] = {}
      BY <1>1 DEF ClaimsInv, OneHand
    <2>2. \A d \in Calls : d # c => pc'[d] = pc[d]
      BY <1>2 DEF TypeOK
    <2>3. QED
      BY <2>1, <2>2 DEF ClaimsInv, OneHand
  <1>4. \A t \in Templates : tpl[t].occ \in Nat /\ last[t] \in Nat
    BY TemplatesAssumption DEF TypeOK, Row
  <1>5. \A t \in Templates : tpl[t].occ <= last[t] /\ (tpl[t].state = "new" => tpl[t].occ = 0 /\ lock[t] = Free)
    BY DEF ClaimsInv, Behind
  <1>6. \A d \in Calls : seen[d].row.occ \in Nat /\ (seen[d].id \in Templates => seen[d].row.occ <= last[seen[d].id])
    BY TemplatesAssumption DEF TypeOK, Row, ClaimsInv, ReadBehind
  <1>7. CASE UNCHANGED <<last, rewound, seen>> /\ ~ \E in \in Inputs, d \in 1..MaxWait : UpdateWrite(c, in, d)
    <2>1. ASSUME NEW t \in Templates
          PROVE  tpl'[t].occ = tpl[t].occ /\ (tpl'[t].state = "new" => tpl'[t] = tpl[t])
      <3>1. CASE tpl'[t] = tpl[t]
        BY <3>1
      <3>2. ASSUME NEW u \in Templates, NEW enabled \in BOOLEAN, NEW cron \in BOOLEAN,
                   CreateTemplate(c, u, enabled, cron), tpl'[t] # tpl[t]
            PROVE  tpl[t].occ = 0 /\ tpl'[t].occ = 0 /\ tpl'[t].state = "live"
        BY <1>5, <3>2 DEF CreateTemplate, TypeOK
      <3>3. ASSUME NEW u \in Templates, DeleteTemplate(c, u), tpl'[t] # tpl[t]
            PROVE  tpl'[t].occ = tpl[t].occ /\ tpl'[t].state = "deleted"
        BY <3>3 DEF DeleteTemplate, TypeOK, NoRow
      <3>4. ASSUME NEW u \in Templates, UpdateRead(c, u) PROVE tpl'[t] = tpl[t]
        BY <3>4 DEF UpdateRead
      <3>5. QED
        BY <1>7, <3>1, <3>2, <3>3, <3>4 DEF Service
    <2>2. QED
      BY <1>1, <1>3, <1>4, <1>5, <1>6, <1>7, <2>1, ClaimsFrame
  <1>8. ASSUME NEW t \in Templates, UpdateRead(c, t) PROVE ClaimsInv'
    <2>1. UNCHANGED <<tpl, last, rewound>> /\ seen' = [seen EXCEPT ![c] = [id |-> t, row |-> tpl[t]]]
      BY <1>8 DEF UpdateRead, hist
    <2>2. \A d \in Calls : seen'[d].id \in Templates => seen'[d].row.occ <= last[seen'[d].id]
      BY <1>5, <1>6, <2>1 DEF TypeOK
    <2>3. QED
      BY <1>1, <1>3, <1>4, <1>5, <2>1, <2>2, ClaimsFrame
  <1>9. ASSUME NEW in \in Inputs, NEW d \in 1..MaxWait, UpdateWrite(c, in, d) PROVE ClaimsInv'
    <2> DEFINE id == seen[c].id
    <2>1. seen' = [seen EXCEPT ![c] = NothingSeen] /\ rewound \subseteq rewound'
      BY <1>9 DEF UpdateWrite
    <2>2. ASSUME NEW t \in Templates, tpl'[t] # tpl[t] \/ last'[t] # last[t]
          PROVE  /\ t = id /\ Exists(t) /\ tpl'[t] = Edited(seen[c].row, tpl[t], in, d, last[t] + 1)
                 /\ last'[t] = IF Keeping(in) THEN last[t] ELSE last[t] + 1
                 /\ Keeping(in) /\ <<t, seen[c].row.occ>> \in claimed => <<t, seen[c].row.occ>> \in rewound'
      <3>1. CASE Exists(id)
        <4>1. /\ tpl' = [tpl EXCEPT ![id] = Edited(seen[c].row, tpl[id], in, d, last[id] + 1)]
              /\ last' = IF Keeping(in) THEN last ELSE [last EXCEPT ![id] = last[id] + 1]
              /\ rewound' = IF Keeping(in) /\ <<id, seen[c].row.occ>> \in claimed
                            THEN rewound \cup {<<id, seen[c].row.occ>>} ELSE rewound
          BY <1>9, <3>1 DEF UpdateWrite
        <4>2. t = id
          BY <2>2, <4>1 DEF TypeOK
        <4>3. QED
          BY <3>1, <4>1, <4>2 DEF TypeOK
      <3>2. CASE ~Exists(id)
        BY <1>9, <2>2, <3>2 DEF UpdateWrite
      <3>3. QED
        BY <3>1, <3>2
    <2>3. ASSUME NEW t \in Templates
          PROVE  /\ last[t] <= last'[t] /\ tpl'[t].occ <= last'[t]
                 /\ \/ tpl'[t].occ = tpl[t].occ
                    \/ tpl'[t].occ > last[t]
                    \/ <<t, tpl'[t].occ>> \in claimed => <<t, tpl'[t].occ>> \in rewound'
                 /\ tpl'[t].state = "new" => tpl'[t].occ = 0 /\ lock'[t] = Free
      <3>1. CASE tpl'[t] = tpl[t] /\ last'[t] = last[t]
        BY <1>1, <1>4, <1>5, <3>1
      <3>2. CASE ~(tpl'[t] = tpl[t] /\ last'[t] = last[t]) /\ Keeping(in)
        <4>1. tpl'[t].occ = seen[c].row.occ /\ tpl'[t].state = "live" /\ last'[t] = last[t]
          <5>1. tpl'[t] = Edited(seen[c].row, tpl[t], in, d, last[t] + 1) /\ last'[t] = last[t]
            BY <2>2, <3>2
          <5>2. QED
            BY <3>2, <5>1 DEF Edited
        <4>2. seen[c].row.occ <= last[t]
          BY <1>6, <2>2, <3>2
        <4>3. QED
          BY <1>4, <2>2, <3>2, <4>1, <4>2
      <3>3. CASE ~(tpl'[t] = tpl[t] /\ last'[t] = last[t]) /\ ~Keeping(in)
        <4>1. tpl'[t].occ = last[t] + 1 /\ tpl'[t].state = "live" /\ last'[t] = last[t] + 1
          <5>1. tpl'[t] = Edited(seen[c].row, tpl[t], in, d, last[t] + 1) /\ last'[t] = last[t] + 1
            BY <2>2, <3>3
          <5>2. QED
            BY <3>3, <5>1 DEF Edited
        <4>2. QED
          BY <1>4, <4>1
      <3>4. QED
        BY <3>1, <3>2, <3>3
    <2>4. \A e \in Calls : seen'[e].id \in Templates => seen'[e].row.occ <= last'[seen'[e].id]
      <3>1. NothingSeen.row.occ = 0
        BY DEF NothingSeen, NoRow
      <3>2. ASSUME NEW e \in Calls, seen'[e].id \in Templates PROVE seen'[e].row.occ <= last'[seen'[e].id]
        <4>1. CASE e = c
          <5>1. seen'[e].row.occ = 0 /\ last'[seen'[e].id] \in 0..MaxOcc
            BY <2>1, <3>1, <3>2, <4>1 DEF TypeOK
          <5>2. QED
            BY <5>1
        <4>2. CASE e # c
          <5>1. seen'[e] = seen[e] /\ last[seen[e].id] <= last'[seen[e].id] /\ last'[seen[e].id] \in Nat
            <6>1. seen'[e] = seen[e] /\ seen[e].id \in Templates
              BY <2>1, <3>2, <4>2 DEF TypeOK
            <6>2. last[seen[e].id] <= last'[seen[e].id]
              BY <2>3, <6>1
            <6>3. last'[seen[e].id] \in Nat
              BY <6>1, TemplatesAssumption DEF TypeOK
            <6>4. QED
              BY <6>1, <6>2, <6>3
          <5>2. QED
            BY <1>4, <1>6, <3>2, <5>1
        <4>3. QED
          BY <4>1, <4>2
      <3>3. QED
        BY <3>2
    <2>5. QED
      BY <1>1, <1>3, <2>1, <2>3, <2>4, ClaimsFrame
  <1>10. \/ \E in \in Inputs, d \in 1..MaxWait : UpdateWrite(c, in, d)
         \/ \E t \in Templates : UpdateRead(c, t)
         \/ UNCHANGED <<last, rewound, seen>>
    BY DEF Service, CreateTemplate, DeleteTemplate, hist
  <1>11. QED
    BY <1>7, <1>8, <1>9, <1>10

\* The timer, a failed claim, time: rows keep their occurrence.
LEMMA OtherClaims ==
  ASSUME TypeOK, TypeOK', ClaimsInv,
         \/ \E c \in Calls : \/ ClaimLock(c) \/ ClaimError(c) \/ Dispatched(c)
                              \/ ArmClear(c) \/ ArmRead(c) \/ ArmError(c) \/ ArmSet(c)
                              \/ TimerFires(c) \/ Restart(c)
         \/ Tick \/ UNCHANGED vars
  PROVE  ClaimsInv'
  <1> USE DEF Goto, vars, callVars, sched, hist
  <1>1. UNCHANGED <<made, claimed, lost, todo, rewound, last>>
    BY DEF ClaimLock, ClaimError, Dispatched, ArmClear, ArmRead, ArmError, ArmSet,
           TimerFires, Restart, Tick
  <1>2. ASSUME NEW d \in Calls, pc'[d] # "dispatch" PROVE todo[d] = {}
    <2>1. CASE pc[d] # "dispatch"
      BY <2>1 DEF ClaimsInv, OneHand
    <2>2. CASE pc[d] = "dispatch"
      <3>1. pc'[d] # pc[d]
        BY <1>2, <2>2
      <3>2. PICK c \in Calls : \/ ClaimLock(c) \/ ClaimError(c) \/ Dispatched(c)
                               \/ ArmClear(c) \/ ArmRead(c) \/ ArmError(c) \/ ArmSet(c)
                               \/ TimerFires(c) \/ Restart(c)
        BY <3>1 DEF Tick
      <3>3. pc' = [pc EXCEPT ![c] = pc'[c]]
        BY <3>2 DEF ClaimLock, ClaimError, Dispatched, ArmClear, ArmRead, ArmError,
                    ArmSet, TimerFires, Restart, TypeOK
      <3>4. c = d
        BY <3>1, <3>3 DEF TypeOK
      <3>5. Dispatched(d)
        BY <1>2, <2>2, <3>2, <3>4 DEF ClaimLock, ClaimError, ArmClear, ArmRead, ArmError,
                                      ArmSet, TimerFires, Restart, TypeOK
      <3>6. QED
        BY <3>5 DEF Dispatched
    <2>3. QED
      BY <2>1, <2>2
  <1>3. ASSUME NEW t \in Templates PROVE tpl'[t].occ = tpl[t].occ /\ tpl'[t].state = tpl[t].state
    BY DEF ClaimLock, ClaimError, Dispatched, ArmClear, ArmRead, ArmError, ArmSet,
           TimerFires, Restart, Tick, TypeOK, Row
  <1>4. ASSUME NEW t \in Templates, tpl[t].state = "new", lock[t] = Free PROVE lock'[t] = Free
    BY <1>4 DEF ClaimLock, ClaimError, Dispatched, ArmClear, ArmRead, ArmError, ArmSet,
           TimerFires, Restart, Tick, DueFor, Scheduled, Exists
  <1>5. \A t \in Templates : tpl[t].occ \in Nat
    BY TemplatesAssumption DEF TypeOK, Row
  <1>6. \A t \in Templates :
          /\ tpl'[t].occ <= last[t]
          /\ tpl'[t].state = "new" => tpl'[t].occ = 0 /\ lock'[t] = Free
    BY <1>3, <1>4 DEF ClaimsInv, Behind
  <1>7. ASSUME NEW c \in Calls PROVE seen'[c].id = seen[c].id /\ seen'[c].row.occ = seen[c].row.occ
    <2>1. CASE seen' = seen
      BY <2>1
    <2>2. CASE seen' = [d \in Calls |-> [seen[d] EXCEPT !.row.next = Sooner(seen[d].row.next)]]
      <3>1. seen[c].row \in Row /\ seen[c] \in [id: Templates \cup {Free}, row: Row]
        BY DEF TypeOK
      <3>2. [seen[c].row EXCEPT !.next = Sooner(seen[c].row.next)].occ = seen[c].row.occ
        BY <3>1 DEF Row
      <3>3. seen'[c] = [seen[c] EXCEPT !.row = [seen[c].row EXCEPT !.next = Sooner(seen[c].row.next)]]
        BY <2>2
      <3>4. QED
        BY <3>1, <3>2, <3>3
    <2>3. seen' = seen \/ seen' = [d \in Calls |-> [seen[d] EXCEPT !.row.next = Sooner(seen[d].row.next)]]
      BY DEF ClaimLock, ClaimError, Dispatched, ArmClear, ArmRead, ArmError, ArmSet,
             TimerFires, Restart, Tick
    <2>4. QED
      BY <2>1, <2>2, <2>3
  <1>8. \A t \in Templates : last[t] \in Nat
    BY TemplatesAssumption DEF TypeOK
  <1>9. \A c \in Calls : seen'[c].id \in Templates => seen'[c].row.occ <= last[seen'[c].id]
    BY <1>7 DEF ClaimsInv, ReadBehind
  <1>10. QED
    BY <1>1, <1>2, <1>3, <1>6, <1>8, <1>9, ClaimsFrame

\* Every step keeps the invariant.
LEMMA ClaimsStep == TypeOK /\ TypeOK' /\ ClaimsInv /\ [Next]_vars => ClaimsInv'
  <1> SUFFICES ASSUME TypeOK, TypeOK', ClaimsInv, [Next]_vars PROVE ClaimsInv'
    OBVIOUS
  <1>1. ASSUME NEW c \in Calls, Proceed(c) PROVE ClaimsInv'
    BY <1>1, ClaimCommitClaims, DispatchClaims, OtherClaims DEF Proceed
  <1>2. ASSUME NEW c \in Calls, TimerFires(c) \/ Restart(c) PROVE ClaimsInv'
    BY <1>2, OtherClaims
  <1>3. ASSUME NEW c \in Calls, Service(c) PROVE ClaimsInv'
    BY <1>3, ServiceClaims
  <1>4. ASSUME NEW c \in Calls,
               ClaimError(c) \/ ArmError(c) \/ \E o \in todo[c] : DispatchFails(c, o)
        PROVE  ClaimsInv'
    BY <1>4, DispatchClaims, OtherClaims
  <1>5. QED
    BY <1>1, <1>2, <1>3, <1>4, CrashClaims, OtherClaims DEF Next

\* An occurrence yields at most one instance (claimDueTemplates,
\* job.repository.ts:79-115), for any number of overlapping dispatches, edits
\* of every kind, failures and crashes, until an update writes it back.
THEOREM AtMostOnce == Spec => []AtMostOneInstance
  <1>1. TypeOK /\ ClaimsInv => AtMostOneInstance
    BY DEF ClaimsInv, Settled, AtMostOneInstance
  <1>2. QED
    BY InitTyped, StepTyped, ClaimsInit, ClaimsStep, <1>1, PTL DEF Spec

\* What was claimed is dispatched once, still to be dispatched by one call, or
\* lost to a failure.
LEMMA AccountFollows == TypeOK /\ ClaimsInv => ClaimedIsAccounted
  <1> SUFFICES ASSUME TypeOK, ClaimsInv, NEW o \in claimed \ rewound
               PROVE  Cardinality({c \in Calls : o \in todo[c]})
                        + (IF made[o] > 0 THEN 1 ELSE 0) + (IF o \in lost THEN 1 ELSE 0) = 1
    BY DEF ClaimedIsAccounted
  <1>1. o \in Occurrences /\ made[o] \in 0..2
    BY DEF TypeOK
  <1>2. CASE \E c \in Calls : o \in todo[c]
    <2>1. PICK c \in Calls : o \in todo[c]
      BY <1>2
    <2>2. {d \in Calls : o \in todo[d]} = {c} /\ made[o] = 0 /\ o \notin lost
      BY <2>1 DEF ClaimsInv, OneHand
    <2>3. Cardinality({d \in Calls : o \in todo[d]}) = 1
      BY <2>2, FS_Singleton
    <2>4. QED
      BY <2>2, <2>3
  <1>3. CASE ~ \E c \in Calls : o \in todo[c]
    <2>1. {d \in Calls : o \in todo[d]} = {}
      BY <1>3
    <2>2. Cardinality({d \in Calls : o \in todo[d]}) = 0
      BY <2>1, FS_EmptySet
    <2>3. \/ made[o] > 0 /\ o \notin lost
          \/ ~(made[o] > 0) /\ o \in lost
      BY <1>1, <1>3 DEF ClaimsInv, Kept, Settled
    <2>4. QED
      BY <2>2, <2>3
  <1>4. QED
    BY <1>2, <1>3

\* What a claim took is in exactly one place (claimDueTemplates and the loop
\* of dispatchDue, job-template-scheduler.ts): the instance was inserted, one
\* call still has to insert it, or a failure or a crash lost it, for any number
\* of calls and any edits, until an update writes the occurrence back.
THEOREM Accounted == Spec => []ClaimedIsAccounted
  BY InitTyped, StepTyped, ClaimsInit, ClaimsStep, AccountFollows, PTL DEF Spec
=============================================================================
