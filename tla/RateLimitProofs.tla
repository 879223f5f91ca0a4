---------------------------- MODULE RateLimitProofs ----------------------------
(* Theorems about RateLimit, for any calls, subjects, inputs and bounds.    *)
EXTENDS RateLimit, TLAPS

-----------------------------------------------------------------------------
(* What memory may still become.                                           *)

\* A row read or written earlier is not newer than the one stored, and is that
\* one if its version is.
NotNewer(row, s) == row.ver <= table[s].ver /\ (row.ver = table[s].ver => row = table[s])
Outdated(k) == k.ver <= conf.ver /\ (k.ver = conf.ver => k = conf)

RowsLag ==
  /\ \A c \in Calls : call[c].pc = "apply" => NotNewer(call[c].row, call[c].s)
  /\ boot.pc = "load" => \A s \in Subjects : NotNewer(boot.rows[s], s)
ConfLags ==
  /\ \A c \in Calls : call[c].pc = "update" => Outdated(call[c].conf)
  /\ boot.pc = "update" => Outdated(boot.conf)

\* Once the rows are read at the start: memory has the row stored, or it is on
\* its way, or the subject is apart.
RowArrives ==
  boot.pc \in {"load", "up"} =>
    \A s \in Subjects :
      \/ s \in apart \/ memory[s] = table[s]
      \/ \E c \in Calls : call[c].pc = "apply" /\ call[c].s = s /\ call[c].row = table[s]
      \/ boot.pc = "load" /\ boot.rows[s] = table[s]

\* The same of the defaults.
ConfArrives ==
  boot.pc \in {"update", "overrides", "load", "up"} =>
      \/ Limited \in apart \/ conf.max = 0 \/ limiter.ver = conf.ver
      \/ \E c \in Calls : \/ call[c].pc = "reload"
                          \/ call[c].pc = "update" /\ call[c].conf.ver = conf.ver
      \/ boot.pc = "update" /\ boot.conf.ver = conf.ver

MemoryInv == TypeOK /\ RowsLag /\ ConfLags /\ RowArrives /\ ConfArrives

-----------------------------------------------------------------------------
(* Every window has such a length (see Lengths).                           *)

LengthsKept ==
  /\ limiter.window \in Lengths /\ conf.window \in Lengths /\ boot.conf.window \in Lengths
  /\ \A c \in Calls : call[c].conf.window \in Lengths /\ call[c].row.window \in Lengths \cup {0}
  /\ \A s \in Subjects : /\ table[s].window \in Lengths \cup {0}
                         /\ memory[s].window \in Lengths \cup {0}
                         /\ boot.rows[s].window \in Lengths \cup {0}
-----------------------------------------------------------------------------
(* Types.                                                                  *)

\* What an edit stores is a row, or a configuration; what a request does not
\* have yet is of the type of what it will have.
LEMMA RowTyped == ASSUME NEW v \in Nat, NEW o \in Overrides, now \in Nat PROVE RowOf(v, o) \in Row
  BY RateLimitAssumption DEF RowOf, Row, Override, Always

LEMMA ConfTyped == ASSUME NEW v \in Nat, NEW k \in Configs PROVE ConfOf(v, k) \in Conf
  BY RateLimitAssumption DEF ConfOf, Conf, Config

LEMMA NothingTyped ==
  /\ NoRow \in Row /\ NoConf \in Conf /\ NewLimiter \in Limiter /\ NoBucket \in Bucket
  /\ Idle \in Call /\ Down \in Boot /\ Limited \notin Subjects
  <1>1. NoRow \in Row /\ NoConf \in Conf
    BY RateLimitAssumption DEF NoRow, Row, NoConf, Conf
  <1>2. NewLimiter \in Limiter /\ NoBucket \in Bucket
    BY RateLimitAssumption DEF NewLimiter, Limiter, NoBucket, Bucket
  <1>3. SomeSubject \in Subjects
    BY RateLimitAssumption DEF SomeSubject
  <1>4. Idle \in Call
    BY <1>1, <1>3 DEF Idle, Call
  <1>5. Down \in Boot
    BY <1>1 DEF Down, Boot
  <1>6. QED
    BY <1>1, <1>2, <1>4, <1>5, RateLimitAssumption

\* The policy of a subject has a limit and a window.
LEMMA PolicyTyped ==
  ASSUME TypeOK, NEW s \in Subjects
  PROVE  /\ Policy(s).bypass \in BOOLEAN
         /\ Policy(s).max \in Nat \ {0} /\ Policy(s).window \in Nat \ {0}
  <1>1. memory[s] \in Row /\ limiter \in Limiter
    BY DEF TypeOK
  <1>2. QED
    BY <1>1 DEF Policy, Row, Limiter, Active

LEMMA InitTyped == Init => TypeOK
  <1> SUFFICES ASSUME Init PROVE TypeOK
    OBVIOUS
  <1>1. \A o \in Overrides : RowOf(0, o) \in Row
    BY RowTyped DEF Init
  <1>2. table \in [Subjects -> Row]
    BY <1>1, NothingTyped DEF Init
  <1>3. conf \in Conf
    BY ConfTyped DEF Init
  <1>4. boot \in Boot
    BY NothingTyped DEF Init, Boot
  <1>5. now \in 0..MaxTime /\ edits \in 0..MaxEdits /\ faults \in 0..MaxFaults
    BY RateLimitAssumption DEF Init
  <1>6. QED
    BY <1>2, <1>3, <1>4, <1>5, NothingTyped DEF Init, TypeOK

\* The settled set is one of subjects and defaults.
LEMMA SettleTyped ==
  ASSUME NEW K, NEW off, off \subseteq Subjects \cup {Limited}, TypeOK, Settle(K, off)
  PROVE  apart' \subseteq Subjects \cup {Limited}
  BY DEF Settle, TypeOK

\* Actions that change counters and clocks only.
LEMMA CountersTyped ==
  ASSUME TypeOK, \/ \E s \in Subjects : Request(s) \/ Release(s)
                 \/ Sweep \/ Tick
  PROVE  TypeOK'
  <1>0. NoBucket \in Bucket /\ now \in Nat /\ bucket \in [Subjects -> Bucket]
    BY NothingTyped, RateLimitAssumption DEF TypeOK
  <1>1. ASSUME NEW s \in Subjects, Request(s)
        PROVE  TypeOK'
    <2>1. bucket' \in [Subjects -> Bucket]
      <3>1. bucket[s].count + 1 \in 0..MaxCount \/ ~Open(s)
        BY <1>0, <1>1, RateLimitAssumption DEF Request, Bucket
      <3>2. CASE Open(s)
        BY <1>0, <1>1, <3>1, <3>2 DEF Request, Hit, Bucket
      <3>3. CASE ~Open(s)
        <4>1. 1 \in 0..MaxCount
          BY <1>1, <3>3, RateLimitAssumption DEF Request
        <4>2. now + Policy(s).window \in Nat
          BY <1>0, PolicyTyped
        <4>3. [count |-> 1, until |-> now + Policy(s).window] \in Bucket
          BY <4>1, <4>2 DEF Bucket
        <4>4. QED
          BY <1>0, <1>1, <3>3, <4>3 DEF Request, Hit
      <3>4. QED
        BY <3>2, <3>3
    <2>2. seen' \in [Subjects -> BOOLEAN]
      BY <1>1 DEF Request, Publish, TypeOK, Blocked, Open
    <2>3. QED
      BY <1>1, <2>1, <2>2 DEF Request, TypeOK, tables, registry
  <1>2. ASSUME NEW s \in Subjects, Release(s)
        PROVE  TypeOK'
    <2>1. bucket' \in [Subjects -> Bucket]
      BY <1>0, <1>2 DEF Release
    <2>2. seen' \in [Subjects -> BOOLEAN]
      BY <1>2 DEF Release, Publish, Blocked, Open
    <2>3. QED
      BY <1>2, <2>1, <2>2 DEF Release, TypeOK, tables, registry
  <1>3. ASSUME Sweep PROVE TypeOK'
    <2>1. bucket' \in [Subjects -> Bucket]
      BY <1>0, <1>3 DEF Sweep
    <2>2. QED
      BY <1>3, <2>1 DEF Sweep, TypeOK, tables, registry
  <1>4. ASSUME Tick PROVE TypeOK'
    <2>1. now' \in 0..MaxTime
      BY <1>4, RateLimitAssumption DEF Tick, TypeOK
    <2>2. seen' \in [Subjects -> BOOLEAN]
      BY <1>4 DEF Tick, TypeOK
    <2>3. QED
      BY <1>4, <2>1, <2>2 DEF Tick, TypeOK, tables, registry
  <1>5. QED
    BY <1>1, <1>2, <1>3, <1>4
\* Edits.
LEMMA EditsTyped ==
  ASSUME TypeOK, NEW c \in Calls, CallStep(c)
  PROVE  TypeOK'
  <1>0. /\ NoRow \in Row /\ Idle \in Call /\ now \in Nat /\ edits \in Nat /\ faults \in Nat
        /\ call \in [Calls -> Call] /\ call[c] \in Call
        /\ table \in [Subjects -> Row] /\ memory \in [Subjects -> Row] /\ conf \in Conf
        /\ limiter \in Limiter /\ boot \in Boot /\ bucket \in [Subjects -> Bucket]
        /\ apart \subseteq Subjects \cup {Limited} /\ seen \in [Subjects -> BOOLEAN]
    BY NothingTyped, RateLimitAssumption DEF TypeOK
  <1>1. ASSUME NEW s \in Subjects, NEW row \in Row,
               call' = [call EXCEPT ![c] = [Idle EXCEPT !.pc = "apply", !.s = s, !.row = row]]
        PROVE  call' \in [Calls -> Call]
    BY <1>0, <1>1 DEF Call
  <1>2. Finish(c) => call' \in [Calls -> Call]
    BY <1>0 DEF Finish
  <1>3. Publish => seen' \in [Subjects -> BOOLEAN]
    BY DEF Publish, Blocked, Open
  <1>4. Edit => edits' \in 0..MaxEdits
    BY <1>0, RateLimitAssumption DEF Edit
  <1>5. ASSUME NEW s \in Subjects, NEW o \in Overrides, UpsertCommit(c, s, o)
        PROVE  TypeOK'
    <2>1. table[s].ver + 1 \in Nat
      BY <1>0 DEF Row
    <2>2. RowOf(table[s].ver + 1, o) \in Row
      BY <1>0, <2>1, RowTyped
    <2>3. call' \in [Calls -> Call] /\ table' \in [Subjects -> Row]
      BY <1>0, <1>1, <1>5, <2>2 DEF UpsertCommit
    <2>4. QED
      BY <1>4, <1>5, <2>3 DEF UpsertCommit, Begin, TypeOK, registry
  <1>6. ASSUME NEW s \in Subjects, DeleteCommit(c, s)
        PROVE  TypeOK'
    <2>1. [NoRow EXCEPT !.ver = table[s].ver + 1] \in Row
      BY <1>0 DEF Row
    <2>2. call' \in [Calls -> Call] /\ table' \in [Subjects -> Row]
      BY <1>0, <1>1, <1>6, <2>1 DEF DeleteCommit
    <2>3. QED
      BY <1>4, <1>6, <2>2 DEF DeleteCommit, Begin, TypeOK, registry
  <1>7. ASSUME NEW k \in Configs, ConfigCommit(c, k)
        PROVE  TypeOK'
    <2>1. conf.ver + 1 \in Nat
      BY <1>0 DEF Conf
    <2>2. conf' \in Conf
      BY <1>7, <2>1, ConfTyped DEF ConfigCommit
    <2>3. call' \in [Calls -> Call]
      BY <1>0, <1>7 DEF ConfigCommit, Call
    <2>4. QED
      BY <1>4, <1>7, <2>2, <2>3 DEF ConfigCommit, Begin, TypeOK, registry
  <1>8. ASSUME ApplyOverride(c) PROVE TypeOK'
    <2>1. call[c].s \in Subjects /\ call[c].row \in Row
      BY <1>0 DEF Call
    <2>2. memory' \in [Subjects -> Row]
      BY <1>0, <1>8, <2>1 DEF ApplyOverride
    <2>3. apart' \subseteq Subjects \cup {Limited}
      BY <1>0, <1>8, <2>1 DEF ApplyOverride, Settle
    <2>4. QED
      BY <1>2, <1>3, <1>8, <2>2, <2>3 DEF ApplyOverride, TypeOK, tables
  <1>9. ASSUME ReloadRead(c) PROVE TypeOK'
    <2>1. call' \in [Calls -> Call]
      BY <1>0, <1>9 DEF ReloadRead, Call
    <2>2. QED
      BY <1>9, <2>1 DEF ReloadRead, TypeOK, tables, registry
  <1>10. ASSUME ReloadApply(c) PROVE TypeOK'
    <2>1. call[c].conf \in Conf
      BY <1>0 DEF Call
    <2>2. limiter' \in Limiter /\ apart' \subseteq Subjects \cup {Limited}
      BY <1>0, <1>10, <2>1 DEF ReloadApply, Update, Settle, Conf, Limiter
    <2>3. QED
      BY <1>2, <1>3, <1>10, <2>2 DEF ReloadApply, TypeOK, tables
  <1>11. ASSUME Fail(c) PROVE TypeOK'
    <2>1. faults' \in 0..MaxFaults
      BY <1>0, <1>11, RateLimitAssumption DEF Fail
    <2>2. apart' \subseteq Subjects \cup {Limited}
      BY <1>0, <1>11 DEF Fail, Call
    <2>3. QED
      BY <1>2, <1>11, <2>1, <2>2 DEF Fail, TypeOK, tables, registry
  <1>12. QED
    BY <1>5, <1>6, <1>7, <1>8, <1>9, <1>10, <1>11 DEF CallStep

\* The start, its failures and the end of the process.
LEMMA BootTyped ==
  ASSUME TypeOK, ConfigDelete \/ BootRead \/ BootUpdate \/ BootLoad \/ BootFails \/ Crash \/ Restart
  PROVE  TypeOK'
  <1>0. /\ NoRow \in Row /\ Idle \in Call /\ Down \in Boot /\ NoBucket \in Bucket
        /\ NewLimiter \in Limiter /\ now \in Nat /\ edits \in Nat /\ faults \in Nat
        /\ call \in [Calls -> Call]
        /\ table \in [Subjects -> Row] /\ memory \in [Subjects -> Row] /\ conf \in Conf
        /\ limiter \in Limiter /\ boot \in Boot /\ bucket \in [Subjects -> Bucket]
        /\ apart \subseteq Subjects \cup {Limited} /\ seen \in [Subjects -> BOOLEAN]
    BY NothingTyped, RateLimitAssumption DEF TypeOK
  <1>1. ASSUME ConfigDelete PROVE TypeOK'
    <2>1. conf' \in Conf
      <3>1. conf.ver + 1 \in Nat
        BY <1>0 DEF Conf
      <3>2. /\ [conf EXCEPT !.ver = conf.ver + 1, !.max = 0] \in Conf
            /\ [conf EXCEPT !.ver = conf.ver + 1, !.enabled = TRUE] \in Conf
        BY <1>0, <3>1 DEF Conf
      <3>3. QED
        BY <1>1, <3>2 DEF ConfigDelete
    <2>2. edits' \in 0..MaxEdits
      BY <1>0, <1>1, RateLimitAssumption DEF ConfigDelete, Edit
    <2>3. QED
      BY <1>0, <1>1, <2>1, <2>2 DEF ConfigDelete, TypeOK, registry
  <1>2. ASSUME BootRead PROVE TypeOK'
    <2>1. boot' \in Boot
      BY <1>0, <1>2 DEF BootRead, Boot
    <2>2. QED
      BY <1>2, <2>1 DEF BootRead, TypeOK, tables, registry
  <1>3. \A p \in {"defaults", "overrides", "up"} : [Down EXCEPT !.pc = p] \in Boot
    BY <1>0 DEF Boot
  <1>4. ASSUME BootUpdate PROVE TypeOK'
    <2>1. boot.conf \in Conf
      BY <1>0 DEF Boot
    <2>2. limiter' \in Limiter /\ apart' \subseteq Subjects \cup {Limited}
      BY <1>0, <1>4, <2>1 DEF BootUpdate, Update, Settle, Conf, Limiter
    <2>3. boot' \in Boot /\ seen' \in [Subjects -> BOOLEAN]
      BY <1>3, <1>4 DEF BootUpdate
    <2>4. QED
      BY <1>4, <2>2, <2>3 DEF BootUpdate, TypeOK, tables
  <1>5. ASSUME BootLoad PROVE TypeOK'
    <2>1. memory' \in [Subjects -> Row]
      BY <1>0, <1>5 DEF BootLoad, Boot
    <2>2. apart' \subseteq Subjects \cup {Limited}
      BY <1>0, <1>5 DEF BootLoad, Settle
    <2>3. boot' \in Boot /\ seen' \in [Subjects -> BOOLEAN]
      BY <1>3, <1>5 DEF BootLoad
    <2>4. QED
      BY <1>5, <2>1, <2>2, <2>3 DEF BootLoad, TypeOK, tables
  <1>6. ASSUME BootFails PROVE TypeOK'
    <2>1. faults' \in 0..MaxFaults
      BY <1>0, <1>6, RateLimitAssumption DEF BootFails
    <2>2. boot' \in Boot
      BY <1>3, <1>6 DEF BootFails
    <2>3. QED
      BY <1>0, <1>6, <2>1, <2>2 DEF BootFails, TypeOK, tables, registry
  <1>7. ASSUME Crash PROVE TypeOK'
    <2>1. faults' \in 0..MaxFaults
      BY <1>0, <1>7, RateLimitAssumption DEF Crash
    <2>2. QED
      BY <1>0, <1>7, <2>1 DEF Crash, TypeOK, tables
  <1>8. ASSUME Restart PROVE TypeOK'
    BY <1>3, <1>8 DEF Restart, TypeOK, tables, registry
  <1>9. QED
    BY <1>1, <1>2, <1>4, <1>5, <1>6, <1>7, <1>8

LEMMA StepTyped == ASSUME TypeOK, [Next]_vars PROVE TypeOK'
  <1>1. CASE UNCHANGED vars
    BY <1>1 DEF vars, tables, registry, TypeOK
  <1>2. CASE Next
    <2>1. CASE \E s \in Subjects : Request(s) \/ Release(s)
      BY <2>1, CountersTyped
    <2>2. CASE Sweep \/ Tick
      BY <2>2, CountersTyped
    <2>3. CASE \E c \in Calls : CallStep(c)
      BY <2>3, EditsTyped
    <2>4. CASE ConfigDelete \/ BootRead \/ BootUpdate \/ BootLoad \/ BootFails \/ Crash \/ Restart
      BY <2>4, BootTyped
    <2>5. QED
      BY <1>2, <2>1, <2>2, <2>3, <2>4 DEF Next
  <1>3. QED
    BY <1>1, <1>2

\* The counters, the rows and the limiter always have their shape; in
\* particular the limiter never has the limit 0.
THEOREM RateLimitTyped == Spec => []TypeOK
  <1>1. QED
    BY InitTyped, StepTyped, PTL DEF Spec

-----------------------------------------------------------------------------
(* Who is blocked is seen.                                                 *)

\* A counter that went up without being announced was over the limit before.
LEMMA UnannouncedWasBlocked ==
  ASSUME TypeOK, BlockedIsSeen, NEW s \in Subjects, Request(s)
  PROVE  BlockedIsSeen'
  <1>0. bucket \in [Subjects -> Bucket] /\ now \in Nat
    BY RateLimitAssumption DEF TypeOK
  <1>1. Policy(s).max \in Nat \ {0} /\ Policy(s).bypass \in BOOLEAN
    BY PolicyTyped
  <1>2. \A t \in Subjects : Policy(t)' = Policy(t)
    BY DEF Request, Policy, Active, registry
  <1> SUFFICES ASSUME NEW t \in Subjects, Blocked(t)' PROVE seen'[t]
    BY DEF BlockedIsSeen
  <1>3. CASE Publish
    BY <1>3 DEF Publish
  <1>4. CASE t # s /\ UNCHANGED seen
    <2>1. bucket'[t] = bucket[t] /\ now' = now
      BY <1>0, <1>4 DEF Request, Hit
    <2>2. Blocked(t)
      BY <1>2, <2>1 DEF Blocked, Open
    <2>3. QED
      BY <1>4, <2>2 DEF BlockedIsSeen
  <1>5. CASE t = s /\ UNCHANGED seen /\ ~Announced(IF Open(s) THEN bucket[s].count + 1 ELSE 1, Policy(s).max)
    <2>1. bucket'[s].count > Policy(s).max /\ ~Policy(s).bypass
      BY <1>2, <1>5 DEF Blocked
    <2>2. CASE Open(s)
      <3>1. bucket'[s].count = bucket[s].count + 1 /\ bucket[s].count \in Nat
        BY <1>0, <2>2 DEF Request, Hit, Bucket
      <3>2. bucket[s].count > Policy(s).max
        BY <1>1, <1>5, <2>1, <2>2, <3>1 DEF Announced
      <3>3. QED
        BY <1>5, <2>1, <2>2, <3>2 DEF Blocked, BlockedIsSeen
    <2>3. CASE ~Open(s)
      <3>1. bucket'[s].count = 1
        BY <1>0, <2>3 DEF Request, Hit
      <3>2. QED
        BY <1>1, <2>1, <3>1
    <2>4. QED
      BY <2>2, <2>3
  <1>6. QED
    BY <1>3, <1>4, <1>5 DEF Request

\* The clock blocks only those whose override begins or ends.
LEMMA TimeIsExcused == ASSUME TypeOK, BlockedIsSeen, Tick PROVE BlockedIsSeen'
  <1>0. /\ bucket \in [Subjects -> Bucket] /\ now \in Nat /\ memory \in [Subjects -> Row]
    BY RateLimitAssumption DEF TypeOK
  <1> SUFFICES ASSUME NEW s \in Subjects, Blocked(s)' PROVE seen'[s]
    BY DEF BlockedIsSeen
  <1>1. bucket' = bucket /\ memory' = memory /\ limiter' = limiter /\ now' = now + 1
    BY DEF Tick, registry
  <1>2. bucket[s].count > 0 /\ bucket[s].until > now + 1 /\ bucket[s].until \in Nat
    BY <1>0, <1>1 DEF Blocked, Open, Bucket
  <1>3. Open(s)
    BY <1>0, <1>2 DEF Open
  <1>4. CASE memory[s].set /\ now + 1 \in {memory[s].from, memory[s].until}
    BY <1>4 DEF Tick
  <1>5. CASE ~(memory[s].set /\ now + 1 \in {memory[s].from, memory[s].until})
    <2>1. /\ memory[s].from \in Nat /\ memory[s].until \in Nat \cup {Always}
          /\ memory[s].set \in BOOLEAN
      BY <1>0 DEF Row
    <2>2. Active(memory[s])' <=> Active(memory[s])
      BY <1>0, <1>1, <1>5, <2>1 DEF Active, Always
    <2>3. Policy(s)' = Policy(s)
      BY <1>1, <2>2 DEF Policy
    <2>4. Blocked(s)
      BY <1>1, <1>3, <2>3 DEF Blocked
    <2>5. QED
      BY <1>2, <2>4 DEF BlockedIsSeen, Tick
  <1>6. QED
    BY <1>4, <1>5

LEMMA SeenStep == ASSUME TypeOK, BlockedIsSeen, [Next]_vars PROVE BlockedIsSeen'
  <1>0. bucket \in [Subjects -> Bucket] /\ now \in Nat
    BY RateLimitAssumption DEF TypeOK
  <1>1. CASE UNCHANGED <<now, memory, limiter, bucket, seen>>
    BY <1>1 DEF BlockedIsSeen, Blocked, Open, Policy, Active
  <1>2. CASE Publish
    BY <1>2 DEF Publish, BlockedIsSeen
  <1>3. CASE seen' = [s \in Subjects |-> TRUE]
    BY <1>3 DEF BlockedIsSeen
  <1>4. CASE \E s \in Subjects : Request(s) \/ Release(s)
    BY <1>2, <1>4, UnannouncedWasBlocked DEF Release
  <1>5. CASE Sweep
    <2>1. \A s \in Subjects : Policy(s)' = Policy(s)
      BY <1>5 DEF Sweep, Policy, Active, registry
    <2>2. \A s \in Subjects : Open(s)' => bucket'[s] = bucket[s] /\ Open(s)
      BY <1>0, <1>5 DEF Sweep, Open, NoBucket
    <2>3. \A s \in Subjects : Blocked(s)' => Blocked(s)
      BY <2>1, <2>2 DEF Blocked
    <2>4. QED
      BY <1>5, <2>3 DEF Sweep, BlockedIsSeen
  <1>6. CASE Crash
    <2>1. \A s \in Subjects : ~Open(s)'
      BY <1>6 DEF Crash, Open, NoBucket
    <2>2. QED
      BY <2>1 DEF BlockedIsSeen, Blocked
  <1>7. CASE Tick
    BY <1>7, TimeIsExcused
  <1>8. CASE \E c \in Calls : CallStep(c)
    BY <1>1, <1>2, <1>8 DEF CallStep, UpsertCommit, DeleteCommit, ConfigCommit, ApplyOverride,
      ReloadRead, ReloadApply, Fail, registry
  <1>9. CASE ConfigDelete \/ BootRead \/ BootUpdate \/ BootLoad \/ BootFails \/ Restart
    BY <1>1, <1>3, <1>9 DEF ConfigDelete, BootRead, BootUpdate, BootLoad, BootFails, Restart, registry
  <1>10. CASE UNCHANGED vars
    BY <1>1, <1>10 DEF vars, registry
  <1>11. QED
    BY <1>4, <1>5, <1>6, <1>7, <1>8, <1>9, <1>10 DEF Next

\* Every subject that becomes blocked is announced, whatever blocks it, but for
\* loads at the start and the clock, when an override begins or is over.
THEOREM BlockedSeen == Spec => []BlockedIsSeen
  <1>1. Init => BlockedIsSeen
    BY DEF Init, BlockedIsSeen, Blocked, Open, NoBucket
  <1>2. QED
    BY <1>1, SeenStep, RateLimitTyped, PTL DEF Spec

-----------------------------------------------------------------------------
(* The counters implement RateWindow.                                      *)

LEMMA LengthsNumbers == /\ Lengths \subseteq Nat \ {0} /\ EnvWindow \in Lengths
                        /\ \A k \in Configs : k.window \in Lengths
                        /\ \A o \in Overrides : o.window \in Lengths \cup {0}
  BY RateLimitAssumption DEF Lengths, Override, Config

\* Windows are copied from place to place.
LEMMA LengthsStep == ASSUME TypeOK, LengthsKept, [Next]_vars PROVE LengthsKept'
  <1>0. /\ NoRow.window = 0 /\ NoConf.window \in Lengths /\ NewLimiter.window \in Lengths
        /\ Idle.row = NoRow /\ Idle.conf = NoConf /\ Down.conf = NoConf
        /\ \A s \in Subjects : Down.rows[s] = NoRow
        /\ \A v \in Nat, o \in Overrides : RowOf(v, o).window \in Lengths \cup {0}
        /\ \A v \in Nat, k \in Configs : ConfOf(v, k).window \in Lengths
    BY LengthsNumbers DEF NoRow, NoConf, NewLimiter, Idle, Down, RowOf, ConfOf
  <1>1. /\ call \in [Calls -> Call] /\ table \in [Subjects -> Row] /\ memory \in [Subjects -> Row]
        /\ conf \in Conf /\ limiter \in Limiter /\ boot \in Boot
    BY DEF TypeOK
  <1>2. CASE UNCHANGED <<table, conf, memory, limiter, call, boot>>
    BY <1>2 DEF LengthsKept
  <1>3. ASSUME NEW c \in Calls, CallStep(c) PROVE LengthsKept'
    <2>0. call[c] \in Call
      BY <1>1
    <2>1. Finish(c) => \A d \in Calls : call'[d].conf.window \in Lengths /\ call'[d].row.window \in Lengths \cup {0}
      BY <1>0, <1>1 DEF Finish, LengthsKept
    <2>2. ASSUME NEW s \in Subjects, NEW o \in Overrides, UpsertCommit(c, s, o) PROVE LengthsKept'
      <3>1. table[s].ver + 1 \in Nat
        BY <1>1 DEF Row
      <3>2. \A d \in Calls : call'[d].conf.window \in Lengths /\ call'[d].row.window \in Lengths \cup {0}
        BY <1>0, <1>1, <2>2, <3>1 DEF UpsertCommit, LengthsKept, Idle
      <3>3. \A t \in Subjects : table'[t].window \in Lengths \cup {0}
        BY <1>0, <1>1, <2>2, <3>1 DEF UpsertCommit, LengthsKept
      <3>4. QED
        BY <2>2, <3>2, <3>3 DEF UpsertCommit, LengthsKept, registry
    <2>3. ASSUME NEW s \in Subjects, DeleteCommit(c, s) PROVE LengthsKept'
      <3>1. [NoRow EXCEPT !.ver = table[s].ver + 1].window = 0
        BY DEF NoRow
      <3>2. \A d \in Calls : call'[d].conf.window \in Lengths /\ call'[d].row.window \in Lengths \cup {0}
        BY <1>0, <1>1, <2>3, <3>1 DEF DeleteCommit, LengthsKept, Idle
      <3>3. \A t \in Subjects : table'[t].window \in Lengths \cup {0}
        BY <1>1, <2>3, <3>1 DEF DeleteCommit, LengthsKept
      <3>4. QED
        BY <2>3, <3>2, <3>3 DEF DeleteCommit, LengthsKept, registry
    <2>4. ASSUME NEW k \in Configs, ConfigCommit(c, k) PROVE LengthsKept'
      <3>1. conf'.window \in Lengths
        BY <1>0, <1>1, <2>4 DEF ConfigCommit, Conf
      <3>2. \A d \in Calls : call'[d].conf.window \in Lengths /\ call'[d].row.window \in Lengths \cup {0}
        BY <1>0, <1>1, <2>4 DEF ConfigCommit, LengthsKept, Idle
      <3>3. QED
        BY <2>4, <3>1, <3>2 DEF ConfigCommit, LengthsKept, registry
    <2>5. CASE ApplyOverride(c)
      <3>1. \A t \in Subjects : memory'[t].window \in Lengths \cup {0}
        BY <1>1, <2>0, <2>5 DEF ApplyOverride, LengthsKept, Call
      <3>2. QED
        BY <2>1, <2>5, <3>1 DEF ApplyOverride, LengthsKept, tables
    <2>6. CASE ReloadRead(c)
      <3>1. \A d \in Calls : call'[d].conf.window \in Lengths /\ call'[d].row.window \in Lengths \cup {0}
        BY <1>1, <2>0, <2>6 DEF ReloadRead, LengthsKept, Call
      <3>2. QED
        BY <2>6, <3>1 DEF ReloadRead, LengthsKept, tables, registry
    <2>7. CASE ReloadApply(c)
      BY <2>1, <2>7 DEF ReloadApply, Update, LengthsKept, tables
    <2>8. CASE Fail(c)
      BY <2>1, <2>8 DEF Fail, LengthsKept, tables, registry
    <2>9. QED
      BY <1>3, <2>2, <2>3, <2>4, <2>5, <2>6, <2>7, <2>8 DEF CallStep
  <1>4. CASE ConfigDelete
    <2>1. conf'.window = conf.window
      BY <1>1, <1>4 DEF ConfigDelete, Conf
    <2>2. QED
      BY <1>4, <2>1 DEF ConfigDelete, LengthsKept, registry
  <1>5. CASE BootRead
    <2>1. boot'.conf.window \in Lengths /\ \A s \in Subjects : boot'.rows[s].window \in Lengths \cup {0}
      BY <1>1, <1>5 DEF BootRead, Boot, LengthsKept
    <2>2. QED
      BY <1>5, <2>1 DEF BootRead, LengthsKept, tables, registry
  <1>6. ASSUME NEW p, boot' = [Down EXCEPT !.pc = p]
        PROVE  boot'.conf.window \in Lengths /\ \A s \in Subjects : boot'.rows[s].window \in Lengths \cup {0}
    BY <1>0, <1>6 DEF Down
  <1>7. CASE BootUpdate
    BY <1>6, <1>7 DEF BootUpdate, Update, LengthsKept, tables
  <1>8. CASE BootLoad
    BY <1>6, <1>8 DEF BootLoad, LengthsKept, tables
  <1>9. CASE BootFails
    BY <1>6, <1>9 DEF BootFails, LengthsKept, tables, registry
  <1>10. CASE Crash
    BY <1>0, <1>10 DEF Crash, LengthsKept, tables
  <1>11. CASE Restart
    BY <1>6, <1>11 DEF Restart, LengthsKept, tables, registry
  <1>12. CASE (\E s \in Subjects : Request(s) \/ Release(s)) \/ Sweep \/ Tick \/ UNCHANGED vars
    BY <1>2, <1>12 DEF Request, Release, Sweep, Tick, vars, tables, registry
  <1>13. QED
    BY <1>3, <1>4, <1>5, <1>7, <1>8, <1>9, <1>10, <1>11, <1>12 DEF Next

LEMMA LengthsInit == Init => LengthsKept
  <1> SUFFICES ASSUME Init PROVE LengthsKept
    OBVIOUS
  <1>0. /\ NoRow.window = 0 /\ NoConf.window \in Lengths /\ NewLimiter.window \in Lengths
        /\ \A o \in Overrides : RowOf(0, o).window \in Lengths \cup {0}
        /\ \A k \in Configs : ConfOf(0, k).window \in Lengths
    BY LengthsNumbers DEF NoRow, NoConf, NewLimiter, RowOf, ConfOf
  <1>1. boot.conf = NoConf /\ \A s \in Subjects : boot.rows[s] = NoRow
    BY DEF Init, Down
  <1>2. \A c \in Calls : call[c].conf = NoConf /\ call[c].row = NoRow
    BY DEF Init, Idle
  <1>3. \A s \in Subjects : memory[s] = NoRow /\ table[s].window \in Lengths \cup {0}
    BY <1>0 DEF Init
  <1>4. QED
    BY <1>0, <1>1, <1>2, <1>3 DEF Init, LengthsKept

\* The window that a policy gives.
LEMMA PolicyLength ==
  ASSUME LengthsKept, NEW s \in Subjects PROVE Policy(s).window \in Lengths
  BY LengthsNumbers DEF LengthsKept, Policy

\* What each step does to the windows.
LEMMA WindowStep ==
  ASSUME TypeOK, LengthsKept, [Next]_vars
  PROVE  Windowed
  <1> DEFINE used == [s \in Subjects |-> IF Open(s) THEN bucket[s].count ELSE 0]
             left == [s \in Subjects |-> IF Open(s) THEN bucket[s].until - now ELSE 0]
  <1>0. /\ bucket \in [Subjects -> Bucket] /\ now \in Nat
        /\ \A s \in Subjects : bucket[s].count \in Nat /\ bucket[s].until \in Nat
    BY RateLimitAssumption DEF TypeOK, Bucket
  <1>1. ASSUME UNCHANGED <<now, bucket>> PROVE UNCHANGED Windows!vars
    <2>1. used' = used /\ left' = left
      BY <1>1 DEF Open
    <2>2. QED
      BY <2>1 DEF Windows!vars
  <1>2. ASSUME NEW s \in Subjects, Request(s)
        PROVE  Policy(s).window \in Lengths /\ Windows!Request(s, Policy(s).window)
    <2>1. now' = now /\ \A t \in Subjects \ {s} : bucket'[t] = bucket[t]
      BY <1>0, <1>2 DEF Request, Hit
    <2>2. \A t \in Subjects \ {s} : used'[t] = used[t] /\ left'[t] = left[t]
      BY <2>1 DEF Open
    <2>3. CASE Open(s)
      <3>1. bucket'[s].count = bucket[s].count + 1 /\ bucket'[s].until = bucket[s].until
        BY <1>0, <1>2, <2>3 DEF Request, Hit, Bucket
      <3>2. Open(s)' /\ used[s] > 0
        BY <1>0, <2>1, <2>3, <3>1 DEF Open
      <3>3. used'[s] = used[s] + 1 /\ left'[s] = left[s]
        BY <2>1, <2>3, <3>1, <3>2
      <3>4. used' = [used EXCEPT ![s] = @ + 1] /\ left' = left
        BY <2>2, <3>3
      <3>5. QED
        BY <3>2, <3>4, PolicyLength DEF Windows!Request
    <2>4. CASE ~Open(s)
      <3>1. Policy(s).window \in Lengths /\ Policy(s).window \in Nat \ {0}
        BY PolicyLength, LengthsNumbers
      <3>2. bucket'[s].count = 1 /\ bucket'[s].until = now + Policy(s).window
        BY <1>0, <1>2, <2>4 DEF Request, Hit
      <3>3. Open(s)'
        BY <1>0, <2>1, <3>1, <3>2 DEF Open
      <3>4. used[s] = 0 /\ used'[s] = 1 /\ left'[s] = Policy(s).window
        BY <1>0, <2>1, <2>4, <3>1, <3>2, <3>3
      <3>5. used' = [used EXCEPT ![s] = 1] /\ left' = [left EXCEPT ![s] = Policy(s).window]
        BY <2>2, <3>4
      <3>6. QED
        BY <3>1, <3>4, <3>5 DEF Windows!Request
    <2>5. QED
      BY <2>3, <2>4
  <1>3. ASSUME NEW s \in Subjects, Release(s) PROVE Windows!Release(s)
    <2>1. now' = now /\ bucket' = [bucket EXCEPT ![s] = NoBucket]
      BY <1>3 DEF Release
    <2>2. ~Open(s)' /\ \A t \in Subjects \ {s} : used'[t] = used[t] /\ left'[t] = left[t]
      BY <1>0, <2>1 DEF Open, NoBucket
    <2>3. used' = [used EXCEPT ![s] = 0] /\ left' = [left EXCEPT ![s] = 0]
      BY <2>2
    <2>4. QED
      BY <2>3 DEF Windows!Release
  <1>4. ASSUME Sweep PROVE UNCHANGED Windows!vars
    <2>1. \A s \in Subjects : /\ Open(s)' <=> Open(s)
                              /\ Open(s) => bucket'[s] = bucket[s]
      BY <1>0, <1>4 DEF Sweep, Open, NoBucket
    <2>2. now' = now
      BY <1>4 DEF Sweep
    <2>3. used' = used /\ left' = left
      BY <2>1, <2>2
    <2>4. QED
      BY <2>3 DEF Windows!vars
  <1>5. ASSUME Tick PROVE Windows!Tick
    <2>1. now' = now + 1 /\ bucket' = bucket
      BY <1>5 DEF Tick
    <2>2. \A s \in Subjects : Open(s)' <=> bucket[s].count > 0 /\ now + 1 < bucket[s].until
      BY <2>1 DEF Open
    <2>3. \A s \in Subjects : left'[s] = IF left[s] > 0 THEN left[s] - 1 ELSE 0
      BY <1>0, <2>1, <2>2 DEF Open
    <2>4. \A s \in Subjects : used'[s] = IF left[s] > 1 THEN used[s] ELSE 0
      BY <1>0, <2>1, <2>2 DEF Open
    <2>5. QED
      BY <2>3, <2>4 DEF Windows!Tick
  <1>6. ASSUME Crash PROVE Windows!Forget
    <2>1. \A s \in Subjects : ~Open(s)'
      BY <1>6 DEF Crash, Open, NoBucket
    <2>2. used' = [s \in Subjects |-> 0] /\ left' = [s \in Subjects |-> 0]
      BY <2>1
    <2>3. QED
      BY <2>2 DEF Windows!Forget
  <1>7. ASSUME (\E c \in Calls : CallStep(c)) \/ UNCHANGED vars PROVE UNCHANGED Windows!vars
    BY <1>1, <1>7 DEF CallStep, UpsertCommit, DeleteCommit, ConfigCommit, ApplyOverride,
      ReloadRead, ReloadApply, Fail, vars
  <1>8. ASSUME ConfigDelete \/ BootRead \/ BootUpdate \/ BootLoad \/ BootFails \/ Restart
        PROVE  UNCHANGED Windows!vars
    BY <1>1, <1>8 DEF ConfigDelete, BootRead, BootUpdate, BootLoad, BootFails, Restart
  <1>9. UNCHANGED Windows!vars \/ (\E s \in Subjects : Request(s) \/ Release(s)) \/ Tick \/ Crash
    BY <1>4, <1>7, <1>8 DEF Next
  <1>10. QED
    BY <1>2, <1>3, <1>5, <1>6, <1>9 DEF Windowed

\* Each of these is a step of RateWindow, or none.
LEMMA WindowNext ==
  ASSUME TypeOK, LengthsKept, [Next]_vars PROVE [Windows!Next]_(Windows!vars)
  <1>0. Windowed
    BY WindowStep
  <1>1. ASSUME NEW s \in Subjects, Request(s) PROVE Windows!Next
    <2>1. Policy(s).window \in Lengths /\ Windows!Request(s, Policy(s).window)
      BY <1>0, <1>1, PolicyLength DEF Windowed
    <2>2. \E w \in Lengths : Windows!Request(s, w)
      <3>1. PICK w \in Lengths : w = Policy(s).window
        BY <2>1
      <3>2. Windows!Request(s, w)
        BY <2>1, <3>1 DEF Windows!Request
      <3>3. QED
        BY <3>2
    <2>3. QED
      BY <2>2, Zenon DEF Windows!Next
  <1>2. ASSUME NEW s \in Subjects, Release(s) PROVE Windows!Next
    <2>1. Windows!Release(s)
      BY <1>0, <1>2 DEF Windowed
    <2>2. QED
      BY <2>1, Zenon DEF Windows!Next
  <1>3. CASE Tick \/ Crash
    BY <1>0, <1>3 DEF Windowed, Windows!Next
  <1>4. QED
    BY <1>0, <1>1, <1>2, <1>3 DEF Windowed

\* Each request that is counted is counted once, in a window that lasts as long
\* as the policy said when it opened; nothing but the clock, a release and a
\* crash ends one.
THEOREM WindowsKept == Spec => CountsWindows
  <1>1. Init => Windows!Init
    BY DEF Init, Open, NoBucket, Windows!Init
  <1>2. QED
    BY <1>1, RateLimitTyped, LengthsInit, LengthsStep, WindowStep, PTL DEF Spec, CountsWindows

\* The limiter implements RateWindow, whatever is edited.
THEOREM WindowsRefined == Spec => Windows!Spec
  <1>1. QED
    BY WindowsKept, RateLimitTyped, LengthsInit, LengthsStep, WindowNext, PTL
      DEF Spec, CountsWindows, Windows!Spec

-----------------------------------------------------------------------------
(* Memory agrees with the tables.                                          *)

\* Versions in the tables rise with every edit, so what was read or is on its
\* way stays not newer.
LEMMA LagStep == ASSUME MemoryInv, [Next]_vars PROVE RowsLag' /\ ConfLags'
  <1>0. /\ call \in [Calls -> Call] /\ table \in [Subjects -> Row] /\ conf \in Conf /\ boot \in Boot
        /\ \A c \in Calls : call[c].s \in Subjects /\ call[c].row.ver \in Nat /\ call[c].conf.ver \in Nat
        /\ \A s \in Subjects : table[s].ver \in Nat /\ boot.rows[s].ver \in Nat
        /\ conf.ver \in Nat /\ boot.conf.ver \in Nat
    BY DEF MemoryInv, TypeOK, Call, Boot, Row, Conf
  <1>00. RowsLag /\ ConfLags
    BY DEF MemoryInv
  <1>1. CASE UNCHANGED <<table, conf, call, boot>>
    BY <1>00, <1>1 DEF RowsLag, ConfLags, NotNewer, Outdated
  \* An edit of a row.
  <1>2. ASSUME NEW c \in Calls, NEW s \in Subjects, NEW row,
               row.ver = table[s].ver + 1, table' = [table EXCEPT ![s] = row],
               call' = [call EXCEPT ![c] = [Idle EXCEPT !.pc = "apply", !.s = s, !.row = row]],
               boot' = boot, conf' = conf
        PROVE  RowsLag' /\ ConfLags'
    <2>1. \A r : \A t \in Subjects : r.ver \in Nat /\ NotNewer(r, t) => NotNewer(r, t)'
      BY <1>0, <1>2 DEF NotNewer
    <2>2. call'[c].pc = "apply" /\ call'[c].s = s /\ call'[c].row = row /\ table'[s] = row
      BY <1>0, <1>2 DEF Idle
    <2>3. \A d \in Calls \ {c} : call'[d] = call[d]
      BY <1>0, <1>2
    <2>4. NotNewer(call[c].row, call[c].s)'
      BY <1>0, <1>2, <2>2 DEF NotNewer
    <2>5. \A d \in Calls : call'[d].pc = "apply" => NotNewer(call[d].row, call[d].s)'
      BY <1>0, <1>00, <2>1, <2>3, <2>4 DEF RowsLag
    <2>6. boot'.pc = "load" => \A t \in Subjects : NotNewer(boot.rows[t], t)'
      BY <1>0, <1>00, <1>2, <2>1 DEF RowsLag
    <2>7. ConfLags'
      BY <1>00, <1>2, <2>2, <2>3 DEF ConfLags, Outdated
    <2>8. QED
      BY <2>5, <2>6, <2>7 DEF RowsLag
  \* An edit of the configuration.
  <1>3. ASSUME conf'.ver = conf.ver + 1, table' = table, boot' = boot,
               \A d \in Calls : call'[d] = call[d] \/ call'[d].pc = "reload"
        PROVE  RowsLag' /\ ConfLags'
    <2>1. \A k : k.ver \in Nat /\ Outdated(k) => Outdated(k)'
      BY <1>0, <1>3 DEF Outdated
    <2>2. ConfLags'
      BY <1>0, <1>00, <1>3, <2>1 DEF ConfLags
    <2>3. RowsLag'
      BY <1>00, <1>3 DEF RowsLag, NotNewer
    <2>4. QED
      BY <2>2, <2>3
  \* The steps that read, and those that end a call or the start.
  <1>4. ASSUME table' = table, conf' = conf, boot' = boot,
               \A d \in Calls : \/ call'[d] = call[d] \/ call'[d].pc = "idle"
                                \/ call'[d].pc = "update" /\ call'[d].conf = conf
        PROVE  RowsLag' /\ ConfLags'
    BY <1>0, <1>00, <1>4 DEF RowsLag, ConfLags, NotNewer, Outdated
  <1>5. ASSUME table' = table, conf' = conf, \A d \in Calls : call'[d] = call[d] \/ call'[d].pc = "idle",
               \/ boot'.pc \notin {"load", "update"}
               \/ boot'.pc = "load" /\ boot'.rows = table
               \/ boot'.pc = "update" /\ boot'.conf = conf
        PROVE  RowsLag' /\ ConfLags'
    BY <1>0, <1>00, <1>5 DEF RowsLag, ConfLags, NotNewer, Outdated
  <1>6. Idle.pc = "idle" /\ \A p : [Down EXCEPT !.pc = p].pc = p
    BY DEF Idle, Down
  <1>7. ASSUME NEW c \in Calls, CallStep(c) PROVE RowsLag' /\ ConfLags'
    <2>1. Finish(c) => \A d \in Calls : call'[d] = call[d] \/ call'[d].pc = "idle"
      BY <1>0, <1>6 DEF Finish
    <2>2. ASSUME NEW s \in Subjects, NEW o \in Overrides, UpsertCommit(c, s, o)
          PROVE  RowsLag' /\ ConfLags'
      <3> DEFINE row == RowOf(table[s].ver + 1, o)
      <3>1. row.ver = table[s].ver + 1
        BY DEF RowOf
      <3>2. /\ table' = [table EXCEPT ![s] = row]
            /\ call' = [call EXCEPT ![c] = [Idle EXCEPT !.pc = "apply", !.s = s, !.row = row]]
            /\ boot' = boot /\ conf' = conf
        BY <2>2 DEF UpsertCommit
      <3> HIDE DEF row
      <3>3. QED
        BY <1>2, <3>1, <3>2
    <2>3. CASE \E s \in Subjects : DeleteCommit(c, s)
      BY <1>2, <2>3 DEF DeleteCommit, NoRow
    <2>4. CASE \E k \in Configs : ConfigCommit(c, k)
      <3>1. conf'.ver = conf.ver + 1
        BY <2>4 DEF ConfigCommit, ConfOf
      <3>2. \A d \in Calls : call'[d] = call[d] \/ call'[d].pc = "reload"
        BY <1>0, <2>4 DEF ConfigCommit, Idle
      <3>3. QED
        BY <1>3, <2>4, <3>1, <3>2 DEF ConfigCommit
    <2>5. CASE ApplyOverride(c)
      BY <1>4, <2>1, <2>5 DEF ApplyOverride, tables
    <2>6. CASE ReloadRead(c)
      <3>1. call'[c].pc = "update" /\ call'[c].conf = conf
        BY <1>0, <2>6 DEF ReloadRead, Call
      <3>2. \A d \in Calls \ {c} : call'[d] = call[d]
        BY <1>0, <2>6 DEF ReloadRead
      <3>3. QED
        BY <1>4, <2>6, <3>1, <3>2 DEF ReloadRead, tables
    <2>7. CASE ReloadApply(c)
      BY <1>4, <2>1, <2>7 DEF ReloadApply, tables
    <2>8. CASE Fail(c)
      BY <1>4, <2>1, <2>8 DEF Fail, tables
    <2>9. QED
      BY <1>7, <2>2, <2>3, <2>4, <2>5, <2>6, <2>7, <2>8 DEF CallStep
  <1>8. CASE ConfigDelete
    <2>1. conf'.ver = conf.ver + 1
      BY <1>0, <1>8 DEF ConfigDelete, Conf
    <2>2. QED
      BY <1>3, <1>8, <2>1 DEF ConfigDelete
  <1>9. CASE BootRead
    <2>1. \/ boot'.pc = "load" /\ boot'.rows = table
          \/ boot'.pc = "update" /\ boot'.conf = conf
      BY <1>0, <1>9 DEF BootRead, Boot
    <2>2. QED
      BY <1>5, <1>9, <2>1 DEF BootRead, tables
  <1>10. CASE BootUpdate \/ BootLoad \/ BootFails \/ Restart
    BY <1>5, <1>6, <1>10 DEF BootUpdate, BootLoad, BootFails, Restart, tables
  <1>11. CASE Crash
    <2>1. boot'.pc = "down" /\ \A d \in Calls : call'[d].pc = "idle"
      BY <1>6, <1>11 DEF Crash, Down
    <2>2. QED
      BY <1>5, <1>11, <2>1 DEF Crash, tables
  <1>12. CASE (\E s \in Subjects : Request(s) \/ Release(s)) \/ Sweep \/ Tick \/ UNCHANGED vars
    BY <1>1, <1>12 DEF Request, Release, Sweep, Tick, vars, tables
  <1>13. QED
    BY <1>7, <1>8, <1>9, <1>10, <1>11, <1>12 DEF Next

\* What is put over memory: the row stored last, or one that is older, by which
\* the subject becomes apart, or stays so.
LEMMA OlderIsApart ==
  ASSUME NEW s \in Subjects, NEW row, NEW old \in Nat, row.ver \in Nat, table[s].ver \in Nat,
         NotNewer(row, s), row # table[s], s \in apart \/ old = table[s].ver
  PROVE  Overtaken(s, old, row.ver, table[s].ver)
  BY DEF NotNewer, Overtaken

LEMMA RowArrivesStep == ASSUME MemoryInv, [Next]_vars PROVE RowArrives'
  <1>0. /\ call \in [Calls -> Call] /\ table \in [Subjects -> Row] /\ memory \in [Subjects -> Row]
        /\ boot \in Boot
        /\ \A c \in Calls : call[c].s \in Subjects /\ call[c].row.ver \in Nat
        /\ \A s \in Subjects : table[s].ver \in Nat /\ boot.rows[s].ver \in Nat /\ memory[s].ver \in Nat
        /\ Limited \notin Subjects
    BY RateLimitAssumption DEF MemoryInv, TypeOK, Call, Boot, Row
  <1>00. RowsLag /\ RowArrives
    BY DEF MemoryInv
  <1>1. CASE UNCHANGED <<table, memory, call, boot, apart>>
    BY <1>00, <1>1 DEF RowArrives
  \* Nothing of the rows is touched; the defaults may have become apart.
  <1>2. ASSUME UNCHANGED <<table, memory, boot>>, apart \cap Subjects \subseteq apart',
               \A d \in Calls : call[d].pc = "apply" => call'[d] = call[d]
        PROVE  RowArrives'
    BY <1>00, <1>2 DEF RowArrives
  \* An edit of a row.
  <1>3. ASSUME NEW c \in Calls, NEW s \in Subjects, NEW row, table' = [table EXCEPT ![s] = row],
               call[c].pc = "idle",
               call' = [call EXCEPT ![c] = [Idle EXCEPT !.pc = "apply", !.s = s, !.row = row]],
               UNCHANGED <<memory, boot, apart>>
        PROVE  RowArrives'
    <2>1. call'[c].pc = "apply" /\ call'[c].s = s /\ call'[c].row = row /\ table'[s] = row
      BY <1>0, <1>3 DEF Idle
    <2>2. /\ \A d \in Calls \ {c} : call'[d] = call[d]
          /\ \A t \in Subjects \ {s} : table'[t] = table[t]
      BY <1>0, <1>3
    <2>3. QED
      BY <1>00, <1>3, <2>1, <2>2 DEF RowArrives
  <1>4. ASSUME NEW c \in Calls, ApplyOverride(c) PROVE RowArrives'
    <2> DEFINE s == call[c].s
               row == call[c].row
    <2>1. memory' = [memory EXCEPT ![s] = row] /\ table' = table /\ boot' = boot
      BY <1>4 DEF ApplyOverride, tables
    <2>2. \A d \in Calls \ {c} : call'[d] = call[d]
      BY <1>0, <1>4 DEF ApplyOverride, Finish
    <2>3. NotNewer(row, s)
      BY <1>00, <1>4 DEF ApplyOverride, RowsLag
    <2>4. Overtaken(s, memory[s].ver, row.ver, table[s].ver) => s \in apart'
      BY <1>4 DEF ApplyOverride, Settle
    <2>5. \A t \in Subjects \ {s} : memory'[t] = memory[t] /\ (t \in apart => t \in apart')
      BY <1>0, <1>4, <2>1 DEF ApplyOverride, Settle
    <2> SUFFICES ASSUME boot.pc \in {"load", "up"}, NEW t \in Subjects
                 PROVE  \/ t \in apart' \/ memory'[t] = table[t]
                        \/ \E d \in Calls : call'[d].pc = "apply" /\ call'[d].s = t /\ call'[d].row = table[t]
                        \/ boot.pc = "load" /\ boot.rows[t] = table[t]
      BY <2>1 DEF RowArrives
    <2>6. CASE t # s
      <3>1. \/ t \in apart \/ memory[t] = table[t]
            \/ \E d \in Calls \ {c} : call[d].pc = "apply" /\ call[d].s = t /\ call[d].row = table[t]
            \/ boot.pc = "load" /\ boot.rows[t] = table[t]
        BY <1>00, <2>6 DEF RowArrives
      <3>2. QED
        BY <2>2, <2>5, <2>6, <3>1
    <2>7. CASE t = s /\ row = table[s]
      BY <1>0, <2>1, <2>7
    <2>8. CASE t = s /\ row # table[s]
      <3>1. CASE s \in apart \/ memory[s] = table[s]
        BY <1>0, <2>3, <2>4, <2>8, <3>1, OlderIsApart
      <3>2. CASE \E d \in Calls : call[d].pc = "apply" /\ call[d].s = s /\ call[d].row = table[s]
        BY <2>2, <2>8, <3>2
      <3>3. QED
        BY <1>00, <2>8, <3>1, <3>2 DEF RowArrives
    <2>9. QED
      BY <2>6, <2>7, <2>8
  <1>5. ASSUME NEW c \in Calls, Fail(c) PROVE RowArrives'
    <2>1. UNCHANGED <<table, memory, boot>> /\ apart \subseteq apart'
      BY <1>5 DEF Fail, tables, registry
    <2>2. \A d \in Calls \ {c} : call'[d] = call[d]
      BY <1>0, <1>5 DEF Fail, Finish
    <2>3. call[c].pc = "apply" => call[c].s \in apart'
      BY <1>5 DEF Fail
    <2>4. QED
      BY <1>00, <2>1, <2>2, <2>3 DEF RowArrives
  <1>6. ASSUME NEW c \in Calls, CallStep(c) PROVE RowArrives'
    <2>1. CASE \E s \in Subjects, o \in Overrides : UpsertCommit(c, s, o)
      BY <1>3, <2>1 DEF UpsertCommit, Begin, registry
    <2>2. CASE \E s \in Subjects : DeleteCommit(c, s)
      BY <1>3, <2>2 DEF DeleteCommit, Begin, registry
    <2>3. CASE (\E k \in Configs : ConfigCommit(c, k)) \/ ReloadRead(c)
      <3>1. call[c].pc # "apply" /\ \A d \in Calls \ {c} : call'[d] = call[d]
        BY <1>0, <2>3 DEF ConfigCommit, Begin, ReloadRead
      <3>2. QED
        BY <1>2, <2>3, <3>1 DEF ConfigCommit, ReloadRead, tables, registry
    <2>4. CASE ReloadApply(c)
      <3>1. call[c].pc # "apply" /\ \A d \in Calls \ {c} : call'[d] = call[d]
        BY <1>0, <2>4 DEF ReloadApply, Finish
      <3>2. apart \cap Subjects \subseteq apart'
        BY <1>0, <2>4 DEF ReloadApply, Update, Settle
      <3>3. QED
        BY <1>2, <2>4, <3>1, <3>2 DEF ReloadApply, tables
    <2>5. QED
      BY <1>4, <1>5, <1>6, <2>1, <2>2, <2>3, <2>4 DEF CallStep
  <1>7. CASE ConfigDelete
    BY <1>2, <1>7 DEF ConfigDelete, registry
  <1>8. \A p : [Down EXCEPT !.pc = p].pc = p
    BY DEF Down
  <1>9. CASE BootRead
    BY <1>0, <1>9 DEF BootRead, RowArrives, tables, Boot
  <1>10. CASE BootUpdate \/ Crash \/ Restart
    <2>1. boot'.pc \notin {"load", "up"}
      BY <1>8, <1>10 DEF BootUpdate, Crash, Restart, Down
    <2>2. QED
      BY <2>1 DEF RowArrives
  <1>11. CASE BootLoad
    <2>1. /\ memory' = boot.rows /\ UNCHANGED <<table, call>> /\ boot.pc = "load"
          /\ \A s \in Subjects : Overtaken(s, memory[s].ver, boot.rows[s].ver, table[s].ver) => s \in apart'
      BY <1>11 DEF BootLoad, tables, Settle
    <2> SUFFICES ASSUME NEW s \in Subjects
                 PROVE  \/ s \in apart' \/ memory'[s] = table[s]
                        \/ \E d \in Calls : call[d].pc = "apply" /\ call[d].s = s /\ call[d].row = table[s]
      BY <2>1 DEF RowArrives
    <2>2. CASE boot.rows[s] # table[s] /\ (s \in apart \/ memory[s] = table[s])
      <3>1. NotNewer(boot.rows[s], s)
        BY <1>00, <2>1 DEF RowsLag
      <3>2. QED
        BY <1>0, <2>1, <2>2, <3>1, OlderIsApart
    <2>3. QED
      BY <1>00, <2>1, <2>2 DEF RowArrives
  <1>12. CASE BootFails
    <2>1. CASE boot.pc = "defaults"
      <3>1. boot'.pc = "overrides"
        BY <1>8, <1>12, <2>1 DEF BootFails
      <3>2. QED
        BY <3>1 DEF RowArrives
    <2>2. CASE boot.pc # "defaults"
      <3>1. Subjects \subseteq apart'
        BY <1>12, <2>2 DEF BootFails
      <3>2. QED
        BY <3>1 DEF RowArrives
    <2>3. QED
      BY <2>1, <2>2
  <1>13. CASE (\E s \in Subjects : Request(s) \/ Release(s)) \/ Sweep \/ Tick \/ UNCHANGED vars
    BY <1>1, <1>13 DEF Request, Release, Sweep, Tick, vars, tables, registry
  <1>14. QED
    BY <1>6, <1>7, <1>9, <1>10, <1>11, <1>12, <1>13 DEF Next

\* Update puts the configuration k in force, or leaves what is or will be.
LEMMA UpdateArrives ==
  ASSUME MemoryInv, NEW k \in Conf, Outdated(k), Update(k), conf' = conf,
         Limited \in apart \/ conf.max = 0 \/ limiter.ver = conf.ver \/ k = conf
  PROVE  Limited \in apart' \/ conf.max = 0 \/ limiter'.ver = conf.ver
  <1>1. k.ver \in Nat /\ conf.ver \in Nat /\ k.max \in Nat
    BY DEF MemoryInv, TypeOK, Conf
  <1>2. CASE k = conf
    BY <1>1, <1>2 DEF Update
  <1>3. CASE k # conf /\ Limited \in apart
    BY <1>1, <1>3 DEF Update, Settle, Overtaken, Outdated
  <1>4. CASE k # conf /\ limiter.ver = conf.ver
    <2>1. k.ver < conf.ver
      BY <1>1, <1>4 DEF Outdated
    <2>2. CASE k.max > 0
      BY <1>4, <2>1, <2>2 DEF Update, Settle, Overtaken
    <2>3. CASE ~(k.max > 0)
      BY <1>4, <2>3 DEF Update
    <2>4. QED
      BY <2>2, <2>3
  <1>5. QED
    BY <1>2, <1>3, <1>4

LEMMA ConfArrivesStep == ASSUME MemoryInv, [Next]_vars PROVE ConfArrives'
  <1>0. /\ call \in [Calls -> Call] /\ conf \in Conf /\ boot \in Boot /\ limiter \in Limiter
        /\ \A c \in Calls : call[c].conf \in Conf
        /\ boot.conf \in Conf /\ Limited \notin Subjects
    BY RateLimitAssumption DEF MemoryInv, TypeOK, Call, Boot
  <1>00. ConfLags /\ ConfArrives
    BY DEF MemoryInv
  <1>1. ASSUME UNCHANGED <<conf, limiter>>, apart \cap {Limited} \subseteq apart',
               boot' = boot \/ boot'.pc \in {"down", "defaults"}
                 \/ (boot.pc \in {"overrides", "load"} /\ boot'.pc \in {"load", "up"}),
               \A d \in Calls : call[d].pc \in {"reload", "update"} => call'[d] = call[d]
        PROVE  ConfArrives'
    BY <1>00, <1>1 DEF ConfArrives
  <1>2. ASSUME NEW c \in Calls, call'[c].pc = "reload" PROVE ConfArrives'
    BY <1>2 DEF ConfArrives
  <1>3. ASSUME Limited \in apart' PROVE ConfArrives'
    BY <1>3 DEF ConfArrives
  <1>4. ASSUME NEW c \in Calls, CallStep(c) PROVE ConfArrives'
    <2>2. CASE \/ \E s \in Subjects, o \in Overrides : UpsertCommit(c, s, o)
               \/ \E s \in Subjects : DeleteCommit(c, s)
      <3>1. call[c].pc = "idle" /\ \A d \in Calls \ {c} : call'[d] = call[d]
        BY <1>0, <2>2 DEF UpsertCommit, DeleteCommit, Begin
      <3>2. QED
        BY <1>1, <2>2, <3>1 DEF UpsertCommit, DeleteCommit, registry
    <2>3. CASE \E k \in Configs : ConfigCommit(c, k)
      <3>1. call'[c].pc = "reload"
        BY <1>0, <2>3 DEF ConfigCommit, Idle
      <3>2. QED
        BY <1>2, <3>1
    <2>4. CASE ApplyOverride(c)
      <3>1. call[c].pc = "apply" /\ \A d \in Calls \ {c} : call'[d] = call[d]
        BY <1>0, <2>4 DEF ApplyOverride, Finish
      <3>2. apart \cap {Limited} \subseteq apart'
        <4>1. call[c].s \in Subjects
          BY <1>0 DEF Call
        <4>2. QED
          BY <1>0, <2>4, <4>1 DEF ApplyOverride, Settle
      <3>3. QED
        BY <1>1, <2>4, <3>1, <3>2 DEF ApplyOverride, tables
    <2>5. CASE ReloadRead(c)
      <3>1. call'[c].pc = "update" /\ call'[c].conf = conf /\ conf' = conf
        BY <1>0, <2>5 DEF ReloadRead, tables, Call
      <3>2. QED
        BY <3>1 DEF ConfArrives
    <2>6. CASE ReloadApply(c)
      <3>1. /\ Outdated(call[c].conf) /\ Update(call[c].conf)
            /\ conf' = conf /\ boot' = boot /\ call[c].pc = "update"
        BY <1>00, <2>6 DEF ReloadApply, ConfLags, tables
      <3>2. \A d \in Calls \ {c} : call'[d] = call[d]
        BY <1>0, <2>6 DEF ReloadApply, Finish
      <3>3. call[c].conf.ver = conf.ver => call[c].conf = conf
        BY <3>1 DEF Outdated
      <3>4. QED
        BY <1>0, <1>00, <3>1, <3>2, <3>3, UpdateArrives DEF ConfArrives
    <2>7. CASE Fail(c)
      <3>1. \A d \in Calls \ {c} : call'[d] = call[d]
        BY <1>0, <2>7 DEF Fail, Finish
      <3>2. CASE call[c].pc = "apply"
        BY <1>1, <2>7, <3>1, <3>2 DEF Fail, tables, registry
      <3>3. CASE call[c].pc # "apply"
        BY <1>3, <2>7, <3>3 DEF Fail
      <3>4. QED
        BY <3>2, <3>3
    <2>8. QED
      BY <1>4, <2>2, <2>3, <2>4, <2>5, <2>6, <2>7 DEF CallStep
  <1>5. \A p : [Down EXCEPT !.pc = p].pc = p
    BY DEF Down
  <1>6. CASE ConfigDelete
    BY <1>3, <1>6 DEF ConfigDelete
  <1>7. CASE BootRead
    <2>1. CASE boot.pc = "defaults"
      BY <1>0, <1>7, <2>1 DEF BootRead, ConfArrives, Boot, tables
    <2>2. CASE boot.pc = "overrides"
      <3>1. boot'.pc = "load"
        BY <1>0, <1>7, <2>2 DEF BootRead, Boot
      <3>2. QED
        BY <1>1, <1>7, <2>2, <3>1 DEF BootRead, tables, registry
    <2>3. QED
      BY <1>7, <2>1, <2>2 DEF BootRead
  <1>8. CASE BootUpdate
    <2>1. /\ Outdated(boot.conf) /\ Update(boot.conf)
          /\ conf' = conf /\ call' = call /\ boot.pc = "update"
      BY <1>00, <1>8 DEF BootUpdate, ConfLags, tables
    <2>2. boot.conf.ver = conf.ver => boot.conf = conf
      BY <2>1 DEF Outdated
    <2>3. QED
      BY <1>0, <1>00, <2>1, <2>2, UpdateArrives DEF ConfArrives
  <1>9. CASE BootLoad
    <2>1. apart \cap {Limited} \subseteq apart'
      BY <1>0, <1>9 DEF BootLoad, Settle
    <2>2. QED
      BY <1>1, <1>5, <1>9, <2>1 DEF BootLoad, tables
  <1>10. CASE BootFails
    <2>1. CASE boot.pc = "defaults"
      BY <1>3, <1>10, <2>1 DEF BootFails
    <2>2. CASE boot.pc = "overrides"
      BY <1>1, <1>5, <1>10, <2>2 DEF BootFails, tables, registry
    <2>3. QED
      BY <1>10, <2>1, <2>2 DEF BootFails
  <1>11. CASE Crash \/ Restart
    <2>1. boot'.pc \in {"down", "defaults"}
      BY <1>5, <1>11 DEF Crash, Restart, Down
    <2>2. QED
      BY <2>1 DEF ConfArrives
  <1>12. CASE (\E s \in Subjects : Request(s) \/ Release(s)) \/ Sweep \/ Tick \/ UNCHANGED vars
    BY <1>1, <1>12 DEF Request, Release, Sweep, Tick, vars, tables, registry
  <1>13. QED
    BY <1>4, <1>6, <1>7, <1>8, <1>9, <1>10, <1>11, <1>12 DEF Next

\* Memory agrees with the tables when nothing is under way, unless a query
\* failed, an older version came after a newer one, or a default was deleted.
THEOREM MemoryKept == Spec => []MemoryAgrees
  <1>1. Init => MemoryInv
    <2> SUFFICES ASSUME Init PROVE MemoryInv
      OBVIOUS
    <2>1. boot.pc = "defaults" /\ \A c \in Calls : call[c].pc = "idle"
      BY DEF Init, Down, Idle
    <2>2. QED
      BY <2>1, InitTyped DEF MemoryInv, RowsLag, ConfLags, RowArrives, ConfArrives
  <1>2. MemoryInv /\ [Next]_vars => MemoryInv'
    <2>1. MemoryInv => TypeOK
      BY DEF MemoryInv
    <2>2. QED
      BY <2>1, StepTyped, LagStep, RowArrivesStep, ConfArrivesStep DEF MemoryInv
  <1>3. MemoryInv => MemoryAgrees
    <2> SUFFICES ASSUME MemoryInv, Quiet PROVE MemoryAgrees
      BY DEF MemoryAgrees
    <2>1. RowArrives /\ ConfArrives /\ conf.max \in Nat
      BY DEF MemoryInv, TypeOK, Conf
    <2>2. QED
      BY <2>1 DEF MemoryAgrees, Quiet, RowArrives, ConfArrives
  <1>4. QED
    BY <1>1, <1>2, <1>3, PTL DEF Spec
=============================================================================
