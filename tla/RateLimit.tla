------------------------------- MODULE RateLimit -------------------------------
(***************************************************************************)
(* One limiter: its counters, its defaults and the overrides of its        *)
(* subjects in memory, and the tables that both are loaded from and edited *)
(* in.  An edit commits its row, awaits that, and then changes memory; a   *)
(* load reads rows, awaits them, and then replaces memory.                 *)
(***************************************************************************)
EXTENDS Integers

CONSTANTS
  Calls,      \* bound: edits under way
  Subjects,   \* users and addresses
  Overrides,  \* what an override may say (see Override)
  Configs,    \* what the group rate-limit of the configuration may say (see Config)
  EnvMax,     \* the limit the limiter is created with
  EnvWindow,  \* windowMs the limiter is created with, in ticks
  MaxEdits,   \* bound: edits
  MaxTime,    \* bound: ticks
  MaxCount,   \* bound: requests counted in one window
  MaxFaults   \* bound: queries that fail, crashes

\* max 0: null, the limiter's; start, life: when it begins and when it is over,
\* counted from now; start 0: it has begun, Always: without end.
Always == -1
Limited == "limiter"   \* in apart: the defaults
Override == [bypass: BOOLEAN, max: Nat, window: Nat,
             start: Nat, life: Nat \cup {Always}]
\* max 0: the limit or the window is missing or invalid.
Config == [max: Nat, window: Nat \ {0}, enabled: BOOLEAN]

ASSUME RateLimitAssumption ==
  /\ Subjects # {} /\ Limited \notin Subjects
  /\ Overrides \subseteq Override /\ Configs \subseteq Config
  /\ EnvMax \in Nat \ {0} /\ EnvWindow \in Nat \ {0}
  /\ MaxEdits \in Nat /\ MaxTime \in Nat /\ MaxCount \in Nat /\ MaxFaults \in Nat

VARIABLES
  now,      \* the clock
  table,    \* table RateLimitOverride, per subject
  conf,     \* table SystemConfig, the group rate-limit
  memory,   \* the overrides of rateLimitRegistry
  limiter,  \* the limiter's entry in rateLimitRegistry
  bucket,   \* RateLimitStore.buckets
  call,     \* per call, what it has committed or read
  boot,     \* where app.ts stands
  edits,    \* how many edits there were
  faults,   \* how many queries failed and processes crashed
  apart,    \* history: what memory need not agree with any more
  seen      \* history: what the last event let the administrator see of a subject

vars == <<now, table, conf, memory, limiter, bucket, call, boot, edits, faults, apart, seen>>
tables == <<table, conf>>
registry == <<memory, limiter>>

NoRow == [ver |-> 0, set |-> FALSE, bypass |-> FALSE, max |-> 0, window |-> 0,
          from |-> 0, until |-> 0]
Row == [ver: Nat, set: BOOLEAN, bypass: BOOLEAN, max: Nat, window: Nat,
        from: Nat, until: Nat \cup {Always}]
Conf == [ver: Nat, max: Nat, window: Nat \ {0}, enabled: BOOLEAN]
NewLimiter == [ver |-> -1, max |-> EnvMax, window |-> EnvWindow, enabled |-> TRUE]
Limiter == [ver: Nat \cup {-1}, max: Nat \ {0}, window: Nat \ {0}, enabled: BOOLEAN]
NoBucket == [count |-> 0, until |-> 0]
Bucket == [count: 0..MaxCount, until: Nat]
SomeSubject == CHOOSE s \in Subjects : TRUE
NoConf == [ver |-> 0, max |-> 0, window |-> EnvWindow, enabled |-> TRUE]
Idle == [pc |-> "idle", s |-> SomeSubject, row |-> NoRow, conf |-> NoConf]
Call == [pc: {"idle", "apply", "reload", "update"}, s: Subjects, row: Row, conf: Conf]
Down == [pc |-> "down", conf |-> NoConf, rows |-> [s \in Subjects |-> NoRow]]
Boot == [pc: {"down", "defaults", "update", "overrides", "load", "up"},
         conf: Conf, rows: [Subjects -> Row]]

-----------------------------------------------------------------------------
\* isOverrideActive
Active(row) == row.set /\ row.from <= now /\ (row.until = Always \/ now < row.until)

\* resolvePolicy
Policy(s) ==
  LET ov == memory[s] IN
  [bypass |-> Active(ov) /\ ov.bypass,
   max |-> IF Active(ov) /\ ov.max > 0 THEN ov.max ELSE limiter.max,
   window |-> IF Active(ov) /\ ov.window > 0 THEN ov.window ELSE limiter.window]

\* A bucket that has not expired.
Mut_Open(s) == bucket[s].count > 0 /\ now <= bucket[s].until
Open(s) == bucket[s].count > 0 /\ now < bucket[s].until
\* The status the administrator asks for after an event.
Blocked(s) == Open(s) /\ ~Policy(s).bypass /\ bucket[s].count > Policy(s).max
Publish == seen' = [s \in Subjects |-> Blocked(s)']

RowOf(v, o) == [ver |-> v, set |-> TRUE, bypass |-> o.bypass, max |-> o.max, window |-> o.window,
                from |-> now + o.start,
                until |-> IF o.life = Always THEN Always ELSE now + o.life]
ConfOf(v, k) == [ver |-> v, max |-> k.max, window |-> k.window, enabled |-> k.enabled]
Finish(c) == call' = [call EXCEPT ![c] = Idle]

Init ==
  /\ now = 0 /\ edits = 0 /\ faults = 0 /\ apart = {}
  /\ table \in [Subjects -> {NoRow} \cup {RowOf(0, o) : o \in Overrides}]
  /\ \E k \in Configs : conf = ConfOf(0, k)
  /\ memory = [s \in Subjects |-> NoRow]
  /\ limiter = NewLimiter
  /\ bucket = [s \in Subjects |-> NoBucket]
  /\ call = [c \in Calls |-> Idle]
  /\ boot = [Down EXCEPT !.pc = "defaults"]
  /\ seen = [s \in Subjects |-> FALSE]

-----------------------------------------------------------------------------
(* Requests: the middleware, after it has looked up the session.           *)

\* RateLimitStore.hit
Hit(s) ==
  bucket' = [bucket EXCEPT ![s] =
    IF Open(s) THEN [bucket[s] EXCEPT !.count = bucket[s].count + 1]
    ELSE [count |-> 1, until |-> now + Policy(s).window]]

\* The first request refused is announced.
Mut_Announced(count, max) == count > max /\ count - 1 < max
Announced(count, max) == count > max /\ count - 1 <= max

Request(s) ==
  LET max == Policy(s).max
      count == IF Open(s) THEN bucket[s].count + 1 ELSE 1
  IN
  /\ boot.pc # "down" /\ count <= MaxCount
  /\ limiter.enabled /\ ~Policy(s).bypass
  /\ Hit(s)
  /\ UNCHANGED <<now, tables, registry, call, boot, edits, faults, apart>>
  /\ IF Announced(count, max) THEN Publish ELSE UNCHANGED seen

\* The sweeper drops what has expired.
Sweep ==
  /\ \E s \in Subjects : bucket[s].count > 0 /\ ~Open(s)
  /\ bucket' = [s \in Subjects |-> IF Open(s) THEN bucket[s] ELSE NoBucket]
  /\ UNCHANGED <<now, tables, registry, call, boot, edits, faults, apart, seen>>

\* releaseRateLimit
Release(s) ==
  /\ boot.pc # "down" /\ bucket[s].count > 0
  /\ bucket' = [bucket EXCEPT ![s] = NoBucket]
  /\ UNCHANGED <<now, tables, registry, call, boot, edits, faults, apart>>
  /\ Publish

-----------------------------------------------------------------------------
(* Edits of an override.                                                   *)

Edit == boot.pc # "down" /\ edits < MaxEdits /\ edits' = edits + 1
Begin(c) == call[c].pc = "idle" /\ Edit

\* upsertOverride: the row is stored.
UpsertCommit(c, s, o) ==
  LET row == RowOf(table[s].ver + 1, o) IN
  /\ Begin(c)
  /\ table' = [table EXCEPT ![s] = row]
  /\ call' = [call EXCEPT ![c] = [Idle EXCEPT !.pc = "apply", !.s = s, !.row = row]]
  /\ UNCHANGED <<now, conf, registry, bucket, boot, faults, apart, seen>>

\* deleteOverride: the row is deleted; if there is none, nothing happens.
Mut_DeleteCommit(c, s) ==
  /\ Begin(c) /\ table[s].set
  /\ table' = [table EXCEPT ![s] = [NoRow EXCEPT !.ver = table[s].ver + 1]]
  /\ UNCHANGED <<now, conf, registry, bucket, call, boot, faults, apart, seen>>
DeleteCommit(c, s) ==
  LET row == [NoRow EXCEPT !.ver = table[s].ver + 1] IN
  /\ Begin(c) /\ table[s].set
  /\ table' = [table EXCEPT ![s] = row]
  /\ call' = [call EXCEPT ![c] = [Idle EXCEPT !.pc = "apply", !.s = s, !.row = row]]
  /\ UNCHANGED <<now, conf, registry, bucket, boot, faults, apart, seen>>

\* What differs from the tables once memory goes from version old to new, stored now.
Overtaken(k, old, new, stored) == new < old \/ (k \in apart /\ new # stored)
Settle(K, off) == apart' = (apart \ K) \cup off

\* setOverride, removeOverride
ApplyOverride(c) ==
  LET s == call[c].s
      row == call[c].row
  IN
  /\ call[c].pc = "apply"
  /\ memory' = [memory EXCEPT ![s] = row]
  /\ Settle({s}, {k \in {s} : Overtaken(k, memory[k].ver, row.ver, table[k].ver)})
  /\ Finish(c)
  /\ UNCHANGED <<now, tables, limiter, bucket, boot, edits, faults>>
  /\ Publish

-----------------------------------------------------------------------------
(* Edits of the defaults.                                                  *)

ConfigCommit(c, k) ==
  /\ Begin(c)
  /\ conf' = ConfOf(conf.ver + 1, k)
  /\ call' = [call EXCEPT ![c] = [Idle EXCEPT !.pc = "reload"]]
  /\ UNCHANGED <<now, table, registry, bucket, boot, faults, apart, seen>>

\* deleteConfig does not reload.
ConfigDelete ==
  /\ Edit
  /\ \/ conf' = [conf EXCEPT !.ver = @ + 1, !.max = 0]
     \/ conf' = [conf EXCEPT !.ver = @ + 1, !.enabled = TRUE]
  /\ apart' = apart \cup {Limited}
  /\ UNCHANGED <<now, table, registry, bucket, call, boot, faults, seen>>

\* loadRateLimitDefaults
ReloadRead(c) ==
  /\ call[c].pc = "reload"
  /\ call' = [call EXCEPT ![c].pc = "update", ![c].conf = conf]
  /\ UNCHANGED <<now, tables, registry, bucket, boot, edits, faults, apart, seen>>

\* applyRateLimitDefaults: without a limit, the limiter keeps also what it knows of enabled.
Mut_Update(k) ==
  /\ limiter' = k
  /\ Settle({Limited}, {l \in {Limited} : Overtaken(l, limiter.ver, k.ver, conf.ver)})
Update(k) ==
  /\ limiter' = IF k.max > 0 THEN k ELSE limiter
  /\ Settle({Limited}, {l \in {Limited} : Overtaken(l, IF k.max > 0 THEN limiter.ver ELSE k.ver, k.ver, conf.ver)})

ReloadApply(c) ==
  /\ call[c].pc = "update"
  /\ Update(call[c].conf)
  /\ Finish(c)
  /\ UNCHANGED <<now, tables, memory, bucket, boot, edits, faults>>
  /\ Publish

\* A query is rejected, or its answer does not arrive.
Fail(c) ==
  /\ call[c].pc # "idle" /\ faults < MaxFaults
  /\ faults' = faults + 1
  /\ apart' = apart \cup {IF call[c].pc = "apply" THEN call[c].s ELSE Limited}
  /\ Finish(c)
  /\ UNCHANGED <<now, tables, registry, bucket, boot, seen, edits>>

-----------------------------------------------------------------------------
(* The start of the service; requests and edits do not wait for it.        *)

BootRead ==
  /\ boot.pc \in {"defaults", "overrides"}
  /\ boot' = IF boot.pc = "defaults" THEN [boot EXCEPT !.pc = "update", !.conf = conf]
             ELSE [boot EXCEPT !.pc = "load", !.rows = table]
  /\ UNCHANGED <<now, tables, registry, bucket, call, edits, faults, apart, seen>>

\* initRateLimitDefaults
BootUpdate ==
  /\ boot.pc = "update"
  /\ Update(boot.conf)
  /\ boot' = [Down EXCEPT !.pc = "overrides"]
  /\ seen' = [s \in Subjects |-> TRUE]
  /\ UNCHANGED <<now, tables, memory, bucket, call, edits, faults>>

\* initRateLimitOverrides, loadOverrides
BootLoad ==
  /\ boot.pc = "load"
  /\ memory' = boot.rows
  /\ Settle(Subjects, {s \in Subjects : Overtaken(s, memory[s].ver, boot.rows[s].ver, table[s].ver)})
  /\ boot' = [Down EXCEPT !.pc = "up"]
  /\ seen' = [s \in Subjects |-> TRUE]
  /\ UNCHANGED <<now, tables, limiter, bucket, call, edits, faults>>

\* Either query is rejected: this is logged.
BootFails ==
  /\ boot.pc \in {"defaults", "overrides"} /\ faults < MaxFaults
  /\ faults' = faults + 1
  /\ apart' = apart \cup (IF boot.pc = "defaults" THEN {Limited} ELSE Subjects)
  /\ boot' = [Down EXCEPT !.pc = IF boot.pc = "defaults" THEN "overrides" ELSE "up"]
  /\ UNCHANGED <<now, tables, registry, bucket, call, seen, edits>>

Crash ==
  /\ boot.pc # "down" /\ faults < MaxFaults
  /\ faults' = faults + 1
  /\ memory' = [s \in Subjects |-> NoRow] /\ limiter' = NewLimiter
  /\ bucket' = [s \in Subjects |-> NoBucket]
  /\ call' = [c \in Calls |-> Idle]
  /\ boot' = Down
  /\ apart' = {}
  /\ UNCHANGED <<now, tables, seen, edits>>

Restart ==
  /\ boot.pc = "down"
  /\ boot' = [Down EXCEPT !.pc = "defaults"]
  /\ UNCHANGED <<now, tables, registry, bucket, call, edits, faults, apart, seen>>

\* Time passes: windows end, overrides begin and end.
Tick ==
  /\ now < MaxTime
  /\ now' = now + 1
  /\ seen' = [s \in Subjects |-> (seen[s] /\ bucket[s].until > now + 1)
                                \/ (memory[s].set /\ now + 1 \in {memory[s].from, memory[s].until})]
  /\ UNCHANGED <<tables, registry, bucket, call, boot, edits, faults, apart>>

-----------------------------------------------------------------------------
CallStep(c) ==
  \/ \E s \in Subjects, o \in Overrides : UpsertCommit(c, s, o)
  \/ \E s \in Subjects : DeleteCommit(c, s)
  \/ \E k \in Configs : ConfigCommit(c, k)
  \/ ApplyOverride(c) \/ ReloadRead(c) \/ ReloadApply(c) \/ Fail(c)

Next ==
  \/ \E s \in Subjects : Request(s) \/ Release(s)
  \/ \E c \in Calls : CallStep(c)
  \/ ConfigDelete \/ BootRead \/ BootUpdate \/ BootLoad \/ BootFails
  \/ Sweep \/ Crash \/ Restart \/ Tick

Spec == Init /\ [][Next]_vars

-----------------------------------------------------------------------------
\* The counters, the overrides and the defaults have the shape the code gives
\* them; the limiter never has the limit 0.
TypeOK ==
  /\ now \in 0..MaxTime /\ edits \in 0..MaxEdits /\ faults \in 0..MaxFaults
  /\ table \in [Subjects -> Row] /\ memory \in [Subjects -> Row]
  /\ conf \in Conf /\ limiter \in Limiter
  /\ bucket \in [Subjects -> Bucket]
  /\ call \in [Calls -> Call] /\ boot \in Boot
  /\ apart \subseteq Subjects \cup {Limited} /\ seen \in [Subjects -> BOOLEAN]

Quiet == boot.pc = "up" /\ \A c \in Calls : call[c].pc = "idle"

\* Once the start is over and no edit is under way, memory says of a subject
\* what its row says, and the limiter has the defaults stored last if they have
\* a limit (without one a stored 'enabled' never reaches memory), unless one of
\* these happened since: a query failed, an older version was put over a newer
\* one, or deleteConfig, which does not reload, removed a default.
MemoryAgrees ==
  Quiet => /\ \A s \in Subjects \ apart : memory[s] = table[s]
           /\ Limited \in apart \/ (conf.max > 0 => limiter.ver = conf.ver)

\* The administrator is told of every subject that becomes blocked, by whatever
\* it does: by a request over the limit, or by an edit that lowers the limit or
\* ends a bypass.  Two things are not announced: a load at the start, and the
\* clock, when an override begins or is over.
BlockedIsSeen == \A s \in Subjects : Blocked(s) => seen[s]

\* How long a window may be.
Lengths == ({EnvWindow} \cup {k.window : k \in Configs} \cup {o.window : o \in Overrides}) \ {0}

\* The counters keep the promise of RateWindow.
Windows == INSTANCE RateWindow WITH
  used <- [s \in Subjects |-> IF Open(s) THEN bucket[s].count ELSE 0],
  left <- [s \in Subjects |-> IF Open(s) THEN bucket[s].until - now ELSE 0]

\* What each step does to the windows: a request that is not let through unseen
\* is counted in its own, or opens one of the length its policy says; a release
\* ends one, the clock runs in all, a crash forgets all; nothing else does
\* anything to them.
Windowed ==
  /\ \A s \in Subjects : /\ Request(s) => Windows!Request(s, Policy(s).window)
                         /\ Release(s) => Windows!Release(s)
  /\ Tick => Windows!Tick
  /\ Crash => Windows!Forget
  /\ UNCHANGED Windows!vars \/ (\E s \in Subjects : Request(s) \/ Release(s)) \/ Tick \/ Crash

\* Every request of a subject that is not let through unseen is counted once, in
\* a window that opens with the first one and lasts exactly as long as the
\* policy said then; no edit, sweep, load or end of an override changes a window
\* that is open, and only a release or a crash ends it early.
CountsWindows == Windows!Init /\ [][Windowed]_vars
=============================================================================
