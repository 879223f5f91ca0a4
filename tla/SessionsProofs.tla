---------------------------- MODULE SessionsProofs ----------------------------
(***************************************************************************)
(* Safety of accounts, sessions and event streams, for any calls, sessions *)
(* and applications, and any length of a session's life.                   *)
(***************************************************************************)
EXTENDS Sessions, TLAPS

-----------------------------------------------------------------------------
(* The invariant, in parts.                                                *)

\* A call under a session knows which, and one that is to open a stream knows
\* of which application.
Bound == {"expire", "refresh", "open", "activate", "change", "close"}
Fits(v) ==
  /\ v.pc \in Bound => v.sid \in SessionIds
  /\ v.pc = "open" => v.then = "open"
  /\ v.then = "open" => v.app \in Apps
CallsTyped == call \in [Calls -> Call] /\ \A c \in Calls : Fits(call[c])

\* A row and what LastsFromUpdate says of it.
Good(row) ==
  /\ row \in Row
  /\ row.state = "live" /\ row.since < RefreshAfter /\ ~row.switched
       => row.left + row.since = Life
RowsTyped == sess \in [SessionIds -> Row] /\ \A s \in SessionIds : Good(sess[s])

UserTyped ==
  /\ user \in {"none", "live", "deleted"} /\ origin \in {"email", "wechat"}
  /\ pw \in 0..MaxReplaced + 1 /\ roles \in {"missing", "granted", "cut off", "left"}
  /\ streams \subseteq Streams

Typed == CallsTyped /\ RowsTyped /\ UserTyped

-----------------------------------------------------------------------------
(* Calls.                                                                  *)

\* A call that is done, at its next point, or begun is a call.
LEMMA IdleFits ==
  /\ Idle \in Call /\ Fits(Idle)
  /\ \A p \in Pcs \ Bound : [Idle EXCEPT !.pc = p] \in Call /\ Fits([Idle EXCEPT !.pc = p])
  <1>1. Idle \in Call /\ Fits(Idle) /\ Idle.then = "idle"
    BY SessionsAssumption DEF Idle, Call, Fits, Bound, Pcs, Wants
  <1>2. ASSUME NEW p \in Pcs \ Bound
        PROVE  [Idle EXCEPT !.pc = p] \in Call /\ Fits([Idle EXCEPT !.pc = p])
    BY <1>1, <1>2 DEF Call, Fits, Bound
  <1> QED
    BY <1>1, <1>2

LEMMA SetCall ==
  ASSUME CallsTyped, NEW c \in Calls, NEW v \in Call, Fits(v), call' = [call EXCEPT ![c] = v]
  PROVE  CallsTyped'
  BY DEF CallsTyped, Fits

LEMMA FinishTyped ==
  ASSUME CallsTyped, NEW c \in Calls, Finish(c)
  PROVE  CallsTyped'
  BY IdleFits, SetCall DEF Finish

LEMMA GotoTyped ==
  ASSUME CallsTyped, NEW c \in Calls, NEW p \in Pcs, Goto(c, p),
         p \in Bound => call[c].sid \in SessionIds,
         p = "open" => call[c].then = "open"
  PROVE  CallsTyped'
  <1> DEFINE v == [call[c] EXCEPT !.pc = p]
  <1>1. v \in Call /\ Fits(v)
    BY DEF CallsTyped, Call, Fits, Bound
  <1>2. call' = [call EXCEPT ![c] = v]
    BY DEF Goto, CallsTyped
  <1> QED
    BY <1>1, <1>2, SetCall

LEMMA BeginTyped ==
  ASSUME CallsTyped, NEW c \in Calls, NEW p \in Pcs \ Bound, Begin(c, p)
  PROVE  CallsTyped'
  BY IdleFits, SetCall DEF Begin

LEMMA ToSessionTyped ==
  ASSUME CallsTyped, NEW c \in Calls, NEW p \in 0..MaxReplaced + 1, ToSession(c, p)
  PROVE  CallsTyped'
  <1> DEFINE w == [Idle EXCEPT !.pc = "list"]
             v == [w EXCEPT !.proof = p]
  <1>1. w \in Call /\ Fits(w)
    BY IdleFits DEF Pcs, Bound
  <1>2. v \in Call /\ Fits(v) /\ v = [Idle EXCEPT !.pc = "list", !.proof = p]
    BY <1>1 DEF Call, Fits
  <1> QED
    BY <1>2, SetCall DEF ToSession

LEMMA UsersCalls ==
  ASSUME Typed, NEW c \in Calls, Users(c)
  PROVE  CallsTyped'
  <1> USE DEF Pcs, Bound
  <1>a. CallsTyped /\ pw \in 0..MaxReplaced + 1
    BY DEF Typed, UserTyped
  <1>b. Wechat \in 0..MaxReplaced + 1 /\ 1 \in 0..MaxReplaced + 1
    BY SessionsAssumption DEF Wechat
  <1>0. CallsTyped /\ pw \in 0..MaxReplaced + 1
        /\ Wechat \in 0..MaxReplaced + 1 /\ 1 \in 0..MaxReplaced + 1
    BY <1>a, <1>b
  <1>1. CASE FindNone(c)
    BY <1>0, <1>1, BeginTyped DEF FindNone
  <1>2. CASE SignUp(c)
    BY <1>0, <1>2, ToSessionTyped, FinishTyped DEF SignUp
  <1>3. CASE AdminCreate(c)
    BY <1>0, <1>3, GotoTyped, FinishTyped DEF AdminCreate
  <1>4. CASE AssignRoles(c) \/ Undo(c) \/ UndoFails(c) \/ WechatCreatesAnother(c)
    BY <1>0, <1>4, FinishTyped DEF AssignRoles, Undo, UndoFails, WechatCreatesAnother
  <1>5. CASE AssignFails(c)
    BY <1>0, <1>5, GotoTyped DEF AssignFails
  <1>6. CASE DeleteUser(c)
    BY <1>0, <1>6 DEF DeleteUser, CallsTyped, Fits
  <1>7. CASE SignIn(c)
    BY <1>0, <1>7, ToSessionTyped DEF SignIn
  <1>8. CASE WechatLookup(c)
    BY <1>0, <1>8, BeginTyped DEF WechatLookup
  <1>9. CASE WechatLogin(c)
    BY <1>0, <1>9, ToSessionTyped, FinishTyped DEF WechatLogin
  <1>10. CASE WechatCreate(c)
    BY <1>0, <1>10, ToSessionTyped, GotoTyped DEF WechatCreate
  <1>11. CASE WechatAgain(c)
    BY <1>0, <1>11, GotoTyped, FinishTyped DEF WechatAgain
  <1> QED
    BY <1>1, <1>2, <1>3, <1>4, <1>5, <1>6, <1>7, <1>8, <1>9, <1>10, <1>11 DEF Users

LEMMA CreateSessionCalls ==
  ASSUME Typed, NEW c \in Calls, CreateSession(c)
  PROVE  CallsTyped'
  <1> USE DEF Pcs, Bound
  <1>0. CallsTyped /\ call[c] \in Call /\ Fits(call[c])
    BY DEF Typed, CallsTyped
  <1>1. ASSUME NEW p \in {"purge", "create"}, NEW D \in SUBSET SessionIds,
               call' = [call EXCEPT ![c].dead = D, ![c].pc = p]
        PROVE  CallsTyped'
    <2> DEFINE v == [call[c] EXCEPT !.dead = D, !.pc = p]
    <2>1. v \in Call /\ Fits(v)
      BY <1>0, <1>1 DEF Call, Fits
    <2>2. call' = [call EXCEPT ![c] = v]
      BY <1>0, <1>1 DEF CallsTyped
    <2> QED
      BY <1>0, <2>1, <2>2, SetCall
  <1>2. CASE ListDead(c)
    <2> DEFINE dead == {s \in SessionIds : Dead(s)}
    <2>1. CASE dead = {}
      BY <1>1, <1>2, <2>1 DEF ListDead
    <2>2. CASE dead # {}
      BY <1>1, <1>2, <2>2 DEF ListDead
    <2> QED
      BY <2>1, <2>2
  <1>3. CASE Purge(c)
    <2>1. PICK D \in SUBSET SessionIds : call' = [call EXCEPT ![c].dead = D, ![c].pc = "create"]
      BY <1>3 DEF Purge
    <2> QED
      BY <1>1, <2>1
  <1>4. CASE CreateFails(c) \/ \E s \in SessionIds : Create(c, s)
    BY <1>0, <1>4, FinishTyped DEF CreateFails, Create
  <1> QED
    BY <1>2, <1>3, <1>4 DEF CreateSession

\* Where Authenticate leads.
LEMMA AtFits ==
  ASSUME NEW s \in SessionIds, NEW w \in Wants, NEW a \in Apps \cup {"*"},
         w = "open" => a \in Apps,
         NEW p \in {"expire", "refresh", w}
  PROVE  At(p, s, w, a) \in Call /\ Fits(At(p, s, w, a))
  <1> DEFINE v == [Idle EXCEPT !.pc = p, !.sid = s]
  <1>1. Idle \in Call /\ Idle.then = "idle" /\ p \in Pcs
    BY IdleFits DEF Idle, Pcs, Wants
  <1>2. v \in Call /\ v.then = "idle" /\ v.sid = s /\ v.pc = p
    BY <1>1 DEF Call
  <1>3. [v EXCEPT !.app = a, !.then = w] \in Call /\ Fits([v EXCEPT !.app = a, !.then = w])
    BY <1>2 DEF Call, Fits
  <1>4. [Idle EXCEPT !.pc = p, !.sid = s, !.app = a, !.then = w] = [v EXCEPT !.app = a, !.then = w]
    BY <1>1 DEF Call
  <1>5. p = "expire" => Fits(v)
    BY <1>2 DEF Fits
  <1> QED
    BY <1>2, <1>3, <1>4, <1>5, IdleFits DEF At

LEMMA OvertakeTyped ==
  ASSUME CallsTyped
  PROVE  /\ DOMAIN Overtake = Calls
         /\ \A d \in Calls : Overtake[d] \in Call /\ Fits(Overtake[d])
  <1> SUFFICES ASSUME NEW d \in Calls PROVE Overtake[d] \in Call /\ Fits(Overtake[d])
    BY DEF Overtake
  <1>1. call[d] \in Call /\ Fits(call[d])
    BY DEF CallsTyped
  <1>2. [call[d] EXCEPT !.late = TRUE] \in Call /\ Fits([call[d] EXCEPT !.late = TRUE])
    BY <1>1 DEF Call, Fits
  <1> QED
    BY <1>1, <1>2 DEF Overtake

LEMMA RequestsCalls ==
  ASSUME Typed, NEW c \in Calls, Requests(c)
  PROVE  CallsTyped'
  <1>0. CallsTyped /\ call[c] \in Call /\ Fits(call[c]) /\ pw \in 0..MaxReplaced + 1
    BY DEF Typed, UserTyped, CallsTyped
  <1>1. ASSUME NEW s \in SessionIds, NEW w \in Wants, NEW a \in Apps \cup {"*"},
               w = "open" => a \in Apps, Authenticate(c, s, w, a)
        PROVE  CallsTyped'
    <2>1. NextStep(s, w) \in {"expire", "refresh", w}
      BY DEF NextStep
    <2>2. At(NextStep(s, w), s, w, a) \in Call /\ Fits(At(NextStep(s, w), s, w, a))
      BY <1>1, <2>1, AtFits
    <2> QED
      BY <1>0, <1>1, <2>2, SetCall DEF Authenticate
  <1>2. CASE Expire(c) \/ OpenStream(c) \/ Activate(c) \/ CallerGone(c) \/ ChangeFails(c)
             \/ SignOutClose(c)
    BY <1>0, <1>2, FinishTyped
       DEF Expire, OpenStream, Activate, CallerGone, ChangeFails, SignOutClose
  <1>3. CASE Refresh(c)
    <2>1. call[c].then \in Pcs /\ call[c].sid \in SessionIds
      BY <1>0, <1>3 DEF Refresh, Fits, Bound, Call, Pcs, Wants
    <2> QED
      BY <1>0, <1>3, <2>1, FinishTyped, GotoTyped DEF Refresh
  <1>4. CASE ChangeCommit(c)
    <2> DEFINE w == [Idle EXCEPT !.pc = "list"]
               v == [w EXCEPT !.proof = pw + 1]
    <2>1. pw + 1 \in 0..MaxReplaced + 1
      BY <1>0, <1>4, SessionsAssumption DEF ChangeCommit, Replaceable
    <2>2. w \in Call /\ Fits(w)
      BY IdleFits DEF Pcs, Bound
    <2>3. v \in Call /\ Fits(v) /\ v = [Idle EXCEPT !.pc = "list", !.proof = pw + 1]
      BY <2>1, <2>2 DEF Call, Fits
    <2>4. call' = [Overtake EXCEPT ![c] = v]
      BY <1>4, <2>3 DEF ChangeCommit
    <2> QED
      BY <1>0, <2>3, <2>4, OvertakeTyped DEF CallsTyped, Overtake
  <1>5. CASE Reset(c)
    BY <1>0, <1>5, OvertakeTyped DEF Reset, CallsTyped, Overtake
  <1>6. ASSUME NEW s \in SessionIds, NEW a \in Apps, SignOutRevoke(c, s, a)
        PROVE  CallsTyped'
    <2> DEFINE w == [Idle EXCEPT !.pc = "close", !.sid = s, !.app = a]
    <2>1. w \in Call /\ Fits(w)
      BY IdleFits DEF Idle, Call, Fits, Pcs, Bound
    <2> QED
      BY <1>0, <1>6, <2>1, SetCall DEF SignOutRevoke
  <1> QED
    BY <1>1, <1>2, <1>3, <1>4, <1>5, <1>6 DEF Requests, Wants

LEMMA StepCalls == Typed /\ [Next]_vars => CallsTyped'
  <1> SUFFICES ASSUME Typed, [Next]_vars PROVE CallsTyped'
    OBVIOUS
  <1>0. CallsTyped
    BY DEF Typed
  <1>1. CASE \E c \in Calls : Users(c) \/ CreateSession(c) \/ Requests(c)
    BY <1>1, UsersCalls, CreateSessionCalls, RequestsCalls
  <1>2. CASE (\E x \in Streams : Disconnect(x)) \/ Sweep \/ Tick \/ UNCHANGED vars
    BY <1>0, <1>2 DEF Disconnect, Sweep, Tick, vars, CallsTyped, Fits
  <1>3. CASE Crash \/ Restart
    <2>1. Down \in Call /\ Fits(Down)
      BY IdleFits DEF Down, Pcs, Bound
    <2> QED
      BY <1>3, <2>1, IdleFits DEF Crash, Restart, CallsTyped
  <1> QED
    BY <1>1, <1>2, <1>3 DEF Next

-----------------------------------------------------------------------------
(* Rows.                                                                   *)

LEMMA Bounds == Life \in -1..Life /\ 0 \in 0..RefreshAfter
  BY SessionsAssumption

\* What is written over a row.
LEMMA NewRows ==
  /\ Good(Unborn) /\ Good(Deleted) /\ Good([Unborn EXCEPT !.state = "revoked"])
  /\ \A p \in 0..MaxReplaced + 1, b \in BOOLEAN :
       Good([Unborn EXCEPT !.state = "live", !.left = Life, !.proof = p, !.late = b])
  <1>1. Unborn \in Row /\ Unborn.state = "new" /\ Unborn.since = 0
    BY SessionsAssumption DEF Unborn, Row
  <1>2. [Unborn EXCEPT !.state = "revoked"] \in Row /\ Deleted \in Row
    BY <1>1 DEF Deleted, Row
  <1>3. Good(Unborn) /\ Good(Deleted) /\ Good([Unborn EXCEPT !.state = "revoked"])
    BY <1>1, <1>2 DEF Good, Deleted, Row
  <1>4. ASSUME NEW p \in 0..MaxReplaced + 1, NEW b \in BOOLEAN
        PROVE  Good([Unborn EXCEPT !.state = "live", !.left = Life, !.proof = p, !.late = b])
    <2> DEFINE v == [Unborn EXCEPT !.state = "live", !.left = Life, !.proof = p, !.late = b]
    <2>1. v \in Row /\ v.left = Life /\ v.since = 0
      BY <1>1, Bounds DEF Row
    <2> QED
      BY <2>1, SessionsAssumption DEF Good
  <1> QED
    BY <1>3, <1>4

LEMMA ChangedRows ==
  ASSUME NEW row, Good(row)
  PROVE  /\ Good(Revoked(row))
         /\ row.state = "live" => \A b \in BOOLEAN :
              Good([row EXCEPT !.left = Life, !.since = 0, !.switched = FALSE, !.revived = b])
         /\ Good([row EXCEPT !.since = 0, !.switched = @ \/ row.since > 0])
         /\ \A C \in SUBSET (Apps \cup {"*"}), b \in BOOLEAN : Good([row EXCEPT !.closed = C, !.raced = b])
         /\ Good([row EXCEPT !.left = Later(@), !.since = IF @ < RefreshAfter THEN @ + 1 ELSE @])
  <1>0. row \in Row /\ row.left \in -1..Life /\ row.since \in 0..RefreshAfter
        /\ row.switched \in BOOLEAN
    BY DEF Good, Row
  <1>1. Good(Revoked(row))
    BY NewRows DEF Revoked
  <1>2. ASSUME NEW b \in BOOLEAN
        PROVE  Good([row EXCEPT !.left = Life, !.since = 0, !.switched = FALSE, !.revived = b])
    <2> DEFINE v == [row EXCEPT !.left = Life, !.since = 0, !.switched = FALSE, !.revived = b]
    <2>1. v \in Row /\ v.left = Life /\ v.since = 0
      BY <1>0, Bounds DEF Row
    <2> QED
      BY <2>1, SessionsAssumption DEF Good
  <1>3. Good([row EXCEPT !.since = 0, !.switched = @ \/ row.since > 0])
    <2> DEFINE w == (row.switched \/ row.since > 0)
               v == [row EXCEPT !.since = 0, !.switched = w]
    <2>1. w \in BOOLEAN
      OBVIOUS
    <2>2. v \in Row /\ v.since = 0 /\ v.left = row.left /\ v.state = row.state /\ v.switched = w
      BY <1>0, <2>1, Bounds DEF Row
    <2>3. ~w => row.since = 0 /\ ~row.switched
      BY <1>0
    <2>4. v = [row EXCEPT !.since = 0, !.switched = @ \/ row.since > 0]
      BY <1>0 DEF Row
    <2>5. Good(v)
      BY <2>2, <2>3, SessionsAssumption DEF Good
    <2> QED
      BY <2>4, <2>5
  <1>4. ASSUME NEW C \in SUBSET (Apps \cup {"*"}), NEW b \in BOOLEAN
        PROVE  Good([row EXCEPT !.closed = C, !.raced = b])
    <2> DEFINE v == [row EXCEPT !.closed = C, !.raced = b]
    <2>1. v \in Row /\ v.state = row.state /\ v.switched = row.switched
          /\ v.left = row.left /\ v.since = row.since
      BY <1>0 DEF Row
    <2> QED
      BY <2>1 DEF Good
  <1>5. Good([row EXCEPT !.left = Later(@), !.since = IF @ < RefreshAfter THEN @ + 1 ELSE @])
    <2> DEFINE l == Later(row.left)
               n == IF row.since < RefreshAfter THEN row.since + 1 ELSE row.since
               v == [row EXCEPT !.left = l, !.since = n]
    <2>1. l \in -1..Life /\ n \in 0..RefreshAfter
      BY <1>0, SessionsAssumption DEF Later
    <2>2. v \in Row /\ v.state = row.state /\ v.switched = row.switched /\ v.left = l /\ v.since = n
      BY <1>0, <2>1 DEF Row
    <2>3. n < RefreshAfter /\ row.left + row.since = Life => l + n = Life
      BY <1>0, SessionsAssumption DEF Later
    <2>4. n < RefreshAfter => row.since < RefreshAfter
      BY <1>0, SessionsAssumption
    <2>5. Good(v)
      BY <2>2, <2>3, <2>4 DEF Good
    <2> QED
      BY <1>0, <2>5 DEF Row
  <1> QED
    BY <1>1, <1>2, <1>3, <1>4, <1>5

LEMMA SetRows ==
  ASSUME DOMAIN sess' = SessionIds, sess' = [s \in SessionIds |-> sess'[s]],
         \A s \in SessionIds : Good(sess'[s])
  PROVE  RowsTyped'
  BY DEF RowsTyped, Good

\* One row is written, or some are deleted.
LEMMA SetRow ==
  ASSUME RowsTyped, NEW s \in SessionIds, NEW v, Good(v), sess' = [sess EXCEPT ![s] = v]
  PROVE  RowsTyped'
  BY DEF RowsTyped, Good

LEMMA DeleteTyped ==
  ASSUME RowsTyped, NEW S, DeleteRows(S)
  PROVE  RowsTyped'
  BY NewRows, SetRows DEF DeleteRows, RowsTyped

LEMMA RevokeTyped ==
  ASSUME RowsTyped, sess' = [s \in SessionIds |-> Revoked(sess[s])]
  PROVE  RowsTyped'
  BY ChangedRows, SetRows DEF RowsTyped

LEMMA SameRows == ASSUME RowsTyped, UNCHANGED sess PROVE RowsTyped'
  BY DEF RowsTyped, Good

LEMMA CallRows ==
  ASSUME Typed, NEW c \in Calls, Users(c) \/ CreateSession(c)
  PROVE  RowsTyped'
  <1>0. RowsTyped /\ CallsTyped
    BY DEF Typed
  <1>1. CASE \/ FindNone(c) \/ SignUp(c) \/ AdminCreate(c) \/ AssignRoles(c) \/ AssignFails(c)
             \/ UndoFails(c) \/ SignIn(c) \/ WechatLookup(c) \/ WechatLogin(c) \/ WechatCreate(c)
             \/ WechatCreatesAnother(c) \/ WechatAgain(c) \/ ListDead(c) \/ CreateFails(c)
    <2>1. UNCHANGED sess
      BY <1>1 DEF FindNone, SignUp, AdminCreate, AssignRoles, AssignFails, UndoFails, SignIn,
           WechatLookup, WechatLogin, WechatCreate, WechatCreatesAnother, WechatAgain, ListDead, CreateFails
    <2> QED
      BY <1>0, <2>1, SameRows
  <1>2. CASE Undo(c) \/ DeleteUser(c) \/ Purge(c)
    BY <1>0, <1>2, DeleteTyped, SameRows DEF Undo, DeleteUser, RemoveUser, Purge
  <1>3. ASSUME NEW s \in SessionIds, Create(c, s) PROVE RowsTyped'
    <2>1. call[c].proof \in 0..MaxReplaced + 1 /\ call[c].late \in BOOLEAN
      BY <1>0 DEF CallsTyped, Call
    <2> QED
      BY <1>0, <1>3, <2>1, NewRows, SetRow DEF Create
  <1> QED
    BY <1>1, <1>2, <1>3 DEF Users, CreateSession

LEMMA RequestsRows ==
  ASSUME Typed, NEW c \in Calls, Requests(c)
  PROVE  RowsTyped'
  <1>0. RowsTyped /\ CallsTyped /\ call[c].app \in Apps \cup {"*"} /\ Fits(call[c])
    BY DEF Typed, CallsTyped, Call
  <1>1. CASE \/ \E s \in SessionIds, w \in Wants \ {"open"} : Authenticate(c, s, w, "*")
             \/ \E s \in SessionIds, a \in Apps : Authenticate(c, s, "open", a)
             \/ OpenStream(c) \/ CallerGone(c) \/ ChangeFails(c)
    <2>1. UNCHANGED sess
      BY <1>1 DEF Authenticate, OpenStream, CallerGone, ChangeFails
    <2> QED
      BY <1>0, <2>1, SameRows
  <1>2. CASE Expire(c)
    <2> DEFINE s == call[c].sid
    <2>1. s \in SessionIds
      BY <1>0, <1>2 DEF Expire, Fits, Bound
    <2>2. sess' = [sess EXCEPT ![s] = Revoked(sess[s])] \/ UNCHANGED sess
      BY <1>2 DEF Expire
    <2>3. Good(Revoked(sess[s]))
      BY <1>0, <2>1, ChangedRows DEF RowsTyped
    <2> QED
      BY <1>0, <2>1, <2>2, <2>3, SetRow, SameRows
  <1>3. CASE Refresh(c)
    <2> DEFINE s == call[c].sid
    <2>1. s \in SessionIds
      BY <1>0, <1>3 DEF Refresh, Fits, Bound
    <2>2. CASE sess[s].state = "live" /\ Stored(s)
      <3> DEFINE b == \E d \in Calls : s \in call[d].dead
                 v == [sess[s] EXCEPT !.left = Life, !.since = 0, !.switched = FALSE, !.revived = b]
      <3>1. Good(v)
        BY <1>0, <2>1, <2>2, ChangedRows DEF RowsTyped
      <3>2. sess' = [sess EXCEPT ![s] = v]
        BY <1>0, <1>3, <2>1, <2>2 DEF Refresh, RowsTyped
      <3> QED
        BY <1>0, <2>1, <3>1, <3>2, SetRow
    <2>3. CASE ~(sess[s].state = "live" /\ Stored(s))
      BY <1>0, <1>3, <2>3, SameRows DEF Refresh
    <2> QED
      BY <2>2, <2>3
  <1>4. CASE Activate(c)
    <2> DEFINE s == call[c].sid
               v == [sess[s] EXCEPT !.since = 0, !.switched = @ \/ sess[s].since > 0]
    <2>1. s \in SessionIds
      BY <1>0, <1>4 DEF Activate, Fits, Bound
    <2>2. sess' = [sess EXCEPT ![s] = v] \/ UNCHANGED sess
      BY <1>0, <1>4, <2>1 DEF Activate, RowsTyped
    <2>3. Good(v)
      BY <1>0, <2>1, ChangedRows DEF RowsTyped
    <2> QED
      BY <1>0, <2>1, <2>2, <2>3, SetRow, SameRows
  <1>5. CASE ChangeCommit(c) \/ Reset(c)
    BY <1>0, <1>5, RevokeTyped DEF ChangeCommit, Reset, ReplacePassword
  <1>6. ASSUME NEW s \in SessionIds, NEW a \in Apps, SignOutRevoke(c, s, a)
        PROVE  RowsTyped'
    <2>1. Good(Revoked(sess[s]))
      BY <1>0, ChangedRows DEF RowsTyped
    <2> QED
      BY <1>0, <1>6, <2>1, SetRow DEF SignOutRevoke
  <1>7. CASE SignOutClose(c)
    <2> DEFINE s == call[c].sid
               C == sess[s].closed \cup {call[c].app, "*"}
               b == (sess[s].raced \/ \E d \in Calls : call[d].sid = s /\ call[d].then = "open")
               v == [sess[s] EXCEPT !.closed = C, !.raced = b]
    <2>1. s \in SessionIds
      BY <1>0, <1>7 DEF SignOutClose, Fits, Bound
    <2>2. C \in SUBSET (Apps \cup {"*"}) /\ b \in BOOLEAN /\ Good(sess[s])
      BY <1>0, <2>1 DEF RowsTyped, Row
    <2>3. Good(v)
      BY <2>2, ChangedRows
    <2>4. sess' = [sess EXCEPT ![s] = v] \/ UNCHANGED sess
      BY <1>0, <1>7, <2>1 DEF SignOutClose, RowsTyped
    <2> QED
      BY <1>0, <2>1, <2>3, <2>4, SetRow, SameRows
  <1> QED
    BY <1>1, <1>2, <1>3, <1>4, <1>5, <1>6, <1>7 DEF Requests

LEMMA StepRows == Typed /\ [Next]_vars => RowsTyped'
  <1> SUFFICES ASSUME Typed, [Next]_vars PROVE RowsTyped'
    OBVIOUS
  <1>0. RowsTyped
    BY DEF Typed
  <1>1. CASE \E c \in Calls : Users(c) \/ CreateSession(c) \/ Requests(c)
    BY <1>1, CallRows, RequestsRows
  <1>2. CASE (\E x \in Streams : Disconnect(x)) \/ Crash \/ Restart \/ UNCHANGED vars
    BY <1>0, <1>2, SameRows DEF Disconnect, Crash, Restart, vars
  <1>3. CASE Sweep
    BY <1>0, <1>3, DeleteTyped DEF Sweep
  <1>4. CASE Tick
    BY <1>0, <1>4, ChangedRows, SetRows DEF Tick, RowsTyped
  <1> QED
    BY <1>1, <1>2, <1>3, <1>4 DEF Next

LEMMA StepUser == Typed /\ [Next]_vars => UserTyped'
  <1> SUFFICES ASSUME Typed, [Next]_vars PROVE UserTyped'
    OBVIOUS
  <1>0. UserTyped /\ CallsTyped
    BY DEF Typed
  <1>a. pw \in 0..MaxReplaced + 1
    BY <1>0 DEF UserTyped
  <1>1. pw \in 0..MaxReplaced + 1 /\ 1 \in 0..MaxReplaced + 1 /\ 0 \in 0..MaxReplaced + 1
        /\ (Replaceable => pw + 1 \in 0..MaxReplaced + 1)
    BY <1>a, SessionsAssumption DEF Replaceable
  <1>2. ASSUME NEW c \in Calls, Users(c) PROVE UserTyped'
    BY <1>0, <1>1, <1>2 DEF UserTyped, Users, FindNone, SignUp, AdminCreate, AssignRoles, AssignFails,
         Undo, UndoFails, DeleteUser, RemoveUser, SignIn, WechatLookup, WechatLogin, WechatCreate,
         WechatCreatesAnother, WechatAgain
  <1>3. ASSUME NEW c \in Calls, CreateSession(c) PROVE UserTyped'
    BY <1>0, <1>3 DEF UserTyped, CreateSession, ListDead, Purge, Create, CreateFails
  <1>4. ASSUME NEW c \in Calls, Requests(c) PROVE UserTyped'
    <2>1. CASE OpenStream(c)
      <3>1. call[c].app \in Apps /\ call[c].sid \in SessionIds
        BY <1>0, <2>1 DEF OpenStream, CallsTyped, Fits, Bound
      <3>a. <<call[c].app, call[c].sid>> \in Streams
        BY <3>1 DEF Streams
      <3>b. streams \subseteq Streams /\ streams' = streams \cup {<<call[c].app, call[c].sid>>}
        BY <1>0, <2>1 DEF OpenStream, UserTyped
      <3>2. streams' \subseteq Streams
        BY <3>a, <3>b
      <3> QED
        BY <1>0, <2>1, <3>2 DEF OpenStream, UserTyped
    <2>2. CASE SignOutClose(c)
      BY <1>0, <2>2 DEF SignOutClose, UserTyped
    <2>3. CASE ChangeCommit(c) \/ Reset(c)
      BY <1>0, <1>1, <2>3 DEF ChangeCommit, Reset, ReplacePassword, UserTyped
    <2>4. CASE ~(OpenStream(c) \/ SignOutClose(c) \/ ChangeCommit(c) \/ Reset(c))
      BY <1>0, <1>4, <2>4 DEF Requests, UserTyped, Authenticate, Expire, Refresh, Activate,
           CallerGone, ChangeFails, SignOutRevoke
    <2> QED
      BY <2>1, <2>2, <2>3, <2>4
  <1>5. CASE (\E x \in Streams : Disconnect(x)) \/ Sweep \/ Crash \/ Restart \/ Tick \/ UNCHANGED vars
    BY <1>0, <1>5 DEF UserTyped, Disconnect, Sweep, Crash, Restart, Tick, vars
  <1> QED
    BY <1>2, <1>3, <1>4, <1>5 DEF Next

LEMMA InitTyped == Init => Typed
  <1> SUFFICES ASSUME Init PROVE Typed
    OBVIOUS
  <1>1. CallsTyped
    BY IdleFits DEF Init, CallsTyped
  <1>2. RowsTyped
    BY NewRows DEF Init, RowsTyped, Good
  <1>3. UserTyped
    BY SessionsAssumption DEF Init, UserTyped
  <1> QED
    BY <1>1, <1>2, <1>3 DEF Typed

LEMMA TypedIsTypeOK == Typed => TypeOK
  BY DEF Typed, CallsTyped, RowsTyped, UserTyped, Good, TypeOK, LastsFromUpdate

\* Types, and a session's life since its last update, for any number of calls and sessions.
THEOREM SessionsTyped == Spec => []TypeOK
  <1>1. Typed /\ [Next]_vars => Typed'
    BY StepCalls, StepRows, StepUser DEF Typed
  <1> QED
    BY <1>1, InitTyped, TypedIsTypeOK, PTL DEF Spec

-----------------------------------------------------------------------------
(* Passwords.                                                              *)

\* Until there is a user nobody has proved anything.
Beginning == {"idle", "down", "signup", "adminNew", "wxNew"}
BeforeUser == user = "none" => pw = 0 /\ \A c \in Calls : call[c].pc \in Beginning

OnlyWithUser == \A s \in SessionIds : Stored(s) => user = "live"

\* A sign-in under way rests on the password of today, on WeChat, or is late.
InSignIn == {"list", "purge", "create"}
CallsProve ==
  \A c \in Calls :
    user = "live" /\ call[c].pc \in InSignIn /\ call[c].proof \notin {Wechat, pw} => call[c].late

Proven == BeforeUser /\ OnlyWithUser /\ CallsProve /\ OldPasswordIsOut

\* What a step does to a row: it leaves alone what it was made with, and, but
\* for the end of a sign-out, what sign-outs have closed; or it ends the row.
Listed(s) == \E c \in Calls : s \in call[c].dead
Kept(s) ==
  /\ sess'[s].state = sess[s].state
  /\ sess'[s].proof = sess[s].proof /\ sess'[s].late = sess[s].late
  /\ Listed(s) /\ (sess[s].left < 0 \/ sess[s].revived) => sess'[s].left < 0 \/ sess'[s].revived
Calm(s) ==
  \/ sess'[s].closed = sess[s].closed /\ sess'[s].raced = sess[s].raced
  \/ \E c \in Calls : SignOutClose(c)
Removable(s) == user' = "deleted" \/ Dead(s) \/ Listed(s)
Ends(s) ==
  /\ Stored(s) /\ sess'[s].closed = {}
  /\ sess'[s].state = "revoked" \/ (sess'[s].state = "deleted" /\ Removable(s))
Written(s) == (Kept(s) /\ Calm(s)) \/ Ends(s)

LEMMA RevokedRow ==
  ASSUME NEW row
  PROVE  IF row.state = "live" THEN Revoked(row).state = "revoked" /\ Revoked(row).closed = {}
         ELSE Revoked(row) = row
  BY DEF Revoked, Unborn

LEMMA DeletedRow == Deleted.state = "deleted" /\ Deleted.closed = {}
  BY DEF Deleted, Unborn

LEMMA SameRow == ASSUME NEW s, sess'[s] = sess[s] PROVE Written(s)
  BY DEF Written, Kept, Calm

LEMMA SameWritten == ASSUME UNCHANGED sess PROVE \A s \in SessionIds : Written(s)
  BY SameRow

LEMMA DeleteWrites ==
  ASSUME NEW S, DeleteRows(S), \A s \in S \cap SessionIds : Stored(s) => Removable(s)
  PROVE  \A s \in SessionIds : Written(s)
  BY DeletedRow, SameRow DEF DeleteRows, Written, Ends

LEMMA RevokeWrites ==
  ASSUME sess' = [s \in SessionIds |-> Revoked(sess[s])]
  PROVE  \A s \in SessionIds : Written(s)
  BY RevokedRow, SameRow DEF Written, Ends, Stored

LEMMA RevokeOneWrites ==
  ASSUME RowsTyped, NEW t \in SessionIds, sess' = [sess EXCEPT ![t] = Revoked(@)]
  PROVE  \A s \in SessionIds : Written(s)
  BY RevokedRow, SameRow DEF Written, Ends, Stored, RowsTyped

LEMMA RowsWritten ==
  ASSUME Typed, [Next]_vars, NEW s \in SessionIds, ~\E c \in Calls : Create(c, s)
  PROVE  Written(s)
  <1>0. RowsTyped /\ CallsTyped
    BY DEF Typed
  <1>r. sess[s] \in Row
    BY <1>0 DEF RowsTyped
  <1>1. ASSUME NEW c \in Calls, Users(c) PROVE Written(s)
    <2>1. CASE Undo(c) \/ DeleteUser(c)
      BY <2>1, DeleteWrites, SameWritten DEF Undo, DeleteUser, RemoveUser, Removable
    <2>2. CASE ~(Undo(c) \/ DeleteUser(c))
      <3>1. UNCHANGED sess
        BY <1>1, <2>2 DEF Users, FindNone, SignUp, AdminCreate, AssignRoles, AssignFails, UndoFails, SignIn,
           WechatLookup, WechatLogin, WechatCreate, WechatCreatesAnother, WechatAgain
      <3> QED
        BY <3>1, SameWritten
    <2> QED
      BY <2>1, <2>2
  <1>2. ASSUME NEW c \in Calls, CreateSession(c) PROVE Written(s)
    <2>1. CASE ListDead(c) \/ CreateFails(c)
      BY <2>1, SameWritten DEF ListDead, CreateFails
    <2>2. CASE Purge(c)
      <3>1. \A t \in call[c].dead : Removable(t)
        BY DEF Removable, Listed
      <3> QED
        BY <2>2, <3>1, DeleteWrites DEF Purge
    <2>3. ASSUME NEW t \in SessionIds, Create(c, t) PROVE Written(s)
      <3>1. s # t
        BY <2>3
      <3> QED
        BY <1>0, <2>3, <3>1, SameRow DEF Create, RowsTyped
    <2> QED
      BY <1>2, <2>1, <2>2, <2>3 DEF CreateSession
  <1>3. ASSUME NEW c \in Calls, Requests(c) PROVE Written(s)
    <2>0. Fits(call[c])
      BY <1>0 DEF CallsTyped
    <2>1. CASE \/ \E t \in SessionIds, w \in Wants \ {"open"} : Authenticate(c, t, w, "*")
               \/ \E t \in SessionIds, a \in Apps : Authenticate(c, t, "open", a)
               \/ OpenStream(c) \/ CallerGone(c) \/ ChangeFails(c)
      <3>1. UNCHANGED sess
        BY <2>1 DEF Authenticate, OpenStream, CallerGone, ChangeFails
      <3> QED
        BY <3>1, SameWritten
    <2>2. CASE Expire(c)
      <3>1. call[c].sid \in SessionIds
        BY <2>0, <2>2 DEF Expire, Fits, Bound
      <3> QED
        BY <1>0, <2>2, <3>1, RevokeOneWrites, SameWritten DEF Expire
    <2>3. CASE Refresh(c)
      <3>1. call[c].sid \in SessionIds
        BY <2>0, <2>3 DEF Refresh, Fits, Bound
      <3> DEFINE L == \E d \in Calls : call[c].sid \in call[d].dead
      <3>2. sess' = sess \/ sess' = [sess EXCEPT ![call[c].sid].left = Life, ![call[c].sid].since = 0,
                                       ![call[c].sid].switched = FALSE, ![call[c].sid].revived = L]
        BY <2>3 DEF Refresh
      <3>3. s = call[c].sid /\ Listed(s) => L
        BY DEF Listed
      <3> HIDE DEF L
      <3>4. \/ sess'[s] = sess[s]
            \/ /\ s = call[c].sid
               /\ sess'[s] = [sess[s] EXCEPT !.left = Life, !.since = 0, !.switched = FALSE, !.revived = L]
        BY <1>0, <3>1, <3>2, ZenonT(60) DEF RowsTyped
      <3>5. CASE sess'[s] # sess[s]
        <4>1. /\ sess'[s].state = sess[s].state /\ sess'[s].proof = sess[s].proof
              /\ sess'[s].late = sess[s].late /\ sess'[s].closed = sess[s].closed
              /\ sess'[s].raced = sess[s].raced /\ sess'[s].revived = L
          BY <1>r, <3>4, <3>5 DEF Row
        <4>2. Listed(s) => sess'[s].revived
          BY <3>3, <3>4, <3>5, <4>1
        <4> QED
          BY <4>1, <4>2 DEF Written, Kept, Calm
      <3> QED
        BY <3>5, SameRow
    <2>4. CASE Activate(c)
      <3>1. call[c].sid \in SessionIds
        BY <2>0, <2>4 DEF Activate, Fits, Bound
      <3> DEFINE t == call[c].sid
                 b == sess[t].switched \/ sess[t].since > 0
      <3>2. sess' = sess \/ sess' = [sess EXCEPT ![t].since = 0, ![t].switched = b]
        <4>1. sess[t] \in Row
          BY <1>0, <3>1 DEF RowsTyped
        <4>2. [sess[t] EXCEPT !.since = 0].switched = sess[t].switched
          BY <4>1 DEF Row
        <4> QED
          BY <1>0, <2>4, <3>1, <4>2 DEF Activate, RowsTyped
      <3> HIDE DEF b
      <3>3. \/ sess'[s] = sess[s]
            \/ sess'[s] = [sess[s] EXCEPT !.since = 0, !.switched = b]
        BY <1>0, <3>1, <3>2 DEF RowsTyped
      <3>4. CASE sess'[s] = [sess[s] EXCEPT !.since = 0, !.switched = b]
        BY <1>r, <3>4 DEF Row, Written, Kept, Calm
      <3> QED
        BY <3>3, <3>4, SameRow
    <2>5. CASE ChangeCommit(c) \/ Reset(c)
      BY <2>5, RevokeWrites DEF ChangeCommit, Reset, ReplacePassword
    <2>6. ASSUME NEW t \in SessionIds, NEW a \in Apps, SignOutRevoke(c, t, a) PROVE Written(s)
      BY <1>0, <2>6, RevokeOneWrites DEF SignOutRevoke
    <2>7. CASE SignOutClose(c)
      <3>1. call[c].sid \in SessionIds
        BY <2>0, <2>7 DEF SignOutClose, Fits, Bound
      <3>2. Calm(s)
        BY <2>7 DEF Calm
      <3>3. \/ sess'[s] = sess[s]
            \/ \E C, b : sess'[s] = [sess[s] EXCEPT !.closed = C, !.raced = b]
        BY <1>0, <2>7, <3>1 DEF SignOutClose, RowsTyped
      <3> QED
        BY <1>r, <3>2, <3>3, SameRow DEF Row, Written, Kept
    <2> QED
      BY <1>3, <2>1, <2>2, <2>3, <2>4, <2>5, <2>6, <2>7 DEF Requests
  <1>4. CASE (\E x \in Streams : Disconnect(x)) \/ Crash \/ Restart \/ UNCHANGED vars
    BY <1>4, SameWritten DEF Disconnect, Crash, Restart, vars
  <1>5. CASE Sweep
    BY <1>5, DeleteWrites DEF Sweep, Removable
  <1>6. CASE Tick
    <2>1. \/ sess'[s] = sess[s]
          \/ \E n : sess'[s] = [sess[s] EXCEPT !.left = Later(sess[s].left), !.since = n]
      BY <1>r, <1>6 DEF Tick, Row
    <2>2. sess[s].left < 0 => Later(sess[s].left) < 0
      BY <1>r DEF Row, Later
    <2> QED
      BY <1>r, <2>1, <2>2, SameRow DEF Row, Written, Kept, Calm
  <1> QED
    BY <1>1, <1>2, <1>3, <1>4, <1>5, <1>6 DEF Next

\* How the user and the password change: with no sign-in under way, with all
\* sessions, or not at all.
Appears == user = "none" /\ user' = "live"
Disappears == user = "live" /\ user' = "deleted" /\ \A s \in SessionIds : ~Stored(s)'
Replaces == /\ user = "live" /\ user' = "live" /\ pw' = pw + 1
            /\ \A s \in SessionIds : sess'[s].state # "live"

Replacing == \E c \in Calls : ChangeCommit(c) \/ Reset(c)

LEMMA UserStep ==
  ASSUME Typed, [Next]_vars
  PROVE  UNCHANGED <<user, pw>> \/ Appears \/ Disappears \/ (Replacing /\ Replaces)
  <1>1. ASSUME NEW c \in Calls, Users(c) PROVE UNCHANGED <<user, pw>> \/ Appears \/ Disappears
    <2>1. CASE SignUp(c) \/ AdminCreate(c) \/ WechatCreate(c)
      BY <2>1 DEF SignUp, AdminCreate, WechatCreate, Appears
    <2>2. CASE Undo(c) \/ DeleteUser(c)
      <3>1. RemoveUser => \A s \in SessionIds : ~Stored(s)'
        BY DeletedRow DEF RemoveUser, DeleteRows, Stored
      <3> QED
        BY <2>2, <3>1 DEF Undo, DeleteUser, RemoveUser, Disappears
    <2>3. CASE ~(SignUp(c) \/ AdminCreate(c) \/ WechatCreate(c) \/ Undo(c) \/ DeleteUser(c))
      BY <1>1, <2>3 DEF Users, FindNone, AssignRoles, AssignFails, UndoFails, SignIn, WechatLookup,
         WechatLogin, WechatCreatesAnother, WechatAgain
    <2> QED
      BY <2>1, <2>2, <2>3
  <1>2. ASSUME NEW c \in Calls, CreateSession(c) PROVE UNCHANGED <<user, pw>>
    BY <1>2 DEF CreateSession, ListDead, Purge, Create, CreateFails
  <1>3. ASSUME NEW c \in Calls, Requests(c) PROVE UNCHANGED <<user, pw>> \/ (Replacing /\ Replaces)
    <2>1. CASE ChangeCommit(c) \/ Reset(c)
      <3>1. ReplacePassword => pw' = pw + 1 /\ \A s \in SessionIds : sess'[s].state # "live"
        BY RevokedRow DEF ReplacePassword
      <3> QED
        BY <2>1, <3>1 DEF ChangeCommit, Reset, Replaces, Replacing
    <2>2. CASE ~(ChangeCommit(c) \/ Reset(c))
      BY <1>3, <2>2 DEF Requests, Authenticate, Expire, Refresh, OpenStream, Activate, CallerGone,
         ChangeFails, SignOutRevoke, SignOutClose
    <2> QED
      BY <2>1, <2>2
  <1>4. CASE (\E x \in Streams : Disconnect(x)) \/ Sweep \/ Crash \/ Restart \/ Tick \/ UNCHANGED vars
    BY <1>4 DEF Disconnect, Sweep, Crash, Restart, Tick, vars
  <1> QED
    BY <1>1, <1>2, <1>3, <1>4 DEF Next

\* A call that has proved something after a step proved it before, or proves in
\* this step what is true after it.
Proves(d) == call[d].pc \in InSignIn
StillProves(d) ==
  Proves(d) /\ call'[d].proof = call[d].proof /\ call'[d].late = call[d].late
NowProves(d) == call'[d].proof \in {Wechat, pw'}

LEMMA CallStep ==
  ASSUME CallsTyped, NEW c \in Calls, NEW v, call' = [call EXCEPT ![c] = v]
  PROVE  call'[c] = v /\ \A d \in Calls \ {c} : call'[d] = call[d]
  BY DEF CallsTyped

\* Where the calls of Users and of Requests go.
Starts(v) ==
  /\ v.pc \notin InSignIn /\ v.dead = {}
  /\ v.then = "open" => v.pc # "close" /\ sess[v.sid].state = "live" /\ UNCHANGED sess
  /\ v.pc = "close" => sess'[v.sid].state = "revoked"
Leads(c) ==
  \/ call' = [call EXCEPT ![c] = Idle]
  \/ \E p \in Pcs \ (InSignIn \cup {"close"}) : call' = [call EXCEPT ![c].pc = p]
  \/ \E v : call' = [call EXCEPT ![c] = v] /\ Starts(v)
  \/ \E p \in {Wechat, pw'} : ToSession(c, p)
  \/ UNCHANGED call

LEMMA UsersLead ==
  ASSUME NEW c \in Calls, Users(c)
  PROVE  Leads(c)
  <1> USE DEF InSignIn, Pcs, Finish, Goto
  <1>1. CASE FindNone(c) \/ WechatLookup(c)
    <2>1. PICK p \in {"signup", "adminNew", "wxLogin", "wxNew"} :
            call' = [call EXCEPT ![c] = [Idle EXCEPT !.pc = p]]
      BY <1>1 DEF FindNone, WechatLookup, Begin
    <2>2. Starts([Idle EXCEPT !.pc = p])
      BY DEF Idle, Starts
    <2> QED
      BY <2>1, <2>2 DEF Leads
  <1>2. CASE SignUp(c) \/ SignIn(c) \/ WechatLogin(c)
    BY <1>2 DEF SignUp, SignIn, WechatLogin, Leads
  <1>3. CASE WechatCreate(c)
    BY <1>3 DEF WechatCreate, Leads
  <1>4. CASE AdminCreate(c) \/ AssignFails(c) \/ WechatAgain(c)
    BY <1>4 DEF AdminCreate, AssignFails, WechatAgain, Leads
  <1>5. CASE AssignRoles(c) \/ Undo(c) \/ UndoFails(c) \/ WechatCreatesAnother(c) \/ DeleteUser(c)
    BY <1>5 DEF AssignRoles, Undo, UndoFails, WechatCreatesAnother, DeleteUser, Leads
  <1> QED
    BY <1>1, <1>2, <1>3, <1>4, <1>5 DEF Users

LEMMA RequestsLead ==
  ASSUME Typed, NEW c \in Calls, Requests(c), ~Replacing
  PROVE  Leads(c)
  <1>0. CallsTyped /\ call[c] \in Call
    BY DEF Typed, CallsTyped
  <1>1. ASSUME NEW s \in SessionIds, NEW w \in Wants, NEW a, Authenticate(c, s, w, a)
        PROVE  Leads(c)
    <2>1. NextStep(s, w) \in {"expire", "refresh", "idle", "change", "open", "activate"}
      BY DEF NextStep, Wants
    <2>2. Starts(At(NextStep(s, w), s, w, a))
      BY <1>1, <2>1 DEF Authenticate, Starts, At, Idle, InSignIn
    <2> QED
      BY <1>1, <2>2 DEF Authenticate, Leads
  <1>2. CASE Expire(c) \/ OpenStream(c) \/ Activate(c) \/ CallerGone(c) \/ ChangeFails(c)
             \/ SignOutClose(c)
    BY <1>2 DEF Expire, OpenStream, Activate, CallerGone, ChangeFails, SignOutClose, Finish, Leads
  <1>3. CASE Refresh(c)
    <2>1. call[c].then \in Pcs \ (InSignIn \cup {"close"})
      BY <1>0 DEF Call, Wants, Pcs, InSignIn
    <2> QED
      BY <1>3, <2>1 DEF Refresh, Finish, Goto, Leads
  <1>4. ASSUME NEW s \in SessionIds, NEW a \in Apps, SignOutRevoke(c, s, a) PROVE Leads(c)
    <2>a. RowsTyped /\ (sess[s].state \in {"live", "revoked"}) /\ sess' = [sess EXCEPT ![s] = Revoked(sess[s])]
      BY <1>4 DEF Typed, SignOutRevoke, Stored
    <2>b. sess'[s].state = "revoked"
      BY <2>a, RevokedRow DEF RowsTyped
    <2>1. Starts([Idle EXCEPT !.pc = "close", !.sid = s, !.app = a])
      BY <2>b DEF Idle, InSignIn, Starts
    <2> QED
      BY <1>4, <2>1 DEF SignOutRevoke, Leads
  <1> QED
    BY <1>1, <1>2, <1>3, <1>4 DEF Requests, Wants, Replacing

LEMMA LeadProves ==
  ASSUME CallsTyped, NEW c \in Calls, Leads(c), NEW d \in Calls, call'[d].pc \in InSignIn
  PROVE  NowProves(d) \/ call'[d] = call[d]
  <1>1. ASSUME d = c, call'[d] # call[d] PROVE NowProves(d)
    <2> USE CallStep DEF InSignIn
    <2>1. CASE call' = [call EXCEPT ![c] = Idle]
      BY <1>1, <2>1 DEF Idle
    <2>2. CASE \E p \in Pcs \ (InSignIn \cup {"close"}) : call' = [call EXCEPT ![c].pc = p]
      BY <1>1, <2>2 DEF CallsTyped, Call
    <2>3. CASE \E v : call' = [call EXCEPT ![c] = v] /\ Starts(v)
      BY <1>1, <2>3 DEF Starts
    <2>4. ASSUME NEW p \in {Wechat, pw'}, ToSession(c, p) PROVE NowProves(d)
      <3>1. [Idle EXCEPT !.pc = "list", !.proof = p].proof = p
        BY DEF Idle
      <3> QED
        BY <1>1, <2>4, <3>1 DEF ToSession, NowProves
    <2> QED
      BY <1>1, <2>1, <2>2, <2>3, <2>4 DEF Leads
  <1>2. ASSUME d # c PROVE call'[d] = call[d]
    BY <1>2 DEF Leads, ToSession, CallsTyped
  <1> QED
    BY <1>1, <1>2

LEMMA CallProves ==
  ASSUME Typed, [Next]_vars, ~Replacing, NEW d \in Calls, call'[d].pc \in InSignIn
  PROVE  NowProves(d) \/ StillProves(d)
  <1>0. CallsTyped
    BY DEF Typed
  <1>1. ASSUME NEW c \in Calls, Users(c) \/ Requests(c) PROVE NowProves(d) \/ StillProves(d)
    BY <1>0, <1>1, UsersLead, RequestsLead, LeadProves DEF StillProves, Proves
  <1>2. ASSUME NEW c \in Calls, CreateSession(c) PROVE StillProves(d)
    <2>1. CASE d # c
      BY <1>0, <1>2, <2>1
         DEF CreateSession, ListDead, Purge, Create, CreateFails, Finish, CallsTyped, StillProves, Proves
    <2>2. CASE ListDead(c) \/ Purge(c)
      BY <1>0, <2>1, <2>2 DEF ListDead, Purge, CallsTyped, Call, StillProves, Proves, InSignIn
    <2>3. CASE CreateFails(c) \/ \E s \in SessionIds : Create(c, s)
      BY <1>0, <2>1, <2>3 DEF CreateFails, Create, Finish, Idle, CallsTyped, InSignIn
    <2> QED
      BY <1>2, <2>2, <2>3 DEF CreateSession
  <1>3. CASE (\E x \in Streams : Disconnect(x)) \/ Sweep \/ Tick \/ UNCHANGED vars
    BY <1>3 DEF Disconnect, Sweep, Tick, vars, StillProves, Proves
  <1>4. CASE Crash \/ Restart
    <2>1. Down.pc = "down" /\ Idle.pc = "idle"
      BY DEF Down, Idle
    <2> QED
      BY <1>4, <2>1 DEF Crash, Restart, InSignIn
  <1> QED
    BY <1>1, <1>2, <1>3, <1>4 DEF Next

\* When the password is replaced, all sessions go, and what rests on the old one is late.
LEMMA ReplacingProves ==
  ASSUME Typed, Replacing, NEW d \in Calls, call'[d].pc \in InSignIn
  PROVE  Replaces /\ (NowProves(d) \/ call'[d].late)
  <1>0. CallsTyped
    BY DEF Typed
  <1>1. PICK c \in Calls : ChangeCommit(c) \/ Reset(c)
    BY DEF Replacing
  <1>2. ReplacePassword => \A s \in SessionIds : sess'[s].state # "live"
    BY RevokedRow DEF ReplacePassword
  <1>3. Replaces
    BY <1>1, <1>2 DEF ChangeCommit, Reset, ReplacePassword, Replaces
  <1>4. ASSUME call'[d] = Overtake[d] PROVE NowProves(d) \/ call'[d].late
    <2>1. CASE Overtaken(d)
      <3>1. call'[d] = [call[d] EXCEPT !.late = TRUE] /\ call[d] \in Call
        BY <1>0, <1>4, <2>1 DEF Overtake, CallsTyped
      <3> QED
        BY <3>1 DEF Call
    <2>2. CASE ~Overtaken(d)
      BY <1>4, <2>2 DEF Overtake, Overtaken, NowProves, InSignIn
    <2> QED
      BY <2>1, <2>2
  <1>5. CASE d = c /\ ChangeCommit(c)
    <2>1. [Idle EXCEPT !.pc = "list", !.proof = pw + 1].proof = pw + 1
      BY DEF Idle
    <2>2. call'[c].proof = pw + 1 /\ pw' = pw + 1
      BY <1>5, <2>1 DEF ChangeCommit, ReplacePassword, Overtake
    <2> QED
      BY <1>3, <1>5, <2>2 DEF NowProves
  <1>6. CASE ~(d = c /\ ChangeCommit(c))
    BY <1>1, <1>3, <1>4, <1>6 DEF ChangeCommit, Reset, Overtake
  <1> QED
    BY <1>5, <1>6

LEMMA StepCallsProve ==
  ASSUME Typed, Proven, [Next]_vars
  PROVE  CallsProve'
  <1> SUFFICES ASSUME NEW d \in Calls, user' = "live", call'[d].pc \in InSignIn,
                      call'[d].proof \notin {Wechat, pw'}
               PROVE  call'[d].late
    BY DEF CallsProve
  <1>1. CASE Replacing
    BY <1>1, ReplacingProves DEF NowProves
  <1>2. CASE ~Replacing
    <2>1. StillProves(d)
      BY <1>2, CallProves DEF NowProves
    <2>2. user # "none"
      BY <2>1 DEF Proven, BeforeUser, Beginning, StillProves, Proves, InSignIn
    <2>4. UNCHANGED <<user, pw>>
      BY <1>2, <2>2, UserStep DEF Appears, Disappears
    <2> QED
      BY <2>1, <2>4 DEF Proven, CallsProve, StillProves, Proves
  <1> QED
    BY <1>1, <1>2

LEMMA StepOnlyWithUser ==
  ASSUME Typed, Proven, [Next]_vars
  PROVE  OnlyWithUser'
  <1> SUFFICES ASSUME NEW s \in SessionIds, Stored(s)' PROVE user' = "live"
    BY DEF OnlyWithUser
  <1>1. CASE \E c \in Calls : Create(c, s)
    BY <1>1 DEF Create
  <1>2. CASE ~\E c \in Calls : Create(c, s)
    <2>1. Stored(s)
      BY <1>2, RowsWritten DEF Written, Kept, Ends, Stored
    <2> QED
      BY <2>1, UserStep DEF Proven, OnlyWithUser, Appears, Disappears, Replaces
  <1> QED
    BY <1>1, <1>2

\* A row that is alive after a step is new, with what the call has proved, or
\* was so before, with the same user and password.
LEMMA LivesOn ==
  ASSUME Typed, Proven, [Next]_vars, NEW s \in SessionIds, sess'[s].state = "live",
         ~\E c \in Calls : Create(c, s)
  PROVE  sess[s].state = "live" /\ Kept(s) /\ UNCHANGED <<user, pw>>
  <1>1. sess[s].state = "live" /\ Kept(s)
    BY RowsWritten DEF Written, Kept, Ends
  <1>2. Stored(s) /\ Stored(s)'
    BY <1>1 DEF Stored
  <1> QED
    BY <1>1, <1>2, UserStep DEF Proven, OnlyWithUser, Appears, Disappears, Replaces

LEMMA Created ==
  ASSUME Typed, NEW c \in Calls, NEW s \in SessionIds, Create(c, s)
  PROVE  /\ UNCHANGED <<user, pw>> /\ user = "live" /\ call[c].pc = "create"
         /\ sess'[s].proof = call[c].proof /\ sess'[s].late = call[c].late
  <1> DEFINE v == [Unborn EXCEPT !.state = "live", !.left = Life, !.proof = call[c].proof,
                                 !.late = call[c].late]
  <1>1. v.proof = call[c].proof /\ v.late = call[c].late
    BY DEF Unborn
  <1>2. sess'[s] = v
    BY DEF Create, Typed, RowsTyped
  <1> QED
    BY <1>1, <1>2 DEF Create

LEMMA StepOldPassword ==
  ASSUME Typed, Proven, [Next]_vars
  PROVE  OldPasswordIsOut'
  <1> SUFFICES ASSUME NEW s \in SessionIds, sess'[s].state = "live", sess'[s].proof \notin {Wechat, pw'}
               PROVE  sess'[s].late
    BY DEF OldPasswordIsOut
  <1>1. ASSUME NEW c \in Calls, Create(c, s) PROVE sess'[s].late
    BY <1>1, Created DEF Proven, CallsProve, InSignIn
  <1>2. CASE ~\E c \in Calls : Create(c, s)
    BY <1>2, LivesOn DEF Proven, OldPasswordIsOut, Kept
  <1> QED
    BY <1>1, <1>2

LEMMA StepBeforeUser ==
  ASSUME Typed, Proven, [Next]_vars
  PROVE  BeforeUser'
  <1> SUFFICES ASSUME user' = "none" PROVE pw' = 0 /\ \A d \in Calls : call'[d].pc \in Beginning
    BY DEF BeforeUser
  <1>0. CallsTyped /\ user = "none" /\ pw = 0 /\ pw' = pw
    BY UserStep DEF Typed, Appears, Disappears, Replaces, Proven, BeforeUser
  <1>1. /\ \A c \in Calls : call[c].pc \in {"idle", "down", "signup", "adminNew", "wxNew"}
        /\ \A s \in SessionIds : ~Stored(s)
    BY <1>0 DEF Proven, BeforeUser, Beginning, OnlyWithUser
  <1>2. ASSUME NEW c \in Calls, Users(c) PROVE \E p \in Beginning : Begin(c, p)
    <2>1. FindNone(c) \/ WechatLookup(c)
      BY <1>0, <1>1, <1>2 DEF Users, FindNone, SignUp, AdminCreate, AssignRoles, AssignFails, Undo,
         UndoFails, DeleteUser, SignIn, WechatLookup, WechatLogin, WechatCreate,
         WechatCreatesAnother, WechatAgain
    <2> QED
      BY <1>0, <2>1 DEF FindNone, WechatLookup, Beginning
  <1>3. ASSUME NEW c \in Calls PROVE ~CreateSession(c)
    BY <1>1 DEF CreateSession, ListDead, Purge, Create, CreateFails
  <1>4. ASSUME NEW c \in Calls PROVE ~Requests(c)
    BY <1>0, <1>1 DEF Requests, Authenticate, Expire, Refresh, OpenStream, Activate, CallerGone,
       ChangeCommit, ChangeFails, Reset, SignOutRevoke, SignOutClose, Stored
  <1>5. ASSUME NEW c \in Calls, Users(c), NEW d \in Calls PROVE call'[d].pc \in Beginning
    <2>1. PICK p \in Beginning : Begin(c, p)
      BY <1>2, <1>5
    <2>2. [Idle EXCEPT !.pc = p].pc = p
      BY DEF Idle
    <2> QED
      BY <1>0, <1>1, <2>1, <2>2 DEF Begin, CallsTyped, Beginning
  <1>6. ASSUME (\E x \in Streams : Disconnect(x)) \/ Sweep \/ Tick \/ UNCHANGED vars, NEW d \in Calls
        PROVE  call'[d].pc \in Beginning
    BY <1>1, <1>6 DEF Disconnect, Sweep, Tick, vars, Beginning
  <1>7. ASSUME Crash \/ Restart, NEW d \in Calls PROVE call'[d].pc \in Beginning
    <2>1. Down.pc = "down" /\ Idle.pc = "idle"
      BY DEF Down, Idle
    <2> QED
      BY <1>7, <2>1 DEF Crash, Restart, Beginning
  <1> QED
    BY <1>0, <1>3, <1>4, <1>5, <1>6, <1>7 DEF Next

LEMMA InitProven == Init => Proven
  <1> SUFFICES ASSUME Init PROVE Proven
    OBVIOUS
  <1>1. Idle.pc = "idle" /\ Unborn.state = "new"
    BY DEF Idle, Unborn
  <1> QED
    BY <1>1 DEF Init, Proven, BeforeUser, Beginning, OnlyWithUser, Stored, CallsProve, InSignIn,
       OldPasswordIsOut

\* Replacing the password ends every session that rests on the old one, but for
\* those of sign-ins that had been verified before and were still under way.
THEOREM OldPasswordsOut == Spec => []OldPasswordIsOut
  <1>1. Typed /\ Proven /\ [Next]_vars => Typed' /\ Proven'
    BY StepCalls, StepRows, StepUser, StepCallsProve, StepOnlyWithUser, StepOldPassword,
       StepBeforeUser DEF Typed, Proven
  <1>2. Init => Typed /\ Proven
    BY InitTyped, InitProven
  <1>3. Proven => OldPasswordIsOut
    BY DEF Proven
  <1> QED
    BY <1>1, <1>2, <1>3, PTL DEF Spec

-----------------------------------------------------------------------------
(* Deleted sessions.                                                       *)

\* What a sign-in has on its list is dead, or gone, or was refreshed since.
ListedAreDead ==
  \A c \in Calls : \A s \in call[c].dead :
    sess[s].state # "new" /\ (Stored(s) => Dead(s) \/ sess[s].revived)

LEMMA LeadLists ==
  ASSUME CallsTyped, NEW c \in Calls, Leads(c), NEW d \in Calls
  PROVE  call'[d].dead \subseteq call[d].dead
  <1>1. Idle.dead = {} /\ \A p : [Idle EXCEPT !.pc = "list", !.proof = p].dead = {}
    BY DEF Idle
  <1>2. CASE \E p \in Pcs \ (InSignIn \cup {"close"}) : call' = [call EXCEPT ![c].pc = p]
    BY <1>2 DEF CallsTyped, Call
  <1>3. CASE \E v : call' = [call EXCEPT ![c] = v] /\ v.dead = {}
    BY <1>3, CallStep
  <1> QED
    BY <1>1, <1>2, <1>3, CallStep DEF Leads, Starts, ToSession

LEMMA CallLists ==
  ASSUME Typed, [Next]_vars, NEW d \in Calls, NEW s \in call'[d].dead
  PROVE  s \in call[d].dead \/ (s \in SessionIds /\ Dead(s) /\ UNCHANGED sess)
  <1>0. CallsTyped
    BY DEF Typed
  <1>1. ASSUME NEW c \in Calls, Users(c) \/ Requests(c), ~Replacing PROVE s \in call[d].dead
    BY <1>0, <1>1, UsersLead, RequestsLead, LeadLists
  <1>2. CASE Replacing
    <2>1. Idle.dead = {} /\ [Idle EXCEPT !.pc = "list", !.proof = pw + 1].dead = {}
      BY DEF Idle
    <2>2. Overtake[d].dead = call[d].dead
      BY <1>0 DEF CallsTyped, Call, Overtake
    <2> QED
      BY <1>2, <2>1, <2>2 DEF Replacing, ChangeCommit, Reset, Overtake
  <1>3. ASSUME NEW c \in Calls, CreateSession(c)
        PROVE  s \in call[d].dead \/ (s \in SessionIds /\ Dead(s) /\ UNCHANGED sess)
    <2>1. CASE d # c
      BY <1>0, <1>3, <2>1 DEF CreateSession, ListDead, Purge, Create, CreateFails, Finish, CallsTyped
    <2>2. CASE d = c /\ ListDead(c)
      BY <1>0, <2>2 DEF ListDead, CallsTyped, Call
    <2>3. CASE d = c /\ Purge(c)
      BY <1>0, <2>3 DEF Purge, CallsTyped, Call
    <2>4. CASE d = c /\ (CreateFails(c) \/ \E t \in SessionIds : Create(c, t))
      BY <1>0, <2>4 DEF CreateFails, Create, Finish, Idle, CallsTyped
    <2> QED
      BY <1>3, <2>1, <2>2, <2>3, <2>4 DEF CreateSession
  <1>4. CASE (\E x \in Streams : Disconnect(x)) \/ Sweep \/ Tick \/ UNCHANGED vars
    BY <1>4 DEF Disconnect, Sweep, Tick, vars
  <1>5. CASE Crash \/ Restart
    <2>1. Down.dead = {} /\ Idle.dead = {}
      BY DEF Down, Idle
    <2> QED
      BY <1>5, <2>1 DEF Crash, Restart
  <1> QED
    BY <1>1, <1>2, <1>3, <1>4, <1>5 DEF Next

LEMMA StepListed ==
  ASSUME Typed, ListedAreDead, [Next]_vars
  PROVE  ListedAreDead'
  <1> SUFFICES ASSUME NEW d \in Calls, NEW s \in call'[d].dead
               PROVE  sess'[s].state # "new" /\ (Stored(s)' => Dead(s)' \/ sess'[s].revived)
    BY DEF ListedAreDead
  <1>1. CASE Dead(s) /\ UNCHANGED sess
    BY <1>1 DEF Dead, Stored
  <1>2. CASE s \in call[d].dead
    <2>1. s \in SessionIds /\ sess[s].state # "new" /\ (Stored(s) => Dead(s) \/ sess[s].revived)
      BY <1>2 DEF ListedAreDead, Typed, CallsTyped, Call
    <2>2. Listed(s)
      BY <1>2 DEF Listed
    <2>3. Written(s)
      BY <2>1, RowsWritten DEF Create
    <2>4. CASE Kept(s)
      BY <2>1, <2>2, <2>4 DEF Kept, Stored, Dead
    <2>5. CASE Ends(s)
      BY <2>5 DEF Ends, Stored, Dead
    <2> QED
      BY <2>3, <2>4, <2>5 DEF Written
  <1> QED
    BY <1>1, <1>2, CallLists

\* A session is deleted only dead, or with its user, unless it was refreshed
\* while a sign-in had it on its list of dead rows.
THEOREM DeletedWereDead == Spec => OnlyDeadDeleted
  <1>1. Typed /\ ListedAreDead /\ [Next]_vars => Typed' /\ ListedAreDead'
    BY StepCalls, StepRows, StepUser, StepListed DEF Typed
  <1>2. Init => Typed /\ ListedAreDead
    <2>1. Init => ListedAreDead
      BY DEF Init, ListedAreDead, Idle
    <2> QED
      BY <2>1, InitTyped
  <1>3. ASSUME Typed, ListedAreDead, [Next]_vars, NEW s \in SessionIds,
               Stored(s), ~Dead(s), sess'[s].state = "deleted"
        PROVE  user' = "deleted" \/ sess[s].revived
    <2>1. Written(s)
      BY <1>3, RowsWritten DEF Create, Stored
    <2>2. Removable(s)
      BY <1>3, <2>1 DEF Written, Kept, Ends, Stored
    <2> QED
      BY <1>3, <2>2 DEF Removable, Listed, ListedAreDead
  <1>4. Typed /\ ListedAreDead /\ [Next]_vars =>
          \A s \in SessionIds :
            Stored(s) /\ ~Dead(s) /\ sess'[s].state = "deleted" => user' = "deleted" \/ sess[s].revived
    BY <1>3
  <1> QED
    BY <1>1, <1>2, <1>4, PTL DEF Spec, OnlyDeadDeleted

-----------------------------------------------------------------------------
(* Streams.                                                                *)

\* A sign-out closes the streams of a session that is revoked, and never comes
\* back: only a request from before it can still open one.
ClosedAreRevoked ==
  /\ \A s \in SessionIds : sess[s].closed # {} => sess[s].state = "revoked"
  /\ \A c \in Calls : call[c].pc = "close" => sess[call[c].sid].state \in {"revoked", "deleted"}
OpenersAreRaced ==
  \A c \in Calls : call[c].then = "open" /\ call[c].sid \in SessionIds /\ sess[call[c].sid].closed # {}
                     => sess[call[c].sid].raced
Closed == ClosedAreRevoked /\ OpenersAreRaced /\ SignedOutIsClosed

\* A call that is to open a stream or to close one was so before, and under
\* the same session; or it has just begun.
Goes(d) ==
  /\ call'[d].sid = call[d].sid /\ call'[d].then = call[d].then
  /\ call'[d].pc = "close" => call[d].pc = "close"
Opens(d) == call'[d].pc # "close" /\ sess[call'[d].sid].state = "live" /\ UNCHANGED sess
Closes(d) == call'[d].then # "open" /\ sess'[call'[d].sid].state = "revoked"

LEMMA LeadGoes ==
  ASSUME CallsTyped, NEW c \in Calls, Leads(c), NEW d \in Calls,
         call'[d].pc = "close" \/ call'[d].then = "open"
  PROVE  Goes(d) \/ Opens(d) \/ Closes(d)
  <1>1. CASE call'[d] = call[d]
    BY <1>1 DEF Goes
  <1>2. CASE call'[d] # call[d]
    <2>0. d = c
      BY <1>2 DEF Leads, ToSession, CallsTyped
    <2>1. /\ Idle.pc = "idle" /\ Idle.then = "idle"
          /\ \A p : LET v == [Idle EXCEPT !.pc = "list", !.proof = p] IN v.pc = "list" /\ v.then = "idle"
      BY DEF Idle
    <2>2. CASE \E p \in Pcs \ (InSignIn \cup {"close"}) : call' = [call EXCEPT ![c].pc = p]
      BY <2>0, <2>2 DEF CallsTyped, Call, Goes
    <2>3. CASE \E v : call' = [call EXCEPT ![c] = v] /\ Starts(v)
      <3>1. PICK v : call' = [call EXCEPT ![c] = v] /\ Starts(v)
        BY <2>3
      <3>2. call'[d] = v
        BY <2>0, <3>1, CallStep
      <3> QED
        BY <3>1, <3>2 DEF Starts, Opens, Closes
    <2>4. CASE call' = [call EXCEPT ![c] = Idle]
      <3>1. call'[d] = Idle
        BY <2>0, <2>4, CallStep
      <3> QED
        BY <2>1, <3>1
    <2>5. ASSUME NEW p \in {Wechat, pw'}, ToSession(c, p) PROVE FALSE
      <3>1. call'[d] = [Idle EXCEPT !.pc = "list", !.proof = p]
        BY <2>0, <2>5, CallStep DEF ToSession
      <3> QED
        BY <2>1, <3>1
    <2> QED
      BY <1>2, <2>2, <2>3, <2>4, <2>5 DEF Leads
  <1> QED
    BY <1>1, <1>2

LEMMA CallGoes ==
  ASSUME Typed, [Next]_vars, NEW d \in Calls, call'[d].pc = "close" \/ call'[d].then = "open"
  PROVE  Goes(d) \/ Opens(d) \/ Closes(d)
  <1>0. CallsTyped
    BY DEF Typed
  <1>1. ASSUME NEW c \in Calls, Users(c) \/ Requests(c), ~Replacing
        PROVE  Goes(d) \/ Opens(d) \/ Closes(d)
    BY <1>0, <1>1, UsersLead, RequestsLead, LeadGoes
  <1>2. CASE Replacing
    <2>1. LET v == [Idle EXCEPT !.pc = "list", !.proof = pw + 1] IN v.pc = "list" /\ v.then = "idle"
      BY DEF Idle
    <2>2. LET v == Overtake[d] IN v.sid = call[d].sid /\ v.then = call[d].then /\ v.pc = call[d].pc
      BY <1>0 DEF CallsTyped, Call, Overtake
    <2>3. call'[d] = Overtake[d] \/ call'[d] = [Idle EXCEPT !.pc = "list", !.proof = pw + 1]
      BY <1>2 DEF Replacing, ChangeCommit, Reset, Overtake
    <2> QED
      BY <2>1, <2>2, <2>3 DEF Goes
  <1>3. ASSUME NEW c \in Calls, CreateSession(c) PROVE Goes(d)
    <2>1. CASE d # c
      BY <1>0, <1>3, <2>1
         DEF CreateSession, ListDead, Purge, Create, CreateFails, Finish, CallsTyped, Goes
    <2>2. CASE d = c /\ (ListDead(c) \/ Purge(c))
      BY <1>0, <2>2 DEF ListDead, Purge, CallsTyped, Call, Goes
    <2>3. CASE d = c /\ (CreateFails(c) \/ \E t \in SessionIds : Create(c, t))
      <3>1. Idle.pc = "idle" /\ Idle.then = "idle"
        BY DEF Idle
      <3> QED
        BY <1>0, <2>3, <3>1 DEF CreateFails, Create, Finish, CallsTyped
    <2> QED
      BY <1>3, <2>1, <2>2, <2>3 DEF CreateSession
  <1>4. CASE (\E x \in Streams : Disconnect(x)) \/ Sweep \/ Tick \/ UNCHANGED vars
    BY <1>4 DEF Disconnect, Sweep, Tick, vars, Goes
  <1>5. CASE Crash \/ Restart
    <2>1. Down.pc = "down" /\ Down.then = "idle" /\ Idle.pc = "idle" /\ Idle.then = "idle"
      BY DEF Down, Idle
    <2> QED
      BY <1>5, <2>1 DEF Crash, Restart
  <1> QED
    BY <1>1, <1>2, <1>3, <1>4, <1>5 DEF Next

\* What a step that ends no sign-out leaves of what sign-outs have closed.
LEMMA StaysClosed ==
  ASSUME Typed, Closed, [Next]_vars, ~\E c \in Calls : SignOutClose(c), NEW s \in SessionIds
  PROVE  /\ sess'[s].closed # {} => /\ sess'[s].closed = sess[s].closed /\ sess'[s].raced = sess[s].raced
                                    /\ sess'[s].state = "revoked" /\ sess[s].state = "revoked"
         /\ sess[s].state \in {"revoked", "deleted"} => sess'[s].state \in {"revoked", "deleted"}
  <1>1. ASSUME NEW c \in Calls, Create(c, s) PROVE sess'[s].closed = {} /\ sess[s].state = "new"
    <2>1. [Unborn EXCEPT !.state = "live", !.left = Life, !.proof = call[c].proof,
                         !.late = call[c].late].closed = {}
      BY DEF Unborn
    <2> QED
      BY <1>1, <2>1 DEF Create, Typed, RowsTyped
  <1>2. CASE Written(s)
    BY <1>2 DEF Written, Kept, Calm, Ends, Closed, ClosedAreRevoked
  <1> QED
    BY <1>1, <1>2, RowsWritten

LEMMA StepClosed ==
  ASSUME Typed, Closed, [Next]_vars, ~\E c \in Calls : SignOutClose(c)
  PROVE  Closed'
  <1>0. CallsTyped /\ CallsTyped'
    BY StepCalls DEF Typed
  <1>1. ASSUME NEW s \in SessionIds, sess'[s].closed # {} PROVE sess'[s].state = "revoked"
    BY <1>1, StaysClosed
  <1>2. ASSUME NEW d \in Calls, call'[d].pc = "close"
        PROVE  sess'[call'[d].sid].state \in {"revoked", "deleted"}
    <2>1. call'[d].sid \in SessionIds
      BY <1>0, <1>2 DEF CallsTyped, Fits, Bound
    <2>2. CASE Goes(d)
      BY <1>2, <2>1, <2>2, StaysClosed DEF Goes, Closed, ClosedAreRevoked
    <2> QED
      BY <1>2, <2>2, CallGoes DEF Opens, Closes
  <1>3. ASSUME NEW d \in Calls, call'[d].then = "open", call'[d].sid \in SessionIds,
               sess'[call'[d].sid].closed # {}
        PROVE  sess'[call'[d].sid].raced
    <2>1. CASE Goes(d)
      BY <1>3, <2>1, StaysClosed DEF Goes, Closed, OpenersAreRaced
    <2>2. CASE Opens(d)
      BY <1>3, <2>2 DEF Opens, Closed, ClosedAreRevoked
    <2> QED
      BY <1>3, <2>1, <2>2, CallGoes DEF Closes
  <1>4. ASSUME NEW s \in SessionIds, NEW a \in Apps, a \in sess'[s].closed, <<a, s>> \in streams'
        PROVE  sess'[s].raced
    <2>1. sess'[s].closed = sess[s].closed /\ sess'[s].raced = sess[s].raced
      BY <1>4, StaysClosed
    <2>2. CASE <<a, s>> \in streams
      BY <1>4, <2>1, <2>2 DEF Closed, SignedOutIsClosed
    <2>3. ASSUME NEW c \in Calls, OpenStream(c), <<a, s>> \notin streams PROVE sess[s].raced
      <3>1. call[c].sid = s /\ call[c].pc = "open"
        BY <1>4, <2>3 DEF OpenStream
      <3>2. call[c].then = "open"
        BY <1>0, <3>1 DEF CallsTyped, Fits
      <3> QED
        BY <1>4, <2>1, <3>1, <3>2 DEF Closed, OpenersAreRaced
    <2>4. CASE ~\E c \in Calls : OpenStream(c)
      <3>1. ASSUME NEW c \in Calls, Users(c) \/ CreateSession(c) \/ Requests(c) PROVE UNCHANGED streams
        BY <2>4, <3>1 DEF Users, FindNone, SignUp, AdminCreate, AssignRoles, AssignFails, Undo,
           UndoFails, DeleteUser, SignIn, WechatLookup, WechatLogin, WechatCreate,
           WechatCreatesAnother, WechatAgain,
           CreateSession, ListDead, Purge, Create, CreateFails, Requests, Authenticate, Expire,
           Refresh, Activate, CallerGone, ChangeCommit, ChangeFails, Reset, SignOutRevoke
      <3>2. streams' \subseteq streams
        BY <3>1 DEF Next, Disconnect, Sweep, Crash, Restart, Tick, vars
      <3> QED
        BY <1>4, <2>2, <3>2
    <2> QED
      BY <2>1, <2>2, <2>3, <2>4
  <1> QED
    BY <1>1, <1>2, <1>3, <1>4 DEF Closed, ClosedAreRevoked, OpenersAreRaced, SignedOutIsClosed

LEMMA CloseClosed ==
  ASSUME Typed, Closed, NEW c \in Calls, SignOutClose(c)
  PROVE  Closed'
  <1> DEFINE s == call[c].sid
             a == call[c].app
             C == sess[s].closed \cup {a, "*"}
             b == (sess[s].raced \/ \E d \in Calls : call[d].sid = s /\ call[d].then = "open")
  <1>0. CallsTyped /\ RowsTyped
    BY DEF Typed
  <1>1. s \in SessionIds /\ sess[s].state \in {"revoked", "deleted"}
    BY <1>0 DEF SignOutClose, CallsTyped, Fits, Bound, Closed, ClosedAreRevoked
  <1>2. call'[c] = Idle /\ \A d \in Calls \ {c} : call'[d] = call[d]
    BY <1>0, CallStep DEF SignOutClose, Finish
  <1>3. \A t \in SessionIds \ {s} : sess'[t] = sess[t]
    BY <1>0 DEF SignOutClose, RowsTyped
  <1>4. CASE ~Stored(s)
    <2>1. UNCHANGED sess /\ sess[s].closed = {}
      BY <1>1, <1>4 DEF SignOutClose, Closed, ClosedAreRevoked, Stored
    <2>2. streams' \subseteq streams
      BY DEF SignOutClose
    <2> QED
      BY <1>2, <2>1, <2>2 DEF Closed, ClosedAreRevoked, OpenersAreRaced, SignedOutIsClosed, Idle
  <1>5. CASE Stored(s)
    <2>1. sess[s] \in Row /\ sess[s].state = "revoked"
      BY <1>0, <1>1, <1>5 DEF RowsTyped, Stored
    <2>2. sess' = [sess EXCEPT ![s].closed = C, ![s].raced = b]
      BY <1>5 DEF SignOutClose
    <2>3. b <=> (sess[s].raced \/ \E d \in Calls : call[d].sid = s /\ call[d].then = "open")
      OBVIOUS
    <2> HIDE DEF b
    <2>4. /\ sess'[s].state = "revoked" /\ sess'[s].closed = C /\ sess'[s].raced = b
      BY <1>0, <1>1, <2>1, <2>2 DEF RowsTyped, Row
    <2>5. \A x : x \in streams' => x \in streams /\ ~(x[2] = s /\ x[1] \in {a, "*"})
      BY DEF SignOutClose
    <2>6. ClosedAreRevoked'
      <3>1. ASSUME NEW t \in SessionIds, sess'[t].closed # {} PROVE sess'[t].state = "revoked"
        BY <1>3, <2>4, <3>1 DEF Closed, ClosedAreRevoked
      <3>2. ASSUME NEW d \in Calls, call'[d].pc = "close"
            PROVE  sess'[call'[d].sid].state \in {"revoked", "deleted"}
        <4>1. d # c /\ call'[d] = call[d]
          BY <1>2, <3>2 DEF Idle
        <4>2. call[d].sid \in SessionIds
          BY <1>0, <3>2, <4>1 DEF CallsTyped, Fits, Bound
        <4> QED
          BY <1>3, <2>4, <3>2, <4>1, <4>2 DEF Closed, ClosedAreRevoked
      <3> QED
        BY <3>1, <3>2 DEF ClosedAreRevoked
    <2>7. OpenersAreRaced'
      <3> SUFFICES ASSUME NEW d \in Calls, call'[d].then = "open", call'[d].sid \in SessionIds,
                          sess'[call'[d].sid].closed # {}
                   PROVE  sess'[call'[d].sid].raced
        BY DEF OpenersAreRaced
      <3>1. d # c /\ call'[d] = call[d]
        BY <1>2 DEF Idle
      <3>2. CASE call[d].sid = s
        BY <2>3, <2>4, <3>1, <3>2
      <3>3. CASE call[d].sid # s
        BY <1>3, <3>1, <3>3 DEF Closed, OpenersAreRaced
      <3> QED
        BY <3>2, <3>3
    <2>8. SignedOutIsClosed'
      <3> SUFFICES ASSUME NEW t \in SessionIds, NEW e \in Apps, e \in sess'[t].closed, <<e, t>> \in streams'
                   PROVE  sess'[t].raced
        BY DEF SignedOutIsClosed
      <3>1. <<e, t>> \in streams /\ ~(t = s /\ e \in {a, "*"})
        BY <2>5
      <3>2. CASE t = s
        <4>1. e \in sess[s].closed
          BY <2>4, <3>1, <3>2
        <4>2. sess[s].raced
          BY <3>1, <3>2, <4>1 DEF Closed, SignedOutIsClosed
        <4> QED
          BY <2>3, <2>4, <3>2, <4>2
      <3>3. CASE t # s
        BY <1>3, <3>1, <3>3 DEF Closed, SignedOutIsClosed
      <3> QED
        BY <3>2, <3>3
    <2> QED
      BY <2>6, <2>7, <2>8 DEF Closed
  <1> QED
    BY <1>4, <1>5

\* After a sign-out no stream of the session is left, but for one that a request
\* from before opens.
THEOREM SignedOutsClosed == Spec => []SignedOutIsClosed
  <1>1. Typed /\ Closed /\ [Next]_vars => Typed' /\ Closed'
    BY StepCalls, StepRows, StepUser, StepClosed, CloseClosed DEF Typed
  <1>2. Init => Typed /\ Closed
    <2>1. Init => Closed
      BY DEF Init, Closed, ClosedAreRevoked, OpenersAreRaced, SignedOutIsClosed, Idle, Unborn
    <2> QED
      BY <2>1, InitTyped
  <1>3. Closed => SignedOutIsClosed
    BY DEF Closed
  <1> QED
    BY <1>1, <1>2, <1>3, PTL DEF Spec

-----------------------------------------------------------------------------
(* What a call is owed.                                                    *)

\* Who proved to be the user gets a session, as long as there is the user and
\* the process lives.
THEOREM VerifiedGetSessions == Spec => VerifiedGetsSession
  <1> DEFINE Owed == {"wxNew", "wxAgain", "wxLogin", "list", "purge", "create"}
  <1>1. ASSUME Typed, [Next]_vars, NEW d \in Calls,
               call[d].pc \in Owed, call'[d].pc = "idle", user = "live"
        PROVE  \E s \in SessionIds : sess[s].state = "new" /\ sess'[s].state = "live"
    <2>0. CallsTyped /\ RowsTyped /\ call'[d] # call[d]
      BY <1>1 DEF Typed
    <2>1. \A p : [Idle EXCEPT !.pc = "list", !.proof = p].pc = "list"
      BY DEF Idle
    <2>2. ASSUME NEW c \in Calls, Users(c) PROVE FALSE
      <3>1. CASE d = c
        <4>1. ~SignUp(c) /\ ~AdminCreate(c) /\ ~AssignRoles(c) /\ ~AssignFails(c) /\ ~Undo(c) /\ ~UndoFails(c)
          BY <1>1, <3>1 DEF SignUp, AdminCreate, AssignRoles, AssignFails, Undo, UndoFails
        <4>2. ~FindNone(c) /\ ~DeleteUser(c) /\ ~SignIn(c) /\ ~WechatLookup(c)
          BY <1>1, <3>1 DEF FindNone, DeleteUser, SignIn, WechatLookup, Begin
        <4>3. ~WechatCreatesAnother(c)
          BY <1>1 DEF WechatCreatesAnother
        <4>4. WechatLogin(c) \/ WechatCreate(c) \/ WechatAgain(c)
          BY <2>2, <4>1, <4>2, <4>3 DEF Users
        <4>5. ASSUME NEW p, ToSession(c, p) PROVE FALSE
          <5>1. call'[c].pc = "list"
            BY <2>0, <2>1, <4>5 DEF ToSession, CallsTyped
          <5> QED
            BY <1>1, <3>1, <5>1
        <4>6. ~Goto(c, "wxLogin") /\ ~Goto(c, "wxAgain")
          BY <1>1, <2>0, <3>1 DEF Goto, CallsTyped, Call
        <4> QED
          BY <1>1, <4>4, <4>5, <4>6 DEF WechatLogin, WechatCreate, WechatAgain
      <3>2. CASE d # c
        <4>1. call'[d] = call[d]
          BY <2>0, <2>2, <3>2 DEF Users, FindNone, SignUp, AdminCreate, AssignRoles, AssignFails, Undo,
             UndoFails, DeleteUser, SignIn, WechatLookup, WechatLogin, WechatCreate,
             WechatCreatesAnother, WechatAgain,
             Begin, ToSession, Goto, Finish, CallsTyped
        <4> QED
          BY <2>0, <4>1
      <3> QED
        BY <3>1, <3>2
    <2>3. ASSUME NEW c \in Calls, Requests(c) PROVE FALSE
      <3>1. CASE Replacing
        <4>1. LET v == Overtake[d] IN v.pc = call[d].pc
          BY <2>0 DEF CallsTyped, Call, Overtake
        <4>2. call'[d] = Overtake[d] \/ call'[d] = [Idle EXCEPT !.pc = "list", !.proof = pw + 1]
          BY <3>1 DEF Replacing, ChangeCommit, Reset, Overtake
        <4> QED
          BY <1>1, <2>1, <4>1, <4>2
      <3>2. CASE ~Replacing /\ d # c
        <4>1. Leads(c)
          BY <1>1, <2>3, <3>2, RequestsLead
        <4>2. call'[d] = call[d]
          BY <2>0, <3>2, <4>1 DEF Leads, ToSession, CallsTyped
        <4> QED
          BY <2>0, <4>2
      <3>3. CASE ~Replacing /\ d = c
        BY <1>1, <2>3, <3>3 DEF Requests, Authenticate, Expire, Refresh, OpenStream, Activate,
           CallerGone, ChangeFails, SignOutRevoke, SignOutClose, Replacing
      <3> QED
        BY <3>1, <3>2, <3>3
    <2>4. ASSUME NEW c \in Calls, CreateSession(c)
          PROVE  \E s \in SessionIds : sess[s].state = "new" /\ sess'[s].state = "live"
      <3>1. d = c
        BY <2>0, <2>4 DEF CreateSession, ListDead, Purge, Create, CreateFails, Finish, CallsTyped
      <3>2. ASSUME NEW s \in SessionIds, Create(c, s) PROVE sess[s].state = "new" /\ sess'[s].state = "live"
        BY <2>0, <3>2 DEF Create, RowsTyped, Unborn
      <3>3. ~ListDead(c) /\ ~Purge(c) /\ ~CreateFails(c)
        BY <1>1, <2>0, <3>1 DEF ListDead, Purge, CreateFails, CallsTyped, Call
      <3> QED
        BY <2>4, <3>2, <3>3 DEF CreateSession
    <2>5. ~((\E x \in Streams : Disconnect(x)) \/ Sweep \/ Tick \/ UNCHANGED vars)
      BY <2>0 DEF Disconnect, Sweep, Tick, vars
    <2>6. ~Crash /\ ~Restart
      <3>1. Down.pc = "down"
        BY DEF Down, Idle
      <3> QED
        BY <1>1, <3>1 DEF Crash, Restart
    <2> QED
      BY <1>1, <2>2, <2>3, <2>4, <2>5, <2>6 DEF Next
  <1>2. Typed /\ [Next]_vars => Typed'
    BY StepCalls, StepRows, StepUser DEF Typed
  <1>3. Typed /\ [Next]_vars =>
          \A c \in Calls :
            /\ call[c].pc \in {"wxNew", "wxAgain", "wxLogin", "list", "purge", "create"}
            /\ call'[c].pc = "idle" /\ user = "live"
            => \E s \in SessionIds : sess[s].state = "new" /\ sess'[s].state = "live"
    BY <1>1
  <1> QED
    BY <1>2, <1>3, InitTyped, PTL DEF Spec, VerifiedGetsSession

-----------------------------------------------------------------------------
(* The roles of a user that an administrator creates.                      *)

AtRoles(c) == call[c].pc \in {"roles", "undo"}

\* A call that is about to give the roles, or to take the user back, does so,
\* unless the process ends.
LEMMA RolesStep ==
  ASSUME Typed, [Next]_vars, user = "live", roles = "missing", user' = "live", roles' = "missing",
         NEW d \in Calls, AtRoles(d)
  PROVE  AtRoles(d)'
  <1>0. CallsTyped
    BY DEF Typed
  <1>1. ASSUME NEW c \in Calls, Users(c) PROVE AtRoles(d)'
    <2>1. CASE d = c
      <3>1. AssignFails(c)
        BY <1>1, <2>1 DEF AtRoles, Users, FindNone, SignUp, AdminCreate, AssignRoles, Undo,
           UndoFails, DeleteUser, RemoveUser, SignIn, WechatLookup, WechatLogin, WechatCreate,
           WechatCreatesAnother,
           WechatAgain, Begin
      <3> QED
        BY <1>0, <2>1, <3>1 DEF AssignFails, Goto, AtRoles, CallsTyped, Call
    <2>2. CASE d # c
      <3>1. call'[d] = call[d]
        BY <1>0, <1>1, <2>2 DEF Users, FindNone, SignUp, AdminCreate, AssignRoles, AssignFails, Undo,
           UndoFails, DeleteUser, SignIn, WechatLookup, WechatLogin, WechatCreate,
           WechatCreatesAnother, WechatAgain,
           Begin, ToSession, Goto, Finish, CallsTyped
      <3> QED
        BY <3>1 DEF AtRoles
    <2> QED
      BY <2>1, <2>2
  <1>2. ASSUME NEW c \in Calls, CreateSession(c) PROVE AtRoles(d)'
    <2>1. d # c
      BY <1>2 DEF AtRoles, CreateSession, ListDead, Purge, Create, CreateFails
    <2>2. call'[d] = call[d]
      BY <1>0, <1>2, <2>1 DEF CreateSession, ListDead, Purge, Create, CreateFails, Finish, CallsTyped
    <2> QED
      BY <2>2 DEF AtRoles
  <1>3. CASE Replacing
    <2>1. PICK c \in Calls : ChangeCommit(c) \/ Reset(c)
      BY <1>3 DEF Replacing
    <2>2. d # c /\ ~Overtaken(d)
      BY <2>1 DEF AtRoles, ChangeCommit, Reset, Overtaken
    <2>3. call'[d] = call[d]
      BY <1>0, <2>1, <2>2 DEF ChangeCommit, Reset, Overtake, CallsTyped
    <2> QED
      BY <2>3 DEF AtRoles
  <1>4. ASSUME NEW c \in Calls, Requests(c), ~Replacing PROVE AtRoles(d)'
    <2>1. d # c
      BY <1>4 DEF AtRoles, Requests, Authenticate, Expire, Refresh, OpenStream, Activate,
         CallerGone, ChangeFails, SignOutRevoke, SignOutClose, Replacing
    <2>2. Leads(c)
      BY <1>4, RequestsLead
    <2>3. call'[d] = call[d]
      BY <1>0, <2>1, <2>2 DEF Leads, ToSession, CallsTyped
    <2> QED
      BY <2>3 DEF AtRoles
  <1>5. CASE (\E x \in Streams : Disconnect(x)) \/ Sweep \/ Tick \/ UNCHANGED vars
    BY <1>5 DEF Disconnect, Sweep, Tick, vars, AtRoles
  <1>6. ~Crash /\ ~Restart
    BY DEF Crash, Restart, AtRoles
  <1> QED
    BY <1>1, <1>2, <1>3, <1>4, <1>5, <1>6 DEF Next

\* A user comes in without roles only by a call that is to give them next, and
\* roles that are there stay.
LEMMA RolesBegin ==
  ASSUME Typed, [Next]_vars, user' = "live", roles' = "missing"
  PROVE  (user = "live" /\ roles = "missing") \/ \E c \in Calls : AtRoles(c)'
  <1>0. CallsTyped
    BY DEF Typed
  <1>1. ASSUME NEW c \in Calls, AdminCreate(c), user = "none" PROVE AtRoles(c)'
    BY <1>0, <1>1 DEF AdminCreate, Goto, AtRoles, CallsTyped, Call
  <1>2. ASSUME NEW c \in Calls, Users(c), ~(AdminCreate(c) /\ user = "none")
        PROVE  user = "live" /\ roles = "missing"
    BY <1>2 DEF Users, FindNone, SignUp, AdminCreate, AssignRoles, AssignFails, Undo,
       UndoFails, DeleteUser, RemoveUser, SignIn, WechatLookup, WechatLogin, WechatCreate,
       WechatCreatesAnother, WechatAgain
  <1>3. ASSUME NEW c \in Calls, CreateSession(c) PROVE user = "live" /\ roles = "missing"
    BY <1>3 DEF CreateSession, ListDead, Purge, Create, CreateFails
  <1>4. ASSUME NEW c \in Calls, Requests(c) PROVE user = "live" /\ roles = "missing"
    BY <1>4 DEF Requests, Authenticate, Expire, Refresh, OpenStream, Activate, CallerGone,
       ChangeCommit, ChangeFails, Reset, SignOutRevoke, SignOutClose
  <1>5. CASE (\E x \in Streams : Disconnect(x)) \/ Sweep \/ Crash \/ Restart \/ Tick \/ UNCHANGED vars
    BY <1>5 DEF Disconnect, Sweep, Crash, Restart, Tick, vars
  <1> QED
    BY <1>1, <1>2, <1>3, <1>4, <1>5 DEF Next

\* A user that an administrator creates has the roles given, or is about to have
\* them or to be deleted again, unless the process ended in between or that
\* deletion failed.
THEOREM RolesOrNoUsers == Spec => []RolesOrNoUser
  <1>1. Init => RolesOrNoUser
    BY DEF Init, RolesOrNoUser
  <1>2. Typed /\ RolesOrNoUser /\ [Next]_vars => Typed' /\ RolesOrNoUser'
    <2> SUFFICES ASSUME Typed, RolesOrNoUser, [Next]_vars PROVE Typed' /\ RolesOrNoUser'
      OBVIOUS
    <2>1. Typed'
      BY StepCalls, StepRows, StepUser DEF Typed
    <2>2. ASSUME user' = "live", roles' = "missing" PROVE \E c \in Calls : AtRoles(c)'
      <3>1. CASE user = "live" /\ roles = "missing"
        <4>1. PICK d \in Calls : AtRoles(d)
          BY <3>1 DEF RolesOrNoUser, AtRoles
        <4> QED
          BY <2>2, <3>1, <4>1, RolesStep
      <3> QED
        BY <2>2, <3>1, RolesBegin
    <2> QED
      BY <2>1, <2>2 DEF RolesOrNoUser, AtRoles
  <1> QED
    BY <1>1, <1>2, InitTyped, PTL DEF Spec
=============================================================================
