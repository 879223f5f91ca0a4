------------------------------- MODULE Sessions -------------------------------
(***************************************************************************)
(* Accounts, sessions and event streams of one user: the rows of another   *)
(* user are touched by none of these calls.  Each call awaits its queries  *)
(* one by one, and any other call may run in between.                      *)
(*                                                                         *)
(* Time is relative: left is what remains until expiresAt (-1: it has      *)
(* passed), since the time since updatedAt, as far as it matters.          *)
(***************************************************************************)
EXTENDS Integers

CONSTANTS
  Calls,         \* bound: requests of this user, or about it, under way
  SessionIds,    \* ids and tokens of sessions; each is used for one row only
  Apps,          \* codes of applications, and "*": a stream that names none
  Life,          \* SESSION_MAX_AGE_SECONDS
  RefreshAfter,  \* SESSION_REFRESH_AFTER_MS
  MaxReplaced    \* bound: how often the password is replaced

ASSUME SessionsAssumption ==
  /\ Life \in Nat \ {0} /\ RefreshAfter \in 1..Life
  /\ MaxReplaced \in Nat

VARIABLES
  user,     \* "none" until it is inserted, then "live", then "deleted"
  origin,   \* how the user comes in: "email" or "wechat"
  pw,       \* the password its credential account stores, by number; 0: no such account
  roles,    \* the roles an administrator chose: "missing", "granted" (if any), or
            \*   "cut off": missing, and the process ended in between (history), or
            \*   "left": missing, and the deletion that was to follow failed (history)
  sess,     \* table session, with some history per row (see Row)
  streams,  \* subscriptions of the event bus, <<app, session>>
  call      \* per call, where it stands and what it has read

vars == <<user, origin, pw, roles, sess, streams, call>>

Wechat == 0       \* in place of a password number: signed in by WeChat
NoSession == "none"
Streams == Apps \X SessionIds
Stored(s) == sess[s].state \in {"live", "revoked"}

\* History: proof, what the sign-in verified; late, the password was replaced
\* between that and the insert; switched, the activation of an organization
\* moved updatedAt since the last refresh; revived, refreshed while a sign-in had it among the dead;
\* closed, the streams that a sign-out closed; raced, a request from
\* before it was still about to open one.
Row == [state: {"new", "live", "revoked", "deleted"}, left: -1..Life, since: 0..RefreshAfter,
        proof: 0..MaxReplaced + 1, late: BOOLEAN, switched: BOOLEAN, revived: BOOLEAN,
        closed: SUBSET (Apps \cup {"*"}), raced: BOOLEAN]
Unborn == [state |-> "new", left |-> 0, since |-> 0,
           proof |-> 0, late |-> FALSE, switched |-> FALSE, revived |-> FALSE,
           closed |-> {}, raced |-> FALSE]
\* Of a row with revokedAt, and of one that is gone, nothing else is read.
Revoked(row) == IF row.state = "live" THEN [Unborn EXCEPT !.state = "revoked"] ELSE row
Deleted == [Unborn EXCEPT !.state = "deleted"]
DeleteRows(S) == sess' = [s \in SessionIds |-> IF s \in S /\ Stored(s) THEN Deleted ELSE sess[s]]

Pcs == {"idle", "down", "signup", "adminNew", "roles", "undo", "wxNew", "wxAgain", "wxLogin",
        "list", "purge", "create", "change",
        "expire", "refresh", "open", "activate", "close"}
\* What a request under a session is made for.
Wants == {"idle", "change", "open", "activate"}
\* What a call has verified and read, and what it is to do next.
Call == [pc: Pcs, sid: SessionIds \cup {NoSession}, app: Apps \cup {"*"}, then: Wants,
         proof: 0..MaxReplaced + 1, late: BOOLEAN, dead: SUBSET SessionIds]
Idle == [pc |-> "idle", sid |-> NoSession, app |-> "*", then |-> "idle",
         proof |-> 0, late |-> FALSE, dead |-> {}]

Down == [Idle EXCEPT !.pc = "down"]   \* no process to make calls

-----------------------------------------------------------------------------
Finish(c) == call' = [call EXCEPT ![c] = Idle]
Goto(c, p) == call' = [call EXCEPT ![c].pc = p]
Begin(c, p) == call[c].pc = "idle" /\ call' = [call EXCEPT ![c] = [Idle EXCEPT !.pc = p]]

\* What remains is createSession, for one who has proved p.
ToSession(c, p) == call' = [call EXCEPT ![c] = [Idle EXCEPT !.pc = "list", !.proof = p]]

Init ==
  /\ user \in {"none", "live"}
  /\ origin \in {"email", "wechat"}
  /\ pw = (IF user = "live" /\ origin = "email" THEN 1 ELSE 0)
  /\ roles = (IF user = "live" THEN "granted" ELSE "missing")
  /\ sess = [s \in SessionIds |-> Unborn]
  /\ streams = {}
  /\ call = [c \in Calls |-> Idle]

-----------------------------------------------------------------------------
(* createSession                                                           *)

\* The user's dead rows.
Dead(s) == sess[s].state = "revoked" \/ (sess[s].state = "live" /\ sess[s].left < 0)

Mut_ListDead(c) ==   \* every session of the user
  /\ call[c].pc = "list"
  /\ LET dead == {s \in SessionIds : Stored(s)} IN
     call' = [call EXCEPT ![c].dead = dead,
                          ![c].pc = IF dead = {} THEN "create" ELSE "purge"]
  /\ UNCHANGED <<user, origin, pw, roles, sess, streams>>
ListDead(c) ==
  /\ call[c].pc = "list"
  /\ LET dead == {s \in SessionIds : Dead(s)} IN
     call' = [call EXCEPT ![c].dead = dead,
                          ![c].pc = IF dead = {} THEN "create" ELSE "purge"]
  /\ UNCHANGED <<user, origin, pw, roles, sess, streams>>

\* They are deleted by id, whatever has become of them.
Purge(c) ==
  /\ call[c].pc = "purge"
  /\ DeleteRows(call[c].dead)
  /\ call' = [call EXCEPT ![c].dead = {}, ![c].pc = "create"]
  /\ UNCHANGED <<user, origin, pw, roles, streams>>

\* The row refers to the user: without it the insert fails.
Create(c, s) ==
  /\ call[c].pc = "create" /\ user = "live"
  /\ sess[s].state = "new"
  /\ sess' = [sess EXCEPT ![s] = [Unborn EXCEPT !.state = "live", !.left = Life,
                                   !.proof = call[c].proof, !.late = call[c].late]]
  /\ Finish(c)
  /\ UNCHANGED <<user, origin, pw, roles, streams>>
CreateFails(c) ==
  /\ call[c].pc = "create" /\ user # "live"
  /\ Finish(c)
  /\ UNCHANGED <<user, origin, pw, roles, sess, streams>>

-----------------------------------------------------------------------------
(* Sign-up, sign-in with a password                                        *)

\* signUpWithEmail and the administrator's createUser find no user.
FindNone(c) ==
  /\ user = "none" /\ origin = "email"
  /\ Begin(c, "signup") \/ Begin(c, "adminNew")
  /\ UNCHANGED <<user, origin, pw, roles, sess, streams>>

\* The email is unique: of two calls the later one is refused.
SignUp(c) ==
  /\ call[c].pc = "signup"
  /\ IF user = "none"
     THEN user' = "live" /\ pw' = 1 /\ roles' = "granted" /\ ToSession(c, 1)
     ELSE UNCHANGED <<user, pw, roles>> /\ Finish(c)
  /\ UNCHANGED <<origin, sess, streams>>

AdminCreate(c) ==
  /\ call[c].pc = "adminNew"
  /\ IF user = "none"
     THEN user' = "live" /\ pw' = 1 /\ Goto(c, "roles")
     ELSE UNCHANGED <<user, pw>> /\ Finish(c)
  /\ UNCHANGED <<origin, roles, sess, streams>>

AssignRoles(c) ==
  /\ call[c].pc = "roles" /\ user = "live"
  /\ roles' = "granted"
  /\ Finish(c)
  /\ UNCHANGED <<user, origin, pw, sess, streams>>

\* No such role, or no such user any more: the user is to be deleted again.
Mut_AssignFails(c) ==   \* the error is answered, and the user stays
  /\ call[c].pc = "roles"
  /\ Finish(c)
  /\ UNCHANGED <<user, origin, pw, roles, sess, streams>>
AssignFails(c) ==
  /\ call[c].pc = "roles"
  /\ Goto(c, "undo")
  /\ UNCHANGED <<user, origin, pw, roles, sess, streams>>

\* Rows that refer to the user go with it.
RemoveUser ==
  /\ user' = "deleted" /\ pw' = 0
  /\ DeleteRows(SessionIds)
Undo(c) ==
  /\ call[c].pc = "undo"
  /\ IF user = "live" THEN RemoveUser ELSE UNCHANGED <<user, pw, sess>>
  /\ Finish(c)
  /\ UNCHANGED <<origin, roles, streams>>

\* A deletion that fails is not noticed.
UndoFails(c) ==
  /\ call[c].pc = "undo" /\ user = "live"
  /\ roles' = IF roles = "missing" THEN "left" ELSE roles
  /\ Finish(c)
  /\ UNCHANGED <<user, origin, pw, sess, streams>>

DeleteUser(c) ==
  /\ call[c].pc = "idle" /\ user = "live"
  /\ RemoveUser
  /\ UNCHANGED <<origin, roles, streams, call>>

\* The password is verified against the account as it was read.
SignIn(c) ==
  /\ call[c].pc = "idle" /\ user = "live" /\ pw > 0
  /\ ToSession(c, pw)
  /\ UNCHANGED <<user, origin, pw, roles, sess, streams>>

-----------------------------------------------------------------------------
(* signInWithWechat                                                        *)

\* lookupAccount.  A deleted user would come back as another one.
WechatLookup(c) ==
  /\ origin = "wechat" /\ user # "deleted"
  /\ Begin(c, IF user = "live" THEN "wxLogin" ELSE "wxNew")
  /\ UNCHANGED <<user, origin, pw, roles, sess, streams>>

\* loginWithAccount: the account is updated first, which needs it to exist.
WechatLogin(c) ==
  /\ call[c].pc = "wxLogin"
  /\ IF user = "live" THEN ToSession(c, Wechat) ELSE Finish(c)
  /\ UNCHANGED <<user, origin, pw, roles, sess, streams>>

\* providerId and accountId are unique: of two first sign-ins one gets P2002.
Mut_WechatCreate(c) ==   \* the conflict is answered with an error
  /\ call[c].pc = "wxNew" /\ user # "deleted"
  /\ IF user = "none"
     THEN user' = "live" /\ roles' = "granted" /\ ToSession(c, Wechat)
     ELSE UNCHANGED <<user, roles>> /\ Finish(c)
  /\ UNCHANGED <<origin, pw, sess, streams>>
WechatCreate(c) ==
  /\ call[c].pc = "wxNew" /\ user # "deleted"
  /\ IF user = "none"
     THEN user' = "live" /\ roles' = "granted" /\ ToSession(c, Wechat)
     ELSE UNCHANGED <<user, roles>> /\ Goto(c, "wxAgain")
  /\ UNCHANGED <<origin, pw, sess, streams>>
\* The account of a deleted user is created anew, with another user.
WechatCreatesAnother(c) ==
  /\ call[c].pc = "wxNew" /\ user = "deleted"
  /\ Finish(c)
  /\ UNCHANGED <<user, origin, pw, roles, sess, streams>>

WechatAgain(c) ==
  /\ call[c].pc = "wxAgain"
  /\ IF user = "live" THEN Goto(c, "wxLogin") ELSE Finish(c)
  /\ UNCHANGED <<user, origin, pw, roles, sess, streams>>

-----------------------------------------------------------------------------
(* A request under a session: getSessionByToken, then what it asks for     *)

\* A dead session is refused, one that has run out is revoked, and one that
\* has not been updated for long is extended first.  Nothing in the source
\* bans a user, so the branch for a banned one is left out.
NextStep(s, w) == IF sess[s].left <= 0 THEN "expire"
                  ELSE IF sess[s].since >= RefreshAfter THEN "refresh"
                  ELSE w
At(p, s, w, a) == IF p = "idle" THEN Idle
                  ELSE IF p = "expire" THEN [Idle EXCEPT !.pc = p, !.sid = s]
                  ELSE [Idle EXCEPT !.pc = p, !.sid = s, !.app = a, !.then = w]
Mut_Authenticate(c, s, w, a) ==   \* revokedAt is not looked at
  /\ call[c].pc = "idle" /\ Stored(s)
  /\ LET p == IF sess[s].state = "live" THEN NextStep(s, w) ELSE w
     IN call' = [call EXCEPT ![c] = At(p, s, w, a)]
  /\ UNCHANGED <<user, origin, pw, roles, sess, streams>>
Authenticate(c, s, w, a) ==
  /\ call[c].pc = "idle" /\ sess[s].state = "live"
  /\ LET p == NextStep(s, w)
     IN call' = [call EXCEPT ![c] = At(p, s, w, a)]
  /\ UNCHANGED <<user, origin, pw, roles, sess, streams>>

\* An error of this update is swallowed.
Expire(c) ==
  /\ call[c].pc = "expire"
  /\ LET s == call[c].sid IN
     sess' = IF Stored(s) THEN [sess EXCEPT ![s] = Revoked(@)] ELSE sess
  /\ Finish(c)
  /\ UNCHANGED <<user, origin, pw, roles, streams>>

\* revokedAt is neither written nor read again: a session that was revoked
\* meanwhile stays so, but this request goes on.
Mut_RefreshTouches(c) ==   \* only updatedAt moves
  /\ call[c].pc = "refresh"
  /\ LET s == call[c].sid IN
     IF Stored(s)
     THEN /\ sess' = IF sess[s].state = "live"
                     THEN [sess EXCEPT ![s].since = 0, ![s].switched = FALSE,
                             ![s].revived = \E d \in Calls : s \in call[d].dead]
                     ELSE sess
          /\ IF call[c].then = "idle" THEN Finish(c) ELSE Goto(c, call[c].then)
     ELSE UNCHANGED sess /\ Finish(c)
  /\ UNCHANGED <<user, origin, pw, roles, streams>>
Refresh(c) ==
  /\ call[c].pc = "refresh"
  /\ LET s == call[c].sid IN
     IF Stored(s)
     THEN /\ sess' = IF sess[s].state = "live"
                     THEN [sess EXCEPT ![s].left = Life, ![s].since = 0, ![s].switched = FALSE,
                             ![s].revived = \E d \in Calls : s \in call[d].dead]
                     ELSE sess
          /\ IF call[c].then = "idle" THEN Finish(c) ELSE Goto(c, call[c].then)
     ELSE UNCHANGED sess /\ Finish(c)
  /\ UNCHANGED <<user, origin, pw, roles, streams>>

\* streamEvents: subscribe under the token, and stay until the client or
\* close ends it.
OpenStream(c) ==
  /\ call[c].pc = "open"
  /\ streams' = streams \cup {<<call[c].app, call[c].sid>>}
  /\ Finish(c)
  /\ UNCHANGED <<user, origin, pw, roles, sess>>
Disconnect(x) ==
  /\ x \in streams
  /\ streams' = streams \ {x}
  /\ UNCHANGED <<user, origin, pw, roles, sess, call>>

\* activateOrganizationForUser (registerOrganization alike): the update moves
\* updatedAt, by which the next refresh is put off.
Activate(c) ==
  /\ call[c].pc = "activate"
  /\ LET s == call[c].sid IN
     sess' = IF sess[s].state = "live"
             THEN [sess EXCEPT ![s].since = 0, ![s].switched = @ \/ sess[s].since > 0]
             ELSE sess
  /\ Finish(c)
  /\ UNCHANGED <<user, origin, pw, roles, streams>>

-----------------------------------------------------------------------------
(* The password is replaced, and every session of the user revoked         *)

Replaceable == pw < MaxReplaced + (IF origin = "email" THEN 1 ELSE 0)
ReplacePassword ==
  /\ pw' = pw + 1
  /\ sess' = [s \in SessionIds |-> Revoked(sess[s])]

\* Calls that verified the old password and are about to insert a session.
Overtaken(d) == call[d].pc \in {"list", "purge", "create"} /\ call[d].proof # Wechat
Overtake == [d \in Calls |-> IF Overtaken(d) THEN [call[d] EXCEPT !.late = TRUE] ELSE call[d]]

\* changePassword.  The password typed is verified against the one stored at
\* that time, and the transaction overwrites whatever is stored by then.  The
\* caller's row must be there when it is looked up, which is before.
CallerGone(c) ==
  /\ call[c].pc = "change" /\ ~Stored(call[c].sid)
  /\ Finish(c)
  /\ UNCHANGED <<user, origin, pw, roles, sess, streams>>

\* One transaction, and a new session for the caller.
ChangeCommit(c) ==
  /\ call[c].pc = "change" /\ user = "live" /\ pw > 0 /\ Replaceable
  /\ ReplacePassword
  /\ call' = [Overtake EXCEPT ![c] = [Idle EXCEPT !.pc = "list", !.proof = pw + 1]]
  /\ UNCHANGED <<user, origin, roles, streams>>

\* No user, no password, or MaxReplaced ends the count.
ChangeFails(c) ==
  /\ call[c].pc = "change" /\ ~(user = "live" /\ pw > 0 /\ Replaceable)
  /\ Finish(c)
  /\ UNCHANGED <<user, origin, pw, roles, sess, streams>>

\* resetPassword, by an administrator: a credential account is created for one
\* who had none.  It begins with a look at the user, which the transaction
\* needs anyway.
Mut_Reset(c) ==   \* the sessions stay
  /\ call[c].pc = "idle" /\ user = "live" /\ Replaceable
  /\ pw' = pw + 1
  /\ call' = Overtake
  /\ UNCHANGED <<user, origin, roles, sess, streams>>
Reset(c) ==
  /\ call[c].pc = "idle" /\ user = "live" /\ Replaceable
  /\ ReplacePassword
  /\ call' = Overtake
  /\ UNCHANGED <<user, origin, roles, streams>>

-----------------------------------------------------------------------------
(* Sign-out, the sweep, crashes, time                                      *)

\* deleteSessionByToken: a token without a row ends the call, and so does a row
\* that goes between the query and the update.
SignOutRevoke(c, s, a) ==
  /\ call[c].pc = "idle" /\ Stored(s)
  /\ sess' = [sess EXCEPT ![s] = Revoked(@)]
  /\ call' = [call EXCEPT ![c] = [Idle EXCEPT !.pc = "close", !.sid = s, !.app = a]]
  /\ UNCHANGED <<user, origin, pw, roles, streams>>

\* eventBus.close: "*" matches on either side.
SignOutClose(c) ==
  /\ call[c].pc = "close"
  /\ LET s == call[c].sid
         closed == {call[c].app, "*"}
     IN /\ streams' = {x \in streams : ~(x[2] = s /\ x[1] \in closed)}
        /\ sess' = IF ~Stored(s) THEN sess
                   ELSE [sess EXCEPT ![s].closed = @ \cup closed,
                          ![s].raced = @ \/ \E d \in Calls : call[d].sid = s /\ call[d].then = "open"]
  /\ Finish(c)
  /\ UNCHANGED <<user, origin, pw, roles>>

Sweep ==
  /\ \A c \in Calls : call[c].pc # "down"
  /\ \E s \in SessionIds : Dead(s)
  /\ DeleteRows({s \in SessionIds : Dead(s)})
  /\ UNCHANGED <<user, origin, pw, roles, streams, call>>

\* The process ends: the rows are what is left.
Crash ==
  /\ call' = [c \in Calls |-> Down]
  /\ streams' = {}
  /\ roles' = IF user = "live" /\ roles = "missing" THEN "cut off" ELSE roles
  /\ UNCHANGED <<user, origin, pw, sess>>

Restart ==
  /\ \A c \in Calls : call[c].pc = "down"
  /\ call' = [c \in Calls |-> Idle]
  /\ UNCHANGED <<user, origin, pw, roles, sess, streams>>

Later(n) == IF n > -1 THEN n - 1 ELSE n
Tick ==
  /\ sess' = [s \in SessionIds |->
       IF sess[s].state = "live"
       THEN [sess[s] EXCEPT !.left = Later(@), !.since = IF @ < RefreshAfter THEN @ + 1 ELSE @]
       ELSE sess[s]]
  /\ UNCHANGED <<user, origin, pw, roles, streams, call>>

-----------------------------------------------------------------------------
Users(c) ==
  \/ FindNone(c) \/ SignUp(c) \/ AdminCreate(c) \/ AssignRoles(c) \/ AssignFails(c)
  \/ Undo(c) \/ UndoFails(c) \/ DeleteUser(c) \/ SignIn(c)
  \/ WechatLookup(c) \/ WechatLogin(c) \/ WechatCreate(c) \/ WechatCreatesAnother(c)
  \/ WechatAgain(c)

CreateSession(c) ==
  \/ ListDead(c) \/ Purge(c) \/ CreateFails(c)
  \/ \E s \in SessionIds : Create(c, s)

Requests(c) ==
  \/ \E s \in SessionIds, w \in Wants \ {"open"} : Authenticate(c, s, w, "*")
  \/ \E s \in SessionIds, a \in Apps : Authenticate(c, s, "open", a)
  \/ Expire(c) \/ Refresh(c) \/ OpenStream(c) \/ Activate(c)
  \/ CallerGone(c) \/ ChangeCommit(c) \/ ChangeFails(c) \/ Reset(c)
  \/ \E s \in SessionIds, a \in Apps \ {"*"} : SignOutRevoke(c, s, a)
  \/ SignOutClose(c)

Next ==
  \/ \E c \in Calls : Users(c) \/ CreateSession(c) \/ Requests(c)
  \/ \E x \in Streams : Disconnect(x)
  \/ Sweep \/ Crash \/ Restart \/ Tick

Spec == Init /\ [][Next]_vars

-----------------------------------------------------------------------------
\* A live session lasts Life from its last update (lib/session.ts:5-6), unless
\* that was the activation of an organization.
LastsFromUpdate ==
  \A s \in SessionIds :
    sess[s].state = "live" /\ sess[s].since < RefreshAfter /\ ~sess[s].switched
      => sess[s].left + sess[s].since = Life

\* Types, and what the columns of a session say of each other.
TypeOK ==
  /\ user \in {"none", "live", "deleted"} /\ origin \in {"email", "wechat"}
  /\ pw \in 0..MaxReplaced + 1 /\ roles \in {"missing", "granted", "cut off", "left"}
  /\ sess \in [SessionIds -> Row]
  /\ streams \subseteq Streams
  /\ call \in [Calls -> Call]
  /\ LastsFromUpdate

\* A session that lives rests on the password of today (or on WeChat), unless
\* the sign-in was already verified when the password was replaced: changing
\* or resetting it ends every other session of the old one.
OldPasswordIsOut ==
  \A s \in SessionIds :
    sess[s].state = "live" /\ sess[s].proof \notin {Wechat, pw} => sess[s].late

\* A session is deleted only dead or with its user, unless it was refreshed
\* while a sign-in had it on its list of dead rows.
OnlyDeadDeleted ==
  [][\A s \in SessionIds :
       Stored(s) /\ ~Dead(s) /\ sess'[s].state = "deleted"
         => user' = "deleted" \/ sess[s].revived]_vars

\* Once a sign-out has closed them, a session whose row is still there has no
\* stream of that application, nor one that names none, unless a request
\* that was authenticated before opened it.
SignedOutIsClosed ==
  \A s \in SessionIds, a \in Apps :
    a \in sess[s].closed /\ <<a, s>> \in streams => sess[s].raced

\* Who proved to be the user gets a session, as long as there is the user and
\* the process lives: a first WeChat sign-in that finds the account created by
\* another one meanwhile signs in with it.
VerifiedGetsSession ==
  [][\A c \in Calls :
       /\ call[c].pc \in {"wxNew", "wxAgain", "wxLogin", "list", "purge", "create"}
       /\ call'[c].pc = "idle" /\ user = "live"
       => \E s \in SessionIds : sess[s].state = "new" /\ sess'[s].state = "live"]_vars

\* A user that an administrator creates has the roles given, unless the call
\* is at it, or the process ended in between, or both the roles and the deletion
\* of the user failed: the latter's error is swallowed (user.service.ts:102).
RolesOrNoUser ==
  user = "live" /\ roles = "missing" => \E c \in Calls : call[c].pc \in {"roles", "undo"}
=============================================================================
