------------------------------- MODULE WebAuthn -------------------------------
(***************************************************************************)
(* Passkeys: the challenges in the cache, the accounts of provider         *)
(* "webauthn", and the requests that register, sign in and remove.  What a *)
(* request reads it uses after further awaits, and what clients send may   *)
(* arrive late or twice.  Of an answer the code uses the user, the key and *)
(* the counter; who made it is for the library to tell, whose verdict      *)
(* (verification.verified) is not read, so here answers are unrestricted.  *)
(***************************************************************************)
EXTENDS Integers, FiniteSets

CONSTANTS
  Calls,       \* bound: requests at a time
  MaxCalls,    \* bound: requests
  Users,
  Keys,        \* credentials of devices; each is registered once
  Challenges,  \* random, so that none is issued twice
  NoOne,
  MaxCounter   \* bound: the counter in an answer

New == "new"
Gone == "gone"
Twice == "twice"

ASSUME WebAuthnAssumption ==
  /\ IsFiniteSet(Keys) /\ {NoOne, New, Gone, Twice} \cap Users = {} /\ Twice # NoOne
  /\ MaxCalls \in Nat /\ MaxCounter \in Nat

VARIABLES
  challenge,  \* webauthnChallengeCache, with what has left it
  key,        \* table Account, provider webauthn: the user, and the counter in providerData
  other,      \* users with an account of another provider
  call,       \* per request, what it was sent and has read
  started,    \* how many requests there were
  winner,     \* history: who registered or signed in by a challenge
  highest,    \* history: the highest counter accepted of a key
  tangled,    \* history: keys stored while another sign-in with them was about to
  crossed     \* history: users of whom two removals overlapped

vars == <<challenge, key, other, call, started, winner, highest, tangled, crossed>>
history == <<winner, highest, tangled, crossed>>

Unread == -1

Challenge == [state: {New, "open", Gone}, use: {"register", "auth"}, user: Users \cup {NoOne}]
NoKey == [owner |-> Gone, counter |-> 0]
Key == [owner: Users, counter: 0..MaxCounter] \cup [owner: {New, Gone}, counter: {0}]
Idle == [pc |-> "idle"]
Call == {Idle} \cup [pc: {"options"}, u: Users]
        \cup [pc: {"arrive", "register"}, u: Users, x: Challenges, k: Keys]
        \cup [pc: {"answer", "find", "update", "session"}, u: Users, x: Challenges, k: Keys, n: 0..MaxCounter]
        \cup [pc: {"count", "delete"}, u: Users, k: Keys, keys: {Unread} \cup Nat, others: {Unread, 0, 1}]

Owned(u) == {k \in Keys : key[k].owner = u}
\* A way to sign in.
Method(u) == u \in other \/ Owned(u) # {}

At(c, pc) == call[c].pc = pc
Begin(c, s) == /\ At(c, "idle") /\ started < MaxCalls
               /\ started' = started + 1 /\ call' = [call EXCEPT ![c] = s]
Continue(c, s) == call' = [call EXCEPT ![c] = s] /\ UNCHANGED started
End(c) == Continue(c, Idle)

\* Users have registered some keys.  (The services create every user with another
\* account; one without is what the check of removeWebAuthnCredential is for.)
Init ==
  /\ challenge = [x \in Challenges |-> [state |-> New, use |-> "auth", user |-> NoOne]]
  /\ key \in [Keys -> [owner: Users \cup {New}, counter: {0}]]
  /\ other \in SUBSET Users
  /\ call = [c \in Calls |-> Idle] /\ started = 0
  /\ winner = [x \in Challenges |-> NoOne]
  /\ highest = [k \in Keys |-> 0]
  /\ tangled = {} /\ crossed = {}

\* The row that a request has read, by its id.
Mut_StillThere(c) == TRUE
StillThere(c) == key[call[c].k].owner = call[c].u

-----------------------------------------------------------------------------
(* Challenges.                                                             *)

Issue(x, use, u) ==
  /\ challenge[x].state = New
  /\ challenge' = [challenge EXCEPT ![x] = [state |-> "open", use |-> use, user |-> u]]

\* generateRegistrationOptions; generateAuthenticationOptions without an email.
RegisterOptions(x, u) ==
  /\ Issue(x, "register", u)
  /\ UNCHANGED <<key, other, call, started, history>>
AnyoneOptions(x) ==
  /\ Issue(x, "auth", NoOne)
  /\ UNCHANGED <<key, other, call, started, history>>

\* generateAuthenticationOptions of a user who has a key; without one nothing is stored.
OptionsLookup(c, u) ==
  /\ Owned(u) # {}
  /\ Begin(c, [pc |-> "options", u |-> u])
  /\ UNCHANGED <<challenge, key, other, history>>
OptionsIssue(c, x) ==
  /\ At(c, "options")
  /\ Issue(x, "auth", call[c].u)
  /\ End(c)
  /\ UNCHANGED <<key, other, history>>

\* Five minutes are over, other entries push it out of the cache, or the process ends.
Vanish(x) ==
  /\ challenge[x].state = "open"
  /\ challenge' = [challenge EXCEPT ![x].state = Gone]
  /\ UNCHANGED <<key, other, call, started, history>>

\* A challenge is taken out of the cache as soon as it is found.
Mut_Taken(x) == challenge
Taken(x) == [challenge EXCEPT ![x].state = Gone]
Opens(x, use) == challenge[x].state = "open" /\ challenge[x].use = use

\* u has registered, or signed in, by x.
Wins(x, u) == winner' = [winner EXCEPT ![x] = IF @ = NoOne THEN u ELSE Twice]

-----------------------------------------------------------------------------
(* verifyRegistration: u sends a new key; the same may be sent twice.      *)

RegisterSend(c, u, x, k) ==
  /\ challenge[x].state # New /\ key[k].owner = New
  /\ Begin(c, [pc |-> "arrive", u |-> u, x |-> x, k |-> k])
  /\ UNCHANGED <<challenge, key, other, history>>

RegisterArrives(c) ==
  LET x == call[c].x IN
  /\ At(c, "arrive")
  /\ IF Opens(x, "register")
     THEN /\ challenge' = Taken(x)
          /\ IF challenge[x].user = call[c].u THEN Continue(c, [call[c] EXCEPT !.pc = "register"]) ELSE End(c)
     ELSE UNCHANGED challenge /\ End(c)
  /\ UNCHANGED <<key, other, history>>

\* account.create with the counter the device reports; a credential has one account (P2002).
Register(c, n) ==
  LET k == call[c].k IN
  /\ At(c, "register")
  /\ End(c)
  /\ IF key[k].owner = New
     THEN /\ key' = [key EXCEPT ![k] = [owner |-> call[c].u, counter |-> n]]
          /\ highest' = [highest EXCEPT ![k] = n]
          /\ Wins(call[c].x, call[c].u)
     ELSE UNCHANGED <<key, highest, winner>>
  /\ UNCHANGED <<challenge, other, tangled, crossed>>

-----------------------------------------------------------------------------
(* verifyAuthentication: an answer to a challenge arrives later, or twice. *)

\* Who u is, is told by the email or by the answer; so are the key and its counter.
SignInSend(c, u, x, k, n) ==
  /\ challenge[x].state # New
  /\ Begin(c, [pc |-> "answer", u |-> u, x |-> x, k |-> k, n |-> n])
  /\ UNCHANGED <<challenge, key, other, history>>

SignInArrives(c) ==
  LET x == call[c].x IN
  /\ At(c, "answer")
  /\ IF Opens(x, "auth")
     THEN challenge' = Taken(x) /\ Continue(c, [call[c] EXCEPT !.pc = "find"])
     ELSE UNCHANGED challenge /\ End(c)
  /\ UNCHANGED <<key, other, history>>

\* The challenge is that of the user, or anyone's.
Fits(x, u) == challenge[x].user \in {NoOne, u}
\* The library's comparison of counters; a device that does not count reports 0.
Mut_Newer(n, counter) == TRUE
Newer(n, counter) == n > counter \/ (n = 0 /\ counter = 0)

\* The user is read with its accounts, and the answer compared with what was read.
SignInFind(c) ==
  LET u == call[c].u
      k == call[c].k
  IN
  /\ At(c, "find")
  /\ IF Fits(call[c].x, u) /\ key[k].owner = u /\ Newer(call[c].n, key[k].counter)
     THEN Continue(c, [call[c] EXCEPT !.pc = "update"])
     ELSE End(c)
  /\ UNCHANGED <<challenge, key, other, history>>

\* account.update: the counter; a row that has gone ends the sign-in.
SignInUpdate(c) ==
  LET k == call[c].k
      n == call[c].n
  IN
  /\ At(c, "update")
  /\ IF StillThere(c)
     THEN /\ key' = [key EXCEPT ![k].counter = n]
          /\ highest' = [highest EXCEPT ![k] = IF n > @ THEN n ELSE @]
          /\ tangled' = IF \E d \in Calls \ {c} : At(d, "update") /\ call[d].k = k
                        THEN tangled \cup {k} ELSE tangled
          /\ Continue(c, [call[c] EXCEPT !.pc = "session"])
     ELSE UNCHANGED <<key, highest, tangled>> /\ End(c)
  /\ UNCHANGED <<challenge, other, winner, crossed>>

\* createSession, whose queries are in Sessions.
SignInSession(c) ==
  /\ At(c, "session")
  /\ Wins(call[c].x, call[c].u)
  /\ End(c)
  /\ UNCHANGED <<challenge, key, other, highest, tangled, crossed>>

-----------------------------------------------------------------------------
(* removeWebAuthnCredential                                                *)

RemoveFind(c, u, k) ==
  /\ key[k].owner = u
  /\ Begin(c, [pc |-> "count", u |-> u, k |-> k, keys |-> Unread, others |-> Unread])
  /\ UNCHANGED <<challenge, key, other, history>>

\* Another way to sign in is left.
Mut_Spare(keys, others) == keys >= 1 \/ others > 0
Spare(keys, others) == keys > 1 \/ others > 0

\* The two counts are queries of their own and are answered in either order.
RemoveCount(c) ==
  LET me == call[c]
      keys == Cardinality(Owned(me.u))
      others == IF me.u \in other THEN 1 ELSE 0
      Counted(s) == IF Unread \in {s.keys, s.others} THEN Continue(c, s)
                    ELSE IF Spare(s.keys, s.others) THEN Continue(c, [s EXCEPT !.pc = "delete"]) ELSE End(c)
  IN
  /\ At(c, "count")
  /\ \/ me.keys = Unread /\ Counted([me EXCEPT !.keys = keys])
     \/ me.others = Unread /\ Counted([me EXCEPT !.others = others])
  /\ UNCHANGED <<challenge, key, other, history>>

\* Removals of keys of u that have counted them.
Removals(u) == {d \in Calls : call[d].pc \in {"count", "delete"} /\ call[d].u = u /\ call[d].keys # Unread}

RemoveDelete(c) ==
  LET u == call[c].u IN
  /\ At(c, "delete")
  /\ End(c)
  /\ IF StillThere(c)
     THEN /\ key' = [key EXCEPT ![call[c].k] = NoKey]
          /\ crossed' = IF Removals(u) # {c} THEN crossed \cup {u} ELSE crossed
     ELSE UNCHANGED <<key, crossed>>
  /\ UNCHANGED <<challenge, other, winner, highest, tangled>>

-----------------------------------------------------------------------------
\* resetPassword of a user without a password.
AddOther(u) ==
  /\ u \notin other
  /\ other' = other \cup {u}
  /\ UNCHANGED <<challenge, key, call, started, history>>

\* A query is rejected, a client gives up, or the process ends.
Fail(c) ==
  /\ ~At(c, "idle")
  /\ End(c)
  /\ UNCHANGED <<challenge, key, other, history>>

CallStep(c) ==
  \/ \E u \in Users : \/ OptionsLookup(c, u)
                      \/ \E k \in Keys : RemoveFind(c, u, k)
                      \/ \E x \in Challenges, k \in Keys : \/ RegisterSend(c, u, x, k)
                                                           \/ \E n \in 0..MaxCounter : SignInSend(c, u, x, k, n)
  \/ \E x \in Challenges : OptionsIssue(c, x)
  \/ RegisterArrives(c) \/ \E n \in 0..MaxCounter : Register(c, n)
  \/ SignInArrives(c) \/ SignInFind(c) \/ SignInUpdate(c) \/ SignInSession(c)
  \/ RemoveCount(c) \/ RemoveDelete(c) \/ Fail(c)

Next ==
  \/ \E c \in Calls : CallStep(c)
  \/ \E x \in Challenges : AnyoneOptions(x) \/ Vanish(x) \/ \E u \in Users : RegisterOptions(x, u)
  \/ \E u \in Users : AddOther(u)

Spec == Init /\ [][Next]_vars

-----------------------------------------------------------------------------
\* What is in the cache and in the table: a row that has gone or is still to be
\* made has no counter, whatever sign-ins with it are under way.
TypeOK ==
  /\ challenge \in [Challenges -> Challenge]
  /\ key \in [Keys -> Key] /\ other \subseteq Users
  /\ call \in [Calls -> Call] /\ started \in 0..MaxCalls
  /\ winner \in [Challenges -> Users \cup {NoOne, Twice}]
  /\ highest \in [Keys -> 0..MaxCounter] /\ tangled \subseteq Keys /\ crossed \subseteq Users

\* A challenge gives one credential or one session at most, and that to the user
\* it was issued to, if to one, however often its answer is sent and whatever
\* requests take it at a time.  (Which of the users of a challenge for anyone that
\* is, the answer says.)
ChallengeOnce ==
  \A x \in Challenges : winner[x] # Twice /\ (winner[x] # NoOne => Fits(x, winner[x]))

\* The counter stored is the highest that a sign-in with the key was accepted
\* with, so that no answer with an older counter is accepted after it, unless two sign-ins with
\* the key overlapped between their read and their update.
CounterIsHighest ==
  \A k \in Keys : key[k].owner \in Users => k \in tangled \/ key[k].counter = highest[k]

\* No removal takes from a user the last way to sign in, unless two removals
\* each counted the key of the other.
KeepsAMethod == [][\A u \in Users : Method(u) => Method(u)' \/ u \in crossed']_vars
=============================================================================
