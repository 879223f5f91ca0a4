---------------------------- MODULE WebAuthnProofs ----------------------------
(***************************************************************************)
(* What holds of passkeys for any users, credentials, challenges and       *)
(* requests, in whatever order their steps and failures come.              *)
(***************************************************************************)
EXTENDS WebAuthn, FiniteSetTheorems, TLAPS

-----------------------------------------------------------------------------
(* The invariants.                                                         *)

SigningIn == {"answer", "find", "update", "session"}
\* Requests that have taken their challenge.
Past == {"register", "find", "update", "session"}
\* ... and those of them that it fits.
Fitted == {"register", "update", "session"}

\* A sign-in that was compared with a key is with one that was registered.
UpdatesRegistered == \A c \in Calls : At(c, "update") => key[call[c].k].owner # New
Types == TypeOK /\ UpdatesRegistered

\* A challenge that was taken is in the hands of one request, or has been used.
OneTaker ==
  /\ \A c \in Calls : call[c].pc \in Past =>
       challenge[call[c].x].state = Gone /\ winner[call[c].x] = NoOne
  /\ \A c, d \in Calls : call[c].pc \in Past /\ call[d].pc \in Past /\ call[c].x = call[d].x => c = d
  /\ \A x \in Challenges : winner[x] # NoOne => challenge[x].state = Gone
TakersFit == \A c \in Calls : call[c].pc \in Fitted => Fits(call[c].x, call[c].u)
Taking == OneTaker /\ TakersFit /\ ChallengeOnce

\* A sign-in about to store a counter has a newer one.
UpdatesRaise ==
  \A c \in Calls : At(c, "update") /\ key[call[c].k].owner \in Users =>
    call[c].k \in tangled \/ Newer(call[c].n, key[call[c].k].counter)
Counting == UpdatesRaise /\ CounterIsHighest

\* What a removal has counted is still there.
RemovalsCounted ==
  \A c \in Calls : call[c].pc \in {"count", "delete"} =>
    LET u == call[c].u IN
    /\ call[c].keys # Unread => call[c].keys <= Cardinality(Owned(u)) \/ u \in crossed
    /\ call[c].others = 1 => u \in other
    /\ At(c, "delete") => call[c].keys # Unread /\ (call[c].keys > 1 \/ call[c].others > 0)

-----------------------------------------------------------------------------
(* Types.                                                                  *)

\* What a request is in each of its steps.
LEMMA CallFields ==
  ASSUME Types, NEW c \in Calls
  PROVE  /\ At(c, "options") => call[c] \in [pc: {"options"}, u: Users]
         /\ call[c].pc \in {"arrive", "register"} =>
              call[c] \in [pc: {"arrive", "register"}, u: Users, x: Challenges, k: Keys]
         /\ call[c].pc \in SigningIn =>
              call[c] \in [pc: SigningIn, u: Users, x: Challenges, k: Keys, n: 0..MaxCounter]
         /\ call[c].pc \in {"count", "delete"} =>
              call[c] \in [pc: {"count", "delete"}, u: Users, k: Keys,
                           keys: {Unread} \cup Nat, others: {Unread, 0, 1}]
  <1>1. call[c] \in Call
    BY DEF Types, TypeOK
  <1>2. QED
    BY <1>1 DEF Call, Idle, At, SigningIn

\* The keys of a user are counted by a number.
LEMMA OwnedFinite ==
  ASSUME NEW u
  PROVE  IsFiniteSet(Owned(u)) /\ Cardinality(Owned(u)) \in Nat
  <1>1. IsFiniteSet(Keys) /\ Owned(u) \subseteq Keys
    BY WebAuthnAssumption DEF Owned
  <1>2. QED
    BY <1>1, FS_Subset, FS_CardinalityType

\* Every step leaves each request a request.
LEMMA CallsTyped ==
  ASSUME Types, Next
  PROVE  call' \in [Calls -> Call]
  <1>0. call \in [Calls -> Call]
    BY DEF Types, TypeOK
  <1>1. SUFFICES ASSUME NEW c \in Calls, CallStep(c)  PROVE \E s \in Call : call' = [call EXCEPT ![c] = s]
    <2>1. CASE \E c \in Calls : CallStep(c)
      BY <2>1, <1>1, <1>0
    <2>2. CASE ~\E c \in Calls : CallStep(c)
      BY <2>2, <1>0 DEF Next, AnyoneOptions, Vanish, RegisterOptions, AddOther, Issue
    <2>3. QED
      BY <2>1, <2>2
  <1>2. Idle \in Call
    BY DEF Call
  <1>3. CASE \E u \in Users : OptionsLookup(c, u)
    BY <1>3 DEF OptionsLookup, Begin, Call
  <1>4. CASE \E u \in Users, k \in Keys : RemoveFind(c, u, k)
    BY <1>4 DEF RemoveFind, Begin, Call, Unread
  <1>5. CASE \E u \in Users, x \in Challenges, k \in Keys : RegisterSend(c, u, x, k)
    BY <1>5 DEF RegisterSend, Begin, Call
  <1>6. CASE \E u \in Users, x \in Challenges, k \in Keys, n \in 0..MaxCounter : SignInSend(c, u, x, k, n)
    BY <1>6 DEF SignInSend, Begin, Call
  <1>7. CASE RegisterArrives(c)
    <2>1. call[c] \in [pc: {"arrive", "register"}, u: Users, x: Challenges, k: Keys]
      BY <1>7, CallFields DEF RegisterArrives, At
    <2>2. [call[c] EXCEPT !.pc = "register"] \in Call
      BY <2>1 DEF Call
    <2>3. QED
      BY <1>7, <1>2, <2>2 DEF RegisterArrives, Continue, End
  <1>8. CASE SignInArrives(c) \/ SignInFind(c) \/ SignInUpdate(c)
    <2>1. call[c] \in [pc: SigningIn, u: Users, x: Challenges, k: Keys, n: 0..MaxCounter]
      BY <1>8, CallFields DEF SignInArrives, SignInFind, SignInUpdate, At, SigningIn
    <2>2. \A p \in SigningIn : [call[c] EXCEPT !.pc = p] \in Call
      BY <2>1 DEF Call, SigningIn
    <2>3. QED
      BY <1>8, <1>2, <2>2 DEF SignInArrives, SignInFind, SignInUpdate, Continue, End, SigningIn
  <1>9. CASE RemoveCount(c)
    <2>1. call[c] \in [pc: {"count", "delete"}, u: Users, k: Keys, keys: {Unread} \cup Nat, others: {Unread, 0, 1}]
      BY <1>9, CallFields DEF RemoveCount, At
    <2>2. Cardinality(Owned(call[c].u)) \in Nat
      BY OwnedFinite
    <2> DEFINE n == Cardinality(Owned(call[c].u))
               o == IF call[c].u \in other THEN 1 ELSE 0
               a == [call[c] EXCEPT !.keys = n]
               b == [call[c] EXCEPT !.others = o]
    <2>3. a \in Call /\ b \in Call
      BY <2>1, <2>2 DEF Call
    <2>4. [a EXCEPT !.pc = "delete"] \in Call /\ [b EXCEPT !.pc = "delete"] \in Call
      BY <2>1, <2>2 DEF Call
    <2>5. QED
      BY <1>9, <1>2, <2>3, <2>4 DEF RemoveCount, Continue, End
  <1>10. CASE \/ \E x \in Challenges : OptionsIssue(c, x)
              \/ \E n \in 0..MaxCounter : Register(c, n)
              \/ SignInSession(c) \/ RemoveDelete(c) \/ Fail(c)
    BY <1>10, <1>2 DEF OptionsIssue, Register, SignInSession, RemoveDelete, Fail, End, Continue
  <1>11. QED
    BY <1>1, <1>3, <1>4, <1>5, <1>6, <1>7, <1>8, <1>9, <1>10 DEF CallStep

\* A request's step changes that request and no other.
LEMMA OthersStay ==
  ASSUME Types, NEW c \in Calls, CallStep(c)
  PROVE  \A d \in Calls \ {c} : call'[d] = call[d]
  BY DEF Types, TypeOK, CallStep, OptionsLookup, RemoveFind, RegisterSend, SignInSend, OptionsIssue,
         RegisterArrives, Register, SignInArrives, SignInFind, SignInUpdate, SignInSession,
         RemoveCount, RemoveDelete, Fail, Begin, Continue, End

\* The steps that begin a request or end it.
BeginsOrEnds(c) ==
  \/ \E u \in Users : OptionsLookup(c, u)
  \/ \E u \in Users, x \in Challenges, k \in Keys :
       RegisterSend(c, u, x, k) \/ \E n \in 0..MaxCounter : SignInSend(c, u, x, k, n)
  \/ \E x \in Challenges : OptionsIssue(c, x)
  \/ \E n \in 0..MaxCounter : Register(c, n)
  \/ SignInSession(c) \/ RemoveDelete(c) \/ Fail(c)

LEMMA BeganOrEnded ==
  ASSUME Types, NEW c \in Calls, BeginsOrEnds(c)
  PROVE  call'[c].pc \in {"options", "arrive", "answer", "idle"}
  <1>0. call \in [Calls -> Call]
    BY DEF Types, TypeOK
  <1>1. CASE (\E u \in Users : OptionsLookup(c, u)) \/ \E x \in Challenges : OptionsIssue(c, x)
    BY <1>0, <1>1 DEF OptionsLookup, OptionsIssue, Begin, End, Continue, Idle
  <1>2. CASE \E u \in Users, x \in Challenges, k \in Keys : RegisterSend(c, u, x, k)
    BY <1>0, <1>2 DEF RegisterSend, Begin
  <1>3. CASE \E u \in Users, x \in Challenges, k \in Keys, n \in 0..MaxCounter : SignInSend(c, u, x, k, n)
    BY <1>0, <1>3 DEF SignInSend, Begin
  <1>4. CASE (\E n \in 0..MaxCounter : Register(c, n)) \/ SignInSession(c) \/ RemoveDelete(c) \/ Fail(c)
    <2>1. call' = [call EXCEPT ![c] = Idle]
      BY <1>4 DEF Register, SignInSession, RemoveDelete, Fail, End, Continue
    <2>2. QED
      BY <2>1, <1>0 DEF Idle
  <1>5. QED
    BY <1>1, <1>2, <1>3, <1>4 DEF BeginsOrEnds

\* The tables and the cache.
LEMMA TablesTyped ==
  ASSUME Types, Next
  PROVE  /\ challenge' \in [Challenges -> Challenge]
         /\ key' \in [Keys -> Key] /\ other' \subseteq Users
         /\ started' \in 0..MaxCalls
         /\ winner' \in [Challenges -> Users \cup {NoOne, Twice}]
         /\ highest' \in [Keys -> 0..MaxCounter] /\ tangled' \subseteq Keys /\ crossed' \subseteq Users
  <1> USE DEF Types, TypeOK
  <1>1. CASE \/ \E x \in Challenges : AnyoneOptions(x) \/ Vanish(x) \/ \E u \in Users : RegisterOptions(x, u)
             \/ \E c \in Calls, x \in Challenges : OptionsIssue(c, x)
    <2>1. /\ \/ \E x \in Challenges, use \in {"register", "auth"}, u \in Users \cup {NoOne} : Issue(x, use, u)
             \/ \E x \in Challenges : challenge' = [challenge EXCEPT ![x].state = Gone]
          /\ UNCHANGED <<key, other, started, history>>
      <3>1. CASE \E c \in Calls, x \in Challenges : OptionsIssue(c, x)
        BY <3>1, CallFields DEF OptionsIssue, At, End, Continue
      <3>2. CASE \E x \in Challenges : AnyoneOptions(x) \/ Vanish(x) \/ \E u \in Users : RegisterOptions(x, u)
        BY <3>2 DEF AnyoneOptions, RegisterOptions, Vanish
      <3>3. QED
        BY <1>1, <3>1, <3>2
    <2>2. challenge' \in [Challenges -> Challenge]
      BY <2>1 DEF Issue, Challenge
    <2>3. QED
      BY <2>1, <2>2 DEF history
  <1>2. CASE \E u \in Users : AddOther(u)
    BY <1>2 DEF AddOther, history
  <1>3. ASSUME NEW c \in Calls, NEW u \in Users,
               \/ OptionsLookup(c, u)
               \/ \E k \in Keys : RemoveFind(c, u, k)
               \/ \E x \in Challenges, k \in Keys :
                    RegisterSend(c, u, x, k) \/ \E n \in 0..MaxCounter : SignInSend(c, u, x, k, n)
        PROVE  /\ started' \in 0..MaxCalls
               /\ UNCHANGED <<challenge, key, other, history>>
    BY <1>3, WebAuthnAssumption DEF OptionsLookup, RemoveFind, RegisterSend, SignInSend, Begin
  <1>5. ASSUME NEW c \in Calls, RegisterArrives(c) \/ SignInArrives(c)
        PROVE  /\ challenge' \in [Challenges -> Challenge]
               /\ UNCHANGED <<key, other, started, history>>
    <2>1. call[c].x \in Challenges
      BY <1>5, CallFields DEF RegisterArrives, SignInArrives, At, SigningIn
    <2>2. [challenge EXCEPT ![call[c].x].state = Gone] \in [Challenges -> Challenge]
      BY <2>1 DEF Challenge
    <2>3. QED
      BY <1>5, <2>2 DEF RegisterArrives, SignInArrives, Taken, End, Continue
  <1>6. ASSUME NEW c \in Calls, NEW n \in 0..MaxCounter, Register(c, n)
        PROVE  /\ key' \in [Keys -> Key] /\ highest' \in [Keys -> 0..MaxCounter]
               /\ winner' \in [Challenges -> Users \cup {NoOne, Twice}]
               /\ UNCHANGED <<challenge, other, started, tangled, crossed>>
    <2>1. call[c].u \in Users /\ call[c].x \in Challenges /\ call[c].k \in Keys
      BY <1>6, CallFields DEF Register, At
    <2>2. UNCHANGED <<challenge, other, started, tangled, crossed>>
      BY <1>6 DEF Register, End, Continue
    <2>3. winner' \in [Challenges -> Users \cup {NoOne, Twice}]
      BY <1>6, <2>1 DEF Register, Wins
    <2>4. [owner |-> call[c].u, counter |-> n] \in Key
      BY <2>1 DEF Key
    <2>5. QED
      BY <1>6, <2>1, <2>2, <2>3, <2>4 DEF Register
  <1>7. ASSUME NEW c \in Calls, SignInUpdate(c)
        PROVE  /\ key' \in [Keys -> Key] /\ highest' \in [Keys -> 0..MaxCounter] /\ tangled' \subseteq Keys
               /\ UNCHANGED <<challenge, other, started, winner, crossed>>
    <2>1. call[c].u \in Users /\ call[c].k \in Keys /\ call[c].n \in 0..MaxCounter
      BY <1>7, CallFields DEF SignInUpdate, At, SigningIn
    <2>2. UNCHANGED <<challenge, other, started, winner, crossed>>
      BY <1>7 DEF SignInUpdate, End, Continue
    <2>3. CASE StillThere(c)
      <3>1. /\ key' = [key EXCEPT ![call[c].k].counter = call[c].n]
            /\ highest' = [highest EXCEPT ![call[c].k] = IF call[c].n > @ THEN call[c].n ELSE @]
            /\ tangled' \subseteq tangled \cup {call[c].k}
        BY <1>7, <2>3 DEF SignInUpdate
      <3>2. key[call[c].k] \in [owner: Users, counter: 0..MaxCounter]
        BY <2>1, <2>3, WebAuthnAssumption DEF StillThere, Key
      <3>3. [key[call[c].k] EXCEPT !.counter = call[c].n] \in Key
        BY <2>1, <3>2 DEF Key
      <3>4. key' \in [Keys -> Key]
        BY <3>1, <3>3, <2>1
      <3>5. highest' \in [Keys -> 0..MaxCounter]
        BY <3>1, <2>1
      <3>6. QED
        BY <3>1, <3>4, <3>5, <2>1, <2>2
    <2>4. CASE ~StillThere(c)
      BY <1>7, <2>4, <2>2 DEF SignInUpdate
    <2>5. QED
      BY <2>3, <2>4
  <1>8. ASSUME NEW c \in Calls, RemoveDelete(c)
        PROVE  /\ key' \in [Keys -> Key] /\ crossed' \subseteq Users
               /\ UNCHANGED <<challenge, other, started, winner, highest, tangled>>
    <2>1. call[c].u \in Users /\ call[c].k \in Keys
      BY <1>8, CallFields DEF RemoveDelete, At
    <2>2. NoKey \in Key
      BY DEF NoKey, Key
    <2>3. QED
      BY <1>8, <2>1, <2>2, WebAuthnAssumption DEF RemoveDelete, End, Continue
  <1>9. ASSUME NEW c \in Calls, SignInSession(c)
        PROVE  /\ winner' \in [Challenges -> Users \cup {NoOne, Twice}]
               /\ UNCHANGED <<challenge, key, other, started, highest, tangled, crossed>>
    <2>1. call[c].u \in Users /\ call[c].x \in Challenges
      BY <1>9, CallFields DEF SignInSession, At, SigningIn
    <2>2. QED
      BY <1>9, <2>1 DEF SignInSession, Wins, End, Continue
  <1>10. ASSUME NEW c \in Calls, SignInFind(c) \/ RemoveCount(c) \/ Fail(c)
         PROVE  UNCHANGED <<challenge, key, other, started, history>>
    BY <1>10 DEF SignInFind, RemoveCount, Fail, End, Continue
  <1>11. CASE \E c \in Calls : CallStep(c)
    <2>1. PICK c \in Calls : CallStep(c)
      BY <1>11
    <2>2. ASSUME NEW u \in Users,
                 \/ OptionsLookup(c, u)
                 \/ \E k \in Keys : RemoveFind(c, u, k)
                 \/ \E x \in Challenges, k \in Keys :
                      RegisterSend(c, u, x, k) \/ \E n \in 0..MaxCounter : SignInSend(c, u, x, k, n)
          PROVE  /\ started' \in 0..MaxCalls
                 /\ UNCHANGED <<challenge, key, other, history>>
      BY <2>2, <1>3
    <2>3. CASE \E u \in Users : \/ OptionsLookup(c, u)
                                \/ \E k \in Keys : RemoveFind(c, u, k)
                                \/ \E x \in Challenges, k \in Keys :
                                     RegisterSend(c, u, x, k) \/ \E n \in 0..MaxCounter : SignInSend(c, u, x, k, n)
      BY <2>2, <2>3 DEF history
    <2>4. CASE \E x \in Challenges : OptionsIssue(c, x)
      BY <2>4, <1>1
    <2>5. CASE RegisterArrives(c) \/ SignInArrives(c)
      BY <2>5, <1>5 DEF history
    <2>6. CASE SignInFind(c) \/ RemoveCount(c) \/ Fail(c)
      BY <2>6, <1>10 DEF history
    <2>7. CASE \E n \in 0..MaxCounter : Register(c, n)
      BY <2>7, <1>6
    <2>8. CASE SignInUpdate(c)
      BY <2>8, <1>7
    <2>9. CASE SignInSession(c)
      BY <2>9, <1>9
    <2>10. CASE RemoveDelete(c)
      BY <2>10, <1>8
    <2>11. QED
      BY <2>1, <2>3, <2>4, <2>5, <2>6, <2>7, <2>8, <2>9, <2>10 DEF CallStep
  <1>12. QED
    BY <1>1, <1>2, <1>11 DEF Next

\* A key once registered does not become new.
LEMMA KeysAge ==
  ASSUME Types, Next, NEW k \in Keys, key[k].owner # New
  PROVE  key'[k].owner # New
  <1> USE DEF Types, TypeOK
  <1>1. CASE \E c \in Calls, n \in 0..MaxCounter : Register(c, n)
    <2>1. PICK c \in Calls, n \in 0..MaxCounter : Register(c, n)
      BY <1>1
    <2>2. call[c].u \in Users /\ call[c].k \in Keys
      BY <2>1, CallFields DEF Register, At
    <2>3. QED
      BY <2>1, <2>2, WebAuthnAssumption DEF Register
  <1>3. CASE \E c \in Calls : SignInUpdate(c)
    <2>1. PICK c \in Calls : SignInUpdate(c)
      BY <1>3
    <2>2. \/ key' = [key EXCEPT ![call[c].k] = [key[call[c].k] EXCEPT !.counter = call[c].n]]
          \/ key' = key
      BY <2>1 DEF SignInUpdate
    <2>3. \A j \in Keys : [key[j] EXCEPT !.counter = call[c].n].owner = key[j].owner
      BY DEF Key
    <2>4. key'[k].owner = key[k].owner
      BY <2>2, <2>3
    <2>5. QED
      BY <2>1, <2>4 DEF SignInUpdate
  <1>4. CASE \E c \in Calls : RemoveDelete(c)
    BY <1>4 DEF RemoveDelete, NoKey, New, Gone
  <1>5. CASE UNCHANGED key
    BY <1>5
  <1>6. QED
    BY <1>1, <1>3, <1>4, <1>5 DEF Next, CallStep, OptionsLookup, RemoveFind, RegisterSend, SignInSend, OptionsIssue,
       RegisterArrives, SignInArrives, SignInFind, SignInSession, RemoveCount, Fail,
       AnyoneOptions, RegisterOptions, Vanish, AddOther

\* What removeWebAuthnCredential has after the answer of one of its counts.
LEMMA CountResult ==
  ASSUME Types, NEW c \in Calls, RemoveCount(c)
  PROVE  LET keys == Cardinality(Owned(call[c].u))
             others == IF call[c].u \in other THEN 1 ELSE 0
         IN  \/ call'[c] = Idle
             \/ /\ call'[c].pc \in {"count", "delete"} /\ call'[c].u = call[c].u /\ call'[c].k = call[c].k
                /\ \/ call'[c].keys = keys /\ call'[c].others = call[c].others
                   \/ call'[c].keys = call[c].keys /\ call'[c].others = others
                /\ call'[c].pc = "delete" =>
                     Unread \notin {call'[c].keys, call'[c].others} /\ Spare(call'[c].keys, call'[c].others)
  <1>1. call[c] \in [pc: {"count", "delete"}, u: Users, k: Keys, keys: {Unread} \cup Nat, others: {Unread, 0, 1}]
        /\ call \in [Calls -> Call]
    BY CallFields DEF RemoveCount, At, Types, TypeOK
  <1> DEFINE keys == Cardinality(Owned(call[c].u))
             others == IF call[c].u \in other THEN 1 ELSE 0
  <1>2. PICK s : /\ s \in {[call[c] EXCEPT !.keys = keys], [call[c] EXCEPT !.others = others]}
                 /\ At(c, "count")
                 /\ \/ Unread \in {s.keys, s.others} /\ call' = [call EXCEPT ![c] = s]
                    \/ /\ Unread \notin {s.keys, s.others} /\ Spare(s.keys, s.others)
                       /\ call' = [call EXCEPT ![c] = [s EXCEPT !.pc = "delete"]]
                    \/ call' = [call EXCEPT ![c] = Idle]
    BY DEF RemoveCount, Continue, End
  <1>3. /\ s.pc = "count" /\ s.u = call[c].u /\ s.k = call[c].k
        /\ \/ s.keys = keys /\ s.others = call[c].others
           \/ s.keys = call[c].keys /\ s.others = others
        /\ s = [pc |-> s.pc, u |-> s.u, k |-> s.k, keys |-> s.keys, others |-> s.others]
    BY <1>1, <1>2 DEF At
  <1>4. CASE Unread \in {s.keys, s.others} /\ call' = [call EXCEPT ![c] = s]
    <2>1. call'[c] = s
      BY <1>1, <1>4
    <2>2. QED
      BY <1>3, <2>1
  <1>5. CASE /\ Unread \notin {s.keys, s.others} /\ Spare(s.keys, s.others)
             /\ call' = [call EXCEPT ![c] = [s EXCEPT !.pc = "delete"]]
    <2>1. call'[c] = [s EXCEPT !.pc = "delete"]
      BY <1>1, <1>5
    <2>2. call'[c] = [pc |-> "delete", u |-> s.u, k |-> s.k, keys |-> s.keys, others |-> s.others]
      BY <1>3, <2>1
    <2>3. QED
      BY <1>3, <1>5, <2>2
  <1>6. CASE call' = [call EXCEPT ![c] = Idle]
    BY <1>1, <1>6
  <1>7. QED
    BY <1>2, <1>4, <1>5, <1>6

\* A sign-in is about to store a counter once it has compared it with the row.
LEMMA UpdatesCompared ==
  ASSUME Types, Next, NEW c \in Calls, At(c, "update")'
  PROVE  /\ call'[c].k = call[c].k /\ call'[c].n = call[c].n
         /\ \/ At(c, "update")
            \/ /\ Newer(call[c].n, key[call[c].k].counter) /\ key[call[c].k].owner \in Users
               /\ UNCHANGED <<key, tangled>>
  <1>0. call \in [Calls -> Call] /\ call'[c].pc = "update"
    BY DEF At, Types, TypeOK
  <1>1. CASE SignInFind(c)
    <2>1. call[c] \in [pc: SigningIn, u: Users, x: Challenges, k: Keys, n: 0..MaxCounter]
      BY <1>1, CallFields DEF SignInFind, At, SigningIn
    <2>2. /\ call' = [call EXCEPT ![c] = [call[c] EXCEPT !.pc = "update"]]
          /\ Newer(call[c].n, key[call[c].k].counter) /\ key[call[c].k].owner \in Users
          /\ UNCHANGED <<key, tangled>>
      BY <1>1, <1>0, <2>1 DEF SignInFind, End, Continue, Idle, history
    <2>3. QED
      BY <1>0, <2>1, <2>2
  <1>2. CASE call'[c] = call[c]
    BY <1>2 DEF At
  <1>3. CASE CallStep(c) /\ ~SignInFind(c)
    <2>1. CASE SignInArrives(c) \/ SignInUpdate(c)
      <3>1. call[c] \in [pc: SigningIn, u: Users, x: Challenges, k: Keys, n: 0..MaxCounter]
        BY <2>1, CallFields DEF SignInArrives, SignInUpdate, At, SigningIn
      <3>2. call'[c] \in {Idle, [call[c] EXCEPT !.pc = "find"], [call[c] EXCEPT !.pc = "session"]}
        BY <2>1, <1>0 DEF SignInArrives, SignInUpdate, End, Continue
      <3>3. QED
        BY <1>0, <3>1, <3>2 DEF Idle
    <2>2. CASE RegisterArrives(c)
      <3>1. call[c] \in [pc: {"arrive", "register"}, u: Users, x: Challenges, k: Keys]
        BY <2>2, CallFields DEF RegisterArrives, At
      <3>2. call'[c] \in {Idle, [call[c] EXCEPT !.pc = "register"]}
        BY <2>2, <1>0 DEF RegisterArrives, End, Continue
      <3>3. QED
        BY <1>0, <3>1, <3>2 DEF Idle
    <2>3. CASE RemoveCount(c)
      BY <2>3, <1>0, CountResult DEF Idle
    <2>4. CASE \E u \in Users, k \in Keys : RemoveFind(c, u, k)
      BY <2>4, <1>0 DEF RemoveFind, Begin
    <2>5. CASE BeginsOrEnds(c)
      BY <2>5, <1>0, BeganOrEnded
    <2>6. QED
      BY <1>3, <2>1, <2>2, <2>3, <2>4, <2>5 DEF CallStep, BeginsOrEnds
  <1>4. CallStep(c) \/ call'[c] = call[c]
    BY OthersStay DEF Next, AnyoneOptions, RegisterOptions, Vanish, AddOther
  <1>5. QED
    BY <1>1, <1>2, <1>3, <1>4

LEMMA TypesInit == Init => Types
  <1> SUFFICES ASSUME Init  PROVE Types
    OBVIOUS
  <1>1. challenge \in [Challenges -> Challenge]
    BY DEF Init, Challenge
  <1>2. key \in [Keys -> Key] /\ \A k \in Keys : key[k].counter = 0
    BY WebAuthnAssumption DEF Init, Key
  <1>3. call \in [Calls -> Call] /\ \A c \in Calls : call[c].pc = "idle"
    BY DEF Init, Call, Idle
  <1>4. QED
    BY <1>1, <1>2, <1>3, WebAuthnAssumption DEF Init, Types, TypeOK, UpdatesRegistered, At

LEMMA TypesNext == Types /\ [Next]_vars => Types'
  <1> SUFFICES ASSUME Types, [Next]_vars  PROVE Types'
    OBVIOUS
  <1>1. CASE Next
    <2>1. TypeOK'
      BY <1>1, CallsTyped, TablesTyped DEF TypeOK
    <2>2. UpdatesRegistered'
      <3> SUFFICES ASSUME NEW c \in Calls, At(c, "update")'  PROVE key'[call'[c].k].owner # New
        BY DEF UpdatesRegistered, At
      <3>1. CASE At(c, "update")
        <4>1. call[c].k \in Keys /\ key[call[c].k].owner # New
          BY <3>1, CallFields DEF At, SigningIn, Types, UpdatesRegistered
        <4>2. QED
          BY <1>1, <4>1, KeysAge, UpdatesCompared
      <3>2. CASE key[call[c].k].owner \in Users /\ UNCHANGED <<key, tangled>>
        BY <1>1, <3>2, UpdatesCompared, WebAuthnAssumption
      <3>3. QED
        BY <1>1, <3>1, <3>2, UpdatesCompared
    <2>3. QED
      BY <2>1, <2>2 DEF Types
  <1>2. CASE UNCHANGED vars
    BY <1>2 DEF Types, TypeOK, UpdatesRegistered, At, vars, Challenge, Key, Call, Idle
  <1>3. QED
    BY <1>1, <1>2

\* The cache, the accounts and the requests keep their types: a credential that
\* was removed is not given a counter again by a sign-in that had read it.
THEOREM WebAuthnTyped == Spec => []TypeOK
  <1>1. Types => TypeOK
    BY DEF Types
  <1>2. QED
    BY TypesInit, TypesNext, <1>1, PTL DEF Spec

-----------------------------------------------------------------------------
(* Challenges.                                                             *)

\* What a request that has taken its challenge had before the step.
LEMMA PastGoesOn ==
  ASSUME Types, Next, NEW c \in Calls, call'[c].pc \in Past
  PROVE  LET x == call'[c].x IN
         /\ x \in Challenges /\ call'[c].u \in Users /\ x = call[c].x /\ call'[c].u = call[c].u
         /\ \/ call[c].pc \in Past
            \/ /\ challenge[x].state = "open" /\ challenge' = Taken(x) /\ winner' = winner
               /\ \A d \in Calls \ {c} : call'[d] = call[d]
         /\ call'[c].pc \in Fitted => call[c].pc \in Fitted \/ Fits(x, call'[c].u)
  <1>0. call \in [Calls -> Call]
    BY DEF Types, TypeOK
  <1>1. CASE call'[c] = call[c]
    <2>1. call[c].u \in Users /\ call[c].x \in Challenges
      BY <1>1, CallFields DEF Past, SigningIn
    <2>2. QED
      BY <1>1, <2>1
  <1>2. CASE RegisterArrives(c)
    <2>1. call[c] \in [pc: {"arrive", "register"}, u: Users, x: Challenges, k: Keys]
      BY <1>2, CallFields DEF RegisterArrives, At
    <2>2. call' = [call EXCEPT ![c] = [call[c] EXCEPT !.pc = "register"]] \/ call' = [call EXCEPT ![c] = Idle]
      BY <1>2 DEF RegisterArrives, Continue, End
    <2>3. call' = [call EXCEPT ![c] = [call[c] EXCEPT !.pc = "register"]]
      BY <2>2, <1>0 DEF Past, Idle
    <2>4. call'[c] # Idle
      BY <2>3, <2>1, <1>0 DEF Idle
    <2>5. /\ challenge[call[c].x].state = "open" /\ challenge[call[c].x].user = call[c].u
          /\ challenge' = Taken(call[c].x) /\ winner' = winner
      BY <1>2, <2>4, <1>0 DEF RegisterArrives, End, Continue, Opens, history
    <2>6. call'[c].x = call[c].x /\ call'[c].u = call[c].u
      BY <2>1, <2>3, <1>0
    <2>7. QED
      BY <2>1, <2>3, <2>5, <2>6, <1>0 DEF Fits
  <1>3. CASE SignInArrives(c) \/ SignInFind(c) \/ SignInUpdate(c)
    <2>1. call[c] \in [pc: SigningIn, u: Users, x: Challenges, k: Keys, n: 0..MaxCounter]
      BY <1>3, CallFields DEF SignInArrives, SignInFind, SignInUpdate, At, SigningIn
    <2>2. \A p \in SigningIn : /\ [call[c] EXCEPT !.pc = p].pc = p
                               /\ [call[c] EXCEPT !.pc = p].x = call[c].x
                               /\ [call[c] EXCEPT !.pc = p].u = call[c].u
      BY <2>1
    <2>3. Idle.pc \notin Past
      BY DEF Idle, Past
    <2>4. CASE SignInArrives(c)
      <3>1. /\ call' = [call EXCEPT ![c] = [call[c] EXCEPT !.pc = "find"]]
            /\ challenge[call[c].x].state = "open" /\ challenge' = Taken(call[c].x) /\ winner' = winner
        BY <2>4, <2>3, <1>0 DEF SignInArrives, End, Continue, Opens, history
      <3>2. call'[c].pc = "find" /\ call'[c].x = call[c].x /\ call'[c].u = call[c].u
        BY <3>1, <2>2, <1>0 DEF SigningIn
      <3>3. QED
        BY <3>1, <3>2, <2>1, <1>0 DEF Fitted
    <2>5. CASE SignInFind(c)
      <3>1. /\ call' = [call EXCEPT ![c] = [call[c] EXCEPT !.pc = "update"]]
            /\ Fits(call[c].x, call[c].u) /\ call[c].pc = "find"
        BY <2>5, <2>3, <1>0 DEF SignInFind, End, Continue, At
      <3>2. call'[c].x = call[c].x /\ call'[c].u = call[c].u
        BY <3>1, <2>2, <1>0 DEF SigningIn
      <3>3. QED
        BY <3>1, <3>2, <2>1 DEF Past
    <2>6. CASE SignInUpdate(c)
      <3>1. call' = [call EXCEPT ![c] = [call[c] EXCEPT !.pc = "session"]] /\ call[c].pc = "update"
        BY <2>6, <2>3, <1>0 DEF SignInUpdate, End, Continue, At
      <3>2. call'[c].x = call[c].x /\ call'[c].u = call[c].u
        BY <3>1, <2>2, <1>0 DEF SigningIn
      <3>3. QED
        BY <3>1, <3>2, <2>1 DEF Past, Fitted
    <2>7. QED
      BY <1>3, <2>4, <2>5, <2>6
  <1>4. CASE RemoveCount(c)
    BY <1>4, CountResult DEF Idle, Past
  <1>5. CASE (\E u \in Users, k \in Keys : RemoveFind(c, u, k)) \/ BeginsOrEnds(c)
    <2>1. call'[c].pc \in {"options", "count", "arrive", "answer", "idle"}
      BY <1>5, <1>0, BeganOrEnded DEF RemoveFind, Begin
    <2>2. QED
      BY <2>1 DEF Past
  <1>6. CallStep(c) \/ call'[c] = call[c]
    BY OthersStay DEF Next, AnyoneOptions, RegisterOptions, Vanish, AddOther
  <1>7. QED
    BY <1>1, <1>2, <1>3, <1>4, <1>5, <1>6 DEF CallStep, BeginsOrEnds

\* A challenge is issued once and keeps its user; one that has left the cache never comes back.
LEMMA ChallengesAge ==
  ASSUME Types, Next, NEW x \in Challenges
  PROVE  /\ challenge[x].state = Gone => challenge'[x] = challenge[x]
         /\ challenge[x].state # New => challenge'[x].user = challenge[x].user
  <1>0. challenge \in [Challenges -> Challenge]
    BY DEF Types, TypeOK
  <1>1. ASSUME NEW y \in Challenges, NEW use, NEW u, Issue(y, use, u)
        PROVE  challenge[x].state # New => challenge'[x] = challenge[x]
    BY <1>0, <1>1 DEF Issue
  <1>2. ASSUME NEW y \in Challenges, challenge[y].state # New, challenge' = [challenge EXCEPT ![y].state = Gone]
        PROVE  /\ challenge[x].state = Gone => challenge'[x] = challenge[x]
               /\ challenge'[x].user = challenge[x].user
    <2>1. challenge[x] \in Challenge
      BY <1>0
    <2>2. CASE x = y
      <3>1. challenge'[x] = [challenge[x] EXCEPT !.state = Gone]
        BY <1>0, <1>2, <2>2
      <3>2. QED
        BY <2>1, <3>1 DEF Challenge
    <2>3. CASE x # y
      BY <1>0, <1>2, <2>3
    <2>4. QED
      BY <2>2, <2>3
  <1>3. CASE \E y \in Challenges : Vanish(y)
    BY <1>2, <1>3 DEF Vanish, New
  <1>4. CASE \E c \in Calls : RegisterArrives(c) \/ SignInArrives(c)
    <2>1. PICK c \in Calls : RegisterArrives(c) \/ SignInArrives(c)
      BY <1>4
    <2>2. call[c].x \in Challenges
      BY <2>1, CallFields DEF RegisterArrives, SignInArrives, At, SigningIn
    <2>3. \/ challenge' = challenge
          \/ challenge[call[c].x].state # New /\ challenge' = [challenge EXCEPT ![call[c].x].state = Gone]
      BY <2>1 DEF RegisterArrives, SignInArrives, Opens, Taken, New
    <2>4. QED
      BY <1>2, <2>2, <2>3
  <1>5. CASE \E y \in Challenges : \E use, u : Issue(y, use, u)
    BY <1>1, <1>5 DEF New, Gone
  <1>6. CASE challenge' = challenge
    BY <1>6
  <1>7. QED
    BY <1>3, <1>4, <1>5, <1>6 DEF Next, CallStep, OptionsLookup, RemoveFind, RegisterSend, SignInSend, OptionsIssue,
       Register, SignInFind, SignInUpdate, SignInSession, RemoveCount, RemoveDelete, Fail,
       AnyoneOptions, RegisterOptions, AddOther

\* Only a request that has taken a challenge wins by it, and ends.
LEMMA WinnersStep ==
  ASSUME Types, Next, NEW x \in Challenges
  PROVE  \/ winner'[x] = winner[x]
         \/ \E c \in Calls : /\ call[c].pc \in {"register", "session"} /\ call[c].x = x /\ call[c].u \in Users
                             /\ call'[c] = Idle /\ \A d \in Calls \ {c} : call'[d] = call[d]
                             /\ winner'[x] = (IF winner[x] = NoOne THEN call[c].u ELSE Twice)
  <1>0. winner \in [Challenges -> Users \cup {NoOne, Twice}] /\ call \in [Calls -> Call]
    BY DEF Types, TypeOK
  <1>1. CASE \E c \in Calls : SignInSession(c) \/ \E n \in 0..MaxCounter : Register(c, n)
    <2>1. PICK c \in Calls : SignInSession(c) \/ \E n \in 0..MaxCounter : Register(c, n)
      BY <1>1
    <2>2. call[c].pc \in {"register", "session"}
      BY <2>1 DEF Register, SignInSession, At
    <2>3. call[c].u \in Users /\ call[c].x \in Challenges
      BY <2>2, CallFields DEF SigningIn
    <2>4. call' = [call EXCEPT ![c] = Idle]
      BY <2>1 DEF Register, SignInSession, End, Continue
    <2>5. winner' = winner \/ winner' = [winner EXCEPT ![call[c].x] = IF @ = NoOne THEN call[c].u ELSE Twice]
      BY <2>1 DEF Register, SignInSession, Wins
    <2>6. QED
      BY <1>0, <2>2, <2>3, <2>4, <2>5
  <1>2. CASE winner' = winner
    BY <1>2
  <1>3. QED
    BY <1>1, <1>2 DEF Next, CallStep, OptionsLookup, RemoveFind, RegisterSend, SignInSend, OptionsIssue,
       RegisterArrives, SignInArrives, SignInFind, SignInUpdate, RemoveCount, RemoveDelete, Fail,
       AnyoneOptions, RegisterOptions, Vanish, AddOther, history

LEMMA TakingNext == Types /\ Taking /\ [Next]_vars => Taking'
  <1> SUFFICES ASSUME Types, Taking, [Next]_vars  PROVE Taking'
    OBVIOUS
  <1>1. CASE UNCHANGED vars
    BY <1>1 DEF Taking, OneTaker, TakersFit, ChallengeOnce, Fits, vars
  <1>2. CASE Next
    <2> USE <1>2
    <2>0. challenge \in [Challenges -> Challenge]
      BY DEF Types, TypeOK
    <2>1. \A x \in Challenges : Taken(x)[x].state = Gone
      BY <2>0 DEF Taken, Challenge
    <2>2. ASSUME NEW c \in Calls, call'[c].pc \in Past
          PROVE  challenge'[call'[c].x].state = Gone /\ winner'[call'[c].x] = NoOne
      <3> DEFINE x == call'[c].x
      <3>1. x \in Challenges /\ x = call[c].x
        BY <2>2, PastGoesOn
      <3>2. CASE call[c].pc \in Past
        <4>1. challenge[x].state = Gone /\ winner[x] = NoOne
          BY <3>1, <3>2 DEF Taking, OneTaker
        <4>2. challenge'[x].state = Gone
          BY <3>1, <4>1, ChallengesAge
        <4>3. CASE winner'[x] = winner[x]
          BY <4>1, <4>2, <4>3
        <4>4. ASSUME NEW d \in Calls, call[d].pc \in {"register", "session"}, call[d].x = x, call'[d] = Idle
              PROVE  FALSE
          <5>1. d = c
            BY <3>1, <3>2, <4>4 DEF Taking, OneTaker, Past
          <5>2. QED
            BY <2>2, <4>4, <5>1 DEF Idle, Past
        <4>5. QED
          BY <3>1, <4>2, <4>3, <4>4, WinnersStep
      <3>3. CASE challenge[x].state = "open" /\ challenge' = Taken(x) /\ winner' = winner
        BY <2>1, <3>1, <3>3 DEF Taking, OneTaker, Gone
      <3>4. QED
        BY <2>2, <3>2, <3>3, PastGoesOn
    <2>3. ASSUME NEW c \in Calls, NEW d \in Calls, call'[c].pc \in Past, call'[d].pc \in Past,
                 call'[c].x = call'[d].x, c # d
          PROVE  FALSE
      <3>1. /\ call[c].x = call'[c].x /\ call[d].x = call'[c].x
        BY <2>3, PastGoesOn
      <3>2. CASE call[c].pc \in Past /\ call[d].pc \in Past
        BY <2>3, <3>1, <3>2 DEF Taking, OneTaker
      <3>3. ASSUME NEW a \in Calls, NEW b \in Calls, a # b, call[a].x = call[b].x, call'[b].pc \in Past,
                   challenge[call[a].x].state = "open", \A e \in Calls \ {a} : call'[e] = call[e]
            PROVE  FALSE
        <4>1. call[b].pc \in Past
          BY <3>3
        <4>2. QED
          BY <3>3, <4>1 DEF Taking, OneTaker, Gone
      <3>4. QED
        BY <2>3, <3>1, <3>2, <3>3, PastGoesOn
    <2>4. ASSUME NEW x \in Challenges, winner'[x] # NoOne
          PROVE  challenge'[x].state = Gone
      <3>1. challenge[x].state = Gone
        BY <2>4, WinnersStep DEF Taking, OneTaker, Past
      <3>2. QED
        BY <3>1, ChallengesAge
    <2>5. ASSUME NEW c \in Calls, call'[c].pc \in Fitted
          PROVE  challenge'[call'[c].x].user \in {NoOne, call'[c].u}
      <3> DEFINE x == call'[c].x
      <3>1. /\ x \in Challenges /\ x = call[c].x /\ call'[c].u = call[c].u
            /\ call[c].pc \in Past \/ challenge[x].state = "open"
            /\ call[c].pc \in Fitted \/ Fits(x, call[c].u)
        BY <2>5, PastGoesOn DEF Past, Fitted
      <3>2. Fits(x, call[c].u) /\ challenge[x].state # New
        BY <3>1 DEF Taking, TakersFit, OneTaker, New, Gone
      <3>3. QED
        BY <3>1, <3>2, ChallengesAge DEF Fits
    <2>6. ASSUME NEW x \in Challenges
          PROVE  winner'[x] # Twice /\ (winner'[x] # NoOne => challenge'[x].user \in {NoOne, winner'[x]})
      <3>1. CASE winner'[x] = winner[x]
        <4>1. winner[x] # NoOne => challenge'[x] = challenge[x]
          BY ChallengesAge DEF Taking, OneTaker
        <4>2. QED
          BY <3>1, <4>1 DEF Taking, ChallengeOnce, Fits
      <3>2. ASSUME NEW c \in Calls, call[c].pc \in {"register", "session"}, call[c].x = x, call[c].u \in Users,
                   winner'[x] = (IF winner[x] = NoOne THEN call[c].u ELSE Twice)
            PROVE  winner'[x] # Twice /\ challenge'[x].user \in {NoOne, winner'[x]}
        <4>1. winner[x] = NoOne /\ challenge[x].state = Gone
          BY <3>2 DEF Taking, OneTaker, Past
        <4>2. Fits(x, call[c].u)
          BY <3>2 DEF Taking, TakersFit, Fitted
        <4>3. QED
          BY <3>2, <4>1, <4>2, ChallengesAge, WebAuthnAssumption DEF Fits
      <3>3. QED
        BY <3>1, <3>2, WinnersStep
    <2>7. QED
      BY <2>2, <2>3, <2>4, <2>5, <2>6 DEF Taking, OneTaker, TakersFit, ChallengeOnce, Fits
  <1>3. QED
    BY <1>1, <1>2

\* A challenge gives one credential or one session at most, and that to the user
\* it was issued to, if to one, however many requests send its answer at a time.
THEOREM ChallengedOnce == Spec => []ChallengeOnce
  <1>1. Init => Taking
    BY WebAuthnAssumption DEF Init, Taking, OneTaker, TakersFit, ChallengeOnce, Past, Fitted, Idle
  <1>2. Taking => ChallengeOnce
    BY DEF Taking
  <1>3. QED
    BY TypesInit, TypesNext, TakingNext, <1>1, <1>2, PTL DEF Spec

-----------------------------------------------------------------------------
(* Counters.                                                               *)

\* What a step makes of a key.
LEMMA KeysStep ==
  ASSUME Types, Next, NEW k \in Keys
  PROVE  /\ tangled \subseteq tangled'
         /\ \/ key'[k] = key[k] /\ highest'[k] = highest[k]
            \/ key[k].owner = New /\ key'[k].counter = highest'[k]
            \/ key'[k] = NoKey
            \/ \E c \in Calls : /\ SignInUpdate(c) /\ At(c, "update") /\ call[c].k = k
                                /\ key[k].owner \in Users /\ key'[k] = [key[k] EXCEPT !.counter = call[c].n]
                                /\ highest'[k] = (IF call[c].n > highest[k] THEN call[c].n ELSE highest[k])
                                /\ ~At(c, "update")'
                                /\ \A d \in Calls \ {c} : At(d, "update") /\ call[d].k = k => k \in tangled'
  <1>0. /\ key \in [Keys -> Key] /\ highest \in [Keys -> 0..MaxCounter] /\ call \in [Calls -> Call]
    BY DEF Types, TypeOK
  <1>1. CASE \E c \in Calls, n \in 0..MaxCounter : Register(c, n)
    <2>1. PICK c \in Calls, n \in 0..MaxCounter : Register(c, n)
      BY <1>1
    <2>2. call[c].k \in Keys
      BY <2>1, CallFields DEF Register, At
    <2>3. QED
      BY <2>1, <2>2, <1>0 DEF Register
  <1>2. CASE \E c \in Calls : RemoveDelete(c)
    BY <1>2, <1>0 DEF RemoveDelete
  <1>3. CASE \E c \in Calls : SignInUpdate(c)
    <2>1. PICK c \in Calls : SignInUpdate(c)
      BY <1>3
    <2>2. /\ At(c, "update") /\ call[c].k \in Keys /\ call[c].u \in Users
          /\ call[c] \in [pc: SigningIn, u: Users, x: Challenges, k: Keys, n: 0..MaxCounter]
      BY <2>1, CallFields DEF SignInUpdate, At, SigningIn
    <2>3. CASE StillThere(c) /\ call[c].k = k
      <3>1. /\ key' = [key EXCEPT ![k].counter = call[c].n]
            /\ highest' = [highest EXCEPT ![k] = IF call[c].n > @ THEN call[c].n ELSE @]
            /\ call' = [call EXCEPT ![c] = [call[c] EXCEPT !.pc = "session"]]
            /\ tangled' = IF \E d \in Calls \ {c} : At(d, "update") /\ call[d].k = k
                          THEN tangled \cup {k} ELSE tangled
        BY <2>1, <2>3 DEF SignInUpdate, Continue
      <3>2. ~At(c, "update")'
        BY <2>2, <3>1, <1>0 DEF At
      <3>3. key'[k] = [key[k] EXCEPT !.counter = call[c].n]
        BY <3>1, <1>0
      <3>4. QED
        BY <2>1, <2>2, <2>3, <3>1, <3>2, <3>3, <1>0 DEF StillThere
    <2>4. CASE ~(StillThere(c) /\ call[c].k = k)
      BY <2>1, <2>4, <2>2, <1>0 DEF SignInUpdate
    <2>5. QED
      BY <2>3, <2>4
  <1>4. CASE UNCHANGED <<key, highest, tangled>>
    BY <1>4
  <1>5. QED
    BY <1>1, <1>2, <1>3, <1>4 DEF Next, CallStep, OptionsLookup, RemoveFind, RegisterSend, SignInSend, OptionsIssue,
       RegisterArrives, SignInArrives, SignInFind, SignInSession, RemoveCount, Fail,
       AnyoneOptions, RegisterOptions, Vanish, AddOther, history

LEMMA CountingNext == Types /\ Counting /\ [Next]_vars => Counting'
  <1> SUFFICES ASSUME Types, Counting, [Next]_vars  PROVE Counting'
    OBVIOUS
  <1>1. CASE UNCHANGED vars
    BY <1>1 DEF Counting, UpdatesRaise, CounterIsHighest, At, vars
  <1>2. CASE Next
    <2>0. /\ key \in [Keys -> Key] /\ highest \in [Keys -> 0..MaxCounter]
          /\ \A k \in Keys : key[k].counter \in Int
      BY DEF Types, TypeOK, Key
    <2>1. ASSUME NEW c \in Calls, At(c, "update")', key'[call'[c].k].owner \in Users, call'[c].k \notin tangled'
          PROVE  Newer(call'[c].n, key'[call'[c].k].counter)
      <3> DEFINE k == call[c].k
      <3>1. /\ call'[c].k = k /\ call'[c].n = call[c].n
            /\ \/ At(c, "update")
               \/ Newer(call[c].n, key[k].counter) /\ UNCHANGED <<key, tangled>>
        BY <1>2, <2>1, UpdatesCompared
      <3>2. CASE At(c, "update")
        <4>1. k \in Keys /\ key[k].owner # New
          BY <3>2, CallFields DEF At, SigningIn, Types, UpdatesRegistered
        <4>2. k \notin tangled
          BY <1>2, <2>1, <3>1, <4>1, KeysStep
        <4>3. key'[k].owner \in Users /\ NoKey.owner \notin Users
          BY <2>1, <3>1, WebAuthnAssumption DEF NoKey
        <4>4. ~\E d \in Calls : /\ At(d, "update") /\ call[d].k = k /\ ~At(d, "update")'
                                /\ \A e \in Calls \ {d} : At(e, "update") /\ call[e].k = k => k \in tangled'
          BY <2>1, <3>1, <3>2
        <4>5. key'[k] = key[k]
          BY <1>2, <4>1, <4>3, <4>4, KeysStep
        <4>6. QED
          BY <3>1, <3>2, <4>2, <4>3, <4>5 DEF Counting, UpdatesRaise
      <3>3. CASE Newer(call[c].n, key[k].counter) /\ UNCHANGED <<key, tangled>>
        BY <3>1, <3>3
      <3>4. QED
        BY <3>1, <3>2, <3>3
    <2>2. ASSUME NEW k \in Keys, key'[k].owner \in Users, k \notin tangled'
          PROVE  key'[k].counter = highest'[k]
      <3>1. k \notin tangled
        BY <1>2, <2>2, KeysStep
      <3>2. CASE key'[k] = key[k] /\ highest'[k] = highest[k]
        BY <2>2, <3>1, <3>2 DEF Counting, CounterIsHighest
      <3>3. CASE key'[k] = NoKey
        BY <2>2, <3>3, WebAuthnAssumption DEF NoKey
      <3>4. ASSUME NEW c \in Calls, At(c, "update"), call[c].k = k, key[k].owner \in Users,
                   key'[k] = [key[k] EXCEPT !.counter = call[c].n],
                   highest'[k] = (IF call[c].n > highest[k] THEN call[c].n ELSE highest[k])
            PROVE  key'[k].counter = highest'[k]
        <4>0. call[c].n \in 0..MaxCounter
          BY <3>4, CallFields DEF At, SigningIn
        <4>1. Newer(call[c].n, key[k].counter) /\ key[k].counter = highest[k]
          BY <3>1, <3>4 DEF Counting, UpdatesRaise, CounterIsHighest
        <4>2. key'[k].counter = call[c].n
          BY <2>0, <3>4 DEF Key
        <4>3. QED
          BY <2>0, <3>4, <4>0, <4>1, <4>2 DEF Newer
      <3>5. CASE key[k].owner = New /\ key'[k].counter = highest'[k]
        BY <3>5
      <3>6. QED
        BY <1>2, <3>2, <3>3, <3>4, <3>5, KeysStep
    <2>3. UpdatesRaise'
      BY <2>1 DEF UpdatesRaise, At
    <2>4. CounterIsHighest'
      BY <2>2 DEF CounterIsHighest
    <2>5. QED
      BY <2>3, <2>4 DEF Counting
  <1>3. QED
    BY <1>1, <1>2

\* The counter stored of a key is the highest it was accepted with, unless two
\* sign-ins with it overlapped between their read and their update.
THEOREM CounterKept == Spec => []CounterIsHighest
  <1>1. Init => Counting
    BY DEF Init, Counting, UpdatesRaise, CounterIsHighest, At, Idle
  <1>2. Counting => CounterIsHighest
    BY DEF Counting
  <1>3. QED
    BY TypesInit, TypesNext, CountingNext, <1>1, <1>2, PTL DEF Spec

-----------------------------------------------------------------------------
(* The last way to sign in.                                                *)

\* A user loses keys to account.delete only, and then one.
LEMMA OwnedStep ==
  ASSUME Types, Next, NEW u \in Users
  PROVE  /\ other \subseteq other' /\ crossed \subseteq crossed'
         /\ \/ Owned(u) \subseteq Owned(u)'
            \/ \E c \in Calls : /\ At(c, "delete") /\ call[c].u = u /\ call[c].k \in Owned(u)
                                /\ Owned(u)' = Owned(u) \ {call[c].k}
                                /\ call'[c] = Idle /\ \A d \in Calls \ {c} : call'[d] = call[d]
                                /\ Removals(u) = {c} \/ u \in crossed'
  <1>0. key \in [Keys -> Key] /\ call \in [Calls -> Call]
    BY DEF Types, TypeOK
  <1>1. ASSUME \A k \in Keys : key[k].owner = u => key'[k].owner = u
        PROVE  Owned(u) \subseteq Owned(u)'
    BY <1>1 DEF Owned
  <1>2. CASE \E c \in Calls, n \in 0..MaxCounter : Register(c, n)
    <2>1. PICK c \in Calls, n \in 0..MaxCounter : Register(c, n)
      BY <1>2
    <2>2. \A k \in Keys : key[k].owner = u => key'[k].owner = u
      BY <2>1, <1>0, WebAuthnAssumption DEF Register
    <2>3. UNCHANGED <<other, crossed>>
      BY <2>1 DEF Register
    <2>4. QED
      BY <1>1, <2>2, <2>3
  <1>3. CASE \E c \in Calls : SignInUpdate(c)
    <2>1. PICK c \in Calls : SignInUpdate(c)
      BY <1>3
    <2>2. \/ key' = [key EXCEPT ![call[c].k] = [key[call[c].k] EXCEPT !.counter = call[c].n]]
          \/ key' = key
      BY <2>1 DEF SignInUpdate
    <2>3. \A j \in Keys : [key[j] EXCEPT !.counter = call[c].n].owner = key[j].owner
      BY <1>0 DEF Key
    <2>4. \A k \in Keys : key'[k].owner = key[k].owner
      BY <2>2, <2>3, <1>0
    <2>5. UNCHANGED <<other, crossed>>
      BY <2>1 DEF SignInUpdate
    <2>6. QED
      BY <1>1, <2>4, <2>5
  <1>4. CASE \E c \in Calls : RemoveDelete(c)
    <2>1. PICK c \in Calls : RemoveDelete(c)
      BY <1>4
    <2>2. call[c].k \in Keys /\ At(c, "delete") /\ UNCHANGED other /\ crossed \subseteq crossed'
      BY <2>1, CallFields DEF RemoveDelete, At
    <2>3. call'[c] = Idle /\ \A d \in Calls \ {c} : call'[d] = call[d]
      BY <2>1, <1>0 DEF RemoveDelete, End, Continue
    <2>4. CASE StillThere(c) /\ call[c].u = u
      <3>1. /\ key' = [key EXCEPT ![call[c].k] = NoKey]
            /\ Removals(u) # {c} => u \in crossed'
        BY <2>1, <2>4 DEF RemoveDelete
      <3>2. key[call[c].k].owner = u /\ NoKey.owner # u
        BY <2>4, WebAuthnAssumption DEF StillThere, NoKey
      <3>3. Owned(u)' = Owned(u) \ {call[c].k}
        BY <3>1, <3>2, <2>2, <1>0 DEF Owned
      <3>4. QED
        BY <2>2, <2>3, <2>4, <3>1, <3>2, <3>3 DEF Owned
    <2>5. CASE ~(StillThere(c) /\ call[c].u = u)
      <3>1. \A k \in Keys : key[k].owner = u => key'[k].owner = u
        BY <2>1, <2>5, <1>0 DEF RemoveDelete, StillThere
      <3>2. QED
        BY <1>1, <2>2, <3>1
    <2>6. QED
      BY <2>4, <2>5
  <1>5. CASE key' = key /\ crossed' = crossed /\ other \subseteq other'
    BY <1>1, <1>5
  <1>6. QED
    BY <1>2, <1>3, <1>4, <1>5 DEF Next, CallStep, OptionsLookup, RemoveFind, RegisterSend, SignInSend, OptionsIssue,
       RegisterArrives, SignInArrives, SignInFind, SignInSession, RemoveCount, Fail,
       AnyoneOptions, RegisterOptions, Vanish, AddOther, history

\* A removal has what it had, or has just begun, or has just counted.
LEMMA RemovalGoesOn ==
  ASSUME Types, Next, NEW c \in Calls, call'[c].pc \in {"count", "delete"}
  PROVE  \/ call'[c] = call[c]
         \/ RemoveCount(c)
         \/ call'[c].pc = "count" /\ call'[c].u \in Users /\ call'[c].keys = Unread /\ call'[c].others = Unread
  <1>0. call \in [Calls -> Call]
    BY DEF Types, TypeOK
  <1>1. CASE \E u \in Users, k \in Keys : RemoveFind(c, u, k)
    BY <1>0, <1>1 DEF RemoveFind, Begin
  <1>2. CASE SignInArrives(c) \/ SignInFind(c) \/ SignInUpdate(c) \/ RegisterArrives(c)
    <2>1. \/ call[c] \in [pc: SigningIn, u: Users, x: Challenges, k: Keys, n: 0..MaxCounter]
          \/ call[c] \in [pc: {"arrive", "register"}, u: Users, x: Challenges, k: Keys]
      BY <1>2, CallFields DEF SignInArrives, SignInFind, SignInUpdate, RegisterArrives, At, SigningIn
    <2>2. call'[c] = Idle \/ \E p \in {"register", "find", "update", "session"} : call'[c] = [call[c] EXCEPT !.pc = p]
      BY <1>0, <1>2 DEF SignInArrives, SignInFind, SignInUpdate, RegisterArrives, End, Continue
    <2>3. QED
      BY <2>1, <2>2 DEF Idle
  <1>3. CASE BeginsOrEnds(c)
    <2>1. call'[c].pc \in {"options", "arrive", "answer", "idle"}
      BY <1>3, BeganOrEnded
    <2>2. QED
      BY <2>1
  <1>4. CallStep(c) \/ call'[c] = call[c]
    BY OthersStay DEF Next, AnyoneOptions, RegisterOptions, Vanish, AddOther
  <1>5. QED
    BY <1>1, <1>2, <1>3, <1>4 DEF CallStep, BeginsOrEnds

LEMMA RemovalsNext == Types /\ Types' /\ RemovalsCounted /\ [Next]_vars => RemovalsCounted'
  <1> SUFFICES ASSUME Types, Types', RemovalsCounted, [Next]_vars  PROVE RemovalsCounted'
    OBVIOUS
  <1>1. CASE UNCHANGED vars
    BY <1>1 DEF RemovalsCounted, Owned, At, vars
  <1>2. CASE Next
    <2> SUFFICES ASSUME NEW c \in Calls, call'[c].pc \in {"count", "delete"}, NEW u, u = call'[c].u
                 PROVE  /\ call'[c].keys # Unread => call'[c].keys <= Cardinality(Owned(u)') \/ u \in crossed'
                        /\ call'[c].others = 1 => u \in other'
                        /\ call'[c].pc = "delete" => call'[c].keys # Unread /\ (call'[c].keys > 1 \/ call'[c].others > 0)
      BY DEF RemovalsCounted, Owned, At
    <2>1. CASE call'[c] = call[c]
      <3>1. /\ u \in Users /\ call[c].keys \in {Unread} \cup Nat
        BY <2>1, CallFields
      <3>2. /\ call[c].keys # Unread => call[c].keys <= Cardinality(Owned(u)) \/ u \in crossed
            /\ call[c].others = 1 => u \in other
            /\ call[c].pc = "delete" => call[c].keys # Unread /\ (call[c].keys > 1 \/ call[c].others > 0)
        BY <2>1 DEF RemovalsCounted, At
      <3>3. other \subseteq other' /\ crossed \subseteq crossed'
        BY <1>2, <3>1, OwnedStep
      <3>4. ASSUME call[c].keys # Unread, u \notin crossed'
            PROVE  call[c].keys <= Cardinality(Owned(u)')
        <4>1. call[c].keys <= Cardinality(Owned(u))
          BY <3>2, <3>3, <3>4
        <4>2. CASE Owned(u) \subseteq Owned(u)'
          <5>1. IsFiniteSet(Owned(u)')
            <6>1. IsFiniteSet(Keys) /\ Owned(u)' \subseteq Keys
              BY WebAuthnAssumption DEF Owned
            <6>2. QED
              BY <6>1, FS_Subset
          <5>2. Cardinality(Owned(u)) <= Cardinality(Owned(u)')
            BY <4>2, <5>1, FS_Subset
          <5>3. Cardinality(Owned(u)) \in Nat /\ Cardinality(Owned(u)') \in Nat
            BY <5>1, OwnedFinite, FS_CardinalityType
          <5>4. QED
            BY <3>1, <3>4, <4>1, <5>2, <5>3
        <4>3. ASSUME NEW d \in Calls, call'[d] = Idle, Removals(u) = {d}
              PROVE  FALSE
          <5>1. c \in Removals(u)
            BY <2>1, <3>4 DEF Removals
          <5>2. c = d
            BY <4>3, <5>1
          <5>3. QED
            BY <4>3, <5>2 DEF Idle
        <4>4. Owned(u) \subseteq Owned(u)' \/ \E d \in Calls : call'[d] = Idle /\ Removals(u) = {d}
          BY <1>2, <3>1, <3>4, OwnedStep
        <4>5. QED
          BY <4>2, <4>3, <4>4
      <3>5. QED
        BY <2>1, <3>2, <3>3, <3>4
    <2>2. CASE RemoveCount(c)
      <3>1. call[c].pc = "count" /\ call[c].u \in Users /\ call[c].keys \in {Unread} \cup Nat
            /\ call[c].others \in {Unread, 0, 1} /\ UNCHANGED <<key, other, crossed>>
        BY <2>2, CallFields DEF RemoveCount, At, history
      <3>2. /\ call'[c].u = call[c].u
            /\ \/ call'[c].keys = Cardinality(Owned(call[c].u)) /\ call'[c].others = call[c].others
               \/ call'[c].keys = call[c].keys /\ call'[c].others = (IF call[c].u \in other THEN 1 ELSE 0)
            /\ call'[c].pc = "delete" => call'[c].keys # Unread /\ (call'[c].keys > 1 \/ call'[c].others > 0)
        BY <2>2, CountResult DEF Idle, Spare
      <3>3. /\ call[c].keys # Unread => call[c].keys <= Cardinality(Owned(u)) \/ u \in crossed
            /\ call[c].others = 1 => u \in other
        BY <3>1, <3>2 DEF RemovalsCounted
      <3>4. Owned(u)' = Owned(u) /\ Cardinality(Owned(u)) \in Nat
        BY <3>1, OwnedFinite DEF Owned
      <3>5. call'[c].keys # Unread => call'[c].keys <= Cardinality(Owned(u)) \/ u \in crossed
        <4>1. CASE call'[c].keys = Cardinality(Owned(u))
          BY <3>4, <4>1
        <4>2. CASE call'[c].keys = call[c].keys
          BY <3>3, <4>2
        <4>3. QED
          BY <3>2, <4>1, <4>2
      <3>6. call'[c].others = 1 => u \in other
        BY <3>2, <3>3
      <3>7. Cardinality(Owned(u)') = Cardinality(Owned(u)) /\ crossed' = crossed /\ other' = other
        BY <3>1, <3>4
      <3>8. QED
        BY <3>2, <3>5, <3>6, <3>7
    <2>3. CASE /\ call'[c].pc = "count" /\ u \in Users
               /\ call'[c].keys = Unread /\ call'[c].others = Unread
      BY <2>3 DEF Unread
    <2>4. QED
      BY <1>2, <2>1, <2>2, <2>3, RemovalGoesOn
  <1>3. QED
    BY <1>1, <1>2

\* What the removal keeps of the ways to sign in.
LEMMA MethodsKept ==
  ASSUME Types, RemovalsCounted, [Next]_vars, NEW u \in Users, Method(u)
  PROVE  Method(u)' \/ u \in crossed'
  <1>1. CASE UNCHANGED vars
    BY <1>1 DEF Method, Owned, vars
  <1>2. CASE Next
    <2>1. CASE Owned(u) \subseteq Owned(u)'
      <3>1. other \subseteq other'
        BY <1>2, OwnedStep
      <3>2. QED
        BY <2>1, <3>1 DEF Method
    <2>2. ASSUME NEW c \in Calls, At(c, "delete"), call[c].u = u, call[c].k \in Owned(u),
                 Owned(u)' = Owned(u) \ {call[c].k}, u \notin crossed'
          PROVE  Method(u)'
      <3>1. other \subseteq other' /\ crossed \subseteq crossed'
        BY <1>2, OwnedStep
      <3>2. call[c].keys \in {Unread} \cup Nat /\ call[c].others \in {Unread, 0, 1}
        BY <2>2, CallFields DEF At
      <3>3. /\ call[c].keys # Unread /\ call[c].keys <= Cardinality(Owned(u))
            /\ call[c].others = 1 => u \in other
            /\ call[c].keys > 1 \/ call[c].others > 0
        BY <2>2, <3>1 DEF RemovalsCounted, At
      <3>4. CASE call[c].others = 1
        BY <3>1, <3>3, <3>4 DEF Method
      <3>5. CASE call[c].keys > 1
        <4>1. /\ IsFiniteSet(Owned(u)) /\ Cardinality(Owned(u)) \in Nat
              /\ Cardinality(Owned(u) \ {call[c].k}) = Cardinality(Owned(u)) - 1
          BY <2>2, OwnedFinite, FS_RemoveElement
        <4>2. Cardinality(Owned(u)') >= 1
          BY <2>2, <3>2, <3>3, <3>5, <4>1 DEF Unread
        <4>3. Owned(u)' # {}
          BY <4>2, FS_EmptySet
        <4>4. QED
          BY <4>3 DEF Method
      <3>6. QED
        BY <3>2, <3>3, <3>4, <3>5 DEF Unread
    <2>3. QED
      BY <1>2, <2>1, <2>2, OwnedStep
  <1>3. QED
    BY <1>1, <1>2

\* No removal takes the last way to sign in, unless two removals each counted
\* the key of the other.
THEOREM MethodKept == Spec => KeepsAMethod
  <1>1. Init => RemovalsCounted
    BY DEF Init, RemovalsCounted, Idle
  <1>2. Types /\ RemovalsCounted /\ [Next]_vars => [\A u \in Users : Method(u) => Method(u)' \/ u \in crossed']_vars
    BY MethodsKept
  <1>3. QED
    BY TypesInit, TypesNext, RemovalsNext, <1>1, <1>2, PTL DEF Spec, KeepsAMethod
===============================================================================
