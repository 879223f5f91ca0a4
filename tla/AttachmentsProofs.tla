-------------------------- MODULE AttachmentsProofs --------------------------
(***************************************************************************)
(* Safety of attachments, their uploads and files, for any calls, contents *)
(* and attachments, and any number of uploads, failures and crashes.       *)
(***************************************************************************)
EXTENDS Attachments, TLAPS

-----------------------------------------------------------------------------
(* Types.                                                                  *)

\* Where a call has a content in hand.
Writing == {"lookup", "write", "insert", "attach", "repoint", "move"}

\* Only a transaction keeps rows deleted, and none before it has begun to delete.  Who
\* unlinks a file has one item of its list in hand.
Fits(v) ==
  /\ v.op # "avatar" \/ v.pc = "remove" => v.gone = {} /\ v.rm = {}
  /\ v.op = "avatar" \/ v.pc \in Writing => v.h \in Hashes
  /\ v.pc \in {"repoint", "move"} => v.op = "replace"
  /\ v.op = "replace" => v.a \in AttIds
  /\ v.pc \in {"unlink", "drop"} => \E i \in v.todo : v.cur = {i}
  /\ v.pc = "idle" => v = Idle

CallsTyped == call \in [Calls -> Call] /\ \A c \in Calls : Fits(call[c])
UpTyped == up \in [Hashes -> Upload]
AttTyped == att \in [AttIds -> Attachment]
RestTyped ==
  /\ avatar \in AttIds \cup {NoAtt}
  /\ late \subseteq AttIds
  /\ file \subseteq Paths /\ torn \subseteq Paths /\ stray \subseteq Hashes
  /\ begun \in 0..MaxCalls /\ faults \in 0..MaxFaults
\* What refers to an upload refers to one that is stored.
Refers == \A a \in AttIds : Live(a) => att[a].h \in Hashes /\ Stored(att[a].h, att[a].n)

Typed == CallsTyped /\ UpTyped /\ AttTyped /\ RestTyped /\ Refers

LEMMA IdleFits == Idle \in Call /\ Fits(Idle)
  BY AttachmentsAssumption DEF Idle, Call, Fits, Pcs, Dirs, Writing

LEMMA SetCall ==
  ASSUME CallsTyped, NEW c \in Calls, NEW v \in Call, Fits(v), call' = [call EXCEPT ![c] = v]
  PROVE  CallsTyped'
  BY DEF CallsTyped, Fits, Idle

LEMMA FinishTyped ==
  ASSUME CallsTyped, NEW c \in Calls, Finish(c)
  PROVE  CallsTyped'
  BY IdleFits, SetCall DEF Finish

LEMMA GotoTyped ==
  ASSUME CallsTyped, NEW c \in Calls, NEW p \in Pcs, Goto(c, p),
         call[c].pc # "idle", p \notin {"idle", "remove"},
         p \in Writing => call[c].h \in Hashes,
         p \in {"repoint", "move"} => call[c].op = "replace",
         p \in {"unlink", "drop"} => \E i \in call[c].todo : call[c].cur = {i}
  PROVE  CallsTyped'
  <1> DEFINE v == [call[c] EXCEPT !.pc = p]
  <1>1. v \in Call /\ Fits(v)
    BY DEF CallsTyped, Call, Fits
  <1>2. call' = [call EXCEPT ![c] = v]
    BY DEF Goto, CallsTyped
  <1> QED
    BY <1>1, <1>2, SetCall

LEMMA CopyTyped ==
  ASSUME UpTyped, AttTyped, Refers, NEW a \in AttIds, Live(a)
  PROVE  Copy(a) \in Item /\ Copy(a).a = a
  BY DEF UpTyped, AttTyped, Refers, Copy, Item, Upload, Attachment

\* What NextItem makes of a call.
NextOf(c, i, more) ==
  LET rest == call[c].todo \ {i} IN
  IF After(c, rest) = "idle" THEN Idle
  ELSE [call[c] EXCEPT !.pc = After(c, rest), !.todo = rest, !.cur = {},
                       !.gone = call[c].gone \cup more.gone,
                       !.rm = call[c].rm \cup more.rm]

LEMMA NextItemSets ==
  ASSUME CallsTyped, NEW c \in Calls, NEW i \in call[c].todo, NEW G \in SUBSET AttIds,
         NEW R \in SUBSET (Hashes \X (0..MaxRows)),
         InTx(c) \/ (G = {} /\ R = {}), call[c].pc # "idle",
         NextItem(c, i, [gone |-> G, rm |-> R])
  PROVE  /\ CallsTyped' /\ call' = [call EXCEPT ![c] = NextOf(c, i, [gone |-> G, rm |-> R])]
         /\ call'[c].gone = call[c].gone \cup G /\ call'[c].rm = call[c].rm \cup R
         /\ call'[c].pc \in {"count", "lookup", "idle"}
         /\ call'[c].todo \subseteq call[c].todo
         /\ \A j \in call[c].todo : j # i => call'[c].pc = "count" /\ j \in call'[c].todo
         /\ InTx(c)' <=> InTx(c)
  <1> DEFINE rest == call[c].todo \ {i}
             v == NextOf(c, i, [gone |-> G, rm |-> R])
             w == [call[c] EXCEPT !.pc = After(c, rest), !.todo = rest, !.cur = {},
                       !.gone = call[c].gone \cup G, !.rm = call[c].rm \cup R]
  <1>0. call[c] \in Call /\ Fits(call[c])
    BY DEF CallsTyped
  <1>1. call' = [call EXCEPT ![c] = v]
    BY DEF NextItem, NextOf, CallsTyped
  <1>2. /\ After(c, rest) = "idle" => v = Idle /\ rest = {} /\ ~InTx(c)
        /\ After(c, rest) # "idle" => v = w
        /\ After(c, rest) \in {"count", "lookup", "idle"}
        /\ After(c, rest) = "lookup" => InTx(c) /\ rest = {}
        /\ rest # {} => After(c, rest) = "count"
    BY DEF NextOf, After
  <1>3. w \in Call /\ w.pc = After(c, rest) /\ w.todo = rest /\ w.op = call[c].op
        /\ w.gone = call[c].gone \cup G /\ w.rm = call[c].rm \cup R /\ w.cur = {}
        /\ w.h = call[c].h /\ w.a = call[c].a
    BY <1>0, <1>2 DEF Call, Pcs
  <1>4. v \in Call /\ Fits(v)
    <2>1. CASE After(c, rest) = "idle"
      BY <2>1, <1>2, IdleFits
    <2>2. CASE After(c, rest) # "idle"
      <3>1. Fits(w)
        BY <2>2, <1>0, <1>2, <1>3 DEF Fits, Writing, InTx
      <3> QED
        BY <2>2, <3>1, <1>2, <1>3
    <2> QED
      BY <2>1, <2>2
  <1>5. CallsTyped' /\ call'[c] = v
    BY <1>1, <1>4, SetCall DEF CallsTyped
  <1>6. Idle.gone = {} /\ Idle.rm = {} /\ Idle.pc = "idle" /\ Idle.todo = {} /\ Idle.op # "avatar"
    BY DEF Idle
  <1>7. ~InTx(c) => call[c].gone = {} /\ call[c].rm = {}
    BY <1>0 DEF Fits, InTx
  <1>8. /\ v.gone = call[c].gone \cup G /\ v.rm = call[c].rm \cup R
        /\ v.pc = After(c, rest) /\ v.todo = rest /\ (v.op = "avatar" <=> InTx(c))
    BY <1>2, <1>3, <1>6, <1>7 DEF InTx
  <1> QED
    BY <1>1, <1>2, <1>5, <1>8 DEF InTx

-----------------------------------------------------------------------------
(* What each action makes of the call that takes it.                       *)

Change(c, v) == v \in Call /\ Fits(v) /\ call' = [call EXCEPT ![c] = v]

LEMMA Changed ==
  ASSUME CallsTyped, NEW c \in Calls, NEW v, Change(c, v)
  PROVE  CallsTyped' /\ call'[c] = v /\ \A d \in Calls \ {c} : call'[d] = call[d]
  BY SetCall DEF Change, CallsTyped

Beginning(c) ==
  \/ \E h \in Hashes, d \in Dirs : BeginCreate(c, h, d)
  \/ \E ids \in SUBSET AttIds : BeginDelete(c, ids)
  \/ \E a \in AttIds, h \in Hashes : BeginReplace(c, a, h)
  \/ \E h \in Hashes : BeginAvatar(c, h)

LEMMA BeginCall ==
  ASSUME Typed, NEW c \in Calls, Beginning(c)
  PROVE  /\ \E v : /\ Change(c, v) /\ v.gone = {} /\ v.rm = {}
                   /\ v.pc \in {"lookup", "remove", "write"}
         /\ call[c] = Idle /\ begun' \in 0..MaxCalls
         /\ UNCHANGED <<tables, file, faults, history>>
  <1>0. /\ CallsTyped /\ UpTyped /\ AttTyped /\ Refers /\ call[c] \in Call /\ Fits(call[c])
        /\ Idle \in Call /\ begun \in 0..MaxCalls
    BY IdleFits DEF Typed, CallsTyped, RestTyped
  <1>1. ASSUME Begin(c) PROVE call[c] = Idle /\ begun' \in 0..MaxCalls
    BY <1>0, <1>1, AttachmentsAssumption DEF Begin, Fits
  <1>2. /\ Idle.gone = {} /\ Idle.rm = {} /\ Idle.op = "none" /\ Idle.a = NoAtt
        /\ Idle.todo = {} /\ Idle.cur = {}
    BY DEF Idle
  <1>3. ASSUME NEW S \in SUBSET AttIds, \A a \in S : Live(a)
        PROVE  {Copy(a) : a \in S} \subseteq Item
    BY <1>0, <1>3, CopyTyped
  <1>4. CASE \E h \in Hashes, d \in Dirs : BeginCreate(c, h, d)
    <2>1. PICK h \in Hashes, d \in Dirs : BeginCreate(c, h, d)
      BY <1>4
    <2> DEFINE v == [Idle EXCEPT !.op = "create", !.pc = "lookup", !.h = h, !.dir = d]
    <2>2. v \in Call /\ v.gone = {} /\ v.rm = {} /\ v.pc = "lookup" /\ v.op = "create" /\ v.h = h
      BY <1>0, <1>2 DEF Call, Pcs
    <2>3. Change(c, v)
      BY <2>1, <2>2 DEF Change, Fits, BeginCreate
    <2> QED
      BY <1>1, <2>1, <2>2, <2>3 DEF BeginCreate
  <1>5. CASE \E ids \in SUBSET AttIds : BeginDelete(c, ids)
    <2>1. PICK ids \in SUBSET AttIds : BeginDelete(c, ids)
      BY <1>5
    <2> DEFINE T == {Copy(a) : a \in ids}
               v == [Idle EXCEPT !.op = "delete", !.pc = "remove", !.todo = T]
    <2>a. T \subseteq Item
      BY <2>1, <1>3 DEF BeginDelete
    <2>2. v \in Call /\ v.gone = {} /\ v.rm = {} /\ v.pc = "remove" /\ v.op = "delete"
      BY <1>0, <1>2, <2>a DEF Call, Pcs
    <2>3. Change(c, v)
      BY <2>1, <2>2 DEF Change, Fits, BeginDelete, Writing
    <2> QED
      BY <1>1, <2>1, <2>2, <2>3 DEF BeginDelete
  <1>6. CASE \E a \in AttIds, h \in Hashes : BeginReplace(c, a, h)
    <2>1. PICK a \in AttIds, h \in Hashes : BeginReplace(c, a, h)
      BY <1>6
    <2> DEFINE v == [Idle EXCEPT !.op = "replace", !.pc = "write", !.h = h,
                                 !.dir = att[a].dir, !.a = a, !.cur = {Copy(a)}]
    <2>a. Copy(a) \in Item /\ att[a].dir \in Dirs
      BY <1>0, <2>1, CopyTyped DEF BeginReplace, AttTyped, Attachment
    <2>2. /\ v \in Call /\ v.gone = {} /\ v.rm = {} /\ v.pc = "write" /\ v.op = "replace"
          /\ v.h = h /\ v.a = a
      BY <1>0, <1>2, <2>a DEF Call, Pcs
    <2>3. Change(c, v)
      BY <2>1, <2>2 DEF Change, Fits, BeginReplace
    <2> QED
      BY <1>1, <2>1, <2>2, <2>3 DEF BeginReplace
  <1>7. CASE \E h \in Hashes : BeginAvatar(c, h)
    <2>1. PICK h \in Hashes : BeginAvatar(c, h)
      BY <1>7
    <2> DEFINE old == {a \in AttIds : Live(a) /\ att[a].biz = "avatar"}
               T == {Copy(a) : a \in old}
               p == IF old = {} THEN "lookup" ELSE "remove"
               v == [Idle EXCEPT !.op = "avatar", !.h = h, !.todo = T, !.pc = p]
    <2>a. T \subseteq Item /\ p \in {"lookup", "remove"}
      BY <1>3
    <2>2. /\ v \in Call /\ v.gone = {} /\ v.rm = {} /\ v.pc \in {"lookup", "remove"}
          /\ v.op = "avatar" /\ v.h = h
      <3> HIDE DEF T, p
      <3> QED
        BY <1>0, <1>2, <2>a DEF Call, Pcs
    <2>b. Fits(v)
      BY <2>2 DEF Fits
    <2>3. Change(c, v)
      BY <2>1, <2>2, <2>b DEF Change, BeginAvatar
    <2> QED
      BY <1>1, <2>1, <2>2, <2>3 DEF BeginAvatar
  <1> QED
    BY <1>4, <1>5, <1>6, <1>7 DEF Beginning

LEMMA LookupCall ==
  ASSUME Typed, NEW c \in Calls, Lookup(c)
  PROVE  /\ \E v : /\ Change(c, v) /\ v.gone = call[c].gone /\ v.rm = call[c].rm
                   /\ v.h = call[c].h /\ v.op = call[c].op
                   /\ \/ v.pc = "write"
                      \/ v.pc = "attach" /\ v.n = up[v.h].n /\ <<v.h, v.n>> \notin v.rm
         /\ call[c].h \in Hashes /\ call[c].pc = "lookup"
         /\ UNCHANGED <<tables, file, begun, faults, history>>
  <1> DEFINE h == call[c].h
             u == [call[c] EXCEPT !.pc = "attach", !.n = up[h].n]
             w == [call[c] EXCEPT !.pc = "write"]
  <1>0. CallsTyped /\ call[c] \in Call /\ Fits(call[c]) /\ UpTyped
    BY DEF Typed, CallsTyped
  <1>1. h \in Hashes /\ call[c].pc = "lookup" /\ up[h].n \in 0..MaxRows
    BY <1>0 DEF Lookup, Fits, UpTyped, Upload, Writing
  <1>2. /\ u \in Call /\ u.gone = call[c].gone /\ u.rm = call[c].rm /\ u.h = h
        /\ u.op = call[c].op /\ u.pc = "attach" /\ u.n = up[h].n /\ u.a = call[c].a
    BY <1>0, <1>1 DEF Call, Pcs
  <1>3. /\ w \in Call /\ w.gone = call[c].gone /\ w.rm = call[c].rm /\ w.h = h
        /\ w.op = call[c].op /\ w.pc = "write" /\ w.a = call[c].a
    BY <1>0 DEF Call, Pcs
  <1>4. Fits(u) /\ Fits(w)
    BY <1>0, <1>1, <1>2, <1>3 DEF Fits
  <1>5. CASE up[h].stored /\ <<h, up[h].n>> \notin call[c].rm
    <2>1. call' = [call EXCEPT ![c] = u]
      BY <1>0, <1>5 DEF Lookup, CallsTyped
    <2> QED
      BY <1>1, <1>2, <1>4, <1>5, <2>1 DEF Lookup, Change
  <1>6. CASE ~(up[h].stored /\ <<h, up[h].n>> \notin call[c].rm)
    <2>1. call' = [call EXCEPT ![c] = w]
      BY <1>0, <1>6 DEF Lookup, Goto, CallsTyped
    <2> QED
      BY <1>1, <1>3, <1>4, <2>1 DEF Lookup, Change
  <1> QED
    BY <1>5, <1>6

LEMMA WriteCall ==
  ASSUME Typed, NEW c \in Calls, WriteFile(c)
  PROVE  /\ \E v : /\ Change(c, v) /\ v.gone = call[c].gone /\ v.rm = call[c].rm
                   /\ v.h = call[c].h /\ v.op = call[c].op /\ v.dir = call[c].dir
                   /\ v.pc \in {"insert", "move"}
         /\ Path(c) \in Paths /\ call[c].pc = "write"
  <1> DEFINE p == IF call[c].op = "replace" /\ \E i \in call[c].cur : i.h = call[c].h
                  THEN "move" ELSE "insert"
             v == [call[c] EXCEPT !.pc = p]
  <1>0. CallsTyped /\ call[c] \in Call /\ Fits(call[c])
    BY DEF Typed, CallsTyped
  <1>a. p \in {"insert", "move"} /\ (p = "move" => call[c].op = "replace")
    OBVIOUS
  <1>1. /\ v \in Call /\ v.gone = call[c].gone /\ v.rm = call[c].rm /\ v.h = call[c].h
        /\ v.op = call[c].op /\ v.pc = p /\ v.a = call[c].a /\ v.dir = call[c].dir
    <2> HIDE DEF p
    <2> QED
      BY <1>0, <1>a DEF Call, Pcs
  <1>b. call[c].pc = "write" /\ call[c].h \in Hashes
    BY <1>0 DEF WriteFile, Fits, Writing
  <1>2. Fits(v)
    <2> HIDE DEF v, p
    <2> QED
      BY <1>0, <1>1, <1>a, <1>b DEF Fits, Writing
  <1>3. call' = [call EXCEPT ![c] = v]
    BY <1>0 DEF WriteFile, Goto, CallsTyped
  <1>4. Path(c) \in Paths
    BY <1>0, <1>b DEF Path, Paths, Call
  <1> QED
    <2> HIDE DEF v, p
    <2> QED
      BY <1>1, <1>2, <1>3, <1>4, <1>a, <1>b DEF Change

LEMMA InsertCall ==
  ASSUME Typed, NEW c \in Calls, InsertUpload(c)
  PROVE  /\ \E v : /\ Change(c, v) /\ v.gone = call[c].gone /\ v.rm = call[c].rm
                   /\ v.h = call[c].h /\ v.op = call[c].op /\ v.dir = call[c].dir
                   /\ v.pc \in {"attach", "repoint"} /\ (InTx(c) => v.pc = "attach")
                   /\ v.n = up[v.h].n + 1
         /\ call[c].h \in Hashes /\ call[c].pc = "insert" /\ call[c].dir \in Dirs
         /\ up[call[c].h].n + 1 \in 0..MaxRows
  <1> DEFINE h == call[c].h
             new == up[h].n + 1
             p == IF call[c].op = "replace" THEN "repoint" ELSE "attach"
             v == [call[c] EXCEPT !.n = new, !.pc = p]
  <1>0. CallsTyped /\ call[c] \in Call /\ Fits(call[c]) /\ UpTyped
    BY DEF Typed, CallsTyped
  <1>a. p \in {"attach", "repoint"} /\ (p = "repoint" <=> call[c].op = "replace")
    OBVIOUS
  <1>b. call[c].pc = "insert" /\ h \in Hashes /\ call[c].dir \in Dirs
    BY <1>0 DEF InsertUpload, Fits, Writing, Call
  <1>c. new \in 0..MaxRows
    BY <1>0, <1>b, AttachmentsAssumption DEF InsertUpload, UpTyped, Upload
  <1>1. /\ v \in Call /\ v.gone = call[c].gone /\ v.rm = call[c].rm /\ v.h = h
        /\ v.op = call[c].op /\ v.pc = p /\ v.a = call[c].a /\ v.dir = call[c].dir /\ v.n = new
    <2> HIDE DEF p, new
    <2> QED
      BY <1>0, <1>a, <1>c DEF Call, Pcs
  <1>2. Fits(v)
    <2> HIDE DEF v, p
    <2> QED
      BY <1>0, <1>1, <1>a, <1>b DEF Fits
  <1>3. call' = [call EXCEPT ![c] = v]
    BY <1>0 DEF InsertUpload, CallsTyped
  <1> QED
    <2> HIDE DEF v, p
    <2> QED
      BY <1>1, <1>2, <1>3, <1>a, <1>b, <1>c DEF Change, InTx

\* In a transaction it has what it deletes under its locks.
Removes(c, ids, v) ==
  /\ Change(c, v) /\ v.pc = "count" /\ v.rm = {} /\ v.todo = call[c].todo
  /\ v.gone = (IF InTx(c) THEN {a \in ids : Live(a)} ELSE {}) /\ v.op = call[c].op

LEMMA RemoveCall ==
  ASSUME Typed, NEW c \in Calls, RemoveAttachments(c), NEW ids, ids = {i.a : i \in call[c].todo}
  PROVE  /\ \E v : Removes(c, ids, v)
         /\ ids \subseteq AttIds
         /\ call[c].pc = "remove" /\ call[c].gone = {} /\ call[c].rm = {}
         /\ \A a \in ids : ~RowLocked(c, a)
         /\ IF InTx(c) THEN UNCHANGED att ELSE att' = Remove(ids)
         /\ stray' = stray \cup Forgotten(ids, call[c].todo)
         /\ UNCHANGED <<up, avatar, file, begun, faults, late, torn>>
  <1> DEFINE gone == {a \in ids : Live(a)}
             u == [call[c] EXCEPT !.pc = "count", !.gone = gone]
             w == [call[c] EXCEPT !.pc = "count"]
  <1>0. CallsTyped /\ call[c] \in Call /\ Fits(call[c])
    BY DEF Typed, CallsTyped
  <1>1. /\ call[c].pc = "remove" /\ call[c].gone = {} /\ call[c].rm = {}
    BY <1>0 DEF RemoveAttachments, Fits
  <1>2. ids \subseteq AttIds
    BY <1>0 DEF Call, Item
  <1>3. /\ u \in Call /\ u.pc = "count" /\ u.gone = gone /\ u.rm = {} /\ u.todo = call[c].todo
        /\ u.op = call[c].op /\ u.h = call[c].h /\ u.a = call[c].a
    BY <1>0, <1>1, <1>2 DEF Call, Pcs
  <1>4. /\ w \in Call /\ w.pc = "count" /\ w.gone = {} /\ w.rm = {} /\ w.todo = call[c].todo
        /\ w.op = call[c].op /\ w.h = call[c].h /\ w.a = call[c].a
    BY <1>0, <1>1 DEF Call, Pcs
  <1>5. CASE InTx(c)
    <2>1. call' = [call EXCEPT ![c] = u]
      BY <1>0, <1>5 DEF RemoveAttachments, CallsTyped
    <2>2. Fits(u)
      <3> HIDE DEF u
      <3> QED
        BY <1>0, <1>3, <1>5 DEF Fits, InTx, Writing
    <2>3. UNCHANGED att
      BY <1>5 DEF RemoveAttachments
    <2>4. Change(c, u) /\ u.gone = gone
      BY <1>3, <2>1, <2>2 DEF Change
    <2> QED
      <3> HIDE DEF u
      <3> QED
        BY <1>1, <1>2, <1>3, <1>5, <2>3, <2>4 DEF RemoveAttachments, Removes
  <1>6. CASE ~InTx(c)
    <2>1. call' = [call EXCEPT ![c] = w]
      BY <1>0, <1>6 DEF RemoveAttachments, Goto, CallsTyped
    <2>2. Fits(w)
      <3> HIDE DEF w
      <3> QED
        BY <1>0, <1>4, <1>6 DEF Fits, InTx, Writing
    <2>3. att' = Remove(ids)
      BY <1>6 DEF RemoveAttachments
    <2>4. Change(c, w) /\ w.gone = {}
      BY <1>4, <2>1, <2>2 DEF Change
    <2> QED
      <3> HIDE DEF w
      <3> QED
        BY <1>1, <1>2, <1>4, <1>6, <2>3, <2>4 DEF RemoveAttachments, Removes
  <1> QED
    BY <1>5, <1>6

\* It is done with item i, and has deleted G and R in its transaction.
Passes(c, i, G, R) ==
  \E v : /\ Change(c, v) /\ v.pc \in {"count", "lookup", "idle"}
         /\ v.gone = call[c].gone \cup G /\ v.rm = call[c].rm \cup R
         /\ \A j \in call[c].todo : j # i => v.pc = "count" /\ j \in v.todo
         /\ (v.op = "avatar" <=> InTx(c))

LEMMA NextItemCall ==
  ASSUME CallsTyped, NEW c \in Calls, NEW i \in call[c].todo, NEW G, G \subseteq AttIds,
         NEW R, R \subseteq Hashes \X (0..MaxRows),
         InTx(c) \/ (G = {} /\ R = {}), call[c].pc # "idle",
         NextItem(c, i, [gone |-> G, rm |-> R])
  PROVE  Passes(c, i, G, R)
  <1> DEFINE v == NextOf(c, i, [gone |-> G, rm |-> R])
  <1>1. /\ CallsTyped' /\ call' = [call EXCEPT ![c] = v]
        /\ call'[c].gone = call[c].gone \cup G /\ call'[c].rm = call[c].rm \cup R
        /\ call'[c].pc \in {"count", "lookup", "idle"}
        /\ \A j \in call[c].todo : j # i => call'[c].pc = "count" /\ j \in call'[c].todo
        /\ InTx(c)' <=> InTx(c)
    BY NextItemSets
  <1>2. call'[c] = v /\ call'[c] \in Call /\ Fits(call'[c])
    BY <1>1 DEF CallsTyped, Fits, Idle
  <1> HIDE DEF v
  <1>3. Change(c, v)
    BY <1>1, <1>2 DEF Change
  <1>4. v.op = "avatar" <=> InTx(c)
    BY <1>1, <1>2 DEF InTx
  <1> QED
    BY <1>1, <1>2, <1>3, <1>4 DEF Passes

Counts(c, i, seen, v) ==
  /\ Change(c, v) /\ v.gone = call[c].gone /\ v.rm = call[c].rm
  /\ (v.op = "avatar" <=> InTx(c))
  /\ \/ /\ seen = {} /\ v.pc = "unlink" /\ v.cur = {i} /\ v.todo = call[c].todo
     \/ /\ seen # {} /\ v.pc \in {"count", "lookup", "idle"}
        /\ \A j \in call[c].todo : j # i => v.pc = "count" /\ j \in v.todo

\* To the unlink when it has counted none, otherwise to the next item.
LEMMA CountCall ==
  ASSUME Typed, NEW c \in Calls, NEW i \in call[c].todo, Count(c, i),
         NEW seen, seen = Users(i.h, i.n) \ call[c].gone
  PROVE  /\ \E v : Counts(c, i, seen, v)
         /\ call[c].pc = "count" /\ i \in Item
         /\ stray' = IF seen # {} /\ \A a \in seen : RowLocked(c, a) THEN stray \cup {i.h} ELSE stray
         /\ UNCHANGED <<tables, file, begun, faults, late, torn>>
  <1>0. CallsTyped /\ call[c] \in Call /\ Fits(call[c])
    BY DEF Typed, CallsTyped
  <1>1. call[c].pc = "count" /\ i \in Item
    BY <1>0 DEF Count, Call
  <1>a. /\ stray' = IF seen # {} /\ \A a \in seen : RowLocked(c, a) THEN stray \cup {i.h} ELSE stray
        /\ UNCHANGED <<tables, file, begun, faults, late, torn>>
    BY DEF Count
  <1>2. CASE seen = {}
    <2> DEFINE v == [call[c] EXCEPT !.pc = "unlink", !.cur = {i}]
    <2>1. /\ v \in Call /\ v.gone = call[c].gone /\ v.rm = call[c].rm /\ v.op = call[c].op
          /\ v.pc = "unlink" /\ v.cur = {i} /\ v.todo = call[c].todo /\ v.h = call[c].h /\ v.a = call[c].a
      BY <1>0, <1>1 DEF Call, Pcs
    <2>2. Fits(v)
      <3> HIDE DEF v
      <3> QED
        BY <1>0, <2>1, i \in call[c].todo DEF Fits, Writing
    <2>3. call' = [call EXCEPT ![c] = v]
      BY <1>0, <1>2 DEF Count, CallsTyped
    <2> QED
      <3> HIDE DEF v
      <3> QED
        BY <1>1, <1>2, <1>a, <2>1, <2>2, <2>3 DEF Change, InTx, Counts
  <1>3. CASE seen # {}
    <2>1. NextItem(c, i, [gone |-> {}, rm |-> {}])
      BY <1>3 DEF Count, Nothing
    <2>2. Passes(c, i, {}, {})
      <3> DEFINE G == {}
      <3>0. G = {}
        OBVIOUS
      <3>1. G \subseteq AttIds /\ G \subseteq Hashes \X (0..MaxRows)
        OBVIOUS
      <3> HIDE DEF G
      <3>2. NextItem(c, i, [gone |-> G, rm |-> G])
        BY <2>1 DEF G
      <3>3. CallsTyped /\ call[c].pc # "idle" /\ i \in call[c].todo
        BY <1>0, <1>1
      <3>4. Passes(c, i, G, G)
        BY <3>0, <3>1, <3>2, <3>3, NextItemCall
      <3> QED
        BY <3>0, <3>4
    <2> QED
      BY <1>1, <1>3, <1>a, <2>2 DEF Passes, Counts
  <1> QED
    BY <1>2, <1>3

LEMMA UnlinkCall ==
  ASSUME Typed, NEW c \in Calls, NEW i \in call[c].cur, Unlink(c, i)
  PROVE  /\ \E v : /\ Change(c, v) /\ v.gone = call[c].gone /\ v.rm = call[c].rm
                   /\ v.op = call[c].op /\ v.pc = "drop" /\ v.cur = call[c].cur /\ v.todo = call[c].todo
         /\ call[c].pc = "unlink" /\ i \in Item /\ call[c].cur = {i} /\ i \in call[c].todo
  <1> DEFINE v == [call[c] EXCEPT !.pc = "drop"]
  <1>0. CallsTyped /\ call[c] \in Call /\ Fits(call[c])
    BY DEF Typed, CallsTyped
  <1>1. call[c].pc = "unlink" /\ i \in Item /\ call[c].cur = {i} /\ i \in call[c].todo
    BY <1>0 DEF Unlink, Call, Fits
  <1>2. /\ v \in Call /\ v.gone = call[c].gone /\ v.rm = call[c].rm /\ v.op = call[c].op
        /\ v.pc = "drop" /\ v.cur = call[c].cur /\ v.todo = call[c].todo /\ v.h = call[c].h
        /\ v.a = call[c].a
    BY <1>0 DEF Call, Pcs
  <1>3. Fits(v)
    <2> HIDE DEF v
    <2> QED
      BY <1>0, <1>1, <1>2 DEF Fits, Writing
  <1>4. call' = [call EXCEPT ![c] = v]
    BY <1>0 DEF Unlink, Goto, CallsTyped
  <1> QED
    <2> HIDE DEF v
    <2> QED
      BY <1>1, <1>2, <1>3, <1>4 DEF Change

Drops(c, i, users, v) ==
  /\ Change(c, v) /\ v.pc \in {"count", "lookup", "idle"}
  /\ v.gone = (IF InTx(c) THEN call[c].gone \cup users ELSE {})
  /\ v.rm = (IF InTx(c) THEN call[c].rm \cup {<<i.h, i.n>>} ELSE {})
  /\ \A j \in call[c].todo : j # i => v.pc = "count" /\ j \in v.todo
  /\ (v.op = "avatar" <=> InTx(c))

LEMMA DropCall ==
  ASSUME Typed, NEW c \in Calls, NEW i \in call[c].cur, DropUpload(c, i),
         NEW users, users = Users(i.h, i.n)
  PROVE  /\ \E v : Drops(c, i, users, v)
         /\ call[c].pc = "drop" /\ i \in Item /\ call[c].cur = {i} /\ i \in call[c].todo
         /\ IF InTx(c) THEN UNCHANGED <<up, att, stray>>
            ELSE /\ up' = [up EXCEPT ![i.h].stored = FALSE]
                 /\ att' = Remove(users) /\ stray' = stray \ {i.h}
                 /\ call[c].gone = {} /\ call[c].rm = {}
  <1>0. CallsTyped /\ call[c] \in Call /\ Fits(call[c])
    BY DEF Typed, CallsTyped
  <1>1. call[c].pc = "drop" /\ i \in Item /\ call[c].cur = {i} /\ i \in call[c].todo
    BY <1>0 DEF DropUpload, Call, Fits
  <1>2. CASE InTx(c)
    <2> DEFINE R == {<<i.h, i.n>>}
    <2>1. users \subseteq AttIds /\ R \subseteq Hashes \X (0..MaxRows)
      BY <1>1 DEF Users, Item
    <2>2. NextItem(c, i, [gone |-> users, rm |-> R]) /\ UNCHANGED <<up, att, stray>>
      BY <1>2 DEF DropUpload
    <2>3. Passes(c, i, users, R)
      <3>1. CallsTyped /\ call[c].pc # "idle" /\ i \in call[c].todo
        BY <1>0, <1>1
      <3> HIDE DEF R
      <3> QED
        BY <3>1, <1>2, <2>1, <2>2, NextItemCall
    <2> QED
      BY <1>1, <1>2, <2>2, <2>3 DEF Passes, Drops
  <1>3. CASE ~InTx(c)
    <2> DEFINE G == {}
    <2>1. G \subseteq AttIds /\ G \subseteq Hashes \X (0..MaxRows)
      OBVIOUS
    <2>2. NextItem(c, i, [gone |-> G, rm |-> G])
      BY <1>3 DEF DropUpload, Nothing
    <2>3. Passes(c, i, G, G)
      <3>0. G = {}
        OBVIOUS
      <3>1. CallsTyped /\ call[c].pc # "idle" /\ i \in call[c].todo
        BY <1>0, <1>1
      <3> HIDE DEF G
      <3> QED
        BY <3>0, <3>1, <2>1, <2>2, NextItemCall
    <2>4. call[c].gone = {} /\ call[c].rm = {}
      BY <1>0, <1>3 DEF Fits, InTx
    <2>5. /\ up' = [up EXCEPT ![i.h].stored = FALSE]
          /\ att' = Remove(users) /\ stray' = stray \ {i.h}
      BY <1>3 DEF DropUpload
    <2> QED
      BY <1>1, <1>3, <2>3, <2>4, <2>5 DEF Passes, Drops
  <1> QED
    BY <1>2, <1>3

LEMMA FinishCall ==
  ASSUME CallsTyped, NEW c \in Calls, Finish(c)
  PROVE  Change(c, Idle)
  BY IdleFits DEF Finish, Change

LEMMA RepointCall ==
  ASSUME Typed, NEW c \in Calls, Repoint(c)
  PROVE  /\ \E v : /\ Change(c, v) /\ v.gone = {} /\ v.rm = {} /\ v.pc = "count"
                   /\ v.todo = call[c].cur /\ v.op = "delete"
         /\ call[c].gone = {} /\ call[c].rm = {} /\ call[c].pc = "repoint"
         /\ call[c].op = "replace"
         /\ call[c].a \in AttIds /\ call[c].h \in Hashes /\ call[c].n \in 0..MaxRows
  <1> DEFINE T == call[c].cur
             v == [Idle EXCEPT !.op = "delete", !.pc = "count", !.todo = T]
  <1>0. CallsTyped /\ call[c] \in Call /\ Fits(call[c]) /\ Idle \in Call
    BY IdleFits DEF Typed, CallsTyped
  <1>1. /\ call[c].pc = "repoint" /\ call[c].op = "replace"
        /\ call[c].gone = {} /\ call[c].rm = {}
        /\ call[c].a \in AttIds /\ call[c].h \in Hashes /\ call[c].n \in 0..MaxRows
    BY <1>0 DEF Repoint, Fits, Writing, Call
  <1>2. T \subseteq Item
    BY <1>0 DEF Call
  <1>3. Idle.gone = {} /\ Idle.rm = {} /\ Idle.cur = {}
    BY DEF Idle
  <1>4. /\ v \in Call /\ v.gone = {} /\ v.rm = {} /\ v.pc = "count" /\ v.todo = T /\ v.op = "delete"
    <2> HIDE DEF T
    <2> QED
      BY <1>0, <1>2, <1>3 DEF Call, Pcs
  <1>5. Fits(v)
    <2> HIDE DEF v
    <2> QED
      BY <1>4 DEF Fits, Writing
  <1>6. call' = [call EXCEPT ![c] = v]
    BY DEF Repoint
  <1> QED
    <2> HIDE DEF v
    <2> QED
      BY <1>1, <1>4, <1>5, <1>6 DEF Change

LEMMA MoveCall ==
  ASSUME Typed, NEW c \in Calls, Move(c)
  PROVE  /\ Change(c, Idle) /\ call[c].pc = "move" /\ call[c].op = "replace"
         /\ call[c].h \in Hashes /\ call[c].dir \in Dirs
         /\ call[c].gone = {} /\ call[c].rm = {}
  <1>0. CallsTyped /\ call[c] \in Call /\ Fits(call[c])
    BY DEF Typed, CallsTyped
  <1> QED
    BY <1>0, FinishCall DEF Move, Fits, Writing, Call

LEMMA AttachCall ==
  ASSUME Typed, NEW c \in Calls, NEW a \in AttIds, Attach(c, a)
  PROVE  /\ Change(c, Idle) /\ call[c].pc = "attach" /\ call[c].op = "create"
         /\ call[c].h \in Hashes /\ call[c].n \in 0..MaxRows /\ call[c].dir \in Dirs
         /\ call[c].gone = {} /\ call[c].rm = {}
  <1>0. CallsTyped /\ call[c] \in Call /\ Fits(call[c])
    BY DEF Typed, CallsTyped
  <1> QED
    BY <1>0, FinishCall DEF Attach, Fits, Writing, Call

LEMMA CommitCall ==
  ASSUME Typed, NEW c \in Calls, NEW a \in AttIds, CommitAvatar(c, a)
  PROVE  /\ Change(c, Idle) /\ call[c].pc = "attach" /\ InTx(c)
         /\ call[c].h \in Hashes /\ call[c].n \in 0..MaxRows /\ call[c].dir \in Dirs
         /\ call[c].gone \subseteq AttIds /\ call[c].rm \subseteq Hashes \X (0..MaxRows)
  <1>0. CallsTyped /\ call[c] \in Call /\ Fits(call[c])
    BY DEF Typed, CallsTyped
  <1> QED
    BY <1>0, FinishCall DEF CommitAvatar, Fits, Writing, Call

LEMMA AbandonCalls ==
  ASSUME CallsTyped, NEW C \in SUBSET Calls, Abandon(C)
  PROVE  /\ CallsTyped'
         /\ \A c \in C : call'[c] = Idle
         /\ \A c \in Calls \ C : call'[c] = call[c]
         /\ UNCHANGED <<tables, file, begun, late>>
  <1>1. call' = [c \in Calls |-> IF c \in C THEN Idle ELSE call[c]]
    BY DEF Abandon
  <1>2. call' \in [Calls -> Call]
    BY <1>1, IdleFits DEF CallsTyped
  <1>3. ASSUME NEW c \in Calls PROVE Fits(call'[c])
    BY <1>1, IdleFits DEF CallsTyped
  <1>4. CallsTyped'
    BY <1>2, <1>3 DEF CallsTyped, Fits, Idle
  <1> QED
    BY <1>1, <1>4 DEF Abandon

-----------------------------------------------------------------------------
(* The steps of the system, one for each way in which they change it.      *)

Ends(c) ==
  Fail(c) \/ RollBack(c) \/ InsertRefused(c) \/ AttachRefused(c) \/ UpdateRefused(c)
  \/ \E i \in call[c].cur : DropRefused(c, i)
Works(c) ==
  \/ Beginning(c) \/ Lookup(c) \/ WriteFile(c) \/ InsertUpload(c)
  \/ \E a \in AttIds : Attach(c, a) \/ CommitAvatar(c, a)
  \/ RemoveAttachments(c)
  \/ \E i \in call[c].todo : Count(c, i)
  \/ \E i \in call[c].cur : Unlink(c, i) \/ DropUpload(c, i)
  \/ Repoint(c) \/ Move(c)

LEMMA StepCases ==
  Next <=> \/ \E c \in Calls : Works(c) \/ Ends(c)
           \/ \E ids \in SUBSET AttIds : DeleteCreator(ids)
           \/ Crash
  BY Zenon DEF Next, CallStep, Works, Ends, Beginning

LEMMA EndsAbandon ==
  ASSUME Typed, NEW c \in Calls, Ends(c)
  PROVE  Abandon({c}) /\ faults' \in 0..MaxFaults
  <1>1. faults \in 0..MaxFaults
    BY DEF Typed, RestTyped
  <1>2. Abandon({c}) /\ (UNCHANGED faults \/ (faults < MaxFaults /\ faults' = faults + 1))
    BY DEF Ends, Fail, RollBack, InsertRefused, AttachRefused, UpdateRefused, DropRefused
  <1> QED
    BY <1>1, <1>2, AttachmentsAssumption

-----------------------------------------------------------------------------
(* The types of tables and files.                                          *)

LEMMA WorksCalls ==
  ASSUME Typed, NEW c \in Calls, Works(c)
  PROVE  CallsTyped'
  <1>1. \E v : Change(c, v)
    <2>1. CASE Beginning(c)
      BY <2>1, BeginCall
    <2>2. CASE Lookup(c)
      BY <2>2, LookupCall
    <2>3. CASE WriteFile(c)
      BY <2>3, WriteCall
    <2>4. CASE InsertUpload(c)
      BY <2>4, InsertCall
    <2>5. CASE \E a \in AttIds : Attach(c, a) \/ CommitAvatar(c, a)
      BY <2>5, AttachCall, CommitCall
    <2>6. CASE RemoveAttachments(c)
      BY <2>6, RemoveCall DEF Removes
    <2>7. CASE \E i \in call[c].todo : Count(c, i)
      <3>1. PICK i \in call[c].todo : Count(c, i)
        BY <2>7
      <3>2. PICK seen : seen = Users(i.h, i.n) \ call[c].gone
        OBVIOUS
      <3>3. \E v : Counts(c, i, seen, v)
        BY <3>1, <3>2, CountCall
      <3> QED
        BY <3>3 DEF Counts
    <2>8. CASE \E i \in call[c].cur : Unlink(c, i) \/ DropUpload(c, i)
      BY <2>8, UnlinkCall, DropCall DEF Drops
    <2>9. CASE Repoint(c) \/ Move(c)
      BY <2>9, RepointCall, MoveCall
    <2> QED
      BY <2>1, <2>2, <2>3, <2>4, <2>5, <2>6, <2>7, <2>8, <2>9 DEF Works
  <1> QED
    BY <1>1, Changed DEF Typed

LEMMA RemoveTyped ==
  ASSUME AttTyped, NEW S
  PROVE  Remove(S) \in [AttIds -> Attachment]
  <1>1. [Unborn EXCEPT !.state = "deleted"] \in Attachment
    BY AttachmentsAssumption DEF Unborn, Attachment, Dirs, Bizs
  <1> QED
    BY <1>1 DEF AttTyped, Remove

LEMMA WorksTables ==
  ASSUME Typed, NEW c \in Calls, Works(c)
  PROVE  UpTyped' /\ AttTyped' /\ RestTyped'
  <1> DEFINE me == call[c]
  <1>0. /\ CallsTyped /\ UpTyped /\ AttTyped /\ RestTyped /\ me \in Call
        /\ up \in [Hashes -> Upload] /\ att \in [AttIds -> Attachment]
    BY DEF Typed, CallsTyped, UpTyped, AttTyped
  <1>j. ASSUME NEW a \in AttIds, NEW h, NEW n, Joins(a, h, n) PROVE late' \subseteq AttIds
    BY <1>0, <1>j DEF Joins, RestTyped
  <1>f. ASSUME NEW S, NEW T PROVE Forgotten(S, T) \subseteq Hashes
    BY DEF Forgotten
  <1>1. CASE Beginning(c) \/ Lookup(c)
    BY <1>0, <1>1, BeginCall, LookupCall DEF UpTyped, AttTyped, RestTyped, tables, history
  <1>3. CASE WriteFile(c)
    BY <1>0, <1>3, WriteCall DEF WriteFile, UpTyped, AttTyped, RestTyped, tables
  <1>4. CASE InsertUpload(c)
    <2>1. me.h \in Hashes /\ me.dir \in Dirs /\ up[me.h].n + 1 \in 0..MaxRows
      BY <1>4, InsertCall
    <2>2. UpTyped'
      <3> DEFINE row == [n |-> up[me.h].n + 1, stored |-> TRUE, dir |-> me.dir]
      <3>1. row \in Upload
        BY <2>1 DEF Upload
      <3>2. up' = up \/ up' = [up EXCEPT ![me.h] = row]
        BY <1>4 DEF InsertUpload
      <3> HIDE DEF row, me
      <3> QED
        BY <1>0, <2>1, <3>1, <3>2 DEF UpTyped
    <2> QED
      BY <1>0, <1>4, <2>2 DEF InsertUpload, AttTyped, RestTyped
  <1>5. ASSUME NEW a \in AttIds, Attach(c, a)
        PROVE  UpTyped' /\ AttTyped' /\ RestTyped'
    <2>1. me.h \in Hashes /\ me.n \in 0..MaxRows /\ me.dir \in Dirs
      BY <1>5, AttachCall
    <2>2. AttTyped'
      BY <1>0, <1>5, <2>1 DEF Attach, AttTyped, Attachment, Bizs
    <2>3. late' \subseteq AttIds
      BY <1>5, <1>j DEF Attach
    <2> QED
      BY <1>0, <1>5, <2>2, <2>3 DEF Attach, UpTyped, RestTyped
  <1>6. ASSUME NEW a \in AttIds, CommitAvatar(c, a)
        PROVE  UpTyped' /\ AttTyped' /\ RestTyped'
    <2>1. me.h \in Hashes /\ me.n \in 0..MaxRows /\ me.dir \in Dirs
      BY <1>6, CommitCall
    <2>2. AttTyped'
      <3> DEFINE R == Remove(me.gone)
                 x == [state |-> "live", h |-> me.h, n |-> me.n, dir |-> me.dir, biz |-> "avatar"]
      <3>1. R \in [AttIds -> Attachment]
        BY <1>0, RemoveTyped
      <3>2. x \in Attachment
        BY <2>1 DEF Attachment, Bizs
      <3>3. att' = [R EXCEPT ![a] = x]
        BY <1>6 DEF CommitAvatar
      <3> HIDE DEF R, x
      <3> QED
        BY <3>1, <3>2, <3>3 DEF AttTyped
    <2>3. late' \subseteq AttIds /\ avatar' \in AttIds
      BY <1>6, <1>j DEF CommitAvatar
    <2>4. UpTyped'
      <3> DEFINE rm == {u[1] : u \in me.rm}
                 x == [n |-> me.n, stored |-> TRUE, dir |-> me.dir]
                 f(h) == [up[h] EXCEPT !.stored = @ /\ h \notin rm]
      <3>1. x \in Upload
        BY <2>1 DEF Upload
      <3>2. ASSUME NEW h \in Hashes PROVE f(h) \in Upload
        <4> HIDE DEF rm
        <4> QED
          BY <1>0 DEF Upload
      <3>3. up' = [h \in Hashes |-> IF Inserted(c) /\ h = me.h THEN x ELSE f(h)]
        BY <1>6 DEF CommitAvatar
      <3> HIDE DEF x, f, rm
      <3> QED
        BY <3>1, <3>2, <3>3 DEF UpTyped
    <2> QED
      BY <1>0, <1>6, <2>2, <2>3, <2>4 DEF CommitAvatar, RestTyped
  <1>7. CASE RemoveAttachments(c)
    <2>1. AttTyped'
      BY <1>0, <1>7, RemoveTyped DEF RemoveAttachments, AttTyped
    <2> QED
      BY <1>0, <1>7, <1>f, <2>1 DEF RemoveAttachments, UpTyped, RestTyped
  <1>8. CASE \E i \in me.todo : Count(c, i)
    <2>1. PICK i \in me.todo : Count(c, i)
      BY <1>8
    <2>2. i.h \in Hashes
      BY <1>0, <2>1 DEF Call, Item
    <2> QED
      BY <1>0, <2>1, <2>2 DEF Count, UpTyped, AttTyped, RestTyped, tables
  <1>9. ASSUME NEW i \in me.cur, Unlink(c, i)
        PROVE  UpTyped' /\ AttTyped' /\ RestTyped'
    <2>1. i \in Item
      BY <1>0 DEF Call
    <2>2. <<i.dir, i.h>> \in Paths
      BY <2>1 DEF Item, Paths
    <2> QED
      BY <1>0, <1>9, <2>2 DEF Unlink, UpTyped, AttTyped, RestTyped, tables
  <1>10. ASSUME NEW i \in me.cur, DropUpload(c, i)
         PROVE  UpTyped' /\ AttTyped' /\ RestTyped'
    <2>1. i.h \in Hashes
      BY <1>0 DEF Call, Item
    <2>2. UpTyped'
      <3>1. up' = up \/ up' = [up EXCEPT ![i.h].stored = FALSE]
        BY <1>10 DEF DropUpload
      <3> QED
        BY <1>0, <2>1, <3>1 DEF UpTyped, Upload
    <2>3. AttTyped'
      <3>1. att' = att \/ att' = Remove(Users(i.h, i.n))
        BY <1>10 DEF DropUpload
      <3> QED
        BY <1>0, <3>1, RemoveTyped DEF AttTyped
    <2> QED
      BY <1>0, <1>10, <2>2, <2>3 DEF DropUpload, RestTyped
  <1>11. CASE Repoint(c)
    <2>1. me.a \in AttIds /\ me.h \in Hashes /\ me.n \in 0..MaxRows
      BY <1>11, RepointCall
    <2>2. AttTyped'
      BY <1>0, <1>11, <2>1 DEF Repoint, AttTyped, Attachment
    <2>3. late' \subseteq AttIds
      BY <1>11, <2>1, <1>j DEF Repoint
    <2> QED
      BY <1>0, <1>11, <1>f, <2>2, <2>3 DEF Repoint, UpTyped, RestTyped
  <1>12. CASE Move(c)
    <2>1. me.h \in Hashes /\ me.dir \in Dirs
      BY <1>12, MoveCall
    <2>2. UpTyped'
      BY <1>0, <1>12, <2>1 DEF Move, UpTyped, Upload
    <2> QED
      BY <1>0, <1>12, <2>2 DEF Move, AttTyped, RestTyped
  <1> QED
    BY <1>1, <1>3, <1>4, <1>5, <1>6, <1>7, <1>8, <1>9, <1>10, <1>11, <1>12 DEF Works

-----------------------------------------------------------------------------
(* Rows that a transaction has deleted, or inserted, are its own until it  *)
(* ends.                                                                   *)

\* It has deleted rows that are there for the others, an upload with all that refer to it.
\* It attaches to an upload it has seen, or to the one it has inserted.
Sound(v) ==
  /\ \A a \in v.gone : Live(a)
  /\ \A h \in Hashes, n \in 0..MaxRows :
       <<h, n>> \in v.rm => Stored(h, n) /\ Users(h, n) \subseteq v.gone
  /\ v.op = "avatar" /\ v.pc = "attach" =>
       \/ v.n <= up[v.h].n /\ <<v.h, v.n>> \notin v.rm
       \/ v.n = up[v.h].n + 1 /\ (up[v.h].stored => <<v.h, up[v.h].n>> \in v.rm)
Opens(v) == v.op = "avatar" /\ v.pc = "attach" /\ v.n > up[v.h].n
Apart(v, w) ==
  /\ v.gone \cap w.gone = {} /\ v.rm \cap w.rm = {}
  /\ ~(Opens(v) /\ Opens(w) /\ v.h = w.h)
Locks ==
  /\ \A c \in Calls : Sound(call[c])
  /\ \A c, d \in Calls : c # d => Apart(call[c], call[d])

\* A call that takes more under its locks, from what is free.
LEMMA TakesLocks ==
  ASSUME CallsTyped, Locks, NEW c \in Calls, NEW v, Change(c, v), Sound(v),
         \A d \in Calls \ {c} : Apart(v, call[d]), UNCHANGED <<up, att>>
  PROVE  Locks'
  <1>1. call'[c] = v /\ \A d \in Calls \ {c} : call'[d] = call[d]
    BY Changed
  <1>2. \A d \in Calls : Sound(call'[d])
    BY <1>1 DEF Locks
  <1>3. \A d, e \in Calls : d # e => Apart(call'[d], call'[e])
    <2> SUFFICES ASSUME NEW d \in Calls, NEW e \in Calls, d # e PROVE Apart(call'[d], call'[e])
      OBVIOUS
    <2>1. Apart(call'[d], call'[e]) \/ Apart(call'[e], call'[d])
      BY <1>1 DEF Locks
    <2> QED
      BY <2>1 DEF Apart
  <1>4. ASSUME NEW d \in Calls PROVE Sound(call[d])'
    BY <1>2 DEF Sound, Live, Stored, Users
  <1>5. ASSUME NEW d \in Calls, NEW e \in Calls, d # e PROVE Apart(call[d], call[e])'
    BY <1>3, <1>5 DEF Apart, Opens
  <1> QED
    BY <1>4, <1>5 DEF Locks

\* What a step must leave of the rows for a call that it does not concern.
Spares(d) ==
  /\ \A a \in call[d].gone : att'[a].state = "live"
  /\ \A h \in Hashes, n \in 0..MaxRows : <<h, n>> \in call[d].rm =>
       /\ up'[h].stored /\ up'[h].n = n
       /\ \A a \in AttIds : att'[a].state = "live" /\ att'[a].h = h /\ att'[a].n = n => a \in call[d].gone
  /\ InTx(d) /\ call[d].pc = "attach" =>
       LET h == call[d].h IN
       \/ up'[h].n = up[h].n /\ (up'[h].stored => up[h].stored)
       \/ ~Inserted(d) /\ up'[h].n \in Nat /\ up'[h].n >= up[h].n

LEMMA SparesLocks ==
  ASSUME Typed, Locks, NEW C \in SUBSET Calls,
         \A c \in C : call'[c].gone = {} /\ call'[c].rm = {}
                      /\ ~(call'[c].op = "avatar" /\ call'[c].pc = "attach"),
         \A d \in Calls \ C : call'[d] = call[d] /\ Spares(d)
  PROVE  Locks'
  <1>0. \A d \in Calls : call[d] \in Call /\ Fits(call[d])
    BY DEF Typed, CallsTyped
  <1>u. \A h \in Hashes : up[h].n \in 0..MaxRows
    BY DEF Typed, UpTyped, Upload
  <1>1. ASSUME NEW d \in Calls PROVE Sound(call[d])'
    <2>1. CASE d \in C
      BY <2>1 DEF Sound, Live, Stored, Users
    <2>2. CASE d \notin C
      <3>1. Sound(call[d]) /\ Spares(d) /\ call'[d] = call[d] /\ call[d].n \in 0..MaxRows
        BY <1>0, <2>2 DEF Locks, Call
      <3>2. /\ \A a \in call'[d].gone : att'[a].state = "live"
            /\ \A h \in Hashes, n \in 0..MaxRows : <<h, n>> \in call'[d].rm =>
                 /\ up'[h].stored /\ up'[h].n = n
                 /\ \A a \in AttIds : att'[a].state = "live" /\ att'[a].h = h /\ att'[a].n = n
                                        => a \in call'[d].gone
        BY <3>1 DEF Spares
      <3>3. ASSUME InTx(d), call[d].pc = "attach", NEW h, h = call[d].h
            PROVE  \/ call[d].n <= up'[h].n /\ <<h, call[d].n>> \notin call[d].rm
                   \/ call[d].n = up'[h].n + 1 /\ (up'[h].stored => <<h, up'[h].n>> \in call[d].rm)
        <4>1. h \in Hashes /\ up[h].n \in 0..MaxRows
          BY <1>0, <1>u, <3>3 DEF Fits, InTx
        <4>2. CASE up'[h].n = up[h].n /\ (up'[h].stored => up[h].stored)
          BY <3>1, <3>3, <4>2 DEF Sound, InTx
        <4>3. CASE ~Inserted(d) /\ up'[h].n \in Nat /\ up'[h].n >= up[h].n
          BY <3>1, <3>3, <4>1, <4>3 DEF Sound, InTx, Inserted
        <4> QED
          BY <3>1, <3>3, <4>2, <4>3 DEF Spares
      <3> QED
        BY <3>1, <3>2, <3>3 DEF Sound, Live, Stored, Users, InTx
    <2> QED
      BY <2>1, <2>2
  <1>2. ASSUME NEW d \in Calls, NEW e \in Calls, d # e PROVE Apart(call[d], call[e])'
    <2>1. CASE d \in C \/ e \in C
      BY <2>1 DEF Apart, Opens
    <2>2. CASE d \notin C /\ e \notin C
      <3>1. Apart(call[d], call[e]) /\ call'[d] = call[d] /\ call'[e] = call[e]
        BY <1>2, <2>2 DEF Locks
      <3>2. ASSUME NEW x \in Calls \ C, Opens(call[x])' PROVE Opens(call[x])
        <4> DEFINE h == call[x].h
        <4>1. /\ call'[x] = call[x] /\ Spares(x) /\ InTx(x) /\ call[x].pc = "attach"
              /\ call[x].n > up'[h].n /\ call[x].n \in 0..MaxRows /\ h \in Hashes
              /\ up[h].n \in 0..MaxRows
          BY <1>0, <1>u, <3>2 DEF Opens, InTx, Call, Fits
        <4>2. CASE up'[h].n = up[h].n
          BY <4>1, <4>2 DEF Opens, InTx
        <4>3. CASE ~Inserted(x) /\ up'[h].n \in Nat /\ up'[h].n >= up[h].n
          BY <4>1, <4>3 DEF Inserted
        <4> QED
          BY <4>1, <4>2, <4>3 DEF Spares
      <3> QED
        BY <2>2, <3>1, <3>2 DEF Apart
    <2> QED
      BY <2>1, <2>2
  <1> QED
    BY <1>1, <1>2 DEF Locks

LEMMA SparesButOne ==
  ASSUME Typed, Locks, NEW c \in Calls, NEW v, Change(c, v), v.gone = {}, v.rm = {}, v.op # "avatar",
         \A d \in Calls \ {c} : Spares(d)
  PROVE  Locks'
  <1> DEFINE C == {c}
  <1>1. call'[c] = v /\ \A d \in Calls \ {c} : call'[d] = call[d]
    BY Changed DEF Typed
  <1>2. C \in SUBSET Calls
    OBVIOUS
  <1>3. \A d \in C : call'[d].gone = {} /\ call'[d].rm = {}
                     /\ ~(call'[d].op = "avatar" /\ call'[d].pc = "attach")
    BY <1>1
  <1>4. \A d \in Calls \ C : call'[d] = call[d] /\ Spares(d)
    BY <1>1
  <1> HIDE DEF C
  <1> QED
    BY ONLY Typed, Locks, <1>2, <1>3, <1>4, SparesLocks, SMTT(30)

\* A step that changes none of these rows.
LEMMA SparesAll ==
  ASSUME Typed, Locks, UNCHANGED <<up, att>>, NEW d \in Calls
  PROVE  Spares(d)
  BY DEF Locks, Sound, Spares, Live, Stored, Users

LEMMA AbandonLocks ==
  ASSUME Typed, Locks, NEW C \in SUBSET Calls, Abandon(C)
  PROVE  Locks' /\ Refers'
  <1>1. /\ \A c \in C : call'[c] = Idle
        /\ \A c \in Calls \ C : call'[c] = call[c]
        /\ UNCHANGED <<up, att>>
    BY AbandonCalls DEF Typed, tables
  <1>2. Refers'
    BY <1>1 DEF Typed, Refers, Live, Stored
  <1>3. Idle.gone = {} /\ Idle.rm = {} /\ Idle.op # "avatar"
    BY DEF Idle
  <1> QED
    BY <1>1, <1>2, <1>3, SparesAll, SparesLocks

LEMMA SameRows ==
  ASSUME Refers, UNCHANGED <<up, att>>
  PROVE  Refers'
  BY DEF Refers, Live, Stored

\* Most steps of a call change none of the rows and keep its locks.
LEMMA KeepsLocks ==
  ASSUME Typed, Locks, NEW c \in Calls, NEW v, Change(c, v), UNCHANGED <<up, att>>,
         v.gone = call[c].gone, v.rm = call[c].rm,
         v.pc = "attach" => v.n = up[v.h].n /\ <<v.h, v.n>> \notin v.rm
  PROVE  Locks' /\ Refers'
  <1>1. CallsTyped /\ Refers /\ Fits(v) /\ v \in Call
    BY DEF Typed, Change
  <1>2. v.op = "avatar" /\ v.pc = "attach" => v.n <= up[v.h].n /\ ~(v.n > up[v.h].n)
    BY <1>1 DEF Fits, Typed, UpTyped, Upload
  <1>3. Sound(v)
    <2>1. Sound(call[c])
      BY DEF Locks
    <2> QED
      BY <1>2, <2>1 DEF Sound
  <1>4. ASSUME NEW d \in Calls \ {c} PROVE Apart(v, call[d])
    <2>1. Apart(call[c], call[d])
      BY DEF Locks
    <2> QED
      BY <1>2, <2>1 DEF Apart, Opens
  <1> QED
    BY <1>1, <1>3, <1>4, TakesLocks, SameRows

LEMMA QuietLocks ==
  ASSUME Typed, Locks, NEW c \in Calls,
         \/ Beginning(c) \/ Lookup(c) \/ WriteFile(c)
         \/ \E i \in call[c].todo : Count(c, i)
         \/ \E i \in call[c].cur : Unlink(c, i)
  PROVE  Locks' /\ Refers'
  <1>1. CASE Beginning(c)
    <2>1. /\ UNCHANGED <<up, att>> /\ call[c].gone = {} /\ call[c].rm = {}
      BY <1>1, BeginCall DEF tables, Idle
    <2>2. PICK v : Change(c, v) /\ v.gone = {} /\ v.rm = {} /\ v.pc \in {"lookup", "remove", "write"}
      BY <1>1, BeginCall
    <2> QED
      BY <2>1, <2>2, KeepsLocks
  <1>2. CASE Lookup(c)
    <2>1. UNCHANGED <<up, att>>
      BY <1>2 DEF Lookup, tables
    <2>2. PICK v : /\ Change(c, v) /\ v.gone = call[c].gone /\ v.rm = call[c].rm
                   /\ \/ v.pc = "write"
                      \/ v.pc = "attach" /\ v.n = up[v.h].n /\ <<v.h, v.n>> \notin v.rm
      BY <1>2, LookupCall
    <2> QED
      BY <2>1, <2>2, KeepsLocks
  <1>3. CASE WriteFile(c)
    <2>1. UNCHANGED <<up, att>>
      BY <1>3 DEF WriteFile, tables
    <2>2. PICK v : /\ Change(c, v) /\ v.gone = call[c].gone /\ v.rm = call[c].rm
                   /\ v.pc \in {"insert", "move"}
      BY <1>3, WriteCall
    <2> QED
      BY <2>1, <2>2, KeepsLocks
  <1>4. CASE \E i \in call[c].todo : Count(c, i)
    <2>1. UNCHANGED <<up, att>>
      BY <1>4 DEF Count, tables
    <2>2. PICK v : /\ Change(c, v) /\ v.gone = call[c].gone /\ v.rm = call[c].rm
                   /\ v.pc \in {"unlink", "count", "lookup", "idle"}
      <3>1. PICK i \in call[c].todo : Count(c, i)
        BY <1>4
      <3>2. \E seen : seen = Users(i.h, i.n) \ call[c].gone
        OBVIOUS
      <3> QED
        BY <3>1, <3>2, CountCall DEF Counts
    <2> QED
      BY <2>1, <2>2, KeepsLocks
  <1>5. CASE \E i \in call[c].cur : Unlink(c, i)
    <2>1. UNCHANGED <<up, att>>
      BY <1>5 DEF Unlink, tables
    <2>2. PICK v : /\ Change(c, v) /\ v.gone = call[c].gone /\ v.rm = call[c].rm /\ v.pc = "drop"
      BY <1>5, UnlinkCall
    <2> QED
      BY <2>1, <2>2, KeepsLocks
  <1> QED
    BY <1>1, <1>2, <1>3, <1>4, <1>5

LEMMA InsertLocks ==
  ASSUME Typed, Locks, NEW c \in Calls, InsertUpload(c)
  PROVE  Locks' /\ Refers'
  <1> DEFINE h == call[c].h
  <1>1. PICK v : /\ Change(c, v) /\ v.gone = call[c].gone /\ v.rm = call[c].rm
                 /\ v.h = call[c].h /\ v.op = call[c].op
                 /\ v.pc \in {"attach", "repoint"} /\ v.n = up[v.h].n + 1
    BY InsertCall
  <1>2. /\ h \in Hashes /\ up[h].n \in 0..MaxRows /\ call[c].pc = "insert" /\ Sound(call[c])
        /\ CallsTyped /\ Refers /\ UpTyped
    BY InsertCall DEF Locks, Typed, UpTyped, Upload
  <1>3. /\ \A d \in Calls \ {c} : ~(Inserted(d) /\ call[d].h = h)
        /\ \A d \in Calls \ {c}, n \in 0..MaxRows : <<h, n>> \notin call[d].rm
        /\ ~up[h].stored \/ <<h, up[h].n>> \in call[c].rm
        /\ UNCHANGED att
    BY DEF InsertUpload, HashLocked
  <1>4. CASE InTx(c)
    <2>1. UNCHANGED <<up, att>>
      BY <1>4 DEF InsertUpload
    <2>2. Sound(v)
      BY <1>1, <1>2, <1>3 DEF Sound
    <2>3. ASSUME NEW d \in Calls \ {c} PROVE Apart(v, call[d])
      <3>1. Apart(call[c], call[d])
        BY DEF Locks
      <3>2. Opens(call[d]) => Inserted(d)
        BY DEF Opens, Inserted, InTx
      <3> QED
        BY <1>1, <1>3, <3>1, <3>2 DEF Apart
    <2> QED
      BY <1>1, <1>2, <2>1, <2>2, <2>3, TakesLocks, SameRows
  <1>5. CASE ~InTx(c)
    <2>1. call[c].gone = {} /\ call[c].rm = {} /\ v.op # "avatar"
      BY <1>1, <1>2, <1>5 DEF Sound, InTx, CallsTyped, Fits
    <2>2. /\ ~up[h].stored
          /\ up' = [up EXCEPT ![h] = [n |-> up[h].n + 1, stored |-> TRUE, dir |-> call[c].dir]]
      BY <1>3, <1>5, <2>1 DEF InsertUpload
    <2>3. /\ up'[h].n = up[h].n + 1 /\ up'[h].stored
          /\ \A g \in Hashes \ {h} : up'[g] = up[g]
      BY <1>2, <2>2 DEF UpTyped
    <2>4. ASSUME NEW d \in Calls \ {c} PROVE Spares(d)
      <3>1. Sound(call[d]) /\ Fits(call[d])
        BY <1>2 DEF Locks, CallsTyped
      <3>2. \A g \in Hashes, n \in 0..MaxRows : <<g, n>> \in call[d].rm => g # h
        BY <1>3
      <3>3. \A a \in call[d].gone : att'[a].state = "live"
        BY <1>3, <3>1 DEF Sound, Live
      <3>4. ASSUME NEW g \in Hashes, NEW n \in 0..MaxRows, <<g, n>> \in call[d].rm
            PROVE  /\ up'[g].stored /\ up'[g].n = n
                   /\ \A a \in AttIds : att'[a].state = "live" /\ att'[a].h = g /\ att'[a].n = n => a \in call[d].gone
        BY <1>3, <2>3, <3>1, <3>2, <3>4 DEF Sound, Stored, Users, Live
      <3>5. ASSUME InTx(d), call[d].pc = "attach", NEW g, g = call[d].h
            PROVE  \/ up'[g].n = up[g].n /\ (up'[g].stored => up[g].stored)
                   \/ ~Inserted(d) /\ up'[g].n \in Nat /\ up'[g].n >= up[g].n
        <4>1. g \in Hashes
          BY <3>1, <3>5 DEF Fits, InTx
        <4>2. CASE g = h
          <5>1. ~Inserted(d)
            BY <1>3, <3>5, <4>2
          <5>2. up[g].n \in Nat /\ up'[g].n = up[g].n + 1
            BY <1>2, <2>3, <4>2, AttachmentsAssumption
          <5> QED
            BY <5>1, <5>2
        <4>3. CASE g # h
          BY <2>3, <4>1, <4>3
        <4> QED
          BY <4>2, <4>3
      <3> QED
        BY <3>3, <3>4, <3>5 DEF Spares
    <2>5. Refers'
      <3> SUFFICES ASSUME NEW a \in AttIds, att'[a].state = "live"
                   PROVE  att'[a].h \in Hashes /\ up'[att'[a].h].stored /\ up'[att'[a].h].n = att'[a].n
        BY DEF Refers, Live, Stored
      <3>1. att[a].h \in Hashes /\ up[att[a].h].stored /\ up[att[a].h].n = att[a].n /\ att'[a] = att[a]
        BY <1>2, <1>3 DEF Refers, Live, Stored
      <3> QED
        BY <2>2, <2>3, <3>1
    <2>6. Locks'
      BY <1>1, <2>1, <2>4, SparesButOne
    <2> QED
      BY <2>5, <2>6
  <1> QED
    BY <1>4, <1>5

\* A step that only gives attachments another upload, or takes them away.
LEMMA AttLocks ==
  ASSUME Typed, Locks, UNCHANGED up, NEW d \in Calls,
         \A a \in call[d].gone : att'[a] = att[a],
         \A a \in AttIds : \/ att'[a] = att[a]
                           \/ att'[a].state # "live"
                           \/ <<att'[a].h, att'[a].n>> \notin call[d].rm
  PROVE  Spares(d)
  <1>1. Sound(call[d])
    BY DEF Locks
  <1>2. \A a \in call[d].gone : att'[a].state = "live"
    BY <1>1 DEF Sound, Live
  <1>3. ASSUME NEW h \in Hashes, NEW n \in 0..MaxRows, <<h, n>> \in call[d].rm
        PROVE  /\ up'[h].stored /\ up'[h].n = n
               /\ \A a \in AttIds : att'[a].state = "live" /\ att'[a].h = h /\ att'[a].n = n => a \in call[d].gone
    BY <1>1, <1>3 DEF Sound, Stored, Users, Live
  <1> QED
    BY <1>2, <1>3 DEF Spares

LEMMA AttachLocks ==
  ASSUME Typed, Locks, NEW c \in Calls, NEW a \in AttIds, Attach(c, a)
  PROVE  Locks' /\ Refers'
  <1> DEFINE me == call[c]
  <1>1. /\ Change(c, Idle) /\ me.op = "create" /\ me.h \in Hashes /\ me.gone = {} /\ me.rm = {}
        /\ CallsTyped /\ Refers /\ att \in [AttIds -> Attachment]
    BY AttachCall DEF Typed, AttTyped
  <1>2. /\ UNCHANGED up /\ att[a].state = "new" /\ Stored(me.h, me.n)
        /\ \A d \in Calls \ {c} : <<me.h, me.n>> \notin call[d].rm
        /\ att' = [att EXCEPT ![a] = [state |-> "live", h |-> me.h, n |-> me.n,
                                      dir |-> me.dir, biz |-> "file"]]
    BY DEF Attach, UploadLocked
  <1>3. /\ att'[a].h = me.h /\ att'[a].n = me.n /\ \A b \in AttIds \ {a} : att'[b] = att[b]
    BY <1>1, <1>2
  <1>4. ASSUME NEW d \in Calls \ {c} PROVE Spares(d)
    <2>1. \A b \in call[d].gone : b \in AttIds /\ att[b].state = "live"
      BY <1>1 DEF Locks, Sound, Live, CallsTyped, Call
    <2>2. \A b \in call[d].gone : att'[b] = att[b]
      BY <1>2, <1>3, <2>1
    <2> QED
      BY <1>2, <1>3, <2>2, AttLocks
  <1>5. Refers'
    BY <1>1, <1>2, <1>3 DEF Refers, Live, Stored
  <1>6. Locks'
    BY <1>1, <1>4, SparesButOne DEF Idle
  <1> QED
    BY <1>5, <1>6

LEMMA Removed ==
  ASSUME AttTyped, NEW S, att' = Remove(S), NEW a \in AttIds
  PROVE  IF a \in S THEN att'[a].state = "deleted" ELSE att'[a] = att[a]
  BY DEF Remove, Unborn

LEMMA RemovedRefers ==
  ASSUME Typed, NEW S, att' = Remove(S),
         \A a \in AttIds \ S : Live(a) => up'[att[a].h].stored /\ up'[att[a].h].n = att[a].n
  PROVE  Refers'
  BY Removed DEF Typed, Refers, Live, Stored

LEMMA RemoveLocks ==
  ASSUME Typed, Locks, NEW c \in Calls, RemoveAttachments(c)
  PROVE  Locks' /\ Refers'
  <1> DEFINE ids == {i.a : i \in call[c].todo}
  <1> HIDE DEF ids
  <1>a. PICK v : Removes(c, ids, v)
    BY RemoveCall DEF ids
  <1>1. /\ Change(c, v) /\ v.pc = "count" /\ v.rm = {}
        /\ v.gone = (IF InTx(c) THEN {a \in ids : Live(a)} ELSE {}) /\ v.op = call[c].op
    BY <1>a DEF Removes
  <1>2. /\ ids \subseteq AttIds /\ UNCHANGED up
        /\ \A a \in ids : ~RowLocked(c, a)
        /\ IF InTx(c) THEN UNCHANGED att ELSE att' = Remove(ids)
        /\ CallsTyped /\ Refers /\ AttTyped
    BY RemoveCall DEF ids, Typed
  <1>3. \A d \in Calls \ {c} : call[d].gone \cap ids = {}
    BY <1>2 DEF RowLocked
  <1>4. CASE InTx(c)
    <2>1. Sound(v) /\ ~Opens(v)
      BY <1>1, <1>4 DEF Sound, Opens
    <2>2. \A d \in Calls \ {c} : Apart(v, call[d])
      BY <1>1, <1>3, <1>4, <2>1 DEF Apart
    <2> QED
      BY <1>1, <1>2, <1>4, <2>1, <2>2, TakesLocks, SameRows
  <1>5. CASE ~InTx(c)
    <2>1. ASSUME NEW d \in Calls \ {c} PROVE Spares(d)
      <3>1. call[d].gone \subseteq AttIds
        BY <1>2 DEF CallsTyped, Call
      <3> QED
        BY <1>2, <1>3, <1>5, <3>1, Removed, AttLocks
    <2>2. Refers'
      BY <1>2, <1>5, RemovedRefers DEF Refers, Stored
    <2> QED
      BY <1>1, <1>5, <2>1, <2>2, SparesButOne DEF InTx
  <1> QED
    BY <1>4, <1>5

LEMMA DropLocks ==
  ASSUME Typed, Locks, NEW c \in Calls, NEW i \in call[c].cur, DropUpload(c, i)
  PROVE  Locks' /\ Refers'
  <1> DEFINE users == Users(i.h, i.n)
  <1> HIDE DEF users
  <1>a. PICK v : Drops(c, i, users, v)
    BY DropCall DEF users
  <1>1. /\ Change(c, v) /\ v.pc \in {"count", "lookup", "idle"}
        /\ v.gone = (IF InTx(c) THEN call[c].gone \cup users ELSE {})
        /\ v.rm = (IF InTx(c) THEN call[c].rm \cup {<<i.h, i.n>>} ELSE {})
        /\ (v.op = "avatar" <=> InTx(c))
    BY <1>a DEF Drops
  <1>b. IF InTx(c) THEN UNCHANGED <<up, att>>
        ELSE up' = [up EXCEPT ![i.h].stored = FALSE] /\ att' = Remove(users)
    BY DEF DropUpload, users
  <1>2. /\ i \in Item /\ i.h \in Hashes /\ i.n \in 0..MaxRows
        /\ IF InTx(c) THEN UNCHANGED <<up, att>>
           ELSE up' = [up EXCEPT ![i.h].stored = FALSE] /\ att' = Remove(users)
        /\ CallsTyped /\ Refers /\ AttTyped /\ UpTyped /\ Sound(call[c])
    BY <1>b, DropCall DEF Typed, Item, Locks
  <1>3. /\ Stored(i.h, i.n)
        /\ \A d \in Calls \ {c} : <<i.h, i.n>> \notin call[d].rm /\ call[d].gone \cap users = {}
    BY DEF DropUpload, UploadLocked, RowLocked, users
  <1>4. \A a \in AttIds : a \in users <=> Live(a) /\ att[a].h = i.h /\ att[a].n = i.n
    BY DEF users, Users
  <1>5. users \subseteq AttIds
    BY DEF users, Users
  <1>6. CASE InTx(c)
    <2>1. Sound(v) /\ ~Opens(v)
      <3>1. \A a \in v.gone : Live(a)
        BY <1>1, <1>2, <1>4, <1>5, <1>6 DEF Sound
      <3>2. ASSUME NEW h \in Hashes, NEW n \in 0..MaxRows, <<h, n>> \in v.rm
            PROVE  Stored(h, n) /\ Users(h, n) \subseteq v.gone
        <4>1. CASE <<h, n>> \in call[c].rm
          BY <1>1, <1>2, <1>6, <4>1 DEF Sound
        <4>2. CASE <<h, n>> = <<i.h, i.n>>
          <5>1. h = i.h /\ n = i.n
            BY <4>2
          <5> QED
            BY <1>1, <1>3, <1>6, <5>1 DEF users
        <4> QED
          BY <1>1, <1>6, <3>2, <4>1, <4>2
      <3> QED
        BY <1>1, <3>1, <3>2 DEF Sound, Opens
    <2>2. ASSUME NEW d \in Calls \ {c} PROVE Apart(v, call[d])
      <3>1. Apart(call[c], call[d])
        BY DEF Locks
      <3> QED
        BY <1>1, <1>3, <1>6, <2>1, <3>1 DEF Apart
    <2> QED
      BY <1>1, <1>2, <1>6, <2>1, <2>2, TakesLocks, SameRows
  <1>7. CASE ~InTx(c)
    <2>0. /\ att' = Remove(users) /\ up'[i.h].n = up[i.h].n /\ up'[i.h].stored = FALSE
          /\ \A h \in Hashes \ {i.h} : up'[h] = up[h]
      BY <1>2, <1>7 DEF UpTyped, Upload
    <2>1. ASSUME NEW d \in Calls \ {c} PROVE Spares(d)
      <3>0. Sound(call[d]) /\ Fits(call[d]) /\ call[d].gone \subseteq AttIds
        BY <1>2 DEF Locks, CallsTyped, Call
      <3>1. \A a \in call[d].gone : att'[a].state = "live"
        BY <1>2, <1>3, <2>0, <3>0, Removed DEF Sound, Live
      <3>2. ASSUME NEW h \in Hashes, NEW n \in 0..MaxRows, <<h, n>> \in call[d].rm
            PROVE  /\ up'[h].stored /\ up'[h].n = n
                   /\ \A a \in AttIds : att'[a].state = "live" /\ att'[a].h = h /\ att'[a].n = n => a \in call[d].gone
        <4>1. up[h].stored /\ up[h].n = n /\ Users(h, n) \subseteq call[d].gone
          BY <3>0, <3>2 DEF Sound, Stored
        <4>2. h # i.h
          BY <1>3, <3>2, <4>1 DEF Stored
        <4>3. up'[h] = up[h]
          BY <2>0, <4>2
        <4>4. \A a \in AttIds : att'[a].state = "live" => att'[a] = att[a]
          BY <1>2, <2>0, Removed
        <4> QED
          BY <4>1, <4>3, <4>4 DEF Users, Live
      <3>3. ASSUME InTx(d), NEW h, h = call[d].h
            PROVE  up'[h].n = up[h].n /\ (up'[h].stored => up[h].stored)
        BY <2>0, <3>0, <3>3 DEF Fits, InTx
      <3> QED
        BY <3>1, <3>2, <3>3 DEF Spares
    <2>2. Refers'
      <3>1. ASSUME NEW a \in AttIds \ users, Live(a)
            PROVE  up'[att[a].h].stored /\ up'[att[a].h].n = att[a].n
        <4>1. att[a].h \in Hashes /\ up[att[a].h].stored /\ up[att[a].h].n = att[a].n
          BY <1>2, <3>1 DEF Refers, Stored
        <4>2. att[a].h # i.h
          BY <1>3, <1>4, <3>1, <4>1 DEF Stored
        <4> QED
          BY <2>0, <4>1, <4>2
      <3> QED
        BY <2>0, <3>1, RemovedRefers
    <2> QED
      BY <1>1, <1>7, <2>1, <2>2, SparesButOne
  <1> QED
    BY <1>6, <1>7

LEMMA DeleteCreatorLocks ==
  ASSUME Typed, Locks, NEW ids \in SUBSET AttIds, DeleteCreator(ids)
  PROVE  Typed' /\ Locks'
  <1>0. CallsTyped /\ UpTyped /\ AttTyped /\ RestTyped /\ Refers
    BY DEF Typed
  <1>1. /\ att' = Remove(ids) /\ UNCHANGED <<up, avatar, file, call, begun, faults, late, torn>>
        /\ stray' = stray \cup Forgotten(ids, {})
        /\ \A d \in Calls : call[d].gone \cap ids = {}
    BY DEF DeleteCreator
  <1>2. ASSUME NEW d \in Calls PROVE Spares(d) /\ call'[d] = call[d]
    <2>1. call[d].gone \subseteq AttIds
      BY <1>0 DEF CallsTyped, Call
    <2>2. \A a \in call[d].gone : att'[a] = att[a]
      BY <1>0, <1>1, <2>1, Removed
    <2>3. \A a \in AttIds : att'[a] = att[a] \/ att'[a].state # "live"
      BY <1>0, <1>1, Removed
    <2> QED
      BY <1>1, <2>2, <2>3, AttLocks
  <1>3. Locks'
    <2> DEFINE C == {}
    <2>1. C \in SUBSET Calls /\ Calls \ C = Calls /\ \A d : d \notin C
      OBVIOUS
    <2> HIDE DEF C
    <2> QED
      BY <1>2, <2>1, SparesLocks
  <1>4. Refers'
    BY <1>0, <1>1, RemovedRefers DEF Refers, Stored
  <1>5. CallsTyped' /\ UpTyped' /\ AttTyped'
    BY <1>0, <1>1, RemoveTyped DEF CallsTyped, UpTyped, AttTyped, Fits, Idle
  <1>6. RestTyped'
    BY <1>0, <1>1 DEF RestTyped, Forgotten
  <1> QED
    BY <1>3, <1>4, <1>5, <1>6 DEF Typed

LEMMA RepointLocks ==
  ASSUME Typed, Locks, NEW c \in Calls, Repoint(c)
  PROVE  Locks' /\ Refers'
  <1> DEFINE me == call[c]
             a == me.a
  <1>1. PICK v : Change(c, v) /\ v.gone = {} /\ v.rm = {} /\ v.op = "delete"
    BY RepointCall
  <1>2. /\ a \in AttIds /\ me.h \in Hashes /\ me.n \in 0..MaxRows
        /\ CallsTyped /\ Refers /\ att \in [AttIds -> Attachment]
    BY RepointCall DEF Typed, AttTyped
  <1>3. /\ UNCHANGED up /\ Live(a) /\ Stored(me.h, me.n)
        /\ \A d \in Calls \ {c} : <<me.h, me.n>> \notin call[d].rm /\ a \notin call[d].gone
        /\ att' = [att EXCEPT ![a].h = me.h, ![a].n = me.n]
    BY DEF Repoint, UploadLocked, RowLocked
  <1>4. /\ att'[a].h = me.h /\ att'[a].n = me.n /\ \A b \in AttIds \ {a} : att'[b] = att[b]
    BY <1>2, <1>3 DEF Attachment
  <1>5. ASSUME NEW d \in Calls \ {c} PROVE Spares(d)
    <2>1. call[d].gone \subseteq AttIds
      BY <1>2 DEF CallsTyped, Call
    <2>2. \A b \in call[d].gone : att'[b] = att[b]
      BY <1>3, <1>4, <2>1
    <2>3. <<att'[a].h, att'[a].n>> \notin call[d].rm
      BY <1>3, <1>4
    <2> QED
      BY <1>3, <1>4, <2>2, <2>3, AttLocks
  <1>6. Refers'
    BY <1>2, <1>3, <1>4 DEF Refers, Live, Stored
  <1> QED
    BY <1>1, <1>5, <1>6, SparesButOne

LEMMA MoveLocks ==
  ASSUME Typed, Locks, NEW c \in Calls, Move(c)
  PROVE  Locks' /\ Refers'
  <1> DEFINE me == call[c]
  <1>1. /\ Change(c, Idle) /\ me.h \in Hashes /\ CallsTyped /\ Refers /\ UpTyped
    BY MoveCall DEF Typed
  <1>2. UNCHANGED att /\ up' = [up EXCEPT ![me.h].dir = me.dir]
    BY DEF Move
  <1>3. \A h \in Hashes : up'[h].n = up[h].n /\ up'[h].stored = up[h].stored
    BY <1>1, <1>2 DEF UpTyped, Upload
  <1>4. ASSUME NEW d \in Calls PROVE Spares(d)
    <2>1. Sound(call[d]) /\ Fits(call[d])
      BY <1>1 DEF Locks, CallsTyped
    <2>2. InTx(d) => call[d].h \in Hashes
      BY <2>1 DEF Fits, InTx
    <2> QED
      BY <1>2, <1>3, <2>1, <2>2 DEF Spares, Sound, Stored, Users, Live
  <1>5. Refers'
    BY <1>1, <1>2, <1>3 DEF Refers, Live, Stored
  <1>6. Idle.gone = {} /\ Idle.rm = {} /\ Idle.op # "avatar"
    BY DEF Idle
  <1> QED
    BY <1>1, <1>4, <1>5, <1>6, SparesButOne

\* What a commit makes of the rows.
CommitsUploads(c) ==
  LET me == call[c] IN
  /\ Inserted(c) => /\ up'[me.h].n = me.n /\ up'[me.h].stored /\ up'[me.h].dir = me.dir
                    /\ me.n = up[me.h].n + 1
                    /\ (up[me.h].stored => <<me.h, up[me.h].n>> \in me.rm)
  /\ \A h \in Hashes : ~(Inserted(c) /\ h = me.h) =>
       /\ up'[h].n = up[h].n /\ up'[h].dir = up[h].dir
       /\ up'[h].stored <=> up[h].stored /\ <<h, up[h].n>> \notin me.rm
  /\ ~Inserted(c) => <<me.h, me.n>> \notin me.rm /\ Stored(me.h, me.n)
CommitsAtts(c, a) ==
  LET me == call[c] IN
  /\ att'[a].h = me.h /\ att'[a].n = me.n /\ att'[a].state = "live"
  /\ \A b \in AttIds \ {a} :
       IF b \in me.gone THEN att'[b].state = "deleted" ELSE att'[b] = att[b]
  /\ att[a].state = "new" /\ a \notin me.gone
  /\ \A d \in Calls \ {c} : <<me.h, me.n>> \notin call[d].rm

LEMMA Committed ==
  ASSUME Typed, Locks, NEW c \in Calls, NEW a \in AttIds, CommitAvatar(c, a)
  PROVE  CommitsUploads(c) /\ CommitsAtts(c, a)
  <1> DEFINE me == call[c]
             rm == {u[1] : u \in me.rm}
  <1>1. /\ me.h \in Hashes /\ me.n \in 0..MaxRows /\ me.rm \subseteq Hashes \X (0..MaxRows)
        /\ InTx(c) /\ me.pc = "attach" /\ Sound(me)
        /\ up \in [Hashes -> Upload] /\ AttTyped
    BY CommitCall DEF Locks, Typed, UpTyped
  <1>2. ASSUME NEW h \in Hashes
        PROVE  /\ h \in rm => <<h, up[h].n>> \in me.rm
               /\ <<h, up[h].n>> \in me.rm => h \in rm
    <2>1. ASSUME h \in rm PROVE <<h, up[h].n>> \in me.rm
      <3>1. PICK u \in me.rm : h = u[1]
        BY <2>1
      <3>2. u[1] \in Hashes /\ u[2] \in 0..MaxRows /\ u = <<u[1], u[2]>>
        BY <1>1
      <3>3. up[h].n = u[2]
        BY <1>1, <3>1, <3>2 DEF Sound, Stored
      <3> QED
        BY <3>1, <3>2, <3>3
    <2> QED
      BY <2>1
  <1>3. /\ up' = [h \in Hashes |-> IF Inserted(c) /\ h = me.h
                                   THEN [n |-> me.n, stored |-> TRUE, dir |-> me.dir]
                                   ELSE [up[h] EXCEPT !.stored = @ /\ h \notin rm]]
        /\ att' = [Remove(me.gone) EXCEPT ![a] = [state |-> "live", h |-> me.h, n |-> me.n,
                                                  dir |-> me.dir, biz |-> "avatar"]]
        /\ att[a].state = "new" /\ ~UploadLocked(c, me.h, me.n)
        /\ Inserted(c) \/ Stored(me.h, me.n)
    BY DEF CommitAvatar
  <1>4. ASSUME NEW h \in Hashes, Inserted(c), h = me.h
        PROVE  /\ up'[h].n = me.n /\ up'[h].stored /\ up'[h].dir = me.dir
               /\ me.n = up[h].n + 1 /\ (up[h].stored => <<h, up[h].n>> \in me.rm)
    <2>1. up[h].n \in Nat /\ me.n \in Nat /\ me.n > up[h].n
      BY <1>1, <1>4, AttachmentsAssumption DEF Inserted, Upload
    <2> QED
      BY <1>1, <1>3, <1>4, <2>1 DEF Sound, InTx
  <1>5. ASSUME NEW h \in Hashes, ~(Inserted(c) /\ h = me.h)
        PROVE  /\ up'[h].n = up[h].n /\ up'[h].dir = up[h].dir
               /\ up'[h].stored <=> up[h].stored /\ <<h, up[h].n>> \notin me.rm
    <2>1. up'[h] = [up[h] EXCEPT !.stored = @ /\ h \notin rm]
      BY <1>3, <1>5
    <2> HIDE DEF rm
    <2>2. up[h] \in Upload
      BY <1>1
    <2>3. up'[h].n = up[h].n /\ up'[h].dir = up[h].dir /\ up'[h].stored = (up[h].stored /\ h \notin rm)
      BY <2>1, <2>2 DEF Upload
    <2> QED
      BY <1>2, <2>2, <2>3 DEF Upload
  <1>6. ASSUME ~Inserted(c) PROVE <<me.h, me.n>> \notin me.rm /\ Stored(me.h, me.n)
    <2>1. Stored(me.h, me.n)
      BY <1>3, <1>6
    <2>2. up[me.h].n = me.n /\ me.n \in Nat
      BY <1>1, <2>1, AttachmentsAssumption DEF Stored
    <2> QED
      BY <1>1, <2>1, <2>2 DEF Sound, InTx
  <1>7. a \notin me.gone
    BY <1>1, <1>3 DEF Sound, Live
  <1>8. /\ att'[a].h = me.h /\ att'[a].n = me.n /\ att'[a].state = "live"
        /\ \A b \in AttIds \ {a} :
             IF b \in me.gone THEN att'[b].state = "deleted" ELSE att'[b] = att[b]
    BY <1>1, <1>3 DEF Remove, Unborn, AttTyped
  <1>9. CommitsUploads(c)
    BY <1>1, <1>4, <1>5, <1>6 DEF CommitsUploads
  <1>10. CommitsAtts(c, a)
    BY <1>3, <1>7, <1>8 DEF CommitsAtts, UploadLocked
  <1> QED
    BY <1>9, <1>10

LEMMA CommitLocks ==
  ASSUME Typed, Locks, NEW c \in Calls, NEW a \in AttIds, CommitAvatar(c, a)
  PROVE  Locks' /\ Refers'
  <1> DEFINE me == call[c]
  <1>0. /\ CallsTyped /\ Refers /\ Sound(me) /\ Change(c, Idle) /\ me.h \in Hashes
        /\ \A h \in Hashes : up[h].n \in Nat
    BY CommitCall, AttachmentsAssumption DEF Locks, Typed, UpTyped, Upload
  <1>1. /\ Inserted(c) => /\ up'[me.h].n = me.n /\ up'[me.h].stored
                          /\ me.n = up[me.h].n + 1
                          /\ (up[me.h].stored => <<me.h, up[me.h].n>> \in me.rm)
        /\ \A h \in Hashes : ~(Inserted(c) /\ h = me.h) =>
             /\ up'[h].n = up[h].n
             /\ up'[h].stored <=> up[h].stored /\ <<h, up[h].n>> \notin me.rm
        /\ ~Inserted(c) => <<me.h, me.n>> \notin me.rm /\ Stored(me.h, me.n)
    BY Committed DEF CommitsUploads
  <1>2. /\ att'[a].h = me.h /\ att'[a].n = me.n /\ att'[a].state = "live"
        /\ \A b \in AttIds \ {a} :
             IF b \in me.gone THEN att'[b].state = "deleted" ELSE att'[b] = att[b]
        /\ att[a].state = "new"
        /\ \A d \in Calls \ {c} : <<me.h, me.n>> \notin call[d].rm
    BY Committed DEF CommitsAtts
  <1>3. Refers'
    <2> SUFFICES ASSUME NEW b \in AttIds, att'[b].state = "live"
                 PROVE  att'[b].h \in Hashes /\ up'[att'[b].h].stored /\ up'[att'[b].h].n = att'[b].n
      BY DEF Refers, Live, Stored
    <2>1. CASE b = a
      BY <1>0, <1>1, <1>2, <2>1 DEF Stored
    <2>2. CASE b # a
      <3> DEFINE h == att[b].h
      <3>1. att'[b] = att[b] /\ b \notin me.gone
        BY <1>2, <2>2
      <3>2. h \in Hashes /\ up[h].stored /\ up[h].n = att[b].n
        BY <1>0, <3>1 DEF Refers, Live, Stored
      <3>3. up[h].n \in 0..MaxRows /\ b \in Users(h, up[h].n)
        BY <3>1, <3>2 DEF Users, Live, Typed, UpTyped, Upload
      <3>4. <<h, up[h].n>> \notin me.rm
        BY <1>0, <3>1, <3>2, <3>3 DEF Sound
      <3> QED
        BY <1>1, <3>1, <3>2, <3>4
    <2> QED
      BY <2>1, <2>2
  <1>4. ASSUME NEW d \in Calls \ {c} PROVE Spares(d)
    <2>0. /\ Sound(call[d]) /\ Fits(call[d]) /\ call[d].gone \subseteq AttIds
          /\ Apart(me, call[d])
      BY <1>0 DEF Locks, CallsTyped, Call
    <2>1. ASSUME NEW b \in call[d].gone PROVE att'[b].state = "live"
      BY <1>2, <2>0, <2>1 DEF Sound, Live, Apart
    <2>2. ASSUME NEW h \in Hashes, NEW n \in 0..MaxRows, <<h, n>> \in call[d].rm
          PROVE  /\ up'[h].stored /\ up'[h].n = n
                 /\ \A b \in AttIds : att'[b].state = "live" /\ att'[b].h = h /\ att'[b].n = n => b \in call[d].gone
      <3>1. up[h].stored /\ up[h].n = n /\ Users(h, n) \subseteq call[d].gone
        BY <2>0, <2>2 DEF Sound, Stored
      <3>2. <<h, n>> \notin me.rm
        BY <2>0, <2>2 DEF Apart
      <3>3. ~(Inserted(c) /\ h = me.h)
        BY <1>1, <3>1, <3>2
      <3>4. <<h, n>> # <<me.h, me.n>>
        BY <1>2, <2>2
      <3> QED
        BY <1>1, <1>2, <3>1, <3>2, <3>3, <3>4 DEF Users, Live
    <2>3. ASSUME InTx(d), call[d].pc = "attach", NEW h, h = call[d].h
          PROVE  \/ up'[h].n = up[h].n /\ (up'[h].stored => up[h].stored)
                 \/ ~Inserted(d) /\ up'[h].n \in Nat /\ up'[h].n >= up[h].n
      <3>1. h \in Hashes
        BY <2>0, <2>3 DEF Fits, InTx
      <3>2. CASE ~(Inserted(c) /\ h = me.h)
        BY <1>1, <3>1, <3>2
      <3>3. CASE Inserted(c) /\ h = me.h
        <4>1. ~Inserted(d)
          BY <2>0, <2>3, <3>3 DEF Apart, Opens, Inserted, InTx
        <4>2. up'[h].n = up[h].n + 1 /\ up[h].n \in Nat
          BY <1>0, <1>1, <3>1, <3>3
        <4> QED
          BY <4>1, <4>2
      <3> QED
        BY <3>2, <3>3
    <2> QED
      BY <2>1, <2>2, <2>3 DEF Spares
  <1>5. Idle.gone = {} /\ Idle.rm = {} /\ Idle.op # "avatar"
    BY DEF Idle
  <1> QED
    BY <1>0, <1>3, <1>4, <1>5, SparesButOne

-----------------------------------------------------------------------------
(* The type invariant.                                                     *)

Sane == Typed /\ Locks

LEMMA WorksSane ==
  ASSUME Sane, NEW c \in Calls, Works(c)
  PROVE  Sane'
  <1>0. Typed /\ Locks
    BY DEF Sane
  <1>1. CallsTyped' /\ UpTyped' /\ AttTyped' /\ RestTyped'
    BY <1>0, WorksCalls, WorksTables
  <1>2. Locks' /\ Refers'
    <2>1. CASE \/ Beginning(c) \/ Lookup(c) \/ WriteFile(c)
               \/ \E i \in call[c].todo : Count(c, i)
               \/ \E i \in call[c].cur : Unlink(c, i)
      BY <1>0, <2>1, QuietLocks
    <2>2. CASE InsertUpload(c) \/ RemoveAttachments(c) \/ Repoint(c) \/ Move(c)
      BY <1>0, <2>2, InsertLocks, RemoveLocks, RepointLocks, MoveLocks
    <2>3. CASE \E a \in AttIds : Attach(c, a) \/ CommitAvatar(c, a)
      BY <1>0, <2>3, AttachLocks, CommitLocks
    <2>4. CASE \E i \in call[c].cur : DropUpload(c, i)
      BY <1>0, <2>4, DropLocks
    <2> QED
      BY <2>1, <2>2, <2>3, <2>4 DEF Works
  <1> QED
    BY <1>1, <1>2 DEF Sane, Typed

LEMMA AbandonSane ==
  ASSUME Sane, NEW C \in SUBSET Calls, Abandon(C), faults' \in 0..MaxFaults
  PROVE  Sane'
  <1>0. Typed /\ Locks
    BY DEF Sane
  <1>1. CallsTyped' /\ UNCHANGED <<tables, file, begun, late>>
    BY <1>0, AbandonCalls DEF Typed
  <1>2. Locks' /\ Refers'
    BY <1>0, AbandonLocks
  <1>3. torn' \subseteq Paths
    <2>1. ASSUME NEW c \in C PROVE Unlinked(c) \subseteq Paths
      <3>1. /\ \A h \in Hashes : PathOf(h) \in Paths
            /\ \A i \in call[c].cur : i.h \in Hashes
            /\ \A u \in call[c].rm : u[1] \in Hashes
        BY <1>0 DEF Typed, UpTyped, Upload, PathOf, Paths, CallsTyped, Call, Item
      <3> QED
        BY <3>1 DEF Unlinked
    <2>2. torn' = torn \cup ((UNION {Unlinked(c) : c \in C}) \ file) /\ torn \subseteq Paths
      BY <1>0 DEF Abandon, Typed, RestTyped
    <2> QED
      BY <2>1, <2>2
  <1>4. stray' \subseteq Hashes
    <2>1. ASSUME NEW c \in C PROVE Unfinished(c) \subseteq Hashes
      <3>1. call[c] \in Call /\ Fits(call[c])
        BY <1>0 DEF Typed, CallsTyped
      <3>2. /\ \A i \in call[c].cur \cup call[c].todo : i.h \in Hashes
            /\ call[c].pc \in {"attach", "repoint"} => call[c].h \in Hashes
        BY <3>1 DEF Call, Item, Fits, Writing
      <3> QED
        BY <3>2 DEF Unfinished
    <2>2. /\ stray' = stray \cup {h \in UNION {Unfinished(c) : c \in C} :
                                    up[h].stored /\ Users(h, up[h].n) \subseteq Going}
          /\ stray \subseteq Hashes
      BY <1>0 DEF Abandon, Typed, RestTyped
    <2> QED
      BY <2>1, <2>2
  <1>5. UpTyped' /\ AttTyped' /\ RestTyped'
    BY <1>0, <1>1, <1>3, <1>4 DEF Typed, UpTyped, AttTyped, RestTyped, tables
  <1> QED
    BY <1>1, <1>2, <1>5 DEF Sane, Typed

LEMMA CrashAbandons ==
  ASSUME Sane, Crash
  PROVE  Calls \in SUBSET Calls /\ Abandon(Calls) /\ faults' \in 0..MaxFaults
  BY AttachmentsAssumption DEF Crash, Sane, Typed, RestTyped

LEMMA StutterSane ==
  ASSUME Sane, UNCHANGED vars
  PROVE  Sane'
  <1>0. Typed /\ Locks
    BY DEF Sane
  <1>1. UNCHANGED <<up, att, avatar, file, call, begun, faults, late, torn, stray>>
    BY DEF vars
  <1>2. Typed'
    BY <1>0, <1>1 DEF Typed, CallsTyped, UpTyped, AttTyped, RestTyped, Refers, Live, Stored, Fits, Idle
  <1>3. Locks'
    BY <1>0, <1>1 DEF Locks, Sound, Apart, Opens, Live, Stored, Users
  <1> QED
    BY <1>2, <1>3 DEF Sane

LEMMA InitSane ==
  ASSUME Init
  PROVE  Sane
  <1>1. /\ call = [c \in Calls |-> Idle] /\ late = {} /\ torn = {} /\ stray = {}
        /\ begun = 0 /\ faults = 0
    BY DEF Init
  <1>2. CallsTyped
    BY <1>1, IdleFits DEF CallsTyped
  <1>3. Locks
    BY <1>1 DEF Locks, Sound, Apart, Opens, Idle
  <1>4. UpTyped /\ AttTyped /\ RestTyped /\ Refers
    <2> USE AttachmentsAssumption
    <2>0. Unborn \in Attachment /\ Unborn.state = "new"
      BY DEF Unborn, Attachment, Dirs, Bizs
    <2>1. CASE /\ up = [h \in Hashes |-> [n |-> 0, stored |-> FALSE, dir |-> "public"]]
               /\ att = [a \in AttIds |-> Unborn]
               /\ avatar = NoAtt /\ file = {}
      BY <1>1, <2>0, <2>1 DEF UpTyped, AttTyped, RestTyped, Refers, Live, Upload, Dirs
    <2>2. ASSUME NEW g \in Hashes, NEW b \in AttIds, NEW d \in Dirs, NEW k \in Bizs, 1 \in 0..MaxRows,
                 up = [h \in Hashes |-> IF h = g THEN [n |-> 1, stored |-> TRUE, dir |-> d]
                                        ELSE [n |-> 0, stored |-> FALSE, dir |-> "public"]],
                 att = [a \in AttIds |-> IF a = b THEN [state |-> "live", h |-> g, n |-> 1, dir |-> d, biz |-> k]
                                         ELSE Unborn],
                 avatar = (IF k = "avatar" THEN b ELSE NoAtt), file = {<<d, g>>}
          PROVE  UpTyped /\ AttTyped /\ RestTyped /\ Refers
      BY <1>1, <2>0, <2>2 DEF UpTyped, AttTyped, RestTyped, Refers, Live, Stored, Upload, Attachment,
         Dirs, Paths
    <2> QED
      BY <2>1, <2>2 DEF Init
  <1> QED
    BY <1>2, <1>3, <1>4 DEF Sane, Typed

LEMMA NextSane ==
  ASSUME Sane, Next
  PROVE  Sane'
  <1>1. ASSUME NEW c \in Calls, Works(c) PROVE Sane'
    BY <1>1, WorksSane
  <1>2. ASSUME NEW c \in Calls, Ends(c) PROVE Sane'
    <2> DEFINE C == {c}
    <2>1. C \in SUBSET Calls /\ Abandon(C) /\ faults' \in 0..MaxFaults
      BY <1>2, EndsAbandon DEF Sane
    <2> HIDE DEF C
    <2> QED
      BY <2>1, AbandonSane
  <1>3. ASSUME NEW ids \in SUBSET AttIds, DeleteCreator(ids) PROVE Sane'
    BY <1>3, DeleteCreatorLocks DEF Sane
  <1>4. CASE Crash
    BY <1>4, CrashAbandons, AbandonSane
  <1> QED
    BY <1>1, <1>2, <1>3, <1>4, StepCases

THEOREM SpecSane == Spec => []Sane
  <1>1. Init => Sane
    BY InitSane
  <1>2. Sane /\ [Next]_vars => Sane'
    BY NextSane, StutterSane
  <1> QED
    BY <1>1, <1>2, PTL DEF Spec

\* Types, for any bounds; and that no attachment is left without its upload, whatever
\* transactions and single queries interleave.
THEOREM AttachmentsTyped == Spec => []TypeOK
  <1>1. Sane => TypeOK
    BY DEF Sane, Typed, CallsTyped, UpTyped, AttTyped, RestTyped, Refers, TypeOK
  <1> QED
    BY <1>1, SpecSane, PTL

-----------------------------------------------------------------------------
(* Who goes with an upload.                                                *)

\* What takes an attachment out of an upload does not add to it; what adds one is noted.
LEMMA LatePreserved ==
  ASSUME CallsTyped, OnlyLatecomersGo,
         \A c \in Calls : call'[c].pc \in {"unlink", "drop"} =>
           /\ call[c].pc \in {"unlink", "drop"} /\ call'[c].cur = call[c].cur
           /\ call'[c].gone = call[c].gone,
         NEW S, \A b \in AttIds \ S : att'[b] = att[b] \/ att'[b].state # "live",
         \A b \in late \ S : b \in late',
         \A b \in S : \A c \in Calls, i \in Item :
           (/\ call[c].pc \in {"unlink", "drop"} /\ i \in call[c].cur
            /\ i.h = att'[b].h /\ i.n = att'[b].n)
           => b \in late'
  PROVE  OnlyLatecomersGo'
  <1> SUFFICES ASSUME NEW c \in Calls, call'[c].pc \in {"unlink", "drop"}, NEW i \in call'[c].cur,
                      NEW b \in AttIds, att'[b].state = "live", att'[b].h = i.h, att'[b].n = i.n,
                      b \notin call'[c].gone
               PROVE  b \in late'
    BY DEF OnlyLatecomersGo, Users, Live
  <1>1. /\ call[c].pc \in {"unlink", "drop"} /\ i \in call[c].cur /\ b \notin call[c].gone
        /\ i \in Item
    BY DEF CallsTyped, Call
  <1>2. CASE b \in S
    BY <1>1, <1>2
  <1>3. CASE b \notin S
    <2>1. att'[b] = att[b]
      BY <1>3
    <2>2. b \in Users(i.h, i.n)
      BY <2>1 DEF Users, Live
    <2>3. b \in late
      BY <1>1, <2>2 DEF OnlyLatecomersGo
    <2> QED
      BY <1>3, <2>3
  <1> QED
    BY <1>2, <1>3

\* A step that gives no attachment an upload, taken by a call that does not come to unlink.
LEMMA LateUnlessJoins ==
  ASSUME Typed, OnlyLatecomersGo, NEW c \in Calls, NEW v, Change(c, v),
         v.pc \in {"unlink", "drop"} => /\ call[c].pc \in {"unlink", "drop"} /\ v.cur = call[c].cur
                                        /\ v.gone = call[c].gone,
         \A b \in AttIds : att'[b] = att[b] \/ att'[b].state # "live",
         UNCHANGED late
  PROVE  OnlyLatecomersGo'
  <1> DEFINE S == {}
  <1>1. /\ CallsTyped /\ call'[c] = v /\ \A d \in Calls \ {c} : call'[d] = call[d]
    BY Changed DEF Typed
  <1>2. \A d \in Calls : call'[d].pc \in {"unlink", "drop"} =>
           /\ call[d].pc \in {"unlink", "drop"} /\ call'[d].cur = call[d].cur
           /\ call'[d].gone = call[d].gone
    BY <1>1
  <1>3. \A b : b \notin S
    OBVIOUS
  <1> HIDE DEF S
  <1> QED
    BY <1>1, <1>2, <1>3, LatePreserved

\* A step that gives an attachment an upload.
LEMMA LateJoins ==
  ASSUME Typed, OnlyLatecomersGo, NEW c \in Calls, NEW v, Change(c, v), v.pc \notin {"unlink", "drop"},
         NEW a \in AttIds, \A b \in AttIds \ {a} : att'[b] = att[b] \/ att'[b].state # "live",
         Joins(a, att'[a].h, att'[a].n)
  PROVE  OnlyLatecomersGo'
  <1> DEFINE S == {a}
  <1>1. /\ CallsTyped /\ call'[c] = v /\ \A d \in Calls \ {c} : call'[d] = call[d]
    BY Changed DEF Typed
  <1>2. \A d \in Calls : call'[d].pc \in {"unlink", "drop"} =>
           /\ call[d].pc \in {"unlink", "drop"} /\ call'[d].cur = call[d].cur
           /\ call'[d].gone = call[d].gone
    BY <1>1
  <1>3. \A b \in late \ S : b \in late'
    BY DEF Joins
  <1>4. \A b \in S : \A d \in Calls, i \in Item :
           (/\ call[d].pc \in {"unlink", "drop"} /\ i \in call[d].cur
            /\ i.h = att'[b].h /\ i.n = att'[b].n)
           => b \in late'
    BY DEF Joins
  <1>5. \A b \in AttIds \ S : att'[b] = att[b] \/ att'[b].state # "live"
    OBVIOUS
  <1> HIDE DEF S
  <1> QED
    BY <1>1, <1>2, <1>3, <1>4, <1>5, LatePreserved

LEMMA WorksLate ==
  ASSUME Sane, OnlyLatecomersGo, NEW c \in Calls, Works(c)
  PROVE  OnlyLatecomersGo'
  <1>0. Typed /\ Locks /\ AttTyped /\ CallsTyped
    BY DEF Sane, Typed
  <1>1. CASE Beginning(c)
    <2>1. UNCHANGED <<att, late>>
      BY <1>0, <1>1, BeginCall DEF tables, history
    <2>2. PICK v : Change(c, v) /\ v.pc \in {"lookup", "remove", "write"}
      BY <1>0, <1>1, BeginCall
    <2> QED
      BY <1>0, <2>1, <2>2, LateUnlessJoins
  <1>2. CASE Lookup(c)
    <2>1. UNCHANGED <<att, late>>
      BY <1>2 DEF Lookup, tables, history
    <2>2. PICK v : Change(c, v) /\ v.pc \in {"write", "attach"}
      BY <1>0, <1>2, LookupCall
    <2> QED
      BY <1>0, <2>1, <2>2, LateUnlessJoins
  <1>3. CASE WriteFile(c)
    <2>1. UNCHANGED <<att, late>>
      BY <1>3 DEF WriteFile, tables, history
    <2>2. PICK v : Change(c, v) /\ v.pc \in {"insert", "move"}
      BY <1>0, <1>3, WriteCall
    <2> QED
      BY <1>0, <2>1, <2>2, LateUnlessJoins
  <1>4. CASE InsertUpload(c)
    <2>1. UNCHANGED <<att, late>>
      BY <1>4 DEF InsertUpload
    <2>2. PICK v : Change(c, v) /\ v.pc \in {"attach", "repoint"}
      BY <1>0, <1>4, InsertCall
    <2> QED
      BY <1>0, <2>1, <2>2, LateUnlessJoins
  <1>5. ASSUME NEW a \in AttIds, Attach(c, a) PROVE OnlyLatecomersGo'
    <2>1. Change(c, Idle) /\ Idle.pc = "idle"
      BY <1>0, <1>5, AttachCall DEF Idle
    <2>2. /\ att'[a].h = call[c].h /\ att'[a].n = call[c].n
          /\ \A b \in AttIds \ {a} : att'[b] = att[b]
      BY <1>0, <1>5 DEF Attach, AttTyped
    <2>3. Joins(a, att'[a].h, att'[a].n)
      BY <1>5, <2>2 DEF Attach
    <2> QED
      BY <1>0, <2>1, <2>2, <2>3, LateJoins
  <1>6. ASSUME NEW a \in AttIds, CommitAvatar(c, a) PROVE OnlyLatecomersGo'
    <2>1. Change(c, Idle) /\ Idle.pc = "idle"
      BY <1>0, <1>6, CommitCall DEF Idle
    <2>2. CommitsAtts(c, a)
      BY <1>0, <1>6, Committed
    <2>3. Joins(a, att'[a].h, att'[a].n)
      BY <1>6, <2>2 DEF CommitAvatar, CommitsAtts
    <2>4. \A b \in AttIds \ {a} : att'[b] = att[b] \/ att'[b].state # "live"
      BY <2>2 DEF CommitsAtts
    <2> QED
      BY <1>0, <2>1, <2>3, <2>4, LateJoins
  <1>7. CASE RemoveAttachments(c)
    <2> DEFINE ids == {i.a : i \in call[c].todo}
    <2>0. PICK S : S = ids
      OBVIOUS
    <2>1. PICK v : Removes(c, S, v)
      BY <1>0, <1>7, <2>0, RemoveCall
    <2>2. /\ \A b \in AttIds : att'[b] = att[b] \/ att'[b].state # "live"
          /\ UNCHANGED late
      BY <1>0, <1>7, Removed DEF RemoveAttachments
    <2> QED
      BY <1>0, <2>1, <2>2, LateUnlessJoins DEF Removes
  <1>8. ASSUME NEW i \in call[c].todo, Count(c, i) PROVE OnlyLatecomersGo'
    <2>1. PICK seen : seen = Users(i.h, i.n) \ call[c].gone
      OBVIOUS
    <2>2. PICK v : Counts(c, i, seen, v)
      BY <1>0, <1>8, <2>1, CountCall
    <2>3. UNCHANGED <<att, late>> /\ call[c].pc = "count"
      BY <1>8 DEF Count, tables
    <2>4. CASE seen = {}
      <3>1. call'[c] = v /\ \A d \in Calls \ {c} : call'[d] = call[d]
        BY <1>0, <2>2, Changed DEF Counts
      <3>2. v.cur = {i} /\ v.gone = call[c].gone
        BY <2>2, <2>4 DEF Counts
      <3> QED
        BY <2>1, <2>3, <2>4, <3>1, <3>2 DEF OnlyLatecomersGo, Users, Live
    <2>5. CASE seen # {}
      BY <1>0, <2>2, <2>3, <2>5, LateUnlessJoins DEF Counts
    <2> QED
      BY <2>4, <2>5
  <1>9. ASSUME NEW i \in call[c].cur, Unlink(c, i) PROVE OnlyLatecomersGo'
    <2>1. PICK v : /\ Change(c, v) /\ v.gone = call[c].gone /\ v.cur = call[c].cur
      BY <1>0, <1>9, UnlinkCall
    <2>2. UNCHANGED <<att, late>> /\ call[c].pc = "unlink"
      BY <1>9 DEF Unlink, tables
    <2> QED
      BY <1>0, <2>1, <2>2, LateUnlessJoins
  <1>10. ASSUME NEW i \in call[c].cur, DropUpload(c, i) PROVE OnlyLatecomersGo'
    <2>0. PICK users : users = Users(i.h, i.n)
      OBVIOUS
    <2>1. PICK v : Drops(c, i, users, v)
      BY <1>0, <1>10, <2>0, DropCall
    <2>2. \A b \in AttIds : att'[b] = att[b] \/ att'[b].state # "live"
      BY <1>0, <1>10, Removed DEF DropUpload
    <2>3. UNCHANGED late
      BY <1>10 DEF DropUpload
    <2> QED
      BY <1>0, <2>1, <2>2, <2>3, LateUnlessJoins DEF Drops
  <1>11. CASE Repoint(c)
    <2>1. /\ \E v : Change(c, v) /\ v.pc = "count"
          /\ call[c].a \in AttIds
      BY <1>0, <1>11, RepointCall
    <2>2. PICK v : Change(c, v) /\ v.pc = "count"
      BY <2>1
    <2>3. /\ att'[call[c].a].h = call[c].h /\ att'[call[c].a].n = call[c].n
          /\ \A b \in AttIds \ {call[c].a} : att'[b] = att[b]
      BY <1>0, <1>11, <2>1 DEF Repoint, AttTyped, Attachment
    <2>4. Joins(call[c].a, att'[call[c].a].h, att'[call[c].a].n)
      BY <1>11, <2>3 DEF Repoint
    <2> QED
      BY <1>0, <2>1, <2>2, <2>3, <2>4, LateJoins
  <1>12. CASE Move(c)
    <2>1. Change(c, Idle) /\ Idle.pc = "idle"
      BY <1>0, <1>12, MoveCall DEF Idle
    <2>2. UNCHANGED <<att, late>>
      BY <1>12 DEF Move
    <2> QED
      BY <1>0, <2>1, <2>2, LateUnlessJoins
  <1> QED
    BY <1>1, <1>2, <1>3, <1>4, <1>5, <1>6, <1>7, <1>8, <1>9, <1>10, <1>11, <1>12 DEF Works

LEMMA AbandonLate ==
  ASSUME Sane, OnlyLatecomersGo, NEW C \in SUBSET Calls, Abandon(C)
  PROVE  OnlyLatecomersGo'
  <1>1. /\ \A c \in C : call'[c] = Idle
        /\ \A c \in Calls \ C : call'[c] = call[c]
        /\ UNCHANGED <<att, late>>
    BY AbandonCalls DEF Sane, Typed, tables
  <1>2. Idle.pc = "idle"
    BY DEF Idle
  <1> QED
    BY <1>1, <1>2 DEF OnlyLatecomersGo, Users, Live

LEMMA DeleteCreatorLate ==
  ASSUME Sane, OnlyLatecomersGo, NEW ids \in SUBSET AttIds, DeleteCreator(ids)
  PROVE  OnlyLatecomersGo'
  <1>1. /\ \A b \in AttIds : att'[b] = att[b] \/ att'[b].state # "live"
        /\ UNCHANGED <<call, late>>
    BY Removed DEF DeleteCreator, Sane, Typed
  <1> QED
    BY <1>1 DEF OnlyLatecomersGo, Users, Live

\* A deletion takes along only attachments that were given the upload after it had counted
\* none, however calls and transactions interleave (deleteAttachments).
THEOREM LatecomersOnly == Spec => []OnlyLatecomersGo
  <1>1. Init => OnlyLatecomersGo
    BY DEF Init, OnlyLatecomersGo, Idle
  <1>2. Sane /\ OnlyLatecomersGo /\ [Next]_vars => OnlyLatecomersGo'
    <2> SUFFICES ASSUME Sane, OnlyLatecomersGo, [Next]_vars PROVE OnlyLatecomersGo'
      OBVIOUS
    <2>1. ASSUME NEW c \in Calls, Works(c) PROVE OnlyLatecomersGo'
      BY <2>1, WorksLate
    <2>2. ASSUME NEW c \in Calls, Ends(c) PROVE OnlyLatecomersGo'
      <3> DEFINE C == {c}
      <3>1. C \in SUBSET Calls /\ Abandon(C)
        BY <2>2, EndsAbandon DEF Sane
      <3> HIDE DEF C
      <3> QED
        BY <3>1, AbandonLate
    <2>3. ASSUME NEW ids \in SUBSET AttIds, DeleteCreator(ids) PROVE OnlyLatecomersGo'
      BY <2>3, DeleteCreatorLate
    <2>4. CASE Crash
      BY <2>4, CrashAbandons, AbandonLate
    <2>5. CASE UNCHANGED vars
      BY <2>5 DEF vars, OnlyLatecomersGo, Users, Live
    <2> QED
      BY <2>1, <2>2, <2>3, <2>4, <2>5, StepCases
  <1> QED
    BY <1>1, <1>2, SpecSane, PTL DEF Spec

-----------------------------------------------------------------------------
(* Files.                                                                  *)

\* The call with v deletes upload n of h, or has it deleted.
DropsBy(v, h, n) == <<h, n>> \in v.rm \/ (v.pc = "drop" /\ \E i \in v.cur : i.h = h /\ i.n = n)
\* It has written the file of a row that is not there yet.
Wrote(v) == v.pc \in {"insert", "move"} \/ Opens(v)
OnDisk(p) == p \in file \cup torn

Filed ==
  /\ \A h \in Hashes : up[h].stored => OnDisk(PathOf(h)) \/ \E c \in Calls : DropsBy(call[c], h, up[h].n)
  /\ \A c \in Calls : Wrote(call[c]) => OnDisk(Path(c))

LEMMA FiledPreserved ==
  ASSUME Typed, Filed, NEW c \in Calls, NEW v, Change(c, v),
         file \cup torn \subseteq file' \cup torn',
         \A h \in Hashes : up'[h].stored =>
           \/ <<up'[h].dir, h>> \in file' \cup torn'
           \/ DropsBy(v, h, up'[h].n)
           \/ /\ up[h].stored /\ up'[h].n = up[h].n /\ up'[h].dir = up[h].dir
              /\ ~DropsBy(call[c], h, up[h].n),
         \A h \in Hashes : up'[h].n \in Nat /\ up'[h].n >= up[h].n,
         (\/ v.pc \in {"insert", "move"}
          \/ v.op = "avatar" /\ v.pc = "attach" /\ v.n > up'[v.h].n)
         => <<v.dir, v.h>> \in file' \cup torn'
  PROVE  Filed'
  <1>1. CallsTyped /\ call'[c] = v /\ \A d \in Calls \ {c} : call'[d] = call[d]
    BY Changed DEF Typed
  <1>2. ASSUME NEW h \in Hashes, up'[h].stored
        PROVE  <<up'[h].dir, h>> \in file' \cup torn' \/ \E d \in Calls : DropsBy(call'[d], h, up'[h].n)
    <2>1. CASE <<up'[h].dir, h>> \in file' \cup torn' \/ DropsBy(v, h, up'[h].n)
      BY <1>1, <2>1
    <2>2. CASE /\ up[h].stored /\ up'[h].n = up[h].n /\ up'[h].dir = up[h].dir
               /\ ~DropsBy(call[c], h, up[h].n)
      <3>1. <<up[h].dir, h>> \in file \cup torn \/ \E d \in Calls \ {c} : DropsBy(call[d], h, up[h].n)
        BY <2>2 DEF Filed, OnDisk, PathOf
      <3> QED
        BY <1>1, <2>2, <3>1
    <2> QED
      BY <1>2, <2>1, <2>2
  <1>3. ASSUME NEW d \in Calls \ {c},
               \/ call[d].pc \in {"insert", "move"}
               \/ call[d].op = "avatar" /\ call[d].pc = "attach" /\ call[d].n > up'[call[d].h].n
        PROVE  <<call[d].dir, call[d].h>> \in file' \cup torn'
    <2>1. Wrote(call[d])
      <3>1. CASE call[d].pc \in {"insert", "move"}
        BY <3>1 DEF Wrote
      <3>2. CASE call[d].op = "avatar" /\ call[d].pc = "attach" /\ call[d].n > up'[call[d].h].n
        <4>1. call[d].h \in Hashes /\ call[d].n \in Nat
          BY <1>1, <3>2, AttachmentsAssumption DEF CallsTyped, Call, Fits
        <4>2. up[call[d].h].n \in Nat
          BY <4>1, AttachmentsAssumption DEF Typed, UpTyped, Upload
        <4> QED
          BY <3>2, <4>1, <4>2 DEF Wrote, Opens
      <3> QED
        BY <1>3, <3>1, <3>2
    <2> QED
      BY <2>1 DEF Filed, OnDisk, Path
  <1>4. (\A h \in Hashes : up[h].stored => OnDisk(PathOf(h)) \/ \E d \in Calls : DropsBy(call[d], h, up[h].n))'
    BY <1>2 DEF OnDisk, PathOf, DropsBy
  <1>5. ASSUME NEW d \in Calls PROVE (Wrote(call[d]) => OnDisk(Path(d)))'
    <2>1. CASE d = c
      BY <1>1, <2>1 DEF Wrote, Opens, OnDisk, Path
    <2>2. CASE d # c
      BY <1>1, <1>3, <2>2 DEF Wrote, Opens, OnDisk, Path
    <2> QED
      BY <2>1, <2>2
  <1> QED
    BY <1>4, <1>5 DEF Filed

\* Steps that touch no file and none of the uploads, of a call that drops what it dropped.
LEMMA FiledKept ==
  ASSUME Typed, Filed, NEW c \in Calls, NEW v, Change(c, v), UNCHANGED <<up, file, torn>>,
         \A h \in Hashes, n \in 0..MaxRows : DropsBy(call[c], h, n) => DropsBy(v, h, n),
         Wrote(v) => Wrote(call[c]) /\ v.dir = call[c].dir /\ v.h = call[c].h
  PROVE  Filed'
  <1>1. \A h \in Hashes : up[h].n \in 0..MaxRows /\ up[h].n \in Nat
    BY AttachmentsAssumption DEF Typed, UpTyped, Upload
  <1>2. \A h \in Hashes : up'[h].stored =>
           \/ DropsBy(v, h, up'[h].n)
           \/ /\ up[h].stored /\ up'[h].n = up[h].n /\ up'[h].dir = up[h].dir
              /\ ~DropsBy(call[c], h, up[h].n)
    BY <1>1
  <1>3. (\/ v.pc \in {"insert", "move"}
         \/ v.op = "avatar" /\ v.pc = "attach" /\ v.n > up'[v.h].n)
        => <<v.dir, v.h>> \in file' \cup torn'
    BY DEF Filed, Wrote, Opens, OnDisk, Path
  <1> QED
    BY <1>1, <1>2, <1>3, FiledPreserved

LEMMA WriteFiled ==
  ASSUME Sane, Filed, NEW c \in Calls, WriteFile(c)
  PROVE  Filed'
  <1>0. Typed
    BY DEF Sane
  <1>1. PICK v : /\ Change(c, v) /\ v.gone = call[c].gone /\ v.rm = call[c].rm
                 /\ v.h = call[c].h /\ v.dir = call[c].dir
    BY <1>0, WriteCall
  <1>2. /\ UNCHANGED up /\ call[c].pc = "write"
        /\ file' = file \cup {<<v.dir, v.h>>} /\ torn' = torn \ {<<v.dir, v.h>>}
    BY <1>1 DEF WriteFile, tables, Path
  <1>3. \A h \in Hashes, n \in 0..MaxRows : DropsBy(call[c], h, n) => DropsBy(v, h, n)
    BY <1>1, <1>2 DEF DropsBy
  <1>4. \A h \in Hashes : up[h].n \in 0..MaxRows /\ up[h].n \in Nat
    BY <1>0, AttachmentsAssumption DEF Typed, UpTyped, Upload
  <1>5. \A h \in Hashes : up'[h].stored =>
           \/ DropsBy(v, h, up'[h].n)
           \/ /\ up[h].stored /\ up'[h].n = up[h].n /\ up'[h].dir = up[h].dir
              /\ ~DropsBy(call[c], h, up[h].n)
    BY <1>2, <1>3, <1>4
  <1>6. file \cup torn \subseteq file' \cup torn' /\ <<v.dir, v.h>> \in file' \cup torn'
    BY <1>2
  <1>7. \A h \in Hashes : up'[h].n \in Nat /\ up'[h].n >= up[h].n
    BY <1>2, <1>4
  <1> QED
    BY <1>0, <1>1, <1>5, <1>6, <1>7, FiledPreserved

LEMMA InsertFiled ==
  ASSUME Sane, Filed, NEW c \in Calls, InsertUpload(c)
  PROVE  Filed'
  <1> DEFINE h == call[c].h
  <1>0. Typed /\ UpTyped
    BY DEF Sane, Typed
  <1>1. PICK v : /\ Change(c, v) /\ v.gone = call[c].gone /\ v.rm = call[c].rm
                 /\ v.h = h /\ v.op = call[c].op /\ v.dir = call[c].dir
                 /\ v.pc \in {"attach", "repoint"}
    BY <1>0, InsertCall
  <1>2. h \in Hashes /\ call[c].pc = "insert" /\ UNCHANGED <<file, torn>>
    BY <1>0, InsertCall DEF InsertUpload
  <1>3. Wrote(call[c]) /\ <<v.dir, v.h>> \in file' \cup torn'
    BY <1>1, <1>2 DEF Filed, Wrote, OnDisk, Path
  <1>4. \A g \in Hashes, n \in 0..MaxRows : DropsBy(call[c], g, n) => DropsBy(v, g, n)
    BY <1>1, <1>2 DEF DropsBy
  <1>5. CASE InTx(c)
    <2>1. UNCHANGED <<up, file, torn>>
      BY <1>2, <1>5 DEF InsertUpload
    <2> QED
      BY <1>0, <1>1, <1>3, <1>4, <2>1, FiledKept
  <1>6. CASE ~InTx(c)
    <2>1. up' = [up EXCEPT ![h] = [n |-> up[h].n + 1, stored |-> TRUE, dir |-> call[c].dir]]
      BY <1>6 DEF InsertUpload
    <2>2. \A g \in Hashes : up[g].n \in 0..MaxRows /\ up[g].n \in Nat
      BY <1>0, AttachmentsAssumption DEF UpTyped, Upload
    <2>3. /\ up'[h].n = up[h].n + 1 /\ up'[h].dir = v.dir
          /\ \A g \in Hashes \ {h} : up'[g] = up[g]
      BY <1>0, <1>1, <1>2, <2>1 DEF UpTyped
    <2>4. ASSUME NEW g \in Hashes, up'[g].stored
          PROVE  \/ <<up'[g].dir, g>> \in file' \cup torn'
                 \/ DropsBy(v, g, up'[g].n)
                 \/ /\ up[g].stored /\ up'[g].n = up[g].n /\ up'[g].dir = up[g].dir
                    /\ ~DropsBy(call[c], g, up[g].n)
      <3>1. CASE g = h
        BY <1>1, <1>3, <2>3, <3>1
      <3>2. CASE g # h
        BY <1>4, <2>2, <2>3, <2>4, <3>2
      <3> QED
        BY <3>1, <3>2
    <2>5. \A g \in Hashes : up'[g].n \in Nat /\ up'[g].n >= up[g].n
      BY <2>2, <2>3
    <2> QED
      BY <1>0, <1>1, <1>2, <1>3, <2>4, <2>5, FiledPreserved
  <1> QED
    BY <1>5, <1>6

LEMMA UnlinkFiled ==
  ASSUME Sane, Filed, NEW c \in Calls, NEW i \in call[c].cur, Unlink(c, i)
  PROVE  Filed'
  <1> DEFINE p == <<i.dir, i.h>>
  <1>0. Typed
    BY DEF Sane
  <1>1. PICK v : /\ Change(c, v) /\ v.gone = call[c].gone /\ v.rm = call[c].rm
                 /\ v.pc = "drop" /\ v.cur = call[c].cur
    BY <1>0, UnlinkCall
  <1>2. /\ call'[c] = v /\ \A d \in Calls \ {c} : call'[d] = call[d]
        /\ UNCHANGED up /\ call[c].pc = "unlink"
    BY <1>0, <1>1, Changed DEF Unlink, tables, Typed
  <1>3. /\ file' = file \ {p}
        /\ torn \subseteq torn'
        /\ p \in file /\ (up[i.h].stored /\ up[i.h].n # i.n /\ PathOf(i.h) = p) => p \in torn'
        /\ p \in file /\ (\E d \in Calls \ {c} : p \in Written(d)) => p \in torn'
    BY DEF Unlink
  <1>4. ASSUME NEW h \in Hashes, up[h].stored
        PROVE  <<up[h].dir, h>> \in file' \cup torn' \/ \E d \in Calls : DropsBy(call'[d], h, up[h].n)
    <2>1. CASE \E d \in Calls : DropsBy(call[d], h, up[h].n)
      <3>1. PICK d \in Calls : DropsBy(call[d], h, up[h].n)
        BY <2>1
      <3>2. DropsBy(call'[d], h, up[h].n)
        BY <1>1, <1>2, <3>1 DEF DropsBy
      <3> QED
        BY <3>2
    <2>2. CASE PathOf(h) \in file \cup torn
      <3>1. CASE PathOf(h) # p
        BY <1>3, <2>2, <3>1 DEF PathOf
      <3>2. CASE PathOf(h) = p
        <4>1. h = i.h
          BY <3>2 DEF PathOf
        <4>2. CASE up[h].n = i.n
          <5>1. DropsBy(v, h, up[h].n)
            BY <1>1, <4>1, <4>2 DEF DropsBy
          <5> QED
            BY <1>2, <5>1
        <4>3. CASE up[h].n # i.n
          BY <1>3, <1>4, <2>2, <3>2, <4>1, <4>3 DEF PathOf
        <4> QED
          BY <4>2, <4>3
      <3> QED
        BY <3>1, <3>2
    <2> QED
      BY <1>4, <2>1, <2>2 DEF Filed, OnDisk
  <1>5. ASSUME NEW d \in Calls, Wrote(call'[d]) PROVE <<call'[d].dir, call'[d].h>> \in file' \cup torn'
    <2>1. d # c
      BY <1>1, <1>2, <1>5 DEF Wrote, Opens
    <2>2. call'[d] = call[d] /\ Wrote(call[d]) /\ Path(d) \in file \cup torn
      BY <1>2, <1>5, <2>1 DEF Filed, OnDisk
    <2>3. Path(d) \in Written(d)
      BY <2>2 DEF Wrote, Written, Opens, Inserted, InTx
    <2> QED
      BY <1>3, <2>1, <2>2, <2>3 DEF Path
  <1>6. (\A h \in Hashes : up[h].stored => OnDisk(PathOf(h)) \/ \E d \in Calls : DropsBy(call[d], h, up[h].n))'
    BY <1>2, <1>4 DEF OnDisk, PathOf, DropsBy
  <1>7. (\A d \in Calls : Wrote(call[d]) => OnDisk(Path(d)))'
    BY <1>2, <1>5 DEF Wrote, Opens, OnDisk, Path
  <1> QED
    BY <1>6, <1>7 DEF Filed

LEMMA DropFiled ==
  ASSUME Sane, Filed, NEW c \in Calls, NEW i \in call[c].cur, DropUpload(c, i)
  PROVE  Filed'
  <1>0. Typed /\ UpTyped
    BY DEF Sane, Typed
  <1>u. \A g \in Hashes : up[g].n \in 0..MaxRows /\ up[g].n \in Nat
    BY <1>0, AttachmentsAssumption DEF UpTyped, Upload
  <1>a. PICK users : users = Users(i.h, i.n)
    OBVIOUS
  <1>b. PICK v : Drops(c, i, users, v)
    BY <1>0, <1>a, DropCall
  <1>1. /\ Change(c, v) /\ v.pc \in {"count", "lookup", "idle"} /\ ~Wrote(v)
        /\ v.rm = (IF InTx(c) THEN call[c].rm \cup {<<i.h, i.n>>} ELSE {})
    BY <1>b DEF Drops, Wrote, Opens
  <1>2. /\ call[c].pc = "drop" /\ i \in Item /\ call[c].cur = {i}
        /\ UNCHANGED <<file, torn>> /\ (~InTx(c) => call[c].rm = {})
    BY <1>0, <1>a, DropCall DEF DropUpload
  <1>3. CASE InTx(c)
    <2>1. UNCHANGED <<up, file, torn>>
      BY <1>2, <1>3 DEF DropUpload
    <2>2. ASSUME NEW h \in Hashes, NEW n \in 0..MaxRows, DropsBy(call[c], h, n) PROVE DropsBy(v, h, n)
      BY <1>1, <1>2, <1>3, <2>2 DEF DropsBy
    <2> QED
      BY <1>0, <1>1, <2>1, <2>2, FiledKept
  <1>4. CASE ~InTx(c)
    <2>1. /\ up'[i.h].stored = FALSE /\ up'[i.h].n = up[i.h].n
          /\ \A g \in Hashes \ {i.h} : up'[g] = up[g]
      BY <1>0, <1>2, <1>4 DEF DropUpload, UpTyped, Upload, Item
    <2>2. \A g \in Hashes \ {i.h} : ~DropsBy(call[c], g, up[g].n)
      BY <1>2, <1>4 DEF DropsBy
    <2>3. \A g \in Hashes : up'[g].stored =>
             /\ up[g].stored /\ up'[g].n = up[g].n /\ up'[g].dir = up[g].dir
             /\ ~DropsBy(call[c], g, up[g].n)
      BY <2>1, <2>2
    <2>4. \A g \in Hashes : up'[g].n \in Nat /\ up'[g].n >= up[g].n
      BY <1>u, <2>1
    <2>5. file \cup torn \subseteq file' \cup torn'
      BY <1>2
    <2>6. ~(\/ v.pc \in {"insert", "move"}
            \/ v.op = "avatar" /\ v.pc = "attach" /\ v.n > up'[v.h].n)
      BY <1>1
    <2> QED
      BY <1>0, <1>1, <2>3, <2>4, <2>5, <2>6, FiledPreserved
  <1> QED
    BY <1>3, <1>4

LEMMA MoveFiled ==
  ASSUME Sane, Filed, NEW c \in Calls, Move(c)
  PROVE  Filed'
  <1> DEFINE me == call[c]
  <1>0. Typed /\ UpTyped
    BY DEF Sane, Typed
  <1>u. \A g \in Hashes : up[g].n \in 0..MaxRows /\ up[g].n \in Nat
    BY <1>0, AttachmentsAssumption DEF UpTyped, Upload
  <1>1. /\ Change(c, Idle) /\ me.pc = "move" /\ me.h \in Hashes /\ me.rm = {}
        /\ Idle.pc = "idle" /\ UNCHANGED <<file, torn>>
    BY <1>0, MoveCall DEF Idle, Move
  <1>2. /\ up'[me.h].n = up[me.h].n /\ up'[me.h].dir = me.dir
        /\ \A g \in Hashes \ {me.h} : up'[g] = up[g]
    BY <1>0, <1>1 DEF Move, UpTyped, Upload
  <1>3. <<me.dir, me.h>> \in file' \cup torn'
    BY <1>1 DEF Filed, Wrote, OnDisk, Path
  <1>4. \A g \in Hashes : ~DropsBy(me, g, up[g].n)
    BY <1>1 DEF DropsBy
  <1>5. \A g \in Hashes : up'[g].stored =>
           \/ <<up'[g].dir, g>> \in file' \cup torn'
           \/ /\ up[g].stored /\ up'[g].n = up[g].n /\ up'[g].dir = up[g].dir
              /\ ~DropsBy(call[c], g, up[g].n)
    BY <1>2, <1>3, <1>4
  <1>6. \A g \in Hashes : up'[g].n \in Nat /\ up'[g].n >= up[g].n
    BY <1>u, <1>2
  <1> QED
    BY <1>0, <1>1, <1>5, <1>6, FiledPreserved

LEMMA CommitFiled ==
  ASSUME Sane, Filed, NEW c \in Calls, NEW a \in AttIds, CommitAvatar(c, a)
  PROVE  Filed'
  <1> DEFINE me == call[c]
  <1>0. Typed /\ Locks /\ UpTyped
    BY DEF Sane, Typed
  <1>u. \A g \in Hashes : up[g].n \in 0..MaxRows /\ up[g].n \in Nat
    BY <1>0, AttachmentsAssumption DEF UpTyped, Upload
  <1>1. /\ Change(c, Idle) /\ me.pc = "attach" /\ me.h \in Hashes /\ InTx(c)
        /\ Idle.pc = "idle" /\ UNCHANGED <<file, torn>>
    BY <1>0, CommitCall DEF Idle, CommitAvatar
  <1>2. CommitsUploads(c)
    BY <1>0, Committed
  <1>3. ASSUME NEW g \in Hashes
        PROVE  /\ up'[g].n \in Nat /\ up'[g].n >= up[g].n
               /\ up'[g].stored =>
                     \/ <<up'[g].dir, g>> \in file' \cup torn'
                     \/ /\ up[g].stored /\ up'[g].n = up[g].n /\ up'[g].dir = up[g].dir
                        /\ ~DropsBy(me, g, up[g].n)
    <2>1. CASE Inserted(c) /\ g = me.h
      <3>1. up'[g].n = up[g].n + 1 /\ up'[g].dir = me.dir
        BY <1>2, <2>1 DEF CommitsUploads
      <3>2. <<me.dir, me.h>> \in file \cup torn
        BY <1>1, <2>1 DEF Filed, Wrote, Opens, Inserted, InTx, OnDisk, Path
      <3> QED
        BY <1>1, <1>u, <2>1, <3>1, <3>2
    <2>2. CASE ~(Inserted(c) /\ g = me.h)
      <3>1. /\ up'[g].n = up[g].n /\ up'[g].dir = up[g].dir
            /\ up'[g].stored <=> up[g].stored /\ <<g, up[g].n>> \notin me.rm
        BY <1>2, <2>2 DEF CommitsUploads
      <3>2. <<g, up[g].n>> \notin me.rm => ~DropsBy(me, g, up[g].n)
        BY <1>1 DEF DropsBy
      <3> QED
        BY <1>u, <3>1, <3>2
    <2> QED
      BY <2>1, <2>2
  <1>4. file \cup torn \subseteq file' \cup torn'
    BY <1>1
  <1> QED
    BY <1>0, <1>1, <1>3, <1>4, FiledPreserved

LEMMA QuietFiled ==
  ASSUME Sane, Filed, NEW c \in Calls,
         \/ Beginning(c) \/ Lookup(c) \/ RemoveAttachments(c) \/ Repoint(c)
         \/ \E a \in AttIds : Attach(c, a)
         \/ \E i \in call[c].todo : Count(c, i)
  PROVE  Filed'
  <1>0. Typed /\ CallsTyped /\ Idle.pc = "idle" /\ Idle.rm = {}
        /\ \A h \in Hashes : up[h].n \in Nat
    BY AttachmentsAssumption DEF Sane, Typed, Idle, UpTyped, Upload
  <1>1. ASSUME NEW v, Change(c, v), UNCHANGED <<up, file, torn>>,
               v.rm = call[c].rm, call[c].pc # "drop", v.pc \notin {"insert", "move"},
               v.pc = "attach" => v.h \in Hashes /\ v.n = up[v.h].n
        PROVE  Filed'
    <2>1. \A h \in Hashes, n \in 0..MaxRows : DropsBy(call[c], h, n) => DropsBy(v, h, n)
      BY <1>1 DEF DropsBy
    <2>2. ~Wrote(v)
      BY <1>0, <1>1 DEF Wrote, Opens
    <2> QED
      BY <1>0, <1>1, <2>1, <2>2, FiledKept
  <1>2. CASE Beginning(c)
    <2>1. UNCHANGED <<up, file, torn>> /\ call[c] = Idle
      BY <1>0, <1>2, BeginCall DEF tables, history
    <2>2. PICK v : Change(c, v) /\ v.rm = {} /\ v.pc \in {"lookup", "remove", "write"}
      BY <1>0, <1>2, BeginCall
    <2> QED
      BY <1>0, <1>1, <2>1, <2>2
  <1>3. CASE Lookup(c)
    <2>1. UNCHANGED <<up, file, torn>> /\ call[c].pc = "lookup" /\ call[c].h \in Hashes
      BY <1>0, <1>3, LookupCall DEF tables, history
    <2>2. PICK v : /\ Change(c, v) /\ v.rm = call[c].rm /\ v.h = call[c].h
                   /\ (v.pc = "write" \/ (v.pc = "attach" /\ v.n = up[v.h].n))
      BY <1>0, <1>3, LookupCall
    <2> QED
      BY <1>1, <2>1, <2>2
  <1>4. CASE RemoveAttachments(c)
    <2>1. PICK ids : ids = {i.a : i \in call[c].todo}
      OBVIOUS
    <2>2. UNCHANGED <<up, file, torn>> /\ call[c].pc = "remove" /\ call[c].rm = {}
      BY <1>0, <1>4, <2>1, RemoveCall
    <2>3. PICK v : Removes(c, ids, v)
      BY <1>0, <1>4, <2>1, RemoveCall
    <2> QED
      BY <1>1, <2>2, <2>3 DEF Removes
  <1>5. CASE Repoint(c)
    <2>1. UNCHANGED <<up, file, torn>> /\ call[c].pc = "repoint" /\ call[c].rm = {}
      BY <1>0, <1>5, RepointCall DEF Repoint
    <2>2. PICK v : Change(c, v) /\ v.rm = {} /\ v.pc = "count"
      BY <1>0, <1>5, RepointCall
    <2> QED
      BY <1>1, <2>1, <2>2
  <1>6. CASE \E a \in AttIds : Attach(c, a)
    <2>1. UNCHANGED <<up, file, torn>> /\ call[c].pc = "attach"
          /\ Change(c, Idle) /\ call[c].rm = {}
      BY <1>0, <1>6, AttachCall DEF Attach
    <2> QED
      BY <1>0, <1>1, <2>1
  <1>7. ASSUME NEW i \in call[c].todo, Count(c, i) PROVE Filed'
    <2>1. PICK seen : seen = Users(i.h, i.n) \ call[c].gone
      OBVIOUS
    <2>2. PICK v : Counts(c, i, seen, v)
      BY <1>0, <1>7, <2>1, CountCall
    <2>3. UNCHANGED <<up, file, torn>> /\ call[c].pc = "count"
      BY <1>7 DEF Count, tables
    <2> QED
      BY <1>1, <2>2, <2>3 DEF Counts
  <1> QED
    BY <1>2, <1>3, <1>4, <1>5, <1>6, <1>7

\* What a call that ends early has unlinked of a row that stays is torn.
LEMMA AbandonFiled ==
  ASSUME Sane, Filed, NEW C \in SUBSET Calls, Abandon(C)
  PROVE  Filed'
  <1>1. /\ \A c \in C : call'[c] = Idle
        /\ \A c \in Calls \ C : call'[c] = call[c]
        /\ UNCHANGED <<up, file>>
        /\ Idle.pc = "idle" /\ Idle.rm = {}
    BY AbandonCalls DEF Sane, Typed, tables, Idle
  <1>2. torn' = torn \cup ((UNION {Unlinked(c) : c \in C}) \ file)
    BY DEF Abandon
  <1>3. ASSUME NEW h \in Hashes, up[h].stored
        PROVE  <<up[h].dir, h>> \in file' \cup torn' \/ \E d \in Calls : DropsBy(call'[d], h, up[h].n)
    <2>1. CASE OnDisk(PathOf(h))
      BY <1>1, <1>2, <2>1 DEF OnDisk, PathOf
    <2>2. ASSUME NEW c \in Calls, DropsBy(call[c], h, up[h].n)
          PROVE  PathOf(h) \in file' \cup torn' \/ DropsBy(call'[c], h, up[h].n)
      <3>1. CASE c \in C
        <4>1. PathOf(h) \in Unlinked(c)
          <5>1. CASE <<h, up[h].n>> \in call[c].rm
            <6>1. <<h, up[h].n>>[1] = h
              OBVIOUS
            <6> QED
              BY <5>1, <6>1 DEF Unlinked
          <5>2. CASE call[c].pc = "drop" /\ \E i \in call[c].cur : i.h = h /\ i.n = up[h].n
            BY <1>3, <5>2 DEF Unlinked, Stored
          <5> QED
            BY <2>2, <5>1, <5>2 DEF DropsBy
        <4> QED
          BY <1>1, <1>2, <3>1, <4>1
      <3>2. CASE c \notin C
        BY <1>1, <2>2, <3>2
      <3> QED
        BY <3>1, <3>2
    <2> QED
      BY <1>3, <2>1, <2>2 DEF Filed, PathOf
  <1>4. ASSUME NEW d \in Calls, Wrote(call'[d]) PROVE <<call'[d].dir, call'[d].h>> \in file' \cup torn'
    <2>1. call'[d] = call[d]
      BY <1>1, <1>4 DEF Wrote, Opens
    <2> QED
      BY <1>1, <1>2, <1>4, <2>1 DEF Filed, OnDisk, Path
  <1>5. (\A h \in Hashes : up[h].stored => OnDisk(PathOf(h)) \/ \E d \in Calls : DropsBy(call[d], h, up[h].n))'
    BY <1>1, <1>3 DEF OnDisk, PathOf, DropsBy
  <1>6. (\A d \in Calls : Wrote(call[d]) => OnDisk(Path(d)))'
    BY <1>1, <1>4 DEF Wrote, Opens, OnDisk, Path
  <1> QED
    BY <1>5, <1>6 DEF Filed

\* A row whose file is neither there nor torn is in the hands of a call that deletes it, so
\* an attachment finds its file but for the cases the property names.
THEOREM FilesThere == Spec => []HasFile
  <1>1. Init => Filed
    <2> SUFFICES ASSUME Init PROVE Filed
      OBVIOUS
    <2>1. call = [c \in Calls |-> Idle] /\ \A c \in Calls : ~Wrote(call[c])
      BY DEF Init, Idle, Wrote, Opens
    <2>2. \A h \in Hashes : up[h].stored => PathOf(h) \in file
      BY DEF Init, PathOf
    <2> QED
      BY <2>1, <2>2 DEF Filed, OnDisk
  <1>2. Sane /\ Filed /\ [Next]_vars => Filed'
    <2> SUFFICES ASSUME Sane, Filed, [Next]_vars PROVE Filed'
      OBVIOUS
    <2>1. ASSUME NEW c \in Calls, Works(c) PROVE Filed'
      <3>1. CASE \/ Beginning(c) \/ Lookup(c) \/ RemoveAttachments(c) \/ Repoint(c)
                 \/ \E a \in AttIds : Attach(c, a)
                 \/ \E i \in call[c].todo : Count(c, i)
        BY <3>1, QuietFiled
      <3>2. CASE WriteFile(c) \/ InsertUpload(c) \/ Move(c)
        BY <3>2, WriteFiled, InsertFiled, MoveFiled
      <3>3. CASE \E a \in AttIds : CommitAvatar(c, a)
        BY <3>3, CommitFiled
      <3>4. CASE \E i \in call[c].cur : Unlink(c, i) \/ DropUpload(c, i)
        BY <3>4, UnlinkFiled, DropFiled
      <3> QED
        BY <2>1, <3>1, <3>2, <3>3, <3>4 DEF Works
    <2>2. ASSUME NEW c \in Calls, Ends(c) PROVE Filed'
      <3> DEFINE C == {c}
      <3>1. C \in SUBSET Calls /\ Abandon(C)
        BY <2>2, EndsAbandon DEF Sane
      <3> HIDE DEF C
      <3> QED
        BY <3>1, AbandonFiled
    <2>3. CASE \/ \E ids \in SUBSET AttIds : DeleteCreator(ids)
               \/ UNCHANGED vars
      <3>1. UNCHANGED <<up, file, torn, call>>
        BY <2>3 DEF DeleteCreator, vars
      <3> QED
        BY <3>1 DEF Filed, Wrote, Opens, OnDisk, Path, PathOf, DropsBy
    <2>4. CASE Crash
      BY <2>4, CrashAbandons, AbandonFiled
    <2> QED
      BY <2>1, <2>2, <2>3, <2>4, StepCases
  <1>3. Sane /\ Filed => HasFile
    <2> SUFFICES ASSUME Sane, Filed, NEW a \in AttIds, Live(a)
                 PROVE  \/ PathOf(att[a].h) \in file \cup torn
                        \/ \E c \in Calls : DropsBy(call[c], att[a].h, att[a].n)
      BY DEF HasFile, DropsBy
    <2>1. att[a].h \in Hashes /\ Stored(att[a].h, att[a].n)
      BY DEF Sane, Typed, Refers
    <2> QED
      BY <2>1 DEF Filed, OnDisk, Stored
  <1> QED
    BY <1>1, <1>2, <1>3, SpecSane, PTL DEF Spec

-----------------------------------------------------------------------------
(* Uploads that lose their last attachment.                                *)

\* The upload of h is still on the list of the call with v, or about to be given to an
\* attachment, or deleted; a transaction that deletes none of its attachments does not count.
Sees(v, h) == v.pc \in {"count", "unlink", "drop"} /\ \E i \in v.todo : i.h = h /\ i.n = up[h].n
Minds(v, h) ==
  IF v.op = "avatar"
  THEN /\ v.gone \cap Users(h, up[h].n) # {}
       /\ Sees(v, h) \/ <<h, up[h].n>> \in v.rm
  ELSE Sees(v, h) \/ (v.pc \in {"attach", "repoint"} /\ v.h = h /\ v.n = up[h].n)
Forlorn(h) == up[h].stored /\ Users(h, up[h].n) \subseteq Going /\ h \notin stray

Looked == \A h \in Hashes : Forlorn(h) => \E c \in Calls : Minds(call[c], h)

LEMMA LookedPreserved ==
  ASSUME Typed, Looked, NEW c \in Calls, NEW v, Change(c, v),
         \A d \in Calls \ {c} : \A a \in call[d].gone : att'[a] = att[a],
         \A h \in Hashes : Forlorn(h)' =>
           Minds(v, h)' \/ (Forlorn(h) /\ up'[h].n = up[h].n /\ ~Minds(call[c], h))
  PROVE  Looked'
  <1>1. CallsTyped /\ call'[c] = v /\ \A d \in Calls \ {c} : call'[d] = call[d]
    BY Changed DEF Typed
  <1>2. ASSUME NEW h \in Hashes, Forlorn(h)' PROVE \E d \in Calls : Minds(call[d], h)'
    <2>1. CASE Minds(v, h)'
      BY <1>1, <2>1 DEF Minds, Sees
    <2>2. CASE Forlorn(h) /\ up'[h].n = up[h].n /\ ~Minds(call[c], h)
      <3>1. PICK d \in Calls : Minds(call[d], h)
        BY <2>2 DEF Looked
      <3>2. d # c /\ call'[d] = call[d]
        BY <1>1, <2>2, <3>1
      <3>3. CASE call[d].op = "avatar"
        <4>1. PICK a \in call[d].gone : a \in Users(h, up[h].n)
          BY <3>1, <3>3 DEF Minds
        <4>2. att'[a] = att[a] /\ a \in AttIds
          BY <3>2, <4>1 DEF Users
        <4>3. a \in Users(h, up[h].n)'
          BY <2>2, <4>1, <4>2 DEF Users, Live
        <4>4. (call[d].gone \cap Users(h, up[h].n))' # {}
          BY <3>2, <4>1, <4>3
        <4> QED
          BY <2>2, <3>1, <3>2, <3>3, <4>4 DEF Minds, Sees
      <3>4. CASE call[d].op # "avatar"
        BY <2>2, <3>1, <3>2, <3>4 DEF Minds, Sees
      <3> QED
        BY <3>3, <3>4
    <2> QED
      BY <1>2, <2>1, <2>2
  <1> QED
    BY <1>2 DEF Looked

\* Steps that leave attachments and uploads, of a call that still minds what it minded.
LEMMA LookedKept ==
  ASSUME Typed, Looked, NEW c \in Calls, NEW v, Change(c, v), UNCHANGED att,
         \A h \in Hashes : up'[h].n = up[h].n /\ up'[h].stored = up[h].stored,
         v.gone = call[c].gone, stray \subseteq stray',
         \A h \in Hashes : Minds(call[c], h) /\ Forlorn(h) => Minds(v, h) \/ h \in stray'
  PROVE  Looked'
  <1>1. /\ CallsTyped /\ call'[c] = v /\ \A d \in Calls \ {c} : call'[d] = call[d]
    BY Changed DEF Typed
  <1>2. Going' = Going
    BY <1>1 DEF Going
  <1>3. ASSUME NEW h \in Hashes, Forlorn(h)'
        PROVE  Minds(v, h)' \/ (Forlorn(h) /\ up'[h].n = up[h].n /\ ~Minds(call[c], h))
    <2>1. Users(h, up[h].n)' = Users(h, up[h].n)
      BY DEF Users, Live
    <2>2. Forlorn(h) /\ h \notin stray'
      BY <1>2, <1>3, <2>1 DEF Forlorn
    <2>3. Minds(v, h) => Minds(v, h)'
      BY <2>1 DEF Minds, Sees
    <2> QED
      BY <2>2, <2>3
  <1> QED
    BY <1>3, LookedPreserved

LEMMA QuietLooked ==
  ASSUME Sane, Looked, NEW c \in Calls,
         Beginning(c) \/ Lookup(c) \/ WriteFile(c) \/ Move(c) \/ \E i \in call[c].cur : Unlink(c, i)
  PROVE  Looked'
  <1>0. Typed /\ CallsTyped
    BY DEF Sane, Typed
  <1>i. /\ Idle.gone = {} /\ Idle.rm = {} /\ Idle.op = "none" /\ Idle.pc = "idle"
        /\ \A h \in Hashes : ~Minds(Idle, h)
    BY DEF Idle, Minds, Sees
  <1>1. CASE Beginning(c)
    <2>1. UNCHANGED <<up, att, stray>> /\ call[c] = Idle
      BY <1>0, <1>1, BeginCall DEF tables, history
    <2>2. PICK v : Change(c, v) /\ v.gone = {}
      BY <1>0, <1>1, BeginCall
    <2> QED
      BY <1>0, <1>i, <2>1, <2>2, LookedKept
  <1>2. CASE Lookup(c)
    <2>1. UNCHANGED <<up, att, stray>> /\ call[c].pc = "lookup"
      BY <1>0, <1>2, LookupCall DEF tables, history
    <2>2. PICK v : Change(c, v) /\ v.gone = call[c].gone /\ v.rm = call[c].rm /\ v.op = call[c].op
      BY <1>0, <1>2, LookupCall
    <2>3. \A h \in Hashes : Minds(call[c], h) => Minds(v, h)
      BY <2>1, <2>2 DEF Minds, Sees
    <2> QED
      BY <1>0, <2>1, <2>2, <2>3, LookedKept
  <1>3. CASE WriteFile(c)
    <2>1. UNCHANGED <<up, att, stray>> /\ call[c].pc = "write"
      BY <1>3 DEF WriteFile, tables
    <2>2. PICK v : Change(c, v) /\ v.gone = call[c].gone /\ v.rm = call[c].rm /\ v.op = call[c].op
      BY <1>0, <1>3, WriteCall
    <2>3. \A h \in Hashes : Minds(call[c], h) => Minds(v, h)
      BY <2>1, <2>2 DEF Minds, Sees
    <2> QED
      BY <1>0, <2>1, <2>2, <2>3, LookedKept
  <1>4. CASE Move(c)
    <2>1. /\ Change(c, Idle) /\ call[c].pc = "move" /\ call[c].op = "replace" /\ call[c].gone = {}
          /\ UNCHANGED <<att, stray>> /\ call[c].h \in Hashes
          /\ up' = [up EXCEPT ![call[c].h].dir = call[c].dir]
      BY <1>0, <1>4, MoveCall DEF Move
    <2>2. \A h \in Hashes : up'[h].n = up[h].n /\ up'[h].stored = up[h].stored
      BY <1>0, <2>1 DEF Typed, UpTyped, Upload
    <2>3. \A h \in Hashes : ~Minds(call[c], h)
      BY <2>1 DEF Minds, Sees
    <2> QED
      BY <1>0, <1>i, <2>1, <2>2, <2>3, LookedKept
  <1>5. ASSUME NEW i \in call[c].cur, Unlink(c, i) PROVE Looked'
    <2>1. UNCHANGED <<up, att, stray>> /\ call[c].pc = "unlink"
      BY <1>5 DEF Unlink, tables
    <2>2. PICK v : /\ Change(c, v) /\ v.gone = call[c].gone /\ v.rm = call[c].rm
                   /\ v.op = call[c].op /\ v.pc = "drop" /\ v.todo = call[c].todo
      BY <1>0, <1>5, UnlinkCall
    <2>3. \A h \in Hashes : Minds(call[c], h) => Minds(v, h)
      BY <2>1, <2>2 DEF Minds, Sees
    <2> QED
      BY <1>0, <2>1, <2>2, <2>3, LookedKept
  <1> QED
    BY <1>1, <1>2, <1>3, <1>4, <1>5

\* Who counts others that are on their way out leaves the upload to them: it is stray.
LEMMA CountLooked ==
  ASSUME Sane, Looked, NEW c \in Calls, NEW i \in call[c].todo, Count(c, i)
  PROVE  Looked'
  <1>0. Typed /\ CallsTyped
    BY DEF Sane, Typed
  <1>1. PICK seen : seen = Users(i.h, i.n) \ call[c].gone
    OBVIOUS
  <1>2. PICK v : Counts(c, i, seen, v)
    BY <1>0, <1>1, CountCall
  <1>3. /\ UNCHANGED <<up, att>> /\ call[c].pc = "count"
        /\ stray' = IF seen # {} /\ \A a \in seen : RowLocked(c, a) THEN stray \cup {i.h} ELSE stray
    BY <1>1 DEF Count, tables
  <1>4. /\ Change(c, v) /\ v.gone = call[c].gone /\ v.rm = call[c].rm
        /\ (v.op = "avatar" <=> call[c].op = "avatar")
    BY <1>2 DEF Counts, InTx
  <1>5. ASSUME NEW h \in Hashes, Minds(call[c], h), Forlorn(h) PROVE Minds(v, h) \/ h \in stray'
    <2>1. Sees(call[c], h) \/ (call[c].op = "avatar" /\ <<h, up[h].n>> \in call[c].rm)
      BY <1>3, <1>5 DEF Minds
    <2>2. CASE Sees(v, h) \/ (call[c].op = "avatar" /\ <<h, up[h].n>> \in call[c].rm)
      BY <1>4, <1>5, <2>2 DEF Minds
    <2>3. CASE Sees(call[c], h) /\ ~Sees(v, h)
      <3>1. PICK j \in call[c].todo : j.h = h /\ j.n = up[h].n
        BY <2>3 DEF Sees
      <3>2. seen # {}
        BY <1>2, <2>3, <3>1 DEF Counts, Sees
      <3>3. j = i
        BY <1>2, <2>3, <3>1 DEF Counts, Sees
      <3>4. \A a \in seen : RowLocked(c, a)
        BY <1>1, <1>5, <3>1, <3>3 DEF Forlorn, Going, RowLocked
      <3> QED
        BY <1>3, <3>1, <3>2, <3>3, <3>4
    <2> QED
      BY <2>1, <2>2, <2>3
  <1>6. stray \subseteq stray'
    BY <1>3
  <1> QED
    BY <1>0, <1>3, <1>4, <1>5, <1>6, LookedKept

LEMMA InsertLooked ==
  ASSUME Sane, Looked, NEW c \in Calls, InsertUpload(c)
  PROVE  Looked'
  <1> DEFINE h == call[c].h
  <1>0. Typed /\ CallsTyped
    BY DEF Sane, Typed
  <1>1. PICK v : /\ Change(c, v) /\ v.gone = call[c].gone /\ v.rm = call[c].rm
                 /\ v.h = h /\ v.op = call[c].op
                 /\ v.pc \in {"attach", "repoint"} /\ v.n = up[v.h].n + 1
    BY <1>0, InsertCall
  <1>2. h \in Hashes /\ call[c].pc = "insert" /\ UNCHANGED att
    BY <1>0, InsertCall DEF InsertUpload
  <1>3. CASE InTx(c)
    <2>1. UNCHANGED <<up, stray>>
      BY <1>3 DEF InsertUpload
    <2>2. \A g \in Hashes : Minds(call[c], g) => Minds(v, g)
      BY <1>1, <1>2 DEF Minds, Sees
    <2> QED
      BY <1>0, <1>1, <1>2, <2>1, <2>2, LookedKept
  <1>4. CASE ~InTx(c)
    <2>1. /\ up' = [up EXCEPT ![h] = [n |-> up[h].n + 1, stored |-> TRUE, dir |-> call[c].dir]]
          /\ stray' = stray \ {h}
      BY <1>4 DEF InsertUpload
    <2>2. /\ up'[h].n = v.n /\ \A g \in Hashes \ {h} : up'[g] = up[g]
      BY <1>0, <1>1, <1>2, <2>1 DEF Typed, UpTyped
    <2>3. /\ \A d \in Calls \ {c} : call'[d] = call[d]
          /\ call'[c].gone = call[c].gone
      BY <1>0, <1>1, Changed
    <2>4. ASSUME NEW g \in Hashes, Forlorn(g)'
          PROVE  Minds(v, g)' \/ (Forlorn(g) /\ up'[g].n = up[g].n /\ ~Minds(call[c], g))
      <3>1. CASE g = h
        <4>1. v.op # "avatar"
          BY <1>1, <1>4 DEF InTx
        <4> QED
          BY <1>1, <2>2, <3>1, <4>1 DEF Minds
      <3>2. CASE g # h
        <4>1. up'[g] = up[g] /\ Users(g, up[g].n)' = Users(g, up[g].n)
          BY <1>2, <2>2, <3>2 DEF Users, Live
        <4>2. Going' = Going
          BY <2>3 DEF Going
        <4>3. Forlorn(g)
          BY <2>1, <2>4, <3>2, <4>1, <4>2 DEF Forlorn
        <4>4. ~Minds(call[c], g)
          BY <1>2, <1>4 DEF Minds, Sees, InTx
        <4> QED
          BY <4>1, <4>3, <4>4
      <3> QED
        BY <3>1, <3>2
    <2> QED
      BY <1>0, <1>1, <1>2, <2>4, LookedPreserved
  <1> QED
    BY <1>3, <1>4

\* An attachment that stays keeps its upload from being forlorn.
LEMMA Stays ==
  ASSUME NEW a \in AttIds, att'[a].state = "live", \A c \in Calls : a \notin call'[c].gone,
         NEW h, h = att'[a].h, up'[h].n = att'[a].n
  PROVE  ~Forlorn(h)'
  BY DEF Forlorn, Users, Live, Going

\* What one call holds no other has, and nobody a new attachment.
LEMMA GoneLive ==
  ASSUME Sane, NEW c \in Calls
  PROVE  /\ call[c].gone \subseteq AttIds
         /\ \A a \in call[c].gone : att[a].state = "live"
         /\ \A d \in Calls : d # c => call[c].gone \cap call[d].gone = {}
  BY DEF Sane, Typed, CallsTyped, Call, Locks, Sound, Apart, Live

LEMMA AttachLooked ==
  ASSUME Sane, Looked, NEW c \in Calls, NEW a \in AttIds, Attach(c, a)
  PROVE  Looked'
  <1> DEFINE me == call[c]
  <1>0. Typed /\ CallsTyped
    BY DEF Sane, Typed
  <1>1. /\ Change(c, Idle) /\ me.pc = "attach" /\ me.op = "create" /\ me.h \in Hashes
        /\ UNCHANGED up /\ Stored(me.h, me.n) /\ att[a].state = "new"
        /\ stray' = stray \ {me.h} /\ Idle.gone = {} /\ me.gone = {}
    BY <1>0, AttachCall DEF Attach, Idle
  <1>2. /\ att'[a].h = me.h /\ att'[a].n = me.n /\ att'[a].state = "live"
        /\ \A b \in AttIds \ {a} : att'[b] = att[b]
    BY <1>0 DEF Attach, Typed, AttTyped
  <1>3. /\ \A d \in Calls \ {c} : call'[d] = call[d]
        /\ call'[c] = Idle
    BY <1>0, <1>1, Changed
  <1>4. \A d \in Calls : a \notin call[d].gone
    BY <1>1, GoneLive
  <1>5. Going' = Going /\ \A d \in Calls : a \notin call'[d].gone
    BY <1>1, <1>3, <1>4 DEF Going
  <1>6. ASSUME NEW g \in Hashes, Forlorn(g)'
        PROVE  Forlorn(g) /\ up'[g].n = up[g].n /\ ~Minds(me, g)
    <2>1. g # me.h
      BY <1>1, <1>2, <1>5, <1>6, Stays DEF Stored
    <2>2. Users(g, up[g].n)' = Users(g, up[g].n)
      BY <1>1, <1>2, <2>1 DEF Users, Live
    <2>3. Forlorn(g)
      BY <1>1, <1>5, <1>6, <2>1, <2>2 DEF Forlorn
    <2> QED
      BY <1>1, <2>1, <2>3 DEF Minds, Sees
  <1>7. \A d \in Calls \ {c} : \A b \in call[d].gone : att'[b] = att[b]
    BY <1>2, <1>4, GoneLive
  <1> QED
    BY <1>0, <1>1, <1>6, <1>7, LookedPreserved

LEMMA RemoveLooked ==
  ASSUME Sane, Looked, NEW c \in Calls, RemoveAttachments(c)
  PROVE  Looked'
  <1>0. Typed /\ CallsTyped /\ AttTyped
    BY DEF Sane, Typed
  <1>1. PICK ids : ids = {i.a : i \in call[c].todo}
    OBVIOUS
  <1>2. PICK v : Removes(c, ids, v)
    BY <1>0, <1>1, RemoveCall
  <1>3. /\ Change(c, v) /\ v.pc = "count" /\ v.todo = call[c].todo
        /\ v.gone = (IF InTx(c) THEN {a \in ids : Live(a)} ELSE {}) /\ v.op = call[c].op
    BY <1>2 DEF Removes
  <1>4. /\ ids \subseteq AttIds /\ UNCHANGED up
        /\ call[c].pc = "remove" /\ call[c].gone = {}
        /\ \A a \in ids : ~RowLocked(c, a)
        /\ IF InTx(c) THEN UNCHANGED att ELSE att' = Remove(ids)
        /\ stray' = stray \cup Forgotten(ids, call[c].todo)
    BY <1>0, <1>1, RemoveCall
  <1>5. /\ \A d \in Calls \ {c} : call'[d] = call[d]
        /\ call'[c] = v
    BY <1>0, <1>3, Changed
  <1>6. ASSUME NEW d \in Calls \ {c}, NEW a \in call[d].gone PROVE att'[a] = att[a] /\ a \notin ids
    <2>1. a \in AttIds /\ a \notin ids
      BY <1>4, GoneLive DEF RowLocked
    <2> QED
      BY <1>0, <1>4, <2>1, Removed
  <1>7. Going' \subseteq Going \cup ids /\ (~InTx(c) => Going' = Going)
    BY <1>3, <1>4, <1>5 DEF Going
  <1>8. ASSUME NEW h \in Hashes, Forlorn(h)'
        PROVE  Minds(v, h)' \/ (Forlorn(h) /\ up'[h].n = up[h].n /\ ~Minds(call[c], h))
    <2> DEFINE users == Users(h, up[h].n)
    <2>1. Users(h, up[h].n)' = IF InTx(c) THEN users ELSE users \ ids
      <3>1. CASE InTx(c)
        BY <1>4, <3>1 DEF Users, Live
      <3>2. CASE ~InTx(c)
        <4>1. \A a \in AttIds : IF a \in ids THEN att'[a].state = "deleted" ELSE att'[a] = att[a]
          BY <1>0, <1>4, <3>2, Removed
        <4> QED
          BY <1>4, <3>2, <4>1 DEF Users, Live
      <3> QED
        BY <3>1, <3>2
    <2>2. up[h].stored /\ users \subseteq ids \cup Going /\ h \notin stray /\ h \notin Forgotten(ids, call[c].todo)
      BY <1>4, <1>7, <1>8, <2>1 DEF Forlorn
    <2>3. CASE users \cap ids = {}
      <3>1. Forlorn(h)
        BY <2>2, <2>3 DEF Forlorn
      <3>2. ~Minds(call[c], h)
        BY <1>4 DEF Minds, Sees
      <3> QED
        BY <1>4, <3>1, <3>2
    <2>4. CASE users \cap ids # {}
      <3>1. \E i \in call[c].todo : i.h = h /\ i.n = up[h].n
        BY <2>2, <2>4 DEF Forgotten
      <3>2. Sees(v, h)'
        BY <1>3, <1>4, <3>1 DEF Sees
      <3>3. CASE InTx(c)
        <4>1. v.gone \cap Users(h, up[h].n)' # {}
          BY <1>3, <2>1, <2>4, <3>3 DEF Users
        <4> QED
          BY <3>2, <4>1 DEF Minds
      <3>4. CASE ~InTx(c)
        BY <1>3, <3>2, <3>4 DEF Minds, InTx
      <3> QED
        BY <3>3, <3>4
    <2> QED
      BY <2>3, <2>4
  <1> QED
    BY <1>0, <1>3, <1>6, <1>8, LookedPreserved

LEMMA DropLooked ==
  ASSUME Sane, Looked, NEW c \in Calls, NEW i \in call[c].cur, DropUpload(c, i)
  PROVE  Looked'
  <1>0. Typed /\ CallsTyped /\ AttTyped /\ UpTyped
    BY DEF Sane, Typed
  <1>1. PICK users : users = Users(i.h, i.n)
    OBVIOUS
  <1>2. PICK v : Drops(c, i, users, v)
    BY <1>0, <1>1, DropCall
  <1>3. /\ Change(c, v)
        /\ v.gone = (IF InTx(c) THEN call[c].gone \cup users ELSE {})
        /\ v.rm = (IF InTx(c) THEN call[c].rm \cup {<<i.h, i.n>>} ELSE {})
        /\ \A j \in call[c].todo : j # i => v.pc = "count" /\ j \in v.todo
        /\ (v.op = "avatar" <=> InTx(c))
    BY <1>2 DEF Drops
  <1>4. /\ call[c].pc = "drop" /\ i \in Item /\ i.h \in Hashes
        /\ IF InTx(c) THEN UNCHANGED <<up, att, stray>>
           ELSE /\ up' = [up EXCEPT ![i.h].stored = FALSE]
                /\ att' = Remove(users) /\ stray' = stray \ {i.h}
                /\ call[c].gone = {} /\ call[c].rm = {}
    BY <1>0, <1>1, DropCall DEF Item
  <1>5. /\ Stored(i.h, i.n)
        /\ \A d \in Calls \ {c} : call[d].gone \cap users = {}
    BY <1>1 DEF DropUpload, RowLocked
  <1>6. /\ call'[c] = v /\ \A d \in Calls \ {c} : call'[d] = call[d]
    BY <1>0, <1>3, Changed
  <1>7. ASSUME NEW d \in Calls \ {c}, NEW a \in call[d].gone PROVE att'[a] = att[a]
    BY <1>0, <1>4, <1>5, GoneLive, Removed
  <1>8. \A g \in Hashes \ {i.h} : up'[g] = up[g]
    BY <1>0, <1>4 DEF UpTyped
  \* Of other contents it loses nothing that it minded.
  <1>9. ASSUME NEW g \in Hashes, g # i.h, Minds(call[c], g)
        PROVE  /\ v.gone \cap Users(g, up[g].n) # {} \/ ~InTx(c)
               /\ \/ (\E j \in v.todo : j.h = g /\ j.n = up[g].n) /\ v.pc = "count"
                  \/ InTx(c) /\ <<g, up[g].n>> \in v.rm
    <2>1. ASSUME InTx(c) PROVE v.gone \cap Users(g, up[g].n) # {}
      BY <1>3, <1>9, <2>1 DEF Minds, InTx
    <2>2. CASE Sees(call[c], g)
      <3>1. PICK j \in call[c].todo : j.h = g /\ j.n = up[g].n
        BY <2>2 DEF Sees
      <3>2. j # i
        BY <1>9, <3>1
      <3> QED
        BY <1>3, <2>1, <3>1, <3>2
    <2>3. CASE InTx(c) /\ <<g, up[g].n>> \in call[c].rm
      BY <1>3, <2>1, <2>3
    <2> QED
      BY <1>4, <1>9, <2>2, <2>3 DEF Minds, InTx
  <1>10. ASSUME NEW g \in Hashes, Forlorn(g)'
         PROVE  Minds(v, g)' \/ (Forlorn(g) /\ up'[g].n = up[g].n /\ ~Minds(call[c], g))
    <2>1. CASE g = i.h
      <3>1. CASE ~InTx(c)
        <4>1. up'[i.h].stored = FALSE
          BY <1>0, <1>4, <3>1 DEF UpTyped, Upload
        <4> QED
          BY <1>10, <2>1, <4>1 DEF Forlorn
      <3>2. CASE InTx(c)
        <4>1. UNCHANGED <<up, att, stray>> /\ Users(g, up[g].n)' = Users(g, up[g].n)
              /\ Users(g, up[g].n) = users /\ up[g].n = i.n
          BY <1>1, <1>4, <1>5, <2>1, <3>2 DEF Users, Live, Stored
        <4>2. CASE users # {}
          BY <1>3, <2>1, <3>2, <4>1, <4>2 DEF Minds, InTx, Sees
        <4>3. CASE users = {}
          <5>1. Forlorn(g) /\ ~Minds(call[c], g)
            BY <1>10, <3>2, <4>1, <4>3 DEF Forlorn, Minds, InTx
          <5> QED
            BY <4>1, <5>1
        <4> QED
          BY <4>2, <4>3
      <3> QED
        BY <3>1, <3>2
    <2>2. CASE g # i.h
      <3>1. up'[g] = up[g]
        BY <1>8, <2>2
      <3>2. Users(g, up[g].n)' = Users(g, up[g].n)
        <4>1. CASE InTx(c)
          BY <1>4, <4>1 DEF Users, Live
        <4>2. CASE ~InTx(c)
          <5>1. \A a \in AttIds : IF a \in users THEN att'[a].state = "deleted" ELSE att'[a] = att[a]
            BY <1>0, <1>4, <4>2, Removed
          <5>2. \A a \in users : att[a].h # g
            BY <1>1, <2>2 DEF Users
          <5> QED
            BY <3>1, <5>1, <5>2 DEF Users, Live
        <4> QED
          BY <4>1, <4>2
      <3>3. Going' \subseteq Going \cup users
        BY <1>3, <1>6 DEF Going
      <3>4. Users(g, up[g].n) \cap users = {}
        BY <1>1, <2>2 DEF Users
      <3>5. Forlorn(g)
        <4>1. g \notin stray
          BY <1>4, <1>10, <2>2 DEF Forlorn
        <4> QED
          BY <1>10, <3>1, <3>2, <3>3, <3>4, <4>1 DEF Forlorn
      <3>6. Minds(call[c], g) => Minds(v, g)'
        BY <1>3, <1>9, <2>2, <3>1, <3>2 DEF Minds, Sees
      <3> QED
        BY <3>1, <3>5, <3>6
    <2> QED
      BY <2>1, <2>2
  <1> QED
    BY <1>0, <1>3, <1>7, <1>10, LookedPreserved

LEMMA RepointLooked ==
  ASSUME Sane, Looked, NEW c \in Calls, Repoint(c)
  PROVE  Looked'
  <1> DEFINE me == call[c]
             a == me.a
  <1>0. Typed /\ CallsTyped
    BY DEF Sane, Typed
  <1>1. PICK v : /\ Change(c, v) /\ v.gone = {} /\ v.rm = {} /\ v.pc = "count"
                 /\ v.todo = me.cur /\ v.op = "delete"
    BY <1>0, RepointCall
  <1>2. /\ me.gone = {} /\ me.pc = "repoint" /\ me.op = "replace"
        /\ a \in AttIds /\ me.h \in Hashes
        /\ UNCHANGED up /\ Live(a) /\ Stored(me.h, me.n)
        /\ \A d \in Calls \ {c} : a \notin call[d].gone
        /\ stray' = (stray \ {me.h}) \cup Forgotten({a}, me.cur)
    BY <1>0, RepointCall DEF Repoint, RowLocked
  <1>3. /\ att'[a].h = me.h /\ att'[a].n = me.n /\ att'[a].state = "live"
        /\ \A b \in AttIds \ {a} : att'[b] = att[b]
    BY <1>0, <1>2 DEF Repoint, Typed, AttTyped, Attachment, Live
  <1>4. /\ call'[c] = v /\ \A d \in Calls \ {c} : call'[d] = call[d]
    BY <1>0, <1>1, Changed
  <1>5. Going' = Going /\ \A d \in Calls : a \notin call'[d].gone
    BY <1>1, <1>2, <1>4 DEF Going
  <1>6. ASSUME NEW g \in Hashes, Forlorn(g)'
        PROVE  Minds(v, g)' \/ (Forlorn(g) /\ up'[g].n = up[g].n /\ ~Minds(me, g))
    <2> DEFINE users == Users(g, up[g].n)
    <2>1. g # me.h
      BY <1>2, <1>3, <1>5, <1>6, Stays DEF Stored
    <2>2. Users(g, up[g].n)' = users \ {a}
      BY <1>2, <1>3, <2>1 DEF Users, Live
    <2>3. /\ up[g].stored /\ users \subseteq {a} \cup Going
          /\ g \notin stray /\ g \notin Forgotten({a}, me.cur)
      BY <1>2, <1>5, <1>6, <2>1, <2>2 DEF Forlorn
    <2>4. CASE a \in users
      <3>1. \E i \in me.cur : i.h = g /\ i.n = up[g].n
        BY <2>3, <2>4 DEF Forgotten
      <3>2. Sees(v, g)'
        BY <1>1, <1>2, <3>1 DEF Sees
      <3> QED
        BY <1>1, <3>2 DEF Minds
    <2>5. CASE a \notin users
      <3>1. Forlorn(g)
        BY <2>3, <2>5 DEF Forlorn
      <3> QED
        BY <1>2, <2>1, <3>1 DEF Minds, Sees
    <2> QED
      BY <2>4, <2>5
  <1>7. \A d \in Calls \ {c} : \A b \in call[d].gone : att'[b] = att[b]
    BY <1>2, <1>3, GoneLive
  <1> QED
    BY <1>0, <1>1, <1>6, <1>7, LookedPreserved

LEMMA CommitLooked ==
  ASSUME Sane, Looked, NEW c \in Calls, NEW a \in AttIds, CommitAvatar(c, a)
  PROVE  Looked'
  <1> DEFINE me == call[c]
  <1>0. Typed /\ Locks /\ CallsTyped
    BY DEF Sane, Typed
  <1>1. /\ Change(c, Idle) /\ me.pc = "attach" /\ InTx(c) /\ me.h \in Hashes
        /\ Idle.gone = {} /\ CommitsUploads(c) /\ CommitsAtts(c, a)
    BY <1>0, CommitCall, Committed DEF Idle
  <1>2. stray' = stray \ ({u[1] : u \in me.rm} \cup {me.h})
    BY DEF CommitAvatar
  <1>3. call'[c] = Idle /\ \A d \in Calls \ {c} : call'[d] = call[d]
    BY <1>0, <1>1, Changed
  <1>4. \A d \in Calls : a \notin call'[d].gone
    BY <1>1, <1>3, GoneLive DEF CommitsAtts
  <1>5. Going \subseteq Going' \cup me.gone /\ Going' \subseteq Going /\ me.gone \subseteq Going
    BY <1>1, <1>3 DEF Going
  <1>6. ASSUME NEW g \in Hashes, Forlorn(g)'
        PROVE  Forlorn(g) /\ up'[g].n = up[g].n /\ ~Minds(me, g)
    <2>1. g # me.h
      <3>1. up'[me.h].n = me.n
        <4>1. CASE Inserted(c)
          BY <1>1, <4>1 DEF CommitsUploads
        <4>2. CASE ~Inserted(c)
          BY <1>1, <4>2 DEF CommitsUploads, Stored
        <4> QED
          BY <4>1, <4>2
      <3> QED
        BY <1>1, <1>4, <1>6, <3>1, Stays DEF CommitsAtts
    <2>2. /\ up'[g].n = up[g].n
          /\ up'[g].stored <=> up[g].stored /\ <<g, up[g].n>> \notin me.rm
      BY <1>1, <2>1 DEF CommitsUploads
    <2>3. up[g].stored /\ <<g, up[g].n>> \notin me.rm
      BY <1>6, <2>2 DEF Forlorn
    <2>4. Users(g, up[g].n)' = Users(g, up[g].n) \ me.gone
      <3>1. \A b \in AttIds : b # a =>
              IF b \in me.gone THEN att'[b].state = "deleted" ELSE att'[b] = att[b]
        BY <1>1 DEF CommitsAtts
      <3>2. att'[a].h # g /\ att[a].state # "live"
        BY <1>1, <2>1 DEF CommitsAtts
      <3> QED
        BY <2>2, <3>1, <3>2 DEF Users, Live
    <2>5. g \notin stray
      <3>1. ASSUME NEW u \in me.rm, u[1] = g PROVE FALSE
        <4>1. u = <<u[1], u[2]>> /\ u[2] \in 0..MaxRows
          BY <1>0, <3>1 DEF CallsTyped, Call
        <4>2. <<g, u[2]>> \in me.rm
          BY <3>1, <4>1
        <4>3. Stored(g, u[2])
          BY <1>0, <4>1, <4>2 DEF Locks, Sound
        <4>4. up[g].n = u[2]
          BY <4>3 DEF Stored
        <4> QED
          BY <2>3, <4>2, <4>4
      <3> QED
        BY <1>2, <1>6, <2>1, <3>1 DEF Forlorn
    <2>6. Forlorn(g)
      BY <1>5, <1>6, <2>3, <2>4, <2>5 DEF Forlorn
    <2> QED
      BY <1>1, <2>2, <2>3, <2>6 DEF Minds, Sees, InTx
  <1>7. ASSUME NEW d \in Calls \ {c}, NEW b \in call[d].gone PROVE att'[b] = att[b]
    BY <1>1, GoneLive DEF CommitsAtts
  <1> QED
    BY <1>0, <1>1, <1>6, <1>7, LookedPreserved

LEMMA DeleteCreatorLooked ==
  ASSUME Sane, Looked, NEW ids \in SUBSET AttIds, DeleteCreator(ids)
  PROVE  Looked'
  <1>0. AttTyped
    BY DEF Sane, Typed
  <1>1. /\ att' = Remove(ids) /\ UNCHANGED <<up, call>>
        /\ stray' = stray \cup Forgotten(ids, {})
        /\ \A d \in Calls : call[d].gone \cap ids = {}
    BY DEF DeleteCreator
  <1>2. \A a \in AttIds : IF a \in ids THEN att'[a].state = "deleted" ELSE att'[a] = att[a]
    BY <1>0, <1>1, Removed
  <1>3. ASSUME NEW h \in Hashes, Forlorn(h)' PROVE \E d \in Calls : Minds(call[d], h)'
    <2> DEFINE users == Users(h, up[h].n)
    <2>1. Users(h, up[h].n)' = users \ ids
      BY <1>1, <1>2 DEF Users, Live
    <2>2. Going' = Going
      BY <1>1 DEF Going
    <2>3. up[h].stored /\ users \subseteq ids \cup Going /\ h \notin stray /\ h \notin Forgotten(ids, {})
      BY <1>1, <1>3, <2>1, <2>2 DEF Forlorn
    <2>4. users \cap ids = {}
      BY <2>3 DEF Forgotten
    <2>5. Forlorn(h)
      BY <2>3, <2>4 DEF Forlorn
    <2>6. Users(h, up[h].n)' = users
      BY <2>1, <2>4
    <2>7. \A d \in Calls : Minds(call[d], h) => Minds(call[d], h)'
      BY <1>1, <2>6 DEF Minds, Sees
    <2> QED
      BY <2>5, <2>7 DEF Looked
  <1> QED
    BY <1>3 DEF Looked

\* What a call that ends early still minded is stray, unless it only had deleted in its
\* transaction: that is undone.
LEMMA AbandonLooked ==
  ASSUME Sane, Looked, NEW C \in SUBSET Calls, Abandon(C)
  PROVE  Looked'
  <1>1. /\ \A c \in C : call'[c] = Idle
        /\ \A c \in Calls \ C : call'[c] = call[c]
        /\ UNCHANGED <<up, att>>
        /\ Idle.gone = {}
    BY AbandonCalls DEF Sane, Typed, tables, Idle
  <1>2. stray' = stray \cup {h \in UNION {Unfinished(c) : c \in C} :
                               up[h].stored /\ Users(h, up[h].n) \subseteq Going}
    BY DEF Abandon
  <1>3. ASSUME NEW h \in Hashes, Forlorn(h)' PROVE \E d \in Calls : Minds(call[d], h)'
    <2>1. Users(h, up[h].n)' = Users(h, up[h].n)
      BY <1>1 DEF Users, Live
    <2>2. Going' \subseteq Going /\ \A a \in Going' : \E d \in Calls \ C : a \in call[d].gone
      BY <1>1 DEF Going
    <2>3. Forlorn(h) /\ h \notin stray'
      BY <1>1, <1>2, <1>3, <2>1, <2>2 DEF Forlorn
    <2>4. PICK c \in Calls : Minds(call[c], h)
      BY <2>3 DEF Looked
    <2>5. c \notin C
      <3> SUFFICES ASSUME c \in C PROVE FALSE
        OBVIOUS
      <3>1. CASE InTx(c)
        <4>1. PICK a \in call[c].gone : a \in Users(h, up[h].n)
          BY <2>4, <3>1 DEF Minds, InTx
        <4>2. a \in Going'
          BY <1>3, <2>1, <4>1 DEF Forlorn
        <4>3. PICK d \in Calls \ C : a \in call[d].gone
          BY <2>2, <4>2
        <4> QED
          BY <4>1, <4>3, GoneLive
      <3>2. CASE ~InTx(c)
        <4>1. h \in Unfinished(c)
          BY <2>4, <3>2 DEF Minds, Sees, Unfinished, InTx
        <4> QED
          BY <1>2, <2>3, <4>1 DEF Forlorn
      <3> QED
        BY <3>1, <3>2
    <2>6. Minds(call[c], h)'
      BY <1>1, <2>1, <2>4, <2>5 DEF Minds, Sees
    <2> QED
      BY <2>6
  <1> QED
    BY <1>3 DEF Looked

\* When no request is under way, a stored upload that nothing refers to is one of those that
\* UnusedIsRemoved names (deleteAttachments, deleteAttachmentsByBiz, replaceAttachment).
THEOREM UnusedRemoved == Spec => []UnusedIsRemoved
  <1>1. Init => Looked
    <2> SUFFICES ASSUME Init PROVE Looked
      OBVIOUS
    <2>1. call = [c \in Calls |-> Idle] /\ Idle.gone = {}
      BY DEF Init, Idle
    <2>2. Going = {}
      BY <2>1 DEF Going
    <2>3. \A h \in Hashes : ~(up[h].stored /\ Users(h, up[h].n) = {})
      BY DEF Init, Users, Live
    <2> QED
      BY <2>2, <2>3 DEF Looked, Forlorn
  <1>2. Sane /\ Looked /\ [Next]_vars => Looked'
    <2> SUFFICES ASSUME Sane, Looked, [Next]_vars PROVE Looked'
      OBVIOUS
    <2>1. ASSUME NEW c \in Calls, Works(c) PROVE Looked'
      <3>1. CASE Beginning(c) \/ Lookup(c) \/ WriteFile(c) \/ Move(c)
                 \/ \E i \in call[c].cur : Unlink(c, i)
        BY <3>1, QuietLooked
      <3>2. CASE InsertUpload(c) \/ RemoveAttachments(c) \/ Repoint(c)
        BY <3>2, InsertLooked, RemoveLooked, RepointLooked
      <3>3. CASE \E a \in AttIds : Attach(c, a) \/ CommitAvatar(c, a)
        BY <3>3, AttachLooked, CommitLooked
      <3>4. CASE \/ \E i \in call[c].todo : Count(c, i)
                 \/ \E i \in call[c].cur : DropUpload(c, i)
        BY <3>4, CountLooked, DropLooked
      <3> QED
        BY <2>1, <3>1, <3>2, <3>3, <3>4 DEF Works
    <2>2. ASSUME NEW c \in Calls, Ends(c) PROVE Looked'
      <3> DEFINE C == {c}
      <3>1. C \in SUBSET Calls /\ Abandon(C)
        BY <2>2, EndsAbandon DEF Sane
      <3> HIDE DEF C
      <3> QED
        BY <3>1, AbandonLooked
    <2>3. ASSUME NEW ids \in SUBSET AttIds, DeleteCreator(ids) PROVE Looked'
      BY <2>3, DeleteCreatorLooked
    <2>4. CASE Crash
      BY <2>4, CrashAbandons, AbandonLooked
    <2>5. CASE UNCHANGED vars
      BY <2>5 DEF vars, Looked, Forlorn, Minds, Sees, Users, Live, Going
    <2> QED
      BY <2>1, <2>2, <2>3, <2>4, <2>5, StepCases
  <1>3. Sane /\ Looked => UnusedIsRemoved
    <2> SUFFICES ASSUME Sane, Looked, \A c \in Calls : call[c].pc = "idle",
                        NEW h \in Hashes, Unused(h), h \notin stray
                 PROVE  FALSE
      BY DEF UnusedIsRemoved
    <2>1. Forlorn(h)
      BY DEF Forlorn, Unused
    <2>2. \A c \in Calls : call[c] = Idle
      BY DEF Sane, Typed, CallsTyped, Fits
    <2>3. ~Minds(Idle, h)
      BY DEF Minds, Idle, Sees
    <2> QED
      BY <2>1, <2>2, <2>3 DEF Looked
  <1> QED
    BY <1>1, <1>2, <1>3, SpecSane, PTL DEF Spec
=============================================================================
