----------------------------- MODULE Attachments -----------------------------
(***************************************************************************)
(* Attachments, the uploads they share by content, and the files on disk.  *)
(* The calls of attachment.service.ts await their queries and file         *)
(* operations one by one.  The upload of an avatar (a logo, a favicon)     *)
(* does the same within one transaction at Read Committed: the others see  *)
(* its rows when it commits, but its files at once.                        *)
(***************************************************************************)
EXTENDS Integers

CONSTANTS
  Calls,    \* bound: requests under way
  Hashes,   \* contents, as their hash tells them apart
  AttIds,   \* ids of attachments; each is used for one row only
  MaxRows,  \* bound: uploads inserted per content
  MaxCalls, \* bound: requests made
  MaxFaults \* bound: queries that fail, crashes

ASSUME AttachmentsAssumption == 
  MaxRows \in Nat \ {0} /\ MaxCalls \in Nat /\ MaxFaults \in Nat

VARIABLES
  up,      \* table upload by content: the number of its last row, whether that is stored, its dir
  att,     \* table attachment
  avatar,  \* avatarId of the one user (or organization, application) that has an image
  file,    \* the files under uploads/
  call,    \* per call, where it stands and what it has read
  begun,   \* how many requests have begun
  faults,  \* how many queries failed and processes crashed
  late,    \* history: attachments given an upload that some call has counted as unused
  torn,    \* history: files taken away from a row that stays
  stray    \* history: contents whose unused upload nobody will look at again

vars == <<up, att, avatar, file, call, begun, faults, late, torn, stray>>
tables == <<up, att, avatar>>
history == <<late, torn, stray>>

Dirs == {"public", "private"}
Bizs == {"file", "avatar"}
Paths == Dirs \X Hashes
NoAtt == "none"
NoHash == "none"
Upload == [n: 0..MaxRows, stored: BOOLEAN, dir: Dirs]
\* An attachment names its upload by content and number.
Attachment == [state: {"new", "live", "deleted"}, h: Hashes \cup {NoHash}, n: 0..MaxRows, dir: Dirs, biz: Bizs]
Unborn == [state |-> "new", h |-> NoHash, n |-> 0, dir |-> "public", biz |-> "file"]

\* What a call has read of an attachment and its upload.
Item == [a: AttIds, h: Hashes, n: 0..MaxRows, dir: Dirs]
Pcs == {"idle", "remove", "count", "unlink", "drop", "lookup", "write", "insert", "attach",
        "repoint", "move"}
\* todo: the attachments whose uploads are still to be looked at, cur: the one in hand; gone and
\* rm: attachments and uploads that its transaction has deleted and not committed.
Call == [op: {"none", "create", "delete", "replace", "avatar"}, pc: Pcs,
         h: Hashes \cup {NoHash}, n: 0..MaxRows, dir: Dirs, a: AttIds \cup {NoAtt},
         todo: SUBSET Item, cur: SUBSET Item,
         gone: SUBSET AttIds, rm: SUBSET (Hashes \X (0..MaxRows))]
Idle == [op |-> "none", pc |-> "idle", h |-> NoHash, n |-> 0, dir |-> "public",
         a |-> NoAtt, todo |-> {}, cur |-> {}, gone |-> {}, rm |-> {}]

-----------------------------------------------------------------------------
Live(a) == att[a].state = "live"
Stored(h, n) == up[h].stored /\ up[h].n = n
PathOf(h) == <<up[h].dir, h>>
Users(h, n) == {a \in AttIds : Live(a) /\ att[a].h = h /\ att[a].n = n}
Unused(h) == up[h].stored /\ Users(h, up[h].n) = {}
Going == UNION {call[c].gone : c \in Calls}
\* Contents whose upload loses its last attachment with S, and is not among those read in items.
Forgotten(S, items) ==
  {h \in Hashes : /\ up[h].stored /\ Users(h, up[h].n) \cap S # {}
                  /\ Users(h, up[h].n) \subseteq S \cup Going
                  /\ \A i \in items : i.h # h \/ i.n # up[h].n}
Copy(a) == [a |-> a, h |-> att[a].h, n |-> att[a].n, dir |-> up[att[a].h].dir]
Path(c) == <<call[c].dir, call[c].h>>   \* of the file a call writes

InTx(c) == call[c].op = "avatar"
\* The row it has inserted and not committed.
Inserted(c) == InTx(c) /\ call[c].pc = "attach" /\ call[c].n > up[call[c].h].n
\* Rows another transaction has deleted, and a content of which it has inserted or deleted a
\* row: who wants to write them waits.
RowLocked(c, a) == \E d \in Calls \ {c} : a \in call[d].gone
UploadLocked(c, h, n) == \E d \in Calls \ {c} : <<h, n>> \in call[d].rm
HashLocked(c, h) == \E d \in Calls \ {c} :
                      (Inserted(d) /\ call[d].h = h) \/ \E n \in 0..MaxRows : <<h, n>> \in call[d].rm

Begin(c) == call[c].pc = "idle" /\ begun < MaxCalls /\ begun' = begun + 1
\* a is given the upload.
Joins(a, h, n) ==
  late' = IF \E c \in Calls : /\ call[c].pc \in {"unlink", "drop"}
                            /\ \E i \in call[c].cur : i.h = h /\ i.n = n
          THEN late \cup {a} ELSE late \ {a}
Goto(c, p) == call' = [call EXCEPT ![c].pc = p]
Finish(c) == call' = [call EXCEPT ![c] = Idle]
Remove(S) == [a \in AttIds |-> IF a \in S THEN [Unborn EXCEPT !.state = "deleted"] ELSE att[a]]

\* Nothing is stored yet, or one attachment: a file, or the image of the one who has one.
Init ==
  /\ \/ up = [h \in Hashes |-> [n |-> 0, stored |-> FALSE, dir |-> "public"]]
        /\ att = [a \in AttIds |-> Unborn]
        /\ avatar = NoAtt /\ file = {}
     \/ \E g \in Hashes, b \in AttIds, d \in Dirs, k \in Bizs :
          /\ k = "avatar" => d = "public"
          /\ up = [h \in Hashes |-> IF h = g THEN [n |-> 1, stored |-> TRUE, dir |-> d]
                                   ELSE [n |-> 0, stored |-> FALSE, dir |-> "public"]]
          /\ att = [a \in AttIds |-> IF a = b THEN [state |-> "live", h |-> g, n |-> 1, dir |-> d, biz |-> k]
                                     ELSE Unborn]
          /\ avatar = IF k = "avatar" THEN b ELSE NoAtt
          /\ file = {<<d, g>>}
  /\ late = {} /\ torn = {} /\ stray = {}
  /\ call = [c \in Calls |-> Idle]
  /\ begun = 0 /\ faults = 0

-----------------------------------------------------------------------------
(* A call that ends before its work is done, and what it leaves behind.    *)

Unlinked(c) == {PathOf(i.h) : i \in {j \in call[c].cur : call[c].pc = "drop" /\ Stored(j.h, j.n)}}
               \cup {PathOf(u[1]) : u \in call[c].rm}
Written(c) == IF call[c].pc \in {"insert", "move"} \/ Inserted(c) THEN {Path(c)} ELSE {}
Unfinished(c) ==
  IF InTx(c) THEN {}
  ELSE {i.h : i \in IF call[c].pc = "remove" THEN {} ELSE call[c].todo \cup call[c].cur}
       \cup (IF call[c].pc \in {"attach", "repoint"} THEN {call[c].h} ELSE {})

Abandon(C) ==
  /\ torn' = torn \cup ((UNION {Unlinked(c) : c \in C}) \ file)
  /\ stray' = stray \cup {h \in UNION {Unfinished(c) : c \in C} : up[h].stored /\ Users(h, up[h].n) \subseteq Going}
  /\ call' = [c \in Calls |-> IF c \in C THEN Idle ELSE call[c]]
  /\ UNCHANGED <<tables, file, begun, late>>

\* An awaited query is rejected.  (Of unlink the error is caught.)
Fail(c) ==
  /\ call[c].pc \notin {"idle", "unlink"} /\ faults < MaxFaults
  /\ faults' = faults + 1
  /\ Abandon({c})

\* A transaction is rolled back also when it runs out of time, when it is the victim of
\* a deadlock, and when its image turns out to be invalid.  Its files are not.
RollBack(c) == InTx(c) /\ Abandon({c}) /\ UNCHANGED faults

Crash ==
  /\ faults < MaxFaults
  /\ faults' = faults + 1
  /\ Abandon(Calls)

-----------------------------------------------------------------------------
(* createAttachment                                                        *)

BeginCreate(c, h, d) ==
  /\ Begin(c)
  /\ call' = [call EXCEPT ![c] = [Idle EXCEPT !.op = "create", !.pc = "lookup", !.h = h, !.dir = d]]
  /\ UNCHANGED <<tables, file, faults, history>>

\* An upload of this content is shared, wherever its file is.
Lookup(c) ==
  /\ call[c].pc = "lookup"
  /\ LET h == call[c].h IN
     IF up[h].stored /\ <<h, up[h].n>> \notin call[c].rm
     THEN call' = [call EXCEPT ![c].pc = "attach", ![c].n = up[h].n]
     ELSE Goto(c, "write")
  /\ UNCHANGED <<tables, file, begun, faults, history>>

WriteFile(c) ==
  /\ call[c].pc = "write"
  /\ file' = file \cup {Path(c)}
  /\ torn' = torn \ {Path(c)}
  /\ Goto(c, IF call[c].op = "replace" /\ \E i \in call[c].cur : i.h = call[c].h
             THEN "move" ELSE "insert")
  /\ UNCHANGED <<tables, begun, faults, late, stray>>

\* upload.create; the content is unique.
InsertUpload(c) ==
  LET h == call[c].h
      new == up[h].n + 1
  IN
  /\ call[c].pc = "insert" /\ ~HashLocked(c, h) /\ new <= MaxRows
  /\ ~up[h].stored \/ <<h, up[h].n>> \in call[c].rm
  /\ call' = [call EXCEPT ![c].n = new,
                          ![c].pc = IF call[c].op = "replace" THEN "repoint" ELSE "attach"]
  /\ IF InTx(c)
     THEN UNCHANGED <<up, stray>>
     ELSE /\ up' = [up EXCEPT ![h] = [n |-> new, stored |-> TRUE, dir |-> call[c].dir]]
          /\ stray' = stray \ {h}
  /\ UNCHANGED <<att, avatar, file, begun, faults, late, torn>>

InsertRefused(c) ==
  LET h == call[c].h IN
  /\ call[c].pc = "insert" /\ ~HashLocked(c, h)
  /\ up[h].stored /\ <<h, up[h].n>> \notin call[c].rm
  /\ Abandon({c}) /\ UNCHANGED faults

\* attachment.create outside a transaction; the row refers to its upload.
Attach(c, a) ==
  LET me == call[c] IN
  /\ me.op = "create" /\ me.pc = "attach" /\ ~UploadLocked(c, me.h, me.n)
  /\ Stored(me.h, me.n) /\ att[a].state = "new"
  /\ att' = [att EXCEPT ![a] = [state |-> "live", h |-> me.h, n |-> me.n,
                                dir |-> me.dir, biz |-> "file"]]
  /\ stray' = stray \ {me.h}
  /\ Finish(c)
  /\ Joins(a, me.h, me.n)
  /\ UNCHANGED <<up, avatar, file, begun, faults, torn>>

AttachRefused(c) ==
  LET me == call[c] IN
  /\ me.pc = "attach" /\ ~UploadLocked(c, me.h, me.n)
  /\ ~Stored(me.h, me.n) /\ ~Inserted(c)
  /\ Abandon({c}) /\ UNCHANGED faults

-----------------------------------------------------------------------------
(* deleteAttachments, and what deleteAttachmentsByBiz has in common with it *)

BeginDelete(c, ids) ==
  /\ Begin(c) /\ ids # {} /\ \A a \in ids : Live(a)
  /\ call' = [call EXCEPT ![c] = [Idle EXCEPT !.op = "delete", !.pc = "remove",
                                             !.todo = {Copy(a) : a \in ids}]]
  /\ UNCHANGED <<tables, file, faults, history>>

\* deleteMany: those that are still there.
RemoveAttachments(c) ==
  LET ids == {i.a : i \in call[c].todo} IN
  /\ call[c].pc = "remove" /\ \A a \in ids : ~RowLocked(c, a)
  /\ IF InTx(c)
     THEN /\ call' = [call EXCEPT ![c].pc = "count", ![c].gone = {a \in ids : Live(a)}]
          /\ UNCHANGED att
     ELSE /\ att' = Remove(ids)
          /\ Goto(c, "count")
  \* One may have got another upload since it was read.
  /\ stray' = stray \cup Forgotten(ids, call[c].todo)
  /\ UNCHANGED <<up, avatar, file, begun, faults, late, torn>>

\* Where the loop goes after an attachment.
Mut_After(c, rest) == IF InTx(c) THEN "lookup" ELSE "idle"   \* out of it
After(c, rest) == IF rest # {} THEN "count" ELSE IF InTx(c) THEN "lookup" ELSE "idle"
NextItem(c, i, more) ==
  LET rest == call[c].todo \ {i} IN
  call' = [call EXCEPT ![c] = IF After(c, rest) = "idle" THEN Idle
                              ELSE [call[c] EXCEPT !.pc = After(c, rest), !.todo = rest, !.cur = {},
                                                   !.gone = call[c].gone \cup more.gone,
                                                   !.rm = call[c].rm \cup more.rm]]
Nothing == [gone |-> {}, rm |-> {}]

Mut_Count(c, i) ==   \* a count of 1 does for 0
  LET seen == Users(i.h, i.n) \ call[c].gone IN
  /\ call[c].pc = "count" /\ i \in call[c].todo
  /\ IF \E a \in AttIds : seen \subseteq {a}
     THEN call' = [call EXCEPT ![c].pc = "unlink", ![c].cur = {i}]
     ELSE NextItem(c, i, Nothing)
  \* Those it saw are being deleted by a transaction that has counted, and saw ours.
  /\ stray' = IF seen # {} /\ \A a \in seen : RowLocked(c, a) THEN stray \cup {i.h} ELSE stray
  /\ UNCHANGED <<tables, file, begun, faults, late, torn>>
Mut_CountLast(c, i) ==   \* after the unlink
  LET seen == Users(i.h, i.n) \ call[c].gone IN
  /\ call[c].pc = "count" /\ i \in call[c].todo
  /\ IF seen = {}
     THEN call' = [call EXCEPT ![c].pc = "unlink", ![c].cur = {i}]
     ELSE NextItem(c, i, Nothing)
  \* Those it saw are being deleted by a transaction that has counted, and saw ours.
  /\ stray' = IF seen # {} /\ \A a \in seen : RowLocked(c, a) THEN stray \cup {i.h} ELSE stray
  /\ file' = file \ {<<i.dir, i.h>>}
  /\ UNCHANGED <<tables, begun, faults, late, torn>>
\* The count sees what is committed, and what its own transaction did.
Count(c, i) ==
  LET seen == Users(i.h, i.n) \ call[c].gone IN
  /\ call[c].pc = "count" /\ i \in call[c].todo
  /\ IF seen = {}
     THEN call' = [call EXCEPT ![c].pc = "unlink", ![c].cur = {i}]
     ELSE NextItem(c, i, Nothing)
  \* Those it saw are being deleted by a transaction that has counted, and saw ours.
  /\ stray' = IF seen # {} /\ \A a \in seen : RowLocked(c, a) THEN stray \cup {i.h} ELSE stray
  /\ UNCHANGED <<tables, file, begun, faults, late, torn>>

\* The path is the one read with the attachment.
Unlink(c, i) ==
  LET p == <<i.dir, i.h>>
      later == \/ up[i.h].stored /\ up[i.h].n # i.n /\ PathOf(i.h) = p
               \/ \E d \in Calls \ {c} : p \in Written(d)
  IN
  /\ call[c].pc = "unlink" /\ i \in call[c].cur
  /\ file' = file \ {p}
  /\ torn' = IF p \in file /\ later THEN torn \cup {p} ELSE torn
  /\ Goto(c, "drop")
  /\ UNCHANGED <<tables, begun, faults, late, stray>>

Mut_DropUpload(c, i) ==   \* without the cascade
  LET users == Users(i.h, i.n) IN
  /\ call[c].pc = "drop" /\ i \in call[c].cur
  /\ Stored(i.h, i.n) /\ <<i.h, i.n>> \notin call[c].rm
  /\ ~UploadLocked(c, i.h, i.n) /\ \A a \in users : ~RowLocked(c, a)
  /\ IF InTx(c)
     THEN /\ NextItem(c, i, [gone |-> users, rm |-> {<<i.h, i.n>>}])
          /\ UNCHANGED <<up, att, stray>>
     ELSE /\ NextItem(c, i, Nothing)
          /\ up' = [up EXCEPT ![i.h].stored = FALSE]
          /\ UNCHANGED att
          /\ stray' = stray \ {i.h}
  /\ UNCHANGED <<avatar, file, begun, faults, late, torn>>
\* upload.delete; what refers to the upload by now is deleted with it.
DropUpload(c, i) ==
  LET users == Users(i.h, i.n) IN
  /\ call[c].pc = "drop" /\ i \in call[c].cur
  /\ Stored(i.h, i.n) /\ <<i.h, i.n>> \notin call[c].rm
  /\ ~UploadLocked(c, i.h, i.n) /\ \A a \in users : ~RowLocked(c, a)
  /\ IF InTx(c)
     THEN /\ NextItem(c, i, [gone |-> users, rm |-> {<<i.h, i.n>>}])
          /\ UNCHANGED <<up, att, stray>>
     ELSE /\ NextItem(c, i, Nothing)
          /\ up' = [up EXCEPT ![i.h].stored = FALSE]
          /\ att' = Remove(users)
          /\ stray' = stray \ {i.h}
  /\ UNCHANGED <<avatar, file, begun, faults, late, torn>>

\* The row is gone: the call fails and leaves the rest of its list.
DropRefused(c, i) ==
  /\ call[c].pc = "drop" /\ i \in call[c].cur
  /\ ~Stored(i.h, i.n) \/ <<i.h, i.n>> \in call[c].rm
  /\ ~UploadLocked(c, i.h, i.n)
  /\ Abandon({c}) /\ UNCHANGED faults

\* The deletion of a user takes all attachments it created, and nothing else.
DeleteCreator(ids) ==
  /\ ids # {} /\ \A a \in ids : Live(a) /\ \A d \in Calls : a \notin call[d].gone
  /\ att' = Remove(ids)
  /\ stray' = stray \cup Forgotten(ids, {})
  /\ UNCHANGED <<up, avatar, file, call, begun, faults, late, torn>>

-----------------------------------------------------------------------------
(* replaceAttachment                                                       *)

BeginReplace(c, a, h) ==
  LET i == Copy(a) IN
  /\ Begin(c) /\ Live(a)
  /\ h # i.h \/ att[a].dir # i.dir      \* otherwise nothing is left to do
  /\ call' = [call EXCEPT ![c] = [Idle EXCEPT !.op = "replace", !.pc = "write", !.h = h,
                                             !.dir = att[a].dir, !.a = a, !.cur = {i}]]
  /\ UNCHANGED <<tables, file, faults, history>>

\* attachment.update: on to what becomes of the old upload.
Repoint(c) ==
  LET me == call[c]
      a == me.a
  IN
  /\ me.pc = "repoint" /\ ~RowLocked(c, a) /\ ~UploadLocked(c, me.h, me.n)
  /\ Live(a) /\ Stored(me.h, me.n)
  /\ att' = [att EXCEPT ![a].h = me.h, ![a].n = me.n]
  \* Another call may have given it one in between.
  /\ stray' = (stray \ {me.h}) \cup Forgotten({a}, me.cur)
  /\ call' = [call EXCEPT ![c] = [Idle EXCEPT !.op = "delete", !.pc = "count", !.todo = me.cur]]
  /\ Joins(a, me.h, me.n)
  /\ UNCHANGED <<up, avatar, file, begun, faults, torn>>

\* upload.update: the same content, where the attachment's visibility wants it.
Move(c) ==
  LET me == call[c] IN
  /\ me.pc = "move" /\ ~UploadLocked(c, me.h, me.n)
  /\ \E i \in me.cur : Stored(i.h, i.n)
  /\ up' = [up EXCEPT ![me.h].dir = me.dir]
  /\ Finish(c)
  /\ UNCHANGED <<att, avatar, file, begun, faults, late, torn, stray>>

\* Either row is gone.
UpdateRefused(c) ==
  LET me == call[c] IN
  /\ \/ me.pc = "repoint" /\ ~RowLocked(c, me.a) /\ ~(Live(me.a) /\ Stored(me.h, me.n))
     \/ me.pc = "move" /\ \A i \in me.cur : ~Stored(i.h, i.n) /\ ~UploadLocked(c, i.h, i.n)
  /\ Abandon({c}) /\ UNCHANGED faults

-----------------------------------------------------------------------------
(* uploadAvatar                                                            *)

BeginAvatar(c, h) ==
  LET old == {a \in AttIds : Live(a) /\ att[a].biz = "avatar"} IN
  /\ Begin(c)
  /\ call' = [call EXCEPT ![c] = [Idle EXCEPT !.op = "avatar", !.h = h,
                                             !.todo = {Copy(a) : a \in old},
                                             !.pc = IF old = {} THEN "lookup" ELSE "remove"]]
  /\ UNCHANGED <<tables, file, faults, history>>

\* attachment.create, user.update, and the commit.
CommitAvatar(c, a) ==
  LET me == call[c]
      rm == {u[1] : u \in me.rm}
  IN
  /\ InTx(c) /\ me.pc = "attach" /\ ~UploadLocked(c, me.h, me.n)
  /\ Inserted(c) \/ Stored(me.h, me.n)
  /\ att[a].state = "new"
  /\ up' = [h \in Hashes |-> IF Inserted(c) /\ h = me.h
                             THEN [n |-> me.n, stored |-> TRUE, dir |-> me.dir]
                             ELSE [up[h] EXCEPT !.stored = @ /\ h \notin rm]]
  /\ att' = [Remove(me.gone) EXCEPT ![a] = [state |-> "live", h |-> me.h, n |-> me.n,
                                            dir |-> me.dir, biz |-> "avatar"]]
  /\ avatar' = a
  /\ stray' = stray \ (rm \cup {me.h})
  /\ Finish(c)
  /\ Joins(a, me.h, me.n)
  /\ UNCHANGED <<file, begun, faults, torn>>

-----------------------------------------------------------------------------
CallStep(c) ==
  \/ \E h \in Hashes, d \in Dirs : BeginCreate(c, h, d)
  \/ Lookup(c) \/ WriteFile(c) \/ InsertUpload(c) \/ InsertRefused(c) \/ AttachRefused(c)
  \/ \E a \in AttIds : Attach(c, a) \/ CommitAvatar(c, a)
  \/ \E ids \in SUBSET AttIds : BeginDelete(c, ids)
  \/ RemoveAttachments(c)
  \/ \E i \in call[c].todo : Count(c, i)
  \/ \E i \in call[c].cur : Unlink(c, i) \/ DropUpload(c, i) \/ DropRefused(c, i)
  \/ \E a \in AttIds, h \in Hashes : BeginReplace(c, a, h)
  \/ Repoint(c) \/ Move(c) \/ UpdateRefused(c)
  \/ \E h \in Hashes : BeginAvatar(c, h)
  \/ Fail(c) \/ RollBack(c)

Next ==
  \/ \E c \in Calls : CallStep(c)
  \/ \E ids \in SUBSET AttIds : DeleteCreator(ids)
  \/ Crash

Spec == Init /\ [][Next]_vars

-----------------------------------------------------------------------------
\* Types; and an attachment refers to an upload that is stored.
TypeOK ==
  /\ up \in [Hashes -> Upload]
  /\ att \in [AttIds -> Attachment]
  /\ \A a \in AttIds : Live(a) => \E h \in Hashes : h = att[a].h /\ Stored(h, att[a].n)
  /\ avatar \in AttIds \cup {NoAtt}
  /\ late \subseteq AttIds
  /\ file \subseteq Paths /\ torn \subseteq Paths /\ stray \subseteq Hashes
  /\ call \in [Calls -> Call]
  /\ begun \in 0..MaxCalls /\ faults \in 0..MaxFaults

\* An attachment has its file on disk, at the path its upload names (getFileAccess).  The
\* cases in which it has not: its upload is being deleted, and the attachment will go with
\* it; or the file is torn: unlinked by a call that then did not delete the row (it failed,
\* its process ended, its transaction was rolled back), or unlinked by its path although a
\* row for that path has since been inserted, or was about to be by a call that had written.
HasFile ==
  \A a \in AttIds : Live(a) =>
    LET h == att[a].h
        n == att[a].n
    IN \/ PathOf(h) \in file \cup torn
       \/ \E c \in Calls : \/ <<h, n>> \in call[c].rm
                           \/ call[c].pc = "drop" /\ \E i \in call[c].cur : i.h = h /\ i.n = n

\* A call that goes to delete an upload takes no attachment along but those that came after
\* it had counted none.
OnlyLatecomersGo ==
  \A c \in Calls : call[c].pc \in {"unlink", "drop"} =>
    \A i \in call[c].cur : Users(i.h, i.n) \ call[c].gone \subseteq late

\* The last attachment of an upload takes the upload with it: when no request is under way,
\* none is stored that no attachment refers to.  It stays only when it is stray: the call
\* that had to look at it ended early, two calls that deleted its last two attachments each
\* saw the other's because one was a transaction, another call had moved the attachment to
\* it since the call read it, or the deletion of a user removed the attachment.
UnusedIsRemoved ==
  (\A c \in Calls : call[c].pc = "idle") => \A h \in Hashes : Unused(h) => h \in stray
=============================================================================
