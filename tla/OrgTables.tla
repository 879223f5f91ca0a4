------------------------------- MODULE OrgTables -------------------------------
(***************************************************************************)
(* What the services of one organization share: its members, and the       *)
(* requests under way.  A request reads, awaits, and then writes in one    *)
(* statement or transaction at Read Committed.                             *)
(***************************************************************************)
EXTENDS Integers, FiniteSets

CONSTANTS
  Calls,          \* bound: requests at a time
  MaxCalls,       \* bound: requests
  Members,
  Owners,         \* the members who hold the owner role
  DepartmentIds,
  None

New == "new"     \* an id that is not in use yet
Gone == "gone"   \* an id whose row has been deleted

ASSUME OrgAssumption ==
  /\ MaxCalls \in Nat /\ Owners \subseteq Members
  /\ None \notin DepartmentIds /\ {New, Gone} \cap (DepartmentIds \cup {None}) = {}

VARIABLES
  member,   \* table Member: the department of each, Gone: removed
  call,     \* per request, what it has read or written
  started   \* how many requests there were

shared == <<member, call, started>>

Idle == [pc |-> "idle"]

In(m) == member[m] # Gone
At(c, pc) == call[c].pc = pc
Finish(c) == call' = [call EXCEPT ![c] = Idle]

Request == started < MaxCalls /\ started' = started + 1
\* A request of several steps begins with state s; one of a single step needs no call.
Begin(c, s) == At(c, "idle") /\ Request /\ call' = [call EXCEPT ![c] = s]
Continue(c, s) == call' = [call EXCEPT ![c] = s] /\ UNCHANGED started
End(c) == Finish(c) /\ UNCHANGED started
=============================================================================
