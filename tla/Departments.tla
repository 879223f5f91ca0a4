------------------------------ MODULE Departments ------------------------------
(***************************************************************************)
(* The departments of an organization, a tree kept as a parent in each     *)
(* row, and the department of each member.  Creating, moving and assigning *)
(* check first and write later; a deletion moves the children up, unassigns*)
(* the members and deletes the row, in one transaction of three statements,*)
(* and the database deletes what is still below (onDelete: Cascade).       *)
(***************************************************************************)
EXTENDS OrgTables

VARIABLES
  parent,   \* table Department: the parent of each, None: it has none
  lost,     \* history: children deleted with their parent
  late,     \* history: put under a department whose deletion had moved its children
  knotted   \* history: whether a row was put below itself, or moved by a stale parent

dvars == <<parent, lost, late, knotted>>

Row(d) == parent[d] \notin {New, Gone}
\* A parent that a row may name, by the foreign key.
Exists(p) == p \in {d \in DepartmentIds : Row(d)} \cup {None}

\* What can be reached from S along the edges from each x to next[x]: what is in all that
\* holds S and is closed under them.
Reach(S, next) ==
  {x \in DepartmentIds :
     \A T \in SUBSET DepartmentIds : S \subseteq T /\ (\A y \in T : next[y] \subseteq T) => x \in T}
\* The departments that d is below, and itself.
Above(d) == Reach({d}, [x \in DepartmentIds |-> {parent[x]} \cap DepartmentIds])

\* Deletions that have updated rows and not committed.
Open == {c \in Calls : call[c].pc \in {"unassign", "delete"}}
Mut_Moved(d) == {}
Moved(d) == {c \in Open : d \in call[c].kids}
Unassigned(m) == {c \in Calls : At(c, "delete") /\ m \in call[c].members}

\* d is put under p by c: the deletions of p it comes too late for.
Arrives(d, p) == late' = IF \E e \in Open : call[e].d = p THEN late \cup {d} ELSE late

DInit ==
  /\ parent \in [DepartmentIds -> DepartmentIds \cup {None, New}]
  /\ \A d \in DepartmentIds : Row(d) => Exists(parent[d]) /\ parent[d] # d
  /\ \A d \in DepartmentIds : Row(d) => \E x \in Above(d) : parent[x] = None
  /\ member \in [Members -> {d \in DepartmentIds : Row(d)} \cup {None}]
  /\ lost = {} /\ late = {} /\ knotted = FALSE

-----------------------------------------------------------------------------
\* createDepartment: the parent is looked up, then the row is inserted.
CreateLookup(c, p) ==
  /\ Exists(p)
  /\ Begin(c, [pc |-> "create", p |-> p])
  /\ UNCHANGED <<member, dvars>>

CreateInsert(c) ==
  LET p == call[c].p IN
  /\ At(c, "create")
  /\ End(c)
  /\ \/ /\ Exists(p)
        /\ \E d \in DepartmentIds :
             /\ parent[d] = New
             /\ parent' = [parent EXCEPT ![d] = p]
             /\ Arrives(d, p)
     \/ ~Exists(p) /\ UNCHANGED <<parent, late>>
  /\ UNCHANGED <<member, lost, knotted>>

\* updateDepartment with a parent: both are looked up, then the row is updated.
MoveLookup(c, d, p) ==
  /\ Row(d) /\ p # d /\ Exists(p)
  /\ Begin(c, [pc |-> "move", d |-> d, p |-> p])
  /\ UNCHANGED <<member, dvars>>

MoveUpdate(c) ==
  LET d == call[c].d
      p == call[c].p
      fits == Row(d) /\ Exists(p)
  IN
  /\ At(c, "move") /\ (Row(d) => Moved(d) = {})
  /\ End(c)
  /\ parent' = IF fits THEN [parent EXCEPT ![d] = p] ELSE parent
  /\ IF fits THEN Arrives(d, p) ELSE UNCHANGED late
  /\ knotted' = (knotted \/ (fits /\ p # None /\ d \in Above(p)))
  /\ UNCHANGED <<member, lost>>

\* updateMember and batchUpdateMembers: the department is looked up, then the rows are updated.
AssignLookup(c, M, d) ==
  /\ \A m \in M : In(m)
  /\ Exists(d)
  /\ Begin(c, [pc |-> "assign", members |-> M, d |-> d])
  /\ UNCHANGED <<member, dvars>>

AssignUpdate(c) ==
  LET M == {m \in call[c].members : In(m)}
      d == call[c].d
  IN
  /\ At(c, "assign") /\ \A m \in M : Unassigned(m) = {}
  /\ End(c)
  /\ member' = IF Exists(d) THEN [m \in Members |-> IF m \in M THEN d ELSE member[m]] ELSE member
  /\ UNCHANGED dvars

-----------------------------------------------------------------------------
(* deleteDepartment.                                                       *)

DeleteLookup(c, d) ==
  /\ Row(d)
  /\ Begin(c, [pc |-> "reparent", d |-> d, to |-> parent[d]])
  /\ UNCHANGED <<member, dvars>>

\* The rows stay locked until the transaction ends; a parent that has gone breaks the foreign key.
DeleteReparent(c) ==
  LET d == call[c].d
      kids == {k \in DepartmentIds : parent[k] = d}
  IN
  /\ At(c, "reparent") /\ \A k \in kids : Moved(k) = {}
  /\ IF kids = {} \/ Exists(call[c].to)
     THEN Continue(c, [pc |-> "unassign", d |-> d, to |-> call[c].to, kids |-> kids])
     ELSE End(c)
  /\ UNCHANGED <<member, dvars>>

DeleteUnassign(c) ==
  LET M == {m \in Members : member[m] = call[c].d} IN
  /\ At(c, "unassign") /\ \A m \in M : Unassigned(m) = {}
  /\ Continue(c, [pc |-> "delete", d |-> call[c].d, to |-> call[c].to, kids |-> call[c].kids,
                  members |-> M])
  /\ UNCHANGED <<member, dvars>>

\* The parents once the children have been moved.
Mut_Remaining(c) == parent
Remaining(c) == [k \in DepartmentIds |-> IF k \in call[c].kids THEN call[c].to ELSE parent[k]]

\* What goes with d then: onDelete of the parent.
Cascade(c) == Reach({call[c].d}, [x \in DepartmentIds |-> {y \in DepartmentIds : Remaining(c)[y] = x}])

\* Transactions whose locks the deletion waits for.
Blockers(c) ==
  {e \in Open \ {c} : \/ call[e].kids \cap Cascade(c) # {}
                      \/ call[e].kids # {} /\ call[e].to \in Cascade(c)}

DeleteCommit(c) ==
  LET d == call[c].d
      gone == Cascade(c)
  IN
  /\ At(c, "delete") /\ Row(d) /\ Blockers(c) = {}
  /\ parent' = [k \in DepartmentIds |-> IF k \in gone THEN Gone ELSE Remaining(c)[k]]
  /\ member' = [m \in Members |-> IF member[m] \in gone THEN None ELSE member[m]]
  /\ lost' = lost \cup {k \in gone \ {d} : Remaining(c)[k] = d}
  /\ knotted' = (knotted \/ (call[c].kids # {} /\ parent[d] # call[c].to))
  /\ late' = IF \E e \in Open \ {c} : call[e].d = call[c].to THEN late \cup call[c].kids ELSE late
  /\ End(c)

\* A statement fails, for the row has gone, a deadlock, or a timeout of a wait.
DeleteAbort(c) ==
  /\ call[c].pc \in {"reparent", "unassign", "delete"}
  /\ End(c)
  /\ UNCHANGED <<member, dvars>>

-----------------------------------------------------------------------------
DCall(c) ==
  \/ \E p \in DepartmentIds \cup {None} : CreateLookup(c, p) \/ \E d \in DepartmentIds : MoveLookup(c, d, p)
  \/ \E M \in SUBSET Members \ {{}}, d \in DepartmentIds \cup {None} : AssignLookup(c, M, d)
  \/ \E d \in DepartmentIds : DeleteLookup(c, d)
  \/ CreateInsert(c) \/ MoveUpdate(c) \/ AssignUpdate(c)
  \/ DeleteReparent(c) \/ DeleteUnassign(c) \/ DeleteCommit(c) \/ DeleteAbort(c)

-----------------------------------------------------------------------------
DTypeOK ==
  /\ parent \in [DepartmentIds -> DepartmentIds \cup {None, New, Gone}]
  /\ \A d \in DepartmentIds : Row(d) => Exists(parent[d])
  /\ \A m \in Members : In(m) => Exists(member[m])
  /\ lost \cup late \subseteq DepartmentIds /\ knotted \in BOOLEAN

\* Deleting a department keeps its children, but for those that were put under
\* it after the transaction had moved the others, and but for those of a knot: a
\* department that is its own parent moves its children to itself.
LostOnlyIfLate == knotted \/ lost \subseteq late

\* Every department is below a root, unless one was moved below itself, or one
\* was moved while its deletion still gave its children to its former parent.
TreeUnlessKnotted == knotted \/ \A d \in DepartmentIds : Row(d) => \E x \in Above(d) : parent[x] = None

\* "Department cannot be its own parent", the message of updateDepartment.
NotOwnParent == \A d \in DepartmentIds : parent[d] # d
=============================================================================
