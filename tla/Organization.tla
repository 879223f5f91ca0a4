----------------------------- MODULE Organization -----------------------------
(***************************************************************************)
(* Departments and positions of one organization, and the members they     *)
(* both refer to.                                                          *)
(***************************************************************************)
EXTENDS Departments, Positions

vars == <<shared, dvars, pvars>>

Init ==
  /\ DInit /\ PInit
  /\ call = [c \in Calls |-> Idle] /\ started = 0

\* removeMember: not an owner; the positions of the member go, its assignments stay.
RemoveMember(m) ==
  /\ Request /\ In(m) /\ m \notin Owners /\ Unassigned(m) = {}
  /\ member' = [member EXCEPT ![m] = Gone]
  /\ holds' = {h \in holds : h[1] # m}
  /\ excused' = excused \cup {m} \X RoleIds
  /\ UNCHANGED <<call, dvars, position, role, grants, stray, skewed>>

Next ==
  \/ (\E c \in Calls : DCall(c)) /\ UNCHANGED pvars
  \/ PNext /\ UNCHANGED dvars
  \/ \E m \in Members : RemoveMember(m)

Spec == Init /\ [][Next]_vars

\* The tables have the shape the schema gives them, and every foreign key holds.
TypeOK ==
  /\ member \in [Members -> DepartmentIds \cup {None, Gone}]
  /\ DOMAIN call = Calls /\ started \in 0..MaxCalls
  /\ Owners \subseteq {m \in Members : In(m)}
  /\ DTypeOK /\ PTypeOK
=============================================================================
