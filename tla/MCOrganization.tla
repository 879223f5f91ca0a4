---------------------------- MODULE MCOrganization ----------------------------
(* Organization on a small instance.  Of the states that requests one after *)
(* another lead to, a behaviour starts in one that has departments, or in   *)
(* one that has positions.                                                  *)
EXTENDS Organization, TLC

MCInit ==
  /\ Init
  /\ \/ parent = [d \in DepartmentIds |-> New]
     \/ position = [p \in PositionIds |-> NoPosition]
MCSpec == MCInit /\ [][Next]_vars
Symmetry == Permutations(Calls) \cup Permutations(DepartmentIds) \cup Permutations(PositionIds)
            \cup Permutations(RoleIds) \cup Permutations(Codes)
=============================================================================
