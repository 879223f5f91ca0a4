------------------------------- MODULE Positions -------------------------------
(***************************************************************************)
(* The positions of an organization.  A position has a role from the first *)
(* time it is given permissions, and who is given the position is granted  *)
(* its role, so the tables MemberPosition and RoleAssignment say the same  *)
(* thing twice, and so do the codes of a position and of its role.         *)
(***************************************************************************)
EXTENDS OrgTables

CONSTANTS
  PositionIds,
  RoleIds,
  Codes        \* codes of positions; the role of code k has the code position-k

Other == "other"   \* codes that are no position's
RoleCodes == Codes \cup {Other}

ASSUME PositionsAssumption == None \notin RoleIds \cup PositionIds /\ {New, Gone} \cap Codes = {}

VARIABLES
  position,  \* table Position: whether there is a row, its code and its role
  role,      \* table Role, the roles made for positions: the code of each, New, or Gone
  holds,     \* table MemberPosition
  grants,    \* table RoleAssignment, in the scope of the organization
  excused,   \* history: pairs of a member and a role that need not agree with holds
  stray,     \* history: roles that a position has lost
  skewed     \* history: roles made or left with a code that was read too early, or
             \* given one by updateRole

pvars == <<position, role, holds, grants, excused, stray, skewed>>
history == <<excused, stray, skewed>>

NoPosition == [row |-> New, code |-> None, role |-> None]
Position == [row: {New, "row", Gone}, code: Codes \cup {None}, role: RoleIds \cup {None}]

Here(p) == position[p].row = "row"
IsRole(r) == role[r] \in RoleCodes
\* By another position than p, by another role than r.
Taken(code, p) == \E q \in PositionIds \ {p} : Here(q) /\ position[q].code = code
RoleTaken(code, r) == \E s \in RoleIds \ {r} : role[s] = code
RolesOf(P) == {position[p].role : p \in P} \ {None}
Held(m) == {p \in PositionIds : <<m, p>> \in holds}
\* setMemberPositions of m, once it has read what m holds.
Setting(m) == {c \in Calls : call[c].pc \in {"new", "clear", "set"} /\ call[c].m = m}

PInit ==
  /\ position \in [PositionIds -> {NoPosition} \cup
                     [row: {"row"}, code: Codes, role: RoleIds \cup {None}]]
  /\ \A p, q \in PositionIds : p # q /\ Here(p) /\ Here(q) =>
       /\ position[p].code # position[q].code
       /\ position[p].role = None \/ position[p].role # position[q].role
  /\ role = [r \in RoleIds |-> IF \E p \in PositionIds : position[p].role = r
                               THEN (CHOOSE q \in {position[p] : p \in PositionIds} : q.role = r).code ELSE New]
  /\ holds \in SUBSET ({m \in Members : In(m)} \X {p \in PositionIds : Here(p)})
  /\ grants = UNION {{h[1]} \X RolesOf({h[2]}) : h \in holds}
  /\ excused = {} /\ stray = {} /\ skewed = {}

-----------------------------------------------------------------------------
\* createPosition
CreatePosition(code) ==
  /\ Request /\ ~Taken(code, None)
  /\ \E p \in PositionIds :
       /\ position[p].row = New
       /\ position' = [position EXCEPT ![p] = [row |-> "row", code |-> code, role |-> None]]
  /\ UNCHANGED <<member, call, role, holds, grants, history>>

\* updatePosition with a code: the row is read, and a new code looked up.
RenameLookup(c, p, code) ==
  /\ Here(p) /\ ~Taken(code, p)
  /\ Begin(c, [pc |-> "rename", p |-> p, code |-> code, role |-> position[p].role])
  /\ UNCHANGED <<member, pvars>>

\* The role of a position is renamed with it.
Mut_RenamedRole(r, code) == role
RenamedRole(r, code) == IF r = None THEN role ELSE [role EXCEPT ![r] = code]

\* Both codes change, or neither: a row that has gone or a code that is taken ends the transaction.
RenameCommit(c) ==
  LET p == call[c].p
      code == call[c].code
      r == call[c].role
      fits == Here(p) /\ ~Taken(code, p) /\ (r # None => IsRole(r) /\ ~RoleTaken(code, r))
  IN
  /\ At(c, "rename")
  /\ End(c)
  /\ position' = IF fits THEN [position EXCEPT ![p].code = code] ELSE position
  /\ role' = IF fits THEN RenamedRole(r, code) ELSE role
  /\ skewed' = IF fits /\ r # position[p].role THEN skewed \cup RolesOf({p}) ELSE skewed
  /\ UNCHANGED <<member, holds, grants, excused, stray>>

\* deletePosition: the row is read, then it and the role it had then are deleted.
DeletePositionLookup(c, p) ==
  /\ Here(p)
  /\ Begin(c, [pc |-> "drop", p |-> p, role |-> position[p].role])
  /\ UNCHANGED <<member, pvars>>

\* The role goes with the position.
Mut_RoleDropped(r) == role
RoleDropped(r) == IF r = None THEN role ELSE [role EXCEPT ![r] = Gone]

DeletePositionCommit(c) ==
  LET p == call[c].p
      r == call[c].role
      fits == Here(p) /\ (r # None => IsRole(r))
  IN
  /\ At(c, "drop")
  /\ End(c)
  /\ IF fits
     THEN /\ position' = [position EXCEPT ![p] = [NoPosition EXCEPT !.row = Gone]]
          /\ role' = RoleDropped(r)
          /\ holds' = {h \in holds : h[2] # p}
          /\ grants' = {g \in grants : g[2] # r}
          /\ stray' = stray \cup (RolesOf({p}) \ {r})
     ELSE UNCHANGED <<position, role, holds, grants, stray>>
  /\ UNCHANGED <<member, excused, skewed>>

-----------------------------------------------------------------------------
(* setMemberPositions: four reads and a transaction.                       *)

SetLookup(c, m, P) ==
  /\ In(m) /\ \A p \in P : Here(p)
  /\ Begin(c, [pc |-> "current", m |-> m, P |-> P])
  /\ UNCHANGED <<member, pvars>>

SetReadCurrent(c) ==
  /\ At(c, "current")
  /\ Continue(c, [pc |-> "new", m |-> call[c].m, P |-> call[c].P, old |-> RolesOf(Held(call[c].m))])
  /\ UNCHANGED <<member, pvars>>

\* removedRoleIds
Mut_Removed(old, roles) == {}
Removed(old, roles) == old \ roles

SetReadNew(c) ==
  /\ At(c, "new")
  /\ LET roles == RolesOf({p \in call[c].P : Here(p)}) IN
     Continue(c, [pc |-> "clear", m |-> call[c].m, P |-> call[c].P,
                  removed |-> Removed(call[c].old, roles), added |-> roles \ call[c].old])
  /\ UNCHANGED <<member, pvars>>

\* deleteMany: the rows it has seen, those of another transaction not among them.
SetClear(c) ==
  /\ At(c, "clear")
  /\ Continue(c, [pc |-> "set", m |-> call[c].m, P |-> call[c].P, removed |-> call[c].removed,
                  added |-> call[c].added, seen |-> Held(call[c].m)])
  /\ UNCHANGED <<member, pvars>>

\* The rest; a row that is there already, or that names one that has gone, ends it.
SetCommit(c) ==
  LET m == call[c].m
      kept == Held(m) \ call[c].seen
      fits == /\ In(m) /\ \A p \in call[c].P : Here(p)
              /\ call[c].P \cap kept = {}
              /\ \A r \in call[c].added : IsRole(r)
  IN
  /\ At(c, "set") /\ UNCHANGED started
  /\ call' = [e \in Calls |-> IF e = c THEN Idle
                              ELSE IF fits /\ At(e, "set") /\ call[e].m = m
                                   THEN [call[e] EXCEPT !.seen = @ \ call[c].seen] ELSE call[e]]
  /\ IF fits
     THEN /\ holds' = {h \in holds : h[1] # m} \cup {m} \X (kept \cup call[c].P)
          /\ grants' = (grants \ ({m} \X call[c].removed)) \cup {m} \X call[c].added
          /\ excused' = IF Setting(m) # {c} THEN excused \cup {m} \X RoleIds ELSE excused
     ELSE UNCHANGED <<holds, grants, excused>>
  /\ UNCHANGED <<member, position, role, stray, skewed>>

SetAbort(c) ==
  /\ At(c, "set")
  /\ End(c)
  /\ UNCHANGED <<member, pvars>>

-----------------------------------------------------------------------------
\* setPositionPermissions: the row is read, and the permissions are looked up.
PermitLookup(c, p) ==
  /\ Here(p)
  /\ Begin(c, [pc |-> "permit", p |-> p, code |-> position[p].code, role |-> position[p].role])
  /\ UNCHANGED <<member, pvars>>

\* A position without a role is given one.  (Which permissions a role has is left out.)
PermitCommit(c) ==
  LET p == call[c].p
      code == call[c].code
  IN
  /\ At(c, "permit")
  /\ End(c)
  /\ \/ /\ call[c].role = None /\ Here(p) /\ ~RoleTaken(code, None)
        /\ \E r \in RoleIds :
             /\ role[r] = New
             /\ role' = [role EXCEPT ![r] = code]
             /\ position' = [position EXCEPT ![p].role = r]
             /\ excused' = excused \cup {m \in Members : p \in Held(m) \/ \E e \in Setting(m) : p \in call[e].P} \X {r}
             /\ skewed' = IF code # position[p].code THEN skewed \cup {r} ELSE skewed
        /\ stray' = stray \cup RolesOf({p})
     \/ /\ call[c].role # None \/ ~Here(p) \/ RoleTaken(code, None)
        /\ UNCHANGED <<role, position, excused, skewed, stray>>
  /\ UNCHANGED <<member, holds, grants>>

-----------------------------------------------------------------------------
(* The administration of roles and assignments, which knows no positions.  *)

\* assignRole, userRoleRepository.assign, userRoleRepository.remove
AssignRole(m, r) ==
  /\ Request /\ IsRole(r)
  /\ \/ grants' = grants \cup {<<m, r>>}
     \/ grants' = grants \ {<<m, r>>}
  /\ excused' = excused \cup {<<m, r>>}
  /\ UNCHANGED <<member, call, position, role, holds, stray, skewed>>

\* updateRole with a code: a position's role has no flag that forbids it.
UpdateRole(r, code) ==
  /\ Request /\ IsRole(r)
  /\ code = Other \/ ~RoleTaken(code, r)
  /\ role' = [role EXCEPT ![r] = code]
  /\ skewed' = skewed \cup {r}
  /\ UNCHANGED <<member, call, position, holds, grants, excused, stray>>

\* deleteRole: position.roleId is set to null, the assignments go.
Mut_DeleteRole(r) ==
  /\ Request /\ IsRole(r)
  /\ role' = [role EXCEPT ![r] = Gone]
  /\ grants' = {g \in grants : g[2] # r}
  /\ UNCHANGED <<member, call, position, holds, history>>
DeleteRole(r) ==
  /\ Request /\ IsRole(r)
  /\ role' = [role EXCEPT ![r] = Gone]
  /\ grants' = {g \in grants : g[2] # r}
  /\ position' = [p \in PositionIds |-> IF position[p].role = r THEN [position[p] EXCEPT !.role = None] ELSE position[p]]
  /\ UNCHANGED <<member, call, holds, history>>

-----------------------------------------------------------------------------
PCall(c) ==
  \/ \E p \in PositionIds : DeletePositionLookup(c, p) \/ PermitLookup(c, p) \/ \E code \in Codes : RenameLookup(c, p, code)
  \/ \E m \in Members, P \in SUBSET PositionIds : SetLookup(c, m, P)
  \/ RenameCommit(c) \/ DeletePositionCommit(c) \/ PermitCommit(c)
  \/ SetReadCurrent(c) \/ SetReadNew(c) \/ SetClear(c) \/ SetCommit(c) \/ SetAbort(c)

PNext ==
  \/ \E c \in Calls : PCall(c)
  \/ \E code \in Codes : CreatePosition(code)
  \/ \E r \in RoleIds : \/ DeleteRole(r)
                        \/ \E m \in Members : AssignRole(m, r)
                        \/ \E code \in RoleCodes : UpdateRole(r, code)

-----------------------------------------------------------------------------
PTypeOK ==
  /\ position \in [PositionIds -> Position]
  /\ role \in [RoleIds -> {New, Gone} \cup RoleCodes]
  /\ holds \subseteq {m \in Members : In(m)} \X {p \in PositionIds : Here(p)}
  /\ grants \subseteq Members \X {r \in RoleIds : IsRole(r)}
  /\ \A r \in RolesOf(PositionIds) : IsRole(r)
  /\ excused \subseteq Members \X RoleIds /\ stray \cup skewed \subseteq RoleIds

\* A role made for a position is the role of a position, and goes with it.  Two
\* races break this: a role that is made while the position is deleted, and one
\* made twice because the code of the position, or of its role, changed in between.
RolesHaveOwners ==
  \A r \in RoleIds : IsRole(r) => r \in stray \cup RolesOf(PositionIds)

\* The code of a role is that of its position, so that the role of another
\* position never takes its place, except: a position that is renamed while its
\* role is made leaves the role with the old code, or gives it that; and
\* updateRole, which knows no positions, gave the role a code of its own.
CodesAgree ==
  \A p \in PositionIds, r \in RoleIds : position[p].role = r => r \in skewed \/ role[r] = position[p].code

\* A member is granted the role of a position exactly if it holds the position,
\* except: the role was made while the member held the position, or while it was
\* being set (the role is not granted, nor is it when the positions are set
\* again); two requests set the positions of the member at a time; the
\* assignment was made or removed by hand; the member was removed, which leaves
\* the assignments.
GrantsFollow ==
  \A p \in PositionIds, r \in RoleIds, m \in Members :
    position[p].role = r /\ <<m, r>> \notin excused => (<<m, r>> \in grants <=> <<m, p>> \in holds)
=============================================================================
