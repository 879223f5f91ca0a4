--------------------------- MODULE OrganizationProofs ---------------------------
(***************************************************************************)
(* What holds of departments, positions and their roles for any members,   *)
(* departments, positions, roles and requests, whatever interleaves.       *)
(***************************************************************************)
EXTENDS Organization, TLAPS

-----------------------------------------------------------------------------
(* The invariant.                                                          *)

\* A row has a code, and no role without a row; a role has one position
\* (roleId is unique).
RowsSound ==
  /\ PTypeOK
  /\ \A p \in PositionIds : Here(p) => position[p].code \in Codes
  /\ \A p \in PositionIds : ~Here(p) => position[p].role = None
  /\ \A p, q \in PositionIds : position[p].role = position[q].role => p = q \/ position[p].role = None

ByRole == {"rename", "drop", "permit"}   \* requests that hold a role read with its position
InSet == {"new", "clear", "set"}         \* setMemberPositions after its first read of roles

\* What requests hold.
SetCall == [pc: {"set"}, m: Members, P: SUBSET PositionIds,
            removed: SUBSET RoleIds, added: SUBSET RoleIds, seen: SUBSET PositionIds]
CallsSound ==
  /\ DOMAIN call = Calls
  /\ \A c \in Calls :
       /\ call[c].pc \in ByRole => call[c].p \in PositionIds /\ call[c].role \in RoleIds \cup {None}
       /\ call[c].pc \in {"rename", "permit"} => call[c].code \in Codes
       /\ call[c].pc \in InSet \cup {"current"} => call[c].m \in Members /\ call[c].P \subseteq PositionIds
       /\ call[c].pc = "new" => call[c].old \subseteq RoleIds
       /\ call[c].pc = "clear" => call[c].removed \subseteq RoleIds /\ call[c].added \subseteq RoleIds
       /\ call[c].pc = "set" => call[c] \in SetCall

\* A role never goes to another position: a request that holds one, read with
\* its position, holds nobody else's.
RolesStay ==
  \A c \in Calls : call[c].pc \in ByRole /\ call[c].role # None =>
    /\ role[call[c].role] # New
    /\ \A q \in PositionIds : position[q].role = call[c].role => q = call[c].p

\* setMemberPositions has read what still is so of every role that is not excused.
SetsKnow ==
  \A c \in Calls : call[c].pc \in InSet =>
    \A p \in PositionIds, r \in RoleIds :
      position[p].role = r /\ <<call[c].m, r>> \notin excused =>
        /\ call[c].pc = "new" => (r \in call[c].old <=> <<call[c].m, p>> \in holds)
        /\ call[c].pc \in {"clear", "set"} =>
             /\ r \in call[c].removed <=> <<call[c].m, p>> \in holds /\ p \notin call[c].P
             /\ r \in call[c].added <=> <<call[c].m, p>> \notin holds /\ p \in call[c].P
\* It has read no role that is still to be made.
SetsAreOld ==
  \A c \in Calls, r \in RoleIds : role[r] = New =>
    /\ call[c].pc = "new" => r \notin call[c].old
    /\ call[c].pc \in {"clear", "set"} => r \notin call[c].removed \cup call[c].added
\* It replaces all rows of its member, unless another request does so as well.
SetsReplace ==
  \A c \in Calls : call[c].pc = "set" =>
    \/ Held(call[c].m) \subseteq call[c].seen
    \/ \A r \in RoleIds : <<call[c].m, r>> \in excused

Sound == RowsSound /\ CallsSound /\ RolesStay
Agreeing == SetsKnow /\ SetsAreOld /\ SetsReplace /\ GrantsFollow

-----------------------------------------------------------------------------
(* Facts about rows and requests.                                          *)

\* A position with a role is there, and its role is too.
LEMMA RoleOfRow ==
  ASSUME RowsSound, NEW p \in PositionIds, position[p].role # None
  PROVE  Here(p) /\ position[p].role \in RoleIds /\ IsRole(position[p].role)
  <1>1. position[p].role \in RoleIds
    BY DEF RowsSound, PTypeOK, Position
  <1>2. position[p].role \in RolesOf(PositionIds)
    BY DEF RolesOf
  <1>3. QED
    BY <1>1, <1>2 DEF RowsSound, PTypeOK

\* A role is of one position.
LEMMA OneRole ==
  ASSUME RowsSound, NEW p \in PositionIds, NEW r \in RoleIds, position[p].role = r,
         NEW P \in SUBSET PositionIds
  PROVE  r \in RolesOf(P) <=> p \in P
  BY PositionsAssumption DEF RowsSound, RolesOf

LEMMA Codeless == /\ New \notin RoleCodes /\ Gone \notin RoleCodes /\ None \notin RoleIds
                  /\ New # Gone /\ Codes \subseteq RoleCodes
  BY PositionsAssumption DEF New, Gone, Other, RoleCodes

\* A step of one request.
LEMMA CallStep ==
  ASSUME CallsSound, NEW c \in Calls, NEW s, call' = [call EXCEPT ![c] = s]
  PROVE  /\ DOMAIN call' = Calls /\ call'[c] = s
         /\ \A e \in Calls \ {c} : call'[e] = call[e]
  BY DEF CallsSound

\* A request whose new state holds nothing, or what it should.
Quiet(c) == call'[c].pc \notin ByRole \cup InSet \cup {"current"}
Stepped(c) ==
  /\ DOMAIN call' = Calls
  /\ \A e \in Calls \ {c} : call'[e] = call[e]

\* What a department step does to members and requests.
LEMMA DepartmentStep ==
  ASSUME CallsSound, NEW c \in Calls, DCall(c)
  PROVE  /\ Stepped(c) /\ Quiet(c)
         /\ \A m \in Members : In(m) => In(m)'
  <1> USE DEF Begin, Continue, End, Finish, Idle, Quiet, Stepped, ByRole, InSet
  <1>1. ASSUME NEW p \in DepartmentIds \cup {None}, CreateLookup(c, p)
        PROVE  Stepped(c) /\ Quiet(c) /\ member' = member
    BY <1>1, CallStep DEF CreateLookup
  <1>2. ASSUME NEW p \in DepartmentIds \cup {None}, NEW d \in DepartmentIds, MoveLookup(c, d, p)
        PROVE  Stepped(c) /\ Quiet(c) /\ member' = member
    BY <1>2, CallStep DEF MoveLookup
  <1>3. ASSUME NEW M \in SUBSET Members, NEW d \in DepartmentIds \cup {None}, AssignLookup(c, M, d)
        PROVE  Stepped(c) /\ Quiet(c) /\ member' = member
    BY <1>3, CallStep DEF AssignLookup
  <1>4. ASSUME NEW d \in DepartmentIds, DeleteLookup(c, d)
        PROVE  Stepped(c) /\ Quiet(c) /\ member' = member
    BY <1>4, CallStep DEF DeleteLookup
  <1>5. ASSUME CreateInsert(c) PROVE Stepped(c) /\ Quiet(c) /\ member' = member
    BY <1>5, CallStep DEF CreateInsert
  <1>6. ASSUME MoveUpdate(c) PROVE Stepped(c) /\ Quiet(c) /\ member' = member
    BY <1>6, CallStep DEF MoveUpdate
  <1>7. ASSUME AssignUpdate(c)
        PROVE  Stepped(c) /\ Quiet(c) /\ \A m \in Members : In(m) => In(m)'
    <2>1. Stepped(c) /\ Quiet(c)
      BY <1>7, CallStep DEF AssignUpdate
    <2>2. ASSUME NEW m \in Members, In(m) PROVE In(m)'
      BY <1>7, <2>2, OrgAssumption DEF AssignUpdate, Exists, In
    <2>3. QED
      BY <2>1, <2>2
  <1>8. ASSUME DeleteReparent(c) PROVE Stepped(c) /\ Quiet(c) /\ member' = member
    BY <1>8, CallStep DEF DeleteReparent
  <1>9. ASSUME DeleteUnassign(c) PROVE Stepped(c) /\ Quiet(c) /\ member' = member
    BY <1>9, CallStep DEF DeleteUnassign
  <1>10. ASSUME DeleteCommit(c)
         PROVE  Stepped(c) /\ Quiet(c) /\ \A m \in Members : In(m) => In(m)'
    <2>1. Stepped(c) /\ Quiet(c)
      BY <1>10, CallStep DEF DeleteCommit
    <2>2. ASSUME NEW m \in Members, In(m) PROVE In(m)'
      BY <1>10, <2>2, OrgAssumption DEF DeleteCommit, In
    <2>3. QED
      BY <2>1, <2>2
  <1>11. ASSUME DeleteAbort(c) PROVE Stepped(c) /\ Quiet(c) /\ member' = member
    BY <1>11, CallStep DEF DeleteAbort
  <1>12. member' = member => \A m \in Members : In(m) => In(m)'
    BY DEF In
  <1>13. QED
    BY ONLY DCall(c), <1>1, <1>2, <1>3, <1>4, <1>5, <1>6, <1>7, <1>8, <1>9, <1>10, <1>11, <1>12 DEF DCall

-----------------------------------------------------------------------------
(* Rows, requests and the roles they hold.                                 *)

LEMMA InitSound == Init => Sound
  <1> SUFFICES ASSUME Init PROVE Sound
    OBVIOUS
  <1>1. position \in [PositionIds -> Position]
    BY DEF Init, PInit, Position, NoPosition
  <1>2. \A p, q \in PositionIds : position[p].role = position[q].role => p = q \/ position[p].role = None
    BY <1>1, Codeless DEF Init, PInit, Here, NoPosition
  <1>3. \A p \in PositionIds : position[p].role # None => Here(p) /\ position[p].code \in Codes
    BY Codeless DEF Init, PInit, Here, NoPosition
  <1>4. ASSUME NEW r \in RoleIds
        PROVE  /\ role[r] \in {New} \cup Codes
               /\ \A p \in PositionIds : position[p].role = r => role[r] = position[p].code
    <2> DEFINE q == CHOOSE q \in {position[p] : p \in PositionIds} : q.role = r
    <2>1. CASE \E p \in PositionIds : position[p].role = r
      <3>1. q \in {position[p] : p \in PositionIds} /\ q.role = r
        BY <2>1
      <3>2. PICK p \in PositionIds : q = position[p]
        BY <3>1
      <3>3. role[r] = q.code
        BY <2>1 DEF Init, PInit
      <3>4. position[p].role # None
        BY <3>1, <3>2, Codeless
      <3>5. role[r] = position[p].code /\ role[r] \in Codes
        BY <3>2, <3>3, <3>4, <1>3
      <3>6. \A o \in PositionIds : position[o].role = r => o = p
        BY <3>1, <3>2, <3>4, <1>2
      <3>7. QED
        BY <3>5, <3>6
    <2>2. CASE ~ \E p \in PositionIds : position[p].role = r
      BY <2>2 DEF Init, PInit
    <2>3. QED
      BY <2>1, <2>2
  <1>5. role \in [RoleIds -> {New, Gone} \cup RoleCodes]
    BY <1>4, Codeless DEF Init, PInit
  <1>6. \A r \in RolesOf(PositionIds) : r \in RoleIds /\ IsRole(r)
    <2> SUFFICES ASSUME NEW p \in PositionIds, position[p].role # None
                 PROVE  position[p].role \in RoleIds /\ IsRole(position[p].role)
      BY DEF RolesOf
    <2>1. position[p].role \in RoleIds
      BY <1>1 DEF Position
    <2>2. QED
      BY <2>1, <1>3, <1>4, Codeless DEF IsRole
  <1>7. holds \subseteq {m \in Members : In(m)} \X {p \in PositionIds : Here(p)}
    BY DEF Init, PInit
  <1>8. grants \subseteq Members \X {r \in RoleIds : IsRole(r)}
    <2> SUFFICES ASSUME NEW h \in holds
                 PROVE  {h[1]} \X RolesOf({h[2]}) \subseteq Members \X {r \in RoleIds : IsRole(r)}
      BY DEF Init, PInit
    <2>1. h[1] \in Members /\ h[2] \in PositionIds
      BY <1>7
    <2>2. RolesOf({h[2]}) \subseteq RolesOf(PositionIds)
      BY <2>1 DEF RolesOf
    <2>3. QED
      BY <2>1, <2>2, <1>6
  <1>9. PTypeOK
    BY <1>1, <1>5, <1>6, <1>7, <1>8 DEF PTypeOK, Init, PInit
  <1>10. RowsSound
    <2>1. \A p \in PositionIds : /\ Here(p) => position[p].code \in Codes
                                 /\ ~Here(p) => position[p].role = None
      BY Codeless DEF Init, PInit, Here, NoPosition, New
    <2>2. QED
      BY <2>1, <1>2, <1>9 DEF RowsSound
  <1>11. CallsSound /\ RolesStay
    BY DEF Init, CallsSound, RolesStay, Idle, ByRole, InSet
  <1>12. QED
    BY <1>10, <1>11 DEF Sound

\* Steps that leave positions, roles and assignments as they are.
LEMMA RowsUnchanged ==
  ASSUME RowsSound, UNCHANGED pvars, \A m \in Members : In(m) => In(m)'
  PROVE  RowsSound'
  <1> USE DEF pvars
  <1>1. \A p \in PositionIds : Here(p)' <=> Here(p)
    BY DEF Here
  <1>2. \A r \in RoleIds : IsRole(r)' <=> IsRole(r)
    BY DEF IsRole
  <1>3. RolesOf(PositionIds)' = RolesOf(PositionIds)
    BY DEF RolesOf
  <1>4. (\A r \in RolesOf(PositionIds) : IsRole(r))'
    BY <1>3 DEF RowsSound, PTypeOK, IsRole
  <1>5. (stray \cup skewed \subseteq RoleIds /\ excused \subseteq Members \X RoleIds)'
    BY DEF RowsSound, PTypeOK
  <1>6. (position \in [PositionIds -> Position] /\ role \in [RoleIds -> {New, Gone} \cup RoleCodes])'
    BY DEF RowsSound, PTypeOK
  <1>7. (holds \subseteq {m \in Members : In(m)} \X {p \in PositionIds : Here(p)})'
    BY <1>1 DEF RowsSound, PTypeOK
  <1>8. (grants \subseteq Members \X {r \in RoleIds : IsRole(r)})'
    BY <1>2 DEF RowsSound, PTypeOK
  <1>9. PTypeOK'
    BY <1>4, <1>5, <1>6, <1>7, <1>8 DEF PTypeOK
  <1>10. QED
    BY <1>1, <1>9 DEF RowsSound

\* A request takes a step, and holds only what it should.
LEMMA CallsSteppedSound ==
  ASSUME CallsSound, NEW c \in Calls, Stepped(c), Quiet(c)
  PROVE  CallsSound'
  BY DEF CallsSound, Stepped, Quiet, ByRole, InSet

LEMMA RolesStayStepped ==
  ASSUME RolesStay, NEW c \in Calls, Stepped(c), call'[c].pc \notin ByRole, UNCHANGED pvars
  PROVE  RolesStay'
  BY DEF RolesStay, Stepped, pvars

\* A request of several steps: what it reads and what it keeps for later.
LEMMA LookupSound ==
  ASSUME Sound, NEW c \in Calls,
         \E p \in PositionIds : \/ DeletePositionLookup(c, p) \/ PermitLookup(c, p)
                                \/ \E code \in Codes : RenameLookup(c, p, code)
  PROVE  Sound' /\ UNCHANGED <<member, pvars>> /\ Stepped(c) /\ call'[c].pc \notin InSet
  <1>1. PICK p \in PositionIds :
          \/ DeletePositionLookup(c, p) \/ PermitLookup(c, p)
          \/ \E code \in Codes : RenameLookup(c, p, code)
    OBVIOUS
  <1>2. /\ UNCHANGED <<member, pvars>> /\ Stepped(c) /\ Here(p)
        /\ call'[c].pc \in ByRole /\ call'[c].p = p /\ call'[c].role = position[p].role
        /\ call'[c].pc = "permit" => call'[c].code = position[p].code
        /\ call'[c].pc = "rename" => call'[c].code \in Codes
    <2>1. CASE DeletePositionLookup(c, p)
      BY <2>1, CallStep DEF DeletePositionLookup, Begin, Stepped, ByRole, Sound
    <2>2. CASE PermitLookup(c, p)
      BY <2>2, CallStep DEF PermitLookup, Begin, Stepped, ByRole, Sound
    <2>3. ASSUME NEW code \in Codes, RenameLookup(c, p, code)
          PROVE  /\ UNCHANGED <<member, pvars>> /\ Stepped(c) /\ Here(p)
                 /\ call'[c].pc = "rename" /\ call'[c].p = p /\ call'[c].role = position[p].role
                 /\ call'[c].code \in Codes
      BY <2>3, CallStep DEF RenameLookup, Begin, Stepped, Sound
    <2>4. QED
      BY <1>1, <2>1, <2>2, <2>3 DEF ByRole
  <1>3. position[p].role \in RoleIds \cup {None}
    BY RoleOfRow DEF Sound
  <1>4. RowsSound'
    BY <1>2, RowsUnchanged DEF In, Sound
  <1>5. CallsSound'
    <2>1. position[p].code \in Codes
      BY <1>2 DEF Sound, RowsSound
    <2>2. QED
      BY <1>2, <1>3, <2>1 DEF Sound, CallsSound, Stepped, ByRole, InSet
  <1>6. RolesStay'
    <2>1. position[p].role # None =>
            /\ role[position[p].role] # New
            /\ \A q \in PositionIds : position[q].role = position[p].role => q = p
      BY RoleOfRow, Codeless DEF Sound, RowsSound, IsRole
    <2>2. QED
      BY <1>2, <2>1 DEF Sound, RolesStay, Stepped, pvars
  <1>7. QED
    BY <1>2, <1>4, <1>5, <1>6 DEF Sound, ByRole, InSet

LEMMA SetStepSound ==
  ASSUME Sound, NEW c \in Calls,
         \/ \E m \in Members, P \in SUBSET PositionIds : SetLookup(c, m, P)
         \/ SetReadCurrent(c) \/ SetReadNew(c) \/ SetClear(c) \/ SetAbort(c)
  PROVE  Sound' /\ UNCHANGED <<member, pvars>> /\ Stepped(c)
  <1> USE DEF Begin, Continue, End, Finish, Idle, At, Sound
  <1>1. /\ UNCHANGED <<member, pvars>> /\ Stepped(c) /\ call'[c].pc \notin ByRole
        /\ CallsSound'
    <2>1. ASSUME NEW m \in Members, NEW P \in SUBSET PositionIds, SetLookup(c, m, P)
          PROVE  UNCHANGED <<member, pvars>> /\ Stepped(c) /\ call'[c].pc \notin ByRole /\ CallsSound'
      <3>1. Stepped(c) /\ call'[c] = [pc |-> "current", m |-> m, P |-> P]
        BY <2>1, CallStep DEF SetLookup, Stepped
      <3>2. QED
        BY <2>1, <3>1 DEF SetLookup, Stepped, ByRole, InSet, CallsSound
    <2>2. CASE SetReadCurrent(c)
      <3>1. /\ Stepped(c) /\ call[c].pc = "current"
            /\ call'[c] = [pc |-> "new", m |-> call[c].m, P |-> call[c].P, old |-> RolesOf(Held(call[c].m))]
        BY <2>2, CallStep DEF SetReadCurrent, Stepped
      <3>2. RolesOf(Held(call[c].m)) \subseteq RoleIds
        BY RoleOfRow DEF RolesOf, Held
      <3>3. QED
        BY <2>2, <3>1, <3>2 DEF SetReadCurrent, Stepped, ByRole, InSet, CallsSound
    <2>3. CASE SetReadNew(c)
      <3> DEFINE roles == RolesOf({p \in call[c].P : Here(p)})
      <3>1. /\ Stepped(c) /\ call[c].pc = "new"
            /\ call'[c] = [pc |-> "clear", m |-> call[c].m, P |-> call[c].P,
                           removed |-> call[c].old \ roles, added |-> roles \ call[c].old]
        BY <2>3, CallStep DEF SetReadNew, Stepped, Removed
      <3>2. call[c].P \subseteq PositionIds /\ call[c].m \in Members /\ call[c].old \subseteq RoleIds
        BY <3>1 DEF CallsSound, InSet
      <3>3. roles \subseteq RoleIds
        BY <3>2, RoleOfRow DEF RolesOf
      <3> HIDE DEF roles
      <3>4. QED
        BY <2>3, <3>1, <3>2, <3>3 DEF SetReadNew, Stepped, ByRole, InSet, CallsSound
    <2>4. CASE SetClear(c)
      <3>1. /\ Stepped(c) /\ call[c].pc = "clear"
            /\ call'[c] = [pc |-> "set", m |-> call[c].m, P |-> call[c].P, removed |-> call[c].removed,
                           added |-> call[c].added, seen |-> Held(call[c].m)]
        BY <2>4, CallStep DEF SetClear, Stepped
      <3>2. /\ call[c].P \subseteq PositionIds /\ call[c].m \in Members
            /\ call[c].removed \subseteq RoleIds /\ call[c].added \subseteq RoleIds
        BY <3>1 DEF CallsSound, InSet
      <3>3. Held(call[c].m) \subseteq PositionIds
        BY DEF Held
      <3>4. call'[c] \in SetCall
        BY <3>1, <3>2, <3>3 DEF SetCall
      <3>5. QED
        BY <2>4, <3>1, <3>2, <3>4 DEF SetClear, Stepped, ByRole, InSet, CallsSound
    <2>5. CASE SetAbort(c)
      <3>1. Stepped(c) /\ call'[c] = [pc |-> "idle"]
        BY <2>5, CallStep DEF SetAbort, Stepped
      <3>2. QED
        BY <2>5, <3>1 DEF SetAbort, Stepped, ByRole, InSet, CallsSound
    <2>6. QED
      BY <2>1, <2>2, <2>3, <2>4, <2>5
  <1>2. RowsSound' /\ RolesStay'
    BY <1>1, RowsUnchanged, RolesStayStepped DEF In
  <1>3. QED
    BY <1>1, <1>2

LEMMA CreatePositionSound ==
  ASSUME Sound, NEW code \in Codes, CreatePosition(code)
  PROVE  Sound'
  <1> USE DEF CreatePosition, history, Sound
  <1>1. PICK p \in PositionIds :
          /\ position[p].row = New
          /\ position' = [position EXCEPT ![p] = [row |-> "row", code |-> code, role |-> None]]
    OBVIOUS
  <1>2. /\ \A q \in PositionIds \ {p} : position'[q] = position[q]
        /\ position'[p] = [row |-> "row", code |-> code, role |-> None]
        /\ position' \in [PositionIds -> Position]
    BY <1>1 DEF RowsSound, PTypeOK, Position
  <1>3. \A q \in PositionIds : position'[q].role # None => position[q].role = position'[q].role
    BY <1>2
  <1>4. \A q \in PositionIds : Here(q) => Here(q)'
    BY <1>2 DEF Here
  <1>5. PTypeOK'
    <2>1. (\A r \in RolesOf(PositionIds) : IsRole(r))'
      BY <1>3 DEF RolesOf, RowsSound, PTypeOK, IsRole
    <2>2. (holds \subseteq {m \in Members : In(m)} \X {q \in PositionIds : Here(q)})'
      BY <1>4 DEF RowsSound, PTypeOK, In
    <2>3. QED
      BY <1>2, <2>1, <2>2 DEF RowsSound, PTypeOK, IsRole
  <1>6. RowsSound'
    BY <1>2, <1>3, <1>5 DEF RowsSound, Here
  <1>7. CallsSound'
    BY DEF CallsSound
  <1>8. RolesStay'
    BY <1>3 DEF RolesStay
  <1>9. QED
    BY <1>6, <1>7, <1>8

\* What the last steps of two requests change, if they change anything.
LEMMA EndStep ==
  ASSUME CallsSound, NEW c \in Calls, End(c)
  PROVE  Stepped(c) /\ Quiet(c)
  BY CallStep DEF End, Finish, Idle, Stepped, Quiet, ByRole, InSet

LEMMA RenameSound ==
  ASSUME Sound, NEW c \in Calls, RenameCommit(c)
  PROVE  Sound'
  <1> DEFINE p == call[c].p
             r == call[c].role
             code == call[c].code
             fits == Here(p) /\ ~Taken(code, p) /\ (r # None => IsRole(r) /\ ~RoleTaken(code, r))
  <1> USE DEF Sound
  <1>1. /\ p \in PositionIds /\ r \in RoleIds \cup {None} /\ code \in Codes
        /\ UNCHANGED <<member, holds, grants, excused, stray>>
        /\ Stepped(c) /\ Quiet(c)
    BY EndStep DEF RenameCommit, At, CallsSound, ByRole
  <1>2. CallsSound'
    BY <1>1, CallsSteppedSound
  <1>3. CASE fits
    <2>1. /\ position' = [position EXCEPT ![p].code = code]
          /\ role' = RenamedRole(r, code) /\ skewed' \subseteq skewed \cup RolesOf({p})
      BY <1>3 DEF RenameCommit
    <2>2. /\ \A q \in PositionIds : position'[q].role = position[q].role /\ position'[q].row = position[q].row
          /\ \A q \in PositionIds \ {p} : position'[q] = position[q]
          /\ position'[p].code = code /\ position' \in [PositionIds -> Position]
      BY <1>1, <2>1 DEF RowsSound, PTypeOK, Position
    <2>3. /\ role' \in [RoleIds -> {New, Gone} \cup RoleCodes]
          /\ \A s \in RoleIds : IsRole(s)' <=> IsRole(s)
          /\ \A s \in RoleIds : role'[s] = New <=> role[s] = New
      BY <1>1, <1>3, <2>1, Codeless DEF RenamedRole, RowsSound, PTypeOK, IsRole
    <2>4. RolesOf(PositionIds)' = RolesOf(PositionIds) /\ RolesOf({p}) \subseteq RoleIds
      BY <1>1, <2>2, RoleOfRow DEF RolesOf
    <2>5. PTypeOK'
      <3>1. (\A s \in RolesOf(PositionIds) : IsRole(s))'
        <4>1. \A s \in RolesOf(PositionIds) : s \in RoleIds /\ IsRole(s)
          BY RoleOfRow DEF RolesOf
        <4>2. QED
          BY <4>1, <2>3, <2>4
      <3>2. (holds \subseteq {m \in Members : In(m)} \X {q \in PositionIds : Here(q)})'
        BY <1>1, <2>2 DEF RowsSound, PTypeOK, Here, In
      <3>3. (grants \subseteq Members \X {s \in RoleIds : IsRole(s)})'
        BY <1>1, <2>3 DEF RowsSound, PTypeOK
      <3>4. QED
        BY <1>1, <2>1, <2>2, <2>3, <2>4, <3>1, <3>2, <3>3 DEF RowsSound, PTypeOK
    <2>6. RowsSound'
      BY <1>1, <2>2, <2>5 DEF RowsSound, Here
    <2>7. RolesStay'
      BY <1>1, <2>2, <2>3 DEF RolesStay, Stepped, Quiet, CallsSound
    <2>8. QED
      BY <1>2, <2>6, <2>7
  <1>4. CASE ~fits
    <2>1. UNCHANGED <<member, pvars>>
      BY <1>1, <1>4 DEF RenameCommit, pvars
    <2>2. QED
      BY <1>1, <1>2, <2>1, RowsUnchanged, RolesStayStepped DEF In, Quiet
  <1>5. QED
    BY <1>3, <1>4

LEMMA DropSound ==
  ASSUME Sound, NEW c \in Calls, DeletePositionCommit(c)
  PROVE  Sound'
  <1> DEFINE p == call[c].p
             r == call[c].role
             fits == Here(p) /\ (r # None => IsRole(r))
  <1> USE DEF Sound
  <1>1. /\ p \in PositionIds /\ r \in RoleIds \cup {None}
        /\ UNCHANGED <<member, excused, skewed>>
        /\ Stepped(c) /\ Quiet(c)
        /\ r # None => \A q \in PositionIds : position[q].role = r => q = p
    BY EndStep DEF DeletePositionCommit, At, CallsSound, RolesStay, ByRole
  <1>2. CallsSound'
    BY <1>1, CallsSteppedSound
  <1>3. CASE fits
    <2>1. /\ position' = [position EXCEPT ![p] = [NoPosition EXCEPT !.row = Gone]]
          /\ role' = RoleDropped(r)
          /\ holds' = {h \in holds : h[2] # p}
          /\ grants' = {g \in grants : g[2] # r}
          /\ stray' = stray \cup (RolesOf({p}) \ {r})
      BY <1>3 DEF DeletePositionCommit
    <2>2. /\ \A q \in PositionIds \ {p} : position'[q] = position[q]
          /\ position'[p] = [row |-> Gone, code |-> None, role |-> None]
          /\ position' \in [PositionIds -> Position]
      BY <1>1, <2>1 DEF RowsSound, PTypeOK, Position, NoPosition
    <2>3. /\ role' \in [RoleIds -> {New, Gone} \cup RoleCodes]
          /\ \A s \in RoleIds \ {r} : role'[s] = role[s]
          /\ \A s \in RoleIds : role'[s] = New => role[s] = New
      BY <1>1, <1>3, <2>1, Codeless DEF RoleDropped, RowsSound, PTypeOK, IsRole
    <2>4. \A q \in PositionIds : position'[q].role # None =>
            q # p /\ position[q].role = position'[q].role /\ position[q].role # r
      BY <1>1, <2>2
    <2>5. PTypeOK'
      <3>1. (\A s \in RolesOf(PositionIds) : IsRole(s))'
        BY <2>3, <2>4, RoleOfRow DEF RolesOf, IsRole
      <3>2. (holds \subseteq {m \in Members : In(m)} \X {q \in PositionIds : Here(q)})'
        BY <1>1, <2>1, <2>2 DEF RowsSound, PTypeOK, Here, In
      <3>3. (grants \subseteq Members \X {s \in RoleIds : IsRole(s)})'
        BY <2>1, <2>3 DEF RowsSound, PTypeOK, IsRole
      <3>4. RolesOf({p}) \subseteq RoleIds
        BY <1>1, RoleOfRow DEF RolesOf
      <3>5. QED
        BY <1>1, <2>1, <2>2, <2>3, <3>1, <3>2, <3>3, <3>4 DEF RowsSound, PTypeOK
    <2>6. RowsSound'
      BY <1>1, <2>2, <2>4, <2>5 DEF RowsSound, Here, Gone
    <2>7. RolesStay'
      BY <1>1, <2>3, <2>4 DEF RolesStay, Stepped, Quiet, CallsSound
    <2>8. QED
      BY <1>2, <2>6, <2>7
  <1>4. CASE ~fits
    <2>1. UNCHANGED <<member, pvars>>
      BY <1>1, <1>4 DEF DeletePositionCommit, pvars
    <2>2. QED
      BY <1>1, <1>2, <2>1, RowsUnchanged, RolesStayStepped DEF In, Quiet
  <1>5. QED
    BY <1>3, <1>4

LEMMA PermitSound ==
  ASSUME Sound, NEW c \in Calls, PermitCommit(c)
  PROVE  Sound'
  <1> DEFINE p == call[c].p
             code == call[c].code
  <1> USE DEF Sound
  <1>1. /\ p \in PositionIds /\ code \in Codes
        /\ UNCHANGED <<member, holds, grants>>
        /\ Stepped(c) /\ Quiet(c)
    BY EndStep DEF PermitCommit, At, CallsSound, ByRole
  <1>2. CallsSound'
    BY <1>1, CallsSteppedSound
  <1>3. ASSUME NEW r \in RoleIds, Here(p), role[r] = New,
               role' = [role EXCEPT ![r] = code],
               position' = [position EXCEPT ![p].role = r],
               excused' = excused \cup {m \in Members : p \in Held(m) \/ \E e \in Setting(m) : p \in call[e].P} \X {r},
               skewed' = IF code # position[p].code THEN skewed \cup {r} ELSE skewed,
               stray' = stray \cup RolesOf({p})
        PROVE  Sound'
    <2>1. /\ \A q \in PositionIds \ {p} : position'[q] = position[q]
          /\ position'[p].role = r /\ position'[p].row = position[p].row
          /\ position'[p].code = position[p].code
          /\ position' \in [PositionIds -> Position]
      BY <1>1, <1>3 DEF RowsSound, PTypeOK, Position
    <2>2. /\ \A q \in PositionIds : position[q].role # r
          /\ role' \in [RoleIds -> {New, Gone} \cup RoleCodes] /\ role'[r] = code
          /\ \A s \in RoleIds \ {r} : role'[s] = role[s]
      BY <1>1, <1>3, Codeless, RoleOfRow DEF RowsSound, PTypeOK, IsRole
    <2>3. PTypeOK'
      <3>1. (\A s \in RolesOf(PositionIds) : IsRole(s))'
        BY <1>1, <2>1, <2>2, RoleOfRow, Codeless DEF RolesOf, IsRole
      <3>2. (holds \subseteq {m \in Members : In(m)} \X {q \in PositionIds : Here(q)})'
        BY <1>1, <2>1 DEF RowsSound, PTypeOK, Here, In
      <3>3. (grants \subseteq Members \X {s \in RoleIds : IsRole(s)})'
        BY <1>1, <2>2, Codeless DEF RowsSound, PTypeOK, IsRole
      <3>4. RolesOf({p}) \subseteq RoleIds
        BY <1>1, RoleOfRow DEF RolesOf
      <3>5. (stray \cup skewed \subseteq RoleIds /\ excused \subseteq Members \X RoleIds)'
        BY <1>3, <3>4 DEF RowsSound, PTypeOK
      <3>6. QED
        BY <2>1, <2>2, <3>1, <3>2, <3>3, <3>5 DEF PTypeOK
    <2>4. RowsSound'
      BY <1>3, <2>1, <2>2, <2>3 DEF RowsSound, Here
    <2>5. RolesStay'
      BY <1>1, <1>3, <2>1, <2>2, Codeless DEF RolesStay, Stepped, Quiet, CallsSound
    <2>6. QED
      BY <1>2, <2>4, <2>5
  <1>4. CASE UNCHANGED <<role, position, excused, skewed, stray>>
    <2>1. UNCHANGED <<member, pvars>>
      BY <1>1, <1>4 DEF pvars
    <2>2. QED
      BY <1>1, <1>2, <2>1, RowsUnchanged, RolesStayStepped DEF In, Quiet
  <1>5. QED
    BY <1>3, <1>4 DEF PermitCommit

LEMMA SetCommitSound ==
  ASSUME Sound, NEW c \in Calls, SetCommit(c)
  PROVE  Sound'
  <1> DEFINE m == call[c].m
             kept == Held(m) \ call[c].seen
             fits == /\ In(m) /\ \A p \in call[c].P : Here(p)
                     /\ call[c].P \cap kept = {}
                     /\ \A r \in call[c].added : IsRole(r)
  <1> USE DEF Sound
  <1>1. /\ call[c] \in SetCall /\ m \in Members
        /\ UNCHANGED <<member, position, role, stray, skewed>>
    BY DEF SetCommit, At, CallsSound, SetCall
  <1>2. call' = [e \in Calls |-> IF e = c THEN Idle
                                 ELSE IF fits /\ At(e, "set") /\ call[e].m = m
                                      THEN [call[e] EXCEPT !.seen = @ \ call[c].seen] ELSE call[e]]
    BY DEF SetCommit
  <1>3. ASSUME NEW e \in Calls, call[e].pc = "set", call'[e] # call[e], e # c
        PROVE  call'[e] \in SetCall
    <2>1. call[e] \in SetCall
      BY <1>3 DEF CallsSound
    <2>2. call'[e] = [call[e] EXCEPT !.seen = call[e].seen \ call[c].seen]
      BY <1>2, <1>3
    <2>3. QED
      BY <2>1, <2>2 DEF SetCall
  <1>4. \A e \in Calls : call'[e] = call[e] \/ call'[e].pc = "idle" \/ (call[e].pc = "set" /\ call'[e] \in SetCall)
    BY <1>2, <1>3 DEF Idle, At
  <1>5. CallsSound'
    <2>1. DOMAIN call' = Calls
      BY <1>2
    <2>2. \A e \in Calls : call'[e] \in SetCall => /\ call'[e].pc = "set" /\ call'[e].m \in Members
                                                   /\ call'[e].P \subseteq PositionIds
      BY DEF SetCall
    <2>3. QED
      BY <1>4, <2>1, <2>2 DEF CallsSound, ByRole, InSet
  <1>6. RolesStay'
    <2>1. \A e \in Calls : call'[e].pc \in ByRole => call'[e] = call[e]
      BY <1>4 DEF ByRole, SetCall
    <2>2. QED
      BY <1>1, <2>1 DEF RolesStay
  <1>7. RowsSound'
    <2>1. CASE fits
      <3>1. /\ holds' = {h \in holds : h[1] # m} \cup {m} \X (kept \cup call[c].P)
            /\ grants' = (grants \ ({m} \X call[c].removed)) \cup {m} \X call[c].added
            /\ excused' \subseteq excused \cup {m} \X RoleIds
        BY <2>1 DEF SetCommit
      <3>2. /\ \A p \in kept : Here(p) /\ p \in PositionIds
            /\ call[c].P \subseteq PositionIds /\ call[c].added \subseteq RoleIds
        BY <1>1 DEF SetCall, Held, RowsSound, PTypeOK
      <3>3. holds' \subseteq {n \in Members : In(n)} \X {q \in PositionIds : Here(q)}
        BY <1>1, <2>1, <3>1, <3>2 DEF RowsSound, PTypeOK
      <3>4. grants' \subseteq Members \X {s \in RoleIds : IsRole(s)}
        BY <1>1, <2>1, <3>1, <3>2 DEF RowsSound, PTypeOK
      <3>5. PTypeOK'
        BY <1>1, <3>1, <3>3, <3>4 DEF RowsSound, PTypeOK, In, Here, IsRole, RolesOf
      <3>6. QED
        BY <1>1, <3>5 DEF RowsSound, Here
    <2>2. CASE ~fits
      <3>1. UNCHANGED pvars
        BY <1>1, <2>2 DEF SetCommit, pvars
      <3>2. QED
        BY <1>1, <3>1, RowsUnchanged DEF In
    <2>3. QED
      BY <2>1, <2>2
  <1>8. QED
    BY <1>5, <1>6, <1>7

\* What is done at once, by the administration of roles or of members.
LEMMA AssignSound ==
  ASSUME Sound, NEW n \in Members, NEW r \in RoleIds, AssignRole(n, r)
  PROVE  Sound'
  <1> USE DEF AssignRole, Sound
  <1>1. PTypeOK'
    BY DEF RowsSound, PTypeOK, In, Here, IsRole, RolesOf
  <1>2. RowsSound'
    BY <1>1 DEF RowsSound, Here
  <1>3. QED
    BY <1>2 DEF CallsSound, RolesStay

LEMMA DeleteRoleSound ==
  ASSUME Sound, NEW r \in RoleIds, DeleteRole(r)
  PROVE  Sound'
  <1> USE DEF DeleteRole, history, Sound
  <1>1. /\ \A q \in PositionIds : /\ position'[q].row = position[q].row /\ position'[q].code = position[q].code
                                  /\ position'[q].role = IF position[q].role = r THEN None ELSE position[q].role
        /\ position' \in [PositionIds -> Position]
    BY DEF RowsSound, PTypeOK, Position
  <1>2. /\ role' \in [RoleIds -> {New, Gone} \cup RoleCodes] /\ role'[r] = Gone
        /\ \A s \in RoleIds \ {r} : role'[s] = role[s]
    BY DEF RowsSound, PTypeOK
  <1>3. PTypeOK'
    <2>1. (\A s \in RolesOf(PositionIds) : IsRole(s))'
      BY <1>1, <1>2, RoleOfRow DEF RolesOf, IsRole
    <2>2. (holds \subseteq {n \in Members : In(n)} \X {q \in PositionIds : Here(q)})'
      BY <1>1 DEF RowsSound, PTypeOK, Here, In
    <2>3. (grants \subseteq Members \X {s \in RoleIds : IsRole(s)})'
      BY <1>2 DEF RowsSound, PTypeOK, IsRole
    <2>4. QED
      BY <1>1, <1>2, <2>1, <2>2, <2>3 DEF RowsSound, PTypeOK
  <1>4. RowsSound'
    BY <1>1, <1>3, Codeless DEF RowsSound, Here
  <1>5. RolesStay'
    BY <1>1, <1>2, Codeless DEF RolesStay, CallsSound, New, Gone
  <1>6. QED
    BY <1>4, <1>5 DEF CallsSound

LEMMA UpdateRoleSound ==
  ASSUME Sound, NEW r \in RoleIds, NEW code \in RoleCodes, UpdateRole(r, code)
  PROVE  Sound'
  <1> USE DEF UpdateRole, Sound
  <1>1. /\ role' \in [RoleIds -> {New, Gone} \cup RoleCodes]
        /\ \A s \in RoleIds : (IsRole(s)' <=> IsRole(s)) /\ (role'[s] = New <=> role[s] = New)
    BY Codeless DEF RowsSound, PTypeOK, IsRole
  <1>2. PTypeOK'
    BY <1>1 DEF RowsSound, PTypeOK, In, Here, RolesOf, Position
  <1>3. RowsSound'
    BY <1>2 DEF RowsSound, Here
  <1>4. QED
    BY <1>1, <1>3 DEF CallsSound, RolesStay

LEMMA RemoveMemberSound ==
  ASSUME Sound, NEW n \in Members, RemoveMember(n)
  PROVE  Sound'
  <1> USE DEF RemoveMember, Sound
  <1>1. \A o \in Members \ {n} : In(o) => In(o)'
    BY DEF In
  <1>2. holds' \subseteq {o \in Members \ {n} : In(o)} \X {q \in PositionIds : Here(q)}
    BY DEF RowsSound, PTypeOK
  <1>3. PTypeOK'
    BY <1>1, <1>2 DEF RowsSound, PTypeOK, Here, IsRole, RolesOf
  <1>4. RowsSound'
    BY <1>3 DEF RowsSound, Here
  <1>5. QED
    BY <1>4 DEF CallsSound, RolesStay

-----------------------------------------------------------------------------
\* A request of several steps, or one of those that are done at once.
LEMMA StepSound == Sound /\ [Next]_vars => Sound'
  <1> SUFFICES ASSUME Sound, [Next]_vars PROVE Sound'
    OBVIOUS
  <1>1. ASSUME NEW c \in Calls, DCall(c), UNCHANGED pvars PROVE Sound'
    <2>1. Stepped(c) /\ Quiet(c) /\ \A m \in Members : In(m) => In(m)'
      BY <1>1, DepartmentStep DEF Sound
    <2>2. QED
      BY <1>1, <2>1, RowsUnchanged, CallsSteppedSound, RolesStayStepped DEF Sound, Quiet
  <1>2. ASSUME NEW c \in Calls, PCall(c) PROVE Sound'
    BY <1>2, LookupSound, SetStepSound, RenameSound, DropSound, PermitSound, SetCommitSound DEF PCall
  <1>3. ASSUME PNext PROVE Sound'
    BY <1>2, <1>3, CreatePositionSound, DeleteRoleSound, AssignSound, UpdateRoleSound DEF PNext
  <1>4. CASE UNCHANGED vars
    <2>1. RowsSound'
      BY <1>4, RowsUnchanged DEF vars, shared, In, Sound
    <2>2. QED
      BY <1>4, <2>1 DEF vars, shared, pvars, Sound, CallsSound, RolesStay
  <1>5. QED
    BY <1>1, <1>3, <1>4, RemoveMemberSound DEF Next

-----------------------------------------------------------------------------
(* Grants and positions.                                                   *)

LEMMA InitAgreeing == Init => Agreeing
  <1> SUFFICES ASSUME Init PROVE Agreeing
    OBVIOUS
  <1>1. Sound
    BY InitSound
  <1>2. ASSUME NEW p \in PositionIds, NEW r \in RoleIds, NEW m \in Members, position[p].role = r
        PROVE  <<m, r>> \in grants <=> <<m, p>> \in holds
    <2>1. \A h \in holds : h[1] \in Members /\ h[2] \in PositionIds /\ h = <<h[1], h[2]>>
      BY DEF Init, PInit
    <2>2. \A h \in holds : r \in RolesOf({h[2]}) <=> p \in {h[2]}
      BY <1>1, <1>2, <2>1, OneRole DEF Sound
    <2>3. <<m, r>> \in grants <=> \E h \in holds : <<m, r>> \in {h[1]} \X RolesOf({h[2]})
      BY DEF Init, PInit
    <2>4. QED
      BY <2>1, <2>2, <2>3
  <1>3. GrantsFollow
    BY <1>2 DEF GrantsFollow
  <1>4. QED
    BY <1>3 DEF Init, Agreeing, SetsKnow, SetsAreOld, SetsReplace, Idle, InSet

\* A step that gives no position a role, and changes what members hold and
\* are granted only where that is excused.
Tame ==
  /\ excused \subseteq excused'
  /\ \A p \in PositionIds, r \in RoleIds : position'[p].role = r =>
       /\ position[p].role = r
       /\ \A m \in Members : <<m, r>> \notin excused' =>
            /\ <<m, p>> \in holds' <=> <<m, p>> \in holds
            /\ <<m, r>> \in grants' <=> <<m, r>> \in grants
  /\ \A r \in RoleIds : role'[r] = New => role[r] = New
  /\ \A m \in Members : Held(m)' \subseteq Held(m)

LEMMA TameAgreeing ==
  ASSUME Agreeing, CallsSound, Tame,
         \A e \in Calls : call'[e] = call[e] \/ call'[e].pc \notin InSet
  PROVE  Agreeing'
  <1>1. GrantsFollow'
    BY DEF Agreeing, GrantsFollow, Tame
  <1>2. SetsKnow'
    BY DEF Agreeing, SetsKnow, Tame, CallsSound, InSet
  <1>3. SetsAreOld'
    BY DEF Agreeing, SetsAreOld, Tame, InSet
  <1>4. SetsReplace'
    <2> SUFFICES ASSUME NEW e \in Calls, call'[e].pc = "set"
                 PROVE  \/ Held(call[e].m)' \subseteq call'[e].seen
                        \/ \A r \in RoleIds : <<call'[e].m, r>> \in excused'
      BY DEF SetsReplace, Held, InSet
    <2>1. call'[e] = call[e] /\ call[e].m \in Members
      BY DEF InSet, CallsSound
    <2>2. QED
      BY <2>1 DEF Agreeing, SetsReplace, Tame
  <1>5. QED
    BY <1>1, <1>2, <1>3, <1>4 DEF Agreeing

LEMMA UnchangedTame == ASSUME UNCHANGED pvars PROVE Tame
  BY DEF Tame, pvars, Held

\* The reads of setMemberPositions.
LEMMA SetStepAgreeing ==
  ASSUME Sound, Agreeing, NEW c \in Calls, SetReadCurrent(c) \/ SetReadNew(c) \/ SetClear(c)
  PROVE  Agreeing'
  <1> USE DEF Sound
  <1>1. UNCHANGED <<member, pvars>> /\ Stepped(c)
    BY SetStepSound
  <1>2. /\ call[c].m \in Members /\ call[c].P \subseteq PositionIds
        /\ \A p \in PositionIds : p \in Held(call[c].m) <=> <<call[c].m, p>> \in holds
        /\ \A r \in RoleIds : role[r] = New => r \notin RolesOf(PositionIds)
    BY RoleOfRow, Codeless DEF SetReadCurrent, SetReadNew, SetClear, At, CallsSound, InSet, Held, RolesOf, IsRole
  <1>3. GrantsFollow'
    BY <1>1 DEF Agreeing, GrantsFollow, pvars
  <1>4. CASE SetReadCurrent(c)
    <2>1. call'[c] = [pc |-> "new", m |-> call[c].m, P |-> call[c].P, old |-> RolesOf(Held(call[c].m))]
      BY <1>4, CallStep DEF SetReadCurrent, Continue
    <2>2. \A p \in PositionIds, r \in RoleIds : position[p].role = r =>
            (r \in RolesOf(Held(call[c].m)) <=> <<call[c].m, p>> \in holds)
      BY <1>2, OneRole DEF Held
    <2>3. RolesOf(Held(call[c].m)) \subseteq RolesOf(PositionIds)
      BY DEF RolesOf, Held
    <2> HIDE DEF Sound
    <2>4. SetsKnow' /\ SetsAreOld' /\ SetsReplace'
      BY <1>1, <1>2, <2>1, <2>2, <2>3
      DEF Agreeing, SetsKnow, SetsAreOld, SetsReplace, Stepped, InSet, pvars, Held
    <2>5. QED
      BY <1>3, <2>4 DEF Agreeing
  <1>5. CASE SetReadNew(c)
    <2> DEFINE roles == RolesOf({p \in call[c].P : Here(p)})
    <2>1. /\ call[c].pc = "new"
          /\ call'[c] = [pc |-> "clear", m |-> call[c].m, P |-> call[c].P,
                         removed |-> call[c].old \ roles, added |-> roles \ call[c].old]
      BY <1>5, CallStep DEF SetReadNew, Continue, At, Removed
    <2>2. \A p \in PositionIds, r \in RoleIds : position[p].role = r => (r \in roles <=> p \in call[c].P)
      BY <1>2, OneRole, RoleOfRow, Codeless
    <2>3. roles \subseteq RolesOf(PositionIds)
      BY <1>2 DEF RolesOf
    <2> HIDE DEF Sound, roles
    <2>4. SetsKnow'
      BY <1>1, <2>1, <2>2 DEF Agreeing, SetsKnow, Stepped, InSet, pvars
    <2>5. SetsAreOld' /\ SetsReplace'
      BY <1>1, <1>2, <2>1, <2>3 DEF Agreeing, SetsAreOld, SetsReplace, Stepped, InSet, pvars, Held
    <2>6. QED
      BY <1>3, <2>4, <2>5 DEF Agreeing
  <1>6. CASE SetClear(c)
    <2>1. /\ call[c].pc = "clear"
          /\ call'[c] = [pc |-> "set", m |-> call[c].m, P |-> call[c].P, removed |-> call[c].removed,
                         added |-> call[c].added, seen |-> Held(call[c].m)]
      BY <1>6, CallStep DEF SetClear, Continue, At
    <2> HIDE DEF Sound
    <2>2. SetsKnow' /\ SetsAreOld'
      BY <1>1, <2>1 DEF Agreeing, SetsKnow, SetsAreOld, Stepped, InSet, pvars
    <2>3. SetsReplace'
      BY <1>1, <2>1 DEF Agreeing, SetsReplace, Stepped, pvars, Held
    <2>4. QED
      BY <1>3, <2>2, <2>3 DEF Agreeing
  <1>7. QED
    BY <1>4, <1>5, <1>6

LEMMA SetCommitAgreeing ==
  ASSUME Sound, Agreeing, NEW c \in Calls, SetCommit(c)
  PROVE  Agreeing'
  <1> DEFINE m == call[c].m
             kept == Held(m) \ call[c].seen
             fits == /\ In(m) /\ \A p \in call[c].P : Here(p)
                     /\ call[c].P \cap kept = {}
                     /\ \A r \in call[c].added : IsRole(r)
  <1>1. /\ call[c] \in SetCall /\ call[c].pc = "set" /\ m \in Members
        /\ UNCHANGED <<position, role>>
        /\ \A e \in Calls : call'[e] = IF e = c THEN Idle
                                       ELSE IF fits /\ At(e, "set") /\ call[e].m = m
                                            THEN [call[e] EXCEPT !.seen = @ \ call[c].seen] ELSE call[e]
    BY DEF SetCommit, At, Sound, CallsSound, SetCall
  <1>2. CASE ~fits
    <2>1. UNCHANGED pvars /\ \A e \in Calls : call'[e] = call[e] \/ call'[e].pc \notin InSet
      BY <1>1, <1>2 DEF SetCommit, pvars, Idle, InSet
    <2>2. QED
      BY <2>1, UnchangedTame, TameAgreeing DEF Sound
  <1>3. CASE fits
    <2>1. /\ holds' = {h \in holds : h[1] # m} \cup {m} \X (kept \cup call[c].P)
          /\ grants' = (grants \ ({m} \X call[c].removed)) \cup {m} \X call[c].added
          /\ excused' = IF Setting(m) # {c} THEN excused \cup {m} \X RoleIds ELSE excused
      BY <1>3 DEF SetCommit
    <2>2. /\ kept \subseteq PositionIds /\ call[c].P \subseteq PositionIds
          /\ call[c].added \subseteq RoleIds /\ call[c].removed \subseteq RoleIds
      BY <1>1 DEF SetCall, Held
    <2>3. \A n \in Members : n # m =>
            /\ \A p \in PositionIds : <<n, p>> \in holds' <=> <<n, p>> \in holds
            /\ \A r \in RoleIds : <<n, r>> \in grants' <=> <<n, r>> \in grants
      BY <2>1
    <2>4. /\ \A p \in PositionIds : <<m, p>> \in holds' <=> p \in kept \cup call[c].P
          /\ \A r \in RoleIds : <<m, r>> \in grants' <=>
               (<<m, r>> \in grants /\ r \notin call[c].removed) \/ r \in call[c].added
      BY <2>1
    <2>5. \A r \in RoleIds : <<m, r>> \notin excused' => Setting(m) = {c} /\ <<m, r>> \notin excused
      BY <1>1, <2>1
    <2>6. \A e \in Calls : call[e].pc \in InSet /\ call[e].m = m => e \in Setting(m)
      BY DEF Setting, InSet
    <2> HIDE DEF m, kept, fits
    <2>7. \A e \in Calls : \/ call'[e] = call[e] /\ e # c
                           \/ call'[e].pc = "idle"
                           \/ /\ call'[e] \in SetCall /\ call[e].pc = "set" /\ e # c
                              /\ call'[e].m = m /\ call[e].m = m
                              /\ call'[e].removed = call[e].removed /\ call'[e].added = call[e].added
      <3> SUFFICES ASSUME NEW e \in Calls, e # c, call[e].pc = "set", call[e].m = m
                   PROVE  /\ call'[e] \in SetCall /\ call'[e].m = m
                          /\ call'[e].removed = call[e].removed /\ call'[e].added = call[e].added
        <4>1. Idle.pc = "idle"
          BY DEF Idle
        <4>2. QED
          BY <1>1, <4>1 DEF At
      <3>1. call[e] \in SetCall
        BY DEF Sound, CallsSound
      <3>2. call'[e] = [call[e] EXCEPT !.seen = call[e].seen \ call[c].seen]
        BY <1>1, <1>3 DEF At
      <3>3. QED
        BY <3>1, <3>2 DEF SetCall
    <2>8. excused \subseteq excused'
      BY <2>1
    <2>9. GrantsFollow'
      <3> SUFFICES ASSUME NEW p \in PositionIds, NEW r \in RoleIds, NEW n \in Members,
                          position[p].role = r, <<n, r>> \notin excused'
                   PROVE  <<n, r>> \in grants' <=> <<n, p>> \in holds'
        BY <1>1 DEF GrantsFollow
      <3>1. <<n, r>> \in grants <=> <<n, p>> \in holds
        BY <2>8 DEF Agreeing, GrantsFollow
      <3>2. CASE n # m
        BY <2>3, <3>1, <3>2
      <3>3. CASE n = m
        <4>1. Held(m) \subseteq call[c].seen
          BY <1>1, <2>5, <3>3 DEF Agreeing, SetsReplace, m
        <4>2. kept = {}
          BY <4>1 DEF kept
        <4>3. /\ r \in call[c].removed <=> <<m, p>> \in holds /\ p \notin call[c].P
              /\ r \in call[c].added <=> <<m, p>> \notin holds /\ p \in call[c].P
          BY <1>1, <2>5, <3>3 DEF Agreeing, SetsKnow, InSet, m
        <4>4. QED
          BY <2>4, <3>1, <3>3, <4>2, <4>3
      <3>4. QED
        BY <3>2, <3>3
    <2>10. SetsKnow'
      <3> SUFFICES ASSUME NEW e \in Calls, call'[e].pc \in InSet,
                          NEW p \in PositionIds, NEW r \in RoleIds,
                          position[p].role = r, <<call'[e].m, r>> \notin excused'
                   PROVE  /\ call'[e].pc = "new" => (r \in call'[e].old <=> <<call'[e].m, p>> \in holds')
                          /\ call'[e].pc \in {"clear", "set"} =>
                               /\ r \in call'[e].removed <=> <<call'[e].m, p>> \in holds' /\ p \notin call'[e].P
                               /\ r \in call'[e].added <=> <<call'[e].m, p>> \notin holds' /\ p \in call'[e].P
        BY <1>1 DEF SetsKnow
      <3>1. CASE call'[e] = call[e] /\ e # c
        <4>1. call[e].m # m
          BY <2>5, <2>6, <3>1
        <4>2. call[e].m \in Members
          BY <3>1 DEF Sound, CallsSound
        <4>3. <<call[e].m, p>> \in holds' <=> <<call[e].m, p>> \in holds
          BY <2>3, <4>1, <4>2
        <4>4. <<call[e].m, r>> \notin excused
          BY <2>8, <3>1
        <4>5. QED
          BY <3>1, <4>3, <4>4 DEF Agreeing, SetsKnow
      <3>2. CASE e # c /\ call[e].pc = "set" /\ call[e].m = m /\ call'[e].m = m
        BY <2>5, <2>6, <3>2 DEF InSet
      <3>3. QED
        BY <2>7, <3>1, <3>2 DEF InSet
    <2>11. SetsAreOld'
      BY <1>1, <2>7 DEF Agreeing, SetsAreOld, SetCall
    <2>12. SetsReplace'
      <3> SUFFICES ASSUME NEW e \in Calls, call'[e].pc = "set"
                   PROVE  \/ {p \in PositionIds : <<call'[e].m, p>> \in holds'} \subseteq call'[e].seen
                          \/ \A r \in RoleIds : <<call'[e].m, r>> \in excused'
        BY DEF SetsReplace, Held
      <3>1. CASE call'[e].m = m
        <4>1. e \in Setting(m) /\ e # c
          BY <2>6, <2>7, <3>1 DEF InSet
        <4>2. QED
          BY <2>5, <3>1, <4>1
      <3>2. CASE call'[e].m # m
        <4>1. call'[e] = call[e] /\ call[e].m \in Members
          BY <2>7, <3>2 DEF Sound, CallsSound, InSet
        <4>2. QED
          BY <2>3, <2>8, <3>2, <4>1 DEF Agreeing, SetsReplace, Held
      <3>3. QED
        BY <3>1, <3>2
    <2>13. QED
      BY <2>9, <2>10, <2>11, <2>12 DEF Agreeing
  <1>4. QED
    BY <1>2, <1>3

LEMMA PermitAgreeing ==
  ASSUME Sound, Agreeing, NEW c \in Calls, PermitCommit(c)
  PROVE  Agreeing'
  <1> DEFINE p == call[c].p
             code == call[c].code
  <1>1. /\ p \in PositionIds /\ code \in Codes
        /\ UNCHANGED <<member, holds, grants>>
        /\ \A e \in Calls : call'[e] = call[e] \/ call'[e].pc \notin InSet
    BY EndStep DEF PermitCommit, At, Sound, CallsSound, ByRole, Stepped, Quiet
  <1>2. ASSUME NEW r \in RoleIds, Here(p), role[r] = New,
               role' = [role EXCEPT ![r] = code],
               position' = [position EXCEPT ![p].role = r],
               excused' = excused \cup {m \in Members : p \in Held(m) \/ \E e \in Setting(m) : p \in call[e].P} \X {r}
        PROVE  Agreeing'
    <2>1. /\ \A q \in PositionIds \ {p} : position'[q] = position[q]
          /\ position'[p].role = r
      BY <1>1, <1>2 DEF Sound, RowsSound, PTypeOK, Position
    <2>2. /\ \A q \in PositionIds : position[q].role # r
          /\ role'[r] # New
          /\ \A s \in RoleIds \ {r} : role'[s] = role[s]
          /\ \A m \in Members : <<m, r>> \notin grants
      BY <1>1, <1>2, Codeless, RoleOfRow DEF Sound, RowsSound, PTypeOK, IsRole
    <2>3. excused \subseteq excused'
      BY <1>2
    <2>4. \A m \in Members : <<m, r>> \notin excused' =>
            /\ <<m, p>> \notin holds
            /\ \A e \in Calls : call[e].pc \in InSet /\ call[e].m = m => p \notin call[e].P
      BY <1>1, <1>2 DEF Held, Setting, InSet
    <2>5. GrantsFollow'
      BY <1>1, <2>1, <2>2, <2>3, <2>4 DEF Agreeing, GrantsFollow
    <2>6. SetsKnow'
      <3> SUFFICES ASSUME NEW e \in Calls, call[e].pc \in InSet, call'[e] = call[e],
                          NEW q \in PositionIds, NEW s \in RoleIds,
                          position'[q].role = s, <<call[e].m, s>> \notin excused'
                   PROVE  /\ call[e].pc = "new" => (s \in call[e].old <=> <<call[e].m, q>> \in holds)
                          /\ call[e].pc \in {"clear", "set"} =>
                               /\ s \in call[e].removed <=> <<call[e].m, q>> \in holds /\ q \notin call[e].P
                               /\ s \in call[e].added <=> <<call[e].m, q>> \notin holds /\ q \in call[e].P
        BY <1>1 DEF SetsKnow
      <3>1. call[e].m \in Members
        BY DEF Sound, CallsSound
      <3>2. CASE q = p
        <4>1. s = r
          BY <2>1, <3>2
        <4>2. <<call[e].m, p>> \notin holds /\ p \notin call[e].P
          BY <2>4, <3>1, <4>1
        <4>3. /\ call[e].pc = "new" => r \notin call[e].old
              /\ call[e].pc \in {"clear", "set"} => r \notin call[e].removed \cup call[e].added
          BY <1>2 DEF Agreeing, SetsAreOld
        <4>4. QED
          BY <3>2, <4>1, <4>2, <4>3
      <3>3. CASE q # p
        <4>1. position[q].role = s /\ <<call[e].m, s>> \notin excused
          BY <2>1, <2>3, <3>3
        <4>2. QED
          BY <4>1 DEF Agreeing, SetsKnow
      <3>4. QED
        BY <3>2, <3>3
    <2>7. SetsAreOld'
      BY <1>1, <2>2 DEF Agreeing, SetsAreOld, InSet
    <2>8. SetsReplace'
      BY <1>1, <2>3 DEF Agreeing, SetsReplace, InSet, Held, Sound, CallsSound
    <2>9. QED
      BY <2>5, <2>6, <2>7, <2>8 DEF Agreeing
  <1>3. CASE UNCHANGED <<role, position, excused, skewed, stray>>
    <2>1. UNCHANGED pvars
      BY <1>1, <1>3 DEF pvars
    <2>2. QED
      BY <1>1, <2>1, UnchangedTame, TameAgreeing DEF Sound
  <1>4. QED
    BY <1>2, <1>3 DEF PermitCommit

\* A position that is deleted, or a role, takes its assignments with it.
LEMMA DropTame ==
  ASSUME Sound, NEW c \in Calls, DeletePositionCommit(c)
  PROVE  Tame
  <1> DEFINE p == call[c].p
             r == call[c].role
             fits == Here(p) /\ (r # None => IsRole(r))
  <1>1. /\ p \in PositionIds /\ r \in RoleIds \cup {None} /\ UNCHANGED excused
        /\ r # None => \A q \in PositionIds : position[q].role = r => q = p
    BY DEF DeletePositionCommit, At, Sound, CallsSound, RolesStay, ByRole
  <1>2. CASE fits
    <2>1. /\ position' = [position EXCEPT ![p] = [NoPosition EXCEPT !.row = Gone]]
          /\ role' = RoleDropped(r)
          /\ holds' = {h \in holds : h[2] # p}
          /\ grants' = {g \in grants : g[2] # r}
      BY <1>2 DEF DeletePositionCommit
    <2>2. /\ \A q \in PositionIds \ {p} : position'[q] = position[q]
          /\ position'[p].role = None
      BY <1>1, <2>1 DEF Sound, RowsSound, PTypeOK, Position, NoPosition
    <2>3. \A s \in RoleIds : role'[s] = New => role[s] = New
      BY <1>1, <2>1, Codeless DEF RoleDropped, Sound, RowsSound, PTypeOK
    <2>4. \A q \in PositionIds, s \in RoleIds : position'[q].role = s =>
            q # p /\ position[q].role = s /\ s # r
      BY <1>1, <2>2, Codeless
    <2>5. \A m \in Members : Held(m)' \subseteq Held(m)
      BY <2>1 DEF Held
    <2>6. QED
      BY <1>1, <2>1, <2>3, <2>4, <2>5 DEF Tame
  <1>3. CASE ~fits
    <2>1. UNCHANGED pvars
      BY <1>1, <1>3 DEF DeletePositionCommit, pvars
    <2>2. QED
      BY <2>1, UnchangedTame
  <1>4. QED
    BY <1>2, <1>3

LEMMA RenameTame ==
  ASSUME Sound, NEW c \in Calls, RenameCommit(c)
  PROVE  Tame
  <1>1. /\ call[c].p \in PositionIds /\ call[c].role \in RoleIds \cup {None} /\ call[c].code \in Codes
        /\ UNCHANGED <<holds, grants, excused>>
    BY DEF RenameCommit, At, Sound, CallsSound, ByRole
  <1>2. \A q \in PositionIds : position'[q].role = position[q].role
    BY <1>1 DEF RenameCommit, Sound, RowsSound, PTypeOK, Position
  <1>3. \A s \in RoleIds : role'[s] = New => role[s] = New
    BY <1>1, Codeless DEF RenameCommit, RenamedRole, Sound, RowsSound, PTypeOK
  <1>4. QED
    BY <1>1, <1>2, <1>3 DEF Tame, Held

LEMMA AtOnceTame ==
  ASSUME Sound,
         \/ \E code \in Codes : CreatePosition(code)
         \/ \E r \in RoleIds : \/ DeleteRole(r)
                               \/ \E m \in Members : AssignRole(m, r)
                               \/ \E code \in RoleCodes : UpdateRole(r, code)
         \/ \E m \in Members : RemoveMember(m)
  PROVE  Tame /\ UNCHANGED call
  <1>1. ASSUME NEW code \in Codes, CreatePosition(code) PROVE Tame /\ UNCHANGED call
    <2>1. PICK p \in PositionIds :
            /\ position[p].row = New
            /\ position' = [position EXCEPT ![p] = [row |-> "row", code |-> code, role |-> None]]
      BY <1>1 DEF CreatePosition
    <2>2. \A q \in PositionIds : position'[q].role # None => position[q].role = position'[q].role
      BY <2>1 DEF Sound, RowsSound, PTypeOK
    <2>3. QED
      BY <1>1, <2>2, Codeless DEF CreatePosition, history, Tame, Held
  <1>2. ASSUME NEW r \in RoleIds, DeleteRole(r) PROVE Tame /\ UNCHANGED call
    <2>1. \A q \in PositionIds, s \in RoleIds : position'[q].role = s => position[q].role = s /\ s # r
      BY <1>2, Codeless DEF DeleteRole, Sound, RowsSound, PTypeOK, Position
    <2>2. \A s \in RoleIds : role'[s] = New => role[s] = New
      BY <1>2, Codeless DEF DeleteRole, Sound, RowsSound, PTypeOK
    <2>3. QED
      BY <1>2, <2>1, <2>2 DEF DeleteRole, history, Tame, Held
  <1>3. ASSUME NEW r \in RoleIds, NEW m \in Members, AssignRole(m, r) PROVE Tame /\ UNCHANGED call
    BY <1>3 DEF AssignRole, Tame, Held
  <1>4. ASSUME NEW m \in Members, RemoveMember(m) PROVE Tame /\ UNCHANGED call
    BY <1>4 DEF RemoveMember, Tame, Held
  <1>5. ASSUME NEW r \in RoleIds, NEW code \in RoleCodes, UpdateRole(r, code)
        PROVE  Tame /\ UNCHANGED call
    <2>1. \A s \in RoleIds : role'[s] = New => role[s] = New
      BY <1>5, Codeless DEF UpdateRole, Sound, RowsSound, PTypeOK
    <2>2. QED
      BY <1>5, <2>1 DEF UpdateRole, Tame, Held
  <1>6. QED
    BY <1>1, <1>2, <1>3, <1>4, <1>5

LEMMA StepAgreeing == Sound /\ Agreeing /\ [Next]_vars => Agreeing'
  <1> SUFFICES ASSUME Sound, Agreeing, [Next]_vars PROVE Agreeing'
    OBVIOUS
  <1> DEFINE NoSet == \A e \in Calls : call'[e] = call[e] \/ call'[e].pc \notin InSet
  <1>1. ASSUME Tame, NoSet PROVE Agreeing'
    BY <1>1, TameAgreeing DEF Sound
  <1>2. ASSUME NEW c \in Calls, DCall(c), UNCHANGED pvars PROVE Agreeing'
    <2>1. NoSet
      BY <1>2, DepartmentStep DEF Sound, Stepped, Quiet
    <2>2. QED
      BY <1>1, <1>2, <2>1, UnchangedTame
  <1>3. ASSUME NEW c \in Calls, PCall(c) PROVE Agreeing'
    <2>1. ASSUME \E p \in PositionIds : \/ DeletePositionLookup(c, p) \/ PermitLookup(c, p)
                                        \/ \E code \in Codes : RenameLookup(c, p, code)
          PROVE  Agreeing'
      <3>1. UNCHANGED pvars /\ NoSet
        BY <2>1, LookupSound DEF Stepped
      <3>2. QED
        BY <1>1, <3>1, UnchangedTame
    <2>2. ASSUME NEW m \in Members, NEW P \in SUBSET PositionIds, SetLookup(c, m, P)
          PROVE  Agreeing'
      <3>1. UNCHANGED pvars /\ NoSet
        BY <2>2, CallStep DEF SetLookup, Begin, Sound, InSet
      <3>2. QED
        BY <1>1, <3>1, UnchangedTame
    <2>3. CASE SetAbort(c)
      <3>1. UNCHANGED pvars /\ NoSet
        BY <2>3, EndStep DEF SetAbort, Sound, Stepped, Quiet
      <3>2. QED
        BY <1>1, <3>1, UnchangedTame
    <2>4. CASE RenameCommit(c)
      <3>1. NoSet
        BY <2>4, EndStep DEF RenameCommit, Sound, Stepped, Quiet
      <3>2. QED
        BY <1>1, <2>4, <3>1, RenameTame
    <2>5. CASE DeletePositionCommit(c)
      <3>1. NoSet
        BY <2>5, EndStep DEF DeletePositionCommit, Sound, Stepped, Quiet
      <3>2. QED
        BY <1>1, <2>5, <3>1, DropTame
    <2>6. QED
      BY <1>3, <2>1, <2>2, <2>3, <2>4, <2>5, PermitAgreeing, SetStepAgreeing, SetCommitAgreeing DEF PCall
  <1>4. ASSUME \/ \E code \in Codes : CreatePosition(code)
               \/ \E r \in RoleIds : \/ DeleteRole(r)
                                     \/ \E m \in Members : AssignRole(m, r)
                                     \/ \E code \in RoleCodes : UpdateRole(r, code)
               \/ \E m \in Members : RemoveMember(m)
        PROVE  Agreeing'
    BY <1>1, <1>4, AtOnceTame
  <1>5. CASE UNCHANGED vars
    <2>1. UNCHANGED pvars /\ NoSet
      BY <1>5 DEF vars, shared
    <2>2. QED
      BY <1>1, <2>1, UnchangedTame
  <1>6. QED
    BY <1>2, <1>3, <1>4, <1>5 DEF Next, PNext

-----------------------------------------------------------------------------
(* Roles and their positions.                                              *)

Paired == RolesHaveOwners /\ CodesAgree

\* Most steps leave positions and roles as they are.
LEMMA PairedUnchanged ==
  ASSUME Paired, UNCHANGED <<position, role, stray, skewed>>
  PROVE  Paired'
  BY DEF Paired, RolesHaveOwners, CodesAgree, IsRole, RolesOf

LEMMA RenamePaired ==
  ASSUME Sound, Paired, NEW c \in Calls, RenameCommit(c)
  PROVE  Paired'
  <1> DEFINE p == call[c].p
             r == call[c].role
             code == call[c].code
             fits == Here(p) /\ ~Taken(code, p) /\ (r # None => IsRole(r) /\ ~RoleTaken(code, r))
  <1>1. /\ p \in PositionIds /\ r \in RoleIds \cup {None} /\ code \in Codes /\ UNCHANGED stray
        /\ r # None => \A q \in PositionIds : position[q].role = r => q = p
    BY DEF RenameCommit, At, Sound, CallsSound, RolesStay, ByRole
  <1>2. CASE fits
    <2>1. /\ position' = [position EXCEPT ![p].code = code]
          /\ role' = RenamedRole(r, code)
          /\ skewed' = IF r # position[p].role THEN skewed \cup RolesOf({p}) ELSE skewed
      BY <1>2 DEF RenameCommit
    <2>2. /\ \A q \in PositionIds : position'[q].role = position[q].role
          /\ \A q \in PositionIds \ {p} : position'[q] = position[q]
          /\ position'[p].code = code
      BY <1>1, <2>1 DEF Sound, RowsSound, PTypeOK, Position
    <2>3. /\ \A s \in RoleIds : IsRole(s)' => IsRole(s)
          /\ \A s \in RoleIds \ {r} : role'[s] = role[s]
          /\ r # None => role'[r] = code
      BY <1>1, <1>2, <2>1 DEF RenamedRole, Sound, RowsSound, PTypeOK, IsRole
    <2>4. RolesHaveOwners'
      BY <1>1, <2>2, <2>3 DEF Paired, RolesHaveOwners, RolesOf
    <2>5. CodesAgree'
      <3> SUFFICES ASSUME NEW q \in PositionIds, NEW s \in RoleIds, position[q].role = s, s \notin skewed'
                   PROVE  role'[s] = position'[q].code
        BY <2>2 DEF CodesAgree
      <3>1. CASE q = p
        <4>1. s = r
          BY <2>1, <3>1, Codeless DEF RolesOf
        <4>2. QED
          BY <2>2, <2>3, <3>1, <4>1, Codeless
      <3>2. CASE q # p
        <4>1. s # r /\ s \notin skewed
          BY <1>1, <2>1, <3>2, Codeless
        <4>2. QED
          BY <2>2, <2>3, <3>2, <4>1 DEF Paired, CodesAgree
      <3>3. QED
        BY <3>1, <3>2
    <2>6. QED
      BY <2>4, <2>5 DEF Paired
  <1>3. CASE ~fits
    <2>1. UNCHANGED <<position, role, stray, skewed>>
      BY <1>1, <1>3 DEF RenameCommit
    <2>2. QED
      BY <2>1, PairedUnchanged
  <1>4. QED
    BY <1>2, <1>3

LEMMA DropPaired ==
  ASSUME Sound, Paired, NEW c \in Calls, DeletePositionCommit(c)
  PROVE  Paired'
  <1> DEFINE p == call[c].p
             r == call[c].role
             fits == Here(p) /\ (r # None => IsRole(r))
  <1>1. /\ p \in PositionIds /\ r \in RoleIds \cup {None} /\ UNCHANGED skewed
        /\ r # None => \A q \in PositionIds : position[q].role = r => q = p
    BY DEF DeletePositionCommit, At, Sound, CallsSound, RolesStay, ByRole
  <1>2. CASE fits
    <2>1. /\ position' = [position EXCEPT ![p] = [NoPosition EXCEPT !.row = Gone]]
          /\ role' = RoleDropped(r)
          /\ stray' = stray \cup (RolesOf({p}) \ {r})
      BY <1>2 DEF DeletePositionCommit
    <2>2. /\ \A q \in PositionIds \ {p} : position'[q] = position[q]
          /\ position'[p].role = None
      BY <1>1, <2>1 DEF Sound, RowsSound, PTypeOK, Position, NoPosition
    <2>3. /\ \A s \in RoleIds \ {r} : role'[s] = role[s]
          /\ r # None => role'[r] = Gone
      BY <1>1, <2>1 DEF RoleDropped, Sound, RowsSound, PTypeOK
    <2>4. RolesHaveOwners'
      <3> SUFFICES ASSUME NEW s \in RoleIds, role'[s] \in RoleCodes, s \notin stray'
                   PROVE  \E q \in PositionIds : position'[q].role = s
        BY Codeless DEF RolesHaveOwners, IsRole, RolesOf
      <3>1. s # r /\ IsRole(s)
        BY <2>3, Codeless DEF IsRole
      <3>2. PICK q \in PositionIds : position[q].role = s
        BY <2>1, <3>1 DEF Paired, RolesHaveOwners, RolesOf
      <3>3. q # p
        BY <2>1, <3>1, <3>2, Codeless DEF RolesOf
      <3>4. QED
        BY <2>2, <3>2, <3>3
    <2>5. CodesAgree'
      <3> SUFFICES ASSUME NEW q \in PositionIds, NEW s \in RoleIds, position'[q].role = s, s \notin skewed
                   PROVE  role'[s] = position'[q].code
        BY <1>1 DEF CodesAgree
      <3>1. q # p /\ position[q].role = s /\ s # r
        BY <1>1, <2>2, Codeless
      <3>2. QED
        BY <2>2, <2>3, <3>1 DEF Paired, CodesAgree
    <2>6. QED
      BY <2>4, <2>5 DEF Paired
  <1>3. CASE ~fits
    <2>1. UNCHANGED <<position, role, stray, skewed>>
      BY <1>1, <1>3 DEF DeletePositionCommit
    <2>2. QED
      BY <2>1, PairedUnchanged
  <1>4. QED
    BY <1>2, <1>3

LEMMA PermitPaired ==
  ASSUME Sound, Paired, NEW c \in Calls, PermitCommit(c)
  PROVE  Paired'
  <1> DEFINE p == call[c].p
             code == call[c].code
  <1>1. p \in PositionIds /\ code \in Codes
    BY DEF PermitCommit, At, Sound, CallsSound, ByRole
  <1>2. ASSUME NEW r \in RoleIds, role[r] = New,
               role' = [role EXCEPT ![r] = code],
               position' = [position EXCEPT ![p].role = r],
               skewed' = IF code # position[p].code THEN skewed \cup {r} ELSE skewed,
               stray' = stray \cup RolesOf({p})
        PROVE  Paired'
    <2>1. /\ \A q \in PositionIds \ {p} : position'[q] = position[q]
          /\ position'[p].role = r /\ position'[p].code = position[p].code
      BY <1>1, <1>2 DEF Sound, RowsSound, PTypeOK, Position
    <2>2. /\ \A q \in PositionIds : position[q].role # r
          /\ role'[r] = code
          /\ \A s \in RoleIds \ {r} : role'[s] = role[s]
      BY <1>1, <1>2, Codeless, RoleOfRow DEF Sound, RowsSound, PTypeOK, IsRole
    <2>3. RolesHaveOwners'
      <3> SUFFICES ASSUME NEW s \in RoleIds, role'[s] \in RoleCodes, s \notin stray'
                   PROVE  \E q \in PositionIds : position'[q].role = s
        BY Codeless DEF RolesHaveOwners, IsRole, RolesOf
      <3>1. CASE s = r
        BY <1>1, <2>1, <3>1
      <3>2. CASE s # r
        <4>1. PICK q \in PositionIds : position[q].role = s
          BY <1>2, <2>2, <3>2 DEF Paired, RolesHaveOwners, RolesOf, IsRole
        <4>2. q # p
          BY <1>2, <4>1, Codeless DEF RolesOf
        <4>3. QED
          BY <2>1, <4>1, <4>2
      <3>3. QED
        BY <3>1, <3>2
    <2>4. CodesAgree'
      <3> SUFFICES ASSUME NEW q \in PositionIds, NEW s \in RoleIds, position'[q].role = s, s \notin skewed'
                   PROVE  role'[s] = position'[q].code
        BY DEF CodesAgree
      <3>1. CASE q = p
        BY <1>2, <2>1, <2>2, <3>1
      <3>2. CASE q # p
        BY <1>2, <2>1, <2>2, <3>2 DEF Paired, CodesAgree
      <3>3. QED
        BY <3>1, <3>2
    <2>5. QED
      BY <2>3, <2>4 DEF Paired
  <1>3. CASE UNCHANGED <<role, position, excused, skewed, stray>>
    BY <1>3, PairedUnchanged
  <1>4. QED
    BY <1>2, <1>3 DEF PermitCommit

LEMMA AtOncePaired ==
  ASSUME Sound, Paired,
         \/ \E code \in Codes : CreatePosition(code)
         \/ \E r \in RoleIds : DeleteRole(r) \/ \E code \in RoleCodes : UpdateRole(r, code)
  PROVE  Paired'
  <1>1. ASSUME NEW code \in Codes, CreatePosition(code) PROVE Paired'
    <2>1. PICK p \in PositionIds :
            /\ position[p].row = New
            /\ position' = [position EXCEPT ![p] = [row |-> "row", code |-> code, role |-> None]]
      BY <1>1 DEF CreatePosition
    <2>2. /\ position[p].role = None /\ position'[p].role = None
          /\ \A q \in PositionIds \ {p} : position'[q] = position[q]
      BY <2>1 DEF Sound, RowsSound, PTypeOK, Here, New
    <2>3. RolesHaveOwners'
      BY <1>1, <2>2 DEF CreatePosition, history, Paired, RolesHaveOwners, RolesOf, IsRole
    <2>4. CodesAgree'
      BY <1>1, <2>2, Codeless DEF CreatePosition, history, Paired, CodesAgree
    <2>5. QED
      BY <2>3, <2>4 DEF Paired
  <1>2. ASSUME NEW r \in RoleIds, DeleteRole(r) PROVE Paired'
    <2>1. \A q \in PositionIds : /\ position'[q].code = position[q].code
                                 /\ position'[q].role = IF position[q].role = r THEN None ELSE position[q].role
      BY <1>2 DEF DeleteRole, Sound, RowsSound, PTypeOK, Position
    <2>2. role'[r] = Gone /\ \A s \in RoleIds \ {r} : role'[s] = role[s]
      BY <1>2 DEF DeleteRole, Sound, RowsSound, PTypeOK
    <2>3. RolesHaveOwners'
      BY <1>2, <2>1, <2>2, Codeless DEF DeleteRole, history, Paired, RolesHaveOwners, RolesOf, IsRole
    <2>4. CodesAgree'
      BY <1>2, <2>1, <2>2, Codeless DEF DeleteRole, history, Paired, CodesAgree
    <2>5. QED
      BY <2>3, <2>4 DEF Paired
  \* The role stays, and is excepted by its new code.
  <1>3. ASSUME NEW r \in RoleIds, NEW code \in RoleCodes, UpdateRole(r, code) PROVE Paired'
    <2>1. \A s \in RoleIds \ {r} : role'[s] = role[s]
      BY <1>3 DEF UpdateRole, Sound, RowsSound, PTypeOK
    <2>2. RolesHaveOwners'
      BY <1>3, <2>1 DEF UpdateRole, Paired, RolesHaveOwners, RolesOf, IsRole
    <2>3. CodesAgree'
      BY <1>3, <2>1 DEF UpdateRole, Paired, CodesAgree
    <2>4. QED
      BY <2>2, <2>3 DEF Paired
  <1>4. QED
    BY <1>1, <1>2, <1>3

LEMMA StepPaired == Sound /\ Paired /\ [Next]_vars => Paired'
  <1> SUFFICES ASSUME Sound, Paired, [Next]_vars PROVE Paired'
    OBVIOUS
  <1>1. ASSUME NEW c \in Calls, PCall(c) PROVE Paired'
    <2>1. ASSUME \E p \in PositionIds : \/ DeletePositionLookup(c, p) \/ PermitLookup(c, p)
                                        \/ \E code \in Codes : RenameLookup(c, p, code)
          PROVE  Paired'
      BY <2>1, LookupSound, PairedUnchanged DEF pvars
    <2>2. ASSUME \/ \E m \in Members, P \in SUBSET PositionIds : SetLookup(c, m, P)
                 \/ SetReadCurrent(c) \/ SetReadNew(c) \/ SetClear(c) \/ SetAbort(c)
          PROVE  Paired'
      BY <2>2, SetStepSound, PairedUnchanged DEF pvars
    <2>3. CASE SetCommit(c)
      BY <2>3, PairedUnchanged DEF SetCommit
    <2>4. QED
      BY <1>1, <2>1, <2>2, <2>3, RenamePaired, DropPaired, PermitPaired DEF PCall
  <1>2. ASSUME NEW r \in RoleIds, NEW m \in Members, AssignRole(m, r) PROVE Paired'
    BY <1>2, PairedUnchanged DEF AssignRole
  <1>3. ASSUME NEW m \in Members, RemoveMember(m) PROVE Paired'
    BY <1>3, PairedUnchanged DEF RemoveMember
  <1>4. CASE UNCHANGED pvars
    BY <1>4, PairedUnchanged DEF pvars
  <1>5. UNCHANGED vars => UNCHANGED pvars
    BY DEF vars
  <1>6. QED
    BY <1>1, <1>2, <1>3, <1>4, <1>5, AtOncePaired DEF Next, PNext

LEMMA InitPaired == Init => Paired
  <1> SUFFICES ASSUME Init PROVE Paired
    OBVIOUS
  <1>1. Sound
    BY InitSound
  <1>2. ASSUME NEW r \in RoleIds, NEW p \in PositionIds, position[p].role = r
        PROVE  role[r] = position[p].code
    <2> DEFINE q == CHOOSE q \in {position[o] : o \in PositionIds} : q.role = r
    <2>1. q \in {position[o] : o \in PositionIds} /\ q.role = r
      BY <1>2
    <2>2. PICK o \in PositionIds : q = position[o]
      BY <2>1
    <2>3. o = p
      BY <1>1, <1>2, <2>1, <2>2, Codeless DEF Sound, RowsSound
    <2>4. role[r] = q.code
      BY <1>2 DEF Init, PInit
    <2>5. QED
      BY <2>2, <2>3, <2>4
  <1>3. ASSUME NEW r \in RoleIds, IsRole(r), ~ \E p \in PositionIds : position[p].role = r
        PROVE  FALSE
    BY <1>3, Codeless DEF Init, PInit, IsRole
  <1>4. QED
    BY <1>2, <1>3, Codeless DEF Paired, RolesHaveOwners, CodesAgree, RolesOf

-----------------------------------------------------------------------------
\* Positions, their roles and who holds them keep the shape of their tables:
\* every foreign key between them holds, whatever requests do at a time.
THEOREM PositionsTyped == Spec => []PTypeOK
  <1>1. Sound => PTypeOK
    BY DEF Sound, RowsSound
  <1>2. QED
    BY <1>1, InitSound, StepSound, PTL DEF Spec

\* A role made for a position is never left behind but by the two races that
\* RolesHaveOwners excepts.
THEOREM RolesOwned == Spec => []RolesHaveOwners
  <1>1. Paired => RolesHaveOwners
    BY DEF Paired
  <1>2. QED
    BY <1>1, InitSound, StepSound, InitPaired, StepPaired, PTL DEF Spec

\* A position and its role have one code, unless one of them was renamed or
\* made with what was read too early, or updateRole changed that of the role.
THEOREM CodesPaired == Spec => []CodesAgree
  <1>1. Paired => CodesAgree
    BY DEF Paired
  <1>2. QED
    BY <1>1, InitSound, StepSound, InitPaired, StepPaired, PTL DEF Spec

\* The assignments follow the positions of every member, outside the exceptions
\* of GrantsFollow, however setMemberPositions and the others interleave.
THEOREM GrantsFollowed == Spec => []GrantsFollow
  <1>1. Agreeing => GrantsFollow
    BY DEF Agreeing
  <1>2. QED
    BY <1>1, InitSound, StepSound, InitAgreeing, StepAgreeing, PTL DEF Spec

-----------------------------------------------------------------------------
(* Departments.                                                            *)

\* The prover's induction does not reach paths, so a tree is told by its knots: no
\* departments have all their parents among themselves.
Knot(T) == T # {} /\ \A x \in T : parent[x] \in T
Knotless == knotted \/ \A T \in SUBSET DepartmentIds : ~Knot(T)

\* What requests hold.
Parents == DepartmentIds \cup {None}
Deleting == {"reparent", "unassign", "delete"}
Opened == {"unassign", "delete"}
AboutDepartments == {"create", "move", "assign"} \cup Deleting
Fits(v) ==
  /\ v.pc \in {"create", "move"} => v.p \in Parents
  /\ v.pc \in {"move"} \cup Deleting => v.d \in DepartmentIds
  /\ v.pc \in Deleting => v.to \in Parents
  /\ v.pc \in Opened => v.kids \subseteq DepartmentIds
  /\ v.pc = "assign" => v.members \subseteq Members /\ v.d \in Parents
DCallsSound == \A c \in Calls : Fits(call[c])

\* The children that a deletion has moved stay under lock where they were, and where they
\* are to go stays; what else is below it came late.
KidsStay ==
  \A c \in Open :
    /\ \A k \in call[c].kids : parent[k] = call[c].d
    /\ call[c].kids # {} => Exists(call[c].to)
    /\ \A e \in Open : e # c => call[c].kids \cap call[e].kids = {}
OthersLate ==
  \A c \in Open : \A k \in DepartmentIds : parent[k] = call[c].d => k \in call[c].kids \cup late

Tables ==
  /\ member \in [Members -> DepartmentIds \cup {None, Gone}]
  /\ started \in 0..MaxCalls
  /\ Owners \subseteq {m \in Members : In(m)}
  /\ DTypeOK
Wooded == KidsStay /\ OthersLate /\ Knotless /\ LostOnlyIfLate
Departed == DCallsSound /\ Tables /\ Wooded

LEMMA Ids ==
  /\ None \notin DepartmentIds /\ New \notin Parents /\ Gone \notin Parents
  /\ New # Gone /\ MaxCalls \in Nat /\ Owners \subseteq Members
  BY OrgAssumption DEF New, Gone, Parents

\* What Reach returns is the least set that holds S and is closed.
LEMMA ReachLeast ==
  ASSUME NEW S \in SUBSET DepartmentIds, NEW next \in [DepartmentIds -> SUBSET DepartmentIds]
  PROVE  /\ S \subseteq Reach(S, next) /\ Reach(S, next) \in SUBSET DepartmentIds
         /\ \A x \in Reach(S, next) : next[x] \subseteq Reach(S, next)
         /\ \A T \in SUBSET DepartmentIds :
              S \subseteq T /\ (\A x \in T : next[x] \subseteq T) => Reach(S, next) \subseteq T
  <1>1. ASSUME NEW x \in Reach(S, next), NEW y \in next[x] PROVE y \in Reach(S, next)
    <2>1. x \in DepartmentIds /\ y \in DepartmentIds
      BY <1>1 DEF Reach
    <2> SUFFICES ASSUME NEW T \in SUBSET DepartmentIds, S \subseteq T, \A z \in T : next[z] \subseteq T
                 PROVE  y \in T
      BY <2>1 DEF Reach
    <2>2. x \in T
      BY <1>1 DEF Reach
    <2> QED
      BY <1>1, <2>2
  <1>2. S \subseteq Reach(S, next) /\ Reach(S, next) \in SUBSET DepartmentIds
    BY DEF Reach
  <1>3. \A T \in SUBSET DepartmentIds :
          S \subseteq T /\ (\A x \in T : next[x] \subseteq T) => Reach(S, next) \subseteq T
    BY DEF Reach
  <1> QED
    BY <1>1, <1>2, <1>3

\* Where departments have no knot they are a tree, and the other way round.
LEMMA AboveLeast ==
  ASSUME NEW d \in DepartmentIds
  PROVE  /\ d \in Above(d) /\ Above(d) \in SUBSET DepartmentIds
         /\ \A x \in Above(d) : parent[x] \in DepartmentIds => parent[x] \in Above(d)
         /\ \A T \in SUBSET DepartmentIds :
              d \in T /\ (\A x \in T : parent[x] \in DepartmentIds => parent[x] \in T) => Above(d) \subseteq T
  <1> DEFINE next == [x \in DepartmentIds |-> {parent[x]} \cap DepartmentIds]
  <1>1. next \in [DepartmentIds -> SUBSET DepartmentIds] /\ Above(d) = Reach({d}, next)
    BY DEF Above
  <1>2. \A x \in DepartmentIds : next[x] = {parent[x]} \cap DepartmentIds
    OBVIOUS
  <1> HIDE DEF next
  <1>3. {d} \in SUBSET DepartmentIds
    OBVIOUS
  <1>4. /\ d \in Above(d) /\ Above(d) \in SUBSET DepartmentIds
        /\ \A x \in Above(d) : next[x] \subseteq Above(d)
        /\ \A T \in SUBSET DepartmentIds :
             {d} \subseteq T /\ (\A x \in T : next[x] \subseteq T) => Above(d) \subseteq T
    BY <1>1, <1>3, ReachLeast
  <1>5. \A x \in Above(d) : parent[x] \in DepartmentIds => parent[x] \in Above(d)
    BY <1>2, <1>4
  <1>6. ASSUME NEW T \in SUBSET DepartmentIds, d \in T,
               \A x \in T : parent[x] \in DepartmentIds => parent[x] \in T
        PROVE  Above(d) \subseteq T
    <2>1. \A x \in T : next[x] \subseteq T
      BY <1>2, <1>6
    <2> QED
      BY <1>4, <1>6, <2>1
  <1> QED
    BY <1>4, <1>5, <1>6

LEMMA KnotlessTree ==
  ASSUME Tables, Knotless
  PROVE  TreeUnlessKnotted
  <1> SUFFICES ASSUME ~knotted, NEW d \in DepartmentIds, Row(d)
               PROVE  \E x \in Above(d) : parent[x] = None
    BY DEF TreeUnlessKnotted
  <1>1. \A x \in DepartmentIds : Row(x) => parent[x] = None \/ (parent[x] \in DepartmentIds /\ Row(parent[x]))
    BY DEF Tables, DTypeOK, Exists
  <1>2. Above(d) \subseteq {x \in DepartmentIds : Row(x)}
    <2> DEFINE T == {x \in DepartmentIds : Row(x)}
    <2>1. d \in T /\ T \in SUBSET DepartmentIds /\ \A x \in T : parent[x] \in DepartmentIds => parent[x] \in T
      BY <1>1, Ids
    <2> QED
      BY <2>1, AboveLeast
  <1>3. ~Knot(Above(d))
    BY AboveLeast DEF Knotless
  <1>4. PICK x \in Above(d) : parent[x] \notin Above(d)
    BY <1>3, AboveLeast DEF Knot
  <1> QED
    BY <1>1, <1>2, <1>4, AboveLeast

LEMMA InitDeparted == Init => Departed
  <1> SUFFICES ASSUME Init PROVE Departed
    OBVIOUS
  <1>1. call = [c \in Calls |-> Idle] /\ started = 0 /\ DInit
    BY DEF Init
  <1>2. DCallsSound
    BY <1>1 DEF DCallsSound, Fits, Idle, Deleting, Opened
  <1>3. Tables
    <2>1. /\ parent \in [DepartmentIds -> DepartmentIds \cup {None, New, Gone}]
          /\ \A d \in DepartmentIds : Row(d) => Exists(parent[d])
          /\ lost \cup late \subseteq DepartmentIds /\ knotted \in BOOLEAN
      BY <1>1 DEF DInit
    <2>2. \A m \in Members : member[m] \in Parents /\ Exists(member[m]) /\ In(m)
      BY <1>1, Ids DEF DInit, In, Exists, Parents
    <2>3. member \in [Members -> DepartmentIds \cup {None, Gone}]
      BY <1>1 DEF DInit
    <2> QED
      BY <1>1, <2>1, <2>2, <2>3, Ids DEF Tables, DTypeOK
  <1>4. Open = {}
    BY <1>1 DEF Open, Idle
  <1>5. ASSUME NEW T \in SUBSET DepartmentIds, Knot(T) PROVE FALSE
    <2>1. PICK d \in T : TRUE
      BY <1>5 DEF Knot
    <2>2. Row(d) /\ Above(d) \subseteq T
      BY <1>5, AboveLeast, Ids DEF Knot, Row, Parents
    <2>3. PICK x \in Above(d) : parent[x] = None
      BY <1>1, <2>2 DEF DInit
    <2> QED
      BY <1>5, <2>2, <2>3, Ids DEF Knot
  <1> QED
    BY <1>1, <1>2, <1>3, <1>4, <1>5 DEF Departed, Wooded, KidsStay, OthersLate, Knotless, LostOnlyIfLate, DInit

-----------------------------------------------------------------------------
(* Steps of departments.                                                   *)

\* A step that leaves the departments alone, and in which no deletion begins to change rows.
LEMMA RestDeparted ==
  ASSUME Departed, Tables', UNCHANGED dvars,
         \A e \in Calls : call'[e] = call[e] \/ (Fits(call'[e]) /\ call'[e].pc \notin Opened)
  PROVE  Departed'
  <1>1. /\ Open' \subseteq Open
        /\ \A e \in Open' : call'[e] = call[e]
    BY DEF Open, Opened
  <1>2. DCallsSound'
    BY DEF Departed, DCallsSound
  <1>3. \A p : Exists(p)' <=> Exists(p)
    BY DEF Exists, Row, dvars
  <1>4. KidsStay'
    BY <1>1, <1>3 DEF Departed, Wooded, KidsStay, dvars
  <1>5. OthersLate'
    BY <1>1 DEF Departed, Wooded, OthersLate, dvars
  <1>6. Knotless' /\ LostOnlyIfLate'
    BY DEF Departed, Wooded, Knotless, Knot, LostOnlyIfLate, dvars
  <1> QED
    BY <1>2, <1>4, <1>5, <1>6 DEF Departed, Wooded

\* A row is put under p, by a request that ends.
LEMMA PutDeparted ==
  ASSUME Departed, CallsSound, NEW c \in Calls, End(c),
         NEW d \in DepartmentIds, NEW p, Exists(p), parent[d] # Gone,
         \A e \in Open : d \notin call[e].kids,
         parent' = [parent EXCEPT ![d] = p], Arrives(d, p), UNCHANGED <<member, lost>>,
         knotted' \in BOOLEAN, knotted => knotted', Knotless'
  PROVE  Departed'
  <1>0. Tables /\ KidsStay /\ OthersLate /\ LostOnlyIfLate /\ DCallsSound
    BY DEF Departed, Wooded
  <1>1. /\ \A e \in Calls : call'[e] = call[e] \/ call'[e] = Idle
        /\ Open' \subseteq Open
        /\ \A e \in Open' : call'[e] = call[e]
    BY CallStep DEF End, Finish, Open, Idle
  <1>2. /\ parent'[d] = p /\ \A k \in DepartmentIds \ {d} : parent'[k] = parent[k]
        /\ parent' \in [DepartmentIds -> DepartmentIds \cup {None, New, Gone}]
    BY <1>0 DEF Tables, DTypeOK, Exists
  <1>3. p \in Parents
    BY DEF Exists, Parents
  <1>4. \A k \in DepartmentIds : Row(k)' <=> Row(k) \/ k = d
    BY <1>2, <1>3, Ids DEF Row, Parents
  <1>5. \A q : Exists(q) => Exists(q)'
    BY <1>4 DEF Exists
  <1>6. late \subseteq late' /\ late' \subseteq late \cup {d}
    BY DEF Arrives
  <1>7. Tables'
    <2>2. \A k \in DepartmentIds : Row(k)' => Exists(parent[k])'
      BY <1>0, <1>2, <1>4, <1>5 DEF Tables, DTypeOK, Row
    <2>3. \A m \in Members : In(m)' => Exists(member[m])'
      BY <1>0, <1>5 DEF Tables, DTypeOK, In
    <2>4. started' \in 0..MaxCalls /\ Owners \subseteq {m \in Members : In(m)'}
      BY <1>0 DEF Tables, End, In
    <2> QED
      BY <1>0, <1>2, <1>6, <2>2, <2>3, <2>4 DEF Tables, DTypeOK
  <1>8. DCallsSound'
    BY <1>0, <1>1 DEF DCallsSound, Fits, Idle, Deleting, Opened
  <1>9. KidsStay'
    <2>1. \A e \in Open : call[e].kids \subseteq DepartmentIds
      BY <1>0 DEF DCallsSound, Fits, Open, Opened
    <2> QED
      BY <1>0, <1>1, <1>2, <1>5, <2>1 DEF KidsStay
  <1>10. OthersLate'
    <2> SUFFICES ASSUME NEW e \in Open', NEW k \in DepartmentIds, parent'[k] = call[e].d
                 PROVE  k \in call[e].kids \cup late'
      BY <1>1 DEF OthersLate
    <2>1. CASE k = d
      BY <1>1, <1>2, <2>1 DEF Arrives
    <2>2. CASE k # d
      BY <1>0, <1>1, <1>2, <1>6, <2>2 DEF OthersLate
    <2> QED
      BY <2>1, <2>2
  <1>11. LostOnlyIfLate'
    BY <1>0, <1>6 DEF LostOnlyIfLate
  <1> QED
    BY <1>7, <1>8, <1>9, <1>10, <1>11 DEF Departed, Wooded

\* A new row has no children, so no knot comes with it.
LEMMA CreateDeparted ==
  ASSUME Departed, CallsSound, NEW c \in Calls, CreateInsert(c)
  PROVE  Departed'
  <1> DEFINE p == call[c].p
  <1>0. Tables /\ Knotless /\ KidsStay /\ DCallsSound
    BY DEF Departed, Wooded
  <1>1. CASE ~Exists(p)
    <2>1. \A e \in Calls : call'[e] = call[e] \/ call'[e] = Idle
      BY CallStep DEF CreateInsert, End, Finish
    <2>2. UNCHANGED <<member, dvars, started>>
      BY <1>1 DEF CreateInsert, End, dvars
    <2>3. Tables'
      BY <1>0, <2>2 DEF Tables, DTypeOK, In, Row, Exists, dvars
    <2> QED
      BY <2>1, <2>2, <2>3, RestDeparted DEF Fits, Idle, Deleting, Opened
  <1>2. CASE Exists(p)
    <2>1. PICK d \in DepartmentIds :
            /\ parent[d] = New /\ parent' = [parent EXCEPT ![d] = p] /\ Arrives(d, p)
      BY <1>2 DEF CreateInsert
    <2>2. /\ End(c) /\ UNCHANGED <<member, lost, knotted>>
      BY DEF CreateInsert
    <2>3. \A k \in DepartmentIds : parent[k] # d
      BY <1>0, <2>1, Ids DEF Tables, DTypeOK, Row, Exists, Parents
    <2>4. \A e \in Open : d \notin call[e].kids
      BY <1>0, <2>1, Ids DEF KidsStay, DCallsSound, Fits, Open, Deleting, Parents
    <2>5. Knotless'
      <3> SUFFICES ASSUME ~knotted, NEW T \in SUBSET DepartmentIds, T # {}, \A x \in T : parent'[x] \in T
                   PROVE  FALSE
        BY <2>2 DEF Knotless, Knot
      <3>1. p # d
        BY <1>2, <2>1, Ids DEF Exists, Row
      <3>2. /\ parent'[d] = p /\ \A k \in DepartmentIds \ {d} : parent'[k] = parent[k]
        BY <1>0, <2>1 DEF Tables, DTypeOK
      <3>3. Knot(T \ {d})
        BY <2>3, <3>1, <3>2 DEF Knot
      <3> QED
        BY <1>0, <3>3 DEF Knotless
    <2>6. parent[d] # Gone /\ knotted' \in BOOLEAN
      BY <1>0, <2>1, <2>2, Ids DEF Tables, DTypeOK
    <2> QED
      BY <1>2, <2>1, <2>2, <2>4, <2>5, <2>6, PutDeparted
  <1> QED
    BY <1>1, <1>2

\* A department that is moved below none of its own makes no knot: what is above its new
\* parent would be one already.
LEMMA MoveDeparted ==
  ASSUME Departed, CallsSound, NEW c \in Calls, MoveUpdate(c)
  PROVE  Departed'
  <1> DEFINE d == call[c].d
             p == call[c].p
  <1>0. /\ Tables /\ Knotless /\ DCallsSound
        /\ d \in DepartmentIds
    BY DEF Departed, Wooded, DCallsSound, Fits, MoveUpdate, At
  <1>1. CASE ~(Row(d) /\ Exists(p))
    <2>1. \A e \in Calls : call'[e] = call[e] \/ call'[e] = Idle
      BY CallStep DEF MoveUpdate, End, Finish
    <2>2. UNCHANGED <<member, parent, lost, late, started>> /\ knotted' = (knotted \/ FALSE)
      BY <1>1 DEF MoveUpdate, End
    <2>3. UNCHANGED <<member, dvars, started>>
      BY <1>0, <2>2 DEF dvars, Tables, DTypeOK
    <2>4. Tables'
      BY <1>0, <2>3 DEF Tables, DTypeOK, In, Row, Exists, dvars
    <2> QED
      BY <2>1, <2>3, <2>4, RestDeparted DEF Fits, Idle, Deleting, Opened
  <1>2. CASE Row(d) /\ Exists(p)
    <2>1. /\ parent' = [parent EXCEPT ![d] = p] /\ Arrives(d, p)
          /\ knotted' = (knotted \/ (p # None /\ d \in Above(p)))
          /\ End(c) /\ UNCHANGED <<member, lost>> /\ Moved(d) = {}
      BY <1>2 DEF MoveUpdate
    <2>2. \A e \in Open : d \notin call[e].kids
      BY <2>1 DEF Moved
    <2>3. /\ parent'[d] = p /\ \A k \in DepartmentIds \ {d} : parent'[k] = parent[k]
      BY <1>0, <2>1 DEF Tables, DTypeOK
    <2>4. Knotless'
      <3> SUFFICES ASSUME ~knotted', NEW T \in SUBSET DepartmentIds, T # {}, \A x \in T : parent'[x] \in T
                   PROVE  FALSE
        BY DEF Knotless, Knot
      <3>1. ~knotted /\ \A U \in SUBSET DepartmentIds : ~Knot(U)
        BY <1>0, <2>1 DEF Knotless
      <3>2. CASE d \notin T
        <4>1. Knot(T)
          BY <2>3, <3>2 DEF Knot
        <4> QED
          BY <3>1, <4>1
      <3>3. CASE d \in T
        <4>1. p \in T /\ d \notin Above(p)
          BY <2>1, <2>3, <3>3, Ids
        <4>2. /\ p \in Above(p)
              /\ \A x \in Above(p) : parent[x] \in DepartmentIds => parent[x] \in Above(p)
          BY <4>1, AboveLeast
        <4>3. Knot(T \cap Above(p))
          BY <2>3, <4>1, <4>2 DEF Knot
        <4> QED
          BY <3>1, <4>3
      <3> QED
        BY <3>2, <3>3
    <2>5. parent[d] # Gone /\ knotted' \in BOOLEAN /\ (knotted => knotted')
      BY <1>0, <1>2, <2>1 DEF Tables, DTypeOK, Row
    <2> QED
      BY <1>0, <1>2, <2>1, <2>2, <2>4, <2>5, PutDeparted
  <1> QED
    BY <1>1, <1>2

LEMMA AssignDeparted ==
  ASSUME Departed, CallsSound, NEW c \in Calls, AssignUpdate(c)
  PROVE  Departed'
  <1>1. \A e \in Calls : call'[e] = call[e] \/ call'[e] = Idle
    BY CallStep DEF AssignUpdate, End, Finish
  <1>2. Tables /\ UNCHANGED <<dvars, started>>
    BY DEF AssignUpdate, End, Departed
  <1>3. \A p : Exists(p)' <=> Exists(p)
    BY <1>2 DEF Exists, Row, dvars
  <1>4. /\ \A m \in Members : \/ member'[m] = member[m]
                              \/ In(m) /\ member'[m] = call[c].d /\ Exists(call[c].d)
        /\ member' = [m \in Members |-> member'[m]]
    BY <1>2 DEF AssignUpdate, Tables
  <1>5. \A m \in Members : /\ member'[m] \in DepartmentIds \cup {None, Gone}
                           /\ In(m) => In(m)'
                           /\ In(m)' => Exists(member[m])'
    BY <1>2, <1>3, <1>4, Ids DEF Tables, DTypeOK, In, Exists, Parents
  <1>6. member' \in [Members -> DepartmentIds \cup {None, Gone}]
    BY <1>4, <1>5
  <1>7. DTypeOK'
    BY <1>2, <1>3, <1>5 DEF Tables, DTypeOK, dvars, Row
  <1>8. Tables'
    BY <1>2, <1>5, <1>6, <1>7, Ids DEF Tables
  <1> QED
    BY <1>1, <1>2, <1>8, RestDeparted DEF Fits, Idle, Deleting, Opened

\* A deletion moves the children there are: no other has moved one of them.
LEMMA ReparentDeparted ==
  ASSUME Departed, CallsSound, NEW c \in Calls, DeleteReparent(c)
  PROVE  Departed'
  <1> DEFINE d == call[c].d
             kids == {k \in DepartmentIds : parent[k] = d}
             v == [pc |-> "unassign", d |-> d, to |-> call[c].to, kids |-> kids]
  <1>0. /\ Tables /\ Knotless /\ DCallsSound /\ KidsStay /\ OthersLate /\ LostOnlyIfLate
        /\ d \in DepartmentIds /\ call[c].to \in Parents /\ c \notin Open
    BY DEF Departed, Wooded, DCallsSound, Fits, DeleteReparent, At, Deleting, Open
  <1>1. /\ UNCHANGED <<member, dvars, started>>
        /\ \A e \in Calls \ {c} : call'[e] = call[e]
        /\ \A k \in kids : Moved(k) = {}
    BY CallStep DEF DeleteReparent, Continue, End, Finish
  <1>2. Tables'
    BY <1>0, <1>1 DEF Tables, DTypeOK, In, Row, Exists, dvars
  <1>3. CASE call'[c] = Idle
    BY <1>1, <1>2, <1>3, RestDeparted DEF Fits, Idle, Deleting, Opened
  <1>4. CASE call'[c] = v /\ (kids = {} \/ Exists(call[c].to))
    <2>1. /\ Open' = Open \cup {c}
          /\ \A e \in Open : call'[e] = call[e]
      BY <1>0, <1>1, <1>4 DEF Open
    <2>2. DCallsSound'
      BY <1>0, <1>1, <1>4 DEF DCallsSound, Fits, Deleting, Opened
    <2>3. \A p : Exists(p)' <=> Exists(p)
      BY <1>1 DEF Exists, Row, dvars
    <2>4. \A e \in Open : call[e].kids \cap kids = {}
      BY <1>1 DEF Moved
    <2>5. KidsStay'
      BY <1>0, <1>1, <1>4, <2>1, <2>3, <2>4 DEF KidsStay, dvars
    <2>6. OthersLate'
      BY <1>0, <1>1, <1>4, <2>1 DEF OthersLate, dvars
    <2>7. Knotless' /\ LostOnlyIfLate'
      BY <1>0, <1>1 DEF Knotless, Knot, LostOnlyIfLate, dvars
    <2> QED
      BY <1>2, <2>2, <2>5, <2>6, <2>7 DEF Departed, Wooded
  <1>5. call'[c] = Idle \/ (call'[c] = v /\ (kids = {} \/ Exists(call[c].to)))
    BY CallStep DEF DeleteReparent, Continue, End, Finish
  <1> QED
    BY <1>3, <1>4, <1>5

LEMMA UnassignDeparted ==
  ASSUME Departed, CallsSound, NEW c \in Calls, DeleteUnassign(c)
  PROVE  Departed'
  <1>0. /\ Tables /\ Knotless /\ DCallsSound /\ KidsStay /\ OthersLate /\ LostOnlyIfLate
        /\ c \in Open
    BY DEF Departed, Wooded, DeleteUnassign, At, Open
  <1>1. /\ UNCHANGED <<member, dvars, started>>
        /\ \A e \in Calls \ {c} : call'[e] = call[e]
        /\ call'[c] = [pc |-> "delete", d |-> call[c].d, to |-> call[c].to, kids |-> call[c].kids,
                       members |-> {m \in Members : member[m] = call[c].d}]
    BY CallStep DEF DeleteUnassign, Continue
  <1>2. Tables'
    BY <1>0, <1>1 DEF Tables, DTypeOK, In, Row, Exists, dvars
  <1>3. /\ Open' = Open
        /\ \A e \in Open : /\ call'[e].d = call[e].d /\ call'[e].to = call[e].to
                           /\ call'[e].kids = call[e].kids
    BY <1>0, <1>1 DEF Open
  <1>4. DCallsSound'
    BY <1>0, <1>1 DEF DCallsSound, Fits, Deleting, Opened, Open
  <1>5. \A p : Exists(p)' <=> Exists(p)
    BY <1>1 DEF Exists, Row, dvars
  <1>6. KidsStay'
    BY <1>0, <1>1, <1>3, <1>5 DEF KidsStay, dvars
  <1>7. OthersLate'
    BY <1>0, <1>1, <1>3 DEF OthersLate, dvars
  <1>8. Knotless' /\ LostOnlyIfLate'
    BY <1>0, <1>1 DEF Knotless, Knot, LostOnlyIfLate, dvars
  <1> QED
    BY <1>2, <1>4, <1>6, <1>7, <1>8 DEF Departed, Wooded

\* What the cascade takes: the department, and all that is below what it takes.
LEMMA CascadeClosed ==
  ASSUME NEW c \in Calls, call[c].d \in DepartmentIds
  PROVE  /\ call[c].d \in Cascade(c) /\ Cascade(c) \in SUBSET DepartmentIds
         /\ \A y \in DepartmentIds : Remaining(c)[y] \in Cascade(c) => y \in Cascade(c)
  <1> DEFINE S == {call[c].d}
             next == [x \in DepartmentIds |-> {y \in DepartmentIds : Remaining(c)[y] = x}]
  <1>1. next \in [DepartmentIds -> SUBSET DepartmentIds] /\ Cascade(c) = Reach(S, next)
    BY DEF Cascade
  <1>2. \A x, y \in DepartmentIds : Remaining(c)[y] = x => y \in next[x]
    OBVIOUS
  <1>3. S \in SUBSET DepartmentIds /\ call[c].d \in S
    OBVIOUS
  <1> HIDE DEF S, next
  <1>4. /\ call[c].d \in Cascade(c) /\ Cascade(c) \in SUBSET DepartmentIds
        /\ \A x \in Cascade(c) : next[x] \subseteq Cascade(c)
    BY <1>1, <1>3, ReachLeast
  <1> QED
    BY <1>2, <1>4

\* A department is deleted with what came late; its other children go where it was, so a
\* knot of the rows that remain would have been one with it.
LEMMA CommitDeparted ==
  ASSUME Departed, CallsSound, NEW c \in Calls, DeleteCommit(c)
  PROVE  Departed'
  <1> DEFINE d == call[c].d
             to == call[c].to
             kids == call[c].kids
             gone == Cascade(c)
             rest == Remaining(c)
  <1>0. /\ Tables /\ Knotless /\ DCallsSound /\ KidsStay /\ OthersLate /\ LostOnlyIfLate
        /\ d \in DepartmentIds /\ to \in Parents /\ kids \subseteq DepartmentIds
        /\ c \in Open /\ Row(d)
    BY DEF Departed, Wooded, DCallsSound, Fits, DeleteCommit, At, Deleting, Opened, Open
  <1>1. /\ parent' = [k \in DepartmentIds |-> IF k \in gone THEN Gone ELSE rest[k]]
        /\ member' = [m \in Members |-> IF member[m] \in gone THEN None ELSE member[m]]
        /\ lost' = lost \cup {k \in gone \ {d} : rest[k] = d}
        /\ knotted' = (knotted \/ (kids # {} /\ parent[d] # to))
        /\ late' = IF \E e \in Open \ {c} : call[e].d = to THEN late \cup kids ELSE late
        /\ End(c) /\ Blockers(c) = {}
    BY DEF DeleteCommit
  <1>2. /\ d \in gone /\ gone \subseteq DepartmentIds
        /\ \A y \in DepartmentIds : rest[y] \in gone => y \in gone
    BY <1>0, CascadeClosed
  <1>3. \A k \in DepartmentIds : rest[k] = IF k \in kids THEN to ELSE parent[k]
    BY DEF Remaining
  <1>4. /\ \A k \in kids : parent[k] = d /\ Row(k) /\ Exists(to)
        /\ \A e \in Open \ {c} : kids \cap call[e].kids = {}
    BY <1>0, Ids DEF KidsStay, Row, Parents
  <1> HIDE DEF gone, rest
  <1>5. /\ \A e \in Calls : call'[e] = call[e] \/ call'[e] = Idle
        /\ Open' \subseteq Open \ {c}
        /\ \A e \in Open' : call'[e] = call[e]
    BY <1>1, CallStep DEF End, Finish, Open, Idle
  <1>6. DCallsSound'
    BY <1>0, <1>5 DEF DCallsSound, Fits, Idle, Deleting, Opened
  <1>7. /\ late \subseteq late' /\ late' \subseteq late \cup kids /\ (knotted => knotted')
        /\ knotted' \in BOOLEAN
    BY <1>0, <1>1 DEF Tables, DTypeOK
  \* The rows that remain, and what they name.
  <1>8. \A k \in DepartmentIds : /\ rest[k] \in DepartmentIds \cup {None, New, Gone}
                                 /\ Row(k) <=> rest[k] \notin {New, Gone}
                                 /\ Row(k) => Exists(rest[k])
    BY <1>0, <1>3, <1>4, Ids DEF Tables, DTypeOK, Row, Parents
  <1>9. /\ parent' \in [DepartmentIds -> DepartmentIds \cup {None, New, Gone}]
        /\ \A k \in DepartmentIds : Row(k)' <=> Row(k) /\ k \notin gone
    BY <1>1, <1>8 DEF Row
  <1>10. \A q : Exists(q) /\ q \notin gone => Exists(q)'
    BY <1>9 DEF Exists
  <1>11. Tables'
    <2>1. \A k \in DepartmentIds : Row(k)' => Exists(parent[k])'
      BY <1>1, <1>2, <1>8, <1>9, <1>10
    <2>2. \A m \in Members : /\ member'[m] \in DepartmentIds \cup {None, Gone}
                             /\ In(m) <=> In(m)'
                             /\ In(m)' => Exists(member[m])'
      BY <1>0, <1>1, <1>2, <1>10, Ids DEF Tables, DTypeOK, In, Exists, Parents
    <2>3. member' \in [Members -> DepartmentIds \cup {None, Gone}]
      BY <1>1, <2>2
    <2>4. lost' \cup late' \subseteq DepartmentIds
      BY <1>0, <1>1, <1>2, <1>7 DEF Tables, DTypeOK
    <2> QED
      BY <1>0, <1>1, <1>7, <1>9, <2>1, <2>2, <2>3, <2>4 DEF Tables, DTypeOK, End
  <1>12. KidsStay'
    <2> SUFFICES ASSUME NEW e \in Open'
                 PROVE  /\ \A k \in call[e].kids : parent'[k] = call[e].d
                        /\ call[e].kids # {} => Exists(call[e].to)'
                        /\ \A f \in Open' : f # e => call[e].kids \cap call[f].kids = {}
      BY <1>5 DEF KidsStay
    <2>1. /\ e \in Open \ {c} /\ call[e].kids \subseteq DepartmentIds
          /\ call[e].kids \cap gone = {}
          /\ call[e].kids # {} => call[e].to \notin gone
      BY <1>0, <1>1, <1>5 DEF Blockers, DCallsSound, Fits, Open, Opened, gone
    <2>2. \A k \in call[e].kids : parent'[k] = parent[k]
      BY <1>1, <1>3, <1>4, <2>1
    <2> QED
      BY <1>0, <1>5, <1>10, <2>1, <2>2 DEF KidsStay
  <1>13. OthersLate'
    <2> SUFFICES ASSUME NEW e \in Open', NEW k \in DepartmentIds, parent'[k] = call[e].d
                 PROVE  k \in call[e].kids \cup late'
      BY <1>5 DEF OthersLate
    <2>1. e \in Open \ {c} /\ call[e].d \in DepartmentIds
      BY <1>0, <1>5 DEF DCallsSound, Fits, Open, Deleting
    <2>2. rest[k] = call[e].d
      BY <1>1, <2>1, Ids DEF Parents
    <2>3. CASE k \in kids
      BY <1>1, <1>3, <2>1, <2>2, <2>3
    <2>4. CASE k \notin kids
      BY <1>0, <1>3, <1>7, <2>1, <2>2, <2>4 DEF OthersLate
    <2> QED
      BY <2>3, <2>4
  <1>14. Knotless'
    <2> SUFFICES ASSUME ~knotted', NEW T \in SUBSET DepartmentIds, T # {}, \A x \in T : parent'[x] \in T
                 PROVE  FALSE
      BY DEF Knotless, Knot
    <2>1. /\ \A U \in SUBSET DepartmentIds : ~Knot(U)
          /\ kids # {} => parent[d] = to
      BY <1>0, <1>1 DEF Knotless
    <2>2. \A x \in T : rest[x] \in T
      BY <1>1, Ids DEF Parents
    <2>3. CASE T \cap kids = {}
      <3>1. Knot(T)
        BY <1>3, <2>2, <2>3 DEF Knot
      <3> QED
        BY <2>1, <3>1
    <2>4. CASE T \cap kids # {}
      <3>1. Knot(T \cup {d})
        BY <1>0, <1>3, <1>4, <2>1, <2>2, <2>4 DEF Knot
      <3> QED
        BY <1>0, <2>1, <3>1
    <2> QED
      BY <2>3, <2>4
  <1>15. LostOnlyIfLate'
    <2> SUFFICES ASSUME ~knotted', NEW k \in gone, k # d, rest[k] = d
                 PROVE  k \in late'
      BY <1>0, <1>1, <1>7 DEF LostOnlyIfLate
    <2>1. CASE k \in kids
      <3>1. parent[d] = d
        BY <1>1, <1>2, <1>3, <2>1
      <3>2. Knot({d})
        BY <3>1 DEF Knot
      <3> QED
        BY <1>0, <1>7, <3>2 DEF Knotless
    <2>2. CASE k \notin kids
      BY <1>0, <1>2, <1>3, <1>7, <2>2 DEF OthersLate
    <2> QED
      BY <2>1, <2>2
  <1> QED
    BY <1>6, <1>11, <1>12, <1>13, <1>14, <1>15 DEF Departed, Wooded

LEMMA LookupDeparted ==
  ASSUME Departed, CallsSound, NEW c \in Calls, NEW v, Begin(c, v), UNCHANGED <<member, dvars>>,
         Fits(v), v.pc \notin Opened
  PROVE  Departed'
  <1>1. \A e \in Calls : call'[e] = call[e] \/ call'[e] = v
    BY CallStep DEF Begin
  <1>2. Tables'
    BY Ids DEF Departed, Tables, DTypeOK, In, Row, Exists, dvars, Begin, Request
  <1> QED
    BY <1>1, <1>2, RestDeparted

LEMMA DepartmentDeparted ==
  ASSUME Departed, CallsSound, NEW c \in Calls, DCall(c)
  PROVE  Departed'
  <1>0. Tables
    BY DEF Departed
  <1>1. ASSUME NEW p \in Parents, CreateLookup(c, p) PROVE Departed'
    BY <1>1, LookupDeparted DEF CreateLookup, Fits, Opened, Deleting
  <1>2. ASSUME NEW p \in Parents, NEW d \in DepartmentIds, MoveLookup(c, d, p) PROVE Departed'
    BY <1>2, LookupDeparted DEF MoveLookup, Fits, Opened, Deleting
  <1>3. ASSUME NEW M \in SUBSET Members, NEW d \in Parents, AssignLookup(c, M, d) PROVE Departed'
    BY <1>3, LookupDeparted DEF AssignLookup, Fits, Opened, Deleting
  <1>4. ASSUME NEW d \in DepartmentIds, DeleteLookup(c, d) PROVE Departed'
    <2>1. parent[d] \in Parents
      BY <1>0, <1>4 DEF Tables, DTypeOK, DeleteLookup, Exists, Parents
    <2> QED
      BY <1>4, <2>1, LookupDeparted DEF DeleteLookup, Fits, Opened, Deleting
  <1>5. ASSUME DeleteAbort(c) PROVE Departed'
    <2>1. \A e \in Calls : call'[e] = call[e] \/ call'[e] = Idle
      BY <1>5, CallStep DEF DeleteAbort, End, Finish
    <2>2. Tables' /\ UNCHANGED dvars
      BY <1>0, <1>5 DEF DeleteAbort, End, Tables, DTypeOK, In, Row, Exists, dvars
    <2> QED
      BY <2>1, <2>2, RestDeparted DEF Fits, Idle, Deleting, Opened
  <1> QED
    BY ONLY DCall(c), Departed, CallsSound, <1>1, <1>2, <1>3, <1>4, <1>5, CreateDeparted, MoveDeparted, AssignDeparted,
       ReparentDeparted, UnassignDeparted, CommitDeparted DEF DCall, Parents

\* Requests about positions, and what is done at once, leave the departments alone.
OfPositions == ByRole \cup InSet \cup {"current", "idle"}
LEMMA PositionDeparted ==
  ASSUME Departed, CallsSound, PNext, UNCHANGED dvars
  PROVE  Departed'
  <1> USE DEF OfPositions, ByRole, InSet, Idle
  <1>1. ASSUME NEW c \in Calls, PCall(c)
        PROVE  /\ \A e \in Calls : call'[e] = call[e] \/ call'[e].pc \in OfPositions
               /\ member' = member /\ (started' = started \/ Request)
    <2>1. ASSUME NEW v, call' = [call EXCEPT ![c] = v], v.pc \in OfPositions
          PROVE  \A e \in Calls : call'[e] = call[e] \/ call'[e].pc \in OfPositions
      BY <2>1, CallStep
    <2>2. ASSUME SetCommit(c)
          PROVE  \A e \in Calls : call'[e] = call[e] \/ call'[e].pc \in OfPositions
      <3>1. ASSUME NEW e \in Calls, At(e, "set"), NEW s PROVE [call[e] EXCEPT !.seen = s].pc = "set"
        BY <3>1 DEF CallsSound, SetCall, At
      <3> QED
        BY <2>2, <3>1 DEF SetCommit
    <2>3. CASE SetCommit(c)
      BY <2>2, <2>3 DEF SetCommit
    <2>4. CASE \E p \in PositionIds : DeletePositionLookup(c, p) \/ PermitLookup(c, p)
                 \/ \E code \in Codes : RenameLookup(c, p, code)
      BY <2>1, <2>4 DEF DeletePositionLookup, PermitLookup, RenameLookup, Begin
    <2>5. CASE \E m \in Members, P \in SUBSET PositionIds : SetLookup(c, m, P)
      BY <2>1, <2>5 DEF SetLookup, Begin
    <2>6. CASE RenameCommit(c) \/ DeletePositionCommit(c) \/ PermitCommit(c) \/ SetAbort(c)
      BY <2>1, <2>6 DEF RenameCommit, DeletePositionCommit, PermitCommit, SetAbort, End, Finish
    <2>7. CASE SetReadCurrent(c) \/ SetReadNew(c) \/ SetClear(c)
      BY <2>1, <2>7 DEF SetReadCurrent, SetReadNew, SetClear, Continue
    <2> QED
      BY <1>1, <2>3, <2>4, <2>5, <2>6, <2>7 DEF PCall
  <1>2. /\ \A e \in Calls : call'[e] = call[e] \/ call'[e].pc \in OfPositions
        /\ member' = member /\ (started' = started \/ Request)
    BY <1>1 DEF PNext, CreatePosition, DeleteRole, UpdateRole, AssignRole
  <1>3. Tables'
    BY <1>2, Ids DEF Departed, Tables, DTypeOK, In, Row, Exists, dvars, Request
  <1> QED
    BY <1>2, <1>3, RestDeparted DEF Fits, Deleting, Opened

LEMMA StepDeparted == Sound /\ Departed /\ [Next]_vars => Departed'
  <1> SUFFICES ASSUME Sound, Departed, [Next]_vars PROVE Departed'
    OBVIOUS
  <1>0. CallsSound /\ Tables
    BY DEF Sound, Departed
  <1>1. ASSUME NEW m \in Members, RemoveMember(m) PROVE Departed'
    <2>1. /\ call' = call /\ UNCHANGED dvars /\ Request
          /\ member' = [member EXCEPT ![m] = Gone] /\ m \notin Owners
      BY <1>1 DEF RemoveMember
    <2>2. Tables'
      BY <1>0, <2>1, Ids DEF Tables, DTypeOK, In, Row, Exists, dvars, Request
    <2> QED
      BY <2>1, <2>2, RestDeparted
  <1>2. CASE UNCHANGED vars
    <2>1. Tables' /\ UNCHANGED <<call, dvars>>
      BY <1>0, <1>2 DEF vars, shared, Tables, DTypeOK, In, Row, Exists, dvars
    <2> QED
      BY <2>1, RestDeparted
  <1> QED
    BY <1>0, <1>1, <1>2, DepartmentDeparted, PositionDeparted DEF Next

\* The tables have their shape and every foreign key holds, whatever requests interleave.
THEOREM OrganizationTyped == Spec => []TypeOK
  <1>1. Sound /\ Departed => TypeOK
    BY DEF Sound, RowsSound, CallsSound, Departed, Tables, TypeOK
  <1> QED
    BY <1>1, InitSound, InitDeparted, StepSound, StepDeparted, PTL DEF Spec

\* The deletion of a department takes along no child but those that came after it had
\* moved the others, and those of a knot.
THEOREM ChildrenKept == Spec => []LostOnlyIfLate
  <1>1. Departed => LostOnlyIfLate
    BY DEF Departed, Wooded
  <1> QED
    BY <1>1, InitSound, InitDeparted, StepSound, StepDeparted, PTL DEF Spec

\* Departments stay a tree, unless one was moved below itself by what was read before.
THEOREM TreeKept == Spec => []TreeUnlessKnotted
  <1>1. Departed => TreeUnlessKnotted
    BY KnotlessTree DEF Departed, Wooded
  <1> QED
    BY <1>1, InitSound, InitDeparted, StepSound, StepDeparted, PTL DEF Spec
=============================================================================
