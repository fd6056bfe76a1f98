-------------------------- MODULE MembershipProofs --------------------------
(***************************************************************************)
(* Machine-checked proofs about Membership: what the foreign keys, the cap *)
(* transaction, the owner transaction and the invite check keep true for   *)
(* any number of users, rooms and requests in flight, any cap, and with or *)
(* without failing statements.                                             *)
(***************************************************************************)
EXTENDS Membership, FiniteSetTheorems, TLAPS

\* A join that has been let through to a private room was let through by an
\* invite that is still there, or the room is gone.
JoinInvited ==
    \A q \in Request :
        req[q].step = "join" => (req[q].room \in rooms /\ visibility[req[q].room] = "private"
                                     => invites[req[q].room] # {})

\* The inductive invariant: the four safety properties depend on each other (a
\* new room starts without rows because deleted ones left none), and
\* PrivateByInvite on what pending joins have been told.
IInv == TypeOK /\ OwnerColumnAgrees /\ MembersWithinCap /\ NoOrphanRows
        /\ PrivateByInvite /\ JoinInvited

USE MembershipConstants

-----------------------------------------------------------------------------
\* A request that is about to do something knows for whom and where.
LEMMA PendingRequest ==
  ASSUME TypeOK, NEW q \in Request, req[q].step \in Steps
  PROVE  /\ req[q] \in Pending
         /\ req[q].room \in Room /\ req[q].user \in User /\ req[q].target \in User
  <1>1. req[q] \in Pending
    BY DEF TypeOK, Idle, Steps
  <1> QED BY <1>1 DEF Pending

\* Members are users, so there are finitely many of them.
LEMMA MembersFinite ==
  ASSUME NEW r \in Room
  PROVE  IsFiniteSet(Members(r)) /\ Cardinality(Members(r)) \in Nat
  <1>1. Members(r) \subseteq User
    BY DEF Members
  <1> QED BY <1>1, FS_Subset, FS_CardinalityType

\* The empty tables satisfy the invariant.
LEMMA InitIInv == Init => IInv
  <1> SUFFICES ASSUME Init PROVE IInv
    OBVIOUS
  <1>1. \A r \in Room : Members(r) = {}
    BY DEF Init, Members, NoRows
  <1>2. TypeOK
    BY DEF Init, TypeOK, NoRows
  <1>3. MembersWithinCap
    BY <1>1, FS_EmptySet DEF MembersWithinCap
  <1>4. OwnerColumnAgrees /\ NoOrphanRows /\ PrivateByInvite /\ JoinInvited
    BY <1>1 DEF Init, NoRows, OwnerColumnAgrees, NoOrphanRows, PrivateByInvite,
                JoinInvited, Idle
  <1> QED BY <1>2, <1>3, <1>4 DEF IInv

\* Every step keeps tables and requests in their domains.
LEMMA TypeStep == TypeOK /\ [Next]_vars => TypeOK'
  <1> SUFFICES ASSUME TypeOK, [Next]_vars PROVE TypeOK'
    OBVIOUS
  <1> USE DEF TypeOK, tables, NoRows
  <1>r. ASSUME NEW q \in Request, Respond(q) PROVE req' \in [Request -> Pending \union {Idle}]
    BY <1>r DEF Respond
  <1>d. ASSUME NEW q \in Request, NEW step \in Steps, NEW u \in User, NEW r \in Room,
               NEW v \in User, Decide(q, step, u, r, v)
        PROVE  req' \in [Request -> Pending \union {Idle}]
    BY <1>d DEF Decide, Pending
  <1>1. ASSUME NEW u \in User, NEW r \in Room, CreateRoom(u, r) PROVE TypeOK'
    BY <1>1 DEF CreateRoom
  <1>2. ASSUME NEW q \in Request, NEW u \in User, NEW r \in Room, Check(q, u, r)
        PROVE  TypeOK'
    <2>1. req' \in [Request -> Pending \union {Idle}]
      BY <1>2, <1>d DEF Check, Steps
    <2> QED BY <1>2, <2>1 DEF Check
  <1>3. ASSUME NEW q \in Request, CountMembers(q) PROVE TypeOK'
    <2>1. req[q].room \in Room /\ req[q].user \in User
      BY <1>3, PendingRequest DEF CountMembers, Steps
    <2>2. req' \in [Request -> Pending \union {Idle}]
      BY <1>3, <2>1, <1>r, <1>d DEF CountMembers, Steps
    <2> QED BY <1>3, <2>2 DEF CountMembers
  <1>4. ASSUME NEW q \in Request, Fail(q) \/ TargetNotMember(q) PROVE TypeOK'
    BY <1>4, <1>r DEF Fail, TargetNotMember
  <1>5. ASSUME NEW q \in Request, PatchRoom(q) PROVE TypeOK'
    BY <1>5, <1>r DEF PatchRoom
  <1>6. ASSUME NEW q \in Request, SetRoomOwner(q) PROVE TypeOK'
    <2>1. req[q].room \in Room /\ req[q].target \in User
      BY <1>6, PendingRequest DEF SetRoomOwner, Steps
    <2> QED BY <1>6, <1>r, <2>1 DEF SetRoomOwner
  <1>7. ASSUME NEW q \in Request, RemoveMember(q) PROVE TypeOK'
    BY <1>7, <1>r DEF RemoveMember
  <1>8. ASSUME NEW q \in Request, DeleteRoom(q) PROVE TypeOK'
    BY <1>8, <1>r DEF DeleteRoom
  <1>9. ASSUME NEW q \in Request, SetMemberHidden(q) PROVE TypeOK'
    <2>1. req[q].room \in Room /\ req[q].user \in User
      BY <1>9, PendingRequest DEF SetMemberHidden, Steps
    <2> QED BY <1>9, <1>r, <2>1 DEF SetMemberHidden
  <1>10. ASSUME NEW q \in Request, AddMemberWithCap(q) PROVE TypeOK'
    BY <1>10, <1>r DEF AddMemberWithCap
  <1>11. ASSUME NEW q \in Request, CreateInvite(q) PROVE TypeOK'
    <2>1. req[q].room \in Room /\ req[q].user \in User
      BY <1>11, PendingRequest DEF CreateInvite, Steps
    <2> QED BY <1>11, <1>r, <2>1 DEF CreateInvite
  <1>12. CASE UNCHANGED vars
    BY <1>12 DEF vars
  <1> QED
    BY <1>1, <1>2, <1>3, <1>4, <1>5, <1>6, <1>7, <1>8, <1>9, <1>10, <1>11, <1>12
    DEF Next, Write

-----------------------------------------------------------------------------
\* A step that leaves the tables alone and lets nobody new through to a room
\* keeps the invariant.
LEMMA TablesUnchanged ==
  ASSUME IInv, TypeOK', UNCHANGED tables,
         \A q \in Request : req'[q].step = "join" =>
             req'[q] = req[q] \/ MayJoin(req'[q].room)
  PROVE  IInv'
  <1>1. \A r : Members(r)' = Members(r)
    BY DEF Members, tables
  <1>2. OwnerColumnAgrees' /\ MembersWithinCap' /\ NoOrphanRows' /\ PrivateByInvite'
    BY <1>1 DEF IInv, tables, OwnerColumnAgrees, MembersWithinCap, NoOrphanRows,
                PrivateByInvite
  <1>3. JoinInvited'
    BY DEF IInv, tables, JoinInvited, MayJoin
  <1> QED BY <1>2, <1>3 DEF IInv

\* Every write keeps the invariant.
LEMMA WriteStep ==
  ASSUME IInv, TypeOK', NEW q \in Request, Write(q)
  PROVE  IInv'
  <1> DEFINE Inv == /\ OwnerColumnAgrees /\ MembersWithinCap /\ NoOrphanRows
                    /\ PrivateByInvite /\ JoinInvited
  <1>t. TypeOK
    BY DEF IInv
  <1>q. req[q].step \in Steps
    BY DEF Write, PatchRoom, SetRoomOwner, TargetNotMember, RemoveMember, DeleteRoom,
           SetMemberHidden, AddMemberWithCap, CreateInvite, Steps
  <1>p. PICK r \in Room, u \in User, v \in User :
            r = req[q].room /\ u = req[q].user /\ v = req[q].target
    BY <1>t, <1>q, PendingRequest
  <1>i. req' = [req EXCEPT ![q] = Idle]
    BY DEF Write, Respond, PatchRoom, SetRoomOwner, TargetNotMember, RemoveMember,
           DeleteRoom, SetMemberHidden, AddMemberWithCap, CreateInvite
  <1>j. \A p \in Request : req'[p].step = "join" => req'[p] = req[p]
    BY <1>i, <1>t DEF TypeOK, Idle
  <1> SUFFICES Inv'
    BY DEF IInv
  <1>1. CASE TargetNotMember(q)
    <2>1. UNCHANGED tables
      BY <1>1 DEF TargetNotMember
    <2> QED BY <2>1, <1>j, TablesUnchanged DEF IInv
  <1>2. CASE PatchRoom(q)
    <2>1. UNCHANGED <<rooms, visibility, owner, role, hidden, invites>>
      BY <1>2 DEF PatchRoom
    <2>2. \A s : Members(s)' = Members(s)
      BY <2>1 DEF Members
    <2> QED BY <2>1, <2>2, <1>j DEF IInv, OwnerColumnAgrees, MembersWithinCap, NoOrphanRows,
                                    PrivateByInvite, JoinInvited
  <1>3. CASE SetRoomOwner(q)
    <2>1. /\ v \in Members(r)
          /\ owner' = [owner EXCEPT ![r] = v]
          /\ role' = [role EXCEPT ![r] = [w \in User |->
                           IF w = v THEN "owner"
                           ELSE IF w \in Members(r) THEN "member" ELSE "none"]]
          /\ UNCHANGED <<rooms, visibility, hidden, invites>>
      BY <1>3, <1>p DEF SetRoomOwner
    <2>2. \A s \in Room : Members(s)' = Members(s)
      <3> TAKE s \in Room
      <3>1. CASE s = r
        BY <2>1, <3>1, <1>t, <1>p DEF Members, TypeOK
      <3>2. CASE s # r
        BY <2>1, <3>2, <1>t, <1>p DEF Members, TypeOK
      <3> QED BY <3>1, <3>2
    <2>3. OwnerColumnAgrees'
      BY <2>1, <1>t, <1>p DEF IInv, TypeOK, OwnerColumnAgrees
    <2>4. MembersWithinCap' /\ NoOrphanRows' /\ PrivateByInvite'
      BY <2>1, <2>2, <1>t DEF IInv, TypeOK, MembersWithinCap, NoOrphanRows, PrivateByInvite
    <2>5. JoinInvited'
      BY <2>1, <1>j DEF IInv, JoinInvited
    <2> QED BY <2>3, <2>4, <2>5
  <1>4. CASE RemoveMember(q)
    <2>1. /\ role' = [role EXCEPT ![r][u] = "none"]
          /\ hidden' = [hidden EXCEPT ![r] = @ \ {u}]
          /\ UNCHANGED <<rooms, visibility, owner, invites>>
      BY <1>4, <1>p DEF RemoveMember
    <2>2. /\ Members(r)' = Members(r) \ {u}
          /\ \A s \in Room \ {r} : Members(s)' = Members(s)
      BY <2>1, <1>t, <1>p DEF Members, TypeOK
    <2>3. /\ Cardinality(Members(r)') <= Cardinality(Members(r))
          /\ Cardinality(Members(r)') \in Nat
      BY <2>2, <1>p, MembersFinite, FS_Subset, FS_CardinalityType
    <2>4. OwnerColumnAgrees'
      BY <2>1, <1>t, <1>p DEF IInv, TypeOK, OwnerColumnAgrees
    <2>5. ASSUME NEW s \in Room
          PROVE  Cardinality(Members(s)') <= Cardinality(Members(s)) 
                 /\ Cardinality(Members(s)') \in Nat /\ Cardinality(Members(s)) \in Nat
      <3>1. CASE s = r
        BY <3>1, <2>3, MembersFinite
      <3>2. CASE s # r
        <4>1. Members(s)' = Members(s)
          BY <2>2, <3>2
        <4> QED BY <4>1, MembersFinite
      <3> QED BY <3>1, <3>2
    <2>9. MembersWithinCap'
      <3> SUFFICES ASSUME NEW s \in Room PROVE Cardinality(Members(s)') <= GroupMemberCap
        BY DEF MembersWithinCap
      <3>1. Cardinality(Members(s)) <= GroupMemberCap
        BY DEF IInv, MembersWithinCap
      <3> QED BY <3>1, <2>5
    <2>6. NoOrphanRows'
      <3> SUFFICES ASSUME NEW s \in Room
                   PROVE  /\ s \notin rooms => Members(s)' = {} /\ invites[s] = {}
                          /\ hidden'[s] \subseteq Members(s)'
        BY <2>1 DEF NoOrphanRows
      <3>0. /\ s \notin rooms => Members(s) = {} /\ invites[s] = {}
            /\ hidden[s] \subseteq Members(s)
        BY DEF IInv, NoOrphanRows
      <3>1. CASE s = r
        BY <2>1, <2>2, <3>0, <3>1, <1>t DEF TypeOK
      <3>2. CASE s # r
        BY <2>1, <2>2, <3>0, <3>2, <1>t DEF TypeOK
      <3> QED BY <3>1, <3>2
    <2>7. PrivateByInvite'
      <3>1. \A s \in rooms : Cardinality(Members(s)') > 1 => Cardinality(Members(s)) > 1
        BY <2>5, <1>t DEF TypeOK
      <3> QED BY <2>1, <3>1 DEF IInv, PrivateByInvite
    <2>8. JoinInvited'
      BY <2>1, <1>j DEF IInv, JoinInvited
    <2> QED BY <2>4, <2>6, <2>7, <2>8, <2>9
  <1>5. CASE DeleteRoom(q)
    <2>1. /\ rooms' = rooms \ {r}
          /\ owner' = [owner EXCEPT ![r] = NoUser]
          /\ role' = [role EXCEPT ![r] = NoRows]
          /\ hidden' = [hidden EXCEPT ![r] = {}]
          /\ invites' = [invites EXCEPT ![r] = {}]
          /\ UNCHANGED visibility
      BY <1>5, <1>p DEF DeleteRoom
    <2>2. /\ Members(r)' = {}
          /\ \A s \in Room \ {r} : Members(s)' = Members(s)
      BY <2>1, <1>t, <1>p DEF Members, TypeOK, NoRows
    <2>3. OwnerColumnAgrees'
      BY <2>1, <1>t, <1>p DEF IInv, TypeOK, OwnerColumnAgrees, NoRows
    <2>4. MembersWithinCap'
      <3> SUFFICES ASSUME NEW s \in Room PROVE Cardinality(Members(s)') <= GroupMemberCap
        BY DEF MembersWithinCap
      <3>1. CASE s = r
        BY <2>2, <3>1, FS_EmptySet
      <3>2. CASE s # r
        BY <2>2, <3>2 DEF IInv, MembersWithinCap
      <3> QED BY <3>1, <3>2
    <2>5. NoOrphanRows'
      <3> SUFFICES ASSUME NEW s \in Room
                   PROVE  /\ s \notin rooms \ {r} => Members(s)' = {} /\ invites'[s] = {}
                          /\ hidden'[s] \subseteq Members(s)'
        BY <2>1 DEF NoOrphanRows
      <3>0. /\ s \notin rooms => Members(s) = {} /\ invites[s] = {}
            /\ hidden[s] \subseteq Members(s)
        BY DEF IInv, NoOrphanRows
      <3>1. CASE s = r
        BY <2>1, <2>2, <3>1, <1>t DEF TypeOK
      <3>2. CASE s # r
        BY <2>1, <2>2, <3>0, <3>2, <1>t DEF TypeOK
      <3> QED BY <3>1, <3>2
    <2>6. PrivateByInvite'
      BY <2>1, <2>2, <1>t, <1>p DEF IInv, TypeOK, PrivateByInvite
    <2>7. JoinInvited'
      BY <2>1, <1>j, <1>t, <1>p DEF IInv, TypeOK, JoinInvited
    <2> QED BY <2>3, <2>4, <2>5, <2>6, <2>7
  <1>6. CASE SetMemberHidden(q)
    <2>1. UNCHANGED <<rooms, visibility, owner, role, invites>>
      BY <1>6 DEF SetMemberHidden
    <2>2. \A s : Members(s)' = Members(s)
      BY <2>1 DEF Members
    <2>3. \A s \in Room : hidden'[s] \subseteq hidden[s] \union Members(s)
      BY <1>6, <1>t, <1>p DEF SetMemberHidden, TypeOK
    <2> QED BY <2>1, <2>2, <2>3, <1>j DEF IInv, OwnerColumnAgrees, MembersWithinCap,
                                          NoOrphanRows, PrivateByInvite, JoinInvited
  <1>7. CASE AddMemberWithCap(q)
    <2>1. UNCHANGED <<rooms, visibility, owner, hidden, invites>>
      BY <1>7, <1>p DEF AddMemberWithCap
    <2>2. CASE u \notin Members(r) /\ Admits(r)
      <3>1. role' = [role EXCEPT ![r][u] = "member"] /\ req[q].step = "join"
        BY <1>7, <2>2, <1>p DEF AddMemberWithCap
      <3>2. /\ Members(r)' = Members(r) \union {u}
            /\ \A s \in Room \ {r} : Members(s)' = Members(s)
        BY <3>1, <1>t, <1>p DEF Members, TypeOK
      <3>3. Cardinality(Members(r)') = Cardinality(Members(r)) + 1
        BY <2>2, <3>2, <1>p, MembersFinite, FS_AddElement
      <3>4. OwnerColumnAgrees'
        BY <2>1, <3>1, <1>t, <1>p DEF IInv, TypeOK, OwnerColumnAgrees
      <3>5. MembersWithinCap'
        <4> SUFFICES ASSUME NEW s \in Room PROVE Cardinality(Members(s)') <= GroupMemberCap
          BY DEF MembersWithinCap
        <4>1. CASE s = r
          BY <2>2, <3>3, <4>1, MembersFinite DEF Admits
        <4>2. CASE s # r
          BY <3>2, <4>2 DEF IInv, MembersWithinCap
        <4> QED BY <4>1, <4>2
      <3>6. NoOrphanRows'
        <4> SUFFICES ASSUME NEW s \in Room
                     PROVE  /\ s \notin rooms => Members(s)' = {} /\ invites[s] = {}
                            /\ hidden[s] \subseteq Members(s)'
          BY <2>1 DEF NoOrphanRows
        <4>0. /\ s \notin rooms => Members(s) = {} /\ invites[s] = {}
              /\ hidden[s] \subseteq Members(s)
          BY DEF IInv, NoOrphanRows
        <4>1. CASE s = r
          BY <2>2, <3>2, <4>0, <4>1 DEF Admits
        <4>2. CASE s # r
          BY <3>2, <4>0, <4>2
        <4> QED BY <4>1, <4>2
      <3>7. visibility[r] = "private" /\ r \in rooms => invites[r] # {}
        BY <3>1, <1>p DEF IInv, JoinInvited
      <3>8. PrivateByInvite'
        BY <2>1, <3>2, <3>7, <1>t DEF IInv, TypeOK, PrivateByInvite
      <3>9. JoinInvited'
        BY <2>1, <1>j DEF IInv, JoinInvited
      <3> QED BY <3>4, <3>5, <3>6, <3>8, <3>9
    <2>3. CASE ~(u \notin Members(r) /\ Admits(r))
      <3>1. role' = role
        BY <1>7, <2>3, <1>p DEF AddMemberWithCap
      <3>2. \A s : Members(s)' = Members(s)
        BY <3>1 DEF Members
      <3> QED BY <2>1, <3>1, <3>2, <1>j DEF IInv, OwnerColumnAgrees, MembersWithinCap,
                                            NoOrphanRows, PrivateByInvite, JoinInvited
    <2> QED BY <2>2, <2>3
  <1>8. CASE CreateInvite(q)
    <2>1. /\ invites' = IF r \in rooms THEN [invites EXCEPT ![r] = @ \union {u}] ELSE invites
          /\ UNCHANGED <<rooms, visibility, owner, role, hidden>>
      BY <1>8, <1>p DEF CreateInvite
    <2>2. \A s : Members(s)' = Members(s)
      BY <2>1 DEF Members
    <2>3. \A s \in Room : /\ s \notin rooms => invites'[s] = invites[s]
                          /\ invites[s] # {} => invites'[s] # {}
      BY <2>1, <1>t, <1>p DEF TypeOK
    <2>4. OwnerColumnAgrees' /\ MembersWithinCap' /\ NoOrphanRows'
      BY <2>1, <2>2, <2>3 DEF IInv, OwnerColumnAgrees, MembersWithinCap, NoOrphanRows
    <2>5. PrivateByInvite'
      BY <2>1, <2>2, <2>3, <1>t DEF IInv, TypeOK, PrivateByInvite
    <2>6. JoinInvited'
      BY <2>1, <2>3, <1>j, <1>t DEF IInv, TypeOK, JoinInvited
    <2> QED BY <2>4, <2>5, <2>6
  <1> QED BY <1>1, <1>2, <1>3, <1>4, <1>5, <1>6, <1>7, <1>8 DEF Write

\* A new room starts with one member and nothing left over from an old one.
LEMMA CreateStep ==
  ASSUME IInv, TypeOK', NEW u \in User, NEW r \in Room, CreateRoom(u, r)
  PROVE  IInv'
  <1>t. TypeOK
    BY DEF IInv
  <1>1. /\ r \notin rooms /\ rooms' = rooms \union {r}
        /\ \A s \in Room \ {r} : visibility'[s] = visibility[s]
        /\ owner' = [owner EXCEPT ![r] = u]
        /\ role' = [role EXCEPT ![r][u] = "owner"]
        /\ UNCHANGED <<hidden, invites, req>>
    BY <1>t DEF CreateRoom, Fresh, TypeOK
  <1>2. Members(r) = {} /\ invites[r] = {} /\ hidden[r] = {}
    BY <1>1 DEF IInv, NoOrphanRows
  <1>3. /\ Members(r)' = {u}
        /\ \A s \in Room \ {r} : Members(s)' = Members(s)
    BY <1>1, <1>2, <1>t DEF Members, TypeOK
  <1>4. Cardinality(Members(r)') = 1
    BY <1>3, FS_Singleton
  <1>5. OwnerColumnAgrees'
    BY <1>1, <1>2, <1>t DEF IInv, TypeOK, OwnerColumnAgrees, Members
  <1>6. MembersWithinCap'
    <2> SUFFICES ASSUME NEW s \in Room PROVE Cardinality(Members(s)') <= GroupMemberCap
      BY DEF MembersWithinCap
    <2>1. CASE s = r
      BY <1>4, <2>1
    <2>2. CASE s # r
      BY <1>3, <2>2 DEF IInv, MembersWithinCap
    <2> QED BY <2>1, <2>2
  <1>7. NoOrphanRows'
    <2> SUFFICES ASSUME NEW s \in Room
                 PROVE  /\ s \notin rooms \union {r} => Members(s)' = {} /\ invites[s] = {}
                        /\ hidden[s] \subseteq Members(s)'
      BY <1>1 DEF NoOrphanRows
    <2>1. CASE s = r
      BY <1>2, <2>1
    <2>2. CASE s # r
      BY <1>3, <2>2 DEF IInv, NoOrphanRows
    <2> QED BY <2>1, <2>2
  <1>8. PrivateByInvite'
    <2> SUFFICES ASSUME NEW s \in rooms', visibility'[s] = "private",
                        Cardinality(Members(s)') > 1
                 PROVE  invites[s] # {}
      BY <1>1 DEF PrivateByInvite
    <2>1. s # r
      BY <1>4
    <2> QED BY <1>1, <1>3, <2>1, <1>t DEF IInv, TypeOK, PrivateByInvite
  <1>9. JoinInvited'
    <2> SUFFICES ASSUME NEW q \in Request, req[q].step = "join", req[q].room \in rooms',
                        visibility'[req[q].room] = "private"
                 PROVE  invites[req[q].room] # {}
      BY <1>1 DEF JoinInvited
    <2>1. req[q].room # r
      BY DEF CreateRoom, Fresh, Idle
    <2> QED BY <1>1, <2>1, <1>t DEF IInv, TypeOK, JoinInvited
  <1> QED BY <1>5, <1>6, <1>7, <1>8, <1>9 DEF IInv

\* Every step keeps the invariant.
LEMMA IStep == IInv /\ [Next]_vars => IInv'
  <1> SUFFICES ASSUME IInv, [Next]_vars PROVE IInv'
    OBVIOUS
  <1>t. TypeOK /\ TypeOK'
    BY TypeStep DEF IInv
  <1>1. ASSUME NEW u \in User, NEW r \in Room, CreateRoom(u, r) PROVE IInv'
    BY <1>1, <1>t, CreateStep
  <1>2. ASSUME NEW q \in Request, NEW u \in User, NEW r \in Room, Check(q, u, r)
        PROVE  IInv'
    <2>1. UNCHANGED tables
      BY <1>2 DEF Check
    <2>2. \A p \in Request : req'[p].step = "join" => req'[p] = req[p] \/ MayJoin(req'[p].room)
      BY <1>2, <1>t DEF Check, Decide, TypeOK
    <2> QED BY <1>t, <2>1, <2>2, TablesUnchanged
  <1>3. ASSUME NEW q \in Request, CountMembers(q) \/ Fail(q) PROVE IInv'
    <2>1. UNCHANGED tables
      BY <1>3 DEF CountMembers, Fail
    <2>2. \A p \in Request : req'[p].step = "join" => req'[p] = req[p]
      BY <1>3, <1>t DEF CountMembers, Fail, Decide, Respond, TypeOK, Idle
    <2> QED BY <1>t, <2>1, <2>2, TablesUnchanged
  <1>4. ASSUME NEW q \in Request, Write(q) PROVE IInv'
    BY <1>4, <1>t, WriteStep
  <1>5. CASE UNCHANGED vars
    <2>1. UNCHANGED tables /\ UNCHANGED req
      BY <1>5 DEF vars, tables
    <2> QED BY <1>t, <2>1, TablesUnchanged
  <1> QED BY <1>1, <1>2, <1>3, <1>4, <1>5 DEF Next

\* The inductive invariant holds of every behaviour of the handlers.
THEOREM Invariant == Spec => []IInv
  BY InitIInv, IStep, PTL DEF Spec

\* Tables and requests stay in their domains, and every room names an owner.
THEOREM TypeCorrect == Spec => []TypeOK
  BY Invariant, PTL DEF IInv

\* Only the user rooms.owner_id names ever has the owner's role, whatever
\* transfers, joins and leaves are in flight.
THEOREM OwnerUnique == Spec => []OwnerColumnAgrees
  BY Invariant, PTL DEF IInv

\* However many joins race, a room has at most GroupMemberCap members.
THEOREM CapHolds == Spec => []MembersWithinCap
  BY Invariant, PTL DEF IInv

\* A deleted room keeps no member, hidden flag or invite, even if requests for
\* it were already decided.
THEOREM NoOrphans == Spec => []NoOrphanRows
  BY Invariant, PTL DEF IInv

\* Nobody but its creator is in a private room to which nobody was invited.
THEOREM PrivateRooms == Spec => []PrivateByInvite
  BY Invariant, PTL DEF IInv

-----------------------------------------------------------------------------
(* The owner leaves only through a race.  OwnerIsMember does not hold of    *)
(* every behaviour; what follows shows which step alone can break it.       *)

\* A leave of u that has passed its check and has not been written.
LeavePending(r, u) ==
    \E p \in Request : req[p].step = "remove" /\ req[p].room = r /\ req[p].user = u

\* No transfer is written to somebody who is about to leave.
TransfersSpareLeavers ==
    [][\A q \in Request :
          SetRoomOwner(q) => ~LeavePending(req[q].room, req[q].target)]_vars

\* The user rooms.owner_id names has the owner's row, and no request that is
\* about to leave a room owns it.
OwnerHasRow ==
    /\ \A r \in rooms : role[r][owner[r]] = "owner"
    /\ \A q \in Request : req[q].step = "remove" /\ req[q].room \in rooms =>
          req[q].user # owner[req[q].room]

\* A step that leaves rooms, owners and roles alone keeps the owner's row if
\* whoever it lets through to leave is not the owner.
LEMMA RowsUnchanged ==
  ASSUME OwnerHasRow, UNCHANGED <<rooms, owner, role>>,
         \A q \in Request : req'[q].step = "remove" =>
             req'[q] = req[q] \/ role[req'[q].room][req'[q].user] # "owner"
  PROVE  OwnerHasRow'
  BY DEF OwnerHasRow

\* Every write keeps the owner's row, a transfer on condition that its target
\* is not about to leave.
LEMMA OwnerHasRowWrite ==
  ASSUME IInv, OwnerHasRow, NEW q \in Request, Write(q),
         SetRoomOwner(q) => ~LeavePending(req[q].room, req[q].target)
  PROVE  OwnerHasRow'
  <1>t. TypeOK
    BY DEF IInv
  <1>q. req[q].step \in Steps
    BY DEF Write, PatchRoom, SetRoomOwner, TargetNotMember, RemoveMember, DeleteRoom,
           SetMemberHidden, AddMemberWithCap, CreateInvite, Steps
  <1>p. PICK r \in Room, u \in User, v \in User :
            r = req[q].room /\ u = req[q].user /\ v = req[q].target
    BY <1>t, <1>q, PendingRequest
  <1>i. req' = [req EXCEPT ![q] = Idle]
    BY DEF Write, Respond, PatchRoom, SetRoomOwner, TargetNotMember, RemoveMember,
           DeleteRoom, SetMemberHidden, AddMemberWithCap, CreateInvite
  <1>j. \A p \in Request : req'[p].step = "remove" => req'[p] = req[p]
    BY <1>i, <1>t DEF TypeOK, Idle
  <1>1. CASE TargetNotMember(q) \/ PatchRoom(q) \/ SetMemberHidden(q) \/ CreateInvite(q)
    <2>1. UNCHANGED <<rooms, owner, role>>
      BY <1>1 DEF TargetNotMember, PatchRoom, SetMemberHidden, CreateInvite, tables
    <2> QED BY <2>1, <1>j, RowsUnchanged
  <1>2. CASE SetRoomOwner(q)
    <2>1. /\ owner' = [owner EXCEPT ![r] = v]
          /\ role' = [role EXCEPT ![r] = [w \in User |->
                           IF w = v THEN "owner"
                           ELSE IF w \in Members(r) THEN "member" ELSE "none"]]
          /\ rooms' = rooms
      BY <1>2, <1>p DEF SetRoomOwner
    <2>2. ASSUME NEW s \in rooms PROVE role'[s][owner'[s]] = "owner"
      <3>1. CASE s = r
        BY <2>1, <3>1, <1>t, <1>p DEF TypeOK
      <3>2. CASE s # r
        BY <2>1, <3>2, <1>t DEF TypeOK, OwnerHasRow
      <3> QED BY <3>1, <3>2
    <2>3. ASSUME NEW p \in Request, req'[p].step = "remove", req'[p].room \in rooms
          PROVE  req'[p].user # owner'[req'[p].room]
      <3>1. req'[p] = req[p]
        BY <2>3, <1>j
      <3>2. CASE req[p].room = r
        BY <1>2, <1>p, <1>t, <2>1, <2>3, <3>1, <3>2 DEF LeavePending, TypeOK
      <3>3. CASE req[p].room # r
        BY <2>1, <2>3, <3>1, <3>3, <1>t DEF OwnerHasRow, TypeOK
      <3> QED BY <3>2, <3>3
    <2> QED BY <2>1, <2>2, <2>3 DEF OwnerHasRow
  <1>3. CASE RemoveMember(q)
    <2>1. role' = [role EXCEPT ![r][u] = "none"] /\ UNCHANGED <<rooms, owner>>
      BY <1>3, <1>p DEF RemoveMember
    <2>2. r \in rooms => u # owner[r]
      BY <1>3, <1>p DEF RemoveMember, OwnerHasRow
    <2>3. ASSUME NEW s \in rooms PROVE role'[s][owner[s]] = "owner"
      BY <2>1, <2>2, <1>t, <1>p DEF TypeOK, OwnerHasRow
    <2> QED BY <2>1, <2>3, <1>j DEF OwnerHasRow
  <1>4. CASE DeleteRoom(q)
    <2>1. /\ rooms' = rooms \ {r}
          /\ owner' = [owner EXCEPT ![r] = NoUser]
          /\ role' = [role EXCEPT ![r] = NoRows]
      BY <1>4, <1>p DEF DeleteRoom
    <2>2. \A s \in rooms' : s \in rooms /\ owner'[s] = owner[s] /\ role'[s] = role[s]
      BY <2>1, <1>t, <1>p DEF TypeOK
    <2> QED BY <2>2, <1>j DEF OwnerHasRow
  <1>5. CASE AddMemberWithCap(q)
    <2>1. UNCHANGED <<rooms, owner>>
      BY <1>5 DEF AddMemberWithCap
    <2>2. CASE u \notin Members(r) /\ Admits(r)
      <3>1. role' = [role EXCEPT ![r][u] = "member"] /\ role[r][u] = "none"
        BY <1>5, <2>2, <1>p DEF AddMemberWithCap, Members
      <3>2. ASSUME NEW s \in rooms PROVE role'[s][owner[s]] = "owner"
        BY <3>1, <1>t, <1>p DEF TypeOK, OwnerHasRow
      <3> QED BY <2>1, <3>2, <1>j DEF OwnerHasRow
    <2>3. CASE ~(u \notin Members(r) /\ Admits(r))
      <3>1. role' = role
        BY <1>5, <2>3, <1>p DEF AddMemberWithCap
      <3> QED BY <2>1, <3>1, <1>j, RowsUnchanged
    <2> QED BY <2>2, <2>3
  <1> QED BY <1>1, <1>2, <1>3, <1>4, <1>5 DEF Write

\* Every step keeps the owner's row, a transfer on the same condition.
LEMMA OwnerHasRowStep ==
  ASSUME IInv, OwnerHasRow, [Next]_vars,
         [\A q \in Request :
             SetRoomOwner(q) => ~LeavePending(req[q].room, req[q].target)]_vars
  PROVE  OwnerHasRow'
  <1>t. TypeOK
    BY DEF IInv
  <1>1. ASSUME NEW u \in User, NEW r \in Room, CreateRoom(u, r) PROVE OwnerHasRow'
    <2>1. /\ r \notin rooms /\ rooms' = rooms \union {r}
          /\ owner' = [owner EXCEPT ![r] = u] /\ role' = [role EXCEPT ![r][u] = "owner"]
          /\ req' = req
          /\ \A q \in Request : req[q].step = "remove" => req[q].room # r
      BY <1>1 DEF CreateRoom, Fresh, Idle
    <2>2. ASSUME NEW s \in rooms' PROVE role'[s][owner'[s]] = "owner"
      BY <2>1, <1>t DEF TypeOK, OwnerHasRow
    <2> QED BY <2>1, <2>2, <1>t DEF TypeOK, OwnerHasRow
  <1>2. ASSUME NEW q \in Request, NEW u \in User, NEW r \in Room, Check(q, u, r)
        PROVE  OwnerHasRow'
    <2>1. UNCHANGED <<rooms, owner, role>>
      BY <1>2 DEF Check, tables
    <2>2. \A p \in Request : req'[p].step = "remove" =>
             req'[p] = req[p] \/ role[req'[p].room][req'[p].user] # "owner"
      BY <1>2, <1>t DEF Check, Decide, TypeOK
    <2> QED BY <2>1, <2>2, RowsUnchanged
  <1>3. ASSUME NEW q \in Request, CountMembers(q) \/ Fail(q) PROVE OwnerHasRow'
    <2>1. UNCHANGED <<rooms, owner, role>>
      BY <1>3 DEF CountMembers, Fail, tables
    <2>2. \A p \in Request : req'[p].step = "remove" => req'[p] = req[p]
      BY <1>3, <1>t DEF CountMembers, Fail, Decide, Respond, TypeOK, Idle
    <2> QED BY <2>1, <2>2, RowsUnchanged
  <1>4. CASE UNCHANGED vars
    BY <1>4, RowsUnchanged DEF vars
  <1>5. ASSUME NEW q \in Request, Write(q), ~UNCHANGED vars PROVE OwnerHasRow'
    BY <1>5, OwnerHasRowWrite
  <1> QED BY <1>1, <1>2, <1>3, <1>4, <1>5 DEF Next

\* The race is the only way out: unless a transfer is written while the leave
\* of its target is pending, the user rooms.owner_id names has a member row, as
\* "owner must transfer before leaving" says.
THEOREM OwnerStaysUnlessRaced == Spec /\ TransfersSpareLeavers => []OwnerIsMember
  <1>1. Init => OwnerHasRow
    BY DEF Init, OwnerHasRow, Idle
  <1>2. IInv /\ OwnerHasRow => OwnerIsMember
    BY DEF IInv, TypeOK, OwnerHasRow, OwnerIsMember, Members
  <1> QED BY Invariant, <1>1, <1>2, OwnerHasRowStep, PTL DEF Spec, TransfersSpareLeavers

-----------------------------------------------------------------------------
(* The owner's leave deletes the room for nobody else, unless a join is     *)
(* written between its count and its delete, or the count failed.          *)

\* An owner's leave that has counted and has not deleted yet.
DeletePending(r) == \E p \in Request : req[p].step = "delete" /\ req[p].room = r

\* No join is written to a room that is about to be deleted.
JoinsSpareDeletions ==
    [][\A q \in Request :
          AddMemberWithCap(q) /\ role' # role => ~DeletePending(req[q].room)]_vars

\* A room is deleted only while at most one user is in it.
DeletesAlone == [][\A r \in rooms \ rooms' : Cardinality(Members(r)) <= 1]_vars

\* What a pending delete has counted is still so.
CountStands ==
    \A q \in Request : req[q].step = "delete" => Cardinality(Members(req[q].room)) <= 1

\* Only a join that is written makes a room's members more.
LEMMA MembersAfter ==
  ASSUME TypeOK, NEW q \in Request, Write(q), NEW s \in Room
  PROVE  \/ Members(s)' \subseteq Members(s)
         \/ AddMemberWithCap(q) /\ role' # role /\ s = req[q].room
  <1>q. req[q].step \in Steps
    BY DEF Write, PatchRoom, SetRoomOwner, TargetNotMember, RemoveMember, DeleteRoom,
           SetMemberHidden, AddMemberWithCap, CreateInvite, Steps
  <1>p. PICK r \in Room, u \in User, v \in User :
            r = req[q].room /\ u = req[q].user /\ v = req[q].target
    BY <1>q, PendingRequest
  <1>1. CASE TargetNotMember(q) \/ PatchRoom(q) \/ SetMemberHidden(q) \/ CreateInvite(q)
    BY <1>1 DEF TargetNotMember, PatchRoom, SetMemberHidden, CreateInvite, tables, Members
  <1>2. CASE SetRoomOwner(q)
    BY <1>2, <1>p DEF SetRoomOwner, Members, TypeOK
  <1>3. CASE RemoveMember(q)
    BY <1>3, <1>p DEF RemoveMember, Members, TypeOK
  <1>4. CASE DeleteRoom(q)
    BY <1>4, <1>p DEF DeleteRoom, Members, TypeOK, NoRows
  <1>5. CASE AddMemberWithCap(q)
    BY <1>5, <1>p DEF AddMemberWithCap, Members, TypeOK
  <1> QED BY <1>1, <1>2, <1>3, <1>4, <1>5 DEF Write

\* A count that stands goes on standing, a join being written elsewhere.
LEMMA CountStandsStep ==
  ASSUME TypeOK, CountStands, [Next]_vars, ~FaultyDB,
         [\A q \in Request :
             AddMemberWithCap(q) /\ role' # role => ~DeletePending(req[q].room)]_vars
  PROVE  CountStands'
  <1> SUFFICES ASSUME NEW p \in Request, req'[p].step = "delete", NEW s, s = req'[p].room
               PROVE  Cardinality(Members(s)') <= 1
    BY DEF CountStands
  <1>1. ASSUME NEW u \in User, NEW r \in Room, CreateRoom(u, r)
        PROVE  Cardinality(Members(s)') <= 1
    <2>1. req' = req /\ req[p].room # r /\ req[p].room \in Room
      BY <1>1, PendingRequest DEF CreateRoom, Fresh, Idle, Steps
    <2>2. Members(s)' = Members(s)
      BY <1>1, <2>1 DEF CreateRoom, Members, TypeOK
    <2> QED BY <2>1, <2>2 DEF CountStands
  <1>2. ASSUME NEW q \in Request, NEW u \in User, NEW r \in Room, Check(q, u, r)
        PROVE  Cardinality(Members(s)') <= 1
    <2>1. role' = role /\ req'[p] = req[p]
      BY <1>2 DEF Check, Decide, TypeOK, tables
    <2> QED BY <2>1 DEF CountStands, Members
  <1>3. ASSUME NEW q \in Request, CountMembers(q)
        PROVE  Cardinality(Members(s)') <= 1
    <2>1. role' = role
      BY <1>3 DEF CountMembers, tables
    <2>2. CASE p = q
      <3>1. req[q].room \in Room
        BY <1>3, PendingRequest DEF CountMembers, Steps
      <3>2. /\ ~(Cardinality(Members(req[q].room)) > 1)
            /\ s = req[q].room
        BY <1>3, <2>2 DEF CountMembers, Decide, Respond, Idle, TypeOK
      <3> QED BY <2>1, <2>2, <3>1, <3>2, MembersFinite DEF Members
    <2>3. CASE p # q
      <3>1. req'[p] = req[p]
        BY <1>3, <2>3 DEF CountMembers, Decide, Respond, TypeOK
      <3> QED BY <2>1, <3>1 DEF CountStands, Members
    <2> QED BY <2>2, <2>3
  <1>4. ASSUME UNCHANGED vars PROVE Cardinality(Members(s)') <= 1
    BY <1>4 DEF vars, CountStands, Members
  <1>5. ASSUME NEW q \in Request, Write(q), ~UNCHANGED vars
        PROVE  Cardinality(Members(s)') <= 1
    <2>1. req' = [req EXCEPT ![q] = Idle]
      BY <1>5 DEF Write, Respond, PatchRoom, SetRoomOwner, TargetNotMember, RemoveMember,
             DeleteRoom, SetMemberHidden, AddMemberWithCap, CreateInvite
    <2>2. req'[p] = req[p] /\ req[p].room \in Room
      BY <2>1, PendingRequest DEF TypeOK, Idle, Steps
    <2>3. ~(AddMemberWithCap(q) /\ role' # role /\ req[p].room = req[q].room)
      BY <1>5, <2>2 DEF DeletePending
    <2>4. Members(s)' \subseteq Members(s)
      BY <1>5, <2>2, <2>3, MembersAfter
    <2>5. /\ Cardinality(Members(s)') <= Cardinality(Members(s))
          /\ Cardinality(Members(s)') \in Nat
      BY <2>2, <2>4, MembersFinite, FS_Subset, FS_CardinalityType
    <2>6. Cardinality(Members(s)) <= 1
      BY <2>2 DEF CountStands
    <2> QED BY <2>2, <2>5, <2>6, MembersFinite
  <1>6. \A q \in Request : ~Fail(q)
    BY DEF Fail
  <1> QED BY <1>1, <1>2, <1>3, <1>4, <1>5, <1>6 DEF Next

\* With statements that do not fail and no join written in between, a room is
\* deleted only while nobody but one user is in it.
THEOREM DeletesAloneUnlessRaced ==
  ASSUME ~FaultyDB
  PROVE  Spec /\ JoinsSpareDeletions => DeletesAlone
  <1>1. Init => CountStands
    BY DEF Init, CountStands, Idle
  <1>2. TypeOK /\ CountStands /\ [Next]_vars =>
            [\A r \in rooms \ rooms' : Cardinality(Members(r)) <= 1]_vars
    <2> SUFFICES ASSUME TypeOK, CountStands, Next, NEW r \in rooms \ rooms'
                 PROVE  Cardinality(Members(r)) <= 1
      OBVIOUS
    <2>1. PICK q \in Request : DeleteRoom(q)
      BY DEF Next, CreateRoom, Check, CountMembers, Fail, Write, PatchRoom, SetRoomOwner,
             TargetNotMember, RemoveMember, SetMemberHidden, AddMemberWithCap,
             CreateInvite, tables
    <2>2. r = req[q].room /\ req[q].step = "delete"
      BY <2>1 DEF DeleteRoom
    <2> QED BY <2>2 DEF CountStands
  <1>3. TypeOK /\ CountStands /\ [Next]_vars /\
            [\A q \in Request :
                AddMemberWithCap(q) /\ role' # role => ~DeletePending(req[q].room)]_vars
            => CountStands'
    BY CountStandsStep
  <1> QED BY TypeCorrect, <1>1, <1>2, <1>3, PTL
          DEF Spec, JoinsSpareDeletions, DeletesAlone
-----------------------------------------------------------------------------
(* The tables implement the book of GroupRooms.                             *)

\* The two names of one operator.
LEMMA SameCardinality == \A S : Book!Cardinality(S) = Cardinality(S)
  BY DEF Book!Cardinality, Cardinality

\* A step that leaves every entry and the set of rooms alone is invisible.
LEMMA EntriesUnchanged ==
  ASSUME rooms' = rooms, \A r \in rooms : Entry(r)' = Entry(r)
  PROVE  Entries' = Entries
  BY DEF Entries

\* A step that touches the entry of one room.
LEMMA EntryChanged ==
  ASSUME rooms' = rooms, NEW r \in rooms, NEW entry, Entry(r)' = entry,
         \A s \in rooms \ {r} : Entry(s)' = Entry(s)
  PROVE  Entries' = [Entries EXCEPT ![r] = entry]
  BY DEF Entries

\* What a room's entry is.
LEMMA EntryOf ==
  \A r \in rooms : r \in DOMAIN Entries /\ Entries[r] = Entry(r)
  BY DEF Entries

\* The fields of a room's entry.
LEMMA EntryFields ==
  ASSUME NEW r \in rooms
  PROVE  /\ Entries[r].members = Members(r) /\ Entries[r].owner = owner[r]
         /\ Entries[r].visibility = visibility[r] /\ Entries[r].invites = invites[r]
  <1>1. /\ Entry(r).members = Members(r) /\ Entry(r).owner = owner[r]
        /\ Entry(r).visibility = visibility[r] /\ Entry(r).invites = invites[r]
    BY DEF Entry
  <1> QED BY <1>1, EntryOf

\* handleCreateRoom finds the new room without rows, whatever was there before.
LEMMA CreateIsCreate ==
  ASSUME IInv, NEW u \in User, NEW r \in Room, CreateRoom(u, r)
  PROVE  Book!Create(r, u)
  <1>t. TypeOK /\ NoOrphanRows
    BY DEF IInv
  <1>1. /\ r \notin rooms /\ rooms' = rooms \union {r}
        /\ owner' = [owner EXCEPT ![r] = u] /\ role' = [role EXCEPT ![r][u] = "owner"]
        /\ invites' = invites
    BY DEF CreateRoom, Fresh
  <1>2. PICK v \in {"public", "private"}, e \in BOOLEAN :
            /\ visibility' = [visibility EXCEPT ![r] = v]
            /\ emojiOnly' = [emojiOnly EXCEPT ![r] = e]
    BY DEF CreateRoom
  <1> DEFINE new == [owner |-> u, members |-> {u}, visibility |-> v,
                     emojiOnly |-> e, invites |-> {}]
  <1>3. Entry(r)' = new
    <2>1. Members(r)' = {u}
      BY <1>t, <1>1 DEF Members, NoOrphanRows, TypeOK
    <2>2. owner'[r] = u /\ invites'[r] = {} /\ visibility'[r] = v /\ emojiOnly'[r] = e
      BY <1>t, <1>1, <1>2 DEF NoOrphanRows, TypeOK
    <2> QED BY <2>1, <2>2 DEF Entry
  <1>4. ASSUME NEW s \in rooms PROVE Entry(s)' = Entry(s)
    <2>1. s # r /\ s \in Room
      BY <1>t, <1>1 DEF TypeOK
    <2>2. Members(s)' = Members(s)
      BY <1>t, <1>1, <2>1 DEF Members, TypeOK
    <2>3. /\ owner'[s] = owner[s] /\ invites'[s] = invites[s]
          /\ visibility'[s] = visibility[s] /\ emojiOnly'[s] = emojiOnly[s]
      BY <1>t, <1>1, <1>2, <2>1 DEF TypeOK
    <2> QED BY <2>2, <2>3 DEF Entry
  <1> HIDE DEF new
  <1>5. Entries' = [s \in DOMAIN Entries \union {r} |-> IF s = r THEN new ELSE Entries[s]]
    BY <1>1, <1>3, <1>4 DEF Entries
  <1>6. r \notin DOMAIN Entries
    BY <1>1 DEF Entries
  <1> QED BY <1>5, <1>6 DEF Book!Create, new

\* Reading, counting, answering and hiding do not touch the book.
LEMMA ReadsAreInvisible ==
  ASSUME UNCHANGED <<rooms, visibility, owner, emojiOnly, role, invites>>
  PROVE  Entries' = Entries
  <1>1. \A r : Entry(r)' = Entry(r)
    BY DEF Entry, Members
  <1> QED BY <1>1, EntriesUnchanged

\* patchRoom on a room that is there; on one that is gone it updates no row.
LEMMA PatchIsPatch ==
  ASSUME IInv, NEW q \in Request, PatchRoom(q)
  PROVE  Entries' = Entries \/ (req[q].room \in Room /\ Book!Patch(req[q].room))
  <1>t. TypeOK
    BY DEF IInv
  <1>p. PICK r \in Room : r = req[q].room
    BY <1>t, PendingRequest DEF PatchRoom, Steps
  <1>1. CASE r \in rooms
    <2>1. PICK e \in BOOLEAN : emojiOnly' = [emojiOnly EXCEPT ![r] = e]
      BY <1>p, <1>1 DEF PatchRoom
    <2>2. UNCHANGED <<rooms, visibility, owner, role, invites>>
      BY DEF PatchRoom
    <2>3. \A s : Members(s)' = Members(s)
      BY <2>2 DEF Members
    <2>4. Entry(r)' = [Entry(r) EXCEPT !.emojiOnly = e]
      BY <1>t, <1>p, <2>1, <2>2, <2>3 DEF Entry, TypeOK
    <2>5. \A s \in rooms \ {r} : Entry(s)' = Entry(s)
      BY <1>t, <1>p, <2>1, <2>2, <2>3 DEF Entry, TypeOK
    <2>6. Entries' = [Entries EXCEPT ![r].emojiOnly = e]
      BY <1>1, <2>2, <2>4, <2>5, EntryChanged, EntryOf
    <2> QED BY <1>p, <1>1, <2>6, EntryOf DEF Book!Patch
  <1>2. CASE r \notin rooms
    <2>1. UNCHANGED <<rooms, visibility, owner, emojiOnly, role, invites>>
      BY <1>p, <1>2 DEF PatchRoom
    <2> QED BY <2>1, ReadsAreInvisible
  <1> QED BY <1>1, <1>2

\* setRoomOwner gives a room there is to one of its members, and the roles it
\* writes leave the members the same.
LEMMA TransferIsTransfer ==
  ASSUME IInv, NEW q \in Request, SetRoomOwner(q)
  PROVE  /\ req[q].room \in Room /\ req[q].target \in User
         /\ Book!Transfer(req[q].room, req[q].target)
  <1>t. TypeOK /\ NoOrphanRows
    BY DEF IInv
  <1>p. PICK r \in Room, v \in User : r = req[q].room /\ v = req[q].target
    BY <1>t, PendingRequest DEF SetRoomOwner, Steps
  <1>1. /\ v \in Members(r)
        /\ owner' = [owner EXCEPT ![r] = v]
        /\ role' = [role EXCEPT ![r] = [w \in User |->
                         IF w = v THEN "owner"
                         ELSE IF w \in Members(r) THEN "member" ELSE "none"]]
        /\ UNCHANGED <<rooms, visibility, emojiOnly, invites>>
    BY <1>p DEF SetRoomOwner
  <1>2. r \in rooms
    BY <1>t, <1>1 DEF NoOrphanRows
  <1>3. \A s \in Room : Members(s)' = Members(s)
    <2> TAKE s \in Room
    <2>1. CASE s = r
      BY <1>1, <2>1, <1>t DEF Members, TypeOK
    <2>2. CASE s # r
      BY <1>1, <2>2, <1>t DEF Members, TypeOK
    <2> QED BY <2>1, <2>2
  <1>4. Entry(r)' = [Entry(r) EXCEPT !.owner = v]
    <2>1. owner'[r] = v /\ Members(r)' = Members(r)
      BY <1>t, <1>1, <1>3 DEF TypeOK
    <2> QED BY <1>1, <2>1 DEF Entry
  <1>5. \A s \in rooms \ {r} : Entry(s)' = Entry(s)
    BY <1>t, <1>1, <1>3 DEF Entry, TypeOK
  <1>6. Entries' = [Entries EXCEPT ![r].owner = v]
    BY <1>1, <1>2, <1>4, <1>5, EntryChanged, EntryOf
  <1>7. v \in Entries[r].members
    BY <1>1, <1>2, EntryFields
  <1> QED BY <1>p, <1>2, <1>6, <1>7, EntryOf DEF Book!Transfer

\* removeMember takes one member out of one room, or finds no row to delete.
LEMMA RemoveIsLeave ==
  ASSUME IInv, NEW q \in Request, RemoveMember(q)
  PROVE  \/ Entries' = Entries
         \/ /\ req[q].room \in rooms /\ req[q].user \in User
            /\ Book!Leave(req[q].room, req[q].user)
  <1>t. TypeOK /\ NoOrphanRows
    BY DEF IInv
  <1>p. PICK r \in Room, u \in User : r = req[q].room /\ u = req[q].user
    BY <1>t, PendingRequest DEF RemoveMember, Steps
  <1>1. /\ role' = [role EXCEPT ![r][u] = "none"]
        /\ UNCHANGED <<rooms, visibility, owner, emojiOnly, invites>>
    BY <1>p DEF RemoveMember
  <1>2. /\ Members(r)' = Members(r) \ {u}
        /\ \A s \in Room \ {r} : Members(s)' = Members(s)
    BY <1>1, <1>t DEF Members, TypeOK
  <1>3. \A s \in rooms \ {r} : Entry(s)' = Entry(s)
    BY <1>t, <1>1, <1>2 DEF Entry, TypeOK
  <1>4. CASE u \in Members(r)
    <2>1. r \in rooms
      BY <1>t, <1>4 DEF NoOrphanRows
    <2>2. Entry(r)' = [Entry(r) EXCEPT !.members = Members(r) \ {u}]
      BY <1>1, <1>2 DEF Entry
    <2>3. Entries[r].members = Members(r)
      BY <2>1, EntryFields
    <2>4. Entries' = [Entries EXCEPT ![r].members = Members(r) \ {u}]
      BY <1>1, <1>3, <2>1, <2>2, EntryChanged, EntryOf
    <2> QED BY <1>p, <1>4, <2>1, <2>3, <2>4, EntryOf DEF Book!Leave
  <1>5. CASE u \notin Members(r)
    <2>1. Entry(r)' = Entry(r)
      BY <1>1, <1>2, <1>5 DEF Entry
    <2> QED BY <1>1, <1>3, <2>1, EntriesUnchanged
  <1> QED BY <1>4, <1>5

\* deleteRoom and its cascades take one entry out of the book, or find none.
LEMMA DeleteIsClose ==
  ASSUME IInv, NEW q \in Request, DeleteRoom(q)
  PROVE  Entries' = Entries \/ (req[q].room \in rooms /\ Book!Close(req[q].room))
  <1>t. TypeOK /\ NoOrphanRows
    BY DEF IInv
  <1>p. PICK r \in Room : r = req[q].room
    BY <1>t, PendingRequest DEF DeleteRoom, Steps
  <1>1. /\ rooms' = rooms \ {r} /\ owner' = [owner EXCEPT ![r] = NoUser]
        /\ role' = [role EXCEPT ![r] = NoRows]
        /\ invites' = [invites EXCEPT ![r] = {}] /\ UNCHANGED <<visibility, emojiOnly>>
    BY <1>p DEF DeleteRoom
  <1>2. ASSUME NEW s \in rooms \ {r} PROVE Entry(s)' = Entry(s)
    <2>1. Members(s)' = Members(s)
      BY <1>t, <1>1 DEF Members, TypeOK
    <2> QED BY <1>t, <1>1, <2>1 DEF Entry, TypeOK
  <1>3. Entries' = [s \in rooms \ {r} |-> Entries[s]] /\ DOMAIN Entries = rooms
    BY <1>1, <1>2 DEF Entries
  <1>4. CASE r \in rooms
    BY <1>p, <1>3, <1>4 DEF Book!Close
  <1>5. CASE r \notin rooms
    BY <1>1, <1>2, <1>5, EntriesUnchanged
  <1> QED BY <1>4, <1>5

\* addMemberWithCap counts in its transaction, the foreign key finds the room,
\* and the invite that let the join through is still there.
LEMMA AddIsJoin ==
  ASSUME IInv, NEW q \in Request, AddMemberWithCap(q)
  PROVE  \/ Entries' = Entries
         \/ /\ req[q].room \in Room /\ req[q].user \in User
            /\ Book!Join(req[q].room, req[q].user)
  <1>t. TypeOK
    BY DEF IInv
  <1>p. PICK r \in Room, u \in User : r = req[q].room /\ u = req[q].user
    BY <1>t, PendingRequest DEF AddMemberWithCap, Steps
  <1>0. UNCHANGED <<rooms, visibility, owner, emojiOnly, invites>>
    BY DEF AddMemberWithCap
  <1>1. CASE u \notin Members(r) /\ Admits(r)
    <2>1. role' = [role EXCEPT ![r][u] = "member"]
      BY <1>p, <1>1 DEF AddMemberWithCap
    <2>2. r \in rooms /\ Cardinality(Members(r)) < GroupMemberCap
      BY <1>1 DEF Admits
    <2>3. /\ Members(r)' = Members(r) \union {u}
          /\ \A s \in Room \ {r} : Members(s)' = Members(s)
      BY <2>1, <1>t DEF Members, TypeOK
    <2>4. \A s \in rooms \ {r} : Entry(s)' = Entry(s)
      BY <1>t, <1>0, <2>3 DEF Entry, TypeOK
    <2>5. Entry(r)' = [Entry(r) EXCEPT !.members = Members(r) \union {u}]
      BY <1>0, <2>3 DEF Entry
    <2>6. /\ Entries[r].members = Members(r) /\ Entries[r].invites = invites[r]
          /\ Entries[r].visibility = visibility[r]
      BY <2>2, EntryFields
    <2>7. Entries' = [Entries EXCEPT ![r].members = Members(r) \union {u}]
      BY <1>0, <2>2, <2>4, <2>5, EntryChanged, EntryOf
    <2>8. visibility[r] = "private" => invites[r] # {}
      BY <1>p, <2>2 DEF IInv, JoinInvited, AddMemberWithCap
    <2>9. Book!Cardinality(Entries[r].members) < GroupMemberCap
      BY <2>2, <2>6, SameCardinality
    <2> QED BY <1>p, <1>1, <2>2, <2>6, <2>7, <2>8, <2>9, EntryOf DEF Book!Join
  <1>2. CASE ~(u \notin Members(r) /\ Admits(r))
    <2>1. role' = role
      BY <1>p, <1>2 DEF AddMemberWithCap
    <2> QED BY <1>0, <2>1, ReadsAreInvisible
  <1> QED BY <1>1, <1>2

\* createInvite adds one inviter to a room there is, or changes nothing.
LEMMA InviteIsInvite ==
  ASSUME IInv, NEW q \in Request, CreateInvite(q)
  PROVE  \/ Entries' = Entries
         \/ /\ req[q].room \in Room /\ req[q].user \in User
            /\ Book!Invite(req[q].room, req[q].user)
  <1>t. TypeOK
    BY DEF IInv
  <1>p. PICK r \in Room, u \in User : r = req[q].room /\ u = req[q].user
    BY <1>t, PendingRequest DEF CreateInvite, Steps
  <1>0. UNCHANGED <<rooms, visibility, owner, emojiOnly, role>>
    BY DEF CreateInvite
  <1>1. CASE r \in rooms
    <2>1. invites' = [invites EXCEPT ![r] = @ \union {u}]
      BY <1>p, <1>1 DEF CreateInvite
    <2>2. \A s : Members(s)' = Members(s)
      BY <1>0 DEF Members
    <2>3. Entry(r)' = [Entry(r) EXCEPT !.invites = invites[r] \union {u}]
      <3>1. invites'[r] = invites[r] \union {u}
        BY <1>t, <2>1 DEF TypeOK
      <3> QED BY <1>0, <2>2, <3>1 DEF Entry
    <2>4. \A s \in rooms \ {r} : Entry(s)' = Entry(s)
      BY <1>t, <1>0, <2>1, <2>2 DEF Entry, TypeOK
    <2>5. Entries[r].invites = invites[r]
      BY <1>1, EntryFields
    <2>6. Entries' = [Entries EXCEPT ![r].invites = invites[r] \union {u}]
      BY <1>0, <1>1, <2>3, <2>4, EntryChanged, EntryOf
    <2> QED BY <1>p, <1>1, <2>5, <2>6, EntryOf DEF Book!Invite
  <1>2. CASE r \notin rooms
    <2>1. invites' = invites
      BY <1>p, <1>2 DEF CreateInvite
    <2> QED BY <1>0, <2>1, ReadsAreInvisible
  <1> QED BY <1>1, <1>2

\* A step that only reads, decides or answers does not touch the book.
LEMMA OtherStepsAreInvisible ==
  ASSUME NEW q \in Request,
         \/ \E u \in User, r \in Room : Check(q, u, r)
         \/ CountMembers(q) \/ Fail(q) \/ TargetNotMember(q) \/ SetMemberHidden(q)
  PROVE  Entries' = Entries
  <1>1. UNCHANGED <<rooms, visibility, owner, emojiOnly, role, invites>>
    BY DEF Check, CountMembers, Fail, TargetNotMember, SetMemberHidden, tables
  <1> QED BY <1>1, ReadsAreInvisible

\* Every step of the handlers is one operation on the book or invisible there.
LEMMA BookStep == IInv /\ [Next]_vars => [Book!Next]_Entries
  <1> SUFFICES ASSUME IInv, [Next]_vars PROVE Book!Next \/ Entries' = Entries
    OBVIOUS
  <1>t. rooms \subseteq Room
    BY DEF IInv, TypeOK
  <1>1. ASSUME NEW u \in User, NEW r \in Room, CreateRoom(u, r) PROVE Book!Next
    BY <1>1, CreateIsCreate DEF Book!Next
  <1>2. ASSUME NEW q \in Request, \E u \in User, r \in Room : Check(q, u, r)
        PROVE  Entries' = Entries
    BY <1>2, OtherStepsAreInvisible
  <1>3. ASSUME NEW q \in Request, CountMembers(q) \/ Fail(q) PROVE Entries' = Entries
    BY <1>3, OtherStepsAreInvisible
  <1>4. ASSUME NEW q \in Request, Write(q) PROVE Book!Next \/ Entries' = Entries
    <2>1. CASE TargetNotMember(q) \/ SetMemberHidden(q)
      BY <2>1, OtherStepsAreInvisible
    <2>2. CASE PatchRoom(q)
      BY <2>2, PatchIsPatch DEF Book!Next
    <2>3. CASE SetRoomOwner(q)
      BY <2>3, TransferIsTransfer DEF Book!Next
    <2>4. CASE RemoveMember(q)
      BY <2>4, <1>t, RemoveIsLeave DEF Book!Next
    <2>5. CASE DeleteRoom(q)
      BY <2>5, <1>t, DeleteIsClose DEF Book!Next
    <2>6. CASE AddMemberWithCap(q)
      BY <2>6, AddIsJoin DEF Book!Next
    <2>7. CASE CreateInvite(q)
      BY <2>7, InviteIsInvite DEF Book!Next
    <2> QED BY <1>4, <2>1, <2>2, <2>3, <2>4, <2>5, <2>6, <2>7 DEF Write
  <1>5. CASE UNCHANGED vars
    BY <1>5, ReadsAreInvisible DEF vars
  <1> QED BY <1>1, <1>2, <1>3, <1>4, <1>5 DEF Next

\* The empty tables are the empty book.
LEMMA BookInit == Init => Book!Init
  BY DEF Init, Book!Init, Entries

\* However requests interleave, and whichever statements fail, the tables only
\* ever change by one operation of GroupRooms at a time.
THEOREM BookRefinement == Spec => RefinesBook
  BY Invariant, BookInit, BookStep, PTL DEF Spec, RefinesBook, Book!Spec

-----------------------------------------------------------------------------
(* What the handlers check holds when they write, unless one of two races  *)
(* is lost: a transfer to somebody leaving, a join to a room being deleted.*)

\* Without these races the owner is in its room, does not leave it, and what
\* it has counted before it deletes the room is still so.
LEMMA StrictStep ==
  IInv /\ OwnerHasRow /\ CountStands /\ [Next]_vars => [Book!StrictNext]_Entries
  <1> SUFFICES ASSUME IInv, OwnerHasRow, CountStands, [Next]_vars
               PROVE  Book!StrictNext \/ Entries' = Entries
    OBVIOUS
  <1>t. rooms \subseteq Room
    BY DEF IInv, TypeOK
  <1>1. ASSUME NEW u \in User, NEW r \in Room, CreateRoom(u, r) PROVE Book!StrictNext
    BY <1>1, CreateIsCreate DEF Book!StrictNext
  <1>2. ASSUME NEW q \in Request,
               (\E u \in User, r \in Room : Check(q, u, r)) \/ CountMembers(q) \/ Fail(q)
        PROVE  Entries' = Entries
    BY <1>2, OtherStepsAreInvisible
  <1>3. ASSUME NEW q \in Request, Write(q) PROVE Book!StrictNext \/ Entries' = Entries
    <2>1. CASE TargetNotMember(q) \/ SetMemberHidden(q)
      BY <2>1, OtherStepsAreInvisible
    <2>2. CASE PatchRoom(q)
      BY <2>2, PatchIsPatch DEF Book!StrictNext
    <2>3. CASE SetRoomOwner(q)
      BY <2>3, TransferIsTransfer DEF Book!StrictNext
    <2>4. CASE RemoveMember(q)
      <3>1. req[q].room \in rooms => req[q].user # owner[req[q].room]
        BY <2>4 DEF RemoveMember, OwnerHasRow
      <3> QED BY <2>4, <3>1, <1>t, RemoveIsLeave, EntryFields DEF Book!StrictNext
    <2>5. CASE DeleteRoom(q)
      <3> DEFINE r == req[q].room
      <3>1. ASSUME r \in rooms PROVE Members(r) = {owner[r]}
        <4>1. owner[r] \in Members(r)
          BY <3>1 DEF IInv, TypeOK, OwnerHasRow, Members
        <4>2. Cardinality(Members(r)) <= 1
          BY <2>5 DEF DeleteRoom, CountStands
        <4>3. IsFiniteSet(Members(r)) /\ Cardinality(Members(r)) \in Nat
          BY <1>t, <3>1, MembersFinite
        <4>4. Cardinality(Members(r)) # 0
          BY <4>1, <4>3, FS_EmptySet
        <4>5. Cardinality(Members(r)) = 1
          BY <4>2, <4>3, <4>4
        <4>6. \E x : Members(r) = {x}
          BY <4>3, <4>5, FS_Singleton
        <4> QED BY <4>1, <4>6
      <3>2. r \in rooms => Entries[r].members = {Entries[r].owner}
        BY <3>1, EntryFields
      <3> QED BY <2>5, <3>2, <1>t, DeleteIsClose DEF Book!StrictNext
    <2>6. CASE AddMemberWithCap(q)
      BY <2>6, AddIsJoin DEF Book!StrictNext
    <2>7. CASE CreateInvite(q)
      BY <2>7, InviteIsInvite DEF Book!StrictNext
    <2> QED BY <1>3, <2>1, <2>2, <2>3, <2>4, <2>5, <2>6, <2>7 DEF Write
  <1>4. CASE UNCHANGED vars
    BY <1>4, ReadsAreInvisible DEF vars
  <1> QED BY <1>1, <1>2, <1>3, <1>4 DEF Next

\* With statements that do not fail, unless a transfer is written while the
\* leave of its target is pending or a join while its room is being deleted,
\* each request acts as if its checks and its write were one step: the owner
\* never walks out and a room is closed by its last member, the owner.
THEOREM StrictUnlessRaced ==
  ASSUME ~FaultyDB
  PROVE  Spec /\ TransfersSpareLeavers /\ JoinsSpareDeletions => Book!StrictSpec
  <1>1. Init => OwnerHasRow /\ CountStands
    BY DEF Init, OwnerHasRow, CountStands, Idle
  <1>2. IInv /\ OwnerHasRow /\ [Next]_vars /\
            [\A q \in Request :
                SetRoomOwner(q) => ~LeavePending(req[q].room, req[q].target)]_vars
            => OwnerHasRow'
    BY OwnerHasRowStep
  <1>3. IInv /\ CountStands /\ [Next]_vars /\
            [\A q \in Request :
                AddMemberWithCap(q) /\ role' # role => ~DeletePending(req[q].room)]_vars
            => CountStands'
    BY CountStandsStep DEF IInv
  <1> QED BY Invariant, BookInit, <1>1, <1>2, <1>3, StrictStep, PTL
          DEF Spec, TransfersSpareLeavers, JoinsSpareDeletions, Book!StrictSpec

-----------------------------------------------------------------------------
(* What the strict book guarantees, whoever keeps it.                      *)

EntryType == [owner : User, members : SUBSET User, visibility : {"public", "private"},
              emojiOnly : BOOLEAN, invites : SUBSET User]

\* In the strict book a room's owner is in it, the cap holds, and a private room
\* with a second member, or without its owner alone, has somebody's invite.
BookSound ==
    \A r \in DOMAIN Entries :
        LET e == Entries[r] IN
        /\ e.owner \in e.members
        /\ Cardinality(e.members) <= GroupMemberCap
        /\ e.visibility = "private" => e.members = {e.owner} \/ e.invites # {}

\* The operations of the strict book keep that by themselves: together with
\* StrictUnlessRaced, what handleLeaveRoom says of owners ("owner must transfer
\* before leaving") is true of the handlers wherever those races are not lost.
THEOREM StrictBookIsSound == Book!StrictSpec => []BookSound
  <1> DEFINE Typed == Entries \in [DOMAIN Entries -> EntryType]
             Sound(e) == /\ e.owner \in e.members
                         /\ Cardinality(e.members) <= GroupMemberCap
                         /\ e.visibility = "private" => e.members = {e.owner} \/ e.invites # {}
  <1>1. Book!Init => Typed /\ BookSound
    BY DEF Book!Init, BookSound
  <1>2. Typed /\ BookSound /\ [Book!StrictNext]_Entries => Typed' /\ BookSound'
    <2> SUFFICES ASSUME Typed, BookSound, [Book!StrictNext]_Entries
                 PROVE  Typed' /\ BookSound'
      OBVIOUS
    <2>s. \A r \in DOMAIN Entries : Entries[r] \in EntryType /\ Sound(Entries[r])
      BY DEF BookSound
    \* A step that changes one entry for a sound one keeps the book sound.
    <2>f. ASSUME NEW r \in Room, NEW e \in EntryType, Sound(e),
                 Entries' = [s \in DOMAIN Entries \union {r} |->
                                IF s = r THEN e ELSE Entries[s]]
          PROVE  Typed' /\ BookSound'
      <3>1. DOMAIN Entries' = DOMAIN Entries \union {r}
        BY <2>f
      <3>2. \A s \in DOMAIN Entries' : Entries'[s] \in EntryType /\ Sound(Entries'[s])
        BY <2>f, <2>s, <3>1
      <3>3. Entries' \in [DOMAIN Entries' -> EntryType]
        BY <2>f, <3>1, <3>2
      <3> QED BY <3>2, <3>3 DEF BookSound
    <2>c. ASSUME NEW r \in Room, NEW u \in User, Book!Create(r, u)
          PROVE  Typed' /\ BookSound'
      <3>1. PICK v \in {"public", "private"}, e \in BOOLEAN :
               Entries' = [s \in DOMAIN Entries \union {r} |->
                              IF s = r
                              THEN [owner |-> u, members |-> {u}, visibility |-> v,
                                    emojiOnly |-> e, invites |-> {}]
                              ELSE Entries[s]]
        BY <2>c DEF Book!Create
      <3> DEFINE f == [owner |-> u, members |-> {u}, visibility |-> v,
                       emojiOnly |-> e, invites |-> {}]
      <3>2. f \in EntryType
        BY DEF EntryType
      <3>3. Cardinality({u}) = 1
        BY FS_Singleton
      <3>4. Sound(f)
        BY <3>3
      <3>5. Entries' = [s \in DOMAIN Entries \union {r} |-> IF s = r THEN f ELSE Entries[s]]
        BY <3>1
      <3> HIDE DEF f
      <3> QED BY <2>f, <3>2, <3>4, <3>5
    <2>j. ASSUME NEW r \in Room, NEW u \in User, Book!Join(r, u)
          PROVE  Typed' /\ BookSound'
      <3> DEFINE e == Entries[r]
                 f == [e EXCEPT !.members = @ \union {u}]
      <3>1. e \in EntryType /\ Sound(e) /\ r \in DOMAIN Entries
        BY <2>j, <2>s DEF Book!Join
      <3>2. f \in EntryType
        BY <3>1 DEF EntryType
      <3>3. Cardinality(f.members) <= GroupMemberCap
        <4>a. e.members \subseteq User
          BY <3>1 DEF EntryType
        <4>b. IsFiniteSet(e.members)
          BY <4>a, FS_Subset
        <4>1. IsFiniteSet(e.members) /\ u \notin e.members /\ Cardinality(e.members) < GroupMemberCap
          BY <2>j, <4>b, SameCardinality DEF Book!Join
        <4>2. Cardinality(e.members \union {u}) = Cardinality(e.members) + 1
          BY <4>1, FS_AddElement
        <4>3. Cardinality(e.members) \in Nat
          BY <4>1, FS_CardinalityType
        <4>4. f.members = e.members \union {u}
          BY <3>1 DEF EntryType
        <4> QED BY <4>1, <4>2, <4>3, <4>4
      <3>4. Sound(f)
        BY <2>j, <3>1, <3>3 DEF Book!Join, EntryType
      <3>5. Entries' = [s \in DOMAIN Entries \union {r} |-> IF s = r THEN f ELSE Entries[s]]
        BY <2>j, <3>1 DEF Book!Join
      <3> HIDE DEF f
      <3> QED BY <2>f, <3>2, <3>4, <3>5
    <2>l. ASSUME NEW r \in Room, NEW u \in User, Book!Leave(r, u), u # Entries[r].owner
          PROVE  Typed' /\ BookSound'
      <3> DEFINE e == Entries[r]
                 f == [e EXCEPT !.members = @ \ {u}]
      <3>1. e \in EntryType /\ Sound(e) /\ r \in DOMAIN Entries
        BY <2>l, <2>s DEF Book!Leave
      <3>2. f \in EntryType
        BY <3>1 DEF EntryType
      <3>3. Cardinality(f.members) <= GroupMemberCap
        <4>1. IsFiniteSet(e.members) /\ f.members \subseteq e.members
          BY <3>1, FS_Subset DEF EntryType
        <4>2. Cardinality(f.members) <= Cardinality(e.members)
          BY <4>1, FS_Subset
        <4>3. Cardinality(e.members) \in Nat /\ Cardinality(f.members) \in Nat
          BY <4>1, FS_Subset, FS_CardinalityType
        <4> QED BY <3>1, <4>2, <4>3
      <3>4. Sound(f)
        BY <2>l, <3>1, <3>3 DEF EntryType
      <3>5. Entries' = [s \in DOMAIN Entries \union {r} |-> IF s = r THEN f ELSE Entries[s]]
        BY <2>l, <3>1 DEF Book!Leave
      <3> HIDE DEF f
      <3> QED BY <2>f, <3>2, <3>4, <3>5
    <2>t. ASSUME NEW r \in Room, NEW u \in User, Book!Transfer(r, u)
          PROVE  Typed' /\ BookSound'
      <3> DEFINE e == Entries[r]
                 f == [e EXCEPT !.owner = u]
      <3>1. e \in EntryType /\ Sound(e) /\ r \in DOMAIN Entries /\ u \in e.members
        BY <2>t, <2>s DEF Book!Transfer
      <3>2. f \in EntryType
        BY <3>1 DEF EntryType
      <3>3. Sound(f)
        BY <3>1 DEF EntryType
      <3>4. Entries' = [s \in DOMAIN Entries \union {r} |-> IF s = r THEN f ELSE Entries[s]]
        BY <2>t, <3>1 DEF Book!Transfer
      <3> HIDE DEF f
      <3> QED BY <2>f, <3>2, <3>3, <3>4
    <2>p. ASSUME NEW r \in Room, Book!Patch(r)
          PROVE  Typed' /\ BookSound'
      <3>1. PICK b \in BOOLEAN : Entries' = [Entries EXCEPT ![r].emojiOnly = b]
        BY <2>p DEF Book!Patch
      <3> DEFINE e == Entries[r]
                 f == [e EXCEPT !.emojiOnly = b]
      <3>2. e \in EntryType /\ Sound(e) /\ r \in DOMAIN Entries
        BY <2>p, <2>s DEF Book!Patch
      <3>3. f \in EntryType /\ Sound(f)
        BY <3>2 DEF EntryType
      <3>4. Entries' = [s \in DOMAIN Entries \union {r} |-> IF s = r THEN f ELSE Entries[s]]
        BY <3>1, <3>2
      <3> HIDE DEF f
      <3> QED BY <2>f, <3>3, <3>4
    <2>i. ASSUME NEW r \in Room, NEW u \in User, Book!Invite(r, u)
          PROVE  Typed' /\ BookSound'
      <3> DEFINE e == Entries[r]
                 f == [e EXCEPT !.invites = @ \union {u}]
      <3>1. e \in EntryType /\ Sound(e) /\ r \in DOMAIN Entries
        BY <2>i, <2>s DEF Book!Invite
      <3>2. f \in EntryType /\ Sound(f)
        BY <3>1 DEF EntryType
      <3>3. Entries' = [s \in DOMAIN Entries \union {r} |-> IF s = r THEN f ELSE Entries[s]]
        BY <2>i, <3>1 DEF Book!Invite
      <3> HIDE DEF f
      <3> QED BY <2>f, <3>2, <3>3
    <2>d. ASSUME NEW r \in Room, Book!Close(r)
          PROVE  Typed' /\ BookSound'
      BY <2>d, <2>s DEF Book!Close, BookSound
    <2>u. CASE Entries' = Entries
      BY <2>u DEF BookSound
    <2> QED BY <2>c, <2>j, <2>l, <2>t, <2>p, <2>i, <2>d, <2>u DEF Book!StrictNext
  <1> QED BY <1>1, <1>2, PTL DEF Book!StrictSpec

-----------------------------------------------------------------------------
(* Who acts.  handlePatchRoom, handleTransferOwner and an owner's leave    *)
(* look at rooms.owner_id or the role once, before they write.             *)

\* What only the owner is let through to.
OwnerSteps == {"patch", "transfer", "count", "delete"}

\* No transfer is written while another request that was let through as the
\* owner's is on its way to the same room.
TransfersSpareOwners ==
    [][\A q \in Request : SetRoomOwner(q) =>
          \A p \in Request \ {q} :
              req[p].step \in OwnerSteps => req[p].room # req[q].room]_vars

\* Whoever edits, gives away or deletes a room is its owner at that moment.
OwnersAct ==
    [][\A q \in Request :
          (SetRoomOwner(q) \/ PatchRoom(q) \/ DeleteRoom(q)) /\ Entries' # Entries
              => owner[req[q].room] = req[q].user]_vars

\* Who was let through as the owner still is, or the room is gone.
OwnerStands ==
    \A q \in Request : req[q].step \in OwnerSteps /\ req[q].room \in rooms =>
        owner[req[q].room] = req[q].user

\* Every step keeps it so, a transfer on condition that it meets no other.
LEMMA OwnerStandsStep ==
  ASSUME IInv, OwnerStands, [Next]_vars,
         [\A q \in Request : SetRoomOwner(q) =>
             \A p \in Request \ {q} :
                 req[p].step \in OwnerSteps => req[p].room # req[q].room]_vars
  PROVE  OwnerStands'
  <1>t. TypeOK
    BY DEF IInv
  <1> SUFFICES ASSUME NEW p \in Request, req'[p].step \in OwnerSteps,
                      req'[p].room \in rooms'
               PROVE  owner'[req'[p].room] = req'[p].user
    BY DEF OwnerStands
  <1> DEFINE Goal == owner'[req'[p].room] = req'[p].user
  <1>1. ASSUME NEW u \in User, NEW r \in Room, CreateRoom(u, r) PROVE Goal
    <2>1. req' = req /\ req[p].room # r
      BY <1>1, <1>t DEF CreateRoom, Fresh, Idle, OwnerSteps
    <2>2. req[p].room \in rooms /\ owner'[req[p].room] = owner[req[p].room]
      BY <1>1, <1>t, <2>1 DEF CreateRoom, TypeOK
    <2> QED BY <2>1, <2>2 DEF OwnerStands
  <1>2. ASSUME NEW q \in Request, NEW u \in User, NEW r \in Room, Check(q, u, r)
        PROVE  Goal
    <2>1. UNCHANGED <<rooms, owner>>
      BY <1>2 DEF Check, tables
    <2>2. CASE req'[p] = req[p]
      BY <2>1, <2>2 DEF OwnerStands
    <2>3. CASE req'[p] # req[p]
      <3>1. req'[p].room = r /\ req'[p].user = u /\ (owner[r] = u \/ role[r][u] = "owner")
        BY <1>2, <1>t, <2>3 DEF Check, Decide, TypeOK, OwnerSteps
      <3> QED BY <2>1, <3>1 DEF IInv, OwnerColumnAgrees
    <2> QED BY <2>2, <2>3
  <1>3. ASSUME NEW q \in Request, CountMembers(q) \/ Fail(q) PROVE Goal
    <2>1. UNCHANGED <<rooms, owner>>
      BY <1>3 DEF CountMembers, Fail, tables
    <2>2. req[p].step \in OwnerSteps /\ req'[p].room = req[p].room /\ req'[p].user = req[p].user
      BY <1>3, <1>t DEF CountMembers, Fail, Decide, Respond, Idle, TypeOK, OwnerSteps
    <2> QED BY <2>1, <2>2 DEF OwnerStands
  <1>4. ASSUME NEW q \in Request, Write(q), ~UNCHANGED vars PROVE Goal
    <2>1. req' = [req EXCEPT ![q] = Idle]
      BY <1>4 DEF Write, Respond, PatchRoom, SetRoomOwner, TargetNotMember, RemoveMember,
             DeleteRoom, SetMemberHidden, AddMemberWithCap, CreateInvite
    <2>2. p # q /\ req'[p] = req[p]
      BY <2>1, <1>t DEF TypeOK, Idle, OwnerSteps
    <2>3. CASE UNCHANGED <<rooms, owner>>
      BY <2>2, <2>3 DEF OwnerStands
    <2>4. CASE SetRoomOwner(q)
      <3>1. rooms' = rooms /\ owner' = [owner EXCEPT ![req[q].room] = req[q].target]
        BY <2>4 DEF SetRoomOwner
      <3>2. req[p].room # req[q].room
        BY <1>4, <2>2, <2>4
      <3> QED BY <2>2, <3>1, <3>2, <1>t DEF OwnerStands, TypeOK
    <2>5. CASE DeleteRoom(q)
      <3>1. /\ rooms' = rooms \ {req[q].room}
            /\ owner' = [owner EXCEPT ![req[q].room] = NoUser]
        BY <2>5 DEF DeleteRoom
      <3> QED BY <2>2, <3>1, <1>t DEF OwnerStands, TypeOK
    <2> QED BY <1>4, <2>3, <2>4, <2>5
            DEF Write, PatchRoom, TargetNotMember, RemoveMember, SetMemberHidden,
                AddMemberWithCap, CreateInvite, tables
  <1>5. ASSUME UNCHANGED vars PROVE Goal
    BY <1>5 DEF vars, OwnerStands
  <1> QED BY <1>1, <1>2, <1>3, <1>4, <1>5 DEF Next

\* A stale check is acted on only behind a transfer: unless one is written
\* while another of the owner's requests is pending, nobody but the owner of
\* that moment edits, gives away or deletes a room.
THEOREM OwnersActUnlessRaced == Spec /\ TransfersSpareOwners => OwnersAct
  <1>1. Init => OwnerStands
    BY DEF Init, OwnerStands, Idle, OwnerSteps
  <1>2. IInv /\ OwnerStands =>
          [\A q \in Request :
              (SetRoomOwner(q) \/ PatchRoom(q) \/ DeleteRoom(q)) /\ Entries' # Entries
                  => owner[req[q].room] = req[q].user]_vars
    <2> SUFFICES ASSUME IInv, OwnerStands, NEW q \in Request, Entries' # Entries,
                        SetRoomOwner(q) \/ PatchRoom(q) \/ DeleteRoom(q)
                 PROVE  owner[req[q].room] = req[q].user
      OBVIOUS
    <2>1. req[q].step \in OwnerSteps
      BY DEF SetRoomOwner, PatchRoom, DeleteRoom, OwnerSteps
    <2>2. req[q].room \in rooms
      <3>1. CASE SetRoomOwner(q)
        BY <3>1, TransferIsTransfer DEF Book!Transfer, Entries
      <3>2. CASE PatchRoom(q)
        BY <3>2, PatchIsPatch DEF Book!Patch, Entries
      <3>3. CASE DeleteRoom(q)
        BY <3>3, DeleteIsClose
      <3> QED BY <3>1, <3>2, <3>3
    <2> QED BY <2>1, <2>2 DEF OwnerStands
  <1>3. IInv /\ OwnerStands /\ [Next]_vars /\
          [\A q \in Request : SetRoomOwner(q) =>
              \A p \in Request \ {q} :
                  req[p].step \in OwnerSteps => req[p].room # req[q].room]_vars
            => OwnerStands'
    BY OwnerStandsStep
  <1> QED BY Invariant, <1>1, <1>2, <1>3, PTL DEF Spec, TransfersSpareOwners, OwnersAct
=============================================================================
