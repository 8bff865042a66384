-------------------------- MODULE OrganizationProofs --------------------------
(***************************************************************************)
(* Proofs about an organization: its members, for any number of people,    *)
(* invitations, requests and seats (module Membership), and its            *)
(* subscription, for any number of payments, rows, workers and requests    *)
(* and every combination of faults (Billing).                              *)
(***************************************************************************)
EXTENDS Membership, Billing, BullQueueProofs, FiniteSetTheorems

-----------------------------------------------------------------------------
(* Every variable keeps its type, and requests hold rows that exist. *)

(* MembersTypeOK without what relates the variables *)
Types ==
    /\ role \in [People -> {"none", "member", "owner"}]
    /\ invite \in [Rows -> Invitation]
    /\ op \in [Handlers -> Ops]
    /\ hpc \in [Handlers -> Points]
    /\ hwho \in [Handlers -> People \cup {NoOne}]
    /\ hrow \in [Handlers -> Rows \cup {NoRow}]
    /\ hws \in [Handlers -> BOOLEAN]
    /\ hcount \in [Handlers -> Nat]
    /\ hdel \in [Handlers -> SUBSET Rows]
    /\ stale \in [Handlers -> BOOLEAN]
    /\ ownerRaced \in BOOLEAN
    /\ seatRaced \in BOOLEAN

Held == \A h \in Handlers : Holding(h)

LEMMA TypeParts == MembersTypeOK <=> Types /\ Held
BY DEF MembersTypeOK, Types, Held

LEMMA MembersTypeInit == MembersInit => Types /\ Held
<1>. SUFFICES ASSUME MembersInit PROVE Types /\ Held
  OBVIOUS
<1>1. Blank("FREE") \in Invitation
  BY MembershipAssumption DEF MembershipAssumption, Blank, Invitation, Statuses, Roles
<1>2. Types
  BY <1>1 DEF MembersInit, Types, Ops, Points
<1>3. Held
  BY DEF MembersInit, Held, Holding, SeatOps
<1>. QED BY <1>2, <1>3

LEMMA StatusTypes ==
    ASSUME Types, NEW i \in Rows, NEW s \in Statuses
    PROVE  [invite EXCEPT ![i].status = s] \in [Rows -> Invitation]
<1>1. [invite[i] EXCEPT !.status = s] \in Invitation
  <2>1. invite[i] \in Invitation
    BY DEF Types
  <2>. QED BY <2>1, SMTT(30) DEF Invitation
<1>. QED BY <1>1 DEF Types

LEMMA BeginTypes ==
    ASSUME Types, NEW h \in Handlers, NEW o \in Ops, NEW pc \in Points,
           NEW p \in People \cup {NoOne}, NEW i \in Rows \cup {NoRow},
           Begin(h, o, pc, p, i)
    PROVE  Types'
BY DEF Types, Begin

LEMMA ReturnTypes ==
    ASSUME Types, NEW h \in Handlers, NEW dangling, NEW kinds,
           Return(h, dangling, kinds)
    PROVE  /\ op' \in [Handlers -> Ops]
           /\ hpc' \in [Handlers -> Points]
           /\ hwho' \in [Handlers -> People \cup {NoOne}]
           /\ hrow' \in [Handlers -> Rows \cup {NoRow}]
           /\ hws' \in [Handlers -> BOOLEAN]
           /\ hcount' \in [Handlers -> Nat]
           /\ hdel' \in [Handlers -> SUBSET Rows]
           /\ stale' \in [Handlers -> BOOLEAN]
BY DEF Types, Return, Ops, Points

LEMMA RefuseTypes ==
    ASSUME Types, NEW h \in Handlers, Refuse(h)
    PROVE  Types'
BY ReturnTypes DEF Refuse, Types

(* An invitation row is written with a row, and no used one becomes free. *)
LEMMA InviteCommitRows ==
    ASSUME Types, NEW h \in Handlers, InviteCommit(h), ~Clashes(h), hwho[h] \in People
    PROVE  invite' \in [Rows -> Invitation]
<1>1. PICK i \in Rows, r \in IF hws[h] THEN {"member"} ELSE Grants :
        invite' = [j \in Rows |->
                      IF j = i
                      THEN [status |-> "PENDING", who |-> hwho[h], grant |-> r, ws |-> hws[h]]
                      ELSE IF j \in hdel[h] /\ invite[j].status = "PENDING"
                      THEN Blank("DELETED")
                      ELSE invite[j]]
  BY DEF InviteCommit
<1>2. r \in Roles
  BY MembershipAssumption DEF MembershipAssumption, Roles
<1>3. [status |-> "PENDING", who |-> hwho[h], grant |-> r, ws |-> hws[h]] \in Invitation
  BY <1>2 DEF Types, Invitation, Statuses
<1>4. Blank("DELETED") \in Invitation
  BY MembershipAssumption DEF MembershipAssumption, Blank, Invitation, Statuses, Roles
<1>. QED BY <1>1, <1>3, <1>4 DEF Types

LEMMA MembersTypesStep == Types /\ Held /\ [MembersNext]_memberVars => Types'
<1>. SUFFICES ASSUME Types, Held, [MembersNext]_memberVars PROVE Types'
  OBVIOUS
<1>1. ASSUME NEW h \in Handlers, GiveUp(h) PROVE Types'
  BY <1>1, RefuseTypes DEF GiveUp
<1>2. ASSUME NEW h \in Handlers, MemberRead(h) PROVE Types'
  BY <1>2, BeginTypes DEF MemberRead, Members, Ops, OwnerOps, Points
<1>3. ASSUME NEW h \in Handlers, AssertNotLast(h) PROVE Types'
  BY <1>3, RefuseTypes DEF AssertNotLast, Types, Points
<1>4. ASSUME NEW h \in Handlers, MemberWrite(h) PROVE Types'
  <2>1. CASE hwho[h] = NoOne
    BY <1>4, <2>1, RefuseTypes DEF MemberWrite
  <2>2. CASE hwho[h] # NoOne
    <3>1. role' \in [People -> {"none", "member", "owner"}]
      BY <1>4, <2>2 DEF MemberWrite, Types, OwnerOps
    <3>2. ownerRaced' \in BOOLEAN /\ UNCHANGED <<invite, seatRaced>>
      BY <1>4, <2>2 DEF MemberWrite, Types
    <3>. QED BY <1>4, <2>2, <3>1, <3>2, ReturnTypes DEF MemberWrite, Types
  <2>. QED BY <2>1, <2>2
<1>5. ASSUME NEW h \in Handlers, InviteRead(h) PROVE Types'
  BY <1>5, BeginTypes DEF InviteRead, Ops, Points
<1>6. ASSUME NEW h \in Handlers, ResendRead(h) PROVE Types'
  <2>1. PICK i \in Rows : Begin(h, "resend", "members", invite[i].who, i)
    BY <1>6 DEF ResendRead
  <2>2. invite[i].who \in People
    BY DEF Types, Invitation
  <2>. QED BY <2>1, <2>2, BeginTypes DEF Ops, Points
<1>7. ASSUME NEW h \in Handlers, CountMembers(h) PROVE Types'
  <2>1. Cardinality(Members) \in Nat
    BY MembershipAssumption, FS_CardinalityType, FS_Subset
       DEF MembershipAssumption, Members
  <2>. QED BY <1>7, <2>1 DEF CountMembers, Types, Points
<1>8. ASSUME NEW h \in Handlers, CountPending(h) PROVE Types'
  BY <1>8, RefuseTypes DEF CountPending, Types, Points
<1>9. ASSUME NEW h \in Handlers, InviteClear(h) PROVE Types'
  BY <1>9 DEF InviteClear, Pending, Types, Points
<1>10. ASSUME NEW h \in Handlers, InviteCommit(h) PROVE Types'
  <2>1. CASE Clashes(h)
    BY <1>10, <2>1, RefuseTypes DEF InviteCommit
  <2>2. CASE ~Clashes(h)
    <3>1. hwho[h] \in People
      BY <1>10 DEF InviteCommit, Held, Holding, SeatOps
    <3>2. invite' \in [Rows -> Invitation]
      BY <1>10, <2>2, <3>1, InviteCommitRows
    <3>3. /\ UNCHANGED <<role, ownerRaced>>
          /\ seatRaced' \in BOOLEAN
      BY <1>10, <2>2 DEF InviteCommit, Types
    <3>. QED BY <1>10, <2>2, <3>2, <3>3, ReturnTypes DEF InviteCommit, Types
  <2>. QED BY <2>1, <2>2
<1>11. ASSUME NEW h \in Handlers, ResendCommit(h) PROVE Types'
  <2>1. CASE invite[hrow[h]].status = "DELETED"
    BY <1>11, <2>1, RefuseTypes DEF ResendCommit
  <2>2. CASE invite[hrow[h]].status # "DELETED"
    <3>1. invite' \in [Rows -> Invitation]
      BY <1>11, <2>2, SMTT(30) DEF ResendCommit, Types, Invitation, Statuses
    <3>2. /\ UNCHANGED <<role, ownerRaced>>
          /\ seatRaced' \in BOOLEAN
      BY <1>11, <2>2 DEF ResendCommit, Types
    <3>. QED BY <1>11, <2>2, <3>1, <3>2, ReturnTypes DEF ResendCommit, Types
  <2>. QED BY <2>1, <2>2
<1>12. ASSUME NEW h \in Handlers, RevokeInvitation(h) PROVE Types'
  BY <1>12 DEF RevokeInvitation, locals, Types, Invitation, Statuses
<1>13. ASSUME NEW h \in Handlers, AcceptRead(h) PROVE Types'
  BY <1>13, BeginTypes DEF AcceptRead, Pending, Ops, Points
<1>14. ASSUME NEW h \in Handlers, AcceptCommit(h) PROVE Types'
  <2>1. CASE invite[hrow[h]].status = "DELETED"
    BY <1>14, <2>1, RefuseTypes DEF AcceptCommit
  <2>2. CASE invite[hrow[h]].status # "DELETED"
    <3>1. hrow[h] \in Rows
      BY <1>14 DEF AcceptCommit, Held, Holding
    <3>2. invite' \in [Rows -> Invitation]
      BY <1>14, <2>2, <3>1, StatusTypes, ZenonT(30) DEF AcceptCommit, Statuses
    <3>3. role' \in [People -> {"none", "member", "owner"}]
      <4>1. /\ invite[hrow[h]].who \in People
            /\ invite[hrow[h]].grant \in {"member", "owner"}
        BY <3>1 DEF Types, Invitation, Roles
      <4>. QED BY <1>14, <2>2, <4>1 DEF AcceptCommit, Types
    <3>4. UNCHANGED ownerRaced /\ seatRaced' \in BOOLEAN
      BY <1>14, <2>2 DEF AcceptCommit, Types
    <3>. QED BY <1>14, <2>2, <3>2, <3>3, <3>4, ReturnTypes DEF AcceptCommit, Types
  <2>. QED BY <2>1, <2>2
<1>15. CASE UNCHANGED memberVars
  BY <1>15 DEF memberVars, locals, Types
<1>. QED
  BY <1>1, <1>2, <1>3, <1>4, <1>5, <1>6, <1>7, <1>8, <1>9, <1>10, <1>11,
     <1>12, <1>13, <1>14, <1>15 DEF MembersNext, Request

(* A change of the rows that leaves the requests alone keeps what they hold. *)
LEMMA HeldStep == Types /\ Held /\ [MembersNext]_memberVars => Held'
<1>. SUFFICES ASSUME Types, Held, [MembersNext]_memberVars, NEW g \in Handlers PROVE Holding(g)'
  BY DEF Held
<1>. Holding(g)
  BY DEF Held
<1>. USE DEF Holding, SeatOps, OwnerOps
<1>1. ASSUME NEW h \in Handlers, Refuse(h) PROVE Holding(g)'
  BY <1>1 DEF Refuse, Return, Types
<1>2. ASSUME NEW h \in Handlers, GiveUp(h) PROVE Holding(g)'
  BY <1>1, <1>2 DEF GiveUp
<1>3. ASSUME NEW h \in Handlers, MemberRead(h) PROVE Holding(g)'
  BY <1>3 DEF MemberRead, Begin, Types
<1>4. ASSUME NEW h \in Handlers, AssertNotLast(h) PROVE Holding(g)'
  BY <1>1, <1>4 DEF AssertNotLast, Types
<1>5. ASSUME NEW h \in Handlers, MemberWrite(h) PROVE Holding(g)'
  BY <1>1, <1>5 DEF MemberWrite, Return, Types, OwnerOps
<1>6. ASSUME NEW h \in Handlers, InviteRead(h) PROVE Holding(g)'
  BY <1>6 DEF InviteRead, Begin, Types
<1>7. ASSUME NEW h \in Handlers, ResendRead(h) PROVE Holding(g)'
  BY <1>7 DEF ResendRead, Begin, Types, Invitation
<1>8. ASSUME NEW h \in Handlers, CountMembers(h) PROVE Holding(g)'
  BY <1>8 DEF CountMembers, Types
<1>9. ASSUME NEW h \in Handlers, CountPending(h) PROVE Holding(g)'
  BY <1>1, <1>9 DEF CountPending, Types
<1>10. ASSUME NEW h \in Handlers, InviteClear(h) PROVE Holding(g)'
  BY <1>10 DEF InviteClear, Types
<1>11. ASSUME NEW h \in Handlers, InviteCommit(h) PROVE Holding(g)'
  <2>1. CASE Clashes(h)
    BY <1>1, <1>11, <2>1 DEF InviteCommit
  <2>2. CASE ~Clashes(h)
    <3>1. \A i \in Rows : invite[i].status # "FREE" => invite'[i].status # "FREE"
      BY <1>11, <2>2 DEF InviteCommit, Blank
    <3>. QED BY <1>11, <2>2, <3>1 DEF InviteCommit, Return, Types
  <2>. QED BY <2>1, <2>2
<1>12. ASSUME NEW h \in Handlers, ResendCommit(h) PROVE Holding(g)'
  <2>1. CASE invite[hrow[h]].status = "DELETED"
    BY <1>1, <1>12, <2>1 DEF ResendCommit
  <2>2. CASE invite[hrow[h]].status # "DELETED"
    <3>1. \A i \in Rows : invite[i].status # "FREE" => invite'[i].status # "FREE"
      BY <1>12, <2>2 DEF ResendCommit, Types, Invitation
    <3>. QED BY <1>12, <2>2, <3>1 DEF ResendCommit, Return, Types
  <2>. QED BY <2>1, <2>2
<1>13. ASSUME NEW h \in Handlers, RevokeInvitation(h) PROVE Holding(g)'
  BY <1>13 DEF RevokeInvitation, locals, Types, Invitation
<1>14. ASSUME NEW h \in Handlers, AcceptRead(h) PROVE Holding(g)'
  BY <1>14 DEF AcceptRead, Pending, Begin, Types
<1>15. ASSUME NEW h \in Handlers, AcceptCommit(h) PROVE Holding(g)'
  <2>1. CASE invite[hrow[h]].status = "DELETED"
    BY <1>1, <1>15, <2>1 DEF AcceptCommit
  <2>2. CASE invite[hrow[h]].status # "DELETED"
    <3>1. \A i \in Rows : invite[i].status # "FREE" => invite'[i].status # "FREE"
      BY <1>15, <2>2 DEF AcceptCommit, Types, Invitation
    <3>. QED BY <1>15, <2>2, <3>1 DEF AcceptCommit, Return, Types
  <2>. QED BY <2>1, <2>2
<1>16. CASE UNCHANGED memberVars
  BY <1>16 DEF memberVars, locals
<1>. QED
  BY <1>2, <1>3, <1>4, <1>5, <1>6, <1>7, <1>8, <1>9, <1>10, <1>11,
     <1>12, <1>13, <1>14, <1>15, <1>16 DEF MembersNext, Request

(* Every variable keeps its type, and a request under way holds what its   *)
(* kind needs.                                                             *)
THEOREM MembersTypeCorrect == MembersSpec => []MembersTypeOK
<1>1. Types /\ Held /\ [MembersNext]_memberVars => (Types /\ Held)'
  BY MembersTypesStep, HeldStep
<1>2. Types /\ Held => MembersTypeOK
  BY TypeParts
<1>. QED BY MembersTypeInit, <1>1, <1>2, PTL DEF MembersSpec

-----------------------------------------------------------------------------
(* What a request does to the others. *)

(* It leaves them where they are, marks them stale at most, and takes away *)
(* at most the member row they hold.                                       *)
LEMMA Frame ==
    ASSUME Types, NEW h \in Handlers, NEW g \in Handlers, g # h, Request(h)
    PROVE  /\ op'[g] = op[g] /\ hpc'[g] = hpc[g]
           /\ hrow'[g] = hrow[g] /\ hcount'[g] = hcount[g]
           /\ hwho'[g] # hwho[g] => hwho'[g] = NoOne /\ op[g] \in OwnerOps
           /\ stale[g] => stale'[g]
<1>. USE DEF Types
<1>1. ASSUME NEW o, NEW pc, NEW p, NEW i, Begin(h, o, pc, p, i)
      PROVE  /\ op'[g] = op[g] /\ hpc'[g] = hpc[g]
             /\ hrow'[g] = hrow[g] /\ hcount'[g] = hcount[g]
             /\ hwho'[g] = hwho[g] /\ stale'[g] = stale[g]
  BY <1>1 DEF Begin
<1>2. ASSUME NEW dangling, NEW kinds, Return(h, dangling, kinds)
      PROVE  /\ op'[g] = op[g] /\ hpc'[g] = hpc[g]
             /\ hrow'[g] = hrow[g] /\ hcount'[g] = hcount[g]
             /\ hwho'[g] = IF g \in dangling THEN NoOne ELSE hwho[g]
             /\ stale[g] => stale'[g]
  BY <1>2 DEF Return
<1>3. CASE \/ MemberRead(h) \/ InviteRead(h) \/ ResendRead(h) \/ AcceptRead(h)
  BY <1>1, <1>3 DEF MemberRead, InviteRead, ResendRead, AcceptRead
<1>4. CASE GiveUp(h) \/ InviteCommit(h) \/ ResendCommit(h) \/ AcceptCommit(h)
  BY <1>2, <1>4 DEF GiveUp, Refuse, InviteCommit, ResendCommit, AcceptCommit
<1>5. CASE MemberWrite(h)
  <2>1. CASE hwho[h] = NoOne
    BY <1>2, <1>5, <2>1 DEF MemberWrite, Refuse
  <2>2. CASE hwho[h] # NoOne
    <3>1. PICK kinds : Return(h, {k \in Handlers : op[h] = "remove" /\ op[k] \in OwnerOps
                                                       /\ hwho[k] = hwho[h]}, kinds)
      BY <1>5, <2>2 DEF MemberWrite
    <3>. QED BY <1>2, <3>1
  <2>. QED BY <2>1, <2>2
<1>6. CASE AssertNotLast(h) \/ CountPending(h)
  BY <1>2, <1>6 DEF AssertNotLast, CountPending, Refuse
<1>7. CASE CountMembers(h) \/ InviteClear(h)
  BY <1>7 DEF CountMembers, InviteClear
<1>8. CASE RevokeInvitation(h)
  BY <1>8 DEF RevokeInvitation, locals
<1>. QED BY <1>3, <1>4, <1>5, <1>6, <1>7, <1>8 DEF Request

-----------------------------------------------------------------------------
(* An owner remains. *)

OwnerThere == ownerRaced \/ Owners # {}

(* A request about to take an owner away, not overtaken since its check,   *)
(* leaves another one.                                                     *)
CheckGood(h) ==
    op[h] \in {"remove", "demote"} /\ hpc[h] = "commit" /\ ~stale[h] =>
        ownerRaced \/ Owners \ {hwho[h]} # {}

OwnerInv == Types /\ Held /\ OwnerThere /\ \A h \in Handlers : CheckGood(h)

LEMMA OwnerInit == MembersInit => OwnerInv
<1>. SUFFICES ASSUME MembersInit PROVE OwnerInv
  OBVIOUS
<1>1. OwnerThere
  BY MembershipAssumption DEF MembershipAssumption, MembersInit, OwnerThere, Owners
<1>2. \A h \in Handlers : CheckGood(h)
  BY DEF MembersInit, CheckGood
<1>. QED BY <1>1, <1>2, MembersTypeInit DEF OwnerInv

(* A step that takes no owner away. *)
LEMMA OwnersGrow ==
    ASSUME OwnerInv, NEW h \in Handlers, Request(h),
           Owners \subseteq Owners', ownerRaced' = ownerRaced,
           CheckGood(h)'
    PROVE  OwnerThere' /\ \A g \in Handlers : CheckGood(g)'
<1>1. OwnerThere'
  BY DEF OwnerInv, OwnerThere
<1>2. ASSUME NEW g \in Handlers, g # h PROVE CheckGood(g)'
  <2>1. CheckGood(g)
    BY DEF OwnerInv
  <2>2. /\ op'[g] = op[g] /\ hpc'[g] = hpc[g]
        /\ hwho'[g] # hwho[g] => hwho'[g] = NoOne
        /\ stale[g] => stale'[g]
    BY <1>2, Frame DEF OwnerInv
  <2>3. NoOne \notin Owners
    BY MembershipAssumption DEF MembershipAssumption, Owners
  <2>. QED BY <2>1, <2>2, <2>3 DEF CheckGood
<1>. QED BY <1>1, <1>2

(* A write under a sound check leaves an owner or was overtaken, and every *)
(* other request with a check behind it is overtaken by it.                *)
LEMMA OwnerTaken ==
    ASSUME OwnerInv, NEW h \in Handlers, MemberWrite(h), ~(Owners \subseteq Owners')
    PROVE  OwnerThere' /\ \A g \in Handlers : CheckGood(g)'
<1>1. hwho[h] # NoOne
  BY DEF MemberWrite, Refuse, Owners
<1>. DEFINE p == hwho[h]
            new == CASE op[h] = "remove"  -> "none"
                     [] op[h] = "promote" -> "owner"
                     [] OTHER             -> "member"
            taken == role[p] = "owner" /\ new # "owner"
<1>2. /\ hpc[h] = "commit" /\ op[h] \in OwnerOps
      /\ role' = [role EXCEPT ![p] = new]
      /\ ownerRaced' = (ownerRaced \/ (taken /\ (stale[h] \/ op[h] = "stray")))
      /\ \E dangling : Return(h, dangling, IF taken THEN OwnerOps ELSE {})
  BY <1>1 DEF MemberWrite
<1>3. p \in People
  BY <1>1 DEF OwnerInv, Types
<1>4. taken
  BY <1>2, <1>3 DEF Owners, OwnerInv, Types
<1>5. op[h] # "promote"
  BY <1>2, <1>4
<1>6. \A q \in Owners : q # p => q \in Owners'
  BY <1>2 DEF Owners, OwnerInv, Types
<1>7. OwnerThere'
  <2>1. CASE stale[h] \/ op[h] = "stray"
    BY <1>2, <1>4, <2>1 DEF OwnerThere
  <2>2. CASE ~(stale[h] \/ op[h] = "stray")
    <3>1. op[h] \in {"remove", "demote"}
      BY <1>2, <1>5, <2>2 DEF OwnerOps
    <3>2. ownerRaced \/ Owners \ {p} # {}
      BY <1>2, <2>2, <3>1 DEF OwnerInv, CheckGood
    <3>. QED BY <1>2, <1>6, <3>2 DEF OwnerThere
  <2>. QED BY <2>1, <2>2
<1>8. ASSUME NEW g \in Handlers PROVE CheckGood(g)'
  <2>1. PICK dangling : Return(h, dangling, OwnerOps)
    BY <1>2, <1>4
  <2>2. CASE g = h
    BY <2>1, <2>2 DEF Return, OwnerInv, Types, CheckGood
  <2>3. CASE g # h
    <3>1. /\ op'[g] = op[g]
          /\ op[g] \in OwnerOps => stale'[g]
      BY <2>1, <2>3 DEF Return, OwnerInv, Types
    <3>. QED BY <3>1 DEF CheckGood, OwnerOps
  <2>. QED BY <2>2, <2>3
<1>. QED BY <1>7, <1>8

LEMMA OwnerStep == OwnerInv /\ [MembersNext]_memberVars => OwnerInv'
<1>. SUFFICES ASSUME OwnerInv, [MembersNext]_memberVars
              PROVE  OwnerThere' /\ \A g \in Handlers : CheckGood(g)'
  BY MembersTypesStep, HeldStep DEF OwnerInv
<1>. Types
  BY DEF OwnerInv
<1>1. ASSUME NEW h \in Handlers, Refuse(h) PROVE Owners' = Owners /\ CheckGood(h)'
  BY <1>1 DEF Refuse, Return, Owners, CheckGood, Types
<1>2. ASSUME NEW h \in Handlers, Request(h),
             GiveUp(h) \/ AssertNotLast(h) \/ CountPending(h) \/ MemberRead(h)
      PROVE  OwnerThere' /\ \A g \in Handlers : CheckGood(g)'
  <2>1. ownerRaced' = ownerRaced /\ Owners' = Owners
    BY <1>2 DEF GiveUp, AssertNotLast, CountPending, MemberRead, Refuse, Begin, Owners
  <2>2. CheckGood(h)'
    <3>1. CASE GiveUp(h)
      BY <1>1, <3>1 DEF GiveUp
    <3>2. CASE AssertNotLast(h)
      BY <1>1, <2>1, <3>2 DEF AssertNotLast, Remaining, CheckGood
    <3>3. CASE CountPending(h)
      BY <1>1, <3>3 DEF CountPending, CheckGood, Types, OwnerInv, Held, Holding, SeatOps
    <3>4. CASE MemberRead(h)
      <4>1. PICK p \in Members :
              \/ \E o \in {"remove", "demote", "stray"} :
                    Begin(h, o, IF role[p] = "owner" THEN "owners" ELSE "commit", p, NoRow)
              \/ Begin(h, "promote", "commit", p, NoRow)
        BY <3>4 DEF MemberRead
      <4>2. CASE Begin(h, "promote", "commit", p, NoRow)
        BY <4>2 DEF Begin, CheckGood, Types
      <4>3. CASE role[p] = "owner"
        BY <4>1, <4>2, <4>3 DEF Begin, CheckGood, Types
      <4>4. CASE role[p] # "owner"
        <5>1. p \notin Owners
          BY <4>4 DEF Owners
        <5>2. hwho'[h] = p
          BY <4>1 DEF Begin, Types
        <5>. QED BY <2>1, <5>1, <5>2 DEF CheckGood, OwnerInv, OwnerThere
      <4>. QED BY <4>3, <4>4
    <3>. QED BY <1>2, <3>1, <3>2, <3>3, <3>4
  <2>. QED BY <1>2, <2>1, <2>2, OwnersGrow
<1>3. ASSUME NEW h \in Handlers, Request(h), MemberWrite(h)
      PROVE  OwnerThere' /\ \A g \in Handlers : CheckGood(g)'
  <2>1. CASE ~(Owners \subseteq Owners')
    BY <1>3, <2>1, OwnerTaken
  <2>2. CASE Owners \subseteq Owners'
    <3>1. CheckGood(h)'
      BY <1>3 DEF MemberWrite, Refuse, Return, CheckGood, Types
    <3>2. ownerRaced' = ownerRaced
      <4>1. CASE hwho[h] = NoOne
        BY <1>3, <4>1 DEF MemberWrite, Refuse
      <4>2. CASE hwho[h] # NoOne
        BY <1>3, <2>2, <4>2, ZenonT(60) DEF MemberWrite, Owners, Types
      <4>. QED BY <4>1, <4>2
    <3>. QED BY <1>3, <2>2, <3>1, <3>2, OwnersGrow
  <2>. QED BY <2>1, <2>2
<1>4. ASSUME NEW h \in Handlers, Request(h),
             \/ InviteRead(h) \/ ResendRead(h) \/ AcceptRead(h) \/ CountMembers(h)
             \/ InviteClear(h) \/ InviteCommit(h) \/ ResendCommit(h)
             \/ RevokeInvitation(h) \/ AcceptCommit(h)
      PROVE  OwnerThere' /\ \A g \in Handlers : CheckGood(g)'
  <2>1. ownerRaced' = ownerRaced
    BY <1>4 DEF InviteRead, ResendRead, AcceptRead, CountMembers, InviteClear,
                InviteCommit, ResendCommit, RevokeInvitation, AcceptCommit, Refuse, Begin
  <2>2. Owners \subseteq Owners'
    BY <1>4 DEF InviteRead, ResendRead, AcceptRead, CountMembers, InviteClear,
                InviteCommit, ResendCommit, RevokeInvitation, AcceptCommit, Refuse,
                Begin, Owners, Types
  <2>3. CheckGood(h)'
    <3>1. CASE InviteRead(h) \/ ResendRead(h) \/ AcceptRead(h)
      BY <3>1 DEF InviteRead, ResendRead, AcceptRead, Begin, CheckGood, Types
    <3>2. CASE CountMembers(h)
      BY <3>2 DEF CountMembers, CheckGood, Types
    <3>3. CASE InviteClear(h)
      BY <3>3 DEF InviteClear, CheckGood, Types, OwnerInv, Held, Holding, SeatOps
    <3>4. CASE InviteCommit(h) \/ ResendCommit(h) \/ AcceptCommit(h)
      BY <3>4 DEF InviteCommit, ResendCommit, AcceptCommit, Refuse, Return, CheckGood, Types
    <3>5. CASE RevokeInvitation(h)
      <4>1. CheckGood(h) BY DEF OwnerInv
      <4>. QED BY <3>5, <4>1, <2>1, <2>2 DEF RevokeInvitation, locals, CheckGood
    <3>. QED BY <1>4, <3>1, <3>2, <3>3, <3>4, <3>5
  <2>. QED BY <1>4, <2>1, <2>2, <2>3, OwnersGrow
<1>5. CASE UNCHANGED memberVars
  BY <1>5 DEF memberVars, locals, OwnerInv, OwnerThere, CheckGood, Owners
<1>. QED BY <1>2, <1>3, <1>4, <1>5 DEF MembersNext, Request

(* However many requests change the members at once, the last owner is     *)
(* lost only to a request overtaken by another one that takes an owner, or *)
(* to one that came by way of another organization.                        *)
THEOREM AnOwnerRemains == MembersSpec => []OwnerKept
<1>1. OwnerInv => OwnerKept
  BY DEF OwnerInv, OwnerThere, OwnerKept
<1>. QED BY OwnerInit, OwnerStep, <1>1, PTL DEF MembersSpec

-----------------------------------------------------------------------------
(* The rows requests hold. *)

(* A request that will write a member row holds one that exists; one that  *)
(* resends an invitation counted seats for the invitee it names.           *)
RowsHeld(h) ==
    /\ op[h] \in OwnerOps /\ hwho[h] # NoOne => role[hwho[h]] # "none"
    /\ op[h] = "resend" /\ invite[hrow[h]].status # "DELETED" =>
          invite[hrow[h]].who = hwho[h]

RowsInv == Types /\ Held /\ \A h \in Handlers : RowsHeld(h)

(* Members leave by MemberWrite only, and invitations keep their invitee. *)
LEMMA RowsStay ==
    ASSUME Types, Held, NEW h \in Handlers, Request(h)
    PROVE  /\ ~MemberWrite(h) => \A p \in People : role[p] # "none" => role'[p] # "none"
           /\ \A i \in Rows : invite[i].status # "FREE" /\ invite'[i].status # "DELETED" =>
                 invite[i].status # "DELETED" /\ invite'[i].who = invite[i].who
<1>1. ASSUME ~MemberWrite(h)
      PROVE  \A p \in People : role[p] # "none" => role'[p] # "none"
  BY <1>1 DEF Request, GiveUp, MemberRead, AssertNotLast, InviteRead, ResendRead,
              CountMembers, CountPending, InviteClear, InviteCommit, ResendCommit,
              RevokeInvitation, AcceptRead, AcceptCommit, Refuse, Begin, Types
<1>2. ASSUME NEW i \in Rows, invite[i].status # "FREE", invite'[i].status # "DELETED"
      PROVE  invite[i].status # "DELETED" /\ invite'[i].who = invite[i].who
  <2>1. CASE invite' = invite
    BY <1>2, <2>1
  <2>2. CASE InviteCommit(h)
    BY <1>2, <2>2 DEF InviteCommit, Refuse, Blank
  <2>3. CASE ResendCommit(h) \/ AcceptCommit(h) \/ RevokeInvitation(h)
    BY <1>2, <2>3 DEF ResendCommit, AcceptCommit, RevokeInvitation, Refuse, Types, Invitation
  <2>4. \/ invite' = invite \/ InviteCommit(h) \/ ResendCommit(h)
        \/ AcceptCommit(h) \/ RevokeInvitation(h)
    BY DEF Request, GiveUp, MemberRead, AssertNotLast, MemberWrite, InviteRead,
           ResendRead, CountMembers, CountPending, InviteClear, AcceptRead, Refuse, Begin
  <2>. QED BY <2>1, <2>2, <2>3, <2>4
<1>. QED BY <1>1, <1>2

LEMMA RowsInit == MembersInit => RowsInv
BY MembersTypeInit DEF MembersInit, RowsInv, RowsHeld, OwnerOps

LEMMA RowsStep == RowsInv /\ [MembersNext]_memberVars => RowsInv'
<1>. SUFFICES ASSUME RowsInv, [MembersNext]_memberVars PROVE \A g \in Handlers : RowsHeld(g)'
  BY MembersTypesStep, HeldStep DEF RowsInv
<1>. Types /\ Held
  BY DEF RowsInv
<1>1. ASSUME NEW h \in Handlers, NEW g \in Handlers, g # h, Request(h) PROVE RowsHeld(g)'
  <2>1. /\ RowsHeld(g) /\ Holding(g)
        /\ op'[g] = op[g] /\ hrow'[g] = hrow[g]
        /\ hwho'[g] # hwho[g] => hwho'[g] = NoOne /\ op[g] \in OwnerOps
    BY <1>1, Frame DEF RowsInv, Held
  <2>2. ASSUME op[g] \in OwnerOps, hwho'[g] # NoOne PROVE role'[hwho'[g]] # "none"
    <3>1. hwho'[g] = hwho[g] /\ hwho[g] \in People
      BY <2>1, <2>2 DEF Types
    <3>2. role[hwho[g]] # "none"
      BY <2>1, <2>2, <3>1 DEF RowsHeld
    <3>3. CASE ~MemberWrite(h)
      BY <1>1, <3>1, <3>2, <3>3, RowsStay
    <3>4. CASE MemberWrite(h)
      <4>1. CASE hwho[h] = NoOne
        BY <3>1, <3>2, <3>4, <4>1 DEF MemberWrite, Refuse
      <4>2. CASE hwho[h] # NoOne /\ op[h] = "remove"
        <5>1. hwho[h] # hwho[g]
          BY <1>1, <2>2, <3>1, <3>4, <4>2 DEF MemberWrite, Return
        <5>. QED BY <3>1, <3>2, <3>4, <4>2, <5>1 DEF MemberWrite, Types
      <4>3. CASE hwho[h] # NoOne /\ op[h] # "remove"
        <5>1. \E r \in {"member", "owner"} : role' = [role EXCEPT ![hwho[h]] = r]
          BY <3>4, <4>3 DEF MemberWrite, OwnerOps
        <5>. QED BY <3>1, <3>2, <5>1 DEF Types
      <4>. QED BY <4>1, <4>2, <4>3
    <3>. QED BY <3>3, <3>4
  <2>3. ASSUME op[g] = "resend", invite'[hrow'[g]].status # "DELETED"
        PROVE  invite'[hrow'[g]].who = hwho'[g]
    <3>1. /\ hrow'[g] = hrow[g] /\ hwho'[g] = hwho[g]
          /\ hrow[g] \in Rows /\ invite[hrow[g]].status # "FREE"
      BY <2>1, <2>3 DEF Holding, OwnerOps
    <3>. QED BY <1>1, <2>1, <2>3, <3>1, RowsStay DEF RowsHeld
  <2>. QED BY <2>1, <2>2, <2>3 DEF RowsHeld
<1>2. ASSUME NEW h \in Handlers, Request(h) PROVE RowsHeld(h)'
  <2>0. RowsHeld(h)
    BY DEF RowsInv
  <2>1. CASE op'[h] = "none"
    BY <2>1 DEF RowsHeld, OwnerOps
  <2>2. CASE MemberRead(h)
    BY <2>2 DEF MemberRead, Begin, Members, RowsHeld, Types
  <2>3. CASE InviteRead(h) \/ AcceptRead(h)
    BY <2>3 DEF InviteRead, AcceptRead, Begin, RowsHeld, Types, OwnerOps
  <2>4. CASE ResendRead(h)
    BY <2>4 DEF ResendRead, Begin, RowsHeld, Types, OwnerOps
  <2>5. CASE \/ AssertNotLast(h) \/ CountMembers(h) \/ CountPending(h)
             \/ InviteClear(h) \/ RevokeInvitation(h)
    <3>1. CASE UNCHANGED <<op, hwho, hrow, role, invite>>
      BY <2>0, <3>1 DEF RowsHeld
    <3>2. CASE Refuse(h)
      BY <2>1, <3>2 DEF Refuse, Return, Types
    <3>3. CASE RevokeInvitation(h)
      <4>1. UNCHANGED <<op, hwho, hrow, role>>
        BY <3>3 DEF RevokeInvitation, locals
      <4>2. op[h] = "none"
        BY <3>3 DEF RevokeInvitation, Held, Holding
      <4>. QED BY <2>1, <4>1, <4>2
    <3>. QED BY <2>5, <3>1, <3>2, <3>3 DEF AssertNotLast, CountMembers, CountPending,
                InviteClear
  <2>6. CASE \/ GiveUp(h) \/ MemberWrite(h) \/ InviteCommit(h) \/ ResendCommit(h)
             \/ AcceptCommit(h)
    <3>1. op'[h] = "none"
      BY <2>6 DEF GiveUp, MemberWrite, InviteCommit, ResendCommit, AcceptCommit,
                  Refuse, Return, Types
    <3>. QED BY <2>1, <3>1
  <2>. QED BY <1>2, <2>2, <2>3, <2>4, <2>5, <2>6 DEF Request
<1>3. CASE UNCHANGED memberVars
  BY <1>3 DEF memberVars, locals, RowsInv, RowsHeld
<1>. QED BY <1>1, <1>2, <1>3 DEF MembersNext

-----------------------------------------------------------------------------
(* The seats. *)

SeatsThere == seatRaced \/ Cardinality(Seated) <= Limit

(* A first count that was not overtaken is not too low ... *)
Counted(h) ==
    hpc[h] = "pending" /\ ~stale[h] => Cardinality(Members) <= hcount[h]

(* ... and when both counts were not, there is a seat for the invitee. *)
RoomLeft(h) ==
    op[h] \in SeatOps /\ hpc[h] \in {"clear", "commit"} /\ ~stale[h] =>
        seatRaced \/ Cardinality(Seated \cup {hwho[h]}) <= Limit

SeatInv ==
    /\ RowsInv
    /\ SeatsThere
    /\ \A h \in Handlers : Counted(h) /\ RoomLeft(h)

LEMMA PeopleFinite ==
    ASSUME NEW S \in SUBSET People
    PROVE  IsFiniteSet(S) /\ Cardinality(S) \in Nat
BY MembershipAssumption, FS_Subset, FS_CardinalityType DEF MembershipAssumption

LEMMA FewerPeople ==
    ASSUME NEW T \in SUBSET People, NEW S, S \subseteq T
    PROVE  Cardinality(S) <= Cardinality(T)
BY PeopleFinite, FS_Subset

LEMMA SeatedPeople == Seated \in SUBSET People /\ Members \in SUBSET People
BY DEF Seated, Members, Invited

LEMMA SeatedPeopleNext == Seated' \in SUBSET People /\ Members' \in SUBSET People
BY DEF Seated, Members, Invited

(* No more people are invited than there are invitations. *)
LEMMA InviteesBounded ==
    ASSUME Types, NEW R \in SUBSET Rows
    PROVE  LET W == {p \in People : \E i \in R : invite[i].who = p}
           IN  /\ IsFiniteSet(R) /\ Cardinality(R) \in Nat
               /\ Cardinality(W) <= Cardinality(R)
<1>. DEFINE W == {p \in People : \E i \in R : invite[i].who = p}
            f == [i \in R |-> invite[i].who]
<1>1. IsFiniteSet(R) /\ Cardinality(R) \in Nat
  BY MembershipAssumption, FS_Subset, FS_CardinalityType DEF MembershipAssumption
<1>2. \A i \in R : invite[i].who \in W
  BY DEF Types, Invitation
<1>3. f \in [R -> W] /\ \A p \in W : \E i \in R : f[i] = p
  BY <1>2
<1>4. f \in Surjection(R, W)
  BY <1>3 DEF Surjection
<1>5. Cardinality(W) <= Cardinality(R)
  BY <1>1, <1>4, FS_Surjection
<1>. QED BY <1>1, <1>5

(* The two counts of checkSeatLimit, when neither is too low, and the seat *)
(* they look for, bound the seats taken with the invitee's.                *)
LEMMA TwoCounts ==
    ASSUME Types, NEW p \in People, NEW m \in Nat, Cardinality(Members) <= m,
           HasRoom(m + Cardinality({i \in Pending : invite[i].who # p}))
    PROVE  Cardinality(Seated \cup {p}) <= Limit
<1>. DEFINE R == {i \in Pending : invite[i].who # p}
            W == {q \in People : \E i \in R : invite[i].who = q}
<1>1. R \in SUBSET Rows /\ W \in SUBSET People
  BY DEF Pending
<1>2. Cardinality(W) <= Cardinality(R) /\ Cardinality(R) \in Nat
  BY <1>1, InviteesBounded
<1>3. /\ IsFiniteSet(Members) /\ IsFiniteSet(W)
      /\ Cardinality(Members) \in Nat /\ Cardinality(W) \in Nat
  BY <1>1, SeatedPeople, PeopleFinite
<1>4. /\ IsFiniteSet(Members \cup W)
      /\ Cardinality(Members \cup W) <= Cardinality(Members) + Cardinality(W)
  <2>1. /\ IsFiniteSet(Members \cup W)
        /\ Cardinality(Members \cup W) =
              Cardinality(Members) + Cardinality(W) - Cardinality(Members \cap W)
    BY <1>3, FS_Union
  <2>2. Cardinality(Members \cap W) \in Nat
    BY <1>1, PeopleFinite
  <2>. QED BY <1>3, <2>1, <2>2
<1>5. Cardinality((Members \cup W) \cup {p}) <= Cardinality(Members \cup W) + 1
  <2>1. Cardinality(Members \cup W) \in Nat
    BY <1>4, FS_CardinalityType
  <2>2. Cardinality((Members \cup W) \cup {p}) =
          IF p \in Members \cup W THEN Cardinality(Members \cup W)
          ELSE Cardinality(Members \cup W) + 1
    BY <1>4, FS_AddElement
  <2>. QED BY <2>1, <2>2
<1>6. (Members \cup W) \cup {p} \in SUBSET People
  BY <1>1, SeatedPeople
<1>7. Seated \cup {p} \subseteq (Members \cup W) \cup {p}
  BY DEF Seated, Invited
<1>8. Cardinality(Seated \cup {p}) <= Cardinality((Members \cup W) \cup {p})
  BY <1>6, <1>7, FewerPeople
<1>9. /\ Cardinality(Seated \cup {p}) \in Nat
      /\ Cardinality((Members \cup W) \cup {p}) \in Nat
      /\ Cardinality(Members \cup W) \in Nat
  BY <1>1, <1>6, SeatedPeople, PeopleFinite
<1>10. m + Cardinality(R) < Limit
  BY DEF HasRoom
<1>. HIDE DEF R, W
<1>. QED
  BY <1>2, <1>3, <1>4, <1>5, <1>8, <1>9, <1>10, MembershipAssumption DEF MembershipAssumption

LEMMA SeatInit == MembersInit => SeatInv
<1>. SUFFICES ASSUME MembersInit PROVE SeatInv
  OBVIOUS
<1>1. Seated = {Founder}
  BY MembershipAssumption DEF MembershipAssumption, MembersInit, Seated, Members, Invited, Pending, Blank
<1>2. SeatsThere
  BY <1>1, FS_Singleton, MembershipAssumption DEF MembershipAssumption, SeatsThere
<1>3. \A h \in Handlers : Counted(h) /\ RoomLeft(h)
  BY DEF MembersInit, Counted, RoomLeft, SeatOps
<1>. QED BY <1>2, <1>3, RowsInit DEF SeatInv

(* A step that takes no seat. *)
LEMMA SeatsQuiet ==
    ASSUME SeatInv, NEW h \in Handlers, Request(h),
           Seated' \subseteq Seated, Members' \subseteq Members, seatRaced' = seatRaced,
           Counted(h)' /\ RoomLeft(h)'
    PROVE  SeatsThere' /\ \A g \in Handlers : Counted(g)' /\ RoomLeft(g)'
<1>. Types /\ Held
  BY DEF SeatInv, RowsInv
<1>1. /\ Cardinality(Seated') <= Cardinality(Seated)
      /\ Cardinality(Members') <= Cardinality(Members)
  BY SeatedPeople, FewerPeople
<1>2. /\ Cardinality(Seated) \in Nat /\ Cardinality(Members) \in Nat
      /\ Cardinality(Seated') \in Nat /\ Cardinality(Members') \in Nat
  BY SeatedPeople, SeatedPeopleNext, PeopleFinite
<1>3. SeatsThere'
  BY <1>1, <1>2, MembershipAssumption DEF SeatInv, SeatsThere, MembershipAssumption
<1>4. ASSUME NEW g \in Handlers, g # h PROVE Counted(g)' /\ RoomLeft(g)'
  <2>1. /\ Counted(g) /\ RoomLeft(g) /\ Holding(g)
        /\ op'[g] = op[g] /\ hpc'[g] = hpc[g] /\ hcount'[g] = hcount[g]
        /\ hwho'[g] # hwho[g] => op[g] \in OwnerOps
        /\ stale[g] => stale'[g]
    BY <1>4, Frame DEF SeatInv, RowsInv, Held
  <2>2. hcount[g] \in Nat
    BY DEF Types
  <2>3. Counted(g)'
    BY <1>1, <1>2, <2>1, <2>2 DEF Counted
  <2>4. ASSUME op[g] \in SeatOps
        PROVE  Cardinality(Seated' \cup {hwho'[g]}) <= Cardinality(Seated \cup {hwho[g]})
    <3>1. hwho'[g] = hwho[g] /\ hwho[g] \in People
      BY <2>1, <2>4 DEF Holding, OwnerOps, SeatOps
    <3>2. Seated \cup {hwho[g]} \in SUBSET People
      BY <3>1, SeatedPeople
    <3>. QED BY <3>1, <3>2, FewerPeople
  <2>5. op[g] \in SeatOps =>
          /\ Cardinality(Seated' \cup {hwho'[g]}) \in Nat
          /\ Cardinality(Seated \cup {hwho[g]}) \in Nat
    BY <2>1, SeatedPeople, SeatedPeopleNext, PeopleFinite DEF Holding, OwnerOps, SeatOps
  <2>6. RoomLeft(g)'
    BY <2>1, <2>4, <2>5, MembershipAssumption DEF RoomLeft, MembershipAssumption
  <2>. QED BY <2>3, <2>6
<1>. QED BY <1>3, <1>4

(* A step that takes a seat overtakes every request that looks for one. *)
LEMMA SeatsTaken ==
    ASSUME SeatInv, NEW h \in Handlers, Request(h), Return(h, {}, SeatOps),
           SeatsThere'
    PROVE  \A g \in Handlers : Counted(g)' /\ RoomLeft(g)'
<1>. Types /\ Held
  BY DEF SeatInv, RowsInv
<1>1. CASE h \in Handlers
  <2>1. op'[h] = "none" /\ hpc'[h] = "idle"
    BY DEF Return, Types
  <2>2. ASSUME NEW g \in Handlers, g # h PROVE Counted(g)' /\ RoomLeft(g)'
    <3>1. /\ op'[g] = op[g] /\ hpc'[g] = hpc[g] /\ Holding(g)
          /\ op[g] \in SeatOps => stale'[g]
      BY <2>2 DEF Return, Types, Held
    <3>. QED BY <3>1 DEF Counted, RoomLeft, Holding
  <2>. QED BY <2>1, <2>2 DEF Counted, RoomLeft, SeatOps
<1>. QED BY <1>1

LEMMA SeatStep == SeatInv /\ [MembersNext]_memberVars => SeatInv'
<1>. SUFFICES ASSUME SeatInv, [MembersNext]_memberVars
              PROVE  SeatsThere' /\ \A g \in Handlers : Counted(g)' /\ RoomLeft(g)'
  BY RowsStep DEF SeatInv
<1>. Types /\ Held /\ RowsInv
  BY DEF SeatInv, RowsInv
<1>. DEFINE Kept == SeatsThere' /\ \A g \in Handlers : Counted(g)' /\ RoomLeft(g)'
<1>1. ASSUME NEW h \in Handlers, Request(h), Refuse(h) PROVE Kept
  <2>1. seatRaced' = seatRaced /\ Seated' = Seated /\ Members' = Members
    BY <1>1 DEF Refuse, Seated, Members, Invited, Pending
  <2>2. Counted(h)' /\ RoomLeft(h)'
    BY <1>1 DEF Refuse, Return, Types, Counted, RoomLeft, SeatOps
  <2>. QED BY <1>1, <2>1, <2>2, SeatsQuiet
<1>2. ASSUME NEW h \in Handlers, Request(h), UNCHANGED <<role, invite, seatRaced>>,
             hpc'[h] \in {"owners", "members"} \/ op'[h] \in OwnerOps \cup {"accept", "none"}
      PROVE  Kept
  <2>1. Seated' = Seated /\ Members' = Members
    BY <1>2 DEF Seated, Members, Invited, Pending
  <2>2. Held'
    BY HeldStep
  <2>3. Counted(h)' /\ RoomLeft(h)'
    BY <1>2, <2>2 DEF Held, Holding, Counted, RoomLeft, SeatOps, OwnerOps
  <2>. QED BY <1>2, <2>1, <2>3, SeatsQuiet
<1>3. ASSUME NEW h \in Handlers, Request(h),
             \/ MemberRead(h) \/ InviteRead(h) \/ ResendRead(h) \/ AcceptRead(h)
      PROVE  Kept
  BY <1>2, <1>3 DEF MemberRead, InviteRead, ResendRead, AcceptRead, Begin, Types, OwnerOps
<1>4. ASSUME NEW h \in Handlers, Request(h), AssertNotLast(h) PROVE Kept
  <2>1. CASE Refuse(h)
    BY <1>1, <1>4, <2>1
  <2>2. CASE ~Refuse(h)
    <3>1. UNCHANGED <<role, invite, seatRaced, op>> /\ op[h] \in OwnerOps
      BY <1>4, <2>2 DEF AssertNotLast, Held, Holding
    <3>. QED BY <1>2, <1>4, <3>1
  <2>. QED BY <2>1, <2>2
<1>5. ASSUME NEW h \in Handlers, Request(h), MemberWrite(h) PROVE Kept
  <2>1. CASE hwho[h] = NoOne
    BY <1>1, <1>5, <2>1 DEF MemberWrite
  <2>2. CASE hwho[h] # NoOne
    <3>1. role[hwho[h]] # "none" /\ hwho[h] \in People
      BY <1>5, <2>2 DEF MemberWrite, RowsInv, RowsHeld, Types
    <3>2. /\ UNCHANGED <<invite, seatRaced>>
          /\ \A p \in People : p # hwho[h] => role'[p] = role[p]
          /\ op'[h] = "none" /\ hpc'[h] = "idle"
      BY <1>5, <2>2 DEF MemberWrite, Return, Types
    <3>3. Members' \subseteq Members /\ Seated' \subseteq Seated
      BY <3>1, <3>2 DEF Members, Seated, Invited, Pending
    <3>4. Counted(h)' /\ RoomLeft(h)'
      BY <3>2 DEF Counted, RoomLeft, SeatOps
    <3>. QED BY <1>5, <3>2, <3>3, <3>4, SeatsQuiet
  <2>. QED BY <2>1, <2>2
<1>6. ASSUME NEW h \in Handlers, Request(h), CountMembers(h) PROVE Kept
  <2>1. /\ UNCHANGED <<role, invite, seatRaced>>
        /\ hpc'[h] = "pending" /\ hcount'[h] = Cardinality(Members)
    BY <1>6 DEF CountMembers, Types
  <2>2. Seated' = Seated /\ Members' = Members
    BY <2>1 DEF Seated, Members, Invited, Pending
  <2>3. Counted(h)' /\ RoomLeft(h)'
    <3>1. Cardinality(Members) \in Nat
      BY SeatedPeople, PeopleFinite
    <3>. QED BY <2>1, <2>2, <3>1 DEF Counted, RoomLeft
  <2>. QED BY <1>6, <2>1, <2>2, <2>3, SeatsQuiet
<1>7. ASSUME NEW h \in Handlers, Request(h), CountPending(h) PROVE Kept
  <2>1. CASE ~HasRoom(hcount[h] + Cardinality({i \in Pending : invite[i].who # hwho[h]}))
    BY <1>1, <1>7, <2>1 DEF CountPending
  <2>2. CASE HasRoom(hcount[h] + Cardinality({i \in Pending : invite[i].who # hwho[h]}))
    <3>1. /\ UNCHANGED <<role, invite, seatRaced, op, hwho, stale>>
          /\ hpc[h] = "pending" /\ hpc'[h] \in {"clear", "commit"}
      BY <1>7, <2>2 DEF CountPending, Types
    <3>2. Seated' = Seated /\ Members' = Members
      BY <3>1 DEF Seated, Members, Invited, Pending
    <3>3. hwho[h] \in People /\ hcount[h] \in Nat
      BY <3>1 DEF Held, Holding, Types
    <3>4. ~stale[h] => Cardinality(Seated \cup {hwho[h]}) <= Limit
      BY <2>2, <3>1, <3>3, TwoCounts DEF SeatInv, Counted
    <3>5. Counted(h)' /\ RoomLeft(h)'
      BY <3>1, <3>2, <3>4 DEF Counted, RoomLeft
    <3>. QED BY <1>7, <3>1, <3>2, <3>5, SeatsQuiet
  <2>. QED BY <2>1, <2>2
<1>8. ASSUME NEW h \in Handlers, Request(h), InviteClear(h) PROVE Kept
  <2>1. /\ UNCHANGED <<role, invite, seatRaced, op, hwho, stale>>
        /\ hpc[h] = "clear" /\ hpc'[h] = "commit"
    BY <1>8 DEF InviteClear, Types
  <2>2. Seated' = Seated /\ Members' = Members
    BY <2>1 DEF Seated, Members, Invited, Pending
  <2>3. Counted(h)' /\ RoomLeft(h)'
    BY <2>1, <2>2 DEF SeatInv, Counted, RoomLeft
  <2>. QED BY <1>8, <2>1, <2>2, <2>3, SeatsQuiet
<1>9. ASSUME NEW h \in Handlers, Request(h), RevokeInvitation(h) PROVE Kept
  <2>1. /\ UNCHANGED <<role, seatRaced, op>> /\ op[h] = "none"
    BY <1>9 DEF RevokeInvitation, locals, Held, Holding
  <2>2. Members' = Members /\ Seated' \subseteq Seated
    BY <1>9 DEF RevokeInvitation, Members, Seated, Invited, Pending, Types, Invitation
  <2>3. Counted(h)' /\ RoomLeft(h)'
    BY <1>9, <2>1 DEF RevokeInvitation, locals, Counted, RoomLeft, SeatOps
  <2>. QED BY <1>9, <2>1, <2>2, <2>3, SeatsQuiet
(* The invitee of an invitation that is written was reckoned with. *)
<1>10. ASSUME NEW h \in Handlers, op[h] \in SeatOps, hpc[h] = "commit",
              seatRaced' = (seatRaced \/ stale[h]),
              Seated' \subseteq Seated \cup {hwho[h]}
       PROVE  SeatsThere'
  <2>1. CASE seatRaced \/ stale[h]
    BY <1>10, <2>1 DEF SeatsThere
  <2>2. CASE ~seatRaced /\ ~stale[h]
    <3>1. hwho[h] \in People
      BY <1>10 DEF Held, Holding
    <3>2. Cardinality(Seated \cup {hwho[h]}) <= Limit
      BY <1>10, <2>2 DEF SeatInv, RoomLeft
    <3>3. Seated \cup {hwho[h]} \in SUBSET People
      BY <3>1, SeatedPeople
    <3>4. Cardinality(Seated') <= Cardinality(Seated \cup {hwho[h]})
      BY <1>10, <3>3, FewerPeople
    <3>5. Cardinality(Seated') \in Nat /\ Cardinality(Seated \cup {hwho[h]}) \in Nat
      BY <3>3, SeatedPeopleNext, PeopleFinite
    <3>. QED BY <3>2, <3>4, <3>5, MembershipAssumption DEF SeatsThere, MembershipAssumption
  <2>. QED BY <2>1, <2>2
<1>11. ASSUME NEW h \in Handlers, Request(h), InviteCommit(h) PROVE Kept
  <2>1. CASE Clashes(h)
    BY <1>1, <1>11, <2>1 DEF InviteCommit
  <2>2. CASE ~Clashes(h)
    <3>1. /\ op[h] \in SeatOps /\ hpc[h] = "commit" /\ role' = role
          /\ seatRaced' = (seatRaced \/ stale[h])
          /\ Return(h, {}, SeatOps)
      BY <1>11, <2>2 DEF InviteCommit, SeatOps
    <3>2. \A i \in Rows : invite'[i].status = "PENDING" =>
              (invite[i].status = "PENDING" /\ invite'[i].who = invite[i].who)
                \/ invite'[i].who = hwho[h]
      BY <1>11, <2>2 DEF InviteCommit, Blank
    <3>3. Seated' \subseteq Seated \cup {hwho[h]}
      BY <3>1, <3>2 DEF Seated, Members, Invited, Pending
    <3>4. SeatsThere'
      BY <3>1, <3>3, <1>10
    <3>. QED BY <1>11, <3>1, <3>4, SeatsTaken
  <2>. QED BY <2>1, <2>2
<1>12. ASSUME NEW h \in Handlers, Request(h), ResendCommit(h) PROVE Kept
  <2>1. CASE invite[hrow[h]].status = "DELETED"
    BY <1>1, <1>12, <2>1 DEF ResendCommit
  <2>2. CASE invite[hrow[h]].status # "DELETED"
    <3>1. /\ op[h] \in SeatOps /\ hpc[h] = "commit" /\ role' = role
          /\ seatRaced' = (seatRaced \/ stale[h])
          /\ invite' = [invite EXCEPT ![hrow[h]].status = "PENDING"]
          /\ Return(h, {}, SeatOps)
      BY <1>12, <2>2 DEF ResendCommit, SeatOps
    <3>2. invite[hrow[h]].who = hwho[h]
      BY <1>12, <2>2 DEF ResendCommit, RowsInv, RowsHeld
    <3>3. \A i \in Rows : invite'[i].status = "PENDING" =>
              (invite[i].status = "PENDING" /\ invite'[i].who = invite[i].who)
                \/ invite'[i].who = hwho[h]
      BY <3>1, <3>2 DEF Types, Invitation
    <3>4. Seated' \subseteq Seated \cup {hwho[h]}
      BY <3>1, <3>3 DEF Seated, Members, Invited, Pending
    <3>5. SeatsThere'
      BY <3>1, <3>4, <1>10
    <3>. QED BY <1>12, <3>1, <3>5, SeatsTaken
  <2>. QED BY <2>1, <2>2
<1>13. ASSUME NEW h \in Handlers, Request(h), AcceptCommit(h) PROVE Kept
  <2>1. CASE invite[hrow[h]].status = "DELETED"
    BY <1>1, <1>13, <2>1 DEF AcceptCommit
  <2>2. CASE invite[hrow[h]].status # "DELETED"
    <3>. DEFINE i == hrow[h]
                p == invite[i].who
    <3>1. /\ Return(h, {}, SeatOps)
          /\ seatRaced' = (seatRaced \/ invite[i].status # "PENDING")
          /\ \A q \in People : q # p => role'[q] = role[q]
          /\ invite' = [invite EXCEPT ![i].status = "ACCEPTED"]
          /\ i \in Rows
      BY <1>13, <2>2 DEF AcceptCommit, Types, Held, Holding
    <3>2. CASE invite[i].status # "PENDING"
      BY <1>13, <3>1, <3>2, SeatsTaken DEF SeatsThere
    <3>3. CASE invite[i].status = "PENDING"
      <4>1. p \in Seated
        BY <3>1, <3>3 DEF Seated, Invited, Pending, Types, Invitation
      <4>2. \A j \in Rows : invite'[j].status = "PENDING" =>
                invite[j].status = "PENDING" /\ invite'[j].who = invite[j].who
        BY <3>1 DEF Types, Invitation
      <4>3. Seated' \subseteq Seated
        BY <3>1, <4>1, <4>2 DEF Seated, Members, Invited, Pending
      <4>4. Cardinality(Seated') <= Cardinality(Seated)
        BY <4>3, SeatedPeople, FewerPeople
      <4>5. SeatsThere'
        <5>1. CASE seatRaced
          BY <3>1, <5>1 DEF SeatsThere
        <5>2. CASE ~seatRaced
          <6>1. Cardinality(Seated) <= Limit
            BY <5>2 DEF SeatInv, SeatsThere
          <6>2. Cardinality(Seated) \in Nat /\ Cardinality(Seated') \in Nat
            BY SeatedPeople, SeatedPeopleNext, PeopleFinite
          <6>3. Cardinality(Seated') <= Limit
            BY <4>4, <6>1, <6>2, MembershipAssumption DEF MembershipAssumption
          <6>. QED BY <6>3 DEF SeatsThere
        <5>. QED BY <5>1, <5>2
      <4>. QED BY <1>13, <3>1, <4>5, SeatsTaken
    <3>. QED BY <3>2, <3>3
  <2>. QED BY <2>1, <2>2
<1>14. ASSUME NEW h \in Handlers, Request(h), GiveUp(h) PROVE Kept
  BY <1>1, <1>14 DEF GiveUp
<1>15. CASE UNCHANGED memberVars
  <2>1. Seated' = Seated /\ Members' = Members
    BY <1>15 DEF memberVars, Seated, Members, Invited, Pending
  <2>. QED BY <1>15, <2>1 DEF memberVars, locals, SeatInv, SeatsThere, Counted, RoomLeft
<1>. QED
  BY <1>3, <1>4, <1>5, <1>6, <1>7, <1>8, <1>9, <1>11, <1>12, <1>13, <1>14, <1>15
     DEF MembersNext, Request

(* However many requests invite and accept at once, the plan's seats are   *)
(* exceeded only by an invitation overtaken by another request that takes  *)
(* a seat, or accepted after it was revoked.                               *)
THEOREM SeatsAreKept == MembersSpec => []SeatsKept
<1>1. SeatInv => SeatsKept
  BY SeatedPeople, PeopleFinite, MembershipAssumption
     DEF SeatInv, SeatsThere, SeatsKept, MembershipAssumption
<1>. QED BY SeatInit, SeatStep, <1>1, PTL DEF MembersSpec

-----------------------------------------------------------------------------
(* The invariants. *)

(* A job is there for a row only, and a run is at a row that is there.     *)
RowsThere ==
    /\ \A l \in Logs : (log[l] = "NONE") <=> (event[l] = NoEvent)
    /\ \A l \in Logs : log[l] = "NONE" =>
           job[l].state = "absent" /\ l \notin adding
    /\ \A l \in adding : job[l].state = "absent"
    /\ \A w \in Workers : wpc[w] # "idle" =>
           wlog[w] \in Logs /\ event[wlog[w]] # NoEvent
    /\ \A v \in Verifiers : vpc[v] = "record" => vref[v] \in Refs

TypeInv == TypeOK /\ RowsThere

(* A run about to mark its row has applied it; one about to complete, or,  *)
(* with the database up, to fail, has seen a transaction of the payment.   *)
RunsSound ==
    \A w \in Workers : wpc[w] # "idle" /\ Charges(wlog[w]) =>
        /\ wpc[w] = "mark" => txn[event[wlog[w]].of] = "successful"
        /\ wpc[w] = "done" => txn[event[wlog[w]].of] # "none"
        /\ wpc[w] \in {"fail", "throw"} =>
               txn[event[wlog[w]].of] # "none" \/ "db" \in Faults

ChargeInv == TypeInv /\ RunsSound /\ ChargedOnce /\ ProcessedApplied /\ ChargeNotLost

(* Only payments that were made are reported, and applied. *)
Truthful ==
    /\ \A c \in live : charge[c] = "paid"
    /\ \A e \in sent : charge[e.of] = "paid"
    /\ \A l \in Logs : event[l] # NoEvent => event[l] \in sent
    /\ \A r \in Refs : txn[r] = "successful" => charge[r] = "paid"

(* Unless paid for while another was live or being cancelled, subscriptions *)
(* live one at a time, and none when a cancellation is about to be written. *)
OneLive ==
    ~crossed =>
        /\ \A c, d \in live : c = d
        /\ \A h \in Cancellers : cpc[h] = "write" => live = {}

CancelInv == TypeInv /\ Truthful /\ OneLive /\ CancelStopsBilling

-----------------------------------------------------------------------------
(* Every variable keeps its type. *)

LEMMA TypeInit == Init => TypeInv
<1>. SUFFICES ASSUME Init PROVE TypeInv
  OBVIOUS
<1>1. /\ job \in [Logs -> Job]
      /\ \A l \in Logs : job[l].state # "failed" => job[l].tries < MaxAttempts
  BY NoJobFit DEF Init, Fit
<1>2. TypeOK
  BY <1>1 DEF Init, TypeOK
<1>3. RowsThere
  BY DEF Init, RowsThere, NoJob
<1>. QED BY <1>2, <1>3 DEF TypeInv

(* What a row or Paystack reports is an event. *)
LEMMA ReportsEvents ==
    ASSUME sent \subseteq Event, NEW kinds \in SUBSET {"charge", "create", "disable"},
           NEW r \in Refs, Reports(kinds, r)
    PROVE  sent' \subseteq Event
BY DEF Reports, Event

LEMMA TypeStep == TypeInv /\ [Next]_vars => TypeInv'
<1>. SUFFICES ASSUME TypeInv, [Next]_vars PROVE TypeInv'
  OBVIOUS
<1>. \A l \in Logs : Fit(job[l])
  BY DEF TypeInv, TypeOK, Fit
<1>. NoEvent \notin Event
  BY BillingAssumption DEF BillingAssumption, Event
<1>. USE DEF TypeInv, TypeOK, RowsThere, provider, database,
             webhooks, workers, requests, history
<1>1. ASSUME NEW r \in Refs, Checkout(r) PROVE TypeInv'
  BY <1>1 DEF Checkout
<1>2. ASSUME NEW r \in Refs, Pay(r) PROVE TypeInv'
  BY <1>2, ReportsEvents DEF Pay, Taking
<1>3. ASSUME NEW r \in Refs, Renew(r) PROVE TypeInv'
  BY <1>3, ReportsEvents DEF Renew, Taking
<1>4. ASSUME NEW r \in Refs, Lapse(r) PROVE TypeInv'
  BY <1>4, ReportsEvents DEF Lapse, Stops
<1>5. ASSUME NEW l \in Logs, Receive(l) PROVE TypeInv'
  BY <1>5 DEF Receive
<1>6. ASSUME NEW l \in Logs, Add(l) PROVE TypeInv'
  <2>1. Fit(job'[l])
    BY <1>6, AddedFit DEF Add
  <2>2. TypeOK'
    BY <1>6, <2>1 DEF Add, Fit
  <2>. QED BY <1>6, <2>2 DEF Add
<1>7. ASSUME NEW l \in Logs, ReceiveCrash(l) PROVE TypeInv'
  BY <1>7 DEF ReceiveCrash
<1>8. ASSUME NEW l \in Logs, LockExpires(l) PROVE TypeInv'
  BY <1>8, StalledFit, ZenonT(60) DEF LockExpires, Fit, Stalled
<1>9. ASSUME NEW w \in Workers, Take(w) PROVE TypeInv'
  <2>1. PICK l \in Logs : job[l].state = "waiting" /\ job' = [job EXCEPT ![l] = Taken(@, w)]
                           /\ wlog' = [wlog EXCEPT ![w] = l]
    BY <1>9 DEF Take
  <2>2. Fit(job'[l])
    BY <2>1, TakenFit
  <2>3. TypeOK'
    BY <1>9, <2>1, <2>2 DEF Take, Fit
  <2>4. event[l] # NoEvent /\ l \notin adding
    BY <2>1
  <2>. QED BY <1>9, <2>1, <2>3, <2>4 DEF Take
<1>10. ASSUME NEW w \in Workers, Check(w) PROVE TypeInv'
  BY <1>10 DEF Check, Goto
<1>11. ASSUME NEW w \in Workers, Ignore(w) PROVE TypeInv'
  BY <1>11 DEF Ignore, Goto, Handled
<1>12. ASSUME NEW w \in Workers, Activate(w) PROVE TypeInv'
  BY <1>12 DEF Activate, Goto, Handled, Event
<1>13. ASSUME NEW w \in Workers, SaveDetails(w) PROVE TypeInv'
  BY <1>13 DEF SaveDetails, Goto, Handled, Event
<1>14. ASSUME NEW w \in Workers, MarkAsExpired(w) PROVE TypeInv'
  BY <1>14 DEF MarkAsExpired, Goto, Handled
<1>15. ASSUME NEW w \in Workers, Throws(w) PROVE TypeInv'
  BY <1>15 DEF Throws, Goto
<1>16. ASSUME NEW w \in Workers, Processed(w) PROVE TypeInv'
  BY <1>16 DEF Processed, Goto
<1>17. ASSUME NEW w \in Workers, Failed(w) PROVE TypeInv'
  BY <1>17 DEF Failed, Goto
<1>18. ASSUME NEW w \in Workers, Finish(w) PROVE TypeInv'
  BY <1>18, CompletedFit DEF Finish, Leave, Fit, Completed, NoJob
<1>19. ASSUME NEW w \in Workers, Throw(w) PROVE TypeInv'
  <2>. DEFINE l == wlog[w]
  <2>0. l \in Logs /\ event[l] # NoEvent
    BY <1>19 DEF Throw
  <2>1. Fit(job'[l])
    BY <1>19, <2>0, ThrownFit DEF Throw
  <2>2. TypeOK'
    BY <1>19, <2>0, <2>1 DEF Throw, Leave, Fit
  <2>3. job[l].state = "absent" => job'[l] = job[l]
    BY <1>19, <2>0 DEF Throw, Thrown
  <2>. QED BY <1>19, <2>0, <2>2, <2>3 DEF Throw, Leave
<1>20. ASSUME NEW w \in Workers, DbError(w) PROVE TypeInv'
  BY <1>20 DEF DbError, Goto
<1>21. ASSUME NEW w \in Workers, WorkerCrash(w) PROVE TypeInv'
  BY <1>21 DEF WorkerCrash, Leave
<1>22. ASSUME NEW v \in Verifiers, VerifyAbandoned(v) PROVE TypeInv'
  BY <1>22 DEF VerifyAbandoned
<1>23. ASSUME NEW v \in Verifiers, VerifyRecord(v) PROVE TypeInv'
  BY <1>23 DEF VerifyRecord
<1>24. ASSUME NEW h \in Cancellers, CancelRead(h) PROVE TypeInv'
  BY <1>24 DEF CancelRead
<1>25. ASSUME NEW h \in Cancellers, CancelCall(h) PROVE TypeInv'
  BY <1>25, ReportsEvents DEF CancelCall, Stops
<1>26. ASSUME NEW h \in Cancellers, CancelLost(h) PROVE TypeInv'
  BY <1>26, ReportsEvents DEF CancelLost, CancelReturn, Stops
<1>27. ASSUME NEW h \in Cancellers, CancelRefused(h) PROVE TypeInv'
  BY <1>27 DEF CancelRefused, CancelReturn
<1>28. ASSUME NEW h \in Cancellers, CancelWrite(h) PROVE TypeInv'
  BY <1>28 DEF CancelWrite, CancelReturn
<1>29. ASSUME NEW h \in Cancellers, CancelCrash(h) PROVE TypeInv'
  BY <1>29 DEF CancelCrash, CancelReturn
<1>30. CASE UNCHANGED vars
  BY <1>30 DEF vars
<1>. QED BY <1>1, <1>2, <1>3, <1>4, <1>5, <1>6, <1>7, <1>8, <1>9, <1>10, <1>11,
            <1>12, <1>13, <1>14, <1>15, <1>16, <1>17, <1>18, <1>19, <1>20, <1>21, <1>22,
            <1>23, <1>24, <1>25, <1>26, <1>27, <1>28, <1>29, <1>30
        DEF Next, Paystack, Process, Verify, Cancel

(* Every job stays within its limits, and what runs and requests hold is   *)
(* a row and a payment there are.                                          *)
THEOREM TypeCorrect == Spec => []TypeOK
<1>1. TypeInv => TypeOK
  BY DEF TypeInv
<1>. QED BY <1>1, TypeInit, TypeStep, PTL DEF Spec

-----------------------------------------------------------------------------
(* Payments are applied once, and are not lost. *)

LEMMA ChargeInit == Init => ChargeInv
BY TypeInit DEF ChargeInv, TypeInv, RowsThere, RunsSound, ChargedOnce, ProcessedApplied,
                ChargeNotLost, Charges, AtRest, Init

LEMMA ChargeStep == ChargeInv /\ [Next]_vars => ChargeInv'
<1>. SUFFICES ASSUME ChargeInv, [Next]_vars PROVE ChargeInv'
  OBVIOUS
<1>. TypeInv /\ TypeInv'
  BY TypeStep DEF ChargeInv
<1>. NoEvent \notin Event
  BY BillingAssumption DEF BillingAssumption, Event
<1>. USE DEF ChargeInv, TypeInv, TypeOK, RowsThere, RunsSound, ChargedOnce, ProcessedApplied,
             ChargeNotLost, Charges, AtRest, CutOff, Event,
             provider, database,
             webhooks, workers, requests, history
<1>1. ASSUME NEW r \in Refs, Checkout(r) PROVE ChargeInv'
  BY <1>1 DEF Checkout
<1>2. ASSUME NEW r \in Refs, Pay(r) PROVE ChargeInv'
  BY <1>2 DEF Pay, Taking, Reports
<1>3. ASSUME NEW r \in Refs, Renew(r) PROVE ChargeInv'
  BY <1>3 DEF Renew, Taking, Reports
<1>4. ASSUME NEW r \in Refs, Lapse(r) PROVE ChargeInv'
  BY <1>4 DEF Lapse, Stops, Reports
<1>5. ASSUME NEW l \in Logs, Receive(l) PROVE ChargeInv'
  BY <1>5 DEF Receive
<1>6. ASSUME NEW l \in Logs, Add(l) PROVE ChargeInv'
  <2>1. job[l].state = "absent" /\ job[l] \in Job
    BY <1>6 DEF Add
  <2>2. job'[l].state = "waiting"
    BY <1>6, <2>1 DEF Add, Added, Job
  <2>. QED BY <1>6, <2>2 DEF Add
<1>7. ASSUME NEW l \in Logs, ReceiveCrash(l) PROVE ChargeInv'
  BY <1>7 DEF ReceiveCrash
<1>8. ASSUME NEW l \in Logs, LockExpires(l) PROVE ChargeInv'
  BY <1>8 DEF LockExpires, Stalled
<1>9. ASSUME NEW w \in Workers, Take(w) PROVE ChargeInv'
  BY <1>9, SMTT(30) DEF Take, Taken
<1>10. ASSUME NEW w \in Workers, Check(w) PROVE ChargeInv'
  BY <1>10 DEF Check, Goto, Duplicate
<1>11. ASSUME NEW w \in Workers, Ignore(w) PROVE ChargeInv'
  BY <1>11 DEF Ignore, Goto, Handled
<1>12. ASSUME NEW w \in Workers, Activate(w) PROVE ChargeInv'
  <2>1. RunsSound'
    BY <1>12, SMTT(30) DEF Activate, Goto, Handled, Recorded
  <2>2. ChargedOnce'
    BY <1>12, SMTT(30) DEF Activate, Handled, Recorded
  <2>3. ProcessedApplied' /\ ChargeNotLost'
    BY <1>12, SMTT(30) DEF Activate, Handled, Recorded
  <2>. QED BY <2>1, <2>2, <2>3
<1>13. ASSUME NEW w \in Workers, SaveDetails(w) PROVE ChargeInv'
  BY <1>13 DEF SaveDetails, Goto, Handled
<1>14. ASSUME NEW w \in Workers, MarkAsExpired(w) PROVE ChargeInv'
  BY <1>14 DEF MarkAsExpired, Goto, Handled
<1>15. ASSUME NEW w \in Workers, Throws(w) PROVE ChargeInv'
  BY <1>15 DEF Throws, Goto, Recorded, Handled
<1>16. ASSUME NEW w \in Workers, Processed(w) PROVE ChargeInv'
  BY <1>16 DEF Processed, Goto
<1>17. ASSUME NEW w \in Workers, Failed(w) PROVE ChargeInv'
  BY <1>17 DEF Failed, Goto
<1>18. ASSUME NEW w \in Workers, Finish(w) PROVE ChargeInv'
  <2>1. RunsSound' /\ ChargedOnce' /\ ProcessedApplied'
    BY <1>18, SMTT(30) DEF Finish, Leave
  <2>2. ASSUME NEW l \in Logs, Charges(l)', AtRest(l)'
        PROVE  txn'[event'[l].of] # "none" \/ CutOff(l)'
    <3>1. CASE l = wlog[w]
      BY <1>18, <2>2, <3>1, SMTT(30) DEF Finish, Completed, NoJob
    <3>2. CASE l # wlog[w]
      <4>1. job'[l] = job[l]
        BY <1>18, <3>2 DEF Finish
      <4>. QED BY <1>18, <2>2, <4>1 DEF Finish
    <3>. QED BY <3>1, <3>2
  <2>. QED BY <2>1, <2>2
<1>19. ASSUME NEW w \in Workers, Throw(w) PROVE ChargeInv'
  <2>1. RunsSound' /\ ChargedOnce' /\ ProcessedApplied'
    BY <1>19, SMTT(30) DEF Throw, Leave
  <2>2. ASSUME NEW l \in Logs, Charges(l)', AtRest(l)'
        PROVE  txn'[event'[l].of] # "none" \/ CutOff(l)'
    <3>1. CASE l = wlog[w]
      BY <1>19, <2>2, <3>1, SMTT(30) DEF Throw, Thrown
    <3>2. CASE l # wlog[w]
      <4>1. job'[l] = job[l]
        BY <1>19, <3>2 DEF Throw
      <4>. QED BY <1>19, <2>2, <4>1 DEF Throw
    <3>. QED BY <3>1, <3>2
  <2>. QED BY <2>1, <2>2
<1>20. ASSUME NEW w \in Workers, DbError(w) PROVE ChargeInv'
  BY <1>20 DEF DbError, Goto
<1>21. ASSUME NEW w \in Workers, WorkerCrash(w) PROVE ChargeInv'
  BY <1>21 DEF WorkerCrash, Leave
<1>22. ASSUME NEW v \in Verifiers, VerifyAbandoned(v) PROVE ChargeInv'
  BY <1>22 DEF VerifyAbandoned
<1>23. ASSUME NEW v \in Verifiers, VerifyRecord(v) PROVE ChargeInv'
  BY <1>23, SMTT(30) DEF VerifyRecord, Recorded
<1>24. ASSUME NEW h \in Cancellers, CancelRead(h) PROVE ChargeInv'
  BY <1>24 DEF CancelRead
<1>25. ASSUME NEW h \in Cancellers, CancelCall(h) PROVE ChargeInv'
  BY <1>25 DEF CancelCall, Stops, Reports
<1>26. ASSUME NEW h \in Cancellers, CancelLost(h) PROVE ChargeInv'
  BY <1>26 DEF CancelLost, CancelReturn, Stops, Reports
<1>27. ASSUME NEW h \in Cancellers, CancelRefused(h) PROVE ChargeInv'
  BY <1>27 DEF CancelRefused, CancelReturn
<1>28. ASSUME NEW h \in Cancellers, CancelWrite(h) PROVE ChargeInv'
  BY <1>28, SMTT(30) DEF CancelWrite, CancelReturn
<1>29. ASSUME NEW h \in Cancellers, CancelCrash(h) PROVE ChargeInv'
  BY <1>29 DEF CancelCrash, CancelReturn
<1>30. CASE UNCHANGED vars
  BY <1>30 DEF vars
<1>. HIDE DEF ChargeInv, TypeInv, TypeOK, RowsThere, RunsSound, ChargedOnce, ProcessedApplied,
              ChargeNotLost, Charges, AtRest, CutOff, Event,
              provider, database, webhooks, workers, requests, history
<1>. QED BY <1>1, <1>2, <1>3, <1>4, <1>5, <1>6, <1>7, <1>8, <1>9, <1>10, <1>11,
            <1>12, <1>13, <1>14, <1>15, <1>16, <1>17, <1>18, <1>19, <1>20, <1>21, <1>22,
            <1>23, <1>24, <1>25, <1>26, <1>27, <1>28, <1>29, <1>30
        DEF Next, Paystack, Process, Verify, Cancel

(* A payment activates the subscription once, and then it is on the books, *)
(* however often it is reported and its jobs are run.                      *)
THEOREM AppliedOnce == Spec => []ChargedOnce
<1>1. ChargeInv => ChargedOnce
  BY DEF ChargeInv
<1>. QED BY <1>1, ChargeInit, ChargeStep, PTL DEF Spec

(* A payment logged as PROCESSED has been applied.                         *)
THEOREM ProcessedIsApplied == Spec => []ProcessedApplied
<1>1. ChargeInv => ProcessedApplied
  BY DEF ChargeInv
<1>. QED BY <1>1, ChargeInit, ChargeStep, PTL DEF Spec

(* A row nobody looks at again has left its payment on the books, unless   *)
(* a crash, a lost lock or the database cut it off.                        *)
THEOREM NoChargeLost == Spec => []ChargeNotLost
<1>1. ChargeInv => ChargeNotLost
  BY DEF ChargeInv
<1>. QED BY <1>1, ChargeInit, ChargeStep, PTL DEF Spec

-----------------------------------------------------------------------------
(* Cancellation. *)

LEMMA CancelInit == Init => CancelInv
BY TypeInit DEF CancelInv, Truthful, OneLive, CancelStopsBilling, Init

LEMMA CancelStep == CancelInv /\ [Next]_vars => CancelInv'
<1>. SUFFICES ASSUME CancelInv, [Next]_vars PROVE CancelInv'
  OBVIOUS
<1>. TypeInv /\ TypeInv'
  BY TypeStep DEF CancelInv
<1>. NoEvent \notin Event
  BY BillingAssumption DEF BillingAssumption, Event
<1>. USE DEF CancelInv, TypeInv, TypeOK, RowsThere, Truthful, OneLive, CancelStopsBilling,
             Event, provider, database,
             webhooks, workers, requests, history
<1>1. ASSUME NEW r \in Refs, Checkout(r) PROVE CancelInv'
  BY <1>1 DEF Checkout
<1>2. ASSUME NEW r \in Refs, Pay(r) PROVE CancelInv'
  <2>1. Truthful'
    BY <1>2 DEF Pay, Taking, Reports
  <2>2. OneLive'
    BY <1>2 DEF Pay, Taking
  <2>3. txn[r] # "successful"
    BY <1>2 DEF Pay, Taking
  <2>4. CancelStopsBilling'
    BY <1>2, <2>3 DEF Pay, Taking
  <2>. QED BY <2>1, <2>2, <2>4
<1>3. ASSUME NEW r \in Refs, Renew(r) PROVE CancelInv'
  BY <1>3 DEF Renew, Taking, Reports
<1>4. ASSUME NEW r \in Refs, Lapse(r) PROVE CancelInv'
  BY <1>4 DEF Lapse, Stops, Reports
<1>5. ASSUME NEW l \in Logs, Receive(l) PROVE CancelInv'
  BY <1>5 DEF Receive
<1>6. ASSUME NEW l \in Logs, Add(l) PROVE CancelInv'
  BY <1>6 DEF Add
<1>7. ASSUME NEW l \in Logs, ReceiveCrash(l) PROVE CancelInv'
  BY <1>7 DEF ReceiveCrash
<1>8. ASSUME NEW l \in Logs, LockExpires(l) PROVE CancelInv'
  BY <1>8 DEF LockExpires
<1>9. ASSUME NEW w \in Workers, Take(w) PROVE CancelInv'
  BY <1>9 DEF Take
<1>10. ASSUME NEW w \in Workers, Check(w) PROVE CancelInv'
  BY <1>10 DEF Check, Goto
<1>11. ASSUME NEW w \in Workers, Ignore(w) PROVE CancelInv'
  BY <1>11 DEF Ignore, Goto, Handled
<1>12. ASSUME NEW w \in Workers, Activate(w) PROVE CancelInv'
  BY <1>12 DEF Activate, Goto, Handled, Recorded
<1>13. ASSUME NEW w \in Workers, SaveDetails(w) PROVE CancelInv'
  BY <1>13 DEF SaveDetails, Goto, Handled
<1>14. ASSUME NEW w \in Workers, MarkAsExpired(w) PROVE CancelInv'
  BY <1>14 DEF MarkAsExpired, Goto, Handled
<1>15. ASSUME NEW w \in Workers, Throws(w) PROVE CancelInv'
  BY <1>15 DEF Throws, Goto
<1>16. ASSUME NEW w \in Workers, Processed(w) PROVE CancelInv'
  BY <1>16 DEF Processed, Goto
<1>17. ASSUME NEW w \in Workers, Failed(w) PROVE CancelInv'
  BY <1>17 DEF Failed, Goto
<1>18. ASSUME NEW w \in Workers, Finish(w) PROVE CancelInv'
  BY <1>18 DEF Finish, Leave
<1>19. ASSUME NEW w \in Workers, Throw(w) PROVE CancelInv'
  BY <1>19 DEF Throw, Leave
<1>20. ASSUME NEW w \in Workers, DbError(w) PROVE CancelInv'
  BY <1>20 DEF DbError, Goto
<1>21. ASSUME NEW w \in Workers, WorkerCrash(w) PROVE CancelInv'
  BY <1>21 DEF WorkerCrash, Leave
<1>22. ASSUME NEW v \in Verifiers, VerifyAbandoned(v) PROVE CancelInv'
  BY <1>22 DEF VerifyAbandoned
<1>23. ASSUME NEW v \in Verifiers, VerifyRecord(v) PROVE CancelInv'
  BY <1>23 DEF VerifyRecord, Recorded
<1>24. ASSUME NEW h \in Cancellers, CancelRead(h) PROVE CancelInv'
  BY <1>24 DEF CancelRead
<1>25. ASSUME NEW h \in Cancellers, CancelCall(h) PROVE CancelInv'
  BY <1>25 DEF CancelCall, Stops, Reports
<1>26. ASSUME NEW h \in Cancellers, CancelLost(h) PROVE CancelInv'
  BY <1>26 DEF CancelLost, CancelReturn, Stops, Reports
<1>27. ASSUME NEW h \in Cancellers, CancelRefused(h) PROVE CancelInv'
  BY <1>27 DEF CancelRefused, CancelReturn
<1>28. ASSUME NEW h \in Cancellers, CancelWrite(h) PROVE CancelInv'
  BY <1>28 DEF CancelWrite, CancelReturn
<1>29. ASSUME NEW h \in Cancellers, CancelCrash(h) PROVE CancelInv'
  BY <1>29 DEF CancelCrash, CancelReturn
<1>30. CASE UNCHANGED vars
  BY <1>30 DEF vars
<1>. QED BY <1>1, <1>2, <1>3, <1>4, <1>5, <1>6, <1>7, <1>8, <1>9, <1>10, <1>11,
            <1>12, <1>13, <1>14, <1>15, <1>16, <1>17, <1>18, <1>19, <1>20, <1>21, <1>22,
            <1>23, <1>24, <1>25, <1>26, <1>27, <1>28, <1>29, <1>30
        DEF Next, Paystack, Process, Verify, Cancel

(* Who is shown as cancelled is not charged for a subscription that was    *)
(* active, unless one was paid for while another was live.                 *)
THEOREM CancelledIsNotCharged == Spec => []CancelStopsBilling
<1>1. CancelInv => CancelStopsBilling
  BY DEF CancelInv
<1>. QED BY <1>1, CancelInit, CancelStep, PTL DEF Spec
==============================================================================
