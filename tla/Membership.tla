----------------------------- MODULE Membership -----------------------------
(***************************************************************************)
(* Who belongs to one organization: the requests that change, remove and   *)
(* invite its members, with their two checks, that an owner remains and    *)
(* that the plan has a seat left.                                          *)
(*                                                                         *)
(* Each check reads the database in one or two awaits and the change is    *)
(* made in a later one, so requests interleave between them.  A request    *)
(* holds the id of the row it read: once the row is deleted the id is      *)
(* worth NoOne or the row stays DELETED, and writing through it fails.     *)
(* Permissions, tokens, expiry dates and mails are left out: they only     *)
(* refuse requests, which GiveUp covers.  A crash between two awaits       *)
(* leaves nothing behind and is a GiveUp too.                              *)
(***************************************************************************)
EXTENDS Naturals, FiniteSets

CONSTANTS People,     \* by e-mail address
          NoOne,
          Founder,    \* made owner by createOrganization
          Rows,       \* the invitations there is room for: a bound
          NoRow,
          Grants,     \* the roles organization-wide invitations may grant
          Handlers,   \* concurrent requests
          Limit       \* the plan's maxTeamMembers

ASSUME MembershipAssumption ==
    /\ IsFiniteSet(People) /\ Founder \in People /\ NoOne \notin People
    /\ IsFiniteSet(Rows) /\ NoRow \notin Rows
    /\ Grants \subseteq {"member", "owner"}
    /\ Limit \in Nat \ {0}

VARIABLES
    role,       \* the OrganizationMember row of each person
    invite,     \* the Invitation rows
    op,         \* what each request is
    hpc,        \* where it stands
    hwho,       \* the member or invitee it is about
    hrow,       \* the invitation it is about
    hws,        \* it invites to a workspace
    hcount,     \* the members it counted
    hdel,       \* the invitations its transaction replaces
    stale,      \* history: overtaken since it began
    ownerRaced, \* history: an owner was taken away by a request that had been
                \* overtaken, or had counted the owners of another organization
    seatRaced   \* history: an overtaken request took a seat

locals     == <<op, hpc, hwho, hrow, hws, hcount, hdel>>
memberVars == <<role, invite, locals, stale, ownerRaced, seatRaced>>

Roles      == {"member", "owner"}
Statuses   == {"FREE", "PENDING", "ACCEPTED", "REVOKED", "DELETED"}
Invitation == [status : Statuses, who : People, grant : Roles, ws : BOOLEAN]
OwnerOps   == {"remove", "promote", "demote", "stray"}
SeatOps    == {"invite", "resend"}
Ops        == {"none", "invite", "resend", "accept"} \cup OwnerOps
Points     == {"idle", "owners", "members", "pending", "clear", "commit"}

(* what a request under way holds *)
Holding(h) ==
    /\ (op[h] = "none") = (hpc[h] = "idle")
    /\ hpc[h] = "owners" => op[h] \in OwnerOps
    /\ hpc[h] \in {"members", "pending", "clear"} => op[h] \in SeatOps
    /\ op[h] \in SeatOps => hwho[h] \in People
    /\ op[h] \in {"resend", "accept"} =>
          hrow[h] \in Rows /\ invite[hrow[h]].status # "FREE"

MembersTypeOK ==
    /\ role \in [People -> {"none", "member", "owner"}]
    /\ invite \in [Rows -> Invitation]
    /\ op \in [Handlers -> Ops]
    /\ hpc \in [Handlers -> Points]
    /\ hwho \in [Handlers -> People \cup {NoOne}]
    /\ hrow \in [Handlers -> Rows \cup {NoRow}]
    /\ hws \in [Handlers -> BOOLEAN]
    /\ hcount \in [Handlers -> Nat]
    /\ hdel \in [Handlers -> SUBSET Rows]
    /\ stale \in [Handlers -> BOOLEAN]
    /\ ownerRaced \in BOOLEAN
    /\ seatRaced \in BOOLEAN
    /\ \A h \in Handlers : Holding(h)

(* a row that holds nothing, not yet or no longer *)
Blank(s) == [status |-> s, who |-> Founder, grant |-> "member", ws |-> FALSE]

MembersInit ==
    /\ role = [p \in People |-> IF p = Founder THEN "owner" ELSE "none"]
    /\ invite = [i \in Rows |-> Blank("FREE")]
    /\ op = [h \in Handlers |-> "none"]
    /\ hpc = [h \in Handlers |-> "idle"]
    /\ hwho = [h \in Handlers |-> NoOne]
    /\ hrow = [h \in Handlers |-> NoRow]
    /\ hws = [h \in Handlers |-> FALSE]
    /\ hcount = [h \in Handlers |-> 0]
    /\ hdel = [h \in Handlers |-> {}]
    /\ stale = [h \in Handlers |-> FALSE]
    /\ ownerRaced = FALSE
    /\ seatRaced = FALSE

Members == {p \in People : role[p] # "none"}
Owners  == {p \in People : role[p] = "owner"}
Pending == {i \in Rows : invite[i].status = "PENDING"}
Invited == {p \in People : \E i \in Pending : invite[i].who = p}

(* The people a seat is taken for. *)
Seated == Members \cup Invited

-----------------------------------------------------------------------------
(* The first read of a request of kind o, about p or invitation i. *)
Begin(h, o, pc, p, i) ==
    /\ hpc[h] = "idle"
    /\ op' = [op EXCEPT ![h] = o]
    /\ hpc' = [hpc EXCEPT ![h] = pc]
    /\ hwho' = [hwho EXCEPT ![h] = p]
    /\ hrow' = [hrow EXCEPT ![h] = i]
    /\ UNCHANGED <<role, invite, hws, hcount, hdel, stale, ownerRaced, seatRaced>>

(* h ends.  It has deleted the member row the requests `dangling' hold, and *)
(* made a change that requests under way of the kinds `kinds' have not     *)
(* reckoned with.                                                          *)
Return(h, dangling, kinds) ==
    /\ op' = [op EXCEPT ![h] = "none"]
    /\ hpc' = [hpc EXCEPT ![h] = "idle"]
    /\ hwho' = [g \in Handlers |-> IF g = h \/ g \in dangling THEN NoOne ELSE hwho[g]]
    /\ hrow' = [hrow EXCEPT ![h] = NoRow]
    /\ hws' = [hws EXCEPT ![h] = FALSE]
    /\ hcount' = [hcount EXCEPT ![h] = 0]
    /\ hdel' = [hdel EXCEPT ![h] = {}]
    /\ stale' = [g \in Handlers |-> g # h /\ (stale[g] \/ op[g] \in kinds)]

(* It is refused, fails on a constraint or a missing row, or dies. *)
Refuse(h) ==
    /\ Return(h, {}, {})
    /\ UNCHANGED <<role, invite, ownerRaced, seatRaced>>

GiveUp(h) == hpc[h] # "idle" /\ Refuse(h)

-----------------------------------------------------------------------------
(* updateRole, remove and leave. *)

(* The member is read; only taking an owner away needs the check.  remove  *)
(* and leave find him in the organization of the request.  updateRole      *)
(* finds him by id alone: a demotion may be a stray one, let in by the     *)
(* permissions of another organization, named in its path.                 *)
MemberRead(h) ==
    \E p \in Members :
        \/ \E o \in {"remove", "demote", "stray"} :
              Begin(h, o, IF role[p] = "owner" THEN "owners" ELSE "commit", p, NoRow)
        \/ Begin(h, "promote", "commit", p, NoRow)

(* Variant for the mutation runs: the member counts as remaining. *)
RemainingAll(p) == Owners

(* assertNotLastOrgOwner counts the owners but for the member itself ... *)
Remaining(p) == Owners \ {p}

(* ... in the organization the path names.  The owners a stray request     *)
(* finds there tell nothing of this one; finding none, it is refused, a    *)
(* GiveUp.                                                                 *)
AssertNotLast(h) ==
    /\ hpc[h] = "owners"
    /\ IF op[h] # "stray" /\ Remaining(hwho[h]) = {}
       THEN Refuse(h)
       ELSE /\ hpc' = [hpc EXCEPT ![h] = "commit"]
            /\ UNCHANGED <<role, invite, op, hwho, hrow, hws, hcount, hdel,
                           stale, ownerRaced, seatRaced>>

(* The row is written by id, with no condition on what it has become. *)
MemberWrite(h) ==
    /\ hpc[h] = "commit" /\ op[h] \in OwnerOps
    /\ IF hwho[h] = NoOne
       THEN Refuse(h)
       ELSE LET p     == hwho[h]
                new   == CASE op[h] = "remove"  -> "none"
                           [] op[h] = "promote" -> "owner"
                           [] OTHER             -> "member"
                taken == role[p] = "owner" /\ new # "owner"
            IN  /\ role' = [role EXCEPT ![p] = new]
                /\ ownerRaced' = (ownerRaced \/ (taken /\ (stale[h] \/ op[h] = "stray")))
                /\ Return(h,
                          {g \in Handlers : op[h] = "remove" /\ op[g] \in OwnerOps
                                              /\ hwho[g] = p},
                          IF taken THEN OwnerOps ELSE {})
                /\ UNCHANGED <<invite, seatRaced>>

-----------------------------------------------------------------------------
(* Invitations. *)

(* Variant for the mutation runs: an address that is nobody's. *)
InviteReadOpen(h) ==
    \E p \in (People \ Members) \cup {NoOne} : Begin(h, "invite", "members", p, NoRow)

(* inviteUser refuses somebody who is a member already. *)
InviteRead(h) ==
    \E p \in People \ Members : Begin(h, "invite", "members", p, NoRow)

(* resendInvitation takes any invitation but an accepted one. *)
ResendRead(h) ==
    \E i \in Rows :
        /\ invite[i].status \in {"PENDING", "REVOKED"}
        /\ Begin(h, "resend", "members", invite[i].who, i)

(* checkSeatLimit counts the members ... *)
CountMembers(h) ==
    /\ hpc[h] = "members"
    /\ hcount' = [hcount EXCEPT ![h] = Cardinality(Members)]
    /\ hpc' = [hpc EXCEPT ![h] = "pending"]
    /\ UNCHANGED <<role, invite, op, hwho, hrow, hws, hdel, stale, ownerRaced, seatRaced>>

(* Variant for the mutation runs: an off-by-one. *)
HasRoomForOneMore(n) == n <= Limit

(* a seat is left when n are taken *)
HasRoom(n) == n < Limit

(* ... then the invitations pending for other people. *)
CountPending(h) ==
    LET others == {i \in Pending : invite[i].who # hwho[h]}
    IN  /\ hpc[h] = "pending"
        /\ IF HasRoom(hcount[h] + Cardinality(others))
           THEN /\ hpc' = [hpc EXCEPT ![h] = IF op[h] = "invite" THEN "clear" ELSE "commit"]
                /\ hcount' = [hcount EXCEPT ![h] = 0]
                /\ UNCHANGED <<role, invite, op, hwho, hrow, hws, hdel,
                               stale, ownerRaced, seatRaced>>
           ELSE Refuse(h)

(* The transaction of inviteUser finds the pending invitations for the     *)
(* same person and workspace, which it replaces.                           *)
InviteClear(h) ==
    /\ hpc[h] = "clear"
    /\ \E ws \in BOOLEAN :
        /\ hws' = [hws EXCEPT ![h] = ws]
        /\ hdel' = [hdel EXCEPT ![h] =
                      {i \in Pending : invite[i].who = hwho[h] /\ invite[i].ws = ws}]
    /\ hpc' = [hpc EXCEPT ![h] = "commit"]
    /\ UNCHANGED <<role, invite, op, hwho, hrow, hcount, stale, ownerRaced, seatRaced>>

(* The unique key (email, organization, workspace) is broken.  A null      *)
(* workspace is never equal to another, so it binds workspace invites only. *)
Clashes(h) ==
    /\ hws[h]
    /\ \E i \in Rows : /\ invite[i].who = hwho[h] /\ invite[i].ws
                       /\ invite[i].status \in {"PENDING", "ACCEPTED", "REVOKED"}
                       /\ i \in hdel[h] => invite[i].status # "PENDING"

(* It ends with the new invitation.  A workspace invite leads to the role  *)
(* `member' in the organization.                                           *)
InviteCommit(h) ==
    /\ hpc[h] = "commit" /\ op[h] = "invite"
    /\ IF Clashes(h)
       THEN Refuse(h)
       ELSE /\ \E i \in Rows, r \in IF hws[h] THEN {"member"} ELSE Grants :
                /\ invite[i].status = "FREE"
                /\ invite' = [j \in Rows |->
                      IF j = i
                      THEN [status |-> "PENDING", who |-> hwho[h], grant |-> r, ws |-> hws[h]]
                      ELSE IF j \in hdel[h] /\ invite[j].status = "PENDING"
                      THEN Blank("DELETED")
                      ELSE invite[j]]
            /\ seatRaced' = (seatRaced \/ stale[h])
            /\ Return(h, {}, SeatOps)
            /\ UNCHANGED <<role, ownerRaced>>

(* The invitation is pending again, whatever it has become meanwhile. *)
ResendCommit(h) ==
    /\ hpc[h] = "commit" /\ op[h] = "resend"
    /\ IF invite[hrow[h]].status = "DELETED"
       THEN Refuse(h)
       ELSE /\ invite' = [invite EXCEPT ![hrow[h]].status = "PENDING"]
            /\ seatRaced' = (seatRaced \/ stale[h])
            /\ Return(h, {}, SeatOps)
            /\ UNCHANGED <<role, ownerRaced>>

RevokeInvitation(h) ==
    /\ hpc[h] = "idle"
    /\ \E i \in Rows :
        /\ invite[i].status \in {"PENDING", "ACCEPTED", "REVOKED"}
        /\ invite' = [invite EXCEPT ![i].status = "REVOKED"]
    /\ UNCHANGED <<role, locals, stale, ownerRaced, seatRaced>>

(* acceptInvite reads the invitation by its token ... *)
AcceptRead(h) ==
    \E i \in Pending : Begin(h, "accept", "commit", NoOne, i)

(* ... and its transaction adds the member, if there is none, without      *)
(* looking at the invitation's status or at the seats again.               *)
AcceptCommit(h) ==
    /\ hpc[h] = "commit" /\ op[h] = "accept"
    /\ LET i == hrow[h]
           p == invite[i].who
       IN  IF invite[i].status = "DELETED"
           THEN Refuse(h)
           ELSE /\ role' = IF role[p] = "none"
                           THEN [role EXCEPT ![p] = invite[i].grant] ELSE role
                /\ invite' = [invite EXCEPT ![i].status = "ACCEPTED"]
                /\ seatRaced' = (seatRaced \/ invite[i].status # "PENDING")
                /\ Return(h, {}, SeatOps)
                /\ UNCHANGED ownerRaced

-----------------------------------------------------------------------------
Request(h) ==
    \/ GiveUp(h)
    \/ MemberRead(h) \/ AssertNotLast(h) \/ MemberWrite(h)
    \/ InviteRead(h) \/ ResendRead(h) \/ CountMembers(h) \/ CountPending(h)
    \/ InviteClear(h) \/ InviteCommit(h) \/ ResendCommit(h)
    \/ RevokeInvitation(h) \/ AcceptRead(h) \/ AcceptCommit(h)

MembersNext == \E h \in Handlers : Request(h)

MembersSpec == MembersInit /\ [][MembersNext]_memberVars

-----------------------------------------------------------------------------
(* Properties *)

(* The check of assertNotLastOrgOwner is made well before the write, and   *)
(* updateRole makes none for a member who is no owner when read, and may   *)
(* make it in another organization.  Still an organization loses its last  *)
(* owner only when a request that takes an owner away was overtaken by     *)
(* another one that does, or named another organization in its path.       *)
OwnerKept == Owners = {} => ownerRaced

(* checkSeatLimit counts members and invitations in two reads, before the  *)
(* invitation is written, and acceptInvite does not count at all.  Still   *)
(* the plan's seats are exceeded only when an invitation was overtaken by  *)
(* another request that takes a seat, or accepted after its revocation.    *)
SeatsKept == Cardinality(Seated) > Limit => seatRaced
==============================================================================
