----------------------------- MODULE Workspaces -----------------------------
(***************************************************************************)
(* The workspaces of one organization, and the members of one of them.     *)
(* The plan bounds the workspaces and the last one stays; the last owner   *)
(* of a workspace is not removed.  Each rule counts in one await, or two,  *)
(* and the row is written in a later one.                                  *)
(*                                                                         *)
(* A member may have a role in the workspace, else his role in the         *)
(* organization counts: he is an owner explicitly or implicitly.           *)
(***************************************************************************)
EXTENDS Integers, FiniteSets

CONSTANTS Admins,         \* concurrent requests
          Spaces,         \* ids of workspace rows
          MaxWorkspaces,  \* the plan's limit
          Team,           \* members of the organization
          Nobody, NoSpace

ASSUME WorkspacesAssumption ==
    /\ IsFiniteSet(Spaces) /\ Spaces # {}
    /\ IsFiniteSet(Admins) /\ Admins # {}
    /\ MaxWorkspaces \in Nat \ {0}
    /\ Nobody \notin Team /\ NoSpace \notin Spaces

VARIABLES
    spaces,     \* Workspace rows
    wrole,      \* WorkspaceMember by member: OUT, or the role that counts
    apc,        \* where each request stands
    aspace,     \* the workspace it deletes
    atarget,    \* the member it is about
    seen,       \* history: the rows a request has decided on
    emptied,    \* history: a deletion was overtaken by another
    disowned    \* history: an owner was demoted or has left the organization,
                \* or a removal was overtaken

spaceVars == <<spaces, wrole, apc, aspace, atarget, seen, emptied, disowned>>
arequest == <<aspace, atarget, seen>>

RolesOf == {"OUT", "OWNER", "INHERITED_OWNER", "MEMBER"}
IsBoss(role) == role \in {"OWNER", "INHERITED_OWNER"}
Bosses == {p \in Team : IsBoss(wrole[p])}

SpacesTypeOK ==
    /\ spaces \subseteq Spaces
    /\ wrole \in [Team -> RolesOf]
    /\ apc \in [Admins -> {"idle", "create", "count", "delete",
                           "explicit", "inherited", "remove"}]
    /\ aspace \in [Admins -> Spaces \cup {NoSpace}]
    /\ atarget \in [Admins -> Team \cup {Nobody}]
    /\ emptied \in BOOLEAN /\ disowned \in BOOLEAN

WorkspacesInit ==
    /\ spaces = {CHOOSE s \in Spaces : TRUE}
    /\ wrole \in [Team -> RolesOf] /\ Bosses # {}
    /\ apc = [a \in Admins |-> "idle"]
    /\ aspace = [a \in Admins |-> NoSpace]
    /\ atarget = [a \in Admins |-> Nobody]
    /\ seen = [a \in Admins |-> {}]
    /\ emptied = FALSE /\ disowned = FALSE

Goto(a, pc) == apc' = [apc EXCEPT ![a] = pc]
Over(a) ==
    /\ apc' = [apc EXCEPT ![a] = "idle"]
    /\ aspace' = [aspace EXCEPT ![a] = NoSpace]
    /\ atarget' = [atarget EXCEPT ![a] = Nobody]
    /\ seen' = [seen EXCEPT ![a] = {}]

history == <<emptied, disowned>>

-----------------------------------------------------------------------------
(* createWorkspace: checkWorkspaceLimitAndGetFeatures, then a transaction. *)
HasSpace == Cardinality(spaces) < MaxWorkspaces

CheckLimit(a) ==
    /\ apc[a] = "idle" /\ HasSpace
    /\ Goto(a, "create")
    /\ UNCHANGED <<spaces, wrole, arequest, history>>

CreateSpace(a) ==
    /\ apc[a] = "create"
    /\ \E s \in Spaces \ spaces : spaces' = spaces \cup {s}
    /\ Over(a)
    /\ UNCHANGED <<wrole, history>>

(* deleteWorkspace                                                         *)
ReadSpace(a, s) ==
    /\ apc[a] = "idle" /\ s \in spaces
    /\ Goto(a, "count")
    /\ aspace' = [aspace EXCEPT ![a] = s]
    /\ UNCHANGED <<spaces, wrole, atarget, seen, history>>

CountSpaces(a) ==
    /\ apc[a] = "count" /\ Cardinality(spaces) > 1
    /\ seen' = [seen EXCEPT ![a] = spaces]
    /\ Goto(a, "delete")
    /\ UNCHANGED <<spaces, wrole, aspace, atarget, history>>

DeleteSpace(a) ==
    /\ apc[a] = "delete"
    /\ spaces' = spaces \ {aspace[a]}
    /\ emptied' = (emptied \/ ~(seen[a] \subseteq spaces))
    /\ Over(a)
    /\ UNCHANGED <<wrole, disowned>>

-----------------------------------------------------------------------------
(* addMember: with a role of the workspace, or the one of the organization *)
(* counts.  A member twice breaks the unique key.                          *)
AddMember(p, role) ==
    /\ wrole[p] = "OUT" /\ role # "OUT"
    /\ wrole' = [wrole EXCEPT ![p] = role]
    /\ UNCHANGED <<spaces, apc, arequest, history>>

(* updateMemberRole checks nothing about owners.                           *)
UpdateRole(p, role) ==
    /\ wrole[p] \notin {"OUT", role} /\ role # "OUT"
    /\ wrole' = [wrole EXCEPT ![p] = role]
    /\ disowned' = (disowned \/ (IsBoss(wrole[p]) /\ ~IsBoss(role)))
    /\ UNCHANGED <<spaces, apc, arequest, emptied>>

(* remove and leave of the organization: the member's row goes, and those  *)
(* he has in the workspaces with it (onDelete: Cascade).  Only the owners  *)
(* of the organization are counted.                                        *)
LeaveOrganization(p) ==
    /\ wrole[p] # "OUT"
    /\ wrole' = [wrole EXCEPT ![p] = "OUT"]
    /\ disowned' = (disowned \/ IsBoss(wrole[p]))
    /\ UNCHANGED <<spaces, apc, arequest, emptied>>

(* removeMember: the member is read; if he is an owner, the others are     *)
(* counted, those with a role of the workspace first.                      *)
ReadMember(a, p) ==
    /\ apc[a] = "idle" /\ wrole[p] # "OUT"
    /\ Goto(a, IF IsBoss(wrole[p]) THEN "explicit" ELSE "remove")
    /\ atarget' = [atarget EXCEPT ![a] = p]
    /\ UNCHANGED <<spaces, wrole, aspace, seen, history>>

CountExplicit(a) ==
    LET others == {p \in Team \ {atarget[a]} : wrole[p] = "OWNER"}
    IN  /\ apc[a] = "explicit"
        /\ seen' = [seen EXCEPT ![a] = others]
        /\ Goto(a, "inherited")
        /\ UNCHANGED <<spaces, wrole, aspace, atarget, history>>

CountInherited(a) ==
    LET others == {p \in Team \ {atarget[a]} : wrole[p] = "INHERITED_OWNER"}
    IN  /\ apc[a] = "inherited"
        /\ seen[a] \cup others # {}
        /\ seen' = [seen EXCEPT ![a] = @ \cup others]
        /\ Goto(a, "remove")
        /\ UNCHANGED <<spaces, wrole, aspace, atarget, history>>

(* The check is overtaken if one it counted is no owner any more, or if    *)
(* there was none to make and the member has become an owner meanwhile.    *)
Overtaken(a) ==
    IF seen[a] = {} THEN IsBoss(wrole[atarget[a]]) ELSE ~(seen[a] \subseteq Bosses)

RemoveMember(a) ==
    /\ apc[a] = "remove"
    /\ wrole' = [wrole EXCEPT ![atarget[a]] = "OUT"]
    /\ disowned' = (disowned \/ Overtaken(a))
    /\ Over(a)
    /\ UNCHANGED <<spaces, emptied>>

(* A rule refuses, a query throws or the process dies.                     *)
AdminGivesUp(a) ==
    /\ apc[a] # "idle"
    /\ Over(a)
    /\ UNCHANGED <<spaces, wrole, history>>

AdminSteps(a) ==
    \/ CheckLimit(a) \/ CreateSpace(a)
    \/ \E s \in Spaces : ReadSpace(a, s)
    \/ CountSpaces(a) \/ DeleteSpace(a)
    \/ \E p \in Team : ReadMember(a, p)
    \/ CountExplicit(a) \/ CountInherited(a) \/ RemoveMember(a)
    \/ AdminGivesUp(a)

WorkspacesNext ==
    \/ \E p \in Team, role \in RolesOf : AddMember(p, role) \/ UpdateRole(p, role)
    \/ \E p \in Team : LeaveOrganization(p)
    \/ \E a \in Admins : AdminSteps(a)

WorkspacesSpec == WorkspacesInit /\ [][WorkspacesNext]_spaceVars

-----------------------------------------------------------------------------
(* The plan is exceeded by no more than the requests that were let in      *)
(* together, less one.                                                     *)
LimitHeld == Cardinality(spaces) <= MaxWorkspaces + Cardinality(Admins) - 1

(* An organization keeps a workspace, unless two deletions crossed.        *)
LastSpaceKept == emptied \/ spaces # {}

(* A workspace keeps an owner, unless one was demoted or has left the      *)
(* organization, which nobody checks for its workspaces, or a removal was  *)
(* overtaken after its counts.                                             *)
BossKept == disowned \/ Bosses # {}

WorkspacesKept == LimitHeld /\ LastSpaceKept /\ BossKept
==============================================================================
