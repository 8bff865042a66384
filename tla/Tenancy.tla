------------------------------ MODULE Tenancy ------------------------------
(***************************************************************************)
(* What surrounds the posts of an organization: how it is founded, its     *)
(* workspaces and roles, the sessions of its users, the pages it connects  *)
(* and the notifications of its members.  These parts write rows of their  *)
(* own and read no other part's rows while they do, so that a behaviour of *)
(* this specification is one of them with the others at rest: what holds   *)
(* here of each holds of all.                                              *)
(***************************************************************************)
EXTENDS Sessions, Workspaces, Founding, Roles, Connections, Bells

VARIABLE section

vars == <<section, sessionVars, spaceVars, foundVars, roleVars, linkVars, bellVars>>

(* The parts with a choice of initial state make it when it is their turn. *)
Init ==
    /\ section \in {"sessions", "workspaces", "founding", "roles", "connections", "bells"}
    /\ WorkspacesInit
    /\ section = "workspaces" \/ wrole = [p \in Team |-> "OWNER"]
    /\ FoundingInit
    /\ section = "founding" \/ fkind = [f \in Founders |-> "create"]
    /\ BellsInit
    /\ section = "bells" \/ event = "comment"
    /\ SessionsInit /\ RolesInit /\ ConnectionsInit

Next ==
    /\ UNCHANGED section
    /\ \/ /\ section = "sessions" /\ SessionsNext
          /\ UNCHANGED <<spaceVars, foundVars, roleVars, linkVars, bellVars>>
       \/ /\ section = "workspaces" /\ WorkspacesNext
          /\ UNCHANGED <<sessionVars, foundVars, roleVars, linkVars, bellVars>>
       \/ /\ section = "founding" /\ FoundingNext
          /\ UNCHANGED <<sessionVars, spaceVars, roleVars, linkVars, bellVars>>
       \/ /\ section = "roles" /\ RolesNext
          /\ UNCHANGED <<sessionVars, spaceVars, foundVars, linkVars, bellVars>>
       \/ /\ section = "connections" /\ ConnectionsNext
          /\ UNCHANGED <<sessionVars, spaceVars, foundVars, roleVars, bellVars>>
       \/ /\ section = "bells" /\ BellsNext
          /\ UNCHANGED <<sessionVars, spaceVars, foundVars, roleVars, linkVars>>

Spec == Init /\ [][Next]_vars

-----------------------------------------------------------------------------
(* An organization that is paid for keeps its slug, a workspace, an owner  *)
(* of it, one default role and the permissions of its roles, and its       *)
(* members hear of what concerns them.                                     *)
OrganizationsKept == WorkspacesKept /\ FoundingKept /\ RolesKept /\ BellsKept
==============================================================================
