-------------------------------- MODULE Roles --------------------------------
(***************************************************************************)
(* The custom roles of an organization in one scope: at most one is the    *)
(* default, and the permissions of a role are those that were given last.  *)
(* Both are kept by a transaction of two statements, clear and write, at   *)
(* the isolation of the database's default: a statement sees what was      *)
(* committed when it began, and two transactions may clear the same rows   *)
(* and add theirs.  Slugs are left out: an index keeps them apart.         *)
(***************************************************************************)
EXTENDS Integers, FiniteSets

CONSTANTS Keepers,      \* concurrent requests
          RoleIds,
          Permissions,
          NoRole

ASSUME RolesAssumption == NoRole \notin RoleIds

VARIABLES
    roles,      \* Role rows
    made,       \* history: ids that were used
    default,    \* those with isDefault
    perms,      \* RolePermission by role
    worn,       \* roles that a member has
    ypc,        \* where each request stands
    yrole,      \* the role it is about
    yperms,     \* the permissions it gives
    ydefault,   \* whether it makes the role the default
    ycleared,   \* what its first statement has cleared
    overrun,    \* history: requests that another one has overtaken
    mixed,      \* history: roles whose permissions may be of two requests
    defaults,   \* history: the same of the default
    granted     \* history: the permissions given last

roleVars == <<roles, made, default, perms, worn, ypc, yrole, yperms, ydefault,
              ycleared, overrun, mixed, defaults, granted>>
yrequest == <<yrole, yperms, ydefault, ycleared>>
yhistory == <<overrun, mixed, defaults, granted>>

RolesInit ==
    /\ roles = {} /\ made = {} /\ default = {} /\ worn = {}
    /\ perms = [s \in RoleIds |-> {}] /\ granted = [s \in RoleIds |-> {}]
    /\ ypc = [y \in Keepers |-> "idle"]
    /\ yrole = [y \in Keepers |-> NoRole]
    /\ yperms = [y \in Keepers |-> {}]
    /\ ydefault = [y \in Keepers |-> FALSE]
    /\ ycleared = [y \in Keepers |-> {}]
    /\ overrun = {} /\ mixed = {} /\ defaults = FALSE

Call(y, pc, s, given, isDefault, cleared) ==
    /\ ypc' = [ypc EXCEPT ![y] = pc]
    /\ yrole' = [yrole EXCEPT ![y] = s]
    /\ yperms' = [yperms EXCEPT ![y] = given]
    /\ ydefault' = [ydefault EXCEPT ![y] = isDefault]
    /\ ycleared' = [ycleared EXCEPT ![y] = cleared]
Return(y) == Call(y, "idle", NoRole, {}, FALSE, {})

(* Those that have cleared are overtaken by a commit.                      *)
Overtake(y) == overrun' = (overrun \ {y}) \cup
                  {z \in Keepers \ {y} : ypc[z] \in {"insert", "set", "fill"}}

-----------------------------------------------------------------------------
(* createRole and updateRole                                               *)
BeginCreate(y, s, given, isDefault) ==
    /\ ypc[y] = "idle" /\ s \notin made
    /\ Call(y, "create", s, given, isDefault, {})
    /\ UNCHANGED <<roles, made, default, perms, worn, yhistory>>

BeginUpdate(y, s, isDefault) ==
    /\ ypc[y] = "idle" /\ s \in roles
    /\ Call(y, "update", s, {}, isDefault, {})
    /\ UNCHANGED <<roles, made, default, perms, worn, yhistory>>

(* The transaction's first statement.                                      *)
ClearDefaults(y) ==
    /\ ypc[y] \in {"create", "update"}
    /\ Call(y, IF ypc[y] = "create" THEN "insert" ELSE "set", yrole[y], yperms[y],
            ydefault[y], IF ydefault[y] THEN default ELSE {})
    /\ UNCHANGED <<roles, made, default, perms, worn, yhistory>>

(* Its commit, for a role to be made ...                                   *)
InsertRole(y) ==
    LET s == yrole[y]
    IN  /\ ypc[y] = "insert" /\ s \notin made
        /\ roles' = roles \cup {s} /\ made' = made \cup {s}
        /\ default' = (default \ ycleared[y]) \cup (IF ydefault[y] THEN {s} ELSE {})
        /\ defaults' = (defaults \/ (ydefault[y] /\ y \in overrun))
        /\ perms' = [perms EXCEPT ![s] = yperms[y]]
        /\ granted' = [granted EXCEPT ![s] = yperms[y]]
        /\ Overtake(y)
        /\ Return(y)
        /\ UNCHANGED <<worn, mixed>>

(* ... or a role that is there.                                            *)
SetDefault(y) ==
    LET s == yrole[y]
    IN  /\ ypc[y] = "set" /\ s \in roles
        /\ default' = (default \ (ycleared[y] \cup {s}))
                        \cup (IF ydefault[y] THEN {s} ELSE {})
        /\ defaults' = (defaults \/ (ydefault[y] /\ y \in overrun))
        /\ Overtake(y)
        /\ Return(y)
        /\ UNCHANGED <<roles, made, perms, worn, mixed, granted>>

(* replaceRolePermissions *)
DeleteGrants(y, s, given) ==
    /\ ypc[y] = "idle" /\ s \in roles
    /\ Call(y, "fill", s, given, FALSE, perms[s])
    /\ UNCHANGED <<roles, made, default, perms, worn, yhistory>>

InsertGrants(y) ==
    LET s == yrole[y]
    IN  /\ ypc[y] = "fill" /\ s \in roles
        /\ perms' = [perms EXCEPT ![s] = (@ \ ycleared[y]) \cup yperms[y]]
        /\ granted' = [granted EXCEPT ![s] = yperms[y]]
        /\ mixed' = IF y \in overrun THEN mixed \cup {s} ELSE mixed \ {s}
        /\ Overtake(y)
        /\ Return(y)
        /\ UNCHANGED <<roles, made, default, worn, defaults>>

(* deleteRole: nobody has it when it is counted, and the keys refuse if    *)
(* somebody was given it since.                                            *)
CountWearers(y, s) ==
    /\ ypc[y] = "idle" /\ s \in roles \ worn
    /\ Call(y, "drop", s, {}, FALSE, {})
    /\ UNCHANGED <<roles, made, default, perms, worn, yhistory>>

DropRole(y) ==
    LET s == yrole[y]
    IN  /\ ypc[y] = "drop" /\ s \in roles \ worn
        /\ roles' = roles \ {s}
        /\ default' = default \ {s}
        /\ perms' = [perms EXCEPT ![s] = {}]
        /\ granted' = [granted EXCEPT ![s] = {}]
        /\ mixed' = mixed \ {s}
        /\ Overtake(y)
        /\ Return(y)
        /\ UNCHANGED <<made, worn, defaults>>

KeeperFails(y) ==
    /\ ypc[y] # "idle"
    /\ overrun' = overrun \ {y}
    /\ Return(y)
    /\ UNCHANGED <<roles, made, default, perms, worn, mixed, defaults, granted>>

(* A member is given a role, or loses it.                                  *)
Wear(s) ==
    /\ s \in roles
    /\ worn' = IF s \in worn THEN worn \ {s} ELSE worn \cup {s}
    /\ UNCHANGED <<roles, made, default, perms, ypc, yrequest, yhistory>>

KeeperSteps(y) ==
    \/ \E s \in RoleIds, isDefault \in BOOLEAN :
          \/ BeginUpdate(y, s, isDefault)
          \/ \E given \in SUBSET Permissions : BeginCreate(y, s, given, isDefault)
    \/ \E s \in RoleIds, given \in SUBSET Permissions : DeleteGrants(y, s, given)
    \/ \E s \in RoleIds : CountWearers(y, s)
    \/ ClearDefaults(y) \/ InsertRole(y) \/ SetDefault(y) \/ InsertGrants(y)
    \/ DropRole(y) \/ KeeperFails(y)

RolesNext ==
    \/ \E s \in RoleIds : Wear(s)
    \/ \E y \in Keepers : KeeperSteps(y)

RolesSpec == RolesInit /\ [][RolesNext]_roleVars

-----------------------------------------------------------------------------
(* One role at most is the default, and a role grants what it was given    *)
(* last, unless two transactions cleared the same rows.  Nobody has a role *)
(* that is gone.                                                           *)
RolesKept ==
    /\ defaults \/ Cardinality(default) <= 1
    /\ \A s \in roles \ mixed : perms[s] = granted[s]
    /\ worn \subseteq roles
==============================================================================
