----------------------------- MODULE Campaigns -----------------------------
(***************************************************************************)
(* The dates of the campaigns of a workspace, which an update may give in  *)
(* part: what it leaves out is checked as it was read, and stays as it is  *)
(* when the row is written.  That two campaigns have different names is    *)
(* looked up only, untrimmed where the name is stored trimmed, and is left *)
(* out.                                                                    *)
(***************************************************************************)
EXTENDS Integers

CONSTANTS Planners,   \* concurrent requests
          Camps,      \* ids of campaign rows
          Horizon,    \* days are 1 .. Horizon; 0 is null
          NoCamp

ASSUME CampaignsAssumption == Horizon \in Nat \ {0} /\ NoCamp \notin Camps

VARIABLES
    camp,      \* Campaign rows: there, start, end
    born,      \* history: ids that were used
    posted,    \* campaigns that have posts
    xpc,       \* where each request stands
    xrow,      \* the row it is about
    xgiven,    \* the fields it is given
    xdates,    \* their values
    moved,     \* history: requests whose row was written since they read it
    redated    \* history: rows that such a request has written

campVars == <<camp, born, posted, xpc, xrow, xgiven, xdates, moved, redated>>
xrequest == <<xrow, xgiven, xdates>>

CampDays == 1 .. Horizon
Dates == [start : CampDays, end : CampDays \cup {0}]
NoDates == [start |-> 1, end |-> 0]
Gone == [there |-> FALSE, start |-> 1, end |-> 0]
Ordered(d) == d.end = 0 \/ d.start <= d.end

CampaignsInit ==
    /\ camp = [r \in Camps |-> Gone]
    /\ posted = {} /\ born = {}
    /\ xpc = [x \in Planners |-> "idle"]
    /\ xrow = [x \in Planners |-> NoCamp]
    /\ xgiven = [x \in Planners |-> {}]
    /\ xdates = [x \in Planners |-> NoDates]
    /\ moved = {} /\ redated = {}

Ask(x, pc, r, given, d) ==
    /\ xpc' = [xpc EXCEPT ![x] = pc]
    /\ xrow' = [xrow EXCEPT ![x] = r]
    /\ xgiven' = [xgiven EXCEPT ![x] = given]
    /\ xdates' = [xdates EXCEPT ![x] = d]
Leave(x) == Ask(x, "idle", NoCamp, {}, NoDates)

Merged(row, given, d) ==
    [there |-> TRUE,
     start |-> IF "start" \in given THEN d.start ELSE row.start,
     end   |-> IF "end" \in given THEN d.end ELSE row.end]

CreateCampaign(r, d) ==
    /\ r \notin born /\ Ordered(d)
    /\ born' = born \cup {r}
    /\ camp' = [camp EXCEPT ![r] = Merged(Gone, {"start", "end"}, d)]
    /\ UNCHANGED <<posted, xpc, xrequest, moved, redated>>

CheckDates(x, r, given, d) ==
    /\ xpc[x] = "idle" /\ camp[r].there
    /\ Ordered(Merged(camp[r], given, d))
    /\ Ask(x, "write", r, given, d)
    /\ UNCHANGED <<camp, born, posted, moved, redated>>

WriteDates(x) ==
    LET r == xrow[x]
    IN  /\ xpc[x] = "write" /\ camp[r].there
        /\ camp' = [camp EXCEPT ![r] = Merged(@, xgiven[x], xdates[x])]
        /\ redated' = IF x \in moved THEN redated \cup {r} ELSE redated
        /\ moved' = (moved \ {x}) \cup {y \in Planners \ {x} : xrow[y] = r}
        /\ Leave(x)
        /\ UNCHANGED <<born, posted>>

(* delete: its posts are counted; in mode `block' there must be none.      *)
CountPosts(x, r, mode) ==
    /\ xpc[x] = "idle" /\ camp[r].there
    /\ mode = "detach" \/ r \notin posted
    /\ Ask(x, "delete", r, {}, NoDates)
    /\ UNCHANGED <<camp, born, posted, moved, redated>>

(* What was posted since the count is detached by the foreign key.         *)
DeleteCampaign(x) ==
    LET r == xrow[x]
    IN  /\ xpc[x] = "delete" /\ camp[r].there
        /\ camp' = [camp EXCEPT ![r] = Gone]
        /\ posted' = posted \ {r}
        /\ redated' = redated \ {r}
        /\ moved' = moved \ {x}
        /\ Leave(x)
        /\ UNCHANGED born

PlannerFails(x) ==
    /\ xpc[x] # "idle"
    /\ moved' = moved \ {x}
    /\ Leave(x)
    /\ UNCHANGED <<camp, born, posted, redated>>

(* A post is made for the campaign.                                        *)
PostFor(r) ==
    /\ camp[r].there /\ r \notin posted
    /\ posted' = posted \cup {r}
    /\ UNCHANGED <<camp, born, xpc, xrequest, moved, redated>>

(* What is not given is no value.                                          *)
Patches == {p \in [given : SUBSET {"start", "end"}, dates : Dates] :
              /\ "start" \notin p.given => p.dates.start = NoDates.start
              /\ "end" \notin p.given => p.dates.end = NoDates.end}

PlannerSteps(x) ==
    \/ \E r \in Camps, p \in Patches : CheckDates(x, r, p.given, p.dates)
    \/ \E r \in Camps, mode \in {"detach", "block"} : CountPosts(x, r, mode)
    \/ WriteDates(x) \/ DeleteCampaign(x) \/ PlannerFails(x)

CampaignsNext ==
    \/ \E r \in Camps : PostFor(r) \/ \E d \in Dates : CreateCampaign(r, d)
    \/ \E x \in Planners : PlannerSteps(x)

CampaignsSpec == CampaignsInit /\ [][CampaignsNext]_campVars

-----------------------------------------------------------------------------
(* No campaign ends before it starts, unless two updates crossed.          *)
DatesKept == \A r \in Camps \ redated : Ordered(camp[r])
==============================================================================
