------------------------------- MODULE Studio -------------------------------
(***************************************************************************)
(* What an organization makes and measures: its campaigns, media files and *)
(* generated texts, and the figures of its profiles and posts.  As in      *)
(* module Tenancy, a behaviour is one of these with the others at rest,    *)
(* as each writes rows of its own and reads no other's while it does.      *)
(***************************************************************************)
EXTENDS Insights, Snapshots, Dashboards, Content, Credits

VARIABLE section

vars == <<section, insightVars, snapVars, boardVars, campVars, fileVars, creditVars>>

Init ==
    /\ section \in {"insights", "snapshots", "boards", "campaigns", "media", "credits"}
    /\ InsightsInit
    /\ section = "insights" \/ (kind = (CHOOSE k \in Kinds : TRUE) /\ followers = 0)
    /\ SnapshotsInit
    /\ section = "snapshots" \/ site = (CHOOSE k \in Sites : TRUE)
    /\ DashboardsInit
    /\ section = "boards" \/ (board = "pages")
    /\ CampaignsInit /\ MediaInit /\ CreditsInit
    /\ section = "credits" \/ tier = "ROCKET"

Next ==
    /\ UNCHANGED section
    /\ \/ /\ section = "insights" /\ InsightsNext
          /\ UNCHANGED <<snapVars, boardVars, campVars, fileVars, creditVars>>
       \/ /\ section = "snapshots" /\ SnapshotsNext
          /\ UNCHANGED <<insightVars, boardVars, campVars, fileVars, creditVars>>
       \/ /\ section = "boards" /\ DashboardsNext
          /\ UNCHANGED <<insightVars, snapVars, campVars, fileVars, creditVars>>
       \/ /\ section = "campaigns" /\ CampaignsNext
          /\ UNCHANGED <<insightVars, snapVars, boardVars, fileVars, creditVars>>
       \/ /\ section = "media" /\ MediaNext
          /\ UNCHANGED <<insightVars, snapVars, boardVars, campVars, creditVars>>
       \/ /\ section = "credits" /\ CreditsNext
          /\ UNCHANGED <<insightVars, snapVars, boardVars, campVars, fileVars>>

Spec == Init /\ [][Next]_vars

-----------------------------------------------------------------------------
(* The figures an organization is shown: of its followers and its posts,   *)
(* and what the dashboards make of them.                                   *)
FiguresTrue == InsightsTrue /\ SnapshotsTrue /\ (section = "boards" => DashboardsTrue)
==============================================================================
