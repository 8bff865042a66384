------------------------------ MODULE Insights ------------------------------
(***************************************************************************)
(* The daily figures of one social profile: a job per day, and a run on    *)
(* demand at any time, ask the network for the follower count, compare it  *)
(* with the last row of an earlier day and write the row of the day.       *)
(*                                                                         *)
(* The three steps are awaits: a run may be under way while the day ends   *)
(* or another run writes.  Dashboards subtract totals over a window, and   *)
(* the rows hold what was gained and lost from one to the next.            *)
(***************************************************************************)
EXTENDS Integers, FiniteSets, FiniteSetsExt, Functions

CONSTANTS Runners,       \* runs of the analytics worker and of testFetch
          LastDay,       \* days are 0 .. LastDay
          MaxFollowers,  \* bound on the follower count
          Attempts,      \* the attempts of a daily job
          Kinds,         \* the networks
          NoDay          \* no row on a day, nothing read

ASSUME InsightsAssumption ==
    /\ LastDay \in Nat /\ MaxFollowers \in Nat
    /\ Attempts \in Nat \ {0}
    /\ Kinds \subseteq {"LINKEDIN_PAGE", "LINKEDIN_PERSON", "FACEBOOK", "INSTAGRAM", "TWITTER"}
    /\ NoDay \notin Nat /\ NoDay \notin [total : Nat, gained : Nat, lost : Nat]

VARIABLES
    kind,       \* the network, and for LinkedIn whether it is a page
    today,
    followers,  \* the count at the network
    had,        \* history: the counts there have been
    daily,      \* AccountAnalytics by date
    statsJob,   \* the day's job: none, or the attempts made; FAILED ones stay
    ipc,        \* where each run stands
    icount,     \* the total it was answered
    ibase,      \* the total of the earlier row it has read
    iday,       \* the day it read on, then the date of its row
    ijob,       \* it runs the job of today, or of the day before
    late        \* history: days whose row was written or compared late

insightVars == <<kind, today, followers, had, daily, statsJob,
                 ipc, icount, ibase, iday, ijob, late>>
network == <<kind, followers, had>>

Days == 0 .. LastDay
Counts == 0 .. MaxFollowers

InsightsInit ==
    /\ kind \in Kinds
    /\ today = 0
    /\ followers \in Counts /\ had = {followers}
    /\ daily = [d \in Days |-> NoDay]
    /\ statsJob = [state |-> "none", tries |-> 0]
    /\ ipc = [w \in Runners |-> "idle"]
    /\ icount = [w \in Runners |-> 0]
    /\ ibase = [w \in Runners |-> NoDay]
    /\ iday = [w \in Runners |-> 0]
    /\ ijob = [w \in Runners |-> FALSE]
    /\ late = {}

-----------------------------------------------------------------------------
(* getAccountStats: the requests behind it that bear on the followers, and *)
(* those whose failure makes the whole fail.  Demographics are dropped     *)
(* when they fail, and the requests of a LinkedIn page settle each on its  *)
(* own; the totals of a person are five requests that fail together.       *)
PageStats == [asks |-> {"followers", "page", "shares"}, needs |-> {}]
MemberTotals == {"totals"}
PersonStats == [asks  |-> {"followers"} \cup MemberTotals,
                needs |-> {"followers"} \cup MemberTotals]
FacebookStats == [asks  |-> {"followers", "insights", "demographics"},
                  needs |-> {"followers", "insights"}]
InstagramStats == [asks  |-> {"followers", "insights", "demographics"},
                   needs |-> {"followers", "insights"}]
TwitterStats == [asks |-> {"followers"}, needs |-> {"followers"}]

Stats == CASE kind = "LINKEDIN_PAGE"   -> PageStats
           [] kind = "LINKEDIN_PERSON" -> PersonStats
           [] kind = "FACEBOOK"        -> FacebookStats
           [] kind = "INSTAGRAM"       -> InstagramStats
           [] kind = "TWITTER"         -> TwitterStats

(* What the provider reports when the requests in `failed' fail.           *)
ReadTotal(failed) == IF "followers" \in failed THEN 0 ELSE followers

-----------------------------------------------------------------------------
Free(w) ==
    /\ ipc' = [ipc EXCEPT ![w] = "idle"]
    /\ icount' = [icount EXCEPT ![w] = 0]
    /\ ibase' = [ibase EXCEPT ![w] = NoDay]
    /\ iday' = [iday EXCEPT ![w] = 0]
    /\ ijob' = [ijob EXCEPT ![w] = FALSE]

(* scheduleDailyFetch: the day is part of the job's id, so that a second   *)
(* call of the day adds nothing unless the job is done and removed.        *)
ScheduleDaily ==
    /\ statsJob.state = "none"
    /\ statsJob' = [state |-> "waiting", tries |-> 0]
    /\ UNCHANGED <<network, today, daily, ipc, icount, ibase, iday, ijob, late>>

(* handleDailyFetch and testFetch, up to the answer of the network.        *)
Fetch(w, failed, queued) ==
    /\ ipc[w] = "idle"
    /\ failed \subseteq Stats.asks \ Stats.needs
    /\ IF queued THEN statsJob.state = "waiting"
                      /\ statsJob' = [statsJob EXCEPT !.state = "active"]
                 ELSE UNCHANGED statsJob
    /\ ipc' = [ipc EXCEPT ![w] = "fetched"]
    /\ icount' = [icount EXCEPT ![w] = ReadTotal(failed)]
    /\ ijob' = [ijob EXCEPT ![w] = queued]
    /\ UNCHANGED <<network, today, daily, ibase, iday, late>>

(* normalizeAccountStats: the last row before today ...                    *)
LastBefore(d) ==
    LET rows == {e \in Days : e < d /\ daily[e] # NoDay}
    IN  IF rows = {} THEN NoDay ELSE daily[Max(rows)].total

(* Variant for the mutation runs: today's own row counts as earlier.       *)
CompareToday(w) ==
    /\ ipc[w] = "fetched"
    /\ ipc' = [ipc EXCEPT ![w] = "read"]
    /\ ibase' = [ibase EXCEPT ![w] = LastBefore(today + 1)]
    /\ iday' = [iday EXCEPT ![w] = today]
    /\ UNCHANGED <<network, today, daily, statsJob, icount, ijob, late>>

Compare(w) ==
    /\ ipc[w] = "fetched"
    /\ ipc' = [ipc EXCEPT ![w] = "read"]
    /\ ibase' = [ibase EXCEPT ![w] = LastBefore(today)]
    /\ iday' = [iday EXCEPT ![w] = today]
    /\ UNCHANGED <<network, today, daily, statsJob, icount, ijob, late>>

(* ... and the date of the new one, once it is answered.                   *)
Stamp(w) ==
    /\ ipc[w] = "read"
    /\ ipc' = [ipc EXCEPT ![w] = "stamped"]
    /\ iday' = [iday EXCEPT ![w] = today]
    /\ late' = IF iday[w] # today THEN late \cup {today} ELSE late
    /\ UNCHANGED <<network, today, daily, statsJob, icount, ibase, ijob>>

(* calculateDelta *)
Delta(current, base) ==
    [total  |-> current,
     gained |-> IF base # NoDay /\ current > base THEN current - base ELSE 0,
     lost   |-> IF base # NoDay /\ current < base THEN base - current ELSE 0]

(* saveAccountAnalytics: an upsert.  Posts follow (module Snapshots); with *)
(* them the job is done, and removed.                                      *)
SaveRow(w) ==
    /\ ipc[w] = "stamped"
    /\ daily' = [daily EXCEPT ![iday[w]] = Delta(icount[w], ibase[w])]
    /\ late' = IF iday[w] # today THEN late \cup {iday[w]} ELSE late
    /\ statsJob' = IF ijob[w] /\ statsJob.state = "active"
                     THEN [state |-> "none", tries |-> 0] ELSE statsJob
    /\ Free(w)
    /\ UNCHANGED <<network, today>>

(* A needed request fails, or a query, or the worker dies: a job is tried  *)
(* again and then kept as failed, a run on demand is over.                 *)
RunFails(w) ==
    /\ ipc[w] # "idle"
    /\ statsJob' =
         IF ijob[w] /\ statsJob.state = "active"
           THEN [state |-> IF statsJob.tries + 1 < Attempts THEN "waiting" ELSE "failed",
                 tries |-> statsJob.tries + 1]
           ELSE statsJob
    /\ Free(w)
    /\ UNCHANGED <<network, today, daily, late>>

(* Yesterday's job is another one: what is left of it is not followed.     *)
Midnight ==
    /\ today < LastDay
    /\ today' = today + 1
    /\ statsJob' = [state |-> "none", tries |-> 0]
    /\ ijob' = [w \in Runners |-> FALSE]
    /\ UNCHANGED <<network, daily, ipc, icount, ibase, iday, late>>

Follow(n) ==
    /\ n # followers
    /\ followers' = n /\ had' = had \cup {n}
    /\ UNCHANGED <<kind, today, daily, statsJob, ipc, icount, ibase, iday, ijob, late>>

InsightsNext ==
    \/ ScheduleDaily \/ Midnight
    \/ \E n \in Counts : Follow(n)
    \/ \E w \in Runners :
          \/ \E failed \in SUBSET Stats.asks, queued \in BOOLEAN : Fetch(w, failed, queued)
          \/ Compare(w) \/ Stamp(w) \/ SaveRow(w) \/ RunFails(w)

InsightsSpec == InsightsInit /\ [][InsightsNext]_insightVars

-----------------------------------------------------------------------------
(* getProfileDashboard, growthSummary: the totals of the first and of the  *)
(* last row of the window, subtracted.                                     *)
Window(start, end) == {d \in start .. end : daily[d] # NoDay}
FollowerGrowth(window) == daily[Max(window)].total - daily[Min(window)].total

(* The growth a dashboard shows for a window is what its rows say was      *)
(* gained and lost after the first, however often and in whatever order    *)
(* the days were fetched, unless one of the rows was compared or written   *)
(* by a run that was overtaken by midnight.                                *)
GrowthAdds ==
    \A start, end \in Days :
        LET window == Window(start, end)
        IN  window # {} /\ window \cap late = {}
            => FollowerGrowth(window) =
                 SumFunction([d \in window \ {Min(window)} |-> daily[d].gained - daily[d].lost])

(* A total on record is a count the network has had: a request that fails  *)
(* must not be recorded as a profile without followers.  The page of       *)
(* LinkedIn is left out, because there it is.                              *)
TotalsTrue ==
    kind # "LINKEDIN_PAGE" =>
        \A d \in Days : daily[d] # NoDay => daily[d].total \in had

InsightsTrue == GrowthAdds /\ TotalsTrue
==============================================================================
