----------------------------- MODULE Dashboards -----------------------------
(***************************************************************************)
(* What the dashboards make of the rows: the rows of the pages by date,    *)
(* and the snapshots of the posts.  The queries are translated as          *)
(* operators, and are compared with each other in every state the rows     *)
(* can come to.  A column stands for all of them, as the queries treat     *)
(* them alike: one number for a page on a date, one for a post.            *)
(*                                                                         *)
(* A request of the posts' figures does not read those of the pages, so    *)
(* that a behaviour has rows of one of the two.                            *)
(***************************************************************************)
EXTENDS Integers, FiniteSets, FiniteSetsExt, Functions

CONSTANTS Boards,     \* what is looked at: "pages", "posts"
          Pages,      \* social profiles of the workspace
          Network,    \* the network of a page
          Pieces,     \* post destinations with a post that is up, all of one network
          LastDate,   \* dates are 0 .. LastDate
          MarkDates,  \* those on which the figures of posts are taken
          MaxCount,   \* bound on a figure
          Hours,      \* hours of the week, in order
          TopTake,    \* takePerPlatform
          TopBuffer,  \* the snapshots that are fetched for it
          NoCount     \* no row

ASSUME DashboardsAssumption ==
    /\ Boards \subseteq {"pages", "posts"}
    /\ LastDate \in Nat /\ MaxCount \in Nat
    /\ MarkDates \subseteq 0 .. LastDate
    /\ Hours \subseteq Nat /\ Hours # {}
    /\ IsFiniteSet(Pages) /\ IsFiniteSet(Pieces) /\ IsFiniteSet(Hours)
    /\ TopTake \in Nat /\ TopBuffer \in Nat /\ TopTake <= TopBuffer
    /\ NoCount \notin Nat

VARIABLES
    board,    \* the rows of this behaviour
    counts,   \* AccountAnalytics by page and date
    live,     \* pages that are active and connected
    marks,    \* PostAnalyticsSnapshot by piece and date
    hour      \* the hour a piece was published at

boardVars == <<board, counts, live, marks, hour>>

BoardDates == 0 .. LastDate

DashboardsInit ==
    /\ board \in Boards
    /\ counts = [p \in Pages |-> [d \in BoardDates |-> NoCount]]
    /\ live = Pages
    /\ marks = [x \in Pieces |-> [d \in MarkDates |-> NoCount]]
    /\ hour \in [Pieces -> Hours]
    /\ board = "posts" \/ \A x \in Pieces : hour[x] = Min(Hours)

SaveCount(p, d, n) ==
    /\ board = "pages"
    /\ counts' = [counts EXCEPT ![p][d] = n]
    /\ UNCHANGED <<board, live, marks, hour>>

SetLive(p) ==
    /\ board = "pages"
    /\ live' = IF p \in live THEN live \ {p} ELSE live \cup {p}
    /\ UNCHANGED <<board, counts, marks, hour>>

SaveMark(x, d, n) ==
    /\ board = "posts"
    /\ marks' = [marks EXCEPT ![x][d] = n]
    /\ UNCHANGED <<board, counts, live, hour>>

DashboardsNext ==
    \/ \E p \in Pages : SetLive(p)
    \/ \E p \in Pages, d \in BoardDates, n \in 0 .. MaxCount : SaveCount(p, d, n)
    \/ \E x \in Pieces, d \in MarkDates, n \in 0 .. MaxCount : SaveMark(x, d, n)

DashboardsSpec == DashboardsInit /\ [][DashboardsNext]_boardVars

-----------------------------------------------------------------------------
(* computePeriods.  A day has two ticks, its start and its end; endOf and  *)
(* startOf go to one of them.  A date range may be given backwards.        *)
StartOf(tick) == 2 * (tick \div 2)
EndOf(tick) == StartOf(tick) + 1

(* Variant for the mutation runs: the days between, without the last.      *)
DaysBetween(start, end) == (end - start) \div 2

DiffInDays(start, end) == (end - start) \div 2 + 1

DaysIn(start, end) == ((start + 1) \div 2) .. (end \div 2)

PrevEnd(start) == EndOf(start - 1)
PrevStart(start, end) == StartOf(PrevEnd(start) - 2 * (DiffInDays(start, end) - 1))

Period(from, to) == DaysIn(StartOf(2 * from), EndOf(2 * to))
PreviousOf(from, to) ==
    LET start == StartOf(2 * from)
    IN  DaysIn(PrevStart(start, EndOf(2 * to)), PrevEnd(start))
Lookback(now, days) == Period(now - (days - 1), now)

(* getAppHomeDashboard: both windows are cut out of a column of dates.     *)
Pulse(now) == Period(now - 7, now)
PulseBefore(now) == Period(now - 14, now - 7)

-----------------------------------------------------------------------------
RowDates(p, dates) == {d \in BoardDates \cap dates : counts[p][d] # NoCount}

(* getWorkspaceEngagementTotal, getWorkspaceAggregatedMetrics: the sum of  *)
(* the rows of some pages and dates.                                       *)
OfPage(p, dates) == SumFunctionOnSet(counts[p], RowDates(p, dates))
EngagementTotal(ids, dates) == SumFunction([p \in ids |-> OfPage(p, dates)])
AggregatedMetrics(ids, dates) == EngagementTotal(ids, dates)

(* The daily series, grouped by the dates that have a row.                 *)
Grouped(ids, dates) ==
    [d \in UNION {RowDates(p, dates) : p \in ids} |->
       SumFunction([p \in {q \in ids : counts[q][d] # NoCount} |-> counts[p][d]])]
DailyEngagement(ids, dates) == Grouped(ids, dates)
DailyTraffic(ids, dates) == Grouped(ids, dates)
FollowerSeries(ids, dates) == Grouped(ids, dates)

(* getWorkspaceLatestFollowersTotal and getWorkspaceDemographics take the  *)
(* last row of each page; getWorkspaceEarliestFollowersTotal the first in  *)
(* a window.                                                               *)
LatestFollowers(ids) ==
    SumFunction([p \in {q \in ids : RowDates(q, BoardDates) # {}} |->
                   counts[p][Max(RowDates(p, BoardDates))]])
Demographics(ids) == {<<p, Max(RowDates(p, BoardDates))>> : p \in {q \in ids : RowDates(q, BoardDates) # {}}}
EarliestFollowers(ids, dates) ==
    SumFunction([p \in {q \in ids : RowDates(q, dates) # {}} |-> counts[p][Min(RowDates(p, dates))]])

(* getWorkspacePlatformBreakdown: of all pages, whether live or not.       *)
PlatformBreakdown(dates) ==
    [n \in {Network[p] : p \in {q \in Pages : RowDates(q, dates) # {}}} |->
       SumFunction([p \in {q \in Pages : Network[q] = n} |-> OfPage(p, dates)])]

(* buildMetric, the growth in percent.                                     *)
Growth(current, previous) ==
    IF previous > 0 THEN ((current - previous) * 100) \div previous
    ELSE IF current > 0 THEN 100 ELSE 0

(* intensityByMax: which fifth, roughly, of the highest.                   *)
Intensity(value, max) ==
    CASE value <= 0 -> 0
      [] value > 0 /\ max <= 0 -> 1
      [] value > 0 /\ max > 0 -> IF 4 * value < max THEN 1
                                 ELSE IF 2 * value < max THEN 2
                                 ELSE IF 10 * value < 8 * max THEN 3 ELSE 4

-----------------------------------------------------------------------------
(* getWorkspaceBestTimeToPost: pieces by their hour and by the engagement  *)
(* of their last snapshot.  formatHeatmap takes the first hour that no     *)
(* other exceeds; averages are rounded to hundredths.                      *)
MarkedOn(x, dates) == {d \in MarkDates \cap dates : marks[x][d] # NoCount}
LastMark(x) == IF MarkedOn(x, MarkDates) = {} THEN 0 ELSE marks[x][Max(MarkedOn(x, MarkDates))]
PublishedAt(h) == {x \in Pieces : hour[x] = h}
Average(h) ==
    IF PublishedAt(h) = {} THEN 0
    ELSE (200 * SumFunction([x \in PublishedAt(h) |-> LastMark(x)]) + Cardinality(PublishedAt(h))) \div (2 * Cardinality(PublishedAt(h)))
MaxAverage == Max({Average(h) : h \in Hours})
BestTime == Min({h \in Hours : Average(h) = MaxAverage})

(* getWorkspaceTopPostsPerPlatform: the snapshots of the window with the   *)
(* highest figures are fetched, equal ones in any order, and the first of  *)
(* each piece is listed until there are enough.                            *)
MarkOf(s) == marks[s[1]][s[2]]
SnapshotsOf(dates) == {s \in Pieces \X MarkDates : s[2] \in MarkedOn(s[1], dates)}
Highest(n, mark) ==
    {T \in SUBSET DOMAIN mark :
       /\ Cardinality(T) = Min({n, Cardinality(DOMAIN mark)})
       /\ \A s \in T, t \in DOMAIN mark \ T : mark[s] >= mark[t]}
Fetched(dates) == Highest(TopBuffer, [s \in SnapshotsOf(dates) |-> MarkOf(s)])
PieceOf(S) == {s[1] : s \in S}
BestIn(S, x) == Max({MarkOf(s) : s \in {t \in S : t[1] = x}})
Listings(fetched) == Highest(TopTake, [x \in PieceOf(fetched) |-> BestIn(fetched, x)])
TopPosts(dates) ==
    UNION {{[x \in listed |-> BestIn(fetched, x)] : listed \in Listings(fetched)}
             : fetched \in Fetched(dates)}

-----------------------------------------------------------------------------
Spans == {<<from, to>> : from, to \in BoardDates}

(* The period before ends on the eve of the period it is compared with and *)
(* is as long; a range given backwards has no days, and none before.  The  *)
(* windows of the home page are as long as each other, and count the day   *)
(* between them twice.                                                     *)
PeriodsAdjoin ==
    /\ \A s \in Spans :
          LET now == Period(s[1], s[2])
              before == PreviousOf(s[1], s[2])
          IN  /\ Cardinality(now) = Cardinality(before)
              /\ now = s[1] .. s[2]
              /\ now # {} => Max(before) = Min(now) - 1
    /\ \A now \in BoardDates :
          /\ \A n \in 1 .. LastDate : Cardinality(Lookback(now, n)) = n /\ now \in Lookback(now, n)
          /\ Pulse(now) \cap PulseBefore(now) = {now - 7}
          /\ Cardinality(Pulse(now)) = Cardinality(PulseBefore(now))

(* The charts add up to the totals beside them; the breakdown by network   *)
(* does unless a page that is paused or disconnected has rows.  When every *)
(* page has a row on the last day, the chart of the followers ends at the  *)
(* total, and the demographics are that day's.                             *)
ChartsAddUp ==
    \A s \in Spans :
        LET dates == s[1] .. s[2]
            chart == DailyEngagement(live, dates)
            split == PlatformBreakdown(dates)
            all == SumFunction(split)
        IN  /\ SumFunction(chart) = EngagementTotal(live, dates)
            /\ AggregatedMetrics(live, dates) <= all
            /\ (\A p \in Pages \ live : RowDates(p, dates) = {})
                  => AggregatedMetrics(live, dates) = all
            /\ live # {} /\ s[2] = LastDate /\ s[1] <= s[2]
                 /\ (\A p \in live : LastDate \in RowDates(p, dates))
                 => /\ FollowerSeries(live, dates)[LastDate] = LatestFollowers(live)
                    /\ \A r \in Demographics(live) : r[2] = LastDate
            /\ s[1] = s[2] /\ s[2] = LastDate
                 => EarliestFollowers(live, dates) <= LatestFollowers(live)

(* Growth has the sign of the change, or is not shown where it is below    *)
(* one percent; what did not exist before has grown by all of it.          *)
GrowthTrue ==
    \A s \in Spans :
        LET now == EngagementTotal(live, Period(s[1], s[2]))
            before == EngagementTotal(live, PreviousOf(s[1], s[2]))
        IN  /\ Growth(now, before) > 0 => now > before
            /\ Growth(now, before) < 0 => now < before
            /\ Growth(now, before) >= -100

(* The best hour has the highest average, the darkest colour and, unless   *)
(* no post has any engagement, a post.                                     *)
BestTimeTrue ==
    /\ \A h \in Hours : Average(h) <= Average(BestTime)
    /\ MaxAverage > 0 => /\ PublishedAt(BestTime) # {}
                         /\ Intensity(Average(BestTime), MaxAverage) = 4
                         /\ \E x \in PublishedAt(BestTime) : LastMark(x) > 0

(* A post that is listed is shown with its best figure of the window, and  *)
(* none that is not listed has done better.  Fewer are listed than asked   *)
(* for only when there are no more, or when the snapshots of those that    *)
(* are fill the buffer.                                                    *)
TopPostsTrue ==
    \A s \in Spans :
        LET dates == s[1] .. s[2]
            made == SnapshotsOf(dates)
        IN  \A top \in TopPosts(dates) :
              /\ \A x \in DOMAIN top : top[x] = BestIn(made, x)
              /\ \A x \in DOMAIN top, y \in PieceOf(made) \ DOMAIN top :
                    top[x] >= BestIn(made, y)
              /\ \/ Cardinality(DOMAIN top) >= Min({TopTake, Cardinality(PieceOf(made))})
                 \/ Cardinality({t \in made : t[1] \in DOMAIN top}) >= TopBuffer

DashboardsTrue == /\ PeriodsAdjoin
                  /\ board = "pages" => ChartsAddUp /\ GrowthTrue
                  /\ board = "posts" => BestTimeTrue /\ TopPostsTrue
==============================================================================
