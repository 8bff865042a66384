----------------------------- MODULE SlotSearch -----------------------------
(***************************************************************************)
(* The search of the queue for free slots, as a pure computation: given    *)
(* the slots of a workspace and the dates its posts hold, the next free    *)
(* candidate, the plan for some posts, and the slots offered to a bulk     *)
(* request.  Time is counted in ticks, DayLength to the day; a slot falls  *)
(* due on one weekday of a week of WeekLength, at one tick of the day.     *)
(*                                                                         *)
(* A Slot has a capacity by its type, but getActiveSlots does not select   *)
(* the column, which does not exist: the slots the server searches have    *)
(* none, and no number is smaller than undefined.                          *)
(***************************************************************************)
EXTENDS Integers, Sequences, FiniteSets, FiniteSetsExt, SequencesExt

CONSTANTS WeekLength, DayLength,
          Capacities,   \* what a slot may hold as its capacity
          Undefined,    \* no capacity
          Booked, PostDates,    \* the posts that hold a date, and which
          PostCounts, Spacings, \* how many posts to plan, and how far apart
          MaxAsked,     \* bound on the slots of a workspace
          MaxDays       \* bound on the days searched

ASSUME SlotSearchAssumption ==
    /\ WeekLength \in Nat \ {0} /\ DayLength \in Nat \ {0}
    /\ Capacities \subseteq Nat \cup {Undefined} /\ Undefined \notin Nat
    /\ IsFiniteSet(Booked) /\ PostDates \subseteq Nat
    /\ PostCounts \subseteq Nat /\ Spacings \subseteq Nat
    /\ MaxAsked \in Nat /\ MaxDays \in Nat

VARIABLES ask,   \* what is asked: slots, dates held, from, days, count, spacing
          found  \* what the two searches answer; before they do, nothing

searchVars == <<ask, found>>

Ticks == 0 .. (MaxDays + 2) * DayLength
None == -1

DayOf(t) == t \div DayLength
Weekday(d) == (d % WeekLength) + 1
At(d, slot) == d * DayLength + slot.time

(* used < slot.capacity                                                    *)
Below(used, slot) == slot.capacity # Undefined /\ used < slot.capacity

(* getTakenMap: how many posts are scheduled at each tick of the window.   *)
TakenMap(dates, from, end) ==
    [t \in Ticks |-> IF t >= from /\ t < end
                       THEN Quantify(DOMAIN dates, LAMBDA p : dates[p] = t)
                       ELSE 0]

(* Variant for the mutation runs: a full slot has room for one more.       *)
HitsLate(d, from, slots, taken) ==
    {c \in {At(d, s) : s \in {x \in slots : /\ x.dayOfWeek = Weekday(d)
                                            /\ x.capacity # Undefined
                                            /\ taken[At(d, x)] <= x.capacity}} :
        c > from}

(* The free candidates of day `d' after `from', and the first of them.     *)
Hits(d, from, slots, taken) ==
    {c \in {At(d, s) : s \in {x \in slots : /\ x.dayOfWeek = Weekday(d)
                                            /\ Below(taken[At(d, x)], x)}} :
        c > from}

(* findNextFreeCandidate: day by day; a day that begins before the end of  *)
(* the window is searched to its own end.                                  *)
NextFree(from, end, slots, taken) ==
    LET after[d \in DayOf(from) .. DayOf(end) + 1] ==
          IF d * DayLength >= end THEN None
          ELSE IF Hits(d, from, slots, taken) # {}
                 THEN Min(Hits(d, from, slots, taken))
          ELSE after[d + 1]
    IN  IF from >= end THEN None ELSE after[DayOf(from)]

(* planScheduleForPosts: each post takes the next free candidate after the *)
(* one before it, `spacing' later.                                         *)
Plan(a) ==
    LET end == a.from + a.days * DayLength
        step(p, i) ==
          LET c == NextFree(p.cursor, end, a.slots, p.taken)
          IN  IF c = None THEN p
              ELSE [dates  |-> Append(p.dates, c),
                    taken  |-> [p.taken EXCEPT ![c] = @ + 1],
                    cursor |-> c + a.spacing]
    IN  FoldLeft(step, [dates |-> <<>>, cursor |-> a.from,
                        taken |-> TakenMap(a.dates, a.from, end)],
                 [i \in 1 .. a.count |-> i]).dates

(* getNextAvailableSlots: one pass over the slots of each day, which a     *)
(* candidate uses up like a post. Of two visits at one tick `last' picks   *)
(* one: the code goes through them in the order the rows came in.          *)
Offer(a) ==
    LET end == a.from + a.days * DayLength
        days == {d \in DayOf(a.from) .. DayOf(end) :
                   (IF d = DayOf(a.from) THEN a.from ELSE d * DayLength) < end}
        visits == {v \in days \X a.slots : v[2].dayOfWeek = Weekday(v[1])}
        last(vs) == CHOOSE v \in vs : \A w \in vs : At(w[1], w[2]) <= At(v[1], v[2])
        step(v, p) ==
          LET c == At(v[1], v[2])
          IN  IF Len(p.dates) < a.count /\ c > a.from /\ Below(p.taken[c], v[2])
                THEN [dates |-> Append(p.dates, c), taken |-> [p.taken EXCEPT ![c] = @ + 1]]
                ELSE p
    IN  MapThenFoldSet(step, [dates |-> <<>>, taken |-> TakenMap(a.dates, a.from, end)],
                       LAMBDA v : v, last, visits).dates

-----------------------------------------------------------------------------
Slot == [dayOfWeek : 1 .. WeekLength, time : 0 .. DayLength - 1, capacity : Capacities]

Asks == [slots   : {s \in SUBSET Slot : IsFiniteSet(s) /\ Cardinality(s) \in 1 .. MaxAsked},
         dates   : [Booked -> PostDates],
         from    : 0 .. DayLength - 1,
         days    : 1 .. MaxDays,
         count   : PostCounts,
         spacing : Spacings]

Nothing == [plan |-> <<>>, offer |-> <<>>]

SearchInit == ask \in Asks /\ found = Nothing

Search == /\ found = Nothing
          /\ found' = [plan |-> Plan(ask), offer |-> Offer(ask)]
          /\ UNCHANGED ask

SearchSpec == SearchInit /\ [][Search]_searchVars

SearchTypeOK == /\ ask \in Asks
                /\ \A k \in {"plan", "offer"} : found[k] \in Seq(Ticks)

-----------------------------------------------------------------------------
(* Written against absolute time instead of days and loops: the ticks of   *)
(* the window at which some slot is due, and whether one has room beside   *)
(* the posts that are there and those planned before.                      *)
End(a) == a.from + a.days * DayLength
Due(a, t) == {s \in a.slots : t % DayLength = s.time /\ Weekday(DayOf(t)) = s.dayOfWeek}
Held(a, t) == Quantify(DOMAIN a.dates, LAMBDA p : a.dates[p] = t)
Room(a, t) == \E s \in Due(a, t) : s.capacity # Undefined /\ Held(a, t) < s.capacity

(* planScheduleForPosts gives no slot more posts than it holds, keeps the  *)
(* posts further apart than the spacing asked for, and skips no free slot: *)
(* what lies free between two dates of the plan lies within the spacing.   *)
(* The window's last day is searched beyond the window's end, where the    *)
(* posts that are there are not counted: the claims are for the window.    *)
PlanSound ==
    LET p == found.plan
        cursor(i) == IF i = 1 THEN ask.from ELSE p[i - 1] + ask.spacing
        window == ask.from + 1 .. End(ask) - 1
    IN  found # Nothing =>
          /\ \A i \in DOMAIN p : p[i] > cursor(i) /\ (p[i] \in window => Room(ask, p[i]))
          /\ \A i \in DOMAIN p, t \in window :
                t > cursor(i) /\ t < p[i] => ~Room(ask, t)
          /\ Len(p) < ask.count =>
                \A t \in window : t > cursor(Len(p) + 1) => ~Room(ask, t)

(* getNextAvailableSlots, the same for the slots a bulk request is given;  *)
(* as many at one time as the slots due then hold beside what is there.    *)
OfferSound ==
    LET o == found.offer
        window == ask.from + 1 .. End(ask) - 1
        given(t) == Quantify(DOMAIN o, LAMBDA i : o[i] = t)
    IN  found # Nothing =>
          /\ \A i \in DOMAIN o : o[i] > ask.from /\ (i > 1 => o[i - 1] <= o[i])
          /\ \A t \in window : given(t) > 0 =>
                \E s \in Due(ask, t) : Below(Held(ask, t) + given(t) - 1, s)
          /\ Len(o) < ask.count => \A t \in window : Room(ask, t) => given(t) > 0

SearchSound == PlanSound /\ OfferSound
==============================================================================
