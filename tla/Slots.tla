-------------------------------- MODULE Slots --------------------------------
(* How candidate slots are found (scheduling/slot_scorer.py): a pure       *)
(* function of the participants' zones, the dates, the duration and the    *)
(* owner's events.  One step computes it, so TLC compares it with what a   *)
(* reader expects over every input of the bounds.                          *)
(*                                                                         *)
(* Time is counted in units, PerHour of them an hour, from midnight UTC of *)
(* the first date; a zone is its offset from UTC in units, and dates are   *)
(* numbered from 0.  Daylight saving is left out.  Scores are the code's,  *)
(* multiplied by a positive number that makes them integers.               *)
EXTENDS Integers, Sequences, SequencesExt, FiniteSets, TLC

CONSTANTS
    PerHour,        \* units in an hour, an even number
    Groups,         \* the groups of participants tried: sequences of zones
    LastDay,        \* the last date of a range, the first being 0
    Weekend,        \* the dates that fall on a Saturday or a Sunday
    OwnerZone,      \* the owner's zone
    Durations,      \* lengths of a meeting, in units
    Calendars,      \* the owner's events: sequences, one entry for each date
    Step,           \* slot_step_minutes
    TopN            \* top_n

Day == 24 * PerHour

\* No offset from UTC reaches a day.
Zones == -Day .. Day

Events == [start : Int, end : Int, timed : BOOLEAN]

ASSUME UnitAssumption ==
    /\ Step \in Nat \ {0}
    /\ PerHour \in Nat \ {0} /\ PerHour % 2 = 0

ASSUME AskAssumption ==
    /\ Groups \subseteq Seq(Zones) \ {<<>>}
    /\ LastDay \in Nat
    /\ Durations \subseteq Nat \ {0}
    /\ \A c \in Calendars : c \in Seq(Seq(Events)) /\ Len(c) > LastDay
    /\ OwnerZone \in Zones
    /\ TopN \in Nat \ {0}

VARIABLES
    ask,            \* the arguments of the call
    answered,       \* it has returned
    offer           \* the slots it returned, best first

slotVars == <<ask, answered, offer>>

None == <<>>

Longer(a, b) == IF a > b THEN a ELSE b
Shorter(a, b) == IF a < b THEN a ELSE b

Hour(n) == n * PerHour
LocalTime(t, zone) == (t + zone) % Day
LocalDay(t, zone) == (t + zone) \div Day

Overlap(s1, e1, s2, e2) == s1 < e2 /\ e1 > s2

(***************************************************************************)
(* The window in which everybody is awake.                                 *)
(***************************************************************************)

\* The sleep of one participant around one date, as an interval of UTC.
Exclusion(zone, day) == <<day * Day + Hour(1) - zone, day * Day + Hour(6) - zone>>

\* (mutant) The night of the date itself only.
SameDay(day) == {day}

DaysAround(day) == {day - 1, day, day + 1}

Nights(group, day) == {Exclusion(group[i], d) : i \in DOMAIN group, d \in DaysAround(day)}

\* The exclusions that touch the date, clipped to it.
Exclusions(group, day) ==
    LET from == day * Day
        to   == from + Day
    IN  {<<Longer(x[1], from), Shorter(x[2], to)>> :
            x \in {x \in Nights(group, day) : x[1] < to /\ x[2] > from}}

\* The order of sort() on pairs; an interval that is listed twice merges
\* into itself, so a set of intervals is all that is merged.
Earlier(x, y) == x[1] < y[1] \/ (x[1] = y[1] /\ x[2] < y[2])
Latest(intervals) == CHOOSE x \in intervals : \A y \in intervals : y = x \/ Earlier(y, x)

\* (mutant) The end of the last one counts, be it the earlier end.
JoinedToLast(x, merged) ==
    LET n == Len(merged)
    IN  IF n > 0 /\ x[1] <= merged[n][2]
        THEN [merged EXCEPT ![n] = <<@[1], x[2]>>]
        ELSE Append(merged, x)

\* Intervals that touch or overlap the last one joined become one with it.
Joined(x, merged) ==
    LET n == Len(merged)
    IN  IF n > 0 /\ x[1] <= merged[n][2]
        THEN [merged EXCEPT ![n] = <<@[1], Longer(@[2], x[2])>>]
        ELSE Append(merged, x)

\* Intervals joined from the earliest to the latest.
Merge(intervals) == MapThenFoldSet(Joined, <<>>, LAMBDA x : x, Latest, intervals)

\* What is left of the date between the merged exclusions.
Gaps(merged, day) ==
    LET n == Len(merged)
        from(i) == IF i = 1 THEN day * Day ELSE merged[i - 1][2]
        to(i)   == IF i = n + 1 THEN (day + 1) * Day ELSE merged[i][1]
    IN  {w \in {<<from(i), to(i)>> : i \in 1 .. n + 1} : w[1] < w[2]}

Size(window) == window[2] - window[1]

\* max() returns the first of the longest.
FirstOfLongest(w, windows) ==
    \A v \in windows : Size(v) < Size(w) \/ (Size(v) = Size(w) /\ w[1] <= v[1])

\* The longest gap, if what is left of the date is enough.
LongestGap(gaps, duration) ==
    IF SumFunction([w \in gaps |-> Size(w)]) < duration \/ gaps = {} THEN None
    ELSE CHOOSE w \in gaps : FirstOfLongest(w, gaps)

OverlapWindow(group, day, duration) ==
    LongestGap(Gaps(Merge(Exclusions(group, day)), day), duration)

Asleep(t, zone) == LocalTime(t, zone) >= Hour(1) /\ LocalTime(t, zone) < Hour(6)

AnyBlocked(start, end, group) == \E t \in start .. end - 1, i \in DOMAIN group : Asleep(t, group[i])

\* The starts of the slots in a window: a grid from its beginning.
StartsIn(window, group, duration) ==
    IF window = None THEN {}
    ELSE {t \in window[1] .. window[2] - duration :
            (t - window[1]) % Step = 0 /\ ~AnyBlocked(t, t + duration, group)}

RawSlots(group, day, duration) == StartsIn(OverlapWindow(group, day, duration), group, duration)

(***************************************************************************)
(* The owner's events and the score.                                       *)
(***************************************************************************)

\* The timed events of a date as merged intervals.
IsTimed(event) == event.timed /\ event.start < event.end
Busy(events) == Merge({<<e.start, e.end>> : e \in {e \in ToSet(events) : IsTimed(e)}})

\* The first busy interval a slot runs into.
Conflict(start, end, busy) ==
    LET hits == {k \in DOMAIN busy : Overlap(start, end, busy[k][1], busy[k][2])}
    IN  IF hits = {} THEN None ELSE busy[Min(hits)]

\* Each score is in tenths.
Fairness(start, end, zone) ==
    LET mid == (start + end + 2 * zone) % (2 * Day)
    IN  CASE mid >= 2 * Hour(8) /\ mid <= 2 * Hour(19)  -> 10
          [] mid >= 2 * Hour(6) /\ mid < 2 * Hour(8)    -> 5
          [] mid > 2 * Hour(19) /\ mid <= 2 * Hour(22)  -> 4
          [] OTHER                                      -> 1

OwnerPreference(start) ==
    LET hour == LocalTime(start, OwnerZone) \div PerHour
    IN  CASE hour \in 9 .. 11  -> 10
          [] hour = 12         -> 2
          [] hour \in 13 .. 17 -> 7
          [] hour = 8          -> 6
          [] hour \in 18 .. 19 -> 4
          [] OTHER             -> 1

\* Half an hour clear before and after.
Buffer(start, end, busy) ==
    LET near == Hour(1) \div 2
        tightBefore == \E k \in DOMAIN busy : busy[k][2] <= start /\ start - busy[k][2] < near
        tightAfter  == \E k \in DOMAIN busy : busy[k][1] >= end /\ busy[k][1] - end < near
    IN  CASE tightBefore /\ tightAfter -> 2
          [] tightBefore # tightAfter  -> 5
          [] OTHER                     -> 10

\* "counted" is events_per_day: a date is there once the loop has come to it.
DayBalance(day, counted) ==
    LET n == IF day \in DOMAIN counted THEN counted[day] ELSE 0
    IN  CASE n = 0      -> 10
          [] n \in 1 .. 2 -> 8
          [] n \in 3 .. 4 -> 5
          [] OTHER      -> 2

\* The weighted sum, in units of 1 / (2000 * people * span).
Score(start, end, group, busy, counted, span) ==
    LET people == Len(group)
        day    == LocalDay(start, OwnerZone)
        fair   == SumFunction([i \in DOMAIN group |-> Fairness(start, end, group[i])])
        moved  == IF Conflict(start, end, busy) = None THEN 10 ELSE 5
        flat   == 25 * OwnerPreference(start) + 15 * Buffer(start, end, busy)
                  + 10 * DayBalance(day, counted) + 15 * moved
    IN  2 * span * (30 * fair + people * flat)
        + people * 5 * Longer(0, 20 * span - 10 * day)

(***************************************************************************)
(* find_candidate_slots.                                                   *)
(***************************************************************************)

\* The dates of a range that are not at a weekend.
Workdays(last) == (0 .. last) \ Weekend

\* events_per_day, once the loop has come to the date.
CountedBy(day, events) == [d \in Workdays(day) |-> Len(events[d + 1])]

SlotAt(day, start, group, last, duration, events) ==
    LET busy == Busy(events[day + 1])
        end  == start + duration
    IN  [day |-> day, start |-> start, end |-> end,
         move  |-> Conflict(start, end, busy),
         score |-> Score(start, end, group, busy, CountedBy(day, events), Longer(last, 1))]

\* The candidates of all dates.
SlotCandidates(group, last, duration, events) ==
    UNION {{SlotAt(day, start, group, last, duration, events) :
                start \in RawSlots(group, day, duration)} : day \in Workdays(last)}

\* The best first; the sort is stable, so what was generated earlier wins
\* a tie: dates are generated in order, and the slots of a date as well.
Better(x, y) ==
    \/ x.score > y.score
    \/ x.score = y.score /\ Earlier(<<x.day, x.start>>, <<y.day, y.start>>)
Worst(slots) == CHOOSE x \in slots : \A y \in slots : y = x \/ Better(y, x)

ClearOf(chosen, slot) ==
    \A k \in DOMAIN chosen : ~Overlap(slot.start, slot.end, chosen[k].start, chosen[k].end)

Keep(slot, chosen) == IF ClearOf(chosen, slot) THEN Append(chosen, slot) ELSE chosen

\* From the best to the worst, what is clear of all that was kept.
Kept(slots) == MapThenFoldSet(Keep, <<>>, LAMBDA x : x, Worst, slots)

Shortlist(slots) == SubSeq(Kept(slots), 1, Shorter(TopN, Len(Kept(slots))))

\* schedule_group_meeting passes no events; a caller of the function may.
FindCandidateSlots(a) == Shortlist(SlotCandidates(a.group, a.last, a.duration, a.calendar))

Asks == [group : Groups, last : 0 .. LastDay, duration : Durations, calendar : Calendars]

SlotsIdle ==
    /\ ask \in Asks
    /\ answered = FALSE /\ offer = <<>>

(* Nothing is asked.                                                       *)
NoSlots == ask = None /\ answered = FALSE /\ offer = <<>>

Propose ==
    /\ ~answered
    /\ answered' = TRUE
    /\ offer' = FindCandidateSlots(ask)
    /\ UNCHANGED ask

(* The inductive invariant of the proofs: what is offered is the answer to *)
(* what was asked.                                                         *)
SlotsInv ==
    /\ ask \in Asks /\ answered \in BOOLEAN
    /\ offer = IF answered THEN FindCandidateSlots(ask) ELSE <<>>

(***************************************************************************)
(* Properties.                                                             *)
(***************************************************************************)

TouchesNobody(t, group) == \A i \in DOMAIN group : ~Asleep(t, group[i])

\* The stretches of a date, as long as they can be, in which nobody sleeps.
AwakeStretches(group, day) ==
    LET from == day * Day
        to   == from + Day
        awake == {t \in from .. to - 1 : TouchesNobody(t, group)}
    IN  {w \in awake \X (from + 1 .. to) :
            /\ w[1] < w[2] /\ \A t \in w[1] .. w[2] - 1 : t \in awake
            /\ w[1] - 1 \notin awake /\ w[2] \notin awake}

\* The slots of a date start on the grid in the longest stretch of it in
\* which nobody sleeps, the stretch found hour by hour and not by merging
\* the nights of three local dates: no zone's night is forgotten because it
\* belongs to yesterday or tomorrow there, and no hour is lost.
LongestWindow ==
    answered => \A day \in 0 .. ask.last :
        LET stretches == AwakeStretches(ask.group, day)
            slots     == RawSlots(ask.group, day, ask.duration)
        IN  IF stretches = {} THEN slots = {}
            ELSE \E w \in stretches :
                    /\ FirstOfLongest(w, stretches)
                    /\ slots = {t \in w[1] .. w[2] - ask.duration : (t - w[1]) % Step = 0}

\* A slot asks for a move exactly when it runs into a timed event the
\* caller listed for its date, however these overlap or contain each other.
RightlyMarked(slot) ==
    LET events == ask.calendar[slot.day + 1]
    IN  slot.move # None <=>
            \E i \in DOMAIN events :
                IsTimed(events[i]) /\ Overlap(slot.start, slot.end, events[i].start, events[i].end)

\* What is offered is a best choice, best first: no two slots overlap, a
\* candidate left out either overlaps one offered that scores at least as
\* high or scores no higher than any of a full list, and a slot says when
\* it needs an event to move.
OfferIsBest ==
    answered =>
        /\ Len(offer) <= TopN
        /\ \A i, j \in DOMAIN offer : i < j =>
                /\ offer[i].score >= offer[j].score
                /\ ~Overlap(offer[i].start, offer[i].end, offer[j].start, offer[j].end)
        /\ \A c \in SlotCandidates(ask.group, ask.last, ask.duration, ask.calendar) \ ToSet(offer) :
                \/ \E k \in DOMAIN offer : offer[k].score >= c.score
                        /\ Overlap(c.start, c.end, offer[k].start, offer[k].end)
                \/ Len(offer) = TopN /\ \A k \in DOMAIN offer : offer[k].score >= c.score
        /\ \A k \in DOMAIN offer : RightlyMarked(offer[k])

=============================================================================
