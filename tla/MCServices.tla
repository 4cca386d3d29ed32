------------------------------ MODULE MCServices ------------------------------
(***************************************************************************)
(* Zones, groups and calendars for the slot finder; the other services     *)
(* take their values in the configuration.                                 *)
(***************************************************************************)
EXTENDS AllServices

(* One person, or two, the one further west first, from five zones.        *)
SomeZones == {-22, -20, 0, 11, 16}
SomeGroups == [1 .. 1 -> SomeZones] \union {g \in [1 .. 2 -> SomeZones] : g[1] <= g[2]}

(* An empty calendar, and one with an event inside another, events that    *)
(* touch and one of the whole day.                                         *)
Timed(from, to) == [start |-> from, end |-> to, timed |-> TRUE]
WholeDay == [start |-> 0, end |-> 48, timed |-> FALSE]
SomeCalendars ==
    {<<<<>>, <<>>, <<>>>>,
     <<<<Timed(24, 34), Timed(26, 28), WholeDay>>,
       <<Timed(50, 52), Timed(66, 68), Timed(68, 71), Timed(78, 80)>>,
       <<>>>>}
===============================================================================
