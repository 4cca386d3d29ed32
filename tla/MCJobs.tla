------------------------------- MODULE MCJobs --------------------------------
(***************************************************************************)
(* One job that fires at eight in the morning from Monday to Friday, in    *)
(* ticks of a day, beside the watchdog, which checks in every tick.        *)
(***************************************************************************)
EXTENDS Jobs, TLC

Weekdays == [j \in Jobs |-> <<1, 1, 1, 1, 3>>]
NoOwnZone == [j \in Jobs |-> None]
=============================================================================
