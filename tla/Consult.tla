-------------------------------- MODULE Consult --------------------------------
(***************************************************************************)
(* The consult server: calls of other programs, each checked, admitted by  *)
(* an hourly limiter, given memories if there are any, answered by one     *)
(* model call, and counted in the metrics of the day.  Calls may overlap;  *)
(* limiter and metrics are locked.                                         *)
(***************************************************************************)
EXTENDS Integers, FiniteSets

CONSTANTS
    Callers,        \* calls that may be open at once
    Limit,          \* CONSULT_RATE_LIMIT_PER_HOUR
    Window,         \* window_seconds
    MaxTime,        \* (bound) the clock
    MaxCalls,       \* (bound) calls one process admits
    ConsultFaults   \* "claude", "bug", "restart"

ASSUME LimitAssumption == Limit \in Nat \ {0} /\ Window \in Nat \ {0}
ASSUME BoundAssumption == MaxTime \in Nat /\ MaxCalls \in Nat

VARIABLES
    now,         \* the clock
    count,       \* of the limiter
    windowStart, \* of the limiter
    call,        \* call[c]: where the open call of c is, or the last result
    callsToday,  \* of the metrics
    countedDay,  \* _date_str of the metrics is today
    admitted,    \* (ghost) calls the process admitted
    at,          \* (ghost) at[i]: when the i-th was admitted
    since,       \* (ghost) since[i]: the start of the window it was admitted in
    refused      \* (ghost) the last decision of the limiter was a refusal

limiter == <<count, windowStart>>
metrics == <<callsToday, countedDay>>
ghosts == <<admitted, at, since, refused>>
consultVars == <<now, limiter, call, metrics, ghosts>>
ConsultFault(f) == f \in ConsultFaults

Open == {"asked", "admitted", "answered"}
Results == {"none", "invalid_mode", "prompt_too_long", "rate_limited", "claude_error", "response",
            "crashed"}

ConsultIdle ==
    /\ now = 0 /\ count = 0 /\ windowStart = 0
    /\ call = [c \in Callers |-> "none"]
    /\ callsToday = 0 /\ countedDay = FALSE
    /\ admitted = 0 /\ at = [i \in 1..MaxCalls |-> 0] /\ since = [i \in 1..MaxCalls |-> 0]
    /\ refused = FALSE

Becomes(c, state) == call' = [call EXCEPT ![c] = state]

-----------------------------------------------------------------------------
(* A bad mode or a prompt that is too long is turned down before anything  *)
(* else happens.                                                           *)
Request(c) ==
    /\ call[c] \in Results
    /\ \E state \in {"invalid_mode", "prompt_too_long", "asked"} : Becomes(c, state)
    /\ UNCHANGED <<now, limiter, metrics, ghosts>>

(* (mutant) A new window keeps the old count.                              *)
CountKept == count

(* The limiter as it stands when it is asked.                              *)
Elapsed == now - windowStart >= Window
CountNow == IF Elapsed THEN 0 ELSE count
StartNow == IF Elapsed THEN now ELSE windowStart

(* (mutant) One call too many.                                             *)
LooseHasRoom == CountNow <= Limit

HasRoom == CountNow < Limit

(* allow(): a window starts with the first call after the last one's end,  *)
(* whether it is let in or not.                                            *)
Admit(c) ==
    /\ call[c] = "asked" /\ HasRoom /\ admitted < MaxCalls
    /\ windowStart' = StartNow /\ count' = CountNow + 1
    /\ Becomes(c, "admitted")
    /\ admitted' = admitted + 1
    /\ at' = [at EXCEPT ![admitted'] = now] /\ since' = [since EXCEPT ![admitted'] = StartNow]
    /\ refused' = FALSE
    /\ UNCHANGED <<now, metrics>>

Refuse(c) ==
    /\ call[c] = "asked" /\ ~HasRoom
    /\ windowStart' = StartNow /\ count' = CountNow
    /\ Becomes(c, "rate_limited") /\ refused' = TRUE
    /\ UNCHANGED <<now, metrics, admitted, at, since>>

(* Memories are looked up and may fail to be found; the model answers, or  *)
(* its error becomes the result, with the slot spent.  The cost is         *)
(* recorded if the day's cap allows, and the answer returned either way.   *)
Ask(c) ==
    /\ call[c] = "admitted"
    /\ \/ Becomes(c, "answered")
       \/ ConsultFault("claude") /\ Becomes(c, "claude_error")
       \/ ConsultFault("bug") /\ Becomes(c, "crashed")
    /\ UNCHANGED <<now, limiter, metrics, ghosts>>

CallsSoFar == IF countedDay THEN callsToday ELSE 0

(* metrics.record, and the response                                        *)
Record(c) ==
    /\ call[c] = "answered" /\ Becomes(c, "response")
    /\ callsToday' = CallsSoFar + 1 /\ countedDay' = TRUE
    /\ UNCHANGED <<now, limiter, ghosts>>

ConsultTick ==
    /\ now < MaxTime /\ now' = now + 1 /\ refused' = FALSE
    /\ UNCHANGED <<limiter, call, metrics, admitted, at, since>>

Midnight ==
    /\ countedDay' = FALSE
    /\ UNCHANGED <<now, limiter, call, callsToday, ghosts>>

(* A new process starts with a new window and new metrics.                 *)
ConsultRestart ==
    /\ ConsultFault("restart")
    /\ count' = 0 /\ windowStart' = now
    /\ call' = [c \in Callers |-> IF call[c] \in Open THEN "crashed" ELSE call[c]]
    /\ callsToday' = 0 /\ countedDay' = FALSE
    /\ admitted' = 0 /\ refused' = FALSE
    /\ at' = [i \in 1..MaxCalls |-> 0] /\ since' = [i \in 1..MaxCalls |-> 0]
    /\ UNCHANGED now

ConsultNext ==
    \/ \E c \in Callers : Request(c) \/ Admit(c) \/ Refuse(c) \/ Ask(c) \/ Record(c)
    \/ ConsultTick \/ Midnight \/ ConsultRestart

ConsultSpec == ConsultIdle /\ [][ConsultNext]_consultVars

-----------------------------------------------------------------------------
ConsultTypeOK ==
    /\ now \in Nat /\ windowStart \in 0..now /\ count \in 0..Limit
    /\ call \in [Callers -> Open \union Results]
    /\ callsToday \in Nat /\ countedDay \in BOOLEAN
    /\ admitted \in 0..MaxCalls /\ refused \in BOOLEAN
    /\ at \in [1..MaxCalls -> Nat] /\ since \in [1..MaxCalls -> Nat]

(* A window that restarts at a call rather than slides lets more than      *)
(* Limit calls through in a window's time, but never more than twice that. *)
TwiceTheLimit ==
    \A i \in 1..admitted : i + 2 * Limit <= admitted => at[i + 2 * Limit] - at[i] > Window

(* A call is refused only if as many as the limit were let in less than a  *)
(* window ago.                                                             *)
RefusalIsEarned ==
    refused => admitted >= Limit /\ now - at[admitted - Limit + 1] < Window

-----------------------------------------------------------------------------
(* What makes the bounds inductive: calls before the last count were let   *)
(* in by windows that ended before this one started, and no window holds   *)
(* more calls than the limit.                                              *)
WindowInv ==
    /\ count <= admitted
    /\ \A i \in 1..admitted :
        /\ since[i] <= at[i] /\ at[i] < since[i] + Window /\ at[i] <= now
        /\ since[i] <= windowStart
        /\ i <= admitted - count => since[i] + Window <= windowStart
        /\ i > admitted - count => since[i] = windowStart
        /\ i + Limit <= admitted => since[i] + Window <= since[i + Limit]

LimiterInv == ConsultTypeOK /\ WindowInv /\ RefusalIsEarned
==============================================================================
