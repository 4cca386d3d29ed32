------------------------ MODULE SchedulingLifecycle ------------------------
(***************************************************************************)
(* What group scheduling promises its owner, without outreach, jobs or     *)
(* threads: the status graph a request may walk (the edges of             *)
(* `_TRANSITIONS` in scheduling/coordinator.py that the program uses), and *)
(* the two facts that give a status its meaning.  A request is converged   *)
(* only once some offered slot is agreed by everybody, and a calendar      *)
(* event is made at most once, for a booked request.  Module Scheduling    *)
(* implements this specification.                                          *)
(***************************************************************************)
EXTENDS Sequences

CONSTANTS Requests,     \* scheduling requests
          Slots         \* candidate times of a request

VARIABLES phase,        \* phase[r]: status of request r, "none" before it exists
          agreed,       \* agreed[r]: offered slots every participant accepts
          event         \* event[r]: slots of the calendar events made, in order

vars == <<phase, agreed, event>>

\* The edges the program takes.  Nothing leads out of booked or cancelled,
\* and backchannel and expired are never entered.
Edge == {<<"none", "proposing">>,
         <<"proposing", "owner_review">>, <<"proposing", "cancelled">>,
         <<"owner_review", "polling">>, <<"owner_review", "proposing">>,
         <<"owner_review", "cancelled">>,
         <<"polling", "converged">>, <<"polling", "owner_review">>,
         <<"polling", "cancelled">>,
         <<"converged", "booked">>, <<"converged", "cancelled">>}

Phases == {"none", "proposing", "owner_review", "polling", "converged", "booked",
           "cancelled"}

TypeOK == /\ phase \in [Requests -> Phases]
          /\ agreed \in [Requests -> SUBSET Slots]
          /\ event \in [Requests -> Seq(Slots)]

Init == /\ phase = [r \in Requests |-> "none"]
        /\ agreed = [r \in Requests |-> {}]
        /\ event = [r \in Requests |-> <<>>]

\* A request moves along one edge; it converges only on an agreed slot.
Advance(r, to) ==
    /\ <<phase[r], to>> \in Edge
    /\ to = "converged" => agreed[r] # {}
    /\ phase' = [phase EXCEPT ![r] = to]
    /\ UNCHANGED <<agreed, event>>

\* Votes come in; an acceptance is never withdrawn.
Agree(r, S) ==
    /\ agreed[r] \subseteq S
    /\ agreed' = [agreed EXCEPT ![r] = S]
    /\ UNCHANGED <<phase, event>>

\* The one calendar event of a booked request.
MakeEvent(r, s) ==
    /\ phase[r] = "booked"
    /\ event[r] = <<>>
    /\ event' = [event EXCEPT ![r] = <<s>>]
    /\ UNCHANGED <<phase, agreed>>

Next == \E r \in Requests :
            \/ \E to \in Phases : Advance(r, to)
            \/ \E S \in SUBSET Slots : Agree(r, S)
            \/ \E s \in Slots : MakeEvent(r, s)

Spec == Init /\ [][Next]_vars
=============================================================================
