----------------------------- MODULE Scheduling -----------------------------
(***************************************************************************)
(* Group scheduling: the status machine (scheduling/coordinator.py), its   *)
(* rows (scheduling/db.py), outreach (scheduling/outreach.py), the button  *)
(* callback (bot/scheduling_callbacks.py) and the polling job              *)
(* (jobs/scheduling_poll_check.py).                                        *)
(*                                                                         *)
(* Two threads share the rows: the thread that runs an owner decision, on  *)
(* which button callbacks are served between decisions, and the polling    *)
(* job, of which the scheduler runs one instance.  Every SQL statement     *)
(* that commits is one step; what a thread has read and not yet used is in *)
(* its own variables, and a crash loses those and nothing else.            *)
(***************************************************************************)
EXTENDS Integers, FiniteSets, Sequences

CONSTANTS
    Requests,       \* request ids the tool may create
    Participants,   \* participant rows of a request
    Slots,          \* candidate slots, 1 the best stored score
    Telegram,       \* the participants whose channel is "telegram"
    Wirings,        \* the sets of adapters a deployment may have
    NudgeAge, ExpireAge, SafetyCap,        \* the windows, in clock ticks
    Faults,         \* the kinds of fault that may happen
    MaxFaults       \* bound on how many do

ASSUME ParticipantsAssumption == Participants # {} /\ Telegram \subseteq Participants
ASSUME SlotsAssumption == Slots \subseteq Nat \ {0}
ASSUME WiringAssumption == Wirings \subseteq SUBSET {"bot", "gmail", "calendar"}
ASSUME WindowsAssumption ==
    /\ {NudgeAge, ExpireAge, SafetyCap} \subseteq Nat \ {0}
    /\ NudgeAge < ExpireAge /\ ExpireAge < SafetyCap
ASSUME FaultsAssumption ==
    /\ Faults \subseteq {"crash", "send", "calendar", "notify", "check"}
    /\ MaxFaults \in Nat

VARIABLES
    \* the rows
    status,         \* scheduling_requests.status, "none" before the row exists
    offered,        \* the scheduling_slots rows of a request
    pstatus,        \* scheduling_participants.status
    age,            \* ticks since outreach_sent_at, NeverSent when it is NULL
    thread,         \* is gmail_thread_id set?
    votes,          \* scheduling_responses, "unset" where there is no row
    eventId,        \* is booked_event_id set?
    \* the world outside
    wired,          \* the adapters in the context
    keyboards,      \* has the participant received the poll's buttons?
    calendar,       \* the events made for a request, by slot
    told,           \* the slot announced to the owner, 0 when none was
    dropped,        \* ghost: whom a failed send or a restart left out of the
                    \* request's last outreach
    \* the thread that runs a decision of the owner
    ownerPc, ownerReq, ownerAct, ownerSaw, ownerSlot, ownerAdd, ownerLeft,
    \* the polling job
    pollPc, pollTodo, pollReq, pollLeft, pollWho, pollReply, pollFound,
    pollSeen, pollExpired, pollWaiting,
    faults          \* faults so far

rows == <<status, offered, pstatus, age, thread, votes, eventId>>
world == <<wired, keyboards, calendar, told, dropped>>
ownerVars == <<ownerPc, ownerReq, ownerAct, ownerSaw, ownerSlot, ownerAdd, ownerLeft>>
pollVars == <<pollPc, pollTodo, pollReq, pollLeft, pollWho, pollReply, pollFound,
              pollSeen, pollExpired, pollWaiting>>
vars == <<rows, world, ownerVars, pollVars, faults>>

-----------------------------------------------------------------------------
(* Rows. *)

Statuses == {"proposing", "owner_review", "polling", "backchannel", "converged",
             "booked", "cancelled", "expired"}
PStatuses == {"pending", "sent", "responded", "nudged", "no_response"}
Verdicts == {"yes", "if_needed", "no"}
Accepting == {"yes", "if_needed"}
NeverSent == -1
NoSlot == 0
NoReq == "no request"
NoWho == "nobody"
NoReply == [s \in Slots |-> "unset"]

\* `_TRANSITIONS`: the legal edges.
Transitions ==
         ({"proposing"} \X {"owner_review", "backchannel", "cancelled"})
    \cup ({"owner_review"} \X {"polling", "proposing", "cancelled"})
    \cup ({"polling"} \X {"converged", "owner_review", "expired", "cancelled"})
    \cup ({"backchannel"} \X {"proposing", "owner_review", "cancelled"})
    \cup ({"converged"} \X {"booked", "cancelled"})

\* What a plain UPDATE in place of the guarded one would check: nothing.
UnguardedTransition(r, from, to) == <<from, to>> \in Transitions

\* `transition` succeeds: a legal edge, and the row still has the status the
\* caller saw (the guarded UPDATE).
MayTransition(r, from, to) == <<from, to>> \in Transitions /\ status[r] = from

Accepts(r, p, s) == votes[r][p][s] \in Accepting
Responders(r) == {p \in Participants : \E s \in Slots : votes[r][p][s] # "unset"}

\* The slots at most one participant does not accept.
AgreedByMost(r) == {s \in offered[r] :
    Cardinality({p \in Participants : ~Accepts(r, p, s)}) <= 1}

\* The slots everybody accepts: `_find_qualifying_slots`.
Agreed(r) == {s \in offered[r] : \A p \in Participants : Accepts(r, p, s)}

\* The best stored score of a set of slots.
Best(S) == {s \in S : \A t \in S : s <= t}

\* A consensus test that would let one missing vote pass.
ConsensusByMost(r) == IF AgreedByMost(r) = {} THEN {NoSlot} ELSE AgreedByMost(r)

\* `find_consensus`: the best stored score, or, with a calendar, whichever the
\* fresh busy intervals favour.
Consensus(r) == IF Agreed(r) = {} THEN {NoSlot}
                ELSE IF "calendar" \in wired THEN Agreed(r) ELSE Best(Agreed(r))

\* One vote, and the flip of a contacted participant to responded: one commit.
RecordResponse(r, p, s, verdict) ==
    /\ votes' = [votes EXCEPT ![r][p][s] = verdict]
    /\ pstatus' = [pstatus EXCEPT ![r][p] =
                     IF @ \in {"sent", "nudged"} THEN "responded" ELSE @]

Fault(kind) == kind \in Faults /\ faults < MaxFaults /\ faults' = faults + 1
-----------------------------------------------------------------------------
(* The owner's decisions (tools/scheduling_tool.py), one at a time. *)

OwnerIdle ==
    /\ ownerPc' = "idle" /\ ownerReq' = NoReq /\ ownerAct' = "none"
    /\ ownerSaw' = "none" /\ ownerSlot' = NoSlot /\ ownerAdd' = {} /\ ownerLeft' = {}

\* `create_request`: the request and its participants in one commit.
OwnerSchedule(r) ==
    /\ ownerPc = "idle" /\ status[r] = "none"
    /\ status' = [status EXCEPT ![r] = "proposing"]
    /\ ownerPc' = "score" /\ ownerReq' = r
    /\ UNCHANGED <<offered, pstatus, age, thread, votes, eventId, world, ownerAct,
                   ownerSaw, ownerSlot, ownerAdd, ownerLeft, pollVars, faults>>

\* `find_candidate_slots` finds S; with no slot the request is cancelled.
OwnerScore(S) ==
    /\ ownerPc = "score"
    /\ IF S = {}
       THEN /\ MayTransition(ownerReq, "proposing", "cancelled")
            /\ status' = [status EXCEPT ![ownerReq] = "cancelled"]
            /\ OwnerIdle
       ELSE /\ ownerPc' = "add" /\ ownerAdd' = S
            /\ UNCHANGED <<status, ownerReq, ownerAct, ownerSaw, ownerSlot, ownerLeft>>
    /\ UNCHANGED <<offered, pstatus, age, thread, votes, eventId, world, pollVars, faults>>

\* `add_slot`, a commit per slot, best score first; then up for review.
OwnerAddSlot ==
    /\ ownerPc = "add" /\ ownerAdd # {}
    /\ \E s \in Best(ownerAdd) :
          /\ offered' = [offered EXCEPT ![ownerReq] = @ \cup {s}]
          /\ ownerAdd' = ownerAdd \ {s}
    /\ UNCHANGED <<status, pstatus, age, thread, votes, eventId, world, ownerPc, ownerReq,
                   ownerAct, ownerSaw, ownerSlot, ownerLeft, pollVars, faults>>

OwnerSurface ==
    /\ ownerPc = "add" /\ ownerAdd = {}
    /\ MayTransition(ownerReq, "proposing", "owner_review")
    /\ status' = [status EXCEPT ![ownerReq] = "owner_review"]
    /\ OwnerIdle
    /\ UNCHANGED <<offered, pstatus, age, thread, votes, eventId, world, pollVars, faults>>

\* The statuses a decision is accepted in, and where it leads.
Decisions == {"approve", "reject", "cancel", "book", "rework"}
Terminal == {"booked", "cancelled", "expired"}

Required(act) == CASE act \in {"approve", "reject"} -> {"owner_review"}
                   [] act = "cancel" -> Statuses \ Terminal
                   [] act = "book" -> {"converged"}
                   [] act = "rework" -> {"polling"}

Target(act) == CASE act = "approve" -> "polling"
                 [] act = "reject" -> "proposing"
                 [] act = "cancel" -> "cancelled"
                 [] act = "book" -> "booked"
                 [] act = "rework" -> "owner_review"

\* `record_decision` reads the row; s is the slot named in a booking, if any.
OwnerRead(r, act, s) ==
    /\ ownerPc = "idle" /\ status[r] \in Required(act)
    /\ s # NoSlot => act = "book"
    /\ ownerPc' = "decide" /\ ownerReq' = r /\ ownerAct' = act
    /\ ownerSaw' = status[r] /\ ownerSlot' = s
    /\ UNCHANGED <<rows, world, ownerAdd, ownerLeft, pollVars, faults>>

\* The transition is committed before outreach or the calendar are touched; an
\* approval begins a new outreach to everybody.
OwnerDecide ==
    /\ ownerPc = "decide"
    /\ MayTransition(ownerReq, ownerSaw, Target(ownerAct))
    /\ status' = [status EXCEPT ![ownerReq] = Target(ownerAct)]
    /\ \/ /\ ownerAct = "approve"
          /\ ownerPc' = "outreach" /\ ownerLeft' = Participants
          /\ UNCHANGED <<ownerReq, ownerAct, ownerSaw, ownerSlot, ownerAdd>>
       \/ /\ ownerAct = "book" /\ "calendar" \in wired
          /\ ownerPc' = "event"
          /\ UNCHANGED <<ownerReq, ownerAct, ownerSaw, ownerSlot, ownerAdd, ownerLeft>>
       \/ /\ ~(ownerAct = "approve" \/ (ownerAct = "book" /\ "calendar" \in wired))
          /\ OwnerIdle
    /\ dropped' = [dropped EXCEPT ![ownerReq] = IF ownerAct = "approve" THEN {} ELSE @]
    /\ UNCHANGED <<offered, pstatus, age, thread, votes, eventId, wired, keyboards, calendar,
                   told, pollVars, faults>>

\* The polling job moved the request first: InvalidTransition, "Decision failed".
OwnerLosesRace ==
    /\ ownerPc = "decide"
    /\ ~MayTransition(ownerReq, ownerSaw, Target(ownerAct))
    /\ OwnerIdle
    /\ UNCHANGED <<rows, world, pollVars, faults>>

-----------------------------------------------------------------------------
(* Outreach (scheduling/outreach.py), participant by participant. *)

Wired(p) == (IF p \in Telegram THEN "bot" ELSE "gmail") \in wired

Reach(p) ==
    /\ ownerPc = "outreach" /\ p \in ownerLeft
    /\ ownerLeft' = ownerLeft \ {p}
    /\ UNCHANGED <<status, offered, votes, eventId, wired, calendar, told, ownerPc, ownerReq,
                   ownerAct, ownerSaw, ownerSlot, ownerAdd, pollVars>>

\* `send_telegram_poll`: buttons delivered, then the row is marked sent.
SendPoll(p) ==
    /\ p \in Telegram /\ Wired(p) /\ Reach(p)
    /\ keyboards' = [keyboards EXCEPT ![ownerReq][p] = TRUE]
    /\ pstatus' = [pstatus EXCEPT ![ownerReq][p] = "sent"]
    /\ age' = [age EXCEPT ![ownerReq][p] = 0]
    /\ UNCHANGED <<thread, dropped, faults>>

\* `send_gmail_draft`: a draft is made, the row stays pending, no sent time.
SendDraft(p) ==
    /\ p \notin Telegram /\ Wired(p) /\ Reach(p)
    /\ thread' = [thread EXCEPT ![ownerReq][p] = TRUE]
    /\ pstatus' = [pstatus EXCEPT ![ownerReq][p] = "pending"]
    /\ UNCHANGED <<age, keyboards, dropped, faults>>

\* No adapter: the "skipped: ..." status violates the column's CHECK and the
\* error is suppressed, so nothing is written.
SkipParticipant(p) ==
    /\ ~Wired(p) /\ Reach(p)
    /\ UNCHANGED <<pstatus, age, thread, keyboards, dropped, faults>>

\* A failure that would end the loop, not only the participant's turn.
OutreachAborts(p) ==
    /\ Wired(p) /\ Fault("send") /\ ownerPc = "outreach" /\ p \in ownerLeft
    /\ OwnerIdle
    /\ dropped' = [dropped EXCEPT ![ownerReq] = @ \cup {p}]
    /\ UNCHANGED <<rows, wired, keyboards, calendar, told, pollVars>>

\* The adapter raises, or the buttons went out and the row was not marked.
OutreachFails(p) ==
    /\ Wired(p) /\ Fault("send") /\ Reach(p)
    /\ \/ UNCHANGED keyboards
       \/ /\ p \in Telegram
          /\ keyboards' = [keyboards EXCEPT ![ownerReq][p] = TRUE]
    /\ dropped' = [dropped EXCEPT ![ownerReq] = @ \cup {p}]
    /\ UNCHANGED <<pstatus, age, thread>>

\* A loop that would leave at the first participant it cannot handle.
OutreachStopsEarly ==
    /\ ownerPc = "outreach" /\ OwnerIdle
    /\ UNCHANGED <<rows, world, pollVars, faults>>

OutreachDone ==
    /\ ownerPc = "outreach" /\ ownerLeft = {}
    /\ OwnerIdle
    /\ UNCHANGED <<rows, world, pollVars, faults>>

-----------------------------------------------------------------------------
(* Booking: the event is made after the request is booked. *)

\* The slot named, else the best scored slot of the request.
EventSlot(r, s) == IF s \in offered[r] THEN {s} ELSE Best(offered[r])

\* A creation that would be repeated when its answer is late.
CreateEventRetried ==
    /\ ownerPc = "event" /\ offered[ownerReq] # {}
    /\ \E s \in EventSlot(ownerReq, ownerSlot) :
          calendar' = [calendar EXCEPT ![ownerReq] = Append(@, s)]
    /\ ownerPc' \in {"event", "persist"}
    /\ Len(calendar[ownerReq]) < 2
    /\ UNCHANGED <<rows, wired, keyboards, told, dropped, ownerReq, ownerAct, ownerSaw,
                   ownerSlot, ownerAdd, ownerLeft, pollVars, faults>>

CreateEvent ==
    /\ ownerPc = "event"
    /\ IF offered[ownerReq] = {}
       THEN UNCHANGED calendar /\ OwnerIdle
       ELSE /\ \E s \in EventSlot(ownerReq, ownerSlot) :
                  calendar' = [calendar EXCEPT ![ownerReq] = Append(@, s)]
            /\ ownerPc' = "persist"
            /\ UNCHANGED <<ownerReq, ownerAct, ownerSaw, ownerSlot, ownerAdd, ownerLeft>>
    /\ UNCHANGED <<rows, wired, keyboards, told, dropped, pollVars, faults>>

\* `create_event` raises; the request stays booked and the owner is told to
\* make the event by hand.
CreateEventFails ==
    /\ ownerPc = "event" /\ Fault("calendar")
    /\ OwnerIdle
    /\ UNCHANGED <<rows, world, pollVars>>

PersistEvent ==
    /\ ownerPc = "persist"
    /\ eventId' = [eventId EXCEPT ![ownerReq] = TRUE]
    /\ OwnerIdle
    /\ UNCHANGED <<status, offered, pstatus, age, thread, votes, world, pollVars, faults>>

-----------------------------------------------------------------------------
(* A button tap (bot/scheduling_callbacks.py), served between decisions.  The *)
(* request's status is not consulted.                                         *)
Tap(r, p, s) ==
    /\ ownerPc = "idle"
    /\ p \in Telegram /\ keyboards[r][p] /\ s \in offered[r]
    /\ RecordResponse(r, p, s, "yes")
    /\ UNCHANGED <<status, offered, age, thread, eventId, world, ownerVars, pollVars, faults>>
-----------------------------------------------------------------------------
(* The polling job. *)

PollIdle ==
    /\ pollPc' = "idle" /\ pollTodo' = {} /\ pollReq' = NoReq /\ pollLeft' = {}
    /\ pollWho' = NoWho /\ pollReply' = NoReply /\ pollFound' = NoSlot
    /\ pollSeen' = [p \in Participants |-> "pending"]
    /\ pollExpired' = FALSE /\ pollWaiting' = FALSE

\* On to the next request of this run.
PollLeave ==
    /\ pollPc' = "next" /\ pollReq' = NoReq /\ pollLeft' = {}
    /\ pollWho' = NoWho /\ pollReply' = NoReply /\ pollFound' = NoSlot
    /\ pollSeen' = [p \in Participants |-> "pending"]
    /\ pollExpired' = FALSE /\ pollWaiting' = FALSE
    /\ UNCHANGED pollTodo

\* A run works on the requests that are polling when it starts.
PollBegin ==
    /\ pollPc = "idle"
    /\ pollTodo' = {r \in Requests : status[r] = "polling"}
    /\ pollTodo' # {}
    /\ pollPc' = "next"
    /\ UNCHANGED <<rows, world, ownerVars, pollReq, pollLeft, pollWho, pollReply,
                   pollFound, pollSeen, pollExpired, pollWaiting, faults>>

\* Every mail thread, whoever has answered before.
EveryoneLeft(r) == IF "gmail" \in wired THEN Participants ELSE {}

\* Whose mail `check_polling_status` will look at: those with no vote on file.
ToCheck(r) == IF "gmail" \in wired THEN Participants \ Responders(r) ELSE {}

PollNext(r) ==
    /\ pollPc = "next" /\ r \in pollTodo
    /\ pollTodo' = pollTodo \ {r}
    /\ pollPc' = "parse" /\ pollReq' = r /\ pollLeft' = ToCheck(r)
    /\ UNCHANGED <<rows, world, ownerVars, pollWho, pollReply, pollFound, pollSeen,
                   pollExpired, pollWaiting, faults>>

PollEnd ==
    /\ pollPc = "next" /\ pollTodo = {}
    /\ PollIdle
    /\ UNCHANGED <<rows, world, ownerVars, faults>>

\* No thread, no reply yet, or one that does not parse (a counter-proposal too).
PollNoReply(p) ==
    /\ pollPc = "parse" /\ p \in pollLeft
    /\ pollLeft' = pollLeft \ {p}
    /\ UNCHANGED <<rows, world, ownerVars, pollPc, pollTodo, pollReq, pollWho, pollReply,
                   pollFound, pollSeen, pollExpired, pollWaiting, faults>>

\* The latest message of the thread parses into verdicts on some slots.
PollReply(p, reply) ==
    /\ pollPc = "parse" /\ p \in pollLeft /\ thread[pollReq][p]
    /\ reply # NoReply
    /\ pollLeft' = pollLeft \ {p}
    /\ pollPc' = "record" /\ pollWho' = p /\ pollReply' = reply
    /\ UNCHANGED <<rows, world, ownerVars, pollTodo, pollReq, pollFound, pollSeen,
                   pollExpired, pollWaiting, faults>>

\* The verdicts are recorded one by one, a commit each.
PollRecord(s) ==
    /\ pollPc = "record" /\ pollReply[s] # "unset"
    /\ RecordResponse(pollReq, pollWho, s, pollReply[s])
    /\ pollReply' = [pollReply EXCEPT ![s] = "unset"]
    /\ IF pollReply' = NoReply THEN pollPc' = "parse" /\ pollWho' = NoWho
                               ELSE UNCHANGED <<pollPc, pollWho>>
    /\ UNCHANGED <<status, offered, age, thread, eventId, world, ownerVars, pollTodo,
                   pollReq, pollLeft, pollFound, pollSeen, pollExpired, pollWaiting, faults>>

\* `find_consensus`; what it finds is acted on one step later.
PollConsensus(s) ==
    /\ pollPc = "parse" /\ pollLeft = {} /\ s \in Consensus(pollReq)
    /\ pollFound' = s
    /\ pollPc' = IF s = NoSlot THEN "load" ELSE "converge"
    /\ UNCHANGED <<rows, world, ownerVars, pollTodo, pollReq, pollLeft, pollWho, pollReply,
                   pollSeen, pollExpired, pollWaiting, faults>>

\* An exception inside `check_polling_status` counts as "no consensus".
PollCheckFails ==
    /\ pollPc \in {"parse", "record"} /\ Fault("check")
    /\ pollPc' = "load" /\ pollLeft' = {} /\ pollWho' = NoWho /\ pollReply' = NoReply
    /\ UNCHANGED <<rows, world, ownerVars, pollTodo, pollReq, pollFound, pollSeen,
                   pollExpired, pollWaiting>>

\* A convergence nobody would be told of.
ConvergeQuietly ==
    /\ pollPc = "converge" /\ MayTransition(pollReq, "polling", "converged")
    /\ status' = [status EXCEPT ![pollReq] = "converged"]
    /\ PollLeave
    /\ UNCHANGED <<offered, pstatus, age, thread, votes, eventId, world, ownerVars, faults>>

\* The guarded UPDATE, or a warning when the owner moved the request first.
PollConverge ==
    /\ pollPc = "converge"
    /\ IF MayTransition(pollReq, "polling", "converged")
       THEN /\ status' = [status EXCEPT ![pollReq] = "converged"]
            /\ pollPc' = "announce"
            /\ UNCHANGED <<pollTodo, pollReq, pollLeft, pollWho, pollReply, pollFound,
                           pollSeen, pollExpired, pollWaiting>>
       ELSE PollLeave /\ UNCHANGED status
    /\ UNCHANGED <<offered, pstatus, age, thread, votes, eventId, world, ownerVars, faults>>

\* An announcement of the best scored slot instead of the consensus.
AnnounceBest ==
    /\ pollPc = "announce"
    /\ \E s \in Best(offered[pollReq]) : told' = [told EXCEPT ![pollReq] = s]
    /\ PollLeave
    /\ UNCHANGED <<rows, wired, keyboards, calendar, dropped, ownerVars, faults>>

PollAnnounce ==
    /\ pollPc = "announce"
    /\ told' = [told EXCEPT ![pollReq] = pollFound]
    /\ PollLeave
    /\ UNCHANGED <<rows, wired, keyboards, calendar, dropped, ownerVars, faults>>

\* The participants are read once; their statuses are used from this copy.
PollLoad ==
    /\ pollPc = "load"
    /\ pollSeen' = pstatus[pollReq]
    /\ pollLeft' = {p \in Participants :
                       pstatus[pollReq][p] \notin {"responded", "no_response"}}
    /\ pollPc' = "judge"
    /\ UNCHANGED <<rows, world, ownerVars, pollTodo, pollReq, pollWho, pollReply, pollFound,
                   pollExpired, pollWaiting, faults>>

\* In the nudge window, or past expiry but never nudged and not yet too stale.
ToNudge(seen, a) == seen = "sent" /\ a >= NudgeAge /\ a < SafetyCap

\* Expiry of the nudged only, without the safety cap.
ToExpireNudged(seen, a) == seen = "nudged" /\ a >= ExpireAge

ToExpire(seen, a) == a >= ExpireAge /\ ~ToNudge(seen, a)

\* The sent time is read fresh, the status is the copy.
PollJudge(p) ==
    /\ pollPc = "judge" /\ p \in pollLeft
    /\ pollLeft' = pollLeft \ {p}
    /\ LET seen == pollSeen[p]
           a == age[pollReq][p]
       IN \/ /\ ToNudge(seen, a) /\ ~ToExpire(seen, a)
             /\ pollPc' = "nudge" /\ pollWho' = p /\ UNCHANGED pollWaiting
          \/ /\ ToExpire(seen, a)
             /\ pollPc' = "expire" /\ pollWho' = p /\ UNCHANGED pollWaiting
          \/ /\ ~ToNudge(seen, a) /\ ~ToExpire(seen, a)
             /\ pollWaiting' = TRUE /\ UNCHANGED <<pollPc, pollWho>>
    /\ UNCHANGED <<rows, world, ownerVars, pollTodo, pollReq, pollReply, pollFound, pollSeen,
                   pollExpired, faults>>

\* The nudge is sent, then the row is marked, whatever it holds by now.
PollNudge ==
    /\ pollPc = "nudge"
    /\ pstatus' = [pstatus EXCEPT ![pollReq][pollWho] = "nudged"]
    /\ pollPc' = "judge" /\ pollWho' = NoWho /\ pollWaiting' = TRUE
    /\ UNCHANGED <<status, offered, age, thread, votes, eventId, world, ownerVars, pollTodo,
                   pollReq, pollLeft, pollReply, pollFound, pollSeen, pollExpired, faults>>

PollExpire ==
    /\ pollPc = "expire"
    /\ pstatus' = [pstatus EXCEPT ![pollReq][pollWho] = "no_response"]
    /\ pollPc' = "judge" /\ pollWho' = NoWho /\ pollExpired' = TRUE
    /\ UNCHANGED <<status, offered, age, thread, votes, eventId, world, ownerVars, pollTodo,
                   pollReq, pollLeft, pollReply, pollFound, pollSeen, pollWaiting, faults>>

\* Back to the owner when this run expired someone and nobody is waited for.
PollEscalate ==
    /\ pollPc = "judge" /\ pollLeft = {}
    /\ IF pollExpired /\ ~pollWaiting /\ MayTransition(pollReq, "polling", "owner_review")
       THEN /\ status' = [status EXCEPT ![pollReq] = "owner_review"]
            /\ pollPc' = "notice"
            /\ UNCHANGED <<pollTodo, pollReq, pollLeft, pollWho, pollReply, pollFound,
                           pollSeen, pollExpired, pollWaiting>>
       ELSE PollLeave /\ UNCHANGED status
    /\ UNCHANGED <<offered, pstatus, age, thread, votes, eventId, world, ownerVars, faults>>

PollNotice ==
    /\ pollPc = "notice"
    /\ PollLeave
    /\ UNCHANGED <<rows, world, ownerVars, faults>>

\* `send_fn` raises: the exception ends the run, the other requests included.
PollNotifyFails ==
    /\ pollPc \in {"nudge", "announce", "notice"} /\ Fault("notify")
    /\ PollIdle
    /\ UNCHANGED <<rows, world, ownerVars>>
-----------------------------------------------------------------------------
(* Time, crashes, and the whole. *)

\* A run takes `now` once, so the ages it uses do not move while it lasts; past
\* the cap they no longer matter.
Older(a) == IF a = NeverSent THEN a ELSE IF a < SafetyCap THEN a + 1 ELSE SafetyCap

Tick ==
    /\ pollPc = "idle"
    /\ age' = [r \in Requests |-> [p \in Participants |-> Older(age[r][p])]]
    /\ UNCHANGED <<status, offered, pstatus, thread, votes, eventId, world, ownerVars,
                   pollVars, faults>>

\* The process dies and restarts on the same database.
Crash ==
    /\ Fault("crash")
    /\ OwnerIdle /\ PollIdle
    /\ dropped' = [r \in Requests |->
                      IF ownerPc = "outreach" /\ r = ownerReq THEN dropped[r] \cup ownerLeft
                      ELSE dropped[r]]
    /\ UNCHANGED <<rows, wired, keyboards, calendar, told>>

Init ==
    /\ status = [r \in Requests |-> "none"]
    /\ offered = [r \in Requests |-> {}]
    /\ pstatus = [r \in Requests |-> [p \in Participants |-> "pending"]]
    /\ age = [r \in Requests |-> [p \in Participants |-> NeverSent]]
    /\ thread = [r \in Requests |-> [p \in Participants |-> FALSE]]
    /\ votes = [r \in Requests |-> [p \in Participants |-> NoReply]]
    /\ eventId = [r \in Requests |-> FALSE]
    /\ wired \in Wirings
    /\ keyboards = [r \in Requests |-> [p \in Participants |-> FALSE]]
    /\ calendar = [r \in Requests |-> <<>>]
    /\ told = [r \in Requests |-> NoSlot]
    /\ dropped = [r \in Requests |-> {}]
    /\ ownerPc = "idle" /\ ownerReq = NoReq /\ ownerAct = "none"
    /\ ownerSaw = "none" /\ ownerSlot = NoSlot /\ ownerAdd = {} /\ ownerLeft = {}
    /\ pollPc = "idle" /\ pollTodo = {} /\ pollReq = NoReq /\ pollLeft = {}
    /\ pollWho = NoWho /\ pollReply = NoReply /\ pollFound = NoSlot
    /\ pollSeen = [p \in Participants |-> "pending"]
    /\ pollExpired = FALSE /\ pollWaiting = FALSE
    /\ faults = 0

\* What a started decision still has to do.
OwnerContinues ==
    \/ \E S \in SUBSET Slots : OwnerScore(S)
    \/ OwnerAddSlot \/ OwnerSurface
    \/ OwnerDecide \/ OwnerLosesRace
    \/ \E p \in Participants : SendPoll(p) \/ SendDraft(p) \/ SkipParticipant(p)
    \/ OutreachDone
    \/ CreateEvent \/ PersistEvent

\* What the owner, the participants and the environment may do.
OwnerStarts ==
    \E r \in Requests :
        \/ OwnerSchedule(r)
        \/ \E act \in Decisions, s \in Slots \cup {NoSlot} : OwnerRead(r, act, s)

Taps == \E r \in Requests, p \in Participants, s \in Slots : Tap(r, p, s)

PollStep ==
    \/ PollBegin \/ PollEnd
    \/ \E r \in Requests : PollNext(r)
    \/ \E p \in Participants :
          \/ PollNoReply(p) \/ PollJudge(p)
          \/ \E reply \in [Slots -> Verdicts \cup {"unset"}] : PollReply(p, reply)
    \/ \E s \in Slots : PollRecord(s)
    \/ \E s \in Slots \cup {NoSlot} : PollConsensus(s)
    \/ PollConverge \/ PollAnnounce
    \/ PollLoad \/ PollNudge \/ PollExpire \/ PollEscalate \/ PollNotice

Failure ==
    \/ Crash \/ CreateEventFails \/ PollCheckFails \/ PollNotifyFails
    \/ \E p \in Participants : OutreachFails(p)

Next == OwnerStarts \/ OwnerContinues \/ Taps \/ PollStep \/ Failure \/ Tick

Spec == Init /\ [][Next]_vars

\* The scheduler fires the job every half hour, a started run or decision goes
\* on, and the clock advances.  Owner and participants may stay silent.
FairSpec == Spec /\ WF_vars(OwnerContinues) /\ WF_vars(PollStep) /\ SF_vars(Tick)
-----------------------------------------------------------------------------
(* Properties. *)

RowsOK ==
    /\ status \in [Requests -> Statuses \cup {"none"}]
    /\ offered \in [Requests -> SUBSET Slots]
    /\ pstatus \in [Requests -> [Participants -> PStatuses]]
    /\ age \in [Requests -> [Participants -> 0 .. SafetyCap \cup {NeverSent}]]
    /\ thread \in [Requests -> [Participants -> BOOLEAN]]
    /\ votes \in [Requests -> [Participants -> [Slots -> Verdicts \cup {"unset"}]]]
    /\ eventId \in [Requests -> BOOLEAN]

WorldOK ==
    /\ wired \in Wirings
    /\ keyboards \in [Requests -> [Participants -> BOOLEAN]]
    /\ calendar \in [Requests -> Seq(Slots)]
    /\ told \in [Requests -> Slots \cup {NoSlot}]
    /\ dropped \in [Requests -> SUBSET Participants]

OwnerOK ==
    /\ ownerPc \in {"idle", "score", "add", "decide", "outreach", "event", "persist"}
    /\ ownerPc # "idle" => ownerReq \in Requests
    /\ ownerPc = "decide" => ownerAct \in Decisions /\ ownerSaw \in Statuses
    /\ ownerSlot \in Slots \cup {NoSlot}
    /\ ownerAdd \subseteq Slots
    /\ ownerLeft \subseteq Participants

PollOK ==
    /\ pollPc \in {"idle", "next", "parse", "record", "converge", "announce", "load",
                  "judge", "nudge", "expire", "notice"}
    /\ pollTodo \subseteq Requests
    /\ pollPc \notin {"idle", "next"} => pollReq \in Requests
    /\ pollLeft \subseteq Participants
    /\ pollPc \in {"record", "nudge", "expire"} => pollWho \in Participants
    /\ pollReply \in [Slots -> Verdicts \cup {"unset"}]
    /\ pollFound \in Slots \cup {NoSlot}
    /\ pollSeen \in [Participants -> PStatuses]
    /\ pollExpired \in BOOLEAN /\ pollWaiting \in BOOLEAN

\* Every variable stays in its type, the locals of both threads included.
TypeOK == RowsOK /\ WorldOK /\ OwnerOK /\ PollOK /\ faults \in 0 .. MaxFaults

\* A request converges, and is booked, only while some slot it offered is
\* accepted by everybody: although the job acts on a consensus it found some
\* steps ago and votes, decisions and restarts come in between.
ConvergedIsUnanimous ==
    \A r \in Requests : status[r] \in {"converged", "booked"} => Agreed(r) # {}

\* The slot announced to the owner is one everybody still accepts.
AnnouncedIsAgreed ==
    \A r \in Requests : told[r] # NoSlot => told[r] \in Agreed(r)

\* At most one calendar event is made for a request, and only for a booked one:
\* no race of decisions, no restart and no retry invites people twice.
OneEventPerRequest ==
    \A r \in Requests : /\ Len(calendar[r]) <= 1
                        /\ calendar[r] # <<>> => status[r] = "booked"

\* Once everybody accepts a slot, no later mail, tap or run takes that back
\* (`check_polling_status` skips whoever has a vote on file).
AcceptanceStands == [][\A r \in Requests : Agreed(r) \subseteq Agreed(r)']_vars

\* `approve` commits the status first and sends afterwards.  While a request is
\* polling, whoever has a wired channel has the poll or is about to get it,
\* unless their own send failed or the process died before it: one send that
\* fails costs nobody else theirs, a crash nobody whose turn was over, and a
\* second approval starts over with everybody.
PollingMeansContacted ==
    \A r \in Requests : status[r] = "polling" =>
        \A p \in Participants :
            \/ ~Wired(p) \/ keyboards[r][p] \/ thread[r][p]
            \/ ownerPc = "outreach" /\ ownerReq = r /\ p \in ownerLeft
            \/ p \in dropped[r]

\* Whoever was sent a poll does not stay waited for: the request leaves polling,
\* the participant answers, or the job gives up on them.
OutreachIsResolved ==
    \A r \in Requests, p \in Participants :
        (status[r] = "polling" /\ pstatus[r][p] \in {"sent", "nudged"})
            ~> (status[r] # "polling" \/ pstatus[r][p] \notin {"sent", "nudged"})

\* A consensus reached in a poll is announced, unless the owner takes the
\* request out of the poll.
ConsensusSurfaces ==
    \A r \in Requests :
        (status[r] = "polling" /\ Agreed(r) # {})
            ~> (told[r] # NoSlot \/ status[r] \notin {"polling", "converged"})

\* Everybody has answered or been given up on, somebody was, and no slot fits.
Stalled(r) ==
    /\ status[r] = "polling" /\ Agreed(r) = {}
    /\ \A p \in Participants : p \in Responders(r) \/ pstatus[r][p] = "no_response"
    /\ \E p \in Participants : pstatus[r][p] = "no_response"

\* A stalled poll goes back to the owner (step 4 of the polling job).
StalledIsEscalated == \A r \in Requests : Stalled(r) ~> ~Stalled(r)

\* Scheduling implements its lifecycle: every status change is an edge of the
\* graph, and converged, booked and the calendar event mean what it says.
Lifecycle == INSTANCE SchedulingLifecycle WITH
    phase <- status, agreed <- [r \in Requests |-> Agreed(r)], event <- calendar

LifecycleSpec == Lifecycle!Spec
-----------------------------------------------------------------------------
(* The inductive invariant behind the safety properties (SchedulingProofs). *)

\* Only people on mail have a thread.
MailOnly == \A r \in Requests : \A p \in Telegram : ~thread[r][p]

\* The mail the job is going to read is of people with no vote on file, and
\* the verdicts it is recording overwrite nothing.
ReadOnce ==
    /\ pollPc \in {"parse", "record"} =>
          \A p \in pollLeft \ Telegram : p \notin Responders(pollReq)
    /\ pollPc = "record" =>
          /\ pollWho \notin pollLeft \cup Telegram
          /\ \A s \in Slots : pollReply[s] # "unset" => votes[pollReq][pollWho][s] = "unset"

\* The consensus the job has found still is one.
FoundAgreed == pollPc \in {"converge", "announce"} => pollFound \in Agreed(pollReq)

\* The owner's thread makes an event for a booked request that has none.
BookingOpen ==
    /\ ownerPc \in {"event", "persist"} => status[ownerReq] = "booked"
    /\ ownerPc = "event" => calendar[ownerReq] = <<>>

\* Nothing enters these statuses of the graph.
NeverParked == \A r \in Requests : status[r] \notin {"backchannel", "expired"}

IndInv == /\ MailOnly /\ ReadOnce /\ FoundAgreed /\ BookingOpen /\ NeverParked
          /\ ConvergedIsUnanimous /\ AnnouncedIsAgreed /\ OneEventPerRequest
=============================================================================
