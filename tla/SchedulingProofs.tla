-------------------------- MODULE SchedulingProofs --------------------------
(***************************************************************************)
(* Proofs about Scheduling, for any number of requests, participants and   *)
(* slots, any wiring, any windows and any faults.                          *)
(***************************************************************************)
EXTENDS Scheduling, TLAPS

USE DEF NeverSent, NoSlot, NoReq, NoWho, NoReply

LEMMA TypeInit == Init => TypeOK
<1> SUFFICES ASSUME Init PROVE TypeOK
  OBVIOUS
<1>1. RowsOK
  BY WindowsAssumption DEF Init, RowsOK, Statuses, PStatuses
<1>2. WorldOK
  <2>1. <<>> \in Seq(Slots)
    OBVIOUS
  <2> QED
    BY <2>1 DEF Init, WorldOK
<1>3. OwnerOK
  BY DEF Init, OwnerOK
<1>4. PollOK
  BY DEF Init, PollOK, PStatuses
<1>5. faults \in 0 .. MaxFaults
  <2>1. faults = 0
    BY DEF Init
  <2> QED
    BY <2>1, FaultsAssumption
<1> QED
  BY <1>1, <1>2, <1>3, <1>4, <1>5 DEF TypeOK

LEMMA FaultCounts ==
    ASSUME NEW kind, faults \in 0 .. MaxFaults, Fault(kind)
    PROVE faults' \in 0 .. MaxFaults
<1>1. MaxFaults \in Nat
  BY FaultsAssumption
<1> QED
  BY <1>1 DEF Fault

LEMMA TypeOwnerSchedule ==
    ASSUME TypeOK, NEW r \in Requests, OwnerSchedule(r) PROVE TypeOK'
BY FaultsAssumption, WindowsAssumption DEF TypeOK, RowsOK, WorldOK, OwnerOK, PollOK,
   OwnerSchedule, Statuses, world, pollVars

LEMMA TypeOwnerScore ==
    ASSUME TypeOK, NEW S \in SUBSET Slots, OwnerScore(S) PROVE TypeOK'
BY FaultsAssumption, WindowsAssumption DEF TypeOK, RowsOK, WorldOK, OwnerOK, PollOK,
   OwnerScore, OwnerIdle, Statuses, world, pollVars

LEMMA TypeOwnerAddSlot ==
    ASSUME TypeOK, OwnerAddSlot PROVE TypeOK'
BY FaultsAssumption, WindowsAssumption DEF TypeOK, RowsOK, WorldOK, OwnerOK, PollOK,
   OwnerAddSlot, Best, world, pollVars

LEMMA TypeOwnerSurface ==
    ASSUME TypeOK, OwnerSurface PROVE TypeOK'
BY FaultsAssumption, WindowsAssumption DEF TypeOK, RowsOK, WorldOK, OwnerOK, PollOK,
   OwnerSurface, OwnerIdle, Statuses, world, pollVars

LEMMA TypeOwnerRead ==
    ASSUME TypeOK, NEW r \in Requests, NEW act \in Decisions, NEW s \in Slots \cup {NoSlot}, OwnerRead(r, act, s) PROVE TypeOK'
BY FaultsAssumption, WindowsAssumption DEF TypeOK, RowsOK, WorldOK, OwnerOK, PollOK,
   OwnerRead, Required, Statuses, Terminal, Decisions, rows, world, pollVars

LEMMA TypeOwnerDecide ==
    ASSUME TypeOK, OwnerDecide PROVE TypeOK'
BY FaultsAssumption, WindowsAssumption DEF TypeOK, RowsOK, WorldOK, OwnerOK, PollOK,
   OwnerDecide, OwnerIdle, Target, Decisions, Statuses, world, pollVars

LEMMA TypeOwnerLosesRace ==
    ASSUME TypeOK, OwnerLosesRace PROVE TypeOK'
BY FaultsAssumption, WindowsAssumption DEF TypeOK, RowsOK, WorldOK, OwnerOK, PollOK,
   OwnerLosesRace, OwnerIdle, rows, world, pollVars

LEMMA TypeSendPoll ==
    ASSUME TypeOK, NEW p \in Participants, SendPoll(p) PROVE TypeOK'
BY FaultsAssumption, WindowsAssumption DEF TypeOK, RowsOK, WorldOK, OwnerOK, PollOK,
   SendPoll, Reach, PStatuses, pollVars

LEMMA TypeSendDraft ==
    ASSUME TypeOK, NEW p \in Participants, SendDraft(p) PROVE TypeOK'
BY FaultsAssumption, WindowsAssumption DEF TypeOK, RowsOK, WorldOK, OwnerOK, PollOK,
   SendDraft, Reach, PStatuses, pollVars

LEMMA TypeSkipParticipant ==
    ASSUME TypeOK, NEW p \in Participants, SkipParticipant(p) PROVE TypeOK'
BY FaultsAssumption, WindowsAssumption DEF TypeOK, RowsOK, WorldOK, OwnerOK, PollOK,
   SkipParticipant, Reach, pollVars

LEMMA TypeOutreachFails ==
    ASSUME TypeOK, NEW p \in Participants, OutreachFails(p) PROVE TypeOK'
<1>1. faults' \in 0 .. MaxFaults
  BY FaultCounts DEF TypeOK, OutreachFails
<1>2. Reach(p) /\ UNCHANGED <<pstatus, age, thread>>
  BY DEF OutreachFails
<1>3. RowsOK' /\ OwnerOK' /\ PollOK'
  BY <1>2 DEF TypeOK, RowsOK, OwnerOK, PollOK, Reach, pollVars
<1>4. \/ UNCHANGED keyboards
      \/ keyboards' = [keyboards EXCEPT ![ownerReq][p] = TRUE]
  BY DEF OutreachFails
<1>5. ownerReq \in Requests /\ UNCHANGED <<wired, calendar, told>>
  BY <1>2 DEF TypeOK, OwnerOK, Reach
<1>6. keyboards' \in [Requests -> [Participants -> BOOLEAN]]
  <2>1. CASE UNCHANGED keyboards
    BY <2>1 DEF TypeOK, WorldOK
  <2>2. CASE keyboards' = [keyboards EXCEPT ![ownerReq][p] = TRUE]
    BY <2>2, <1>5 DEF TypeOK, WorldOK
  <2> QED
    BY <1>4, <2>1, <2>2
<1>7. dropped' \in [Requests -> SUBSET Participants]
  BY <1>5 DEF OutreachFails, TypeOK, WorldOK
<1>8. WorldOK'
  BY <1>5, <1>6, <1>7 DEF TypeOK, WorldOK
<1> QED
  BY <1>1, <1>3, <1>8 DEF TypeOK

LEMMA TypeOutreachDone ==
    ASSUME TypeOK, OutreachDone PROVE TypeOK'
BY FaultsAssumption, WindowsAssumption DEF TypeOK, RowsOK, WorldOK, OwnerOK, PollOK,
   OutreachDone, OwnerIdle, rows, world, pollVars

LEMMA TypeCreateEvent ==
    ASSUME TypeOK, CreateEvent PROVE TypeOK'
<1>1. WorldOK'
  <2>1. CASE offered[ownerReq] = {}
    BY <2>1 DEF TypeOK, WorldOK, CreateEvent
  <2>2. CASE offered[ownerReq] # {}
    <3>1. PICK s \in EventSlot(ownerReq, ownerSlot) :
            calendar' = [calendar EXCEPT ![ownerReq] = Append(@, s)]
      BY <2>2 DEF CreateEvent
    <3>2. s \in Slots /\ ownerReq \in Requests
      BY <3>1 DEF TypeOK, RowsOK, OwnerOK, EventSlot, Best, CreateEvent
    <3>3. Append(calendar[ownerReq], s) \in Seq(Slots)
      BY <3>2 DEF TypeOK, WorldOK
    <3> QED
      BY <3>1, <3>3 DEF TypeOK, WorldOK, CreateEvent
  <2> QED
    BY <2>1, <2>2
<1>2. RowsOK' /\ OwnerOK' /\ PollOK' /\ faults' \in 0 .. MaxFaults
  BY DEF TypeOK, RowsOK, OwnerOK, PollOK, CreateEvent, OwnerIdle, rows, pollVars
<1> QED
  BY <1>1, <1>2 DEF TypeOK

LEMMA TypeCreateEventFails ==
    ASSUME TypeOK, CreateEventFails PROVE TypeOK'
<1>1. faults' \in 0 .. MaxFaults
  BY FaultCounts DEF TypeOK, CreateEventFails
<1>2. RowsOK' /\ WorldOK' /\ OwnerOK' /\ PollOK'
  BY DEF TypeOK, RowsOK, WorldOK, OwnerOK, PollOK,
     CreateEventFails, OwnerIdle, rows, world, pollVars
<1> QED
  BY <1>1, <1>2 DEF TypeOK

LEMMA TypePersistEvent ==
    ASSUME TypeOK, PersistEvent PROVE TypeOK'
BY FaultsAssumption, WindowsAssumption DEF TypeOK, RowsOK, WorldOK, OwnerOK, PollOK,
   PersistEvent, OwnerIdle, world, pollVars

LEMMA TypeTap ==
    ASSUME TypeOK, NEW r \in Requests, NEW p \in Participants, NEW s \in Slots, Tap(r, p, s) PROVE TypeOK'
BY FaultsAssumption, WindowsAssumption DEF TypeOK, RowsOK, WorldOK, OwnerOK, PollOK,
   Tap, RecordResponse, PStatuses, Verdicts, world, ownerVars, pollVars

LEMMA TypePollBegin ==
    ASSUME TypeOK, PollBegin PROVE TypeOK'
BY FaultsAssumption, WindowsAssumption DEF TypeOK, RowsOK, WorldOK, OwnerOK, PollOK,
   PollBegin, rows, world, ownerVars

LEMMA TypePollNext ==
    ASSUME TypeOK, NEW r \in Requests, PollNext(r) PROVE TypeOK'
BY FaultsAssumption, WindowsAssumption DEF TypeOK, RowsOK, WorldOK, OwnerOK, PollOK,
   PollNext, ToCheck, rows, world, ownerVars

LEMMA TypePollEnd ==
    ASSUME TypeOK, PollEnd PROVE TypeOK'
BY FaultsAssumption, WindowsAssumption DEF TypeOK, RowsOK, WorldOK, OwnerOK, PollOK,
   PollEnd, PollIdle, PStatuses, rows, world, ownerVars

LEMMA TypePollNoReply ==
    ASSUME TypeOK, NEW p \in Participants, PollNoReply(p) PROVE TypeOK'
BY FaultsAssumption, WindowsAssumption DEF TypeOK, RowsOK, WorldOK, OwnerOK, PollOK,
   PollNoReply, rows, world, ownerVars

LEMMA TypePollReply ==
    ASSUME TypeOK, NEW p \in Participants, NEW reply \in [Slots -> Verdicts \cup {"unset"}], PollReply(p, reply) PROVE TypeOK'
BY FaultsAssumption, WindowsAssumption DEF TypeOK, RowsOK, WorldOK, OwnerOK, PollOK,
   PollReply, rows, world, ownerVars

LEMMA TypePollRecord ==
    ASSUME TypeOK, NEW s \in Slots, PollRecord(s) PROVE TypeOK'
BY FaultsAssumption, WindowsAssumption DEF TypeOK, RowsOK, WorldOK, OwnerOK, PollOK,
   PollRecord, RecordResponse, PStatuses, world, ownerVars

LEMMA TypePollConsensus ==
    ASSUME TypeOK, NEW s \in Slots \cup {NoSlot}, PollConsensus(s) PROVE TypeOK'
BY FaultsAssumption, WindowsAssumption DEF TypeOK, RowsOK, WorldOK, OwnerOK, PollOK,
   PollConsensus, rows, world, ownerVars

LEMMA TypePollCheckFails ==
    ASSUME TypeOK, PollCheckFails PROVE TypeOK'
<1>1. faults' \in 0 .. MaxFaults
  BY FaultCounts DEF TypeOK, PollCheckFails
<1>2. RowsOK' /\ WorldOK' /\ OwnerOK' /\ PollOK'
  BY DEF TypeOK, RowsOK, WorldOK, OwnerOK, PollOK,
     PollCheckFails, rows, world, ownerVars
<1> QED
  BY <1>1, <1>2 DEF TypeOK

LEMMA TypePollConverge ==
    ASSUME TypeOK, PollConverge PROVE TypeOK'
BY FaultsAssumption, WindowsAssumption DEF TypeOK, RowsOK, WorldOK, OwnerOK, PollOK,
   PollConverge, PollLeave, Statuses, PStatuses, world, ownerVars

LEMMA TypePollAnnounce ==
    ASSUME TypeOK, PollAnnounce PROVE TypeOK'
BY FaultsAssumption, WindowsAssumption DEF TypeOK, RowsOK, WorldOK, OwnerOK, PollOK,
   PollAnnounce, PollLeave, PStatuses, rows, ownerVars

LEMMA TypePollLoad ==
    ASSUME TypeOK, PollLoad PROVE TypeOK'
BY FaultsAssumption, WindowsAssumption DEF TypeOK, RowsOK, WorldOK, OwnerOK, PollOK,
   PollLoad, rows, world, ownerVars

LEMMA TypePollJudge ==
    ASSUME TypeOK, NEW p \in Participants, PollJudge(p) PROVE TypeOK'
BY FaultsAssumption, WindowsAssumption DEF TypeOK, RowsOK, WorldOK, OwnerOK, PollOK,
   PollJudge, rows, world, ownerVars

LEMMA TypePollNudge ==
    ASSUME TypeOK, PollNudge PROVE TypeOK'
BY FaultsAssumption, WindowsAssumption DEF TypeOK, RowsOK, WorldOK, OwnerOK, PollOK,
   PollNudge, PStatuses, world, ownerVars

LEMMA TypePollExpire ==
    ASSUME TypeOK, PollExpire PROVE TypeOK'
BY FaultsAssumption, WindowsAssumption DEF TypeOK, RowsOK, WorldOK, OwnerOK, PollOK,
   PollExpire, PStatuses, world, ownerVars

LEMMA TypePollEscalate ==
    ASSUME TypeOK, PollEscalate PROVE TypeOK'
BY FaultsAssumption, WindowsAssumption DEF TypeOK, RowsOK, WorldOK, OwnerOK, PollOK,
   PollEscalate, PollLeave, Statuses, PStatuses, world, ownerVars

LEMMA TypePollNotice ==
    ASSUME TypeOK, PollNotice PROVE TypeOK'
BY FaultsAssumption, WindowsAssumption DEF TypeOK, RowsOK, WorldOK, OwnerOK, PollOK,
   PollNotice, PollLeave, PStatuses, rows, world, ownerVars

LEMMA TypePollNotifyFails ==
    ASSUME TypeOK, PollNotifyFails PROVE TypeOK'
<1>1. faults' \in 0 .. MaxFaults
  BY FaultCounts DEF TypeOK, PollNotifyFails
<1>2. RowsOK' /\ WorldOK' /\ OwnerOK' /\ PollOK'
  BY DEF TypeOK, RowsOK, WorldOK, OwnerOK, PollOK,
     PollNotifyFails, PollIdle, PStatuses, rows, world, ownerVars
<1> QED
  BY <1>1, <1>2 DEF TypeOK

LEMMA TypeTick ==
    ASSUME TypeOK, Tick PROVE TypeOK'
BY FaultsAssumption, WindowsAssumption DEF TypeOK, RowsOK, WorldOK, OwnerOK, PollOK,
   Tick, Older, world, ownerVars, pollVars

LEMMA TypeCrash ==
    ASSUME TypeOK, Crash PROVE TypeOK'
<1>1. faults' \in 0 .. MaxFaults
  BY FaultCounts DEF TypeOK, Crash
<1>2. RowsOK' /\ WorldOK' /\ OwnerOK' /\ PollOK'
  BY DEF TypeOK, RowsOK, WorldOK, OwnerOK, PollOK,
     Crash, OwnerIdle, PollIdle, PStatuses, rows, world
<1> QED
  BY <1>1, <1>2 DEF TypeOK

THEOREM TypeCorrect == Spec => []TypeOK
<1>1. ASSUME TypeOK, [Next]_vars PROVE TypeOK'
  <2>1. CASE OwnerStarts
    BY <1>1, <2>1, TypeOwnerSchedule, TypeOwnerRead DEF OwnerStarts
  <2>2. CASE OwnerContinues
    BY <1>1, <2>2, TypeOwnerScore, TypeOwnerAddSlot, TypeOwnerSurface, TypeOwnerDecide,
       TypeOwnerLosesRace, TypeSendPoll, TypeSendDraft, TypeSkipParticipant,
       TypeOutreachDone, TypeCreateEvent, TypePersistEvent DEF OwnerContinues
  <2>3. CASE Taps
    BY <1>1, <2>3, TypeTap DEF Taps
  <2>4. CASE PollStep
    BY <1>1, <2>4, TypePollBegin, TypePollNext, TypePollEnd, TypePollNoReply, TypePollReply,
       TypePollRecord, TypePollConsensus, TypePollConverge, TypePollAnnounce, TypePollLoad,
       TypePollJudge, TypePollNudge, TypePollExpire, TypePollEscalate, TypePollNotice
       DEF PollStep
  <2>5. CASE Failure
    BY <1>1, <2>5, TypeCrash, TypeCreateEventFails, TypePollCheckFails, TypePollNotifyFails,
       TypeOutreachFails DEF Failure
  <2>6. CASE Tick
    BY <1>1, <2>6, TypeTick
  <2>7. CASE UNCHANGED vars
    BY <1>1, <2>7 DEF TypeOK, RowsOK, WorldOK, OwnerOK, PollOK, vars, rows, world,
       ownerVars, pollVars
  <2> QED
    BY <1>1, <2>1, <2>2, <2>3, <2>4, <2>5, <2>6, <2>7 DEF Next
<1> QED
  BY TypeInit, <1>1, PTL DEF Spec

-----------------------------------------------------------------------------
(* Which steps write what. *)

\* Votes are written by a tap and by the job recording a mail.
LEMMA VotesWritten ==
    ASSUME Next PROVE UNCHANGED votes \/ Taps \/ \E s \in Slots : PollRecord(s)
<1>1. CASE OwnerStarts
  BY <1>1 DEF OwnerStarts, OwnerSchedule, OwnerRead, rows
<1>2. CASE OwnerContinues
  BY <1>2 DEF OwnerContinues, OwnerScore, OwnerAddSlot, OwnerSurface, OwnerDecide,
     OwnerLosesRace, SendPoll, SendDraft, SkipParticipant, Reach, OutreachDone, CreateEvent,
     PersistEvent, rows
<1>3. CASE PollStep
  BY <1>3 DEF PollStep, PollBegin, PollNext, PollEnd, PollNoReply, PollReply, PollConsensus,
     PollConverge, PollAnnounce, PollLoad, PollJudge, PollNudge, PollExpire, PollEscalate,
     PollNotice, rows
<1>4. CASE Failure
  BY <1>4 DEF Failure, Crash, CreateEventFails, PollCheckFails, PollNotifyFails,
     OutreachFails, Reach, rows
<1>5. CASE Tick
  BY <1>5 DEF Tick
<1> QED
  BY <1>1, <1>2, <1>3, <1>4, <1>5 DEF Next

\* Slots are added while a request is created, and only then.
LEMMA OfferedWritten ==
    ASSUME Next PROVE UNCHANGED offered \/ OwnerAddSlot
<1>1. CASE OwnerStarts
  BY <1>1 DEF OwnerStarts, OwnerSchedule, OwnerRead, rows
<1>2. CASE OwnerContinues
  BY <1>2 DEF OwnerContinues, OwnerScore, OwnerSurface, OwnerDecide,
     OwnerLosesRace, SendPoll, SendDraft, SkipParticipant, Reach, OutreachDone, CreateEvent,
     PersistEvent, rows
<1>3. CASE PollStep
  BY <1>3 DEF PollStep, PollBegin, PollNext, PollEnd, PollNoReply, PollReply, PollConsensus,
     PollConverge, PollAnnounce, PollLoad, PollJudge, PollNudge, PollExpire, PollEscalate,
     PollNotice, PollRecord, rows
<1>4. CASE Failure
  BY <1>4 DEF Failure, Crash, CreateEventFails, PollCheckFails, PollNotifyFails,
     OutreachFails, Reach, rows
<1>5. CASE Tick \/ Taps
  BY <1>5 DEF Tick, Taps, Tap
<1> QED
  BY <1>1, <1>2, <1>3, <1>4, <1>5 DEF Next

\* ... and never taken back.
LEMMA OfferedGrows ==
    ASSUME TypeOK, Next, NEW r \in Requests PROVE offered[r] \subseteq offered'[r]
BY OfferedWritten DEF OwnerAddSlot, TypeOK, RowsOK, OwnerOK

\* A status changes along a legal edge, from the status the row has; only the
\* job's convergence step leads to converged.
StatusMove(r, to) ==
    /\ status' = [status EXCEPT ![r] = to]
    /\ \/ <<status[r], to>> \in Transitions
       \/ status[r] = "none" /\ to = "proposing"
    /\ to \notin {"backchannel", "expired"}
    /\ to = "converged" => pollPc = "converge" /\ r = pollReq

LEMMA StatusWritten ==
    ASSUME TypeOK, Next
    PROVE UNCHANGED status \/ \E r \in Requests, to \in Statuses : StatusMove(r, to)
<1>1. CASE OwnerStarts
  BY <1>1 DEF OwnerStarts, OwnerSchedule, OwnerRead, rows, StatusMove, Statuses
<1>2. ASSUME NEW S \in SUBSET Slots, OwnerScore(S)
      PROVE UNCHANGED status \/ StatusMove(ownerReq, "cancelled")
  BY <1>2 DEF OwnerScore, StatusMove, MayTransition
<1>3. CASE OwnerSurface
  <2>1. StatusMove(ownerReq, "owner_review")
    BY <1>3 DEF OwnerSurface, StatusMove, MayTransition
  <2> QED
    BY <1>3, <2>1 DEF OwnerSurface, Statuses, TypeOK, OwnerOK
<1>4. CASE OwnerDecide
  <2>1. StatusMove(ownerReq, Target(ownerAct)) /\ Target(ownerAct) \in Statuses
    BY <1>4 DEF OwnerDecide, StatusMove, MayTransition, Target, Decisions, Statuses, TypeOK, OwnerOK
  <2> QED
    BY <1>4, <2>1 DEF OwnerDecide, TypeOK, OwnerOK
<1>5. CASE OwnerContinues
  <2>1. CASE \E S \in SUBSET Slots : OwnerScore(S)
    BY <1>2, <2>1 DEF OwnerScore, Statuses, TypeOK, OwnerOK
  <2> QED
    BY <1>3, <1>4, <1>5, <2>1 DEF OwnerContinues, OwnerAddSlot, OwnerLosesRace, SendPoll,
       SendDraft, SkipParticipant, Reach, OutreachDone, CreateEvent, PersistEvent, rows
<1>6. CASE PollConverge
  <2>1. UNCHANGED status \/ StatusMove(pollReq, "converged")
    BY <1>6 DEF PollConverge, StatusMove, MayTransition
  <2> QED
    BY <1>6, <2>1 DEF PollConverge, Statuses, TypeOK, PollOK
<1>7. CASE PollEscalate
  <2>1. UNCHANGED status \/ StatusMove(pollReq, "owner_review")
    BY <1>7 DEF PollEscalate, StatusMove, MayTransition
  <2> QED
    BY <1>7, <2>1 DEF PollEscalate, Statuses, TypeOK, PollOK
<1>8. CASE PollStep
  BY <1>6, <1>7, <1>8 DEF PollStep, PollBegin, PollNext, PollEnd, PollNoReply, PollReply,
     PollConsensus, PollRecord, PollAnnounce, PollLoad, PollJudge, PollNudge, PollExpire,
     PollNotice, rows
<1>9. CASE Failure
  BY <1>9 DEF Failure, Crash, CreateEventFails, PollCheckFails, PollNotifyFails,
     OutreachFails, Reach, rows
<1>10. CASE Tick \/ Taps
  BY <1>10 DEF Tick, Taps, Tap
<1> QED
  BY <1>1, <1>5, <1>8, <1>9, <1>10 DEF Next

-----------------------------------------------------------------------------
(* The inductive invariant. *)

\* A written vote overwrites no acceptance: a tap says yes, and the job records
\* only verdicts of people who had none.
LEMMA AcceptsStands ==
    ASSUME TypeOK, ReadOnce, Next,
           NEW r \in Requests, NEW p \in Participants, NEW s \in Slots, Accepts(r, p, s)
    PROVE Accepts(r, p, s)'
<1>1. CASE UNCHANGED votes
  BY <1>1 DEF Accepts
<1>2. ASSUME NEW q \in Requests, NEW w \in Participants, NEW t \in Slots, Tap(q, w, t)
      PROVE Accepts(r, p, s)'
  BY <1>2 DEF Tap, RecordResponse, Accepts, Accepting, TypeOK, RowsOK
<1>3. ASSUME NEW t \in Slots, PollRecord(t)
      PROVE Accepts(r, p, s)'
  <2>1. votes[pollReq][pollWho][t] = "unset"
    BY <1>3 DEF PollRecord, ReadOnce
  <2>2. votes' = [votes EXCEPT ![pollReq][pollWho][t] = pollReply[t]]
    BY <1>3 DEF PollRecord, RecordResponse
  <2>3. ~(r = pollReq /\ p = pollWho /\ s = t)
    BY <2>1 DEF Accepts, Accepting
  <2> QED
    BY <2>2, <2>3 DEF Accepts, TypeOK, RowsOK
<1> QED
  BY <1>1, <1>2, <1>3, VotesWritten DEF Taps

LEMMA AgreedGrows ==
    ASSUME TypeOK, ReadOnce, Next, NEW r \in Requests
    PROVE Agreed(r) \subseteq Agreed(r)'
<1> SUFFICES ASSUME NEW s \in Agreed(r) PROVE s \in Agreed(r)'
  OBVIOUS
<1>1. s \in offered'[r]
  BY OfferedGrows DEF Agreed
<1>2. s \in Slots
  BY DEF Agreed, TypeOK, RowsOK
<1>3. \A p \in Participants : Accepts(r, p, s)'
  BY <1>2, AcceptsStands DEF Agreed
<1> QED
  BY <1>1, <1>3 DEF Agreed

LEMMA MailOnlyStep ==
    ASSUME TypeOK, MailOnly, Next PROVE MailOnly'
<1>1. ASSUME NEW p \in Participants, SendDraft(p) PROVE MailOnly'
  BY <1>1 DEF SendDraft, Reach, MailOnly, TypeOK, RowsOK, OwnerOK
<1>2. CASE UNCHANGED thread
  BY <1>2 DEF MailOnly
<1>3. UNCHANGED thread \/ \E p \in Participants : SendDraft(p)
  <2>1. CASE OwnerStarts
    BY <2>1 DEF OwnerStarts, OwnerSchedule, OwnerRead, rows
  <2>2. CASE OwnerContinues
    BY <2>2 DEF OwnerContinues, OwnerScore, OwnerAddSlot, OwnerSurface, OwnerDecide,
       OwnerLosesRace, SendPoll, SkipParticipant, Reach, OutreachDone, CreateEvent,
       PersistEvent, rows
  <2>3. CASE PollStep
    BY <2>3 DEF PollStep, PollBegin, PollNext, PollEnd, PollNoReply, PollReply, PollConsensus,
       PollConverge, PollAnnounce, PollLoad, PollJudge, PollNudge, PollExpire, PollEscalate,
       PollNotice, PollRecord, rows
  <2>4. CASE Failure
    BY <2>4 DEF Failure, Crash, CreateEventFails, PollCheckFails, PollNotifyFails,
       OutreachFails, Reach, rows
  <2>5. CASE Tick \/ Taps
    BY <2>5 DEF Tick, Taps, Tap
  <2> QED
    BY <2>1, <2>2, <2>3, <2>4, <2>5 DEF Next
<1> QED
  BY <1>1, <1>2, <1>3

\* The owner's thread, the failures outside the job and the clock leave the
\* job's locals alone; the job's own steps leave the owner's.
LEMMA PollUntouched ==
    ASSUME OwnerStarts \/ OwnerContinues \/ Taps \/ Tick \/ CreateEventFails
           \/ \E p \in Participants : OutreachFails(p)
    PROVE UNCHANGED pollVars
<1>1. CASE OwnerStarts
  BY <1>1 DEF OwnerStarts, OwnerSchedule, OwnerRead
<1>2. CASE OwnerContinues
  BY <1>2 DEF OwnerContinues, OwnerScore, OwnerAddSlot, OwnerSurface, OwnerDecide,
     OwnerLosesRace, SendPoll, SendDraft, SkipParticipant, Reach, OutreachDone, CreateEvent,
     PersistEvent
<1>3. CASE Taps \/ Tick \/ CreateEventFails
  BY <1>3 DEF Taps, Tap, Tick, CreateEventFails
<1>4. CASE \E p \in Participants : OutreachFails(p)
  BY <1>4 DEF OutreachFails, Reach
<1> QED
  BY <1>1, <1>2, <1>3, <1>4

LEMMA OwnerUntouched ==
    ASSUME PollStep \/ Taps \/ Tick \/ PollCheckFails \/ PollNotifyFails
    PROVE UNCHANGED ownerVars
<1>1. CASE PollStep
  BY <1>1 DEF PollStep, PollBegin, PollNext, PollEnd, PollNoReply, PollReply, PollConsensus,
     PollConverge, PollAnnounce, PollLoad, PollJudge, PollNudge, PollExpire, PollEscalate,
     PollNotice, PollRecord
<1>2. CASE Taps \/ Tick \/ PollCheckFails \/ PollNotifyFails
  BY <1>2 DEF Taps, Tap, Tick, PollCheckFails, PollNotifyFails
<1> QED
  BY <1>1, <1>2

LEMMA ReadOnceStep ==
    ASSUME TypeOK, MailOnly, ReadOnce, Next PROVE ReadOnce'
<1>1. CASE UNCHANGED <<pollVars, votes>>
  BY <1>1 DEF ReadOnce, pollVars, Responders
<1>2. ASSUME NEW q \in Requests, NEW w \in Participants, NEW t \in Slots, Tap(q, w, t)
      PROVE ReadOnce'
  <2>1. UNCHANGED pollVars /\ w \in Telegram
    BY <1>2 DEF Tap
  <2>2. \A p \in Participants \ Telegram : votes'[pollReq][p] = votes[pollReq][p]
        \/ pollReq \notin Requests
    BY <1>2, <2>1 DEF Tap, RecordResponse, TypeOK, RowsOK
  <2>3. pollPc \in {"parse", "record"} => pollReq \in Requests /\ pollLeft \subseteq Participants
    BY DEF TypeOK, PollOK
  <2>4. pollPc = "record" => pollWho \in Participants
    BY DEF TypeOK, PollOK
  <2>5. pollPc \in {"parse", "record"} =>
          \A p \in pollLeft \ Telegram : p \notin Responders(pollReq)'
    BY <2>1, <2>2, <2>3 DEF ReadOnce, Responders, pollVars
  <2>6. pollPc = "record" => votes'[pollReq][pollWho] = votes[pollReq][pollWho]
    BY <2>2, <2>3, <2>4 DEF ReadOnce
  <2> QED
    BY <2>1, <2>5, <2>6 DEF ReadOnce, Responders, pollVars
<1>3. ASSUME NEW t \in Slots, PollRecord(t) PROVE ReadOnce'
  <2>1. /\ votes' = [votes EXCEPT ![pollReq][pollWho][t] = pollReply[t]]
        /\ pollReply' = [pollReply EXCEPT ![t] = "unset"]
        /\ UNCHANGED <<pollReq, pollLeft>> /\ pollPc = "record"
        /\ pollPc' = "record" => pollWho' = pollWho
    BY <1>3 DEF PollRecord, RecordResponse
  <2>2. pollReq \in Requests /\ pollWho \in Participants /\ pollLeft \subseteq Participants
    BY <2>1 DEF TypeOK, PollOK
  <2>3. pollWho \notin pollLeft
    BY <2>1 DEF ReadOnce
  <2>4. \A p \in pollLeft : votes'[pollReq][p] = votes[pollReq][p]
    BY <2>1, <2>2, <2>3 DEF TypeOK, RowsOK
  <2>5. \A p \in pollLeft \ Telegram : p \notin Responders(pollReq)'
    BY <2>1, <2>2, <2>4 DEF ReadOnce, Responders
  <2>6. \A s \in Slots : pollReply'[s] # "unset" => votes'[pollReq][pollWho][s] = "unset"
    BY <2>1, <2>2 DEF ReadOnce, TypeOK, RowsOK, PollOK
  <2> QED
    BY <2>1, <2>5, <2>6 DEF ReadOnce, Responders
<1>4. ASSUME NEW r \in Requests, PollNext(r) PROVE ReadOnce'
  BY <1>4 DEF PollNext, ToCheck, ReadOnce, Responders, rows
<1>5. ASSUME NEW p \in Participants, PollNoReply(p) PROVE ReadOnce'
  BY <1>5 DEF PollNoReply, ReadOnce, Responders, rows
<1>6. ASSUME NEW p \in Participants, NEW reply, PollReply(p, reply) PROVE ReadOnce'
  BY <1>6 DEF PollReply, ReadOnce, Responders, rows, TypeOK, PollOK, MailOnly
<1>7. ASSUME pollPc' \notin {"parse", "record"} PROVE ReadOnce'
  BY <1>7 DEF ReadOnce
<1>8. CASE PollStep
  BY <1>3, <1>4, <1>5, <1>6, <1>7, <1>8 DEF PollStep, PollBegin, PollEnd, PollIdle, PollLeave,
     PollConsensus, PollConverge, PollAnnounce, PollLoad, PollJudge, PollNudge, PollExpire,
     PollEscalate, PollNotice
<1>9. CASE Crash \/ PollCheckFails \/ PollNotifyFails
  BY <1>7, <1>9 DEF Crash, PollCheckFails, PollNotifyFails, PollIdle
<1>10. CASE Next /\ ~PollStep /\ ~(Crash \/ PollCheckFails \/ PollNotifyFails)
  <2>1. UNCHANGED pollVars
    BY <1>10, PollUntouched DEF Next, Failure
  <2>2. UNCHANGED votes \/ Taps
    BY <1>10, VotesWritten DEF PollStep
  <2> QED
    BY <1>1, <1>2, <2>1, <2>2 DEF Taps
<1> QED
  BY <1>8, <1>9, <1>10

LEMMA FoundAgreedStep ==
    ASSUME TypeOK, ReadOnce, FoundAgreed, Next PROVE FoundAgreed'
<1>1. ASSUME NEW s \in Slots \cup {NoSlot}, PollConsensus(s) PROVE FoundAgreed'
  <2>1. CASE s = NoSlot
    BY <1>1, <2>1 DEF PollConsensus, FoundAgreed
  <2>2. CASE s # NoSlot
    <3>1. s \in Agreed(pollReq)
      BY <1>1, <2>2 DEF PollConsensus, Consensus, Best
    <3> QED
      BY <1>1, <3>1 DEF PollConsensus, FoundAgreed, Agreed, Accepts, rows
  <2> QED
    BY <2>1, <2>2
<1>2. ASSUME pollPc \in {"converge", "announce"}, UNCHANGED <<pollReq, pollFound>>
      PROVE FoundAgreed'
  <2>1. pollReq \in Requests
    BY <1>2 DEF TypeOK, PollOK
  <2> QED
    BY <1>2, <2>1, AgreedGrows DEF FoundAgreed, Agreed, Accepts
<1>3. ASSUME pollPc' \notin {"converge", "announce"} PROVE FoundAgreed'
  BY <1>3 DEF FoundAgreed
<1>4. CASE PollConverge
  BY <1>2, <1>3, <1>4 DEF PollConverge, PollLeave
<1>5. CASE PollStep
  BY <1>1, <1>3, <1>4, <1>5 DEF PollStep, PollBegin, PollEnd, PollIdle, PollLeave, PollNext,
     PollNoReply, PollReply, PollRecord, PollAnnounce, PollLoad, PollJudge, PollNudge,
     PollExpire, PollEscalate, PollNotice
<1>6. CASE Crash \/ PollCheckFails \/ PollNotifyFails
  BY <1>3, <1>6 DEF Crash, PollCheckFails, PollNotifyFails, PollIdle
<1>7. CASE Next /\ ~PollStep /\ ~(Crash \/ PollCheckFails \/ PollNotifyFails)
  BY <1>2, <1>3, <1>7, PollUntouched DEF Next, Failure, pollVars
<1>8. CASE UNCHANGED vars
  BY <1>2, <1>3, <1>8 DEF vars, pollVars
<1> QED
  BY <1>5, <1>6, <1>7

LEMMA ConvergedStep ==
    ASSUME TypeOK, ReadOnce, FoundAgreed, ConvergedIsUnanimous, Next
    PROVE ConvergedIsUnanimous'
<1> SUFFICES ASSUME NEW r \in Requests, status'[r] \in {"converged", "booked"}
             PROVE Agreed(r)' # {}
  BY DEF ConvergedIsUnanimous
<1>1. Agreed(r) # {} => Agreed(r)' # {}
  BY AgreedGrows
<1>2. CASE UNCHANGED status
  BY <1>1, <1>2 DEF ConvergedIsUnanimous
<1>3. ASSUME NEW q \in Requests, NEW to \in Statuses, StatusMove(q, to)
      PROVE Agreed(r)' # {}
  <2>1. CASE q # r
    BY <1>1, <1>3, <2>1 DEF StatusMove, ConvergedIsUnanimous, TypeOK, RowsOK
  <2>2. CASE q = r /\ to = "converged"
    BY <1>1, <1>3, <2>2 DEF StatusMove, FoundAgreed
  <2>3. CASE q = r /\ to = "booked"
    BY <1>1, <1>3, <2>3 DEF StatusMove, Transitions, ConvergedIsUnanimous
  <2>4. q = r => to \in {"converged", "booked"}
    BY <1>3 DEF StatusMove, TypeOK, RowsOK
  <2> QED
    BY <2>1, <2>2, <2>3, <2>4
<1> QED
  BY <1>2, <1>3, StatusWritten

\* Only the job's announcement tells the owner a slot.
LEMMA ToldWritten ==
    ASSUME Next PROVE UNCHANGED told \/ PollAnnounce
<1>1. CASE OwnerStarts
  BY <1>1 DEF OwnerStarts, OwnerSchedule, OwnerRead, world
<1>2. CASE OwnerContinues
  BY <1>2 DEF OwnerContinues, OwnerScore, OwnerAddSlot, OwnerSurface, OwnerDecide,
     OwnerLosesRace, SendPoll, SendDraft, SkipParticipant, Reach, OutreachDone, CreateEvent,
     PersistEvent, world
<1>3. CASE PollStep
  BY <1>3 DEF PollStep, PollBegin, PollNext, PollEnd, PollNoReply, PollReply, PollConsensus,
     PollConverge, PollLoad, PollJudge, PollNudge, PollExpire, PollEscalate, PollNotice,
     PollRecord, world
<1>4. CASE Failure
  BY <1>4 DEF Failure, Crash, CreateEventFails, PollCheckFails, PollNotifyFails,
     OutreachFails, Reach, world
<1>5. CASE Tick \/ Taps
  BY <1>5 DEF Tick, Taps, Tap, world
<1> QED
  BY <1>1, <1>2, <1>3, <1>4, <1>5 DEF Next

LEMMA AnnouncedStep ==
    ASSUME TypeOK, ReadOnce, FoundAgreed, AnnouncedIsAgreed, Next
    PROVE AnnouncedIsAgreed'
<1> SUFFICES ASSUME NEW r \in Requests, told'[r] # NoSlot PROVE told'[r] \in Agreed(r)'
  BY DEF AnnouncedIsAgreed
<1>1. Agreed(r) \subseteq Agreed(r)'
  BY AgreedGrows
<1>2. CASE told'[r] = told[r]
  BY <1>1, <1>2 DEF AnnouncedIsAgreed
<1>3. CASE PollAnnounce /\ told'[r] # told[r]
  <2>1. r = pollReq /\ told'[r] = pollFound
    BY <1>3 DEF PollAnnounce, TypeOK, WorldOK, PollOK
  <2>2. pollFound \in Agreed(r)
    BY <1>3, <2>1 DEF FoundAgreed, PollAnnounce
  <2> QED
    BY <1>1, <2>1, <2>2
<1> QED
  BY <1>2, <1>3, ToldWritten

\* A calendar event is made by CreateEvent, and its steps leave statuses alone.
LEMMA CalendarWritten ==
    ASSUME Next PROVE UNCHANGED calendar \/ CreateEvent
<1>1. CASE OwnerStarts
  BY <1>1 DEF OwnerStarts, OwnerSchedule, OwnerRead, world
<1>2. CASE OwnerContinues
  BY <1>2 DEF OwnerContinues, OwnerScore, OwnerAddSlot, OwnerSurface, OwnerDecide,
     OwnerLosesRace, SendPoll, SendDraft, SkipParticipant, Reach, OutreachDone,
     PersistEvent, world
<1>3. CASE PollStep
  BY <1>3 DEF PollStep, PollBegin, PollNext, PollEnd, PollNoReply, PollReply, PollConsensus,
     PollConverge, PollAnnounce, PollLoad, PollJudge, PollNudge, PollExpire, PollEscalate,
     PollNotice, PollRecord, world
<1>4. CASE Failure
  BY <1>4 DEF Failure, Crash, CreateEventFails, PollCheckFails, PollNotifyFails,
     OutreachFails, Reach, world
<1>5. CASE Tick \/ Taps
  BY <1>5 DEF Tick, Taps, Tap, world
<1> QED
  BY <1>1, <1>2, <1>3, <1>4, <1>5 DEF Next

\* No edge leads out of booked.
LEMMA BookedStays ==
    ASSUME TypeOK, Next, NEW r \in Requests, status[r] = "booked"
    PROVE status'[r] = "booked"
BY StatusWritten DEF StatusMove, Transitions, TypeOK, RowsOK

LEMMA OneEventStep ==
    ASSUME TypeOK, BookingOpen, OneEventPerRequest, Next PROVE OneEventPerRequest'
<1> SUFFICES ASSUME NEW r \in Requests
             PROVE Len(calendar'[r]) <= 1 /\ (calendar'[r] # <<>> => status'[r] = "booked")
  BY DEF OneEventPerRequest
<1>1. CASE calendar'[r] = calendar[r]
  BY <1>1, BookedStays DEF OneEventPerRequest
<1>2. CASE CreateEvent /\ calendar'[r] # calendar[r]
  <2>1. ownerPc = "event" /\ calendar[ownerReq] = <<>> /\ status[ownerReq] = "booked"
    BY <1>2 DEF CreateEvent, BookingOpen
  <2>2. PICK s \in EventSlot(ownerReq, ownerSlot) :
          calendar' = [calendar EXCEPT ![ownerReq] = Append(@, s)]
    BY <1>2 DEF CreateEvent
  <2>3. r = ownerReq /\ calendar'[r] = <<s>>
    BY <1>2, <2>1, <2>2 DEF TypeOK, WorldOK
  <2>4. Len(calendar'[r]) = 1
    BY <2>3
  <2> QED
    BY <2>1, <2>3, <2>4, BookedStays
<1> QED
  BY <1>1, <1>2, CalendarWritten

LEMMA BookingOpenStep ==
    ASSUME TypeOK, BookingOpen, OneEventPerRequest, Next PROVE BookingOpen'
<1>1. CASE OwnerDecide
  <2>1. CASE ownerPc' = "event"
    <3>1. /\ ownerReq' = ownerReq /\ ownerReq \in Requests
          /\ status' = [status EXCEPT ![ownerReq] = "booked"]
          /\ <<ownerSaw, "booked">> \in Transitions /\ status[ownerReq] = ownerSaw
          /\ calendar' = calendar
      BY <1>1, <2>1 DEF OwnerDecide, OwnerIdle, MayTransition, Target, TypeOK, OwnerOK, world
    <3>2. status[ownerReq] # "booked"
      BY <3>1 DEF Transitions
    <3>3. calendar[ownerReq] = <<>>
      BY <3>1, <3>2 DEF OneEventPerRequest
    <3> QED
      BY <3>1, <3>3 DEF BookingOpen, TypeOK, RowsOK
  <2>2. CASE ownerPc' # "event"
    BY <1>1, <2>2 DEF OwnerDecide, OwnerIdle, BookingOpen
  <2> QED
    BY <2>1, <2>2
<1>2. CASE CreateEvent
  <2>1. CASE ownerPc' = "persist"
    BY <1>2, <2>1 DEF CreateEvent, OwnerIdle, BookingOpen, rows
  <2>2. CASE ownerPc' # "persist"
    BY <1>2, <2>2 DEF CreateEvent, OwnerIdle, BookingOpen
  <2> QED
    BY <2>1, <2>2
<1>3. ASSUME ownerPc' \notin {"event", "persist"} PROVE BookingOpen'
  BY <1>3 DEF BookingOpen
<1>4. CASE UNCHANGED ownerVars
  <2>1. ~CreateEvent => BookingOpen'
    <3> SUFFICES ASSUME UNCHANGED calendar PROVE BookingOpen'
      BY CalendarWritten
    <3>1. CASE ownerPc \in {"event", "persist"}
      <4>1. ownerReq \in Requests /\ status[ownerReq] = "booked"
        BY <3>1 DEF TypeOK, OwnerOK, BookingOpen
      <4>2. status'[ownerReq] = "booked"
        BY <4>1, BookedStays
      <4> QED
        BY <1>4, <4>2 DEF BookingOpen, ownerVars
    <3>2. CASE ownerPc \notin {"event", "persist"}
      BY <1>4, <3>2 DEF BookingOpen, ownerVars
    <3> QED
      BY <3>1, <3>2
  <2> QED
    BY <1>2, <2>1
<1>5. CASE OwnerStarts
  BY <1>3, <1>5 DEF OwnerStarts, OwnerSchedule, OwnerRead
<1>6. CASE OwnerContinues
  BY <1>1, <1>2, <1>3, <1>6 DEF OwnerContinues, OwnerScore, OwnerAddSlot, OwnerSurface,
     OwnerLosesRace, OwnerIdle, SendPoll, SendDraft, SkipParticipant, Reach, OutreachDone,
     PersistEvent
<1>7. CASE Failure
  BY <1>3, <1>4, <1>7, OwnerUntouched DEF Failure, Crash, CreateEventFails, OwnerIdle,
     OutreachFails, Reach
<1>8. CASE Taps \/ PollStep \/ Tick
  BY <1>4, <1>8, OwnerUntouched
<1> QED
  BY <1>5, <1>6, <1>7, <1>8 DEF Next

LEMMA NeverParkedStep ==
    ASSUME TypeOK, NeverParked, Next PROVE NeverParked'
BY StatusWritten DEF StatusMove, NeverParked, TypeOK, RowsOK

\* The invariant holds at first and every step keeps it.
LEMMA IndInvInit == Init => IndInv
<1> SUFFICES ASSUME Init PROVE IndInv
  OBVIOUS
<1>1. MailOnly /\ ReadOnce /\ FoundAgreed
  BY ParticipantsAssumption DEF Init, MailOnly, ReadOnce, FoundAgreed
<1>2. BookingOpen /\ NeverParked /\ ConvergedIsUnanimous /\ AnnouncedIsAgreed
  BY DEF Init, BookingOpen, NeverParked, ConvergedIsUnanimous, AnnouncedIsAgreed
<1>3. OneEventPerRequest
  <2>1. \A r \in Requests : calendar[r] = <<>>
    BY DEF Init
  <2>2. Len(<<>>) = 0
    OBVIOUS
  <2> QED
    BY <2>1, <2>2 DEF OneEventPerRequest
<1> QED
  BY <1>1, <1>2, <1>3 DEF IndInv

LEMMA IndInvStep == TypeOK /\ IndInv /\ [Next]_vars => IndInv'
<1> SUFFICES ASSUME TypeOK, IndInv, [Next]_vars PROVE IndInv'
  OBVIOUS
<1>1. CASE Next
  BY <1>1, MailOnlyStep, ReadOnceStep, FoundAgreedStep, BookingOpenStep, NeverParkedStep,
     ConvergedStep, AnnouncedStep, OneEventStep DEF IndInv
<1>2. CASE UNCHANGED vars
  <2>1. UNCHANGED <<rows, told, calendar, ownerPc, ownerReq, pollVars>>
    BY <1>2 DEF vars, world, ownerVars
  <2>2. (MailOnly /\ ReadOnce /\ FoundAgreed)'
    BY <2>1 DEF IndInv, MailOnly, ReadOnce, FoundAgreed, Responders, Agreed, Accepts, rows,
       pollVars
  <2>3. (BookingOpen /\ NeverParked /\ ConvergedIsUnanimous)'
    BY <2>1 DEF IndInv, BookingOpen, NeverParked, ConvergedIsUnanimous, Agreed, Accepts, rows
  <2>4. (AnnouncedIsAgreed /\ OneEventPerRequest)'
    BY <2>1 DEF IndInv, AnnouncedIsAgreed, OneEventPerRequest, Agreed, Accepts, rows
  <2> QED
    BY <2>2, <2>3, <2>4 DEF IndInv
<1> QED
  BY <1>1, <1>2

\* The inductive invariant holds in every reachable state.
THEOREM IndInvHolds == Spec => []IndInv
BY TypeCorrect, IndInvInit, IndInvStep, PTL DEF Spec

\* A request converges, and is booked, only on a slot everybody accepts: whatever
\* the votes, decisions, failures and restarts between finding the consensus and
\* acting on it.
THEOREM ConvergedUnanimously == Spec => []ConvergedIsUnanimous
<1>1. IndInv => ConvergedIsUnanimous
  BY DEF IndInv
<1> QED
  BY IndInvHolds, <1>1, PTL

\* What the owner is told as the consensus is accepted by everybody.
THEOREM AnnouncedAgreed == Spec => []AnnouncedIsAgreed
<1>1. IndInv => AnnouncedIsAgreed
  BY DEF IndInv
<1> QED
  BY IndInvHolds, <1>1, PTL

\* A request gets at most one calendar event, once booked.
THEOREM OneEvent == Spec => []OneEventPerRequest
<1>1. IndInv => OneEventPerRequest
  BY DEF IndInv
<1> QED
  BY IndInvHolds, <1>1, PTL

\* An acceptance by everybody is never taken back.
THEOREM AcceptanceHolds == Spec => AcceptanceStands
<1>1. TypeOK /\ IndInv /\ [Next]_vars => [\A r \in Requests : Agreed(r) \subseteq Agreed(r)']_vars
  BY AgreedGrows DEF IndInv
<1> QED
  BY TypeCorrect, IndInvHolds, <1>1, PTL DEF Spec, AcceptanceStands

-----------------------------------------------------------------------------
(* A poll reaches whoever can be reached.  A request is polling from the     *)
(* commit of the approval on, and whom the loop has not come to is in        *)
(* ownerLeft; a crash or a failed send strikes somebody from it unreached,   *)
(* and then they are in dropped.                                             *)

\* A deployment keeps its adapters.
LEMMA WiredStays == ASSUME Next PROVE wired' = wired
<1>1. CASE OwnerStarts \/ OwnerContinues
  BY <1>1 DEF OwnerStarts, OwnerSchedule, OwnerRead, OwnerContinues, OwnerScore, OwnerAddSlot,
     OwnerSurface, OwnerDecide, OwnerLosesRace, SendPoll, SendDraft, SkipParticipant, Reach,
     OutreachDone, CreateEvent, PersistEvent, world
<1>2. CASE PollStep
  BY <1>2 DEF PollStep, PollBegin, PollNext, PollEnd, PollNoReply, PollReply, PollConsensus,
     PollConverge, PollAnnounce, PollLoad, PollJudge, PollNudge, PollExpire, PollEscalate,
     PollNotice, PollRecord, world
<1>3. CASE Failure \/ Tick \/ Taps
  BY <1>3 DEF Failure, Crash, CreateEventFails, PollCheckFails, PollNotifyFails,
     OutreachFails, Reach, Tick, Taps, Tap, world
<1> QED
  BY <1>1, <1>2, <1>3 DEF Next

\* What outreach has left with a participant is never taken back.
LEMMA ReachedStays ==
    ASSUME TypeOK, Next, NEW r \in Requests, NEW p \in Participants
    PROVE (keyboards[r][p] => keyboards'[r][p]) /\ (thread[r][p] => thread'[r][p])
<1>1. CASE OwnerStarts
  BY <1>1 DEF OwnerStarts, OwnerSchedule, OwnerRead, rows, world
<1>2. ASSUME NEW q \in Participants, SendPoll(q) \/ SendDraft(q)
      PROVE (keyboards[r][p] => keyboards'[r][p]) /\ (thread[r][p] => thread'[r][p])
  <2>1. ownerReq \in Requests
    BY <1>2 DEF SendPoll, SendDraft, Reach, TypeOK, OwnerOK
  <2>2. CASE SendPoll(q)
    BY <2>1, <2>2 DEF SendPoll, Reach, TypeOK, WorldOK
  <2>3. CASE SendDraft(q)
    BY <2>1, <2>3 DEF SendDraft, Reach, TypeOK, RowsOK
  <2> QED
    BY <1>2, <2>2, <2>3
<1>3. CASE OwnerContinues
  BY <1>2, <1>3 DEF OwnerContinues, OwnerScore, OwnerAddSlot, OwnerSurface, OwnerDecide,
     OwnerLosesRace, SkipParticipant, Reach, OutreachDone, CreateEvent, PersistEvent,
     rows, world
<1>4. CASE PollStep
  BY <1>4 DEF PollStep, PollBegin, PollNext, PollEnd, PollNoReply, PollReply, PollConsensus,
     PollConverge, PollAnnounce, PollLoad, PollJudge, PollNudge, PollExpire, PollEscalate,
     PollNotice, PollRecord, rows, world
<1>5. ASSUME NEW q \in Participants, OutreachFails(q)
      PROVE (keyboards[r][p] => keyboards'[r][p]) /\ (thread[r][p] => thread'[r][p])
  BY <1>5 DEF OutreachFails, Reach, TypeOK, WorldOK, OwnerOK
<1>6. CASE Failure
  BY <1>5, <1>6 DEF Failure, Crash, CreateEventFails, PollCheckFails, PollNotifyFails,
     rows, world
<1>7. CASE Tick \/ Taps
  BY <1>7 DEF Tick, Taps, Tap, world
<1> QED
  BY <1>1, <1>3, <1>4, <1>6, <1>7 DEF Next

\* A request becomes polling by an approval, which starts its outreach.
LEMMA PollingWritten ==
    ASSUME TypeOK, Next, NEW r \in Requests, status'[r] = "polling"
    PROVE \/ status[r] = "polling"
          \/ ownerPc' = "outreach" /\ ownerReq' = r /\ ownerLeft' = Participants
<1>1. CASE OwnerStarts
  BY <1>1 DEF OwnerStarts, OwnerSchedule, OwnerRead, rows, TypeOK, RowsOK
<1>2. CASE OwnerDecide
  <2>1. status' = [status EXCEPT ![ownerReq] = Target(ownerAct)] /\ ownerAct \in Decisions
    BY <1>2 DEF OwnerDecide, TypeOK, OwnerOK
  <2>2. CASE r = ownerReq /\ ownerAct = "approve"
    BY <1>2, <2>2 DEF OwnerDecide
  <2>3. CASE ~(r = ownerReq /\ ownerAct = "approve")
    <3>1. ownerAct # "approve" => Target(ownerAct) # "polling"
      BY <2>1 DEF Target, Decisions
    <3> QED
      BY <2>1, <2>3, <3>1 DEF TypeOK, RowsOK
  <2> QED
    BY <2>2, <2>3
<1>3. CASE OwnerContinues
  BY <1>2, <1>3 DEF OwnerContinues, OwnerScore, OwnerAddSlot, OwnerSurface, OwnerLosesRace,
     SendPoll, SendDraft, SkipParticipant, Reach, OutreachDone, CreateEvent, PersistEvent,
     rows, TypeOK, RowsOK
<1>4. CASE PollStep
  BY <1>4 DEF PollStep, PollBegin, PollNext, PollEnd, PollNoReply, PollReply, PollConsensus,
     PollConverge, PollAnnounce, PollLoad, PollJudge, PollNudge, PollExpire, PollEscalate,
     PollNotice, PollRecord, rows, TypeOK, RowsOK
<1>5. CASE Failure
  BY <1>5 DEF Failure, Crash, CreateEventFails, PollCheckFails, PollNotifyFails,
     OutreachFails, Reach, rows
<1>6. CASE Tick \/ Taps
  BY <1>6 DEF Tick, Taps, Tap
<1> QED
  BY <1>1, <1>3, <1>4, <1>5, <1>6 DEF Next

\* An approval starts its request's `dropped` afresh; nothing else shrinks it.
LEMMA DroppedGrows ==
    ASSUME TypeOK, Next, ~OwnerDecide, NEW r \in Requests
    PROVE dropped[r] \subseteq dropped'[r]
<1>1. CASE OwnerStarts
  BY <1>1 DEF OwnerStarts, OwnerSchedule, OwnerRead, world
<1>2. CASE OwnerContinues
  BY <1>2 DEF OwnerContinues, OwnerScore, OwnerAddSlot, OwnerSurface, OwnerLosesRace, SendPoll,
     SendDraft, SkipParticipant, OutreachDone, CreateEvent, PersistEvent, world
<1>3. CASE PollStep
  BY <1>3 DEF PollStep, PollBegin, PollNext, PollEnd, PollNoReply, PollReply, PollConsensus,
     PollConverge, PollAnnounce, PollLoad, PollJudge, PollNudge, PollExpire, PollEscalate,
     PollNotice, PollRecord, world
<1>4. ASSUME NEW p \in Participants, OutreachFails(p)
      PROVE dropped[r] \subseteq dropped'[r]
  BY <1>4 DEF OutreachFails, TypeOK, WorldOK
<1>5. CASE Crash
  BY <1>5 DEF Crash
<1>6. CASE Failure
  BY <1>4, <1>5, <1>6 DEF Failure, CreateEventFails, PollCheckFails, PollNotifyFails, world
<1>7. CASE Tick \/ Taps
  BY <1>7 DEF Tick, Taps, Tap, world
<1> QED
  BY <1>1, <1>2, <1>3, <1>6, <1>7 DEF Next

\* Whom outreach still had to reach it has reached, cannot reach, still has to
\* reach, or has dropped.
LEMMA LeftIsReached ==
    ASSUME TypeOK, Next, NEW p \in Participants, ownerPc = "outreach", p \in ownerLeft
    PROVE \/ ~Wired(p) \/ keyboards'[ownerReq][p] \/ thread'[ownerReq][p]
          \/ ownerPc' = "outreach" /\ ownerReq' = ownerReq /\ p \in ownerLeft'
          \/ p \in dropped'[ownerReq]
<1>1. CASE OwnerStarts \/ Taps
  BY <1>1 DEF OwnerStarts, OwnerSchedule, OwnerRead, Taps, Tap
<1>2. ASSUME NEW q \in Participants, SendPoll(q) \/ SendDraft(q) \/ SkipParticipant(q)
      PROVE \/ ~Wired(p) \/ keyboards'[ownerReq][p] \/ thread'[ownerReq][p]
            \/ ownerPc' = "outreach" /\ ownerReq' = ownerReq /\ p \in ownerLeft'
  <2>1. Reach(q) /\ (Wired(q) => keyboards'[ownerReq][q] \/ thread'[ownerReq][q])
    BY <1>2 DEF SendPoll, SendDraft, SkipParticipant, TypeOK, RowsOK, WorldOK, OwnerOK
  <2> QED
    BY <2>1 DEF Reach
<1>3. CASE OwnerContinues
  BY <1>2, <1>3 DEF OwnerContinues, OwnerScore, OwnerAddSlot, OwnerSurface, OwnerDecide,
     OwnerLosesRace, OutreachDone, CreateEvent, PersistEvent
<1>4. CASE PollStep \/ Tick
  BY <1>4, OwnerUntouched DEF ownerVars
<1>5. CASE Failure
  <2>1. ownerReq \in Requests
    BY DEF TypeOK, OwnerOK
  <2>2. CASE Crash
    BY <2>1, <2>2 DEF Crash
  <2>3. ASSUME NEW q \in Participants, OutreachFails(q)
        PROVE \/ ownerPc' = "outreach" /\ ownerReq' = ownerReq /\ p \in ownerLeft'
              \/ p \in dropped'[ownerReq]
    BY <2>1, <2>3 DEF OutreachFails, Reach, TypeOK, WorldOK
  <2>4. CASE PollCheckFails \/ PollNotifyFails
    BY <2>4, OwnerUntouched DEF ownerVars
  <2> QED
    BY <1>5, <2>2, <2>3, <2>4 DEF Failure, CreateEventFails
<1> QED
  BY <1>1, <1>3, <1>4, <1>5 DEF Next

LEMMA ContactedStep ==
    ASSUME TypeOK, PollingMeansContacted, Next
    PROVE PollingMeansContacted'
<1> SUFFICES ASSUME NEW r \in Requests, status'[r] = "polling", NEW p \in Participants
             PROVE \/ ~Wired(p) \/ keyboards'[r][p] \/ thread'[r][p]
                   \/ ownerPc' = "outreach" /\ ownerReq' = r /\ p \in ownerLeft'
                   \/ p \in dropped'[r]
  BY WiredStays DEF PollingMeansContacted, Wired
<1>1. CASE ownerPc' = "outreach" /\ ownerReq' = r /\ ownerLeft' = Participants
  BY <1>1
<1>2. CASE status[r] = "polling" /\ ~OwnerDecide
  <2>1. \/ ~Wired(p) \/ keyboards[r][p] \/ thread[r][p]
        \/ ownerPc = "outreach" /\ ownerReq = r /\ p \in ownerLeft
        \/ p \in dropped[r]
    BY <1>2 DEF PollingMeansContacted
  <2> QED
    BY <1>2, <2>1, ReachedStays, LeftIsReached, DroppedGrows
<1>3. CASE status[r] = "polling" /\ OwnerDecide
  <2>1. status' = [status EXCEPT ![ownerReq] = Target(ownerAct)] /\ ownerAct \in Decisions
        /\ ownerReq \in Requests /\ ownerPc = "decide"
        /\ MayTransition(ownerReq, ownerSaw, Target(ownerAct))
    BY <1>3 DEF OwnerDecide, TypeOK, OwnerOK
  <2>2. r # ownerReq
    BY <1>3, <2>1 DEF MayTransition, Transitions, Target, Decisions, TypeOK, RowsOK
  <2>3. UNCHANGED <<keyboards, thread>> /\ dropped'[r] = dropped[r]
    BY <1>3, <2>1, <2>2 DEF OwnerDecide, TypeOK, WorldOK
  <2> QED
    BY <1>3, <2>1, <2>3 DEF PollingMeansContacted
<1> QED
  BY <1>1, <1>2, <1>3, PollingWritten

\* A polling request has reached whoever has a wired channel, or its outreach is
\* under way, but for those whose own send failed or was lost to a crash: no
\* decision, tap, run of the job, crash or failed send costs anybody else the poll.
THEOREM Contacted == Spec => []PollingMeansContacted
<1>1. Init => PollingMeansContacted
  BY DEF Init, PollingMeansContacted
<1>2. TypeOK /\ PollingMeansContacted /\ [Next]_vars => PollingMeansContacted'
  <2>1. TypeOK /\ PollingMeansContacted /\ Next => PollingMeansContacted'
    BY ContactedStep
  <2>2. PollingMeansContacted /\ UNCHANGED vars => PollingMeansContacted'
    BY DEF PollingMeansContacted, Wired, vars, rows, world, ownerVars
  <2> QED
    BY <2>1, <2>2
<1> QED
  BY TypeCorrect, <1>1, <1>2, PTL DEF Spec

-----------------------------------------------------------------------------
(* Scheduling implements its lifecycle. *)

LEMMA LifecycleInit == Init => Lifecycle!Init
<1> SUFFICES ASSUME Init PROVE Lifecycle!Init
  OBVIOUS
<1>1. [r \in Requests |-> Agreed(r)] = [r \in Requests |-> {}]
  BY DEF Init, Agreed
<1> QED
  BY <1>1 DEF Init, Lifecycle!Init

\* A step that changes a status changes no vote, slot or event with it; a step
\* that makes an event changes no status, vote or slot.
LEMMA OneThingAtATime ==
    ASSUME Next
    PROVE /\ UNCHANGED status \/ UNCHANGED <<offered, votes, calendar>>
          /\ UNCHANGED calendar \/ UNCHANGED <<status, offered, votes>>
<1>1. CASE OwnerStarts
  BY <1>1 DEF OwnerStarts, OwnerSchedule, OwnerRead, rows, world
<1>2. CASE OwnerContinues
  BY <1>2 DEF OwnerContinues, OwnerScore, OwnerAddSlot, OwnerSurface, OwnerDecide,
     OwnerLosesRace, SendPoll, SendDraft, SkipParticipant, Reach, OutreachDone, CreateEvent,
     PersistEvent, rows, world
<1>3. CASE PollStep
  BY <1>3 DEF PollStep, PollBegin, PollNext, PollEnd, PollNoReply, PollReply, PollConsensus,
     PollConverge, PollAnnounce, PollLoad, PollJudge, PollNudge, PollExpire, PollEscalate,
     PollNotice, PollRecord, rows, world
<1>4. CASE Failure
  BY <1>4 DEF Failure, Crash, CreateEventFails, PollCheckFails, PollNotifyFails,
     OutreachFails, Reach, rows, world
<1>5. CASE Tick \/ Taps
  BY <1>5 DEF Tick, Taps, Tap, rows, world
<1> QED
  BY <1>1, <1>2, <1>3, <1>4, <1>5 DEF Next

LEMMA LifecycleStep ==
    TypeOK /\ TypeOK' /\ IndInv /\ [Next]_vars => [Lifecycle!Next]_(Lifecycle!vars)
<1> DEFINE agreed == [r \in Requests |-> Agreed(r)]
<1> SUFFICES ASSUME TypeOK, TypeOK', IndInv, [Next]_vars
             PROVE [Lifecycle!Next]_(Lifecycle!vars)
  OBVIOUS
<1>1. CASE Next /\ ~UNCHANGED status
  <2>1. UNCHANGED <<agreed, calendar>>
    BY <1>1, OneThingAtATime DEF Agreed, Accepts
  <2>2. PICK q \in Requests, to \in Statuses : StatusMove(q, to)
    BY <1>1, StatusWritten
  <2>3. <<status[q], to>> \in Lifecycle!Edge
    BY <2>2 DEF StatusMove, Transitions, Lifecycle!Edge, IndInv, NeverParked, TypeOK, RowsOK,
       Statuses
  <2>4. to \in Lifecycle!Phases
    BY <2>2 DEF StatusMove, Statuses, Lifecycle!Phases
  <2>5. to = "converged" => agreed[q] # {}
    BY <2>2 DEF StatusMove, IndInv, FoundAgreed
  <2>6. Lifecycle!Advance(q, to)
    BY <2>1, <2>2, <2>3, <2>5 DEF StatusMove, Lifecycle!Advance
  <2> QED
    BY <2>4, <2>6 DEF Lifecycle!Next
<1>2. CASE Next /\ ~UNCHANGED calendar
  <2>1. UNCHANGED <<agreed, status>>
    BY <1>2, OneThingAtATime DEF Agreed, Accepts
  <2>2. CreateEvent /\ ownerPc = "event" /\ ownerReq \in Requests
    BY <1>2, CalendarWritten DEF CreateEvent, TypeOK, OwnerOK
  <2>3. PICK s \in EventSlot(ownerReq, ownerSlot) :
          calendar' = [calendar EXCEPT ![ownerReq] = Append(@, s)]
    BY <1>2, <2>2 DEF CreateEvent
  <2>4. s \in Slots
    BY <2>2, <2>3 DEF EventSlot, Best, TypeOK, RowsOK
  <2>5. calendar[ownerReq] = <<>> /\ status[ownerReq] = "booked"
    BY <2>2 DEF IndInv, BookingOpen
  <2>6. Append(calendar[ownerReq], s) = <<s>>
    BY <2>4, <2>5
  <2>7. Lifecycle!MakeEvent(ownerReq, s)
    BY <2>1, <2>3, <2>5, <2>6 DEF Lifecycle!MakeEvent
  <2> QED
    BY <2>2, <2>4, <2>7 DEF Lifecycle!Next
<1>3. CASE Next /\ UNCHANGED <<status, calendar>>
  <2>1. \A r \in Requests : UNCHANGED <<offered, votes[r]>> => UNCHANGED Agreed(r)
    BY DEF Agreed, Accepts
  <2>2. CASE UNCHANGED <<offered, votes>>
    BY <1>3, <2>2 DEF Lifecycle!vars, Agreed, Accepts
  <2>3. ASSUME ~UNCHANGED <<offered, votes>>
        PROVE \E q \in Requests : \A r \in Requests \ {q} : UNCHANGED Agreed(r)
    <3>2. ASSUME NEW q \in Requests, NEW p \in Participants, NEW s \in Slots, Tap(q, p, s)
          PROVE \A r \in Requests \ {q} : UNCHANGED Agreed(r)
      BY <2>1, <3>2 DEF Tap, RecordResponse, TypeOK, RowsOK
    <3>3. ASSUME NEW s \in Slots, PollRecord(s)
          PROVE pollReq \in Requests /\ \A r \in Requests \ {pollReq} : UNCHANGED Agreed(r)
      BY <2>1, <3>3 DEF PollRecord, RecordResponse, TypeOK, RowsOK, PollOK
    <3>4. ASSUME OwnerAddSlot
          PROVE ownerReq \in Requests /\ \A r \in Requests \ {ownerReq} : UNCHANGED Agreed(r)
      BY <3>4 DEF OwnerAddSlot, TypeOK, RowsOK, OwnerOK, Agreed, Accepts
    <3>5. UNCHANGED offered \/ OwnerAddSlot
      BY <1>3, OfferedWritten
    <3>6. OwnerAddSlot => UNCHANGED votes
      BY DEF OwnerAddSlot
    <3> QED
      BY <1>3, <2>3, <3>2, <3>3, <3>4, <3>5, <3>6, VotesWritten DEF Taps
  <2>4. ASSUME NEW q \in Requests, \A r \in Requests \ {q} : UNCHANGED Agreed(r)
        PROVE Lifecycle!Next
    <3>1. agreed' = [agreed EXCEPT ![q] = Agreed(q)']
      BY <2>4
    <3>2. Agreed(q)' \in SUBSET Slots
      BY DEF Agreed, TypeOK, RowsOK
    <3>3. Agreed(q) \subseteq Agreed(q)'
      BY <1>3, AgreedGrows DEF IndInv
    <3>4. Lifecycle!Agree(q, Agreed(q)')
      BY <1>3, <3>1, <3>3 DEF Lifecycle!Agree
    <3> QED
      BY <3>2, <3>4 DEF Lifecycle!Next
  <2> QED
    BY <2>2, <2>3, <2>4
<1>4. CASE UNCHANGED vars
  <2>1. UNCHANGED <<status, offered, votes, calendar>>
    BY <1>4 DEF vars, rows, world
  <2> QED
    BY <2>1 DEF Lifecycle!vars, Agreed, Accepts
<1> QED
  BY <1>1, <1>2, <1>3, <1>4

\* Every behaviour of the two threads, with all their failures, is one of the
\* lifecycle: the status graph is respected, a request converges only on an agreed
\* slot, acceptances stand, and an event is made once, for a booked request.
THEOREM Implements == Spec => LifecycleSpec
<1>1. Init => Lifecycle!Init
  BY LifecycleInit
<1>2. TypeOK /\ TypeOK' /\ IndInv /\ [Next]_vars => [Lifecycle!Next]_(Lifecycle!vars)
  BY LifecycleStep
<1> QED
  BY TypeCorrect, IndInvHolds, <1>1, <1>2, PTL DEF Spec, LifecycleSpec, Lifecycle!Spec

=============================================================================
