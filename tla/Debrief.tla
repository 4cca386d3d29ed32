------------------------------- MODULE Debrief --------------------------------
(***************************************************************************)
(* post_meeting_debrief: every five minutes, debrief the meetings that     *)
(* ended between fifteen and thirty minutes ago.  A meeting is sent in     *)
(* chunks, stored in the owner's session, then marked.                     *)
(*                                                                         *)
(* A tick is the period of the job.  A fire comes a moment after its tick, *)
(* so a meeting that ended n ticks ago ended n periods and a moment ago:   *)
(* the window, closed at both ends, holds the ages 3, 4 and 5.  Meetings   *)
(* are numbered as the calendar lists them.                                *)
(***************************************************************************)
EXTENDS Tables, Integers, FiniteSets

CONSTANTS
    Meetings,      \* 1..n
    Chunks,        \* chunks of the longest debrief
    DebriefFaults  \* "down", "list", "send", "refused", "db", "slow", "crash"

ASSUME MeetingAssumption == Meetings \subseteq Nat /\ Chunks \in Nat \ {0}

VARIABLES
    age,     \* age[m]: ticks since m ended, or NotOver
    worthy,  \* worthy[m]: is_prep_worthy
    due,     \* the fire of this tick is still to come
    dpc,     \* where the run is
    todo,    \* meetings of its window still to handle
    sent,    \* chunks sent of the meeting at hand
    copies,  \* copies[m]: debriefs of m that reached the owner, in part at
             \* least: none, one, or more (2)
    lost,    \* lost[m]: (ghost) fires in m's window that did not settle it
    cut,     \* (ghost) meetings whose debrief was cut off before the mark
    unmarked   \* (ghost) meetings whose mark a crash took back

debriefRun == <<dpc, todo, sent>>
debriefSeen == <<copies, lost, cut, unmarked>>
debriefVars == <<age, worthy, due, debriefRun, debriefSeen>>

NotOver == -1
DebriefFault(f) == f \in DebriefFaults
DebriefTables == [debriefed |-> {}]   \* debrief_state

WindowStart == 3
WindowEnd == 5
TooOld == WindowEnd + 1  \* (bound) ages are not told apart from here on

(* (mutant) The window ends five minutes earlier.                          *)
NarrowWindow == {m \in Meetings : age[m] \in WindowStart..(WindowEnd - 1)}

InWindow == {m \in Meetings : age[m] \in WindowStart..WindowEnd}

(* The meetings one of whose three fires is that of this tick.             *)
FiresDue == {m \in Meetings : age[m] \in 3..5}
Lose(S) == lost' = [m \in Meetings |-> IF m \in S /\ lost[m] < 3 THEN lost[m] + 1 ELSE lost[m]]

DebriefIdle ==
    /\ age = [m \in Meetings |-> NotOver] /\ worthy = [m \in Meetings |-> TRUE] /\ due = FALSE
    /\ dpc = "idle" /\ todo = {} /\ sent = 0
    /\ copies = [m \in Meetings |-> 0] /\ lost = [m \in Meetings |-> 0] /\ cut = {} /\ unmarked = {}

-----------------------------------------------------------------------------
MeetingEnds(m, isWorthy) ==
    /\ age[m] = NotOver
    /\ age' = [age EXCEPT ![m] = 0] /\ worthy' = [worthy EXCEPT ![m] = isWorthy]
    /\ UNCHANGED <<tables, due, debriefRun, debriefSeen>>

(* A run may outlast a tick, when the chief of staff takes the debrief in. *)
DebriefTick ==
    /\ ~due /\ (dpc = "idle" \/ DebriefFault("slow"))
    /\ due' = TRUE
    /\ age' = [m \in Meetings |-> IF age[m] \in 0..WindowEnd THEN age[m] + 1 ELSE age[m]]
    /\ UNCHANGED <<tables, worthy, debriefRun, debriefSeen>>

(* No fire: the process is down, or the last run is not over.              *)
FireLost ==
    /\ due /\ due' = FALSE
    /\ DebriefFault("down") \/ dpc # "idle"
    /\ Lose(FiresDue)
    /\ UNCHANGED <<tables, age, worthy, debriefRun, copies, cut, unmarked>>

(* The calendar is read, or cannot be: an exception, or, when credentials  *)
(* have expired, an empty day.                                             *)
DebriefStarts ==
    /\ due /\ due' = FALSE /\ dpc = "idle"
    /\ \/ dpc' = "next" /\ todo' = InWindow /\ UNCHANGED lost
       \/ DebriefFault("list") /\ UNCHANGED <<dpc, todo>> /\ Lose(FiresDue)
    /\ UNCHANGED <<tables, age, worthy, sent, copies, cut, unmarked>>

This == CHOOSE m \in todo : \A n \in todo : m <= n

DebriefRunOver == dpc' = "idle" /\ todo' = {} /\ sent' = 0

(* An exception ends the run, for the meetings after this one as well.     *)
DebriefAborts ==
    /\ DebriefRunOver /\ Lose(todo)
    /\ cut' = cut \union {This}

SkipDebriefed ==
    /\ dpc = "next" /\ todo # {} /\ sent = 0 /\ This \in conn.debriefed
    /\ todo' = todo \ {This}
    /\ UNCHANGED <<tables, age, worthy, due, dpc, sent, debriefSeen>>

(* _send_body.  A chunk that is refused is not noticed; one that raises    *)
(* may have gone out all the same.                                         *)
Copied == [copies EXCEPT ![This] = IF sent > 0 THEN @ ELSE IF @ = 0 THEN 1 ELSE 2]

SendChunk ==
    /\ dpc = "next" /\ todo # {} /\ worthy[This] /\ This \notin conn.debriefed /\ sent < Chunks
    /\ \/ /\ sent' = sent + 1
          /\ copies' \in {Copied} \union (IF DebriefFault("refused") THEN {copies} ELSE {})
          /\ UNCHANGED <<dpc, todo, lost, cut>>
       \/ /\ DebriefFault("send")
          /\ copies' \in {copies, Copied}
          /\ DebriefAborts
    /\ UNCHANGED <<tables, age, worthy, due, unmarked>>

(* (mutant) The mark waits for a later commit.                             *)
MarkLater == Write([conn EXCEPT !.debriefed = @ \union {This}])

(* _mark_debriefed                                                         *)
Mark == WriteAndCommit([conn EXCEPT !.debriefed = @ \union {This}])

(* The meeting is marked, when all of its chunks are sent or none is due.  *)
MarkDebriefed ==
    /\ dpc = "next" /\ todo # {} /\ This \notin conn.debriefed /\ (worthy[This] => sent > 0)
    /\ \/ /\ Mark /\ todo' = todo \ {This} /\ sent' = 0
          /\ UNCHANGED <<dpc, lost, cut>>
       \/ /\ DebriefFault("db") /\ DebriefAborts
          /\ UNCHANGED tables \/ Write([conn EXCEPT !.debriefed = @ \union {This}])
    /\ UNCHANGED <<age, worthy, due, copies, unmarked>>

DebriefEnds ==
    /\ dpc = "next" /\ todo = {}
    /\ DebriefRunOver
    /\ UNCHANGED <<tables, age, worthy, due, debriefSeen>>

DebriefOthersCommit == OthersCommit /\ UNCHANGED debriefVars

(* The process is up again before the next fire; one that is not loses it. *)
DebriefCrash ==
    /\ DebriefFault("crash") /\ Reopen
    /\ DebriefRunOver /\ Lose(todo)
    /\ cut' = IF sent > 0 THEN cut \union {This} ELSE cut
    /\ unmarked' = unmarked \union (conn.debriefed \ disk.debriefed)
    /\ UNCHANGED <<age, worthy, due, copies>>

DebriefNext ==
    \/ \E m \in Meetings, isWorthy \in BOOLEAN : MeetingEnds(m, isWorthy)
    \/ DebriefTick \/ FireLost \/ DebriefStarts \/ SkipDebriefed \/ SendChunk
    \/ MarkDebriefed \/ DebriefEnds \/ DebriefOthersCommit \/ DebriefCrash

-----------------------------------------------------------------------------
DebriefTypeOK ==
    /\ conn.debriefed \subseteq Meetings /\ disk.debriefed \subseteq Meetings
    /\ age \in [Meetings -> NotOver..TooOld] /\ worthy \in [Meetings -> BOOLEAN]
    /\ due \in BOOLEAN /\ dpc \in {"idle", "next"}
    /\ todo \subseteq Meetings /\ sent \in 0..Chunks
    /\ copies \in [Meetings -> 0..2] /\ lost \in [Meetings -> 0..3] /\ cut \subseteq Meetings
    /\ unmarked \subseteq Meetings

(* The owner gets the debrief of a meeting once, unless one was cut off    *)
(* between its first chunk and the commit of its mark.                     *)
DebriefedOnce == \A m \in Meetings : copies[m] > 1 => m \in cut

(* The width of the window gives every meeting three fires: one that is    *)
(* too old and was never marked lost all of them, to downtime, to a run    *)
(* that was not over, or to an exception, be it of another meeting.        *)
ThreeChances ==
    \A m \in Meetings :
        age[m] > WindowEnd /\ m \notin conn.debriefed \union todo \union unmarked => lost[m] = 3

-----------------------------------------------------------------------------
(* What makes the two inductive (PollingProofs).  A meeting whose debrief  *)
(* went out whole is marked on disk, or at hand.  Every fire of its window *)
(* that is over was lost, unless it is the one the run works on.           *)
DebriefRunInv ==
    /\ \A t \in {conn, disk} : "debriefed" \in DOMAIN t
    /\ disk.debriefed \subseteq conn.debriefed
    /\ dpc = "idle" => todo = {}
    /\ todo = {} => sent = 0

SentIsMarked ==
    \A m \in Meetings : copies[m] > 0 /\ m \notin cut =>
        m \in disk.debriefed \/ (sent > 0 /\ m = This)

FiresPast(m) ==
    IF age[m] < WindowStart THEN 0
    ELSE IF age[m] > WindowEnd THEN 3
    ELSE age[m] - WindowStart + (IF due THEN 0 ELSE 1)

FiresAccounted ==
    \A m \in Meetings \ (conn.debriefed \union unmarked) :
        lost[m] + (IF m \in todo THEN 1 ELSE 0) >= FiresPast(m)

DebriefInv ==
    /\ DebriefTypeOK /\ DebriefRunInv /\ SentIsMarked /\ FiresAccounted
    /\ DebriefedOnce /\ ThreeChances
==============================================================================
