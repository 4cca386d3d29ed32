----------------------------- MODULE InboundEmail -----------------------------
(***************************************************************************)
(* inbound_email_check: every few minutes, search for the mail since the   *)
(* last check, mark each message as processed, alert the owner to those of *)
(* urgent senders, and move the start of the next window.                  *)
(*                                                                         *)
(* Mail is numbered in order of arrival; a time is the number of messages  *)
(* that have arrived by then.  Gmail takes times in whole seconds, so a    *)
(* window may start one message early.  Of a message, its From header      *)
(* matters: whether the address is in the list of urgent senders, and      *)
(* whether the header is that address alone or "Name <address>".           *)
(***************************************************************************)
EXTENDS Tables, Integers, Sequences, FiniteSets

CONSTANTS
    MaxMail,    \* (bound) messages
    Page,       \* messages a search returns at most
    MailFaults  \* "db", "auth", "search", "send", "refused", "crash"

ASSUME PageAssumption == Page \in Nat \ {0} /\ MaxMail \in Nat

VARIABLES
    inbox,   \* the From headers of the messages
    mpc,     \* where the run is
    first,   \* the start of its window
    batch,   \* messages still to handle
    cur,     \* the message an alert is being sent for, or 0
    upto,    \* poll_start_ts
    missed,  \* (ghost) mail before poll_start_ts that the run does not see
    alerted, \* alerted[m]: alerts of m the owner got: none, one, or more (2)
    excused, \* (ghost) mail whose alert something went wrong with
    undone   \* (ghost) mail whose mark a crash took back after the alert

mailRun == <<mpc, first, batch, cur, upto, missed>>
mailSeen == <<alerted, excused, undone>>
mailVars == <<inbox, mailRun, mailSeen>>

NoRow == -1
MailFault(f) == f \in MailFaults
Arrived == Len(inbox)

(* Not of the list; the address of one of the list; the same after a name. *)
Senders == {"other", "address", "named"}

(* gmail_poll_state and processed_message_ids.                             *)
MailTables == [since |-> NoRow, marked |-> {}]

MailIdle ==
    /\ inbox = <<>> /\ mpc = "idle" /\ first = 0 /\ batch = {} /\ cur = 0
    /\ upto = 0 /\ missed = {}
    /\ alerted = [m \in 1..MaxMail |-> 0] /\ excused = {} /\ undone = {}

MailRunOver ==
    mpc' = "idle" /\ first' = 0 /\ batch' = {} /\ cur' = 0 /\ upto' = 0 /\ missed' = {}

-----------------------------------------------------------------------------
Arrive(from) ==
    /\ Arrived < MaxMail
    /\ inbox' = Append(inbox, from)
    /\ UNCHANGED <<tables, mailRun, mailSeen>>

(* The first window of all starts one interval ago; nothing is promised of *)
(* mail from before.                                                       *)
CheckStarts ==
    /\ mpc = "idle" /\ mpc' = "search"
    /\ \E w \in 0..Arrived : first' = IF conn.since = NoRow THEN w ELSE conn.since
    /\ missed' = IF conn.since = NoRow THEN 1..first' ELSE {}
    /\ UNCHANGED <<tables, inbox, batch, cur, upto, mailSeen>>

Newest(S) == {m \in S : Cardinality({n \in S : n >= m}) <= Page}

(* The newest page of the window; nothing at all when the credentials have *)
(* expired, which looks like a quiet inbox.                                *)
Search ==
    /\ mpc = "search" /\ mpc' = "clock" /\ upto' = Arrived
    /\ \E from \in {first, first - 1} \intersect Nat :
        LET window == (from + 1)..Arrived IN
        \/ batch' = Newest(window) /\ missed' = missed \union (window \ Newest(window))
        \/ MailFault("auth") /\ batch' = {} /\ missed' = missed \union window
    /\ UNCHANGED <<tables, inbox, first, cur, mailSeen>>

ReadClock ==
    /\ mpc = "clock" /\ mpc' = "handle"
    /\ upto' = Arrived /\ missed' = missed \union (upto + 1)..Arrived
    /\ UNCHANGED <<tables, inbox, first, batch, cur, mailSeen>>

Newer == CHOOSE m \in batch : \A n \in batch : n <= m

SkipMarked ==
    /\ mpc = "handle" /\ batch # {} /\ Newer \in conn.marked
    /\ batch' = batch \ {Newer}
    /\ UNCHANGED <<tables, inbox, mpc, first, cur, upto, missed, mailSeen>>

(* The header as it stands is compared with each address of the list, and  *)
(* its end with each domain: no header that closes with ">" is found.      *)
IsUrgentSender(from) == from = "address"

(* The mark comes before the alert and is not committed.                   *)
MarkNew ==
    /\ mpc = "handle" /\ batch # {} /\ Newer \notin conn.marked
    /\ batch' = batch \ {Newer}
    /\ Write([conn EXCEPT !.marked = @ \union {Newer}])
    /\ IF IsUrgentSender(inbox[Newer]) THEN mpc' = "alert" /\ cur' = Newer ELSE UNCHANGED <<mpc, cur>>
    /\ UNCHANGED <<inbox, first, upto, missed, mailSeen>>

Alerted == [alerted EXCEPT ![cur] = IF @ = 0 THEN 1 ELSE 2]

(* Sent; or refused, which nobody checks; or an exception, after which the *)
(* message may have gone out all the same, and which ends the run.         *)
SendAlert ==
    /\ mpc = "alert"
    /\ \/ /\ mpc' = "handle" /\ cur' = 0
          /\ \/ alerted' = Alerted /\ UNCHANGED excused
             \/ MailFault("refused") /\ excused' = excused \union {cur} /\ UNCHANGED alerted
          /\ UNCHANGED <<first, batch, upto, missed>>
       \/ /\ MailFault("send") /\ MailRunOver
          /\ alerted' \in {alerted, Alerted}
          /\ excused' = excused \union {cur}
    /\ UNCHANGED <<tables, inbox, undone>>

(* An exception of the search or of a statement ends the run.              *)
CheckFails ==
    /\ \/ MailFault("search") /\ mpc = "search"
       \/ MailFault("db") /\ mpc = "handle"
    /\ MailRunOver
    /\ UNCHANGED <<tables, inbox, mailSeen>>

(* (mutant) The next window starts where this run ends.                    *)
SinceTheEnd == Arrived

(* poll_start_ts                                                           *)
NextSince == upto

(* The window moves, and all is committed; a failed commit leaves it on    *)
(* the connection.                                                         *)
Advance ==
    /\ mpc = "handle" /\ batch = {}
    /\ \/ /\ WriteAndCommit([conn EXCEPT !.since = NextSince]) /\ mpc' = "prune"
          /\ UNCHANGED <<first, batch, cur, upto, missed>>
       \/ MailFault("db") /\ Write([conn EXCEPT !.since = NextSince]) /\ MailRunOver
    /\ excused' = excused \union missed
    /\ UNCHANGED <<inbox, alerted, undone>>

(* (mutant) Every mark is old.                                             *)
PrunableAll == conn.marked

(* A mark of a week ago is of mail before the last check.                  *)
Prunable == {m \in conn.marked : m < conn.since}

Prune ==
    /\ mpc = "prune" /\ MailRunOver
    /\ \E old \in SUBSET Prunable : WriteAndCommit([conn EXCEPT !.marked = @ \ old])
    /\ UNCHANGED <<inbox, mailSeen>>

MailOthersCommit == OthersCommit /\ UNCHANGED mailVars

MailCrash ==
    /\ MailFault("crash") /\ Reopen /\ MailRunOver
    /\ undone' = undone \union {m \in conn.marked \ disk.marked : alerted[m] > 0}
    /\ excused' = excused \union ({cur} \intersect disk.marked)
    /\ UNCHANGED <<inbox, alerted>>

MailNext ==
    \/ \E from \in Senders : Arrive(from)
    \/ CheckStarts \/ Search \/ ReadClock \/ SkipMarked \/ MarkNew \/ SendAlert
    \/ CheckFails \/ Advance \/ Prune \/ MailOthersCommit \/ MailCrash

-----------------------------------------------------------------------------
MailTypeOK ==
    /\ \A t \in {conn, disk} : t.since \in 0..MaxMail \union {NoRow} /\ t.marked \subseteq 1..Arrived
    /\ inbox \in Seq(Senders) /\ Arrived <= MaxMail
    /\ mpc \in {"idle", "search", "clock", "handle", "alert", "prune"}
    /\ batch \subseteq 1..Arrived /\ cur \in 0..Arrived /\ missed \subseteq 1..Arrived
    /\ first \in 0..Arrived /\ upto \in 0..Arrived
    /\ alerted \in [1..MaxMail -> 0..2] /\ excused \subseteq 1..Arrived /\ undone \subseteq 1..Arrived

(* The owner is alerted to a message once: windows overlap, runs fail half *)
(* way and marks are pruned, and only a crash that takes back a mark whose *)
(* alert went out can repeat it.                                           *)
AlertedOnce == \A m \in 1..Arrived : alerted[m] > 1 => m \in undone

(* No urgent message is passed over in silence: one that lies before the   *)
(* window, or is marked and not being alerted, was alerted, unless it was  *)
(* beyond the page, came in between the search and the clock or while the  *)
(* credentials had expired, or its own alert was lost; or unless its From  *)
(* header has a name, which hides any sender of the list (ListedIsTold).   *)
Settled(m) == alerted[m] > 0 \/ m \in excused \/ inbox[m] \in {"other", "named"}
NothingPassedOver ==
    \A m \in 1..Arrived : m <= conn.since \/ m \in conn.marked \ {cur} => Settled(m)

(* A listed sender is told of, by address or by domain, whatever the From  *)
(* header says beside the address: what inbound_email_check.py:16 and      *)
(* cosinabox-plan-4a-design.md:263 say.  The code breaks it: "Name         *)
(* <address>" neither equals the address nor ends with its domain.         *)
ListedIsTold ==
    \A m \in 1..Arrived :
        m \in conn.marked \ {cur} =>
            inbox[m] = "other" \/ alerted[m] > 0 \/ m \in excused

-----------------------------------------------------------------------------
(* What makes the two inductive (PollingProofs).  The disk lags behind the *)
(* connection, in the marks and in the start of the window alike; a mark   *)
(* that is gone was pruned, and then the window on disk is past it.  While *)
(* a run is on, what it may still alert to lies in its window, and what    *)
(* lies before the time it read is settled, in hand, or known to be missed.*)
MailLag ==
    /\ \A t \in {conn, disk} : {"since", "marked"} \subseteq DOMAIN t
    /\ disk.marked \subseteq conn.marked
    /\ disk.since <= conn.since /\ conn.since <= Arrived

MailRunInv ==
    /\ mpc = "alert" <=> cur # 0
    /\ mpc = "alert" => cur \in conn.marked /\ (alerted[cur] = 0 \/ cur \in undone)
    /\ mpc \in {"search", "clock", "handle", "alert"} => first >= conn.since
    /\ mpc \in {"clock", "handle", "alert"} => \A m \in batch : m >= first
    /\ mpc \in {"handle", "alert"} => upto >= conn.since

OnRecord ==
    \A m \in 1..MaxMail : alerted[m] > 0 /\ m \notin undone => m \in conn.marked \/ m < disk.since

InHand ==
    /\ mpc = "search" => \A m \in 1..first : Settled(m) \/ m \in missed
    /\ mpc \in {"clock", "handle", "alert"} =>
          \A m \in 1..upto : Settled(m) \/ m \in batch \union missed \union {cur}

MailInv ==
    /\ MailTypeOK /\ MailLag /\ MailRunInv /\ OnRecord /\ InHand
    /\ AlertedOnce /\ NothingPassedOver
==============================================================================
