----------------------------- MODULE PollingProofs -----------------------------
(***************************************************************************)
(* Proofs about the jobs that poll: the inbound mail check, the debrief,   *)
(* the extraction and the research digest, each for any values of its      *)
(* constants.  What is lost with a crash is what the disk lacks, so each   *)
(* argument follows a row from the connection to the disk.                 *)
(***************************************************************************)
EXTENDS InboundEmail, Debrief, Extraction, Digest, WellFoundedInduction, NaturalsInduction, TLAPS

-----------------------------------------------------------------------------
(* The jobs take the newest message, the first meeting, the first source:  *)
(* the least or greatest of a set of numbers.                              *)
LEMMA LeastOf ==
  ASSUME NEW S \in SUBSET Nat, S # {}
  PROVE  \E m \in S : \A n \in S : m <= n
  <1>1. IsWellFoundedOn(OpToRel(<, Nat), Nat)
    BY NatLessThanWellFounded
  <1>2. PICK m \in S : \A n \in S : <<n, m>> \notin OpToRel(<, Nat)
    BY <1>1, WFMin
  <1>3. \A n \in S : ~(n < m)
    BY <1>2 DEF OpToRel
  <1> QED BY <1>3

LEMMA GreatestOf ==
  ASSUME NEW N \in Nat, NEW S \in SUBSET (0..N), S # {}
  PROVE  \E m \in S : \A n \in S : n <= m
  <1> DEFINE T == {n \in Nat : \A s \in S : s <= n}
  <1>1. N \in T /\ T \subseteq Nat
    OBVIOUS
  <1>2. PICK m \in T : \A n \in T : m <= n
    BY <1>1, LeastOf
  <1>3. m \in S
    <2>1. SUFFICES ASSUME m \notin S PROVE FALSE
      OBVIOUS
    <2>2. \A s \in S : s \in Nat /\ s < m
      BY <1>2, <2>1
    <2>3. m \in Nat /\ m - 1 \in Nat
      <3>1. PICK s \in S : TRUE
        OBVIOUS
      <3>2. s \in Nat /\ s < m /\ m \in Nat
        BY <2>2
      <3> QED BY <3>2
    <2>4. m - 1 \in T
      BY <1>2, <2>2, <2>3
    <2> QED BY <1>2, <2>4
  <1> QED BY <1>2, <1>3

(* A statement changes one field of the record of tables.                  *)
LEMMA FieldSet ==
  ASSUME NEW t, NEW f \in DOMAIN t, NEW v
  PROVE  LET u == [t EXCEPT ![f] = v] IN
         /\ DOMAIN u = DOMAIN t /\ u[f] = v
         /\ \A g \in DOMAIN t : g # f => u[g] = t[g]
  OBVIOUS

LEMMA CreatedIsAtRest == ASSUME NEW rows, Created(rows) PROVE AtRest(rows)
  BY DEF Created, AtRest

-----------------------------------------------------------------------------
(***************************************************************************)
(* The mail check.  A mark leaves the tables in two ways: pruned, when it  *)
(* is older than the window on disk, which no later window reaches back    *)
(* past; or taken back by a crash, which the ghost undone notes.           *)
(***************************************************************************)
MailSpec == MailIdle /\ Created(MailTables) /\ [][MailNext]_<<tables, mailVars>>

LEMMA MailInvInit == MailIdle /\ AtRest(MailTables) => MailInv
  <1> SUFFICES ASSUME MailIdle, AtRest(MailTables) PROVE MailInv
    OBVIOUS
  <1>1. \A t \in {conn, disk} : /\ {"since", "marked"} \subseteq DOMAIN t
                                /\ t.since = NoRow /\ t.marked = {}
    BY DEF AtRest, MailTables
  <1>2. /\ inbox = <<>> /\ Arrived = 0 /\ mpc = "idle" /\ first = 0 /\ batch = {} /\ cur = 0
        /\ upto = 0 /\ missed = {} /\ excused = {} /\ undone = {}
        /\ alerted = [m \in 1..MaxMail |-> 0]
    BY DEF MailIdle, Arrived
  <1>3. MailTypeOK
    BY <1>1, <1>2, PageAssumption DEF MailTypeOK, NoRow
  <1>4. MailLag /\ MailRunInv /\ OnRecord /\ InHand /\ AlertedOnce /\ NothingPassedOver
    BY <1>1, <1>2 DEF MailLag, MailRunInv, OnRecord, InHand, AlertedOnce, NothingPassedOver, NoRow
  <1> QED BY <1>3, <1>4 DEF MailInv

LEMMA NewerIsOne ==
  ASSUME MailTypeOK, batch # {} PROVE Newer \in batch /\ Newer \in 1..Arrived
  <1>1. Arrived \in Nat /\ batch \in SUBSET (0..Arrived)
    BY DEF MailTypeOK, Arrived
  <1>2. \E m \in batch : \A n \in batch : n <= m
    BY <1>1, GreatestOf
  <1>3. Newer \in batch
    BY <1>2 DEF Newer
  <1> QED BY <1>3 DEF MailTypeOK

(* The run is over, and nothing is in hand but what is settled.            *)
LEMMA MailRunOverKeeps ==
  ASSUME MailRunOver
  PROVE  MailRunInv' /\ InHand'
  BY DEF MailRunOver, MailRunInv, InHand

LEMMA ArriveKeeps == ASSUME MailInv, NEW from \in Senders, Arrive(from) PROVE MailInv'
  <1> USE DEF MailInv
  <1>1. /\ UNCHANGED <<conn, disk, mpc, first, batch, cur, upto, missed, alerted, excused, undone>>
        /\ inbox' \in Seq(Senders) /\ Arrived' = Arrived + 1 /\ Arrived' <= MaxMail
        /\ \A m \in 1..Arrived : inbox'[m] = inbox[m]
        /\ Arrived \in Nat /\ MaxMail \in Nat
    BY PageAssumption DEF Arrive, tables, mailRun, mailSeen, MailTypeOK, Arrived
  <1>2. \A m \in 1..Arrived' : m \in 1..Arrived \/ m = Arrived + 1
    BY <1>1
  <1>3. alerted[Arrived + 1] = 0 \/ Arrived + 1 \in undone
    BY <1>1 DEF MailTypeOK, MailLag, OnRecord, NoRow
  <1>4. MailTypeOK'
    BY <1>1 DEF MailTypeOK, NoRow
  <1>5. MailLag' /\ MailRunInv' /\ OnRecord'
    BY <1>1 DEF MailLag, MailRunInv, OnRecord, MailTypeOK, NoRow
  <1>6. \A m \in 1..Arrived : Settled(m) => Settled(m)'
    BY <1>1 DEF Settled
  <1>7. InHand'
    BY <1>1, <1>6 DEF InHand, MailTypeOK
  <1>8. AlertedOnce'
    BY <1>1, <1>2, <1>3 DEF AlertedOnce, MailTypeOK
  <1>9. NothingPassedOver'
    BY <1>1, <1>2, <1>6 DEF NothingPassedOver, MailTypeOK, MailLag, NoRow
  <1> QED BY <1>4, <1>5, <1>7, <1>8, <1>9

LEMMA CheckStartsKeeps == ASSUME MailInv, CheckStarts PROVE MailInv'
  <1> USE DEF MailInv
  <1>1. /\ UNCHANGED <<conn, disk, inbox, batch, cur, upto, alerted, excused, undone>>
        /\ Arrived' = Arrived /\ Arrived \in Nat /\ mpc = "idle" /\ mpc' = "search"
    BY DEF CheckStarts, tables, mailSeen, MailTypeOK, Arrived
  <1>2. /\ first' \in 0..Arrived /\ first' >= conn.since
        /\ conn.since = NoRow => missed' = 1..first'
        /\ conn.since # NoRow => first' = conn.since /\ missed' = {}
    BY <1>1 DEF CheckStarts, MailTypeOK, MailLag, NoRow
  <1>3. MailTypeOK'
    BY <1>1, <1>2 DEF MailTypeOK
  <1>4. MailLag' /\ MailRunInv' /\ OnRecord' /\ AlertedOnce' /\ NothingPassedOver'
    BY <1>1, <1>2 DEF MailLag, MailRunInv, OnRecord, AlertedOnce, NothingPassedOver, Settled
  <1>5. InHand'
    BY <1>1, <1>2 DEF InHand, NothingPassedOver, Settled
  <1> QED BY <1>3, <1>4, <1>5

LEMMA SearchKeeps == ASSUME MailInv, Search PROVE MailInv'
  <1> USE DEF MailInv
  <1>1. /\ UNCHANGED <<conn, disk, inbox, first, cur, alerted, excused, undone>>
        /\ Arrived' = Arrived /\ Arrived \in Nat /\ mpc = "search" /\ mpc' = "clock"
        /\ upto' = Arrived /\ first \in 0..Arrived
    BY DEF Search, tables, mailSeen, MailTypeOK, Arrived
  <1>2. PICK from \in {first, first - 1} \intersect Nat :
            /\ batch' \subseteq (from + 1)..Arrived
            /\ batch' \union missed' = missed \union (from + 1)..Arrived
    BY DEF Search, Newest
  <1>a. /\ from \in Nat /\ from + 1 >= first /\ (from + 1)..Arrived \subseteq 1..Arrived
        /\ missed \subseteq 1..Arrived
        /\ \A m \in (from + 1)..Arrived : m >= first
        /\ \A m \in 1..Arrived : m <= first \/ m \in (from + 1)..Arrived
    BY <1>1 DEF MailTypeOK
  <1>3. /\ batch' \subseteq 1..Arrived /\ missed' \subseteq 1..Arrived
        /\ \A m \in batch' : m >= first
        /\ missed \subseteq batch' \union missed'
        /\ \A m \in 1..Arrived : m <= first \/ m \in batch' \union missed'
    <2> DEFINE window == (from + 1)..Arrived
               all == 1..Arrived
    <2>1. /\ batch' \subseteq window /\ batch' \union missed' = missed \union window
          /\ window \subseteq all /\ missed \subseteq all
          /\ \A m \in window : m >= first
          /\ \A m \in all : m <= first \/ m \in window
      BY <1>2, <1>a
    <2> HIDE DEF window, all
    <2>2. /\ batch' \subseteq all /\ missed' \subseteq all
          /\ \A m \in batch' : m >= first
          /\ missed \subseteq batch' \union missed'
          /\ \A m \in all : m <= first \/ m \in batch' \union missed'
      BY <2>1
    <2> QED BY <2>2 DEF all
  <1>4. MailTypeOK'
    BY <1>1, <1>3 DEF MailTypeOK
  <1>5. MailLag' /\ MailRunInv' /\ OnRecord' /\ AlertedOnce' /\ NothingPassedOver'
    BY <1>1, <1>3 DEF MailLag, MailRunInv, OnRecord, AlertedOnce, NothingPassedOver, Settled
  <1>6. InHand'
    BY <1>1, <1>3 DEF InHand, Settled
  <1> QED BY <1>4, <1>5, <1>6

LEMMA ReadClockKeeps == ASSUME MailInv, ReadClock PROVE MailInv'
  <1> USE DEF MailInv
  <1>1. /\ UNCHANGED <<conn, disk, inbox, first, batch, cur, alerted, excused, undone>>
        /\ Arrived' = Arrived /\ Arrived \in Nat /\ mpc = "clock" /\ mpc' = "handle"
        /\ upto' = Arrived /\ upto \in 0..Arrived /\ missed' = missed \union (upto + 1)..Arrived
    BY DEF ReadClock, tables, mailSeen, MailTypeOK, Arrived
  <1>2. MailTypeOK'
    BY <1>1 DEF MailTypeOK
  <1>3. MailLag' /\ MailRunInv' /\ OnRecord' /\ AlertedOnce' /\ NothingPassedOver'
    BY <1>1 DEF MailLag, MailRunInv, OnRecord, AlertedOnce, NothingPassedOver, Settled
  <1>4. InHand'
    BY <1>1 DEF InHand, Settled
  <1> QED BY <1>2, <1>3, <1>4

LEMMA SkipMarkedKeeps == ASSUME MailInv, SkipMarked PROVE MailInv'
  <1> USE DEF MailInv
  <1>1. /\ UNCHANGED <<conn, disk, inbox, mpc, first, cur, upto, missed, alerted, excused, undone>>
        /\ Arrived' = Arrived /\ mpc = "handle" /\ batch' = batch \ {Newer} /\ cur = 0
        /\ Newer \in conn.marked
    BY DEF SkipMarked, tables, mailSeen, MailRunInv, Arrived
  <1>2. Newer \in 1..Arrived
    BY NewerIsOne DEF SkipMarked
  <1>3. Settled(Newer)
    BY <1>1, <1>2 DEF NothingPassedOver
  <1>4. MailTypeOK'
    BY <1>1 DEF MailTypeOK
  <1>5. MailLag' /\ MailRunInv' /\ OnRecord' /\ AlertedOnce' /\ NothingPassedOver'
    BY <1>1 DEF MailLag, MailRunInv, OnRecord, AlertedOnce, NothingPassedOver, Settled
  <1>6. InHand'
    BY <1>1, <1>3 DEF InHand, Settled
  <1> QED BY <1>4, <1>5, <1>6

LEMMA MarkNewKeeps == ASSUME MailInv, MarkNew PROVE MailInv'
  <1> USE DEF MailInv
  <1>1. /\ UNCHANGED <<disk, inbox, first, upto, missed, alerted, excused, undone>>
        /\ Arrived' = Arrived /\ mpc = "handle" /\ batch' = batch \ {Newer} /\ cur = 0
        /\ Newer \notin conn.marked
        /\ \/ inbox[Newer] = "address" /\ mpc' = "alert" /\ cur' = Newer
           \/ inbox[Newer] # "address" /\ mpc' = mpc /\ cur' = cur
    BY DEF MarkNew, IsUrgentSender, Write, mailSeen, MailRunInv, Arrived
  <1>2. DOMAIN conn' = DOMAIN conn /\ conn'.since = conn.since
        /\ conn'.marked = conn.marked \union {Newer}
    BY FieldSet DEF MarkNew, Write, MailLag
  <1>3. Newer \in batch /\ Newer \in 1..Arrived /\ Newer # 0
    BY NewerIsOne DEF MarkNew
  <1>4. alerted[Newer] = 0 \/ Newer \in undone
    <2>1. /\ conn.since \in Int /\ disk.since \in Int /\ first \in Int /\ Newer \in Int
          /\ disk.since <= conn.since /\ conn.since <= first /\ first <= Newer
      BY <1>1, <1>3 DEF MailLag, MailRunInv, MailTypeOK, NoRow
    <2>2. ~(Newer < disk.since) /\ Newer \in 1..MaxMail
      BY <1>3, <2>1, PageAssumption DEF MailTypeOK, Arrived
    <2>3. alerted[Newer] \in 0..2
      BY <2>2 DEF MailTypeOK
    <2> QED BY <1>1, <2>2, <2>3 DEF OnRecord
  <1>5. MailTypeOK'
    BY <1>1, <1>2, <1>3 DEF MailTypeOK
  <1>6. MailLag' /\ OnRecord' /\ AlertedOnce'
    BY <1>1, <1>2 DEF MailLag, OnRecord, AlertedOnce
  <1>7. MailRunInv'
    BY <1>1, <1>2, <1>3, <1>4 DEF MailRunInv
  <1>8. inbox[Newer] \in Senders
    BY <1>3 DEF MailTypeOK, Arrived
  <1>9. InHand' /\ NothingPassedOver'
    BY <1>1, <1>2, <1>3, <1>8 DEF InHand, NothingPassedOver, Settled, Senders
  <1> QED BY <1>5, <1>6, <1>7, <1>9

LEMMA SendAlertKeeps == ASSUME MailInv, SendAlert PROVE MailInv'
  <1> USE DEF MailInv
  <1>1. /\ UNCHANGED <<conn, disk, inbox, undone>> /\ Arrived' = Arrived
        /\ mpc = "alert" /\ cur \in 1..Arrived /\ cur' = 0 /\ mpc' \in {"idle", "handle"}
        /\ cur \in conn.marked /\ (alerted[cur] = 0 \/ cur \in undone)
        /\ Arrived \in Nat /\ Arrived <= MaxMail
    BY DEF SendAlert, tables, MailRunOver, MailRunInv, MailTypeOK, Arrived
  <1>2. /\ mpc' = "handle" => UNCHANGED <<first, batch, upto, missed>>
        /\ mpc' = "idle" => MailRunOver
        /\ alerted' = alerted \/ alerted' = Alerted
        /\ excused' = excused \/ excused' = excused \union {cur}
        /\ alerted' = Alerted \/ cur \in excused'
    BY DEF SendAlert, MailRunOver
  <1>a. /\ cur \in 1..MaxMail /\ alerted \in [1..MaxMail -> 0..2]
        /\ \A m \in 1..MaxMail : alerted[m] \in 0..2
        /\ \A m \in 1..Arrived : m \in 1..MaxMail
    BY <1>1, PageAssumption DEF MailTypeOK
  <1>b. /\ Alerted \in [1..MaxMail -> 0..2] /\ Alerted[cur] \in 1..2
        /\ Alerted[cur] > 1 => alerted[cur] > 0
        /\ \A m \in 1..MaxMail : m # cur => Alerted[m] = alerted[m]
    BY <1>a DEF Alerted
  <1>3. alerted' \in [1..MaxMail -> 0..2]
    BY <1>2, <1>a, <1>b
  <1>4. /\ \A m \in 1..MaxMail : m # cur => alerted'[m] = alerted[m]
        /\ alerted'[cur] > 1 => alerted[cur] > 0
        /\ alerted'[cur] > 0 \/ cur \in excused'
    <2>1. CASE alerted' = Alerted
      BY <1>a, <1>b, <2>1
    <2>2. CASE alerted' = alerted
      BY <1>2, <1>a, <1>b, <2>2
    <2> QED BY <1>2, <2>1, <2>2
  <1>5. \A m \in 1..Arrived : Settled(m) \/ m = cur => Settled(m)'
    <2> SUFFICES ASSUME NEW m \in 1..Arrived, Settled(m) \/ m = cur PROVE Settled(m)'
      OBVIOUS
    <2>1. CASE m = cur
      BY <1>4, <2>1 DEF Settled
    <2>2. CASE m # cur
      <3>1. alerted'[m] = alerted[m] /\ inbox' = inbox /\ excused \subseteq excused'
        BY <1>1, <1>2, <1>4, <1>a, <2>2
      <3> QED BY <2>2, <3>1 DEF Settled
    <2> QED BY <2>1, <2>2
  <1>6. MailTypeOK'
    <2>1. excused' \subseteq 1..Arrived
      <3>1. excused \subseteq 1..Arrived
        BY DEF MailTypeOK
      <3> QED BY <1>1, <1>2, <3>1
    <2>2. CASE mpc' = "handle"
      <3>1. /\ UNCHANGED <<conn, disk, inbox, first, batch, upto, missed, undone>>
            /\ cur' \in 0..Arrived
        BY <1>1, <1>2, <2>2
      <3> QED BY <1>1, <1>3, <2>1, <2>2, <3>1 DEF MailTypeOK
    <2>3. CASE mpc' = "idle"
      BY <1>1, <1>2, <1>3, <2>1, <2>3 DEF MailTypeOK, MailRunOver
    <2> QED BY <1>1, <2>2, <2>3
  <1>7. MailLag' /\ OnRecord' /\ AlertedOnce'
    <2>1. MailLag'
      BY <1>1 DEF MailLag
    <2>2. ASSUME NEW m \in 1..MaxMail, alerted'[m] > 0, m \notin undone
          PROVE  m \in conn.marked \/ m < disk.since
      BY <1>1, <1>4, <2>2 DEF OnRecord
    <2>3. ASSUME NEW m \in 1..Arrived, alerted'[m] > 1 PROVE m \in undone
      <3>1. CASE m = cur
        <4>1. alerted[m] # 0
          BY <1>4, <1>a, <2>3, <3>1
        <4> QED BY <1>1, <3>1, <4>1
      <3>2. CASE m # cur
        BY <1>4, <1>a, <2>3, <3>2 DEF AlertedOnce
      <3> QED BY <3>1, <3>2
    <2> QED BY <1>1, <2>1, <2>2, <2>3 DEF OnRecord, AlertedOnce
  <1>8. MailRunInv' /\ InHand'
    <2>1. CASE mpc' = "handle"
      <3>1. MailRunInv'
        BY <1>1, <1>2, <2>1 DEF MailRunInv
      <3>2. \A m \in 1..upto : m \in 1..Arrived
        BY <1>1 DEF MailTypeOK
      <3>3. InHand'
        BY <1>1, <1>2, <1>5, <2>1, <3>2 DEF InHand
      <3> QED BY <3>1, <3>3
    <2>2. CASE mpc' = "idle"
      BY <1>2, <2>2, MailRunOverKeeps
    <2> QED BY <1>1, <2>1, <2>2
  <1>9. NothingPassedOver'
    BY <1>1, <1>5 DEF NothingPassedOver
  <1> QED BY <1>6, <1>7, <1>8, <1>9

LEMMA CheckFailsKeeps == ASSUME MailInv, CheckFails PROVE MailInv'
  <1> USE DEF MailInv
  <1>1. /\ UNCHANGED <<conn, disk, inbox, alerted, excused, undone>> /\ Arrived' = Arrived
        /\ Arrived \in Nat /\ MailRunOver /\ cur = 0 /\ cur' = 0
    BY DEF CheckFails, tables, mailSeen, MailRunInv, MailRunOver, MailTypeOK, Arrived
  <1>2. MailTypeOK'
    BY <1>1 DEF MailTypeOK, MailRunOver
  <1>3. MailLag' /\ OnRecord' /\ AlertedOnce' /\ NothingPassedOver'
    BY <1>1 DEF MailLag, OnRecord, AlertedOnce, NothingPassedOver, Settled
  <1> QED BY <1>1, <1>2, <1>3, MailRunOverKeeps

LEMMA AdvanceKeeps == ASSUME MailInv, Advance PROVE MailInv'
  <1> USE DEF MailInv
  <1>1. /\ UNCHANGED <<inbox, alerted, undone>> /\ Arrived' = Arrived /\ Arrived \in Nat
        /\ mpc = "handle" /\ batch = {} /\ cur = 0 /\ cur' = 0 /\ excused' = excused \union missed
        /\ upto \in 0..Arrived /\ upto >= conn.since
        /\ \/ mpc' = "prune" /\ UNCHANGED <<first, batch, upto, missed>>
           \/ mpc' = "idle" /\ MailRunOver
    BY DEF Advance, MailRunInv, MailRunOver, MailTypeOK, Arrived
  <1>2. /\ DOMAIN conn' = DOMAIN conn /\ conn'.since = upto /\ conn'.marked = conn.marked
        /\ disk' \in {conn', disk}
    BY FieldSet DEF Advance, Write, WriteAndCommit, NextSince, MailLag
  <1>3. \A m \in 1..Arrived : Settled(m) => Settled(m)'
    BY <1>1 DEF Settled
  <1>4. \A m \in 1..upto : Settled(m)'
    BY <1>1, <1>3 DEF InHand, Settled
  <1>5. MailTypeOK'
    <2>1. \A t \in {conn', disk'} : t.since \in 0..MaxMail \union {NoRow} /\ t.marked \subseteq 1..Arrived
      BY <1>1, <1>2, PageAssumption DEF MailTypeOK
    <2> QED BY <1>1, <2>1 DEF MailTypeOK, MailRunOver
  <1>6. MailLag' /\ OnRecord' /\ AlertedOnce'
    BY <1>1, <1>2 DEF MailLag, OnRecord, AlertedOnce, MailTypeOK, NoRow
  <1>7. MailRunInv' /\ InHand'
    BY <1>1 DEF MailRunInv, InHand, MailRunOver
  <1>8. NothingPassedOver'
    BY <1>1, <1>2, <1>3, <1>4 DEF NothingPassedOver
  <1> QED BY <1>5, <1>6, <1>7, <1>8

LEMMA PruneKeeps == ASSUME MailInv, Prune PROVE MailInv'
  <1> USE DEF MailInv
  <1>1. /\ UNCHANGED <<inbox, alerted, excused, undone>> /\ Arrived' = Arrived /\ Arrived \in Nat
        /\ MailRunOver /\ cur = 0 /\ cur' = 0
    BY DEF Prune, mailSeen, MailRunInv, MailRunOver, MailTypeOK, Arrived
  <1>2. PICK old \in SUBSET Prunable : WriteAndCommit([conn EXCEPT !.marked = @ \ old])
    BY DEF Prune
  <1>3. /\ DOMAIN conn' = DOMAIN conn /\ conn'.since = conn.since /\ disk' = conn'
        /\ conn'.marked \subseteq conn.marked
        /\ \A m \in conn.marked : m \in conn'.marked \/ m < conn.since
    BY <1>2, FieldSet DEF WriteAndCommit, MailLag, Prunable
  <1>4. MailTypeOK'
    BY <1>1, <1>3 DEF MailTypeOK, MailRunOver
  <1>5. MailLag' /\ OnRecord' /\ AlertedOnce' /\ NothingPassedOver'
    BY <1>1, <1>3 DEF MailLag, OnRecord, AlertedOnce, NothingPassedOver, Settled, MailTypeOK, NoRow
  <1> QED BY <1>1, <1>4, <1>5, MailRunOverKeeps

LEMMA MailCrashKeeps == ASSUME MailInv, MailCrash PROVE MailInv'
  <1> USE DEF MailInv
  <1>1. /\ UNCHANGED <<disk, inbox, alerted>> /\ conn' = disk /\ Arrived' = Arrived /\ Arrived \in Nat
        /\ MailRunOver /\ cur' = 0 /\ excused' = excused \union ({cur} \intersect disk.marked)
        /\ undone' = undone \union {m \in conn.marked \ disk.marked : alerted[m] > 0}
        /\ excused' \subseteq 1..Arrived /\ undone' \subseteq 1..Arrived
    <2>1. disk.marked \subseteq conn.marked /\ conn.marked \subseteq 1..Arrived
          /\ excused \subseteq 1..Arrived /\ undone \subseteq 1..Arrived
      BY DEF MailLag, MailTypeOK
    <2>2. /\ UNCHANGED <<disk, inbox, alerted>> /\ conn' = disk /\ Arrived' = Arrived
          /\ MailRunOver /\ cur' = 0 /\ excused' = excused \union ({cur} \intersect disk.marked)
          /\ undone' = undone \union {m \in conn.marked \ disk.marked : alerted[m] > 0}
      BY DEF MailCrash, Reopen, MailRunOver, Arrived
    <2>3. Arrived \in Nat
      BY DEF MailTypeOK, Arrived
    <2> QED BY <2>1, <2>2, <2>3
  <1>2. \A m \in 1..Arrived : Settled(m) => Settled(m)'
    BY <1>1 DEF Settled
  <1>3. MailTypeOK'
    BY <1>1 DEF MailTypeOK, MailRunOver
  <1>4. MailLag' /\ OnRecord' /\ AlertedOnce'
    BY <1>1 DEF MailLag, OnRecord, AlertedOnce, MailTypeOK, NoRow
  <1>5. NothingPassedOver'
    BY <1>1, <1>2 DEF NothingPassedOver, MailLag, Settled, MailTypeOK, NoRow
  <1> QED BY <1>1, <1>3, <1>4, <1>5, MailRunOverKeeps

LEMMA MailInvStep == MailInv /\ [MailNext]_<<tables, mailVars>> => MailInv'
  <1> SUFFICES ASSUME MailInv, [MailNext]_<<tables, mailVars>> PROVE MailInv'
    OBVIOUS
  <1>1. CASE MailOthersCommit
    BY <1>1 DEF MailOthersCommit, OthersCommit, mailVars, mailRun, mailSeen, MailInv, MailTypeOK,
                MailLag, MailRunInv, OnRecord, InHand, AlertedOnce, NothingPassedOver, Settled,
                Arrived, NoRow
  <1>2. CASE UNCHANGED <<tables, mailVars>>
    BY <1>2 DEF tables, mailVars, mailRun, mailSeen, MailInv, MailTypeOK, MailLag, MailRunInv,
                OnRecord, InHand, AlertedOnce, NothingPassedOver, Settled, Arrived
  <1> QED BY <1>1, <1>2, ArriveKeeps, CheckStartsKeeps, SearchKeeps, ReadClockKeeps,
             SkipMarkedKeeps, MarkNewKeeps, SendAlertKeeps, CheckFailsKeeps, AdvanceKeeps,
             PruneKeeps, MailCrashKeeps DEF MailNext

(* The whole inductive invariant of the mail check.                        *)
THEOREM MailInvHolds == MailSpec => []MailInv
  <1>1. MailIdle /\ Created(MailTables) => MailInv
    BY MailInvInit, CreatedIsAtRest
  <1> QED BY <1>1, MailInvStep, PTL DEF MailSpec

(* The owner is alerted to a message once, but for what a crash took back  *)
(* (the mark comes before the alert), for any mail, page and faults.       *)
THEOREM NoSecondAlert == MailSpec => []AlertedOnce
  <1>1. MailInv => AlertedOnce
    BY DEF MailInv
  <1> QED BY <1>1, MailInvHolds, PTL

(* No urgent message is passed over in silence, for any mail, page and     *)
(* faults: the window moves only over what is settled or known as missed.  *)
THEOREM EveryMailSettled == MailSpec => []NothingPassedOver
  <1>1. MailInv => NothingPassedOver
    BY DEF MailInv
  <1> QED BY <1>1, MailInvHolds, PTL

-----------------------------------------------------------------------------
(***************************************************************************)
(* The debrief.  Each fire of a meeting's window is accounted for when it  *)
(* is over: it was lost, or a run that started with it has the meeting     *)
(* still to do.  Three fires fall into the window whatever the minute the  *)
(* meeting ended, so one that is past it was marked, or lost all three.    *)
(***************************************************************************)
DebriefSpec == DebriefIdle /\ Created(DebriefTables) /\ [][DebriefNext]_<<tables, debriefVars>>

LEMMA DebriefInvInit == DebriefIdle /\ AtRest(DebriefTables) => DebriefInv
  <1> SUFFICES ASSUME DebriefIdle, AtRest(DebriefTables) PROVE DebriefInv
    OBVIOUS
  <1>1. \A t \in {conn, disk} : "debriefed" \in DOMAIN t /\ t.debriefed = {}
    BY DEF AtRest, DebriefTables
  <1>2. DebriefTypeOK
    <2>1. /\ age \in [Meetings -> NotOver..TooOld] /\ worthy \in [Meetings -> BOOLEAN]
          /\ copies \in [Meetings -> 0..2] /\ lost \in [Meetings -> 0..3]
      BY DEF DebriefIdle, NotOver, TooOld, WindowEnd
    <2>2. sent \in 0..Chunks
      BY MeetingAssumption DEF DebriefIdle
    <2> QED BY <1>1, <2>1, <2>2 DEF DebriefIdle, DebriefTypeOK
  <1>3. DebriefRunInv /\ SentIsMarked /\ DebriefedOnce
    BY <1>1 DEF DebriefIdle, DebriefRunInv, SentIsMarked, DebriefedOnce
  <1>4. FiresAccounted /\ ThreeChances
    BY DEF DebriefIdle, FiresAccounted, ThreeChances, FiresPast, NotOver, WindowStart, WindowEnd
  <1> QED BY <1>2, <1>3, <1>4 DEF DebriefInv

LEMMA ThisIsOne == ASSUME DebriefTypeOK, todo # {} PROVE This \in todo /\ This \in Meetings
  <1>1. todo \in SUBSET Nat
    BY MeetingAssumption DEF DebriefTypeOK
  <1>2. \E m \in todo : \A n \in todo : m <= n
    BY <1>1, LeastOf
  <1>3. This \in todo
    BY <1>2 DEF This
  <1> QED BY <1>3 DEF DebriefTypeOK

LEMMA FiresCounted ==
  ASSUME DebriefTypeOK, NEW m \in Meetings
  PROVE  FiresPast(m) \in 0..3 /\ lost[m] \in 0..3 /\ age[m] \in -1..6
  BY DEF DebriefTypeOK, FiresPast, NotOver, TooOld, WindowEnd, WindowStart

(* What the accounts say of a meeting that is too old.                     *)
LEMMA AccountsGiveChances == ASSUME DebriefTypeOK, FiresAccounted PROVE ThreeChances
  <1> SUFFICES ASSUME NEW m \in Meetings, age[m] > WindowEnd,
                      m \notin conn.debriefed \union todo \union unmarked
               PROVE  lost[m] = 3
    BY DEF ThreeChances
  <1>1. FiresPast(m) = 3
    BY DEF DebriefTypeOK, FiresPast, NotOver, TooOld, WindowEnd, WindowStart
  <1> QED BY <1>1, FiresCounted DEF FiresAccounted

(* A fire that is lost is one fire more on the account of the meeting.     *)
LEMMA FireLostOnAccount ==
  ASSUME DebriefTypeOK, NEW S \in SUBSET Meetings, Lose(S)
  PROVE  /\ lost' \in [Meetings -> 0..3]
         /\ \A m \in S : lost'[m] = 3 \/ lost'[m] = lost[m] + 1
         /\ \A m \in Meetings : lost'[m] >= lost[m]
  BY DEF DebriefTypeOK, Lose

(* The run is over, and with it what was left to do is lost.               *)
LEMMA WhatIsLeftIsLost ==
  ASSUME DebriefTypeOK, FiresAccounted, DebriefRunOver, Lose(todo), UNCHANGED <<age, due>>,
         conn.debriefed \union unmarked \subseteq conn'.debriefed \union unmarked'
  PROVE  FiresAccounted'
  <1> SUFFICES ASSUME NEW m \in Meetings, m \notin conn'.debriefed \union unmarked'
               PROVE  lost'[m] + (IF m \in todo' THEN 1 ELSE 0) >= FiresPast(m)'
    BY DEF FiresAccounted
  <1>1. lost[m] + (IF m \in todo THEN 1 ELSE 0) >= FiresPast(m) /\ m \notin todo'
    BY DEF FiresAccounted, DebriefRunOver
  <1>2. FiresPast(m)' = FiresPast(m) /\ FiresPast(m) \in 0..3 /\ lost[m] \in 0..3
    BY FiresCounted DEF FiresPast
  <1>3. /\ lost'[m] \in 0..3 /\ lost'[m] >= lost[m]
        /\ m \in todo => lost'[m] = 3 \/ lost'[m] = lost[m] + 1
    BY FireLostOnAccount DEF DebriefTypeOK
  <1> QED BY <1>1, <1>2, <1>3

LEMMA MeetingEndsKeeps ==
  ASSUME DebriefInv, NEW m \in Meetings, NEW isWorthy \in BOOLEAN, MeetingEnds(m, isWorthy)
  PROVE  DebriefInv'
  <1> USE DEF DebriefInv
  <1>1. /\ UNCHANGED <<conn, disk, due, dpc, todo, sent, copies, lost, cut, unmarked>>
        /\ age[m] = NotOver /\ age' = [age EXCEPT ![m] = 0] /\ worthy' = [worthy EXCEPT ![m] = isWorthy]
    BY DEF MeetingEnds, tables, debriefRun, debriefSeen
  <1>2. DebriefTypeOK'
    BY <1>1 DEF DebriefTypeOK, NotOver, TooOld, WindowEnd
  <1>3. DebriefRunInv' /\ SentIsMarked' /\ DebriefedOnce'
    BY <1>1 DEF DebriefRunInv, SentIsMarked, DebriefedOnce, This
  <1>4. \A n \in Meetings : FiresPast(n)' = FiresPast(n)
    BY <1>1 DEF FiresPast, DebriefTypeOK, NotOver, WindowStart, WindowEnd
  <1>5. FiresAccounted'
    BY <1>1, <1>4 DEF FiresAccounted
  <1> QED BY <1>2, <1>3, <1>5, AccountsGiveChances, PTL

LEMMA DebriefTickKeeps == ASSUME DebriefInv, DebriefTick PROVE DebriefInv'
  <1> USE DEF DebriefInv
  <1>1. /\ UNCHANGED <<conn, disk, worthy, dpc, todo, sent, copies, lost, cut, unmarked>>
        /\ due = FALSE /\ due' = TRUE
        /\ age' = [m \in Meetings |-> IF age[m] \in 0..WindowEnd THEN age[m] + 1 ELSE age[m]]
    BY DEF DebriefTick, tables, debriefRun, debriefSeen, DebriefTypeOK
  <1>2. DebriefTypeOK'
    BY <1>1 DEF DebriefTypeOK, NotOver, TooOld, WindowEnd
  <1>3. DebriefRunInv' /\ SentIsMarked' /\ DebriefedOnce'
    BY <1>1 DEF DebriefRunInv, SentIsMarked, DebriefedOnce, This
  <1>4. \A m \in Meetings : FiresPast(m)' = FiresPast(m)
    BY <1>1 DEF FiresPast, DebriefTypeOK, NotOver, WindowStart, WindowEnd, TooOld
  <1>5. FiresAccounted'
    BY <1>1, <1>4 DEF FiresAccounted
  <1> QED BY <1>2, <1>3, <1>5, AccountsGiveChances, PTL

(* A fire passes: it is lost, or the run that starts has the meeting to do.*)
LEMMA FirePasses ==
  ASSUME DebriefTypeOK, FiresAccounted, due = TRUE, due' = FALSE, UNCHANGED <<conn, age, unmarked>>,
         \/ Lose(FiresDue) /\ todo' = todo
         \/ todo = {} /\ todo' = InWindow /\ lost' = lost
  PROVE  FiresAccounted'
  <1> SUFFICES ASSUME NEW m \in Meetings, m \notin conn.debriefed \union unmarked
               PROVE  lost'[m] + (IF m \in todo' THEN 1 ELSE 0) >= FiresPast(m)'
    BY DEF FiresAccounted
  <1>1. lost[m] + (IF m \in todo THEN 1 ELSE 0) >= FiresPast(m)
    BY DEF FiresAccounted
  <1>2. /\ FiresPast(m) \in 0..3 /\ lost[m] \in 0..3 /\ FiresPast(m)' \in 0..3
        /\ FiresPast(m)' = IF m \in FiresDue THEN FiresPast(m) + 1 ELSE FiresPast(m)
        /\ FiresDue \subseteq Meetings /\ InWindow = FiresDue
    BY FiresCounted DEF FiresPast, FiresDue, InWindow, WindowStart, WindowEnd
  <1>3. CASE Lose(FiresDue) /\ todo' = todo
    <2>1. /\ lost'[m] \in 0..3 /\ lost'[m] >= lost[m]
          /\ m \in FiresDue => lost'[m] = 3 \/ lost'[m] = lost[m] + 1
      BY <1>2, <1>3, FireLostOnAccount
    <2> QED BY <1>1, <1>2, <1>3, <2>1
  <1>4. CASE todo = {} /\ todo' = InWindow /\ lost' = lost
    BY <1>1, <1>2, <1>4
  <1> QED BY <1>3, <1>4

LEMMA FireLostKeeps == ASSUME DebriefInv, FireLost PROVE DebriefInv'
  <1> USE DEF DebriefInv
  <1>1. /\ UNCHANGED <<conn, disk, age, worthy, dpc, todo, sent, copies, cut, unmarked>>
        /\ due = TRUE /\ due' = FALSE /\ Lose(FiresDue)
    BY DEF FireLost, tables, debriefRun, DebriefTypeOK
  <1>2. lost' \in [Meetings -> 0..3]
    BY <1>1, FireLostOnAccount DEF FiresDue
  <1>3. DebriefTypeOK'
    BY <1>1, <1>2 DEF DebriefTypeOK
  <1>4. DebriefRunInv' /\ SentIsMarked' /\ DebriefedOnce'
    BY <1>1 DEF DebriefRunInv, SentIsMarked, DebriefedOnce, This
  <1>5. FiresAccounted'
    BY <1>1, FirePasses
  <1> QED BY <1>3, <1>4, <1>5, AccountsGiveChances, PTL

LEMMA DebriefStartsKeeps == ASSUME DebriefInv, DebriefStarts PROVE DebriefInv'
  <1> USE DEF DebriefInv
  <1>1. /\ UNCHANGED <<conn, disk, age, worthy, sent, copies, cut, unmarked>>
        /\ due = TRUE /\ due' = FALSE /\ dpc = "idle" /\ todo = {} /\ sent = 0
        /\ \/ dpc' = "next" /\ todo' = InWindow /\ lost' = lost
           \/ dpc' = "idle" /\ todo' = todo /\ Lose(FiresDue)
    BY DEF DebriefStarts, tables, DebriefTypeOK, DebriefRunInv
  <1>2. lost' \in [Meetings -> 0..3] /\ todo' \subseteq Meetings
    BY <1>1, FireLostOnAccount DEF FiresDue, InWindow, DebriefTypeOK
  <1>3. DebriefTypeOK'
    BY <1>1, <1>2 DEF DebriefTypeOK
  <1>4. DebriefRunInv' /\ SentIsMarked' /\ DebriefedOnce'
    BY <1>1 DEF DebriefRunInv, SentIsMarked, DebriefedOnce
  <1>5. FiresAccounted'
    BY <1>1, FirePasses
  <1> QED BY <1>3, <1>4, <1>5, AccountsGiveChances, PTL

LEMMA SkipDebriefedKeeps == ASSUME DebriefInv, SkipDebriefed PROVE DebriefInv'
  <1> USE DEF DebriefInv
  <1>1. /\ UNCHANGED <<conn, disk, age, worthy, due, dpc, sent, copies, lost, cut, unmarked>>
        /\ sent = 0 /\ dpc = "next" /\ This \in conn.debriefed /\ todo' = todo \ {This}
    BY DEF SkipDebriefed, tables, debriefSeen
  <1>2. DebriefTypeOK'
    BY <1>1 DEF DebriefTypeOK
  <1>3. DebriefRunInv' /\ SentIsMarked' /\ DebriefedOnce'
    BY <1>1 DEF DebriefRunInv, SentIsMarked, DebriefedOnce
  <1>4. FiresAccounted'
    BY <1>1 DEF FiresAccounted, FiresPast
  <1> QED BY <1>2, <1>3, <1>4, AccountsGiveChances, PTL

LEMMA SendChunkKeeps == ASSUME DebriefInv, SendChunk PROVE DebriefInv'
  <1> USE DEF DebriefInv
  <1>1. /\ UNCHANGED <<conn, disk, age, worthy, due, unmarked>>
        /\ This \in todo /\ This \in Meetings /\ This \notin disk.debriefed
        /\ sent \in Nat /\ sent < Chunks /\ Chunks \in Nat /\ dpc = "next"
        /\ copies' = copies \/ copies' = Copied
        /\ \/ sent' = sent + 1 /\ UNCHANGED <<dpc, todo, lost, cut>>
           \/ DebriefRunOver /\ Lose(todo) /\ cut' = cut \union {This}
    BY ThisIsOne, MeetingAssumption
       DEF SendChunk, tables, DebriefAborts, DebriefRunInv, DebriefTypeOK
  <1>2. /\ Copied \in [Meetings -> 0..2]
        /\ \A m \in Meetings : m # This => Copied[m] = copies[m]
        /\ sent > 0 => Copied = copies
        /\ Copied[This] > 1 => copies[This] > 0
    BY <1>1 DEF Copied, DebriefTypeOK
  <1>3. lost' \in [Meetings -> 0..3]
    BY <1>1, FireLostOnAccount DEF DebriefTypeOK
  <1>4. copies' \in [Meetings -> 0..2]
    BY <1>1, <1>2 DEF DebriefTypeOK
  <1>5. CASE sent' = sent + 1 /\ UNCHANGED <<dpc, todo, lost, cut>>
    <2>1. DebriefTypeOK'
      BY <1>1, <1>3, <1>4, <1>5 DEF DebriefTypeOK
    <2>2. This' = This /\ sent' > 0
      BY <1>1, <1>5 DEF This
    <2>3. DebriefRunInv'
      BY <1>1, <1>5 DEF DebriefRunInv
    <2>4. SentIsMarked'
      BY <1>1, <1>2, <1>5, <2>2 DEF SentIsMarked
    <2>5. ASSUME NEW m \in Meetings, copies'[m] > 1 PROVE m \in cut
      <3>1. CASE m = This /\ copies' = Copied /\ sent = 0
        <4>1. copies[This] > 0
          BY <1>1, <1>2, <2>5, <3>1
        <4> QED BY <1>1, <3>1, <4>1 DEF SentIsMarked
      <3>2. CASE copies'[m] = copies[m]
        BY <2>5, <3>2 DEF DebriefedOnce
      <3> QED BY <1>1, <1>2, <3>1, <3>2
    <2>6. DebriefedOnce'
      BY <1>5, <2>5 DEF DebriefedOnce
    <2>7. FiresAccounted'
      BY <1>1, <1>5 DEF FiresAccounted, FiresPast
    <2> QED BY <2>1, <2>3, <2>4, <2>6, <2>7, AccountsGiveChances, PTL
  <1>6. CASE DebriefRunOver /\ Lose(todo) /\ cut' = cut \union {This}
    <2>1. DebriefTypeOK'
      BY <1>1, <1>3, <1>4, <1>6 DEF DebriefTypeOK, DebriefRunOver
    <2>2. DebriefRunInv'
      BY <1>1, <1>6 DEF DebriefRunInv, DebriefRunOver
    <2>3. SentIsMarked' /\ DebriefedOnce'
      BY <1>1, <1>2, <1>6 DEF SentIsMarked, DebriefedOnce
    <2>4. FiresAccounted'
      BY <1>1, <1>6, WhatIsLeftIsLost
    <2> QED BY <2>1, <2>2, <2>3, <2>4, AccountsGiveChances, PTL
  <1> QED BY <1>1, <1>5, <1>6

LEMMA MarkDebriefedKeeps == ASSUME DebriefInv, MarkDebriefed PROVE DebriefInv'
  <1> USE DEF DebriefInv
  <1>1. /\ UNCHANGED <<age, worthy, due, copies, unmarked>>
        /\ This \in todo /\ This \in Meetings /\ dpc = "next"
    BY ThisIsOne DEF MarkDebriefed
  <1>2. LET marked == [conn EXCEPT !.debriefed = @ \union {This}] IN
        DOMAIN marked = DOMAIN conn /\ marked.debriefed = conn.debriefed \union {This}
    BY FieldSet DEF DebriefRunInv
  <1>3. CASE Mark /\ todo' = todo \ {This} /\ sent' = 0 /\ UNCHANGED <<dpc, lost, cut>>
    <2>1. /\ DOMAIN conn' = DOMAIN conn /\ conn'.debriefed = conn.debriefed \union {This}
          /\ disk' = conn'
      BY <1>2, <1>3 DEF Mark, WriteAndCommit
    <2>2. DebriefTypeOK'
      BY <1>1, <1>3, <2>1, MeetingAssumption DEF DebriefTypeOK
    <2>3. DebriefRunInv'
      BY <1>1, <1>3, <2>1 DEF DebriefRunInv
    <2>4. SentIsMarked' /\ DebriefedOnce'
      BY <1>1, <1>3, <2>1 DEF SentIsMarked, DebriefedOnce, DebriefRunInv
    <2>5. FiresAccounted'
      BY <1>1, <1>3, <2>1 DEF FiresAccounted, FiresPast
    <2> QED BY <2>2, <2>3, <2>4, <2>5, AccountsGiveChances, PTL
  <1>4. CASE DebriefAborts /\ (UNCHANGED tables \/ Write([conn EXCEPT !.debriefed = @ \union {This}]))
    <2>1. /\ disk' = disk /\ DOMAIN conn' = DOMAIN conn
          /\ conn'.debriefed = conn.debriefed \/ conn'.debriefed = conn.debriefed \union {This}
          /\ DebriefRunOver /\ Lose(todo) /\ cut' = cut \union {This}
      BY <1>2, <1>4 DEF Write, tables, DebriefAborts
    <2>2. lost' \in [Meetings -> 0..3]
      BY <2>1, FireLostOnAccount DEF DebriefTypeOK
    <2>3. DebriefTypeOK'
      BY <1>1, <2>1, <2>2, MeetingAssumption DEF DebriefTypeOK, DebriefRunOver
    <2>4. DebriefRunInv'
      BY <2>1 DEF DebriefRunInv, DebriefRunOver
    <2>5. SentIsMarked' /\ DebriefedOnce'
      BY <1>1, <2>1 DEF SentIsMarked, DebriefedOnce
    <2>6. FiresAccounted'
      BY <1>1, <2>1, WhatIsLeftIsLost
    <2> QED BY <2>3, <2>4, <2>5, <2>6, AccountsGiveChances, PTL
  <1> QED BY <1>3, <1>4 DEF MarkDebriefed

LEMMA DebriefEndsKeeps == ASSUME DebriefInv, DebriefEnds PROVE DebriefInv'
  <1> USE DEF DebriefInv
  <1>1. /\ UNCHANGED <<conn, disk, age, worthy, due, copies, lost, cut, unmarked>>
        /\ todo = {} /\ sent = 0 /\ dpc' = "idle" /\ todo' = {} /\ sent' = 0
    BY DEF DebriefEnds, DebriefRunOver, DebriefRunInv, tables, debriefSeen
  <1>2. DebriefTypeOK'
    BY <1>1 DEF DebriefTypeOK
  <1>3. DebriefRunInv' /\ SentIsMarked' /\ DebriefedOnce'
    BY <1>1 DEF DebriefRunInv, SentIsMarked, DebriefedOnce
  <1>4. FiresAccounted'
    BY <1>1 DEF FiresAccounted, FiresPast
  <1> QED BY <1>2, <1>3, <1>4, AccountsGiveChances, PTL

LEMMA DebriefCrashKeeps == ASSUME DebriefInv, DebriefCrash PROVE DebriefInv'
  <1> USE DEF DebriefInv
  <1>1. /\ UNCHANGED <<disk, age, worthy, due, copies>> /\ conn' = disk
        /\ DebriefRunOver /\ Lose(todo)
        /\ cut' = IF sent > 0 THEN cut \union {This} ELSE cut
        /\ unmarked' = unmarked \union (conn.debriefed \ disk.debriefed)
    BY DEF DebriefCrash, Reopen
  <1>2. sent > 0 => This \in Meetings
    BY ThisIsOne DEF DebriefRunInv
  <1>3. lost' \in [Meetings -> 0..3]
    BY <1>1, FireLostOnAccount DEF DebriefTypeOK
  <1>4. DebriefTypeOK'
    <2>1. /\ conn.debriefed \subseteq Meetings /\ disk.debriefed \subseteq Meetings
          /\ cut \subseteq Meetings /\ unmarked \subseteq Meetings
      BY DEF DebriefTypeOK
    <2>2. cut' \subseteq Meetings
      BY <1>1, <1>2, <2>1
    <2>3. unmarked' \subseteq Meetings /\ conn'.debriefed \subseteq Meetings
      BY <1>1, <2>1
    <2> QED BY <1>1, <1>3, <2>1, <2>2, <2>3, MeetingAssumption DEF DebriefTypeOK, DebriefRunOver
  <1>5. DebriefRunInv'
    BY <1>1 DEF DebriefRunInv, DebriefRunOver
  <1>6. SentIsMarked' /\ DebriefedOnce'
    BY <1>1 DEF SentIsMarked, DebriefedOnce
  <1>7. FiresAccounted'
    BY <1>1, WhatIsLeftIsLost
  <1> QED BY <1>4, <1>5, <1>6, <1>7, AccountsGiveChances, PTL

LEMMA DebriefInvStep == DebriefInv /\ [DebriefNext]_<<tables, debriefVars>> => DebriefInv'
  <1> SUFFICES ASSUME DebriefInv, [DebriefNext]_<<tables, debriefVars>> PROVE DebriefInv'
    OBVIOUS
  <1>1. CASE DebriefOthersCommit \/ UNCHANGED <<tables, debriefVars>>
    <2>1. /\ conn' = conn /\ (disk' = disk \/ disk' = conn)
          /\ UNCHANGED <<age, worthy, due, dpc, todo, sent, copies, lost, cut, unmarked>>
      BY <1>1 DEF DebriefOthersCommit, OthersCommit, tables, debriefVars, debriefRun, debriefSeen
    <2> QED BY <2>1 DEF DebriefInv, DebriefTypeOK, DebriefRunInv, SentIsMarked, FiresAccounted,
                        FiresPast, DebriefedOnce, ThreeChances, This
  <1> QED BY <1>1, MeetingEndsKeeps, DebriefTickKeeps, FireLostKeeps, DebriefStartsKeeps,
             SkipDebriefedKeeps, SendChunkKeeps, MarkDebriefedKeeps, DebriefEndsKeeps,
             DebriefCrashKeeps DEF DebriefNext

(* The whole inductive invariant of the debrief.                           *)
THEOREM DebriefInvHolds == DebriefSpec => []DebriefInv
  <1>1. DebriefIdle /\ Created(DebriefTables) => DebriefInv
    BY DebriefInvInit, CreatedIsAtRest
  <1> QED BY <1>1, DebriefInvStep, PTL DEF DebriefSpec

(* The owner gets no debrief twice, but for one that was cut off before    *)
(* its mark, for any meetings, chunks and faults.                          *)
THEOREM NoSecondDebrief == DebriefSpec => []DebriefedOnce
  <1>1. DebriefInv => DebriefedOnce
    BY DEF DebriefInv
  <1> QED BY <1>1, DebriefInvHolds, PTL

(* A meeting that was never marked lost all of the three fires that the    *)
(* width of the window gives it, for any meetings, chunks and faults.      *)
THEOREM WindowGivesThree == DebriefSpec => []ThreeChances
  <1>1. DebriefInv => ThreeChances
    BY DEF DebriefInv
  <1> QED BY <1>1, DebriefInvHolds, PTL

-----------------------------------------------------------------------------
(***************************************************************************)
(* The extraction.  A source at the model is not marked, so its facts were *)
(* stored before by passes that were cut off only; and a mark is written   *)
(* when all the facts of the answer at hand are stored, in one commit.     *)
(***************************************************************************)
ExtractSpec == ExtractIdle /\ Created(ExtractTables) /\ [][ExtractNext]_<<tables, extractVars>>

LEMMA ExtractInvInit == ExtractIdle /\ AtRest(ExtractTables) => ExtractInv
  <1> SUFFICES ASSUME ExtractIdle, AtRest(ExtractTables) PROVE ExtractInv
    OBVIOUS
  <1>1. \A t \in {conn, disk} : "processed" \in DOMAIN t /\ t.processed = {}
    BY DEF AtRest, ExtractTables
  <1>2. ExtractTypeOK
    <2>1. stored \in [Sources -> 0..2]
      BY DEF ExtractIdle
    <2>2. facts \in 0..MaxFacts
      BY SourceAssumption DEF ExtractIdle
    <2> QED BY <1>1, <2>1, <2>2 DEF ExtractIdle, ExtractTypeOK
  <1>3. ExtractRunInv /\ StoredIsMarked /\ MarkedIsWhole
    BY <1>1 DEF ExtractIdle, ExtractRunInv, StoredIsMarked, MarkedIsWhole
  <1> QED BY <1>2, <1>3 DEF ExtractInv

LEMMA SourceIsOne == ASSUME ExtractTypeOK, queue # {} PROVE Source \in queue /\ Source \in Sources
  <1>1. queue \in SUBSET Nat
    BY SourceAssumption DEF ExtractTypeOK
  <1>2. \E s \in queue : \A t \in queue : s <= t
    BY <1>1, LeastOf
  <1>3. Source \in queue
    BY <1>2 DEF Source
  <1> QED BY <1>3 DEF ExtractTypeOK

(* The duration that is read is 0, so the sentences do not matter.         *)
LEMMA EveryTranscriptIsAStub == ASSUME NEW s PROVE Stub(s) <=> s \in Transcripts
  BY DEF Stub, Duration

(* No source is at hand after the step, and no mark is written by it.      *)
LEMMA HandsAreEmpty ==
  ASSUME ExtractInv, begun' = FALSE, xpc' # "store", xpc' \in {"idle", "next"},
         queue' \subseteq Sources, facts' = 0, listed' \subseteq Sources, spoken' \subseteq Transcripts,
         UNCHANGED <<disk, whole, garbled>>,
         DOMAIN conn' = DOMAIN conn \/ conn' = disk,
         disk.processed \subseteq conn'.processed, conn'.processed \subseteq Sources,
         \A s \in conn'.processed : s \in conn.processed \/ s \in Transcripts \/ s \in whole \union garbled,
         cutOff \subseteq cutOff', cutOff' \subseteq Sources,
         begun => Source \in cutOff',
         \/ stored' = stored
         \/ /\ queue # {} /\ Source \in cutOff' /\ stored' \in [Sources -> 0..2]
            /\ \A s \in Sources \ {Source} : stored'[s] = stored[s]
  PROVE  ExtractInv'
  <1> USE DEF ExtractInv
  <1>1. ExtractTypeOK'
    <2>1. stored' \in [Sources -> 0..2]
      BY DEF ExtractTypeOK
    <2>2. /\ disk'.processed \subseteq Sources /\ whole' \subseteq Sources /\ garbled' \subseteq Sources
      BY DEF ExtractTypeOK
    <2>3. facts' \in 0..MaxFacts
      BY SourceAssumption
    <2>4. xpc' \in {"idle", "next", "store"}
      OBVIOUS
    <2> QED BY <2>1, <2>2, <2>3, <2>4 DEF ExtractTypeOK
  <1>2. ExtractRunInv'
    BY DEF ExtractRunInv
  <1>3. StoredIsMarked'
    <2> SUFFICES ASSUME NEW s \in Sources, stored'[s] > 0, s \notin cutOff' PROVE s \in disk.processed
      BY DEF StoredIsMarked
    <2>1. stored'[s] = stored[s] /\ s \notin cutOff /\ ~(begun /\ s = Source)
      OBVIOUS
    <2> QED BY <2>1 DEF StoredIsMarked
  <1>4. MarkedIsWhole'
    <2>1. \A s \in conn'.processed : s \in whole' \union garbled' \/ Stub(s)'
      BY DEF MarkedIsWhole, Stub, Duration
    <2>2. \A s \in Sources : stored'[s] > 1 => s \in cutOff'
      BY DEF MarkedIsWhole
    <2> QED BY <2>1, <2>2 DEF MarkedIsWhole
  <1> QED BY <1>1, <1>2, <1>3, <1>4

LEMMA AppearsKeeps ==
  ASSUME ExtractInv, NEW s \in Sources, Appears(s) \/ Leaves(s) PROVE ExtractInv'
  <1> USE DEF ExtractInv
  <1>1. /\ UNCHANGED <<conn, disk, xpc, queue, facts, begun, stored, whole, garbled, cutOff>>
        /\ listed' \subseteq Sources /\ spoken' \subseteq Transcripts
    BY DEF Appears, Leaves, tables, extractRun, extractSeen, ExtractTypeOK
  <1>2. ExtractTypeOK'
    BY <1>1 DEF ExtractTypeOK
  <1>3. ExtractRunInv' /\ StoredIsMarked'
    BY <1>1 DEF ExtractRunInv, StoredIsMarked, Source
  <1>4. MarkedIsWhole'
    BY <1>1 DEF MarkedIsWhole, Stub, Duration
  <1> QED BY <1>2, <1>3, <1>4

(* The steps of a run that leave the model, the store and the marks alone. *)
LEMMA QuietStepKeeps ==
  ASSUME ExtractInv, ExtractStarts \/ SkipProcessed \/ ModelFails \/ FetchFails \/ ExtractEnds
  PROVE  ExtractInv'
  <1>1. /\ UNCHANGED <<conn, disk, listed, spoken, stored, whole, garbled, cutOff>>
        /\ begun = FALSE /\ begun' = FALSE /\ facts' \in {facts, 0} /\ xpc' \in {"idle", "next"}
        /\ queue' \subseteq Sources
        /\ xpc \in {"idle", "next"}
    BY DEF ExtractStarts, SkipProcessed, ModelFails, FetchFails, ExtractEnds, NextSource,
           ExtractRunOver, tables, extractSeen, ExtractInv, ExtractTypeOK, ExtractRunInv
  <1>2. /\ disk.processed \subseteq conn.processed /\ conn.processed \subseteq Sources
        /\ cutOff \subseteq Sources /\ listed \subseteq Sources /\ spoken \subseteq Transcripts
    BY DEF ExtractInv, ExtractTypeOK, ExtractRunInv
  <1>3. CASE facts' = 0
    BY <1>1, <1>2, <1>3, HandsAreEmpty
  <1>4. CASE facts' = facts
    <2> USE DEF ExtractInv
    <2>1. ExtractTypeOK'
      BY <1>1, <1>4 DEF ExtractTypeOK
    <2>2. ExtractRunInv' /\ StoredIsMarked' /\ MarkedIsWhole'
      BY <1>1 DEF ExtractRunInv, StoredIsMarked, MarkedIsWhole, Stub, Duration
    <2> QED BY <2>1, <2>2
  <1> QED BY <1>1, <1>3, <1>4

(* The mark of the source at hand, on the connection.                      *)
MarkedConn == [conn EXCEPT !.processed = @ \union {Source}]
LEMMA MarkIsSet ==
  ASSUME ExtractInv
  PROVE  /\ DOMAIN MarkedConn = DOMAIN conn
         /\ MarkedConn.processed = conn.processed \union {Source}
  <1>1. "processed" \in DOMAIN conn
    BY DEF ExtractInv, ExtractRunInv
  <1> QED BY <1>1, FieldSet DEF MarkedConn

LEMMA MarkStubKeeps == ASSUME ExtractInv, MarkStub PROVE ExtractInv'
  <1>1. /\ UNCHANGED <<listed, spoken, stored, whole, garbled, cutOff>>
        /\ begun = FALSE /\ begun' = FALSE /\ facts' = 0 /\ xpc' \in {"idle", "next"}
        /\ queue' \subseteq Sources /\ Source \in Transcripts /\ Source \in Sources
        /\ \/ conn' = MarkedConn /\ disk' \in {disk, MarkedConn}
           \/ conn' = conn /\ disk' = disk
    BY SourceIsOne, EveryTranscriptIsAStub
       DEF MarkStub, NextSource, ExtractRunOver, extractSeen, tables, Write, WriteAndCommit, MarkedConn,
           ExtractInv, ExtractTypeOK, ExtractRunInv
  <1>2. /\ disk.processed \subseteq conn.processed /\ conn.processed \subseteq Sources
        /\ cutOff \subseteq Sources /\ listed \subseteq Sources /\ spoken \subseteq Transcripts
    BY DEF ExtractInv, ExtractTypeOK, ExtractRunInv
  <1>3. CASE disk' = disk
    <2>1. /\ DOMAIN conn' = DOMAIN conn
          /\ disk.processed \subseteq conn'.processed /\ conn'.processed \subseteq Sources
          /\ \A s \in conn'.processed : s \in conn.processed \/ s \in Transcripts
      BY <1>1, <1>2, MarkIsSet
    <2> QED BY <1>1, <1>2, <1>3, <2>1, HandsAreEmpty
  <1>4. CASE conn' = MarkedConn /\ disk' = MarkedConn
    <2> USE DEF ExtractInv
    <2>1. /\ DOMAIN conn' = DOMAIN conn /\ disk' = conn'
          /\ conn'.processed = conn.processed \union {Source}
      BY <1>4, MarkIsSet
    <2>2. ExtractTypeOK'
      <3>1. conn'.processed \subseteq Sources /\ disk'.processed \subseteq Sources
        BY <1>1, <1>2, <2>1
      <3>2. facts' \in 0..MaxFacts
        BY <1>1, SourceAssumption
      <3> QED BY <1>1, <3>1, <3>2 DEF ExtractTypeOK
    <2>3. ExtractRunInv'
      BY <1>1, <2>1 DEF ExtractRunInv
    <2>4. StoredIsMarked'
      <3>1. disk.processed \subseteq disk'.processed
        BY <1>2, <2>1
      <3> QED BY <1>1, <3>1 DEF StoredIsMarked
    <2>5. MarkedIsWhole'
      BY <1>1, <2>1 DEF MarkedIsWhole, Stub, Duration
    <2> QED BY <2>2, <2>3, <2>4, <2>5
  <1> QED BY <1>1, <1>3, <1>4

LEMMA AskModelKeeps == ASSUME ExtractInv, AskModel PROVE ExtractInv'
  <1> USE DEF ExtractInv
  <1>1. /\ UNCHANGED <<conn, disk, listed, spoken, queue, begun, stored, whole, cutOff>>
        /\ queue # {} /\ Source \in Sources /\ Source \notin conn.processed /\ begun = FALSE
        /\ xpc' = "store" /\ facts' \in 0..MaxFacts
        /\ garbled' = garbled \ {Source} \/ garbled' = garbled \union {Source}
    BY SourceIsOne, SourceAssumption DEF AskModel, tables, ExtractRunInv
  <1>2. ExtractTypeOK'
    <2>1. garbled' \subseteq Sources
      BY <1>1 DEF ExtractTypeOK
    <2> QED BY <1>1, <2>1 DEF ExtractTypeOK
  <1>3. ExtractRunInv' /\ StoredIsMarked' /\ MarkedIsWhole'
    BY <1>1 DEF ExtractRunInv, StoredIsMarked, MarkedIsWhole, Source, Stub, Duration
  <1> QED BY <1>2, <1>3

(* What storing a fact of the source at hand counts.                       *)
LEMMA StoredOneCounts ==
  ASSUME ExtractInv, xpc = "store", StoredOne
  PROVE  /\ queue # {} /\ Source \in Sources /\ Source \notin disk.processed
         /\ stored' \in [Sources -> 0..2]
         /\ \A s \in Sources \ {Source} : stored'[s] = stored[s]
         /\ stored'[Source] > 1 => Source \in cutOff
  <1> USE DEF ExtractInv
  <1>1. queue # {} /\ Source \in Sources /\ Source \notin disk.processed
    BY SourceIsOne DEF ExtractRunInv
  <1>2. /\ stored \in [Sources -> 0..2] /\ stored[Source] \in 0..2
        /\ stored' = [stored EXCEPT ![Source] = IF begun THEN @ ELSE IF @ = 0 THEN 1 ELSE 2]
    BY <1>1 DEF ExtractTypeOK, StoredOne
  <1>3. /\ stored' \in [Sources -> 0..2]
        /\ \A s \in Sources \ {Source} : stored'[s] = stored[s]
        /\ stored'[Source] = IF begun THEN stored[Source] ELSE IF stored[Source] = 0 THEN 1 ELSE 2
    BY <1>1, <1>2
  <1>4. ASSUME stored'[Source] > 1 PROVE Source \in cutOff
    <2>1. CASE begun
      BY <1>1, <1>3, <1>4, <2>1 DEF MarkedIsWhole
    <2>2. CASE ~begun
      <3>1. stored[Source] > 0
        BY <1>2, <1>3, <1>4, <2>2
      <3> QED BY <1>1, <2>2, <3>1 DEF StoredIsMarked
    <2> QED BY <2>1, <2>2
  <1> QED BY <1>1, <1>3, <1>4

LEMMA StoreFactKeeps == ASSUME ExtractInv, StoreFact PROVE ExtractInv'
  <1> USE DEF ExtractInv
  <1>1. /\ UNCHANGED <<conn, disk, listed, spoken, xpc, queue, whole, garbled, cutOff>>
        /\ xpc = "store" /\ begun' = TRUE /\ facts > 0 /\ facts' = facts - 1 /\ StoredOne
    BY DEF StoreFact, tables
  <1>2. facts' \in 0..MaxFacts
    BY <1>1, SourceAssumption DEF ExtractTypeOK
  <1>3. ExtractTypeOK'
    BY <1>1, <1>2, StoredOneCounts DEF ExtractTypeOK
  <1>4. ExtractRunInv'
    BY <1>1 DEF ExtractRunInv, Source
  <1>5. Source' = Source
    BY <1>1 DEF Source
  <1>6. StoredIsMarked' /\ MarkedIsWhole'
    BY <1>1, <1>5, StoredOneCounts DEF StoredIsMarked, MarkedIsWhole, Stub, Duration
  <1> QED BY <1>3, <1>4, <1>6

LEMMA StoreEndsKeeps == ASSUME ExtractInv, StoreFails \/ StoreRaises PROVE ExtractInv'
  <1>1. /\ UNCHANGED <<conn, disk, listed, spoken, whole, garbled>>
        /\ begun' = FALSE /\ facts' = 0 /\ xpc' \in {"idle", "next"} /\ xpc = "store"
        /\ queue' \subseteq Sources
        /\ \/ StoredOne /\ cutOff' = cutOff \union {Source}
           \/ stored' = stored /\ CutOff
    BY DEF StoreFails, StoreRaises, NextSource, ExtractRunOver, tables, ExtractInv, ExtractTypeOK
  <1>2. queue # {} /\ Source \in Sources
    BY <1>1, SourceIsOne DEF ExtractInv, ExtractRunInv
  <1>3. /\ disk.processed \subseteq conn.processed /\ conn.processed \subseteq Sources
        /\ cutOff \subseteq Sources /\ listed \subseteq Sources /\ spoken \subseteq Transcripts
    BY DEF ExtractInv, ExtractTypeOK, ExtractRunInv
  <1>4. /\ cutOff \subseteq cutOff' /\ cutOff' \subseteq Sources
        /\ begun => Source \in cutOff'
        /\ \/ stored' = stored
           \/ /\ queue # {} /\ Source \in cutOff' /\ stored' \in [Sources -> 0..2]
              /\ \A s \in Sources \ {Source} : stored'[s] = stored[s]
    BY <1>1, <1>2, <1>3, StoredOneCounts DEF CutOff
  <1> QED BY <1>1, <1>3, <1>4, HandsAreEmpty

LEMMA MarkProcessedKeeps == ASSUME ExtractInv, MarkProcessed PROVE ExtractInv'
  <1> USE DEF ExtractInv
  <1>1. /\ UNCHANGED <<listed, spoken, stored, garbled>>
        /\ xpc = "store" /\ begun' = FALSE /\ facts' = 0 /\ xpc' \in {"idle", "next"}
        /\ queue' \subseteq Sources /\ queue # {} /\ Source \in Sources
        /\ whole \subseteq whole' /\ whole' \subseteq whole \union {Source}
        /\ Source \in whole' \union garbled
        /\ \/ conn' = MarkedConn /\ disk' = MarkedConn /\ cutOff' = cutOff
           \/ (conn' = MarkedConn \/ conn' = conn) /\ disk' = disk /\ CutOff
    BY SourceIsOne
       DEF MarkProcessed, AllStored, NextSource, ExtractRunOver, tables, Write, WriteAndCommit, MarkedConn,
           ExtractTypeOK, ExtractRunInv
  <1>2. /\ conn'.processed = conn.processed \/ conn'.processed = conn.processed \union {Source}
        /\ DOMAIN conn' = DOMAIN conn
        /\ disk' = conn' \/ disk' = disk
        /\ disk'.processed \subseteq conn'.processed /\ disk.processed \subseteq disk'.processed
        /\ \/ Source \in disk'.processed /\ cutOff' = cutOff
           \/ CutOff
    BY <1>1, MarkIsSet DEF ExtractRunInv
  <1>3. /\ cutOff \subseteq cutOff' /\ cutOff' \subseteq Sources
        /\ begun => Source \in cutOff' \/ Source \in disk'.processed
    BY <1>1, <1>2 DEF CutOff, ExtractTypeOK
  <1>4. ExtractTypeOK'
    <2>1. conn.processed \subseteq Sources /\ disk.processed \subseteq Sources /\ whole \subseteq Sources
      BY DEF ExtractTypeOK
    <2>2. conn'.processed \subseteq Sources /\ disk'.processed \subseteq Sources /\ whole' \subseteq Sources
      BY <1>1, <1>2, <2>1
    <2>3. facts' \in 0..MaxFacts
      BY <1>1, SourceAssumption
    <2> QED BY <1>1, <1>3, <2>2, <2>3 DEF ExtractTypeOK
  <1>5. ExtractRunInv'
    BY <1>1, <1>2 DEF ExtractRunInv
  <1>6. StoredIsMarked'
    <2> SUFFICES ASSUME NEW s \in Sources, stored[s] > 0, s \notin cutOff' PROVE s \in disk'.processed
      BY <1>1 DEF StoredIsMarked
    <2>1. s \in disk.processed \/ (begun /\ s = Source)
      BY <1>3 DEF StoredIsMarked
    <2> QED BY <1>2, <1>3, <2>1
  <1>7. MarkedIsWhole'
    <2>1. \A s \in conn'.processed : s \in whole' \union garbled' \/ Stub(s)'
      BY <1>1, <1>2 DEF MarkedIsWhole, Stub, Duration
    <2>2. \A s \in Sources : stored'[s] > 1 => s \in cutOff'
      BY <1>1, <1>3 DEF MarkedIsWhole
    <2> QED BY <2>1, <2>2 DEF MarkedIsWhole
  <1> QED BY <1>4, <1>5, <1>6, <1>7

LEMMA ExtractCrashKeeps == ASSUME ExtractInv, ExtractCrash PROVE ExtractInv'
  <1>1. /\ UNCHANGED <<disk, listed, spoken, stored, whole, garbled>> /\ conn' = disk
        /\ begun' = FALSE /\ facts' = 0 /\ xpc' = "idle" /\ queue' = {}
        /\ cutOff' = cutOff \union (conn.processed \ disk.processed)
                            \union IF begun THEN {Source} ELSE {}
    BY DEF ExtractCrash, Reopen, ExtractRunOver
  <1>2. /\ disk.processed \subseteq conn.processed /\ conn.processed \subseteq Sources
        /\ cutOff \subseteq Sources /\ listed \subseteq Sources /\ spoken \subseteq Transcripts
    BY DEF ExtractInv, ExtractTypeOK, ExtractRunInv
  <1>3. begun => Source \in Sources
    BY SourceIsOne DEF ExtractInv, ExtractRunInv
  <1>4. cutOff \subseteq cutOff' /\ cutOff' \subseteq Sources /\ (begun => Source \in cutOff')
    BY <1>1, <1>2, <1>3
  <1> QED BY <1>1, <1>2, <1>4, HandsAreEmpty

LEMMA ExtractInvStep == ExtractInv /\ [ExtractNext]_<<tables, extractVars>> => ExtractInv'
  <1> SUFFICES ASSUME ExtractInv, [ExtractNext]_<<tables, extractVars>> PROVE ExtractInv'
    OBVIOUS
  <1>1. CASE ExtractOthersCommit \/ UNCHANGED <<tables, extractVars>>
    <2>1. /\ conn' = conn /\ (disk' = disk \/ disk' = conn)
          /\ UNCHANGED <<listed, spoken, xpc, queue, facts, begun, stored, whole, garbled, cutOff>>
      BY <1>1 DEF ExtractOthersCommit, OthersCommit, tables, extractVars, extractRun, extractSeen
    <2> QED BY <2>1 DEF ExtractInv, ExtractTypeOK, ExtractRunInv, StoredIsMarked, MarkedIsWhole,
                        Stub, Duration, Source
  <1> QED BY <1>1, AppearsKeeps, QuietStepKeeps, MarkStubKeeps, AskModelKeeps, StoreFactKeeps,
             StoreEndsKeeps, MarkProcessedKeeps, ExtractCrashKeeps DEF ExtractNext

(* The whole inductive invariant of the extraction.                        *)
THEOREM ExtractInvHolds == ExtractSpec => []ExtractInv
  <1>1. ExtractIdle /\ Created(ExtractTables) => ExtractInv
    BY ExtractInvInit, CreatedIsAtRest
  <1> QED BY <1>1, ExtractInvStep, PTL DEF ExtractSpec

(* A mark stands for a pass that stored every fact, an answer that could   *)
(* not be read, or what was taken for a stub; and no facts are stored      *)
(* twice but for passes cut off, for any sources, facts and faults.        *)
THEOREM MarksAreEarned == ExtractSpec => []MarkedIsWhole
  <1>1. ExtractInv => MarkedIsWhole
    BY DEF ExtractInv
  <1> QED BY <1>1, ExtractInvHolds, PTL

-----------------------------------------------------------------------------
(***************************************************************************)
(* The digest.  A row of the index is never older than the reading it      *)
(* stands for, on the connection or on disk, so the index a run loads      *)
(* holds all that was read in its weeks, but for what it has no room for.  *)
(***************************************************************************)
DigestSpec == DigestIdle /\ Created(DigestTables) /\ [][DigestNext]_<<tables, digestVars>>

LEMMA LongIsNat == Long \in Nat /\ IndexWeeks \in Nat /\ Long = IndexWeeks + 1
  BY StoryAssumption DEF Long

LEMMA DigestInvInit == DigestIdle /\ AtRest(DigestTables) => DigestInv
  <1> SUFFICES ASSUME DigestIdle, AtRest(DigestTables) PROVE DigestInv
    OBVIOUS
  <1>1. \A t \in {conn, disk} : /\ {"kept", "row"} \subseteq DOMAIN t
                                /\ t.kept = {} /\ t.row = [s \in Stories |-> Long]
    BY DEF AtRest, DigestTables
  <1>2. [s \in Stories |-> Long] \in [Stories -> 0..Long]
    BY LongIsNat
  <1>3. DigestTypeOK
    BY <1>1, <1>2 DEF DigestIdle, DigestTypeOK
  <1>4. \A s \in Stories : toldAge[s] = Long
    BY DEF DigestIdle
  <1>5. RowsInv
    BY <1>1, <1>4, LongIsNat DEF DigestIdle, RowsInv, RowsExplained
  <1>6. NoSignalsYet /\ ReadIsIndexed /\ ObeyedIndex
    BY DEF DigestIdle, NoSignalsYet, ReadIsIndexed, ObeyedIndex, ReadOnce
  <1> QED BY <1>3, <1>5, <1>6 DEF DigestInv

(* What is known of a table t, when the readings are told, the lost news   *)
(* are lost2, the readings without a URL are unk, and a run with the       *)
(* signals sig that have one is at the point pc.                           *)
RowFacts(t, told, lost2, unk, pc, sig) ==
  /\ {"kept", "row"} \subseteq DOMAIN t
  /\ t.kept \subseteq Stories /\ t.row \in [Stories -> 0..Long]
  /\ \A s \in Stories : t.row[s] < Long =>
        /\ told[s] <= t.row[s] \/ s \in lost2 \/ (pc = "send" /\ s \in sig)
        /\ s \in t.kept
  /\ \A s \in Stories \ unk : t.row[s] <= told[s]
  /\ pc = "index" => sig \subseteq t.kept
  /\ pc = "send" => \A s \in sig : t.row[s] = 0

RowsNow(t) == RowFacts(t, toldAge, lostNews, unkeyed, gpc, keyed)

(* What is known of the rest.                                              *)
DigestRest ==
  /\ gpc \in {"idle", "classify", "synthesize", "save", "index", "send", "alert"}
  /\ items \subseteq Stories /\ index \subseteq Stories /\ signals \subseteq items
  /\ keyed \subseteq signals
  /\ summary \in {"some", "none", "failed"}
  /\ toldAge \in [Stories -> 0..Long]
  /\ pushed \subseteq Stories /\ lostNews \subseteq Stories
  /\ unkeyed \subseteq Stories /\ repeats \subseteq Stories
  /\ NoSignalsYet /\ ReadIsIndexed /\ ObeyedIndex

LEMMA DigestInvParts == DigestInv <=> RowsNow(conn) /\ RowsNow(disk) /\ DigestRest
  BY DEF DigestInv, DigestTypeOK, RowsInv, RowsExplained, RowsNow, RowFacts, DigestRest

LEMMA DigestInvPartsNext ==
  ASSUME RowFacts(conn', toldAge', lostNews', unkeyed', gpc', keyed'),
         RowFacts(disk', toldAge', lostNews', unkeyed', gpc', keyed'), DigestRest'
  PROVE  DigestInv'
  BY DEF DigestInv, DigestTypeOK, RowsInv, RowsExplained, RowFacts, DigestRest

(* The run is over.                                                        *)
LEMMA DigestRunOverKeeps ==
  ASSUME DigestRest, DigestRunOver, UNCHANGED <<toldAge, unkeyed, repeats>>, lostNews' \subseteq Stories
  PROVE  DigestRest'
  BY DEF DigestRest, DigestRunOver, StoriesDone, NoSignalsYet, ReadIsIndexed, ObeyedIndex, ReadOnce

(* A table outlives the run whose signals are lost, or told.               *)
LEMMA RowsOutliveRun ==
  ASSUME NEW t, NEW told, NEW lost2, NEW unk, NEW pc, NEW sig,
         RowFacts(t, told, lost2, unk, pc, sig),
         NEW lost3, NEW pc2, NEW sig2, pc2 \notin {"index", "send"},
         lost2 \subseteq lost3, pc = "send" => sig \subseteq lost3
  PROVE  RowFacts(t, told, lost3, unk, pc2, sig2)
  BY DEF RowFacts

(* The signals are written into the table.                                 *)
LEMMA KeptWritten ==
  ASSUME NEW t, NEW told, NEW lost2, NEW unk, NEW sig \in SUBSET Stories, NEW pc, pc # "send",
         RowFacts(t, told, lost2, unk, pc, sig)
  PROVE  RowFacts([t EXCEPT !.kept = @ \union sig], told, lost2, unk, "index", sig)
  <1> DEFINE u == [t EXCEPT !.kept = @ \union sig]
  <1>1. DOMAIN u = DOMAIN t /\ u.kept = t.kept \union sig /\ u.row = t.row
    BY FieldSet DEF RowFacts
  <1> HIDE DEF u
  <1> QED BY <1>1 DEF RowFacts, u

(* The signals become the newest rows.                                     *)
NewRows(t, sig) == [t EXCEPT !.row = [s \in Stories |-> IF s \in sig THEN 0 ELSE @[s]]]

LEMMA NewRowsWritten ==
  ASSUME NEW t, NEW told \in [Stories -> 0..Long], NEW lost2, NEW unk,
         NEW sig \in SUBSET Stories, NEW lost3, lost2 \union sig \subseteq lost3,
         RowFacts(t, told, lost2, unk, "index", sig)
  PROVE  /\ RowFacts(NewRows(t, sig), told, lost2, unk, "send", sig)
         /\ RowFacts(NewRows(t, sig), told, lost3, unk, "idle", {})
  <1> DEFINE u == NewRows(t, sig)
  <1>1. DOMAIN u = DOMAIN t /\ u.kept = t.kept
        /\ u.row = [s \in Stories |-> IF s \in sig THEN 0 ELSE t.row[s]]
    BY FieldSet DEF RowFacts, NewRows
  <1>2. u.row \in [Stories -> 0..Long]
    BY <1>1, LongIsNat DEF RowFacts
  <1>3. /\ \A s \in Stories \ sig : u.row[s] = t.row[s]
        /\ \A s \in sig : u.row[s] = 0 /\ s \in t.kept
        /\ \A s \in Stories : told[s] \in 0..Long
    BY <1>1 DEF RowFacts
  <1> HIDE DEF u
  <1>4. \A s \in Stories \ unk : u.row[s] <= told[s]
    BY <1>3 DEF RowFacts
  <1>5. \A s \in Stories \ sig : u.row[s] < Long => (told[s] <= u.row[s] \/ s \in lost2) /\ s \in t.kept
    BY <1>3 DEF RowFacts
  <1>6. RowFacts(u, told, lost2, unk, "send", sig)
    BY <1>1, <1>2, <1>3, <1>4, <1>5 DEF RowFacts
  <1>7. RowFacts(u, told, lost3, unk, "idle", {})
    BY <1>1, <1>2, <1>3, <1>4, <1>5 DEF RowFacts
  <1> QED BY <1>6, <1>7 DEF u

(* A week passes over the readings and the rows alike.                     *)
LEMMA AgedRow ==
  ASSUME NEW f \in [Stories -> 0..Long]
  PROVE  /\ Aged(f) \in [Stories -> 0..Long]
         /\ \A s \in Stories : Aged(f)[s] = IF f[s] < Long THEN f[s] + 1 ELSE Long
  BY LongIsNat DEF Aged

LEMMA WeekOfRows ==
  ASSUME NEW t, NEW told \in [Stories -> 0..Long], NEW lost2, NEW unk, NEW sig,
         RowFacts(t, told, lost2, unk, "idle", sig)
  PROVE  RowFacts([t EXCEPT !.row = Aged(@)], Aged(told), lost2,
                  {s \in unk : Aged(told)[s] < Long}, "idle", sig)
  <1> DEFINE u == [t EXCEPT !.row = Aged(@)]
             unk2 == {s \in unk : Aged(told)[s] < Long}
  <1>1. DOMAIN u = DOMAIN t /\ u.kept = t.kept /\ u.row = Aged(t.row)
    BY FieldSet DEF RowFacts
  <1>2. t.row \in [Stories -> 0..Long]
    BY DEF RowFacts
  <1>3. /\ u.row \in [Stories -> 0..Long]
        /\ \A s \in Stories : /\ u.row[s] = IF t.row[s] < Long THEN t.row[s] + 1 ELSE Long
                              /\ Aged(told)[s] = IF told[s] < Long THEN told[s] + 1 ELSE Long
                              /\ t.row[s] \in 0..Long /\ told[s] \in 0..Long
    BY <1>1, <1>2, AgedRow
  <1> HIDE DEF u
  <1>4. ASSUME NEW s \in Stories \ unk2 PROVE u.row[s] <= Aged(told)[s]
    <2>1. CASE s \notin unk
      <3>1. t.row[s] <= told[s]
        BY <2>1 DEF RowFacts
      <3> QED BY <1>3, <3>1, LongIsNat
    <2>2. CASE s \in unk
      <3>1. Aged(told)[s] = Long
        BY <1>3, <2>2, LongIsNat
      <3> QED BY <1>3, <3>1, LongIsNat
    <2> QED BY <2>1, <2>2
  <1>5. ASSUME NEW s \in Stories, u.row[s] < Long
        PROVE  (Aged(told)[s] <= u.row[s] \/ s \in lost2) /\ s \in t.kept
    <2>1. t.row[s] < Long
      BY <1>3, <1>5, LongIsNat
    <2>2. (told[s] <= t.row[s] \/ s \in lost2) /\ s \in t.kept
      BY <2>1 DEF RowFacts
    <2> QED BY <1>3, <2>1, <2>2, LongIsNat
  <1> QED BY <1>1, <1>3, <1>4, <1>5 DEF RowFacts, u

-----------------------------------------------------------------------------
LEMMA WeekKeeps == ASSUME DigestInv, Week PROVE DigestInv'
  <1>1. /\ UNCHANGED <<gpc, items, index, pushed, signals, keyed, summary, lostNews, repeats>>
        /\ gpc = "idle" /\ unkeyed' = {s \in unkeyed : toldAge'[s] < Long}
        /\ conn' = [conn EXCEPT !.row = Aged(@)] /\ disk' = [disk EXCEPT !.row = Aged(@)]
        /\ toldAge' = Aged(toldAge)
    BY DEF Week, digestRun
  <1>2. RowsNow(conn) /\ RowsNow(disk) /\ DigestRest
    BY DigestInvParts
  <1>3. toldAge \in [Stories -> 0..Long] /\ toldAge' \in [Stories -> 0..Long]
    BY <1>1, <1>2, AgedRow DEF DigestRest
  <1>4. /\ RowFacts(conn', toldAge', lostNews', unkeyed', gpc', keyed')
        /\ RowFacts(disk', toldAge', lostNews', unkeyed', gpc', keyed')
    BY <1>1, <1>2, <1>3, WeekOfRows DEF RowsNow
  <1>5. DigestRest'
    BY <1>1, <1>2, <1>3 DEF DigestRest, NoSignalsYet, ReadIsIndexed, ObeyedIndex, ReadOnce
  <1> QED BY <1>4, <1>5, DigestInvPartsNext

(* The steps of a run before there are signals.                            *)
LEMMA CollectKeeps == ASSUME DigestInv, Collect PROVE DigestInv'
  <1>1. /\ UNCHANGED <<conn, disk, index, pushed, signals, keyed, summary, toldAge, lostNews, unkeyed, repeats>>
        /\ gpc = "idle" /\ gpc' = "classify" /\ items' \subseteq Stories
    BY DEF Collect, First, tables, digestSeen
  <1>2. RowsNow(conn) /\ RowsNow(disk) /\ DigestRest
    BY DigestInvParts
  <1>3. /\ RowFacts(conn', toldAge', lostNews', unkeyed', gpc', keyed')
        /\ RowFacts(disk', toldAge', lostNews', unkeyed', gpc', keyed')
    BY <1>1, <1>2, RowsOutliveRun DEF RowsNow
  <1>4. DigestRest'
    BY <1>1, <1>2 DEF DigestRest, NoSignalsYet, ReadIsIndexed, ObeyedIndex, ReadOnce
  <1> QED BY <1>3, <1>4, DigestInvPartsNext

LEMMA ClassifyKeeps == ASSUME DigestInv, Classify PROVE DigestInv'
  <1>1. /\ UNCHANGED <<conn, disk, signals, keyed, summary, toldAge, lostNews, unkeyed, repeats>>
        /\ gpc = "classify" /\ gpc' = "synthesize" /\ items' \subseteq items
        /\ index' = DedupIndex /\ pushed' = Overflow
    BY DEF Classify, tables, digestSeen
  <1>2. RowsNow(conn) /\ RowsNow(disk) /\ DigestRest
    BY DigestInvParts
  <1>3. /\ RowFacts(conn', toldAge', lostNews', unkeyed', gpc', keyed')
        /\ RowFacts(disk', toldAge', lostNews', unkeyed', gpc', keyed')
    BY <1>1, <1>2, RowsOutliveRun DEF RowsNow
  <1>4. ASSUME NEW s \in Stories \ unkeyed, toldAge[s] < Long PROVE s \in DedupIndex \union Overflow
    <2>1. conn.row[s] <= toldAge[s] /\ conn.row[s] \in 0..Long /\ toldAge[s] \in 0..Long
      BY <1>2 DEF RowsNow, RowFacts, DigestRest
    <2>2. s \in FreshRows(IndexWeeks)
      BY <1>4, <2>1, LongIsNat DEF FreshRows
    <2> QED BY <2>2 DEF DedupIndex
  <1>5. index' \subseteq Stories /\ pushed' \subseteq Stories
    BY <1>1 DEF DedupIndex, FreshRows, Overflow
  <1>6. DigestRest'
    BY <1>1, <1>2, <1>4, <1>5 DEF DigestRest, NoSignalsYet, ReadIsIndexed, ObeyedIndex, ReadOnce
  <1> QED BY <1>3, <1>6, DigestInvPartsNext

LEMMA SynthesizeKeeps == ASSUME DigestInv, Synthesize PROVE DigestInv'
  <1>1. /\ UNCHANGED <<conn, disk, items, index, pushed, toldAge, lostNews, unkeyed, repeats>>
        /\ gpc = "synthesize" /\ gpc' = "save" /\ signals' \subseteq items /\ keyed' \subseteq signals'
        /\ ~DigestFault("ignore") => signals' \intersect index = {}
        /\ summary' \in {"some", "none", "failed"}
    BY DEF Synthesize, tables, digestSeen
  <1>2. RowsNow(conn) /\ RowsNow(disk) /\ DigestRest
    BY DigestInvParts
  <1>3. /\ RowFacts(conn', toldAge', lostNews', unkeyed', gpc', keyed')
        /\ RowFacts(disk', toldAge', lostNews', unkeyed', gpc', keyed')
    BY <1>1, <1>2, RowsOutliveRun DEF RowsNow
  <1>4. DigestRest'
    BY <1>1, <1>2 DEF DigestRest, NoSignalsYet, ReadIsIndexed, ObeyedIndex, ReadOnce
  <1> QED BY <1>3, <1>4, DigestInvPartsNext

LEMMA SaveSignalsKeeps == ASSUME DigestInv, SaveSignals PROVE DigestInv'
  <1>1. /\ UNCHANGED <<items, index, pushed, signals, keyed, summary, toldAge, lostNews, unkeyed, repeats>>
        /\ gpc = "save" /\ gpc' = "index"
        /\ conn' = [conn EXCEPT !.kept = @ \union keyed] /\ disk' = conn'
    BY DEF SaveSignals, WriteAndCommit, digestSeen
  <1>2. RowsNow(conn) /\ DigestRest /\ keyed \in SUBSET Stories
    BY DigestInvParts DEF DigestRest
  <1>3. RowFacts(conn', toldAge', lostNews', unkeyed', gpc', keyed')
    BY <1>1, <1>2, KeptWritten DEF RowsNow
  <1>4. DigestRest'
    BY <1>1, <1>2 DEF DigestRest, NoSignalsYet, ReadIsIndexed, ObeyedIndex, ReadOnce
  <1> QED BY <1>1, <1>3, <1>4, DigestInvPartsNext

LEMMA SaveDedupKeeps == ASSUME DigestInv, SaveDedup PROVE DigestInv'
  <1>1. /\ UNCHANGED <<items, index, pushed, signals, keyed, summary, toldAge, lostNews, unkeyed, repeats>>
        /\ gpc = "index" /\ gpc' = "send" /\ conn' = NewRows(conn, keyed) /\ disk' = conn'
    BY DEF SaveDedup, WriteAndCommit, digestSeen, NewRows, Reported
  <1>2. RowsNow(conn) /\ DigestRest /\ keyed \in SUBSET Stories /\ toldAge \in [Stories -> 0..Long]
    BY DigestInvParts DEF DigestRest
  <1>3. RowFacts(conn', toldAge', lostNews', unkeyed', gpc', keyed')
    BY <1>1, <1>2, NewRowsWritten DEF RowsNow
  <1>4. DigestRest'
    BY <1>1, <1>2 DEF DigestRest, NoSignalsYet, ReadIsIndexed, ObeyedIndex, ReadOnce
  <1> QED BY <1>1, <1>3, <1>4, DigestInvPartsNext

LEMMA SaveFailsKeeps == ASSUME DigestInv, SaveFails PROVE DigestInv'
  <1>1. /\ disk' = disk /\ UNCHANGED <<toldAge, unkeyed, repeats>> /\ DigestRunOver
        /\ lostNews' = lostNews \union signals /\ gpc \in {"save", "index"}
        /\ \/ conn' = conn
           \/ gpc = "save" /\ conn' = [conn EXCEPT !.kept = @ \union keyed]
           \/ gpc = "index" /\ conn' = NewRows(conn, keyed)
    BY DEF SaveFails, DigestRaises, Write, tables, NewRows, Reported
  <1>2. /\ RowsNow(conn) /\ RowsNow(disk) /\ DigestRest
        /\ keyed \in SUBSET Stories /\ toldAge \in [Stories -> 0..Long]
        /\ lostNews' \subseteq Stories /\ lostNews \union keyed \subseteq lostNews'
    BY <1>1, DigestInvParts DEF DigestRest
  <1>3. DigestRest'
    BY <1>1, <1>2, DigestRunOverKeeps
  <1>4. gpc' = "idle" /\ keyed' = {} /\ toldAge' = toldAge /\ unkeyed' = unkeyed
    BY <1>1 DEF DigestRunOver, StoriesDone
  <1>5. RowFacts(disk', toldAge', lostNews', unkeyed', gpc', keyed')
    BY <1>1, <1>2, <1>4, RowsOutliveRun DEF RowsNow
  <1>6. RowFacts(conn', toldAge', lostNews', unkeyed', gpc', keyed')
    <2>1. CASE conn' = conn
      BY <1>1, <1>2, <1>4, <2>1, RowsOutliveRun DEF RowsNow
    <2>2. CASE gpc = "save" /\ conn' = [conn EXCEPT !.kept = @ \union keyed]
      <3>1. RowFacts(conn', toldAge, lostNews, unkeyed, "index", keyed)
        BY <1>2, <2>2, KeptWritten DEF RowsNow
      <3> QED BY <1>1, <1>4, <3>1, RowsOutliveRun
    <2>3. CASE gpc = "index" /\ conn' = NewRows(conn, keyed)
      BY <1>1, <1>2, <1>4, <2>3, NewRowsWritten DEF RowsNow
    <2> QED BY <1>1, <2>1, <2>2, <2>3
  <1> QED BY <1>3, <1>5, <1>6, DigestInvPartsNext

(* The owner reads the signals: rows and readings meet at 0, for those     *)
(* that have a URL.                                                        *)
LEMMA RowsAreRead ==
  ASSUME NEW t, NEW told \in [Stories -> 0..Long], NEW lost2, NEW unk, NEW all \in SUBSET Stories,
         NEW sig \in SUBSET all, RowFacts(t, told, lost2, unk, "send", sig)
  PROVE  RowFacts(t, [s \in Stories |-> IF s \in all THEN 0 ELSE told[s]], lost2 \ all,
                  (unk \ all) \union (all \ sig), "alert", {})
  <1> DEFINE read == [s \in Stories |-> IF s \in all THEN 0 ELSE told[s]]
             unk2 == (unk \ all) \union (all \ sig)
  <1>1. /\ \A s \in all : read[s] = 0
        /\ \A s \in sig : t.row[s] = 0
        /\ \A s \in Stories \ all : read[s] = told[s]
        /\ \A s \in Stories : t.row[s] \in 0..Long
    BY DEF RowFacts
  <1> HIDE DEF read
  <1>2. \A s \in Stories \ unk2 : t.row[s] <= read[s]
    BY <1>1 DEF RowFacts
  <1>3. \A s \in Stories : t.row[s] < Long => (read[s] <= t.row[s] \/ s \in lost2 \ all) /\ s \in t.kept
    BY <1>1 DEF RowFacts
  <1> QED BY <1>2, <1>3 DEF RowFacts, read

LEMMA SendSummaryKeeps == ASSUME DigestInv, SendSummary PROVE DigestInv'
  <1>1. /\ UNCHANGED <<conn, disk>> /\ gpc = "send"
        /\ RowsNow(conn) /\ RowsNow(disk) /\ DigestRest
        /\ signals \in SUBSET Stories /\ toldAge \in [Stories -> 0..Long]
        /\ keyed \in SUBSET signals
    BY DigestInvParts DEF SendSummary, tables, DigestRest
  <1>2. CASE /\ gpc' = "alert" /\ StoriesDone
             /\ toldAge' = [s \in Stories |-> IF s \in signals THEN 0 ELSE toldAge[s]]
             /\ repeats' = repeats \union ({s \in signals : toldAge[s] < Long} \ (pushed \union unkeyed))
             /\ unkeyed' = (unkeyed \ signals) \union (signals \ keyed)
             /\ lostNews' = lostNews \ signals
    <2>1. /\ RowFacts(conn', toldAge', lostNews', unkeyed', gpc', keyed')
          /\ RowFacts(disk', toldAge', lostNews', unkeyed', gpc', keyed')
      BY <1>1, <1>2, RowsAreRead DEF RowsNow, StoriesDone
    <2>2. toldAge' \in [Stories -> 0..Long]
      BY <1>1, <1>2, LongIsNat
    <2>3. ~DigestFault("ignore") => repeats' = {}
      BY <1>1, <1>2 DEF DigestRest, ReadIsIndexed, ObeyedIndex, ReadOnce
    <2>4. lostNews' \subseteq Stories /\ repeats' \subseteq Stories /\ unkeyed' \subseteq Stories
      BY <1>1, <1>2 DEF DigestRest
    <2>5. DigestRest'
      BY <1>1, <1>2, <2>2, <2>3, <2>4 DEF DigestRest, StoriesDone, NoSignalsYet, ReadIsIndexed, ObeyedIndex, ReadOnce
    <2> QED BY <2>1, <2>5, DigestInvPartsNext
  <1>3. CASE /\ gpc' = "alert" /\ StoriesDone /\ lostNews' = lostNews \union signals
             /\ UNCHANGED <<toldAge, unkeyed, repeats>>
    <2>1. /\ RowFacts(conn', toldAge', lostNews', unkeyed', gpc', keyed')
          /\ RowFacts(disk', toldAge', lostNews', unkeyed', gpc', keyed')
      BY <1>1, <1>3, RowsOutliveRun DEF RowsNow
    <2>2. lostNews' \subseteq Stories
      BY <1>1, <1>3 DEF DigestRest
    <2>3. DigestRest'
      BY <1>1, <1>3, <2>2 DEF DigestRest, StoriesDone, NoSignalsYet, ReadIsIndexed, ObeyedIndex, ReadOnce
    <2> QED BY <2>1, <2>3, DigestInvPartsNext
  <1>4. CASE DigestRaises /\ lostNews' = lostNews \union signals
    <2>1. DigestRunOver /\ UNCHANGED <<toldAge, unkeyed, repeats>> /\ gpc' = "idle"
      BY <1>4 DEF DigestRaises, DigestRunOver
    <2>2. lostNews' \subseteq Stories
      BY <1>1, <1>4 DEF DigestRest
    <2>3. /\ RowFacts(conn', toldAge', lostNews', unkeyed', gpc', keyed')
          /\ RowFacts(disk', toldAge', lostNews', unkeyed', gpc', keyed')
      BY <1>1, <1>4, <2>1, RowsOutliveRun DEF RowsNow
    <2> QED BY <1>1, <2>1, <2>2, <2>3, DigestRunOverKeeps, DigestInvPartsNext
  <1> QED BY <1>2, <1>3, <1>4 DEF SendSummary

(* The run ends, in order or with an exception, or with the process.       *)
LEMMA DigestEndsKeeps == ASSUME DigestInv, SynthesisFails \/ Finish \/ DigestCrash PROVE DigestInv'
  <1>1. /\ UNCHANGED <<disk, toldAge, unkeyed, repeats>> /\ conn' \in {conn, disk}
        /\ DigestRunOver /\ gpc' = "idle"
        /\ lostNews' = lostNews \union signals \/ (lostNews' = lostNews /\ gpc # "send")
    BY DEF SynthesisFails, Finish, DigestCrash, DigestRaises, DigestRunOver, Reopen, tables, digestSeen
  <1>2. RowsNow(conn) /\ RowsNow(disk) /\ DigestRest
    BY DigestInvParts
  <1>3. /\ lostNews' \subseteq Stories /\ lostNews \subseteq lostNews'
        /\ gpc = "send" => keyed \subseteq lostNews'
    BY <1>1, <1>2 DEF DigestRest
  <1>4. DigestRest'
    BY <1>1, <1>2, <1>3, DigestRunOverKeeps
  <1>5. /\ RowFacts(conn, toldAge', lostNews', unkeyed', gpc', keyed')
        /\ RowFacts(disk, toldAge', lostNews', unkeyed', gpc', keyed')
    BY <1>1, <1>2, <1>3, RowsOutliveRun DEF RowsNow
  <1> QED BY <1>1, <1>4, <1>5, DigestInvPartsNext

LEMMA DigestInvStep == DigestInv /\ [DigestNext]_<<tables, digestVars>> => DigestInv'
  <1> SUFFICES ASSUME DigestInv, [DigestNext]_<<tables, digestVars>> PROVE DigestInv'
    OBVIOUS
  <1>1. CASE DigestOthersCommit \/ UNCHANGED <<tables, digestVars>>
    <2>1. /\ conn' = conn /\ (disk' = disk \/ disk' = conn)
          /\ UNCHANGED <<gpc, items, index, pushed, signals, keyed, summary, toldAge, lostNews, unkeyed, repeats>>
      BY <1>1 DEF DigestOthersCommit, OthersCommit, tables, digestVars, digestRun, digestSeen
    <2>2. RowsNow(conn) /\ RowsNow(disk) /\ DigestRest
      BY DigestInvParts
    <2>3. DigestRest'
      BY <2>1, <2>2 DEF DigestRest, NoSignalsYet, ReadIsIndexed, ObeyedIndex, ReadOnce
    <2> QED BY <2>1, <2>2, <2>3, DigestInvPartsNext DEF RowsNow
  <1> QED BY <1>1, WeekKeeps, CollectKeeps, ClassifyKeeps, SynthesizeKeeps, SaveSignalsKeeps,
             SaveDedupKeeps, SaveFailsKeeps, SendSummaryKeeps, DigestEndsKeeps DEF DigestNext

(* The whole inductive invariant of the digest.                            *)
THEOREM DigestInvHolds == DigestSpec => []DigestInv
  <1>1. DigestIdle /\ Created(DigestTables) => DigestInv
    BY DigestInvInit, CreatedIsAtRest
  <1> QED BY <1>1, DigestInvStep, PTL DEF DigestSpec

(* What the coming weeks leave out the owner read, or the summary that had *)
(* it was lost, for any stories, any reach of the index and any faults.    *)
LEMMA DigestInvExplains == DigestInv => LeftOutWasReported
  BY DEF DigestInv, RowsInv, RowsExplained, LeftOutWasReported

THEOREM RowsHaveReasons == DigestSpec => []LeftOutWasReported
  BY DigestInvExplains, DigestInvHolds, PTL

(* The owner reads nothing twice within the weeks of the index, but for    *)
(* what the index had no room for or was read without its URL, while the   *)
(* model does as it is told.                                               *)
THEOREM NothingReadTwice == ~DigestFault("ignore") /\ DigestSpec => []ReadOnce
  <1> SUFFICES ASSUME ~DigestFault("ignore") PROVE DigestSpec => []ReadOnce
    OBVIOUS
  <1>1. DigestInv => ReadOnce
    BY DEF DigestInv, ObeyedIndex
  <1> QED BY <1>1, DigestInvHolds, PTL
===============================================================================
