------------------------- MODULE ConversationProofs -------------------------
(***************************************************************************)
(* Proofs about Conversation, for any sizes of the windows, any number of  *)
(* messages and any faults.                                                *)
(***************************************************************************)
EXTENDS Conversation, FiniteSetTheorems, TLAPS

(* The oldest rows precede the others.                                     *)
LEMMA OldestPrecede ==
    ASSUME IsFiniteSet(rows), rows \subseteq Nat, NEW n \in Nat
    PROVE Oldest(n) \subseteq rows /\ Precedes(Oldest(n), rows \ Oldest(n))
<1>1. Oldest(n) \subseteq rows
  BY DEF Oldest
<1>2. ASSUME NEW x \in Oldest(n), NEW y \in rows \ Oldest(n) PROVE x < y
  <2> DEFINE Before(z) == {r \in rows : r < z}
  <2>1. x \in rows /\ x \in Nat /\ y \in Nat
    BY <1>1
  <2>2. Cardinality(Before(x)) < n /\ ~(Cardinality(Before(y)) < n)
    BY DEF Oldest
  <2>3. SUFFICES ASSUME ~(x < y) PROVE FALSE
    OBVIOUS
  <2>4. Before(y) \subseteq Before(x)
    <3>1. \A r \in rows : r < y => r < x
      BY <2>1, <2>3
    <3> QED
      BY <3>1
  <2>5. IsFiniteSet(Before(x))
    BY FS_Subset
  <2>6. IsFiniteSet(Before(y)) /\ Cardinality(Before(y)) <= Cardinality(Before(x))
    BY <2>4, <2>5, FS_Subset
  <2>7. Cardinality(Before(x)) \in Nat /\ Cardinality(Before(y)) \in Nat
    BY <2>5, <2>6, FS_CardinalityType
  <2> QED
    BY <2>2, <2>6, <2>7
<1> QED
  BY <1>1, <1>2 DEF Precedes

LEMMA RowsFinite == ASSUME TypeOK PROVE IsFiniteSet(rows) /\ rows \subseteq Nat
<1>1. IsFiniteSet(1..MaxMessages)
  BY SizesAssumption, FS_Interval
<1>2. rows \in SUBSET (1..MaxMessages)
  BY DEF TypeOK, Ids
<1>3. IsFiniteSet(rows)
  BY <1>1, <1>2, FS_Subset
<1>4. rows \subseteq Nat
  BY <1>2
<1> QED
  BY <1>3, <1>4

LEMMA IndInit == Init => IndInv
BY SizesAssumption DEF Init, IndInv, TypeOK, Ids, Steps, Nothing, BatchInv, Reading, DiskInv,
   NothingVanishes, SummaryComesFirst, Precedes

(* A stored message comes after everything there is.                       *)
LEMMA StoreStep ==
    ASSUME IndInv, StoreMessage, batch' = batch
    PROVE /\ rows' \subseteq Ids /\ summary' \subseteq Ids
          /\ disk' \in [rows : SUBSET Ids, summary : SUBSET Ids]
          /\ stored' \in 0..MaxMessages /\ condensed' \subseteq Ids
          /\ DiskInv' /\ NothingVanishes' /\ SummaryComesFirst'
          /\ Precedes(batch, rows \ batch) => Precedes(batch', rows' \ batch')
          /\ batch \subseteq rows => batch' \subseteq rows'
<1> DEFINE new == stored + 1
<1>1. /\ new \in Ids /\ stored' = new /\ stored \in Nat
      /\ rows' = rows \union {new} /\ summary' = summary
      /\ disk' = [rows |-> rows \union {new}, summary |-> summary]
      /\ condensed' = condensed \union summary
  BY SizesAssumption DEF StoreMessage, Commit, IndInv, TypeOK, Ids
<1>2. rows \subseteq 1..stored /\ summary \subseteq 1..stored /\ disk.rows = rows
  BY DEF IndInv, DiskInv
<1>3. rows \subseteq Ids /\ summary \subseteq Ids /\ condensed \subseteq Ids
  BY DEF IndInv, TypeOK
<1>4. DiskInv'
  <2>1. 1..stored \subseteq 1..new /\ new \in 1..new
    BY <1>1
  <2>2. disk'.rows = rows' /\ disk'.summary = summary'
    BY <1>1
  <2> QED
    BY <1>1, <1>2, <2>1, <2>2 DEF DiskInv
<1>5. NothingVanishes'
  BY <1>1, <1>2 DEF IndInv, NothingVanishes
<1>6. SummaryComesFirst'
  BY <1>1, <1>2 DEF IndInv, SummaryComesFirst, Precedes
<1>7. Precedes(batch, rows \ batch) /\ batch \subseteq rows => Precedes(batch', rows' \ batch')
  BY <1>1, <1>2 DEF Precedes
<1>8. batch \subseteq rows
  BY DEF IndInv, BatchInv
<1>9. stored' \in 0..MaxMessages
  BY <1>1 DEF Ids
<1> QED
  BY <1>1, <1>3, <1>4, <1>5, <1>6, <1>7, <1>8, <1>9

(* The step of the run that stores, and the debrief: batch and stage.      *)
LEMMA IndStore ==
    ASSUME IndInv, StoreMessage, batch' = batch, excess' = excess,
           shown' \in {shown, Nothing}, pc' \in Steps,
           pc' = pc \/ (~Reading /\ ~Reading')
    PROVE IndInv'
<1>1. /\ rows' \subseteq Ids /\ summary' \subseteq Ids
      /\ disk' \in [rows : SUBSET Ids, summary : SUBSET Ids]
      /\ stored' \in 0..MaxMessages /\ condensed' \subseteq Ids
      /\ DiskInv' /\ NothingVanishes' /\ SummaryComesFirst'
      /\ Precedes(batch, rows \ batch) => Precedes(batch', rows' \ batch')
      /\ batch \subseteq rows => batch' \subseteq rows'
  BY StoreStep
<1>2. TypeOK'
  BY <1>1 DEF IndInv, TypeOK, Nothing
<1>3. summary' = summary /\ condensed \subseteq condensed'
  BY DEF StoreMessage, Commit
<1>4. BatchInv'
  BY <1>1, <1>3 DEF IndInv, BatchInv, Reading
<1> QED
  BY <1>1, <1>2, <1>4 DEF IndInv

LEMMA IndReadOld == ASSUME IndInv, ReadOld PROVE IndInv'
<1>1. Oldest(excess) \subseteq rows /\ Precedes(Oldest(excess), rows \ Oldest(excess))
  BY OldestPrecede, RowsFinite DEF IndInv, TypeOK
<1>2. /\ pc' = "call" /\ batch' = Oldest(excess) /\ excess' = 0
      /\ UNCHANGED <<rows, summary, disk, stored, shown, condensed>>
  BY DEF ReadOld
<1>3. TypeOK'
  BY <1>1, <1>2 DEF IndInv, TypeOK, Steps
<1>4. BatchInv'
  BY <1>1, <1>2 DEF BatchInv, Reading
<1>5. DiskInv' /\ NothingVanishes' /\ SummaryComesFirst'
  BY <1>2 DEF ReadOld, IndInv, DiskInv, NothingVanishes, SummaryComesFirst, Precedes
<1> QED
  BY <1>3, <1>4, <1>5 DEF IndInv

LEMMA IndInsertSummary == ASSUME IndInv, InsertSummary PROVE IndInv'
<1>1. /\ pc = "insert" /\ pc' = "delete"
      /\ summary' = batch /\ rows' = rows /\ batch' = batch
      /\ disk' = [rows |-> rows, summary |-> batch]
      /\ condensed' = condensed \union batch
      /\ UNCHANGED <<stored, excess, shown>>
  BY DEF InsertSummary, Commit
<1>2. batch \subseteq rows /\ Precedes(batch, rows \ batch) /\ batch \subseteq Ids
  BY <1>1 DEF IndInv, BatchInv, Reading, TypeOK
<1>3. TypeOK'
  BY <1>1, <1>2 DEF IndInv, TypeOK, Steps
<1>4. BatchInv'
  BY <1>1, <1>2 DEF BatchInv, Reading
<1>5. DiskInv'
  BY <1>1, <1>2 DEF IndInv, DiskInv
<1>6. NothingVanishes'
  BY <1>1 DEF IndInv, DiskInv, NothingVanishes
<1>7. SummaryComesFirst'
  BY <1>1, <1>2 DEF SummaryComesFirst
<1> QED
  BY <1>3, <1>4, <1>5, <1>6, <1>7 DEF IndInv

LEMMA IndDeleteOld == ASSUME IndInv, DeleteOld PROVE IndInv'
<1>1. /\ pc = "delete" /\ pc' = "load"
      /\ summary' = summary /\ rows' = rows \ batch /\ batch' = {}
      /\ disk' = [rows |-> rows \ batch, summary |-> summary]
      /\ condensed' = condensed \union summary
      /\ UNCHANGED <<stored, excess, shown>>
  BY DEF DeleteOld, Commit
<1>2. summary = batch /\ batch \subseteq condensed /\ Precedes(batch, rows \ batch)
  BY <1>1 DEF IndInv, BatchInv, Reading
<1>3. TypeOK'
  BY <1>1 DEF IndInv, TypeOK, Steps
<1>4. BatchInv'
  BY <1>1 DEF BatchInv, Reading
<1>5. DiskInv'
  BY <1>1 DEF IndInv, DiskInv
<1>6. NothingVanishes'
  BY <1>1, <1>2 DEF IndInv, DiskInv, NothingVanishes
<1>7. SummaryComesFirst'
  BY <1>1, <1>2 DEF SummaryComesFirst, Precedes
<1> QED
  BY <1>3, <1>4, <1>5, <1>6, <1>7 DEF IndInv

LEMMA IndDropSummary == ASSUME IndInv, DropSummary PROVE IndInv'
<1>1. /\ pc = "replace" /\ pc' = "insert" /\ summary' = {}
      /\ UNCHANGED <<rows, disk, stored, excess, batch, shown, condensed>>
  BY DEF DropSummary
<1>2. TypeOK'
  BY <1>1 DEF IndInv, TypeOK, Steps
<1>3. BatchInv'
  BY <1>1 DEF IndInv, BatchInv, Reading
<1>4. DiskInv'
  BY <1>1 DEF IndInv, DiskInv
<1>5. NothingVanishes' /\ SummaryComesFirst'
  BY <1>1 DEF IndInv, NothingVanishes, SummaryComesFirst, Precedes
<1> QED
  BY <1>2, <1>3, <1>4, <1>5 DEF IndInv

LEMMA IndOtherCommits == ASSUME IndInv, OtherCommits PROVE IndInv'
<1>1. /\ disk' = [rows |-> rows, summary |-> summary]
      /\ condensed' = condensed \union summary
      /\ UNCHANGED <<rows, summary, stored, pc, excess, batch, shown>>
  BY DEF OtherCommits, Commit
<1>2. TypeOK'
  BY <1>1 DEF IndInv, TypeOK
<1>3. BatchInv' /\ DiskInv'
  BY <1>1 DEF IndInv, BatchInv, DiskInv, Reading
<1>4. NothingVanishes' /\ SummaryComesFirst'
  BY <1>1 DEF IndInv, DiskInv, NothingVanishes, SummaryComesFirst
<1> QED
  BY <1>2, <1>3, <1>4 DEF IndInv

LEMMA IndCrash == ASSUME IndInv, Crash PROVE IndInv'
<1>1. /\ rows' = disk.rows /\ summary' = disk.summary
      /\ pc' = "idle" /\ excess' = 0 /\ batch' = {} /\ shown' = Nothing
      /\ UNCHANGED <<disk, stored, condensed>>
  BY DEF Crash
<1>2. TypeOK'
  BY <1>1 DEF IndInv, TypeOK, Steps, Nothing
<1>3. BatchInv' /\ DiskInv'
  BY <1>1 DEF IndInv, BatchInv, DiskInv, Reading
<1>4. NothingVanishes' /\ SummaryComesFirst'
  BY <1>1 DEF IndInv, NothingVanishes, SummaryComesFirst
<1> QED
  BY <1>2, <1>3, <1>4 DEF IndInv

(* The steps that touch neither the tables nor the batch.                  *)
LEMMA IndQuiet ==
    ASSUME IndInv, UNCHANGED <<rows, summary, disk, stored, condensed>>, pc' \in Steps,
           excess' \in Nat, shown' \in [summary : SUBSET Ids, history : SUBSET Ids],
           pc # "insert", BatchInv'
    PROVE IndInv'
<1>1. TypeOK'
  BY DEF IndInv, TypeOK, BatchInv, Reading
<1>2. DiskInv' /\ NothingVanishes' /\ SummaryComesFirst'
  BY DEF IndInv, DiskInv, NothingVanishes, SummaryComesFirst, Precedes
<1> QED
  BY <1>1, <1>2 DEF IndInv

LEMMA IndRunBegins == ASSUME IndInv, RunBegins PROVE IndInv'
<1>1. pc = "idle" /\ pc' \in {"read", "load"} /\ shown' = shown /\ batch' = batch
  BY DEF RunBegins
<1>2. excess' \in Nat
  <2>1. Cardinality(rows) \in Nat
    BY RowsFinite, FS_CardinalityType DEF IndInv
  <2> QED
    BY <2>1, SizesAssumption DEF RunBegins, Compacts
<1>3. BatchInv'
  BY <1>1 DEF IndInv, BatchInv, Reading
<1> QED
  BY <1>1, <1>2, <1>3, IndQuiet DEF RunBegins, IndInv, TypeOK, Steps

LEMMA IndLoad ==
    ASSUME IndInv, SummaryArrives \/ SummaryFails \/ LoadSummary \/ LoadHistory \/ NoReply
    PROVE IndInv'
<1>1. /\ pc \in {"call", "load", "history", "answer"}
      /\ pc' \in {"replace", "load", "history", "store", "idle"}
      /\ UNCHANGED <<rows, summary, disk, stored, excess, condensed>>
  BY DEF SummaryArrives, SummaryFails, LoadSummary, LoadHistory, NoReply
<1>2. shown' \in [summary : SUBSET Ids, history : SUBSET Ids]
  <2>1. RecentMessages(KeepRecent) \subseteq Ids
    BY DEF RecentMessages, Oldest, IndInv, TypeOK
  <2> QED
    BY <2>1 DEF SummaryArrives, SummaryFails, LoadSummary, LoadHistory, NoReply, IndInv, TypeOK, Nothing
<1>3. BatchInv'
  BY DEF SummaryArrives, SummaryFails, LoadSummary, LoadHistory, NoReply, IndInv, BatchInv, Reading
<1> QED
  BY <1>1, <1>2, <1>3, IndQuiet DEF IndInv, TypeOK, Steps

LEMMA IndStep == IndInv /\ [Next]_vars => IndInv'
<1> SUFFICES ASSUME IndInv, [Next]_vars PROVE IndInv'
  OBVIOUS
<1>1. CASE RunBegins
  BY <1>1, IndRunBegins
<1>2. CASE SummaryArrives \/ SummaryFails \/ LoadSummary \/ LoadHistory \/ NoReply
  BY <1>2, IndLoad
<1>3. CASE ReadOld
  BY <1>3, IndReadOld
<1>4. CASE DropSummary
  BY <1>4, IndDropSummary
<1>5. CASE InsertSummary
  BY <1>5, IndInsertSummary
<1>6. CASE DeleteOld
  BY <1>6, IndDeleteOld
<1>7. CASE StorePrompt \/ StoreReply
  BY <1>7, IndStore DEF StorePrompt, StoreReply, Reading, Steps
<1>8. CASE DebriefStored
  <2>1. /\ StoreMessage /\ batch' = batch /\ excess' = excess
        /\ shown' = shown /\ pc' = pc
    BY <1>8 DEF DebriefStored
  <2>2. pc' \in Steps
    BY <2>1 DEF IndInv, TypeOK
  <2>3. shown' \in {shown, Nothing} /\ (pc' = pc \/ (~Reading /\ ~Reading'))
    BY <2>1
  <2> QED
    BY <2>1, <2>2, <2>3, IndStore
<1>9. CASE OtherCommits
  BY <1>9, IndOtherCommits
<1>10. CASE Crash
  BY <1>10, IndCrash
<1>11. CASE UNCHANGED vars
  BY <1>11 DEF vars, IndInv, TypeOK, BatchInv, DiskInv, Reading, NothingVanishes, SummaryComesFirst
<1> QED
  BY <1>1, <1>2, <1>3, <1>4, <1>5, <1>6, <1>7, <1>8, <1>9, <1>10, <1>11 DEF Next, RunStep

(* The inductive invariant holds in every reachable state.                 *)
THEOREM ConversationIndInv == Spec => []IndInv
BY IndInit, IndStep, PTL DEF Spec

(* Every variable keeps its type.                                          *)
THEOREM ConversationTypes == Spec => []TypeOK
<1>1. IndInv => TypeOK
  BY DEF IndInv
<1> QED
  BY <1>1, ConversationIndInv, PTL

(* No stored message disappears: it is a row on disk, or was summarized by *)
(* a committed summary (summarize.py).                                     *)
THEOREM MessagesSurvive == Spec => []NothingVanishes
<1>1. IndInv => NothingVanishes
  BY DEF IndInv
<1> QED
  BY <1>1, ConversationIndInv, PTL

(* The summary tells of what came before the rows beside it.               *)
THEOREM SummaryIsPast == Spec => []SummaryComesFirst
<1>1. IndInv => SummaryComesFirst
  BY DEF IndInv
<1> QED
  BY <1>1, ConversationIndInv, PTL
=============================================================================
