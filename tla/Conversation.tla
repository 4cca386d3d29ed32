---------------------------- MODULE Conversation -----------------------------
(***************************************************************************)
(* The history of one conversation: the rows of `messages` and the row of  *)
(* `summaries` of the owner's session, the run of the agent loop that      *)
(* compacts them and loads its prompt from them, and the post-meeting      *)
(* debrief that writes into the same session from another thread.          *)
(*                                                                         *)
(* A message is its row id.  A summary is the set of messages it was made  *)
(* from.  All threads share one sqlite connection: a statement changes the *)
(* open transaction, db, and any thread's commit writes all of it to disk. *)
(***************************************************************************)
EXTENDS Integers, FiniteSets

CONSTANTS
    SummarizeThreshold,  \* more rows than this are compacted
    KeepRecent,          \* rows a compaction leaves, and rows a prompt loads
    MinBatch,            \* fewer old rows than this are not worth a summary
    MaxMessages,         \* bound on the messages ever stored
    Faults               \* "api": summaries and replies may fail; "crash"

ASSUME SizesAssumption ==
    /\ SummarizeThreshold \in Nat /\ KeepRecent \in Nat
    /\ MinBatch \in Nat \ {0} /\ MaxMessages \in Nat
ASSUME FaultAssumption == Faults \subseteq {"api", "crash"}

VARIABLES
    rows,       \* ids of the session's messages in the open transaction
    summary,    \* messages its summary covers; {} is no summary
    disk,       \* what the last commit wrote: [rows, summary]
    stored,     \* messages stored so far; the last id
    pc,         \* what the run is at
    excess,     \* to_summarize, from the count the run began with
    batch,      \* old_messages the run has read, to be summarized
    shown,      \* what the run's prompt holds: [summary, history]
    condensed   \* (ghost) messages some committed summary was made from

vars == <<rows, summary, disk, stored, pc, excess, batch, shown, condensed>>

Ids == 1..MaxMessages
Steps == {"idle", "read", "call", "replace", "insert", "delete", "load", "history", "store", "answer"}
Nothing == [summary |-> {}, history |-> {}]

Init ==
    /\ rows = {} /\ summary = {} /\ disk = [rows |-> {}, summary |-> {}]
    /\ stored = 0
    /\ pc = "idle" /\ excess = 0 /\ batch = {} /\ shown = Nothing
    /\ condensed = {}

(* The n rows with the smallest and with the largest ids.                  *)
Oldest(n) == {x \in rows : Cardinality({y \in rows : y < x}) < n}
Newest(n) == {x \in rows : Cardinality({y \in rows : y > x}) < n}

(* A commit writes what the transaction holds, whoever calls it.           *)
Commit ==
    /\ disk' = [rows |-> rows', summary |-> summary']
    /\ condensed' = condensed \union summary'

(* A new row, committed at once.                                           *)
StoreMessage ==
    /\ stored < MaxMessages
    /\ stored' = stored + 1
    /\ rows' = rows \union {stored + 1}
    /\ UNCHANGED summary
    /\ Commit

-----------------------------------------------------------------------------
(* The run: maybe_summarize, then the prompt, then the reply.              *)

Compacts ==
    /\ Cardinality(rows) > SummarizeThreshold
    /\ Cardinality(rows) - KeepRecent >= MinBatch

RunBegins ==
    /\ pc = "idle"
    /\ pc' = IF Compacts THEN "read" ELSE "load"
    /\ excess' = IF Compacts THEN Cardinality(rows) - KeepRecent ELSE 0
    /\ UNCHANGED <<rows, summary, disk, stored, batch, shown, condensed>>

(* (mutant) Reads the wrong end of the conversation.                       *)
ReadNewest ==
    /\ pc = "read"
    /\ batch' = Newest(excess) /\ excess' = 0
    /\ pc' = "call"
    /\ UNCHANGED <<rows, summary, disk, stored, shown, condensed>>

(* The oldest rows, as many as the count said are too many.                *)
ReadOld ==
    /\ pc = "read"
    /\ batch' = Oldest(excess) /\ excess' = 0
    /\ pc' = "call"
    /\ UNCHANGED <<rows, summary, disk, stored, shown, condensed>>

(* The model summarizes them, or the call fails or comes back empty.       *)
SummaryArrives ==
    /\ pc = "call"
    /\ pc' = "replace"
    /\ UNCHANGED <<rows, summary, disk, stored, excess, batch, shown, condensed>>

SummaryFails ==
    /\ pc = "call" /\ "api" \in Faults
    /\ pc' = "load" /\ batch' = {}
    /\ UNCHANGED <<rows, summary, disk, stored, excess, shown, condensed>>

(* store_summary: the old summary goes, the new one comes, one commit.     *)
DropSummary ==
    /\ pc = "replace"
    /\ summary' = {}
    /\ pc' = "insert"
    /\ UNCHANGED <<rows, disk, stored, excess, batch, shown, condensed>>

InsertSummary ==
    /\ pc = "insert"
    /\ summary' = batch
    /\ UNCHANGED rows
    /\ Commit
    /\ pc' = "delete"
    /\ UNCHANGED <<stored, excess, batch, shown>>

(* (mutant) Deletes all but the newest rows, whatever was summarized.      *)
DeleteButNewest ==
    /\ pc = "delete"
    /\ rows' = Newest(KeepRecent)
    /\ UNCHANGED summary
    /\ Commit
    /\ pc' = "load" /\ batch' = {}
    /\ UNCHANGED <<stored, excess, shown>>

(* delete_messages_by_ids: exactly the rows that were read.                *)
DeleteOld ==
    /\ pc = "delete"
    /\ rows' = rows \ batch
    /\ UNCHANGED summary
    /\ Commit
    /\ pc' = "load" /\ batch' = {}
    /\ UNCHANGED <<stored, excess, shown>>

LoadSummary ==
    /\ pc = "load"
    /\ shown' = [summary |-> summary, history |-> {}]
    /\ pc' = "history"
    /\ UNCHANGED <<rows, summary, disk, stored, excess, batch, condensed>>

(* recent_messages: the first rows in ascending order of id.               *)
RecentMessages(n) == Oldest(n)

LoadHistory ==
    /\ pc = "history"
    /\ shown' = [shown EXCEPT !.history = RecentMessages(KeepRecent)]
    /\ pc' = "store"
    /\ UNCHANGED <<rows, summary, disk, stored, excess, batch, condensed>>

(* The owner's message is stored before the first call.                    *)
StorePrompt ==
    /\ pc = "store"
    /\ StoreMessage
    /\ pc' = "answer"
    /\ UNCHANGED <<excess, batch, shown>>

(* The reply is stored; a run that ends in any other way stores none.      *)
StoreReply ==
    /\ pc = "answer"
    /\ StoreMessage
    /\ pc' = "idle" /\ shown' = Nothing
    /\ UNCHANGED <<excess, batch>>

NoReply ==
    /\ pc = "answer" /\ "api" \in Faults
    /\ pc' = "idle" /\ shown' = Nothing
    /\ UNCHANGED <<rows, summary, disk, stored, excess, batch, condensed>>

-----------------------------------------------------------------------------
(* Other threads, and the process.                                         *)

(* A job stores the debrief it has sent in the owner's session.            *)
DebriefStored ==
    /\ StoreMessage
    /\ UNCHANGED <<pc, excess, batch, shown>>

(* Another thread commits a write of its own, and whatever else is open.   *)
OtherCommits ==
    /\ UNCHANGED <<rows, summary>>
    /\ Commit
    /\ UNCHANGED <<stored, pc, excess, batch, shown>>

(* The process dies; the open transaction is rolled back.                  *)
Crash ==
    /\ "crash" \in Faults
    /\ rows' = disk.rows /\ summary' = disk.summary
    /\ pc' = "idle" /\ excess' = 0 /\ batch' = {} /\ shown' = Nothing
    /\ UNCHANGED <<disk, stored, condensed>>

RunStep ==
    \/ ReadOld \/ SummaryArrives \/ SummaryFails
    \/ DropSummary \/ InsertSummary \/ DeleteOld
    \/ LoadSummary \/ LoadHistory
    \/ StorePrompt \/ StoreReply \/ NoReply

Next == RunBegins \/ RunStep \/ DebriefStored \/ OtherCommits \/ Crash

Spec == Init /\ [][Next]_vars

-----------------------------------------------------------------------------
(* Properties.                                                             *)

TypeOK ==
    /\ rows \subseteq Ids /\ summary \subseteq Ids
    /\ disk \in [rows : SUBSET Ids, summary : SUBSET Ids]
    /\ stored \in 0..MaxMessages
    /\ pc \in Steps /\ excess \in Nat
    /\ batch \subseteq Ids
    /\ shown \in [summary : SUBSET Ids, history : SUBSET Ids]
    /\ condensed \subseteq Ids

(* No stored message disappears: on disk it is a row, or a committed       *)
(* summary was made from it, whatever was stored while the summary was     *)
(* being written and wherever the process died (summarize.py: store the    *)
(* summary, then delete by id).                                            *)
NothingVanishes == 1..stored \subseteq disk.rows \union condensed

(* A summary is about the past: every row that it does not cover came      *)
(* after everything it does, so a prompt that puts it before the history   *)
(* tells the conversation in order (oldest_messages, get_latest_summary).  *)
Precedes(S, T) == \A x \in S, y \in T : x < y
SummaryComesFirst == Precedes(summary, rows \ summary) /\ Precedes(disk.summary, disk.rows \ disk.summary)

(* What the steps keep, and the proofs use: the messages being summarized  *)
(* are the first rows until they are deleted, and were summarized by then. *)
Reading == pc \in {"call", "replace", "insert", "delete"}
BatchInv ==
    /\ ~Reading => batch = {}
    /\ Reading => batch \subseteq rows /\ Precedes(batch, rows \ batch)
    /\ pc = "insert" => summary = {}
    /\ pc = "delete" => summary = batch /\ batch \subseteq condensed
DiskInv ==
    /\ disk.rows = rows
    /\ rows \subseteq 1..stored /\ summary \subseteq 1..stored
    /\ disk.summary = summary \/ (pc = "insert" /\ disk.summary \subseteq 1..stored)
IndInv ==
    /\ TypeOK
    /\ BatchInv /\ DiskInv
    /\ NothingVanishes /\ SummaryComesFirst

(* Said by the docs, not kept by the code: the prompt is loaded with the   *)
(* recent messages (loop.py:247, "Load recent messages as conversation     *)
(* history").  recent_messages returns the oldest ones.                    *)
HistoryIsRecent ==
    [][pc = "history" /\ pc' = "store" => shown'.history = Newest(KeepRecent)]_vars
==============================================================================
