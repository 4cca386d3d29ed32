------------------------------ MODULE Verifier -------------------------------
(* Before a briefing, the open commitments are looked up in sent mail and  *)
(* Drive (commitments/auto_resolve.py).  A pool of threads works through   *)
(* them in order, while the job waits for each in turn, for some seconds   *)
(* and no longer.  An item waited for in vain is reported without          *)
(* evidence; its thread goes on, may still store another verdict, and the  *)
(* job leaves the pool only when every thread is done.                     *)
(*                                                                         *)
(* Items are the open commitments in the order of the list, at most        *)
(* AUTO_RESOLVE_MAX_ITEMS of them.                                         *)
EXTENDS Naturals, FiniteSets

CONSTANTS
    OpenItems,     \* how many commitments are open
    Pool,          \* AUTO_RESOLVE_CONCURRENCY
    VerifyFaults   \* a subset of {"search", "slow", "persist", "malformed"}

ASSUME PoolAssumption == Pool \in Nat \ {0}

VARIABLES
    vpc,      \* the job: "idle", "waiting", "leaving", "told"
    work,     \* what the thread of an item is at
    found,    \* what it found: a verdict, "raised", or nothing yet
    lastVerdict, \* the column of the item's row
    report,   \* what the briefing is told of an item
    late      \* (ghost) items whose wait ended before their thread

verifyVars == <<vpc, work, found, lastVerdict, report, late>>

ToVerify == 1 .. OpenItems
Verdicts == {"VERIFIED_DONE", "LIKELY_DONE", "NO_EVIDENCE"}

VerifyIdle ==
    /\ vpc = "idle"
    /\ work = [i \in ToVerify |-> "queued"]
    /\ found = [i \in ToVerify |-> "nothing"]
    /\ lastVerdict = [i \in ToVerify |-> "none"]
    /\ report = [i \in ToVerify |-> "none"]
    /\ late = {}

(* The job submits every item at once.                                     *)
StartVerifying ==
    /\ vpc = "idle"
    /\ vpc' = "waiting"
    /\ UNCHANGED <<work, found, lastVerdict, report, late>>

(* A free thread takes the first item of the queue.                        *)
Occupied == {i \in ToVerify : work[i] \in {"searching", "recording"}}
TakeItem(i) ==
    /\ vpc # "idle"
    /\ work[i] = "queued" /\ \A j \in 1 .. i - 1 : work[j] # "queued"
    /\ Cardinality(Occupied) < Pool
    /\ work' = [work EXCEPT ![i] = "searching"]
    /\ UNCHANGED <<vpc, found, lastVerdict, report, late>>

(* What the subjects of sent mail and the names of files say together: a   *)
(* subject with two keywords, or two files, are proof; one file, or one    *)
(* keyword in a subject, is a hint.                                        *)
VerdictFor(mail, files) ==
    CASE mail = "strong" \/ files >= 2 -> "VERIFIED_DONE"
      [] mail # "strong" /\ files = 1  -> "LIKELY_DONE"
      [] mail = "weak" /\ files = 0    -> "LIKELY_DONE"
      [] OTHER                         -> "NO_EVIDENCE"

(* The search ends: with what it found; with no evidence when there is     *)
(* nothing to search for or mail cannot be searched; or the item itself    *)
(* makes the thread raise.  Drive failing counts as no files.              *)
SearchItem(i) ==
    /\ work[i] = "searching"
    /\ \/ \E mail \in {"none", "weak", "strong"}, files \in 0 .. 2 :
            found' = [found EXCEPT ![i] = VerdictFor(mail, files)]
       \/ "search" \in VerifyFaults /\ found' = [found EXCEPT ![i] = "NO_EVIDENCE"]
    /\ work' = [work EXCEPT ![i] = "recording"]
    /\ UNCHANGED <<vpc, lastVerdict, report, late>>

SearchRaises(i) ==
    /\ work[i] = "searching" /\ "malformed" \in VerifyFaults
    /\ found' = [found EXCEPT ![i] = "raised"]
    /\ work' = [work EXCEPT ![i] = "done"]
    /\ UNCHANGED <<vpc, lastVerdict, report, late>>

(* The verdict is stored, or cannot be; the thread returns it either way.  *)
RecordFound(i) ==
    /\ work[i] = "recording"
    /\ work' = [work EXCEPT ![i] = "done"]
    /\ \/ lastVerdict' = [lastVerdict EXCEPT ![i] = found[i]]
       \/ "persist" \in VerifyFaults /\ UNCHANGED lastVerdict
    /\ UNCHANGED <<vpc, found, report, late>>

(* The item waited for is the first not yet reported.                      *)
Awaited(i) ==
    /\ vpc = "waiting" /\ report[i] = "none"
    /\ \A j \in 1 .. i - 1 : report[j] # "none"

(* (mutant) Whatever the thread stored is the answer, its own or not yet.  *)
AnswerStored(i) == IF lastVerdict[i] = "none" THEN "NO_EVIDENCE" ELSE lastVerdict[i]

(* What the future of an item gives: its verdict, or its exception.        *)
Answer(i) == IF found[i] = "raised" THEN "NO_EVIDENCE" ELSE found[i]

Report(i, verdict) ==
    /\ report' = [report EXCEPT ![i] = verdict]
    /\ vpc' = IF i = OpenItems THEN "leaving" ELSE "waiting"

TakeAnswer(i) ==
    /\ Awaited(i) /\ work[i] = "done"
    /\ Report(i, Answer(i))
    /\ UNCHANGED <<work, found, lastVerdict, late>>

GiveUp(i) ==
    /\ Awaited(i) /\ work[i] # "done" /\ "slow" \in VerifyFaults
    /\ Report(i, "NO_EVIDENCE")
    /\ late' = late \union {i}
    /\ UNCHANGED <<work, found, lastVerdict>>

(* The `with` of the pool ends when every thread has.                      *)
LeavePool ==
    /\ vpc = "leaving" /\ \A i \in ToVerify : work[i] = "done"
    /\ vpc' = "told"
    /\ UNCHANGED <<work, found, lastVerdict, report, late>>

VerifyNext ==
    \/ StartVerifying
    \/ \E i \in ToVerify : TakeItem(i) \/ SearchItem(i) \/ SearchRaises(i) \/ RecordFound(i)
    \/ \E i \in ToVerify : TakeAnswer(i) \/ GiveUp(i)
    \/ LeavePool

VerifyTypeOK ==
    /\ vpc \in {"idle", "waiting", "leaving", "told"}
    /\ work \in [ToVerify -> {"queued", "searching", "recording", "done"}]
    /\ found \in [ToVerify -> Verdicts \union {"raised", "nothing"}]
    /\ lastVerdict \in [ToVerify -> Verdicts \union {"none"}]
    /\ report \in [ToVerify -> Verdicts \union {"none"}]
    /\ late \subseteq ToVerify

(* When the briefing is told, every open commitment has its line: with the *)
(* evidence its own search found, however the threads finished and         *)
(* whichever verdicts could be stored, and without any only if the search  *)
(* found none, broke, or was waited for in vain.                           *)
EvidenceIsTold ==
    vpc = "told" => \A i \in ToVerify :
        /\ report[i] \in Verdicts
        /\ report[i] # "NO_EVIDENCE" => found[i] = report[i]
        /\ report[i] = "NO_EVIDENCE" => i \in late \/ found[i] \in {"NO_EVIDENCE", "raised"}
        /\ lastVerdict[i] \in {"none", found[i]}

-----------------------------------------------------------------------------
(* What makes the property inductive (ServicesProofs).                     *)

(* What a thread has found at each point of its way.                       *)
ThreadInv ==
    \A i \in ToVerify :
        /\ work[i] \in {"queued", "searching"} => found[i] = "nothing"
        /\ work[i] = "recording" => found[i] \in Verdicts
        /\ work[i] = "done" => found[i] \in Verdicts \union {"raised"}
        /\ lastVerdict[i] # "none" => work[i] = "done" /\ lastVerdict[i] = found[i]

(* What the line of an item rests on.                                      *)
LineInv ==
    \A i \in ToVerify : report[i] # "none" =>
        \/ i \in late /\ report[i] = "NO_EVIDENCE"
        \/ work[i] = "done" /\ report[i] = Answer(i)

(* The job leaves the pool with every line written.                        *)
LeavingInv ==
    vpc \in {"leaving", "told"} => \A i \in ToVerify : report[i] # "none"

VerifyInv == VerifyTypeOK /\ ThreadInv /\ LineInv /\ LeavingInv
==============================================================================
