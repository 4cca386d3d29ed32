---------------------------- MODULE Commitments ------------------------------
(***************************************************************************)
(* The commitments store and its tools.                                    *)
(*                                                                         *)
(* The owner's run and the runs of jobs call the tools from threads of     *)
(* their own, and so do the workers that verify what is open.  They all    *)
(* take the lock of the shared sqlite connection; other writers (messages, *)
(* scheduling, spend) do not, and their commits write out whatever the     *)
(* open transaction holds.                                                 *)
(*                                                                         *)
(* A row keeps what decides anything: its status, where "busy" stands for  *)
(* in_progress and blocked, which no code tells apart; the verb of its     *)
(* newest row in manual_closures; and, as a ghost, whether the status came *)
(* from commitment_update, which writes no such row.                       *)
(***************************************************************************)
EXTENDS Integers, FiniteSets

CONSTANTS
    Callers,      \* threads whose agent runs call the tools
    Commitments,  \* ids the table may come to hold
    None,         \* no caller, no commitment
    Faults        \* "write": a statement or a commit raises; "crash"

ASSUME NoneAssumption == None \notin Callers \union Commitments
ASSUME FaultAssumption == Faults \subseteq {"write", "crash"}

VARIABLES
    rows,    \* the commitments, as the open transaction has them
    disk,    \* and as the last commit wrote them
    lock,    \* the caller inside a closing, between its two statements
    call,    \* what every caller is at
    closers, \* (ghost) callers that closed c since it was last live
    torn     \* (ghost) c whose closing was cut in two by a failure or a commit

store == <<rows, disk>>
vars == <<store, lock, call, closers, torn>>

Live == {"open", "busy"}
Terminal == {"done", "cancelled"}
Statuses == Live \union Terminal
Closing == {"close", "dismiss"}
Row == [status : Statuses \union {"none"}, closure : Closing \union {"none"}, silent : BOOLEAN]
Missing == [status |-> "none", closure |-> "none", silent |-> FALSE]
Call == [at : {"idle", "checked", "log"},
         verb : Closing \union {"reopen", "none"},
         item : Commitments \union {None}]
Idle == [at |-> "idle", verb |-> "none", item |-> None]

Init ==
    /\ rows = [c \in Commitments |-> Missing] /\ disk = rows
    /\ lock = None /\ call = [p \in Callers |-> Idle]
    /\ closers = [c \in Commitments |-> {}] /\ torn = {}

Exists(c) == rows[c].status # "none"

ResultOf(verb) == CASE verb = "close" -> "done" [] verb = "dismiss" -> "cancelled" [] OTHER -> "open"

(* The UPDATE of a status and the INSERT into the log.                     *)
WithStatus(c, status, silent) ==
    [rows EXCEPT ![c] = [status |-> status, closure |-> @.closure, silent |-> silent]]
WithClosure(c, verb) ==
    [rows EXCEPT ![c] = [status |-> @.status, closure |-> verb, silent |-> @.silent]]

(* The end of a locked section on c.  The commit writes out the whole      *)
(* transaction, or raises and leaves it open; both release the lock.       *)
Commit(c) ==
    \/ disk' = rows' /\ torn' = torn \ {c}
    \/ "write" \in Faults /\ UNCHANGED <<disk, torn>>

-----------------------------------------------------------------------------
(* The tools.                                                              *)

Create(p, c) ==
    /\ call[p] = Idle /\ lock = None
    /\ ~Exists(c)
    /\ rows' = WithStatus(c, "open", FALSE)
    /\ Commit(c)
    /\ UNCHANGED <<lock, call, closers>>

(* update_commitment writes any status, over any other, in one section;    *)
(* without a status it only commits.                                       *)
Update(p, c, status) ==
    /\ call[p] = Idle /\ lock = None
    /\ Exists(c)
    /\ rows' = WithStatus(c, status, status \in Terminal)
    /\ closers' = [closers EXCEPT ![c] = IF status \in Live THEN {} ELSE @]
    /\ Commit(c)
    /\ UNCHANGED <<lock, call>>

(* (mutant) Whatever the status is.                                        *)
MayApplyAlways(verb, c) == Exists(c)

(* What the three verbs check, in a section of its own.                    *)
MayApply(verb, c) ==
    /\ Exists(c)
    /\ (rows[c].status \in Terminal) <=> (verb = "reopen")

Check(p, verb, c) ==
    /\ call[p] = Idle /\ lock = None
    /\ MayApply(verb, c)
    /\ call' = [call EXCEPT ![p] = [at |-> "checked", verb |-> verb, item |-> c]]
    /\ UNCHANGED <<store, lock, closers, torn>>

Reopen(p) ==
    LET c == call[p].item IN
    /\ call[p].at = "checked" /\ call[p].verb = "reopen" /\ lock = None
    /\ rows' = WithStatus(c, "open", FALSE)
    /\ closers' = [closers EXCEPT ![c] = {}]
    /\ Commit(c)
    /\ call' = [call EXCEPT ![p] = Idle]
    /\ UNCHANGED lock

(* (mutant) The section is not locked.                                     *)
SetStatusUnlocked(p) ==
    LET c == call[p].item IN
    /\ call[p].at = "checked" /\ call[p].verb \in Closing
    /\ rows' = WithStatus(c, ResultOf(call[p].verb), FALSE)
    /\ closers' = [closers EXCEPT ![c] = @ \union {p}]
    /\ call' = [call EXCEPT ![p] = [at |-> "log", verb |-> @.verb, item |-> @.item]]
    /\ UNCHANGED <<disk, lock, torn>>

(* Closing and dismissing: the status, then the row of the log.            *)
SetStatus(p) ==
    LET c == call[p].item IN
    /\ call[p].at = "checked" /\ call[p].verb \in Closing /\ lock = None
    /\ rows' = WithStatus(c, ResultOf(call[p].verb), FALSE)
    /\ closers' = [closers EXCEPT ![c] = @ \union {p}]
    /\ lock' = p
    /\ call' = [call EXCEPT ![p] = [at |-> "log", verb |-> @.verb, item |-> @.item]]
    /\ UNCHANGED <<disk, torn>>

LogClosure(p) ==
    LET c == call[p].item IN
    /\ call[p].at = "log"
    /\ rows' = WithClosure(c, call[p].verb)
    /\ Commit(c)
    /\ lock' = None
    /\ call' = [call EXCEPT ![p] = Idle]
    /\ UNCHANGED closers

(* (mutant) The exception leaves the section without releasing the lock.   *)
LogFailsLocked(p) ==
    /\ call[p].at = "log" /\ "write" \in Faults
    /\ call' = [call EXCEPT ![p] = Idle]
    /\ torn' = torn \union {call[p].item}
    /\ UNCHANGED <<store, lock, closers>>

(* The UPDATE raises, of a closing or of a reopening: the tool answers     *)
(* that it failed.                                                         *)
WriteFails(p) ==
    /\ call[p].at = "checked" /\ lock = None /\ "write" \in Faults
    /\ call' = [call EXCEPT ![p] = Idle]
    /\ UNCHANGED <<store, lock, closers, torn>>

(* The INSERT raises: the lock is released, the UPDATE stays in the open   *)
(* transaction for the next commit.                                        *)
LogFails(p) ==
    /\ call[p].at = "log" /\ "write" \in Faults
    /\ call' = [call EXCEPT ![p] = Idle]
    /\ lock' = None
    /\ torn' = torn \union {call[p].item}
    /\ UNCHANGED <<store, closers>>

-----------------------------------------------------------------------------
(* Other threads, and the process.                                         *)

(* A worker of the verifier writes a verdict to a column that nobody       *)
(* reads; what counts is that it commits, in a locked section of its own.  *)
RecordVerdict ==
    /\ lock = None
    /\ disk' = rows
    /\ UNCHANGED <<rows, lock, call, closers, torn>>

(* Writers without the lock commit at any time.  A closing that is between *)
(* its two statements reaches the disk without its row of the log.         *)
OthersCommit ==
    /\ disk' = rows
    /\ torn' = torn \union {call[p].item : p \in {q \in Callers : call[q].at = "log"}}
    /\ UNCHANGED <<rows, lock, call, closers>>

Crash ==
    /\ "crash" \in Faults
    /\ rows' = disk
    /\ lock' = None /\ call' = [p \in Callers |-> Idle]
    /\ closers' = [c \in Commitments |-> {}]
    /\ UNCHANGED <<disk, torn>>

CallStarts(p) ==
    \E c \in Commitments :
        \/ Create(p, c)
        \/ \E status \in Statuses : Update(p, c, status)
        \/ \E verb \in Closing \union {"reopen"} : Check(p, verb, c)
CallEnds(p) == LogClosure(p) \/ LogFails(p)
Write(p) == Reopen(p) \/ SetStatus(p) \/ WriteFails(p)

Next ==
    \/ \E p \in Callers : CallStarts(p) \/ Write(p) \/ CallEnds(p)
    \/ RecordVerdict \/ OthersCommit \/ Crash

Spec == Init /\ [][Next]_vars

(* A section ends by itself, and the lock, held for two statements, comes  *)
(* to everyone who asks for it.                                            *)
FairSpec ==
    /\ Spec
    /\ \A p \in Callers : WF_vars(CallEnds(p)) /\ SF_vars(Write(p))

-----------------------------------------------------------------------------
(* Properties.                                                             *)

TypeOK ==
    /\ rows \in [Commitments -> Row] /\ disk \in [Commitments -> Row]
    /\ lock \in Callers \union {None}
    /\ call \in [Callers -> Call]
    /\ closers \in [Commitments -> SUBSET Callers]
    /\ torn \subseteq Commitments

(* A status that a closing wrote is explained by the newest row of the     *)
(* log, on the connection and on disk, however closings, dismissals and    *)
(* reopenings race and wherever the process died: only a closing that was  *)
(* itself cut in two is not (store.py, the locked sections).               *)
Explained(r) == r.status \in Terminal /\ ~r.silent => r.status = ResultOf(r.closure)
InClosing(c) == \E p \in Callers : call[p].at = "log" /\ call[p].item = c
ClosuresExplained ==
    \A c \in Commitments \ torn :
        /\ Explained(disk[c])
        /\ InClosing(c) \/ Explained(rows[c])

(* The check and the write are two sections, so calls may close the same   *)
(* commitment at once; but each thread logs it once at most until it is    *)
(* live again (store.py, CommitmentAlreadyClosed).                         *)
OneClosurePerCaller ==
    [][\A p \in Callers : call[p].at = "checked" /\ call'[p].at = "log"
                              => p \notin closers[call[p].item]]_vars

(* Every tool call comes back, whatever fails in it or in another: an      *)
(* exception inside a locked section releases the lock (`with db.lock`).   *)
CallsReturn == \A p \in Callers : call[p] # Idle ~> call[p] = Idle

(* What the steps keep, and the proofs use: the lock is held exactly in    *)
(* the middle of a closing; a thread that may still close c has not closed *)
(* it since it was live.                                                   *)
LockInv ==
    \A p \in Callers :
        /\ (call[p].at = "log") <=> (lock = p)
        /\ call[p].at # "idle" => call[p].item \in Commitments /\ call[p].verb # "none"
        /\ call[p].at = "log" => call[p].verb \in Closing
                                  /\ rows[call[p].item].status = ResultOf(call[p].verb)
                                  /\ ~rows[call[p].item].silent
CloserInv ==
    /\ \A c \in Commitments : closers[c] # {} => rows[c].status \in Terminal
    /\ \A p \in Callers : call[p].at = "checked" /\ call[p].verb \in Closing
                              => p \notin closers[call[p].item]
IndInv == TypeOK /\ LockInv /\ CloserInv /\ ClosuresExplained
==============================================================================
