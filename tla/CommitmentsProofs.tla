-------------------------- MODULE CommitmentsProofs --------------------------
(***************************************************************************)
(* Theorems about the commitments store, for any threads and commitments.  *)
(***************************************************************************)
EXTENDS Commitments, TLAPS

(* What the verbs write: a closing a terminal status.                      *)
LEMMA Results ==
    \A verb : /\ ResultOf(verb) \in Statuses
              /\ verb \in Closing => ResultOf(verb) \in Terminal
  BY DEF ResultOf, Closing, Terminal, Statuses, Live

(* What one statement does to one row, and to no other.                    *)
LEMMA StatusWritten ==
    ASSUME rows \in [Commitments -> Row], NEW c \in Commitments,
           NEW status \in Statuses, NEW silent \in BOOLEAN
    PROVE  /\ WithStatus(c, status, silent) \in [Commitments -> Row]
           /\ WithStatus(c, status, silent)[c].status = status
           /\ WithStatus(c, status, silent)[c].silent = silent
           /\ \A d \in Commitments : d # c => WithStatus(c, status, silent)[d] = rows[d]
  BY DEF Row, WithStatus

LEMMA ClosureWritten ==
    ASSUME rows \in [Commitments -> Row], NEW c \in Commitments, NEW verb \in Closing
    PROVE  /\ WithClosure(c, verb) \in [Commitments -> Row]
           /\ WithClosure(c, verb)[c].status = rows[c].status
           /\ WithClosure(c, verb)[c].closure = verb
           /\ \A d \in Commitments : d # c => WithClosure(c, verb)[d] = rows[d]
  BY DEF Row, WithClosure

(* A locked section of a single statement, which does not close, keeps     *)
(* both copies explained whether its commit succeeds or raises.            *)
LEMMA SingleStatement ==
    ASSUME IndInv, NEW c \in Commitments, NEW status \in Statuses, NEW silent \in BOOLEAN,
           status \in Terminal => silent,
           \A q \in Callers : call[q].at # "log",
           rows' = WithStatus(c, status, silent), Commit(c)
    PROVE  /\ rows' \in [Commitments -> Row] /\ disk' \in [Commitments -> Row]
           /\ rows'[c].status = status
           /\ \A d \in Commitments : d # c => rows'[d] = rows[d]
           /\ torn' \subseteq Commitments
           /\ ClosuresExplained'
  <1>1. /\ rows' \in [Commitments -> Row]
        /\ rows'[c].status = status /\ rows'[c].silent = silent
        /\ \A d \in Commitments : d # c => rows'[d] = rows[d]
    BY StatusWritten DEF IndInv, TypeOK
  <1>2. disk' \in [Commitments -> Row] /\ torn' \subseteq Commitments
    BY <1>1 DEF IndInv, TypeOK, Commit
  <1>3. \A d \in Commitments : d \notin torn \/ d = c => Explained(rows'[d])
    BY <1>1 DEF IndInv, ClosuresExplained, InClosing, Explained
  <1>4. \A d \in Commitments \ torn' : Explained(disk'[d]) /\ Explained(rows'[d])
    <2>1. CASE disk' = rows' /\ torn' = torn \ {c}
      BY <1>3, <2>1
    <2>2. CASE UNCHANGED <<disk, torn>>
      BY <1>3, <2>2 DEF IndInv, ClosuresExplained
    <2> QED BY <2>1, <2>2 DEF Commit
  <1> QED BY <1>1, <1>2, <1>4 DEF ClosuresExplained, Explained

(* At the start there is no commitment and nobody calls.                   *)
LEMMA InitInv == Init => IndInv
  <1> SUFFICES ASSUME Init PROVE IndInv
    OBVIOUS
  <1>1. TypeOK
    BY DEF Init, TypeOK, Row, Missing, Idle, Call
  <1>2. LockInv /\ CloserInv
    BY NoneAssumption DEF Init, LockInv, CloserInv, Idle
  <1>3. ClosuresExplained
    BY DEF Init, ClosuresExplained, Explained, Missing, Terminal
  <1> QED BY <1>1, <1>2, <1>3 DEF IndInv

(* Creating and updating: nobody is in the middle of a closing.            *)
LEMMA CreateInv ==
    ASSUME IndInv, NEW p \in Callers, NEW c \in Commitments, Create(p, c)
    PROVE  IndInv'
  <1>1. \A q \in Callers : call[q].at # "log"
    BY NoneAssumption DEF IndInv, LockInv, Create
  <1>2. /\ rows' \in [Commitments -> Row] /\ disk' \in [Commitments -> Row]
        /\ \A d \in Commitments : d # c => rows'[d] = rows[d]
        /\ torn' \subseteq Commitments
        /\ ClosuresExplained'
    BY <1>1, SingleStatement DEF Create, Statuses, Live, Terminal
  <1>3. UNCHANGED <<lock, call, closers>> /\ rows[c].status = "none"
    BY DEF Create, Exists
  <1>4. TypeOK' /\ LockInv'
    BY <1>1, <1>2, <1>3 DEF IndInv, TypeOK, LockInv
  <1>5. CloserInv'
    BY <1>2, <1>3 DEF IndInv, CloserInv, Terminal
  <1> QED BY <1>2, <1>4, <1>5 DEF IndInv

LEMMA UpdateInv ==
    ASSUME IndInv, NEW p \in Callers, NEW c \in Commitments, NEW status \in Statuses,
           Update(p, c, status)
    PROVE  IndInv'
  <1>1. \A q \in Callers : call[q].at # "log"
    BY NoneAssumption DEF IndInv, LockInv, Update
  <1>2. /\ rows' \in [Commitments -> Row] /\ disk' \in [Commitments -> Row]
        /\ rows'[c].status = status
        /\ \A d \in Commitments : d # c => rows'[d] = rows[d]
        /\ torn' \subseteq Commitments
        /\ ClosuresExplained'
    <2>1. /\ (status \in Terminal) \in BOOLEAN
          /\ rows' = WithStatus(c, status, status \in Terminal) /\ Commit(c)
      BY DEF Update
    <2> QED BY <1>1, <2>1, SingleStatement
  <1>3. /\ UNCHANGED <<lock, call>>
        /\ closers' \in [Commitments -> SUBSET Callers]
        /\ closers'[c] \subseteq closers[c]
        /\ status \notin Terminal => closers'[c] = {}
        /\ \A d \in Commitments : d # c => closers'[d] = closers[d]
    BY DEF IndInv, TypeOK, Update, Statuses
  <1>4. TypeOK' /\ LockInv'
    BY <1>1, <1>2, <1>3 DEF IndInv, TypeOK, LockInv
  <1>5. CloserInv'
    <2>1. \A d \in Commitments : closers'[d] # {} => rows'[d].status \in Terminal
      BY <1>2, <1>3 DEF IndInv, CloserInv
    <2>2. \A d \in Commitments : closers'[d] \subseteq closers[d]
      BY <1>3
    <2>3. \A q \in Callers : call[q].at = "checked" => call[q].item \in Commitments
      BY DEF IndInv, LockInv
    <2> QED BY <1>3, <2>1, <2>2, <2>3 DEF IndInv, CloserInv
  <1> QED BY <1>2, <1>4, <1>5 DEF IndInv

(* A check finds a closing's commitment live, so nobody has closed it.     *)
LEMMA CheckInv ==
    ASSUME IndInv, NEW p \in Callers, NEW verb \in Closing \union {"reopen"},
           NEW c \in Commitments, Check(p, verb, c)
    PROVE  IndInv'
  <1>1. /\ UNCHANGED <<rows, disk, lock, closers, torn>>
        /\ call[p].at = "idle"
        /\ call'[p] = [at |-> "checked", verb |-> verb, item |-> c]
        /\ call' \in [Callers -> Call]
        /\ \A q \in Callers : q # p => call'[q] = call[q]
    BY DEF IndInv, TypeOK, Check, Call, Idle, store
  <1>2. TypeOK'
    BY <1>1 DEF IndInv, TypeOK
  <1>3. LockInv'
    BY <1>1 DEF IndInv, LockInv, Closing
  <1>4. CloserInv'
    <2>1. verb \in Closing => closers[c] = {}
      BY DEF IndInv, CloserInv, Check, MayApply, Closing
    <2> QED BY <1>1, <2>1 DEF IndInv, CloserInv
  <1>5. ClosuresExplained'
    <2>1. \A d \in Commitments : InClosing(d) <=> \E q \in Callers : call'[q].at = "log" /\ call'[q].item = d
      BY <1>1 DEF InClosing
    <2> QED BY <1>1, <2>1 DEF IndInv, ClosuresExplained, Explained, InClosing
  <1> QED BY <1>2, <1>3, <1>4, <1>5 DEF IndInv

LEMMA ReopenInv ==
    ASSUME IndInv, NEW p \in Callers, Reopen(p)
    PROVE  IndInv'
  <1> DEFINE c == call[p].item
  <1>1. /\ c \in Commitments
        /\ \A q \in Callers : call[q].at # "log"
    BY NoneAssumption DEF IndInv, LockInv, Reopen
  <1>2. /\ rows' \in [Commitments -> Row] /\ disk' \in [Commitments -> Row]
        /\ \A d \in Commitments : d # c => rows'[d] = rows[d]
        /\ torn' \subseteq Commitments
        /\ ClosuresExplained'
    <2>1. rows' = WithStatus(c, "open", FALSE) /\ Commit(c)
      BY DEF Reopen
    <2>2. "open" \in Statuses /\ "open" \notin Terminal
      BY DEF Statuses, Live, Terminal
    <2> HIDE DEF c
    <2> QED BY <1>1, <2>1, <2>2, SingleStatement
  <1>3. /\ lock' = lock
        /\ call' \in [Callers -> Call] /\ call'[p] = Idle
        /\ \A q \in Callers : q # p => call'[q] = call[q]
        /\ closers' \in [Commitments -> SUBSET Callers] /\ closers'[c] = {}
        /\ \A d \in Commitments : d # c => closers'[d] = closers[d]
    BY <1>1 DEF IndInv, TypeOK, Reopen, Call, Idle
  <1>4. TypeOK'
    BY <1>2, <1>3 DEF IndInv, TypeOK
  <1>5. LockInv'
    BY <1>1, <1>3 DEF IndInv, LockInv, Reopen, Idle
  <1>6. CloserInv'
    <2>1. \A q \in Callers : call[q].at = "checked" => call[q].item \in Commitments
      BY DEF IndInv, LockInv
    <2> QED BY <1>2, <1>3, <2>1 DEF IndInv, CloserInv, Idle
  <1> QED BY <1>2, <1>4, <1>5, <1>6 DEF IndInv

(* The first statement of a closing opens the one exception to the log.    *)
LEMMA SetStatusInv ==
    ASSUME IndInv, NEW p \in Callers, SetStatus(p)
    PROVE  IndInv'
  <1> DEFINE c == call[p].item
             v == call[p].verb
  <1>1. /\ c \in Commitments /\ v \in Closing
        /\ \A q \in Callers : call[q].at # "log"
        /\ ResultOf(v) \in Terminal /\ ResultOf(v) \in Statuses
    BY NoneAssumption, Results DEF IndInv, LockInv, SetStatus
  <1>2. /\ rows' \in [Commitments -> Row]
        /\ rows'[c].status = ResultOf(v) /\ rows'[c].silent = FALSE
        /\ \A d \in Commitments : d # c => rows'[d] = rows[d]
        /\ UNCHANGED <<disk, torn>>
    <2>1. rows' = WithStatus(c, ResultOf(v), FALSE) /\ UNCHANGED <<disk, torn>>
      BY DEF SetStatus
    <2>2. rows \in [Commitments -> Row]
      BY DEF IndInv, TypeOK
    <2>3. \A s \in Statuses : WithStatus(c, s, FALSE) \in [Commitments -> Row]
             /\ WithStatus(c, s, FALSE)[c].status = s
             /\ WithStatus(c, s, FALSE)[c].silent = FALSE
             /\ \A d \in Commitments : d # c => WithStatus(c, s, FALSE)[d] = rows[d]
      <3> HIDE DEF c
      <3> QED BY <1>1, <2>2 DEF WithStatus, Row
    <2> HIDE DEF c, v
    <2> QED BY <1>1, <2>1, <2>3
  <1>3. /\ lock' = p
        /\ call' \in [Callers -> Call]
        /\ call'[p] = [at |-> "log", verb |-> v, item |-> c]
        /\ \A q \in Callers : q # p => call'[q] = call[q]
        /\ closers' \in [Commitments -> SUBSET Callers] /\ closers'[c] = closers[c] \union {p}
        /\ \A d \in Commitments : d # c => closers'[d] = closers[d]
    BY <1>1 DEF IndInv, TypeOK, SetStatus, Call
  <1>4. TypeOK'
    BY <1>2, <1>3 DEF IndInv, TypeOK
  <1>5. LockInv'
    BY <1>1, <1>2, <1>3 DEF IndInv, LockInv, Closing
  <1>6. CloserInv'
    <2>1. \A q \in Callers : call[q].at = "checked" => call[q].item \in Commitments
      BY DEF IndInv, LockInv
    <2> QED BY <1>1, <1>2, <1>3, <2>1 DEF IndInv, CloserInv
  <1>7. ClosuresExplained'
    <2>1. \A d \in Commitments \ torn : Explained(disk[d]) /\ Explained(rows[d])
      BY <1>1 DEF IndInv, ClosuresExplained, InClosing
    <2>2. \E q \in Callers : call'[q].at = "log" /\ call'[q].item = c
      BY <1>3
    <2>3. \A d \in Commitments \ torn : Explained(disk'[d]) /\ (d # c => Explained(rows'[d]))
      BY <1>2, <2>1
    <2> SUFFICES ASSUME NEW d \in Commitments \ torn'
                 PROVE  Explained(disk[d])' /\ (InClosing(d)' \/ Explained(rows[d])')
      BY DEF ClosuresExplained
    <2>4. Explained(disk[d])' /\ (d # c => Explained(rows[d])')
      BY <1>2, <2>3 DEF Explained
    <2> QED BY <2>2, <2>4 DEF InClosing
  <1> QED BY <1>4, <1>5, <1>6, <1>7 DEF IndInv

LEMMA WriteFailsInv ==
    ASSUME IndInv, NEW p \in Callers, WriteFails(p)
    PROVE  IndInv'
  <1>1. /\ UNCHANGED <<rows, disk, lock, closers, torn>>
        /\ call[p].at = "checked"
        /\ call' \in [Callers -> Call] /\ call'[p] = Idle
        /\ \A q \in Callers : q # p => call'[q] = call[q]
    BY DEF IndInv, TypeOK, WriteFails, Call, Idle, store
  <1>2. TypeOK'
    BY <1>1 DEF IndInv, TypeOK
  <1>3. LockInv' /\ CloserInv'
    BY <1>1 DEF IndInv, LockInv, CloserInv, Idle
  <1>4. ClosuresExplained'
    <2>1. \A d \in Commitments : InClosing(d) <=> \E q \in Callers : call'[q].at = "log" /\ call'[q].item = d
      BY <1>1 DEF InClosing, Idle
    <2> QED BY <1>1, <2>1 DEF IndInv, ClosuresExplained, Explained, InClosing
  <1> QED BY <1>2, <1>3, <1>4 DEF IndInv

(* The second closes it, whether its commit succeeds or raises.            *)
LEMMA LogClosureInv ==
    ASSUME IndInv, NEW p \in Callers, LogClosure(p)
    PROVE  IndInv'
  <1> DEFINE c == call[p].item
             v == call[p].verb
  <1>1. /\ c \in Commitments /\ v \in Closing
        /\ rows[c].status = ResultOf(v)
        /\ lock = p
        /\ \A q \in Callers : q # p => call[q].at # "log"
    BY NoneAssumption DEF IndInv, LockInv, LogClosure
  <1>2. /\ rows' \in [Commitments -> Row]
        /\ rows'[c].status = rows[c].status /\ rows'[c].closure = v
        /\ \A d \in Commitments : d # c => rows'[d] = rows[d]
    BY <1>1, ClosureWritten DEF IndInv, TypeOK, LogClosure
  <1>3. /\ lock' = None /\ closers' = closers
        /\ call' \in [Callers -> Call] /\ call'[p] = Idle
        /\ \A q \in Callers : q # p => call'[q] = call[q]
    BY DEF IndInv, TypeOK, LogClosure, Call, Idle
  <1>4. TypeOK'
    BY <1>2, <1>3 DEF IndInv, TypeOK, LogClosure, Commit
  <1>5. LockInv'
    BY <1>1, <1>3, NoneAssumption DEF IndInv, LockInv, Idle
  <1>6. CloserInv'
    BY <1>1, <1>2, <1>3 DEF IndInv, CloserInv, Idle
  <1>7. ClosuresExplained'
    <2>1. \A d \in Commitments : d \notin torn \/ d = c => Explained(rows'[d])
      BY <1>1, <1>2 DEF IndInv, ClosuresExplained, InClosing, Explained
    <2>2. \A d \in Commitments \ torn' : Explained(disk'[d]) /\ Explained(rows'[d])
      <3>1. CASE disk' = rows' /\ torn' = torn \ {c}
        BY <2>1, <3>1
      <3>2. CASE UNCHANGED <<disk, torn>>
        BY <2>1, <3>2 DEF IndInv, ClosuresExplained
      <3> QED BY <3>1, <3>2 DEF LogClosure, Commit
    <2> QED BY <2>2 DEF ClosuresExplained, Explained
  <1> QED BY <1>4, <1>5, <1>6, <1>7 DEF IndInv

LEMMA LogFailsInv ==
    ASSUME IndInv, NEW p \in Callers, LogFails(p)
    PROVE  IndInv'
  <1>1. /\ call[p].item \in Commitments /\ lock = p
        /\ \A q \in Callers : q # p => call[q].at # "log"
    BY NoneAssumption DEF IndInv, LockInv, LogFails
  <1>2. /\ UNCHANGED <<rows, disk, closers>>
        /\ lock' = None /\ torn' = torn \union {call[p].item}
        /\ call' \in [Callers -> Call] /\ call'[p] = Idle
        /\ \A q \in Callers : q # p => call'[q] = call[q]
    BY DEF IndInv, TypeOK, LogFails, Call, Idle, store
  <1>3. TypeOK'
    BY <1>1, <1>2 DEF IndInv, TypeOK
  <1>4. LockInv'
    BY <1>1, <1>2, NoneAssumption DEF IndInv, LockInv, Idle
  <1>5. CloserInv'
    BY <1>2 DEF IndInv, CloserInv, Idle
  <1>6. ClosuresExplained'
    <2>1. \A d \in Commitments \ torn' : ~InClosing(d)
      BY <1>1, <1>2 DEF InClosing
    <2> QED BY <1>2, <2>1 DEF IndInv, ClosuresExplained, Explained
  <1> QED BY <1>3, <1>4, <1>5, <1>6 DEF IndInv

(* Commits of others, and a crash.                                         *)
LEMMA OthersInv ==
    ASSUME IndInv, RecordVerdict \/ OthersCommit \/ Crash
    PROVE  IndInv'
  <1>1. CASE RecordVerdict
    <2>1. \A q \in Callers : call[q].at # "log"
      BY <1>1, NoneAssumption DEF IndInv, LockInv, RecordVerdict
    <2>2. \A d \in Commitments \ torn : Explained(rows[d])
      BY <2>1 DEF IndInv, ClosuresExplained, InClosing
    <2>3. TypeOK' /\ LockInv' /\ CloserInv'
      BY <1>1 DEF IndInv, TypeOK, LockInv, CloserInv, RecordVerdict
    <2>4. ClosuresExplained'
      BY <1>1, <2>2 DEF ClosuresExplained, RecordVerdict, Explained
    <2> QED BY <2>3, <2>4 DEF IndInv
  <1>2. CASE OthersCommit
    <2>1. \A q \in Callers : call[q].at = "log" => call[q].item \in Commitments
      BY DEF IndInv, LockInv
    <2>2. TypeOK'
      BY <1>2, <2>1 DEF IndInv, TypeOK, OthersCommit
    <2>3. LockInv' /\ CloserInv'
      BY <1>2 DEF IndInv, LockInv, CloserInv, OthersCommit
    <2>4. \A d \in Commitments \ torn' : d \notin torn /\ Explained(rows[d])
      BY <1>2 DEF IndInv, ClosuresExplained, OthersCommit, InClosing
    <2>5. ClosuresExplained'
      BY <1>2, <2>4 DEF ClosuresExplained, OthersCommit, Explained
    <2> QED BY <2>2, <2>3, <2>5 DEF IndInv
  <1>3. CASE Crash
    <2>1. TypeOK'
      BY <1>3 DEF IndInv, TypeOK, Crash, Idle, Call
    <2>2. LockInv' /\ CloserInv'
      BY <1>3, NoneAssumption DEF LockInv, CloserInv, Crash, Idle
    <2>3. ClosuresExplained'
      BY <1>3 DEF IndInv, ClosuresExplained, Crash, Explained
    <2> QED BY <2>1, <2>2, <2>3 DEF IndInv
  <1> QED BY <1>1, <1>2, <1>3

(* The inductive invariant holds in every reachable state: it relates the  *)
(* lock, the calls in progress and both copies of the rows (store.py).     *)
THEOREM IndInvHolds == Spec => []IndInv
  <1>1. IndInv /\ [Next]_vars => IndInv'
    <2> SUFFICES ASSUME IndInv, [Next]_vars PROVE IndInv'
      OBVIOUS
    <2>1. CASE UNCHANGED vars
      BY <2>1 DEF vars, store, IndInv, TypeOK, LockInv, CloserInv, ClosuresExplained, Explained, InClosing
    <2>2. ASSUME NEW p \in Callers, CallStarts(p) PROVE IndInv'
      BY <2>2, CreateInv, UpdateInv, CheckInv DEF CallStarts
    <2>3. ASSUME NEW p \in Callers, Write(p) PROVE IndInv'
      BY <2>3, ReopenInv, SetStatusInv, WriteFailsInv DEF Write
    <2>4. ASSUME NEW p \in Callers, CallEnds(p) PROVE IndInv'
      BY <2>4, LogClosureInv, LogFailsInv DEF CallEnds
    <2>5. CASE RecordVerdict \/ OthersCommit \/ Crash
      BY <2>5, OthersInv
    <2> QED BY <2>1, <2>2, <2>3, <2>4, <2>5 DEF Next
  <1> QED BY <1>1, InitInv, PTL DEF Spec

(* Every variable of the store keeps its type.                             *)
THEOREM TypeCorrect == Spec => []TypeOK
  <1>1. IndInv => TypeOK
    BY DEF IndInv
  <1> QED BY <1>1, IndInvHolds, PTL

(* A status that a closing wrote is the one of the newest row of the log,  *)
(* on the connection and on disk, unless that closing was cut in two.      *)
THEOREM LogExplains == Spec => []ClosuresExplained
  <1>1. IndInv => ClosuresExplained
    BY DEF IndInv
  <1> QED BY <1>1, IndInvHolds, PTL

(* No thread logs the same commitment twice before it is live again.       *)
THEOREM ClosesOnce == Spec => OneClosurePerCaller
  <1> DEFINE Once == \A p \in Callers : call[p].at = "checked" /\ call'[p].at = "log"
                                          => p \notin closers[call[p].item]
  <1>1. IndInv /\ [Next]_vars => [Once]_vars
    <2> SUFFICES ASSUME IndInv, Next, NEW p \in Callers,
                        call[p].at = "checked", call'[p].at = "log"
                 PROVE  call[p].verb \in Closing
      BY DEF IndInv, CloserInv
    <2>1. ASSUME NEW q \in Callers, CallStarts(q) PROVE call[p].verb \in Closing
      <3>1. call' = call \/ call' = [call EXCEPT ![q] = [at |-> "checked", verb |-> call'[q].verb, item |-> call'[q].item]]
        <4>1. ASSUME NEW c \in Commitments, Create(q, c) PROVE call' = call
          BY <4>1 DEF Create
        <4>2. ASSUME NEW c \in Commitments, NEW status \in Statuses, Update(q, c, status) PROVE call' = call
          BY <4>2 DEF Update
        <4>3. ASSUME NEW c \in Commitments, NEW verb \in Closing \union {"reopen"}, Check(q, verb, c)
              PROVE  call' = [call EXCEPT ![q] = [at |-> "checked", verb |-> call'[q].verb, item |-> call'[q].item]]
          BY <4>3 DEF Check, IndInv, TypeOK
        <4> QED BY <2>1, <4>1, <4>2, <4>3 DEF CallStarts
      <3> QED BY <3>1 DEF IndInv, TypeOK
    <2>2. ASSUME NEW q \in Callers, Reopen(q) \/ WriteFails(q) PROVE call[p].verb \in Closing
      <3>1. call' = [call EXCEPT ![q] = Idle]
        BY <2>2 DEF Reopen, WriteFails
      <3> QED BY <3>1 DEF IndInv, TypeOK, Idle
    <2>3. ASSUME NEW q \in Callers, SetStatus(q) PROVE call[p].verb \in Closing
      <3>1. call' = [call EXCEPT ![q] = [at |-> "log", verb |-> call[q].verb, item |-> call[q].item]]
        BY <2>3 DEF SetStatus
      <3>2. p # q => call'[p] = call[p]
        BY <3>1 DEF IndInv, TypeOK
      <3> QED BY <2>3, <3>2 DEF SetStatus
    <2>4. ASSUME NEW q \in Callers, CallEnds(q) PROVE call[p].verb \in Closing
      <3>1. call' = [call EXCEPT ![q] = Idle]
        BY <2>4 DEF CallEnds, LogClosure, LogFails
      <3> QED BY <3>1 DEF IndInv, TypeOK, Idle
    <2>5. CASE RecordVerdict \/ OthersCommit \/ Crash
      BY <2>5 DEF RecordVerdict, OthersCommit, Crash, Idle
    <2> QED BY <2>1, <2>2, <2>3, <2>4, <2>5 DEF Next, Write
  <1> QED BY <1>1, IndInvHolds, PTL DEF Spec, OneClosurePerCaller
==============================================================================
