--------------------------- MODULE AgentLoopProofs --------------------------
(***************************************************************************)
(* Proofs about AgentLoop, for any sessions, tools, batches, failover      *)
(* chain, costs, caps, windows and faults.                                 *)
(***************************************************************************)
EXTENDS AgentLoop, FiniteSetTheorems, WellFoundedInduction, TLAPS

LEMMA TypeInit == Init => TypeOK
<1> SUFFICES ASSUME Init PROVE TypeOK
  OBVIOUS
<1>1. failures \in Nat /\ failedFor \in 0..(Cooldown + 1) /\ pendingFor \in Ages
  BY LimitAssumption DEF Init, Ages, Expired
<1>2. tokens \in [Sessions -> [Tools -> Ages]]
  BY LimitAssumption DEF Init, Ages, Expired
<1>3. /\ pc \in [Sessions -> Steps]
      /\ batch \in [Sessions -> Batches \union {<<>>}]
      /\ blocked \in [Sessions -> SUBSET Tools]
  BY DEF Init, Steps
<1>4. /\ model \in [Sessions -> 1..Rungs] /\ rung \in [Sessions -> 1..Rungs]
      /\ iteration \in [Sessions -> 0..MaxIterations] /\ spent \in [Sessions -> Nat]
  BY LimitAssumption, CostAssumption DEF Init
<1>5. daily \in Nat /\ stored \in Nat /\ paid \in 0..PaidBound
  BY CostAssumption DEF Init
<1>6. pending \subseteq Tools /\ confirmed \subseteq Tools /\ unconfirmed \subseteq Tools
  BY DEF Init
<1> QED
  BY <1>1, <1>2, <1>3, <1>4, <1>5, <1>6 DEF TypeOK

LEMMA CappedType ==
    ASSUME NEW bound \in Nat, NEW n \in Nat
    PROVE AtMost(bound, n) \in 0..bound
BY DEF AtMost

LEMMA StartType ==
    ASSUME TypeOK, NEW s \in Sessions, Start(s)
    PROVE /\ failures' \in Nat /\ failedFor' \in 0..(Cooldown + 1)
          /\ pc' \in [Sessions -> Steps]
          /\ model' \in [Sessions -> 1..Rungs] /\ rung' \in [Sessions -> 1..Rungs]
          /\ UNCHANGED <<iteration, spent, batch, blocked>>
<1>1. failures' \in Nat /\ failedFor' \in 0..(Cooldown + 1)
  BY LimitAssumption DEF TypeOK, Start
<1>2. CASE Tripped
  BY <1>1, <1>2 DEF TypeOK, Start, run
<1>3. CASE ~Tripped
  <2>1. PICK r \in {1, 2} : model' = [model EXCEPT ![s] = r] /\ rung' = [rung EXCEPT ![s] = r]
    BY <1>3 DEF Start
  <2>2. r \in 1..Rungs
    BY CostAssumption
  <2>3. pc' = [pc EXCEPT ![s] = "call"] /\ UNCHANGED <<iteration, spent, batch, blocked>>
    BY <1>3 DEF Start
  <2> QED
    BY <1>1, <2>1, <2>2, <2>3 DEF TypeOK, Steps
<1> QED
  BY <1>2, <1>3

LEMMA TypeOwnerApproves == ASSUME TypeOK, OwnerApproves PROVE TypeOK'
<1>1. tokens' \in [Sessions -> [Tools -> Ages]] /\ pendingFor' \in Ages
  BY SessionsAssumption, LimitAssumption DEF TypeOK, OwnerApproves, Ages, Expired
<1>2. Start(Owner) /\ Owner \in Sessions
  BY SessionsAssumption DEF OwnerApproves
<1> QED
  BY <1>1, <1>2, StartType DEF TypeOK, OwnerApproves, money

LEMMA TypeOwnerSays == ASSUME TypeOK, OwnerSays PROVE TypeOK'
BY StartType, SessionsAssumption, LimitAssumption DEF TypeOK, OwnerSays, Waiting, money

LEMMA TypeJobFires == ASSUME TypeOK, NEW s \in Sessions, JobFires(s) PROVE TypeOK'
BY StartType DEF TypeOK, JobFires, approvals, money, ghosts

LEMMA TypeGateStops == ASSUME TypeOK, NEW s \in Sessions, GateStops(s) PROVE TypeOK'
BY DEF TypeOK, GateStops, Steps, breaker, approvals, money, ghosts

LEMMA TypeAnswered ==
    ASSUME TypeOK, NEW s \in Sessions, NEW next \in Steps, Answered(s, next),
           batch' \in [Sessions -> Batches \union {<<>>}]
    PROVE TypeOK'
<1>1. spent' \in [Sessions -> Nat]
  BY CostAssumption DEF TypeOK, Answered
<1>2. paid' \in 0..PaidBound
  BY CostAssumption DEF TypeOK, Answered, AtMost
<1> QED
  BY <1>1, <1>2 DEF TypeOK, Answered, approvals, ghosts

LEMMA TypeAnswers ==
    ASSUME TypeOK, NEW s \in Sessions, EndsTurn(s) \/ AsksTools(s) \/ CutShort(s) PROVE TypeOK'
<1>1. CASE EndsTurn(s)
  BY <1>1, TypeAnswered DEF EndsTurn, Steps, TypeOK
<1>2. CASE AsksTools(s)
  BY <1>2, TypeAnswered DEF AsksTools, Steps, TypeOK
<1>3. CASE CutShort(s)
  BY <1>3, TypeAnswered DEF CutShort, Steps, TypeOK
<1> QED
  BY <1>1, <1>2, <1>3

LEMMA TypeStepsDown == ASSUME TypeOK, NEW s \in Sessions, StepsDown(s) PROVE TypeOK'
<1>1. rung' \in [Sessions -> 1..Rungs]
  BY CostAssumption DEF TypeOK, StepsDown
<1> QED
  BY <1>1 DEF TypeOK, StepsDown, breaker, approvals, money, ghosts

LEMMA TypeCallFails == ASSUME TypeOK, NEW s \in Sessions, CallFails(s) PROVE TypeOK'
BY LimitAssumption DEF TypeOK, CallFails, Steps, approvals, money, ghosts

LEMMA TypeCallBreaks == ASSUME TypeOK, NEW s \in Sessions, CallBreaks(s) PROVE TypeOK'
BY DEF TypeOK, CallBreaks, Steps, breaker, approvals, money, ghosts

LEMMA ConsumedType ==
    ASSUME TypeOK, NEW s \in Sessions
    PROVE Consumed(s) \in [Sessions -> [Tools -> Ages]]
BY LimitAssumption DEF TypeOK, Consumed, Ages, Expired

(* The tools of a batch are tools.                                         *)
LEMMA BatchTools ==
    ASSUME TypeOK, NEW s \in Sessions
    PROVE /\ batch[s] \in Seq(Calls)
          /\ \A i \in DOMAIN batch[s] : batch[s][i] \in Calls
          /\ Gated(batch[s]) \subseteq Tools
          /\ Named(batch[s]) \subseteq Tools
          /\ Refused(s) \subseteq Tools
<1>1. batch[s] \in Seq(Calls)
  <2>1. <<>> \in Seq(Calls)
    OBVIOUS
  <2> QED
    BY <2>1, BatchAssumption DEF TypeOK
<1>2. \A i \in DOMAIN batch[s] : batch[s][i] \in Calls
  BY <1>1
<1> QED
  BY <1>1, <1>2 DEF Gated, Named, Refused, Calls

LEMMA NextRoundType ==
    ASSUME TypeOK, RoundInv, NEW s \in Sessions, pc[s] = "tools", NextRound(s)
    PROVE /\ iteration' \in [Sessions -> 0..MaxIterations]
          /\ pc' \in [Sessions -> Steps]
          /\ model' \in [Sessions -> 1..Rungs] /\ rung' \in [Sessions -> 1..Rungs]
          /\ batch' \in [Sessions -> Batches \union {<<>>}]
          /\ RoundInv'
<1>1. iteration[s] \in 0..MaxIterations /\ iteration[s] < MaxIterations
  BY DEF TypeOK, RoundInv
<1>2. iteration' = [iteration EXCEPT ![s] = iteration[s] + 1]
  BY DEF NextRound
<1>3. iteration' \in [Sessions -> 0..MaxIterations]
  BY <1>1, <1>2, LimitAssumption DEF TypeOK
<1>4. pc' = [pc EXCEPT ![s] = IF LastRound(s) THEN "reply" ELSE "call"]
  BY DEF NextRound
<1>5. pc' \in [Sessions -> Steps]
  BY <1>4 DEF TypeOK, Steps
<1>6. model' \in [Sessions -> 1..Rungs]
  BY CostAssumption DEF TypeOK, NextRound
<1>7. rung' \in [Sessions -> 1..Rungs]
  BY <1>6 DEF TypeOK, NextRound
<1>8. RoundInv'
  BY <1>1, <1>2, <1>4, LimitAssumption DEF TypeOK, RoundInv, LastRound
<1> QED
  BY <1>3, <1>5, <1>6, <1>7, <1>8 DEF TypeOK, NextRound

LEMMA TypeRunTools ==
    ASSUME TypeOK, RoundInv, NEW s \in Sessions, RunTools(s) PROVE TypeOK' /\ RoundInv'
<1>1. Unearned(s) \subseteq Tools
  BY BatchTools DEF Unearned
<1>2. pc[s] = "tools" /\ NextRound(s)
  BY DEF RunTools
<1> QED
  BY <1>1, <1>2, NextRoundType, ConsumedType DEF TypeOK, RunTools, breaker, money

LEMMA TypeHoldTools ==
    ASSUME TypeOK, RoundInv, NEW s \in Sessions, HoldTools(s) PROVE TypeOK' /\ RoundInv'
<1>1. blocked' \in [Sessions -> SUBSET Tools]
  BY BatchTools DEF HoldTools, TypeOK
<1>2. pc[s] = "tools" /\ NextRound(s)
  BY DEF HoldTools
<1> QED
  BY <1>1, <1>2, NextRoundType, ConsumedType DEF TypeOK, HoldTools, breaker, money, ghosts

LEMMA TypeRecord == ASSUME TypeOK, NEW s \in Sessions, Record(s) PROVE TypeOK'
BY DEF TypeOK, Record, Steps, breaker, approvals, ghosts

LEMMA TypePersist == ASSUME TypeOK, NEW s \in Sessions, Persist(s) PROVE TypeOK'
BY DEF TypeOK, Persist, Steps, breaker, approvals, ghosts

(* The locals of runs that are over.                                       *)
LEMMA OverType ==
    ASSUME TypeOK, RoundInv, NEW S \in SUBSET Sessions, Over(S)
    PROVE /\ pc' \in [Sessions -> Steps]
          /\ model' \in [Sessions -> 1..Rungs] /\ rung' \in [Sessions -> 1..Rungs]
          /\ iteration' \in [Sessions -> 0..MaxIterations] /\ spent' \in [Sessions -> Nat]
          /\ batch' \in [Sessions -> Batches \union {<<>>}]
          /\ blocked' \in [Sessions -> SUBSET Tools]
          /\ RoundInv'
<1>1. pc' \in [Sessions -> Steps] /\ batch' \in [Sessions -> Batches \union {<<>>}]
  BY DEF TypeOK, Over, Steps
<1>2. model' \in [Sessions -> 1..Rungs] /\ rung' \in [Sessions -> 1..Rungs]
  BY CostAssumption DEF TypeOK, Over
<1>3. iteration' \in [Sessions -> 0..MaxIterations] /\ spent' \in [Sessions -> Nat]
  BY LimitAssumption DEF TypeOK, Over
<1>4. blocked' \in [Sessions -> SUBSET Tools]
  BY DEF TypeOK, Over
<1>5. RoundInv'
  BY LimitAssumption DEF TypeOK, RoundInv, Over
<1> QED
  BY <1>1, <1>2, <1>3, <1>4, <1>5

LEMMA TypeReply ==
    ASSUME TypeOK, RoundInv, NEW s \in Sessions, Reply(s) PROVE TypeOK' /\ RoundInv'
<1>1. Over({s}) /\ {s} \in SUBSET Sessions
  BY DEF Reply
<1>2. pending' \subseteq Tools /\ pendingFor' \in Ages
  BY LimitAssumption DEF Reply, TypeOK, Ages, Expired
<1> QED
  BY <1>1, <1>2, OverType DEF TypeOK, Reply, breaker, money

LEMMA TypeTick == ASSUME TypeOK, Tick PROVE TypeOK'
<1>1. failedFor' \in 0..(Cooldown + 1) /\ pendingFor' \in Ages
  BY LimitAssumption, CappedType DEF TypeOK, Tick, Ages, Expired
<1>2. tokens' \in [Sessions -> [Tools -> Ages]]
  <2>1. \A s \in Sessions, t \in Tools : AtMost(Expired, tokens[s][t] + 1) \in Ages
    <3> SUFFICES ASSUME NEW s \in Sessions, NEW t \in Tools
                 PROVE AtMost(Expired, tokens[s][t] + 1) \in Ages
      OBVIOUS
    <3>1. tokens[s][t] \in Ages
      BY DEF TypeOK
    <3> QED
      BY <3>1, LimitAssumption DEF AtMost, Ages, Expired
  <2> QED
    BY <2>1 DEF Tick
<1> QED
  BY <1>1, <1>2 DEF TypeOK, Tick, run, money, ghosts

LEMMA TypeRestart == ASSUME TypeOK, RoundInv, Restart PROVE TypeOK' /\ RoundInv'
<1>1. failures' \in Nat /\ failedFor' \in 0..(Cooldown + 1) /\ pendingFor' \in Ages
  BY LimitAssumption DEF Restart, Ages, Expired
<1>2. tokens' \in [Sessions -> [Tools -> Ages]]
  BY LimitAssumption DEF Restart, Ages, Expired
<1>3. Over(Sessions)
  BY DEF Restart
<1> QED
  BY <1>1, <1>2, <1>3, OverType DEF TypeOK, Restart, ghosts

-----------------------------------------------------------------------------
(* Rounds: the steps that do not end a round keep RoundInv.                *)

LEMMA RoundStart ==
    ASSUME TypeOK, RoundInv, NEW s \in Sessions, pc[s] = "idle", Start(s) PROVE RoundInv'
<1>1. iteration' = iteration
  BY DEF Start, run
<1>2. pc' = pc \/ pc' = [pc EXCEPT ![s] = "call"]
  BY DEF Start, run
<1> QED
  BY <1>1, <1>2 DEF TypeOK, RoundInv

LEMMA RoundCall ==
    ASSUME TypeOK, RoundInv, NEW s \in Sessions, pc[s] = "call",
           NEW next, pc' = [pc EXCEPT ![s] = next], iteration' = iteration
    PROVE RoundInv'
BY DEF TypeOK, RoundInv

LEMMA RoundEnd ==
    ASSUME TypeOK, RoundInv, NEW s \in Sessions,
           NEW next \in {"persist", "reply"}, pc' = [pc EXCEPT ![s] = next], iteration' = iteration
    PROVE RoundInv'
BY DEF TypeOK, RoundInv

(* Every step keeps the types and the rounds.                              *)
LEMMA TypeStep == ASSUME TypeOK, RoundInv, Next PROVE TypeOK' /\ RoundInv'
<1>1. CASE OwnerApproves
  BY <1>1, TypeOwnerApproves, RoundStart, SessionsAssumption DEF OwnerApproves
<1>2. CASE OwnerSays
  BY <1>2, TypeOwnerSays, RoundStart, SessionsAssumption DEF OwnerSays
<1>3. ASSUME NEW s \in Sessions, JobFires(s) PROVE TypeOK' /\ RoundInv'
  BY <1>3, TypeJobFires, RoundStart DEF JobFires
<1>4. ASSUME NEW s \in Sessions, RunStep(s) PROVE TypeOK' /\ RoundInv'
  <2>1. CASE GateStops(s)
    BY <2>1, TypeGateStops, RoundCall DEF GateStops
  <2>2. CASE EndsTurn(s) \/ AsksTools(s) \/ CutShort(s)
    <3>1. PICK next \in Steps : Answered(s, next)
      BY <2>2 DEF EndsTurn, AsksTools, CutShort, Steps
    <3> QED
      BY <2>2, <3>1, TypeAnswers, RoundCall DEF Answered, Calling
  <2>3. CASE StepsDown(s)
    BY <2>3, TypeStepsDown DEF StepsDown, RoundInv
  <2>4. CASE CallFails(s)
    BY <2>4, TypeCallFails, RoundCall DEF CallFails, Calling
  <2>5. CASE CallBreaks(s)
    BY <2>5, TypeCallBreaks, RoundCall DEF CallBreaks, Calling
  <2>6. CASE RunTools(s)
    BY <2>6, TypeRunTools
  <2>7. CASE HoldTools(s)
    BY <2>7, TypeHoldTools
  <2>8. CASE Record(s)
    BY <2>8, TypeRecord, RoundEnd DEF Record
  <2>9. CASE Persist(s)
    BY <2>9, TypePersist, RoundEnd DEF Persist
  <2>10. CASE Reply(s)
    BY <2>10, TypeReply
  <2> QED
    BY <1>4, <2>1, <2>2, <2>3, <2>4, <2>5, <2>6, <2>7, <2>8, <2>9, <2>10 DEF RunStep
<1>5. CASE Tick
  BY <1>5, TypeTick DEF Tick, run, RoundInv
<1>6. CASE Restart
  BY <1>6, TypeRestart
<1> QED
  BY <1>1, <1>2, <1>3, <1>4, <1>5, <1>6 DEF Next

LEMMA TypeStutter == ASSUME TypeOK, RoundInv, UNCHANGED vars PROVE TypeOK' /\ RoundInv'
BY DEF TypeOK, RoundInv, vars, breaker, approvals, run, money, ghosts

-----------------------------------------------------------------------------
(* Tokens.                                                                 *)

(* A step that leaves tokens and confirmations, or only lets tokens age.   *)
LEMMA TokensAge ==
    ASSUME TypeOK, TokenInv, GatedRunsAreConfirmed, confirmed' = confirmed, unconfirmed' = unconfirmed,
           \A s \in Sessions, t \in Tools : tokens'[s][t] <= TTL => tokens[s][t] <= TTL
    PROVE TokenInv' /\ GatedRunsAreConfirmed'
BY DEF TokenInv, GatedRunsAreConfirmed

LEMMA TokenOwnerApproves ==
    ASSUME TypeOK, TokenInv, GatedRunsAreConfirmed, OwnerApproves
    PROVE TokenInv' /\ GatedRunsAreConfirmed'
<1>1. tokens' = [tokens EXCEPT ![Owner] = [t \in Tools |-> IF t \in pending THEN 0 ELSE tokens[Owner][t]]]
  BY DEF OwnerApproves
<1>2. confirmed' = confirmed \union pending /\ unconfirmed' = unconfirmed
  BY DEF OwnerApproves
<1> QED
  BY <1>1, <1>2, SessionsAssumption DEF TypeOK, TokenInv, GatedRunsAreConfirmed

(* Whatever a batch names has no token after it was judged.                *)
LEMMA ConsumedTokens ==
    ASSUME TypeOK, NEW s \in Sessions, tokens' = Consumed(s)
    PROVE \A q \in Sessions, t \in Tools :
             tokens'[q][t] <= TTL => /\ tokens[q][t] <= TTL
                                     /\ ~(q = s /\ t \in Named(batch[s]))
BY LimitAssumption DEF TypeOK, Consumed, Expired, Ages

LEMMA TokenHoldTools ==
    ASSUME TypeOK, TokenInv, GatedRunsAreConfirmed, NEW s \in Sessions, HoldTools(s)
    PROVE TokenInv' /\ GatedRunsAreConfirmed'
BY ConsumedTokens, TokensAge DEF HoldTools, ghosts

(* A batch that runs has a token of its own for each of its gated calls.   *)
LEMMA NothingUnearned ==
    ASSUME TypeOK, TokenInv, NEW s \in Sessions, Refused(s) = {}
    PROVE /\ Unearned(s) = {}
          /\ \A t \in Gated(batch[s]) : s = Owner
<1>1. \A i \in DOMAIN batch[s] : Allowed(s, i) /\ batch[s][i] \in Calls
  BY BatchTools DEF Refused
<1>2. ASSUME NEW t \in Gated(batch[s]) PROVE s = Owner /\ t \in confirmed
  <2>1. PICK i \in DOMAIN batch[s] : batch[s][i].gated /\ batch[s][i].tool = t
    BY <1>2 DEF Gated
  <2>2. t \in Tools
    BY <1>1, <2>1 DEF Calls
  <2>3. tokens[s][t] <= TTL
    BY <1>1, <2>1 DEF Allowed
  <2> QED
    BY <2>2, <2>3 DEF TokenInv
<1>3. ASSUME NEW t \in Gated(batch[s]) PROVE ~Twice(batch[s], t)
  <2> SUFFICES ASSUME NEW i \in DOMAIN batch[s], NEW j \in DOMAIN batch[s], i # j,
                      batch[s][i] = batch[s][j], batch[s][i].tool = t, batch[s][i].gated
               PROVE FALSE
    BY DEF Twice
  <2>1. FirstOfName(batch[s], i) /\ FirstOfName(batch[s], j)
    BY <1>1 DEF Allowed
  <2>2. batch[s] \in Seq(Calls)
    BY BatchTools
  <2>3. i \in Nat /\ j \in Nat /\ i >= 1 /\ j >= 1
    BY <2>2
  <2>4. CASE i < j
    BY <2>1, <2>3, <2>4 DEF FirstOfName
  <2>5. CASE j < i
    BY <2>1, <2>3, <2>5 DEF FirstOfName
  <2> QED
    BY <2>3, <2>4, <2>5
<1> QED
  BY <1>2, <1>3 DEF Unearned

LEMMA TokenRunTools ==
    ASSUME TypeOK, TokenInv, GatedRunsAreConfirmed, NEW s \in Sessions, RunTools(s)
    PROVE TokenInv' /\ GatedRunsAreConfirmed'
<1>1. tokens' = Consumed(s) /\ Refused(s) = {}
  BY DEF RunTools
<1>2. GatedRunsAreConfirmed'
  BY <1>1, NothingUnearned DEF RunTools, GatedRunsAreConfirmed
<1>3. ASSUME NEW q \in Sessions, NEW t \in Tools, tokens'[q][t] <= TTL
      PROVE q = Owner /\ t \in confirmed'
  <2>1. tokens[q][t] <= TTL /\ ~(q = s /\ t \in Named(batch[s]))
    BY <1>1, <1>3, ConsumedTokens
  <2>2. q = Owner /\ t \in confirmed
    BY <2>1 DEF TokenInv
  <2>3. t \notin Gated(batch[s])
    <3> SUFFICES ASSUME t \in Gated(batch[s]) PROVE FALSE
      OBVIOUS
    <3>1. s = Owner
      BY <1>1, NothingUnearned
    <3> QED
      BY <2>1, <2>2, <3>1 DEF Gated, Named
  <2> QED
    BY <2>2, <2>3 DEF RunTools
<1> QED
  BY <1>2, <1>3 DEF TokenInv

LEMMA TokenTick ==
    ASSUME TypeOK, TokenInv, GatedRunsAreConfirmed, Tick PROVE TokenInv' /\ GatedRunsAreConfirmed'
<1>1. ASSUME NEW s \in Sessions, NEW t \in Tools, tokens'[s][t] <= TTL PROVE tokens[s][t] <= TTL
  <2>1. tokens[s][t] \in Ages
    BY DEF TypeOK
  <2>2. tokens'[s][t] = AtMost(Expired, tokens[s][t] + 1)
    BY DEF Tick
  <2> QED
    BY <1>1, <2>1, <2>2, LimitAssumption DEF AtMost, Expired, Ages
<1> QED
  BY <1>1, TokensAge DEF Tick, ghosts

LEMMA TokenRestart ==
    ASSUME TypeOK, TokenInv, GatedRunsAreConfirmed, Restart PROVE TokenInv' /\ GatedRunsAreConfirmed'
BY LimitAssumption DEF TokenInv, GatedRunsAreConfirmed, Restart, Expired, ghosts

LEMMA TokenStep ==
    ASSUME TypeOK, TokenInv, GatedRunsAreConfirmed, Next PROVE TokenInv' /\ GatedRunsAreConfirmed'
<1>1. CASE OwnerApproves
  BY <1>1, TokenOwnerApproves
<1>2. CASE OwnerSays
  BY <1>2, TokensAge DEF OwnerSays
<1>3. ASSUME NEW s \in Sessions, JobFires(s) PROVE TokenInv' /\ GatedRunsAreConfirmed'
  BY <1>3, TokensAge DEF JobFires, approvals, ghosts
<1>4. ASSUME NEW s \in Sessions, RunStep(s) PROVE TokenInv' /\ GatedRunsAreConfirmed'
  <2>1. CASE GateStops(s) \/ StepsDown(s) \/ CallFails(s) \/ CallBreaks(s)
    BY <2>1, TokensAge DEF GateStops, StepsDown, CallFails, CallBreaks, approvals, ghosts
  <2>2. CASE EndsTurn(s) \/ AsksTools(s) \/ CutShort(s)
    BY <2>2, TokensAge DEF EndsTurn, AsksTools, CutShort, Answered, approvals, ghosts
  <2>3. CASE RunTools(s)
    BY <2>3, TokenRunTools
  <2>4. CASE HoldTools(s)
    BY <2>4, TokenHoldTools
  <2>5. CASE Record(s) \/ Persist(s)
    BY <2>5, TokensAge DEF Record, Persist, approvals, ghosts
  <2>6. CASE Reply(s)
    BY <2>6, TokensAge DEF Reply
  <2> QED
    BY <1>4, <2>1, <2>2, <2>3, <2>4, <2>5, <2>6 DEF RunStep
<1>5. CASE Tick
  BY <1>5, TokenTick
<1>6. CASE Restart
  BY <1>6, TokenRestart
<1> QED
  BY <1>1, <1>2, <1>3, <1>4, <1>5, <1>6 DEF Next

-----------------------------------------------------------------------------
(* The breaker.                                                            *)

LEMMA SessionCount == Cardinality(Sessions) \in Nat /\ Cardinality(Sessions) >= 1
<1>1. IsFiniteSet(Sessions) /\ Owner \in Sessions
  BY SessionsAssumption
<1>2. IsFiniteSet(Sessions \ {Owner}) /\ Cardinality(Sessions \ {Owner}) = Cardinality(Sessions) - 1
  BY <1>1, FS_RemoveElement
<1> QED
  BY <1>1, <1>2, FS_CardinalityType

LEMMA RiskCount ==
    /\ IsFiniteSet(AtRisk) /\ Cardinality(AtRisk) \in Nat
    /\ Cardinality(AtRisk) <= Cardinality(Sessions)
BY SessionsAssumption, FS_Subset, FS_CardinalityType DEF AtRisk

LEMMA RiskCountNext ==
    /\ IsFiniteSet(AtRisk') /\ Cardinality(AtRisk') \in Nat
    /\ Cardinality(AtRisk') <= Cardinality(Sessions)
BY SessionsAssumption, FS_Subset, FS_CardinalityType DEF AtRisk

(* A count below the threshold leaves room for every session to fail.      *)
LEMMA BreakerRoom ==
    ASSUME failures' \in Nat, failures' < Threshold PROVE BreakerInv'
BY RiskCountNext, SessionCount, LimitAssumption DEF BreakerInv

(* A step that counts nothing and lets nobody in.                          *)
LEMMA BreakerKept ==
    ASSUME TypeOK, BreakerInv, failures' = failures, AtRisk' \subseteq AtRisk PROVE BreakerInv'
<1>1. Cardinality(AtRisk') <= Cardinality(AtRisk)
  BY RiskCount, FS_Subset
<1> QED
  BY <1>1, RiskCount, RiskCountNext, SessionCount, LimitAssumption DEF TypeOK, BreakerInv

LEMMA BreakerStart ==
    ASSUME TypeOK, BreakerInv, NEW s \in Sessions, Start(s) PROVE BreakerInv'
<1>1. CASE Tripped
  <2>1. failures' = failures /\ pc' = pc
    BY <1>1, LimitAssumption DEF TypeOK, Start, Tripped, CooledDown, run
  <2> QED
    BY <2>1, BreakerKept DEF AtRisk
<1>2. CASE ~Tripped
  <2>1. failures' \in Nat /\ failures' < Threshold
    BY <1>2, LimitAssumption DEF TypeOK, Start, Tripped, CooledDown
  <2> QED
    BY <2>1, BreakerRoom
<1> QED
  BY <1>1, <1>2

LEMMA BreakerCallFails ==
    ASSUME TypeOK, BreakerInv, NEW s \in Sessions, CallFails(s) PROVE BreakerInv'
<1>1. s \in AtRisk /\ AtRisk' = AtRisk \ {s}
  BY DEF TypeOK, CallFails, Calling, AtRisk
<1>2. Cardinality(AtRisk') = Cardinality(AtRisk) - 1
  BY <1>1, RiskCount, FS_RemoveElement
<1>3. failures' = failures + 1
  BY DEF CallFails
<1> QED
  BY <1>2, <1>3, RiskCount, SessionCount, LimitAssumption DEF TypeOK, BreakerInv

LEMMA BreakerStep == ASSUME TypeOK, BreakerInv, Next PROVE BreakerInv'
<1>1. CASE OwnerApproves \/ OwnerSays
  BY <1>1, BreakerStart, SessionsAssumption DEF OwnerApproves, OwnerSays
<1>2. ASSUME NEW s \in Sessions, JobFires(s) PROVE BreakerInv'
  BY <1>2, BreakerStart DEF JobFires
<1>3. ASSUME NEW s \in Sessions, RunStep(s) PROVE BreakerInv'
  <2>1. CASE GateStops(s) \/ CallBreaks(s) \/ StepsDown(s)
    BY <2>1, BreakerKept DEF TypeOK, GateStops, CallBreaks, StepsDown, AtRisk, breaker
  <2>2. CASE EndsTurn(s) \/ AsksTools(s) \/ CutShort(s)
    BY <2>2, BreakerRoom, LimitAssumption DEF EndsTurn, AsksTools, CutShort, Answered
  <2>3. CASE CallFails(s)
    BY <2>3, BreakerCallFails
  <2>4. CASE RunTools(s) \/ HoldTools(s)
    <3>1. pc[s] = "tools" /\ failures' = failures
      BY <2>4 DEF RunTools, HoldTools, breaker
    <3>2. AtRisk' \subseteq AtRisk
      BY <2>4, <3>1 DEF TypeOK, RunTools, HoldTools, NextRound, AtRisk
    <3> QED
      BY <3>1, <3>2, BreakerKept
  <2>5. CASE Record(s) \/ Persist(s)
    BY <2>5, BreakerKept DEF TypeOK, Record, Persist, AtRisk, breaker
  <2>6. CASE Reply(s)
    BY <2>6, BreakerKept DEF TypeOK, Reply, Over, AtRisk, breaker
  <2> QED
    BY <1>3, <2>1, <2>2, <2>3, <2>4, <2>5, <2>6 DEF RunStep
<1>4. CASE Tick
  BY <1>4, BreakerKept DEF Tick, run, AtRisk
<1>5. CASE Restart
  BY <1>5, BreakerRoom, LimitAssumption DEF Restart
<1> QED
  BY <1>1, <1>2, <1>3, <1>4, <1>5 DEF Next

-----------------------------------------------------------------------------
(* The budget of a run.                                                    *)

Budget == BudgetInv /\ RunOverrunsByOneCall

(* At a call the run is within its cap.                                    *)
LEMMA CallingWithinCap ==
    ASSUME TypeOK, BudgetInv, NEW s \in Sessions, Calling(s) PROVE spent[s] <= MessageCap
<1>1. CASE rung[s] = model[s]
  <2>1. Estimate[model[s]] \in Nat /\ spent[s] \in Nat
    BY CostAssumption DEF TypeOK
  <2> QED
    BY <1>1, <2>1, CostAssumption DEF Calling, Affordable
<1>2. CASE rung[s] # model[s]
  BY <1>2 DEF Calling, BudgetInv
<1> QED
  BY <1>1, <1>2

(* A step that leaves the spending and lets nobody fall down the chain.    *)
LEMMA BudgetKept ==
    ASSUME TypeOK, Budget, spent' = spent,
           \A s \in Sessions : pc'[s] = "call" /\ rung'[s] # model'[s] => pc[s] = "call" /\ rung[s] # model[s]
    PROVE Budget'
BY DEF Budget, BudgetInv, RunOverrunsByOneCall

LEMMA BudgetStart ==
    ASSUME TypeOK, Budget, NEW s \in Sessions, pc[s] = "idle", Start(s) PROVE Budget'
<1>1. CASE Tripped
  BY <1>1, BudgetKept DEF Start, run
<1>2. CASE ~Tripped
  <2>1. PICK r \in {1, 2} : model' = [model EXCEPT ![s] = r] /\ rung' = [rung EXCEPT ![s] = r]
    BY <1>2 DEF Start
  <2>2. pc' = [pc EXCEPT ![s] = "call"] /\ spent' = spent
    BY <1>2 DEF Start
  <2> QED
    BY <2>1, <2>2, BudgetKept DEF TypeOK
<1> QED
  BY <1>1, <1>2

LEMMA BudgetAnswered ==
    ASSUME TypeOK, Budget, NEW s \in Sessions, NEW next \in Steps \ {"call"}, Answered(s, next)
    PROVE Budget'
<1>1. PICK c \in CallCosts : spent' = [spent EXCEPT ![s] = spent[s] + c]
  BY DEF Answered
<1>2. spent[s] <= MessageCap /\ spent[s] \in Nat /\ c \in Nat
  BY CallingWithinCap, CostAssumption DEF Answered, Budget, TypeOK
<1>3. spent'[s] <= MessageCap + c
  BY <1>1, <1>2, CostAssumption DEF TypeOK
<1>4. RunOverrunsByOneCall'
  BY <1>1, <1>3 DEF TypeOK, Budget, RunOverrunsByOneCall
<1>5. /\ pc' = [pc EXCEPT ![s] = next]
      /\ model' = model /\ rung' = rung
  BY DEF Answered
<1>6. BudgetInv'
  BY <1>1, <1>5 DEF TypeOK, Budget, BudgetInv
<1> QED
  BY <1>4, <1>6 DEF Budget

LEMMA BudgetOver ==
    ASSUME TypeOK, Budget, NEW S \in SUBSET Sessions, Over(S) PROVE Budget'
<1>1. BudgetInv'
  BY DEF TypeOK, Budget, BudgetInv, Over
<1>2. RunOverrunsByOneCall'
  <2> SUFFICES ASSUME NEW s \in Sessions
               PROVE \E c \in CallCosts \union {0} : spent'[s] <= MessageCap + c
    BY DEF RunOverrunsByOneCall
  <2>1. CASE s \in S
    <3>1. spent'[s] <= MessageCap + 0
      BY <2>1, CostAssumption DEF Over
    <3> QED
      BY <3>1
  <2>2. CASE s \notin S
    BY <2>2 DEF Over, Budget, RunOverrunsByOneCall
  <2> QED
    BY <2>1, <2>2
<1> QED
  BY <1>1, <1>2 DEF Budget

LEMMA BudgetStep == ASSUME TypeOK, Budget, Next PROVE Budget'
<1>1. CASE OwnerApproves \/ OwnerSays
  BY <1>1, BudgetStart, SessionsAssumption DEF OwnerApproves, OwnerSays
<1>2. ASSUME NEW s \in Sessions, JobFires(s) PROVE Budget'
  BY <1>2, BudgetStart DEF JobFires
<1>3. ASSUME NEW s \in Sessions, RunStep(s) PROVE Budget'
  <2>1. CASE GateStops(s) \/ CallFails(s) \/ CallBreaks(s)
    BY <2>1, BudgetKept DEF TypeOK, GateStops, CallFails, CallBreaks
  <2>2. CASE EndsTurn(s) \/ AsksTools(s) \/ CutShort(s)
    BY <2>2, BudgetAnswered DEF EndsTurn, AsksTools, CutShort, Steps
  <2>3. CASE StepsDown(s)
    <3>1. spent[s] <= MessageCap
      BY <2>3, CallingWithinCap DEF StepsDown, Budget
    <3>2. pc' = pc /\ model' = model /\ spent' = spent /\ rung' = [rung EXCEPT ![s] = rung[s] + 1]
      BY <2>3 DEF StepsDown, money
    <3> QED
      BY <3>1, <3>2 DEF TypeOK, Budget, BudgetInv, RunOverrunsByOneCall
  <2>4. CASE RunTools(s) \/ HoldTools(s)
    <3>1. /\ spent' = spent
          /\ \E p \in {"reply", "call"} : pc' = [pc EXCEPT ![s] = p]
          /\ rung' = [rung EXCEPT ![s] = model'[s]]
          /\ \A q \in Sessions \ {s} : model'[q] = model[q]
      BY <2>4 DEF TypeOK, RunTools, HoldTools, NextRound
    <3> QED
      BY <3>1, BudgetKept DEF TypeOK
  <2>5. CASE Record(s) \/ Persist(s)
    BY <2>5, BudgetKept DEF TypeOK, Record, Persist
  <2>6. CASE Reply(s)
    BY <2>6, BudgetOver DEF Reply
  <2> QED
    BY <1>3, <2>1, <2>2, <2>3, <2>4, <2>5, <2>6 DEF RunStep
<1>4. CASE Tick
  BY <1>4, BudgetKept DEF Tick, run
<1>5. CASE Restart
  BY <1>5, BudgetOver DEF Restart
<1> QED
  BY <1>1, <1>2, <1>3, <1>4, <1>5 DEF Next

-----------------------------------------------------------------------------
(* Sums over finite sets.  SumOver folds a set in the order of a choice;   *)
(* what it gives does not depend on that choice.  Each induction is on the *)
(* cardinality, as the least set that fails.                               *)

(* The fold's first element, and what it is for a function that is the fold *)
(* on the sets of a collection.                                            *)
First(T) == CHOOSE x \in T : TRUE
IsFold(f, C, g) == g = [T \in C |-> IF T = {} THEN 0 ELSE f[First(T)] + g[T \ {First(T)}]]
IsFoldOn(f, S, g) == IsFold(f, SUBSET S, g)
Small(S, n) == {T \in SUBSET S : Cardinality(T) <= n}

LEMMA LeastOf ==
  ASSUME NEW S \in SUBSET Nat, S # {}
  PROVE  \E m \in S : \A n \in S : m <= n
<1>1. IsWellFoundedOn(OpToRel(<, Nat), Nat)
  BY NatLessThanWellFounded
<1>2. PICK m \in S : \A n \in S : <<n, m>> \notin OpToRel(<, Nat)
  BY <1>1, WFMin
<1>3. \A n \in S : ~(n < m)
  BY <1>2 DEF OpToRel
<1> QED
  BY <1>3

LEMMA FirstIn == ASSUME NEW T, T # {} PROVE First(T) \in T
BY DEF First

(* Taking an element out makes a finite set smaller.                       *)
LEMMA OneLess ==
    ASSUME NEW T, IsFiniteSet(T), NEW x \in T
    PROVE /\ IsFiniteSet(T \ {x})
          /\ Cardinality(T) \in Nat \ {0}
          /\ Cardinality(T \ {x}) = Cardinality(T) - 1
<1>1. IsFiniteSet(T \ {x}) /\ Cardinality(T \ {x}) = Cardinality(T) - 1
  BY FS_RemoveElement
<1>2. Cardinality(T) \in Nat /\ Cardinality(T \ {x}) \in Nat
  BY <1>1, FS_CardinalityType
<1> QED
  BY <1>1, <1>2

(* The recursive function of the fold exists.                              *)
LEMMA FoldExists ==
    ASSUME NEW f, NEW S, IsFiniteSet(S) PROVE \E g : IsFold(f, SUBSET S, g)
<1> DEFINE Bad == {n \in Nat : ~ \E g : IsFold(f, Small(S, n), g)}
<1>1. SUFFICES ASSUME Bad # {} PROVE FALSE
  <2>1. Cardinality(S) \in Nat /\ \A T \in SUBSET S : Cardinality(T) <= Cardinality(S)
    BY FS_Subset, FS_CardinalityType
  <2>2. Small(S, Cardinality(S)) = SUBSET S
    BY <2>1 DEF Small
  <2> QED
    BY <1>1, <2>1, <2>2
<1>2. PICK m \in Bad : \A n \in Bad : m <= n
  BY <1>1, LeastOf
<1>3. PICK h : m # 0 => IsFold(f, Small(S, m - 1), h)
  <2>1. m # 0 => m - 1 \in Nat /\ m - 1 \notin Bad
    BY <1>2
  <2> QED
    BY <2>1
<1> DEFINE g == [T \in Small(S, m) |-> IF T = {} THEN 0 ELSE f[First(T)] + h[T \ {First(T)}]]
<1>4. ASSUME NEW T \in Small(S, m), T # {}
      PROVE m # 0 /\ T \ {First(T)} \in Small(S, m - 1) /\ T \ {First(T)} \in Small(S, m)
  <2>1. T \in SUBSET S /\ First(T) \in T /\ Cardinality(T) <= m
    BY <1>4, FirstIn DEF Small
  <2>2. IsFiniteSet(T)
    BY <2>1, FS_Subset
  <2>3. m \in Nat
    OBVIOUS
  <2> HIDE DEF Bad
  <2>4. Cardinality(T) \in Nat \ {0} /\ Cardinality(T \ {First(T)}) = Cardinality(T) - 1
    BY <2>1, <2>2, OneLess
  <2>5. m # 0 /\ Cardinality(T \ {First(T)}) <= m - 1 /\ Cardinality(T \ {First(T)}) <= m
    BY <2>1, <2>3, <2>4
  <2> QED
    BY <2>1, <2>5 DEF Small
<1>5. ASSUME NEW T \in Small(S, m), T # {} PROVE g[T \ {First(T)}] = h[T \ {First(T)}]
  <2> DEFINE U == T \ {First(T)}
  <2>1. m # 0 /\ U \in Small(S, m - 1) /\ U \in Small(S, m)
    BY <1>4, <1>5
  <2>2. h[U] = IF U = {} THEN 0 ELSE f[First(U)] + h[U \ {First(U)}]
    BY <1>3, <2>1 DEF IsFold
  <2>3. g[U] = IF U = {} THEN 0 ELSE f[First(U)] + h[U \ {First(U)}]
    BY <2>1
  <2> QED
    BY <2>2, <2>3
<1>6. IsFold(f, Small(S, m), g)
  <2> HIDE DEF Bad
  <2> QED
    BY <1>5 DEF IsFold
<1> QED
  BY <1>2, <1>6

(* Two of them agree wherever both are defined.                            *)
LEMMA FoldsAgree ==
    ASSUME NEW f, NEW S, IsFiniteSet(S), NEW R, R \subseteq S,
           NEW g, IsFoldOn(f, S, g), NEW h, IsFoldOn(f, R, h)
    PROVE g[R] = h[R]
<1> DEFINE Bad == {n \in Nat : \E T \in SUBSET R : Cardinality(T) = n /\ g[T] # h[T]}
<1>1. SUFFICES ASSUME Bad # {} PROVE FALSE
  <2>1. \A T \in SUBSET R : Cardinality(T) \in Nat
    BY FS_Subset, FS_CardinalityType
  <2> QED
    BY <1>1, <2>1
<1>2. PICK m \in Bad : \A n \in Bad : m <= n
  BY <1>1, LeastOf
<1>3. PICK T \in SUBSET R : Cardinality(T) = m /\ g[T] # h[T]
  BY <1>2
<1>4. /\ g[T] = IF T = {} THEN 0 ELSE f[First(T)] + g[T \ {First(T)}]
      /\ h[T] = IF T = {} THEN 0 ELSE f[First(T)] + h[T \ {First(T)}]
  BY DEF IsFoldOn, IsFold
<1>5. T # {} /\ g[T \ {First(T)}] # h[T \ {First(T)}]
  BY <1>3, <1>4
<1>6. T \ {First(T)} \in SUBSET R /\ Cardinality(T \ {First(T)}) = m - 1 /\ m - 1 \in Nat
  <2>1. First(T) \in T /\ IsFiniteSet(T)
    BY <1>5, FirstIn, FS_Subset
  <2>2. Cardinality(T) \in Nat \ {0} /\ Cardinality(T \ {First(T)}) = Cardinality(T) - 1
    BY <2>1, OneLess
  <2> QED
    BY <1>3, <2>2
<1> QED
  BY <1>2, <1>5, <1>6

(* SumOver takes one of them.                                              *)
LEMMA SumIsFold ==
    ASSUME NEW f, NEW S, IsFiniteSet(S)
    PROVE \E g : IsFoldOn(f, S, g) /\ SumOver(f, S) = g[S]
<1> DEFINE fold == CHOOSE g : IsFoldOn(f, S, g)
<1>1. SumOver(f, S) = fold[S]
  BY DEF SumOver, MapThenSumSet, MapThenFoldSet, IsFoldOn, IsFold, First
<1>2. IsFoldOn(f, S, fold)
  BY FoldExists DEF IsFoldOn
<1> HIDE DEF fold
<1> QED
  BY <1>1, <1>2

(* The sum of a set, in the order of the choice.                           *)
LEMMA SumUnfolds ==
    ASSUME NEW f, NEW S, IsFiniteSet(S)
    PROVE SumOver(f, S) = IF S = {} THEN 0 ELSE f[First(S)] + SumOver(f, S \ {First(S)})
<1>1. PICK g : IsFoldOn(f, S, g) /\ SumOver(f, S) = g[S]
  BY SumIsFold
<1>2. g[S] = IF S = {} THEN 0 ELSE f[First(S)] + g[S \ {First(S)}]
  BY <1>1 DEF IsFoldOn, IsFold
<1>3. PICK R : R = S \ {First(S)}
  OBVIOUS
<1>4. R \subseteq S /\ IsFiniteSet(R)
  BY <1>3, FS_Subset
<1>5. PICK h : IsFoldOn(f, R, h) /\ SumOver(f, R) = h[R]
  BY <1>4, SumIsFold
<1>6. g[R] = h[R]
  BY <1>1, <1>4, <1>5, FoldsAgree
<1> QED
  BY <1>1, <1>2, <1>3, <1>5, <1>6

(* A sum of naturals is one.                                               *)
LEMMA SumOfNats ==
    ASSUME NEW f, NEW S, IsFiniteSet(S), \A x \in S : f[x] \in Nat
    PROVE SumOver(f, S) \in Nat
<1> DEFINE Bad == {n \in Nat : \E T \in SUBSET S : Cardinality(T) = n /\ SumOver(f, T) \notin Nat}
<1>1. SUFFICES ASSUME Bad # {} PROVE FALSE
  BY <1>1, FS_CardinalityType
<1>2. PICK m \in Bad : \A n \in Bad : m <= n
  BY <1>1, LeastOf
<1>3. PICK T \in SUBSET S : Cardinality(T) = m /\ SumOver(f, T) \notin Nat
  BY <1>2
<1>4. IsFiniteSet(T)
  BY FS_Subset
<1>5. T # {} /\ f[First(T)] \in Nat /\ SumOver(f, T \ {First(T)}) \notin Nat
  BY <1>3, <1>4, SumUnfolds, FirstIn
<1>6. Cardinality(T \ {First(T)}) = m - 1 /\ m - 1 \in Nat
  BY <1>3, <1>4, <1>5, FirstIn, OneLess
<1> QED
  BY <1>2, <1>5, <1>6

(* It depends on the summands only.                                        *)
LEMMA SumOfEqual ==
    ASSUME NEW f, NEW h, NEW S, IsFiniteSet(S), \A x \in S : f[x] = h[x]
    PROVE SumOver(f, S) = SumOver(h, S)
<1> DEFINE Bad == {n \in Nat : \E T \in SUBSET S : Cardinality(T) = n /\ SumOver(f, T) # SumOver(h, T)}
<1>1. SUFFICES ASSUME Bad # {} PROVE FALSE
  BY <1>1, FS_CardinalityType
<1>2. PICK m \in Bad : \A n \in Bad : m <= n
  BY <1>1, LeastOf
<1>3. PICK T \in SUBSET S : Cardinality(T) = m /\ SumOver(f, T) # SumOver(h, T)
  BY <1>2
<1>4. IsFiniteSet(T)
  BY FS_Subset
<1>5. T # {} /\ SumOver(f, T \ {First(T)}) # SumOver(h, T \ {First(T)})
  <2>1. /\ SumOver(f, T) = IF T = {} THEN 0 ELSE f[First(T)] + SumOver(f, T \ {First(T)})
        /\ SumOver(h, T) = IF T = {} THEN 0 ELSE h[First(T)] + SumOver(h, T \ {First(T)})
    BY <1>4, SumUnfolds
  <2>2. T # {}
    BY <1>3, <2>1
  <2>3. f[First(T)] = h[First(T)]
    BY <2>2, FirstIn
  <2> QED
    BY <1>3, <2>1, <2>2, <2>3
<1>6. Cardinality(T \ {First(T)}) = m - 1 /\ m - 1 \in Nat
  BY <1>3, <1>4, <1>5, FirstIn, OneLess
<1> QED
  BY <1>2, <1>5, <1>6

(* Any element may be taken out of it first.                               *)
LEMMA SumTakesOut ==
    ASSUME NEW f, NEW S, IsFiniteSet(S), \A y \in S : f[y] \in Nat, NEW x \in S
    PROVE SumOver(f, S) = f[x] + SumOver(f, S \ {x})
<1> DEFINE Bad == {n \in Nat : \E T \in SUBSET S : Cardinality(T) = n
                                  /\ \E y \in T : SumOver(f, T) # f[y] + SumOver(f, T \ {y})}
<1>1. SUFFICES ASSUME Bad # {} PROVE FALSE
  BY <1>1, FS_CardinalityType
<1>2. PICK m \in Bad : \A n \in Bad : m <= n
  BY <1>1, LeastOf
<1>3. PICK T \in SUBSET S : Cardinality(T) = m
                            /\ \E y \in T : SumOver(f, T) # f[y] + SumOver(f, T \ {y})
  BY <1>2
<1>4. PICK y \in T : SumOver(f, T) # f[y] + SumOver(f, T \ {y})
  BY <1>3
<1>5. PICK z : z = First(T)
  OBVIOUS
<1>6. IsFiniteSet(T) /\ z \in T
  BY <1>5, FS_Subset, FirstIn
<1>7. SumOver(f, T) = f[z] + SumOver(f, T \ {z})
  BY <1>5, <1>6, SumUnfolds
<1>8. y # z
  BY <1>4, <1>7
(* Smaller sets give up any element they have.                             *)
<1>9. ASSUME NEW v \in T, NEW w \in T \ {v}
      PROVE SumOver(f, T \ {v}) = f[w] + SumOver(f, (T \ {v}) \ {w})
  <2>1. Cardinality(T \ {v}) = m - 1 /\ m - 1 \in Nat
    BY <1>3, <1>6, OneLess
  <2>2. m - 1 \notin Bad
    BY <1>2, <2>1
  <2> QED
    BY <2>1, <2>2
<1>10. SumOver(f, T \ {z}) = f[y] + SumOver(f, (T \ {z}) \ {y})
  BY <1>6, <1>8, <1>9
<1>11. SumOver(f, T \ {y}) = f[z] + SumOver(f, (T \ {y}) \ {z})
  BY <1>6, <1>8, <1>9
<1>12. PICK R : R = (T \ {y}) \ {z} /\ R = (T \ {z}) \ {y}
  OBVIOUS
<1>13. SumOver(f, R) \in Nat /\ f[y] \in Nat /\ f[z] \in Nat
  <2>1. R \subseteq S /\ IsFiniteSet(R)
    BY <1>12, FS_Subset
  <2> QED
    BY <2>1, <1>6, SumOfNats
<1> QED
  BY <1>4, <1>7, <1>10, <1>11, <1>12, <1>13

-----------------------------------------------------------------------------
(* The books of the day.                                                   *)

LEMMA SpentIsNat == ASSUME TypeOK PROVE IsFiniteSet(InFlight) /\ \A s \in InFlight : spent[s] \in Nat
BY SessionsAssumption, FS_Subset DEF InFlight, TypeOK

(* A step that moves no money and keeps what the runs in flight have spent. *)
LEMMA BooksKept ==
    ASSUME TypeOK, DailyBooksAgree, daily' = daily, stored' = stored,
           InFlight' = InFlight, \A s \in InFlight : spent'[s] = spent[s]
    PROVE DailyBooksAgree'
<1>1. SumOver(spent, InFlight) = SumOver(spent', InFlight)
  BY SpentIsNat, SumOfEqual
<1>2. SumOver(spent, InFlight)' = SumOver(spent', InFlight')
  OBVIOUS
<1> QED
  BY <1>1, <1>2 DEF DailyBooksAgree

LEMMA BooksStart ==
    ASSUME TypeOK, DailyBooksAgree, NEW s \in Sessions, pc[s] = "idle", Start(s),
           daily' = daily, stored' = stored
    PROVE DailyBooksAgree'
<1>1. spent' = spent /\ (pc' = pc \/ pc' = [pc EXCEPT ![s] = "call"])
  BY DEF Start, run
<1>2. InFlight' = InFlight
  BY <1>1 DEF InFlight, TypeOK
<1> QED
  BY <1>1, <1>2, BooksKept

(* A run that is recorded joins those in flight, with what it has spent.   *)
LEMMA BooksRecord ==
    ASSUME TypeOK, DailyBooksAgree, NEW s \in Sessions, Record(s) PROVE DailyBooksAgree'
<1>1. spent' = spent /\ stored' = stored /\ pc[s] = "record"
  BY DEF Record
<1>2. CASE OverDaily(s)
  <2>1. InFlight' = InFlight /\ daily' = daily
    BY <1>2 DEF Record, InFlight, TypeOK
  <2> QED
    BY <1>1, <2>1, BooksKept
<1>3. CASE ~OverDaily(s)
  <2>1. InFlight' = InFlight \union {s} /\ s \notin InFlight
    BY <1>1, <1>3 DEF Record, InFlight, TypeOK
  <2>2. daily' = daily + spent[s] /\ daily + spent[s] <= DailyCap
    BY <1>3, CostAssumption DEF Record, OverDaily, TypeOK
  <2>3. PICK W : W = InFlight'
    OBVIOUS
  <2>4. IsFiniteSet(W) /\ (\A y \in W : spent[y] \in Nat) /\ s \in W /\ W \ {s} = InFlight
    BY <2>1, <2>3, SpentIsNat, FS_AddElement DEF TypeOK
  <2>5. SumOver(spent, W) = spent[s] + SumOver(spent, InFlight)
    BY <2>4, SumTakesOut
  <2>6. SumOver(spent, InFlight) \in Nat /\ daily \in Nat /\ stored \in Nat /\ spent[s] \in Nat
    BY SpentIsNat, SumOfNats DEF TypeOK
  <2>7. daily' = stored' + SumOver(spent, W)
    BY <1>1, <2>2, <2>5, <2>6 DEF DailyBooksAgree
  <2> QED
    BY <1>1, <2>2, <2>3, <2>7 DEF DailyBooksAgree
<1> QED
  BY <1>2, <1>3

(* A run that is persisted leaves them, and its row grows by as much.      *)
LEMMA BooksPersist ==
    ASSUME TypeOK, DailyBooksAgree, NEW s \in Sessions, Persist(s) PROVE DailyBooksAgree'
<1>1. /\ spent' = spent /\ stored' = stored + spent[s] /\ daily' = daily
      /\ s \in InFlight /\ InFlight' = InFlight \ {s}
  BY DEF Persist, InFlight, TypeOK
<1>2. SumOver(spent, InFlight) = spent[s] + SumOver(spent, InFlight \ {s})
  BY <1>1, SpentIsNat, SumTakesOut
<1>3. SumOver(spent, InFlight \ {s}) \in Nat
  BY SpentIsNat, FS_Subset, SumOfNats
<1>4. daily \in Nat /\ stored \in Nat /\ spent[s] \in Nat
  BY DEF TypeOK
<1>5. daily = (stored + spent[s]) + SumOver(spent, InFlight \ {s})
  BY <1>2, <1>3, <1>4 DEF DailyBooksAgree
<1> QED
  BY <1>1, <1>5 DEF DailyBooksAgree

(* A restart takes the row for the day, and nothing is in flight.          *)
LEMMA BooksRestart == ASSUME TypeOK, DailyBooksAgree, Restart PROVE DailyBooksAgree'
<1>1. InFlight' = {} /\ daily' = stored /\ stored' = stored
  BY DEF Restart, Over, InFlight
<1>2. SumOver(spent', {}) = 0
  BY SumUnfolds, FS_EmptySet
<1>3. stored <= daily /\ stored \in Nat /\ daily \in Nat /\ daily <= DailyCap
  <2>1. SumOver(spent, InFlight) \in Nat
    BY SpentIsNat, SumOfNats
  <2> QED
    BY <2>1 DEF DailyBooksAgree, TypeOK
<1> QED
  BY <1>1, <1>2, <1>3, CostAssumption DEF DailyBooksAgree

LEMMA BooksStep == ASSUME TypeOK, DailyBooksAgree, Next PROVE DailyBooksAgree'
<1>1. CASE OwnerApproves \/ OwnerSays
  BY <1>1, BooksStart, SessionsAssumption DEF OwnerApproves, OwnerSays, money
<1>2. ASSUME NEW s \in Sessions, JobFires(s) PROVE DailyBooksAgree'
  BY <1>2, BooksStart DEF JobFires, money
<1>3. ASSUME NEW s \in Sessions, RunStep(s) PROVE DailyBooksAgree'
  <2>1. CASE GateStops(s) \/ CallFails(s) \/ CallBreaks(s) \/ StepsDown(s)
    <3>1. daily' = daily /\ stored' = stored /\ spent' = spent
      BY <2>1 DEF GateStops, CallFails, CallBreaks, StepsDown, money
    <3>2. pc[s] = "call" /\ (pc' = pc \/ pc' = [pc EXCEPT ![s] = "reply"])
      BY <2>1 DEF GateStops, CallFails, CallBreaks, StepsDown, Calling
    <3>3. InFlight' = InFlight
      BY <3>2 DEF InFlight, TypeOK
    <3> QED
      BY <3>1, <3>3, BooksKept
  <2>2. ASSUME NEW next \in {"record", "tools", "reply"}, Answered(s, next)
        PROVE DailyBooksAgree'
    <3>1. daily' = daily /\ stored' = stored /\ pc[s] = "call" /\ pc' = [pc EXCEPT ![s] = next]
      BY <2>2 DEF Answered, Calling
    <3>2. InFlight' = InFlight /\ s \notin InFlight
      BY <3>1 DEF InFlight, TypeOK
    <3>3. \A q \in InFlight : spent'[q] = spent[q]
      BY <2>2, <3>2 DEF Answered, TypeOK, InFlight
    <3> QED
      BY <3>1, <3>2, <3>3, BooksKept
  <2>3. CASE EndsTurn(s) \/ AsksTools(s) \/ CutShort(s)
    BY <2>2, <2>3 DEF EndsTurn, AsksTools, CutShort
  <2>4. CASE RunTools(s) \/ HoldTools(s)
    <3>1. daily' = daily /\ stored' = stored /\ spent' = spent
      BY <2>4 DEF RunTools, HoldTools, money
    <3>2. pc[s] = "tools" /\ \E p \in {"reply", "call"} : pc' = [pc EXCEPT ![s] = p]
      BY <2>4 DEF RunTools, HoldTools, NextRound
    <3>3. InFlight' = InFlight
      BY <3>2 DEF InFlight, TypeOK
    <3> QED
      BY <3>1, <3>3, BooksKept
  <2>5. CASE Reply(s)
    <3>1. daily' = daily /\ stored' = stored /\ pc[s] = "reply" /\ Over({s})
      BY <2>5 DEF Reply, money
    <3>2. InFlight' = InFlight /\ \A q \in InFlight : spent'[q] = spent[q]
      BY <3>1 DEF Over, InFlight, TypeOK
    <3> QED
      BY <3>1, <3>2, BooksKept
  <2> QED
    BY <1>3, <2>1, <2>3, <2>4, <2>5, BooksRecord, BooksPersist DEF RunStep
<1>4. CASE Tick \/ UNCHANGED vars
  BY <1>4, BooksKept DEF Tick, vars, run, money, InFlight
<1> QED
  BY <1>1, <1>2, <1>3, <1>4, BooksRestart DEF Next

-----------------------------------------------------------------------------
(* The theorems.                                                           *)

LEMMA IndInit == Init => IndInv
<1> SUFFICES ASSUME Init PROVE IndInv
  OBVIOUS
<1>1. TypeOK
  BY TypeInit
<1>2. RoundInv
  BY LimitAssumption DEF Init, RoundInv
<1>3. BreakerInv
  <2>1. AtRisk = {}
    BY DEF Init, AtRisk
  <2>2. failures = 0 /\ Cardinality(AtRisk) = 0
    BY <2>1, FS_EmptySet DEF Init
  <2> QED
    BY <2>2, SessionCount, LimitAssumption DEF BreakerInv
<1>4. TokenInv /\ GatedRunsAreConfirmed
  BY LimitAssumption DEF Init, TokenInv, GatedRunsAreConfirmed, Expired
<1>5. BudgetInv
  BY DEF Init, BudgetInv
<1>6. RunOverrunsByOneCall
  <2>1. \A s \in Sessions : spent[s] <= MessageCap + 0
    BY CostAssumption DEF Init
  <2> QED
    BY <2>1 DEF RunOverrunsByOneCall
<1> QED
  BY <1>1, <1>2, <1>3, <1>4, <1>5, <1>6 DEF IndInv

LEMMA IndStep == IndInv /\ [Next]_vars => IndInv'
<1> SUFFICES ASSUME IndInv, [Next]_vars PROVE IndInv'
  OBVIOUS
<1>1. CASE Next
  BY <1>1, TypeStep, BreakerStep, TokenStep, BudgetStep DEF IndInv, Budget
<1>2. CASE UNCHANGED vars
  <2>1. TypeOK' /\ RoundInv'
    BY <1>2, TypeStutter DEF IndInv
  <2>2. BreakerInv' /\ TokenInv' /\ GatedRunsAreConfirmed' /\ BudgetInv' /\ RunOverrunsByOneCall'
    BY <1>2 DEF IndInv, vars, breaker, approvals, run, money, ghosts, BreakerInv, AtRisk,
       TokenInv, GatedRunsAreConfirmed, BudgetInv, RunOverrunsByOneCall
  <2> QED
    BY <2>1, <2>2 DEF IndInv
<1> QED
  BY <1>1, <1>2

(* The inductive invariant holds in every reachable state of the loop.     *)
THEOREM AgentIndInv == Spec => []IndInv
BY IndInit, IndStep, PTL DEF Spec

(* Every variable of the agent loop keeps its type.                        *)
THEOREM AgentTypes == Spec => []TypeOK
<1>1. IndInv => TypeOK
  BY DEF IndInv
<1> QED
  BY <1>1, AgentIndInv, PTL

(* However many sessions share it, the breaker counts at most one failure  *)
(* past its threshold for each of the others (the locked check and         *)
(* increment of loop.py).                                                  *)
THEOREM BreakerBounded == Spec => []FailuresBounded
<1>1. IndInv => FailuresBounded
  <2> SUFFICES ASSUME IndInv PROVE FailuresBounded
    OBVIOUS
  <2>1. failures \in Nat /\ failures + Cardinality(AtRisk) <= Threshold + Cardinality(Sessions) - 1
    BY DEF IndInv, TypeOK, BreakerInv
  <2> QED
    BY <2>1, RiskCount, SessionCount, LimitAssumption DEF FailuresBounded
<1> QED
  BY <1>1, AgentIndInv, PTL

(* Every execution of a gated tool is one of the owner's session and has   *)
(* an approval of its own (the one-shot tokens of policy.py).              *)
THEOREM GatedConfirmed == Spec => []GatedRunsAreConfirmed
<1>1. IndInv => GatedRunsAreConfirmed
  BY DEF IndInv
<1> QED
  BY <1>1, AgentIndInv, PTL

(* No run spends more than its cap and one call (the gate of loop.py).     *)
THEOREM RunWithinCap == Spec => []RunOverrunsByOneCall
<1>1. IndInv => RunOverrunsByOneCall
  BY DEF IndInv
<1> QED
  BY <1>1, AgentIndInv, PTL

(* The recorded day is within its cap, and the row lacks exactly what the  *)
(* runs between the lock and the statement carry, however many there are   *)
(* (cost.py, record).                                                      *)
THEOREM BooksAgree == Spec => []DailyBooksAgree
<1>1. Init => DailyBooksAgree
  <2> SUFFICES ASSUME Init PROVE DailyBooksAgree
    OBVIOUS
  <2>1. InFlight = {} /\ daily = 0 /\ stored = 0
    BY DEF Init, InFlight
  <2>2. SumOver(spent, {}) = 0
    BY SumUnfolds, FS_EmptySet
  <2> QED
    BY <2>1, <2>2, CostAssumption DEF DailyBooksAgree
<1>2. TypeOK /\ DailyBooksAgree /\ [Next]_vars => DailyBooksAgree'
  <2>1. TypeOK /\ DailyBooksAgree /\ UNCHANGED vars => DailyBooksAgree'
    BY BooksKept DEF vars, run, money, InFlight
  <2> QED
    BY <2>1, BooksStep
<1> QED
  BY <1>1, <1>2, AgentTypes, PTL DEF Spec
=============================================================================
