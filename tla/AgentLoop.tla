------------------------------ MODULE AgentLoop ------------------------------
(***************************************************************************)
(* The agent loop and what its concurrent runs share: the circuit breaker, *)
(* the approval tokens of the policy engine, the pending tools of the      *)
(* Telegram handler, and the daily spend.                                  *)
(*                                                                         *)
(* A session is run by one thread: the owner's direct messages by the      *)
(* Telegram handler, which runs the loop to its end before it takes the    *)
(* next message, and every job by a worker of the scheduler under a        *)
(* session of its own.  An action is what a run does between two points    *)
(* where another thread can be seen: a lock, a model call, a database      *)
(* statement.  Prompts, replies and tool results are left out; a batch is  *)
(* the sequence of tool calls one answer of the model asks for.            *)
(*                                                                         *)
(* Clocks are ages in coarse ticks that saturate once nothing compares     *)
(* them any more; the model covers one calendar day of spend.              *)
(***************************************************************************)
EXTENDS Integers, Sequences, FiniteSets, FiniteSetsExt

CONSTANTS
    Sessions,       \* sessions whose runs may overlap
    Owner,          \* the session of the owner's direct messages
    Tools,          \* tool names
    Batches,        \* batches the model may ask for
    Rungs,          \* length of the failover chain of models
    Estimate,       \* Estimate[r]: estimated cost of a call of model r
    CallCosts,      \* what a call may really cost
    MessageCap,     \* per-message cost cap
    DailyCap,       \* daily cost cap
    MaxIterations,  \* model calls in one run
    Threshold,      \* consecutive failures that trip the breaker
    Cooldown,       \* ticks after which a tripped breaker resets
    TTL,            \* ticks a pending tool, and a token, stay valid
    Faults,         \* what may go wrong
    PaidBound       \* where the count of what was paid saturates

Calls == [tool : Tools, gated : BOOLEAN]

ASSUME SessionsAssumption == IsFiniteSet(Sessions) /\ Owner \in Sessions
ASSUME BatchAssumption == Batches \subseteq Seq(Calls)
ASSUME CostAssumption ==
    /\ Rungs \in Nat /\ Rungs >= 2
    /\ Estimate \in [1..Rungs -> Nat]
    /\ CallCosts \subseteq Nat
    /\ MessageCap \in Nat /\ DailyCap \in Nat /\ PaidBound \in Nat
ASSUME LimitAssumption ==
    /\ MaxIterations \in Nat \ {0}
    /\ Threshold \in Nat \ {0}
    /\ Cooldown \in Nat /\ TTL \in Nat
ASSUME FaultAssumption == Faults \subseteq {"api", "other", "cut", "restart"}

VARIABLES
    failures,       \* _consecutive_failures
    failedFor,      \* age of _last_failure_at
    pending,        \* tools the handler holds for the owner's answer
    pendingFor,     \* age of that entry
    tokens,         \* tokens[s][t]: age of the one-shot approval of t in s
    pc,             \* what each session's run is at
    model,          \* rung of the chain the run asks for
    rung,           \* rung the current call has fallen to
    iteration,      \* completed tool rounds of the run
    spent,          \* session_cost of the run
    batch,          \* tool calls of the answer being handled
    blocked,        \* tools this run was refused
    daily,          \* today's spend in memory
    stored,         \* today's row of daily_costs
    confirmed,      \* (ghost) tools the owner said yes to since their last run
    unconfirmed,    \* (ghost) gated tools that ran without such a yes
    paid            \* (ghost) what today's calls really cost

breaker == <<failures, failedFor>>
approvals == <<pending, pendingFor, tokens>>
run == <<pc, model, rung, iteration, spent, batch, blocked>>
money == <<daily, stored, paid>>
ghosts == <<confirmed, unconfirmed>>
vars == <<breaker, approvals, run, money, ghosts>>

Expired == TTL + 1          \* an age that is no longer valid, or no entry
Ages == 0..Expired
Steps == {"idle", "call", "tools", "record", "persist", "reply"}

Init ==
    /\ failures = 0 /\ failedFor = Cooldown + 1
    /\ pending = {} /\ pendingFor = Expired
    /\ tokens = [s \in Sessions |-> [t \in Tools |-> Expired]]
    /\ pc = [s \in Sessions |-> "idle"]
    /\ model = [s \in Sessions |-> 1]
    /\ rung = [s \in Sessions |-> 1]
    /\ iteration = [s \in Sessions |-> 0]
    /\ spent = [s \in Sessions |-> 0]
    /\ batch = [s \in Sessions |-> <<>>]
    /\ blocked = [s \in Sessions |-> {}]
    /\ daily = 0 /\ stored = 0 /\ paid = 0
    /\ confirmed = {} /\ unconfirmed = {}

-----------------------------------------------------------------------------
(* A run begins: the breaker is read, and reset when it has cooled down.   *)

(* (mutant) A count past the threshold is not seen as tripped.             *)
TrippedExactly == failures = Threshold /\ failedFor <= Cooldown

Tripped == failures >= Threshold /\ failedFor <= Cooldown
CooledDown == failures >= Threshold /\ failedFor > Cooldown

(* (mutant) A refused run counts as one more failure's time.               *)
StartRefreshes(s) ==
    /\ failures' = IF CooledDown THEN 0 ELSE failures
    /\ failedFor' = IF CooledDown THEN Cooldown + 1 ELSE IF Tripped THEN 0 ELSE failedFor
    /\ pc' = [pc EXCEPT ![s] = IF Tripped THEN "idle" ELSE "call"]
    /\ UNCHANGED <<model, rung, iteration, spent, batch, blocked>>

(* The run of s starts, on a model the router picks (the first two of the  *)
(* chain), or is turned away.  Its locals are as the last run left them:   *)
(* cleared.                                                                *)
Start(s) ==
    /\ failures' = IF CooledDown THEN 0 ELSE failures
    /\ failedFor' = IF CooledDown THEN Cooldown + 1 ELSE failedFor
    /\ IF Tripped
       THEN UNCHANGED run
       ELSE /\ pc' = [pc EXCEPT ![s] = "call"]
            /\ \E r \in {1, 2} : model' = [model EXCEPT ![s] = r] /\ rung' = [rung EXCEPT ![s] = r]
            /\ UNCHANGED <<iteration, spent, batch, blocked>>

Waiting == pendingFor <= TTL        \* an entry the sweep leaves in place

(* The owner approves: every pending tool gets a token, the entry goes.    *)
OwnerApproves ==
    /\ pc[Owner] = "idle" /\ Waiting
    /\ tokens' = [tokens EXCEPT ![Owner] = [t \in Tools |-> IF t \in pending THEN 0 ELSE @[t]]]
    /\ pending' = {} /\ pendingFor' = Expired
    /\ confirmed' = confirmed \union pending
    /\ Start(Owner)
    /\ UNCHANGED <<money, unconfirmed>>

(* Any other message of the owner leaves a live entry where it is.         *)
OwnerSays ==
    /\ pc[Owner] = "idle"
    /\ pending' = IF Waiting THEN pending ELSE {}
    /\ Start(Owner)
    /\ UNCHANGED <<pendingFor, tokens, money, confirmed, unconfirmed>>

JobFires(s) ==
    /\ s # Owner /\ pc[s] = "idle"
    /\ Start(s)
    /\ UNCHANGED <<approvals, money, ghosts>>

-----------------------------------------------------------------------------
(* One model call.                                                         *)

(* (mutant) The gate forgets what the run has spent.                       *)
AffordableAlone(s) == Estimate[model[s]] <= MessageCap

Affordable(s) == Estimate[model[s]] + spent[s] <= MessageCap

(* The budget gate stops the run before the call; nothing is recorded.     *)
GateStops(s) ==
    /\ pc[s] = "call" /\ rung[s] = model[s] /\ ~Affordable(s)
    /\ pc' = [pc EXCEPT ![s] = "reply"]
    /\ UNCHANGED <<breaker, approvals, model, rung, iteration, spent, batch, blocked, money, ghosts>>

Calling(s) == pc[s] = "call" /\ (rung[s] = model[s] => Affordable(s))

AtMost(bound, n) == IF n > bound THEN bound ELSE n

(* The call answers: the breaker is reset, the cost is added to the run.   *)
Answered(s, next) ==
    /\ Calling(s)
    /\ failures' = 0
    /\ \E c \in CallCosts : /\ spent' = [spent EXCEPT ![s] = @ + c]
                            /\ paid' = AtMost(PaidBound, paid + c)
    /\ pc' = [pc EXCEPT ![s] = next]
    /\ UNCHANGED <<failedFor, approvals, model, rung, iteration, blocked, daily, stored, ghosts>>

EndsTurn(s) == Answered(s, "record") /\ UNCHANGED batch
AsksTools(s) == Answered(s, "tools") /\ \E b \in Batches : batch' = [batch EXCEPT ![s] = b]
(* max_tokens, refusal and the like: the run returns without recording.    *)
CutShort(s) == "cut" \in Faults /\ Answered(s, "reply") /\ UNCHANGED batch

(* An API error that the failover answers with the next model.             *)
StepsDown(s) ==
    /\ "api" \in Faults /\ Calling(s) /\ rung[s] < Rungs
    /\ rung' = [rung EXCEPT ![s] = @ + 1]
    /\ UNCHANGED <<breaker, approvals, pc, model, iteration, spent, batch, blocked, money, ghosts>>

(* An error no model can answer, or the end of the chain: one failure.     *)
CallFails(s) ==
    /\ "api" \in Faults /\ Calling(s)
    /\ failures' = failures + 1 /\ failedFor' = 0
    /\ pc' = [pc EXCEPT ![s] = "reply"]
    /\ UNCHANGED <<approvals, model, rung, iteration, spent, batch, blocked, money, ghosts>>

(* An error that is not the API's ends the run and leaves the breaker.     *)
CallBreaks(s) ==
    /\ "other" \in Faults /\ Calling(s)
    /\ pc' = [pc EXCEPT ![s] = "reply"]
    /\ UNCHANGED <<breaker, approvals, model, rung, iteration, spent, batch, blocked, money, ghosts>>

-----------------------------------------------------------------------------
(* One batch of tool calls: all are judged before any is executed.         *)

Named(b) == {b[i].tool : i \in DOMAIN b}
Gated(b) == {b[i].tool : i \in {j \in DOMAIN b : b[j].gated}}
FirstOfName(b, i) == \A j \in 1..(i - 1) : b[j].tool # b[i].tool

(* (mutant) The look-up leaves the token in place.                         *)
ConsumedNever(s) == tokens

(* Judging a call looks for a token first, and consumes it.                *)
Allowed(s, i) ==
    \/ ~batch[s][i].gated
    \/ tokens[s][batch[s][i].tool] <= TTL /\ FirstOfName(batch[s], i)
Refused(s) == {batch[s][i].tool : i \in {j \in DOMAIN batch[s] : ~Allowed(s, j)}}

Consumed(s) == [tokens EXCEPT ![s] = [t \in Tools |-> IF t \in Named(batch[s]) THEN Expired ELSE @[t]]]

(* Gated tools of the batch that the owner has not confirmed once a call.  *)
Twice(b, t) == \E i, j \in DOMAIN b : i # j /\ b[i] = b[j] /\ b[i].tool = t /\ b[i].gated
Unearned(s) == {t \in Gated(batch[s]) : s # Owner \/ t \notin confirmed \/ Twice(batch[s], t)}

LastRound(s) == iteration[s] + 1 >= MaxIterations

(* After the round the run calls again, on the second model at the best.   *)
NextRound(s) ==
    /\ iteration' = [iteration EXCEPT ![s] = @ + 1]
    /\ pc' = [pc EXCEPT ![s] = IF LastRound(s) THEN "reply" ELSE "call"]
    /\ model' = [model EXCEPT ![s] = IF iteration[s] = 0 THEN 2 ELSE @]
    /\ rung' = [rung EXCEPT ![s] = model'[s]]
    /\ batch' = [batch EXCEPT ![s] = <<>>]

RunTools(s) ==
    /\ pc[s] = "tools" /\ Refused(s) = {}
    /\ tokens' = Consumed(s)
    /\ unconfirmed' = unconfirmed \union Unearned(s)
    /\ confirmed' = confirmed \ Gated(batch[s])
    /\ NextRound(s)
    /\ UNCHANGED <<breaker, pending, pendingFor, spent, blocked, money>>

(* One refused call holds the whole batch; the tokens are gone all the same. *)
HoldTools(s) ==
    /\ pc[s] = "tools" /\ Refused(s) # {}
    /\ tokens' = Consumed(s)
    /\ blocked' = [blocked EXCEPT ![s] = @ \union Refused(s)]
    /\ NextRound(s)
    /\ UNCHANGED <<breaker, pending, pendingFor, spent, money, ghosts>>

-----------------------------------------------------------------------------
(* The end of a run.                                                       *)

(* A run that would pass the daily cap is not recorded, and goes on.       *)
OverDaily(s) == daily + spent[s] > DailyCap

Record(s) ==
    /\ pc[s] = "record"
    /\ daily' = IF OverDaily(s) THEN daily ELSE daily + spent[s]
    /\ pc' = [pc EXCEPT ![s] = IF OverDaily(s) THEN "reply" ELSE "persist"]
    /\ UNCHANGED <<breaker, approvals, model, rung, iteration, spent, batch, blocked, stored, paid, ghosts>>

(* (mutant) The row is written with this run's cost, not incremented.      *)
PersistOverwrites(s) ==
    /\ pc[s] = "persist"
    /\ stored' = spent[s]
    /\ pc' = [pc EXCEPT ![s] = "reply"]
    /\ UNCHANGED <<breaker, approvals, model, rung, iteration, spent, batch, blocked, daily, paid, ghosts>>

(* Outside the lock: the row grows by this run's cost in one statement.    *)
Persist(s) ==
    /\ pc[s] = "persist"
    /\ stored' = stored + spent[s]
    /\ pc' = [pc EXCEPT ![s] = "reply"]
    /\ UNCHANGED <<breaker, approvals, model, rung, iteration, spent, batch, blocked, daily, paid, ghosts>>

(* The runs of the sessions in S are over, their locals gone.              *)
Over(S) ==
    /\ pc' = [s \in Sessions |-> IF s \in S THEN "idle" ELSE pc[s]]
    /\ model' = [s \in Sessions |-> IF s \in S THEN 1 ELSE model[s]]
    /\ rung' = [s \in Sessions |-> IF s \in S THEN 1 ELSE rung[s]]
    /\ iteration' = [s \in Sessions |-> IF s \in S THEN 0 ELSE iteration[s]]
    /\ spent' = [s \in Sessions |-> IF s \in S THEN 0 ELSE spent[s]]
    /\ batch' = [s \in Sessions |-> IF s \in S THEN <<>> ELSE batch[s]]
    /\ blocked' = [s \in Sessions |-> IF s \in S THEN {} ELSE blocked[s]]

(* The reply goes out; what the owner's run was refused becomes pending.   *)
Reply(s) ==
    /\ pc[s] = "reply"
    /\ Over({s})
    /\ IF s = Owner /\ blocked[s] # {}
       THEN pending' = blocked[s] /\ pendingFor' = 0
       ELSE UNCHANGED <<pending, pendingFor>>
    /\ UNCHANGED <<breaker, tokens, money, confirmed, unconfirmed>>

-----------------------------------------------------------------------------
(* Time and restarts.                                                      *)

Tick ==
    /\ failedFor' = AtMost(Cooldown + 1, failedFor + 1)
    /\ pendingFor' = AtMost(Expired, pendingFor + 1)
    /\ tokens' = [s \in Sessions |-> [t \in Tools |-> AtMost(Expired, tokens[s][t] + 1)]]
    /\ UNCHANGED <<failures, pending, run, money, ghosts>>

(* The process dies and comes back: only the row of daily_costs survives.  *)
Restart ==
    /\ "restart" \in Faults
    /\ failures' = 0 /\ failedFor' = Cooldown + 1
    /\ pending' = {} /\ pendingFor' = Expired
    /\ tokens' = [s \in Sessions |-> [t \in Tools |-> Expired]]
    /\ Over(Sessions)
    /\ daily' = stored
    /\ UNCHANGED <<stored, paid, ghosts>>

(* A step the run of s takes by itself once it has begun.                  *)
RunStep(s) ==
    \/ GateStops(s) \/ EndsTurn(s) \/ AsksTools(s) \/ CutShort(s)
    \/ StepsDown(s) \/ CallFails(s) \/ CallBreaks(s)
    \/ RunTools(s) \/ HoldTools(s)
    \/ Record(s) \/ Persist(s) \/ Reply(s)

Next ==
    \/ OwnerApproves \/ OwnerSays
    \/ \E s \in Sessions : JobFires(s) \/ RunStep(s)
    \/ Tick \/ Restart

Spec == Init /\ [][Next]_vars

(* A run ends: its calls time out and its rounds are counted.  The clock   *)
(* moves on, and the scheduler keeps firing the jobs.                      *)
FairSpec ==
    /\ Spec
    /\ WF_vars(Tick)
    /\ \A s \in Sessions : WF_vars(RunStep(s)) /\ WF_vars(JobFires(s))

-----------------------------------------------------------------------------
(* Properties.                                                             *)

TypeOK ==
    /\ failures \in Nat /\ failedFor \in 0..(Cooldown + 1)
    /\ pending \subseteq Tools /\ pendingFor \in Ages
    /\ tokens \in [Sessions -> [Tools -> Ages]]
    /\ pc \in [Sessions -> Steps]
    /\ model \in [Sessions -> 1..Rungs] /\ rung \in [Sessions -> 1..Rungs]
    /\ iteration \in [Sessions -> 0..MaxIterations]
    /\ spent \in [Sessions -> Nat]
    /\ batch \in [Sessions -> Batches \union {<<>>}]
    /\ blocked \in [Sessions -> SUBSET Tools]
    /\ daily \in Nat /\ stored \in Nat /\ paid \in 0..PaidBound
    /\ confirmed \subseteq Tools /\ unconfirmed \subseteq Tools

(* The breaker never counts more failures than the threshold and one for   *)
(* every other run that was already past its check: two threads that fail  *)
(* at once are both counted, and a tripped breaker lets nobody in          *)
(* (loop.py, _circuit_breaker_tripped and the locked increment).           *)
FailuresBounded == failures <= Threshold + Cardinality(Sessions) - 1

(* A gated tool runs only in the owner's session, and every execution has  *)
(* an approval of the owner of its own, given after the one before: tokens *)
(* are used once, across rounds, runs, expiries and restarts (policy.py,   *)
(* _check_temporary_approval; chat.py, handle_message).                    *)
GatedRunsAreConfirmed == unconfirmed = {}

(* A run passes its cap by one call at most, whatever the failover and the *)
(* rounds add up to: the gate looks at what was spent so far (loop.py,     *)
(* check_message_cost before every call).                                  *)
RunOverrunsByOneCall ==
    \A s \in Sessions : \E c \in CallCosts \union {0} : spent[s] <= MessageCap + c

(* Runs between the lock of `record` and its statement.                    *)
InFlight == {s \in Sessions : pc[s] = "persist"}
SumOver(f, S) == MapThenSumSet(LAMBDA s : f[s], S)

(* The recorded day stays under its cap, and the row in the database lacks *)
(* exactly what threads between the lock and the statement still carry:    *)
(* concurrent runs lose nothing and a restart counts nothing twice         *)
(* (cost.py, record).                                                      *)
DailyBooksAgree ==
    /\ daily <= DailyCap
    /\ daily = stored + SumOver(spent, InFlight)

(* A tripped breaker lets runs in again, although every refused run in     *)
(* between finds it open (loop.py:51, "transient API outages don't         *)
(* permanently disable the bot").                                          *)
BreakerRecovers == failures >= Threshold ~> failures < Threshold

(* What the steps keep, and the proofs use.  A run that may still fail     *)
(* was counted by the breaker's check; a live token belongs to the owner's *)
(* session and stands for a yes no run has used; a run that has fallen     *)
(* down the chain had passed the gate; a run that goes on has rounds left. *)
AtRisk == {s \in Sessions : pc[s] \in {"call", "tools"}}
BreakerInv == failures + Cardinality(AtRisk) <= Threshold + Cardinality(Sessions) - 1
TokenInv ==
    \A s \in Sessions, t \in Tools : tokens[s][t] <= TTL => s = Owner /\ t \in confirmed
BudgetInv ==
    \A s \in Sessions : pc[s] = "call" /\ rung[s] # model[s] => spent[s] <= MessageCap
RoundInv ==
    \A s \in Sessions : pc[s] \in {"idle", "call", "tools"} => iteration[s] < MaxIterations
IndInv ==
    /\ TypeOK /\ RoundInv
    /\ BreakerInv
    /\ TokenInv /\ GatedRunsAreConfirmed
    /\ BudgetInv /\ RunOverrunsByOneCall

==============================================================================
