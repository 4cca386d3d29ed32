------------------------------ MODULE AuthHealth ------------------------------
(***************************************************************************)
(* auth_health: every quarter of an hour, try the refresh token of every   *)
(* Google account and tell the owner of those that stopped or started to   *)
(* work.  What is known lives in the process; a row per account outlives   *)
(* it, for /status.  The owner mends a token by minting a new one, which   *)
(* the process reads when it is deployed again.                            *)
(***************************************************************************)
EXTENDS FiniteSets

CONSTANTS
    Accounts,
    AuthFaults  \* "network", "persist", "send", "refused", "flicker"

VARIABLES
    working,  \* accounts whose token, as the process holds it, works
    minted,   \* accounts with a new token that waits for a deployment
    apc,      \* where the run is
    probing,  \* accounts of the run still to try
    failed,   \* newly_failed
    mended,   \* newly_recovered
    health,   \* _health
    row,      \* auth_health_status
    told,     \* told[a]: what the owner last read of a
    unheard,  \* (ghost) accounts whose last news was lost
    forgot    \* (ghost) accounts a restart forgot after the owner read of them

authRun == <<apc, probing, failed, mended>>
authWorld == <<working, minted>>
authSeen == <<told, unheard, forgot>>
authVars == <<authWorld, authRun, health, row, authSeen>>
AuthFault(f) == f \in AuthFaults

AuthIdle ==
    /\ working = Accounts /\ minted = {}
    /\ apc = "idle" /\ probing = {} /\ failed = {} /\ mended = {}
    /\ health = [a \in Accounts |-> "unknown"] /\ row = [a \in Accounts |-> "unknown"]
    /\ told = [a \in Accounts |-> "nothing"] /\ unheard = {} /\ forgot = {}

-----------------------------------------------------------------------------
(* Google revokes a token; a refusal may also pass by itself.              *)
Revoke(a) ==
    /\ a \in working /\ working' = working \ {a}
    /\ UNCHANGED <<minted, authRun, health, row, authSeen>>

Flicker(a) ==
    /\ AuthFault("flicker") /\ a \notin working /\ working' = working \union {a}
    /\ UNCHANGED <<minted, authRun, health, row, authSeen>>

(* cosinabox auth refresh: the token is written, then a deployment queued, *)
(* which may fail.                                                         *)
Mint(a) ==
    /\ minted' = minted \union {a}
    /\ UNCHANGED <<working, authRun, health, row, authSeen>>

(* A deployment, or a crash: a new process, which reads the tokens.        *)
Restart ==
    /\ working' = working \union minted /\ minted' = {}
    /\ apc' = "idle" /\ probing' = {} /\ failed' = {} /\ mended' = {}
    /\ health' = [a \in Accounts |-> "unknown"]
    /\ forgot' = {a \in Accounts : told[a] # "nothing"}
    /\ unheard' = unheard \union failed \union mended
    /\ UNCHANGED <<row, told>>

TickStarts ==
    /\ apc = "idle" /\ apc' = "probe" /\ probing' = Accounts
    /\ UNCHANGED <<authWorld, failed, mended, health, row, authSeen>>

(* (mutant) Only what was known to work can fail.                          *)
NewlyFailedIfKnown(a) == health[a] = "ok"

NewlyFailed(a) == health[a] # "failed"
NewlyMended(a) == health[a] = "failed"

(* Any other exception than a refusal leaves what is known of the account; *)
(* a row that cannot be written keeps its last state.                      *)
Probe(a) ==
    /\ apc = "probe" /\ a \in probing /\ probing' = probing \ {a}
    /\ \/ AuthFault("network") /\ UNCHANGED <<failed, mended, health, row>>
       \/ LET now == IF a \in working THEN "ok" ELSE "failed" IN
          /\ health' = [health EXCEPT ![a] = now]
          /\ failed' = IF now = "failed" /\ NewlyFailed(a) THEN failed \union {a} ELSE failed
          /\ mended' = IF now = "ok" /\ NewlyMended(a) THEN mended \union {a} ELSE mended
          /\ \/ row' = [row EXCEPT ![a] = now]
             \/ AuthFault("persist") /\ UNCHANGED row
    /\ UNCHANGED <<authWorld, apc, authSeen>>

(* The wrapper of the job sends its result: it swallows a failed send and  *)
(* does not notice a refused one.                                          *)
TellOwner ==
    /\ apc = "probe" /\ probing = {}
    /\ apc' = "idle" /\ failed' = {} /\ mended' = {}
    /\ \/ /\ told' = [a \in Accounts |-> IF a \in failed THEN "failed"
                                         ELSE IF a \in mended THEN "restored" ELSE told[a]]
          /\ unheard' = (unheard \ failed) \ mended
       \/ /\ AuthFault("send") \/ AuthFault("refused")
          /\ unheard' = unheard \union failed \union mended
          /\ UNCHANGED told
    /\ forgot' = (forgot \ failed) \ mended
    /\ UNCHANGED <<authWorld, probing, health, row>>

AuthNext ==
    \/ \E a \in Accounts : Revoke(a) \/ Flicker(a) \/ Mint(a) \/ Probe(a)
    \/ Restart \/ TickStarts \/ TellOwner

-----------------------------------------------------------------------------
States == {"unknown", "ok", "failed"}
AuthTypeOK ==
    /\ working \subseteq Accounts /\ minted \subseteq Accounts
    /\ apc \in {"idle", "probe"} /\ probing \subseteq Accounts
    /\ failed \subseteq Accounts /\ mended \subseteq Accounts
    /\ health \in [Accounts -> States] /\ row \in [Accounts -> States]
    /\ told \in [Accounts -> {"nothing", "failed", "restored"}]
    /\ unheard \subseteq Accounts /\ forgot \subseteq Accounts

(* Between runs the owner's picture is the watcher's: an account known to  *)
(* fail was reported, and one known to work was reported as restored if it *)
(* was ever reported, unless that news was lost or a restart forgot that   *)
(* there was something to restore.                                         *)
OwnerKnows ==
    apc = "idle" => \A a \in Accounts \ unheard :
        /\ health[a] = "failed" => told[a] = "failed"
        /\ health[a] = "ok" /\ told[a] = "failed" => a \in forgot

-----------------------------------------------------------------------------
(* What makes the property inductive (ServicesProofs).                     *)

(* The lists of a run: of accounts that were probed in it, each once.      *)
ListsInv ==
    /\ apc = "idle" => probing = {} /\ failed = {} /\ mended = {}
    /\ failed \intersect probing = {} /\ mended \intersect probing = {}
    /\ failed \intersect mended = {}
    /\ \A a \in failed : health[a] = "failed"
    /\ \A a \in mended : health[a] = "ok"

(* What OwnerKnows says of one account; of one that was not probed since   *)
(* a restart, too.                                                         *)
Known(a) ==
    /\ health[a] = "failed" => told[a] = "failed"
    /\ health[a] # "failed" /\ told[a] = "failed" => a \in forgot

KnownInv == \A a \in Accounts : a \in unheard \union failed \union mended \/ Known(a)

AuthInv == AuthTypeOK /\ ListsInv /\ KnownInv
==============================================================================
