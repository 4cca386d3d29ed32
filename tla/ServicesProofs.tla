---------------------------- MODULE ServicesProofs -----------------------------
(***************************************************************************)
(* Proofs about the services that share nothing, the consult server's      *)
(* limiter, the auth watcher, the verifier and the interview, each for any *)
(* values of its constants; and then about the services put together: what *)
(* each of them keeps by itself, it keeps in the whole, whose tables hold  *)
(* the rows of all.  A job's statements touch its own fields of the        *)
(* record, and a crash gives back what is on disk, where the fields of the *)
(* others are as they were created.                                        *)
(***************************************************************************)
EXTENDS AllServices, SlotsProofs, PollingProofs

-----------------------------------------------------------------------------
(***************************************************************************)
(* What the limiter of the consult server promises, for any callers, limit *)
(* and window.  The argument is about windows: each has at most Limit      *)
(* calls, so the call Limit places later belongs to a later window, which  *)
(* starts at least a window's time after; two such steps separate a call   *)
(* from the one 2 * Limit places later by more than a window.              *)
(***************************************************************************)

LEMMA Constants == /\ Limit \in Nat /\ Limit >= 1
                   /\ Window \in Nat /\ Window >= 1
                   /\ MaxCalls \in Nat /\ MaxTime \in Nat
  BY LimitAssumption, BoundAssumption

-----------------------------------------------------------------------------
(* The limiter at the moment it is asked.                                  *)
LEMMA Asked ==
  ASSUME ConsultTypeOK, WindowInv
  PROVE  /\ CountNow \in 0..Limit /\ CountNow <= admitted
         /\ StartNow \in 0..now /\ windowStart <= StartNow
         /\ now < StartNow + Window
         /\ Elapsed => CountNow = 0 /\ StartNow = now /\ windowStart + Window <= now
         /\ ~Elapsed => CountNow = count /\ StartNow = windowStart
  <1>1. /\ now \in Nat /\ windowStart \in 0..now /\ count \in 0..Limit
        /\ admitted \in Nat /\ count <= admitted
    BY Constants DEF ConsultTypeOK, WindowInv
  <1>2. CASE Elapsed
    BY <1>1, <1>2, Constants DEF Elapsed, CountNow, StartNow
  <1>3. CASE ~Elapsed
    BY <1>1, <1>3, Constants DEF Elapsed, CountNow, StartNow
  <1> QED BY <1>2, <1>3

(* How the windows of the admitted calls lie, seen from the window the     *)
(* limiter works in now, whether it has noticed that window or not.        *)
Windows(n, inWindow, start) ==
  \A i \in 1..n :
    /\ since[i] <= at[i] /\ at[i] < since[i] + Window /\ at[i] <= now
    /\ since[i] <= start
    /\ i <= n - inWindow => since[i] + Window <= start
    /\ i > n - inWindow => since[i] = start
    /\ i + Limit <= n => since[i] + Window <= since[i + Limit]

LEMMA WindowsNow ==
  ASSUME ConsultTypeOK, WindowInv
  PROVE  Windows(admitted, CountNow, StartNow)
  <1>1. /\ now \in Nat /\ windowStart \in Nat /\ count \in Nat /\ admitted \in Nat
        /\ \A i \in 1..admitted : since[i] \in Nat /\ at[i] \in Nat
    BY Constants DEF ConsultTypeOK
  <1>2. CASE Elapsed
    <2>1. CountNow = 0 /\ StartNow = now /\ windowStart + Window <= now
      BY <1>2, Asked
    <2> SUFFICES ASSUME NEW i \in 1..admitted
                 PROVE  /\ since[i] <= at[i] /\ at[i] < since[i] + Window /\ at[i] <= now
                        /\ since[i] <= now /\ since[i] + Window <= now
                        /\ i + Limit <= admitted => since[i] + Window <= since[i + Limit]
      BY <1>1, <2>1 DEF Windows
    <2>2. /\ since[i] <= at[i] /\ at[i] < since[i] + Window /\ at[i] <= now
          /\ since[i] <= windowStart
          /\ i + Limit <= admitted => since[i] + Window <= since[i + Limit]
      BY DEF WindowInv
    <2>3. since[i] \in Nat
      BY <1>1
    <2> QED BY <1>1, <2>1, <2>2, <2>3, Constants
  <1>3. CASE ~Elapsed
    BY <1>3, Asked DEF WindowInv, Windows
  <1> QED BY <1>2, <1>3

-----------------------------------------------------------------------------
(* Admitting one more call, the case that matters.                         *)
LEMMA AdmitKeepsWindows ==
  ASSUME ConsultTypeOK, WindowInv, NEW c \in Callers, Admit(c)
  PROVE  WindowInv'
  <1>1. /\ now \in Nat /\ windowStart \in Nat /\ count \in Nat /\ admitted \in Nat
        /\ admitted < MaxCalls
        /\ at \in [1..MaxCalls -> Nat] /\ since \in [1..MaxCalls -> Nat]
    BY Constants DEF ConsultTypeOK, Admit
  <1>2. /\ CountNow \in Nat /\ CountNow < Limit /\ CountNow <= admitted
        /\ StartNow \in Nat /\ StartNow <= now /\ now < StartNow + Window
    BY Asked, <1>1, Constants DEF Admit, HasRoom
  <1>3. /\ now' = now /\ windowStart' = StartNow /\ count' = CountNow + 1
        /\ admitted' = admitted + 1
        /\ at' = [at EXCEPT ![admitted + 1] = now]
        /\ since' = [since EXCEPT ![admitted + 1] = StartNow]
    BY DEF Admit
  <1>4. /\ at'[admitted + 1] = now /\ since'[admitted + 1] = StartNow
        /\ \A i \in 1..admitted : at'[i] = at[i] /\ since'[i] = since[i]
    BY <1>1, <1>3, Constants
  <1>5. Windows(admitted, CountNow, StartNow)
    BY WindowsNow
  <1>6. ASSUME NEW i \in 1..admitted
        PROVE  /\ since'[i] <= at'[i] /\ at'[i] < since'[i] + Window /\ at'[i] <= now
               /\ since'[i] <= StartNow
               /\ i <= admitted - CountNow => since'[i] + Window <= StartNow
               /\ i > admitted - CountNow => since'[i] = StartNow
    BY <1>4, <1>5, <1>6 DEF Windows
  <1>7. ASSUME NEW i \in 1..admitted, i + Limit <= admitted + 1
        PROVE  since'[i] + Window <= since'[i + Limit]
    <2>1. CASE i + Limit <= admitted
      <3>1. i + Limit \in 1..admitted
        BY <1>1, <2>1, Constants
      <3> QED BY <1>4, <1>5, <2>1, <3>1 DEF Windows
    <2>2. CASE i + Limit = admitted + 1
      <3>1. i <= admitted - CountNow
        BY <1>1, <1>2, <2>2, Constants
      <3> QED BY <1>4, <1>6, <2>2, <3>1
    <2> QED BY <1>1, <1>7, <2>1, <2>2, Constants
  <1>8. count' <= admitted'
    BY <1>1, <1>2, <1>3
  <1>9. ASSUME NEW i \in 1..admitted'
        PROVE  /\ since'[i] <= at'[i] /\ at'[i] < since'[i] + Window /\ at'[i] <= now'
               /\ since'[i] <= windowStart'
               /\ i <= admitted' - count' => since'[i] + Window <= windowStart'
               /\ i > admitted' - count' => since'[i] = windowStart'
               /\ i + Limit <= admitted' => since'[i] + Window <= since'[i + Limit]
    <2>1. admitted' - count' = admitted - CountNow
      BY <1>1, <1>2, <1>3
    <2>2. CASE i \in 1..admitted
      <3>1. /\ since'[i] <= at'[i] /\ at'[i] < since'[i] + Window /\ at'[i] <= now'
            /\ since'[i] <= windowStart'
        BY <1>3, <1>6, <2>2
      <3>2. /\ i <= admitted' - count' => since'[i] + Window <= windowStart'
            /\ i > admitted' - count' => since'[i] = windowStart'
        BY <1>3, <1>6, <2>1, <2>2
      <3>3. i + Limit <= admitted' => since'[i] + Window <= since'[i + Limit]
        BY <1>3, <1>7, <2>2
      <3> QED BY <3>1, <3>2, <3>3
    <2>3. CASE i = admitted + 1
      <3>1. /\ since'[i] = StartNow /\ at'[i] = now
        BY <1>4, <2>3
      <3>2. ~(i <= admitted - CountNow) /\ ~(i + Limit <= admitted + 1)
        BY <1>1, <1>2, <2>3, Constants
      <3>3. /\ since'[i] <= at'[i] /\ at'[i] < since'[i] + Window /\ at'[i] <= now'
            /\ since'[i] <= windowStart' /\ since'[i] = windowStart'
        BY <1>1, <1>2, <1>3, <3>1
      <3>4. /\ i <= admitted' - count' => since'[i] + Window <= windowStart'
            /\ i + Limit <= admitted' => since'[i] + Window <= since'[i + Limit]
        BY <1>3, <2>1, <3>2
      <3> QED BY <3>3, <3>4
    <2> QED BY <1>1, <1>3, <2>2, <2>3
  <1> QED BY <1>8, <1>9 DEF WindowInv

(* A refusal changes nothing but the limiter's idea of its window.         *)
LEMMA RefuseKeepsWindows ==
  ASSUME ConsultTypeOK, WindowInv, NEW c \in Callers, Refuse(c)
  PROVE  WindowInv'
  <1>1. /\ now' = now /\ windowStart' = StartNow /\ count' = CountNow
        /\ admitted' = admitted /\ at' = at /\ since' = since
    BY DEF Refuse
  <1>2. Windows(admitted, CountNow, StartNow) /\ CountNow <= admitted
    BY WindowsNow, Asked
  <1> QED BY <1>1, <1>2 DEF Windows, WindowInv

-----------------------------------------------------------------------------
(* Every step keeps the windows.                                           *)
LEMMA WindowsKept ==
  ASSUME ConsultTypeOK, WindowInv, [ConsultNext]_consultVars
  PROVE  WindowInv'
  <1>1. CASE \E c \in Callers : Admit(c)
    BY <1>1, AdmitKeepsWindows
  <1>2. CASE \E c \in Callers : Refuse(c)
    BY <1>2, RefuseKeepsWindows
  <1>3. CASE \/ \E c \in Callers : Request(c) \/ Ask(c) \/ Record(c)
             \/ Midnight \/ UNCHANGED consultVars
    <2>1. UNCHANGED <<now, count, windowStart, admitted, at, since>>
      BY <1>3 DEF Request, Ask, Record, Midnight, consultVars, limiter, metrics, ghosts
    <2> QED BY <2>1 DEF WindowInv
  <1>4. CASE ConsultTick
    <2>1. now' = now + 1 /\ UNCHANGED <<count, windowStart, admitted, at, since>>
      BY <1>4 DEF ConsultTick, limiter
    <2>2. /\ now \in Nat /\ admitted \in Nat
          /\ \A i \in 1..admitted : at[i] \in Nat
      BY Constants DEF ConsultTypeOK
    <2>3. \A i \in 1..admitted : at[i] <= now => at[i] <= now'
      BY <2>1, <2>2
    <2> QED BY <2>1, <2>3 DEF WindowInv
  <1>5. CASE ConsultRestart
    <2>1. count' = 0 /\ admitted' = 0
      BY <1>5 DEF ConsultRestart
    <2> QED BY <2>1 DEF WindowInv
  <1> QED BY <1>1, <1>2, <1>3, <1>4, <1>5 DEF ConsultNext

LEMMA TypesKept ==
  ASSUME ConsultTypeOK, WindowInv, [ConsultNext]_consultVars
  PROVE  ConsultTypeOK'
  <1> USE Constants
  <1> DEFINE Clock == now \in Nat /\ windowStart \in 0..now /\ count \in 0..Limit
             Calls == call \in [Callers -> Open \union Results]
             Books == callsToday \in Nat /\ countedDay \in BOOLEAN
             Ghosts == /\ admitted \in 0..MaxCalls /\ refused \in BOOLEAN
                       /\ at \in [1..MaxCalls -> Nat] /\ since \in [1..MaxCalls -> Nat]
  <1>0. Clock /\ Calls /\ Books /\ Ghosts
    BY DEF ConsultTypeOK
  <1>a. CountNow \in 0..Limit /\ StartNow \in 0..now
    BY Asked
  <1>b. \A c \in Callers : \A state \in Open \union Results : Becomes(c, state) => Calls'
    BY <1>0 DEF Becomes
  <1>1. ASSUME NEW c \in Callers, Request(c) PROVE ConsultTypeOK'
    <2>1. Calls' BY <1>1, <1>b DEF Request, Open, Results
    <2>2. Clock' /\ Books' /\ Ghosts'
      BY <1>0, <1>1 DEF Request, limiter, metrics, ghosts
    <2> QED BY <2>1, <2>2 DEF ConsultTypeOK
  <1>2. ASSUME NEW c \in Callers, Admit(c) PROVE ConsultTypeOK'
    <2>1. Calls' BY <1>2, <1>b DEF Admit, Open
    <2>2. Clock'
      BY <1>0, <1>a, <1>2 DEF Admit, HasRoom
    <2>3. Books' BY <1>0, <1>2 DEF Admit, metrics
    <2>4. Ghosts'
      <3>1. /\ admitted' = admitted + 1 /\ admitted < MaxCalls /\ refused' = FALSE
            /\ at' = [at EXCEPT ![admitted + 1] = now]
            /\ since' = [since EXCEPT ![admitted + 1] = StartNow]
        BY <1>2 DEF Admit
      <3>2. now \in Nat /\ StartNow \in Nat
        BY <1>0, <1>a
      <3>3. at' \in [1..MaxCalls -> Nat] /\ since' \in [1..MaxCalls -> Nat]
        BY <1>0, <3>1, <3>2
      <3>4. admitted' \in 0..MaxCalls
        BY <1>0, <3>1
      <3> QED BY <3>1, <3>3, <3>4
    <2> QED BY <2>1, <2>2, <2>3, <2>4 DEF ConsultTypeOK
  <1>3. ASSUME NEW c \in Callers, Refuse(c) PROVE ConsultTypeOK'
    <2>1. Calls' BY <1>3, <1>b DEF Refuse, Results
    <2>2. Clock' BY <1>0, <1>a, <1>3 DEF Refuse
    <2>3. Books' /\ Ghosts' BY <1>0, <1>3 DEF Refuse, metrics
    <2> QED BY <2>1, <2>2, <2>3 DEF ConsultTypeOK
  <1>4. ASSUME NEW c \in Callers, Ask(c) PROVE ConsultTypeOK'
    <2>1. Calls' BY <1>4, <1>b DEF Ask, Open, Results
    <2>2. Clock' /\ Books' /\ Ghosts'
      BY <1>0, <1>4 DEF Ask, limiter, metrics, ghosts
    <2> QED BY <2>1, <2>2 DEF ConsultTypeOK
  <1>5. ASSUME NEW c \in Callers, Record(c) PROVE ConsultTypeOK'
    <2>1. Calls' BY <1>5, <1>b DEF Record, Results
    <2>2. Books' BY <1>0, <1>5 DEF Record, CallsSoFar
    <2>3. Clock' /\ Ghosts' BY <1>0, <1>5 DEF Record, limiter, ghosts
    <2> QED BY <2>1, <2>2, <2>3 DEF ConsultTypeOK
  <1>6. CASE ConsultTick
    <2>1. Clock' BY <1>0, <1>6 DEF ConsultTick, limiter
    <2>2. Calls' /\ Books' /\ Ghosts' BY <1>0, <1>6 DEF ConsultTick, metrics
    <2> QED BY <2>1, <2>2 DEF ConsultTypeOK
  <1>7. CASE Midnight
    BY <1>0, <1>7 DEF Midnight, limiter, ghosts, ConsultTypeOK
  <1>8. CASE ConsultRestart
    <2>1. Calls'
      <3>1. \A c \in Callers : call[c] \in Open \union Results
        BY <1>0
      <3>2. "crashed" \in Results
        BY DEF Results
      <3>3. call' = [c \in Callers |-> IF call[c] \in Open THEN "crashed" ELSE call[c]]
        BY <1>8 DEF ConsultRestart
      <3> QED BY <3>1, <3>2, <3>3
    <2>2. Clock' /\ Books'
      <3>1. /\ now' = now /\ count' = 0 /\ windowStart' = now
            /\ callsToday' = 0 /\ countedDay' = FALSE
        BY <1>8 DEF ConsultRestart
      <3>2. Clock'
        BY <1>0, <3>1
      <3>3. callsToday' \in Nat
        BY <3>1
      <3>4. countedDay' \in BOOLEAN
        BY <3>1, Zenon
      <3> QED BY <3>2, <3>3, <3>4
    <2>3. Ghosts'
      <3>1. /\ admitted' = 0 /\ refused' = FALSE
            /\ at' = [i \in 1..MaxCalls |-> 0] /\ since' = [i \in 1..MaxCalls |-> 0]
        BY <1>8 DEF ConsultRestart
      <3>2. at' \in [1..MaxCalls -> Nat] /\ since' \in [1..MaxCalls -> Nat]
        BY <3>1
      <3>3. admitted' \in 0..MaxCalls
        BY <3>1
      <3>4. refused' \in BOOLEAN
        BY <3>1, Zenon
      <3> QED BY <3>2, <3>3, <3>4
    <2> QED BY <2>1, <2>2, <2>3 DEF ConsultTypeOK
  <1>9. CASE UNCHANGED consultVars
    BY <1>0, <1>9 DEF consultVars, limiter, metrics, ghosts, ConsultTypeOK
  <1> QED BY <1>1, <1>2, <1>3, <1>4, <1>5, <1>6, <1>7, <1>8, <1>9 DEF ConsultNext

(* A refusal finds the limit reached by calls of the window it is in.      *)
LEMMA RefusalsKept ==
  ASSUME ConsultTypeOK, WindowInv, RefusalIsEarned, [ConsultNext]_consultVars
  PROVE  RefusalIsEarned'
  <1>1. CASE \E c \in Callers : Refuse(c)
    <2>1. /\ now' = now /\ admitted' = admitted /\ at' = at /\ ~HasRoom
      BY <1>1 DEF Refuse
    <2>2. CountNow = Limit /\ CountNow <= admitted /\ now < StartNow + Window
          /\ StartNow \in Nat
      BY <2>1, Asked, Constants DEF HasRoom, ConsultTypeOK
    <2> DEFINE i == admitted - Limit + 1
    <2>3. admitted \in Nat /\ now \in Nat
      BY Constants DEF ConsultTypeOK
    <2>4. i \in 1..admitted /\ i > admitted - CountNow
      BY <2>2, <2>3, Constants
    <2>5. since[i] = StartNow /\ since[i] <= at[i]
      BY <2>4, WindowsNow DEF Windows
    <2>6. at[i] \in Nat
      BY <2>4, <2>3, Constants DEF ConsultTypeOK
    <2>7. now - at[i] < Window /\ admitted >= Limit
      BY <2>2, <2>3, <2>5, <2>6, Constants
    <2> QED BY <2>1, <2>7 DEF RefusalIsEarned
  <1>2. CASE (\E c \in Callers : Admit(c)) \/ ConsultTick \/ ConsultRestart
    <2>1. refused' = FALSE
      BY <1>2 DEF Admit, ConsultTick, ConsultRestart
    <2> QED BY <2>1 DEF RefusalIsEarned
  <1>3. CASE \/ \E c \in Callers : Request(c) \/ Ask(c) \/ Record(c)
             \/ Midnight \/ UNCHANGED consultVars
    <2>1. UNCHANGED <<now, admitted, at, refused>>
      BY <1>3 DEF Request, Ask, Record, Midnight, consultVars, ghosts
    <2> QED BY <2>1 DEF RefusalIsEarned
  <1> QED BY <1>1, <1>2, <1>3 DEF ConsultNext

-----------------------------------------------------------------------------
(* Two windows' worth of calls spans more than a window.                   *)
LEMMA TwoWindowsApart ==
  ASSUME ConsultTypeOK, WindowInv
  PROVE  TwiceTheLimit
  <1> SUFFICES ASSUME NEW i \in 1..admitted, i + 2 * Limit <= admitted
               PROVE  at[i + 2 * Limit] - at[i] > Window
    BY DEF TwiceTheLimit
  <1> DEFINE j == i + Limit
             k == i + 2 * Limit
  <1>1. /\ admitted \in Nat /\ i \in 1..admitted /\ j \in 1..admitted /\ k \in 1..admitted
        /\ k = j + Limit
    BY Constants DEF ConsultTypeOK
  <1>2. /\ since[i] + Window <= since[j] /\ at[i] < since[i] + Window
    BY <1>1 DEF WindowInv
  <1>3. since[j] + Window <= since[k]
    BY <1>1 DEF WindowInv
  <1>4. since[k] <= at[k]
    BY <1>1 DEF WindowInv
  <1>5. /\ at[i] \in Nat /\ at[k] \in Nat /\ since[i] \in Nat /\ since[j] \in Nat
        /\ since[k] \in Nat
    BY <1>1, Constants DEF ConsultTypeOK
  <1> HIDE DEF j, k
  <1>6. at[k] - at[i] > Window
    BY <1>2, <1>3, <1>4, <1>5, Constants
  <1> QED BY <1>6 DEF k

LEMMA LimiterInvInit == ConsultIdle => LimiterInv
  <1> SUFFICES ASSUME ConsultIdle PROVE LimiterInv
    OBVIOUS
  <1> USE DEF ConsultIdle
  <1>1. ConsultTypeOK
    <2>1. call \in [Callers -> Open \union Results]
      BY DEF Results
    <2>2. at \in [1..MaxCalls -> Nat] /\ since \in [1..MaxCalls -> Nat]
      OBVIOUS
    <2>3. /\ now \in Nat /\ windowStart \in 0..now /\ count \in 0..Limit
          /\ admitted \in 0..MaxCalls
      BY Constants
    <2>4. callsToday \in Nat /\ countedDay \in BOOLEAN /\ refused \in BOOLEAN
      OBVIOUS
    <2> HIDE DEF ConsultIdle
    <2> QED BY <2>1, <2>2, <2>3, <2>4 DEF ConsultTypeOK
  <1>2. WindowInv /\ RefusalIsEarned
    BY DEF WindowInv, RefusalIsEarned
  <1> QED BY <1>1, <1>2 DEF LimiterInv

LEMMA LimiterInvStep == LimiterInv /\ [ConsultNext]_consultVars => LimiterInv'
  BY TypesKept, WindowsKept, RefusalsKept DEF LimiterInv

(* The limiter's variables keep their types and windows, and what follows  *)
(* from them, in every behaviour (consult/rate_limit.py).                  *)
THEOREM LimiterInvHolds == ConsultSpec => []LimiterInv
  BY LimiterInvInit, LimiterInvStep, PTL DEF ConsultSpec

(* No window's time ever holds more than twice the limit of calls, though  *)
(* the window restarts at a call and does not slide.                       *)
THEOREM AtMostTwice == ConsultSpec => []TwiceTheLimit
  <1>1. LimiterInv => TwiceTheLimit
    BY TwoWindowsApart DEF LimiterInv
  <1> QED BY <1>1, LimiterInvHolds, PTL

(* Nobody is refused unless the limit was reached within a window's time.  *)
THEOREM RefusedForCause == ConsultSpec => []RefusalIsEarned
  <1>1. LimiterInv => RefusalIsEarned
    BY DEF LimiterInv
  <1> QED BY <1>1, LimiterInvHolds, PTL

-----------------------------------------------------------------------------
(***************************************************************************)
(* What the owner knows of the accounts, for any number of them.  Between  *)
(* two probes of an account the picture of the watcher and the owner's can *)
(* differ in one way only: the news is in the lists of the run, to be told *)
(* when it ends.                                                           *)
(***************************************************************************)

AuthSpec == AuthIdle /\ [][AuthNext]_authVars

-----------------------------------------------------------------------------
LEMMA AuthInvInit == AuthIdle => AuthInv
  BY DEF AuthIdle, AuthInv, AuthTypeOK, ListsInv, KnownInv, Known, States

LEMMA AuthInvStep == AuthInv /\ [AuthNext]_authVars => AuthInv'
  <1> SUFFICES ASSUME AuthInv, [AuthNext]_authVars PROVE AuthInv'
    OBVIOUS
  <1> USE DEF AuthInv, AuthTypeOK, States
  <1>1. ASSUME NEW a \in Accounts, Revoke(a) \/ Flicker(a) \/ Mint(a) PROVE AuthInv'
    BY <1>1 DEF Revoke, Flicker, Mint, authRun, authSeen, ListsInv, KnownInv, Known
  <1>2. ASSUME NEW a \in Accounts, Probe(a) PROVE AuthInv'
    <2> DEFINE seen == IF a \in working THEN "ok" ELSE "failed"
    <2>1. /\ a \in probing /\ probing' = probing \ {a} /\ apc = "probe"
          /\ UNCHANGED <<working, minted, apc, told, unheard, forgot>>
      BY <1>2 DEF Probe, authWorld, authSeen
    <2>2. a \notin failed /\ a \notin mended
      BY <2>1 DEF ListsInv
    <2>3. CASE UNCHANGED <<failed, mended, health, row>>
      BY <2>1, <2>3 DEF ListsInv, KnownInv, Known
    <2>4. CASE /\ health' = [health EXCEPT ![a] = seen]
               /\ failed' = IF seen = "failed" /\ NewlyFailed(a) THEN failed \union {a} ELSE failed
               /\ mended' = IF seen = "ok" /\ NewlyMended(a) THEN mended \union {a} ELSE mended
               /\ row' = [row EXCEPT ![a] = seen] \/ UNCHANGED row
      <3>1. AuthTypeOK'
        BY <2>1, <2>4
      <3>2. health'[a] = seen /\ \A b \in Accounts \ {a} : health'[b] = health[b]
        BY <2>4
      <3>3. ListsInv'
        BY <2>1, <2>2, <2>4, <3>2 DEF ListsInv, NewlyFailed, NewlyMended
      <3>4. KnownInv'
        BY <2>1, <2>2, <2>4, <3>2 DEF KnownInv, Known, NewlyFailed, NewlyMended
      <3> QED BY <3>1, <3>3, <3>4
    <2> QED BY <1>2, <2>3, <2>4 DEF Probe
  <1>3. CASE Restart
    BY <1>3 DEF Restart, ListsInv, KnownInv, Known
  <1>4. CASE TickStarts
    BY <1>4 DEF TickStarts, authWorld, authSeen, ListsInv, KnownInv, Known
  <1>5. CASE TellOwner
    <2>1. /\ apc' = "idle" /\ failed' = {} /\ mended' = {} /\ probing = {}
          /\ forgot' = (forgot \ failed) \ mended
          /\ UNCHANGED <<working, minted, probing, health, row>>
      BY <1>5 DEF TellOwner, authWorld
    <2>2. AuthTypeOK' /\ ListsInv'
      BY <1>5, <2>1 DEF TellOwner, ListsInv
    <2>3. ASSUME NEW a \in Accounts, a \notin unheard' PROVE Known(a)'
      <3>1. CASE a \in failed \union mended
        BY <1>5, <2>1, <2>3, <3>1 DEF TellOwner, ListsInv, Known
      <3>2. CASE a \notin failed \union mended
        BY <1>5, <2>1, <2>3, <3>2 DEF TellOwner, KnownInv, Known
      <3> QED BY <3>1, <3>2
    <2> QED BY <2>2, <2>3 DEF KnownInv
  <1>6. CASE UNCHANGED authVars
    BY <1>6 DEF authVars, authWorld, authRun, authSeen, ListsInv, KnownInv, Known
  <1> QED BY <1>1, <1>2, <1>3, <1>4, <1>5, <1>6 DEF AuthNext

(* The whole inductive invariant of the auth watcher (auth_health.py).     *)
THEOREM AuthInvHolds == AuthSpec => []AuthInv
  BY AuthInvInit, AuthInvStep, PTL DEF AuthSpec

LEMMA AuthInvKnows == AuthInv => OwnerKnows
  BY DEF AuthInv, ListsInv, KnownInv, Known, OwnerKnows

(* The owner's picture of the accounts is the watcher's, but for news that *)
(* was lost and what a restart forgot (auth_health.py:101), for any number *)
(* of accounts and any faults.                                             *)
THEOREM OwnerIsTold == AuthSpec => []OwnerKnows
  BY AuthInvKnows, AuthInvHolds, PTL

-----------------------------------------------------------------------------
(***************************************************************************)
(* What a briefing is told of the open commitments, for any number of them *)
(* and any size of the pool.  A line is written either when the thread of  *)
(* its item is done, and what it found does not change from then on, or    *)
(* when the wait for it has ended, and then it claims nothing.             *)
(***************************************************************************)

VerifySpec == VerifyIdle /\ [][VerifyNext]_verifyVars

-----------------------------------------------------------------------------
LEMMA VerifyInvInit == VerifyIdle => VerifyInv
  BY DEF VerifyIdle, VerifyInv, VerifyTypeOK, ThreadInv, LineInv, LeavingInv, Verdicts

LEMMA VerdictIsOne ==
  ASSUME NEW mail, NEW files \in 0 .. 2
  PROVE  VerdictFor(mail, files) \in Verdicts
  BY DEF VerdictFor, Verdicts

(* A step of the thread of i, which leaves the job alone.                  *)
LEMMA ThreadStep ==
  ASSUME VerifyInv, NEW i \in ToVerify, SearchItem(i) \/ SearchRaises(i) \/ RecordFound(i)
  PROVE  VerifyInv'
  <1> USE DEF VerifyInv, VerifyTypeOK
  <1>1. /\ UNCHANGED <<vpc, report, late>>
        /\ work[i] # "done"
        /\ \A j \in ToVerify \ {i} :
              work'[j] = work[j] /\ found'[j] = found[j] /\ lastVerdict'[j] = lastVerdict[j]
    BY DEF SearchItem, SearchRaises, RecordFound
  <1>2. VerifyTypeOK' /\ ThreadInv'
    <2>1. CASE SearchItem(i)
      BY <2>1, VerdictIsOne DEF SearchItem, ThreadInv, Verdicts
    <2>2. CASE SearchRaises(i)
      BY <2>2 DEF SearchRaises, ThreadInv, Verdicts
    <2>3. CASE RecordFound(i)
      BY <2>3 DEF RecordFound, ThreadInv, Verdicts
    <2> QED BY <2>1, <2>2, <2>3
  <1>3. LineInv' /\ LeavingInv'
    BY <1>1 DEF LineInv, LeavingInv, Answer
  <1> QED BY <1>2, <1>3

(* The line of the item waited for is written, the last one of all or not. *)
LEMMA LineWritten ==
  ASSUME VerifyInv, NEW i \in ToVerify, Awaited(i), NEW verdict \in Verdicts, Report(i, verdict),
         UNCHANGED <<work, found, lastVerdict>>, late \subseteq late', late' \subseteq ToVerify,
         \/ i \in late' /\ verdict = "NO_EVIDENCE"
         \/ work[i] = "done" /\ verdict = Answer(i)
  PROVE  VerifyInv'
  <1> USE DEF VerifyInv, VerifyTypeOK
  <1>1. VerifyTypeOK'
    BY DEF Report, Verdicts
  <1>2. ThreadInv'
    BY DEF ThreadInv
  <1>3. report'[i] = verdict /\ \A j \in ToVerify \ {i} : report'[j] = report[j]
    BY DEF Report
  <1>4. LineInv'
    BY <1>3 DEF LineInv, Answer
  <1>5. ASSUME vpc' \in {"leaving", "told"}, NEW j \in ToVerify PROVE report'[j] # "none"
    <2>1. i = OpenItems
      BY <1>5 DEF Report
    <2>2. j = i \/ j \in 1 .. i - 1
      BY <2>1 DEF ToVerify
    <2>3. verdict # "none"
      BY DEF Verdicts
    <2> QED BY <1>3, <2>2, <2>3 DEF Awaited
  <1> QED BY <1>1, <1>2, <1>4, <1>5 DEF LeavingInv

LEMMA VerifyInvStep == VerifyInv /\ [VerifyNext]_verifyVars => VerifyInv'
  <1> SUFFICES ASSUME VerifyInv, [VerifyNext]_verifyVars PROVE VerifyInv'
    OBVIOUS
  <1> USE DEF VerifyInv, VerifyTypeOK
  <1>1. CASE StartVerifying
    BY <1>1 DEF StartVerifying, ThreadInv, LineInv, LeavingInv, Answer
  <1>2. ASSUME NEW i \in ToVerify, TakeItem(i) PROVE VerifyInv'
    BY <1>2 DEF TakeItem, ThreadInv, LineInv, LeavingInv, Answer
  <1>3. ASSUME NEW i \in ToVerify, SearchItem(i) \/ SearchRaises(i) \/ RecordFound(i)
        PROVE  VerifyInv'
    BY <1>3, ThreadStep
  <1>4. ASSUME NEW i \in ToVerify, TakeAnswer(i) PROVE VerifyInv'
    <2>1. Answer(i) \in Verdicts
      BY <1>4 DEF TakeAnswer, Answer, ThreadInv, Verdicts
    <2> QED BY <1>4, <2>1, LineWritten DEF TakeAnswer
  <1>5. ASSUME NEW i \in ToVerify, GiveUp(i) PROVE VerifyInv'
    <2>1. "NO_EVIDENCE" \in Verdicts
      BY DEF Verdicts
    <2> QED BY <1>5, <2>1, LineWritten DEF GiveUp
  <1>6. CASE LeavePool
    BY <1>6 DEF LeavePool, ThreadInv, LineInv, LeavingInv, Answer
  <1>7. CASE UNCHANGED verifyVars
    BY <1>7 DEF verifyVars, ThreadInv, LineInv, LeavingInv, Answer
  <1> QED BY <1>1, <1>2, <1>3, <1>4, <1>5, <1>6, <1>7 DEF VerifyNext

(* The whole inductive invariant of the verifier (auto_resolve.py).        *)
THEOREM VerifyInvHolds == VerifySpec => []VerifyInv
  BY VerifyInvInit, VerifyInvStep, PTL DEF VerifySpec

LEMMA VerifyInvTells == VerifyInv => EvidenceIsTold
  <1> SUFFICES ASSUME VerifyInv, vpc = "told", NEW i \in ToVerify
               PROVE  /\ report[i] \in Verdicts
                      /\ report[i] # "NO_EVIDENCE" => found[i] = report[i]
                      /\ report[i] = "NO_EVIDENCE" =>
                            i \in late \/ found[i] \in {"NO_EVIDENCE", "raised"}
                      /\ lastVerdict[i] \in {"none", found[i]}
    BY DEF EvidenceIsTold
  <1>1. report[i] # "none" /\ report[i] \in Verdicts
    BY DEF VerifyInv, VerifyTypeOK, LeavingInv, Verdicts
  <1>2. \/ i \in late /\ report[i] = "NO_EVIDENCE"
        \/ work[i] = "done" /\ report[i] = Answer(i)
    BY <1>1 DEF VerifyInv, LineInv
  <1>3. lastVerdict[i] \in {"none", found[i]}
    BY DEF VerifyInv, ThreadInv
  <1> QED BY <1>1, <1>2, <1>3 DEF Answer

(* A briefing has a line for every open commitment, with the evidence of   *)
(* its own search or none (auto_resolve.py:344), for any number of items,  *)
(* any pool and whatever comes late.                                       *)
THEOREM EvidenceTold == VerifySpec => []EvidenceIsTold
  BY VerifyInvTells, VerifyInvHolds, PTL

-----------------------------------------------------------------------------
(***************************************************************************)
(* The interview.  Only a process whose answer is in the files moves the   *)
(* progress, by the one step it answered; what a later beginning at the    *)
(* first step takes out of the files lies behind no progress.              *)
(***************************************************************************)
InterviewSpec == InterviewIdle /\ [][InterviewNext]_interviewVars

LEMMA StepNames ==
  /\ Len(Steps) = 10 /\ DOMAIN Steps = 1..10
  /\ \A i, j \in 1..10 : Steps[i] = Steps[j] => i = j
  /\ \A i \in 1..10 : Steps[i] # "none"
  BY DEF Steps

LEMMA InterviewInvInit == InterviewIdle => InterviewInv
  BY AppendsAssumption, StepNames
     DEF InterviewIdle, InterviewInv, InterviewTypeOK, AnswerWritten, NothingSkipped, Resumed, NoProgress

LEMMA InterviewInvStep == InterviewInv /\ [InterviewNext]_interviewVars => InterviewInv'
  <1> SUFFICES ASSUME InterviewInv, [InterviewNext]_interviewVars PROVE InterviewInv'
    OBVIOUS
  <1> USE AppendsAssumption, StepNames
      DEF InterviewInv, InterviewTypeOK, AnswerWritten, NothingSkipped, Resumed, NoProgress, Complete
  <1>1. CASE StartInterview
    BY <1>1 DEF StartInterview
  <1>2. CASE ApplyAnswer
    <2> DEFINE step == Steps[Resumed + 1]
    <2>1. /\ asking = "none" /\ Resumed \in 0..9 /\ asking' = step /\ sections' = Written(step)
          /\ progress' = progress /\ Resumed' = Resumed
          /\ step = "stakeholders" => appended < MaxAppends
          /\ appended' = IF step = "stakeholders" THEN appended + 1 ELSE appended
      BY <1>2 DEF ApplyAnswer
    <2>2. InterviewTypeOK'
      BY <2>1 DEF Written, Steps, Silent
    <2>3. AnswerWritten'
      BY <2>1 DEF Written
    <2>4. ASSUME NEW k \in 1..Len(Steps), k <= Resumed, Steps[k] \notin Silent \union {"stakeholders"}
          PROVE  Steps[k] \in Written(step)
      <3>1. Steps[k] \in sections
        BY <2>4
      <3>2. step # "identity"
        BY <2>1, <2>4 DEF Steps
      <3> QED BY <3>1, <3>2 DEF Written
    <2> QED BY <2>1, <2>2, <2>3, <2>4
  <1>3. CASE ApplyRaises
    BY <1>3 DEF ApplyRaises, interviewVars
  <1>4. CASE StoreProgress
    BY <1>4 DEF StoreProgress
  <1>5. CASE InterviewCrash
    BY <1>5 DEF InterviewCrash
  <1>6. CASE UNCHANGED interviewVars
    BY <1>6 DEF interviewVars
  <1> QED BY <1>1, <1>2, <1>3, <1>4, <1>5, <1>6 DEF InterviewNext

(* The interview never gets past a step whose section is not answered      *)
(* (interview/state_machine.py), for any number of processes that died or  *)
(* began again.                                                            *)
THEOREM InterviewIsWhole == InterviewSpec => []NothingSkipped
  <1>1. InterviewInv => NothingSkipped
    BY DEF InterviewInv
  <1> QED BY <1>1, InterviewInvInit, InterviewInvStep, PTL DEF InterviewSpec

-----------------------------------------------------------------------------
(* The services together.                                                  *)

(* Every field but those of F is as it was, on one of the two.             *)
KeepsOthers(F) ==
  \A t2 \in {conn', disk'} : \E t \in {conn, disk} :
     \A f \in DOMAIN t \ F : f \in DOMAIN t2 /\ t2[f] = t[f]

LEMMA OthersAtRest ==
  ASSUME NEW F, NEW rows, KeepsOthers(F), AtRest(rows), DOMAIN rows \intersect F = {}
  PROVE  AtRest(rows)'
  BY DEF KeepsOthers, AtRest

LEMMA TablesUnchanged == ASSUME UNCHANGED tables, NEW F PROVE KeepsOthers(F)
  BY DEF tables, KeepsOthers

LEMMA ReopenKeeps == ASSUME Reopen \/ OthersCommit, NEW F PROVE KeepsOthers(F)
  BY DEF Reopen, OthersCommit, KeepsOthers

(* A statement on one field, on the connection or on both.                 *)
LEMMA StatementKeeps ==
  ASSUME NEW F, NEW f \in F, NEW v,
         LET u == [conn EXCEPT ![f] = v] IN Write(u) \/ WriteAndCommit(u)
  PROVE  KeepsOthers(F)
  BY DEF Write, WriteAndCommit, KeepsOthers

LEMMA MailKeepsOthers == ASSUME MailNext PROVE KeepsOthers({"since", "marked"})
  <1>1. CASE \/ \E from \in Senders : Arrive(from)
             \/ CheckStarts \/ Search \/ ReadClock \/ SkipMarked \/ SendAlert \/ CheckFails
    BY <1>1, TablesUnchanged
       DEF Arrive, CheckStarts, Search, ReadClock, SkipMarked, SendAlert, CheckFails, tables
  <1>2. CASE MarkNew
    BY <1>2, StatementKeeps DEF MarkNew
  <1>3. CASE Advance
    BY <1>3, StatementKeeps DEF Advance
  <1>4. CASE Prune
    BY <1>4, StatementKeeps DEF Prune
  <1>5. CASE MailOthersCommit \/ MailCrash
    BY <1>5, ReopenKeeps DEF MailOthersCommit, MailCrash
  <1> QED BY <1>1, <1>2, <1>3, <1>4, <1>5 DEF MailNext

LEMMA DebriefKeepsOthers == ASSUME DebriefNext PROVE KeepsOthers({"debriefed"})
  <1>1. CASE \/ \E m \in Meetings, isWorthy \in BOOLEAN : MeetingEnds(m, isWorthy)
             \/ DebriefTick \/ FireLost \/ DebriefStarts \/ SkipDebriefed \/ SendChunk \/ DebriefEnds
    BY <1>1, TablesUnchanged
       DEF MeetingEnds, DebriefTick, FireLost, DebriefStarts, SkipDebriefed, SendChunk, DebriefEnds, tables
  <1>2. CASE MarkDebriefed
    BY <1>2, StatementKeeps, TablesUnchanged DEF MarkDebriefed, Mark
  <1>3. CASE DebriefOthersCommit \/ DebriefCrash
    BY <1>3, ReopenKeeps DEF DebriefOthersCommit, DebriefCrash
  <1> QED BY <1>1, <1>2, <1>3 DEF DebriefNext

LEMMA ExtractKeepsOthers == ASSUME ExtractNext PROVE KeepsOthers({"processed"})
  <1>1. CASE \/ \E s \in Sources : Appears(s) \/ Leaves(s)
             \/ ExtractStarts \/ SkipProcessed \/ AskModel \/ ModelFails \/ FetchFails
             \/ StoreFact \/ StoreFails \/ StoreRaises \/ ExtractEnds
    BY <1>1, TablesUnchanged
       DEF Appears, Leaves, ExtractStarts, SkipProcessed, AskModel, ModelFails, FetchFails,
           StoreFact, StoreFails, StoreRaises, ExtractEnds, tables
  <1>2. CASE MarkStub \/ MarkProcessed
    BY <1>2, StatementKeeps, TablesUnchanged DEF MarkStub, MarkProcessed
  <1>3. CASE ExtractOthersCommit \/ ExtractCrash
    BY <1>3, ReopenKeeps DEF ExtractOthersCommit, ExtractCrash
  <1> QED BY <1>1, <1>2, <1>3 DEF ExtractNext

LEMMA DigestKeepsOthers == ASSUME DigestNext PROVE KeepsOthers({"kept", "row"})
  <1>1. CASE \/ Collect \/ Classify \/ Synthesize \/ SynthesisFails \/ SendSummary \/ Finish
    BY <1>1, TablesUnchanged
       DEF Collect, Classify, Synthesize, SynthesisFails, SendSummary, Finish, tables
  <1>2. CASE Week
    BY <1>2 DEF Week, KeepsOthers
  <1>3. CASE SaveSignals \/ SaveDedup \/ SaveFails
    BY <1>3, StatementKeeps, TablesUnchanged DEF SaveSignals, SaveDedup, SaveFails
  <1>4. CASE DigestOthersCommit \/ DigestCrash
    BY <1>4, ReopenKeeps DEF DigestOthersCommit, DigestCrash
  <1> QED BY <1>1, <1>2, <1>3, <1>4 DEF DigestNext

-----------------------------------------------------------------------------
LEMMA AllCreated ==
  ASSUME Created(AllTables)
  PROVE  AtRest(MailTables) /\ AtRest(DebriefTables) /\ AtRest(ExtractTables) /\ AtRest(DigestTables)
  <1>1. \A t \in {conn, disk} : t = AllTables
    BY DEF Created
  <1>2. DOMAIN AllTables = {"since", "marked", "debriefed", "processed", "kept", "row"}
    BY DEF AllTables
  <1>3. AllTables.since = MailTables.since /\ AllTables.marked = MailTables.marked
    BY DEF AllTables
  <1>4. AllTables.debriefed = DebriefTables.debriefed /\ AllTables.processed = ExtractTables.processed
    BY DEF AllTables
  <1>5. AllTables.kept = DigestTables.kept /\ AllTables.row = DigestTables.row
    BY DEF AllTables
  <1>6. /\ DOMAIN MailTables = {"since", "marked"} /\ DOMAIN DebriefTables = {"debriefed"}
        /\ DOMAIN ExtractTables = {"processed"} /\ DOMAIN DigestTables = {"kept", "row"}
    BY DEF MailTables, DebriefTables, ExtractTables, DigestTables
  <1>7. AtRest(MailTables)
    BY <1>1, <1>2, <1>3, <1>6 DEF AtRest
  <1>8. AtRest(DebriefTables) /\ AtRest(ExtractTables)
    BY <1>1, <1>2, <1>4, <1>6 DEF AtRest
  <1>9. AtRest(DigestTables)
    BY <1>1, <1>2, <1>5, <1>6 DEF AtRest
  <1> QED BY <1>7, <1>8, <1>9

LEMMA ServicesInvInit == Init => ServicesInv
  BY AllCreated, MailInvInit, DebriefInvInit, ExtractInvInit, DigestInvInit, AuthInvInit,
     LimiterInvInit, VerifyInvInit, InterviewInvInit, SlotsInvInit DEF Init, ServicesInv

(* The services that are not at work stay as they are.                     *)
LEMMA MailRests ==
  ASSUME MailIdle, AtRest(MailTables), UNCHANGED mailVars, NEW F, KeepsOthers(F),
         F \intersect {"since", "marked"} = {}
  PROVE  MailIdle' /\ AtRest(MailTables)'
  <1>1. DOMAIN MailTables \intersect F = {}
    BY DEF MailTables
  <1> QED BY <1>1, OthersAtRest DEF MailIdle, mailVars, mailRun, mailSeen

LEMMA DebriefRests ==
  ASSUME DebriefIdle, AtRest(DebriefTables), UNCHANGED debriefVars, NEW F, KeepsOthers(F),
         "debriefed" \notin F
  PROVE  DebriefIdle' /\ AtRest(DebriefTables)'
  <1>1. DOMAIN DebriefTables \intersect F = {}
    BY DEF DebriefTables
  <1> QED BY <1>1, OthersAtRest DEF DebriefIdle, debriefVars, debriefRun, debriefSeen

LEMMA ExtractRests ==
  ASSUME ExtractIdle, AtRest(ExtractTables), UNCHANGED extractVars, NEW F, KeepsOthers(F),
         "processed" \notin F
  PROVE  ExtractIdle' /\ AtRest(ExtractTables)'
  <1>1. DOMAIN ExtractTables \intersect F = {}
    BY DEF ExtractTables
  <1> QED BY <1>1, OthersAtRest DEF ExtractIdle, extractVars, extractRun, extractSeen

LEMMA DigestRests ==
  ASSUME DigestIdle, AtRest(DigestTables), UNCHANGED digestVars, NEW F, KeepsOthers(F),
         F \intersect {"kept", "row"} = {}
  PROVE  DigestIdle' /\ AtRest(DigestTables)'
  <1>1. DOMAIN DigestTables \intersect F = {}
    BY DEF DigestTables
  <1> QED BY <1>1, OthersAtRest DEF DigestIdle, digestVars, digestRun, digestSeen

(* The invariants of the whole, taken apart.                               *)
Mail == IF focus = "mail" THEN MailInv ELSE MailIdle /\ AtRest(MailTables)
Debriefs == IF focus = "debrief" THEN DebriefInv ELSE DebriefIdle /\ AtRest(DebriefTables)
Extracts == IF focus = "extract" THEN ExtractInv ELSE ExtractIdle /\ AtRest(ExtractTables)
Digests == IF focus = "digest" THEN DigestInv ELSE DigestIdle /\ AtRest(DigestTables)
Auth == IF focus = "auth" THEN AuthInv ELSE AuthIdle
Limits == IF focus = "consult" THEN LimiterInv ELSE ConsultIdle
Verifies == IF focus = "verify" THEN VerifyInv ELSE VerifyIdle
Slotting == IF focus = "slots" THEN SlotsInv ELSE NoSlots
Interviews == IF focus = "interview" THEN InterviewInv ELSE InterviewIdle

LEMMA ServicesInvStep ==
  ServicesInv /\ [Next]_<<tables, focus, mailVars, debriefVars, extractVars, digestVars, authVars,
                          consultVars, others>> => ServicesInv'
  <1> SUFFICES ASSUME ServicesInv,
                      Next \/ UNCHANGED <<tables, focus, mailVars, debriefVars, extractVars,
                                          digestVars, authVars, consultVars, others>>
               PROVE  ServicesInv'
    OBVIOUS
  <1>0. Mail /\ Debriefs /\ Extracts /\ Digests /\ Auth /\ Limits /\ Slotting /\ Verifies /\ Interviews
    BY DEF ServicesInv, Mail, Debriefs, Extracts, Digests, Auth, Limits, Slotting, Verifies, Interviews
  <1>a. focus' = focus
    BY DEF Next
  <1>1. Mail'
    <2>1. CASE focus = "mail"
      <3>1. [MailNext]_<<tables, mailVars>>
        BY <2>1 DEF Next
      <3> QED BY <1>0, <1>a, <2>1, <3>1, MailInvStep DEF Mail
    <2>2. CASE focus # "mail"
      <3>1. UNCHANGED mailVars
        BY <2>2 DEF Next
      <3>2. \/ KeepsOthers({"debriefed"}) \/ KeepsOthers({"processed"}) \/ KeepsOthers({"kept", "row"})
        BY <2>2, DebriefKeepsOthers, ExtractKeepsOthers, DigestKeepsOthers, TablesUnchanged DEF Next
      <3> QED BY <1>0, <1>a, <2>2, <3>1, <3>2, MailRests DEF Mail
    <2> QED BY <2>1, <2>2
  <1>2. Debriefs'
    <2>1. CASE focus = "debrief"
      <3>1. [DebriefNext]_<<tables, debriefVars>>
        BY <2>1 DEF Next
      <3> QED BY <1>0, <1>a, <2>1, <3>1, DebriefInvStep DEF Debriefs
    <2>2. CASE focus # "debrief"
      <3>1. UNCHANGED debriefVars
        BY <2>2 DEF Next
      <3>2. \/ KeepsOthers({"since", "marked"}) \/ KeepsOthers({"processed"}) \/ KeepsOthers({"kept", "row"})
        BY <2>2, MailKeepsOthers, ExtractKeepsOthers, DigestKeepsOthers, TablesUnchanged DEF Next
      <3> QED BY <1>0, <1>a, <2>2, <3>1, <3>2, DebriefRests DEF Debriefs
    <2> QED BY <2>1, <2>2
  <1>3. Extracts'
    <2>1. CASE focus = "extract"
      <3>1. [ExtractNext]_<<tables, extractVars>>
        BY <2>1 DEF Next
      <3> QED BY <1>0, <1>a, <2>1, <3>1, ExtractInvStep DEF Extracts
    <2>2. CASE focus # "extract"
      <3>1. UNCHANGED extractVars
        BY <2>2 DEF Next
      <3>2. \/ KeepsOthers({"since", "marked"}) \/ KeepsOthers({"debriefed"}) \/ KeepsOthers({"kept", "row"})
        BY <2>2, MailKeepsOthers, DebriefKeepsOthers, DigestKeepsOthers, TablesUnchanged DEF Next
      <3> QED BY <1>0, <1>a, <2>2, <3>1, <3>2, ExtractRests DEF Extracts
    <2> QED BY <2>1, <2>2
  <1>4. Digests'
    <2>1. CASE focus = "digest"
      <3>1. [DigestNext]_<<tables, digestVars>>
        BY <2>1 DEF Next
      <3> QED BY <1>0, <1>a, <2>1, <3>1, DigestInvStep DEF Digests
    <2>2. CASE focus # "digest"
      <3>1. UNCHANGED digestVars
        BY <2>2 DEF Next
      <3>2. \/ KeepsOthers({"since", "marked"}) \/ KeepsOthers({"debriefed"}) \/ KeepsOthers({"processed"})
        BY <2>2, MailKeepsOthers, DebriefKeepsOthers, ExtractKeepsOthers, TablesUnchanged DEF Next
      <3> QED BY <1>0, <1>a, <2>2, <3>1, <3>2, DigestRests DEF Digests
    <2> QED BY <2>1, <2>2
  <1>5. Auth'
    <2>1. CASE focus = "auth"
      <3>1. [AuthNext]_authVars
        BY <2>1 DEF Next
      <3> QED BY <1>0, <1>a, <2>1, <3>1, AuthInvStep DEF Auth
    <2>2. CASE focus # "auth"
      <3>1. UNCHANGED authVars
        BY <2>2 DEF Next
      <3> QED BY <1>0, <1>a, <2>2, <3>1 DEF Auth, AuthIdle, authVars, authWorld, authRun, authSeen
    <2> QED BY <2>1, <2>2
  <1>6. Limits'
    <2>1. CASE focus = "consult"
      <3>1. [ConsultNext]_consultVars
        BY <2>1 DEF Next
      <3> QED BY <1>0, <1>a, <2>1, <3>1, LimiterInvStep DEF Limits
    <2>2. CASE focus # "consult"
      <3>1. UNCHANGED consultVars
        BY <2>2 DEF Next
      <3> QED BY <1>0, <1>a, <2>2, <3>1
              DEF Limits, ConsultIdle, consultVars, limiter, metrics, ghosts
    <2> QED BY <2>1, <2>2
  <1>7. Verifies'
    <2>1. CASE focus = "verify"
      <3>1. [VerifyNext]_verifyVars
        BY <2>1 DEF Next, others
      <3> QED BY <1>0, <1>a, <2>1, <3>1, VerifyInvStep DEF Verifies
    <2>2. CASE focus # "verify"
      <3>1. UNCHANGED verifyVars
        BY <2>2 DEF Next, others
      <3> QED BY <1>0, <1>a, <2>2, <3>1 DEF Verifies, VerifyIdle, verifyVars
    <2> QED BY <2>1, <2>2
  <1>8. Interviews'
    <2>1. CASE focus = "interview"
      <3>1. [InterviewNext]_interviewVars
        BY <2>1 DEF Next, others
      <3> QED BY <1>0, <1>a, <2>1, <3>1, InterviewInvStep DEF Interviews
    <2>2. CASE focus # "interview"
      <3>1. UNCHANGED interviewVars
        BY <2>2 DEF Next, others
      <3> QED BY <1>0, <1>a, <2>2, <3>1 DEF Interviews, InterviewIdle, interviewVars
    <2> QED BY <2>1, <2>2
  <1>9. Slotting'
    <2>1. CASE focus = "slots"
      <3>1. [Propose]_slotVars
        BY <2>1 DEF Next, others
      <3> QED BY <1>0, <1>a, <2>1, <3>1, SlotsInvStep DEF Slotting
    <2>2. CASE focus # "slots"
      <3>1. UNCHANGED slotVars
        BY <2>2 DEF Next, others
      <3> QED BY <1>0, <1>a, <2>2, <3>1 DEF Slotting, NoSlots, slotVars
    <2> QED BY <2>1, <2>2
  <1> QED BY <1>1, <1>2, <1>3, <1>4, <1>5, <1>6, <1>7, <1>8, <1>9
          DEF ServicesInv, Mail, Debriefs, Extracts, Digests, Auth, Limits, Slotting, Verifies, Interviews

(* The whole inductive invariant of the services, for any set of them and  *)
(* any values of their constants.                                          *)
THEOREM ServicesInvHolds == Spec => []ServicesInv
  BY ServicesInvInit, ServicesInvStep, PTL DEF Spec

-----------------------------------------------------------------------------
(* A service that is not at work keeps its invariant too.                  *)
LEMMA EachKeepsItsOwn ==
  ServicesInv => /\ MailInv /\ DebriefInv /\ ExtractInv /\ DigestInv
                 /\ AuthInv /\ LimiterInv /\ VerifyInv /\ InterviewInv
  BY MailInvInit, DebriefInvInit, ExtractInvInit, DigestInvInit, AuthInvInit, LimiterInvInit,
     VerifyInvInit, InterviewInvInit DEF ServicesInv

(* What the polling jobs promise holds in the whole, with the rows of all  *)
(* of them on one connection (scheduler.py's jobs, memory/store.py).       *)
THEOREM PollingJobsPromise ==
  Spec => [](/\ AlertedOnce /\ NothingPassedOver /\ DebriefedOnce /\ ThreeChances
             /\ MarkedIsWhole /\ LeftOutWasReported)
  <1>1. ServicesInv => /\ AlertedOnce /\ NothingPassedOver /\ DebriefedOnce /\ ThreeChances
                       /\ MarkedIsWhole /\ LeftOutWasReported
    BY EachKeepsItsOwn, DigestInvExplains DEF MailInv, DebriefInv, ExtractInv
  <1> QED BY <1>1, ServicesInvHolds, PTL

(* And so does what the others promise.                                    *)
THEOREM OtherServicesPromise ==
  Spec => [](OwnerKnows /\ TwiceTheLimit /\ RefusalIsEarned /\ EvidenceIsTold /\ NothingSkipped)
  <1>1. ServicesInv => OwnerKnows /\ TwiceTheLimit /\ RefusalIsEarned /\ EvidenceIsTold /\ NothingSkipped
    BY EachKeepsItsOwn, AuthInvKnows, TwoWindowsApart, VerifyInvTells DEF LimiterInv, InterviewInv
  <1> QED BY <1>1, ServicesInvHolds, PTL

(* The slots of a date start on the grid in the longest stretch of it in   *)
(* which nobody sleeps (slot_scorer.py:90-168), for any zones, dates,      *)
(* duration and grid.                                                      *)
THEOREM SlotsAreInTheLongestWindow == Spec => []LongestWindow
  <1>1. ServicesInv => LongestWindow
    BY SlotsInvWindow DEF ServicesInv, NoSlots, LongestWindow
  <1> QED BY <1>1, ServicesInvHolds, PTL

(* What is offered is a best choice without overlaps, and a slot is marked *)
(* when it runs into an event (slot_scorer.py:372-382 and 475-477), for    *)
(* any calendars.                                                          *)
THEOREM TheOfferIsBest == Spec => []OfferIsBest
  <1>1. ServicesInv => OfferIsBest
    BY SlotsInvBest DEF ServicesInv, NoSlots, OfferIsBest
  <1> QED BY <1>1, ServicesInvHolds, PTL
===============================================================================
