----------------------------- MODULE JobsProofs -------------------------------
(***************************************************************************)
(* Theorems about the scheduler and the watchdog, for any jobs, crons,     *)
(* zones and faults.                                                       *)
(***************************************************************************)
EXTENDS Jobs, TLAPS

(* The gaps of a cron are positive and stay below the bound on ages.       *)
LEMMA GapFacts ==
    ASSUME NEW j \in Jobs
    PROVE  /\ Cycle(j) \in Nat /\ Cycle(j) >= 1
           /\ \A k \in 1..Cycle(j) : Gaps[j][k] \in Nat \ {0} /\ Gaps[j][k] + LongestRun < Cap
           /\ \A p \in 1..Cycle(j) : GapBefore(j, p) \in AllGaps(j)
           /\ \A g \in AllGaps(j) : g \in Nat \ {0} /\ g + LongestRun < Cap
  <1>1. Gaps[j] \in Seq(Nat \ {0}) /\ Gaps[j] # <<>>
    BY GapAssumption
  <1>2. Cycle(j) \in Nat /\ Cycle(j) >= 1
    BY <1>1 DEF Cycle
  <1>3. \A k \in 1..Cycle(j) : Gaps[j][k] \in Nat \ {0} /\ Gaps[j][k] + LongestRun < Cap
    BY <1>1, GapAssumption DEF Cycle
  <1>4. \A p \in 1..Cycle(j) : GapBefore(j, p) \in AllGaps(j)
    BY <1>2 DEF GapBefore, AllGaps
  <1> QED BY <1>2, <1>3, <1>4 DEF AllGaps

(* After a fire, the gap it opens is the one before the next position.     *)
LEMMA NextPosition ==
    ASSUME NEW j \in Jobs, NEW p \in 1..Cycle(j)
    PROVE  LET q == IF p = Cycle(j) THEN 1 ELSE p + 1 IN
           q \in 1..Cycle(j) /\ GapBefore(j, q) = Gaps[j][p]
  BY GapFacts DEF GapBefore

(* Wherever the cycle is, eight samples see all of a cycle of seven gaps.  *)
LEMMA AllSampled ==
    ASSUME NEW j \in Jobs, Cycle(j) < Samples, pos[j] \in 1..Cycle(j)
    PROVE  \A g \in AllGaps(j) : g \in SampledGaps(j)
  <1>1. SUFFICES ASSUME NEW k \in 1..Cycle(j)
                 PROVE \E i \in 0..(Samples - 2), lap \in 0..Samples :
                           k + lap * Cycle(j) = pos[j] + i
    BY DEF AllGaps, SampledGaps
  <1>2. Cycle(j) \in Nat /\ Samples \in Nat /\ Samples >= 2
    BY GapFacts, TimeAssumption
  <1>3. CASE k >= pos[j]
    <2>1. k - pos[j] \in 0..(Samples - 2) /\ k + 0 * Cycle(j) = pos[j] + (k - pos[j])
      BY <1>2, <1>3
    <2> QED BY <2>1, <1>2
  <1>4. CASE k < pos[j]
    <2>1. /\ k + Cycle(j) - pos[j] \in 0..(Samples - 2)
          /\ k + 1 * Cycle(j) = pos[j] + (k + Cycle(j) - pos[j])
      BY <1>2, <1>4
    <2> QED BY <2>1, <1>2
  <1> QED BY <1>2, <1>3, <1>4

LEMMA FirstGap ==
    ASSUME NEW j \in Jobs
    PROVE  1 \in 1..Cycle(j) /\ 1 <= GapBefore(j, 1) /\ LongestRun < Cap
  <1>1. 1 \in 1..Cycle(j)
    BY GapFacts
  <1>2. GapBefore(j, 1) \in Nat \ {0} /\ GapBefore(j, 1) + LongestRun < Cap
    BY <1>1, GapFacts
  <1> QED BY <1>1, <1>2, TimeAssumption

LEMMA InitInv == Init => BaseInv
  <1> SUFFICES ASSUME Init PROVE BaseInv
    OBVIOUS
  <1>1. TypeOK
    <2>1. pos \in [Jobs -> Nat] /\ wait \in [Jobs -> Nat] /\ watch \in 0..WatchGap
      BY TimeAssumption DEF Init
    <2>2. \A j \in Jobs : pos[j] \in 1..Cycle(j) /\ wait[j] <= GapBefore(j, pos[j])
      BY FirstGap DEF Init
    <2>3. quiet \in [Jobs -> 0..Cap] /\ fails \in 0..MaxFails
      BY TimeAssumption DEF Init
    <2>4. zone \in Zones /\ stored \in Zones \union {None} /\ trig \in [Jobs -> Zones]
      BY ZoneAssumption DEF Init
    <2>5. trouble \in [Jobs -> SUBSET {"before", "run"}]
      BY DEF Init
    <2> QED BY <2>1, <2>2, <2>3, <2>4, <2>5 DEF Init, TypeOK, Idle, Never
  <1>2. RunInv /\ GapInv /\ QuietInv
    BY DEF Init, RunInv, GapInv, QuietInv, Idle, Never, Hung
  <1>3. ZoneInv
    BY DEF Init, ZoneInv, OperatingZone
  <1> QED BY <1>1, <1>2, <1>3 DEF BaseInv

(* A choice of phases: every next fire comes within the gap before it.     *)
LEMMA PhasesChosen ==
    ASSUME TypeOK, NEW S \in SUBSET Jobs, NewPhases(S)
    PROVE  /\ pos' \in [Jobs -> Nat] /\ wait' \in [Jobs -> Nat]
           /\ \A j \in Jobs : pos'[j] \in 1..Cycle(j) /\ wait'[j] <= GapBefore(j, pos'[j])
           /\ \A j \in Jobs \ S : pos'[j] = pos[j] /\ wait'[j] = wait[j]
  <1>1. PICK ph \in {f \in [S -> UNION {Phases(j) : j \in Jobs}] : \A j \in S : f[j] \in Phases(j)} :
            /\ pos' = [j \in Jobs |-> IF j \in S THEN ph[j][1] ELSE pos[j]]
            /\ wait' = [j \in Jobs |-> IF j \in S THEN ph[j][2] ELSE wait[j]]
    BY DEF NewPhases
  <1>2. \A j \in S : /\ ph[j][1] \in 1..Cycle(j)
                     /\ ph[j][2] \in Nat /\ ph[j][2] <= GapBefore(j, ph[j][1])
    <2> SUFFICES ASSUME NEW j \in S
                 PROVE  /\ ph[j][1] \in 1..Cycle(j)
                        /\ ph[j][2] \in Nat /\ ph[j][2] <= GapBefore(j, ph[j][1])
      OBVIOUS
    <2>1. ph[j] \in Phases(j)
      BY <1>1
    <2>2. PICK p \in 1..Cycle(j) : ph[j] \in {p} \X (1..GapBefore(j, p))
      BY <2>1 DEF Phases
    <2>3. GapBefore(j, p) \in Nat
      BY GapFacts
    <2> QED BY <2>2, <2>3
  <1>3. \A j \in Jobs : Cycle(j) \in Nat
    BY GapFacts
  <1> QED BY <1>1, <1>2, <1>3 DEF TypeOK

LEMMA StartInv ==
    ASSUME BaseInv, NEW config \in [Jobs -> Kinds], NEW context \in BOOLEAN, Start(config, context)
    PROVE  BaseInv'
  <1>1. enabled' \in SUBSET Jobs
    BY DEF Start, Registered, Jobs
  <1>2. NewPhases(enabled')
    BY DEF Start
  <1>3. TypeOK'
    <2>0. zone' \in Zones
      BY ZoneAssumption DEF BaseInv, TypeOK, Start, OperatingZone
    <2>1. trig' \in [Jobs -> Zones]
      BY <2>0, ZoneAssumption DEF Start
    <2>2. watch' \in 0..WatchGap
      BY TimeAssumption DEF Start
    <2>3. lost' \subseteq enabled' \union {Watchdog}
      BY DEF Start
    <2> QED BY <1>1, <1>2, <2>0, <2>1, <2>2, <2>3, PhasesChosen
        DEF BaseInv, TypeOK, Start, records, ghosts
  <1>4. \A j \in Jobs : running[j] = Idle
    BY DEF BaseInv, RunInv, Start
  <1>5. RunInv' /\ GapInv' /\ QuietInv'
    BY <1>4 DEF BaseInv, RunInv, GapInv, QuietInv, Start, records, ghosts, Idle, Hung
  <1>6. ZoneInv'
    BY DEF ZoneInv, Start, OperatingZone
  <1> QED BY <1>3, <1>5, <1>6 DEF BaseInv

LEMMA CrashInv ==
    ASSUME BaseInv, Crash
    PROVE  BaseInv'
  <1>1. TypeOK'
    <2>1. pos' \in [Jobs -> Nat] /\ wait' \in [Jobs -> Nat] /\ watch' \in 0..WatchGap
      BY TimeAssumption DEF Crash
    <2>2. \A j \in Jobs : pos'[j] \in 1..Cycle(j) /\ wait'[j] <= GapBefore(j, pos'[j])
      BY FirstGap DEF Crash
    <2>3. quiet' \in [Jobs -> 0..Cap] /\ fails' \in 0..MaxFails
      BY TimeAssumption DEF Crash
    <2>4. trouble' \in [Jobs -> SUBSET {"before", "run"}]
      BY DEF Crash
    <2>5. trig' \in [Jobs -> Zones] /\ enabled' \subseteq Jobs /\ lost' \subseteq enabled' \union {Watchdog}
      BY ZoneAssumption DEF Crash
    <2> QED BY <2>1, <2>2, <2>3, <2>4, <2>5 DEF BaseInv, TypeOK, Crash, records, zones, Idle
  <1>2. RunInv' /\ GapInv' /\ QuietInv'
    BY DEF BaseInv, TypeOK, RunInv, GapInv, QuietInv, Crash, records, Idle, Hung, Never
  <1>3. ZoneInv'
    BY DEF BaseInv, ZoneInv, Crash, zones, OperatingZone
  <1> QED BY <1>1, <1>2, <1>3 DEF BaseInv

(* The part of a fire that the scheduler does.                             *)
LEMMA FireTypes ==
    ASSUME BaseInv, NEW j \in Jobs, NextFire(j)
    PROVE  /\ pos' \in [Jobs -> Nat] /\ wait' \in [Jobs -> Nat]
           /\ \A i \in Jobs : pos'[i] \in 1..Cycle(i) /\ wait'[i] <= GapBefore(i, pos'[i])
           /\ wait'[j] = GapBefore(j, pos'[j])
           /\ \A i \in Jobs : i # j => pos'[i] = pos[i] /\ wait'[i] = wait[i]
  <1>1. \A i \in Jobs : Cycle(i) \in Nat /\ Cycle(i) >= 1
    BY GapFacts
  <1>2. pos[j] \in 1..Cycle(j) /\ Gaps[j][pos[j]] \in Nat
    BY GapFacts DEF BaseInv, TypeOK
  <1>3. wait'[j] = GapBefore(j, pos'[j]) /\ pos'[j] \in 1..Cycle(j)
    BY <1>2, NextPosition DEF BaseInv, TypeOK, NextFire
  <1> QED BY <1>1, <1>2, <1>3 DEF BaseInv, TypeOK, NextFire

(* A start, at a time of the cron or at any other, comes within the gap it *)
(* ends, and so does the next one.                                         *)
LEMMA StartTypes ==
    ASSUME BaseInv, NEW j \in Jobs, NextFire(j) \/ StrayFire(j)
    PROVE  /\ pos' \in [Jobs -> Nat] /\ wait' \in [Jobs -> Nat]
           /\ \A i \in Jobs : pos'[i] \in 1..Cycle(i) /\ wait'[i] <= GapBefore(i, pos'[i])
           /\ \A i \in Jobs : i # j => pos'[i] = pos[i] /\ wait'[i] = wait[i]
           /\ up /\ j \in enabled
           /\ UNCHANGED <<up, enabled, trig, lost, watch, records, zones, fails>>
  <1>1. CASE NextFire(j)
    BY <1>1, FireTypes DEF NextFire
  <1>2. CASE StrayFire(j)
    BY <1>2 DEF BaseInv, TypeOK, StrayFire, triggers
  <1> QED BY <1>1, <1>2

LEMMA FireInv ==
    ASSUME BaseInv, NEW j \in Jobs, Fire(j)
    PROVE  BaseInv'
  <1>1. /\ NextFire(j) \/ StrayFire(j)
        /\ up /\ j \in enabled
        /\ UNCHANGED <<up, enabled, trig, lost, watch, records, zones, fails>>
    BY StartTypes DEF Fire
  <1>2. TypeOK'
    <2>1. running' \in [Jobs -> (0..LongestRun) \union {Idle, Hung}]
      BY TimeAssumption DEF BaseInv, TypeOK, Fire
    <2>2. quiet' \in [Jobs -> 0..Cap] /\ heard' \in [Jobs -> BOOLEAN]
      BY TimeAssumption DEF BaseInv, TypeOK, Fire
    <2>3. trouble' \in [Jobs -> SUBSET {"before", "run"}]
      BY DEF BaseInv, TypeOK, Fire
    <2> QED BY <1>1, <2>1, <2>2, <2>3, StartTypes DEF BaseInv, TypeOK, records, zones
  <1>3. RunInv'
    BY <1>1 DEF BaseInv, TypeOK, RunInv, Fire, records, Hung, Idle
  <1>4. GapInv'
    <2> SUFFICES ASSUME NEW i \in Jobs
                 PROVE  /\ running'[i] >= 0 /\ "run" \notin trouble'[i]
                               => running'[i] + wait'[i] <= GapBefore(i, pos'[i])
                        /\ last'[i] # Never /\ "before" \notin trouble'[i] =>
                               IF running'[i] = Idle THEN last'[i] + wait'[i] <= GapBefore(i, pos'[i])
                               ELSE \E g \in AllGaps(i) : last'[i] <= g + running'[i]
      BY DEF GapInv
    <2>1. CASE i # j
      BY <1>1, <2>1, StartTypes DEF BaseInv, TypeOK, GapInv, Fire, records
    <2>2. CASE i = j
      <3>1. running'[j] = 0 /\ last'[j] = last[j] /\ trouble'[j] = trouble[j] \ {"run"}
        BY <1>1 DEF BaseInv, TypeOK, Fire, records
      <3>2. wait'[j] <= GapBefore(j, pos'[j]) /\ pos'[j] \in 1..Cycle(j)
        BY <1>1, StartTypes
      <3>3. wait'[j] \in Nat
        BY <1>2 DEF TypeOK
      <3>4. last[j] # Never /\ "before" \notin trouble[j] => last[j] <= GapBefore(j, pos[j])
        <4>1. wait[j] \in Nat /\ running[j] = Idle
          BY DEF BaseInv, TypeOK, Fire
        <4>2. last[j] # Never => last[j] \in Nat
          BY DEF BaseInv, TypeOK
        <4>3. GapBefore(j, pos[j]) \in Nat
          BY GapFacts DEF BaseInv, TypeOK
        <4> QED BY <4>1, <4>2, <4>3 DEF BaseInv, GapInv
      <3>5. GapBefore(j, pos[j]) \in AllGaps(j) /\ GapBefore(j, pos[j]) \in Nat
        BY GapFacts DEF BaseInv, TypeOK
      <3>6. 0 # Idle
        BY DEF Idle
      <3> QED BY <2>2, <3>1, <3>2, <3>3, <3>4, <3>5, <3>6
    <2> QED BY <2>1, <2>2
  <1>5. QuietInv'
    BY <1>1 DEF BaseInv, TypeOK, QuietInv, Fire, records, Idle, Never
  <1>6. ZoneInv'
    BY <1>1 DEF BaseInv, ZoneInv, zones, OperatingZone
  <1> QED BY <1>2, <1>3, <1>4, <1>5, <1>6 DEF BaseInv

(* What troubles jobs takes nothing but the burden of their invariants.    *)
LEMMA TroubledFacts ==
    ASSUME TypeOK, NEW S
    PROVE  /\ Troubled(S) \in [Jobs -> SUBSET {"before", "run"}]
           /\ \A j \in Jobs : "run" \notin Troubled(S)[j] \/ "before" \notin Troubled(S)[j]
                  => j \notin S /\ Troubled(S)[j] = trouble[j]
           /\ \A j \in S \intersect Jobs : Troubled(S)[j] = {"before", "run"}
  BY DEF TypeOK, Troubled

LEMMA SkipInv ==
    ASSUME BaseInv, NEW j \in Jobs, Skip(j) \/ Miss(j)
    PROVE  BaseInv'
  <1>1. NextFire(j) /\ trouble' = Troubled({j}) /\ UNCHANGED <<running, quiet, heard>>
    BY DEF Skip, Miss
  <1>2. /\ trouble' \in [Jobs -> SUBSET {"before", "run"}]
        /\ trouble'[j] = {"before", "run"}
        /\ \A i \in Jobs : i # j => trouble'[i] = trouble[i]
    BY <1>1, TroubledFacts DEF BaseInv, TypeOK, Troubled
  <1>3. TypeOK'
    BY <1>1, <1>2, FireTypes DEF BaseInv, TypeOK, NextFire, records, zones
  <1>4. RunInv' /\ QuietInv'
    BY <1>1, <1>2 DEF BaseInv, RunInv, QuietInv, NextFire, records
  <1>5. GapInv'
    BY <1>1, <1>2, FireTypes DEF BaseInv, GapInv, NextFire, records
  <1>6. ZoneInv'
    BY <1>1 DEF BaseInv, ZoneInv, NextFire, zones, OperatingZone
  <1> QED BY <1>3, <1>4, <1>5, <1>6 DEF BaseInv

LEMMA HangInv ==
    ASSUME BaseInv, NEW j \in Jobs, Hang(j)
    PROVE  BaseInv'
  <1>1. /\ trouble' \in [Jobs -> SUBSET {"before", "run"}]
        /\ trouble'[j] = {"before", "run"}
        /\ \A i \in Jobs : i # j => trouble'[i] = trouble[i]
    BY TroubledFacts DEF BaseInv, TypeOK, Troubled, Hang
  <1>2. /\ running' \in [Jobs -> (0..LongestRun) \union {Idle, Hung}]
        /\ running'[j] = Hung
        /\ \A i \in Jobs : i # j => running'[i] = running[i]
    BY DEF BaseInv, TypeOK, Hang
  <1>3. TypeOK'
    BY <1>1, <1>2 DEF BaseInv, TypeOK, Hang, records, zones, triggers
  <1>4. up /\ j \in enabled
    BY DEF BaseInv, RunInv, Hang, Idle
  <1>5. RunInv'
    BY <1>1, <1>2, <1>4 DEF BaseInv, RunInv, Hang, records
  <1>6. QuietInv'
    BY <1>2 DEF BaseInv, QuietInv, Hang, records, Hung
  <1>7. GapInv'
    BY <1>1, <1>2 DEF BaseInv, GapInv, Hang, records, triggers, Hung
  <1>8. ZoneInv'
    BY DEF BaseInv, ZoneInv, Hang, zones, triggers, OperatingZone
  <1> QED BY <1>3, <1>5, <1>6, <1>7, <1>8 DEF BaseInv

LEMMA FinishInv ==
    ASSUME BaseInv, NEW j \in Jobs, Finish(j)
    PROVE  BaseInv'
  <1> DEFINE Recorded ==
        /\ last' = [last EXCEPT ![j] = running[j]]
        /\ since' = Oldest(since, running[j])
        /\ trouble' = [trouble EXCEPT ![j] = IF "run" \in @ THEN @ ELSE {}]
  <1> DEFINE Lost == trouble' = Troubled({j}) /\ UNCHANGED records
  <1>1. /\ running[j] >= 0 /\ running' = [running EXCEPT ![j] = Idle]
        /\ UNCHANGED <<up, enabled, triggers, watch, zones, quiet, heard, fails>>
        /\ Recorded \/ Lost
    BY DEF Finish, AgeRecorded
  <1>2. /\ running[j] \in 0..LongestRun /\ LongestRun < Cap /\ LongestRun \in Nat
        /\ up /\ j \in enabled
    BY <1>1, FirstGap, TimeAssumption DEF BaseInv, TypeOK, RunInv, Idle, Hung
  <1>3. running' \in [Jobs -> (0..LongestRun) \union {Idle, Hung}]
    BY <1>1 DEF BaseInv, TypeOK
  <1>4. ZoneInv'
    BY <1>1 DEF BaseInv, ZoneInv, triggers, zones, OperatingZone
  <1>5. CASE Recorded
    <2>1. /\ last' \in [Jobs -> (0..Cap) \union {Never}] /\ since' \in (0..Cap) \union {Never}
          /\ last'[j] = running[j]
          /\ \A i \in Jobs : i # j => last'[i] = last[i]
      BY <1>2, <1>5, TimeAssumption DEF BaseInv, TypeOK, Oldest
    <2>2. /\ trouble' \in [Jobs -> SUBSET {"before", "run"}]
          /\ trouble'[j] = IF "run" \in trouble[j] THEN trouble[j] ELSE {}
          /\ \A i \in Jobs : i # j => trouble'[i] = trouble[i]
      BY <1>5 DEF BaseInv, TypeOK
    <2>3. TypeOK'
      BY <1>1, <1>3, <2>1, <2>2 DEF BaseInv, TypeOK, triggers, zones
    <2>4. RunInv'
      BY <1>1, <1>2, <2>1, <2>2 DEF BaseInv, TypeOK, RunInv, Idle, Hung
    <2>5. GapInv'
      <3> SUFFICES ASSUME NEW i \in Jobs
                   PROVE  /\ running'[i] >= 0 /\ "run" \notin trouble'[i]
                                 => running'[i] + wait'[i] <= GapBefore(i, pos'[i])
                          /\ last'[i] # Never /\ "before" \notin trouble'[i] =>
                                 IF running'[i] = Idle THEN last'[i] + wait'[i] <= GapBefore(i, pos'[i])
                                 ELSE \E g \in AllGaps(i) : last'[i] <= g + running'[i]
        BY DEF GapInv
      <3>1. CASE i # j
        BY <1>1, <2>1, <2>2, <3>1 DEF BaseInv, TypeOK, GapInv, triggers
      <3>2. CASE i = j
        <4>1. running'[j] = Idle /\ ~(Idle >= 0)
          BY <1>1 DEF BaseInv, TypeOK, Idle
        <4>2. "before" \notin trouble'[j] => "run" \notin trouble[j]
          BY <2>2 DEF BaseInv, RunInv
        <4> QED BY <1>1, <3>2, <4>1, <4>2, <2>1 DEF BaseInv, GapInv, triggers
      <3> QED BY <3>1, <3>2
    <2>6. QuietInv'
      BY <1>1, <1>2, <2>1 DEF BaseInv, TypeOK, QuietInv, Idle
    <2> QED BY <1>4, <2>3, <2>4, <2>5, <2>6 DEF BaseInv
  <1>6. CASE Lost
    <2>1. /\ trouble' \in [Jobs -> SUBSET {"before", "run"}]
          /\ trouble'[j] = {"before", "run"}
          /\ \A i \in Jobs : i # j => trouble'[i] = trouble[i]
      BY <1>6, TroubledFacts DEF BaseInv, TypeOK, Troubled
    <2>2. TypeOK'
      BY <1>1, <1>3, <1>6, <2>1 DEF BaseInv, TypeOK, triggers, zones, records
    <2>3. RunInv'
      BY <1>1, <1>6, <2>1 DEF BaseInv, TypeOK, RunInv, records, Idle, Hung
    <2>4. GapInv'
      BY <1>1, <1>6, <2>1 DEF BaseInv, TypeOK, GapInv, records, triggers, Idle
    <2>5. QuietInv'
      BY <1>1, <1>6 DEF BaseInv, TypeOK, QuietInv, records, Idle
    <2> QED BY <1>4, <2>2, <2>3, <2>4, <2>5 DEF BaseInv
  <1> QED BY <1>1, <1>5, <1>6

LEMMA CheckInv ==
    ASSUME BaseInv, Check
    PROVE  BaseInv'
  <1>1. since' \in (0..Cap) \union {Never}
    BY TimeAssumption DEF BaseInv, TypeOK, Check, Report, SinceRecorded
  <1>2. heard' \in [Jobs -> BOOLEAN]
    BY DEF BaseInv, TypeOK, Check, Report
  <1>3. fails' \in 0..MaxFails
    BY TimeAssumption DEF BaseInv, TypeOK, Check, Report
  <1>4. TypeOK'
    BY <1>1, <1>2, <1>3, TimeAssumption DEF BaseInv, TypeOK, Check, triggers, zones
  <1>5. RunInv' /\ GapInv' /\ QuietInv' /\ ZoneInv'
    BY DEF BaseInv, RunInv, GapInv, QuietInv, ZoneInv, Check, triggers, zones, OperatingZone
  <1> QED BY <1>4, <1>5 DEF BaseInv

LEMMA ZoneStepInv ==
    ASSUME BaseInv, NEW z \in Zones, SetTimezone(z)
    PROVE  BaseInv'
  <1>0. PICK T \in SUBSET (enabled \union {Watchdog}), kept \in BOOLEAN :
            /\ stored' = IF kept THEN z ELSE stored
            /\ saved' = kept
            /\ trig' = [j \in Jobs |-> IF j \in T THEN z ELSE trig[j]]
            /\ lost' = lost \union T
            /\ NewPhases(T \intersect enabled)
            /\ trouble' = Troubled(T \intersect enabled)
    BY DEF SetTimezone, LostFields
  <1> DEFINE S == T \intersect enabled
  <1>1. S \in SUBSET enabled /\ NewPhases(S) /\ trouble' = Troubled(S)
    BY <1>0
  <1> HIDE DEF S
  <1>2. /\ zone' = z /\ up
        /\ UNCHANGED <<up, enabled, watch, running, records, quiet, heard, fails>>
    BY DEF SetTimezone
  <1>3. S \in SUBSET Jobs
    BY <1>1 DEF BaseInv, TypeOK
  <1>4. /\ trouble' \in [Jobs -> SUBSET {"before", "run"}]
        /\ \A j \in S : trouble'[j] = {"before", "run"}
        /\ \A j \in Jobs \ S : trouble'[j] = trouble[j]
    BY <1>1, <1>3, TroubledFacts DEF BaseInv, TypeOK, Troubled
  <1>5. TypeOK'
    <2>1. /\ stored' \in Zones \union {None} /\ trig' \in [Jobs -> Zones] /\ saved' \in BOOLEAN
          /\ lost' \subseteq enabled \union {Watchdog}
      BY <1>0 DEF BaseInv, TypeOK
    <2> QED BY <1>1, <1>2, <1>3, <1>4, <2>1, PhasesChosen DEF BaseInv, TypeOK, records
  <1>6. RunInv' /\ QuietInv'
    BY <1>2, <1>3, <1>4 DEF BaseInv, RunInv, QuietInv, records
  <1>7. GapInv'
    <2> SUFFICES ASSUME NEW i \in Jobs \ S
                 PROVE  /\ running'[i] >= 0 /\ "run" \notin trouble'[i]
                               => running'[i] + wait'[i] <= GapBefore(i, pos'[i])
                        /\ last'[i] # Never /\ "before" \notin trouble'[i] =>
                               IF running'[i] = Idle THEN last'[i] + wait'[i] <= GapBefore(i, pos'[i])
                               ELSE \E g \in AllGaps(i) : last'[i] <= g + running'[i]
      BY <1>3, <1>4 DEF GapInv
    <2>1. pos'[i] = pos[i] /\ wait'[i] = wait[i]
      BY <1>1, <1>3, PhasesChosen DEF BaseInv
    <2> QED BY <1>2, <1>4, <2>1 DEF BaseInv, GapInv, records
  <1>8. ZoneInv'
    BY <1>0, <1>2, ZoneAssumption DEF ZoneInv, OperatingZone
  <1> QED BY <1>5, <1>6, <1>7, <1>8 DEF BaseInv

LEMMA TickInv ==
    ASSUME BaseInv, Tick
    PROVE  BaseInv'
  <1> USE TimeAssumption
  <1>1. \A a \in Int : /\ a < 0 => Older(a) = a
                       /\ a >= 0 /\ a < Cap => Older(a) = a + 1
                       /\ a >= Cap => Older(a) = a
    BY DEF Older
  <1>2. \A j \in Jobs : /\ running[j] \in (0..LongestRun) \union {Idle, Hung}
                        /\ wait[j] \in Nat /\ quiet[j] \in 0..Cap
                        /\ last[j] \in (0..Cap) \union {Never}
                        /\ LongestRun < Cap
    BY FirstGap DEF BaseInv, TypeOK
  <1>3. \A j \in Jobs : /\ running'[j] = Older(running[j]) /\ last'[j] = Older(last[j])
                        /\ quiet'[j] = IF up /\ j \in enabled THEN Older(quiet[j]) ELSE quiet[j]
                        /\ wait'[j] = IF up /\ j \in enabled THEN wait[j] - 1 ELSE wait[j]
    BY DEF Tick
  <1>4. \A j \in Jobs : running[j] >= 0 => running[j] < LongestRun /\ up /\ j \in enabled
    BY <1>2 DEF BaseInv, RunInv, Tick, Idle
  <1>5. \A j \in Jobs : up /\ j \in enabled => wait[j] > 0
    BY DEF Tick
  <1>6. /\ UNCHANGED <<up, enabled, pos, trig, lost, zones, heard, trouble, fails>>
        /\ watch' = IF up THEN watch - 1 ELSE watch
        /\ up => watch > 0
        /\ since' = Older(since)
    BY DEF Tick
  <1>7. \A j \in Jobs : /\ running'[j] \in (0..LongestRun) \union {Idle, Hung}
                        /\ wait'[j] \in Nat /\ wait'[j] <= wait[j] /\ quiet'[j] \in 0..Cap
                        /\ last'[j] \in (0..Cap) \union {Never}
    BY <1>1, <1>2, <1>3, <1>4, <1>5 DEF Idle, Hung, Never
  <1>8. TypeOK'
    <2>1. running' \in [Jobs -> (0..LongestRun) \union {Idle, Hung}]
      BY <1>7 DEF Tick
    <2>2. wait' \in [Jobs -> Nat] /\ quiet' \in [Jobs -> 0..Cap]
      BY <1>7 DEF Tick
    <2>3. last' \in [Jobs -> (0..Cap) \union {Never}]
      BY <1>7 DEF Tick
    <2>4. since' \in (0..Cap) \union {Never} /\ watch' \in 0..WatchGap
      BY <1>1, <1>6 DEF BaseInv, TypeOK, Never
    <2>5. \A j \in Jobs : pos'[j] \in 1..Cycle(j) /\ wait'[j] <= GapBefore(j, pos'[j])
      <3> TAKE j \in Jobs
      <3>1. GapBefore(j, pos[j]) \in Nat
        BY GapFacts DEF BaseInv, TypeOK
      <3> QED BY <1>2, <1>6, <1>7, <3>1 DEF BaseInv, TypeOK
    <2> QED BY <1>6, <2>1, <2>2, <2>3, <2>4, <2>5 DEF BaseInv, TypeOK, zones
  <1>9. RunInv'
    BY <1>1, <1>2, <1>3, <1>6 DEF BaseInv, RunInv, Idle, Hung, Never
  <1>10. GapInv'
    <2> SUFFICES ASSUME NEW j \in Jobs
                 PROVE  /\ running'[j] >= 0 /\ "run" \notin trouble'[j]
                               => running'[j] + wait'[j] <= GapBefore(j, pos'[j])
                        /\ last'[j] # Never /\ "before" \notin trouble'[j] =>
                               IF running'[j] = Idle THEN last'[j] + wait'[j] <= GapBefore(j, pos'[j])
                               ELSE \E g \in AllGaps(j) : last'[j] <= g + running'[j]
      BY DEF GapInv
    <2>1. GapBefore(j, pos[j]) \in Nat /\ pos'[j] = pos[j] /\ trouble'[j] = trouble[j]
          /\ AllGaps(j) \subseteq Nat
      BY <1>6, GapFacts DEF BaseInv, TypeOK
    <2>2. running'[j] >= 0 => running[j] >= 0 /\ running'[j] = running[j] + 1 /\ wait'[j] = wait[j] - 1
      BY <1>1, <1>2, <1>3, <1>4 DEF Idle, Hung
    <2>3. running'[j] >= 0 /\ "run" \notin trouble'[j]
              => running'[j] + wait'[j] <= GapBefore(j, pos'[j])
      <3> SUFFICES ASSUME running'[j] >= 0, "run" \notin trouble'[j]
                   PROVE  running'[j] + wait'[j] <= GapBefore(j, pos'[j])
        OBVIOUS
      <3>1. running[j] + wait[j] <= GapBefore(j, pos[j])
        BY <2>1, <2>2 DEF BaseInv, GapInv
      <3>2. running[j] \in Int /\ wait[j] \in Int
        BY <1>2 DEF Idle, Hung
      <3> QED BY <2>1, <2>2, <3>1, <3>2
    <2>4. ASSUME last'[j] # Never, "before" \notin trouble'[j]
          PROVE  IF running'[j] = Idle THEN last'[j] + wait'[j] <= GapBefore(j, pos'[j])
                 ELSE \E g \in AllGaps(j) : last'[j] <= g + running'[j]
      <3>1. last[j] # Never /\ "before" \notin trouble[j] /\ last'[j] <= last[j] + 1
        BY <1>1, <1>2, <1>3, <2>1, <2>4 DEF Never
      <3>2. up /\ j \in enabled /\ running[j] # Hung
        BY <3>1 DEF BaseInv, RunInv
      <3>3. CASE running[j] = Idle
        <4>1. running'[j] = Idle /\ wait'[j] = wait[j] - 1
          BY <1>1, <1>3, <3>2, <3>3 DEF Idle
        <4>2. last[j] + wait[j] <= GapBefore(j, pos[j])
          BY <3>1, <3>3 DEF BaseInv, GapInv
        <4> QED BY <1>2, <1>7, <2>1, <3>1, <4>1, <4>2 DEF Never
      <3>4. CASE running[j] # Idle
        <4>1. running[j] >= 0 /\ running'[j] = running[j] + 1 /\ running'[j] # Idle
          BY <1>1, <1>2, <1>3, <1>4, <3>2, <3>4 DEF Idle, Hung
        <4>2. PICK g \in AllGaps(j) : last[j] <= g + running[j]
          BY <3>1, <3>4 DEF BaseInv, GapInv
        <4>3. last'[j] <= g + running'[j]
          BY <1>2, <1>7, <2>1, <3>1, <4>1, <4>2 DEF Never, Idle, Hung
        <4> QED BY <4>1, <4>3
      <3> QED BY <3>3, <3>4
    <2> QED BY <2>3, <2>4
  <1>11. QuietInv'
    BY <1>1, <1>2, <1>3, <1>4 DEF BaseInv, QuietInv, Idle, Hung, Never
  <1>12. ZoneInv'
    BY <1>6 DEF BaseInv, ZoneInv, zones, OperatingZone
  <1> QED BY <1>8, <1>9, <1>10, <1>11, <1>12 DEF BaseInv

LEMMA NextInv ==
    ASSUME BaseInv, [Next]_vars
    PROVE  BaseInv'
  <1>1. CASE UNCHANGED vars
    BY <1>1 DEF BaseInv, TypeOK, RunInv, GapInv, QuietInv, ZoneInv, vars, triggers, records,
                zones, ghosts, OperatingZone
  <1>2. CASE Next
    BY <1>2, StartInv, FireInv, SkipInv, HangInv, FinishInv, ZoneStepInv, CheckInv, CrashInv,
       TickInv DEF Next
  <1> QED BY <1>1, <1>2

(* The inductive invariant holds of every behaviour.                       *)
THEOREM BaseInvHolds == Spec => []BaseInv
  <1>1. Init => BaseInv
    BY InitInv
  <1>2. BaseInv /\ [Next]_vars => BaseInv'
    BY NextInv
  <1> QED BY <1>1, <1>2, PTL DEF Spec

(* The watchdog pages for no job that had nothing but its weekends, late   *)
(* records and the order of threads, if runs stay within the floor of the  *)
(* grace and the samples cover a cycle of the cron.                        *)
THEOREM NoIdlePage ==
    ASSUME \A j \in Jobs : Cycle(j) < Samples, LongestRun <= GraceFloor
    PROVE  Spec => []AlarmHasCause
  <1>1. BaseInv => AlarmHasCause
    <2> SUFFICES ASSUME BaseInv, NEW j \in enabled, up, last[j] # Never, Stale(j),
                        "before" \notin trouble[j]
                 PROVE  FALSE
      BY DEF AlarmHasCause
    <2>1. j \in Jobs /\ pos[j] \in 1..Cycle(j)
      BY DEF BaseInv, TypeOK
    <2>2. last[j] \in Nat /\ wait[j] \in Nat /\ GraceFloor \in Nat /\ LongestRun \in Nat
      BY <2>1, TimeAssumption DEF BaseInv, TypeOK, Never
    <2>3. PICK g \in AllGaps(j) : last[j] <= g + LongestRun
      <3>1. CASE running[j] = Idle
        <4>1. last[j] + wait[j] <= GapBefore(j, pos[j])
          BY <2>1, <3>1 DEF BaseInv, GapInv
        <4>2. GapBefore(j, pos[j]) \in AllGaps(j) /\ GapBefore(j, pos[j]) \in Nat
          BY <2>1, GapFacts
        <4> QED BY <2>2, <4>1, <4>2
      <3>2. CASE running[j] # Idle
        <4>1. running[j] \in 0..LongestRun
          BY <2>1, <3>2 DEF BaseInv, TypeOK, RunInv
        <4>2. PICK g \in AllGaps(j) : last[j] <= g + running[j]
          BY <2>1, <3>2 DEF BaseInv, GapInv
        <4>3. g \in Nat
          BY <2>1, GapFacts
        <4> QED BY <2>2, <4>1, <4>2, <4>3
      <3> QED BY <3>1, <3>2
    <2>4. g \in Nat /\ g \in SampledGaps(j)
      BY <2>1, GapFacts, AllSampled
    <2>5. Overdue(last[j], g)
      BY <2>4 DEF Stale
    <2> QED BY <2>2, <2>3, <2>4, <2>5 DEF Overdue
  <1> QED BY <1>1, BaseInvHolds, PTL

(* The next process works in the zone of the last /timezone that stored    *)
(* it, and gives it to every job without a zone of its own.                *)
THEOREM ZoneKept == Spec => ZoneSurvivesRestart
  <1>1. BaseInv /\ [Next]_vars =>
            [~up /\ up' /\ saved =>
                 zone' = zone /\ \A j \in enabled' : Own[j] = None => trig'[j] = zone]_vars
    <2> SUFFICES ASSUME BaseInv, Next, ~up, up', saved
                 PROVE  zone' = zone /\ \A j \in enabled' : Own[j] = None => trig'[j] = zone
      OBVIOUS
    <2>1. PICK config \in [Jobs -> Kinds], context \in BOOLEAN : Start(config, context)
      <3>1. ~Tick /\ ~Check /\ ~Crash
        BY DEF Tick, Check, Crash
      <3>2. \A i \in Jobs : ~Fire(i) /\ ~Skip(i) /\ ~Miss(i) /\ ~Hang(i) /\ ~Finish(i)
        BY DEF Fire, Skip, Miss, NextFire, StrayFire, Hang, Finish, BaseInv, RunInv, Idle
      <3>3. \A z \in Zones : ~SetTimezone(z)
        BY DEF SetTimezone
      <3> QED BY <3>1, <3>2, <3>3 DEF Next
    <2>2. zone' = zone
      BY <2>1 DEF BaseInv, ZoneInv, Start
    <2>3. enabled' \subseteq Jobs
      BY <2>1 DEF Start, Registered, Jobs
    <2> QED BY <2>1, <2>2, <2>3 DEF Start
  <1> QED BY <1>1, BaseInvHolds, PTL DEF Spec, ZoneSurvivesRestart

-----------------------------------------------------------------------------
(* What is known of lateness: it grows with age, and it takes some age.    *)
LEMMA LateFacts ==
    ASSUME NEW j \in Jobs
    PROVE  /\ \A a, b \in Int : b <= a /\ Late(j, b) => Late(j, a)
           /\ \A a \in Int : a <= 0 => ~Late(j, a)
  <1>1. \A a, b \in Int : b <= a /\ Late(j, b) => Late(j, a)
    <2>1. \A g \in AllGaps(j) : g \in Nat
      BY GapFacts
    <2> QED BY <2>1, TimeAssumption DEF Late, Overdue
  <1>2. GapBefore(j, 1) \in AllGaps(j) /\ GapBefore(j, 1) \in Nat
    BY FirstGap, GapFacts
  <1>3. \A a \in Int : a <= 0 => ~Late(j, a)
    BY <1>2 DEF Late, Overdue
  <1> QED BY <1>1, <1>3

(* A job the watchdog does not find stale is not late by its record, and   *)
(* without one not by the records there are.                               *)
LEMMA NotStale ==
    ASSUME NEW j \in Jobs, ~Stale(j)
    PROVE  /\ last[j] # Never => ~Late(j, last[j])
           /\ last[j] = Never /\ since # Never => ~Late(j, since)
  <1>1. \A g \in SampledGaps(j) : g \in AllGaps(j)
    BY DEF SampledGaps, AllGaps
  <1> QED BY <1>1 DEF Stale, Late

(* The time since the last check that did not fail, at most.               *)
LEMMA CheckingFacts ==
    ASSUME TypeOK
    PROVE  Checking \in Nat /\ Slack \in Nat /\ Checking <= Slack
  <1>1. fails \in Nat /\ MaxFails \in Nat /\ fails <= MaxFails /\ WatchGap \in Nat
        /\ watch \in 0..WatchGap
    BY TimeAssumption DEF TypeOK
  <1>2. \A f, m, w \in Nat : f <= m => f * w \in Nat /\ f * w <= m * w /\ (1 + m) * w = m * w + w
    OBVIOUS
  <1>3. fails * WatchGap \in Nat /\ fails * WatchGap <= MaxFails * WatchGap
        /\ Slack = MaxFails * WatchGap + WatchGap /\ MaxFails * WatchGap \in Nat
    BY <1>1, <1>2 DEF Slack
  <1> QED BY <1>1, <1>3 DEF Checking

(* The types both invariants speak of.                                     *)
LEMMA WatchTypes ==
    ASSUME TypeOK
    PROVE  /\ \A j \in Jobs : quiet[j] \in 0..Cap /\ quiet[j] \in Int
                              /\ last[j] \in (0..Cap) \union {Never}
           /\ since \in (0..Cap) \union {Never}
           /\ enabled \subseteq Jobs /\ Cap \in Nat /\ up \in BOOLEAN
  BY TimeAssumption DEF TypeOK

LEMMA InitWatch == Init => SinceInv /\ HeardInv
  BY DEF Init, SinceInv, HeardInv, Never

LEMMA StartWatch ==
    ASSUME IndInv, BaseInv', NEW config \in [Jobs -> Kinds], NEW context \in BOOLEAN,
           Start(config, context)
    PROVE  SinceInv' /\ HeardInv'
  <1>1. Checking' \in Nat /\ Slack \in Nat
    <2>1. TypeOK /\ fails \in Nat /\ fails' = fails
      BY TimeAssumption DEF IndInv, BaseInv, Start, TypeOK
    <2>2. WatchGap \in Nat /\ watch' \in 0..WatchGap
      BY TimeAssumption DEF BaseInv, TypeOK
    <2>3. fails * WatchGap \in Nat
      BY <2>1, <2>2
    <2>4. WatchGap - watch' \in Nat
      <3>1. \A w \in 0..WatchGap : WatchGap - w \in Nat
        BY TimeAssumption
      <3> QED BY <3>1, <2>2
    <2>5. Checking' = fails * WatchGap + (WatchGap - watch')
      BY <2>1 DEF Checking
    <2>6. Slack \in Nat
      BY <2>1, CheckingFacts
    <2> QED BY <2>3, <2>4, <2>5, <2>6
  <1>2. \A j \in Jobs : quiet'[j] = 0
    BY DEF IndInv, SinceInv, Start, ghosts
  <1>3. last' = last /\ since' = since /\ up' /\ enabled' \subseteq Jobs
    BY DEF Start, records, Registered, Jobs
  <1>4. since \in (0..Cap) \union {Never} /\ Cap \in Nat
    BY WatchTypes DEF IndInv, BaseInv
  <1>5. SinceInv'
    BY <1>1, <1>2, <1>3, <1>4 DEF IndInv, SinceInv, Never
  <1>6. ASSUME NEW j \in enabled' PROVE ~Late(j, quiet'[j] - Slack - Checking')
    <2>1. quiet'[j] - Slack - Checking' \in Int /\ quiet'[j] - Slack - Checking' <= 0
      BY <1>1, <1>2, <1>3
    <2> QED BY <2>1, LateFacts, <1>3
  <1>7. HeardInv'
    BY <1>6 DEF HeardInv, Late
  <1> QED BY <1>5, <1>7

LEMMA CrashWatch ==
    ASSUME IndInv, Crash
    PROVE  SinceInv' /\ HeardInv'
  BY DEF IndInv, SinceInv, HeardInv, Crash, records

(* A start of a job is news of it.                                         *)
LEMMA FireWatch ==
    ASSUME IndInv, NEW j \in Jobs, Fire(j)
    PROVE  SinceInv' /\ HeardInv'
  <1>1. Checking \in Nat /\ Slack \in Nat /\ Checking' = Checking
    BY CheckingFacts DEF IndInv, BaseInv, Checking, Fire, NextFire, StrayFire
  <1>2. /\ up /\ up' /\ enabled' = enabled /\ last' = last /\ since' = since
        /\ quiet' = [quiet EXCEPT ![j] = 0] /\ heard' = [heard EXCEPT ![j] = FALSE]
        /\ quiet \in [Jobs -> 0..Cap] /\ heard \in [Jobs -> BOOLEAN]
    BY DEF IndInv, BaseInv, TypeOK, Fire, NextFire, StrayFire, records
  <1>3. /\ quiet'[j] = 0
        /\ \A i \in Jobs \ {j} : quiet'[i] = quiet[i] /\ heard'[i] = heard[i]
    BY <1>2
  <1>4. since \in (0..Cap) \union {Never} /\ Cap \in Nat /\ enabled \subseteq Jobs
    BY WatchTypes DEF IndInv, BaseInv
  <1>5. SinceInv'
    <2> SUFFICES ASSUME NEW i \in Jobs
                 PROVE  /\ since = Never => last[i] = Never
                        /\ i \in enabled /\ since = Never => quiet'[i] <= Checking
                        /\ i \in enabled /\ since # Never /\ last[i] = Never
                               => quiet'[i] <= since + Slack
      BY <1>1, <1>2 DEF SinceInv
    <2>1. CASE i = j
      BY <2>1, <1>1, <1>2, <1>3, <1>4 DEF IndInv, SinceInv, Never
    <2>2. CASE i # j
      BY <2>2, <1>2, <1>3 DEF IndInv, SinceInv
    <2> QED BY <2>1, <2>2
  <1>6. HeardInv'
    <2> SUFFICES ASSUME NEW i \in enabled, ~heard'[i]
                 PROVE  ~Late(i, quiet'[i] - Slack - Checking)
      BY <1>1, <1>2 DEF HeardInv, Late
    <2>1. CASE i = j
      <3>1. quiet'[i] - Slack - Checking \in Int /\ quiet'[i] - Slack - Checking <= 0
        BY <2>1, <1>1, <1>3
      <3> QED BY <3>1, LateFacts, <1>4
    <2>2. CASE i # j
      BY <2>2, <1>2, <1>3, <1>4 DEF IndInv, HeardInv
    <2> QED BY <2>1, <2>2
  <1> QED BY <1>5, <1>6

(* Steps the watchdog does not see.                                        *)
LEMMA OtherWatch ==
    ASSUME IndInv,
           \/ \E j \in Jobs : Skip(j) \/ Miss(j) \/ Hang(j)
           \/ \E z \in Zones : SetTimezone(z)
           \/ UNCHANGED vars
    PROVE  SinceInv' /\ HeardInv'
  <1>1. UNCHANGED <<up, enabled, watch, fails, quiet, heard, last, since>>
    BY DEF Skip, Miss, NextFire, Hang, SetTimezone, vars, records, ghosts
  <1>2. UNCHANGED <<Checking, Slack>>
    BY <1>1 DEF Checking, Slack
  <1> QED BY <1>1, <1>2 DEF IndInv, SinceInv, HeardInv, Late

(* The first record of all is younger than the process is quiet by no more *)
(* than the checks that passed without one.                                *)
LEMMA FinishWatch ==
    ASSUME IndInv, BaseInv', NEW j \in Jobs, Finish(j)
    PROVE  SinceInv' /\ HeardInv'
  <1>1. Checking \in Nat /\ Slack \in Nat /\ Checking <= Slack /\ Checking' = Checking
    BY CheckingFacts DEF IndInv, BaseInv, Checking, Finish
  <1>2. UNCHANGED <<up, enabled, quiet, heard>>
    BY DEF Finish
  <1>3. HeardInv'
    BY <1>1, <1>2 DEF IndInv, HeardInv, Late
  <1>4. CASE UNCHANGED records
    <2>1. last' = last /\ since' = since
      BY <1>4 DEF records
    <2>2. SinceInv'
      BY <1>1, <1>2, <2>1 DEF IndInv, SinceInv
    <2> QED BY <1>3, <2>2
  <1>5. CASE /\ last' = [last EXCEPT ![j] = running[j]]
             /\ since' = Oldest(since, running[j])
    <2>1. running[j] \in Nat /\ up
      BY TimeAssumption DEF IndInv, BaseInv, TypeOK, RunInv, Finish, Idle, Hung
    <2>2. since' # Never /\ since' \in Nat /\ (since # Never => since \in Int /\ since' >= since)
      BY <1>5, <2>1, WatchTypes DEF IndInv, BaseInv, Never, Oldest
    <2>3. last'[j] = running[j] /\ \A i \in Jobs : i # j => last'[i] = last[i]
      BY <1>5 DEF IndInv, BaseInv, TypeOK
    <2>4. ASSUME NEW i \in Jobs, i \in enabled, last'[i] = Never
          PROVE  quiet[i] <= since' + Slack
      <3>1. last[i] = Never
        BY <2>1, <2>3, <2>4 DEF Never
      <3>2. CASE since # Never
        <4>1. quiet[i] <= since + Slack /\ quiet[i] \in Int
          BY <2>1, <2>4, <3>1, <3>2, WatchTypes DEF IndInv, BaseInv, SinceInv
        <4> QED BY <4>1, <1>1, <2>2, <3>2
      <3>3. CASE since = Never
        <4>1. quiet[i] <= Checking /\ quiet[i] \in Int
          BY <2>1, <2>4, <3>3, WatchTypes DEF IndInv, BaseInv, SinceInv
        <4> QED BY <4>1, <1>1, <2>2
      <3> QED BY <3>2, <3>3
    <2>5. SinceInv'
      BY <1>2, <2>1, <2>2, <2>4 DEF SinceInv
    <2> QED BY <1>3, <2>5
  <1> QED BY <1>3, <1>4, <1>5 DEF Finish, AgeRecorded

(* A check that counts tells the owner of every job that is late.          *)
LEMMA CheckWatch ==
    ASSUME IndInv, BaseInv', Check
    PROVE  SinceInv' /\ HeardInv'
  <1> DEFINE stale == {j \in enabled : Stale(j)}
  <1>1. TypeOK /\ TypeOK'
    BY DEF IndInv, BaseInv
  <1>2. /\ up /\ up' /\ enabled' = enabled /\ enabled \subseteq Jobs
        /\ last' = last /\ quiet' = quiet
        /\ watch' = IF watch = 0 THEN WatchGap ELSE watch
    BY <1>1 DEF Check, TypeOK, ghosts
  <1>3. /\ WatchGap \in Nat /\ fails \in Nat /\ Checking \in Nat /\ Checking <= Slack
        /\ Slack \in Nat /\ Cap \in Nat /\ watch \in 0..WatchGap
        /\ Checking = fails * WatchGap + (WatchGap - watch)
    BY <1>1, CheckingFacts, TimeAssumption DEF TypeOK, Checking
  <1> DEFINE Failed == fails' = IF watch = 0 THEN fails + 1 ELSE fails
  <1>4. \/ fails' = 0 /\ heard' = [j \in Jobs |-> heard[j] \/ j \in stale]
           /\ since' = IF since = Never THEN 0 ELSE since
        \/ Failed
    BY DEF Check, Report, SinceRecorded
  <1>5. Checking' \in Nat
    <2>1. fails' \in Nat /\ watch' \in 0..WatchGap /\ WatchGap \in Nat
      BY <1>1, TimeAssumption DEF TypeOK
    <2>2. \A f, g \in Nat : \A w \in 0..g : f * g + (g - w) \in Nat
      <3>1. \A f, g \in Nat : f * g \in Nat
        OBVIOUS
      <3>2. \A g \in Nat : \A w \in 0..g : g - w \in Nat
        OBVIOUS
      <3> QED BY <3>1, <3>2
    <2>3. Checking' = fails' * WatchGap + (WatchGap - watch')
      BY DEF Checking
    <2> QED BY <2>1, <2>2, <2>3
  <1>6. Failed => Checking' = Checking
    <2>1. (fails + 1) * WatchGap = fails * WatchGap + WatchGap /\ fails * WatchGap \in Nat
      BY <1>3
    <2> QED BY <1>2, <1>3, <2>1 DEF Checking
  <1>8. \/ since' = since /\ Failed
        \/ since' = IF since = Never THEN 0 ELSE since
    BY DEF Check, Report, SinceRecorded
  <1>9. SinceInv'
    <2> SUFFICES ASSUME NEW i \in Jobs
                 PROVE  /\ since' = Never => last[i] = Never
                        /\ i \in enabled /\ since' = Never => quiet[i] <= Checking'
                        /\ i \in enabled /\ since' # Never /\ last[i] = Never
                               => quiet[i] <= since' + Slack
      BY <1>2 DEF SinceInv
    <2>1. quiet[i] \in Int /\ (i \in enabled /\ since = Never => quiet[i] <= Checking)
          /\ (since = Never => last[i] = Never)
          /\ (i \in enabled /\ since # Never /\ last[i] = Never => quiet[i] <= since + Slack)
      BY <1>1, <1>2, WatchTypes DEF IndInv, SinceInv
    <2>2. CASE since' = since /\ Failed
      BY <2>1, <2>2, <1>6
    <2>3. CASE since' = IF since = Never THEN 0 ELSE since
      <3>1. since' # Never
        BY <2>3 DEF Never
      <3>2. CASE since = Never
        BY <3>1, <3>2, <2>1, <2>3, <1>3
      <3>3. CASE since # Never
        BY <3>1, <3>3, <2>1, <2>3
      <3> QED BY <3>2, <3>3
    <2> QED BY <1>8, <2>2, <2>3
  <1>10. HeardInv'
    <2> SUFFICES ASSUME NEW i \in enabled, ~heard'[i]
                 PROVE  ~Late(i, quiet[i] - Slack - Checking')
      BY <1>2 DEF HeardInv, Late, Slack
    <2>1. i \in Jobs /\ quiet[i] \in Int
      BY <1>1, <1>2, WatchTypes
    <2>2. ~heard[i]
      BY <2>1, <1>1 DEF Check, Report, TypeOK
    <2>3. CASE Failed
      BY <2>2, <2>3, <1>2, <1>6 DEF IndInv, HeardInv
    <2>4. CASE ~Failed
      <3>1. heard' = [j \in Jobs |-> heard[j] \/ j \in stale]
        BY <2>4, <1>4
      <3>2. ~Stale(i)
        BY <3>1, <2>1
      <3>3. /\ quiet[i] - Slack - Checking' \in Int /\ quiet[i] - Slack \in Int
            /\ quiet[i] - Slack - Checking' <= quiet[i] - Slack
        BY <1>3, <1>5, <2>1
      <3>4. CASE last[i] # Never
        <4>1. quiet[i] <= last[i] /\ last[i] \in Int /\ ~Late(i, last[i])
          BY <3>2, <3>4, <2>1, <1>1, NotStale, WatchTypes DEF IndInv, BaseInv, QuietInv
        <4>2. quiet[i] - Slack <= last[i]
          BY <4>1, <1>3, <2>1
        <4> QED BY <3>3, <4>1, <4>2, LateFacts, <2>1
      <3>5. CASE last[i] = Never /\ since # Never
        <4>1. quiet[i] <= since + Slack /\ since \in Int /\ ~Late(i, since)
          BY <3>2, <3>5, <2>1, <1>1, <1>2, NotStale, WatchTypes DEF IndInv, SinceInv
        <4>2. quiet[i] - Slack <= since
          BY <4>1, <1>3, <2>1
        <4> QED BY <3>3, <4>1, <4>2, LateFacts, <2>1
      <3>6. CASE since = Never
        <4>1. quiet[i] <= Checking
          BY <3>6, <2>1, <1>2 DEF IndInv, SinceInv
        <4>2. quiet[i] - Slack <= 0
          BY <4>1, <1>3, <2>1
        <4> QED BY <3>3, <4>2, LateFacts, <2>1
      <3> QED BY <3>4, <3>5, <3>6
    <2> QED BY <2>3, <2>4
  <1> QED BY <1>9, <1>10

(* Quiet, the records and the time since the last check age together.      *)
LEMMA TickWatch ==
    ASSUME IndInv, BaseInv', Tick
    PROVE  SinceInv' /\ HeardInv'
  <1>1. TypeOK /\ TypeOK'
    BY DEF IndInv, BaseInv
  <1>2. up' = up /\ enabled' = enabled /\ heard' = heard /\ enabled \subseteq Jobs
    BY <1>1 DEF Tick, TypeOK
  <1>3. Slack \in Nat /\ Cap \in Nat /\ Checking \in Nat
    BY <1>1, CheckingFacts, TimeAssumption
  <1>4. up => Checking' = Checking + 1
    <2>1. fails' = fails /\ fails * WatchGap \in Nat /\ WatchGap \in Nat /\ watch \in Nat
      BY <1>1, TimeAssumption DEF Tick, TypeOK
    <2> QED BY <2>1 DEF Tick, Checking
  <1>5. \A j \in Jobs : ~up => quiet'[j] = quiet[j]
    BY <1>1 DEF Tick, TypeOK
  <1>6. \A j \in enabled : up => quiet'[j] = Older(quiet[j])
    BY <1>1, <1>2 DEF Tick
  <1>7. \A j \in Jobs : last'[j] = Older(last[j])
    BY DEF Tick
  <1>8. since' = Older(since)
    BY DEF Tick
  <1>9. \A a \in (0..Cap) \union {Never} :
            /\ Older(a) = Never <=> a = Never
            /\ a # Never => Older(a) = IF a < Cap THEN a + 1 ELSE Cap
    BY <1>3 DEF Older, Never
  <1>10. SinceInv'
    <2> SUFFICES ASSUME NEW i \in Jobs
                 PROVE  /\ ~up => quiet'[i] = 0
                        /\ since' = Never => last'[i] = Never
                        /\ up /\ i \in enabled /\ since' = Never => quiet'[i] <= Checking'
                        /\ up /\ i \in enabled /\ since' # Never /\ last'[i] = Never
                               => quiet'[i] <= since' + Slack
      BY <1>2 DEF SinceInv
    <2>1. /\ quiet[i] \in 0..Cap /\ last[i] \in (0..Cap) \union {Never}
          /\ since \in (0..Cap) \union {Never}
      BY <1>1, WatchTypes
    <2>2. (since' = Never <=> since = Never) /\ (last'[i] = Never <=> last[i] = Never)
      BY <2>1, <1>7, <1>8, <1>9
    <2>3. ~up => quiet'[i] = 0
      BY <1>5 DEF IndInv, SinceInv
    <2>4. since' = Never => last'[i] = Never
      BY <2>2 DEF IndInv, SinceInv
    <2>5. ASSUME up, i \in enabled
          PROVE  quiet'[i] \in Int /\ quiet'[i] <= quiet[i] + 1 /\ quiet'[i] <= Cap
      BY <2>1, <2>5, <1>3, <1>6, <1>9 DEF Never
    <2>6. ASSUME up, i \in enabled, since' = Never
          PROVE  quiet'[i] <= Checking'
      <3>1. quiet[i] <= Checking
        BY <2>2, <2>6 DEF IndInv, SinceInv
      <3> QED BY <3>1, <2>1, <2>5, <2>6, <1>3, <1>4
    <2>7. ASSUME up, i \in enabled, since' # Never, last'[i] = Never
          PROVE  quiet'[i] <= since' + Slack
      <3>1. quiet[i] <= since + Slack /\ since \in 0..Cap
        BY <2>1, <2>2, <2>7 DEF IndInv, SinceInv
      <3>2. since' = IF since < Cap THEN since + 1 ELSE Cap
        BY <3>1, <2>2, <2>7, <1>8, <1>9
      <3> QED BY <3>1, <3>2, <2>1, <2>5, <2>7, <1>3
    <2> QED BY <2>3, <2>4, <2>6, <2>7
  <1>11. HeardInv'
    <2> SUFFICES ASSUME NEW i \in enabled, up, ~heard[i]
                 PROVE  ~Late(i, quiet'[i] - Slack - Checking')
      BY <1>2 DEF HeardInv, Late, Slack
    <2>1. i \in Jobs /\ quiet[i] \in 0..Cap
      BY <1>1, <1>2, WatchTypes
    <2>2. quiet'[i] \in Int /\ quiet'[i] <= quiet[i] + 1
      BY <2>1, <1>3, <1>6, <1>9 DEF Never
    <2>3. ~Late(i, quiet[i] - Slack - Checking)
      BY DEF IndInv, HeardInv
    <2>4. /\ quiet'[i] - Slack - Checking' <= quiet[i] - Slack - Checking
          /\ quiet'[i] - Slack - Checking' \in Int /\ quiet[i] - Slack - Checking \in Int
      BY <2>1, <2>2, <1>3, <1>4
    <2> QED BY <2>1, <2>3, <2>4, LateFacts
  <1> QED BY <1>10, <1>11

LEMMA NextWatch ==
    ASSUME IndInv, [Next]_vars
    PROVE  IndInv'
  <1>1. BaseInv'
    BY NextInv DEF IndInv
  <1>2. CASE \E config \in [Jobs -> Kinds], context \in BOOLEAN : Start(config, context)
    BY <1>1, <1>2, StartWatch DEF IndInv
  <1>3. CASE \E j \in Jobs : Fire(j)
    BY <1>1, <1>3, FireWatch DEF IndInv
  <1>4. CASE \E j \in Jobs : Finish(j)
    BY <1>1, <1>4, FinishWatch DEF IndInv
  <1>5. CASE Check
    BY <1>1, <1>5, CheckWatch DEF IndInv
  <1>6. CASE Crash
    BY <1>1, <1>6, CrashWatch DEF IndInv
  <1>7. CASE Tick
    BY <1>1, <1>7, TickWatch DEF IndInv
  <1>8. CASE \/ \E j \in Jobs : Skip(j) \/ Miss(j) \/ Hang(j)
             \/ \E z \in Zones : SetTimezone(z)
             \/ UNCHANGED vars
    BY <1>1, <1>8, OtherWatch DEF IndInv
  <1> QED BY <1>2, <1>3, <1>4, <1>5, <1>6, <1>7, <1>8 DEF Next

(* The whole inductive invariant: the jobs', the triggers' and the         *)
(* watchdog's.                                                             *)
THEOREM IndInvHolds == Spec => []IndInv
  <1>1. Init => IndInv
    BY InitInv, InitWatch DEF IndInv
  <1>2. IndInv /\ [Next]_vars => IndInv'
    BY NextWatch
  <1> QED BY <1>1, <1>2, PTL DEF Spec

(* Silence is heard, whatever the faults: no job of which nothing was      *)
(* heard for its tolerance and the checks it takes is left unreported.     *)
THEOREM SilenceHeard == Spec => []SilenceIsHeard
  <1>1. IndInv => SilenceIsHeard
    <2> SUFFICES ASSUME IndInv, NEW j \in enabled, up, ~heard[j]
                 PROVE  ~Late(j, quiet[j] - 2 * Slack)
      BY DEF SilenceIsHeard
    <2>1. j \in Jobs /\ quiet[j] \in Int
      BY WatchTypes DEF IndInv, BaseInv
    <2>2. Checking \in Nat /\ Slack \in Nat /\ Checking <= Slack
      BY CheckingFacts DEF IndInv, BaseInv
    <2>3. ~Late(j, quiet[j] - Slack - Checking)
      BY DEF IndInv, HeardInv
    <2>4. /\ quiet[j] - 2 * Slack <= quiet[j] - Slack - Checking
          /\ quiet[j] - 2 * Slack \in Int /\ quiet[j] - Slack - Checking \in Int
      BY <2>1, <2>2
    <2> QED BY <2>1, <2>3, <2>4, LateFacts
  <1> QED BY <1>1, IndInvHolds, PTL
===============================================================================
