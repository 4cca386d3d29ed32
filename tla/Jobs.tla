-------------------------------- MODULE Jobs ----------------------------------
(***************************************************************************)
(* The job scheduler, the recording of runs, and the watchdog.             *)
(*                                                                         *)
(* App.run registers the jobs that jobs.yaml enables, wraps each `run` so  *)
(* that its execution is recorded when it ends, adds the watchdog and      *)
(* starts APScheduler.  From then on jobs fire on their crons in threads   *)
(* of the pool, the watchdog compares the newest recorded run of each with *)
(* the longest gap of its cron, and /timezone gives every trigger another  *)
(* zone, and takes its cron from it.  Runs are rows of the database and    *)
(* outlive the process; the registered jobs, the triggers and the          *)
(* operating zone do not.                                                  *)
(*                                                                         *)
(* Time passes in ticks.  A cron is the cycle of the gaps between its      *)
(* fires; a row of job_runs is kept as the age of its started_at.          *)
(***************************************************************************)
EXTENDS Integers, Sequences, FiniteSets

CONSTANTS
    CoreJobs,     \* jobs of register_core_jobs
    TelegramJobs, \* jobs of register_telegram_jobs
    NeedSchedule, \* core jobs that are skipped unless they have a schedule
    AlwaysOn,     \* auth_health, registered unless it is switched off
    NeedContext,  \* scheduling_poll_check, skipped without a scheduling context
    Gaps,         \* Gaps[j]: the gaps between fires over one cycle of j's cron
    WatchGap,     \* the gap of the watchdog's cron
    Samples,      \* fire times expected_period looks at
    GraceFloor,   \* the least grace a late job is given
    Zones, None,  \* time zones; no zone
    Personality,  \* the zone of personality.md
    Own,          \* Own[j]: the timezone of j in jobs.yaml, or None
    LongestRun,   \* (bound) ticks a run takes at most, unless it hangs
    MaxFails,     \* (bound) checks of the watchdog that fail in a row
    Cap,          \* (bound) ages are not told apart from here on
    Faults        \* "crash", "record", "send", "miss", "hang", "persist", "reschedule"

Jobs == CoreJobs \union TelegramJobs

ASSUME GapAssumption ==
    \A j \in Jobs : /\ Gaps[j] \in Seq(Nat \ {0}) /\ Gaps[j] # <<>>
                    /\ \A k \in 1..Len(Gaps[j]) : Gaps[j][k] + LongestRun < Cap
ASSUME TimeAssumption ==
    /\ WatchGap \in Nat \ {0} /\ Samples \in Nat \ {0, 1}
    /\ GraceFloor \in Nat /\ LongestRun \in Nat /\ MaxFails \in Nat /\ Cap \in Nat
ASSUME ZoneAssumption ==
    None \notin Zones /\ Personality \in Zones /\ Own \in [Jobs -> Zones \union {None}]

VARIABLES
    up,       \* the process runs
    enabled,  \* names registered with the scheduler (_jobs, _schedules)
    pos,      \* pos[j]: the gap that follows j's next fire
    wait,     \* wait[j]: ticks to j's next fire
    watch,    \* ticks to the watchdog's next fire
    running,  \* running[j]: age of the run in progress
    last,     \* last[j]: age of the newest row of j (last_job_run)
    since,    \* age of the oldest row of all (first_job_run)
    zone,     \* the operating zone (timezone._timezone)
    stored,   \* the override in the config table
    trig,     \* trig[j]: the zone of j's trigger
    lost,     \* jobs, and the watchdog, whose trigger has no cron any more
    quiet,    \* (ghost) ticks since j last started, or the process did
    heard,    \* (ghost) the owner was told of j since then
    trouble,  \* (ghost) what went wrong for j, in or before its current run
    saved,    \* (ghost) the last /timezone stored its zone
    fails     \* (ghost) checks in a row that told or recorded nothing

triggers == <<pos, wait, trig, lost>>
records == <<last, since>>
zones == <<zone, stored, saved>>
ghosts == <<quiet, heard, trouble>>
vars == <<up, enabled, triggers, watch, running, records, zones, ghosts, fails>>

Watchdog == "job_watchdog"
Never == -1
Idle == -1
Hung == -2
Kinds == {"absent", "off", "on", "timed"}   \* of an entry of jobs.yaml
Fault(f) == f \in Faults
Cycle(j) == Len(Gaps[j])
AllGaps(j) == {Gaps[j][k] : k \in 1..Cycle(j)}
GapBefore(j, p) == Gaps[j][IF p = 1 THEN Cycle(j) ELSE p - 1]

-----------------------------------------------------------------------------
(* What the watchdog makes of a job.                                       *)

(* (mutant) The next gap stands for all.                                   *)
NextGap(j) == {Gaps[j][pos[j]]}

(* The gaps between the next fire times, wherever the cycle is.            *)
SampledGaps(j) ==
    {Gaps[j][k] : k \in {k \in 1..Cycle(j) :
        \E i \in 0..(Samples - 2), lap \in 0..Samples : k + lap * Cycle(j) = pos[j] + i}}

(* An age is beyond period + max(period / 2, floor).                       *)
Overdue(age, period) == 2 * age > 3 * period /\ age > period + GraceFloor

Late(j, age) == \A g \in AllGaps(j) : Overdue(age, g)

(* The period is the longest of the sampled gaps: an age beyond the        *)
(* tolerance of the longest is one beyond that of each.                    *)
Stale(j) ==
    IF last[j] # Never THEN \A g \in SampledGaps(j) : Overdue(last[j], g)
    ELSE since # Never /\ \A g \in SampledGaps(j) : Overdue(since, g)

-----------------------------------------------------------------------------
(* Start-up.                                                               *)

(* The jobs registered for a jobs.yaml, which may have changed since the   *)
(* process last ran.                                                       *)
Registered(config, context) ==
    {j \in CoreJobs \ AlwaysOn :
        config[j] = "timed" \/ (config[j] = "on" /\ j \notin NeedSchedule)}
    \union {j \in CoreJobs \intersect AlwaysOn : config[j] # "off"}
    \union {j \in TelegramJobs :
        config[j] \in {"on", "timed"} /\ (j \in NeedContext => context)}

(* Any phase of a cron: p names the gap after the next fire, which comes   *)
(* within the gap before.                                                  *)
Phases(j) == UNION {{p} \X (1..GapBefore(j, p)) : p \in 1..Cycle(j)}
NewPhases(S) ==
    \E ph \in {f \in [S -> UNION {Phases(j) : j \in Jobs}] : \A j \in S : f[j] \in Phases(j)} :
        /\ pos' = [j \in Jobs |-> IF j \in S THEN ph[j][1] ELSE pos[j]]
        /\ wait' = [j \in Jobs |-> IF j \in S THEN ph[j][2] ELSE wait[j]]

Init ==
    /\ up = FALSE /\ enabled = {} /\ watch = WatchGap
    /\ pos = [j \in Jobs |-> 1] /\ wait = [j \in Jobs |-> 1]
    /\ running = [j \in Jobs |-> Idle]
    /\ last = [j \in Jobs |-> Never] /\ since = Never
    /\ zone = Personality /\ stored = None /\ saved = TRUE
    /\ trig = [j \in Jobs |-> zone] /\ lost = {}
    /\ quiet = [j \in Jobs |-> 0] /\ heard = [j \in Jobs |-> FALSE]
    /\ trouble = [j \in Jobs |-> {}] /\ fails = 0

(* (mutant) The override of /timezone is not loaded.                       *)
PersonalityZone == Personality

OperatingZone == IF stored = None THEN Personality ELSE stored

Start(config, context) ==
    /\ ~up /\ up' = TRUE
    /\ enabled' = Registered(config, context)
    /\ zone' = OperatingZone
    /\ trig' = [j \in Jobs |-> IF Own[j] = None THEN zone' ELSE Own[j]]
    /\ lost' = {}
    /\ NewPhases(enabled')
    /\ \E w \in 1..WatchGap : watch' = w
    /\ UNCHANGED <<running, records, stored, saved, ghosts, fails>>

(* The scheduler's memory is gone; what the next process sets anew is put  *)
(* to a default here.  The operating zone is kept for comparison.          *)
Crash ==
    /\ Fault("crash") /\ up /\ up' = FALSE
    /\ pos' = [j \in Jobs |-> 1] /\ wait' = [j \in Jobs |-> 1] /\ watch' = WatchGap
    /\ enabled' = {} /\ trig' = [j \in Jobs |-> Personality] /\ lost' = {}
    /\ running' = [j \in Jobs |-> Idle]
    /\ trouble' = [j \in Jobs |-> {"before", "run"}]
    /\ quiet' = [j \in Jobs |-> 0] /\ heard' = [j \in Jobs |-> FALSE]
    /\ fails' = 0
    /\ UNCHANGED <<records, zones>>

-----------------------------------------------------------------------------
(* Runs.                                                                   *)

Troubled(S) == [j \in Jobs |-> IF j \in S THEN {"before", "run"} ELSE trouble[j]]

(* The trigger moves to the fire after this one.                           *)
NextFire(j) ==
    /\ up /\ j \in enabled /\ wait[j] = 0
    /\ wait' = [wait EXCEPT ![j] = Gaps[j][pos[j]]]
    /\ pos' = [pos EXCEPT ![j] = IF @ = Cycle(j) THEN 1 ELSE @ + 1]
    /\ UNCHANGED <<up, enabled, trig, lost, watch, records, zones, fails>>

(* A trigger without a cron fires every second: at the times the cron had, *)
(* and at any other as well.                                               *)
StrayFire(j) ==
    /\ up /\ j \in enabled /\ j \in lost /\ wait[j] > 0
    /\ UNCHANGED <<up, enabled, triggers, watch, records, zones, fails>>

Fire(j) ==
    /\ NextFire(j) \/ StrayFire(j)
    /\ running[j] = Idle
    /\ running' = [running EXCEPT ![j] = 0]
    /\ trouble' = [trouble EXCEPT ![j] = @ \ {"run"}]
    /\ quiet' = [quiet EXCEPT ![j] = 0] /\ heard' = [heard EXCEPT ![j] = FALSE]

(* One instance at a time: a fire during a run is skipped.                 *)
Skip(j) ==
    /\ NextFire(j)
    /\ running[j] # Idle
    /\ trouble' = Troubled({j})
    /\ UNCHANGED <<running, quiet, heard>>

(* No thread of the pool was free in time.                                 *)
Miss(j) ==
    /\ Fault("miss") /\ NextFire(j)
    /\ trouble' = Troubled({j})
    /\ UNCHANGED <<running, quiet, heard>>

Hang(j) ==
    /\ Fault("hang") /\ running[j] >= 0
    /\ running' = [running EXCEPT ![j] = Hung]
    /\ trouble' = Troubled({j})
    /\ UNCHANGED <<up, enabled, triggers, watch, records, zones, quiet, heard, fails>>

(* (mutant) What is recorded is the time of the insertion.                 *)
AgeAtEnd(age) == 0

(* started_at is taken before the job runs.                                *)
AgeRecorded(age) == age

(* MIN(started_at); Never is below every age.                             *)
Oldest(a, b) == IF a < b THEN b ELSE a

(* The run ends, in a result or an exception, and is recorded; a failed    *)
(* recording is swallowed.                                                 *)
Finish(j) ==
    /\ running[j] >= 0
    /\ running' = [running EXCEPT ![j] = Idle]
    /\ \/ /\ last' = [last EXCEPT ![j] = AgeRecorded(running[j])]
          /\ since' = Oldest(since, AgeRecorded(running[j]))
          /\ trouble' = [trouble EXCEPT ![j] = IF "run" \in @ THEN @ ELSE {}]
       \/ /\ Fault("record")
          /\ trouble' = Troubled({j})
          /\ UNCHANGED records
    /\ UNCHANGED <<up, enabled, triggers, watch, zones, quiet, heard, fails>>

-----------------------------------------------------------------------------
(* The watchdog, the owner, and time.                                      *)

(* (mutant) The watchdog's own runs are not recorded.                      *)
SinceUnrecorded == since

(* Its own run is wrapped like the others.                                 *)
SinceRecorded == IF since = Never THEN 0 ELSE since

(* The stale jobs are reported in one message, in every check while they   *)
(* are; a failed send is swallowed.  The failures of the checks that the   *)
(* cron has are counted.                                                   *)
Report(stale) ==
    \/ /\ heard' = [j \in Jobs |-> heard[j] \/ j \in stale]
       /\ since' = SinceRecorded /\ fails' = 0
    \/ /\ IF watch = 0 THEN fails < MaxFails /\ fails' = fails + 1 ELSE UNCHANGED fails
       /\ \/ Fault("send") /\ stale # {} /\ UNCHANGED heard /\ since' = SinceRecorded
          \/ /\ Fault("record") /\ UNCHANGED since
             /\ heard' = [j \in Jobs |-> heard[j] \/ j \in stale]
          \/ Fault("miss") /\ UNCHANGED <<heard, since>>

Check ==
    /\ up /\ (watch = 0 \/ Watchdog \in lost)
    /\ watch' = IF watch = 0 THEN WatchGap ELSE watch
    /\ Report({j \in enabled : Stale(j)})
    /\ UNCHANGED <<up, enabled, triggers, running, last, zones, quiet, trouble>>

(* The fields of a cron are read off its trigger as attributes it does not *)
(* have, and the trigger that takes its place is made of none.             *)
LostFields(S) == S

(* /timezone: the operating zone, the config table, every cron trigger,    *)
(* the watchdog's too.  The last two may fail, which is logged.  What was  *)
(* the cron stays in the runner's schedules, in the new zone: pos and wait *)
(* are its times from here on, whether the trigger has it or not.          *)
SetTimezone(z) ==
    /\ up /\ zone' = z
    /\ \E S \in SUBSET (enabled \union {Watchdog}), kept \in BOOLEAN :
        /\ S = enabled \union {Watchdog} \/ Fault("reschedule")
        /\ kept \/ Fault("persist")
        /\ stored' = IF kept THEN z ELSE stored
        /\ saved' = kept
        /\ trig' = [j \in Jobs |-> IF j \in S THEN z ELSE trig[j]]
        /\ lost' = lost \union LostFields(S)
        /\ NewPhases(S \intersect enabled)
        /\ trouble' = Troubled(S \intersect enabled)
    /\ UNCHANGED <<up, enabled, watch, running, records, quiet, heard, fails>>

Older(age) == IF age < 0 THEN age ELSE IF age < Cap THEN age + 1 ELSE age

(* Fires are on time and runs short.                                       *)
Tick ==
    /\ up => watch > 0 /\ \A j \in enabled : wait[j] > 0 /\ running[j] < LongestRun
    /\ wait' = [j \in Jobs |-> IF up /\ j \in enabled THEN wait[j] - 1 ELSE wait[j]]
    /\ watch' = IF up THEN watch - 1 ELSE watch
    /\ running' = [j \in Jobs |-> Older(running[j])]
    /\ last' = [j \in Jobs |-> Older(last[j])] /\ since' = Older(since)
    /\ quiet' = [j \in Jobs |-> IF up /\ j \in enabled THEN Older(quiet[j]) ELSE quiet[j]]
    /\ UNCHANGED <<up, enabled, pos, trig, lost, zones, heard, trouble, fails>>

Next ==
    \/ \E config \in [Jobs -> Kinds], context \in BOOLEAN : Start(config, context)
    \/ \E j \in Jobs : Fire(j) \/ Skip(j) \/ Miss(j) \/ Hang(j) \/ Finish(j)
    \/ \E z \in Zones : SetTimezone(z)
    \/ Check \/ Crash \/ Tick

Spec == Init /\ [][Next]_vars

-----------------------------------------------------------------------------
(* Properties.                                                             *)

TypeOK ==
    /\ up \in BOOLEAN /\ enabled \subseteq Jobs
    /\ pos \in [Jobs -> Nat] /\ wait \in [Jobs -> Nat] /\ watch \in 0..WatchGap
    /\ \A j \in Jobs : pos[j] \in 1..Cycle(j) /\ wait[j] <= GapBefore(j, pos[j])
    /\ running \in [Jobs -> (0..LongestRun) \union {Idle, Hung}]
    /\ last \in [Jobs -> (0..Cap) \union {Never}] /\ since \in (0..Cap) \union {Never}
    /\ zone \in Zones /\ stored \in Zones \union {None} /\ trig \in [Jobs -> Zones]
    /\ lost \subseteq enabled \union {Watchdog}
    /\ quiet \in [Jobs -> 0..Cap] /\ heard \in [Jobs -> BOOLEAN]
    /\ trouble \in [Jobs -> SUBSET {"before", "run"}]
    /\ saved \in BOOLEAN /\ fails \in 0..MaxFails

(* The owner is not paged for drift: a job that has run before is reported *)
(* only if something went wrong since (a crash, a hang, a missed fire or   *)
(* one skipped, a lost record, a change of zone).  Weekends, runs that     *)
(* take their time and the order of threads are not enough                 *)
(* (job_watchdog.py, _tolerance; recording.py, the longest gap).           *)
AlarmHasCause ==
    \A j \in enabled : up /\ last[j] # Never /\ Stale(j) => "before" \in trouble[j]

(* Two checks, where MaxFails fail in a row, are this far apart at most.   *)
Slack == (1 + MaxFails) * WatchGap

(* Silence is heard: a job that has not started for its tolerance while    *)
(* the process was up, whether it hangs, is missed time and again or never *)
(* ran at all, has been reported within the checks it takes, two, and as   *)
(* many again for each one that failed in between (the module docstring of *)
(* job_watchdog.py: four weeks of silence).                                *)
SilenceIsHeard ==
    \A j \in enabled :
        up /\ Late(j, quiet[j] - 2 * Slack) => heard[j]

(* The zone of the last /timezone is the one the next process works in,    *)
(* and the one in which every job without a zone of its own gets its cron, *)
(* also where the command failed to reach some of the triggers, as long as *)
(* it stored the zone (CHANGELOG.md:73).  It is about zones only: the      *)
(* times of the jobs are FiresOnSchedule's.                                *)
ZoneSurvivesRestart ==
    [][~up /\ up' /\ saved =>
         zone' = zone /\ \A j \in enabled' : Own[j] = None => trig'[j] = zone]_vars

(* A job starts at the times of its cron and at no other, before /timezone *)
(* and after it: what CHANGELOG.md:72, the docstring of reschedule_all and *)
(* the reply of the command say.  The code breaks it: the triggers that    *)
(* /timezone leaves have no cron and fire every second.                    *)
FiresOnSchedule ==
    [][\A j \in Jobs : running[j] = Idle /\ running'[j] # Idle => wait[j] = 0]_vars

(* What the steps keep, and the proofs use.  A run belongs to a registered *)
(* job; what is troubled now is troubled before the next record; a job     *)
(* without trouble has its last start and its next fire, or the run in     *)
(* progress, within one gap of each other; no start is younger than it is  *)
(* recorded to be; and the operating zone is the one a restart would load, *)
(* unless it was not stored.                                               *)
RunInv ==
    \A j \in Jobs :
        /\ running[j] # Idle => up /\ j \in enabled
        /\ "run" \in trouble[j] => "before" \in trouble[j]
        /\ running[j] = Hung => "run" \in trouble[j]
        /\ last[j] # Never /\ "before" \notin trouble[j] => up /\ j \in enabled
GapInv ==
    \A j \in Jobs :
        /\ running[j] >= 0 /\ "run" \notin trouble[j]
               => running[j] + wait[j] <= GapBefore(j, pos[j])
        /\ last[j] # Never /\ "before" \notin trouble[j] =>
               IF running[j] = Idle THEN last[j] + wait[j] <= GapBefore(j, pos[j])
               ELSE \E g \in AllGaps(j) : last[j] <= g + running[j]
QuietInv ==
    \A j \in Jobs :
        /\ running[j] >= 0 => quiet[j] <= running[j]
        /\ last[j] # Never => quiet[j] <= last[j]
ZoneInv == saved => zone = OperatingZone
BaseInv == TypeOK /\ RunInv /\ GapInv /\ QuietInv /\ ZoneInv

(* Of the watchdog: nothing is quiet while the process is down; until the  *)
(* first record, few checks have passed; a job that never ran has not been *)
(* quiet for much longer than there are records; and one that was not      *)
(* reported was not late at the last check that did not fail.              *)
Checking == fails * WatchGap + (WatchGap - watch)
SinceInv ==
    \A j \in Jobs :
        /\ ~up => quiet[j] = 0
        /\ since = Never => last[j] = Never
        /\ up /\ j \in enabled /\ since = Never => quiet[j] <= Checking
        /\ up /\ j \in enabled /\ since # Never /\ last[j] = Never
               => quiet[j] <= since + Slack
HeardInv ==
    \A j \in enabled :
        up /\ ~heard[j] => ~Late(j, quiet[j] - Slack - Checking)
IndInv == BaseInv /\ SinceInv /\ HeardInv
==============================================================================
