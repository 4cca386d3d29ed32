# Verification of cosinabox

`cosinabox` is a chief-of-staff bot: an owner talks to it on Telegram, a
scheduler runs jobs (briefings, polls, reminders) beside the conversation, and
both drive one agent loop that calls a model, judges and executes tools, and
keeps its state in one SQLite file. This directory holds TLA+ models of the
parts where several threads, failures and restarts meet, the TLC configurations
that check them on small instances, and TLAPS proofs of the main theorems for
every value of the constants. Paths below are relative to `src/src/cosinabox/`
unless they start with `src/`.

    Scheduling.tla            group scheduling: rows, outreach, buttons, polling job
    SchedulingLifecycle.tla   what it promises: the status graph and what it means
    MCScheduling.tla          instances for TLC
    SchedulingProofs.tla      its theorems
    AgentLoop.tla             agent loop, breaker, approvals, spend
    MCAgentLoop.tla           instances for TLC
    AgentLoopProofs.tla       its theorems
    Conversation.tla          history and summary of a session
    MCConversation.tla        instance for TLC
    ConversationProofs.tla    its theorems
    Commitments.tla           commitments, the log of closures, the tools
    MCCommitments.tla         instance for TLC
    CommitmentsProofs.tla     its theorems
    Jobs.tla                  scheduler, recording of runs, watchdog, time zone
    MCJobs.tla                instance for TLC
    JobsProofs.tla            its theorems
    Tables.tla                the tables of a polling job: connection and disk
    InboundEmail.tla          polling jobs: alerts of urgent mail,
    Debrief.tla                 debriefs of meetings,
    Extraction.tla              facts of mails and transcripts,
    Digest.tla                  the weekly research digest
    PollingProofs.tla         theorems of these four
    AuthHealth.tla            the watcher of the Google accounts
    Consult.tla               the consult server
    Verifier.tla              the pool that verifies open commitments
    Interview.tla             the interview and its progress on disk
    Slots.tla                 candidate slots: windows, conflicts, scores, choice
    SlotsProofs.tla           lemmas and proofs about it
    AllServices.tla           the modules from Tables on, in one process
    MCServices.tla            instance for TLC
    ServicesProofs.tla        theorems of AuthHealth, Consult, Verifier, Interview
                              and of the composition
    PROJECT.json              components, runs, mutants, source map, hazards, theorems

Run `tlc -config <run>.cfg <MC module>.tla` for a run of the tables below and
`tlapm <X>Proofs.tla` for the proofs.

## 1. Inventory

### Threads and shared state

* The Telegram thread (python-telegram-bot's asyncio loop). The handler of
  direct messages, the commands and the button callback run on it. The message
  handler calls the agent loop synchronously, so it finishes one run before it
  takes the next message or tap.
* The worker threads of APScheduler. Each job is scheduled with the default of
  one instance at a time; different jobs overlap with each other and with the
  Telegram thread.
* Daemon threads of sub-agents (at most three work at once), and the thread pool
  of the commitment verifier.
* One `sqlite3` connection shared by all of them (`memory/sqlite.py`). There is
  a lock, and the comment at `memory/sqlite.py:264` describes it as serializing
  every call, but only the stores of commitments, job runs, research and
  keep-warm take it. Statements of the others interleave, and a commit of any
  thread commits what every thread has executed so far.
* Module globals: the circuit breaker (`agent/loop.py`), the approval tokens
  (`agent/policy.py`), the OAuth alert cooldown, the consult limiter and
  metrics, each under a lock of its own.

### Components

| component | state | operations | what is hard | what makes it correct |
|---|---|---|---|---|
| Group scheduling (`scheduling/`, `jobs/scheduling_poll_check.py`, `bot/scheduling_callbacks.py`, `tools/scheduling_tool.py`) | rows of four tables; the calendar; messages sent | create, decide (approve, reject, cancel, book, rework), outreach, tap, poll run | decisions and taps against a poll run that acts on what it read some steps ago; commits before effects; failed sends | statuses walk the graph; converged means unanimous; one event; nobody is left waiting |
| Agent loop (`agent/loop.py`, `agent/failover.py`) | breaker count and time; locals of a run | run: check, gate, call, fail over, judge, execute, end | concurrent runs share the breaker; eight rounds and three models per run | bounded count, recovery, bounded overrun |
| Approvals (`agent/policy.py`, `app/chat.py`) | one-shot tokens; pending entry of the handler | grant, consume, sweep, approve | expiry against use, several calls in a batch, an entry older than the run | a gated tool runs once per approval, in the owner's session only |
| Spend (`agent/cost.py`) | today's sum in memory and in a row | check, record, persist, reload | update under the lock, persistence outside | the two agree up to what is in flight |
| Conversation (`agent/summarize.py`, `memory/sqlite.py`) | `messages`, `summaries` | store, compact, load | a compaction is five steps with a model call among them | nothing stored is lost; a summary precedes the rows |
| Sub-agents (`agent/subagent.py`, `agent/rela.py`) | semaphore; a namespace | ingest, query | bounded fan-out | at most three at work |
| Router (`agent/routing.py`) | none | choose a model | - | - |
| Commitments (`commitments/`, `tools/commitments_tool.py`) | `commitments`, `manual_closures` | create, update, close, dismiss, reopen, verify | status checked in one locked section and written in another; timeouts of a pool whose workers go on | one closure per close; verdicts of the last verification |
| Job scheduling and recording (`scheduler/`, `timezone.py`, `app/jobs.py`) | registered jobs and triggers; `job_runs`; the stored zone | register, fire, record, reschedule | rows are written when a run ends, with the time it began; a zone is kept in three places | a run is recorded with its start; a restart keeps the stored zone; a job fires at the times of its cron |
| Watchdog (`jobs/job_watchdog.py`) | reads `job_runs` | compare with the period and a grace | a period sampled from the next fires; jobs that never ran | silence is reported, drift is not |
| Auth health (`jobs/auth_health*.py`) | health in memory and in a table | probe, alert on a change | restart forgets, transient errors keep, the news may be lost | the owner's picture is the watcher's |
| Inbound mail (`jobs/inbound_email_check.py`) | window start, processed ids | search, mark, alert, advance | marks before alerts, window start after the search | a mail recognised as urgent is alerted once, and none passed over without a known cause; a listed sender is recognised |
| Debrief (`jobs/post_meeting_debrief.py`) | `debrief_state` | find ended meetings, send, mark | fifteen-minute window, send before mark | a meeting is debriefed once, and has three chances |
| Extraction (`jobs/extract*.py`) | processed keys | fetch, ingest, mark | an ingest that fails between facts | a marked source is stored whole, and once |
| Briefings (`jobs/morning_briefing.py`, `evening_wrap.py`, `weekly_review.py`, `pre_meeting_prep.py`, `followup_reminder.py`, `crm_email_sync.py`, `rela_daily_scan.py`) | none of their own | gather, run the loop, send | runs of the agent loop beside the owner's | those of the loop |
| Research digest (`research/`, `jobs/research_digest.py`) | signals, dedup keys | collect, classify, synthesize, save, send | saved before sent | what the next weeks leave out was read, and nothing is read twice |
| Consult server (`consult/`) | limiter, metrics | consult, status | concurrent handlers; a window that restarts | at most twice the limit in a window's time, no refusal without cause |
| Slot finder (`scheduling/slot_scorer.py`) | none | windows, conflicts, scores, choice | zones whose night belongs to another date; intervals that nest | the best slots there are, none at night |
| Interview (`interview/`, `cli/interview.py`) | progress and the files of the configuration | start, resume, apply, store | written before the progress is stored | no step is passed without its section |
| Memory service, backups (`memory/client.py`, `backup.py`, `keep_warm_history.py`) | copies of the file | recall, store, back up, prune | - | the newest copies stay |
| Tools (`tools/`) | tokens of Google accounts, alert cooldown | requests | expiry of credentials | - |
| Wiring, bot, command line, doctor, migrations, templates, analytics | configuration | start, report | - | - |

How they interact: the message handler grants tokens and runs the agent loop;
the loop asks the policy engine, executes tools (scheduling and commitment
tools write rows), records spend and history; jobs run the loop under sessions
of their own, or work on rows directly and send; the debrief job writes into
the owner's session; the polling job moves requests that the tools and the
button callback also write.

## 2. Plan

Done, in the order of what matters most to the owner:

1. `SchedulingLifecycle`, the abstract specification, and `Scheduling`, which
   implements it (refinement checked and proved).
2. `AgentLoop`, what concurrent runs share.
3. `Conversation`, the history a run reads and compacts.
4. `Commitments`, the store and its tools.

5. `Jobs`: scheduler, recording, watchdog and the operating zone over a clock.
6. `InboundEmail`, `Debrief`, `Extraction` and `Digest`, the polling jobs, over
   `Tables`, which is the connection they share with every other thread; for
   each order of mark and effect, what may be lost or repeated and by what.
7. `AuthHealth`, `Consult`, `Slots`, `Verifier` and `Interview`.
8. Proofs of each module that has an invariant to prove: the scheduling, the
   agent loop, the conversation, the commitments, the jobs, then the polling
   jobs, the limiter, the auth watcher, the verifier and the interview, each by
   itself and in the composition `AllServices`.

What is left, in order of what it would add:

9. A composition of `Jobs` with one polling job, so that the fires a debrief
   loses are those the scheduler misses, and not a choice of their own.
10. Liveness of the polling jobs under fair fires: an urgent mail of a process
    that stays up is alerted.
11. `scheduling/backchannel.py`, if the application comes to call it.

Four runs show a disagreement between the code and its docs; further ones are
described in section 10.

## 3. Scheduling

### Model

One action per SQL commit, sent message or calendar call. The rows are
`status`, `offered`, `pstatus`, `age`, `thread`, `votes`, `eventId`; the world
is `keyboards` (who got buttons), `calendar` (events made) and `told` (what was
announced); `dropped` observes whom a failed send or a crash left out of the
last outreach, and no action reads it. The owner's thread and the polling job each have a program counter
and the values they have read and not yet used; a crash loses exactly those.
Slots are numbered by stored score; scores, times, texts and the parsing of
mail are nondeterministic input. `age` counts ticks since the outreach and
saturates at the safety cap, past which no comparison tells it apart.

* `OwnerSchedule`, `OwnerScore`, `OwnerAddSlot`, `OwnerSurface`:
  `start_scheduling`.
* `OwnerRead`, `OwnerDecide`, `OwnerLosesRace`: `record_decision`, whose guarded
  UPDATE is `MayTransition`.
* `SendPoll`, `SendDraft`, `SkipParticipant`, `OutreachFails`, `OutreachDone`:
  `execute_outreach`. `CreateEvent`, `CreateEventFails`, `PersistEvent`: the
  calendar part of a booking.
* `Tap`: the button callback, on the owner's thread, between decisions.
* `PollBegin` to `PollNotifyFails`: one run of the job. `PollReply` takes any
  verdicts; `PollConsensus` finds, `PollConverge` commits, `PollAnnounce`
  sends; `PollLoad` copies the statuses that `PollJudge` then uses.
* `Tick`, `Crash`, and `Fault`, which bounds the faults of a behaviour.

`SchedulingLifecycle` keeps `phase`, `agreed` and `event`: a request moves along
an edge of the graph, converges only on an agreed slot, acceptances are not
withdrawn, and the one event is made for a booked request. `Scheduling`
implements it with `phase <- status`, `agreed <- Agreed(r)`,
`event <- calendar`.

### Runs

| run | expects | shows |
|---|---|---|
| `SchedulingFaults` | pass, 2.17 M states | safety, who has the poll, the invariant behind it, the refinement: one person on Telegram and one on mail, two slots, one fault of any kind, every adapter or mail only |
| `SchedulingLive` | pass, 564 000 states | a consensus is announced and nobody stays waited for: two people on Telegram, one slot, one failed send, check or calendar call |
| `StalledPoll` | violation | a poll whose last vote comes after the last expiry is never escalated |

Bounds. Two participants are the least with whom a consensus can lack somebody,
and the two channels behave differently; two slots are the least on which the
agreed one is not the best; one request, since requests share only the job's
list (a failed notice drops the rest of it, which liveness would need and the
runs with `notify` faults do not claim); one fault, since each is a single
event between commits. The windows are 1, 2, 3 ticks, in the order of the real
ones. The proofs are for all of these.

Wiring. `wired` holds the adapters of the deployment, one of `Wirings`. The
application passes a calendar exactly when a calendar tool is configured
(`app/_core.py:221-232`). The context that the tools are built with has no bot: the
adapter is put into a copy made after them (`app/_core.py:284` and `425`). So the
run has the wiring that the outreach is written for, and the one with mail only
that a deployment without a calendar tool really gets, in which somebody is
skipped and nothing converges. With a bot there, one gap would remain: `schedule_group_meeting` never fills in a
participant's `telegram_id` (`tools/scheduling_tool.py:239-247`), without which
`send_telegram_poll` returns an error (`scheduling/outreach.py:97`). The people
in `Telegram` are those of the callers of `create_request` that have one; for
one without, every outreach is an `OutreachFails`.

`PollingMeansContacted` says what `approve` owes: while a request is polling,
everybody with a wired channel has the poll or is about to get it, but for those
whose own send failed or who had not had their turn when the process died. They
are `dropped`, get no poll unless the owner reworks and approves again, and are
waited for: a poll without a sent time neither nudges nor expires.

Fairness. `WF(OwnerContinues)`: a decision that began is a function call on a
live thread. `WF(PollStep)`: the scheduler fires the job every half hour and a
run consists of finite loops. `SF(Tick)`: real time passes between runs (weak
fairness is not enough because a run disables it). Owner and participants are
not fair. `SchedulingLive` has no crash and no failed notice: with either
between the commit of CONVERGED and the announcement, the announcement is lost
for good, and `ConsensusSurfaces` fails.

## 4. Agent loop

### Model

A session is run by one thread. `Start` is the breaker's check and the choice
of a model; `GateStops` and `Affordable` the budget gate; `Answered`, `StepsDown`,
`CallFails`, `CallBreaks` a model call and what may come of it; `RunTools` and
`HoldTools` a batch, judged as a whole before any of it is executed (judging
consumes tokens in both); `Record` and `Persist` the two halves of
`CostTracker.record`; `Reply` what the handler does with the result.
`OwnerApproves` and `OwnerSays` are the handler on a message that is, or is not,
an approval. Ages of tokens, of the pending entry and of the last failure are in
ticks and saturate one past the comparison that uses them. A tool call is its
tool and whether the rules gate it, since `scheduling_respond` is gated for one
of its actions only. Costs are small integers. `paid` counts what calls cost,
recorded or not; `confirmed` and `unconfirmed` keep what the owner said yes to
and what ran without it; these three are observers, no action reads them to
decide anything.

Left out: DENY and custom rules (as wired, `policy_rules` of
`integrations.yaml` reach no caller), the wording of an approval, a free tool
whose output happens to contain the text of a refusal, the change of day, spend
recorded by the consult server.

### Runs

| run | expects | shows |
|---|---|---|
| `AgentApprovals` | pass, 368 000 states | no gated call without an approval of its own, and the inductive invariant: owner and job, two gated tools (one also free), tokens that live one tick, restarts, API failures, answers cut short |
| `AgentBudget` | pass, 114 000 states | the breaker's bound and recovery, a run's overrun, the two copies of the day: three models, three rounds, costs 1 or 2 under caps 2 and 4, every fault |

Bounds. Two sessions are the least whose runs overlap, and one must not be the
owner's; a threshold of two failures is the least at which a count can pass it
in two ways; batches of two calls are the least that hold one for another or
name a tool twice. Three rounds are needed for a forgotten spend to show
against the cap. `AgentApprovals` has no costs and `AgentBudget` no gates: money
and approvals meet only in the end of a run, which both have.

Fairness. `WF(RunStep(s))`: calls time out and rounds are counted. `WF(JobFires(s))`:
jobs fire again. `WF(Tick)`: time passes. `BreakerRecovers` holds because a
refused run does not renew the time of the last failure; it uses the job's
firing, since nothing else reads the clock of the breaker.

## 5. Conversation

### Model

A message is its row id and a summary the set of messages it was made from.
`rows` and `summary` are the open transaction of the shared connection, `disk`
what the last commit wrote, and `OtherCommits` any other thread's commit, so the
gap between the DELETE and the INSERT of `store_summary` can reach the disk
half done. `RunBegins` to `DeleteOld` are `maybe_summarize`, `LoadSummary` and
`LoadHistory` what the prompt is made of, `StorePrompt`, `StoreReply` and
`NoReply` the rest of the run; `DebriefStored` is the debrief job writing into
the session; `Crash` rolls the open transaction back.

### Runs

| run | expects | shows |
|---|---|---|
| `ConversationHistory` | pass, 21 200 states | no message vanishes, a summary precedes the rows, the inductive invariant |
| `OldestAsRecent` | violation | with more than ten rows the prompt gets the ten oldest |

The sizes are the real ones (25, 10, 5); 46 messages reach a second
compaction. A summary that replaces another is made from the rows only: what
the first one said is not in the second. `NothingVanishes` speaks of messages
that were at some time summarized and committed, not of what the summary of
today still says.

## 6. Commitments

### Model

The tools run in the threads of agent runs. Each takes the lock of the
connection, once per section: `Create` and `Update` are one section; closing,
dismissing and reopening check in one (`Check`) and write in another, `Reopen`
with one statement, the closings with two, `SetStatus` and `LogClosure`,
between which `lock` is held. `RecordVerdict` is the locked commit of a
verifier's worker, `OthersCommit` that of the many writers which do not take
the lock, so it may fall between the two statements and write half a closing to
`disk`. `WriteFails` and `LogFails` are statements that raise; `Commit` may
raise too and leaves its change in the open transaction. `Crash` keeps `disk`.

A row is its status, the verb of its newest row in `manual_closures`, and
whether the status came from `commitment_update`, which logs nothing.
`in_progress` and `blocked` are one value, "busy": no code tells them apart.
The log itself is not kept, since only its newest row can explain a status.
`closers` and `torn` are observers: who closed a commitment since it was live,
and which closings were cut in two.

Simplified: `Update` checks existence in a section of its own, but a row, once
there, is never deleted, except that a crash may take back one whose commit had
failed, and with it every call.

### Runs

| run | expects | shows |
|---|---|---|
| `Commitments` | pass, 77 700 states | the log explains the status, each thread closes once, every call comes back |

Bounds. One commitment: calls on another touch this one only by their commits,
and `OthersCommit` has those at every moment. Three threads: two that race to
close, and one that reopens between them.

Fairness. `WF(CallEnds(p))`: the thread that holds the lock runs its next
statement. `SF(Write(p))`: the lock is taken and released again and again, by
sections of one or two statements, and nobody waits for it for ever. Callers are
not fair.

What holds is weaker than a reader of `close_commitment` may expect, because the
check is outside the section that writes: two threads may both close a
commitment, or one close and the other dismiss it, and the log gets both rows.
The status is then that of the later row, which is what `ClosuresExplained`
says; and a second row is always another thread's, `OneClosurePerCaller`.

## 7. Jobs

### Model

`Start` is `App.run`: it registers what `jobs.yaml` enables (`Registered`, by
the four rules of `app/jobs.py`), takes the stored zone or that of
`personality.md` (`OperatingZone`), and gives every trigger its place in its
cron. A cron is the cycle of the gaps between its fires, in ticks; `pos` and
`wait` are where its trigger is. `Fire`, `Skip` and `Miss` are a fire that runs,
one that comes during a run (one instance at a time), and one for which no
thread was free in time; `Finish` is the wrapper of `scheduler/recording.py`,
which writes the row when the run ends, with the time it began, and swallows a
failure to write. `Check` is the watchdog: `SampledGaps` are the gaps between
the next fire times that `expected_period` looks at, `Overdue` the tolerance,
`Stale` the rule for a job with and without rows. `SetTimezone` is `/timezone`,
whose three places (process, table, triggers) may be left half changed. Rows
outlive `Crash`; jobs, triggers and the process's zone do not.

`LostFields` is what `reschedule_all` does to a trigger: it reads the cron off it
as attributes that a `CronTrigger` of APScheduler 3 does not have, and makes a
trigger of none, which fires every second. Such a job, and the watchdog if its
trigger was reached, is in `lost` until the next start; it fires at the times of
the cron that `expected_period` still samples (`pos` and `wait`), and at any
moment between (`StrayFire`; for the watchdog, any number of `Check`s in a tick).
Further fires never make a job look later, so the watchdog's promises stand.

APScheduler is external and taken as its documentation says: a fire is on time
or missed, a run in progress skips the next, and a trigger without fields is
`* * *` down to the second.

`quiet`, `heard`, `trouble`, `saved` and `fails` are observers: how long a job has
not started, whether the owner was told since, what went wrong before its next
record, whether the last `/timezone` stored its zone, and how many checks of the
watchdog's own cron in a row told or recorded nothing.

### Runs

| run | expects | shows |
|---|---|---|
| `Jobs` | pass, 616 000 states | no page without a cause, no lasting silence without a page, a restart takes the zone stored last, the inductive invariant: a job of Monday to Friday with crashes, hangs, missed fires, failed records, failed sends, and a `/timezone` whose zone may not be stored |
| `LostCrons` | violation | after `/timezone` a job starts at a moment its cron does not name, with no fault at all |

Bounds. The cycle is the real one of a weekday cron in days (1, 1, 1, 1, 3), and
eight samples the real number, so the weekend enters and leaves the sample. One
job is enough for the properties, which speak of each by itself; `since`, the
oldest row of all, is shared with the watchdog's own row. Ages saturate at 10,
past every tolerance of the instance (`GapAssumption`). A `/timezone` that
reaches only some of the triggers ("reschedule") is left to the proofs: with it
the run does not end in minutes. `MaxFails` bounds the checks in a
row that fail, without which no bound on the silence could be stated. The
properties are safety, so no fairness is assumed: `Tick` waits until due fires
and checks are taken.

`AlarmHasCause` needs the samples to span the cycle. A cron that fires more than
seven times a day and pauses at night breaks it: see section 10.

## 8. Polling jobs and services

What the polling jobs share with each other and with every thread is the
connection: `Tables` has the tables as the connection shows them and as they are
on disk, and any other thread may commit at any moment. Otherwise none of these
acts on another. `AllServices` puts them into one specification over one record
of tables, `AllTables`; each behaviour exercises one of them (`focus`, which no step
changes), so that one run checks several, and the others stay at rest: a
disjoint choice of services, not an interleaving of them. What the others could
do to the one in focus is commit its open statements, which every model has. `MCServices` gives it
values.

### Models

* `InboundEmail`. `CheckStarts` to `Prune` are one run: window, search, the time
  the next window starts at, read afterwards (`ReadClock`), the mark and then
  the alert of each message, newest first, and the commit that moves the window.
  Gmail's whole seconds let a window start one message early. A message is its
  From header: of no sender in the list, a listed address alone, or a listed
  address after a name (`Senders`); `IsUrgentSender` finds the second only, since
  the header is compared as it stands.
* `Debrief`. Ticks are the five minutes of the job. `DebriefStarts` reads the
  calendar, `SendChunk` sends, `MarkDebriefed` marks after the last chunk; a
  fire is lost while the process is down or the last run is not over.
* `Extraction`. `AskModel`, `StoreFact`, `MarkProcessed` per source, with
  answers that cannot be read, a store that fails between facts, and a
  transcript taken for a stub.
* `Digest`. `Collect`, `Classify`, `Synthesize`, `SaveSignals`, `SaveDedup`,
  `SendSummary`: saved before sent. `Overflow` is what the capped index drops.
  A signal may come without its `source_url` ("nourl"): it is read and not
  indexed. One that has a URL is taken to have that of its story.
* `AuthHealth`. `Probe` compares each account with what the process knows,
  `TellOwner` sends the news of the run at its end; `Restart` is a deployment
  with the tokens minted since, and forgets.
* `Consult`. `Request`, `Admit` or `Refuse`, `Ask`, `Record`, for callers whose
  calls overlap; the limiter and the metrics are locked, so each is one step.
* `Slots`. A pure function in one step (`Propose`), so TLC compares it with a
  reference over every input of the bounds; half hours, offsets for zones, no
  daylight saving; the scores are the code's, multiplied to integers. The lists
  the code sorts and then walks are sets here, folded in the order of the sort
  (`Merge`, `Kept`): an interval listed twice merges into itself, and no two
  candidates share a date and a start, so nothing is lost by it, and the folds
  can be proved about.
* `Verifier`. Threads take items in order (`TakeItem`), search, record; the job
  waits for each item in turn and gives up on it (`GiveUp`), then leaves the
  pool when every thread is done (`LeavePool`).
* `Interview`. Each answer is a process of its own: resume, write the answer
  (`ApplyAnswer`), store the progress, with a death in between.

### Runs

| run | expects | shows |
|---|---|---|
| `Services` | pass, 6.11 M states | the properties below |
| `ListedSenders` | violation | a listed sender whose From header has a name is marked and never alerted |

* `ServicesInv`: the inductive invariant of every service, types included, on
  which the proofs of section 9 rest.
* `AlertedOnce`, `NothingPassedOver`: an alert is repeated only if a crash took
  its mark back, and mail from a listed address is passed over only beyond the
  page, between search and clock, with expired credentials, when its own alert
  was lost, or when its header has a name.
* `DebriefedOnce`, `ThreeChances`: a debrief is repeated only if it was cut off
  before the commit of its mark; a meeting is missed only if all three fires of
  its window were lost.
* `MarkedIsWhole`: a marked source was stored whole, had an answer that could
  not be read, or was taken for a stub; facts are stored twice only after a cut.
* `LeftOutWasReported`, `ReadOnce`: what the index suppresses was read, or its
  summary was lost; nothing is read twice while the index holds it, which it
  does not for a story read without its URL.
* `OwnerKnows`: between runs the owner's picture is the watcher's, except for
  lost news and what a restart forgot.
* `TwiceTheLimit`, `RefusalIsEarned`: both sides of the limiter.
* `LongestWindow`, `OfferIsBest`: the slots start in the longest stretch in which
  nobody sleeps, found hour by hour; the offer is a best choice.
* `EvidenceIsTold`: the briefing has a line for every item, with the evidence of
  its own search or none.
* `NothingSkipped`: the interview never passes a step whose section is open.

Bounds. Three messages and a page of two are the least that overflow a page and
still have one in it. Two meetings share a run, so one may fail the other; two
chunks are the least that can be cut. Two mails and a transcript, two facts:
the least with a failure between. Three stories, an index of two: the least that
overflow; the index reaches back one week, so a key is fresh for two and then gone. Two accounts, of which one's news may travel with the other's. A limit
of two and a window of two ticks over five ticks reach the fifth call, which is
the one `TwiceTheLimit` is about. The zones of `Slots` are -11, -10, 0, +5:30 and
+8 hours, in half hours: nights that lie in the date, in the one before, across
midnight, and that overlap and touch those of another. Three items and a pool of two make a queue. The ten steps of the
interview are all there; the appends of stakeholders are followed to three.

`DigestFaults` leaves out "ignore": a model that repeats stories although it was
given the index breaks `ReadOnce` by definition. The properties are safety and
the services may stop at any time, so no fairness is assumed and deadlock is not
checked in this run: its finite behaviours (the interview at its end, the
verifier when told, no mail left) do stop.

## 9. Proofs

All hold for any constants that satisfy the named assumptions of the
module (finite sessions, positive limits, windows in order). Each component has
an inductive invariant; the theorem that it holds has one step per
action, and the others are its consequences.

* Scheduling. `IndInv` adds to types and safety: mail is read only of people
  with no vote on file and what is recorded overwrites nothing (`ReadOnce`,
  without which a late reply could take an acceptance back); the consensus the
  job holds still is one (`FoundAgreed`); an event is about to be made only for
  a booked request that has none (`BookingOpen`); only people on mail have a
  thread (`MailOnly`). From it: `ConvergedUnanimously`, `AnnouncedAgreed`,
  `OneEvent`, `AcceptanceHolds`, and `Implements`, the refinement of
  `SchedulingLifecycle`. `Contacted` needs the types only and holds with every
  fault: an approval puts everybody into `ownerLeft` and empties `dropped`, whoever
  leaves the one was reached, has no channel or enters the other
  (`LeftIsReached`), and what reached somebody is not taken back
  (`ReachedStays`).
* Agent loop. `BreakerInv` bounds the failures counted together with the runs
  that passed the check and may still fail, which is what makes
  `BreakerBounded` inductive; `TokenInv` says a live token is the owner's and
  stands for an unused yes, from which `GatedConfirmed`; `BudgetInv` says a call
  that has fallen down the chain had passed the gate, from which
  `RunWithinCap`; `RoundInv` bounds the rounds, for the types. `BooksAgree` is
  about a sum over the sessions between lock and statement, which the model takes
  with a fold of the community modules. The lemmas on `SumOver` show that the
  fold exists, that it is what its recursion says, and that any element may be
  taken out of it first (`SumTakesOut`). The library's induction theorems cannot
  be used for that, so each of these takes the least cardinality at which it
  fails (`LeastOf`, from the well-foundedness of the naturals) and shows that
  there is none.
* Conversation. `BatchInv`: what is being summarized is a prefix of the rows
  until it is deleted, and was committed as a summary by then; `DiskInv`: disk
  and transaction differ in the summary only, and only inside `store_summary`.
  From them `MessagesSurvive` and `SummaryIsPast`.
* Commitments. `LockInv`: the lock is held by p exactly between the two
  statements of p's closing, and the row has the status p wrote (so nobody else
  can write in between, and the INSERT explains that status); `CloserInv`:
  somebody closed c only if c is terminal, and a thread about to close c has not
  closed it since. From them `LogExplains` and `ClosesOnce`.
* Jobs. `GapInv`: of a job without trouble, the last recorded start and the next
  fire, or the run in progress, lie within one gap of each other; with a sample
  that covers the cycle (`Cycle(j) < Samples`) and runs no longer than the grace
  that is `NoIdlePage`. `SinceInv` and `HeardInv` count how far the last check
  that did not fail is back, from which `SilenceHeard`; `ZoneInv` says that
  the operating zone is the one a start would load, if it was stored, from which
  `ZoneKept`. None of it says that jobs fire at the times of their crons, which
  after `/timezone` is false (`LostCrons`).
* Consult. `WindowInv`: every admitted call lies in its window and no window has
  more than the limit, so the call Limit places later is of a later window,
  which starts at least a window's time after; two such steps separate a call
  from the one twice the limit later by more than a window: `AtMostTwice`. The
  same invariant gives `RefusedForCause`.
* Auth health. `ListsInv` and `KnownInv`: an account outside the lists of the
  run is one whose state the owner knows, a probe that changes it puts it into a
  list, and the end of the run empties the lists: `OwnerIsTold`.
* Verifier. `ThreadInv` and `LineInv`: what a thread has found does not change
  after it is done, and a line rests on that or on a wait that ended; `LeavingInv`:
  the pool is left with every line written: `EvidenceTold`.

* Inbound mail. `MailInv`. The disk lags behind the connection, in the marks and
  in the start of the window alike (`MailLag`), so a message that was alerted is
  marked, or was pruned past the window on disk, unless a crash undid the mark
  (`OnRecord`): what a run may alert to lies at or after the start of its window
  (`MailRunInv`), so it is no pruned message. Up to the time the run read, every
  message is settled, in its hands, or known to be missed (`InHand`), which is
  what lets the window move. From it `NoSecondAlert`, `EveryMailSettled`.
* Debrief. `DebriefInv`: what went out whole is marked on disk or is at hand, or
  was cut off (`SentIsMarked`); of the fires of a meeting's window that are past,
  each was lost, or is the one the run works on (`FiresAccounted`). From it
  `NoSecondDebrief`, and `WindowGivesThree`, since a window that is over has three
  fires behind it.
* Extraction. `ExtractInv`: the source a run stores facts of is not marked
  (`ExtractRunInv`), and a source with stored facts is marked on disk, is at hand,
  or was cut off (`StoredIsMarked`): `MarksAreEarned`.
* Digest. `DigestInv`: a row of the index is no older than the reading it stands
  for, on the connection and on disk, and each recent one was read, lost its
  summary, or is about to be sent (`RowsInv`); the index of a run and what the cap
  pushed out of it hold all that was read in its weeks (`ReadIsIndexed`). From it
  `RowsHaveReasons`, and `NothingReadTwice` for a model that heeds the index
  (`~DigestFault("ignore")`, as in the run).
* Interview. `InterviewInv`: a process between the write of an answer and the
  store of its progress is at the step after those it resumed behind, and the
  answer is in the files (`AnswerWritten`): `InterviewIsWhole`.
* Slots. `SlotsInv` says that the offer is what the function returns for what was
  asked, so the work is in the lemmas about the function. Its loops are folds over
  finite sets, which the library defines by a choice of a function and which its
  induction theorems cannot be applied to. `FoldOverExists` shows that there is a
  function that satisfies the recursion of such a fold (by the least cardinality at
  which there is none), and `TakingOut` that a collection of subsets holds every
  subset once it holds the empty one and each that has an element whose removal
  leaves a member. With these: merging gives intervals in order, apart from each
  other, with the union of what was merged, each bound being one of its bounds
  (`MergeMerges`); a time of the date is inside a merged night exactly when
  somebody sleeps (`NightOfADate`, for any offset of up to a day, which is where
  the date before and after are needed, `ExclusionsAreNights`); the gaps between
  neat intervals are the longest runs of times they do not cover, all of them
  (`GapsAreStretches`); the sum of the gaps is at least the longest, so a date is
  given up only for lack of room (`SumOfNaturals`, `SlotsOfADate`). The first busy
  interval a slot meets exists exactly if a timed event meets it
  (`ConflictIsAnEvent`). The list that is kept is in order, without overlaps, and
  what is not in it overlaps something in it that scores no less (`KeptIsKept`), which survives
  the cut to `TopN` (`ShortlistIsBest`). The assumptions are `UnitAssumption` and
  `AskAssumption`: an even number of units in an hour, offsets no larger than a
  day, durations and grid positive, a calendar with an entry for every date. From
  it `SlotsAreInTheLongestWindow` and `TheOfferIsBest`, in the composition.
* Composition. `ServicesInv` joins all of these over the shared tables: the
  service in focus keeps its invariant, the others are idle and their tables as
  they were created. Each service's statements touch its own fields of the
  record only (`KeepsOthers`), and a commit or a reopened connection leaves a
  table at rest as it is (`AtRest`). From it `ServicesInvHolds`,
  `PollingJobsPromise` and `OtherServicesPromise`: what holds of each service by
  itself (`MailSpec`, `DebriefSpec`, `ExtractSpec`, `DigestSpec`, `ConsultSpec`,
  `AuthSpec`, `VerifySpec`, `InterviewSpec`) holds in the process they share.

Only model-checked: `OutreachIsResolved`, `ConsensusSurfaces`, `BreakerRecovers`
and `CallsReturn`, which are liveness properties (the prover has no fairness).
The runs that expect a violation are counterexamples of TLC. What depends on
daylight saving is neither checked nor proved.

## 10. Where code and docs disagree

Four have a run of their own:

* `recent_messages` returns the oldest rows (`memory/sqlite.py:322` against
  `agent/loop.py:247`): `OldestAsRecent`.
* A stalled poll is escalated only by a run that expires somebody
  (`jobs/scheduling_poll_check.py:244` against line 15): `StalledPoll`.
* `/timezone` leaves every trigger without its cron: `reschedule_all` reads the
  fields as attributes (`scheduler/runner.py:58-73`), which APScheduler 3 keeps
  in `trigger.fields`, and `CronTrigger(timezone=...)` without any fires every
  second until a restart (against `src/CHANGELOG.md:72`, line 47 of the runner and
  the reply at `bot/commands.py:256`): `LostCrons`.
* A listed sender is recognised only if the From header is the address alone
  (`jobs/inbound_email_check.py:15-26` and `tools/google/gmail.py:83` against line
  16 of the job and `src/docs/specs/2026-04-12-cosinabox-plan-4a-design.md:262-264`):
  `ListedSenders`.

Seen while modelling and not the subject of a run:

* Scheduling. `book` without `slot_id` books the best scored slot, not the
  converged one (`scheduling/coordinator.py:608` against
  `tools/scheduling_tool.py:141`). The polling job nudges and expires people whose
  votes are on file: it judges on the copy of the statuses it read, and an approval
  after a rework sets them back to sent (`jobs/scheduling_poll_check.py:187`
  against line 9). A rejected request is never scored again
  (`scheduling/coordinator.py:516`). No participant that the tool creates has a
  `telegram_id`, so none on Telegram can be sent a poll
  (`tools/scheduling_tool.py:239-247` against `scheduling/outreach.py:97`). A crash between the commit of POLLING and
  the last message leaves a poll that some never got, and one between CONVERGED and its
  announcement a consensus nobody hears of
  (`templates/user-repo/docs/agent/scheduling.md:46`).
* Slots. The scheduling tool passes no events of the owner, so every slot is
  scored as free (`tools/scheduling_tool.py:256` against
  `scheduling/slot_scorer.py:430`). Slots are of UTC days while weekends and
  events are of the owner's, so an event on the owner's next date can overlap a
  slot unmarked; the owner is no participant, and their own night is not blocked.
* Agent. The daily cap stops nothing before a call (`agent/loop.py:351` against
  `agent/cost.py:79` and `defaults.py:9`). A batch held for one call has consumed
  the approval of its other one, which the owner must give again
  (`agent/loop.py:362`, `templates/user-repo/docs/agent/policy.md:19`). A message
  that is no approval leaves the pending entry in place (`app/chat.py:49`);
  approvals last five minutes, not two
  (`templates/user-repo/docs/agent/policy.md:21`).
* Commitments. Two threads may both pass the check of `close_commitment` and both
  log (`commitments/store.py:155` against line 152); a commit of a thread
  without the lock, followed by a crash, leaves a closed commitment without its
  row of the log (`commitments/store.py:165`, `memory/sqlite.py:264`);
  `commitment_update` closes without one (`commitments/store.py:135`).
* Verifier. Leaving the pool waits for every thread, so the time limit of an
  item does not keep a slow search from holding up the briefing
  (`commitments/auto_resolve.py:326-328`); items queued behind slow ones time out
  unsearched; an item that timed out may store another verdict afterwards; at
  most twenty commitments are seen, none of them in progress or blocked; one
  whose stakeholder is blank makes its thread raise.
* Jobs. `expected_period` samples eight fire times, so an hourly cron with a
  pause at night is paged at night with nothing wrong
  (`scheduler/recording.py:42` against its docstring). `/timezone` overwrites the
  `timezone:` of a job until the next restart (`CHANGELOG.md:71`); a job newly enabled on an old deployment is paged
  as never run before its first cycle ends; nobody watches a watchdog that
  hangs.
* Polling jobs. A run of the digest that raises tells nobody, though
  `memory/sqlite.py:436-437` counts on the existing alerts; an answer that
  cannot be read marks its source as extracted; every transcript counts as a stub,
  is marked and never extracted, because the query does not ask for its duration
  (`jobs/extract_fireflies.py:24` and `tools/fireflies.py:43` against the docstring of
  the job), so of what `MarkedIsWhole` says of transcripts only the marks remain; a signal without a `source_url`
  is read and gets no key (`memory/sqlite.py:505`); `list_recent_meetings` asks for
  no duration and no participants, so the debrief's choice of a transcript has
  nothing to go by.
* Auth health. A deployment forgets what was reported, so the recovery it brings
  is not announced (`jobs/auth_health_persist.py:9-12`,
  `src/docs/plans/2026-05-06-oauth-auth-refresh.md:1730`). The OAuth alert starts its
  cooldown before it is sent (`tools/google/_runtime_alert.py:62`).
* Consult. The server reads `memory.db` of the configuration directory, the
  application writes `.cosinabox/memory.db` (`consult/server.py:279`,
  `app/_core.py:205`); its cost tracker is its own.
* Interview. Starting again, or a death before the progress is stored, appends the
  stakeholders a second time (`interview/steps.py`); a backslash in an answer
  raises.

## 11. Not modelled

For good: the clients of external services, formatting and prompts, loading of
configuration, the command line and doctor, migrations, analytics and logs,
backups and the keep-warm history, which keep no state that two actors share or
run once by hand; `scheduling/backchannel.py`, which nothing calls (its
proposals may take a time another proposal of the same request holds, which a
caller would have to decide); `agent/summarization.py`, an unused duplicate.
What such a client returns is nondeterministic in the models that call it. A
write of one file is taken as atomic in `Interview`.
