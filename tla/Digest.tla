-------------------------------- MODULE Digest --------------------------------
(***************************************************************************)
(* research_digest: once a week, collect candidate stories, let one model  *)
(* drop the irrelevant ones and another pick the week's signals, save the  *)
(* signals and the index of what was reported, then send the summary.      *)
(*                                                                         *)
(* A story is its URL, and a signal gives the URL of its story or none at  *)
(* all.  Stories are numbered by priority, the first first.                *)
(* The first candidates of a cut answer and its signals are what could be  *)
(* salvaged of it, so an answer is any subset, with a summary or without.  *)
(***************************************************************************)
EXTENDS Tables, Integers, FiniteSets

CONSTANTS
    Stories,      \* 1..n
    Candidates,   \* RESEARCH_MAX_CANDIDATES
    IndexWeeks,   \* weeks the index reaches back: _DEDUP_TTL_DAYS
    IndexCap,     \* _DEDUP_CAP
    DigestFaults  \* "model", "garbled", "nourl", "ignore", "send", "refused", "db", "crash"

ASSUME StoryAssumption == Stories \subseteq Nat /\ {Candidates, IndexWeeks, IndexCap} \subseteq Nat

VARIABLES
    gpc,       \* where the run is
    items,     \* candidates of the run
    index,     \* the dedup index it loaded
    pushed,    \* (ghost) rows that were too many for the index of the run
    signals,   \* the signals of the answer
    keyed,     \* those that come with a source_url
    summary,   \* its summary: "some", "none" or "failed"
    toldAge,   \* toldAge[s]: weeks since the owner last read s, or Long
    lostNews,  \* (ghost) signals whose last summary was not sent, or lost
    unkeyed,   \* (ghost) stories read last, and not long ago, without a source_url
    repeats    \* (ghost) stories told again within the weeks of the index
               \* that were not pushed out of it, and had a source_url

digestRun == <<gpc, items, index, pushed, signals, keyed, summary>>
digestSeen == <<toldAge, lostNews, unkeyed, repeats>>
digestVars == <<digestRun, digestSeen>>
DigestFault(f) == f \in DigestFaults

Long == IndexWeeks + 1  \* (bound) ages are not told apart from here on

(* research_signals, by URL, and the age of each row of research_dedup.    *)
DigestTables == [kept |-> {}, row |-> [s \in Stories |-> Long]]

DigestIdle ==
    /\ gpc = "idle" /\ items = {} /\ index = {} /\ pushed = {}
    /\ signals = {} /\ keyed = {} /\ summary = "none"
    /\ toldAge = [s \in Stories |-> Long] /\ lostNews = {} /\ unkeyed = {} /\ repeats = {}

(* Nothing more is done with the stories of the run.                       *)
StoriesDone ==
    items' = {} /\ index' = {} /\ pushed' = {} /\ signals' = {} /\ keyed' = {} /\ summary' = "none"

DigestRunOver == gpc' = "idle" /\ StoriesDone

-----------------------------------------------------------------------------
Aged(f) == [s \in Stories |-> IF f[s] < Long THEN f[s] + 1 ELSE Long]

Week ==
    /\ gpc = "idle"
    /\ conn' = [conn EXCEPT !.row = Aged(@)] /\ disk' = [disk EXCEPT !.row = Aged(@)]
    /\ toldAge' = Aged(toldAge)
    /\ unkeyed' = {s \in unkeyed : toldAge'[s] < Long}
    /\ UNCHANGED <<digestRun, lostNews, repeats>>

(* An exception ends the run; nobody is told.                              *)
DigestRaises ==
    /\ DigestRunOver
    /\ UNCHANGED <<toldAge, unkeyed, repeats>>

First(S, n) == {s \in S : Cardinality({t \in S : t <= s}) <= n}

(* If every query fails, or nothing is found, the run is over.             *)
Collect ==
    /\ gpc = "idle"
    /\ \E found \in SUBSET Stories \ {{}} : items' = First(found, Candidates)
    /\ gpc' = "classify"
    /\ UNCHANGED <<tables, index, pushed, signals, keyed, summary, digestSeen>>

(* Newest first, then by URL.                                              *)
Before(s, t) == conn.row[s] < conn.row[t] \/ (conn.row[s] = conn.row[t] /\ s <= t)
FreshRows(weeks) == {s \in Stories : conn.row[s] <= weeks}
Overflow == {s \in FreshRows(IndexWeeks) : Cardinality({t \in Stories : Before(t, s)}) > IndexCap}

(* (mutant) The index forgets a week too early.                            *)
ShortIndex == FreshRows(IndexWeeks - 1) \ Overflow

(* load_research_dedup                                                     *)
DedupIndex == FreshRows(IndexWeeks) \ Overflow

(* The classifier fails open: at worst it keeps everything.                *)
Classify ==
    /\ gpc = "classify" /\ gpc' = "synthesize"
    /\ items' \in SUBSET items /\ index' = DedupIndex /\ pushed' = Overflow
    /\ UNCHANGED <<tables, signals, keyed, summary, digestSeen>>

(* The model is told what was reported and may not repeat it.              *)
Synthesize ==
    /\ gpc = "synthesize" /\ gpc' = "save"
    /\ \/ /\ signals' \in SUBSET (IF DigestFault("ignore") THEN items ELSE items \ index)
          /\ keyed' \in SUBSET signals' /\ (DigestFault("nourl") \/ keyed' = signals')
          /\ summary' \in {"some"} \union (IF DigestFault("garbled") THEN {"none"} ELSE {})
       \/ DigestFault("garbled") /\ signals' = {} /\ keyed' = {} /\ summary' = "failed"
    /\ UNCHANGED <<tables, items, index, pushed, digestSeen>>

SynthesisFails ==
    /\ DigestFault("model") /\ gpc = "synthesize"
    /\ DigestRaises /\ UNCHANGED <<tables, lostNews>>

(* (mutant) Everything the model was shown counts as reported.             *)
ReportedAll == items

(* The stories that the next weeks leave out: an entry without a URL is    *)
(* skipped.                                                                *)
Reported == keyed

SaveSignals ==
    /\ gpc = "save" /\ gpc' = "index"
    /\ WriteAndCommit([conn EXCEPT !.kept = @ \union keyed])
    /\ UNCHANGED <<items, index, pushed, signals, keyed, summary, digestSeen>>

SaveDedup ==
    /\ gpc = "index" /\ gpc' = "send"
    /\ WriteAndCommit([conn EXCEPT !.row = [s \in Stories |-> IF s \in Reported THEN 0 ELSE @[s]]])
    /\ UNCHANGED <<items, index, pushed, signals, keyed, summary, digestSeen>>

(* A failed statement or commit leaves what it wrote on the connection,    *)
(* for the next commit of anyone.                                          *)
SaveFails ==
    /\ DigestFault("db") /\ gpc \in {"save", "index"}
    /\ \/ UNCHANGED tables
       \/ gpc = "save" /\ Write([conn EXCEPT !.kept = @ \union keyed])
       \/ gpc = "index" /\ Write([conn EXCEPT !.row =
                                    [s \in Stories |-> IF s \in Reported THEN 0 ELSE @[s]]])
    /\ DigestRaises /\ lostNews' = lostNews \union signals

(* An empty summary is not sent.  One that raises may have gone out.       *)
SendSummary ==
    /\ gpc = "send"
    /\ \/ /\ summary # "none" /\ gpc' = "alert" /\ StoriesDone
          /\ toldAge' = [s \in Stories |-> IF s \in signals THEN 0 ELSE toldAge[s]]
          /\ repeats' = repeats \union ({s \in signals : toldAge[s] < Long} \ (pushed \union unkeyed))
          /\ unkeyed' = (unkeyed \ signals) \union (signals \ keyed)
          /\ lostNews' = lostNews \ signals
       \/ /\ summary = "none" \/ DigestFault("refused")
          /\ gpc' = "alert" /\ StoriesDone /\ lostNews' = lostNews \union signals
          /\ UNCHANGED <<toldAge, unkeyed, repeats>>
       \/ /\ DigestFault("send") /\ summary # "none"
          /\ DigestRaises /\ lostNews' = lostNews \union signals
    /\ UNCHANGED tables

(* The run's alerts, if any, and its result.                               *)
Finish ==
    /\ gpc = "alert" /\ DigestRunOver
    /\ UNCHANGED <<tables, digestSeen>>

DigestOthersCommit == OthersCommit /\ UNCHANGED digestVars

DigestCrash ==
    /\ DigestFault("crash") /\ gpc # "idle" /\ Reopen
    /\ DigestRaises /\ lostNews' = lostNews \union signals

DigestNext ==
    \/ Week \/ Collect \/ Classify \/ Synthesize \/ SynthesisFails
    \/ SaveSignals \/ SaveDedup \/ SaveFails \/ SendSummary \/ Finish
    \/ DigestOthersCommit \/ DigestCrash

-----------------------------------------------------------------------------
DigestTypeOK ==
    /\ \A t \in {conn, disk} : t.kept \subseteq Stories /\ t.row \in [Stories -> 0..Long]
    /\ gpc \in {"idle", "classify", "synthesize", "save", "index", "send", "alert"}
    /\ items \subseteq Stories /\ index \subseteq Stories /\ signals \subseteq items /\ keyed \subseteq signals
    /\ summary \in {"some", "none", "failed"}
    /\ toldAge \in [Stories -> 0..Long]
    /\ {pushed, lostNews, unkeyed, repeats} \subseteq SUBSET Stories

(* A story is left out of the coming weeks because the owner read it, or   *)
(* the summary that had it was lost on the way; and it is on record.       *)
LeftOutWasReported ==
    \A s \in Stories : conn.row[s] < Long =>
        /\ toldAge[s] <= conn.row[s] \/ s \in lostNews \/ (gpc = "send" /\ s \in keyed)
        /\ s \in conn.kept

(* The owner reads no story twice within the weeks of the index, unless    *)
(* the index overflowed, the model did not do as told, or the story was    *)
(* read last without its URL, which is read and not indexed.               *)
ReadOnce == repeats = {}

-----------------------------------------------------------------------------
(* What makes the two inductive (PollingProofs).  A row of the index is no *)
(* older than the reading it stands for, on the connection and on disk;    *)
(* each has a cause and a record; and the index of a run holds what was    *)
(* read within its weeks, but for what was pushed out or had no URL.       *)
RowsExplained(t) ==
    \A s \in Stories : t.row[s] < Long =>
        /\ toldAge[s] <= t.row[s] \/ s \in lostNews \/ (gpc = "send" /\ s \in keyed)
        /\ s \in t.kept

RowsInv ==
    \A t \in {conn, disk} :
        /\ {"kept", "row"} \subseteq DOMAIN t
        /\ RowsExplained(t)
        /\ \A s \in Stories \ unkeyed : t.row[s] <= toldAge[s]
        /\ gpc = "index" => keyed \subseteq t.kept
        /\ gpc = "send" => \A s \in keyed : t.row[s] = 0

NoSignalsYet == gpc \in {"idle", "classify", "synthesize"} => signals = {}

ReadIsIndexed ==
    gpc \in {"synthesize", "save", "index", "send"} =>
        \A s \in Stories : toldAge[s] < Long => s \in index \union pushed \union unkeyed

ObeyedIndex ==
    ~DigestFault("ignore") =>
        /\ gpc \in {"save", "index", "send"} => signals \intersect index = {}
        /\ ReadOnce

DigestInv == DigestTypeOK /\ RowsInv /\ NoSignalsYet /\ ReadIsIndexed /\ ObeyedIndex
==============================================================================
