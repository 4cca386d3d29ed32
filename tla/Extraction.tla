------------------------------ MODULE Extraction ------------------------------
(***************************************************************************)
(* extract_gmail and extract_fireflies: once a day, hand every recent      *)
(* source that is not marked to a model, store the facts it finds in the   *)
(* memory service, and mark the source when all are stored.  A transcript  *)
(* is fetched by itself, and marked unread when it is a stub.              *)
(*                                                                         *)
(* The jobs share nothing but the connection, so one run at a time, of     *)
(* either, and the commits of others stand for their interleavings.        *)
(***************************************************************************)
EXTENDS Tables, Integers, FiniteSets

CONSTANTS
    Mails, Transcripts, \* the sources, as numbers in the order they are listed
    MaxFacts,           \* (bound) facts in a source
    ExtractFaults       \* "fetch", "model", "garbled", "store", "db", "crash"

Sources == Mails \union Transcripts
ASSUME SourceAssumption == Sources \subseteq Nat /\ MaxFacts \in Nat

VARIABLES
    listed,   \* sources the jobs' queries return
    spoken,   \* transcripts with enough sentences, over a minute long
    xpc,      \* where the run is
    queue,    \* sources of the run still to handle
    facts,    \* facts found in the source at hand that are still to store
    begun,    \* a fact of the source at hand may have been stored
    stored,   \* stored[s]: passes that stored facts of s: none, one, or more (2)
    whole,    \* (ghost) sources of which a pass stored every fact it found
    garbled,  \* (ghost) sources of which the last answer could not be read
    cutOff    \* (ghost) sources whose pass ended between a fact and the mark,
              \* or whose mark a crash took back

extractRun == <<xpc, queue, facts, begun>>
extractSeen == <<stored, whole, garbled, cutOff>>
extractVars == <<listed, spoken, extractRun, extractSeen>>
ExtractFault(f) == f \in ExtractFaults
ExtractTables == [processed |-> {}]   \* extraction_state

ExtractIdle ==
    /\ listed = {} /\ spoken = {} /\ xpc = "idle" /\ queue = {} /\ facts = 0 /\ begun = FALSE
    /\ stored = [s \in Sources |-> 0] /\ whole = {} /\ garbled = {} /\ cutOff = {}

-----------------------------------------------------------------------------
(* Sources appear, and leave the hours or the page that a query looks at.  *)
Appears(s) ==
    /\ s \notin listed /\ listed' = listed \union {s}
    /\ spoken' \in {spoken, spoken \union ({s} \intersect Transcripts)}
    /\ UNCHANGED <<tables, extractRun, extractSeen>>

Leaves(s) ==
    /\ s \in listed /\ listed' = listed \ {s}
    /\ UNCHANGED <<tables, spoken, extractRun, extractSeen>>

ExtractStarts ==
    /\ xpc = "idle" /\ xpc' = "next"
    /\ queue' \in {listed \intersect Mails, listed \intersect Transcripts}
    /\ UNCHANGED <<tables, listed, spoken, facts, begun, extractSeen>>

Source == CHOOSE s \in queue : \A t \in queue : s <= t

NextSource == xpc' = "next" /\ queue' = queue \ {Source} /\ facts' = 0 /\ begun' = FALSE
ExtractRunOver == xpc' = "idle" /\ queue' = {} /\ facts' = 0 /\ begun' = FALSE
CutOff == cutOff' = IF begun THEN cutOff \union {Source} ELSE cutOff

SkipProcessed ==
    /\ xpc = "next" /\ queue # {} /\ Source \in conn.processed /\ NextSource
    /\ UNCHANGED <<tables, listed, spoken, extractSeen>>

(* A stub has few sentences or lasts less than a minute.  The query for a  *)
(* transcript does not ask for its duration, which is read as 0.           *)
Duration(s) == 0
Stub(s) == s \in Transcripts /\ (s \notin spoken \/ Duration(s) < 60)

MarkStub ==
    /\ xpc = "next" /\ queue # {} /\ Source \notin conn.processed /\ Stub(Source)
    /\ \/ WriteAndCommit([conn EXCEPT !.processed = @ \union {Source}]) /\ NextSource
       \/ ExtractFault("db") /\ ExtractRunOver
          /\ (UNCHANGED tables \/ Write([conn EXCEPT !.processed = @ \union {Source}]))
    /\ UNCHANGED <<listed, spoken, extractSeen>>

(* The answer of the model, in which each pass may find other facts.  One  *)
(* that cannot be read counts as an answer without facts.                  *)
AskModel ==
    /\ xpc = "next" /\ queue # {} /\ Source \notin conn.processed /\ ~Stub(Source)
    /\ \/ xpc' = "store" /\ facts' \in 0..MaxFacts /\ garbled' = garbled \ {Source}
       \/ ExtractFault("garbled") /\ xpc' = "store" /\ facts' = 0
          /\ garbled' = garbled \union {Source}
    /\ UNCHANGED <<tables, listed, spoken, queue, begun, stored, whole, cutOff>>

ModelFails ==
    /\ ExtractFault("model")
    /\ xpc = "next" /\ queue # {} /\ Source \notin conn.processed /\ ~Stub(Source)
    /\ NextSource
    /\ UNCHANGED <<tables, listed, spoken, extractSeen>>

(* An exception of a query, of the fetch or of the lookup ends the run.    *)
FetchFails ==
    /\ ExtractFault("fetch") /\ xpc = "next" /\ queue # {}
    /\ ExtractRunOver
    /\ UNCHANGED <<tables, listed, spoken, extractSeen>>

StoredOne ==
    stored' = [stored EXCEPT ![Source] = IF begun THEN @ ELSE IF @ = 0 THEN 1 ELSE 2]

StoreFact ==
    /\ xpc = "store" /\ facts > 0
    /\ facts' = facts - 1 /\ begun' = TRUE /\ StoredOne
    /\ UNCHANGED <<tables, listed, spoken, xpc, queue, whole, garbled, cutOff>>

(* A store that times out may have stored.                                 *)
StoreFails ==
    /\ ExtractFault("store") /\ xpc = "store" /\ facts > 0
    /\ \/ StoredOne /\ cutOff' = cutOff \union {Source}
       \/ UNCHANGED stored /\ CutOff
    /\ NextSource
    /\ UNCHANGED <<tables, listed, spoken, whole, garbled>>

(* An entry that is no object, or an error of the local store, ends the run. *)
StoreRaises ==
    /\ ExtractFault("store") /\ xpc = "store" /\ facts > 0
    /\ ExtractRunOver /\ CutOff
    /\ UNCHANGED <<tables, listed, spoken, stored, whole, garbled>>

(* (mutant) A pass is over as soon as one fact is stored.                  *)
AnyStored == facts = 0 \/ begun

(* not store_failed                                                        *)
AllStored == facts = 0

MarkProcessed ==
    /\ xpc = "store" /\ AllStored
    /\ whole' = IF facts = 0 /\ Source \notin garbled THEN whole \union {Source} ELSE whole
    /\ \/ WriteAndCommit([conn EXCEPT !.processed = @ \union {Source}]) /\ NextSource /\ UNCHANGED cutOff
       \/ ExtractFault("db") /\ ExtractRunOver /\ CutOff
          /\ (UNCHANGED tables \/ Write([conn EXCEPT !.processed = @ \union {Source}]))
    /\ UNCHANGED <<listed, spoken, stored, garbled>>

ExtractEnds ==
    /\ xpc = "next" /\ queue = {} /\ ExtractRunOver
    /\ UNCHANGED <<tables, listed, spoken, extractSeen>>

ExtractOthersCommit == OthersCommit /\ UNCHANGED extractVars

ExtractCrash ==
    /\ ExtractFault("crash") /\ Reopen /\ ExtractRunOver
    /\ cutOff' = cutOff \union (conn.processed \ disk.processed) \union IF begun THEN {Source} ELSE {}
    /\ UNCHANGED <<listed, spoken, stored, whole, garbled>>

ExtractNext ==
    \/ \E s \in Sources : Appears(s) \/ Leaves(s)
    \/ ExtractStarts \/ SkipProcessed \/ MarkStub \/ AskModel \/ ModelFails \/ FetchFails
    \/ StoreFact \/ StoreFails \/ StoreRaises \/ MarkProcessed \/ ExtractEnds
    \/ ExtractOthersCommit \/ ExtractCrash

-----------------------------------------------------------------------------
ExtractTypeOK ==
    /\ conn.processed \subseteq Sources /\ disk.processed \subseteq Sources
    /\ listed \subseteq Sources /\ spoken \subseteq Transcripts
    /\ xpc \in {"idle", "next", "store"} /\ queue \subseteq Sources
    /\ facts \in 0..MaxFacts /\ begun \in BOOLEAN /\ stored \in [Sources -> 0..2]
    /\ whole \subseteq Sources /\ garbled \subseteq Sources /\ cutOff \subseteq Sources

(* A source that is marked will not be looked at again: one pass stored    *)
(* all the facts it found, be it after passes that failed, or the answer   *)
(* could not be read, or it was taken for a stub.  Facts of a source are   *)
(* stored by one pass only, unless a pass was cut off between its first    *)
(* fact and its mark, or a crash took the mark back.                       *)
MarkedIsWhole ==
    /\ \A s \in conn.processed : s \in whole \union garbled \/ Stub(s)
    /\ \A s \in Sources : stored[s] > 1 => s \in cutOff

-----------------------------------------------------------------------------
(* What makes it inductive (PollingProofs).  A source at the model is not  *)
(* marked; one of which facts are stored is marked on disk, or at hand, or *)
(* its pass was cut off.                                                   *)
ExtractRunInv ==
    /\ \A t \in {conn, disk} : "processed" \in DOMAIN t
    /\ disk.processed \subseteq conn.processed
    /\ xpc = "store" => queue # {} /\ Source \notin conn.processed
    /\ begun => xpc = "store"

StoredIsMarked ==
    \A s \in Sources : stored[s] > 0 /\ s \notin cutOff =>
        s \in disk.processed \/ (begun /\ s = Source)

ExtractInv == ExtractTypeOK /\ ExtractRunInv /\ StoredIsMarked /\ MarkedIsWhole
==============================================================================
