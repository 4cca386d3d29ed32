------------------------------ MODULE Interview ------------------------------
(* The interview that sets an installation up (interview/state_machine.py, *)
(* steps.py, cli/interview.py).  Every answer is a process of its own: it  *)
(* resumes from the progress on disk, writes the step's answer into a      *)
(* file of the configuration, and then stores the progress.  It can die in *)
(* between; --start begins again and leaves the files as they are.         *)
(*                                                                         *)
(* Of the files it counts what later readers rely on: which sections are   *)
(* answered, and how often the stakeholders were appended.  A write of a   *)
(* file is taken as one step.                                              *)
EXTENDS Naturals, Sequences, FiniteSets

CONSTANTS
    MaxAppends,       \* appends of stakeholders followed
    InterviewFaults   \* a subset of {"raise", "crash"}

ASSUME AppendsAssumption == MaxAppends \in Nat

VARIABLES
    asking,    \* the process: "none", or the step whose answer it has written
    progress,  \* the stored index, from 0, or NoProgress
    sections,  \* sections of the files that hold an answer
    appended   \* how often the stakeholders were appended

interviewVars == <<asking, progress, sections, appended>>

Steps == <<"identity", "stakes", "voice", "stakeholders", "calendar_reality", "job_staging",
           "oauth", "budget", "first_simulation", "deploy">>
Silent == {"oauth", "budget", "first_simulation", "deploy"}
NoProgress == 99

InterviewIdle ==
    /\ asking = "none" /\ progress = NoProgress
    /\ sections = {} /\ appended = 0

(* Without stored progress a process begins at the first step.             *)
Resumed == IF progress = NoProgress THEN 0 ELSE progress
Complete == Resumed >= Len(Steps)

StartInterview ==
    /\ asking = "none"
    /\ progress' = 0
    /\ UNCHANGED <<asking, sections, appended>>

(* The identity writes personality.md anew, with the other two sections    *)
(* to be filled in; the steps after it fill theirs, whatever was there.    *)
Written(step) ==
    CASE step = "identity" -> (sections \ {"stakes", "voice"}) \union {step}
      [] step \in Silent   -> sections
      [] OTHER             -> sections \union {step}

ApplyAnswer ==
    /\ asking = "none" /\ ~Complete
    /\ LET step == Steps[Resumed + 1] IN
        /\ step = "stakeholders" => appended < MaxAppends
        /\ asking' = step
        /\ sections' = Written(step)
        /\ appended' = IF step = "stakeholders" THEN appended + 1 ELSE appended
    /\ UNCHANGED progress

(* (mutant) The exception is swallowed and the interview goes on.          *)
RaiseAndGoOn ==
    /\ asking = "none" /\ ~Complete /\ "raise" \in InterviewFaults
    /\ Steps[Resumed + 1] \notin Silent
    /\ progress' = Resumed + 1
    /\ UNCHANGED <<asking, sections, appended>>

(* An answer that a step cannot write (a backslash in a replacement, a     *)
(* file that does not parse) ends the process before it moves on.          *)
ApplyRaises ==
    /\ asking = "none" /\ ~Complete /\ "raise" \in InterviewFaults
    /\ Steps[Resumed + 1] \notin Silent
    /\ UNCHANGED interviewVars

StoreProgress ==
    /\ asking # "none"
    /\ progress' = Resumed + 1
    /\ asking' = "none"
    /\ UNCHANGED <<sections, appended>>

InterviewCrash ==
    /\ asking # "none" /\ "crash" \in InterviewFaults
    /\ asking' = "none"
    /\ UNCHANGED <<progress, sections, appended>>

InterviewNext ==
    StartInterview \/ ApplyAnswer \/ ApplyRaises \/ StoreProgress \/ InterviewCrash

InterviewTypeOK ==
    /\ asking \in {"none"} \union {Steps[k] : k \in DOMAIN Steps}
    /\ progress \in 0 .. Len(Steps) \union {NoProgress}
    /\ sections \subseteq {Steps[k] : k \in DOMAIN Steps}
    /\ appended \in 0 .. MaxAppends

(* Whatever died or began again in between, the interview never gets past  *)
(* a step whose section is not answered: an installation whose interview   *)
(* is complete has no "(filled in by step 3)" left for the bot to speak    *)
(* with.                                                                   *)
NothingSkipped ==
    \A k \in 1 .. Len(Steps) :
        (k <= Resumed /\ Steps[k] \notin Silent \union {"stakeholders"}) => Steps[k] \in sections

(* What makes it inductive (ServicesProofs): the process that has          *)
(* written an answer is at the step after those it resumed behind, and the *)
(* answer is in the files.                                                 *)
AnswerWritten ==
    asking # "none" =>
        /\ ~Complete /\ asking = Steps[Resumed + 1]
        /\ asking \notin Silent => asking \in sections

InterviewInv == InterviewTypeOK /\ AnswerWritten /\ NothingSkipped
==============================================================================
