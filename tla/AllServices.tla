----------------------------- MODULE AllServices ------------------------------
(***************************************************************************)
(* The jobs that poll, the auth watcher, the consult server, the slot      *)
(* finder, the verifier and the interview do not act on each other: a      *)
(* behaviour exercises one of them.  What the jobs share, the connection,  *)
(* is in Tables.                                                           *)
(***************************************************************************)
EXTENDS InboundEmail, Debrief, Extraction, Digest, AuthHealth, Consult,
        Slots, Verifier, Interview

CONSTANT Services

VARIABLE focus

(* The rows of all the jobs, in one file.                                  *)
AllTables ==
    [since |-> MailTables.since, marked |-> MailTables.marked,
     debriefed |-> DebriefTables.debriefed, processed |-> ExtractTables.processed,
     kept |-> DigestTables.kept, row |-> DigestTables.row]

others == <<slotVars, verifyVars, interviewVars>>

Init ==
    /\ focus \in Services
    /\ MailIdle /\ DebriefIdle /\ ExtractIdle /\ DigestIdle /\ AuthIdle /\ ConsultIdle
    /\ VerifyIdle /\ InterviewIdle
    /\ IF focus = "slots" THEN SlotsIdle ELSE NoSlots
    /\ Created(AllTables)

Next ==
    \/ focus = "mail" /\ MailNext
        /\ UNCHANGED <<focus, debriefVars, extractVars, digestVars, authVars, consultVars, others>>
    \/ focus = "debrief" /\ DebriefNext
        /\ UNCHANGED <<focus, mailVars, extractVars, digestVars, authVars, consultVars, others>>
    \/ focus = "extract" /\ ExtractNext
        /\ UNCHANGED <<focus, mailVars, debriefVars, digestVars, authVars, consultVars, others>>
    \/ focus = "digest" /\ DigestNext
        /\ UNCHANGED <<focus, mailVars, debriefVars, extractVars, authVars, consultVars, others>>
    \/ focus = "auth" /\ AuthNext
        /\ UNCHANGED <<tables, focus, mailVars, debriefVars, extractVars, digestVars, consultVars, others>>
    \/ focus = "consult" /\ ConsultNext
        /\ UNCHANGED <<tables, focus, mailVars, debriefVars, extractVars, digestVars, authVars, others>>
    \/ /\ \/ focus = "slots" /\ Propose /\ UNCHANGED <<verifyVars, interviewVars>>
          \/ focus = "verify" /\ VerifyNext /\ UNCHANGED <<slotVars, interviewVars>>
          \/ focus = "interview" /\ InterviewNext /\ UNCHANGED <<slotVars, verifyVars>>
       /\ UNCHANGED <<tables, focus, mailVars, debriefVars, extractVars, digestVars, authVars, consultVars>>

Spec == Init /\ [][Next]_<<tables, focus, mailVars, debriefVars, extractVars, digestVars, authVars, consultVars, others>>

-----------------------------------------------------------------------------
(* The inductive invariant of the whole (ServicesProofs): the invariant of *)
(* the service at work, its types and its properties included; the others  *)
(* are at rest, and so are their rows.                                     *)
ServicesInv ==
    /\ IF focus = "mail" THEN MailInv ELSE MailIdle /\ AtRest(MailTables)
    /\ IF focus = "debrief" THEN DebriefInv ELSE DebriefIdle /\ AtRest(DebriefTables)
    /\ IF focus = "extract" THEN ExtractInv ELSE ExtractIdle /\ AtRest(ExtractTables)
    /\ IF focus = "digest" THEN DigestInv ELSE DigestIdle /\ AtRest(DigestTables)
    /\ IF focus = "auth" THEN AuthInv ELSE AuthIdle
    /\ IF focus = "consult" THEN LimiterInv ELSE ConsultIdle
    /\ IF focus = "slots" THEN SlotsInv ELSE NoSlots
    /\ IF focus = "verify" THEN VerifyInv ELSE VerifyIdle
    /\ IF focus = "interview" THEN InterviewInv ELSE InterviewIdle
===============================================================================
