--------------------------- MODULE MCCommitments ---------------------------
(***************************************************************************)
(* Commitments with the owner's thread, a job's and a sub-agent's.         *)
(***************************************************************************)
EXTENDS Commitments, TLC
CONSTANTS owner, job, rela, c1
ThreeThreads == {owner, job, rela}
OneItem == {c1}
=============================================================================
