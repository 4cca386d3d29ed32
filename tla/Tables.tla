-------------------------------- MODULE Tables --------------------------------
(***************************************************************************)
(* The tables a polling job writes, through the connection that every      *)
(* thread of the process shares.  A statement shows at once on the         *)
(* connection and reaches the disk with the next commit, whoever makes it; *)
(* a job's own statements take no lock, so the commit of any other thread  *)
(* carries them along.                                                     *)
(***************************************************************************)
VARIABLES
    conn,  \* as the connection shows them
    disk   \* as they are on disk

tables == <<conn, disk>>

Created(rows) == conn = rows /\ disk = rows

(* Each table of rows is as it was created.                                *)
AtRest(rows) == \A t \in {conn, disk} : \A f \in DOMAIN rows : f \in DOMAIN t /\ t[f] = rows[f]

Write(rows) == conn' = rows /\ UNCHANGED disk

WriteAndCommit(rows) == conn' = rows /\ disk' = rows

OthersCommit == disk' = conn /\ UNCHANGED conn

(* What was not committed is gone.                                         *)
Reopen == conn' = disk /\ UNCHANGED disk
===============================================================================
