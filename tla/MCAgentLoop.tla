---------------------------- MODULE MCAgentLoop -----------------------------
(***************************************************************************)
(* Instances of AgentLoop: the owner's session beside one job's, a gated   *)
(* tool to send with, one with a gated and a free use (scheduling_respond) *)
(* and a free one to read with.                                            *)
(***************************************************************************)
EXTENDS AgentLoop, TLC

CONSTANTS owner, job, send, respond, read

OwnerAndJob == {owner, job}
AllTools == {send, respond}
OneTool == {read}

Gate(t) == [tool |-> t, gated |-> TRUE]
Free(t) == [tool |-> t, gated |-> FALSE]

GatedBatches == {<<Gate(send)>>, <<Gate(send), Gate(respond)>>,
                 <<Gate(send), Gate(send)>>, <<Free(respond), Gate(send)>>}
FreeBatches == {<<Free(read)>>}

Estimates == [r \in 1..Rungs |-> IF r = 1 THEN 2 ELSE 1]
NoEstimates == [r \in 1..Rungs |-> 0]
=============================================================================
