--------------------------- MODULE ToolBatchLate ---------------------------
(***************************************************************************)
(* ToolBatch with a history variable: the calls whose tool.execute failed  *)
(* by itself, while no signal they listen to had fired yet.                *)
(***************************************************************************)
EXTENDS ToolBatch

VARIABLE failedEarly

LateInit == Init /\ failedEarly = {} /\ ~steerQueued /\ ~ircQueued /\ ~extAborted

LateNext ==
  /\ Next
  /\ failedEarly' = failedEarly \cup
       {i \in Call : /\ pc[i] = "executing" /\ pc'[i] # "executing"
                     /\ outcome'[i] = "error" /\ ~Aborted(i)}

LateSpec == LateInit /\ [][LateNext]_<<vars, failedEarly>>

\* A tool that finished with a genuine error before an interrupt landed keeps
\* its real result (comment at agent-loop.ts:2142): it already ran its side
\* effects, and a "skipped" would invite the model to run them again.
FinishedKeepsResult ==
  \A i \in failedEarly : result[i] # "skipped"
=============================================================================
