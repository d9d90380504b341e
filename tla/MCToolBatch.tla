---------------------------- MODULE MCToolBatch ----------------------------
(***************************************************************************)
(* Model checking of ToolBatch on batches of three calls.                  *)
(***************************************************************************)
EXTENDS ToolBatch

\* Three calls, every way to chain them: exclusive before, between and after
\* shared calls.  Steering, the run's abort and the mode are free, the pause gate
\* and the peers are not, and no call is interruptible.
Chain == interruptible = {}

\* An interruptible wait before a foreground call that has to run alone, under
\* the whole environment.  The third call comes after both, and its arguments
\* are rejected.
Pair == interruptible = {1} /\ exclusive = {2} /\ immediate

MCInit ==
  /\ Init
  /\ ~ircQueued /\ ~paused
  /\ Chain \/ (Pair /\ ~steerQueued /\ ~extAborted)

MCNext ==
  /\ Next
  /\ Chain => UNCHANGED <<paused, ircQueued>>
  /\ Pair => 3 \notin started'

MCSpec == MCInit /\ [][MCNext]_vars /\ Fairness
=============================================================================
