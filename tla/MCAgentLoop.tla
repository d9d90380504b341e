---------------------------- MODULE MCAgentLoop ----------------------------
(***************************************************************************)
(* Model checking of AgentLoop on short runs, of two kinds, and of the     *)
(* runs that change from one kind to the other on the way.                 *)
(***************************************************************************)
EXTENDS AgentLoop

\* The queues: three messages, two steering ones (order and both queue modes
\* matter) and an aside or a follow-up, or one of each kind.  The pause gate,
\* which only delays, stays open, and the host asks for no tool.
Queues ==
  /\ ~paused /\ sent["aside"] <= 1 /\ sent["follow"] <= 1
  /\ sent["steer"] + sent["aside"] + sent["follow"] <= 3
  /\ directive = "none" /\ softId = "none"

\* Soft requirements: one steering message, so that a turn can be entered for
\* it alone, and nothing else queued; the gate opens and closes at will.
Requests == sent["steer"] <= 1 /\ sent["aside"] = 0 /\ sent["follow"] = 0

MCSpec == Init /\ [][Next /\ (Queues \/ Requests)']_vars /\ Fairness
=============================================================================
