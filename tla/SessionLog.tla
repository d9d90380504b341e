----------------------------- MODULE SessionLog -----------------------------
(***************************************************************************)
(* What session persistence promises, without saying how: every session    *)
(* has a log that grows one entry at a time, and the disk holds a prefix   *)
(* of it that never shrinks.  An entry is on disk as soon as it is         *)
(* accepted, unless entries are held back.  Losing the process, or leaving *)
(* the session, cuts the log back to the disk, so it costs only what was   *)
(* held back.                                                              *)
(*                                                                         *)
(* That is less than the comment on SessionManager says ("an entry         *)
(* survives an OOM/SIGKILL the instant appendMessage returns"): entries    *)
(* are held back while a session is to have no file, while a rewrite of    *)
(* the file is under way, and after a disk error.  Once broken, nothing is *)
(* promised any more.                                                      *)
(***************************************************************************)
EXTENDS Sequences, SequencesExt

CONSTANTS Session, Entry

VARIABLES
  log,    \* per session: the entries accepted, in order
  saved,  \* per session: the entries a restart finds on disk
  held,   \* whether entries are held back
  broken  \* whether the promise is off

vars == <<log, saved, held, broken>>

Init ==
  /\ log = [s \in Session |-> << >>]
  /\ saved = [s \in Session |-> << >>]
  /\ held \in BOOLEAN
  /\ ~broken

\* The disk may catch up with the log in any step.
CatchUp == \A s \in Session : IsPrefix(saved[s], saved'[s]) /\ IsPrefix(saved'[s], log'[s])

Accept ==
  /\ \E s \in Session, e \in Entry :
       /\ log' = [log EXCEPT ![s] = Append(@, e)]
       /\ held' \/ saved'[s] = log'[s]
  /\ CatchUp

Save ==
  /\ log' = log
  /\ CatchUp

Forget ==
  /\ \E S \in SUBSET Session : log' = [s \in Session |-> IF s \in S THEN saved[s] ELSE log[s]]
  /\ saved' = saved

Next == broken' \/ (~broken /\ (Accept \/ Save \/ Forget))

Spec == Init /\ [][Next]_vars
=============================================================================
