---------------------------- MODULE SessionTurns ----------------------------
(***************************************************************************)
(* Who may start the agent, and when: AgentSession's turn control          *)
(* (packages/coding-agent/src/session/agent-session.ts) over the run       *)
(* bookkeeping of Agent (packages/agent/src/agent.ts) and the idle flush   *)
(* of YieldQueue (session/yield-queue.ts).                                 *)
(*                                                                         *)
(* The actors are the asynchronous functions under way: prompt() calls,    *)
(* aborts and session changes, continuations that drain queued messages,   *)
(* idle flushes of background results and handlers of agent_end.  A step   *)
(* is the code between two awaits.  A run polls its queues, fails or stops *)
(* at any time; queued messages and results are counted, not told apart.   *)
(* Follow-ups, IRC, retries, compaction, handoff and the advisor are left  *)
(* out.                                                                    *)
(***************************************************************************)
EXTENDS Naturals, FiniteSets, FiniteSetsExt

CONSTANTS
  MaxActors,    \* bound: asynchronous functions under way at a time
  MaxPrompts,   \* bound: calls of prompt()
  MaxSteers,    \* bound: messages queued with steer()
  MaxResults,   \* bound: results of background jobs
  MaxAborts,    \* bound: aborts and session changes
  MaxCalls      \* bound: all those calls together

ASSUME BoundsAssumption ==
  /\ MaxActors \in Nat \ {0} /\ MaxPrompts \in Nat /\ MaxSteers \in Nat
  /\ MaxResults \in Nat /\ MaxAborts \in Nat
  /\ MaxCalls \in Nat

Slot == 1..MaxActors

VARIABLES
  streaming,   \* Agent's state.isStreaming
  current,     \* the actor whose run owns #abortController and #runningPrompt, or 0
  actors,
  inFlight,    \* #promptInFlightCount
  generation,  \* #promptGeneration
  aborting,    \* #abortInProgress
  endPending,  \* #pendingAgentEndEmit
  wire,        \* what subscribers were last told: busy, or idle by an agent_end
  steers,      \* Agent's #steeringQueue
  results,     \* entries of the YieldQueue
  flushPending,\* #idleFlushPending
  torn,        \* history: Agent.reset() cleared isStreaming under a run that began during
               \* the session change, and runs still go
  used         \* calls made so far, against the bounds

agent == <<streaming, current>>
session == <<inFlight, generation, aborting>>
ends == <<endPending, wire>>
queues == <<steers, results, flushPending>>
vars == <<agent, actors, session, ends, queues, torn, used>>

Kind == {"none", "prompt", "abort", "switch", "drain", "flush", "handler"}
Pc == {"free", "entering", "setup", "waiting", "prompting", "running", "returned",
       "cancelling", "settling", "resetting", "reopening", "restoring", "sleeping", "handling", "maintaining"}
Actor == [kind : Kind, pc : Pc, gen : 0..MaxAborts,
          cancelled : BOOLEAN,   \* a post-prompt task's signal
          stopped : BOOLEAN,     \* the abort signal of its run
          late : BOOLEAN,        \* history: its run began during a session change
          on : 0..MaxActors]     \* the actor whose #runningPrompt it awaits
Calls == [prompts : 0..MaxPrompts, steers : 0..MaxSteers, results : 0..MaxResults,
          aborts : 0..MaxAborts]

TypeOK ==
  /\ streaming \in BOOLEAN /\ current \in 0..MaxActors
  /\ actors \in [Slot -> Actor]
  /\ inFlight \in 0..MaxActors /\ generation \in 0..MaxAborts /\ aborting \in BOOLEAN
  /\ endPending \in BOOLEAN /\ wire \in {"busy", "idle"}
  /\ steers \in 0..MaxSteers /\ results \in 0..MaxResults /\ flushPending \in BOOLEAN
  /\ torn \in BOOLEAN /\ used \in Calls

-----------------------------------------------------------------------------
Entrant(kind, pc) ==
  [kind |-> kind, pc |-> pc, gen |-> 0, cancelled |-> FALSE, stopped |-> FALSE,
   late |-> FALSE, on |-> 0]
Nobody == Entrant("none", "free")
\* A slot whose run somebody still waits for is not taken again.
Free(acts) == {a \in Slot : acts[a].pc = "free" /\ \A b \in Slot : acts[b].on # a}
Enter(acts, kind, pc) == [acts EXCEPT ![Min(Free(acts))] = Entrant(kind, pc)]
\* A call from outside leaves a slot for the handler of an agent_end.
Room == Cardinality(Free(actors)) > 1
MayCall == used.prompts + used.steers + used.results + used.aborts < MaxCalls
Left(a) == [actors EXCEPT ![a] = Nobody]
At(a, pc) == [actors EXCEPT ![a].pc = pc]

\* Post-prompt tasks: what #trackPostPromptTask registers.
Tasks == {a \in Slot : actors[a].kind \in {"drain", "flush", "handler"}}

Going == {a \in Slot : actors[a].pc = "running"}

\* The session listens to the agent: newSession() disconnects first.
Connected == \A a \in Slot : actors[a].kind # "switch"

\* AgentSession.isStreaming
Busy == streaming \/ inFlight > 0

\* #scheduleQueuedMessageDrain with so many prompts in flight and messages queued.  The continuation
\* it schedules runs at once up to its first await: its flag is down again, and
\* it is in flight itself.
ScheduleDrain(acts, count, queued) ==
  IF ~streaming /\ count = 0 /\ queued > 0
  THEN /\ Free(acts) # {}
       /\ actors' = Enter(acts, "drain", "restoring")
       /\ inFlight' = 1
  ELSE /\ actors' = acts
       /\ inFlight' = count

\* Mutant: settling forgets the queued messages.
AllSettled_NoDrain(acts, held) ==
  /\ endPending' = FALSE
  /\ wire' = IF endPending THEN "idle" ELSE wire
  /\ actors' = acts /\ inFlight' = 0

\* What #endInFlight and #resetInFlight do once nothing is in flight: the held
\* agent_end goes out, and queued messages are drained, not during an abort.
AllSettled(acts, held) ==
  /\ endPending' = FALSE
  /\ wire' = IF endPending THEN "idle" ELSE wire
  /\ IF held
     THEN actors' = acts /\ inFlight' = 0
     ELSE ScheduleDrain(acts, 0, steers)

\* Mutant: the count is not kept from falling below zero.
EndInFlight_NoFloor(a) ==
  /\ UNCHANGED aborting
  /\ IF inFlight # 1
     THEN /\ inFlight' = inFlight - 1
          /\ actors' = Left(a)
          /\ UNCHANGED ends
     ELSE AllSettled(Left(a), aborting)

\* #endInFlight, as the last thing actor a does.
EndInFlight(a) ==
  /\ UNCHANGED aborting
  /\ IF inFlight > 1
     THEN /\ inFlight' = inFlight - 1
          /\ actors' = Left(a)
          /\ UNCHANGED ends
     ELSE AllSettled(Left(a), aborting)

-----------------------------------------------------------------------------
\* Mutant: a run starts beside another.
StartRun_Unguarded(a) ==
  /\ streaming' = TRUE
  /\ current' = a
  /\ actors' = [actors EXCEPT ![a].pc = "running", ![a].stopped = FALSE,
                              ![a].late = ~Connected]
  /\ wire' = "busy"
  /\ steers' = 0

\* Agent: a run starts by polling the steering queue (#runLoop).
StartRun(a) ==
  /\ ~streaming
  /\ streaming' = TRUE
  /\ current' = a
  /\ actors' = [actors EXCEPT ![a].pc = "running", ![a].stopped = FALSE,
                              ![a].late = ~Connected]
  /\ wire' = "busy"
  /\ steers' = 0

\* A boundary of the run: steering messages and results are taken.
Poll(a) ==
  /\ actors[a].pc = "running"
  /\ ~actors[a].stopped
  /\ steers + results > 0
  /\ steers' = 0
  /\ results' = 0
  /\ UNCHANGED <<agent, actors, session, ends, flushPending, torn, used>>

\* The run stops: aborted, failed, or with nothing left to take.  agent_end is
\* emitted, which starts the session's handler unless it is disconnected, and
\* the finally clause clears what the agent knows of a run and resolves its
\* #runningPrompt; no other code than the listeners runs in between.
\* Mutant: nobody resolves the promise of the run.
Awoken_Nobody(acts) == acts

Awoken(acts) ==
  [a \in Slot |->
     IF acts[a].pc = "waiting" /\ acts[a].on = current
     THEN [acts[a] EXCEPT !.on = 0, !.pc = IF acts[a].kind = "prompt" THEN "prompting" ELSE "settling"]
     ELSE acts[a]]
Stop(a) ==
  /\ actors[a].pc = "running"
  /\ streaming' = FALSE
  /\ current' = 0
  /\ LET woken == Awoken([actors EXCEPT ![a].pc = "returned", ![a].stopped = FALSE,
                                       ![a].late = FALSE])
     IN IF Connected
        THEN Free(woken) # {} /\ actors' = Enter(woken, "handler", "handling")
        ELSE actors' = woken
  /\ torn' = (torn /\ Going # {a})
  /\ UNCHANGED <<session, ends, queues, used>>

-----------------------------------------------------------------------------
\* prompt() while the session is idle.  Images are normalized before anything is
\* in flight, so that another prompt may enter meanwhile.
Prompt ==
  /\ used.prompts < MaxPrompts /\ MayCall
  /\ ~Busy
  /\ Room
  /\ actors' = Enter(actors, "prompt", "entering")
  /\ used' = [used EXCEPT !.prompts = @ + 1]
  /\ UNCHANGED <<agent, session, ends, queues, torn>>

\* #promptWithMessage begins.
BeginInFlight(a) ==
  /\ actors[a].pc = "entering"
  /\ inFlight' = inFlight + 1
  /\ actors' = [actors EXCEPT ![a].pc = "setup", ![a].gen = generation]
  /\ UNCHANGED <<agent, generation, aborting, ends, queues, torn, used>>

\* Its setup has awaits of its own and may fail; an abort meanwhile makes it give
\* up.  #promptAgentWithIdleRetry then waits for a run that is still going, up
\* to a deadline.
EndSetup(a) ==
  /\ actors[a].kind = "prompt" /\ actors[a].pc \in {"setup", "prompting"}
  /\ \/ /\ actors[a].pc = "setup" \/ streaming
        /\ EndInFlight(a)
        /\ UNCHANGED <<agent, generation, queues>>
     \/ /\ actors[a].pc = "setup" => actors[a].gen = generation
        /\ StartRun(a)
        /\ UNCHANGED <<session, endPending, results, flushPending>>
     \/ /\ actors[a].pc = "setup" => actors[a].gen = generation
        /\ streaming
        /\ actors' = [actors EXCEPT ![a].pc = IF current = 0 THEN "prompting" ELSE "waiting",
                                    ![a].on = current]
        /\ UNCHANGED <<agent, session, ends, queues>>
  /\ UNCHANGED <<torn, used>>

\* Back from agent.continue(), or from an idle flush's agent.prompt().
Return(a) ==
  /\ actors[a].pc = "returned"
  /\ \/ /\ actors[a].kind = "drain"
        /\ EndInFlight(a)
        /\ UNCHANGED generation
     \/ /\ actors[a].kind = "flush"
        /\ actors' = Left(a)
        /\ UNCHANGED <<session, ends>>
  /\ UNCHANGED <<agent, queues, torn, used>>

\* Back from agent.prompt(), #waitForPostPromptRecovery: until no task is left and nothing streams, or the
\* prompt was superseded by an abort.
Recover(a) ==
  /\ actors[a].kind = "prompt" /\ actors[a].pc = "returned"
  /\ actors[a].gen # generation \/ (Tasks = {} /\ ~streaming)
  /\ EndInFlight(a)
  /\ UNCHANGED <<agent, generation, queues, torn, used>>

\* A continuation after #maybeRestoreRetryFallbackPrimary: Agent.continue()
\* refuses while a run is going or with nothing queued.
Continue(a) ==
  /\ actors[a].pc = "restoring"
  /\ IF actors[a].cancelled \/ streaming \/ steers = 0
     THEN /\ EndInFlight(a)
          /\ UNCHANGED <<agent, generation, queues>>
     ELSE /\ StartRun(a)
          /\ UNCHANGED <<session, endPending, results, flushPending>>
  /\ UNCHANGED <<torn, used>>

\* Mutant: agent_end is not held back.
EmitEnd_Unheld(a) ==
  /\ actors[a].pc = "handling"
  /\ actors' = At(a, "maintaining")
  /\ wire' = "idle"
  /\ UNCHANGED <<agent, session, endPending, queues, torn, used>>

\* The handler of agent_end: the event goes to the extensions, then to the
\* subscribers unless a prompt is in flight; maintenance follows.
EmitEnd(a) ==
  /\ actors[a].pc = "handling"
  /\ actors' = At(a, "maintaining")
  /\ IF inFlight > 0
     THEN endPending' = TRUE /\ UNCHANGED wire
     ELSE wire' = "idle" /\ UNCHANGED endPending
  /\ UNCHANGED <<agent, session, queues, torn, used>>

EndHandler(a) ==
  /\ actors[a].pc = "maintaining"
  /\ actors' = Left(a)
  /\ UNCHANGED <<agent, session, ends, queues, torn, used>>

-----------------------------------------------------------------------------
\* steer(), also what prompt() does while the session is busy.
Steer ==
  /\ used.steers < MaxSteers /\ MayCall
  /\ Room
  /\ steers' = steers + 1
  /\ ScheduleDrain(actors, inFlight, steers + 1)
  /\ used' = [used EXCEPT !.steers = @ + 1]
  /\ UNCHANGED <<agent, generation, aborting, ends, results, flushPending, torn>>

\* YieldQueue.enqueue: the result of a background job.
Enqueue ==
  /\ used.results < MaxResults /\ MayCall
  /\ results' = results + 1
  /\ IF ~Busy /\ ~flushPending
     THEN /\ Room
          /\ flushPending' = TRUE
          /\ actors' = Enter(actors, "flush", "sleeping")
     ELSE UNCHANGED <<flushPending, actors>>
  /\ used' = [used EXCEPT !.results = @ + 1]
  /\ UNCHANGED <<agent, session, ends, steers, torn>>

\* The flush it scheduled, after its delay.  An abort during the delay ends the
\* task before it runs anything of the queue's.
Flush(a) ==
  /\ actors[a].pc = "sleeping"
  /\ IF actors[a].cancelled
     THEN actors' = Left(a) /\ UNCHANGED <<agent, wire, queues>>
     ELSE /\ flushPending' = FALSE
          /\ IF Busy \/ results = 0
             THEN actors' = Left(a) /\ UNCHANGED <<agent, wire, steers, results>>
             ELSE results' = 0 /\ StartRun(a)
  /\ UNCHANGED <<session, endPending, torn, used>>

-----------------------------------------------------------------------------
\* abort(), alone or as the start of newSession(), which disconnects first.
Abort(kind) ==
  /\ used.aborts < MaxAborts /\ MayCall
  /\ kind = "switch" => Connected
  /\ Room
  /\ aborting' = TRUE
  /\ generation' = generation + 1
  /\ actors' = Enter([a \in Slot |-> [actors[a] EXCEPT !.cancelled = @ \/ a \in Tasks,
                                                       !.stopped = @ \/ a = current,
                                                       !.late = @ /\ kind # "switch"]],
                     kind, "cancelling")
  /\ used' = [used EXCEPT !.aborts = @ + 1]
  /\ UNCHANGED <<agent, inFlight, ends, queues, torn>>

\* Mutant: the run is not waited for.
Cancelled_NoWait(a) ==
  /\ actors[a].pc = "cancelling"
  /\ \A t \in Tasks : ~actors[t].cancelled
  /\ actors' = At(a, "settling")
  /\ UNCHANGED <<agent, session, ends, queues, torn, used>>

\* #cancelPostPromptTasks has settled; then wait for the run.
Cancelled(a) ==
  /\ actors[a].pc = "cancelling"
  /\ \A t \in Tasks : ~actors[t].cancelled
  /\ actors' = [actors EXCEPT ![a].pc = IF current = 0 THEN "settling" ELSE "waiting",
                              ![a].on = current]
  /\ UNCHANGED <<agent, session, ends, queues, torn, used>>

\* #resetInFlight, and the finally clause.
Settle(a) ==
  /\ actors[a].pc = "settling"
  /\ aborting' = FALSE
  /\ AllSettled(IF actors[a].kind = "switch" THEN At(a, "resetting") ELSE Left(a),
                FALSE)
  /\ UNCHANGED <<agent, generation, queues, torn, used>>

\* newSession() goes on with Agent.reset(), whatever runs by then: the drain that settling
\* has started, or a prompt that came in meanwhile.
Reset(a) ==
  /\ actors[a].pc = "resetting"
  /\ streaming' = FALSE
  /\ steers' = 0
  /\ torn' = (torn \/ \E r \in Going : actors[r].late)
  /\ actors' = At(a, "reopening")
  /\ UNCHANGED <<current, session, ends, results, flushPending, used>>

\* The new journal is open, and the session listens to the agent again.
Reconnect(a) ==
  /\ actors[a].pc = "reopening"
  /\ actors' = Left(a)
  /\ UNCHANGED <<agent, session, ends, queues, torn, used>>

-----------------------------------------------------------------------------
Init ==
  /\ streaming = FALSE /\ current = 0
  /\ actors = [a \in Slot |-> Nobody]
  /\ inFlight = 0 /\ generation = 0 /\ aborting = FALSE
  /\ endPending = FALSE /\ wire = "idle"
  /\ steers = 0 /\ results = 0 /\ flushPending = FALSE
  /\ torn = FALSE
  /\ used = [prompts |-> 0, steers |-> 0, results |-> 0, aborts |-> 0]

Step(a) ==
  \/ Poll(a) \/ Stop(a)
  \/ BeginInFlight(a) \/ EndSetup(a) \/ Return(a) \/ Recover(a)
  \/ Continue(a) \/ EmitEnd(a) \/ EndHandler(a) \/ Flush(a)
  \/ Cancelled(a) \/ Settle(a) \/ Reset(a) \/ Reconnect(a)

Next ==
  \/ Prompt \/ Steer \/ Enqueue
  \/ \E kind \in {"abort", "switch"} : Abort(kind)
  \/ \E a \in Slot : Step(a)

\* Runs, their handlers and setups end (a run that is given nothing new stops),
\* and the event loop runs what is woken.
Fairness == \A a \in Slot : WF_vars(Step(a)) /\ WF_vars(Stop(a))

Spec == Init /\ [][Next]_vars
FairSpec == Spec /\ Fairness

-----------------------------------------------------------------------------
\* Properties.

\* The agent never has two runs going at once: AgentBusyError turns the second away ("Agent
\* is already processing...").  Not so once reset() has cleared isStreaming under a run
\* that began while newSession() was waiting, until those runs have ended.
OneRunAtATime == torn \/ Cardinality(Going) <= 1

\* With the same exception, the run that is going is the one an abort reaches, and the
\* session reports itself busy while it goes: no path clears what the agent knows of a live
\* run, and newSession() never resets under the run its abort has stopped.
RunIsKnown == torn \/ \A a \in Going : current = a /\ streaming

\* AgentBusyError without that exception.
NoSecondRun == Cardinality(Going) <= 1

\* Until the first abort, subscribers are told agent_end only once every prompt
\* and continuation in flight has unwound ("Hold the wire-level agent_end until
\* in-flight prompts unwind").
Unwinding(acts) ==
  {a \in Slot : acts[a].pc \in {"setup", "waiting", "prompting", "restoring"}
                \/ (acts[a].kind \in {"prompt", "drain"} /\ acts[a].pc \in {"running", "returned"})}
EndMeansIdle ==
  [][(wire = "busy" /\ wire' = "idle" /\ generation' = 0)
     => \A a \in Unwinding(actors) : actors'[a] # actors[a]]_vars

\* The #runningPrompt somebody waits for has been replaced by that of a second run, started
\* after such a reset(): nobody resolves it any more.
Deserted == \E a \in Slot, r \in Going : actors[a].pc = "waiting" /\ actors[a].on = r /\ r # current

\* A message queued while a prompt is in flight reaches a run, or the queue is cleared for a
\* new session: no loop may have been left to poll it (the comment on
\* #drainStrandedQueuedMessages).  Not so while an idle flush's run goes, which is not
\* counted as in flight and leaves what comes after its last poll (agent-session.ts:2200),
\* and not if a wait was deserted, as the abort that hangs then holds all drains back.
SteersAreTaken ==
  [](~Deserted) =>
    ((steers > 0 /\ inFlight > 0 /\ \A a \in Going : actors[a].kind # "flush") ~> (steers = 0))

\* abort() and newSession() come back, although they wait for the tasks they cancel and
\* for the run they stop: unless a wait was deserted.
AbortReturns == [](~Deserted) => (aborting ~> ~aborting)

\* Each result of a background job arrives in the conversation.
ResultsArrive == (results > 0) ~> (results = 0)
=============================================================================
