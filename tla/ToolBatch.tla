------------------------------ MODULE ToolBatch ------------------------------
(***************************************************************************)
(* One call of executeToolCalls (packages/agent/src/agent-loop.ts): the    *)
(* agent loop hands over the tool calls of one assistant message, numbered *)
(* in message order, and gets back one tool result per call.  Shared calls *)
(* run concurrently, an exclusive call runs alone.  Queued steering and    *)
(* interrupting peer messages (IRC) are polled without being consumed and  *)
(* abort the batch through two abort controllers; the run's own signal     *)
(* aborts it from outside; the process-wide pause gate parks a call before *)
(* it starts.                                                              *)
(*                                                                         *)
(* A step is the code between two awaits of one asynchronous function:     *)
(* JavaScript interleaves nothing inside it.                               *)
(***************************************************************************)
EXTENDS Naturals, Sequences

CONSTANT N                       \* number of tool calls in the batch
ASSUME NAssumption == N \in Nat \ {0}

Call == 1..N
Watch == 0                       \* the steering watch timer
Checker == {Watch} \cup Call     \* whoever may be inside checkSteering

VARIABLES
  exclusive,      \* calls whose tool resolves to concurrency "exclusive"
  interruptible,  \* calls whose tool is interruptible
  immediate,      \* interruptMode # "wait"
  steerQueued,    \* environment: hasSteeringMessages() would answer yes
  ircQueued,      \* environment: hasIrcInterrupts() would answer yes
  extAborted,     \* environment: the run's own signal (user abort, deadline)
  paused,         \* environment: the process-wide pause gate
  phase, cursor,  \* where the body of executeToolCalls is
  lastExclusive, sharedTasks, deps,   \* the promise chain built by its loop
  pc,             \* per call: where runTool is
  outcome,        \* per call: the local result/isError of runTool
  started,        \* calls whose record.started is set
  result,         \* per call: the kind of result emitted, "none" before
  emitted,        \* emittedToolResults, as the sequence of call numbers
  source,         \* interruptState: "none" while not triggered
  steerAborted, ircAborted,           \* the two abort controllers
  check           \* per checker: the pending answer inside checkSteering

config == <<exclusive, interruptible, immediate>>
queues == <<steerQueued, ircQueued>>
env == <<steerQueued, ircQueued, extAborted, paused>>
plan == <<phase, cursor, lastExclusive, sharedTasks, deps>>
interrupts == <<source, steerAborted, ircAborted>>
vars == <<config, env, plan, pc, outcome, started, result, emitted,
          interrupts, check>>

Phases == {"scheduling", "running", "sweeping", "returned"}
Settled == {"fulfilled", "rejected"}
Locations == {"unscheduled", "scheduled", "parked", "hook", "executing",
              "after", "finishing", "checking"} \cup Settled
Results == {"ok", "error", "invalid", "aborted", "skipped"}
Answers == {"off", "steerYes", "steerNo", "ircYes", "ircNo"}

FlagTypes ==
  /\ immediate \in BOOLEAN
  /\ steerQueued \in BOOLEAN /\ ircQueued \in BOOLEAN
  /\ extAborted \in BOOLEAN /\ paused \in BOOLEAN
  /\ steerAborted \in BOOLEAN /\ ircAborted \in BOOLEAN

StateTypes ==
  /\ exclusive \in SUBSET Call
  /\ interruptible \in SUBSET Call
  /\ phase \in Phases
  /\ cursor \in 1..N+1
  /\ phase \in {"scheduling", "sweeping"} => cursor \in Call
  /\ lastExclusive \in SUBSET Call
  /\ sharedTasks \in SUBSET Call
  /\ deps \in [Call -> SUBSET Call]
  /\ pc \in [Call -> Locations]
  /\ outcome \in [Call -> {"none", "ok", "error", "aborted"}]
  /\ started \in SUBSET Call
  /\ result \in [Call -> Results \cup {"none"}]
  /\ emitted \in Seq(Call)
  /\ source \in {"none", "steer", "irc"}
  /\ check \in [Checker -> Answers]

\* Every variable ranges over what the code can put in it; the loop index
\* stays inside the batch while one of the two loops runs.
TypeOK == FlagTypes /\ StateTypes

Init ==
  /\ exclusive \in SUBSET Call
  /\ interruptible \in SUBSET Call
  /\ immediate \in BOOLEAN
  /\ steerQueued \in BOOLEAN /\ ircQueued \in BOOLEAN
  /\ extAborted \in BOOLEAN /\ paused \in BOOLEAN
  /\ phase = "scheduling" /\ cursor = 1
  /\ lastExclusive = {} /\ sharedTasks = {}
  /\ deps = [i \in Call |-> {}]
  /\ pc = [i \in Call |-> "unscheduled"]
  /\ outcome = [i \in Call |-> "none"]
  /\ started = {}
  /\ result = [i \in Call |-> "none"]
  /\ emitted = <<>>
  /\ source = "none"
  /\ steerAborted = FALSE /\ ircAborted = FALSE
  /\ check = [p \in Checker |-> "off"]

-----------------------------------------------------------------------------
\* The environment: users, peers and the host act at any time.

QueueSteering ==
  /\ phase = "running" /\ steerQueued' = ~steerQueued
  /\ UNCHANGED <<config, ircQueued, extAborted, paused, plan, pc, outcome,
                 started, result, emitted, interrupts, check>>

QueueIrc ==
  /\ phase = "running" /\ ircQueued' = ~ircQueued
  /\ UNCHANGED <<config, steerQueued, extAborted, paused, plan, pc, outcome,
                 started, result, emitted, interrupts, check>>

AbortRun ==
  /\ phase = "running" /\ ~extAborted /\ extAborted' = TRUE
  /\ UNCHANGED <<config, queues, paused, plan, pc, outcome,
                 started, result, emitted, interrupts, check>>

\* AgentPauseGate.pause and AgentPauseGate.resume.
TogglePause ==
  /\ phase = "running" /\ paused' = ~paused
  /\ UNCHANGED <<config, queues, extAborted, plan, pc, outcome,
                 started, result, emitted, interrupts, check>>

-----------------------------------------------------------------------------
\* Mutant: one signal for every call, the peers' controller included.
MutAborted(i) == extAborted \/ steerAborted \/ ircAborted

\* record.signal: every call sees the run's signal and the steering
\* controller, only an interruptible one sees the IRC controller.
Aborted(i) ==
  \/ extAborted
  \/ steerAborted
  \/ i \in interruptible /\ ircAborted

Emit(i, kind) ==
  /\ result' = [result EXCEPT ![i] = kind]
  /\ emitted' = Append(emitted, i)

Goto(i, l) == pc' = [pc EXCEPT ![i] = l]

\* Mutant: an exclusive call forgets the shared calls scheduled before it.
MutSchedule ==
  /\ phase = "scheduling"
  /\ deps' = [deps EXCEPT ![cursor] = lastExclusive]
  /\ IF cursor \in exclusive
     THEN lastExclusive' = {cursor} /\ sharedTasks' = {}
     ELSE UNCHANGED lastExclusive /\ sharedTasks' = sharedTasks \cup {cursor}
  /\ Goto(cursor, "scheduled")
  /\ cursor' = cursor + 1
  /\ phase' = IF cursor = N THEN "running" ELSE "scheduling"
  /\ UNCHANGED <<config, env, outcome, started, result, emitted,
                 interrupts, check>>

\* One iteration of the loop that chains the promises.
Schedule ==
  /\ phase = "scheduling"
  /\ deps' = [deps EXCEPT ![cursor] =
                lastExclusive \cup (IF cursor \in exclusive THEN sharedTasks
                                                            ELSE {})]
  /\ IF cursor \in exclusive
     THEN lastExclusive' = {cursor} /\ sharedTasks' = {}
     ELSE UNCHANGED lastExclusive /\ sharedTasks' = sharedTasks \cup {cursor}
  /\ Goto(cursor, "scheduled")
  /\ cursor' = cursor + 1
  /\ phase' = IF cursor = N THEN "running" ELSE "scheduling"
  /\ UNCHANGED <<config, env, outcome, started, result, emitted,
                 interrupts, check>>

\* Mutant: the chain waits with allSettled, so it goes on after a rejection.
MutStartable(i) ==
  /\ phase = "running" /\ pc[i] = "scheduled"
  /\ \A d \in deps[i] : pc[d] \in Settled

Startable(i) ==
  /\ phase = "running" /\ pc[i] = "scheduled"
  /\ \A d \in deps[i] : pc[d] = "fulfilled"

\* What runTool does between the pause gate and its next await.
Enter(i) ==
  \/ /\ Emit(i, "invalid") /\ Goto(i, "fulfilled")      \* arguments rejected
     /\ UNCHANGED started
  \/ /\ Aborted(i)
     /\ Emit(i, "aborted") /\ Goto(i, "fulfilled")
     /\ UNCHANGED started
  \/ /\ ~Aborted(i)
     /\ started' = started \cup {i}
     /\ Goto(i, "hook")
     /\ UNCHANGED <<result, emitted>>

\* The start promise resolves and runTool begins.
SkipCall(i) ==
  /\ Startable(i) /\ source # "none"
  /\ Goto(i, "fulfilled")
  /\ UNCHANGED <<config, env, plan, outcome, started, result, emitted,
                 interrupts, check>>

ParkCall(i) ==
  /\ Startable(i) /\ source = "none" /\ paused
  /\ Goto(i, "parked")
  /\ UNCHANGED <<config, env, plan, outcome, started, result, emitted,
                 interrupts, check>>

StartCall(i) ==
  /\ Startable(i) /\ source = "none" /\ ~paused
  /\ Enter(i)
  /\ UNCHANGED <<config, env, plan, outcome, interrupts, check>>

\* Mutant: the pause gate ignores the call's signal.
MutUnparkCall(i) ==
  /\ pc[i] = "parked" /\ ~paused
  /\ Enter(i)
  /\ UNCHANGED <<config, env, plan, outcome, interrupts, check>>

\* waitUntilResumed returns: the gate opened, or this call's signal fired.
UnparkCall(i) ==
  /\ pc[i] = "parked" /\ (~paused \/ Aborted(i))
  /\ Enter(i)
  /\ UNCHANGED <<config, env, plan, outcome, interrupts, check>>

\* A start promise rejects as soon as one task it waits for has rejected.
RejectCall(i) ==
  /\ phase = "running" /\ pc[i] = "scheduled"
  /\ \E d \in deps[i] : pc[d] = "rejected"
  /\ Goto(i, "rejected")
  /\ UNCHANGED <<config, env, plan, outcome, started, result, emitted,
                 interrupts, check>>

\* beforeToolCall settles: it blocks the call (or throws), or lets it through
\* to tool.execute unless the signal fired meanwhile.  afterToolCall then runs
\* unless the call was aborted before its tool completed.
HookBlocks(i) ==
  /\ pc[i] = "hook"
  /\ outcome' = [outcome EXCEPT ![i] = "error"]
  /\ Goto(i, IF Aborted(i) THEN "finishing" ELSE "after")
  /\ UNCHANGED <<config, env, plan, started, result, emitted, interrupts,
                 check>>

\* Mutant: the signal is not read again after beforeToolCall.
MutHookAllows(i) ==
  /\ pc[i] = "hook"
  /\ Goto(i, "executing")
  /\ UNCHANGED <<config, env, plan, outcome, started, result, emitted,
                 interrupts, check>>

HookAllows(i) ==
  /\ pc[i] = "hook"
  /\ IF Aborted(i)
     THEN outcome' = [outcome EXCEPT ![i] = "aborted"] /\ Goto(i, "finishing")
     ELSE UNCHANGED outcome /\ Goto(i, "executing")
  /\ UNCHANGED <<config, env, plan, started, result, emitted, interrupts,
                 check>>

\* tool.execute fulfils, with a good or an error result.
ToolReturns(i) ==
  /\ pc[i] = "executing"
  /\ \E o \in {"ok", "error"} : outcome' = [outcome EXCEPT ![i] = o]
  /\ Goto(i, "after")
  /\ UNCHANGED <<config, env, plan, started, result, emitted, interrupts, check>>

\* tool.execute rejects.
ToolThrows(i) ==
  /\ pc[i] = "executing"
  /\ outcome' = [outcome EXCEPT ![i] = "error"]
  /\ Goto(i, IF Aborted(i) THEN "finishing" ELSE "after")
  /\ UNCHANGED <<config, env, plan, started, result, emitted, interrupts, check>>

\* afterToolCall settles: it may replace the result either way, or throw.
AfterHook(i) ==
  /\ pc[i] = "after"
  /\ \E o \in {"ok", "error"} : outcome' = [outcome EXCEPT ![i] = o]
  /\ Goto(i, "finishing")
  /\ UNCHANGED <<config, env, plan, started, result, emitted, interrupts,
                 check>>

-----------------------------------------------------------------------------
\* checkSteering, up to its first await: the queue is read here, the answer
\* is acted upon after the await.
Polls == immediate /\ ~extAborted
AskSteering(p) ==
  check' = [check EXCEPT ![p] = IF steerQueued THEN "steerYes" ELSE "steerNo"]

\* runTool decides what to report, emits it and calls checkSteering.
FinishCall(i) ==
  /\ pc[i] = "finishing"
  /\ Emit(i, IF source # "none" /\ Aborted(i) /\ outcome[i] # "ok"
             THEN "skipped" ELSE outcome[i])
  /\ IF Polls THEN AskSteering(i) /\ Goto(i, "checking")
              ELSE UNCHANGED check /\ Goto(i, "fulfilled")
  /\ UNCHANGED <<config, env, plan, outcome, started, interrupts>>

\* A tick of the timer armed while an interruptible call is in the batch.
WatchTick ==
  /\ phase = "running" /\ interruptible # {}
  /\ check[Watch] = "off" /\ Polls
  /\ AskSteering(Watch)
  /\ UNCHANGED <<config, env, plan, pc, outcome, started, result, emitted,
                 interrupts>>

LeaveCheck(p, l) ==
  /\ check' = [check EXCEPT ![p] = "off"]
  /\ pc' = IF p = Watch THEN pc ELSE [pc EXCEPT ![p] = l]

SteeringFound(p) ==
  /\ check[p] = "steerYes"
  /\ source' = IF steerAborted THEN source ELSE "steer"
  /\ steerAborted' = TRUE
  /\ LeaveCheck(p, "fulfilled")
  /\ UNCHANGED <<config, env, plan, outcome, started, result, emitted,
                 ircAborted>>

\* Mutant: a poll that finds no steering returns without asking for peers.
MutSteeringNotFound(p) ==
  /\ check[p] = "steerNo"
  /\ LeaveCheck(p, "fulfilled")
  /\ UNCHANGED <<config, env, plan, outcome, started, result, emitted,
                 interrupts>>

SteeringNotFound(p) ==
  /\ check[p] = "steerNo"
  /\ IF source # "none"
     THEN LeaveCheck(p, "fulfilled")
     ELSE /\ check' = [check EXCEPT ![p] = IF ircQueued THEN "ircYes" ELSE "ircNo"]
          /\ UNCHANGED pc
  /\ UNCHANGED <<config, env, plan, outcome, started, result, emitted,
                 interrupts>>

IrcAnswered(p) ==
  /\ check[p] \in {"ircYes", "ircNo"}
  /\ IF check[p] = "ircYes"
     THEN source' = "irc" /\ ircAborted' = TRUE
     ELSE UNCHANGED <<source, ircAborted>>
  /\ LeaveCheck(p, "fulfilled")
  /\ UNCHANGED <<config, env, plan, outcome, started, result, emitted,
                 steerAborted>>

\* The host's callback rejects: so does the task that asked.  (Inside the
\* timer it would be an unhandled rejection, which ends the process.)
CallbackRejects(p) ==
  /\ p # Watch /\ check[p] # "off"
  /\ LeaveCheck(p, "rejected")
  /\ UNCHANGED <<config, env, plan, outcome, started, result, emitted,
                 interrupts>>

-----------------------------------------------------------------------------
\* Mutant: the sweep starts from where the scheduling loop left the index.
MutAllSettled ==
  /\ phase = "running"
  /\ \A i \in Call : pc[i] \in Settled
  /\ phase' = "sweeping"
  /\ UNCHANGED <<config, env, cursor, lastExclusive, sharedTasks, deps, pc,
                 outcome, started, result, emitted, interrupts, check>>

\* Promise.allSettled(tasks) resolves and the timer is cleared.
AllSettled ==
  /\ phase = "running"
  /\ \A i \in Call : pc[i] \in Settled
  /\ phase' = "sweeping" /\ cursor' = 1
  /\ UNCHANGED <<config, env, lastExclusive, sharedTasks, deps, pc, outcome,
                 started, result, emitted, interrupts, check>>

\* Mutant: the tail sweep does not look whether the call has a result.
MutSweep ==
  /\ phase = "sweeping"
  /\ Emit(cursor, "skipped")
  /\ cursor' = cursor + 1
  /\ phase' = IF cursor = N THEN "returned" ELSE "sweeping"
  /\ UNCHANGED <<config, env, lastExclusive, sharedTasks, deps, pc, outcome,
                 started, interrupts, check>>

\* The tail sweep gives every call that has none a skipped result.
Sweep ==
  /\ phase = "sweeping"
  /\ IF result[cursor] = "none" THEN Emit(cursor, "skipped")
                                ELSE UNCHANGED <<result, emitted>>
  /\ cursor' = cursor + 1
  /\ phase' = IF cursor = N THEN "returned" ELSE "sweeping"
  /\ UNCHANGED <<config, env, lastExclusive, sharedTasks, deps, pc, outcome,
                 started, interrupts, check>>

-----------------------------------------------------------------------------
RunTool(i) ==
  \/ SkipCall(i) \/ ParkCall(i) \/ StartCall(i) \/ UnparkCall(i) \/ RejectCall(i)
  \/ HookBlocks(i) \/ HookAllows(i) \/ ToolReturns(i) \/ ToolThrows(i)
  \/ AfterHook(i) \/ FinishCall(i)

CheckSteering(p) ==
  \/ SteeringFound(p) \/ SteeringNotFound(p) \/ IrcAnswered(p) \/ CallbackRejects(p)

Environment == QueueSteering \/ QueueIrc \/ AbortRun \/ TogglePause

Next ==
  \/ Environment
  \/ Schedule \/ WatchTick \/ AllSettled \/ Sweep
  \/ \E i \in Call : RunTool(i)
  \/ \E p \in Checker : CheckSteering(p)

\* Fairness.  The event loop runs every continuation whose promise settled.
\* Host hooks settle, and so does a tool that is not interruptible; an
\* interruptible one (a wait on external work) is only sure to settle once
\* its own signal has fired.  Nothing is assumed of the environment.
ToolSettles(i) ==
  /\ i \notin interruptible \/ Aborted(i)
  /\ ToolReturns(i) \/ ToolThrows(i)

Fairness ==
  /\ WF_vars(Schedule) /\ WF_vars(WatchTick) /\ WF_vars(AllSettled) /\ WF_vars(Sweep)
  /\ \A i \in Call :
       /\ WF_vars(SkipCall(i) \/ ParkCall(i) \/ StartCall(i) \/ RejectCall(i))
       /\ WF_vars(UnparkCall(i))
       /\ WF_vars(HookBlocks(i) \/ HookAllows(i))
       /\ WF_vars(ToolSettles(i))
       /\ WF_vars(AfterHook(i))
       /\ WF_vars(FinishCall(i))
  /\ \A p \in Checker : WF_vars(CheckSteering(p))

Spec == Init /\ [][Next]_vars
FairSpec == Spec /\ Fairness

-----------------------------------------------------------------------------
Active(i) == pc[i] \notin {"unscheduled", "scheduled"} \cup Settled
Conflict(i, j) == i \in exclusive \/ j \in exclusive

\* Every tool call of the message gets exactly one tool result, however the
\* batch was interrupted, aborted, parked or broken by a rejecting callback:
\* the provider refuses a tool_use without its tool_result.
OneResultPerCall ==
  /\ \A m, n \in DOMAIN emitted : emitted[m] = emitted[n] => m = n
  /\ phase = "returned" => \A i \in Call : \E n \in DOMAIN emitted : emitted[n] = i

\* While an exclusive call is anywhere inside runTool, no other call is:
\* the promise chain serialises it against shared calls before and after it.
ExclusiveIsolation ==
  \A i, j \in Call : i # j /\ Active(i) /\ Active(j) => ~Conflict(i, j)

\* A call that was started runs on top of everything the calls it may not
\* overlap did before it: each of them settled and reported its result first.
ConflictsInOrder ==
  \A i, j \in Call :
    i < j /\ Conflict(i, j) /\ j \in started =>
      /\ pc[i] = "fulfilled"
      /\ \E m \in DOMAIN emitted :
           /\ emitted[m] = i
           /\ \A n \in DOMAIN emitted : emitted[n] = j => m < n

\* A peer message alone never costs a foreground call its work: once started,
\* a call that is not interruptible reports what its tool really did unless
\* steering or the run's own signal was raised.
PeerSparesForeground ==
  \A i \in started \ interruptible :
    result[i] \in {"skipped", "aborted"} => steerAborted \/ extAborted

\* No tool.execute is entered once a signal the call listens to has fired,
\* even if it fired while the call was parked or inside beforeToolCall.
NoExecuteAfterAbort ==
  [][\A i \in Call :
       pc[i] # "executing" /\ pc'[i] = "executing" => ~Aborted(i) /\ ~Aborted(i)']_vars

Returned == phase = "returned"

\* An aborted run gets its batch back even if the process stays paused.
AbortEndsBatch == extAborted ~> Returned

\* A queued message that stays queued gets the batch back even if its
\* interruptible tools would have waited forever: the watch timer sees it.
QueuedEndsBatch ==
  (immediate /\ <>[]~paused /\ (<>[]steerQueued \/ <>[]ircQueued)) => <>Returned
=============================================================================
