----------------------------- MODULE AgentLoop ------------------------------
(***************************************************************************)
(* One run of the agent loop, runLoopBody (packages/agent/src/agent-loop.ts*)
(* 755-1186), on the queues of the Agent that started it                   *)
(* (packages/agent/src/agent.ts).  The run samples the model, executes the *)
(* tool calls of the reply, polls the queues at every turn boundary and    *)
(* stops when the model stops and nothing is queued.  Users and peers      *)
(* queue and withdraw messages, abort the run and toggle the process-wide  *)
(* pause gate at any await; a deadline may pass.                           *)
(*                                                                         *)
(* A message is its number in the order its kind was queued.  A step is    *)
(* the code between two awaits.  The tool batch is one step here: module   *)
(* ToolBatch is its detail.                                                *)
(***************************************************************************)
EXTENDS Naturals, Sequences, FiniteSets

CONSTANTS
  Sends,           \* bound: messages queued per kind during the run
  Requirements,    \* the ids of soft tool requirements the host may ask for
  MaxPaused,       \* MAX_PAUSED_TURN_CONTINUATIONS
  MaxEscalations,  \* MAX_SOFT_TOOL_ESCALATIONS
  MaxLeaks         \* Harmony retries, and truncate-and-resumes, in a row

ASSUME BoundsAssumption ==
  /\ Sends \in Nat /\ MaxPaused \in Nat /\ MaxEscalations \in Nat /\ MaxLeaks \in Nat
ASSUME RequirementsAssumption == "none" \notin Requirements

Kind == {"steer", "aside", "follow"}
Directives == {"none"} \cup Requirements   \* a hard choice steers only the provider

VARIABLES
  queue,        \* per kind: the messages waiting, oldest first
  sent,         \* per kind: how many were queued so far
  withdrawn,    \* per kind: messages the user took back from the queue
  pending,      \* per kind: pendingMessages, dequeued but not yet injected
  context,      \* per kind: the messages injected into the context
  reason,       \* signal.reason, "none" while not aborted
  expired,      \* isDeadlineExceeded(config.deadline)
  paused,       \* the process-wide pause gate
  pc, how,      \* where the run is, and how it ended
  hasMore,      \* hasMoreToolCalls
  owed,         \* the context ends with input the model has not answered
  open,         \* the context ends with tool calls without their results
  calls,        \* what the last reply called
  resolved, directive, softId, escalations,  \* tool-choice directive of the turn
  retry, resume, pausedTurns,                \* the loop's continuation counters
  pulls,        \* history: getToolChoice calls since the last reply
  mark          \* history: sent when the run last reached its yield point

messages == <<queue, sent, withdrawn, pending, context>>
signals == <<reason, expired, paused>>
choice == <<resolved, directive, softId, escalations, pulls>>
counters == <<retry, resume, pausedTurns>>
turn == <<hasMore, owed, open, calls>>
vars == <<messages, signals, pc, how, turn, choice, counters, mark>>

Locations == {"start", "top", "gate", "sync", "streaming", "cut", "tools",
              "turnEnd", "asides", "beforeYield", "yieldAsides", "yieldFollow",
              "decide", "ended"}
Endings == {"none", "done", "deadline", "error", "aborted", "failed"}

MessageTypes ==
  /\ queue \in [Kind -> Seq(Nat)]
  /\ pending \in [Kind -> Seq(Nat)]
  /\ context \in [Kind -> Seq(Nat)]
  /\ sent \in [Kind -> 0..Sends] /\ mark \in [Kind -> 0..Sends]
  /\ withdrawn \in [Kind -> SUBSET Nat]

FlagTypes ==
  /\ expired \in BOOLEAN /\ paused \in BOOLEAN /\ resolved \in BOOLEAN
  /\ hasMore \in BOOLEAN /\ owed \in BOOLEAN /\ open \in BOOLEAN

ControlTypes ==
  /\ reason \in {"none", "user", "deadline", "terminal"}
  /\ pc \in Locations /\ how \in Endings /\ (pc = "ended" <=> how # "none")
  /\ calls \in {"none", "required", "other"}
  /\ directive \in Directives /\ softId \in Directives
  /\ escalations \in 0..MaxEscalations
  /\ retry \in 0..MaxLeaks /\ resume \in 0..MaxLeaks
  /\ pausedTurns \in 0..MaxPaused /\ pulls \in Nat

\* Every variable ranges over what the code can put in it: the continuation
\* counters stay within the bounds the code gives them.
TypeOK == MessageTypes /\ FlagTypes /\ ControlTypes

Nothing == [k \in Kind |-> <<>>]

Init ==
  /\ queue = Nothing /\ pending = Nothing /\ context = Nothing
  /\ sent = [k \in Kind |-> 0] /\ mark = [k \in Kind |-> 0]
  /\ withdrawn = [k \in Kind |-> {}]
  /\ reason = "none" /\ expired = FALSE /\ paused = FALSE
  /\ pc = "start" /\ how = "none"
  /\ hasMore = TRUE /\ owed = TRUE /\ open = FALSE /\ calls = "none"
  /\ resolved = FALSE /\ directive = "none" /\ softId = "none"
  /\ escalations = 0 /\ pulls = 0
  /\ retry = 0 /\ resume = 0 /\ pausedTurns = 0

Aborted == reason # "none"
HasPending == pending # Nothing

-----------------------------------------------------------------------------
\* The environment, until the run has ended.

\* Agent.steer, Agent.followUp, and the host's aside producers.
Send(k) ==
  /\ pc # "ended" /\ sent[k] < Sends
  /\ sent' = [sent EXCEPT ![k] = @ + 1]
  /\ queue' = [queue EXCEPT ![k] = Append(@, sent[k] + 1)]
  /\ UNCHANGED <<withdrawn, pending, context, signals, pc, how, turn, choice,
                 counters, mark>>

\* popLastSteer, popLastFollowUp: the user takes the newest message back.
Withdraw(k) ==
  /\ pc # "ended" /\ k # "aside" /\ queue[k] # <<>>
  /\ withdrawn' = [withdrawn EXCEPT ![k] = @ \cup {queue[k][Len(queue[k])]}]
  /\ queue' = [queue EXCEPT ![k] = SubSeq(@, 1, Len(@) - 1)]
  /\ UNCHANGED <<sent, pending, context, signals, pc, how, turn, choice,
                 counters, mark>>

AbortBy(r) ==
  /\ reason = "none" /\ reason' = r
  /\ UNCHANGED <<messages, expired, paused, pc, how, turn, choice, counters, mark>>

\* Agent.abort; the deadline timer, once due; a tool hook that marks its
\* completed result as terminal.
Abort == pc # "ended" /\ AbortBy("user")
DeadlineTimer == pc # "ended" /\ expired /\ AbortBy("deadline")
TerminalResult == pc = "tools" /\ AbortBy("terminal")

Expire ==
  /\ pc # "ended" /\ ~expired /\ expired' = TRUE
  /\ UNCHANGED <<messages, reason, paused, pc, how, turn, choice, counters, mark>>

TogglePause ==
  /\ pc # "ended" /\ paused' = ~paused
  /\ UNCHANGED <<messages, reason, expired, pc, how, turn, choice, counters, mark>>

Environment ==
  \/ \E k \in Kind : Send(k) \/ Withdraw(k)
  \/ Abort \/ DeadlineTimer \/ TerminalResult \/ Expire \/ TogglePause

-----------------------------------------------------------------------------
\* Dequeueing takes one message or all of them: the two modes, which the user
\* may switch while the run goes on.  The asides are always taken together.
Batches(k) ==
  LET n == Len(queue[k])
  IN IF k = "aside" \/ n = 0 THEN {n} ELSE {1, n}

\* Mutant: one at a time takes the newest message.
MutDequeue(k) ==
  \E n \in Batches(k) :
    LET rest == Len(queue[k]) - n
    IN /\ pending' = [pending EXCEPT ![k] = @ \o SubSeq(queue[k], rest + 1, rest + n)]
       /\ queue' = [queue EXCEPT ![k] = SubSeq(@, 1, rest)]

Dequeue(k) ==
  \E n \in Batches(k) :
    /\ pending' = [pending EXCEPT ![k] = @ \o SubSeq(queue[k], 1, n)]
    /\ queue' = [queue EXCEPT ![k] = SubSeq(@, n + 1, Len(@))]

\* Mutant: an aborted run still polls.
MutPoll(k) == Dequeue(k) /\ UNCHANGED <<sent, withdrawn, context>>

\* A queue is left alone once the run is aborted: its messages go to the next.
Poll(k) ==
  /\ IF Aborted THEN UNCHANGED <<queue, pending>> ELSE Dequeue(k)
  /\ UNCHANGED <<sent, withdrawn, context>>

End(ending) == pc' = "ended" /\ how' = ending
Goto(l) == pc' = l /\ UNCHANGED how

\* The first poll; continue() skips it when it already dequeued a message.
Start ==
  /\ pc = "start"
  /\ \/ expired /\ End("deadline") /\ UNCHANGED messages
     \/ ~expired /\ Goto("top") /\ (Poll("steer") \/ UNCHANGED messages)
  /\ UNCHANGED <<signals, turn, choice, counters, mark>>

\* The inner loop's condition, and what follows on either side of it.
Top ==
  /\ pc = "top"
  /\ IF expired THEN End("deadline")
     ELSE Goto(IF hasMore \/ HasPending THEN "gate" ELSE "beforeYield")
  /\ UNCHANGED <<messages, signals, turn, choice, counters, mark>>

\* Mutant: an abort does not release a run parked at the pause gate.
MutInject ==
  /\ pc = "gate" /\ ~paused
  /\ context' = [k \in Kind |-> context[k] \o pending[k]]
  /\ pending' = Nothing
  /\ owed' = (owed \/ HasPending)
  /\ Goto("sync")
  /\ UNCHANGED <<queue, sent, withdrawn, signals, hasMore, open, calls, choice,
                 counters, mark>>

\* Past the pause gate, pending messages enter the context.
Inject ==
  /\ pc = "gate" /\ (~paused \/ Aborted)
  /\ context' = [k \in Kind |-> context[k] \o pending[k]]
  /\ pending' = Nothing
  /\ owed' = (owed \/ HasPending)
  /\ Goto("sync")
  /\ UNCHANGED <<queue, sent, withdrawn, signals, hasMore, open, calls, choice,
                 counters, mark>>

\* Mutant: every turn starts a new count of forced turns.
MutAdopt(d) ==
  /\ directive' = d
  /\ softId' = IF d \in Requirements THEN d ELSE "none"
  /\ escalations' = 0
  /\ owed' = (owed \/ (d \in Requirements /\ d # softId))
  /\ resolved' = TRUE

\* The tool-choice directive is asked for once per turn: asking consumes it.
\* A requirement with a new id injects its reminder and starts a new count.
Adopt(d) ==
  /\ directive' = d
  /\ softId' = IF d \in Requirements THEN d ELSE "none"
  /\ escalations' = IF d \in Requirements /\ d = softId THEN escalations ELSE 0
  /\ owed' = (owed \/ (d \in Requirements /\ d # softId))
  /\ resolved' = TRUE

\* The directive is resolved and the model is sampled.  A sample whose signal
\* has already fired is cut short before it reaches the provider.
Sample ==
  /\ pc = "sync"
  /\ \/ resolved /\ UNCHANGED <<choice, owed>>
     \/ ~resolved /\ Aborted /\ Adopt("none") /\ UNCHANGED pulls
     \/ /\ ~resolved /\ ~Aborted
        /\ \E d \in Directives : Adopt(d)
        /\ pulls' = pulls + 1
  /\ Goto(IF Aborted THEN "cut" ELSE "streaming")
  /\ UNCHANGED <<messages, signals, hasMore, open, calls, counters, mark>>

-----------------------------------------------------------------------------
\* What the loop does with a complete reply.

\* An unfinished requirement: the calls get skipped results, the loop goes on.
Refuse(called) ==
  IF escalations >= MaxEscalations
  THEN /\ End("failed") /\ open' = (called # "none")
       /\ UNCHANGED <<escalations, hasMore, owed>>
  ELSE /\ Goto("turnEnd")
       /\ escalations' = escalations + 1
       /\ hasMore' = TRUE /\ owed' = (called # "none") /\ UNCHANGED open

Run ==
  /\ Goto("tools")
  /\ hasMore' = TRUE /\ open' = TRUE /\ owed' = FALSE /\ UNCHANGED escalations

\* Mutants: a truncated reply with calls ends the work; its calls get no
\* results; paused turns are continued without a bound.
MutSettleStops(stop, called) ==
  /\ Goto("turnEnd")
  /\ hasMore' = (called = "none" /\ stop = "pause" /\ pausedTurns < MaxPaused)
  /\ owed' = (called # "none") /\ UNCHANGED <<open, escalations>>
MutSettleUnpaired(stop, called) ==
  /\ Goto("turnEnd")
  /\ hasMore' = IF called = "none" THEN stop = "pause" /\ pausedTurns < MaxPaused
                                   ELSE stop = "length" /\ ~expired
  /\ owed' = (called # "none") /\ open' = (called # "none") /\ UNCHANGED escalations
MutSettleForever(stop, called) ==
  /\ Goto("turnEnd")
  /\ hasMore' = IF called = "none" THEN stop = "pause" ELSE stop = "length" /\ ~expired
  /\ owed' = (called # "none") /\ UNCHANGED <<open, escalations>>

\* No call, or none that may run: placeholders pair those there are.  Only a
\* truncated reply with calls, or a paused one without, goes on by itself.
Settle(stop, called) ==
  /\ Goto("turnEnd")
  /\ hasMore' = IF called = "none" THEN stop = "pause" /\ pausedTurns < MaxPaused
                                   ELSE stop = "length" /\ ~expired
  /\ owed' = (called # "none") /\ UNCHANGED <<open, escalations>>

\* Mutant: any call satisfies the requirement.
MutUnmet(called) == directive \in Requirements /\ called = "none"
Unmet(called) == directive \in Requirements /\ called # "required"
Runs(stop, called) == called # "none" /\ stop \in {"stop", "pause"} /\ ~expired

Handle(stop, called) ==
  /\ calls' = called
  /\ resolved' = FALSE /\ pulls' = 0
  /\ retry' = 0
  /\ \/ /\ stop \in {"error", "aborted"} /\ End(stop)
        /\ owed' = FALSE /\ UNCHANGED <<escalations, hasMore, open>>
     \/ /\ stop \notin {"error", "aborted"}
        /\ \/ Unmet(called) /\ Refuse(called)
           \/ ~Unmet(called) /\ Runs(stop, called) /\ Run
           \/ ~Unmet(called) /\ ~Runs(stop, called) /\ Settle(stop, called)
  /\ pausedTurns' = IF called # "none" THEN 0
                    ELSE IF stop = "pause" /\ ~Unmet(called) /\ pausedTurns < MaxPaused
                    THEN pausedTurns + 1 ELSE pausedTurns
  /\ UNCHANGED <<messages, signals, directive, softId, mark>>

\* The model replies.  toolUse is stop with calls.
Reply ==
  /\ pc = "streaming"
  /\ \E stop \in {"stop", "pause", "length", "error"} \cup (IF Aborted THEN {"aborted"} ELSE {}),
        called \in {"none", "required", "other"} : Handle(stop, called)
  /\ resume' = 0

CutShort ==
  /\ pc = "cut" /\ Handle("aborted", "none") /\ resume' = 0

\* Mutants: one retry too many; a retry asks the host for a choice again.
MutLeakRetry ==
  /\ pc = "streaming"
  /\ IF retry > MaxLeaks THEN End("failed") /\ UNCHANGED retry
                         ELSE Goto("top") /\ retry' = retry + 1
  /\ UNCHANGED <<messages, signals, turn, choice, resume, pausedTurns, mark>>
MutLeakRetryAsks ==
  /\ pc = "streaming"
  /\ IF retry >= MaxLeaks THEN End("failed") /\ UNCHANGED <<retry, resolved>>
                          ELSE Goto("top") /\ retry' = retry + 1 /\ resolved' = FALSE
  /\ UNCHANGED <<messages, signals, turn, directive, softId, escalations, pulls,
                 resume, pausedTurns, mark>>

\* The reply leaks protocol tokens and is discarded: the same turn is sampled
\* again, from the loop's condition.
LeakRetry ==
  /\ pc = "streaming"
  /\ IF retry >= MaxLeaks THEN End("failed") /\ UNCHANGED retry
                          ELSE Goto("top") /\ retry' = retry + 1
  /\ UNCHANGED <<messages, signals, turn, choice, resume, pausedTurns, mark>>

\* The leak is cut off a tool call that is kept as the whole reply.
LeakResume ==
  /\ pc = "streaming"
  /\ IF resume >= MaxLeaks
     THEN End("failed") /\ UNCHANGED <<messages, signals, turn, choice, counters, mark>>
     ELSE /\ \E called \in {"required", "other"} : Handle("stop", called)
          /\ resume' = resume + 1

\* The provider, or a host callback around the sample, throws.
SampleThrows ==
  /\ pc \in {"sync", "streaming", "cut"} /\ End("failed")
  /\ UNCHANGED <<messages, signals, turn, choice, counters, mark>>

\* executeToolCalls returns one result per call (ToolBatch).
ToolsReturn ==
  /\ pc = "tools"
  /\ hasMore' = (reason # "terminal")
  /\ open' = FALSE /\ owed' = TRUE
  /\ Goto("turnEnd")
  /\ UNCHANGED <<messages, signals, calls, choice, counters, mark>>

-----------------------------------------------------------------------------
\* The turn is over: steering, and between two turns of one piece of work the
\* asides too, become pending.
EndTurn ==
  /\ pc = "turnEnd"
  /\ \/ expired /\ End("deadline") /\ UNCHANGED messages
     \/ ~expired /\ Poll("steer") /\ Goto(IF hasMore THEN "asides" ELSE "top")
  /\ UNCHANGED <<signals, turn, choice, counters, mark>>

PollAsides ==
  /\ pc = "asides" /\ Poll("aside") /\ Goto("top")
  /\ UNCHANGED <<signals, turn, choice, counters, mark>>

\* Mutant: the yield point does not poll steering again.
MutYieldSteering ==
  /\ pc = "beforeYield"
  /\ \/ expired /\ End("deadline") /\ UNCHANGED mark
     \/ ~expired /\ Goto("yieldAsides") /\ mark' = sent
  /\ UNCHANGED <<messages, signals, turn, choice, counters>>

\* The yield point, after onBeforeYield: the queues are drained one by one.
YieldSteering ==
  /\ pc = "beforeYield"
  /\ \/ expired /\ End("deadline") /\ UNCHANGED <<messages, mark>>
     \/ ~expired /\ Poll("steer") /\ Goto("yieldAsides") /\ mark' = sent
  /\ UNCHANGED <<signals, turn, choice, counters>>

YieldAsides ==
  /\ pc = "yieldAsides" /\ Poll("aside") /\ Goto("yieldFollow")
  /\ UNCHANGED <<signals, turn, choice, counters, mark>>

YieldFollowUps ==
  /\ pc = "yieldFollow" /\ Poll("follow") /\ Goto("decide")
  /\ UNCHANGED <<signals, turn, choice, counters, mark>>

\* Mutant: asides alone do not keep the run going.
MutDecide ==
  /\ pc = "decide"
  /\ IF pending["steer"] # <<>> \/ pending["follow"] # <<>>
     THEN Goto("top") /\ hasMore' = TRUE
     ELSE End("done") /\ UNCHANGED hasMore
  /\ UNCHANGED <<messages, signals, owed, open, calls, choice, counters, mark>>

Decide ==
  /\ pc = "decide"
  /\ IF HasPending THEN Goto("top") /\ hasMore' = TRUE
                   ELSE End("done") /\ UNCHANGED hasMore
  /\ UNCHANGED <<messages, signals, owed, open, calls, choice, counters, mark>>

\* A host callback of the boundary rejects: emitTurnEnd's hook, the aside
\* provider, onBeforeYield.
CallbackThrows ==
  /\ pc \in {"turnEnd", "asides", "beforeYield", "yieldAsides"} /\ End("failed")
  /\ UNCHANGED <<messages, signals, turn, choice, counters, mark>>

Sampling == Reply \/ CutShort \/ LeakRetry \/ LeakResume \/ SampleThrows
Boundary == EndTurn \/ PollAsides \/ YieldSteering \/ YieldAsides \/ YieldFollowUps \/ Decide

Next ==
  \/ Environment
  \/ Start \/ Top \/ Inject \/ Sample
  \/ Sampling \/ ToolsReturn
  \/ Boundary \/ CallbackThrows

\* The event loop runs every continuation; samples settle (the provider's own
\* timeouts, or the abort race); hooks settle.  A tool batch is only sure to
\* return once the run is aborted (AbortEndsBatch of ToolBatch).
Fairness ==
  /\ WF_vars(Start) /\ WF_vars(Top) /\ WF_vars(Inject) /\ WF_vars(Sample)
  /\ WF_vars(Sampling) /\ WF_vars(Aborted /\ ToolsReturn) /\ WF_vars(Boundary)

Spec == Init /\ [][Next]_vars
FairSpec == Spec /\ Fairness

-----------------------------------------------------------------------------
Taken(k) == context[k] \o pending[k]
Line(k) == Taken(k) \o queue[k]

\* No message is lost, duplicated or overtaken by a later one of its kind, in
\* any interleaving of queueing, withdrawing, polling and injecting: context,
\* pending and queue, in this order, hold what was queued and not taken back.
ExactlyOnceInOrder ==
  \A k \in Kind :
    /\ \A m, n \in DOMAIN Line(k) : m < n => Line(k)[m] < Line(k)[n]
    /\ {Line(k)[m] : m \in DOMAIN Line(k)} = (1..sent[k]) \ withdrawn[k]

\* A message the run dequeued has entered the context by the time it ends,
\* unless its deadline or a throwing callback ended it.
DequeuedIsInjected == how \in {"done", "error", "aborted"} => ~HasPending

\* A run that ends by itself owes the model nothing: every injected message,
\* reminder and tool result was followed by a reply (a run that still counts a
\* leak retry is the exception that RetriedTurnIsAnswered is about).
EndsAnswered == how = "done" /\ ~Aborted /\ retry = 0 => ~owed

\* A run that ends by itself strands nothing that was queued before it came to
\* its yield point, whatever the queue modes: onBeforeYield leaves time to
\* queue a message between the boundary's poll and this point.
YieldDrains ==
  how = "done" /\ ~Aborted =>
    \A k \in Kind : \A m \in DOMAIN queue[k] : queue[k][m] > mark[k]

\* An aborted run takes no further message: they belong to the run that the
\* session starts next, this one would never answer them.
AbortLeavesQueues == [][Aborted => \A k \in Kind : Taken(k)' = Taken(k)]_vars

\* The model is never sampled on tool calls without their results, and a run
\* leaves none behind unless it fails.
CallsArePaired == open => pc = "tools" \/ how = "failed"

\* A pending soft requirement is not dodged: no tool batch runs but the
\* required tool's, and the run does not end by itself before that call.
RequirementHolds ==
  directive \in Requirements =>
    /\ pc = "tools" => calls = "required"
    /\ how = "done" /\ ~Aborted /\ retry = 0 => calls = "required"

\* Asking the host for the tool choice consumes it: every sample, first or
\* repeated after a leak, has taken exactly one since the last reply.
OneChoicePerReply == pulls <= 1 /\ (pc = "streaming" => pulls = 1)

\* An abort ends the run, even one parked at the pause gate.
AbortEnds == Aborted ~> pc = "ended"

\* A model that stops calling tools ends the run: neither paused turns, nor
\* leaks, nor the queues keep it going forever.
QuietModelEnds ==
  <>[](~paused /\ calls = "none" /\ directive \notin Requirements) => <>(pc = "ended")

\* A model that never calls the required tool ends the run: forcing it again
\* is bounded, also across leaks, truncations and paused turns.
StubbornModelEnds ==
  \A r \in Requirements :
    <>[](~paused /\ calls # "required" /\ directive = r) => <>(pc = "ended")

\* The retry of a leaked reply re-enters the same turn (agent-loop.ts:848), so
\* a run that ends by itself has answered what it injected.
RetriedTurnIsAnswered == how = "done" /\ ~Aborted => ~owed
=============================================================================
