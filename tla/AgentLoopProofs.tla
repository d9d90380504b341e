-------------------------- MODULE AgentLoopProofs --------------------------
(***************************************************************************)
(* Proofs about AgentLoop, for any number of messages, any set of          *)
(* requirements and any bounds on the continuation counters.               *)
(***************************************************************************)
EXTENDS AgentLoop, SequenceTheorems, TLAPS

\* Next with the disjuncts that only regroup actions opened.
LEMMA StepCases ==
  ASSUME [Next]_vars
  PROVE  \/ \E k \in Kind : Send(k) \/ Withdraw(k)
         \/ Abort \/ DeadlineTimer \/ TerminalResult \/ Expire \/ TogglePause
         \/ Start \/ Top \/ Inject \/ Sample
         \/ Reply \/ CutShort \/ LeakRetry \/ LeakResume \/ SampleThrows \/ ToolsReturn
         \/ EndTurn \/ PollAsides \/ YieldSteering \/ YieldAsides \/ YieldFollowUps
         \/ Decide \/ CallbackThrows
         \/ UNCHANGED vars
  BY DEF Next, Environment, Sampling, Boundary

\* The replies the model can give, and what the loop makes of them: it ends,
\* refuses, runs the calls or settles.
Stops == {"stop", "pause", "length", "error", "aborted"}
Called == {"none", "required", "other"}

LEMMA HandleCases ==
  ASSUME NEW stop \in Stops, NEW called \in Called, Handle(stop, called)
  PROVE  \/ /\ stop \in {"error", "aborted"} /\ End(stop)
            /\ owed' = FALSE /\ UNCHANGED <<escalations, hasMore, open>>
         \/ Unmet(called) /\ Refuse(called)
         \/ ~Unmet(called) /\ Runs(stop, called) /\ Run
         \/ /\ stop \notin {"error", "aborted"} /\ ~Unmet(called)
            /\ ~Runs(stop, called) /\ Settle(stop, called)
  BY DEF Handle

LEMMA ReplyStep ==
  ASSUME Reply \/ CutShort \/ LeakResume
  PROVE  \/ \E stop \in Stops, called \in Called : Handle(stop, called)
         \/ LeakResume /\ End("failed") /\ UNCHANGED <<messages, signals, turn, choice, counters, mark>>
  BY DEF Reply, CutShort, LeakResume, Stops, Called

-----------------------------------------------------------------------------
\* Type correctness: messages, flags and control apart.

LEMMA DequeueTypes ==
  ASSUME MessageTypes, NEW k \in Kind, Dequeue(k)
  PROVE  queue' \in [Kind -> Seq(Nat)] /\ pending' \in [Kind -> Seq(Nat)]
<1>1. PICK n \in Batches(k) :
        /\ pending' = [pending EXCEPT ![k] = @ \o SubSeq(queue[k], 1, n)]
        /\ queue' = [queue EXCEPT ![k] = SubSeq(@, n + 1, Len(@))]
  BY DEF Dequeue
<1>2. queue[k] \in Seq(Nat) /\ pending[k] \in Seq(Nat) /\ Len(queue[k]) \in Nat
  BY DEF MessageTypes
<1>3. n \in 0..Len(queue[k])
  BY <1>2 DEF Batches
<1>4. SubSeq(queue[k], 1, n) \in Seq(Nat)
  BY <1>2, <1>3
<1>5. SubSeq(queue[k], n + 1, Len(queue[k])) \in Seq(Nat)
  BY <1>2, <1>3
<1>6. pending[k] \o SubSeq(queue[k], 1, n) \in Seq(Nat)
  BY <1>2, <1>4
<1>7. QED
  BY <1>1, <1>5, <1>6 DEF MessageTypes

LEMMA PollTypes ==
  ASSUME MessageTypes, NEW k \in Kind, Poll(k), mark' = mark \/ mark' = sent
  PROVE  MessageTypes'
<1>1. queue' \in [Kind -> Seq(Nat)] /\ pending' \in [Kind -> Seq(Nat)]
  BY DequeueTypes DEF Poll, MessageTypes
<1>2. UNCHANGED <<sent, withdrawn, context>>
  BY DEF Poll
<1>3. QED
  BY <1>1, <1>2 DEF MessageTypes

LEMMA MessageStep ==
  ASSUME MessageTypes, [Next]_vars
  PROVE  MessageTypes'
<1>1. ASSUME NEW k \in Kind, Send(k)
      PROVE  MessageTypes'
  <2>1. /\ queue' = [queue EXCEPT ![k] = Append(@, sent[k] + 1)]
        /\ sent' = [sent EXCEPT ![k] = @ + 1]
        /\ sent[k] < Sends
        /\ UNCHANGED <<withdrawn, pending, context, mark>>
    BY <1>1 DEF Send
  <2>2. sent[k] \in 0..Sends /\ queue[k] \in Seq(Nat) /\ Sends \in Nat
    BY BoundsAssumption DEF MessageTypes
  <2>3. sent[k] + 1 \in 0..Sends /\ sent[k] + 1 \in Nat
    BY <2>1, <2>2
  <2>4. Append(queue[k], sent[k] + 1) \in Seq(Nat)
    BY <2>2, <2>3
  <2>5. QED
    BY <2>1, <2>3, <2>4 DEF MessageTypes
<1>2. ASSUME NEW k \in Kind, Withdraw(k)
      PROVE  MessageTypes'
  <2>1. /\ queue' = [queue EXCEPT ![k] = SubSeq(@, 1, Len(@) - 1)]
        /\ withdrawn' = [withdrawn EXCEPT ![k] = @ \cup {queue[k][Len(queue[k])]}]
        /\ queue[k] # <<>>
        /\ UNCHANGED <<sent, pending, context, mark>>
    BY <1>2 DEF Withdraw
  <2>2. queue[k] \in Seq(Nat) /\ withdrawn[k] \in SUBSET Nat
    BY DEF MessageTypes
  <2>3. Len(queue[k]) \in 1..Len(queue[k])
    BY <2>1, <2>2
  <2>4. queue[k][Len(queue[k])] \in Nat
    BY <2>2, <2>3
  <2>5. SubSeq(queue[k], 1, Len(queue[k]) - 1) \in Seq(Nat)
    BY <2>2, <2>3
  <2>6. QED
    BY <2>1, <2>2, <2>4, <2>5 DEF MessageTypes
<1>3. CASE Inject
  <2>1. ASSUME NEW k \in Kind
        PROVE  context[k] \o pending[k] \in Seq(Nat)
    BY DEF MessageTypes
  <2>2. context' = [k \in Kind |-> context[k] \o pending[k]]
    BY <1>3 DEF Inject
  <2>3. context' \in [Kind -> Seq(Nat)]
    BY <2>1, <2>2
  <2>4. pending' \in [Kind -> Seq(Nat)]
    BY <1>3 DEF Inject, Nothing
  <2>5. QED
    BY <1>3, <2>3, <2>4 DEF Inject, MessageTypes
<1>4. CASE Start \/ EndTurn \/ PollAsides \/ YieldSteering \/ YieldAsides \/ YieldFollowUps
  <2>1. /\ mark' = mark \/ mark' = sent
        /\ (\E k \in Kind : Poll(k)) \/ UNCHANGED <<messages, mark>>
    BY <1>4 DEF Start, EndTurn, PollAsides, YieldSteering, YieldAsides, YieldFollowUps, Kind
  <2>2. QED
    BY <2>1, PollTypes DEF MessageTypes, messages
<1>5. CASE UNCHANGED <<messages, mark>>
  BY <1>5 DEF MessageTypes, messages
<1>6. Reply \/ CutShort \/ LeakResume => UNCHANGED <<messages, mark>>
  BY ReplyStep DEF Handle
<1>7. Abort \/ DeadlineTimer \/ TerminalResult \/ Expire \/ TogglePause \/ Top \/ Sample
        \/ LeakRetry \/ SampleThrows \/ ToolsReturn \/ Decide \/ CallbackThrows
      => UNCHANGED <<messages, mark>>
  BY DEF Abort, DeadlineTimer, TerminalResult, AbortBy, Expire, TogglePause, Top, Sample,
         LeakRetry, SampleThrows, ToolsReturn, Decide, CallbackThrows
<1>8. UNCHANGED vars => UNCHANGED <<messages, mark>>
  BY DEF vars
<1>9. QED
  BY StepCases, <1>1, <1>2, <1>3, <1>4, <1>5, <1>6, <1>7, <1>8

LEMMA FlagStep ==
  ASSUME FlagTypes, [Next]_vars
  PROVE  FlagTypes'
<1> USE DEF FlagTypes
<1>1. ASSUME NEW k \in Kind, Send(k) \/ Withdraw(k)
      PROVE  FlagTypes'
  BY <1>1 DEF Send, Withdraw, signals, turn, choice
<1>2. CASE Abort \/ DeadlineTimer \/ TerminalResult \/ Expire \/ TogglePause
  BY <1>2 DEF Abort, DeadlineTimer, TerminalResult, AbortBy, Expire, TogglePause, turn, choice
<1>3. CASE Start \/ Top \/ Inject \/ EndTurn \/ PollAsides \/ YieldSteering
             \/ YieldAsides \/ YieldFollowUps \/ Decide \/ CallbackThrows
  BY <1>3 DEF Start, Top, Inject, EndTurn, PollAsides, YieldSteering, YieldAsides,
              YieldFollowUps, Decide, CallbackThrows, signals, turn, choice
<1>4. CASE Sample
  BY <1>4 DEF Sample, Adopt, signals, choice
<1>5. CASE Reply \/ CutShort \/ LeakResume
  <2>1. ASSUME NEW stop \in Stops, NEW called \in Called, Handle(stop, called)
        PROVE  FlagTypes'
    <3>1. UNCHANGED <<expired, paused>> /\ resolved' = FALSE
      BY <2>1 DEF Handle, signals
    <3>2. hasMore' \in BOOLEAN /\ owed' \in BOOLEAN /\ open' \in BOOLEAN
      BY <2>1, HandleCases DEF Refuse, Run, Settle
    <3>3. QED
      BY <3>1, <3>2
  <2>2. QED
    BY <1>5, <2>1, ReplyStep DEF signals, turn, choice
<1>6. CASE LeakRetry \/ SampleThrows \/ ToolsReturn
  BY <1>6 DEF LeakRetry, SampleThrows, ToolsReturn, signals, turn, choice
<1>7. CASE UNCHANGED vars
  BY <1>7 DEF vars, signals, turn, choice
<1>8. QED
  BY StepCases, <1>1, <1>2, <1>3, <1>4, <1>5, <1>6, <1>7

\* Where a handled reply leads.
LEMMA HandleTypes ==
  ASSUME ControlTypes, pc \in {"streaming", "cut"},
         NEW stop \in Stops, NEW called \in Called, Handle(stop, called)
  PROVE  /\ pc' \in Locations /\ how' \in Endings /\ (pc' = "ended" <=> how' # "none")
         /\ reason' = reason /\ directive' = directive /\ softId' = softId
         /\ calls' \in Called /\ retry' = 0 /\ pulls' = 0
         /\ escalations' \in 0..MaxEscalations
         /\ pausedTurns' \in 0..MaxPaused
<1>1. /\ reason' = reason /\ directive' = directive /\ softId' = softId
      /\ calls' \in Called /\ retry' = 0 /\ pulls' = 0
  BY DEF Handle, signals
<1>2. pausedTurns' \in 0..MaxPaused
  BY BoundsAssumption DEF Handle, ControlTypes
<1>3. escalations' \in 0..MaxEscalations
  <2>1. \/ escalations' = escalations
        \/ ~(escalations >= MaxEscalations) /\ escalations' = escalations + 1
    BY HandleCases DEF Refuse, Run, Settle
  <2>2. QED
    BY <2>1, BoundsAssumption DEF ControlTypes
<1>4. how = "none"
  BY DEF ControlTypes
<1>5. \/ pc' = "ended" /\ how' \in {"error", "aborted", "failed"}
      \/ pc' \in {"turnEnd", "tools"} /\ how' = how
  BY HandleCases DEF Refuse, Run, Settle, End, Goto
<1>6. QED
  BY <1>1, <1>2, <1>3, <1>4, <1>5 DEF ControlTypes, Locations, Endings

LEMMA ControlStep ==
  ASSUME ControlTypes, [Next]_vars
  PROVE  ControlTypes'
<1> USE BoundsAssumption DEF ControlTypes
<1>1. ASSUME NEW k \in Kind, Send(k) \/ Withdraw(k)
      PROVE  ControlTypes'
  BY <1>1 DEF Send, Withdraw, signals, turn, choice, counters
<1>2. CASE Abort \/ DeadlineTimer \/ TerminalResult \/ Expire \/ TogglePause
  BY <1>2 DEF Abort, DeadlineTimer, TerminalResult, AbortBy, Expire, TogglePause,
              turn, choice, counters
<1>3. CASE Start \/ Top \/ Inject \/ EndTurn \/ PollAsides \/ YieldSteering
             \/ YieldAsides \/ YieldFollowUps \/ Decide \/ CallbackThrows
             \/ SampleThrows \/ ToolsReturn
  <2>1. /\ UNCHANGED <<reason, calls, choice, counters>>
        /\ \/ pc' = "ended" /\ how' \in {"done", "deadline", "failed"}
           \/ pc # "ended" /\ how' = how /\ pc' \in Locations \ {"ended"}
    BY <1>3 DEF Start, Top, Inject, EndTurn, PollAsides, YieldSteering, YieldAsides,
                YieldFollowUps, Decide, CallbackThrows, SampleThrows, ToolsReturn,
                End, Goto, signals, turn, Locations
  <2>2. QED
    BY <2>1 DEF choice, counters, Locations, Endings
<1>4. CASE Sample
  <2>1. /\ UNCHANGED <<reason, calls, counters, how>>
        /\ pc # "ended" /\ pc' \in {"cut", "streaming"}
    BY <1>4 DEF Sample, Goto, signals
  <2>2. /\ directive' \in Directives /\ softId' \in Directives
        /\ escalations' \in 0..MaxEscalations /\ pulls' \in Nat
    BY <1>4 DEF Sample, Adopt, choice, Directives
  <2>3. QED
    BY <2>1, <2>2 DEF counters, Locations
<1>5. CASE Reply \/ CutShort
  <2>1. PICK stop \in Stops, called \in Called : Handle(stop, called)
    BY <1>5 DEF Reply, CutShort, Stops, Called
  <2>2. pc \in {"streaming", "cut"} /\ resume' = 0
    BY <1>5 DEF Reply, CutShort
  <2>3. QED
    BY <2>1, <2>2, HandleTypes DEF Called
<1>6. CASE LeakResume
  <2>1. CASE resume >= MaxLeaks
    BY <1>6, <2>1 DEF LeakResume, End, signals, turn, choice, counters, Locations, Endings
  <2>2. CASE ~(resume >= MaxLeaks)
    <3>1. PICK called \in Called : Handle("stop", called)
      BY <1>6, <2>2 DEF LeakResume, Called
    <3>2. resume' \in 0..MaxLeaks /\ pc = "streaming"
      BY <1>6, <2>2 DEF LeakResume
    <3>3. QED
      BY <3>1, <3>2, HandleTypes DEF Called, Stops
  <2>3. QED
    BY <2>1, <2>2
<1>7. CASE LeakRetry
  BY <1>7 DEF LeakRetry, End, Goto, signals, turn, choice, Locations, Endings
<1>8. CASE UNCHANGED vars
  BY <1>8 DEF vars, signals, turn, choice, counters
<1>9. QED
  BY StepCases, <1>1, <1>2, <1>3, <1>4, <1>5, <1>6, <1>7, <1>8

LEMMA InitTypes == Init => TypeOK
<1>1. Init => MessageTypes
  BY BoundsAssumption DEF Init, MessageTypes, Nothing
<1>2. Init => FlagTypes
  BY DEF Init, FlagTypes
<1>3. Init => ControlTypes
  BY BoundsAssumption DEF Init, ControlTypes, Locations, Endings, Directives
<1>4. QED
  BY <1>1, <1>2, <1>3 DEF TypeOK

\* Every variable stays in its type: in particular the loop's counters never
\* pass the bounds at which the code gives up.
THEOREM TypeCorrect == Spec => []TypeOK
<1>1. TypeOK /\ [Next]_vars => TypeOK'
  BY MessageStep, FlagStep, ControlStep DEF TypeOK
<1>2. QED
  BY InitTypes, <1>1, PTL DEF Spec

-----------------------------------------------------------------------------
\* The control invariant: what holds at each place of the loop, from which the
\* properties of a turn follow.

Working == {"turnEnd", "asides", "top"}
Yielding == {"beforeYield", "yieldAsides", "yieldFollow", "decide"}

\* The directive is asked for once, unless the run was aborted before that.
Asked ==
  /\ pulls = 0 \/ pulls = 1
  /\ ~resolved => pulls = 0
  /\ resolved => pulls = 1 \/ Aborted
  /\ pc = "streaming" => pulls = 1

\* While the requirement of the last reply is unmet the loop has more to do.
Required ==
  /\ pc = "start" => hasMore /\ directive \notin Requirements
  /\ pc = "tools" /\ directive \in Requirements => calls = "required"
  /\ pc \in Working /\ retry = 0 /\ directive \in Requirements /\ ~hasMore => calls = "required"
  /\ pc \in Yielding /\ retry = 0 /\ directive \in Requirements => calls = "required"
  /\ how = "done" /\ retry = 0 /\ directive \in Requirements => calls = "required"

\* A loop with nothing more to do owes the model nothing, unless it is dying.
Owing ==
  /\ pc = "start" => hasMore
  /\ pc \in Working /\ retry = 0 /\ owed /\ ~hasMore => expired \/ Aborted
  /\ pc \in Yielding /\ retry = 0 /\ owed => Aborted
  /\ how = "done" /\ retry = 0 /\ owed => Aborted

\* The control part of the invariant, TypeOK apart.
TurnInv == CallsArePaired /\ Asked /\ Required /\ Owing

\* Steps of the environment touch none of it: an abort only releases.
LEMMA EnvironmentStep ==
  ASSUME [Next]_vars, ~UNCHANGED <<pc, how, turn, choice, counters>>
  PROVE  \/ Start \/ Top \/ Inject \/ Sample
         \/ Reply \/ CutShort \/ LeakRetry \/ LeakResume \/ SampleThrows \/ ToolsReturn
         \/ EndTurn \/ PollAsides \/ YieldSteering \/ YieldAsides \/ YieldFollowUps
         \/ Decide \/ CallbackThrows
<1>1. ASSUME NEW k \in Kind, Send(k) \/ Withdraw(k)
      PROVE  UNCHANGED <<pc, how, turn, choice, counters>>
  BY <1>1 DEF Send, Withdraw
<1>2. ASSUME Abort \/ DeadlineTimer \/ TerminalResult \/ Expire \/ TogglePause
      PROVE  UNCHANGED <<pc, how, turn, choice, counters>>
  BY <1>2 DEF Abort, DeadlineTimer, TerminalResult, AbortBy, Expire, TogglePause
<1>3. ASSUME UNCHANGED vars
      PROVE  UNCHANGED <<pc, how, turn, choice, counters>>
  BY <1>3 DEF vars
<1>4. QED
  BY StepCases, <1>1, <1>2, <1>3

\* The signals only ever fire.
LEMMA SignalStep ==
  ASSUME TypeOK, [Next]_vars
  PROVE  (Aborted => Aborted') /\ (expired => expired')
<1>1. ASSUME NEW k \in Kind, Send(k) \/ Withdraw(k)
      PROVE  UNCHANGED <<reason, expired>>
  BY <1>1 DEF Send, Withdraw, signals
<1>2. CASE Abort \/ DeadlineTimer \/ TerminalResult \/ Expire \/ TogglePause
  BY <1>2 DEF Abort, DeadlineTimer, TerminalResult, AbortBy, Expire, TogglePause, Aborted,
              TypeOK, ControlTypes
<1>3. ASSUME \/ Start \/ Top \/ Inject \/ Sample \/ LeakRetry \/ SampleThrows \/ ToolsReturn
             \/ EndTurn \/ PollAsides \/ YieldSteering \/ YieldAsides \/ YieldFollowUps
             \/ Decide \/ CallbackThrows
      PROVE  UNCHANGED <<reason, expired>>
  BY <1>3 DEF Start, Top, Inject, Sample, LeakRetry, SampleThrows, ToolsReturn, EndTurn,
              PollAsides, YieldSteering, YieldAsides, YieldFollowUps, Decide,
              CallbackThrows, signals
<1>4. ASSUME Reply \/ CutShort \/ LeakResume
      PROVE  UNCHANGED <<reason, expired>>
  BY <1>4, ReplyStep DEF Handle, signals
<1>5. ASSUME UNCHANGED vars
      PROVE  UNCHANGED <<reason, expired>>
  BY <1>5 DEF vars, signals
<1>6. QED
  BY StepCases, <1>1, <1>2, <1>3, <1>4, <1>5 DEF Aborted

LEMMA StutterTurn ==
  ASSUME TypeOK, TurnInv, [Next]_vars, UNCHANGED <<pc, how, turn, choice, counters>>
  PROVE  TurnInv'
<1>1. CallsArePaired'
  BY DEF TurnInv, CallsArePaired, turn
<1>2. Asked'
  BY SignalStep DEF TurnInv, Asked, choice
<1>3. Required'
  BY DEF TurnInv, Required, turn, choice, counters
<1>4. Owing'
  BY SignalStep DEF TurnInv, Owing, turn, counters
<1>5. QED
  BY <1>1, <1>2, <1>3, <1>4 DEF TurnInv

\* A handled reply, whatever it is.
LEMMA HandleTurn ==
  ASSUME TypeOK, TurnInv, pc \in {"streaming", "cut"},
         NEW stop \in Stops, NEW called \in Called, Handle(stop, called)
  PROVE  TurnInv'
<1>1. /\ directive' = directive /\ reason' = reason /\ expired' = expired
      /\ calls' = called /\ resolved' = FALSE /\ pulls' = 0
  BY DEF Handle, signals
<1>2. how = "none" /\ open = FALSE
  BY DEF TypeOK, ControlTypes, FlagTypes, TurnInv, CallsArePaired
<1>3. Asked'
  <2>1. pc' # "streaming"
    BY HandleCases DEF Refuse, Run, Settle, End, Goto
  <2>2. QED
    BY <1>1, <2>1 DEF Asked
<1>4. CASE stop \in {"error", "aborted"} /\ End(stop) /\ owed' = FALSE
             /\ UNCHANGED <<escalations, hasMore, open>>
  <2>1. pc' = "ended" /\ how' # "done" /\ open' = FALSE
    BY <1>2, <1>4 DEF End
  <2>2. QED
    BY <1>3, <2>1 DEF TurnInv, CallsArePaired, Required, Owing, Working, Yielding
<1>5. CASE Unmet(called) /\ Refuse(called)
  <2>1. CASE escalations >= MaxEscalations
    <3>1. pc' = "ended" /\ how' = "failed"
      BY <1>5, <2>1 DEF Refuse, End
    <3>2. QED
      BY <1>3, <3>1 DEF TurnInv, CallsArePaired, Required, Owing, Working, Yielding
  <2>2. CASE ~(escalations >= MaxEscalations)
    <3>1. pc' = "turnEnd" /\ how' = "none" /\ hasMore' = TRUE /\ open' = FALSE
      BY <1>2, <1>5, <2>2 DEF Refuse, Goto
    <3>2. QED
      BY <1>3, <3>1 DEF TurnInv, CallsArePaired, Required, Owing, Working, Yielding
  <2>3. QED
    BY <2>1, <2>2
<1>6. CASE ~Unmet(called) /\ Run
  <2>1. pc' = "tools" /\ how' = "none"
    BY <1>2, <1>6 DEF Run, Goto
  <2>2. directive \in Requirements => called = "required"
    BY <1>6 DEF Unmet
  <2>3. QED
    BY <1>1, <1>3, <2>1, <2>2 DEF TurnInv, CallsArePaired, Required, Owing, Working, Yielding
<1>7. CASE /\ stop \notin {"error", "aborted"} /\ ~Unmet(called)
           /\ ~Runs(stop, called) /\ Settle(stop, called)
  <2>1. pc' = "turnEnd" /\ how' = "none" /\ open' = FALSE
    BY <1>2, <1>7 DEF Settle, Goto
  <2>2. directive \in Requirements => called = "required"
    BY <1>7 DEF Unmet
  <2>3. owed' /\ ~hasMore' => expired
    BY <1>7 DEF Settle, Runs, Stops
  <2>4. QED
    BY <1>1, <1>3, <2>1, <2>2, <2>3
       DEF TurnInv, CallsArePaired, Required, Owing, Working, Yielding
<1>8. QED
  BY HandleCases, <1>4, <1>5, <1>6, <1>7

LEMMA TurnStep ==
  ASSUME TypeOK, TurnInv, [Next]_vars
  PROVE  TurnInv'
<1> USE DEF Working, Yielding
<1>1. CASE UNCHANGED <<pc, how, turn, choice, counters>>
  BY <1>1, StutterTurn
<1>2. CASE Start \/ EndTurn \/ PollAsides \/ YieldSteering \/ YieldAsides
             \/ YieldFollowUps \/ CallbackThrows \/ SampleThrows
  <2>1. /\ UNCHANGED <<turn, choice, counters, signals>>
        /\ \/ pc' = "ended" /\ how' \in {"deadline", "failed"}
           \/ pc = "start" /\ pc' = "top" /\ how' = how
           \/ pc \in {"turnEnd", "asides"} /\ pc' \in {"asides", "top"} /\ how' = how
           \/ pc \in Yielding /\ pc' \in Yielding /\ how' = how
        /\ pc \notin {"tools", "ended"}
    BY <1>2 DEF Start, EndTurn, PollAsides, YieldSteering, YieldAsides, YieldFollowUps,
                CallbackThrows, SampleThrows, End, Goto
  <2>2. CallsArePaired'
    BY <2>1 DEF TurnInv, CallsArePaired, turn, TypeOK, ControlTypes
  <2>3. Asked'
    BY <2>1 DEF TurnInv, Asked, choice, signals, Aborted
  <2>4. Required'
    BY <2>1 DEF TurnInv, Required, turn, choice, counters, TypeOK, ControlTypes
  <2>5. Owing'
    BY <2>1 DEF TurnInv, Owing, turn, counters, signals, Aborted, TypeOK, ControlTypes
  <2>6. QED
    BY <2>2, <2>3, <2>4, <2>5 DEF TurnInv
<1>3. CASE Top
  <2>1. /\ UNCHANGED <<turn, choice, counters, signals>>
        /\ pc = "top" /\ how = "none"
        /\ \/ pc' = "ended" /\ how' = "deadline"
           \/ pc' = "gate" /\ how' = how
           \/ pc' = "beforeYield" /\ how' = how /\ ~hasMore /\ ~expired
    BY <1>3 DEF Top, End, Goto, TypeOK, ControlTypes
  <2>2. CallsArePaired' /\ Asked'
    BY <2>1 DEF TurnInv, CallsArePaired, Asked, turn, choice, signals, Aborted
  <2>3. Required'
    BY <2>1 DEF TurnInv, Required, turn, choice, counters
  <2>4. Owing'
    BY <2>1 DEF TurnInv, Owing, turn, counters, signals, Aborted
  <2>5. QED
    BY <2>2, <2>3, <2>4 DEF TurnInv
<1>4. CASE Inject
  <2>1. pc' = "sync" /\ how' = how /\ pc = "gate" /\ how = "none"
        /\ UNCHANGED <<hasMore, open, calls, choice, counters, signals>>
    BY <1>4 DEF Inject, Goto, TypeOK, ControlTypes
  <2>2. QED
    BY <2>1 DEF TurnInv, CallsArePaired, Asked, Required, Owing, choice, signals, Aborted
<1>5. CASE Sample
  <2>1. /\ pc = "sync" /\ how' = how /\ how = "none"
        /\ pc' = (IF Aborted THEN "cut" ELSE "streaming")
        /\ UNCHANGED <<hasMore, open, calls, counters, signals>>
    BY <1>5 DEF Sample, Goto, TypeOK, ControlTypes
  <2>2. \/ resolved /\ resolved' = resolved /\ pulls' = pulls
        \/ ~resolved /\ resolved' = TRUE /\ Aborted /\ pulls' = pulls
        \/ ~resolved /\ resolved' = TRUE /\ ~Aborted /\ pulls' = pulls + 1
    BY <1>5 DEF Sample, Adopt, choice, TypeOK, FlagTypes
  <2>3. Asked'
    BY <2>1, <2>2 DEF TurnInv, Asked, signals, Aborted
  <2>4. QED
    BY <2>1, <2>3 DEF TurnInv, CallsArePaired, Required, Owing
<1>6. CASE Reply \/ CutShort
  BY <1>6, HandleTurn DEF Reply, CutShort, Stops, Called
<1>7. CASE LeakResume
  <2>1. CASE resume >= MaxLeaks
    <3>1. /\ pc' = "ended" /\ how' = "failed"
          /\ UNCHANGED <<turn, choice, counters, signals>>
      BY <1>7, <2>1 DEF LeakResume, End
    <3>2. QED
      BY <3>1 DEF TurnInv, CallsArePaired, Asked, Required, Owing, choice, signals, Aborted
  <2>2. CASE ~(resume >= MaxLeaks)
    BY <1>7, <2>2, HandleTurn DEF LeakResume, Stops, Called
  <2>3. QED
    BY <2>1, <2>2
<1>8. CASE LeakRetry
  <2>1. /\ UNCHANGED <<turn, choice, signals>>
        /\ pc = "streaming" /\ how = "none"
        /\ \/ pc' = "ended" /\ how' = "failed"
           \/ pc' = "top" /\ how' = how /\ retry' = retry + 1
    BY <1>8 DEF LeakRetry, End, Goto, TypeOK, ControlTypes
  <2>2. retry \in Nat
    BY BoundsAssumption DEF TypeOK, ControlTypes
  <2>3. CallsArePaired' /\ Asked'
    BY <2>1 DEF TurnInv, CallsArePaired, Asked, turn, choice, signals, Aborted
  <2>4. Required' /\ Owing'
    BY <2>1, <2>2 DEF Required, Owing
  <2>5. QED
    BY <2>3, <2>4 DEF TurnInv
<1>9. CASE ToolsReturn
  <2>1. /\ pc = "tools" /\ pc' = "turnEnd" /\ how' = how /\ how = "none"
        /\ open' = FALSE /\ (hasMore' <=> reason # "terminal")
        /\ UNCHANGED <<calls, choice, counters, signals>>
    BY <1>9 DEF ToolsReturn, Goto, TypeOK, ControlTypes
  <2>2. QED
    BY <2>1 DEF TurnInv, CallsArePaired, Asked, Required, Owing, choice, counters, signals, Aborted
<1>10. CASE Decide
  <2>1. /\ UNCHANGED <<owed, open, calls, choice, counters, signals>>
        /\ pc = "decide" /\ how = "none"
        /\ \/ pc' = "top" /\ how' = how /\ hasMore' = TRUE
           \/ pc' = "ended" /\ how' = "done" /\ hasMore' = hasMore
    BY <1>10 DEF Decide, End, Goto, TypeOK, ControlTypes
  <2>2. CallsArePaired' /\ Asked'
    BY <2>1 DEF TurnInv, CallsArePaired, Asked, choice, signals, Aborted
  <2>3. Required'
    BY <2>1 DEF TurnInv, Required, choice, counters
  <2>4. Owing'
    BY <2>1 DEF TurnInv, Owing, counters, signals, Aborted
  <2>5. QED
    BY <2>2, <2>3, <2>4 DEF TurnInv
<1>11. CASE ~UNCHANGED <<pc, how, turn, choice, counters>>
  <2>1. \/ Start \/ Top \/ Inject \/ Sample
        \/ Reply \/ CutShort \/ LeakRetry \/ LeakResume \/ SampleThrows \/ ToolsReturn
        \/ EndTurn \/ PollAsides \/ YieldSteering \/ YieldAsides \/ YieldFollowUps
        \/ Decide \/ CallbackThrows
    BY <1>11, EnvironmentStep
  <2>2. QED
    BY <2>1, <1>2, <1>3, <1>4, <1>5, <1>6, <1>7, <1>8, <1>9, <1>10
<1>12. QED
  BY <1>1, <1>11

LEMMA InitTurn == Init => TurnInv
<1>1. ASSUME Init
      PROVE  TurnInv
  <2>1. /\ pc = "start" /\ how = "none" /\ directive = "none"
        /\ hasMore /\ ~open /\ ~resolved /\ pulls = 0
    BY <1>1 DEF Init
  <2>2. directive \notin Requirements
    BY <2>1, RequirementsAssumption
  <2>3. QED
    BY <2>1, <2>2 DEF TurnInv, CallsArePaired, Asked, Required, Owing, Working, Yielding
<1>2. QED
  BY <1>1

LEMMA TurnInvariant == Spec => [](TypeOK /\ TurnInv)
<1>1. TypeOK /\ TurnInv /\ [Next]_vars => (TypeOK /\ TurnInv)'
  BY MessageStep, FlagStep, ControlStep, TurnStep DEF TypeOK
<1>2. QED
  BY InitTypes, InitTurn, <1>1, PTL DEF Spec

\* No sample sees a tool call without its result, whatever was truncated,
\* refused, aborted or leaked before it; only a failed run leaves one behind.
THEOREM Pairing == Spec => []CallsArePaired
  BY TurnInvariant, PTL DEF TurnInv

\* The host is asked for exactly one tool choice per reply, over any number of
\* leak retries.
THEOREM OneChoice == Spec => []OneChoicePerReply
<1>1. TurnInv => OneChoicePerReply
  BY DEF TurnInv, Asked, OneChoicePerReply
<1>2. QED
  BY TurnInvariant, <1>1, PTL

\* A pending requirement is neither dodged by other calls nor by ending the run.
THEOREM Requirement == Spec => []RequirementHolds
<1>1. TypeOK /\ TurnInv => RequirementHolds
  BY DEF TurnInv, Required, RequirementHolds
<1>2. QED
  BY TurnInvariant, <1>1, PTL

\* A run that ends by itself, with no abandoned retry, has answered everything.
THEOREM Answered == Spec => []EndsAnswered
<1>1. TypeOK /\ TurnInv => EndsAnswered
  BY DEF TurnInv, Owing, EndsAnswered
<1>2. QED
  BY TurnInvariant, <1>1, PTL

-----------------------------------------------------------------------------
\* The messages of an aborted run.

LEMMA AbortedStep ==
  ASSUME TypeOK, Aborted, [Next]_vars, NEW k \in Kind
  PROVE  Taken(k)' = Taken(k)
<1>1. CASE UNCHANGED <<context, pending>>
  BY <1>1 DEF Taken
<1>2. CASE Inject
  <2>1. context' = [j \in Kind |-> context[j] \o pending[j]] /\ pending' = Nothing
    BY <1>2 DEF Inject
  <2>2. context'[k] = context[k] \o pending[k] /\ pending'[k] = <<>>
    BY <2>1 DEF Nothing
  <2>3. context[k] \o pending[k] \in Seq(Nat)
    BY DEF TypeOK, MessageTypes
  <2>4. (context[k] \o pending[k]) \o <<>> = context[k] \o pending[k]
    BY <2>3
  <2>5. QED
    BY <2>2, <2>4 DEF Taken
<1>3. ASSUME NEW j \in Kind, Send(j) \/ Withdraw(j)
      PROVE  UNCHANGED <<context, pending>>
  BY <1>3 DEF Send, Withdraw
<1>4. ASSUME Start \/ EndTurn \/ PollAsides \/ YieldSteering \/ YieldAsides \/ YieldFollowUps
      PROVE  UNCHANGED <<context, pending>>
  BY <1>4 DEF Start, EndTurn, PollAsides, YieldSteering, YieldAsides, YieldFollowUps,
              Poll, messages
<1>5. ASSUME Reply \/ CutShort \/ LeakResume
      PROVE  UNCHANGED <<context, pending>>
  BY <1>5, ReplyStep DEF Handle, messages
<1>6. ASSUME \/ Abort \/ DeadlineTimer \/ TerminalResult \/ Expire \/ TogglePause \/ Top
             \/ Sample \/ LeakRetry \/ SampleThrows \/ ToolsReturn \/ Decide
             \/ CallbackThrows \/ UNCHANGED vars
      PROVE  UNCHANGED <<context, pending>>
  BY <1>6 DEF Abort, DeadlineTimer, TerminalResult, AbortBy, Expire, TogglePause, Top,
              Sample, LeakRetry, SampleThrows, ToolsReturn, Decide, CallbackThrows,
              messages, vars
<1>7. QED
  BY StepCases, <1>1, <1>2, <1>3, <1>4, <1>5, <1>6

\* Once aborted, a run takes nothing more from any queue, at any of its polls.
THEOREM AbortLeaves == Spec => AbortLeavesQueues
<1>1. TypeOK /\ [Next]_vars => [Aborted => \A k \in Kind : Taken(k)' = Taken(k)]_vars
  BY AbortedStep
<1>2. QED
  BY TypeCorrect, <1>1, PTL DEF Spec, AbortLeavesQueues

-----------------------------------------------------------------------------
\* Dequeued messages: pending is empty from the injection to the next boundary.

Flushed == pc \in {"sync", "streaming", "cut", "tools", "turnEnd"} => ~HasPending
PendingInv == Flushed /\ DequeuedIsInjected

LEMMA PendingStep ==
  ASSUME TypeOK, PendingInv, [Next]_vars
  PROVE  PendingInv'
<1> USE DEF PendingInv, Flushed, DequeuedIsInjected
<1>1. CASE UNCHANGED <<pc, how, pending>>
  BY <1>1 DEF HasPending, Nothing
<1>2. CASE Start \/ EndTurn \/ PollAsides \/ YieldSteering \/ YieldAsides
             \/ YieldFollowUps \/ CallbackThrows
  <2>1. /\ pc # "ended" /\ how = "none"
        /\ \/ pc' = "ended" /\ how' \in {"deadline", "failed"}
           \/ pc' \in {"top", "asides"} \cup Yielding /\ how' = how
    BY <1>2 DEF Start, EndTurn, PollAsides, YieldSteering, YieldAsides, YieldFollowUps,
                CallbackThrows, End, Goto, Yielding, TypeOK, ControlTypes
  <2>2. QED
    BY <2>1 DEF Yielding
<1>3. CASE Inject
  <2>1. pending' = Nothing /\ pc' = "sync" /\ how' = how /\ how = "none"
    BY <1>3 DEF Inject, Goto, TypeOK, ControlTypes
  <2>2. QED
    BY <2>1 DEF HasPending, Nothing
<1>4. CASE Reply \/ CutShort \/ LeakResume \/ Sample \/ SampleThrows \/ ToolsReturn
  <2>1. pc \in {"sync", "streaming", "cut", "tools"} /\ how = "none"
    BY <1>4 DEF Reply, CutShort, LeakResume, Sample, SampleThrows, ToolsReturn,
                TypeOK, ControlTypes
  <2>2. pending' = pending
    BY <1>4, ReplyStep DEF Handle, Sample, SampleThrows, ToolsReturn, messages
  <2>3. QED
    BY <2>1, <2>2 DEF HasPending, Nothing
<1>5. CASE LeakRetry
  <2>1. pc = "streaming" /\ pending' = pending
    BY <1>5 DEF LeakRetry, messages
  <2>2. QED
    BY <2>1 DEF HasPending, Nothing
<1>6. CASE Top
  <2>1. /\ pending' = pending /\ pc' \in {"gate", "beforeYield", "ended"}
        /\ how' \in {"none", "deadline"}
    BY <1>6 DEF Top, End, Goto, messages, TypeOK, ControlTypes
  <2>2. QED
    BY <2>1
<1>7. CASE Decide
  <2>1. /\ pending' = pending /\ pc' \in {"top", "ended"}
        /\ how' = "none" \/ (how' = "done" /\ ~HasPending)
    BY <1>7 DEF Decide, End, Goto, messages, TypeOK, ControlTypes
  <2>2. QED
    BY <2>1 DEF HasPending, Nothing
<1>8. ASSUME NEW k \in Kind, Send(k) \/ Withdraw(k)
      PROVE  UNCHANGED <<pc, how, pending>>
  BY <1>8 DEF Send, Withdraw
<1>9. ASSUME Abort \/ DeadlineTimer \/ TerminalResult \/ Expire \/ TogglePause \/ UNCHANGED vars
      PROVE  UNCHANGED <<pc, how, pending>>
  BY <1>9 DEF Abort, DeadlineTimer, TerminalResult, AbortBy, Expire, TogglePause,
              messages, vars
<1>10. QED
  BY StepCases, <1>1, <1>2, <1>3, <1>4, <1>5, <1>6, <1>7, <1>8, <1>9

\* A run that was neither cut by its deadline nor broken by a callback leaves no
\* message between the queue and the context.
THEOREM Injected == Spec => []DequeuedIsInjected
<1>1. Init => PendingInv
  BY DEF Init, PendingInv, Flushed, DequeuedIsInjected
<1>2. TypeOK /\ PendingInv /\ [Next]_vars => PendingInv'
  BY PendingStep
<1>3. PendingInv => DequeuedIsInjected
  BY DEF PendingInv
<1>4. QED
  BY TypeCorrect, <1>1, <1>2, <1>3, PTL DEF Spec

-----------------------------------------------------------------------------
\* Exactly once, in order.

Increasing(s) == \A m, n \in DOMAIN s : m < n => s[m] < s[n]
Elements(s) == {s[m] : m \in DOMAIN s}

LEMMA Associative ==
  ASSUME NEW s \in Seq(Nat), NEW t \in Seq(Nat), NEW u \in Seq(Nat)
  PROVE  (s \o t) \o u = s \o (t \o u)
  OBVIOUS

LEMMA AppendLarger ==
  ASSUME NEW s \in Seq(Nat), NEW e \in Nat, Increasing(s), \A x \in Elements(s) : x < e
  PROVE  Increasing(Append(s, e)) /\ Elements(Append(s, e)) = Elements(s) \cup {e}
<1> DEFINE t == Append(s, e)
<1>1. /\ t \in Seq(Nat) /\ Len(t) = Len(s) + 1 /\ t[Len(s) + 1] = e
      /\ \A i \in 1..Len(s) : t[i] = s[i]
      /\ DOMAIN s = 1..Len(s) /\ DOMAIN t = 1..Len(s) + 1 /\ Len(s) \in Nat
  BY AppendProperties, LenProperties
<1> HIDE DEF t
<1>2. \A i \in DOMAIN s : s[i] \in Nat /\ s[i] < e
  BY ElementOfSeq, <1>1 DEF Elements
<1>3. Increasing(t)
  <2>1. SUFFICES ASSUME NEW m \in 1..Len(s) + 1, NEW n \in 1..Len(s) + 1, m < n
                 PROVE  t[m] < t[n]
    BY <1>1 DEF Increasing
  <2>2. m \in 1..Len(s) /\ (n \in 1..Len(s) \/ n = Len(s) + 1)
    <3>1. Len(s) \in Nat
      BY <1>1
    <3>2. QED
      BY <2>1, <3>1
  <2>3. QED
    BY <1>1, <1>2, <2>1, <2>2 DEF Increasing
<1>4. Elements(t) = Elements(s) \cup {e}
  <2>1. ASSUME NEW x \in Elements(t)
        PROVE  x \in Elements(s) \cup {e}
    <3>1. PICK m \in 1..Len(s) + 1 : x = t[m]
      BY <1>1, <2>1 DEF Elements
    <3>2. m \in 1..Len(s) \/ m = Len(s) + 1
      BY <1>1, <3>1
    <3>3. QED
      BY <1>1, <3>1, <3>2 DEF Elements
  <2>2. ASSUME NEW x \in Elements(s) \cup {e}
        PROVE  x \in Elements(t)
    <3>1. CASE x = e
      BY <1>1, <3>1 DEF Elements
    <3>2. CASE x \in Elements(s)
      <4>1. PICK m \in 1..Len(s) : x = s[m]
        BY <1>1, <3>2 DEF Elements
      <4>2. m \in 1..Len(s) + 1 /\ x = t[m]
        BY <1>1, <4>1
      <4>3. QED
        BY <1>1, <4>2 DEF Elements
    <3>3. QED
      BY <2>2, <3>1, <3>2
  <2>3. QED
    BY <2>1, <2>2
<1>5. QED
  BY <1>3, <1>4 DEF t

LEMMA DropLargest ==
  ASSUME NEW s \in Seq(Nat), NEW e \in Nat, Increasing(Append(s, e))
  PROVE  Increasing(s) /\ Elements(s) = Elements(Append(s, e)) \ {e}
<1> DEFINE t == Append(s, e)
<1>1. /\ t \in Seq(Nat) /\ Len(t) = Len(s) + 1 /\ t[Len(s) + 1] = e
      /\ \A i \in 1..Len(s) : t[i] = s[i]
      /\ DOMAIN s = 1..Len(s) /\ DOMAIN t = 1..Len(s) + 1 /\ Len(s) \in Nat
  BY AppendProperties, LenProperties
<1>2. Increasing(t)
  OBVIOUS
<1> HIDE DEF t
<1>3. \A m, n \in 1..Len(s) + 1 : m < n => t[m] < t[n]
  BY <1>1, <1>2 DEF Increasing
<1>4. \A i \in 1..Len(s) : s[i] \in Nat /\ s[i] < e
  BY ElementOfSeq, <1>1, <1>3
<1>5. Increasing(s)
  BY <1>1, <1>3 DEF Increasing
<1>6. ASSUME NEW x \in Elements(s)
      PROVE  x \in Elements(t) \ {e}
  <2>1. PICK m \in 1..Len(s) : x = s[m]
    BY <1>1, <1>6 DEF Elements
  <2>2. m \in 1..Len(s) + 1 /\ x = t[m] /\ x # e
    BY <1>1, <1>4, <2>1
  <2>3. QED
    BY <1>1, <2>2 DEF Elements
<1>7. ASSUME NEW x \in Elements(t) \ {e}
      PROVE  x \in Elements(s)
  <2>1. PICK m \in 1..Len(s) + 1 : x = t[m]
    BY <1>1, <1>7 DEF Elements
  <2>2. m \in 1..Len(s)
    BY <1>1, <1>7, <2>1
  <2>3. QED
    BY <1>1, <2>1, <2>2 DEF Elements
<1>8. QED
  BY <1>5, <1>6, <1>7 DEF t

\* Dequeueing and injecting move messages along the line, no more.
LEMMA DequeueLine ==
  ASSUME MessageTypes, NEW j \in Kind, Dequeue(j), context' = context, NEW k \in Kind
  PROVE  Line(k)' = Line(k)
<1>1. PICK n \in Batches(j) :
        /\ pending' = [pending EXCEPT ![j] = @ \o SubSeq(queue[j], 1, n)]
        /\ queue' = [queue EXCEPT ![j] = SubSeq(@, n + 1, Len(@))]
  BY DEF Dequeue
<1>2. CASE k # j
  BY <1>1, <1>2 DEF Line, Taken, MessageTypes
<1>3. CASE k = j
  <2> DEFINE q == queue[k]
             c == context[k]
             p == pending[k]
             a == SubSeq(q, 1, n)
             b == SubSeq(q, n + 1, Len(q))
  <2>1. q \in Seq(Nat) /\ c \in Seq(Nat) /\ p \in Seq(Nat) /\ Len(q) \in Nat
    BY DEF MessageTypes
  <2>2. n \in 0..Len(q)
    BY <1>3, <2>1 DEF Batches
  <2>3. a \in Seq(Nat) /\ b \in Seq(Nat)
    BY <2>1, <2>2
  <2>4. a \o b = q
    <3>1. 1 \in 1..Len(q) + 1 /\ n \in (1 - 1)..Len(q) /\ Len(q) \in n..Len(q)
      BY <2>1, <2>2
    <3>2. SubSeq(q, 1, n) \o SubSeq(q, n + 1, Len(q)) = SubSeq(q, 1, Len(q))
      BY <2>1, <3>1, ConcatAdjacentSubSeq, Zenon
    <3>3. QED
      BY <2>1, <3>2, SubSeqFull
  <2>5. pending'[k] = p \o a /\ queue'[k] = b
    BY <1>1, <1>3 DEF MessageTypes
  <2> HIDE DEF a, b, q, c, p
  <2>6. p \o a \in Seq(Nat) /\ c \o p \in Seq(Nat)
    BY <2>1, <2>3, ConcatProperties
  <2>7. c \o (p \o a) = (c \o p) \o a
    BY <2>1, <2>3, Associative, Zenon
  <2>8. ((c \o p) \o a) \o b = (c \o p) \o (a \o b)
    BY <2>3, <2>6, Associative, Zenon
  <2>9. (c \o (p \o a)) \o b = (c \o p) \o q
    BY <2>4, <2>7, <2>8
  <2>10. QED
    BY <2>5, <2>9 DEF Line, Taken, q, c, p
<1>4. QED
  BY <1>2, <1>3

LEMMA InjectLine ==
  ASSUME MessageTypes, Inject, NEW k \in Kind
  PROVE  Line(k)' = Line(k)
<1>1. context'[k] = context[k] \o pending[k] /\ pending'[k] = <<>> /\ queue' = queue
  BY DEF Inject, Nothing
<1>2. context[k] \o pending[k] \in Seq(Nat)
  BY DEF MessageTypes
<1>3. (context[k] \o pending[k]) \o <<>> = context[k] \o pending[k]
  BY <1>2, ConcatEmptySeq
<1>4. QED
  BY <1>1, <1>3 DEF Line, Taken

OrderInv ==
  \A k \in Kind : /\ Increasing(Line(k))
                  /\ Elements(Line(k)) = (1..sent[k]) \ withdrawn[k]
                  /\ withdrawn[k] \subseteq 1..sent[k]

LEMMA OrderStep ==
  ASSUME TypeOK, OrderInv, [Next]_vars
  PROVE  OrderInv'
<1>0. MessageTypes /\ MessageTypes'
  BY MessageStep DEF TypeOK
<1>1. ASSUME \A k \in Kind : Line(k)' = Line(k), UNCHANGED <<sent, withdrawn>>
      PROVE  OrderInv'
  BY <1>1 DEF OrderInv
<1>2. ASSUME NEW j \in Kind, Send(j)
      PROVE  OrderInv'
  <2>1. /\ queue' = [queue EXCEPT ![j] = Append(@, sent[j] + 1)]
        /\ sent' = [sent EXCEPT ![j] = @ + 1]
        /\ UNCHANGED <<withdrawn, pending, context>>
    BY <1>2 DEF Send
  <2>2. SUFFICES ASSUME NEW k \in Kind
                 PROVE  /\ Increasing(Line(k)')
                        /\ Elements(Line(k)') = (1..sent'[k]) \ withdrawn'[k]
                        /\ withdrawn'[k] \subseteq 1..sent'[k]
    BY DEF OrderInv, Increasing, Elements
  <2>3. CASE k # j
    <3>1. Line(k)' = Line(k) /\ sent'[k] = sent[k] /\ withdrawn'[k] = withdrawn[k]
      BY <1>0, <2>1, <2>3 DEF Line, Taken, MessageTypes
    <3>2. QED
      BY <3>1 DEF OrderInv
  <2>4. CASE k = j
    <3> DEFINE e == sent[k] + 1
               l == Line(k)
    <3>1. sent[k] \in Nat /\ e \in Nat /\ queue[k] \in Seq(Nat) /\ Taken(k) \in Seq(Nat)
      <4>1. sent[k] \in Nat /\ e \in Nat
        <5>1. sent[k] \in 0..Sends
          BY <1>0 DEF MessageTypes
        <5>2. QED
          BY <5>1, BoundsAssumption
      <4>2. context[k] \in Seq(Nat) /\ pending[k] \in Seq(Nat) /\ queue[k] \in Seq(Nat)
        BY <1>0 DEF MessageTypes
      <4>3. QED
        BY <4>1, <4>2 DEF Taken
    <3>2. l \in Seq(Nat)
      BY <3>1, ConcatProperties DEF Line
    <3>3. Line(k)' = Append(l, e)
      <4>1. Line(k)' = Taken(k) \o Append(queue[k], e)
        BY <1>0, <2>1, <2>4 DEF Line, Taken, MessageTypes
      <4>2. Append(queue[k], e) = queue[k] \o <<e>> /\ Append(l, e) = l \o <<e>>
        BY <3>1, <3>2, AppendIsConcat
      <4>3. <<e>> \in Seq(Nat)
        BY <3>1
      <4>4. (Taken(k) \o queue[k]) \o <<e>> = Taken(k) \o (queue[k] \o <<e>>)
        BY <3>1, <4>3, Associative, Zenon
      <4>5. QED
        BY <4>1, <4>2, <4>4 DEF Line
    <3>4. /\ Increasing(l) /\ Elements(l) = (1..sent[k]) \ withdrawn[k]
          /\ withdrawn[k] \subseteq 1..sent[k]
      BY DEF OrderInv
    <3>5. sent'[k] = e /\ withdrawn'[k] = withdrawn[k]
      BY <1>0, <2>1, <2>4 DEF MessageTypes
    <3> HIDE DEF l
    <3>6. \A x \in Elements(l) : x < e
      BY <3>1, <3>4
    <3>7. Increasing(Append(l, e)) /\ Elements(Append(l, e)) = Elements(l) \cup {e}
      BY <3>1, <3>2, <3>4, <3>6, AppendLarger
    <3>8. ((1..sent[k]) \ withdrawn[k]) \cup {e} = (1..e) \ withdrawn[k]
      BY <3>1, <3>4
    <3>9. withdrawn[k] \subseteq 1..e
      BY <3>1, <3>4
    <3>10. QED
      BY <3>3, <3>4, <3>5, <3>7, <3>8, <3>9
  <2>5. QED
    BY <2>3, <2>4
<1>3. ASSUME NEW j \in Kind, Withdraw(j)
      PROVE  OrderInv'
  <2>1. /\ queue[j] # <<>>
        /\ withdrawn' = [withdrawn EXCEPT ![j] = @ \cup {queue[j][Len(queue[j])]}]
        /\ queue' = [queue EXCEPT ![j] = SubSeq(@, 1, Len(@) - 1)]
        /\ UNCHANGED <<sent, pending, context>>
    BY <1>3 DEF Withdraw
  <2>2. SUFFICES ASSUME NEW k \in Kind
                 PROVE  /\ Increasing(Line(k)')
                        /\ Elements(Line(k)') = (1..sent'[k]) \ withdrawn'[k]
                        /\ withdrawn'[k] \subseteq 1..sent'[k]
    BY DEF OrderInv, Increasing, Elements
  <2>3. CASE k # j
    <3>1. Line(k)' = Line(k) /\ sent'[k] = sent[k] /\ withdrawn'[k] = withdrawn[k]
      BY <1>0, <2>1, <2>3 DEF Line, Taken, MessageTypes
    <3>2. QED
      BY <3>1 DEF OrderInv
  <2>4. CASE k = j
    <3> DEFINE q == queue[k]
               f == SubSeq(q, 1, Len(q) - 1)
               e == q[Len(q)]
               t == Taken(k)
    <3>1. q \in Seq(Nat) /\ t \in Seq(Nat) /\ q # <<>>
      BY <1>0, <2>1, <2>4 DEF MessageTypes, Taken
    <3>2. Len(q) \in Nat /\ Len(q) \in 1..Len(q)
      BY <3>1, EmptySeq, LenProperties
    <3>3. f \in Seq(Nat) /\ e \in Nat
      BY <3>1, <3>2, ElementOfSeq
    <3>4. q = f \o <<e>>
      <4>1. SubSeq(q, 1, Len(q)) = SubSeq(q, 1, Len(q) - 1) \o <<q[Len(q)]>>
        BY <3>1, <3>2, SubSeqRecursiveSecond
      <4>2. QED
        BY <3>1, <4>1, SubSeqFull
    <3>5. Line(k)' = t \o f /\ sent'[k] = sent[k] /\ withdrawn'[k] = withdrawn[k] \cup {e}
      BY <1>0, <2>1, <2>4 DEF Line, Taken, MessageTypes
    <3>6. Line(k) = t \o q
      BY DEF Line
    <3> HIDE DEF q, f, e, t
    <3>7. t \o f \in Seq(Nat) /\ <<e>> \in Seq(Nat)
      BY <3>1, <3>3, ConcatProperties
    <3>8. Line(k) = Append(t \o f, e)
      <4>1. (t \o f) \o <<e>> = t \o (f \o <<e>>)
        BY <3>1, <3>3, <3>7, Associative, Zenon
      <4>2. Append(t \o f, e) = (t \o f) \o <<e>>
        BY <3>3, <3>7, AppendIsConcat
      <4>3. QED
        BY <3>4, <3>6, <4>1, <4>2
    <3>9. /\ Increasing(Line(k)) /\ Elements(Line(k)) = (1..sent[k]) \ withdrawn[k]
          /\ withdrawn[k] \subseteq 1..sent[k]
      BY DEF OrderInv
    <3>10. Increasing(t \o f) /\ Elements(t \o f) = Elements(Line(k)) \ {e}
      <4>1. Increasing(Append(t \o f, e))
        BY <3>8, <3>9
      <4>2. Increasing(t \o f) /\ Elements(t \o f) = Elements(Append(t \o f, e)) \ {e}
        BY <3>3, <3>7, <4>1, DropLargest
      <4>3. QED
        BY <3>8, <4>2
    <3>11. e \in Elements(Line(k))
      <4>1. e = Append(t \o f, e)[Len(t \o f) + 1] /\ Len(t \o f) + 1 \in DOMAIN Append(t \o f, e)
        BY <3>3, <3>7, AppendProperties, LenProperties
      <4>2. QED
        BY <3>8, <4>1 DEF Elements
    <3>12. QED
      BY <3>5, <3>9, <3>10, <3>11
  <2>5. QED
    BY <2>3, <2>4
<1>4. CASE Inject
  BY <1>0, <1>1, <1>4, InjectLine DEF Inject
<1>5. CASE Start \/ EndTurn \/ PollAsides \/ YieldSteering \/ YieldAsides \/ YieldFollowUps
  <2>1. /\ UNCHANGED <<sent, withdrawn, context>>
        /\ (\E j \in Kind : Dequeue(j)) \/ UNCHANGED <<queue, pending>>
    BY <1>5 DEF Start, EndTurn, PollAsides, YieldSteering, YieldAsides, YieldFollowUps,
                Poll, Kind, messages
  <2>2. \A k \in Kind : Line(k)' = Line(k)
    BY <1>0, <2>1, DequeueLine DEF Line, Taken
  <2>3. QED
    BY <1>1, <2>1, <2>2
<1>6. CASE UNCHANGED messages
  BY <1>1, <1>6 DEF messages, Line, Taken
<1>7. Reply \/ CutShort \/ LeakResume => UNCHANGED messages
  BY ReplyStep DEF Handle
<1>8. ASSUME \/ Abort \/ DeadlineTimer \/ TerminalResult \/ Expire \/ TogglePause \/ Top
             \/ Sample \/ LeakRetry \/ SampleThrows \/ ToolsReturn \/ Decide
             \/ CallbackThrows \/ UNCHANGED vars
      PROVE  UNCHANGED messages
  BY <1>8 DEF Abort, DeadlineTimer, TerminalResult, AbortBy, Expire, TogglePause, Top,
              Sample, LeakRetry, SampleThrows, ToolsReturn, Decide, CallbackThrows, vars
<1>9. QED
  BY StepCases, <1>2, <1>3, <1>4, <1>5, <1>6, <1>7, <1>8

\* However queueing, withdrawing, polling, injecting and aborting interleave,
\* every message is in one place only and none overtakes an earlier one.
THEOREM ExactlyOnce == Spec => []ExactlyOnceInOrder
<1>1. Init => OrderInv
  <2>1. ASSUME Init, NEW k \in Kind
        PROVE  /\ Line(k) = <<>> /\ sent[k] = 0 /\ withdrawn[k] = {}
    BY <2>1 DEF Init, Line, Taken, Nothing
  <2>2. Increasing(<<>>) /\ Elements(<<>>) = {} /\ (1..0) = {}
    BY DEF Increasing, Elements
  <2>3. QED
    BY <2>1, <2>2 DEF OrderInv
<1>2. TypeOK /\ OrderInv /\ [Next]_vars => OrderInv'
  BY OrderStep
<1>3. OrderInv => ExactlyOnceInOrder
  BY DEF OrderInv, ExactlyOnceInOrder, Increasing, Elements
<1>4. QED
  BY TypeCorrect, <1>1, <1>2, <1>3, PTL DEF Spec

-----------------------------------------------------------------------------
\* The yield point.

\* What waits in the queue of a kind came after the run's last yield point.
Late(k) == \A m \in DOMAIN queue[k] : queue[k][m] > mark[k]
\* A poll that leaves earlier messages behind has taken one.
Drained(k) == pending[k] # <<>> \/ Late(k)

\* Each of the three polls of the yield point drains its own queue, and the
\* run ends only if none of them took anything.
YieldInv ==
  /\ \A k \in Kind : mark[k] <= sent[k]
  /\ ~Aborted => /\ pc \in {"yieldAsides", "yieldFollow", "decide"} => Drained("steer")
                 /\ pc \in {"yieldFollow", "decide"} => Drained("aside")
                 /\ pc = "decide" => Drained("follow")
                 /\ how = "done" => \A k \in Kind : Late(k)

LEMMA LongerByConcat ==
  ASSUME NEW s \in Seq(Nat), NEW t \in Seq(Nat), Len(t) # 0
  PROVE  s \o t # <<>>
<1>1. Len(s) \in Nat /\ Len(t) \in Nat /\ Len(s \o t) = Len(s) + Len(t)
  BY LenProperties, ConcatProperties
<1>2. Len(s \o t) # 0
  BY <1>1
<1> QED
  BY <1>2, EmptySeq

LEMMA DequeueDrains ==
  ASSUME MessageTypes, NEW k \in Kind, Dequeue(k)
  PROVE  pending'[k] # <<>> \/ queue'[k] = <<>>
<1>1. PICK n \in Batches(k) :
        /\ pending' = [pending EXCEPT ![k] = @ \o SubSeq(queue[k], 1, n)]
        /\ queue' = [queue EXCEPT ![k] = SubSeq(@, n + 1, Len(@))]
  BY DEF Dequeue
<1>2. queue[k] \in Seq(Nat) /\ pending[k] \in Seq(Nat) /\ Len(queue[k]) \in Nat
  BY DEF MessageTypes
<1>3. n \in 0..Len(queue[k]) /\ (n = 0 => Len(queue[k]) = 0)
  BY <1>2 DEF Batches
<1>4. pending'[k] = pending[k] \o SubSeq(queue[k], 1, n) /\ queue'[k] = SubSeq(queue[k], n + 1, Len(queue[k]))
  BY <1>1 DEF MessageTypes
<1>5. CASE n = 0
  BY <1>2, <1>3, <1>4, <1>5
<1>6. CASE n # 0
  <2>1. SubSeq(queue[k], 1, n) \in Seq(Nat) /\ Len(SubSeq(queue[k], 1, n)) = n
    BY <1>2, <1>3
  <2>2. pending[k] \o SubSeq(queue[k], 1, n) # <<>>
    BY <1>2, <1>3, <1>6, <2>1, LongerByConcat
  <2> QED
    BY <1>4, <2>2
<1> QED
  BY <1>5, <1>6

\* Queueing adds only later messages, withdrawing only removes.
LEMMA SendLate ==
  ASSUME MessageTypes, YieldInv, NEW j \in Kind, Send(j), NEW k \in Kind, Late(k)
  PROVE  Late(k)'
<1>1. /\ queue' = [queue EXCEPT ![j] = Append(@, sent[j] + 1)]
      /\ UNCHANGED mark
  BY DEF Send
<1>2. queue[k] \in Seq(Nat) /\ sent[k] \in Nat /\ mark[k] \in Nat /\ mark[k] <= sent[k]
  BY BoundsAssumption DEF MessageTypes, YieldInv
<1>3. CASE k # j
  BY <1>1, <1>3 DEF Late, MessageTypes
<1>4. CASE k = j
  <2>1. queue'[k] = Append(queue[k], sent[k] + 1)
    BY <1>1, <1>4 DEF MessageTypes
  <2>2. SUFFICES ASSUME NEW m \in DOMAIN Append(queue[k], sent[k] + 1)
                 PROVE  Append(queue[k], sent[k] + 1)[m] > mark[k]
    BY <1>1, <2>1 DEF Late
  <2>3. m \in DOMAIN queue[k] \/ m = Len(queue[k]) + 1
    BY <1>2, <2>2
  <2>4. CASE m \in DOMAIN queue[k]
    BY <1>2, <2>4 DEF Late
  <2>5. CASE m = Len(queue[k]) + 1
    BY <1>2, <2>5
  <2> QED
    BY <2>3, <2>4, <2>5
<1> QED
  BY <1>3, <1>4

LEMMA WithdrawLate ==
  ASSUME MessageTypes, NEW j \in Kind, Withdraw(j), NEW k \in Kind, Late(k)
  PROVE  Late(k)'
<1>1. queue' = [queue EXCEPT ![j] = SubSeq(@, 1, Len(@) - 1)] /\ UNCHANGED mark
  BY DEF Withdraw
<1>2. queue[k] \in Seq(Nat)
  BY DEF MessageTypes
<1>3. CASE k # j
  BY <1>1, <1>3 DEF Late, MessageTypes
<1>4. CASE k = j
  <2>1. queue'[k] = SubSeq(queue[k], 1, Len(queue[k]) - 1)
    BY <1>1, <1>4 DEF MessageTypes
  <2>2. \A m \in DOMAIN queue'[k] : m \in DOMAIN queue[k] /\ queue'[k][m] = queue[k][m]
    BY <1>2, <2>1
  <2> QED
    BY <1>1, <2>2 DEF Late
<1> QED
  BY <1>3, <1>4

\* A poll of one kind drains that kind, and leaves the others as they were.
LEMMA PollDrains ==
  ASSUME MessageTypes, NEW j \in Kind, Poll(j), ~Aborted
  PROVE  /\ Drained(j)'
         /\ \A k \in Kind \ {j} : queue'[k] = queue[k] /\ pending'[k] = pending[k]
<1>1. Dequeue(j)
  BY DEF Poll
<1>2. pending'[j] # <<>> \/ queue'[j] = <<>>
  BY <1>1, DequeueDrains
<1>3. \A k \in Kind \ {j} : queue'[k] = queue[k] /\ pending'[k] = pending[k]
  BY <1>1 DEF Dequeue, MessageTypes
<1> QED
  BY <1>2, <1>3 DEF Drained, Late

LEMMA YieldStep ==
  ASSUME TypeOK, YieldInv, [Next]_vars
  PROVE  YieldInv'
<1>0. MessageTypes /\ (~Aborted' => ~Aborted) /\ (how # "none" <=> pc = "ended")
  BY SignalStep DEF TypeOK, ControlTypes
<1>1. ASSUME \A k \in Kind : Late(k) => Late(k)', UNCHANGED <<pending, pc, how>>,
             \A k \in Kind : mark'[k] <= sent'[k]
      PROVE  YieldInv'
  BY <1>0, <1>1 DEF YieldInv, Drained, Kind
<1>2. ASSUME pc' \notin {"yieldAsides", "yieldFollow", "decide"}, how' # "done",
             UNCHANGED <<mark, sent>>
      PROVE  YieldInv'
  BY <1>2 DEF YieldInv
<1>3. ASSUME NEW j \in Kind, Send(j)
      PROVE  YieldInv'
  <2>1. UNCHANGED <<pending, pc, how, mark>> /\ sent' = [sent EXCEPT ![j] = @ + 1]
    BY <1>3 DEF Send
  <2>2. \A k \in Kind : sent[k] \in Nat /\ mark[k] \in Nat /\ mark[k] <= sent[k]
    BY <1>0, BoundsAssumption DEF MessageTypes, YieldInv
  <2>3. \A k \in Kind : sent'[k] = IF k = j THEN sent[k] + 1 ELSE sent[k]
    BY <1>0, <2>1 DEF MessageTypes
  <2>4. \A k \in Kind : mark'[k] <= sent'[k]
    BY <2>1, <2>2, <2>3
  <2> QED
    BY <1>0, <1>1, <1>3, <2>1, <2>4, SendLate
<1>4. ASSUME NEW j \in Kind, Withdraw(j)
      PROVE  YieldInv'
  <2>1. UNCHANGED <<pending, pc, how, mark, sent>>
    BY <1>4 DEF Withdraw
  <2> QED
    BY <1>0, <1>1, <1>4, <2>1, WithdrawLate DEF YieldInv
<1>5. ASSUME Abort \/ DeadlineTimer \/ TerminalResult \/ Expire \/ TogglePause \/ UNCHANGED vars
      PROVE  YieldInv'
  <2>1. UNCHANGED <<messages, pc, how, mark>>
    BY <1>5 DEF Abort, DeadlineTimer, TerminalResult, AbortBy, Expire, TogglePause, vars
  <2> QED
    BY <1>1, <2>1 DEF messages, Late, YieldInv
<1>6. ASSUME Reply \/ CutShort \/ LeakResume
      PROVE  YieldInv'
  <2>1. UNCHANGED <<messages, mark>>
    BY <1>6, ReplyStep DEF Handle
  <2>2. pc' \in {"ended", "turnEnd", "tools"} /\ how' # "done"
    <3>1. how = "none"
      BY <1>0, <1>6 DEF Reply, CutShort, LeakResume
    <3>2. CASE End("failed")
      BY <3>2 DEF End
    <3>3. ASSUME NEW stop \in Stops, NEW called \in Called, Handle(stop, called)
          PROVE  pc' \in {"ended", "turnEnd", "tools"} /\ how' # "done"
      BY <3>1, <3>3, HandleCases DEF Refuse, Run, Settle, End, Goto
    <3> QED
      BY <1>6, <3>2, <3>3, ReplyStep
  <2> QED
    BY <1>2, <2>1, <2>2 DEF messages
<1>7. ASSUME Start \/ Top \/ Inject \/ Sample \/ LeakRetry \/ SampleThrows \/ ToolsReturn
             \/ EndTurn \/ PollAsides \/ CallbackThrows
      PROVE  YieldInv'
  <2>1. UNCHANGED <<mark, sent>>
    BY <1>7 DEF Start, Top, Inject, Sample, LeakRetry, SampleThrows, ToolsReturn, EndTurn, PollAsides,
                CallbackThrows, Poll, messages
  <2>2. pc' \notin {"yieldAsides", "yieldFollow", "decide"} /\ how' # "done"
    BY <1>0, <1>7 DEF Start, Top, Inject, Sample, LeakRetry, SampleThrows, ToolsReturn, EndTurn, PollAsides,
                CallbackThrows, End, Goto
  <2> QED
    BY <1>2, <2>1, <2>2
<1>8. CASE YieldSteering
  <2>1. CASE expired
    BY <1>2, <1>8, <2>1 DEF YieldSteering, End, messages
  <2>2. CASE ~expired
    <3>1. /\ pc' = "yieldAsides" /\ how' = "none" /\ mark' = sent /\ sent' = sent /\ Poll("steer")
          /\ Aborted' = Aborted
      BY <1>0, <1>8, <2>2 DEF YieldSteering, Goto, Poll, signals, Aborted
    <3>2. ~Aborted => Drained("steer")'
      BY <1>0, <3>1, PollDrains DEF Kind
    <3>3. \A k \in Kind : mark'[k] <= sent'[k]
      <4>1. \A k \in Kind : sent[k] \in Nat
        BY <1>0, BoundsAssumption DEF MessageTypes
      <4> QED
        BY <3>1, <4>1
    <3> QED
      BY <3>1, <3>2, <3>3 DEF YieldInv
  <2> QED
    BY <2>1, <2>2
<1>9. CASE YieldAsides
  <2>1. /\ pc = "yieldAsides" /\ pc' = "yieldFollow" /\ how' = "none" /\ UNCHANGED <<mark, sent>> /\ Poll("aside")
        /\ Aborted' = Aborted
    BY <1>0, <1>9 DEF YieldAsides, Goto, Poll, signals, Aborted
  <2>2. ~Aborted => Drained("aside")' /\ Drained("steer")'
    BY <1>0, <2>1, PollDrains DEF YieldInv, Drained, Late, Kind
  <2> QED
    BY <2>1, <2>2 DEF YieldInv
<1>10. CASE YieldFollowUps
  <2>1. /\ pc = "yieldFollow" /\ pc' = "decide" /\ how' = "none" /\ UNCHANGED <<mark, sent>> /\ Poll("follow")
        /\ Aborted' = Aborted
    BY <1>0, <1>10 DEF YieldFollowUps, Goto, Poll, signals, Aborted
  <2>2. ~Aborted => Drained("follow")' /\ Drained("aside")' /\ Drained("steer")'
    BY <1>0, <2>1, PollDrains DEF YieldInv, Drained, Late, Kind
  <2> QED
    BY <2>1, <2>2 DEF YieldInv
<1>11. CASE Decide
  <2>1. pc = "decide" /\ pc' \in {"top", "ended"} /\ UNCHANGED <<messages, mark>>
    BY <1>11 DEF Decide, Goto, End
  <2>2. CASE HasPending
    BY <1>0, <1>2, <1>11, <2>1, <2>2 DEF Decide, Goto, messages
  <2>3. CASE ~HasPending
    <3>1. \A k \in Kind : pending[k] = <<>>
      BY <2>3 DEF HasPending, Nothing
    <3>2. ~Aborted => \A k \in Kind : Late(k)
      BY <2>1, <3>1 DEF YieldInv, Drained, Kind
    <3>3. ~Aborted' => \A k \in Kind : Late(k)'
      BY <1>0, <2>1, <3>2 DEF Late, messages
    <3> QED
      BY <2>1, <3>3 DEF YieldInv, messages
  <2> QED
    BY <2>2, <2>3
<1> QED
  BY StepCases, <1>3, <1>4, <1>5, <1>6, <1>7, <1>8, <1>9, <1>10, <1>11

\* A run that ends by itself leaves in the queues only what arrived after its
\* last yield point: whichever mode the queues are in, each of the three polls
\* there either empties its queue or takes a message that keeps the run going.
THEOREM YieldStrandsNothing == Spec => []YieldDrains
<1>1. Init => YieldInv
  BY DEF Init, YieldInv
<1>2. TypeOK /\ YieldInv /\ [Next]_vars => YieldInv'
  BY YieldStep
<1>3. YieldInv => YieldDrains
  BY DEF YieldInv, YieldDrains, Late
<1> QED
  BY TypeCorrect, <1>1, <1>2, <1>3, PTL DEF Spec
=============================================================================
