-------------------------- MODULE ToolBatchProofs --------------------------
(***************************************************************************)
(* Proofs about ToolBatch, for a batch of any number of calls.             *)
(***************************************************************************)
EXTENDS ToolBatch, TLAPS

\* Next with the disjuncts that only regroup actions opened.
LEMMA StepCases ==
  ASSUME [Next]_vars
  PROVE  \/ Environment \/ Schedule \/ WatchTick \/ AllSettled \/ Sweep
         \/ \E i \in Call : \/ SkipCall(i) \/ ParkCall(i) \/ StartCall(i)
                            \/ UnparkCall(i) \/ RejectCall(i) \/ HookBlocks(i)
                            \/ HookAllows(i) \/ ToolReturns(i) \/ ToolThrows(i)
                            \/ AfterHook(i) \/ FinishCall(i)
         \/ \E p \in Checker : \/ SteeringFound(p) \/ SteeringNotFound(p)
                               \/ IrcAnswered(p) \/ CallbackRejects(p)
         \/ UNCHANGED vars
  BY DEF Next, RunTool, CheckSteering

-----------------------------------------------------------------------------
\* Type correctness, flags and the rest apart.

LEMMA FlagStep ==
  ASSUME FlagTypes, [Next]_vars
  PROVE  FlagTypes'
<1> USE DEF FlagTypes, config, env, queues, interrupts
<1>1. CASE Environment
  BY <1>1 DEF Environment, QueueSteering, QueueIrc, AbortRun, TogglePause
<1>2. CASE Schedule \/ WatchTick \/ AllSettled \/ Sweep
  BY <1>2 DEF Schedule, WatchTick, AllSettled, Sweep
<1>3. ASSUME NEW i \in Call, SkipCall(i) \/ ParkCall(i) \/ StartCall(i)
                \/ UnparkCall(i) \/ RejectCall(i) \/ HookBlocks(i)
      PROVE  FlagTypes'
  BY <1>3 DEF SkipCall, ParkCall, StartCall, UnparkCall, RejectCall, HookBlocks
<1>4. ASSUME NEW i \in Call, HookAllows(i) \/ ToolReturns(i) \/ ToolThrows(i)
                \/ AfterHook(i) \/ FinishCall(i)
      PROVE  FlagTypes'
  BY <1>4 DEF HookAllows, ToolReturns, ToolThrows, AfterHook, FinishCall
<1>5. ASSUME NEW p \in Checker, SteeringFound(p) \/ SteeringNotFound(p)
                \/ IrcAnswered(p) \/ CallbackRejects(p)
      PROVE  FlagTypes'
  BY <1>5 DEF SteeringFound, SteeringNotFound, IrcAnswered, CallbackRejects
<1>6. CASE UNCHANGED vars
  BY <1>6 DEF vars
<1>7. QED
  BY StepCases, <1>1, <1>2, <1>3, <1>4, <1>5, <1>6

\* Reporting a result keeps the results and their order well typed.
LEMMA EmitTypes ==
  ASSUME StateTypes, NEW i \in Call, NEW kind \in Results \cup {"none"}, Emit(i, kind)
  PROVE  result' \in [Call -> Results \cup {"none"}] /\ emitted' \in Seq(Call)
  BY DEF Emit, StateTypes

LEMMA StateStep ==
  ASSUME StateTypes, [Next]_vars
  PROVE  StateTypes'
<1> USE DEF StateTypes, config, env, plan, interrupts
<1>1. CASE Environment
  BY <1>1 DEF Environment, QueueSteering, QueueIrc, AbortRun, TogglePause, queues
<1>2. CASE Schedule
  <2>1. /\ deps' \in [Call -> SUBSET Call]
        /\ lastExclusive' \in SUBSET Call
        /\ sharedTasks' \in SUBSET Call
    BY <1>2 DEF Schedule
  <2>2. /\ cursor' \in 1..N+1 /\ phase' \in Phases
        /\ phase' \in {"scheduling", "sweeping"} => cursor' \in Call
    <3>1. cursor \in 1..N
      BY <1>2 DEF Schedule, Call
    <3>2. QED
      BY <1>2, <3>1, NAssumption DEF Schedule, Call, Phases
  <2>3. pc' \in [Call -> Locations]
    BY <1>2 DEF Schedule, Goto, Locations
  <2>4. QED
    BY <1>2, <2>1, <2>2, <2>3 DEF Schedule
<1>3. CASE WatchTick
  BY <1>3 DEF WatchTick, AskSteering, Answers
<1>4. CASE AllSettled
  BY <1>4, NAssumption DEF AllSettled, Phases, Call
<1>5. CASE Sweep
  <2>1. /\ cursor' \in 1..N+1 /\ phase' \in Phases
        /\ phase' \in {"scheduling", "sweeping"} => cursor' \in Call
    <3>1. cursor \in 1..N
      BY <1>5 DEF Sweep, Call
    <3>2. QED
      BY <1>5, <3>1, NAssumption DEF Sweep, Call, Phases
  <2>2. result' \in [Call -> Results \cup {"none"}] /\ emitted' \in Seq(Call)
    BY <1>5, EmitTypes DEF Sweep, Results
  <2>3. QED
    BY <1>5, <2>1, <2>2 DEF Sweep
<1>6. ASSUME NEW i \in Call, SkipCall(i) \/ ParkCall(i) \/ RejectCall(i)
      PROVE  StateTypes'
  BY <1>6 DEF SkipCall, ParkCall, RejectCall, Goto, Locations, Settled
<1>7. ASSUME NEW i \in Call, Enter(i), UNCHANGED <<config, env, plan, outcome, interrupts, check>>
      PROVE  StateTypes'
  <2>1. pc' \in [Call -> Locations] /\ started' \in SUBSET Call
    BY <1>7 DEF Enter, Goto, Locations, Settled
  <2>2. result' \in [Call -> Results \cup {"none"}] /\ emitted' \in Seq(Call)
    BY <1>7, EmitTypes DEF Enter, Results
  <2>3. QED
    BY <1>7, <2>1, <2>2
<1>8. ASSUME NEW i \in Call, HookBlocks(i) \/ HookAllows(i) \/ ToolReturns(i)
                \/ ToolThrows(i) \/ AfterHook(i)
      PROVE  StateTypes'
  <2>1. pc' \in [Call -> Locations]
    BY <1>8 DEF HookBlocks, HookAllows, ToolReturns, ToolThrows, AfterHook, Goto, Locations
  <2>2. outcome' \in [Call -> {"none", "ok", "error", "aborted"}]
    BY <1>8 DEF HookBlocks, HookAllows, ToolReturns, ToolThrows, AfterHook
  <2>3. QED
    BY <1>8, <2>1, <2>2 DEF HookBlocks, HookAllows, ToolReturns, ToolThrows, AfterHook
<1>9. ASSUME NEW i \in Call, FinishCall(i)
      PROVE  StateTypes'
  <2>1. pc' \in [Call -> Locations]
    BY <1>9 DEF FinishCall, Goto, Locations, Settled
  <2>2. check' \in [Checker -> Answers]
    BY <1>9 DEF FinishCall, AskSteering, Answers
  <2>3. result' \in [Call -> Results \cup {"none"}] /\ emitted' \in Seq(Call)
    BY <1>9, EmitTypes DEF FinishCall, Results
  <2>4. QED
    BY <1>9, <2>1, <2>2, <2>3 DEF FinishCall
<1>10. ASSUME NEW p \in Checker, SteeringFound(p) \/ SteeringNotFound(p)
                \/ IrcAnswered(p) \/ CallbackRejects(p)
       PROVE  StateTypes'
  <2>1. pc' \in [Call -> Locations]
    BY <1>10 DEF SteeringFound, SteeringNotFound, IrcAnswered, CallbackRejects,
                 LeaveCheck, Locations, Settled, Checker
  <2>2. check' \in [Checker -> Answers]
    BY <1>10 DEF SteeringFound, SteeringNotFound, IrcAnswered, CallbackRejects,
                 LeaveCheck, Answers
  <2>3. QED
    BY <1>10, <2>1, <2>2 DEF SteeringFound, SteeringNotFound, IrcAnswered, CallbackRejects
<1>11. CASE UNCHANGED vars
  BY <1>11 DEF vars
<1>12. QED
  BY StepCases, <1>1, <1>2, <1>3, <1>4, <1>5, <1>6, <1>7, <1>8, <1>9, <1>10, <1>11
     DEF StartCall, UnparkCall

LEMMA InitTypes == Init => TypeOK
<1>1. Init => FlagTypes
  BY DEF Init, FlagTypes
<1>2. Init => StateTypes
  BY NAssumption DEF Init, StateTypes, Phases, Call, Locations, Answers
<1>3. QED
  BY <1>1, <1>2 DEF TypeOK

\* Every variable of executeToolCalls stays in its range, in every behaviour
\* of a batch of any size.
THEOREM TypeCorrect == Spec => []TypeOK
<1>1. Init => TypeOK
  BY InitTypes
<1>2. TypeOK /\ [Next]_vars => TypeOK'
  BY FlagStep, StateStep DEF TypeOK
<1>3. QED
  BY <1>1, <1>2, PTL DEF Spec

-----------------------------------------------------------------------------
\* The promise chain.  While the loop runs, every call already chained is the
\* last exclusive one, precedes it, or is a shared one after it; so every
\* conflicting earlier call is a dependency or lies behind one.

Chained ==
  /\ \A i \in Call : phase = "scheduling" =>
       pc[i] = IF i < cursor THEN "scheduled" ELSE "unscheduled"
  /\ \A i \in Call : phase # "scheduling" => pc[i] # "unscheduled"
  /\ lastExclusive \subseteq exclusive
  /\ sharedTasks \cap exclusive = {}
  /\ phase = "scheduling" =>
       /\ \A k \in lastExclusive : k < cursor
       /\ \A i \in Call : i < cursor =>
            i \in lastExclusive \cup sharedTasks \/ \E k \in lastExclusive : i < k

Covered ==
  \A i, j \in Call :
    i < j /\ Conflict(i, j) /\ pc[j] # "unscheduled" =>
      i \in deps[j] \/ \E k \in deps[j] : k \in exclusive /\ i < k /\ k < j

\* runTool of the call has begun, and its start promise was not rejected.
Entered(j) == Active(j) \/ pc[j] = "fulfilled" \/ j \in started

Serial ==
  \A i, j \in Call : i < j /\ Conflict(i, j) /\ Entered(j) => pc[i] = "fulfilled"

\* The calls that wait inside checkSteering are the ones it will settle.
Asking == \A p \in Call : check[p] # "off" => pc[p] = "checking"

Before == {"unscheduled", "scheduled", "parked"}
Inside == {"hook", "executing", "after", "finishing", "checking"}

\* A call is started when runTool has passed its abort check.
StartedInside ==
  \A i \in Call : /\ pc[i] \in Before => i \notin started
                  /\ pc[i] \in Inside => i \in started

\* What a step may do to the places of the calls: nothing, or move one call.
Still ==
  /\ UNCHANGED <<exclusive, deps, lastExclusive, sharedTasks, pc, started>>
  /\ phase = "scheduling" => phase' = "scheduling" /\ cursor' = cursor
  /\ phase # "scheduling" => phase' # "scheduling"

Starts(i) ==
  /\ Startable(i)
  /\ \/ Goto(i, "parked") /\ started' = started
     \/ Goto(i, "fulfilled") /\ started' = started
     \/ Goto(i, "hook") /\ started' = started \cup {i}

Unparks(i) ==
  /\ pc[i] = "parked"
  /\ \/ Goto(i, "fulfilled") /\ started' = started
     \/ Goto(i, "hook") /\ started' = started \cup {i}

Moves(i) ==
  /\ pc[i] \in Inside
  /\ \E l \in Inside \cup Settled : Goto(i, l)
  /\ started' = started

Rejects(i) ==
  /\ phase = "running" /\ pc[i] = "scheduled"
  /\ Goto(i, "rejected") /\ started' = started

Placed(i) ==
  /\ UNCHANGED <<exclusive, deps, lastExclusive, sharedTasks, phase, cursor>>
  /\ Starts(i) \/ Unparks(i) \/ Moves(i) \/ Rejects(i)

LEMMA StepKinds ==
  ASSUME TypeOK, Asking, [Next]_vars
  PROVE  Schedule \/ Still \/ \E i \in Call : Placed(i)
<1> USE DEF config, env, plan, queues, interrupts
<1>1. CASE Environment
  BY <1>1 DEF Environment, QueueSteering, QueueIrc, AbortRun, TogglePause, Still
<1>2. CASE WatchTick \/ AllSettled \/ Sweep
  BY <1>2 DEF WatchTick, AllSettled, Sweep, Still
<1>3. ASSUME NEW i \in Call, SkipCall(i) \/ ParkCall(i) \/ StartCall(i) \/ UnparkCall(i)
      PROVE  Placed(i)
  BY <1>3 DEF SkipCall, ParkCall, StartCall, UnparkCall, Enter, Placed, Starts, Unparks
<1>4. ASSUME NEW i \in Call, RejectCall(i)
      PROVE  Placed(i)
  BY <1>4 DEF RejectCall, Placed, Rejects
<1>5. ASSUME NEW i \in Call, HookBlocks(i) \/ HookAllows(i) \/ ToolReturns(i)
                \/ ToolThrows(i) \/ AfterHook(i) \/ FinishCall(i)
      PROVE  Placed(i)
  BY <1>5 DEF HookBlocks, HookAllows, ToolReturns, ToolThrows, AfterHook, FinishCall,
              Placed, Moves, Inside, Settled
<1>6. ASSUME NEW p \in Checker, SteeringFound(p) \/ SteeringNotFound(p)
                \/ IrcAnswered(p) \/ CallbackRejects(p)
      PROVE  Still \/ (p \in Call /\ Placed(p))
  <2>1. CASE p = Watch
    BY <1>6, <2>1 DEF SteeringFound, SteeringNotFound, IrcAnswered, CallbackRejects,
                      LeaveCheck, Still
  <2>2. CASE p # Watch
    <3>1. p \in Call /\ pc[p] = "checking"
      BY <1>6, <2>2 DEF Checker, Asking, SteeringFound, SteeringNotFound,
                        IrcAnswered, CallbackRejects
    <3>2. QED
      BY <1>6, <2>2, <3>1 DEF SteeringFound, SteeringNotFound, IrcAnswered,
         CallbackRejects, LeaveCheck, Still, Placed, Moves, Inside, Settled, Goto
  <2>3. QED
    BY <2>1, <2>2
<1>7. CASE UNCHANGED vars
  BY <1>7 DEF vars, Still
<1>8. QED
  BY StepCases, <1>1, <1>2, <1>3, <1>4, <1>5, <1>6, <1>7

LEMMA AskingStep ==
  ASSUME TypeOK, Chained, Asking, [Next]_vars
  PROVE  Asking'
<1> USE DEF Asking, TypeOK, StateTypes
<1>1. CASE Environment
  BY <1>1 DEF Environment, QueueSteering, QueueIrc, AbortRun, TogglePause
<1>2. CASE Schedule \/ WatchTick \/ AllSettled \/ Sweep
  <2>1. CASE Schedule
    <3>1. cursor \in Call /\ pc[cursor] = "unscheduled"
      BY <2>1 DEF Schedule, Chained, Call
    <3>2. QED
      BY <2>1, <3>1 DEF Schedule, Goto
  <2>2. CASE WatchTick
    <3>1. \A p \in Call : p # Watch
      BY DEF Call, Watch
    <3>2. QED
      BY <2>2, <3>1 DEF WatchTick, AskSteering, Checker
  <2>3. CASE AllSettled \/ Sweep
    BY <2>3 DEF AllSettled, Sweep
  <2>4. QED
    BY <1>2, <2>1, <2>2, <2>3
<1>3. ASSUME NEW i \in Call, SkipCall(i) \/ ParkCall(i) \/ StartCall(i)
                \/ UnparkCall(i) \/ RejectCall(i) \/ HookBlocks(i)
      PROVE  Asking'
  BY <1>3 DEF SkipCall, ParkCall, StartCall, UnparkCall, RejectCall, HookBlocks,
              Startable, Enter, Goto
<1>4. ASSUME NEW i \in Call, HookAllows(i) \/ ToolReturns(i) \/ ToolThrows(i)
                \/ AfterHook(i) \/ FinishCall(i)
      PROVE  Asking'
  BY <1>4 DEF HookAllows, ToolReturns, ToolThrows, AfterHook, FinishCall, Goto,
              AskSteering, Checker
<1>5. ASSUME NEW p \in Checker, SteeringFound(p) \/ SteeringNotFound(p)
                \/ IrcAnswered(p) \/ CallbackRejects(p)
      PROVE  Asking'
  BY <1>5 DEF SteeringFound, SteeringNotFound, IrcAnswered, CallbackRejects,
              LeaveCheck, Checker, Watch
<1>6. CASE UNCHANGED vars
  BY <1>6 DEF vars
<1>7. QED
  BY StepCases, <1>1, <1>2, <1>3, <1>4, <1>5, <1>6

LEMMA ChainedStep ==
  ASSUME TypeOK, Chained, Asking, [Next]_vars
  PROVE  Chained'
<1> USE DEF TypeOK, StateTypes
<1>1. CASE Schedule
  <2>1. cursor \in Call /\ cursor \in 1..N /\ N \in Nat
    BY <1>1, NAssumption DEF Schedule, Call
  <2>2. exclusive' = exclusive
    BY <1>1 DEF Schedule, config
  <2>3. \A i \in Call : pc'[i] = IF i < cursor' THEN "scheduled" ELSE "unscheduled"
    BY <1>1, <2>1 DEF Schedule, Chained, Goto, Call
  <2>4. phase' # "scheduling" => \A i \in Call : i < cursor'
    BY <1>1, <2>1 DEF Schedule, Call
  <2>5. lastExclusive' \subseteq exclusive' /\ sharedTasks' \cap exclusive' = {}
    BY <1>1, <2>2 DEF Schedule, Chained
  <2>6. \A k \in lastExclusive' : k < cursor'
    <3>1. CASE cursor \in exclusive
      BY <1>1, <2>1, <3>1 DEF Schedule
    <3>2. CASE cursor \notin exclusive
      <4>1. lastExclusive' = lastExclusive /\ cursor' = cursor + 1
        BY <1>1, <3>2 DEF Schedule
      <4>2. \A k \in lastExclusive : k < cursor /\ k \in 1..N
        BY <1>1 DEF Schedule, Chained, Call
      <4>3. QED
        BY <2>1, <4>1, <4>2
    <3>3. QED
      BY <3>1, <3>2
  <2>7. \A i \in Call : i < cursor' =>
          i \in lastExclusive' \cup sharedTasks' \/ \E k \in lastExclusive' : i < k
    <3> SUFFICES ASSUME NEW i \in Call, i < cursor'
                 PROVE  i \in lastExclusive' \cup sharedTasks' \/ \E k \in lastExclusive' : i < k
      OBVIOUS
    <3>1. i = cursor \/ i < cursor
      BY <1>1, <2>1 DEF Schedule, Call
    <3>2. CASE cursor \in exclusive
      BY <1>1, <3>1, <3>2 DEF Schedule
    <3>3. CASE cursor \notin exclusive
      BY <1>1, <3>1, <3>3 DEF Schedule, Chained
    <3>4. QED
      BY <3>2, <3>3
  <2>8. QED
    BY <2>3, <2>4, <2>5, <2>6, <2>7 DEF Chained
<1>2. CASE Still
  BY <1>2 DEF Still, Chained
<1>3. ASSUME NEW i \in Call, Placed(i)
      PROVE  Chained'
  <2>1. phase # "scheduling" /\ \A j \in Call : pc'[j] # "unscheduled"
    BY <1>3 DEF Placed, Starts, Unparks, Moves, Rejects, Startable, Chained, Goto,
                Inside, Settled
  <2>2. QED
    BY <1>3, <2>1 DEF Placed, Chained
<1>4. QED
  BY StepKinds, <1>1, <1>2, <1>3

LEMMA CoveredStep ==
  ASSUME TypeOK, Chained, Asking, Covered, [Next]_vars
  PROVE  Covered'
<1> USE DEF TypeOK, StateTypes
<1>1. CASE Schedule
  <2> SUFFICES ASSUME NEW i \in Call, NEW j \in Call, i < j, Conflict(i, j)',
                      pc'[j] # "unscheduled"
               PROVE  i \in deps'[j] \/ \E k \in deps'[j] : k \in exclusive' /\ i < k /\ k < j
    BY DEF Covered
  <2>1. exclusive' = exclusive /\ Conflict(i, j)
    BY <1>1 DEF Schedule, config, Conflict
  <2>2. CASE j = cursor
    <3>1. deps'[j] = lastExclusive \cup (IF j \in exclusive THEN sharedTasks ELSE {})
      BY <1>1, <2>2 DEF Schedule
    <3>2. i \in lastExclusive \cup sharedTasks \/ \E k \in lastExclusive : i < k
      BY <1>1, <2>2 DEF Schedule, Chained
    <3>3. \A k \in lastExclusive : k \in exclusive /\ k < j
      BY <1>1, <2>2 DEF Schedule, Chained
    <3>4. i \in sharedTasks => j \in exclusive
      BY <2>1 DEF Chained, Conflict
    <3>5. QED
      BY <2>1, <3>1, <3>2, <3>3, <3>4
  <2>3. CASE j # cursor
    BY <1>1, <2>1, <2>3 DEF Schedule, Covered, Goto
  <2>4. QED
    BY <2>2, <2>3
<1>2. CASE Still
  BY <1>2 DEF Still, Covered, Conflict
<1>3. ASSUME NEW i \in Call, Placed(i)
      PROVE  Covered'
  BY <1>3 DEF Placed, Covered, Conflict, Starts, Unparks, Moves, Rejects, Startable,
              Goto, Inside, Settled
<1>4. QED
  BY StepKinds, <1>1, <1>2, <1>3

LEMMA StartedStep ==
  ASSUME TypeOK, Chained, Asking, StartedInside, [Next]_vars
  PROVE  StartedInside'
<1> USE DEF TypeOK, StateTypes, StartedInside, Before, Inside
<1>1. CASE Schedule
  BY <1>1 DEF Schedule, Goto, Chained
<1>2. CASE Still
  BY <1>2 DEF Still
<1>3. ASSUME NEW i \in Call, Placed(i)
      PROVE  StartedInside'
  BY <1>3 DEF Placed, Starts, Unparks, Moves, Rejects, Startable, Goto, Settled
<1>4. QED
  BY StepKinds, <1>1, <1>2, <1>3

LEMMA SerialStep ==
  ASSUME TypeOK, Chained, Asking, Covered, StartedInside, Serial, [Next]_vars
  PROVE  Serial'
<1> USE DEF TypeOK, StateTypes
<1>1. CASE Schedule
  <2>1. \A j \in Call : ~Entered(j)'
    BY <1>1, ChainedStep, StartedStep
       DEF Schedule, Chained, Goto, Entered, Active, Settled, StartedInside, Before
  <2>2. QED
    BY <2>1 DEF Serial
<1>2. CASE Still
  BY <1>2 DEF Still, Serial, Entered, Active, Conflict
<1>3. ASSUME NEW k \in Call, Placed(k)
      PROVE  Serial'
  <2> SUFFICES ASSUME NEW i \in Call, NEW j \in Call, i < j, Conflict(i, j)', Entered(j)'
               PROVE  pc'[i] = "fulfilled"
    BY DEF Serial
  <2>1. Conflict(i, j)
    BY <1>3 DEF Placed, Conflict
  <2>2. pc[i] = "fulfilled" => pc'[i] = "fulfilled"
    BY <1>3 DEF Placed, Starts, Unparks, Moves, Rejects, Startable, Goto, Inside
  <2>3. CASE Entered(j)
    BY <2>1, <2>2, <2>3 DEF Serial
  <2>4. CASE ~Entered(j)
    <3>1. j = k /\ Startable(j)
      BY <1>3, <2>4 DEF Placed, Starts, Unparks, Moves, Rejects, Goto, Entered, Active,
                        Inside, Settled, StartedInside, Before
    <3>2. pc[j] # "unscheduled" /\ \A d \in deps[j] : pc[d] = "fulfilled"
      BY <3>1 DEF Startable
    <3>3. CASE i \in deps[j]
      BY <2>2, <3>2, <3>3
    <3>4. ASSUME NEW d \in deps[j], d \in exclusive, i < d
          PROVE  pc[i] = "fulfilled"
      <4>1. d \in Call /\ Entered(d) /\ Conflict(i, d)
        BY <3>2, <3>4 DEF Entered, Conflict
      <4>2. QED
        BY <3>4, <4>1 DEF Serial
    <3>5. QED
      BY <2>1, <2>2, <3>2, <3>3, <3>4 DEF Covered
  <2>5. QED
    BY <2>3, <2>4
<1>4. QED
  BY StepKinds, <1>1, <1>2, <1>3

\* The inductive invariant of the promise chain.
OrderInv == TypeOK /\ Chained /\ Asking /\ Covered /\ StartedInside /\ Serial

LEMMA OrderInvariant == Spec => []OrderInv
<1>1. Init => OrderInv
  <2> SUFFICES ASSUME Init PROVE OrderInv
    OBVIOUS
  <2>1. TypeOK
    BY InitTypes
  <2>2. Chained /\ Asking /\ Covered /\ StartedInside /\ Serial
    BY NAssumption DEF Init, Chained, Asking, Covered, StartedInside, Serial, Entered, Active,
       Settled, Before, Inside, Call, Checker
  <2>3. QED
    BY <2>1, <2>2 DEF OrderInv
<1>2. OrderInv /\ [Next]_vars => OrderInv'
  BY FlagStep, StateStep, ChainedStep, AskingStep, CoveredStep, StartedStep, SerialStep
     DEF OrderInv, TypeOK
<1>3. QED
  BY <1>1, <1>2, PTL DEF Spec

\* While an exclusive call is inside runTool no other call is, for a batch of
\* any size and any mix of shared and exclusive calls.
THEOREM Isolation == Spec => []ExclusiveIsolation
<1>1. OrderInv => ExclusiveIsolation
  <2> SUFFICES ASSUME OrderInv, NEW i \in Call, NEW j \in Call, i # j, Active(i), Active(j),
                      Conflict(i, j)
               PROVE  FALSE
    BY DEF ExclusiveIsolation
  <2>1. i < j \/ j < i
    BY DEF Call
  <2>2. pc[i] = "fulfilled" \/ pc[j] = "fulfilled"
    BY <2>1 DEF OrderInv, Serial, Entered, Conflict
  <2>3. QED
    BY <2>2 DEF Active, Settled
<1>2. QED
  BY <1>1, OrderInvariant, PTL

-----------------------------------------------------------------------------
\* The reports.  A result is emitted for a call that has none yet, and what
\* each location of runTool says about the result of its call.

IsEmitted(i) == \E n \in DOMAIN emitted : emitted[n] = i
Once == \A m, n \in DOMAIN emitted : emitted[m] = emitted[n] => m = n
Reported == \A i \in Call : result[i] # "none" <=> IsEmitted(i)

Unreported == {"hook", "executing", "after", "finishing"}

\* result and pc: none before the report, one after it, and a call without
\* one once fulfilled was skipped because of an interrupt.
Located ==
  \A i \in Call :
    /\ pc[i] \in Before \cup Unreported => result[i] = "none"
    /\ pc[i] \in {"after", "finishing"} => outcome[i] # "none"
    /\ pc[i] = "checking" => result[i] # "none"
    /\ i \in started /\ pc[i] \in Settled => result[i] # "none"
    /\ pc[i] = "fulfilled" /\ result[i] = "none" => source # "none"

Swept ==
  /\ phase \in {"sweeping", "returned"} => \A i \in Call : pc[i] \in Settled
  /\ phase = "sweeping" => \A i \in Call : i < cursor => result[i] # "none"
  /\ phase = "returned" => \A i \in Call : result[i] # "none"

ReportInv == Once /\ Reported /\ Located /\ Swept

\* A step emits nothing, or the result of a call that had none.
Reports(i) == result[i] = "none" /\ \E kind \in Results : Emit(i, kind)

LEMMA ReportKinds ==
  ASSUME OrderInv, Located, [Next]_vars
  PROVE  UNCHANGED <<result, emitted>> \/ \E i \in Call : Reports(i)
<1>1. CASE Environment \/ Schedule \/ WatchTick \/ AllSettled
  BY <1>1 DEF Environment, QueueSteering, QueueIrc, AbortRun, TogglePause, Schedule,
              WatchTick, AllSettled
<1>2. CASE Sweep
  BY <1>2 DEF Sweep, OrderInv, TypeOK, StateTypes, Reports, Results
<1>3. ASSUME NEW i \in Call, StartCall(i) \/ UnparkCall(i)
      PROVE  UNCHANGED <<result, emitted>> \/ Reports(i)
  <2>1. pc[i] \in Before /\ Enter(i)
    BY <1>3 DEF StartCall, UnparkCall, Startable, Before
  <2>2. QED
    BY <2>1 DEF Enter, Located, Reports, Results
<1>4. ASSUME NEW i \in Call, SkipCall(i) \/ ParkCall(i) \/ RejectCall(i) \/ HookBlocks(i)
                \/ HookAllows(i) \/ ToolReturns(i) \/ ToolThrows(i) \/ AfterHook(i)
      PROVE  UNCHANGED <<result, emitted>>
  BY <1>4 DEF SkipCall, ParkCall, RejectCall, HookBlocks, HookAllows, ToolReturns,
              ToolThrows, AfterHook
<1>5. ASSUME NEW i \in Call, FinishCall(i)
      PROVE  Reports(i)
  <2>1. outcome[i] \in Results
    BY <1>5 DEF FinishCall, Located, OrderInv, TypeOK, StateTypes, Results
  <2>2. result[i] = "none"
    BY <1>5 DEF FinishCall, Located, Unreported
  <2>3. QED
    BY <1>5, <2>1, <2>2 DEF FinishCall, Reports, Results
<1>6. ASSUME NEW p \in Checker, SteeringFound(p) \/ SteeringNotFound(p)
                \/ IrcAnswered(p) \/ CallbackRejects(p)
      PROVE  UNCHANGED <<result, emitted>>
  BY <1>6 DEF SteeringFound, SteeringNotFound, IrcAnswered, CallbackRejects
<1>7. CASE UNCHANGED vars
  BY <1>7 DEF vars
<1>8. QED
  BY StepCases, <1>1, <1>2, <1>3, <1>4, <1>5, <1>6, <1>7

\* What a report does: it adds the call at the end.
LEMMA ReportEffect ==
  ASSUME TypeOK, NEW i \in Call, Reports(i)
  PROVE  /\ DOMAIN emitted = 1..Len(emitted) /\ Len(emitted) \in Nat
         /\ DOMAIN emitted' = 1..(Len(emitted) + 1)
         /\ emitted'[Len(emitted) + 1] = i
         /\ \A n \in DOMAIN emitted : emitted'[n] = emitted[n]
         /\ result'[i] # "none"
         /\ \A j \in Call : j # i => result'[j] = result[j]
  BY DEF TypeOK, StateTypes, Reports, Emit, Results

LEMMA OnceStep ==
  ASSUME OrderInv, Once, Reported, Located, [Next]_vars
  PROVE  Once' /\ Reported'
<1>1. CASE UNCHANGED <<result, emitted>>
  BY <1>1 DEF Once, Reported, IsEmitted
<1>2. ASSUME NEW i \in Call, Reports(i)
      PROVE  Once' /\ Reported'
  <2>1. \A n \in DOMAIN emitted : emitted[n] # i
    BY <1>2 DEF Reported, Reports, IsEmitted
  <2>2. Once'
    BY <1>2, <2>1, ReportEffect DEF OrderInv, Once
  <2>3. Reported'
    BY <1>2, ReportEffect DEF OrderInv, Reported, IsEmitted
  <2>4. QED
    BY <2>2, <2>3
<1>3. QED
  BY ReportKinds, <1>1, <1>2

\* A result, once there, stays.
LEMMA ResultsStay ==
  ASSUME OrderInv, Located, [Next]_vars, NEW i \in Call, result[i] # "none"
  PROVE  result'[i] # "none"
<1>1. ASSUME NEW j \in Call, Reports(j)
      PROVE  result'[i] # "none"
  BY <1>1, ReportEffect DEF OrderInv
<1>2. QED
  BY ReportKinds, <1>1

LEMMA LocatedStep ==
  ASSUME OrderInv, Located, Swept, [Next]_vars
  PROVE  Located'
<1>0. \A i \in Call : result[i] # "none" => result'[i] # "none"
  BY ResultsStay
<1> USE DEF OrderInv, TypeOK, StateTypes, Located, Before, Unreported, Settled
<1>1. CASE Environment
  BY <1>1 DEF Environment, QueueSteering, QueueIrc, AbortRun, TogglePause, interrupts
<1>2. CASE Schedule
  BY <1>2 DEF Schedule, Goto, Chained, StartedInside, interrupts
<1>3. CASE WatchTick \/ AllSettled
  BY <1>3 DEF WatchTick, AllSettled, interrupts
<1>4. CASE Sweep
  BY <1>0, <1>4 DEF Sweep, Emit, Swept, interrupts
<1>5. ASSUME NEW i \in Call, SkipCall(i) \/ ParkCall(i) \/ RejectCall(i)
      PROVE  Located'
  BY <1>5 DEF SkipCall, ParkCall, RejectCall, Startable, Goto, StartedInside, interrupts
<1>6. ASSUME NEW i \in Call, StartCall(i) \/ UnparkCall(i)
      PROVE  Located'
  <2>1. Enter(i) /\ UNCHANGED <<outcome, interrupts>> /\ pc[i] \in Before
    BY <1>6 DEF StartCall, UnparkCall, Startable
  <2>2. QED
    BY <2>1 DEF Enter, Emit, Goto, interrupts
<1>7. ASSUME NEW i \in Call, HookBlocks(i) \/ HookAllows(i) \/ ToolReturns(i)
                \/ ToolThrows(i) \/ AfterHook(i)
      PROVE  Located'
  BY <1>7 DEF HookBlocks, HookAllows, ToolReturns, ToolThrows, AfterHook, Goto, interrupts
<1>8. ASSUME NEW i \in Call, FinishCall(i)
      PROVE  Located'
  BY <1>8 DEF FinishCall, Emit, Goto, interrupts
<1>9. ASSUME NEW p \in Checker, SteeringFound(p) \/ SteeringNotFound(p)
                \/ IrcAnswered(p) \/ CallbackRejects(p)
      PROVE  Located'
  <2>1. p # Watch => p \in Call /\ pc[p] = "checking"
    BY <1>9 DEF Checker, Asking, SteeringFound, SteeringNotFound, IrcAnswered, CallbackRejects
  <2>2. source # "none" => source' # "none"
    BY <1>9 DEF SteeringFound, SteeringNotFound, IrcAnswered, CallbackRejects, interrupts
  <2>3. QED
    BY <1>9, <2>1, <2>2 DEF SteeringFound, SteeringNotFound, IrcAnswered, CallbackRejects,
                            LeaveCheck
<1>10. CASE UNCHANGED vars
  BY <1>10 DEF vars, interrupts
<1>11. QED
  BY StepCases, <1>1, <1>2, <1>3, <1>4, <1>5, <1>6, <1>7, <1>8, <1>9, <1>10

LEMMA SweptStep ==
  ASSUME OrderInv, Located, Swept, [Next]_vars
  PROVE  Swept'
<1> USE DEF OrderInv, TypeOK, StateTypes
<1>1. CASE Schedule
  BY <1>1, NAssumption DEF Schedule, Swept
<1>2. CASE AllSettled
  BY <1>2 DEF AllSettled, Swept, Call
<1>3. CASE Sweep
  <2>1. result'[cursor] # "none" /\ pc' = pc
    BY <1>3 DEF Sweep, Emit
  <2>2. \A i \in Call : i < cursor => result'[i] # "none"
    BY <1>3, ResultsStay DEF Sweep, Swept
  <2>3. cursor' = cursor + 1 /\ \A i \in Call : i < cursor + 1 => i < cursor \/ i = cursor
    BY <1>3 DEF Sweep, Call
  <2>4. \A i \in Call : i < cursor' => result'[i] # "none"
    BY <2>1, <2>2, <2>3
  <2>5. phase' = "returned" => \A i \in Call : i < cursor'
    BY <1>3, <2>3, NAssumption DEF Sweep, Call
  <2>6. QED
    BY <1>3, <2>1, <2>4, <2>5 DEF Sweep, Swept
<1>4. CASE ~Schedule /\ ~AllSettled /\ ~Sweep
  <2>1. phase' = phase /\ cursor' = cursor
    BY <1>4, StepCases DEF Environment, QueueSteering, QueueIrc, AbortRun, TogglePause,
       WatchTick, SkipCall, ParkCall, RejectCall, StartCall, UnparkCall, HookBlocks,
       HookAllows, ToolReturns, ToolThrows, AfterHook, FinishCall, SteeringFound,
       SteeringNotFound, IrcAnswered, CallbackRejects, plan, vars
  <2>2. phase \in {"sweeping", "returned"} => \A i \in Call : pc'[i] \in Settled
    BY <1>4, <2>1, StepKinds DEF Still, Placed, Starts, Unparks, Moves, Rejects, Startable,
       Swept, Inside, Settled, Goto
  <2>3. QED
    BY <2>1, <2>2, ResultsStay DEF Swept
<1>5. QED
  BY <1>1, <1>2, <1>3, <1>4

LEMMA ReportInvariant == Spec => [](OrderInv /\ ReportInv)
<1>1. Init => ReportInv
  <2> SUFFICES ASSUME Init PROVE ReportInv
    OBVIOUS
  <2>1. DOMAIN emitted = {}
    BY DEF Init
  <2>2. Once /\ Reported
    BY <2>1 DEF Init, Once, Reported, IsEmitted
  <2>3. Located /\ Swept
    BY DEF Init, Located, Swept, Settled
  <2>4. QED
    BY <2>2, <2>3 DEF ReportInv
<1>2. OrderInv /\ ReportInv /\ [Next]_vars => ReportInv'
  BY OnceStep, LocatedStep, SweptStep DEF ReportInv
<1>3. QED
  BY <1>1, <1>2, OrderInvariant, PTL DEF Spec

\* Every tool call of a message gets exactly one tool result, whatever
\* interrupted, aborted, parked or broke the batch.
THEOREM OneResult == Spec => []OneResultPerCall
<1>1. OrderInv /\ ReportInv => OneResultPerCall
  BY DEF ReportInv, Once, Reported, Swept, IsEmitted, OneResultPerCall
<1>2. QED
  BY <1>1, ReportInvariant, PTL

-----------------------------------------------------------------------------
\* Conflicting calls report in message order.

Precedes(i, j) ==
  \E m \in DOMAIN emitted :
    /\ emitted[m] = i
    /\ \A n \in DOMAIN emitted : emitted[n] = j => m < n

\* A parked call waits behind conflicting calls that have reported already.
Ordered ==
  \A i, j \in Call :
    i < j /\ Conflict(i, j) =>
      /\ pc[j] = "parked" => result[i] # "none"
      /\ j \in started => Precedes(i, j)

\* An earlier report stays earlier: reports are only added at the end.
LEMMA PrecedesStays ==
  ASSUME OrderInv, Reported, Located, [Next]_vars,
         NEW i \in Call, NEW j \in Call, i # j, Precedes(i, j)
  PROVE  Precedes(i, j)'
<1>1. CASE UNCHANGED <<result, emitted>>
  BY <1>1 DEF Precedes
<1>2. ASSUME NEW k \in Call, Reports(k)
      PROVE  Precedes(i, j)'
  BY <1>2, ReportEffect DEF OrderInv, Precedes
<1>3. QED
  BY <1>1, <1>2, ReportKinds

LEMMA OrderedStep ==
  ASSUME OrderInv, ReportInv, Ordered, [Next]_vars
  PROVE  Ordered'
<1> SUFFICES ASSUME NEW i \in Call, NEW j \in Call, i < j, Conflict(i, j)'
             PROVE  /\ pc'[j] = "parked" => result'[i] # "none"
                    /\ j \in started' => Precedes(i, j)'
  BY DEF Ordered
<1>0. /\ pc \in [Call -> Locations]
      /\ TypeOK /\ Chained /\ Asking /\ Covered /\ StartedInside /\ Serial
      /\ Reported /\ Located
  BY DEF OrderInv, TypeOK, StateTypes, ReportInv
<1>1. Conflict(i, j) /\ i # j
  <2>1. exclusive' = exclusive
    BY <1>0, StepKinds DEF Still, Placed, Schedule, config
  <2>2. QED
    BY <2>1 DEF Conflict, Call
<1>2. ASSUME pc[j] = "parked"
      PROVE  result'[i] # "none"
  BY <1>0, <1>1, <1>2, ResultsStay DEF Ordered
<1>3. ASSUME pc[j] # "parked", pc'[j] = "parked"
      PROVE  result'[i] # "none"
  <2>1. ParkCall(j)
    BY <1>0, <1>3, StepCases DEF Environment, QueueSteering, QueueIrc, AbortRun, TogglePause,
       Schedule, WatchTick, AllSettled, Sweep, SkipCall, ParkCall, StartCall, UnparkCall,
       RejectCall, Enter, HookBlocks, HookAllows, ToolReturns, ToolThrows, AfterHook,
       FinishCall, SteeringFound, SteeringNotFound, IrcAnswered, CallbackRejects,
       LeaveCheck, Goto, vars
  <2>2. pc'[i] = "fulfilled" /\ pc'[i] = pc[i]
    BY <1>0, <1>1, <1>3, <2>1, SerialStep DEF Serial, Entered, Active, Settled, ParkCall, Goto, Conflict
  <2>3. result[i] # "none"
    BY <1>0, <2>1, <2>2 DEF ParkCall, Located
  <2>4. QED
    BY <1>0, <2>3, ResultsStay
<1>4. ASSUME j \in started
      PROVE  Precedes(i, j)'
  BY <1>0, <1>1, <1>4, PrecedesStays DEF Ordered
<1>5. ASSUME j \notin started, j \in started'
      PROVE  Precedes(i, j)'
  <2>1. StartCall(j) \/ UnparkCall(j)
    BY <1>0, <1>5, StepCases DEF Environment, QueueSteering, QueueIrc, AbortRun, TogglePause,
       Schedule, WatchTick, AllSettled, Sweep, SkipCall, ParkCall, StartCall, UnparkCall,
       RejectCall, Enter, HookBlocks, HookAllows, ToolReturns, ToolThrows, AfterHook,
       FinishCall, SteeringFound, SteeringNotFound, IrcAnswered, CallbackRejects, vars
  <2>2. emitted' = emitted /\ result[j] = "none"
    BY <1>0, <1>5, <2>1 DEF StartCall, UnparkCall, Enter, Located, Before, Startable
  <2>3. result[i] # "none"
    <3>1. CASE StartCall(j)
      <4>1. pc[i] = "fulfilled" \/ pc'[i] = "fulfilled"
        BY <1>0, <1>1, <1>5, <3>1, SerialStep DEF Serial, Entered, Conflict
      <4>2. pc[i] = "fulfilled"
        BY <1>0, <1>1, <3>1, <4>1 DEF StartCall, Enter, Goto
      <4>3. QED
        BY <1>0, <3>1, <4>2 DEF StartCall, Located
    <3>2. CASE UnparkCall(j)
      BY <1>1, <3>2 DEF UnparkCall, Ordered
    <3>3. QED
      BY <2>1, <3>1, <3>2
  <2>4. (\E m \in DOMAIN emitted : emitted[m] = i) /\ \A n \in DOMAIN emitted : emitted[n] # j
    BY <1>0, <2>2, <2>3 DEF Reported, IsEmitted
  <2>5. QED
    BY <2>2, <2>4 DEF Precedes
<1>6. QED
  BY <1>2, <1>3, <1>4, <1>5

\* A call that was started runs after every earlier call it may not overlap
\* has settled and reported, and their reports stay in message order.
THEOREM InOrder == Spec => []ConflictsInOrder
<1>1. Init => Ordered
  BY DEF Init, Ordered
<1>2. OrderInv /\ ReportInv /\ Ordered /\ [Next]_vars => Ordered'
  BY OrderedStep
<1>3. OrderInv /\ ReportInv /\ Ordered => ConflictsInOrder
  BY DEF OrderInv, Serial, Entered, Ordered, Precedes, ConflictsInOrder
<1>4. QED
  BY <1>1, <1>2, <1>3, ReportInvariant, PTL DEF Spec

-----------------------------------------------------------------------------
\* What interrupts a call.

\* Signals, once fired, stay fired.
SignalsStay == \A i \in Call : Aborted(i) => Aborted(i)'

LEMMA SignalStep ==
  ASSUME [Next]_vars
  PROVE  /\ SignalsStay
         /\ steerAborted \/ extAborted => steerAborted' \/ extAborted'
         /\ interruptible' = interruptible
<1> USE DEF SignalsStay, Aborted, config, env, queues, interrupts
<1>1. CASE Environment \/ Schedule \/ WatchTick \/ AllSettled \/ Sweep
  BY <1>1 DEF Environment, QueueSteering, QueueIrc, AbortRun, TogglePause, Schedule,
              WatchTick, AllSettled, Sweep
<1>2. ASSUME NEW i \in Call, SkipCall(i) \/ ParkCall(i) \/ StartCall(i) \/ UnparkCall(i)
                \/ RejectCall(i) \/ HookBlocks(i) \/ HookAllows(i) \/ ToolReturns(i)
                \/ ToolThrows(i) \/ AfterHook(i) \/ FinishCall(i)
      PROVE  UNCHANGED <<config, env, interrupts>>
  BY <1>2 DEF SkipCall, ParkCall, StartCall, UnparkCall, RejectCall, HookBlocks,
     HookAllows, ToolReturns, ToolThrows, AfterHook, FinishCall
<1>3. ASSUME NEW p \in Checker, SteeringFound(p) \/ SteeringNotFound(p)
                \/ IrcAnswered(p) \/ CallbackRejects(p)
      PROVE  /\ UNCHANGED <<config, env>>
             /\ steerAborted' \in {steerAborted, TRUE} /\ ircAborted' \in {ircAborted, TRUE}
  BY <1>3 DEF SteeringFound, SteeringNotFound, IrcAnswered, CallbackRejects
<1>4. CASE UNCHANGED vars
  BY <1>4 DEF vars
<1>5. QED
  BY StepCases, <1>1, <1>2, <1>3, <1>4

\* tool.execute is entered only while no signal of the call has fired.
THEOREM NoLateExecution == Spec => NoExecuteAfterAbort
<1>1. OrderInv /\ [Next]_vars =>
        [\A i \in Call :
           pc[i] # "executing" /\ pc'[i] = "executing" => ~Aborted(i) /\ ~Aborted(i)']_vars
  <2> SUFFICES ASSUME OrderInv, [Next]_vars, NEW i \in Call,
                      pc[i] # "executing", pc'[i] = "executing"
               PROVE  ~Aborted(i) /\ ~Aborted(i)'
    OBVIOUS
  <2>1. TypeOK /\ pc \in [Call -> Locations]
    BY DEF OrderInv, TypeOK, StateTypes
  <2>2. HookAllows(i)
    BY <2>1, StepCases DEF Environment, QueueSteering, QueueIrc, AbortRun, TogglePause,
       Schedule, WatchTick, AllSettled, Sweep, SkipCall, ParkCall, StartCall, UnparkCall,
       RejectCall, Enter, HookBlocks, HookAllows, ToolReturns, ToolThrows, AfterHook,
       FinishCall, SteeringFound, SteeringNotFound, IrcAnswered, CallbackRejects,
       LeaveCheck, Goto, vars
  <2>3. QED
    BY <2>1, <2>2 DEF HookAllows, Goto, Aborted, config, env, interrupts
<1>2. QED
  BY <1>1, OrderInvariant, PTL DEF Spec, NoExecuteAfterAbort

\* An "aborted" outcome or a cut-off report of a started call has its cause in
\* a signal the call listens to.
Caused ==
  \A i \in Call :
    /\ outcome[i] = "aborted" => Aborted(i)
    /\ i \in started /\ result[i] \in {"skipped", "aborted"} => Aborted(i)

LEMMA CausedStep ==
  ASSUME OrderInv, Located, Swept, Caused, [Next]_vars
  PROVE  Caused'
<1>0. /\ SignalsStay
      /\ TypeOK /\ StartedInside
      /\ outcome \in [Call -> {"none", "ok", "error", "aborted"}]
      /\ result \in [Call -> Results \cup {"none"}]
      /\ pc \in [Call -> Locations]
      /\ cursor \in 1..N+1 /\ (phase = "sweeping" => cursor \in Call)
  BY SignalStep DEF OrderInv, TypeOK, StateTypes
<1>1. CASE Environment \/ Schedule \/ WatchTick \/ AllSettled
  <2>1. UNCHANGED <<outcome, started, result>>
    BY <1>1 DEF Environment, QueueSteering, QueueIrc, AbortRun, TogglePause, Schedule,
                WatchTick, AllSettled
  <2>2. QED
    BY <1>0, <2>1 DEF Caused, SignalsStay
<1>2. CASE Sweep
  <2>1. cursor \in started => result[cursor] # "none"
    BY <1>0, <1>2 DEF Sweep, Swept, Located
  <2>2. UNCHANGED <<outcome, started>> /\ \A i \in Call : i \in started => result'[i] = result[i]
    BY <1>0, <1>2, <2>1 DEF Sweep, Emit
  <2>3. QED
    BY <1>0, <2>2 DEF Caused, SignalsStay
<1>3. ASSUME NEW i \in Call, StartCall(i) \/ UnparkCall(i)
      PROVE  Caused'
  <2>1. Enter(i) /\ outcome' = outcome /\ i \notin started /\ result[i] = "none"
    BY <1>0, <1>3 DEF StartCall, UnparkCall, Startable, StartedInside, Located, Before
  <2>2. \A j \in Call : j \in started' /\ result'[j] \in {"skipped", "aborted"} =>
          j \in started /\ result'[j] = result[j]
    BY <1>0, <2>1 DEF Enter, Emit
  <2>3. QED
    BY <1>0, <2>1, <2>2 DEF Caused, SignalsStay
<1>4. ASSUME NEW i \in Call, SkipCall(i) \/ ParkCall(i) \/ RejectCall(i)
      PROVE  Caused'
  BY <1>0, <1>4 DEF SkipCall, ParkCall, RejectCall, Caused, SignalsStay
<1>5. ASSUME NEW i \in Call, HookBlocks(i) \/ HookAllows(i) \/ ToolReturns(i)
                \/ ToolThrows(i) \/ AfterHook(i)
      PROVE  Caused'
  <2>1. UNCHANGED <<started, result>>
    BY <1>5 DEF HookBlocks, HookAllows, ToolReturns, ToolThrows, AfterHook
  <2>2. \A j \in Call : outcome'[j] = "aborted" => outcome[j] = "aborted" \/ Aborted(j)
    BY <1>0, <1>5 DEF HookBlocks, HookAllows, ToolReturns, ToolThrows, AfterHook
  <2>3. QED
    BY <1>0, <2>1, <2>2 DEF Caused, SignalsStay
<1>6. ASSUME NEW i \in Call, FinishCall(i)
      PROVE  Caused'
  <2>1. UNCHANGED <<outcome, started>>
    BY <1>6 DEF FinishCall
  <2>2. \A j \in Call : j # i => result'[j] = result[j]
    BY <1>0, <1>6 DEF FinishCall, Emit
  <2>3. result'[i] \in {"skipped", "aborted"} => Aborted(i)
    BY <1>0, <1>6 DEF FinishCall, Emit, Caused
  <2>4. QED
    BY <1>0, <2>1, <2>2, <2>3 DEF Caused, SignalsStay
<1>7. ASSUME NEW p \in Checker, SteeringFound(p) \/ SteeringNotFound(p)
                \/ IrcAnswered(p) \/ CallbackRejects(p)
      PROVE  Caused'
  BY <1>0, <1>7 DEF SteeringFound, SteeringNotFound, IrcAnswered, CallbackRejects,
                    Caused, SignalsStay
<1>8. CASE UNCHANGED vars
  BY <1>0, <1>8 DEF vars, Caused, SignalsStay
<1>9. QED
  BY StepCases, <1>1, <1>2, <1>3, <1>4, <1>5, <1>6, <1>7, <1>8

\* A peer message alone never costs a foreground call its work.
THEOREM PeerSpares == Spec => []PeerSparesForeground
<1>1. Init => Caused
  BY DEF Init, Caused
<1>2. OrderInv /\ ReportInv /\ Caused /\ [Next]_vars => Caused'
  BY CausedStep DEF ReportInv
<1>3. OrderInv /\ Caused => PeerSparesForeground
  BY DEF OrderInv, TypeOK, StateTypes, Caused, PeerSparesForeground, Aborted
<1>4. QED
  BY <1>1, <1>2, <1>3, ReportInvariant, PTL DEF Spec
=============================================================================
