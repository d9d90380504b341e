---------------------------- MODULE AgentLifecycle ----------------------------
(***************************************************************************)
(* One subagent in the process-wide AgentRegistry and under the            *)
(* AgentLifecycleManager: finished, adopted, parked after a time to live,  *)
(* revived on demand by callers that want a live session, and released.    *)
(* The manager keeps its state per agent id, so one id is modelled.        *)
(*                                                                         *)
(* A session is made by the first run (session 1) or by a revival.  It is  *)
(* "building" until sdk.ts attaches it to the registry, "open" until its   *)
(* disposal starts, and "closed" when the disposal has ended and its       *)
(* journal's writer with it.                                               *)
(***************************************************************************)
EXTENDS Naturals, FiniteSets

CONSTANTS
    Callers,       \* who asks for a live session, each of them once
    Chatters,      \* the callers that prompt it: follow-up turns and chat
    MaxSessions,   \* bound: the first session and the revived ones
    MaxReleases    \* bound: kills

ASSUME CallersAssumption == IsFiniteSet(Callers) /\ Chatters \subseteq Callers
ASSUME BoundsAssumption ==
    /\ MaxSessions \in Nat \ {0}
    /\ MaxReleases \in Nat

VARIABLES
    ref,        \* the agent's AgentRef, NoRef when it is not registered
    adopted,    \* the manager's AdoptedAgent entry, Unadopted when there is none
    parking,    \* the session park() is disposing, 0 for none
    teardown,   \* what the end of the first run made of it, "none" until then
    killing,    \* the session release() is disposing, 0 for none
    revival,    \* the revival in flight
    live,       \* the life of each session
    turn,       \* the turn each session is in
    synced,     \* sessions whose events drive the registry's status
    call,       \* where each caller's ensureLive stands
    held,       \* the session ensureLive returned to it
    releases

lifeVars == <<ref, adopted, parking, teardown, killing, revival, live, turn, synced,
              call, held, releases>>

Sessions == 1..MaxSessions
NoRef == [status |-> "none", session |-> 0]
Unadopted == [on |-> FALSE, timer |-> FALSE]
NoRevival == [step |-> "none", session |-> 0, cold |-> FALSE]

Registered == ref # NoRef
Unused == {s \in Sessions : live[s] = "unused"}
Waiting == {c \in Callers : call[c] = "waiting"}

\* Promise continuations run before the next timer, I/O or user event: while a
\* caller has its session in hand and has not used it, nothing else happens.
Quiet == \A c \in Callers : call[c] # "got"

Init ==
    /\ ref = [status |-> "running", session |-> 1]
    /\ adopted = Unadopted
    /\ parking = 0
    /\ teardown = "none"
    /\ killing = 0
    /\ revival = NoRevival
    /\ live = [s \in Sessions |-> IF s = 1 THEN "open" ELSE "unused"]
    /\ turn = [s \in Sessions |-> IF s = 1 THEN "seen" ELSE "none"]
    /\ synced = {1}
    /\ call = [c \in Callers |-> "off"]
    /\ held = [c \in Callers |-> 0]
    /\ releases = 0

-----------------------------------------------------------------------------
(* The registry, and the manager as its listener.                          *)

\* Mutant: a run does not clear the timer the idle agent was given.
OnStatus_KeepsTimer(status) == [adopted EXCEPT !.timer = @ \/ (adopted.on /\ status = "idle")]

\* Mutant: going idle does not arm the timer again.
OnStatus_NeverRearms(status) == [adopted EXCEPT !.timer = @ /\ status # "running"]

\* An idle agent's timer is armed, a running one's is cleared.
OnStatus(status) ==
    [adopted EXCEPT !.timer = /\ adopted.on
                              /\ status # "running"
                              /\ status = "idle" \/ adopted.timer]

SetStatus(status) ==
    IF Registered /\ ref.status # status
    THEN /\ ref' = [ref EXCEPT !.status = status]
         /\ adopted' = OnStatus(status)
    ELSE UNCHANGED <<ref, adopted>>

Unregister ==
    /\ ref' = NoRef
    /\ adopted' = IF Registered THEN Unadopted ELSE adopted

-----------------------------------------------------------------------------
(* The end of the first run: what finalizeSubagentLifecycle makes of it.   *)

FinishAborted ==
    /\ ref' = [ref EXCEPT !.status = "aborted"]
    /\ teardown' = "aborted"
    /\ live' = [live EXCEPT ![1] = "disposing"]
    /\ UNCHANGED <<turn, adopted>>

\* A run that is not kept alive is disposed of and unregistered.
FinishOneShot ==
    /\ teardown' = "oneshot"
    /\ live' = [live EXCEPT ![1] = "disposing"]
    /\ UNCHANGED <<turn, ref, adopted>>

\* An isolated run is parked before it is disposed of, and never adopted.
FinishIsolated ==
    /\ ref' = [ref EXCEPT !.status = "parked"]
    /\ teardown' = "isolated"
    /\ live' = [live EXCEPT ![1] = "disposing"]
    /\ UNCHANGED <<turn, adopted>>

\* The agent is marked idle and adopted, also when a peer's message or a chat
\* has started another turn since the run ended: that turn goes unseen.
FinishKept ==
    /\ ref' = [ref EXCEPT !.status = "idle"]
    /\ adopted' = [on |-> TRUE, timer |-> TRUE]
    /\ turn' = [turn EXCEPT ![1] = IF @ = "seen" THEN "unseen" ELSE @]
    /\ teardown' = "settled"
    /\ UNCHANGED <<live>>

\* A kill has disposed of the session and removed the agent: setStatus and adopt
\* find no ref, and the disposal is the one that has ended.
FinishGone ==
    /\ teardown' = "settled"
    /\ UNCHANGED <<turn, ref, adopted, live>>

FinishRun ==
    /\ Quiet
    /\ teardown = "none"
    /\ IF Registered THEN FinishAborted \/ FinishOneShot \/ FinishIsolated \/ FinishKept
       ELSE FinishGone
    /\ UNCHANGED <<killing, parking, revival, synced, call, held, releases>>

-----------------------------------------------------------------------------
(* Turns of a session.                                                     *)

\* A closed session emits nothing.
Heard(s) == s \in synced /\ live[s] # "closed"

\* The time from prompt() to agent_start: keyword notices, image work, checks.
StartTurn(s) ==
    /\ Quiet
    /\ turn[s] = "preflight"
    /\ turn' = [turn EXCEPT ![s] = IF Heard(s) THEN "seen" ELSE "unseen"]
    /\ IF Heard(s) THEN SetStatus("running") ELSE UNCHANGED <<ref, adopted>>
    /\ UNCHANGED <<parking, teardown, killing, revival, live, synced, call, held, releases>>

EndTurn(s) ==
    /\ Quiet
    /\ turn[s] \in {"seen", "unseen"}
    /\ turn' = [turn EXCEPT ![s] = "none"]
    /\ IF Heard(s) THEN SetStatus("idle") ELSE UNCHANGED <<ref, adopted>>
    /\ UNCHANGED <<parking, teardown, killing, revival, live, synced, call, held, releases>>

-----------------------------------------------------------------------------
(* Parking, disposal and release.                                          *)

\* Mutant: the agent is detached and parked before its session is disposed of.
Park_DetachesFirst ==
    /\ Quiet
    /\ adopted.timer
    /\ adopted' = [adopted EXCEPT !.timer = FALSE]
    /\ ref' = [status |-> "parked", session |-> 0]
    /\ IF ref.session = 0 THEN UNCHANGED <<parking, live>>
       ELSE /\ parking' = ref.session
            /\ live' = [live EXCEPT ![ref.session] = "disposing"]
    /\ UNCHANGED <<teardown, killing, revival, turn, synced, call, held, releases>>

\* The timer expires and park() begins to dispose of the session.
Park ==
    /\ Quiet
    /\ adopted.timer
    /\ adopted' = [adopted EXCEPT !.timer = FALSE]
    /\ IF ref.session = 0 THEN UNCHANGED <<parking, live>>
       ELSE /\ parking' = ref.session
            /\ live' = [live EXCEPT ![ref.session] = "disposing"]
    /\ UNCHANGED <<ref, teardown, killing, revival, turn, synced, call, held, releases>>

\* What the callers of dispose do once it has ended, which they share: release()
\* unregisters the agent, and so does the session's own dispose wrapper, unless
\* the agent is parked or being parked.
AfterDispose(s) ==
    IF \/ killing # 0
       \/ teardown \in {"oneshot", "aborted"}
       \/ teardown = "isolated" /\ ref.status # "parked"
    THEN Unregister
    ELSE /\ ref' = [status |-> "parked", session |-> 0]
         /\ UNCHANGED adopted

\* dispose() ends; its abort has ended the session's turn.
EndDispose(s) ==
    /\ Quiet
    /\ live[s] = "disposing"
    /\ turn[s] \in {"none", "preflight"}
    /\ live' = [live EXCEPT ![s] = "closed"]
    /\ AfterDispose(s)
    /\ parking' = 0
    /\ killing' = 0
    /\ teardown' = IF teardown = "none" THEN "none" ELSE "settled"
    /\ UNCHANGED <<revival, turn, synced, call, held, releases>>

\* release(): a kill from the hub, a collaborator or the vibe runtime, at any
\* time, also during the first run or another kill.
Release ==
    /\ Quiet
    /\ releases < MaxReleases
    /\ Registered \/ adopted.on
    /\ releases' = releases + 1
    /\ adopted' = Unadopted
    /\ IF ref.session # 0
       THEN /\ live' = [live EXCEPT ![ref.session] = "disposing"]
            /\ killing' = ref.session
            /\ UNCHANGED ref
       ELSE /\ ref' = NoRef
            /\ UNCHANGED <<live, killing>>
    /\ UNCHANGED <<parking, teardown, revival, turn, synced, call, held>>

-----------------------------------------------------------------------------
(* ensureLive and the revival it starts.                                   *)

Settle(c, outcome, s) ==
    /\ call' = [call EXCEPT ![c] = outcome]
    /\ held' = [held EXCEPT ![c] = s]

\* Concurrent calls share the revival in flight.
EnsureLive(c) ==
    IF ~Registered THEN Settle(c, "failed", 0) /\ UNCHANGED revival
    ELSE IF ref.session # 0 THEN Settle(c, "got", ref.session) /\ UNCHANGED revival
    ELSE IF revival # NoRevival THEN Settle(c, "waiting", 0) /\ UNCHANGED revival
    ELSE IF ref.status = "parked"
         THEN /\ Settle(c, "waiting", 0)
              /\ revival' = [NoRevival EXCEPT !.step = IF adopted.on THEN "opening" ELSE "factory"]
         ELSE Settle(c, "failed", 0) /\ UNCHANGED revival

Ask(c) ==
    /\ Quiet
    /\ call[c] = "off"
    /\ Unused # {}
    /\ EnsureLive(c)
    /\ UNCHANGED <<ref, adopted, parking, teardown, killing, live, turn, synced, releases>>

\* Every caller of the shared revival gets its outcome.
EndRevival(outcome, s) ==
    /\ revival' = NoRevival
    /\ call' = [c \in Callers |-> IF c \in Waiting THEN outcome ELSE call[c]]
    /\ held' = [c \in Callers |-> IF c \in Waiting THEN s ELSE held[c]]

\* The persisted-subagent factory answers; its reviver is adopted before use,
\* whatever became of the agent meanwhile.
FactoryReturns ==
    /\ Quiet
    /\ revival.step = "factory"
    /\ \/ /\ adopted' = [on |-> TRUE, timer |-> FALSE]
          /\ revival' = [revival EXCEPT !.step = "opening", !.cold = TRUE]
          /\ UNCHANGED <<call, held>>
       \/ /\ EndRevival("failed", 0)
          /\ UNCHANGED adopted
    /\ UNCHANGED <<ref, parking, teardown, killing, live, turn, synced, releases>>

\* createAgentSession registers a new ref under the same id.
RegisterRevived ==
    /\ Quiet
    /\ revival.step = "opening"
    /\ \E s \in Unused :
          /\ revival' = [revival EXCEPT !.step = "building", !.session = s]
          /\ live' = [live EXCEPT ![s] = "building"]
    /\ ref' = [status |-> "running", session |-> 0]
    /\ UNCHANGED <<adopted, parking, teardown, killing, turn, synced, call, held, releases>>

AttachSession(s) == IF Registered THEN [ref EXCEPT !.session = s] ELSE ref

AttachRevived ==
    /\ Quiet
    /\ revival.step = "building"
    /\ revival' = [revival EXCEPT !.step = "attached"]
    /\ live' = [live EXCEPT ![revival.session] = "open"]
    /\ ref' = AttachSession(revival.session)
    /\ UNCHANGED <<adopted, parking, teardown, killing, turn, synced, call, held, releases>>

\* The reviver returns: the session drives the status from here on.
FinishRevival ==
    /\ Quiet
    /\ revival.step = "attached"
    /\ synced' = synced \cup {revival.session}
    /\ ref' = IF Registered THEN [status |-> "idle", session |-> revival.session] ELSE ref
    /\ adopted' = IF Registered /\ ref.status # "idle" THEN OnStatus("idle") ELSE adopted
    /\ EndRevival("got", revival.session)
    /\ UNCHANGED <<parking, teardown, killing, live, turn, releases>>

\* A cold revival that failed drops the adoption it made.
Dropped == IF revival.cold THEN Unadopted ELSE adopted

\* The journal cannot be opened: nothing was registered yet.
OpenFails ==
    /\ revival.step = "opening"
    /\ adopted' = Dropped
    /\ UNCHANGED <<ref, live>>

\* createAgentSession fails after it registered the agent, and unregisters it.
BuildFails ==
    /\ revival.step = "building"
    /\ Unregister
    /\ live' = [live EXCEPT ![revival.session] = "closed"]

\* Restoring the tools of a cold session fails after it was attached.
RestoreFails ==
    /\ revival.step = "attached" /\ revival.cold
    /\ adopted' = Dropped
    /\ UNCHANGED <<ref, live>>

ReviveFails ==
    /\ Quiet
    /\ OpenFails \/ BuildFails \/ RestoreFails
    /\ EndRevival("failed", 0)
    /\ UNCHANGED <<parking, teardown, killing, turn, synced, releases>>

\* A follow-up turn or a chat message prompts the session it was given; a
\* session that is streaming is steered instead.
Prompt(c) ==
    /\ call[c] = "got"
    /\ call' = [call EXCEPT ![c] = "done"]
    /\ turn' = [turn EXCEPT ![held[c]] = IF @ = "none" THEN "preflight" ELSE @]
    /\ UNCHANGED <<ref, adopted, parking, teardown, killing, revival, live, synced, held, releases>>

LifeStep ==
    \/ FinishRun
    \/ \E s \in Sessions : StartTurn(s) \/ EndTurn(s) \/ EndDispose(s)
    \/ Park
    \/ Release
    \/ FactoryReturns \/ RegisterRevived \/ AttachRevived \/ FinishRevival
    \/ ReviveFails

ChatStep == \E c \in Chatters : Ask(c) \/ Prompt(c)

\* What goes on by itself: turns and disposals end, timers expire, revivals
\* succeed or fail, and a continuation that is due runs.
LifeFairness ==
    /\ \A s \in Sessions : WF_lifeVars(StartTurn(s)) /\ WF_lifeVars(EndTurn(s))
    /\ \A s \in Sessions : WF_lifeVars(EndDispose(s))
    /\ WF_lifeVars(Park)
    /\ \A c \in Chatters : WF_lifeVars(Prompt(c))
    /\ WF_lifeVars(FactoryReturns) /\ WF_lifeVars(RegisterRevived)
    /\ WF_lifeVars(AttachRevived) /\ WF_lifeVars(FinishRevival \/ ReviveFails)
=============================================================================
