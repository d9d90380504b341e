-------------------------------- MODULE IrcBus --------------------------------
(***************************************************************************)
(* The IRC bus on top of AgentLifecycle: peers of the agent each send it   *)
(* one message, with or without awaiting the reply, while the agent is     *)
(* parked, revived, chatted to and killed.  A message is handed to the     *)
(* session the registry shows once the revival has ended; only a hand-off  *)
(* the session refuses is buffered in the mailbox.                         *)
(***************************************************************************)
EXTENDS AgentLifecycle, Sequences

CONSTANT MailboxCap

ASSUME MailboxAssumption == MailboxCap \in Nat \ {0}

VARIABLES
    asked,      \* senders whose send awaits a reply
    wait,       \* the waiter a send parks for its reply
    into,       \* the session that has the sender's message, 0 for none
    mailbox,    \* messages the agent's session refused
    reply       \* how the agent's reply reached the sender

busVars == <<asked, wait, into, mailbox, reply>>
vars == <<lifeVars, busVars>>

Senders == Callers \ Chatters

BusInit ==
    /\ Init
    /\ asked = {}
    /\ wait = [c \in Senders |-> "off"]
    /\ into = [c \in Senders |-> 0]
    /\ mailbox = <<>>
    /\ reply = [c \in Senders |-> "none"]

\* Mutant: the waiter is parked only once the send has returned.
ParkWaiter_Afterwards(c) == UNCHANGED wait

\* The waiter is parked before the message leaves, so no reply can overtake it.
ParkWaiter(c) == wait' = [wait EXCEPT ![c] = "on"]

Send(c) ==
    /\ Quiet
    /\ call[c] = "off"
    /\ Unused # {}
    /\ \/ asked' = asked \cup {c} /\ ParkWaiter(c)
       \/ UNCHANGED <<asked, wait>>
    /\ IF Registered /\ ref.status \notin {"parked", "aborted"}
       THEN Settle(c, "got", 0) /\ UNCHANGED revival
       ELSE IF ref.status = "parked" THEN EnsureLive(c)
       ELSE Settle(c, "failed", 0) /\ UNCHANGED revival
    /\ UNCHANGED <<ref, adopted, parking, teardown, killing, live, turn, synced, releases,
                   into, mailbox, reply>>

\* Mutant: the mailbox is not capped.
Enqueue_Uncapped(c) == mailbox' = Append(mailbox, c)

\* A refused message is buffered; beyond the cap the oldest one is dropped.
Enqueue(c) ==
    mailbox' = IF Len(mailbox) = MailboxCap THEN Append(Tail(mailbox), c)
               ELSE Append(mailbox, c)

Streaming(s) == turn[s] \in {"seen", "unseen"}

\* deliverIrcMessage: an aside for a streaming session, a turn for an idle one.
Deliver(c, s) ==
    /\ into' = [into EXCEPT ![c] = s]
    /\ IF Streaming(s) THEN UNCHANGED <<turn, ref, adopted>>
       ELSE /\ turn' = [turn EXCEPT ![s] = IF s \in synced THEN "seen" ELSE "unseen"]
            /\ IF s \in synced THEN SetStatus("running") ELSE UNCHANGED <<ref, adopted>>
    /\ UNCHANGED <<mailbox, wait>>

HandOffFails(c) ==
    /\ wait' = [wait EXCEPT ![c] = IF @ = "on" THEN "over" ELSE @]
    /\ UNCHANGED <<into, turn, ref, adopted>>

HandOff(c) ==
    /\ call[c] = "got"
    /\ call' = [call EXCEPT ![c] = "done"]
    /\ IF ref.session = 0 THEN HandOffFails(c) /\ UNCHANGED mailbox
       ELSE IF live[ref.session] = "open" THEN Deliver(c, ref.session)
       ELSE HandOffFails(c) /\ Enqueue(c)
    /\ UNCHANGED <<parking, teardown, killing, revival, live, synced, held, releases, asked, reply>>

\* The agent reads its mailbox with the irc tool, in a turn.
Inbox(s) ==
    /\ Quiet
    /\ Streaming(s) /\ live[s] = "open" /\ mailbox # <<>>
    /\ into' = [c \in Senders |-> IF \E i \in DOMAIN mailbox : mailbox[i] = c THEN s ELSE into[c]]
    /\ mailbox' = <<>>
    /\ UNCHANGED <<lifeVars, asked, wait, reply>>

\* The agent answers: a parked waiter takes the reply, or the sender's session does.
Answer(c) ==
    /\ Quiet
    /\ into[c] # 0 /\ reply[c] = "none"
    /\ Streaming(into[c]) /\ live[into[c]] = "open"
    /\ reply' = [reply EXCEPT ![c] = IF wait[c] = "on" THEN "heard" ELSE "aside"]
    /\ wait' = [wait EXCEPT ![c] = IF @ = "on" THEN "over" ELSE @]
    /\ UNCHANGED <<lifeVars, asked, into, mailbox>>

\* The wait times out, or the caller's tool call is aborted.
WaitEnds(c) ==
    /\ Quiet
    /\ wait[c] = "on"
    /\ wait' = [wait EXCEPT ![c] = "over"]
    /\ UNCHANGED <<lifeVars, asked, into, mailbox, reply>>

BusNext ==
    \/ LifeStep /\ UNCHANGED busVars
    \/ ChatStep /\ UNCHANGED busVars
    \/ \E c \in Senders : Send(c) \/ HandOff(c) \/ Answer(c) \/ WaitEnds(c)
    \/ \E s \in Sessions : Inbox(s)

Spec == BusInit /\ [][BusNext]_vars
FairSpec == Spec /\ LifeFairness /\ \A c \in Senders : WF_vars(HandOff(c))

-----------------------------------------------------------------------------
(* Properties.                                                             *)

\* The values the state takes.
TypeOK ==
    /\ ref \in [status : {"none", "running", "idle", "parked", "aborted"}, session : 0..MaxSessions]
    /\ adopted \in [on : BOOLEAN, timer : BOOLEAN]
    /\ parking \in 0..MaxSessions
    /\ teardown \in {"none", "settled", "aborted", "oneshot", "isolated"}
    /\ killing \in 0..MaxSessions
    /\ revival \in [step : {"none", "factory", "opening", "building", "attached"},
                    session : 0..MaxSessions, cold : BOOLEAN]
    /\ live \in [Sessions -> {"unused", "building", "open", "disposing", "closed"}]
    /\ turn \in [Sessions -> {"none", "preflight", "seen", "unseen"}]
    /\ synced \subseteq Sessions
    /\ call \in [Callers -> {"off", "waiting", "got", "failed", "done"}]
    /\ held \in [Callers -> 0..MaxSessions]
    /\ releases \in 0..MaxReleases
    /\ asked \subseteq Senders
    /\ wait \in [Senders -> {"off", "on", "over"}]
    /\ into \in [Senders -> 0..MaxSessions]
    /\ mailbox \in Seq(Senders) /\ Len(mailbox) <= MailboxCap
    /\ reply \in [Senders -> {"none", "heard", "aside"}]

\* However parking, revivals, kills and failures interleave, at most one session
\* of the agent has its journal open: a revival never opens the file beside the
\* session that is still being disposed of, nor beside another revival's.
OneWriter ==
    \A s, t \in Sessions :
        live[s] \in {"building", "open", "disposing"} /\ live[t] \in {"building", "open", "disposing"} => s = t

\* The time to live never disposes of a session in a turn its events have shown
\* to the registry, whichever of adoption, wake and revival armed the timer last.
ParkSpares ==
    [][\A s \in Sessions : parking # s /\ parking' = s => turn[s] # "seen"]_vars

\* An agent that went idle under the manager's care does not hold its session
\* for ever: it is parked, or runs again, or is released.
IdleIsParked == adopted.on /\ ref.status = "idle" ~> ~adopted.on \/ ref.status # "idle"

\* A reply to a send that awaits it goes to the waiting tool call, unless that
\* wait has ended: it is never left to the sender's next turn instead.
AwaitHearsReply ==
    [][\A c \in asked : reply[c] = "none" /\ reply'[c] = "aside" => wait[c] = "over"]_vars

\* A finished agent leaves the registry only when it is released or torn down:
\* a revival that fails leaves it there to be revived again.
RemovedOnlyByTeardown ==
    [][Registered /\ ref' = NoRef => releases' # releases \/ killing # 0 \/ teardown # "settled"]_vars
=============================================================================
