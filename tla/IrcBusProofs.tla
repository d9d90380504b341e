----------------------------- MODULE IrcBusProofs -----------------------------
(***************************************************************************)
(* Theorems about IrcBus and the AgentLifecycle it extends, for any number *)
(* of callers, sessions, kills and messages.                               *)
(***************************************************************************)
EXTENDS IrcBus, TLAPS

-----------------------------------------------------------------------------
(* Type correctness.                                                       *)

Ref == [status : {"none", "running", "idle", "parked", "aborted"}, session : 0..MaxSessions]
Adoption == [on : BOOLEAN, timer : BOOLEAN]
Revival == [step : {"none", "factory", "opening", "building", "attached"},
            session : 0..MaxSessions, cold : BOOLEAN]
Calls == [Callers -> {"off", "waiting", "got", "failed", "done"}]
Handed == [Callers -> 0..MaxSessions]

\* A revival that has made its session.
Made == revival.step \in {"building", "attached"}

\* TypeOK is inductive once the session of a revival is known to be one.
TypeInv == TypeOK /\ (Made => revival.session \in Sessions)

LEMMA ConstantTypes ==
  /\ 0 \in 0..MaxSessions /\ 1 \in 0..MaxSessions /\ 1 \in Sessions /\ Sessions \subseteq 0..MaxSessions
  /\ NoRef \in Ref /\ [status |-> "parked", session |-> 0] \in Ref
  /\ Unadopted \in Adoption /\ NoRevival \in Revival
BY BoundsAssumption DEF Sessions, NoRef, Ref, Unadopted, Adoption, NoRevival, Revival

LEMMA SetStatusType ==
  ASSUME ref \in Ref, adopted \in Adoption, NEW status \in {"running", "idle"}, SetStatus(status)
  PROVE  ref' \in Ref /\ adopted' \in Adoption
<1>1. OnStatus(status) \in Adoption
  BY DEF OnStatus, Adoption
<1> QED
  BY <1>1 DEF SetStatus, Ref

LEMMA EndRevivalType ==
  ASSUME call \in Calls, held \in Handed, NEW o \in {"got", "failed"}, NEW s \in 0..MaxSessions,
         EndRevival(o, s)
  PROVE  revival' \in Revival /\ call' \in Calls /\ held' \in Handed
BY ConstantTypes DEF EndRevival, Calls, Handed

LEMMA EnsureLiveType ==
  ASSUME ref \in Ref, revival \in Revival, call \in Calls, held \in Handed,
         NEW c \in Callers, EnsureLive(c)
  PROVE  revival' \in Revival /\ call' \in Calls /\ held' \in Handed
<1>1. revival' \in Revival
  BY ConstantTypes DEF EnsureLive, NoRevival, Revival
<1>2. call' \in Calls /\ held' \in Handed
  BY ConstantTypes DEF EnsureLive, Settle, Ref, Calls, Handed
<1> QED
  BY <1>1, <1>2

LEMMA InitType == BusInit => TypeOK
BY BoundsAssumption, MailboxAssumption, CallersAssumption
   DEF BusInit, Init, TypeOK, Sessions, Unadopted, NoRevival

\* What the bus adds is left alone by every step of the lifecycle's own.
LEMMA PromptTurn ==
  ASSUME NEW c, Prompt(c), turn \in [Sessions -> {"none", "preflight", "seen", "unseen"}]
  PROVE  turn' \in [Sessions -> {"none", "preflight", "seen", "unseen"}]
<1> DEFINE started == IF turn[held[c]] = "none" THEN "preflight" ELSE turn[held[c]]
<1>1. turn' = [turn EXCEPT ![held[c]] = started]
  BY DEF Prompt
<1>2. held[c] \in Sessions => started \in {"none", "preflight", "seen", "unseen"}
  OBVIOUS
<1> HIDE DEF started
<1> QED
  BY <1>1, <1>2

LEMMA LifeType ==
  ASSUME TypeInv, LifeStep \/ ChatStep, UNCHANGED busVars
  PROVE  TypeOK'
<1> USE BoundsAssumption DEF TypeInv, TypeOK, busVars, NoRef, Unadopted, NoRevival, Sessions
<1>1. CASE FinishRun
  <2> USE ConstantTypes DEF Ref, Adoption
  <2>1. CASE FinishAborted
    BY <1>1, <2>1 DEF FinishRun, FinishAborted
  <2>2. CASE FinishOneShot
    BY <1>1, <2>2 DEF FinishRun, FinishOneShot
  <2>3. CASE FinishIsolated
    BY <1>1, <2>3 DEF FinishRun, FinishIsolated
  <2>4. CASE FinishKept
    BY <1>1, <2>4 DEF FinishRun, FinishKept
  <2>5. CASE FinishGone
    BY <1>1, <2>5 DEF FinishRun, FinishGone
  <2> QED
    BY <1>1, <2>1, <2>2, <2>3, <2>4, <2>5 DEF FinishRun
<1>2. ASSUME NEW s \in Sessions, StartTurn(s)
      PROVE  TypeOK'
  BY <1>2, SetStatusType DEF StartTurn, Ref, Adoption
<1>3. ASSUME NEW s \in Sessions, EndTurn(s)
      PROVE  TypeOK'
  BY <1>3, SetStatusType DEF EndTurn, Ref, Adoption
<1>4. ASSUME NEW s \in Sessions, EndDispose(s)
      PROVE  TypeOK'
  <2>1. ref' \in Ref /\ adopted' \in Adoption
    BY <1>4, ConstantTypes DEF EndDispose, AfterDispose, Unregister, Ref, Adoption
  <2> QED
    BY <1>4, <2>1 DEF EndDispose, Ref, Adoption
<1>5. CASE Park
  <2>1. adopted' \in Adoption
    BY <1>5 DEF Park, Adoption
  <2>2. parking' \in 0..MaxSessions
    BY <1>5 DEF Park
  <2>3. live' \in [Sessions -> {"unused", "building", "open", "disposing", "closed"}]
    <3>1. live' = live \/ live' = [live EXCEPT ![ref.session] = "disposing"]
      BY <1>5 DEF Park
    <3> QED
      BY <3>1
  <2> QED
    BY <1>5, <2>1, <2>2, <2>3 DEF Park, Adoption
<1>6. CASE Release
  <2>1. ref' \in Ref /\ adopted' \in Adoption
    BY <1>6, ConstantTypes DEF Release, Ref, Adoption
  <2> QED
    <3>1. live' \in [Sessions -> {"unused", "building", "open", "disposing", "closed"}]
      BY <1>6 DEF Release
    <3>2. releases' \in 0..MaxReleases
      BY <1>6 DEF Release
    <3>3. UNCHANGED teardown /\ killing' \in 0..MaxSessions
      BY <1>6 DEF Release
    <3> QED
      BY <1>6, <2>1, <3>1, <3>2, <3>3 DEF Release, Ref, Adoption
<1>7. CASE FactoryReturns
  <2>1. CASE EndRevival("failed", 0) /\ UNCHANGED adopted
    <3>1. revival' \in Revival /\ call' \in Calls /\ held' \in Handed
      BY <2>1, EndRevivalType, ConstantTypes DEF Calls, Handed
    <3> QED
      BY <1>7, <2>1, <3>1 DEF FactoryReturns, Revival, Calls, Handed
  <2>2. CASE /\ adopted' = [on |-> TRUE, timer |-> FALSE]
             /\ revival' = [revival EXCEPT !.step = "opening", !.cold = TRUE]
             /\ UNCHANGED <<call, held>>
    <3>1. revival' \in Revival
      BY <2>2 DEF Revival
    <3>2. adopted' \in Adoption
      BY <2>2 DEF Adoption
    <3> QED
      BY <1>7, <2>2, <3>1, <3>2 DEF FactoryReturns, Revival, Adoption
  <2> QED
    BY <1>7, <2>1, <2>2 DEF FactoryReturns
<1>8. CASE RegisterRevived
  <2>1. PICK s \in Unused : /\ revival' = [revival EXCEPT !.step = "building", !.session = s]
                            /\ live' = [live EXCEPT ![s] = "building"]
    BY <1>8 DEF RegisterRevived
  <2>2. revival' \in Revival
    BY <2>1, ConstantTypes DEF Revival, Unused
  <2>3. ref' \in Ref
    BY <1>8, ConstantTypes DEF RegisterRevived, Ref
  <2> QED
    BY <1>8, <2>1, <2>2, <2>3 DEF RegisterRevived, Ref, Revival, Unused
<1>9. CASE AttachRevived
  BY <1>9 DEF AttachRevived, AttachSession
<1>10. CASE FinishRevival
  <2>1. ref' \in Ref
    BY <1>10 DEF FinishRevival, Ref
  <2>2. adopted' \in Adoption
    BY <1>10 DEF FinishRevival, OnStatus, Adoption
  <2>3. revival' \in Revival /\ call' \in Calls /\ held' \in Handed
    BY <1>10, EndRevivalType, ConstantTypes DEF FinishRevival, Revival, Calls, Handed
  <2>4. synced' \subseteq Sessions
    BY <1>10 DEF FinishRevival, TypeInv, Made
  <2> QED
    BY <1>10, <2>1, <2>2, <2>3, <2>4 DEF FinishRevival, Ref, Adoption, Revival, Calls, Handed
<1>11. CASE ReviveFails
  <2>1. ref' \in {ref, NoRef} /\ adopted' \in {adopted, Unadopted}
    BY <1>11 DEF ReviveFails, OpenFails, BuildFails, RestoreFails, Dropped, Unregister
  <2>2. revival' \in Revival /\ call' \in Calls /\ held' \in Handed
    BY <1>11, EndRevivalType, ConstantTypes DEF ReviveFails, Revival, Calls, Handed
  <2>3. live' \in [Sessions -> {"unused", "building", "open", "disposing", "closed"}]
    BY <1>11 DEF ReviveFails, OpenFails, BuildFails, RestoreFails
  <2>4. ref' \in Ref /\ adopted' \in Adoption
    BY <2>1, ConstantTypes DEF Ref, Adoption
  <2> QED
    BY <1>11, <2>2, <2>3, <2>4 DEF ReviveFails, Ref, Adoption, Revival, Calls, Handed
<1>12. ASSUME NEW c \in Chatters, Ask(c)
       PROVE  TypeOK'
  <2>1. revival' \in Revival /\ call' \in Calls /\ held' \in Handed
    BY <1>12, CallersAssumption, EnsureLiveType DEF Ask, Ref, Revival, Calls, Handed
  <2> QED
    BY <1>12, <2>1 DEF Ask, Revival, Calls, Handed
<1>13. ASSUME NEW c \in Chatters, Prompt(c)
       PROVE  TypeOK'
  <2>1. turn' \in [Sessions -> {"none", "preflight", "seen", "unseen"}]
    BY ONLY <1>13, PromptTurn, TypeInv DEF TypeInv, TypeOK
  <2>2. call' \in Calls
    BY <1>13, CallersAssumption DEF Prompt, Calls
  <2> QED
    BY <1>13, <2>1, <2>2 DEF Prompt, Calls
<1> QED
  BY <1>1, <1>2, <1>3, <1>4, <1>5, <1>6, <1>7, <1>8, <1>9, <1>10, <1>11, <1>12, <1>13
     DEF LifeStep, ChatStep

LEMMA BusType ==
  ASSUME TypeOK, NEW c \in Senders, Send(c) \/ HandOff(c) \/ Answer(c) \/ WaitEnds(c)
  PROVE  TypeOK'
<1> USE DEF TypeOK
<1>1. CASE Send(c)
  <2>1. revival' \in Revival /\ call' \in Calls /\ held' \in Handed
    <3>1. CASE EnsureLive(c)
      BY <3>1, EnsureLiveType DEF Senders, Ref, Revival, Calls, Handed
    <3>2. CASE ~EnsureLive(c)
      <4>1. \E o \in {"got", "failed"} : Settle(c, o, 0)
        BY <1>1, <3>2 DEF Send
      <4>2. UNCHANGED revival
        BY <1>1, <3>2 DEF Send
      <4> QED
        BY <4>1, <4>2, ConstantTypes DEF Settle, Senders, Revival, Calls, Handed
    <3> QED
      BY <3>1, <3>2
  <2>2. asked' \subseteq Senders /\ wait' \in [Senders -> {"off", "on", "over"}]
    BY <1>1 DEF Send, ParkWaiter
  <2> QED
    BY <1>1, <2>1, <2>2 DEF Send, Revival, Calls, Handed
<1>2. CASE HandOff(c)
  <2>1. CASE ref.session = 0
    <3>1. HandOffFails(c) /\ UNCHANGED mailbox
      BY <1>2, <2>1 DEF HandOff
    <3>2. wait' \in [Senders -> {"off", "on", "over"}] /\ call' \in Calls
      BY <1>2, <3>1 DEF HandOff, HandOffFails, Calls
    <3> QED
      BY <1>2, <3>1, <3>2 DEF HandOff, HandOffFails, Calls
  <2>2. CASE ref.session # 0 /\ live[ref.session] = "open"
    <3>1. Deliver(c, ref.session) /\ ref.session \in Sessions
      BY <1>2, <2>2 DEF HandOff, Sessions
    <3>2. ref' \in Ref /\ adopted' \in Adoption
      BY <3>1, SetStatusType DEF Deliver, Ref, Adoption
    <3>3. turn' \in [Sessions -> {"none", "preflight", "seen", "unseen"}]
      BY <3>1 DEF Deliver
    <3>4. into' \in [Senders -> 0..MaxSessions] /\ call' \in Calls
      BY <1>2, <3>1 DEF HandOff, Deliver, Sessions, Calls
    <3> QED
      BY <1>2, <3>1, <3>2, <3>3, <3>4 DEF HandOff, Deliver, Ref, Adoption, Calls
  <2>3. CASE ref.session # 0 /\ live[ref.session] # "open"
    <3>1. HandOffFails(c) /\ Enqueue(c)
      BY <1>2, <2>3 DEF HandOff
    <3>2. mailbox' \in Seq(Senders) /\ Len(mailbox') <= MailboxCap
      BY <3>1, MailboxAssumption DEF Enqueue
    <3> QED
      BY <1>2, <3>1, <3>2 DEF HandOff, HandOffFails
  <2> QED
    BY <2>1, <2>2, <2>3
<1>3. CASE Answer(c)
  BY <1>3 DEF Answer, lifeVars
<1>4. CASE WaitEnds(c)
  BY <1>4 DEF WaitEnds, lifeVars
<1> QED
  BY <1>1, <1>2, <1>3, <1>4

LEMMA InboxType ==
  ASSUME TypeOK, NEW s \in Sessions, Inbox(s)
  PROVE  TypeOK'
BY MailboxAssumption DEF TypeOK, Inbox, lifeVars, Sessions

\* What may change a revival.
LEMMA RevivalChanges ==
  ASSUME [BusNext]_vars
  PROVE  \/ UNCHANGED revival
         \/ RegisterRevived \/ AttachRevived \/ FactoryReturns \/ FinishRevival \/ ReviveFails
         \/ \E c : EnsureLive(c)
<1>1. ASSUME LifeStep
      PROVE  \/ UNCHANGED revival
             \/ RegisterRevived \/ AttachRevived \/ FactoryReturns \/ FinishRevival \/ ReviveFails
  BY <1>1 DEF LifeStep, FinishRun, StartTurn, EndTurn, EndDispose, Park, Release
<1>2. ASSUME ChatStep
      PROVE  UNCHANGED revival \/ \E c : EnsureLive(c)
  BY <1>2 DEF ChatStep, Ask, Prompt
<1>3. ASSUME NEW c \in Senders, Send(c)
      PROVE  UNCHANGED revival \/ EnsureLive(c)
  BY <1>3 DEF Send
<1>4. ASSUME NEW c \in Senders, HandOff(c) \/ Answer(c) \/ WaitEnds(c)
      PROVE  UNCHANGED revival
  BY <1>4 DEF HandOff, Answer, WaitEnds, lifeVars
<1>5. ASSUME NEW s \in Sessions, Inbox(s)
      PROVE  UNCHANGED revival
  BY <1>5 DEF Inbox, lifeVars
<1> QED
  BY <1>1, <1>2, <1>3, <1>4, <1>5 DEF BusNext, vars, lifeVars

\* Only RegisterRevived names the session of a revival.
LEMMA MadeStep ==
  ASSUME TypeInv, [BusNext]_vars
  PROVE  (Made => revival.session \in Sessions)'
<1> SUFFICES ASSUME Made'
             PROVE  revival'.session \in Sessions
  BY DEF Sessions
<1>1. CASE RegisterRevived
  BY <1>1 DEF RegisterRevived, Unused, TypeInv, TypeOK
<1>2. CASE AttachRevived
  BY <1>2 DEF AttachRevived, TypeInv, TypeOK, Made
<1>3. CASE UNCHANGED revival
  BY <1>3 DEF TypeInv, Made
<1>4. CASE FactoryReturns \/ FinishRevival \/ ReviveFails
  <2>1. ASSUME NEW o, NEW s, EndRevival(o, s)
        PROVE  ~Made'
    BY <2>1 DEF EndRevival, NoRevival, Made
  <2>2. ASSUME revival' = [revival EXCEPT !.step = "opening", !.cold = TRUE]
        PROVE  ~Made'
    BY <2>2 DEF Made, TypeInv, TypeOK
  <2> QED
    BY <1>4, <2>1, <2>2 DEF FactoryReturns, FinishRevival, ReviveFails
<1>5. ASSUME NEW c, EnsureLive(c)
      PROVE  UNCHANGED revival \/ ~Made'
  BY <1>5 DEF EnsureLive, NoRevival, Made
<1>6. UNCHANGED revival \/ RegisterRevived \/ AttachRevived \/ FactoryReturns \/ FinishRevival
      \/ ReviveFails \/ \E c : EnsureLive(c)
  BY RevivalChanges
<1> QED
  BY <1>1, <1>2, <1>3, <1>4, <1>5, <1>6

LEMMA TypeStep == TypeInv /\ [BusNext]_vars => TypeInv'
<1> SUFFICES ASSUME TypeInv, [BusNext]_vars
             PROVE  TypeInv'
  OBVIOUS
<1>1. CASE UNCHANGED vars
  BY <1>1 DEF TypeInv, TypeOK, Made, vars, lifeVars, busVars
<1>2. TypeOK'
  BY <1>1, LifeType, BusType, InboxType DEF BusNext, TypeInv
<1> QED
  BY <1>2, MadeStep DEF TypeInv

\* Every reachable state is well typed; in particular the mailbox of an agent
\* never holds more than MailboxCap messages (IrcBus.#enqueue).
THEOREM TypeCorrect == Spec => []TypeOK
<1>1. BusInit => TypeInv
  BY InitType DEF BusInit, Init, TypeInv, Made, NoRevival
<1>2. TypeInv => TypeOK
  BY DEF TypeInv
<1> QED
  BY <1>1, <1>2, TypeStep, PTL DEF Spec

-----------------------------------------------------------------------------
(* Who may have the journal open.                                          *)

\* The sessions whose journal is open.
Active == {s \in Sessions : live[s] \in {"building", "open", "disposing"}}

\* A revival that has not made a session.
Unmade == revival.step \in {"factory", "opening"}

\* Before the end of the first run there is its session and nothing else,
\* which a kill alone may dispose of and remove.
FirstRun == teardown = "none" =>
    /\ revival = NoRevival /\ adopted = Unadopted
    /\ Registered => ref.session = 1
    /\ \A s \in Sessions : live[s] = "disposing" => killing # 0

\* The session on record is the only one that may be active.
OnRecord == ref.session # 0 => Active \subseteq {ref.session}

\* With none on record nothing is active, except what a revival is building.
NoneOnRecord == Registered /\ ref.session = 0 /\ revival.step # "building" => Active = {}

\* A revival starts from nothing, and then its own session is the only one.
FromNothing == Unmade => ref.session = 0 /\ Active = {}
OwnSession == Made =>
    /\ live[revival.session] # "unused"
    /\ Active \subseteq {revival.session}
    /\ ref.session \in {0, revival.session}

WriterInv == TypeInv /\ OneWriter /\ FirstRun /\ OnRecord /\ NoneOnRecord /\ FromNothing /\ OwnSession

LEMMA WriterInit == BusInit => WriterInv
<1> SUFFICES ASSUME BusInit
             PROVE  WriterInv
  OBVIOUS
<1>1. TypeInv
  BY InitType DEF BusInit, Init, TypeInv, Made, NoRevival
<1>2. Active \subseteq {1}
  BY DEF BusInit, Init, Active
<1>3. /\ ref.session = 1 /\ revival = NoRevival /\ adopted = Unadopted
      /\ \A s \in Sessions : live[s] # "disposing"
  BY DEF BusInit, Init
<1>4. OneWriter
  BY <1>2 DEF OneWriter, Active
<1> QED
  BY <1>1, <1>2, <1>3, <1>4 DEF WriterInv, FirstRun, OnRecord, NoneOnRecord, FromNothing, OwnSession,
     Made, Unmade, NoRevival

\* Sessions, revivals and the record are all it depends on.
LEMMA WriterKept ==
  ASSUME WriterInv, TypeInv', ref'.session = ref.session, Registered' = Registered,
         UNCHANGED <<teardown, killing, revival, live>>, adopted = Unadopted => adopted' = Unadopted
  PROVE  WriterInv'
<1>1. Active' = Active
  BY DEF Active
<1>2. OneWriter'
  BY DEF WriterInv, OneWriter
<1>3. FirstRun' /\ OnRecord' /\ NoneOnRecord' /\ FromNothing' /\ OwnSession'
  BY <1>1 DEF WriterInv, FirstRun, OnRecord, NoneOnRecord, FromNothing, OwnSession, Made, Unmade
<1> QED
  BY <1>2, <1>3 DEF WriterInv

LEMMA SetStatusKeeps ==
  ASSUME TypeInv, NEW status \in {"running", "idle"}, SetStatus(status)
  PROVE  /\ ref'.session = ref.session /\ Registered' = Registered
         /\ adopted = Unadopted => adopted' = Unadopted
<1>1. CASE UNCHANGED <<ref, adopted>>
  BY <1>1 DEF Registered
<1>2. CASE Registered /\ ref' = [ref EXCEPT !.status = status] /\ adopted' = OnStatus(status)
  <2>1. ref'.session = ref.session /\ ref'.status = status
    BY <1>2 DEF TypeInv, TypeOK
  <2>2. ref' # NoRef
    BY <2>1 DEF NoRef
  <2>3. ASSUME adopted = Unadopted  PROVE adopted' = Unadopted
    <3>1. ~adopted.on
      BY <2>3 DEF Unadopted
    <3>2. (/\ adopted.on /\ status # "running" /\ (status = "idle" \/ adopted.timer)) = FALSE
      BY <3>1
    <3>3. adopted' = [adopted EXCEPT !.timer = FALSE]
      BY <1>2, <3>2 DEF OnStatus
    <3> QED
      BY <2>3, <3>3 DEF Unadopted
  <2> QED
    BY <1>2, <2>1, <2>2, <2>3 DEF Registered
<1> QED
  BY <1>1, <1>2 DEF SetStatus

\* At most one session is active, x or none: what most steps leave behind.
LEMMA OneActive ==
  ASSUME NEW x, Active' \subseteq {x}
  PROVE  OneWriter'
BY DEF OneWriter, Active

\* A disposal that begins: of the session on record, which is a revival's own.
LEMMA DisposalBegins ==
  ASSUME WriterInv, TypeInv', ref.session # 0, UNCHANGED <<ref, revival, teardown>>,
         teardown # "none" \/ (killing' # 0 /\ adopted' = Unadopted), live' = [live EXCEPT ![ref.session] = "disposing"]
  PROVE  WriterInv'
<1> USE DEF WriterInv
<1>1. Active' \subseteq {ref.session}
  BY DEF Active, OnRecord
<1>2. OneWriter'
  BY <1>1, OneActive
<1>3. FirstRun' /\ OnRecord' /\ NoneOnRecord' /\ FromNothing'
  BY <1>1 DEF FirstRun, OnRecord, NoneOnRecord, FromNothing, Unmade, Registered
<1>4. OwnSession'
  BY <1>1 DEF OwnSession, Made, TypeInv, TypeOK
<1> QED
  BY <1>2, <1>3, <1>4

\* With nothing active and nothing on record, a revival may be anywhere but building.
LEMMA NothingActive ==
  ASSUME TypeInv', Active' = {}, ref'.session = 0, teardown' # "none" \/ FirstRun',
         Made' => revival'.session \in Sessions /\ live'[revival'.session] # "unused"
  PROVE  WriterInv'
<1>1. OneWriter'
  BY DEF OneWriter, Active
<1> QED
  BY <1>1 DEF WriterInv, FirstRun, OnRecord, NoneOnRecord, FromNothing, OwnSession

\* A revival that ends leaves its session on record, or nothing active, or an
\* agent that is not registered any more.
LEMMA RevivalEnds ==
  ASSUME WriterInv, TypeInv', revival' = NoRevival, teardown' # "none", NEW x \in Sessions,
         Active' \subseteq {x}, ref'.session \in {0, x},
         ref'.session = 0 => Active' = {} \/ ~Registered'
  PROVE  WriterInv'
<1>1. OneWriter'
  BY OneActive
<1> QED
  BY <1>1 DEF WriterInv, FirstRun, OnRecord, NoneOnRecord, FromNothing, OwnSession, Made, Unmade, NoRevival

LEMMA WriterFinish == WriterInv /\ TypeInv' /\ FinishRun => WriterInv'
<1> SUFFICES ASSUME WriterInv, TypeInv', FinishRun
             PROVE  WriterInv'
  OBVIOUS
<1>1. teardown = "none" /\ teardown' # "none" /\ revival = NoRevival
  BY DEF WriterInv, FirstRun, FinishRun, FinishAborted, FinishOneShot, FinishIsolated, FinishKept, FinishGone
<1>2. CASE Registered
  <2> USE <1>2
  <2>1. ref.session = 1
    BY <1>1 DEF WriterInv, FirstRun
  <2>2. Active \subseteq {1}
    BY <2>1 DEF WriterInv, OnRecord
  <2>3. live' = live \/ live' = [live EXCEPT ![1] = "disposing"]
    BY DEF FinishRun, FinishAborted, FinishOneShot, FinishIsolated, FinishKept
  <2>4. Active' \subseteq {1}
    BY <2>2, <2>3 DEF Active, WriterInv, TypeInv, TypeOK
  <2>5. ref'.session = 1 /\ revival' = NoRevival
    BY <1>1, <2>1 DEF FinishRun, FinishAborted, FinishOneShot, FinishIsolated, FinishKept, WriterInv, TypeInv, TypeOK
  <2> QED
    BY <1>1, <2>4, <2>5, RevivalEnds, ConstantTypes
<1>3. CASE ~Registered
  <2>1. UNCHANGED <<ref, adopted, live, revival>>
    BY <1>3 DEF FinishRun, FinishGone
  <2>2. Active' = Active /\ OneWriter' /\ FirstRun'
    BY <1>1, <2>1 DEF Active, WriterInv, OneWriter, FirstRun
  <2> QED
    BY <2>1, <2>2 DEF WriterInv, OnRecord, NoneOnRecord, FromNothing, OwnSession, Made, Unmade, Registered
<1> QED
  BY <1>2, <1>3

LEMMA WriterDisposed == ASSUME NEW s \in Sessions, WriterInv, TypeInv', EndDispose(s) PROVE WriterInv'
<1>1. \A t \in Sessions : t \in Active => t = s
  BY DEF EndDispose, WriterInv, OneWriter, Active
<1>2. Active' = {}
  BY <1>1 DEF EndDispose, Active, WriterInv, TypeInv, TypeOK
<1>3. ref'.session = 0
  BY DEF EndDispose, AfterDispose, Unregister, NoRef
<1>4. revival' = revival
  BY DEF EndDispose
<1>5. teardown' # "none" \/ FirstRun'
  <2>1. ASSUME teardown = "none" PROVE killing # 0 /\ revival = NoRevival /\ adopted = Unadopted
    BY <2>1 DEF EndDispose, WriterInv, FirstRun
  <2>2. ASSUME teardown = "none" PROVE ~Registered' /\ adopted' = Unadopted
    BY <2>1, <2>2 DEF EndDispose, AfterDispose, Unregister, Registered
  <2>3. \A t \in Sessions : live'[t] # "disposing"
    BY <1>2 DEF Active
  <2> QED
    BY <1>4, <2>1, <2>2, <2>3 DEF EndDispose, FirstRun
<1>6. Made' => revival'.session \in Sessions /\ live'[revival'.session] # "unused"
  BY <1>4 DEF EndDispose, WriterInv, OwnSession, Made, TypeInv, TypeOK
<1> QED
  BY <1>2, <1>3, <1>4, <1>5, <1>6, NothingActive

LEMMA WriterPark == WriterInv /\ TypeInv' /\ Park => WriterInv'
<1> SUFFICES ASSUME WriterInv, TypeInv', Park
             PROVE  WriterInv'
  OBVIOUS
<1>1. teardown # "none" /\ ref' = ref /\ UNCHANGED <<teardown, killing, revival>>
  BY DEF Park, WriterInv, FirstRun, Unadopted
<1>2. CASE ref.session = 0
  <2>1. live' = live /\ (adopted = Unadopted => adopted' = Unadopted)
    BY <1>2 DEF Park, Unadopted
  <2> QED
    BY <1>1, <2>1, WriterKept DEF Registered
<1>3. CASE ref.session # 0
  <2>1. live' = [live EXCEPT ![ref.session] = "disposing"]
    BY <1>3 DEF Park
  <2> QED
    BY <1>1, <1>3, <2>1, DisposalBegins
<1> QED
  BY <1>2, <1>3

LEMMA WriterRelease == WriterInv /\ TypeInv' /\ Release => WriterInv'
<1> SUFFICES ASSUME WriterInv, TypeInv', Release
             PROVE  WriterInv'
  OBVIOUS
<1>1. UNCHANGED <<revival, teardown>> /\ adopted' = Unadopted
  BY DEF Release
<1>2. CASE ref.session # 0
  BY <1>1, <1>2, DisposalBegins DEF Release
<1>3. CASE ref.session = 0
  <2>1. ref' = NoRef /\ UNCHANGED <<live, killing>>
    BY <1>3 DEF Release
  <2>2. Active' = Active /\ OneWriter'
    BY <2>1 DEF Active, OneWriter, WriterInv
  <2> QED
    BY <1>1, <2>1, <2>2 DEF WriterInv, FirstRun, OnRecord, NoneOnRecord, FromNothing, OwnSession, Made,
       Unmade, Registered, NoRef
<1> QED
  BY <1>2, <1>3

LEMMA WriterFactory == WriterInv /\ TypeInv' /\ FactoryReturns => WriterInv'
<1> SUFFICES ASSUME WriterInv, TypeInv', FactoryReturns
             PROVE  WriterInv'
  OBVIOUS
<1>1. Unmade /\ revival # NoRevival /\ UNCHANGED <<ref, live, teardown>>
  BY DEF FactoryReturns, Unmade, NoRevival
<1>2. teardown # "none" /\ ref.session = 0 /\ Active = {}
  BY <1>1 DEF WriterInv, FirstRun, FromNothing
<1>3. Active' = {}
  BY <1>1, <1>2 DEF Active
<1>4. ~Made'
  <2>1. CASE revival' = [revival EXCEPT !.step = "opening", !.cold = TRUE]
    BY <2>1 DEF Made, WriterInv, TypeInv, TypeOK
  <2>2. CASE EndRevival("failed", 0)
    BY <2>2 DEF EndRevival, NoRevival, Made
  <2> QED
    BY <2>1, <2>2 DEF FactoryReturns
<1> QED
  BY <1>1, <1>2, <1>3, <1>4, NothingActive

LEMMA WriterRegister == WriterInv /\ TypeInv' /\ RegisterRevived => WriterInv'
<1> SUFFICES ASSUME WriterInv, TypeInv', RegisterRevived
             PROVE  WriterInv'
  OBVIOUS
<1>1. Unmade /\ revival # NoRevival /\ teardown' = teardown
  BY DEF RegisterRevived, Unmade, NoRevival
<1>2. teardown # "none" /\ Active = {}
  BY <1>1 DEF WriterInv, FirstRun, FromNothing
<1>3. PICK s \in Unused : /\ revival' = [revival EXCEPT !.step = "building", !.session = s]
                          /\ live' = [live EXCEPT ![s] = "building"]
  BY DEF RegisterRevived
<1>4. Active' \subseteq {s}
  BY <1>2, <1>3 DEF Active, Unused
<1>5. revival'.step = "building" /\ revival'.session = s /\ live'[s] = "building" /\ s \in Sessions
  BY <1>3 DEF WriterInv, TypeInv, TypeOK, Unused
<1>6. ref'.session = 0
  BY DEF RegisterRevived
<1>7. OneWriter'
  BY <1>4, OneActive
<1> QED
  BY <1>1, <1>2, <1>4, <1>5, <1>6, <1>7
     DEF WriterInv, FirstRun, OnRecord, NoneOnRecord, FromNothing, OwnSession, Made, Unmade

LEMMA WriterAttach == WriterInv /\ TypeInv' /\ AttachRevived => WriterInv'
<1> SUFFICES ASSUME WriterInv, TypeInv', AttachRevived
             PROVE  WriterInv'
  OBVIOUS
<1> DEFINE rs == revival.session
<1>1. Made /\ revival # NoRevival /\ teardown' = teardown
  BY DEF AttachRevived, Made, NoRevival
<1>2. teardown # "none" /\ rs \in Sessions /\ Active \subseteq {rs} /\ ref.session \in {0, rs}
  BY <1>1 DEF WriterInv, FirstRun, OwnSession, TypeInv
<1>3. Active' \subseteq {rs}
  BY <1>2 DEF AttachRevived, Active, WriterInv, TypeInv, TypeOK
<1>4. revival'.session = rs /\ revival'.step = "attached" /\ live'[rs] = "open"
  BY <1>2 DEF AttachRevived, WriterInv, TypeInv, TypeOK
<1>5. ref'.session \in {0, rs} /\ (ref'.session = 0 => ~Registered')
  BY <1>2 DEF AttachRevived, AttachSession, Registered, NoRef, Sessions, WriterInv, TypeInv, TypeOK
<1>6. OneWriter'
  BY <1>3, OneActive
<1> QED
  BY <1>1, <1>2, <1>3, <1>4, <1>5, <1>6
     DEF WriterInv, FirstRun, OnRecord, NoneOnRecord, FromNothing, OwnSession, Made, Unmade

LEMMA WriterRevived == WriterInv /\ TypeInv' /\ (FinishRevival \/ ReviveFails) => WriterInv'
<1> SUFFICES ASSUME WriterInv, TypeInv', FinishRevival \/ ReviveFails
             PROVE  WriterInv'
  OBVIOUS
<1>1. revival # NoRevival /\ revival' = NoRevival /\ teardown' = teardown
  BY DEF FinishRevival, ReviveFails, OpenFails, BuildFails, RestoreFails, EndRevival, NoRevival
<1>2. teardown # "none"
  BY <1>1 DEF WriterInv, FirstRun
<1>3. CASE FinishRevival
  <2>1. /\ revival.session \in Sessions /\ Active \subseteq {revival.session}
    BY <1>3 DEF FinishRevival, Made, WriterInv, OwnSession, TypeInv
  <2>2. Active' \subseteq {revival.session}
    BY <1>3, <2>1 DEF FinishRevival, Active
  <2>3. ref'.session = revival.session \/ (ref' = NoRef /\ ref'.session = 0)
    BY <1>3 DEF FinishRevival, Registered, NoRef
  <2> QED
    BY <1>1, <1>2, <2>1, <2>2, <2>3, RevivalEnds DEF Registered, Sessions
<1>4. CASE ReviveFails /\ OpenFails
  <2>1. ref.session = 0 /\ Active = {}
    BY <1>4 DEF OpenFails, WriterInv, FromNothing, Unmade
  <2>2. Active' = {} /\ ref'.session = 0
    BY <1>4, <2>1 DEF OpenFails, Active
  <2> QED
    BY <1>1, <1>2, <2>2, RevivalEnds, ConstantTypes
<1>5. CASE ReviveFails /\ BuildFails
  <2>1. revival.session \in Sessions /\ Active \subseteq {revival.session}
    BY <1>5 DEF BuildFails, Made, WriterInv, OwnSession, TypeInv
  <2>2. Active' = {}
    BY <1>5, <2>1 DEF BuildFails, Active, WriterInv, TypeInv, TypeOK
  <2>3. ref'.session = 0
    BY <1>5 DEF BuildFails, Unregister, NoRef
  <2> QED
    BY <1>1, <1>2, <2>1, <2>2, <2>3, RevivalEnds
<1>6. CASE ReviveFails /\ RestoreFails
  <2>1. /\ revival.session \in Sessions /\ Active \subseteq {revival.session}
        /\ ref.session \in {0, revival.session} /\ revival.step = "attached"
    BY <1>6 DEF RestoreFails, Made, WriterInv, OwnSession, TypeInv
  <2>2. ref' = ref /\ Active' = Active
    BY <1>6 DEF RestoreFails, Active
  <2>3. ref.session = 0 => Active = {} \/ ~Registered
    BY <2>1 DEF WriterInv, NoneOnRecord
  <2> QED
    BY <1>1, <1>2, <2>1, <2>2, <2>3, RevivalEnds DEF Registered
<1> QED
  BY <1>3, <1>4, <1>5, <1>6 DEF ReviveFails

\* Asking for a live session, as a caller or to send a message.
LEMMA WriterAsk ==
  ASSUME WriterInv, TypeInv', NEW c, EnsureLive(c), UNCHANGED <<ref, adopted, teardown, killing, live>>
  PROVE  WriterInv'
<1>1. CASE revival' = revival
  BY <1>1, WriterKept DEF Registered
<1>2. CASE revival' # revival
  <2>1. Registered /\ ref.session = 0 /\ revival = NoRevival /\ revival'.step \in {"opening", "factory"}
    BY <1>2 DEF EnsureLive, NoRevival
  <2>2. Active = {} /\ teardown # "none"
    BY <2>1 DEF WriterInv, NoneOnRecord, FirstRun, NoRevival
  <2>3. Active' = {} /\ ref'.session = 0 /\ teardown' # "none" /\ ~Made'
    BY <2>1, <2>2 DEF Active, Made
  <2> QED
    BY <2>3, NothingActive
<1> QED
  BY <1>1, <1>2

LEMMA WriterBus == ASSUME NEW c \in Senders, WriterInv, TypeInv', HandOff(c) PROVE WriterInv'
<1>1. UNCHANGED <<teardown, killing, revival, live>>
  BY DEF HandOff
<1>2. UNCHANGED <<ref, adopted>> \/ SetStatus("running")
  BY DEF HandOff, HandOffFails, Deliver
<1> QED
  BY <1>1, <1>2, WriterKept, SetStatusKeeps DEF WriterInv, Registered

LEMMA WriterStep == WriterInv /\ [BusNext]_vars => WriterInv'
<1> SUFFICES ASSUME WriterInv, [BusNext]_vars
             PROVE  WriterInv'
  OBVIOUS
<1>1. TypeInv'
  BY TypeStep DEF WriterInv
<1>2. CASE LifeStep
  <2>1. ASSUME NEW s \in Sessions, StartTurn(s) \/ EndTurn(s)
        PROVE  WriterInv'
    <3>1. UNCHANGED <<teardown, killing, revival, live>>
      BY <2>1 DEF StartTurn, EndTurn
    <3>2. UNCHANGED <<ref, adopted>> \/ \E status \in {"running", "idle"} : SetStatus(status)
      BY <2>1 DEF StartTurn, EndTurn
    <3> QED
      BY <1>1, <3>1, <3>2, WriterKept, SetStatusKeeps DEF WriterInv, Registered
  <2> QED
    BY <1>1, <1>2, <2>1, WriterFinish, WriterDisposed, WriterPark, WriterRelease, WriterFactory,
       WriterRegister, WriterAttach, WriterRevived DEF LifeStep
<1>3. ASSUME NEW c, Ask(c) \/ Prompt(c)
      PROVE  WriterInv'
  <2>1. CASE Ask(c)
    BY <1>1, <2>1, WriterAsk DEF Ask
  <2>2. CASE Prompt(c)
    BY <1>1, <2>2, WriterKept DEF Prompt, Registered
  <2> QED
    BY <1>3, <2>1, <2>2
<1>4. ASSUME NEW c \in Senders, Send(c)
      PROVE  WriterInv'
  <2>1. UNCHANGED <<ref, adopted, teardown, killing, live>> /\ (EnsureLive(c) \/ revival' = revival)
    BY <1>4 DEF Send
  <2> QED
    BY <1>1, <2>1, WriterAsk, WriterKept DEF Registered
<1>5. CASE UNCHANGED lifeVars
  BY <1>1, <1>5, WriterKept DEF lifeVars, Registered
<1>6. ASSUME NEW c \in Senders, Answer(c) \/ WaitEnds(c)
      PROVE  UNCHANGED lifeVars
  BY <1>6 DEF Answer, WaitEnds
<1>7. ASSUME NEW s \in Sessions, Inbox(s)
      PROVE  UNCHANGED lifeVars
  BY <1>7 DEF Inbox
<1>8. UNCHANGED vars => UNCHANGED lifeVars
  BY DEF vars
<1> QED
  BY <1>1, <1>2, <1>3, <1>4, <1>5, <1>6, <1>7, <1>8, WriterBus DEF BusNext, ChatStep

\* However parking, revivals, kills, failures and messages interleave, at most one
\* session of the agent has its journal open (agent-lifecycle.ts park and
\* ensureLive, sdk.ts createAgentSession).
THEOREM SingleWriter == Spec => []OneWriter
<1>1. WriterInv => OneWriter
  BY DEF WriterInv
<1> QED
  BY <1>1, WriterInit, WriterStep, PTL DEF Spec

-----------------------------------------------------------------------------
(* What the timer knows of turns.                                          *)

\* Only a session whose events are wired is in a visible turn, and a revival
\* wires its session last.
SeenIsSynced == \A s \in Sessions : turn[s] = "seen" => s \in synced
SyncedIsUsed == \A s \in synced : live[s] # "unused"
WiredLast == Made => revival.session \notin synced

\* A running agent has no timer, unless a revival has not wired it yet.
RunningHasNone == adopted.timer /\ ref.status = "running" => ref.session = 0 \/ ref.session \notin synced

\* An armed timer is never over a visible turn.
TimerSpares == adopted.timer /\ ref.session # 0 => turn[ref.session] # "seen"

TimerInv == WriterInv /\ SeenIsSynced /\ SyncedIsUsed /\ WiredLast /\ RunningHasNone /\ TimerSpares

LEMMA TimerInit == BusInit => TimerInv
<1> SUFFICES ASSUME BusInit
             PROVE  TimerInv
  OBVIOUS
<1>1. WriterInv
  BY WriterInit
<1>2. /\ synced = {1} /\ ~adopted.timer /\ revival.step = "none"
      /\ live = [s \in Sessions |-> IF s = 1 THEN "open" ELSE "unused"]
      /\ turn = [s \in Sessions |-> IF s = 1 THEN "seen" ELSE "none"]
  BY DEF BusInit, Init, Unadopted, NoRevival
<1> QED
  BY <1>1, <1>2, ConstantTypes
     DEF TimerInv, SeenIsSynced, SyncedIsUsed, WiredLast, RunningHasNone, TimerSpares, Made

\* A step that wires nothing, shows no turn and arms no timer keeps it.
LEMMA TimerKept ==
  ASSUME TimerInv, WriterInv', synced' = synced,
         \A s \in Sessions : turn'[s] = "seen" => turn[s] = "seen",
         \A s \in Sessions : live[s] # "unused" => live'[s] # "unused",
         Made' => Made /\ revival'.session = revival.session,
         adopted'.timer => /\ adopted.timer
                           /\ \/ ref'.session = 0
                              \/ /\ ref'.session = ref.session
                                 /\ ref'.status = "running" => ref.status = "running"
  PROVE  TimerInv'
<1>1. SeenIsSynced' /\ WiredLast'
  BY DEF TimerInv, SeenIsSynced, WiredLast
<1>2. SyncedIsUsed'
  BY DEF TimerInv, SyncedIsUsed, WriterInv, TypeInv, TypeOK
<1>3. RunningHasNone'
  BY DEF TimerInv, RunningHasNone
<1>4. TimerSpares'
  BY DEF TimerInv, TimerSpares, WriterInv, TypeInv, TypeOK, Sessions
<1> QED
  BY <1>1, <1>2, <1>3, <1>4 DEF TimerInv

\* What SetStatus does, case by case.
LEMMA SetStatusCases ==
  ASSUME TypeInv, NEW status \in {"running", "idle"}, SetStatus(status)
  PROVE  /\ ref'.session = ref.session
         /\ \/ ref = NoRef /\ UNCHANGED <<ref, adopted>>
            \/ ref.status = status /\ UNCHANGED <<ref, adopted>>
            \/ ref'.status = status /\ (status = "running" => ~adopted'.timer)
<1>1. CASE Registered /\ ref.status # status
  <2>1. ref' = [ref EXCEPT !.status = status] /\ adopted' = OnStatus(status)
    BY <1>1 DEF SetStatus
  <2>2. ref'.session = ref.session /\ ref'.status = status
    BY <2>1 DEF TypeInv, TypeOK
  <2>3. status = "running" => ~adopted'.timer
    BY <2>1 DEF OnStatus, TypeInv, TypeOK
  <2> QED
    BY <2>2, <2>3
<1>2. CASE ~(Registered /\ ref.status # status)
  BY <1>2 DEF SetStatus, Registered
<1> QED
  BY <1>1, <1>2

\* A turn that the registry sees begins.
LEMMA TurnShown ==
  ASSUME TimerInv, WriterInv', UNCHANGED <<live, revival, synced>>, NEW s \in synced,
         turn' = [turn EXCEPT ![s] = "seen"], SetStatus("running")
  PROVE  TimerInv'
<1>1. SeenIsSynced' /\ SyncedIsUsed' /\ WiredLast'
  BY DEF TimerInv, SeenIsSynced, SyncedIsUsed, WiredLast, Made, WriterInv, TypeInv, TypeOK
<1>2. /\ ref'.session = ref.session
      /\ \/ ref = NoRef /\ UNCHANGED <<ref, adopted>>
         \/ ref.status = "running" /\ UNCHANGED <<ref, adopted>>
         \/ ref'.status = "running" /\ ~adopted'.timer
  BY SetStatusCases DEF TimerInv, WriterInv
<1>3. RunningHasNone'
  BY <1>2 DEF TimerInv, RunningHasNone
<1>4. TimerSpares'
  BY <1>2 DEF TimerInv, TimerSpares, RunningHasNone, NoRef, WriterInv, TypeInv, TypeOK, Sessions
<1> QED
  BY <1>1, <1>3, <1>4 DEF TimerInv

LEMMA TimerTurns ==
  ASSUME TimerInv, WriterInv', NEW s \in Sessions, StartTurn(s) \/ EndTurn(s)
  PROVE  TimerInv'
<1>1. UNCHANGED <<live, revival, synced>>
  BY DEF StartTurn, EndTurn
<1>2. CASE StartTurn(s) /\ Heard(s)
  BY <1>1, <1>2, TurnShown DEF StartTurn, Heard
<1>3. CASE (StartTurn(s) \/ EndTurn(s)) /\ ~Heard(s)
  <2>1. UNCHANGED <<ref, adopted>> /\ \A t \in Sessions : turn'[t] = "seen" => turn[t] = "seen"
    BY <1>3 DEF StartTurn, EndTurn, TimerInv, WriterInv, TypeInv, TypeOK
  <2> QED
    BY <1>1, <2>1, TimerKept DEF Made
<1>4. CASE EndTurn(s) /\ Heard(s)
  <2>1. turn' = [turn EXCEPT ![s] = "none"] /\ SetStatus("idle")
    BY <1>4 DEF EndTurn
  <2>2. \A t \in Sessions : turn'[t] = "seen" => turn[t] = "seen"
    BY <2>1 DEF TimerInv, WriterInv, TypeInv, TypeOK
  <2>3. CASE UNCHANGED <<ref, adopted>>
    BY <1>1, <2>2, <2>3, TimerKept DEF Made
  <2>4. CASE ref'.session = ref.session /\ ref'.status = "idle"
    <3>1. SeenIsSynced' /\ SyncedIsUsed' /\ WiredLast'
      BY <1>1, <2>2 DEF TimerInv, SeenIsSynced, SyncedIsUsed, WiredLast, Made
    <3>2. RunningHasNone'
      BY <2>4 DEF RunningHasNone
    <3>3. s \in Active
      BY <1>4 DEF Heard, Active, TimerInv, SyncedIsUsed, WriterInv, TypeInv, TypeOK
    <3>4. ref.session # 0 => ref.session = s
      BY <3>3 DEF TimerInv, WriterInv, OnRecord
    <3>5. TimerSpares'
      BY <2>1, <2>4, <3>4 DEF TimerSpares, TimerInv, WriterInv, TypeInv, TypeOK
    <3> QED
      BY <3>1, <3>2, <3>5 DEF TimerInv
  <2> QED
    BY <2>1, <2>3, <2>4, SetStatusCases DEF TimerInv, WriterInv
<1> QED
  BY <1>2, <1>3, <1>4

LEMMA TimerFinish == TimerInv /\ WriterInv' /\ FinishRun => TimerInv'
<1> SUFFICES ASSUME TimerInv, WriterInv', FinishRun
             PROVE  TimerInv'
  OBVIOUS
<1>1. /\ teardown = "none" /\ ~adopted.timer /\ UNCHANGED <<revival, synced>>
      /\ Registered => ref.session = 1
  BY DEF FinishRun, TimerInv, WriterInv, FirstRun, Unadopted
<1>2. \A s \in Sessions : live[s] # "unused" => live'[s] # "unused"
  BY DEF FinishRun, FinishAborted, FinishOneShot, FinishIsolated, FinishKept, FinishGone, TimerInv, WriterInv,
     TypeInv, TypeOK
<1>3. CASE FinishAborted \/ FinishOneShot \/ FinishIsolated \/ FinishGone
  BY <1>1, <1>2, <1>3, TimerKept DEF FinishAborted, FinishOneShot, FinishIsolated, FinishGone, Made
<1>4. CASE Registered /\ FinishKept
  <2>1. ref'.session = 1 /\ ref'.status = "idle" /\ turn'[1] # "seen"
    BY <1>1, <1>4, ConstantTypes DEF FinishKept, TimerInv, WriterInv, TypeInv, TypeOK
  <2>2. \A s \in Sessions : turn'[s] = "seen" => turn[s] = "seen"
    BY <1>4 DEF FinishKept, TimerInv, WriterInv, TypeInv, TypeOK
  <2>3. SeenIsSynced' /\ WiredLast'
    BY <1>1, <2>2 DEF TimerInv, SeenIsSynced, WiredLast, Made
  <2>4. SyncedIsUsed'
    BY <1>1, <1>2 DEF TimerInv, SyncedIsUsed, WriterInv, TypeInv, TypeOK
  <2> QED
    BY <2>1, <2>3, <2>4 DEF TimerInv, RunningHasNone, TimerSpares
<1> QED
  BY <1>3, <1>4 DEF FinishRun

\* The steps after which no timer is armed that was not.
LEMMA TimerDisposal ==
  ASSUME TimerInv, WriterInv', Park \/ Release \/ \E s \in Sessions : EndDispose(s)
  PROVE  TimerInv'
<1> USE DEF TimerInv, WriterInv, TypeInv, TypeOK
<1>1. UNCHANGED <<turn, synced, revival>>
  BY DEF Park, Release, EndDispose
<1>2. \A s \in Sessions : live[s] # "unused" => live'[s] # "unused"
  BY DEF Park, Release, EndDispose
<1>3. CASE Park
  <2>1. ~adopted'.timer
    BY <1>3 DEF Park
  <2> QED
    BY <1>1, <1>2, <2>1, TimerKept DEF Made
<1>4. CASE Release
  <2>1. ~adopted'.timer
    BY <1>4 DEF Release, Unregister, Unadopted
  <2> QED
    BY <1>1, <1>2, <2>1, TimerKept DEF Made
<1>5. ASSUME NEW s \in Sessions, EndDispose(s)
      PROVE  TimerInv'
  <2>1. ref'.session = 0 /\ (adopted'.timer => adopted.timer)
    BY <1>5 DEF EndDispose, AfterDispose, Unregister, NoRef, Unadopted
  <2> QED
    BY <1>1, <1>2, <2>1, TimerKept DEF Made
<1> QED
  BY <1>3, <1>4, <1>5

LEMMA TimerRevival ==
  ASSUME TimerInv, WriterInv',
         \/ FactoryReturns \/ RegisterRevived \/ AttachRevived \/ FinishRevival \/ ReviveFails
  PROVE  TimerInv'
<1>1. CASE FactoryReturns
  <2>1. UNCHANGED <<turn, synced, live, ref>> /\ (adopted'.timer => adopted.timer)
    BY <1>1 DEF FactoryReturns
  <2>2. ~Made'
    <3>1. CASE revival' = [revival EXCEPT !.step = "opening", !.cold = TRUE]
      BY <3>1 DEF Made, TimerInv, WriterInv, TypeInv, TypeOK
    <3>2. CASE EndRevival("failed", 0)
      BY <3>2 DEF EndRevival, NoRevival, Made
    <3> QED
      BY <1>1, <3>1, <3>2 DEF FactoryReturns
  <2> QED
    BY <2>1, <2>2, TimerKept
<1>2. CASE RegisterRevived
  <2>1. PICK s \in Unused : /\ revival' = [revival EXCEPT !.step = "building", !.session = s]
                            /\ live' = [live EXCEPT ![s] = "building"]
    BY <1>2 DEF RegisterRevived
  <2>2. revival'.session = s /\ s \notin synced /\ s \in Sessions
    BY <2>1 DEF Unused, TimerInv, SyncedIsUsed, WriterInv, TypeInv, TypeOK
  <2>3. UNCHANGED <<turn, synced>> /\ ref'.session = 0
    BY <1>2 DEF RegisterRevived
  <2>4. SyncedIsUsed'
    BY <2>1, <2>2, <2>3 DEF TimerInv, SyncedIsUsed, WriterInv, TypeInv, TypeOK
  <2> QED
    BY <2>2, <2>3, <2>4 DEF TimerInv, SeenIsSynced, WiredLast, RunningHasNone, TimerSpares
<1>3. CASE AttachRevived
  <2>1. revival.session \in Sessions /\ revival.session \notin synced
    BY <1>3 DEF AttachRevived, Made, TimerInv, WiredLast, WriterInv, TypeInv
  <2>2. UNCHANGED <<turn, synced, adopted>> /\ revival'.session = revival.session
    BY <1>3 DEF AttachRevived, TimerInv, WriterInv, TypeInv, TypeOK
  <2>3. \/ ref'.session = revival.session
        \/ ref' = ref /\ ref = NoRef
    BY <1>3 DEF AttachRevived, AttachSession, Registered, TimerInv, WriterInv, TypeInv, TypeOK
  <2>4. SyncedIsUsed'
    BY <1>3, <2>1, <2>2 DEF AttachRevived, TimerInv, SyncedIsUsed, WriterInv, TypeInv, TypeOK
  <2> QED
    BY <2>1, <2>2, <2>3, <2>4 DEF TimerInv, SeenIsSynced, WiredLast, RunningHasNone, TimerSpares, NoRef
<1>4. CASE FinishRevival
  <2>1. /\ revival.session \in Sessions /\ revival.session \notin synced
        /\ live[revival.session] # "unused"
    BY <1>4 DEF FinishRevival, Made, TimerInv, WiredLast, WriterInv, TypeInv, OwnSession
  <2>2. synced' = synced \cup {revival.session} /\ UNCHANGED <<turn, live>> /\ revival' = NoRevival
    BY <1>4 DEF FinishRevival, EndRevival
  <2>3. \/ ref'.session = revival.session /\ ref'.status = "idle"
        \/ ref'.session = 0
    BY <1>4 DEF FinishRevival, Registered, NoRef
  <2>4. SeenIsSynced' /\ SyncedIsUsed' /\ WiredLast'
    BY <2>1, <2>2 DEF TimerInv, SeenIsSynced, SyncedIsUsed, WiredLast, Made, NoRevival
  <2>5. turn[revival.session] # "seen"
    BY <2>1 DEF TimerInv, SeenIsSynced
  <2> QED
    BY <2>2, <2>3, <2>4, <2>5 DEF TimerInv, RunningHasNone, TimerSpares
<1>5. CASE ReviveFails
  <2>1. UNCHANGED <<turn, synced>> /\ ~Made'
    BY <1>5 DEF ReviveFails, EndRevival, NoRevival, Made
  <2>2. \A s \in Sessions : live[s] # "unused" => live'[s] # "unused"
    BY <1>5 DEF ReviveFails, OpenFails, BuildFails, RestoreFails, TimerInv, WriterInv, TypeInv, TypeOK
  <2>3. (adopted'.timer => adopted.timer) /\ (ref' = ref \/ ref'.session = 0)
    BY <1>5 DEF ReviveFails, OpenFails, BuildFails, RestoreFails, Dropped, Unregister, Unadopted, NoRef
  <2> QED
    BY <2>1, <2>2, <2>3, TimerKept
<1> QED
  BY <1>1, <1>2, <1>3, <1>4, <1>5

LEMMA TimerAsk ==
  ASSUME TimerInv, WriterInv', NEW c, EnsureLive(c) \/ UNCHANGED revival,
         UNCHANGED <<ref, adopted, live, turn, synced>>
  PROVE  TimerInv'
<1>1. Made' => Made /\ revival'.session = revival.session
  BY DEF EnsureLive, NoRevival, Made
<1> QED
  BY <1>1, TimerKept

LEMMA TimerHandOff == ASSUME NEW c \in Senders, TimerInv, WriterInv', HandOff(c) PROVE TimerInv'
<1>1. UNCHANGED <<live, revival, synced>>
  BY DEF HandOff
<1>2. CASE UNCHANGED <<turn, ref, adopted>>
  BY <1>1, <1>2, TimerKept DEF Made
<1>3. ASSUME Deliver(c, ref.session), ref.session \in Sessions, ~Streaming(ref.session)
      PROVE  TimerInv'
  <2>1. CASE ref.session \in synced
    BY <1>1, <1>3, <2>1, TurnShown DEF Deliver
  <2>2. CASE ref.session \notin synced
    <3>1. UNCHANGED <<ref, adopted>> /\ \A t \in Sessions : turn'[t] = "seen" => turn[t] = "seen"
      BY <1>3, <2>2 DEF Deliver, TimerInv, WriterInv, TypeInv, TypeOK
    <3> QED
      BY <1>1, <3>1, TimerKept DEF Made
  <2> QED
    BY <2>1, <2>2
<1>4. \/ UNCHANGED <<turn, ref, adopted>>
      \/ Deliver(c, ref.session) /\ ref.session \in Sessions /\ ~Streaming(ref.session)
  BY DEF HandOff, HandOffFails, Deliver, Sessions, TimerInv, WriterInv, TypeInv, TypeOK
<1> QED
  BY <1>2, <1>3, <1>4

LEMMA TimerStep == TimerInv /\ [BusNext]_vars => TimerInv'
<1> SUFFICES ASSUME TimerInv, [BusNext]_vars
             PROVE  TimerInv'
  OBVIOUS
<1>1. WriterInv'
  BY WriterStep DEF TimerInv
<1>2. CASE LifeStep
  BY <1>1, <1>2, TimerTurns, TimerFinish, TimerDisposal, TimerRevival DEF LifeStep
<1>3. ASSUME NEW c, Ask(c)
      PROVE  TimerInv'
  BY <1>1, <1>3, TimerAsk DEF Ask
<1>4. ASSUME NEW c, Prompt(c)
      PROVE  TimerInv'
  <2>1. \A s \in Sessions : turn'[s] = "seen" => turn[s] = "seen"
    BY <1>4 DEF Prompt, TimerInv, WriterInv, TypeInv, TypeOK
  <2>2. UNCHANGED <<ref, adopted, revival, live, synced>>
    BY <1>4 DEF Prompt
  <2> QED
    BY <1>1, <2>1, <2>2, TimerKept DEF Made
<1>5. ASSUME NEW c \in Senders, Send(c)
      PROVE  TimerInv'
  <2>1. EnsureLive(c) \/ UNCHANGED revival
    BY <1>5 DEF Send
  <2>2. UNCHANGED <<ref, adopted, live, turn, synced>>
    BY <1>5 DEF Send, EnsureLive, Settle
  <2> QED
    BY <1>1, <2>1, <2>2, TimerAsk
<1>6. CASE UNCHANGED lifeVars
  BY <1>1, <1>6, TimerKept DEF lifeVars, Made
<1>7. ASSUME NEW c \in Senders, Answer(c) \/ WaitEnds(c)
      PROVE  UNCHANGED lifeVars
  BY <1>7 DEF Answer, WaitEnds
<1>8. ASSUME NEW s \in Sessions, Inbox(s)
      PROVE  UNCHANGED lifeVars
  BY <1>8 DEF Inbox
<1>9. UNCHANGED vars => UNCHANGED lifeVars
  BY DEF vars
<1> QED
  BY <1>1, <1>2, <1>3, <1>4, <1>5, <1>6, <1>7, <1>8, <1>9, TimerHandOff DEF BusNext, ChatStep

\* Only the timer parks.
LEMMA ParkStep ==
  ASSUME TimerInv, [BusNext]_vars, NEW s \in Sessions, parking # s, parking' = s
  PROVE  turn[s] # "seen"
<1>1. CASE Park
  BY <1>1 DEF Park, TimerInv, TimerSpares, Sessions
<1>2. CASE \E t \in Sessions : EndDispose(t)
  BY <1>2 DEF EndDispose, Sessions
<1>3. Park \/ (\E t \in Sessions : EndDispose(t)) \/ UNCHANGED parking
  BY DEF BusNext, LifeStep, ChatStep, FinishRun, StartTurn, EndTurn, Release, FactoryReturns, RegisterRevived,
     AttachRevived, FinishRevival, ReviveFails, Ask, Prompt, Send, HandOff, Answer, WaitEnds, Inbox, vars, lifeVars
<1> QED
  BY <1>1, <1>2, <1>3

\* The time to live never disposes of a session in a turn the registry has seen
\* (agent-lifecycle.ts #armTimer, #onRegistryEvent and park).
THEOREM ParkSparesTurns == Spec => ParkSpares
<1>1. TimerInv /\ [BusNext]_vars
      => [\A s \in Sessions : parking # s /\ parking' = s => turn[s] # "seen"]_vars
  BY ParkStep
<1> QED
  BY <1>1, TimerInit, TimerStep, PTL DEF Spec, ParkSpares

-----------------------------------------------------------------------------
(* What a sender that awaits its reply has parked.                         *)

WaitInv == \A c \in asked : c \in Senders /\ wait[c] # "off"

LEMMA WaitStep == TypeInv /\ WaitInv /\ [BusNext]_vars => WaitInv'
<1> SUFFICES ASSUME TypeInv, WaitInv, [BusNext]_vars
             PROVE  WaitInv'
  OBVIOUS
<1> USE DEF WaitInv, TypeInv, TypeOK
<1>1. CASE UNCHANGED <<asked, wait>>
  BY <1>1
<1>2. ASSUME NEW c \in Senders, Send(c)
      PROVE  WaitInv'
  BY <1>2 DEF Send, ParkWaiter
<1>3. ASSUME NEW c \in Senders, HandOff(c) \/ Answer(c) \/ WaitEnds(c)
      PROVE  WaitInv'
  <2>1. asked' = asked
    BY <1>3 DEF HandOff, Answer, WaitEnds
  <2>2. wait' = wait \/ wait' = [wait EXCEPT ![c] = IF @ = "on" THEN "over" ELSE @]
        \/ wait' = [wait EXCEPT ![c] = "over"]
    BY <1>3 DEF HandOff, HandOffFails, Deliver, Answer, WaitEnds
  <2> QED
    BY <2>1, <2>2
<1>4. ASSUME NEW s \in Sessions, Inbox(s)
      PROVE  UNCHANGED <<asked, wait>>
  BY <1>4 DEF Inbox
<1>5. (UNCHANGED busVars \/ UNCHANGED vars) => UNCHANGED <<asked, wait>>
  BY DEF busVars, vars
<1> QED
  BY <1>1, <1>2, <1>3, <1>4, <1>5 DEF BusNext

\* Only Answer gives a reply, and it passes a parked waiter by for none.
LEMMA ReplyStep ==
  ASSUME TypeInv, WaitInv, [BusNext]_vars, NEW c \in asked, reply[c] = "none", reply'[c] = "aside"
  PROVE  wait[c] = "over"
<1>1. UNCHANGED reply \/ \E d \in Senders : Answer(d)
  BY DEF BusNext, Send, HandOff, WaitEnds, Inbox, busVars, vars
<1>2. PICK d \in Senders : Answer(d)
  BY <1>1
<1>3. wait[c] # "on"
  BY <1>2 DEF Answer, TypeInv, TypeOK
<1> QED
  BY <1>3 DEF WaitInv, TypeInv, TypeOK

\* The reply to a send that awaits it reaches the waiting call unless the wait
\* has ended (irc.ts executeSend, bus.ts #takeMatchingWaiter).
THEOREM AwaitedReplyIsHeard == Spec => AwaitHearsReply
<1>1. BusInit => TypeInv /\ WaitInv
  BY WriterInit DEF WriterInv, BusInit, WaitInv
<1>2. TypeInv /\ WaitInv /\ [BusNext]_vars
      => [\A c \in asked : reply[c] = "none" /\ reply'[c] = "aside" => wait[c] = "over"]_vars
  BY ReplyStep
<1> QED
  BY <1>1, <1>2, TypeStep, WaitStep, PTL DEF Spec, AwaitHearsReply
===============================================================================
