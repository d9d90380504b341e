------------------------- MODULE SessionTurnsProofs -------------------------
(***************************************************************************)
(* Proofs about SessionTurns: its type invariant for every bound, that     *)
(* agent_end waits for all that is in flight until the first abort, and    *)
(* that the run which is going is the only one and the one an abort        *)
(* reaches, until newSession() resets the agent under a run that began     *)
(* while it waited.                                                        *)
(***************************************************************************)
EXTENDS SessionTurns, FiniteSetTheorems, FilteringProofs

\* Where each kind of asynchronous function can be.
Fits(A) ==
  /\ A.kind = "none" => A.pc = "free"
  /\ A.kind = "prompt" =>
       A.pc \in {"entering", "setup", "waiting", "prompting", "running", "returned"}
  /\ A.kind = "abort" => A.pc \in {"cancelling", "waiting", "settling"}
  /\ A.kind = "switch" => A.pc \in {"cancelling", "waiting", "settling", "resetting", "reopening"}
  /\ A.kind = "drain" => A.pc \in {"restoring", "running", "returned"}
  /\ A.kind = "flush" => A.pc \in {"sleeping", "running", "returned"}
  /\ A.kind = "handler" => A.pc \in {"handling", "maintaining"}

Fit(acts) == acts \in [Slot -> Actor] /\ \A a \in Slot : Fits(acts[a])

\* What #promptInFlightCount counts until an abort resets it.
InFlight(A) == A.kind = "drain" \/ (A.kind = "prompt" /\ A.pc # "entering")
Counted(acts) == {a \in Slot : InFlight(acts[a])}

\* The table of actors agrees with a count of n after g aborts.
Table(acts, n, g) ==
  /\ Fit(acts)
  /\ n \in Nat /\ n <= Cardinality(Counted(acts))
  /\ g = 0 => n = Cardinality(Counted(acts))
  /\ \A a \in Slot : acts[a].kind \in {"abort", "switch"} => g > 0

Calling ==
  /\ used \in Calls
  /\ generation = used.aborts
  /\ steers \in Nat /\ steers <= used.steers
  /\ results \in Nat /\ results <= used.results

Flags ==
  /\ streaming \in BOOLEAN /\ current \in 0..MaxActors
  /\ aborting \in BOOLEAN /\ endPending \in BOOLEAN /\ wire \in {"busy", "idle"}
  /\ flushPending \in BOOLEAN

\* Holds whatever the callers do.
Basic == Flags /\ Calling /\ Table(actors, inFlight, generation)

-----------------------------------------------------------------------------
(* Lemmas about the table of actors.                                       *)

LEMMA CountedFinite ==
  ASSUME NEW acts
  PROVE  /\ IsFiniteSet(Counted(acts)) /\ Cardinality(Counted(acts)) \in Nat
         /\ Cardinality(Counted(acts)) <= MaxActors
<1>1. IsFiniteSet(Slot) /\ Cardinality(Slot) = MaxActors
  BY FS_Interval, BoundsAssumption DEF Slot
<1>2. Counted(acts) \in SUBSET Slot
  BY DEF Counted
<1> QED
  BY <1>1, <1>2, FS_Subset, FS_CardinalityType

\* A new actor takes a free slot.
LEMMA Entering ==
  ASSUME NEW acts, Free(acts) # {}, NEW kind, NEW pc
  PROVE  \E b \in Slot : /\ acts[b].pc = "free"
                         /\ Enter(acts, kind, pc) = [acts EXCEPT ![b] = Entrant(kind, pc)]
<1>1. Free(acts) \subseteq Nat /\ Free(acts) \subseteq Slot
  BY BoundsAssumption DEF Free, Slot
<1>2. \E x \in Free(acts) : \A y \in Free(acts) : x <= y
  BY <1>1, LeastNumber
<1>3. Min(Free(acts)) \in Free(acts)
  BY <1>2 DEF Min
<1> QED
  BY <1>1, <1>3 DEF Enter, Free

LEMMA EntrantIs ==
  ASSUME NEW kind \in Kind, NEW pc \in Pc
  PROVE  /\ Entrant(kind, pc) \in Actor
         /\ Entrant(kind, pc).kind = kind /\ Entrant(kind, pc).pc = pc
         /\ Entrant(kind, pc).gen = 0 /\ Entrant(kind, pc).on = 0
         /\ Entrant(kind, pc).cancelled = FALSE /\ Entrant(kind, pc).stopped = FALSE
         /\ Entrant(kind, pc).late = FALSE
<1>1. 0 \in 0..MaxAborts /\ 0 \in 0..MaxActors
  BY BoundsAssumption
<1> QED
  BY <1>1 DEF Entrant, Actor

\* One slot changes: what it does to the shape of the table and to the count.
LEMMA OneChanges ==
  ASSUME NEW acts, Fit(acts), NEW b \in Slot, NEW A \in Actor, Fits(A)
  PROVE  /\ Fit([acts EXCEPT ![b] = A])
         /\ Counted([acts EXCEPT ![b] = A]) =
              IF InFlight(A) THEN Counted(acts) \cup {b} ELSE Counted(acts) \ {b}
BY DEF Fit, Counted

\* Sizes of the sets that differ in one slot.
LEMMA CountedSizes ==
  ASSUME NEW acts, NEW b
  PROVE  /\ Cardinality(Counted(acts) \cup {b}) =
              IF b \in Counted(acts) THEN Cardinality(Counted(acts)) ELSE Cardinality(Counted(acts)) + 1
         /\ Cardinality(Counted(acts) \ {b}) =
              IF b \in Counted(acts) THEN Cardinality(Counted(acts)) - 1 ELSE Cardinality(Counted(acts))
BY CountedFinite, FS_AddElement, FS_RemoveElement

LEMMA EnterFits ==
  ASSUME NEW acts, Fit(acts), Free(acts) # {}, NEW kind \in Kind, NEW pc \in Pc,
         Fits(Entrant(kind, pc))
  PROVE  \E b \in Slot :
           /\ acts[b].pc = "free" /\ b \notin Counted(acts)
           /\ Enter(acts, kind, pc) = [acts EXCEPT ![b] = Entrant(kind, pc)]
           /\ Fit(Enter(acts, kind, pc))
           /\ Counted(Enter(acts, kind, pc)) =
                IF kind = "drain" THEN Counted(acts) \cup {b}
                ELSE IF kind = "prompt" /\ pc # "entering" THEN Counted(acts) \cup {b}
                ELSE Counted(acts)
<1>1. PICK b \in Slot : acts[b].pc = "free" /\ Enter(acts, kind, pc) = [acts EXCEPT ![b] = Entrant(kind, pc)]
  BY Entering
<1>2. Fits(acts[b]) /\ acts[b].kind \in Kind
  BY DEF Fit, Actor
<1>3. b \notin Counted(acts)
  BY <1>1, <1>2 DEF Counted, InFlight, Fits
<1>4. Entrant(kind, pc) \in Actor /\ Entrant(kind, pc).kind = kind /\ Entrant(kind, pc).pc = pc
  BY EntrantIs
<1>5. /\ Fit([acts EXCEPT ![b] = Entrant(kind, pc)])
      /\ Counted([acts EXCEPT ![b] = Entrant(kind, pc)]) =
           IF InFlight(Entrant(kind, pc)) THEN Counted(acts) \cup {b} ELSE Counted(acts) \ {b}
  BY <1>4, OneChanges
<1>6. Counted(acts) \ {b} = Counted(acts)
  BY <1>3
<1>7. InFlight(Entrant(kind, pc)) <=> (kind = "drain" \/ (kind = "prompt" /\ pc # "entering"))
  BY <1>4 DEF InFlight
<1> HIDE DEF Entrant
<1> QED
  BY <1>1, <1>3, <1>5, <1>6, <1>7

-----------------------------------------------------------------------------
(* What the operators that change the table keep.                          *)

LEMMA TableStep ==
  ASSUME NEW acts, NEW n, NEW g \in Nat, Table(acts, n, g), NEW b \in Slot, NEW A \in Actor,
         Fits(A), A.kind \in {"abort", "switch"} => g > 0,
         NEW m \in Nat,
         InFlight(A) /\ InFlight(acts[b]) => m = n,
         ~InFlight(A) /\ ~InFlight(acts[b]) => m = n,
         InFlight(A) /\ ~InFlight(acts[b]) => m = n + 1,
         ~InFlight(A) /\ InFlight(acts[b]) => m = n - 1 \/ (n = 0 /\ m = 0)
  PROVE  Table([acts EXCEPT ![b] = A], m, g)
<1> DEFINE new == [acts EXCEPT ![b] = A]
<1>1. Fit(acts) /\ n \in Nat /\ n <= Cardinality(Counted(acts))
      /\ (g = 0 => n = Cardinality(Counted(acts)))
  BY DEF Table
<1>2. Fit(new) /\ Counted(new) = IF InFlight(A) THEN Counted(acts) \cup {b} ELSE Counted(acts) \ {b}
  BY <1>1, OneChanges
<1>3. b \in Counted(acts) <=> InFlight(acts[b])
  BY DEF Counted
<1>4. Cardinality(Counted(acts)) \in Nat /\ Cardinality(Counted(new)) \in Nat
  BY CountedFinite
<1>5. /\ Cardinality(Counted(acts) \cup {b}) =
           IF b \in Counted(acts) THEN Cardinality(Counted(acts)) ELSE Cardinality(Counted(acts)) + 1
      /\ Cardinality(Counted(acts) \ {b}) =
           IF b \in Counted(acts) THEN Cardinality(Counted(acts)) - 1 ELSE Cardinality(Counted(acts))
  BY CountedSizes
<1>6. m <= Cardinality(Counted(new)) /\ (g = 0 => m = Cardinality(Counted(new)))
  <2> HIDE DEF new
  <2>1. CASE InFlight(A)
    <3>1. Counted(new) = Counted(acts) \cup {b}
      BY <2>1, <1>2
    <3> QED
      BY <3>1, <2>1, <1>1, <1>3, <1>4, <1>5
  <2>2. CASE ~InFlight(A)
    <3>1. Counted(new) = Counted(acts) \ {b}
      BY <2>2, <1>2
    <3> QED
      BY <3>1, <2>2, <1>1, <1>3, <1>4, <1>5
  <2> QED
    BY <2>1, <2>2
<1>7. \A a \in Slot : new[a].kind \in {"abort", "switch"} => g > 0
  BY <1>1 DEF Table, Fit
<1> QED
  BY <1>2, <1>6, <1>7 DEF Table

LEMMA TableEnter ==
  ASSUME NEW acts, NEW n, NEW g \in Nat, Table(acts, n, g), Free(acts) # {},
         NEW kind \in Kind, NEW pc \in Pc, Fits(Entrant(kind, pc)),
         kind \in {"abort", "switch"} => g > 0
  PROVE  Table(Enter(acts, kind, pc),
               IF InFlight(Entrant(kind, pc)) THEN n + 1 ELSE n, g)
<1>1. Fit(acts) /\ n \in Nat
  BY DEF Table
<1>2. PICK b \in Slot : /\ b \notin Counted(acts)
                        /\ Enter(acts, kind, pc) = [acts EXCEPT ![b] = Entrant(kind, pc)]
  BY <1>1, EnterFits
<1>3. ~InFlight(acts[b])
  BY <1>2 DEF Counted
<1>4. Entrant(kind, pc) \in Actor /\ Entrant(kind, pc).kind = kind
  BY EntrantIs
<1> DEFINE m == IF InFlight(Entrant(kind, pc)) THEN n + 1 ELSE n
<1>5. m \in Nat
  BY <1>1
<1>6. Table([acts EXCEPT ![b] = Entrant(kind, pc)], m, g)
  BY <1>3, <1>4, <1>5, TableStep
<1> QED
  BY <1>2, <1>6

LEMMA DrainKeeps ==
  ASSUME NEW acts, NEW n, NEW g \in Nat, NEW queued, Table(acts, n, g),
         ScheduleDrain(acts, n, queued)
  PROVE  Table(actors', inFlight', g)
<1>1. CASE ~streaming /\ n = 0 /\ queued > 0
  <2>1. Entrant("drain", "restoring").kind = "drain" /\ Entrant("drain", "restoring").pc = "restoring"
    BY DEF Entrant
  <2>2. Fits(Entrant("drain", "restoring")) /\ InFlight(Entrant("drain", "restoring"))
    BY <2>1 DEF Fits, InFlight
  <2>3. Table(Enter(acts, "drain", "restoring"), n + 1, g)
    <3>1. Free(acts) # {}
      BY <1>1 DEF ScheduleDrain
    <3>2. "drain" \in Kind /\ "restoring" \in Pc
      BY DEF Kind, Pc
    <3>3. Table(Enter(acts, "drain", "restoring"),
                IF InFlight(Entrant("drain", "restoring")) THEN n + 1 ELSE n, g)
      BY <2>2, <3>1, <3>2, TableEnter
    <3> QED
      BY <2>2, <3>3
  <2> QED
    BY <1>1, <2>3 DEF ScheduleDrain
<1>2. CASE ~(~streaming /\ n = 0 /\ queued > 0)
  BY <1>2 DEF ScheduleDrain
<1> QED
  BY <1>1, <1>2

LEMMA SettledKeeps ==
  ASSUME NEW acts, NEW g \in Nat, NEW held, Table(acts, 0, g), Flags, AllSettled(acts, held)
  PROVE  Table(actors', inFlight', g) /\ endPending' \in BOOLEAN /\ wire' \in {"busy", "idle"}
<1>1. endPending' \in BOOLEAN /\ wire' \in {"busy", "idle"}
  BY DEF AllSettled, Flags
<1>2. CASE held
  BY <1>1, <1>2 DEF AllSettled
<1>3. CASE ~held
  <2>1. ScheduleDrain(acts, 0, steers)
    BY <1>3 DEF AllSettled
  <2> QED
    BY <1>1, <2>1, DrainKeeps
<1> QED
  BY <1>2, <1>3

LEMMA LeavingKeeps ==
  ASSUME NEW g \in Nat, Table(actors, inFlight, g), NEW a \in Slot, NEW m \in Nat,
         InFlight(actors[a]) => m = inFlight - 1 \/ (inFlight = 0 /\ m = 0),
         ~InFlight(actors[a]) => m = inFlight
  PROVE  Table(Left(a), m, g)
<1>1. "none" \in Kind /\ "free" \in Pc
  BY DEF Kind, Pc
<1>2. Nobody \in Actor /\ Nobody.kind = "none" /\ Nobody.pc = "free"
  BY <1>1, EntrantIs DEF Nobody
<1>3. Fits(Nobody) /\ ~InFlight(Nobody) /\ ~(Nobody.kind \in {"abort", "switch"})
  BY <1>2 DEF Fits, InFlight
<1>4. Table([actors EXCEPT ![a] = Nobody], m, g)
  BY <1>2, <1>3, TableStep
<1> QED
  BY <1>4 DEF Left

LEMMA EndKeeps ==
  ASSUME NEW a \in Slot, Basic, InFlight(actors[a]), EndInFlight(a)
  PROVE  /\ Table(actors', inFlight', generation)
         /\ aborting' \in BOOLEAN /\ endPending' \in BOOLEAN /\ wire' \in {"busy", "idle"}
<1>1. generation \in Nat /\ Table(actors, inFlight, generation) /\ inFlight \in Nat /\ Flags
  BY DEF Basic, Calling, Calls, Table
<1>2. aborting' \in BOOLEAN
  BY <1>1 DEF EndInFlight, Flags
<1>3. CASE inFlight > 1
  <2>1. Table(Left(a), inFlight - 1, generation)
    BY <1>1, <1>3, LeavingKeeps
  <2> QED
    BY <1>1, <1>2, <1>3, <2>1 DEF EndInFlight, ends, Flags
<1>4. CASE ~(inFlight > 1)
  <2>1. Table(Left(a), 0, generation)
    BY <1>1, <1>4, LeavingKeeps
  <2>2. AllSettled(Left(a), aborting)
    BY <1>4 DEF EndInFlight
  <2> QED
    BY <1>1, <1>2, <2>1, <2>2, SettledKeeps
<1> QED
  BY <1>3, <1>4

\* An actor moves on, in flight as before.
LEMMA MovingKeeps ==
  ASSUME NEW g \in Nat, Table(actors, inFlight, g), NEW a \in Slot, NEW A \in Actor,
         A.kind = actors[a].kind, Fits(A), actors[a].pc # "entering", A.pc # "entering"
  PROVE  Table([actors EXCEPT ![a] = A], inFlight, g)
<1>1. inFlight \in Nat /\ actors[a].kind \in {"abort", "switch"} => g > 0
  BY DEF Table
<1>2. InFlight(A) <=> InFlight(actors[a])
  BY DEF InFlight
<1> QED
  BY <1>1, <1>2, TableStep DEF Table

LEMMA AtKeeps ==
  ASSUME NEW g \in Nat, Table(actors, inFlight, g), NEW a \in Slot, NEW pc \in Pc \ {"entering"},
         Fits([actors[a] EXCEPT !.pc = pc]), actors[a].pc # "entering"
  PROVE  Table(At(a, pc), inFlight, g)
<1> DEFINE A == [actors[a] EXCEPT !.pc = pc]
<1>1. actors[a] \in Actor
  BY DEF Table, Fit
<1>2. A \in Actor /\ A.kind = actors[a].kind /\ A.pc = pc
  BY <1>1 DEF Actor
<1>3. At(a, pc) = [actors EXCEPT ![a] = A]
  BY DEF At
<1> HIDE DEF A
<1> QED
  BY <1>2, <1>3, MovingKeeps DEF A

\* Every actor may change, each in flight as before.
LEMMA SameTable ==
  ASSUME NEW acts, NEW n, NEW g \in Nat, Table(acts, n, g), NEW new \in [Slot -> Actor],
         \A b \in Slot : /\ Fits(new[b]) /\ new[b].kind = acts[b].kind
                         /\ new[b].pc = "entering" <=> acts[b].pc = "entering"
  PROVE  Table(new, n, g)
<1>1. Counted(new) = Counted(acts)
  BY DEF Counted, InFlight
<1> QED
  BY <1>1 DEF Table, Fit

LEMMA AwokenKeeps ==
  ASSUME NEW acts, NEW n, NEW g \in Nat, Table(acts, n, g)
  PROVE  /\ Table(Awoken(acts), n, g)
         /\ \A b \in Slot :
              Awoken(acts)[b] = IF acts[b].pc = "waiting" /\ acts[b].on = current
                                THEN [acts[b] EXCEPT !.on = 0,
                                                     !.pc = IF acts[b].kind = "prompt" THEN "prompting"
                                                            ELSE "settling"]
                                ELSE acts[b]
<1>1. \A b \in Slot :
        Awoken(acts)[b] = IF acts[b].pc = "waiting" /\ acts[b].on = current
                          THEN [acts[b] EXCEPT !.on = 0,
                                               !.pc = IF acts[b].kind = "prompt" THEN "prompting"
                                                      ELSE "settling"]
                          ELSE acts[b]
  BY DEF Awoken
<1>2. ASSUME NEW b \in Slot
      PROVE  /\ Awoken(acts)[b] \in Actor /\ Fits(Awoken(acts)[b])
             /\ Awoken(acts)[b].kind = acts[b].kind
             /\ Awoken(acts)[b].pc = "entering" <=> acts[b].pc = "entering"
  <2>1. acts[b] \in Actor /\ Fits(acts[b]) /\ 0 \in 0..MaxActors
    BY BoundsAssumption DEF Table, Fit
  <2>2. CASE acts[b].pc = "waiting" /\ acts[b].on = current
    <3>1. acts[b].kind \in {"prompt", "abort", "switch"}
      BY <2>1, <2>2 DEF Fits, Actor, Kind
    <3>2. CASE acts[b].kind = "prompt"
      <4>1. Awoken(acts)[b] = [acts[b] EXCEPT !.on = 0, !.pc = "prompting"]
        BY <1>1, <2>2, <3>2
      <4> QED
        BY <4>1, <2>1, <2>2, <3>2 DEF Actor, Pc, Fits
    <3>3. CASE acts[b].kind # "prompt"
      <4>1. Awoken(acts)[b] = [acts[b] EXCEPT !.on = 0, !.pc = "settling"]
        BY <1>1, <2>2, <3>3
      <4> QED
        BY <4>1, <2>1, <2>2, <3>1, <3>3 DEF Actor, Pc, Fits
    <3> QED
      BY <3>2, <3>3
  <2>3. CASE ~(acts[b].pc = "waiting" /\ acts[b].on = current)
    BY <1>1, <2>1, <2>3
  <2> QED
    BY <2>2, <2>3
<1>3. Awoken(acts) \in [Slot -> Actor]
  BY <1>2 DEF Awoken
<1>4. Table(Awoken(acts), n, g)
  BY <1>2, <1>3, SameTable
<1> QED
  BY <1>1, <1>4

LEMMA StartKeeps ==
  ASSUME NEW a \in Slot, Basic, StartRun(a),
         actors[a].kind \in {"prompt", "drain", "flush"}, actors[a].pc # "entering"
  PROVE  /\ Table(actors', inFlight, generation)
         /\ streaming' \in BOOLEAN /\ current' \in 0..MaxActors /\ wire' \in {"busy", "idle"}
         /\ steers' = 0
<1> DEFINE A == [actors[a] EXCEPT !.pc = "running", !.stopped = FALSE, !.late = ~Connected]
<1>1. generation \in Nat /\ Table(actors, inFlight, generation)
  BY DEF Basic, Calling, Calls
<1>2. actors[a] \in Actor /\ actors \in [Slot -> Actor]
  BY <1>1 DEF Table, Fit
<1>3. A \in Actor /\ A.kind = actors[a].kind /\ A.pc = "running"
  <2>1. PICK l \in BOOLEAN : l = ~Connected
    OBVIOUS
  <2>2. A = [actors[a] EXCEPT !.pc = "running", !.stopped = FALSE, !.late = l]
    BY <2>1
  <2> HIDE DEF A
  <2> QED
    BY <1>2, <2>2 DEF Actor, Pc
<1>4. Fits(A)
  BY <1>3 DEF Fits
<1>5. actors' = [actors EXCEPT ![a] = A]
  BY <1>2 DEF StartRun
<1>6. a \in 0..MaxActors
  BY BoundsAssumption DEF Slot
<1> HIDE DEF A
<1>7. Table(actors', inFlight, generation)
  BY <1>1, <1>3, <1>4, <1>5, MovingKeeps
<1> QED
  BY <1>6, <1>7 DEF StartRun

-----------------------------------------------------------------------------
(* Type correctness.                                                       *)

LEMMA BasicInit == Init => Basic
<1> SUFFICES ASSUME Init PROVE Basic
  OBVIOUS
<1>1. Flags
  <2>1. 0 \in 0..MaxActors
    BY BoundsAssumption
  <2> QED
    BY <2>1 DEF Init, Flags
<1>c. Calling
  <2>1. 0 \in 0..MaxPrompts /\ 0 \in 0..MaxSteers /\ 0 \in 0..MaxResults /\ 0 \in 0..MaxAborts
    BY BoundsAssumption
  <2>2. used \in Calls /\ used.steers = 0 /\ used.results = 0 /\ used.aborts = 0
    BY <2>1 DEF Init, Calls
  <2> QED
    BY <2>2 DEF Init, Calling
<1>2. Nobody \in Actor /\ Nobody.kind = "none" /\ Nobody.pc = "free"
  BY EntrantIs DEF Nobody, Kind, Pc
<1>3. Fit(actors) /\ \A a \in Slot : actors[a].kind = "none"
  BY <1>2 DEF Init, Fit, Fits
<1>4. Counted(actors) = {}
  BY <1>3 DEF Counted, InFlight
<1>5. Table(actors, inFlight, generation)
  BY <1>3, <1>4, FS_EmptySet DEF Table, Init
<1> QED
  BY <1>1, <1>c, <1>5 DEF Basic

LEMMA BasicStep == Basic /\ [Next]_vars => Basic'
<1> SUFFICES ASSUME Basic, [Next]_vars PROVE Basic'
  OBVIOUS
<1> USE DEF agent, session, ends, queues
<1>0. /\ Flags /\ Calling /\ Table(actors, inFlight, generation) /\ Fit(actors)
      /\ actors \in [Slot -> Actor] /\ \A a \in Slot : actors[a] \in Actor /\ Fits(actors[a])
      /\ generation \in Nat /\ inFlight \in Nat
  BY DEF Basic, Table, Fit, Calling, Calls
<1>u. used \in Calls /\ generation = used.aborts /\ steers \in Nat /\ steers <= used.steers
      /\ results \in Nat /\ results <= used.results
  BY <1>0 DEF Calling
<1>1. CASE Prompt
  <2>1. Flags'
    BY <1>0, <1>1 DEF Prompt, Flags
  <2>2. Calling'
    BY <1>u, <1>1, BoundsAssumption DEF Prompt, Calling, Calls
  <2>3. Free(actors) # {}
    BY <1>1, FS_EmptySet DEF Prompt, Room
  <2>4. Entrant("prompt", "entering").kind = "prompt" /\ Entrant("prompt", "entering").pc = "entering"
    BY DEF Entrant
  <2>5. Fits(Entrant("prompt", "entering")) /\ ~InFlight(Entrant("prompt", "entering"))
    BY <2>4 DEF Fits, InFlight
  <2>6. "prompt" \in Kind /\ "entering" \in Pc
    BY DEF Kind, Pc
  <2>7. Table(Enter(actors, "prompt", "entering"), inFlight, generation)
    <3>1. Table(Enter(actors, "prompt", "entering"),
                IF InFlight(Entrant("prompt", "entering")) THEN inFlight + 1 ELSE inFlight, generation)
      BY <1>0, <2>3, <2>5, <2>6, TableEnter
    <3> QED
      BY <3>1, <2>5
  <2> QED
    BY <1>1, <2>1, <2>2, <2>7 DEF Basic, Prompt
<1>2. CASE Steer
  <2>1. Flags'
    BY <1>0, <1>2 DEF Steer, Flags
  <2>2. Calling'
    BY <1>u, <1>2, BoundsAssumption DEF Steer, Calling, Calls
  <2>3. Table(actors', inFlight', generation)
    BY <1>0, <1>2, DrainKeeps DEF Steer
  <2> QED
    BY <1>2, <2>1, <2>2, <2>3 DEF Basic, Steer
<1>3. CASE Enqueue
  <2>1. Flags'
    BY <1>0, <1>3 DEF Enqueue, Flags
  <2>2. Calling'
    BY <1>u, <1>3, BoundsAssumption DEF Enqueue, Calling, Calls
  <2>3. CASE ~Busy /\ ~flushPending
    <3>1. Free(actors) # {}
      BY <1>3, <2>3, FS_EmptySet DEF Enqueue, Room
    <3>2. Entrant("flush", "sleeping").kind = "flush" /\ Entrant("flush", "sleeping").pc = "sleeping"
      BY DEF Entrant
    <3>3. Fits(Entrant("flush", "sleeping")) /\ ~InFlight(Entrant("flush", "sleeping"))
      BY <3>2 DEF Fits, InFlight
    <3>4. "flush" \in Kind /\ "sleeping" \in Pc
      BY DEF Kind, Pc
    <3>5. Table(Enter(actors, "flush", "sleeping"), inFlight, generation)
      <4>1. Table(Enter(actors, "flush", "sleeping"),
                  IF InFlight(Entrant("flush", "sleeping")) THEN inFlight + 1 ELSE inFlight, generation)
        BY <1>0, <3>1, <3>3, <3>4, TableEnter
      <4> QED
        BY <4>1, <3>3
    <3> QED
      BY <1>3, <2>1, <2>2, <2>3, <3>5 DEF Basic, Enqueue
  <2>4. CASE ~(~Busy /\ ~flushPending)
    BY <1>0, <1>3, <2>1, <2>2, <2>4 DEF Basic, Enqueue
  <2> QED
    BY <2>3, <2>4
<1>4. ASSUME NEW kind \in {"abort", "switch"}, Abort(kind) PROVE Basic'
  <2> DEFINE acts == [a \in Slot |-> [actors[a] EXCEPT !.cancelled = @ \/ a \in Tasks,
                                                     !.stopped = @ \/ a = current,
                                                     !.late = @ /\ kind # "switch"]]
  <2>1. Flags'
    BY <1>0, <1>4 DEF Abort, Flags
  <2>2. Calling' /\ generation' = generation + 1
    <3>1. /\ used.aborts < MaxAborts /\ generation' = generation + 1
          /\ used' = [used EXCEPT !.aborts = @ + 1] /\ steers' = steers /\ results' = results
      BY <1>4 DEF Abort
    <3>2. used' \in Calls /\ used'.aborts = used.aborts + 1
          /\ used'.steers = used.steers /\ used'.results = used.results
      BY <1>u, <3>1, BoundsAssumption DEF Calls
    <3> QED
      BY <1>u, <3>1, <3>2 DEF Calling
  <2>3. ASSUME NEW a \in Slot
        PROVE  /\ acts[a] \in Actor /\ acts[a].kind = actors[a].kind /\ acts[a].pc = actors[a].pc
               /\ acts[a].on = actors[a].on
    <3>1. actors[a].cancelled \in BOOLEAN /\ actors[a].stopped \in BOOLEAN
      BY <1>0 DEF Actor
    <3>2. (actors[a].cancelled \/ a \in Tasks) \in BOOLEAN /\ (actors[a].stopped \/ a = current) \in BOOLEAN
          /\ (actors[a].late /\ kind # "switch") \in BOOLEAN
      OBVIOUS
    <3>3. PICK c \in BOOLEAN, d \in BOOLEAN, l \in BOOLEAN :
            acts[a] = [actors[a] EXCEPT !.cancelled = c, !.stopped = d, !.late = l]
      BY <3>2
    <3> HIDE DEF acts
    <3> QED
      BY <1>0, <3>3 DEF Actor
  <2>4. acts \in [Slot -> Actor] /\ \A a \in Slot : Fits(acts[a])
    <3>1. acts \in [Slot -> Actor]
      BY <2>3
    <3> HIDE DEF acts
    <3> QED
      BY <1>0, <2>3, <3>1 DEF Fits
  <2>5. Free(acts) # {}
    <3> HIDE DEF acts
    <3>1. Free(acts) = Free(actors)
      BY <2>3 DEF Free
    <3> QED
      <4>1. Cardinality(Free(actors)) > 1
        BY <1>4 DEF Abort, Room
      <4> QED
        BY <3>1, <4>1, FS_EmptySet
  <2> HIDE DEF acts
  <2>6. Table(acts, inFlight, generation)
    BY <1>0, <2>3, <2>4, SameTable
  <2>7. Table(acts, inFlight, generation + 1)
    BY <1>0, <2>6 DEF Table
  <2>8. Entrant(kind, "cancelling").kind = kind /\ Entrant(kind, "cancelling").pc = "cancelling"
    BY DEF Entrant
  <2>9. Fits(Entrant(kind, "cancelling")) /\ ~InFlight(Entrant(kind, "cancelling"))
    BY <2>8 DEF Fits, InFlight
  <2>10. kind \in Kind /\ "cancelling" \in Pc
    BY DEF Kind, Pc
  <2>11. Table(Enter(acts, kind, "cancelling"), inFlight, generation + 1)
    <3>1. generation + 1 \in Nat /\ generation + 1 > 0
      BY <1>0
    <3>2. Table(Enter(acts, kind, "cancelling"),
                IF InFlight(Entrant(kind, "cancelling")) THEN inFlight + 1 ELSE inFlight, generation + 1)
      BY <2>5, <2>7, <2>9, <2>10, <3>1, TableEnter
    <3> QED
      BY <3>2, <2>9
  <2>12. actors' = Enter(acts, kind, "cancelling") /\ inFlight' = inFlight
    BY <1>4 DEF Abort, acts
  <2> QED
    BY <2>1, <2>2, <2>11, <2>12 DEF Basic
<1>5. ASSUME NEW a \in Slot, Step(a) PROVE Basic'
  <2>a. actors[a] \in Actor /\ Fits(actors[a])
    BY <1>0
  <2>1. CASE Poll(a)
    <3>1. Calling'
      BY <1>u, <2>1, BoundsAssumption DEF Poll, Calling, Calls
    <3> QED
      BY <1>0, <2>1, <3>1 DEF Poll, Basic, Flags
  <2>2. CASE Stop(a)
    <3>1. Flags'
      <4>1. streaming' = FALSE /\ current' = 0 /\ UNCHANGED <<aborting, endPending, wire, flushPending>>
        BY <2>2 DEF Stop
      <4>2. 0 \in 0..MaxActors
        BY BoundsAssumption
      <4> QED
        BY <1>0, <4>1, <4>2 DEF Flags
    <3>2. Calling'
      BY <1>u, <2>2 DEF Stop, Calling
    <3> DEFINE A == [actors[a] EXCEPT !.pc = "returned", !.stopped = FALSE, !.late = FALSE]
               woken == Awoken([actors EXCEPT ![a].pc = "returned", ![a].stopped = FALSE,
                                              ![a].late = FALSE])
    <3>3. Table(woken, inFlight, generation)
      <4>1. actors[a].kind \in {"prompt", "drain", "flush"} /\ actors[a].pc # "entering"
        BY <2>a, <2>2 DEF Stop, Fits, Actor, Kind
      <4>2. A \in Actor /\ A.kind = actors[a].kind /\ A.pc = "returned"
        BY <2>a DEF Actor, Pc
      <4>3. Fits(A) /\ A.pc # "entering"
        BY <4>1, <4>2 DEF Fits
      <4>5. woken = Awoken([actors EXCEPT ![a] = A])
        OBVIOUS
      <4> HIDE DEF A, woken
      <4>4. Table([actors EXCEPT ![a] = A], inFlight, generation)
        BY <1>0, <4>1, <4>2, <4>3, MovingKeeps
      <4> QED
        BY <1>0, <4>4, <4>5, AwokenKeeps
    <3>4. Table(actors', inFlight, generation)
      <4> HIDE DEF woken
      <4>1. CASE Connected
        <5>1. Free(woken) # {} /\ actors' = Enter(woken, "handler", "handling")
          BY <2>2, <4>1 DEF Stop, woken
        <5>2. Entrant("handler", "handling").kind = "handler" /\ Entrant("handler", "handling").pc = "handling"
          BY DEF Entrant
        <5>3. Fits(Entrant("handler", "handling")) /\ ~InFlight(Entrant("handler", "handling"))
          BY <5>2 DEF Fits, InFlight
        <5>4. "handler" \in Kind /\ "handling" \in Pc
          BY DEF Kind, Pc
        <5>5. Table(Enter(woken, "handler", "handling"),
                    IF InFlight(Entrant("handler", "handling")) THEN inFlight + 1 ELSE inFlight, generation)
          BY <1>0, <3>3, <5>1, <5>3, <5>4, TableEnter
        <5> QED
          BY <5>1, <5>3, <5>5
      <4>2. CASE ~Connected
        <5>1. actors' = woken
          BY <2>2, <4>2 DEF Stop, woken
        <5> QED
          BY <3>3, <5>1
      <4> QED
        BY <4>1, <4>2
    <3> QED
      BY <2>2, <3>1, <3>2, <3>4 DEF Basic, Stop
  <2>3. CASE BeginInFlight(a)
    <3>1. Flags'
      BY <1>0, <2>3 DEF BeginInFlight, Flags
    <3>2. Calling'
      BY <1>u, <2>3 DEF BeginInFlight, Calling
    <3> DEFINE A == [actors[a] EXCEPT !.pc = "setup", !.gen = generation]
    <3>3. actors[a].kind = "prompt" /\ ~InFlight(actors[a])
      BY <2>a, <2>3 DEF BeginInFlight, Fits, InFlight, Actor, Kind
    <3>4. generation \in 0..MaxAborts
      BY <1>u, BoundsAssumption DEF Calls
    <3>5. A \in Actor /\ A.kind = "prompt" /\ A.pc = "setup"
      BY <2>a, <3>3, <3>4 DEF Actor, Pc
    <3>6. Fits(A) /\ InFlight(A)
      BY <3>5 DEF Fits, InFlight
    <3>7. actors' = [actors EXCEPT ![a] = A] /\ inFlight' = inFlight + 1 /\ generation' = generation
      BY <2>3 DEF BeginInFlight
    <3> HIDE DEF A
    <3>8. Table([actors EXCEPT ![a] = A], inFlight + 1, generation)
      <4>1. inFlight + 1 \in Nat /\ ~(A.kind \in {"abort", "switch"})
        BY <1>0, <3>5
      <4>2. Table(actors, inFlight, generation) /\ generation \in Nat
        BY <1>0
      <4> QED
        BY <3>3, <3>5, <3>6, <4>1, <4>2, TableStep
    <3> QED
      BY <3>1, <3>2, <3>7, <3>8 DEF Basic
  <2>4. CASE EndSetup(a)
    <3>1. InFlight(actors[a]) /\ actors[a].pc # "entering"
      BY <2>4 DEF EndSetup, InFlight
    <3>2. used' = used /\ generation' = generation
      BY <2>4 DEF EndSetup
    <3>3. CASE EndInFlight(a) /\ UNCHANGED <<agent, generation, queues>>
      <4>1. /\ Table(actors', inFlight', generation)
            /\ aborting' \in BOOLEAN /\ endPending' \in BOOLEAN /\ wire' \in {"busy", "idle"}
        BY <3>1, <3>3, EndKeeps
      <4> QED
        BY <1>0, <1>u, <3>2, <3>3, <4>1 DEF Basic, Flags, Calling
    <3>4. CASE StartRun(a) /\ UNCHANGED <<session, endPending, results, flushPending>>
      <4>1. actors[a].kind \in {"prompt", "drain", "flush"}
        BY <2>4 DEF EndSetup
      <4>2. /\ Table(actors', inFlight, generation)
            /\ streaming' \in BOOLEAN /\ current' \in 0..MaxActors /\ wire' \in {"busy", "idle"}
            /\ steers' = 0
        BY <3>1, <3>4, <4>1, StartKeeps
      <4>3. Calling'
        BY <1>u, <3>2, <3>4, <4>2 DEF Calling, Calls
      <4> QED
        BY <1>0, <3>4, <4>2, <4>3 DEF Basic, Flags
    <3>5. CASE /\ streaming
               /\ actors' = [actors EXCEPT ![a].pc = IF current = 0 THEN "prompting" ELSE "waiting",
                                           ![a].on = current]
               /\ UNCHANGED <<agent, session, ends, queues>>
      <4> DEFINE A == [actors[a] EXCEPT !.pc = IF current = 0 THEN "prompting" ELSE "waiting",
                                       !.on = current]
      <4>1. A \in Actor /\ A.kind = actors[a].kind /\ A.pc \in {"prompting", "waiting"}
        BY <1>0, <2>a DEF Actor, Pc, Flags
      <4>2. Fits(A) /\ A.pc # "entering"
        BY <4>1, <2>4 DEF Fits, EndSetup
      <4>3. actors' = [actors EXCEPT ![a] = A]
        BY <3>5
      <4> HIDE DEF A
      <4>4. Table(actors', inFlight, generation)
        BY <1>0, <3>1, <4>1, <4>2, <4>3, MovingKeeps
      <4> QED
        BY <1>0, <1>u, <3>2, <3>5, <4>4 DEF Basic, Flags, Calling
    <3> QED
      BY <2>4, <3>3, <3>4, <3>5 DEF EndSetup
  <2>5. CASE Return(a)
    <3>1. used' = used /\ generation' = generation /\ UNCHANGED <<agent, queues>>
      BY <2>5 DEF Return
    <3>2. CASE actors[a].kind = "drain" /\ EndInFlight(a)
      <4>1. /\ Table(actors', inFlight', generation)
            /\ aborting' \in BOOLEAN /\ endPending' \in BOOLEAN /\ wire' \in {"busy", "idle"}
        BY <3>2, EndKeeps DEF InFlight
      <4> QED
        BY <1>0, <1>u, <3>1, <4>1 DEF Basic, Flags, Calling
    <3>3. CASE actors[a].kind = "flush" /\ actors' = Left(a) /\ UNCHANGED <<session, ends>>
      <4>1. Table(Left(a), inFlight, generation)
        BY <1>0, <3>3, LeavingKeeps DEF InFlight
      <4> QED
        BY <1>0, <1>u, <3>1, <3>3, <4>1 DEF Basic, Flags, Calling
    <3> QED
      BY <2>5, <3>2, <3>3 DEF Return
  <2>6. CASE Recover(a)
    <3>1. InFlight(actors[a]) /\ EndInFlight(a) /\ UNCHANGED <<agent, generation, queues, used>>
      BY <2>6 DEF Recover, InFlight
    <3>2. /\ Table(actors', inFlight', generation)
          /\ aborting' \in BOOLEAN /\ endPending' \in BOOLEAN /\ wire' \in {"busy", "idle"}
      BY <3>1, EndKeeps
    <3> QED
      BY <1>0, <1>u, <3>1, <3>2 DEF Basic, Flags, Calling
  <2>7. CASE Continue(a)
    <3>1. actors[a].kind = "drain" /\ InFlight(actors[a]) /\ actors[a].pc # "entering"
      BY <2>a, <2>7 DEF Continue, Fits, InFlight, Actor, Kind
    <3>2. used' = used
      BY <2>7 DEF Continue
    <3>3. CASE EndInFlight(a) /\ UNCHANGED <<agent, generation, queues>>
      <4>1. /\ Table(actors', inFlight', generation)
            /\ aborting' \in BOOLEAN /\ endPending' \in BOOLEAN /\ wire' \in {"busy", "idle"}
        BY <3>1, <3>3, EndKeeps
      <4> QED
        BY <1>0, <1>u, <3>2, <3>3, <4>1 DEF Basic, Flags, Calling
    <3>4. CASE StartRun(a) /\ UNCHANGED <<session, endPending, results, flushPending>>
      <4>1. /\ Table(actors', inFlight, generation)
            /\ streaming' \in BOOLEAN /\ current' \in 0..MaxActors /\ wire' \in {"busy", "idle"}
            /\ steers' = 0
        BY <3>1, <3>4, StartKeeps
      <4>2. Calling'
        BY <1>u, <3>2, <3>4, <4>1 DEF Calling, Calls
      <4> QED
        BY <1>0, <3>4, <4>1, <4>2 DEF Basic, Flags
    <3> QED
      BY <2>7, <3>3, <3>4 DEF Continue
  <2>8. CASE EmitEnd(a) \/ EndHandler(a)
    <3>1. actors[a].kind = "handler"
      BY <2>a, <2>8 DEF EmitEnd, EndHandler, Fits, Actor, Kind
    <3>2. Table(actors', inFlight, generation)
      <4>1. CASE EmitEnd(a)
        <5>1. Fits([actors[a] EXCEPT !.pc = "maintaining"])
          BY <2>a, <3>1 DEF Fits, Actor
        <5>2. "maintaining" \in Pc \ {"entering"} /\ actors[a].pc # "entering"
          BY <4>1 DEF Pc, EmitEnd
        <5> QED
          BY <1>0, <4>1, <5>1, <5>2, AtKeeps DEF EmitEnd
      <4>2. CASE EndHandler(a)
        BY <1>0, <3>1, <4>2, LeavingKeeps DEF InFlight, EndHandler
      <4> QED
        BY <2>8, <4>1, <4>2
    <3>3. Calling'
      BY <1>u, <2>8 DEF EmitEnd, EndHandler, Calling
    <3>4. Flags'
      BY <1>0, <2>8 DEF EmitEnd, EndHandler, Flags
    <3> QED
      BY <2>8, <3>2, <3>3, <3>4 DEF EmitEnd, EndHandler, Basic
  <2>9. CASE Flush(a)
    <3>1. actors[a].kind = "flush" /\ ~InFlight(actors[a]) /\ actors[a].pc # "entering"
      BY <2>a, <2>9 DEF Flush, Fits, InFlight, Actor, Kind
    <3>2. used' = used /\ UNCHANGED <<session, endPending>>
      BY <2>9 DEF Flush
    <3>3. CASE StartRun(a) /\ results' = 0 /\ flushPending' = FALSE
      <4>1. /\ Table(actors', inFlight, generation)
            /\ streaming' \in BOOLEAN /\ current' \in 0..MaxActors /\ wire' \in {"busy", "idle"}
            /\ steers' = 0
        BY <3>1, <3>3, StartKeeps
      <4>2. Calling'
        BY <1>u, <3>2, <3>3, <4>1 DEF Calling, Calls
      <4> QED
        BY <1>0, <3>2, <3>3, <4>1, <4>2 DEF Basic, Flags
    <3>4. CASE /\ actors' = Left(a) /\ flushPending' \in {flushPending, FALSE}
               /\ UNCHANGED <<agent, wire, steers, results>>
      <4>1. Table(Left(a), inFlight, generation)
        BY <1>0, <3>1, LeavingKeeps
      <4> QED
        BY <1>0, <1>u, <3>2, <3>4, <4>1 DEF Basic, Flags, Calling
    <3> QED
      BY <2>9, <3>3, <3>4 DEF Flush
  <2>10. CASE Cancelled(a)
    <3> DEFINE A == [actors[a] EXCEPT !.pc = IF current = 0 THEN "settling" ELSE "waiting",
                                     !.on = current]
    <3>1. A \in Actor /\ A.kind = actors[a].kind /\ A.pc \in {"settling", "waiting"}
      BY <1>0, <2>a DEF Actor, Pc, Flags
    <3>2. actors[a].kind \in {"abort", "switch"}
      BY <2>a, <2>10 DEF Cancelled, Fits, Actor, Kind
    <3>3. Fits(A) /\ A.pc # "entering" /\ actors[a].pc # "entering"
      BY <2>10, <3>1, <3>2 DEF Fits, Cancelled
    <3>4. actors' = [actors EXCEPT ![a] = A] /\ UNCHANGED <<agent, session, ends, queues, used>>
      BY <2>10 DEF Cancelled
    <3> HIDE DEF A
    <3>5. Table(actors', inFlight, generation)
      BY <1>0, <3>1, <3>3, <3>4, MovingKeeps
    <3> QED
      BY <1>0, <1>u, <3>4, <3>5 DEF Basic, Flags, Calling
  <2>11. CASE Settle(a)
    <3>1. actors[a].kind \in {"abort", "switch"} /\ ~InFlight(actors[a]) /\ generation > 0
      BY <1>0, <2>a, <2>11 DEF Settle, Fits, InFlight, Actor, Kind, Table
    <3> DEFINE acts == IF actors[a].kind = "switch" THEN At(a, "resetting") ELSE Left(a)
    <3>2. Table(acts, inFlight, generation)
      <4>1. CASE actors[a].kind = "switch"
        <5>1. Fits([actors[a] EXCEPT !.pc = "resetting"])
          BY <2>a, <4>1 DEF Fits, Actor
        <5>2. "resetting" \in Pc \ {"entering"} /\ actors[a].pc # "entering"
          BY <2>11 DEF Pc, Settle
        <5>3. Table(At(a, "resetting"), inFlight, generation)
          BY <1>0, <5>1, <5>2, AtKeeps
        <5> QED
          BY <4>1, <5>3
      <4>2. CASE actors[a].kind # "switch"
        <5>1. Table(Left(a), inFlight, generation)
          BY <1>0, <3>1, LeavingKeeps
        <5> QED
          BY <4>2, <5>1
      <4> QED
        BY <4>1, <4>2
    <3> HIDE DEF acts
    <3>3. Table(acts, 0, generation)
      BY <3>1, <3>2, CountedFinite DEF Table
    <3>4. AllSettled(acts, FALSE) /\ aborting' = FALSE /\ UNCHANGED <<agent, generation, queues, used>>
      BY <2>11 DEF Settle, acts
    <3>5. Table(actors', inFlight', generation) /\ endPending' \in BOOLEAN /\ wire' \in {"busy", "idle"}
      BY <1>0, <3>3, <3>4, SettledKeeps
    <3> QED
      BY <1>0, <1>u, <3>4, <3>5 DEF Basic, Flags, Calling
  <2>12. CASE Reset(a)
    <3>1. Fits([actors[a] EXCEPT !.pc = "reopening"])
      BY <2>a, <2>12 DEF Reset, Fits, Actor, Kind
    <3>2. Table(At(a, "reopening"), inFlight, generation)
      <4>1. "reopening" \in Pc \ {"entering"} /\ actors[a].pc # "entering"
        BY <2>12 DEF Pc, Reset
      <4> QED
        BY <1>0, <3>1, <4>1, AtKeeps
    <3>3. Calling'
      BY <1>u, <2>12 DEF Reset, Calling, Calls
    <3> QED
      BY <1>0, <2>12, <3>2, <3>3 DEF Basic, Flags, Reset
  <2>13. CASE Reconnect(a)
    <3>1. ~InFlight(actors[a])
      BY <2>a, <2>13 DEF Reconnect, Fits, InFlight, Actor, Kind
    <3>2. Table(Left(a), inFlight, generation)
      BY <1>0, <3>1, LeavingKeeps
    <3> QED
      BY <1>0, <1>u, <2>13, <3>2 DEF Basic, Flags, Calling, Reconnect
  <2> QED
    BY <1>5, <2>1, <2>2, <2>3, <2>4, <2>5, <2>6, <2>7, <2>8, <2>9, <2>10, <2>11, <2>12, <2>13 DEF Step
<1>6. CASE UNCHANGED vars
  BY <1>0, <1>6 DEF Basic, Flags, Calling, vars
<1> QED
  BY <1>1, <1>2, <1>3, <1>4, <1>5, <1>6 DEF Next

LEMMA BasicHolds == Spec => []Basic
<1> QED
  BY BasicInit, BasicStep, PTL DEF Spec

TornType == torn \in BOOLEAN

LEMMA TornHolds == Spec => []TornType
<1>1. Init => TornType
  BY DEF Init, TornType
<1>2. TornType /\ [Next]_vars => TornType'
  <2> SUFFICES ASSUME torn \in BOOLEAN, [Next]_vars PROVE torn' \in BOOLEAN
    BY DEF TornType
  <2>1. CASE Prompt \/ Steer \/ Enqueue \/ (\E kind \in {"abort", "switch"} : Abort(kind))
    BY <2>1 DEF Prompt, Steer, Enqueue, Abort
  <2>2. CASE \E a \in Slot : Step(a)
    BY <2>2 DEF Step, Poll, Stop, BeginInFlight, EndSetup, Return, Recover, Continue, EmitEnd,
                EndHandler, Flush, Cancelled, Settle, Reset, Reconnect
  <2>3. CASE UNCHANGED vars
    BY <2>3 DEF vars
  <2> QED
    BY <2>1, <2>2, <2>3 DEF Next
<1> QED
  BY <1>1, <1>2, PTL DEF Spec

\* The types, for every bound: in particular the count of prompts in flight never
\* exceeds the functions that are under way, and no abort leaves it below zero.
THEOREM TypeCorrect == Spec => []TypeOK
<1>1. Basic /\ TornType => TypeOK
  <2> SUFFICES ASSUME Basic, TornType PROVE TypeOK
    OBVIOUS
  <2>1. inFlight \in 0..MaxActors
    BY CountedFinite, BoundsAssumption DEF Basic, Table
  <2> QED
    BY <2>1, BoundsAssumption DEF Basic, TornType, Table, Fit, Flags, Calling, Calls, TypeOK
<1> QED
  BY <1>1, BasicHolds, TornHolds, PTL

-----------------------------------------------------------------------------
(* The end of a run is announced when all has unwound.                     *)

LEMMA UnwindingIsCounted ==
  ASSUME Basic, generation = 0
  PROVE  Unwinding(actors) \subseteq Counted(actors)
<1>1. \A a \in Slot : /\ Fits(actors[a]) /\ actors[a].kind \in Kind
                      /\ ~(actors[a].kind \in {"abort", "switch"})
  BY DEF Basic, Table, Fit, Actor
<1> QED
  BY <1>1 DEF Unwinding, Counted, InFlight, Fits, Kind

LEMMA LastToEnd ==
  ASSUME Basic, generation = 0, NEW a \in Slot, InFlight(actors[a]), ~(inFlight > 1)
  PROVE  Unwinding(actors) \subseteq {a}
<1>1. IsFiniteSet(Counted(actors)) /\ Cardinality(Counted(actors)) <= 1
  BY CountedFinite DEF Basic, Table
<1>2. Cardinality(Counted(actors)) = 1
  BY <1>1, CountedFinite, FS_EmptySet DEF Counted
<1>3. PICK x : Counted(actors) = {x}
  BY <1>1, <1>2, FS_Singleton
<1> QED
  BY <1>3, UnwindingIsCounted DEF Counted

LEMMA EndMeansIdleStep ==
  Basic /\ [Next]_vars =>
    ((wire = "busy" /\ wire' = "idle" /\ generation' = 0)
       => \A a \in Unwinding(actors) : actors'[a] # actors[a])
<1> SUFFICES ASSUME Basic, [Next]_vars, wire = "busy", wire' = "idle", generation' = 0,
                    NEW u \in Unwinding(actors)
             PROVE  actors'[u] # actors[u]
  OBVIOUS
<1> USE DEF agent, session, ends, queues
<1>0. /\ Table(actors, inFlight, generation) /\ actors \in [Slot -> Actor]
      /\ generation \in Nat /\ inFlight \in Nat
  BY DEF Basic, Table, Fit, Calling, Calls
<1>1. \A a \in Slot : actors[a] \in Actor /\ Fits(actors[a])
  BY DEF Basic, Table, Fit
<1>2. ASSUME NEW a \in Slot, InFlight(actors[a]), EndInFlight(a), generation = 0,
             actors[a].kind = "drain" /\ actors[a].pc = "restoring" /\ ~streaming /\ steers > 0
               => actors[a].cancelled
      PROVE  actors'[u] # actors[u]
  <2>1. ~(inFlight > 1) /\ AllSettled(Left(a), aborting)
    BY <1>2 DEF EndInFlight
  <2>2. u = a
    BY <1>2, <2>1, LastToEnd
  <2>3. Left(a) \in [Slot -> Actor] /\ Left(a)[a] = Nobody
    <3>1. Nobody \in Actor
      BY EntrantIs DEF Nobody, Kind, Pc
    <3> QED
      BY <1>0, <3>1 DEF Left
  <2>4. Nobody.kind = "none" /\ actors[a].kind # "none"
    BY <1>2 DEF Nobody, Entrant, InFlight
  <2>5. actors' = Left(a) \/ (/\ actors' = Enter(Left(a), "drain", "restoring")
                              /\ Free(Left(a)) # {} /\ ~streaming /\ steers > 0)
    BY <2>1 DEF AllSettled, ScheduleDrain
  <2>6. CASE actors' = Left(a)
    BY <2>2, <2>3, <2>4, <2>6
  <2>7. CASE /\ actors' = Enter(Left(a), "drain", "restoring")
             /\ Free(Left(a)) # {} /\ ~streaming /\ steers > 0
    <3>1. PICK b \in Slot : actors' = [Left(a) EXCEPT ![b] = Entrant("drain", "restoring")]
      BY <2>7, Entering
    <3>2. /\ Entrant("drain", "restoring").kind = "drain" /\ Entrant("drain", "restoring").pc = "restoring"
          /\ Entrant("drain", "restoring").cancelled = FALSE
      BY DEF Entrant
    <3>3. actors[a] # Entrant("drain", "restoring")
      BY <1>2, <2>7, <3>2
    <3>4. actors'[a] = Nobody \/ actors'[a] = Entrant("drain", "restoring")
      BY <2>3, <3>1
    <3> QED
      BY <2>2, <2>4, <3>3, <3>4
  <2> QED
    BY <2>5, <2>6, <2>7
<1>3. ASSUME NEW a \in Slot, EndSetup(a) PROVE actors'[u] # actors[u]
  <2>1. InFlight(actors[a]) /\ actors[a].kind # "drain" /\ generation = 0
    BY <1>3 DEF EndSetup, InFlight
  <2>2. EndInFlight(a)
    BY <1>3 DEF EndSetup, StartRun
  <2> QED
    BY <1>2, <2>1, <2>2
<1>4. ASSUME NEW a \in Slot, Return(a) PROVE actors'[u] # actors[u]
  <2>1. EndInFlight(a) /\ actors[a].kind = "drain" /\ actors[a].pc = "returned" /\ generation = 0
    BY <1>4 DEF Return
  <2> QED
    BY <1>2, <2>1 DEF InFlight
<1>5. ASSUME NEW a \in Slot, Recover(a) PROVE actors'[u] # actors[u]
  <2>1. EndInFlight(a) /\ actors[a].kind = "prompt" /\ actors[a].pc = "returned" /\ generation = 0
    BY <1>5 DEF Recover
  <2> QED
    BY <1>2, <2>1 DEF InFlight
<1>6. ASSUME NEW a \in Slot, Continue(a) PROVE actors'[u] # actors[u]
  <2>1. actors[a].kind = "drain"
    BY <1>1, <1>6 DEF Continue, Fits, Actor, Kind
  <2>2. EndInFlight(a) /\ generation = 0
    BY <1>6 DEF Continue, StartRun
  <2>3. actors[a].cancelled \/ streaming \/ steers = 0
    BY <1>6 DEF Continue, StartRun
  <2>4. ~streaming /\ steers > 0 => actors[a].cancelled
    BY <2>3
  <2> QED
    BY <1>2, <2>1, <2>2, <2>4 DEF InFlight
<1>7. ASSUME NEW a \in Slot, EmitEnd(a) PROVE actors'[u] # actors[u]
  <2>1. inFlight = 0 /\ generation = 0
    <3>1. ~(inFlight > 0) /\ generation' = generation
      BY <1>7 DEF EmitEnd
    <3> QED
      BY <1>0, <3>1
  <2>2. Counted(actors) = {}
    BY <1>0, <2>1, CountedFinite, FS_EmptySet DEF Table
  <2> QED
    BY <2>1, <2>2, UnwindingIsCounted
<1>8. ASSUME NEW a \in Slot, Settle(a) PROVE FALSE
  <2>1. actors[a].kind \in {"abort", "switch"} /\ generation' = generation
    BY <1>1, <1>8 DEF Settle, Fits, Actor, Kind
  <2> QED
    BY <1>0, <2>1 DEF Table
<1>9. ASSUME NEW a \in Slot, Step(a) PROVE actors'[u] # actors[u]
  BY <1>3, <1>4, <1>5, <1>6, <1>7, <1>8, <1>9
     DEF Step, Poll, Stop, BeginInFlight, EndHandler, Flush, StartRun, Cancelled, Reset, Reconnect
<1> QED
  BY <1>9 DEF Next, Prompt, Steer, Enqueue, Abort, vars

\* Until the first abort, agent_end reaches the subscribers only when every prompt
\* and continuation in flight has unwound.
THEOREM EndIsHeld == Spec => EndMeansIdle
<1>1. Basic /\ [Next]_vars =>
        [(wire = "busy" /\ wire' = "idle" /\ generation' = 0)
           => \A a \in Unwinding(actors) : actors'[a] # actors[a]]_vars
  BY EndMeansIdleStep
<1> QED
  BY <1>1, BasicHolds, PTL DEF Spec, EndMeansIdle

-----------------------------------------------------------------------------
(* One run at a time, and it is known.                                     *)

\* The run that owns the agent is the only one.
Alone(acts, c) ==
  /\ \A a \in Slot : acts[a].pc = "running" => a = c
  /\ c # 0 => c \in Slot /\ acts[c].pc = "running"

\* A session change past its wait meets no run but one that began during it.
Spared(acts, c) ==
  \A s \in Slot : acts[s].kind = "switch" /\ acts[s].pc \notin {"cancelling", "waiting"}
                    => c = 0 \/ acts[c].late

Orderly(acts, c) == Alone(acts, c) /\ Spared(acts, c)

Owned ==
  /\ Orderly(actors, current)
  /\ current = 0 => ~streaming
  /\ current # 0 => streaming

\* One slot changes, and no run begins or ends there.
LEMMA OrderlyStep ==
  ASSUME NEW acts \in [Slot -> Actor], NEW c, Orderly(acts, c),
         NEW b \in Slot, acts[b].pc # "running", NEW A \in Actor, A.pc # "running",
         A.kind = "switch" /\ A.pc \notin {"cancelling", "waiting"} => c = 0 \/ acts[c].late
  PROVE  Orderly([acts EXCEPT ![b] = A], c)
<1> DEFINE new == [acts EXCEPT ![b] = A]
<1>1. \A a \in Slot : new[a] = IF a = b THEN A ELSE acts[a]
  OBVIOUS
<1> HIDE DEF new
<1>2. Alone(new, c)
  BY <1>1 DEF Orderly, Alone
<1>3. c # 0 => new[c] = acts[c]
  BY <1>1 DEF Orderly, Alone
<1>4. Spared(new, c)
  BY <1>1, <1>3 DEF Orderly, Spared
<1> QED
  BY <1>2, <1>4 DEF Orderly, new

LEMMA OrderlyEnter ==
  ASSUME NEW acts \in [Slot -> Actor], NEW c, Orderly(acts, c), Free(acts) # {}, NEW kind \in Kind,
         NEW pc \in Pc \ {"running"}, kind = "switch" => pc = "cancelling"
  PROVE  Orderly(Enter(acts, kind, pc), c)
<1>1. PICK b \in Slot : acts[b].pc = "free" /\ Enter(acts, kind, pc) = [acts EXCEPT ![b] = Entrant(kind, pc)]
  BY Entering
<1>2. Entrant(kind, pc) \in Actor /\ Entrant(kind, pc).kind = kind /\ Entrant(kind, pc).pc = pc
  BY EntrantIs
<1>3. Orderly([acts EXCEPT ![b] = Entrant(kind, pc)], c)
  BY <1>1, <1>2, OrderlyStep
<1> QED
  BY <1>1, <1>3

LEMMA OrderlyLeft ==
  ASSUME NEW a \in Slot, Basic, Owned, actors[a].pc # "running"
  PROVE  Orderly(Left(a), current) /\ Left(a) \in [Slot -> Actor]
<1>1. Nobody \in Actor /\ Nobody.kind = "none" /\ Nobody.pc = "free"
  BY EntrantIs DEF Nobody, Kind, Pc
<1>2. actors \in [Slot -> Actor]
  BY DEF Basic, Table, Fit
<1>3. Orderly([actors EXCEPT ![a] = Nobody], current)
  BY <1>1, <1>2, OrderlyStep DEF Owned
<1> QED
  BY <1>1, <1>2, <1>3 DEF Left

LEMMA OrderlyDrain ==
  ASSUME NEW acts \in [Slot -> Actor], NEW n, NEW c, NEW queued, Orderly(acts, c),
         ScheduleDrain(acts, n, queued)
  PROVE  Orderly(actors', c)
<1>1. "drain" \in Kind /\ "restoring" \in Pc \ {"running"}
  BY DEF Kind, Pc
<1> QED
  BY <1>1, OrderlyEnter DEF ScheduleDrain

LEMMA OrderlyEnd ==
  ASSUME NEW a \in Slot, Basic, Owned, actors[a].pc # "running", EndInFlight(a)
  PROVE  Orderly(actors', current)
<1>1. Orderly(Left(a), current) /\ Left(a) \in [Slot -> Actor]
  BY OrderlyLeft
<1>2. CASE inFlight > 1 \/ aborting
  BY <1>1, <1>2 DEF EndInFlight, AllSettled
<1>3. CASE ~(inFlight > 1 \/ aborting)
  <2>1. ScheduleDrain(Left(a), 0, steers)
    BY <1>3 DEF EndInFlight, AllSettled
  <2> QED
    BY <1>1, <2>1, OrderlyDrain
<1> QED
  BY <1>2, <1>3

\* A run starts only while none is going; during a session change it is marked.
LEMMA OrderlyStart ==
  ASSUME NEW a \in Slot, Basic, Owned, StartRun(a)
  PROVE  Owned'
<1>1. actors \in [Slot -> Actor]
  BY DEF Basic, Table, Fit
<1> DEFINE A == [actors[a] EXCEPT !.pc = "running", !.stopped = FALSE, !.late = ~Connected]
<1>2. actors[a] \in Actor
  BY <1>1
<1>3. A.pc = "running" /\ A.kind = actors[a].kind /\ A.late = ~Connected
  BY <1>2 DEF Actor
<1>4. actors' = [actors EXCEPT ![a] = A] /\ ~streaming /\ streaming' = TRUE /\ current' = a
  BY <1>1 DEF StartRun
<1> HIDE DEF A
<1>5. \A s \in Slot : actors'[s] = IF s = a THEN A ELSE actors[s]
  BY <1>1, <1>4
<1>6. current = 0
  BY <1>4 DEF Owned
<1>7. a # 0
  BY BoundsAssumption DEF Slot
<1>8. Alone(actors', a)
  <2>1. \A s \in Slot : actors[s].pc # "running"
    <3>1. Alone(actors, 0) /\ 0 \notin Slot
      BY <1>6, BoundsAssumption DEF Owned, Orderly, Slot
    <3> QED
      BY <3>1 DEF Alone
  <2> QED
    BY <1>3, <1>5, <2>1 DEF Alone
<1>9. Spared(actors', a)
  BY <1>3, <1>5 DEF Spared, Connected
<1> QED
  BY <1>4, <1>7, <1>8, <1>9 DEF Owned, Orderly

LEMMA OwnedInit == Init => Owned
<1> SUFFICES ASSUME Init PROVE Owned
  OBVIOUS
<1>1. Nobody.kind = "none" /\ Nobody.pc = "free"
  BY DEF Nobody, Entrant
<1>2. \A a \in Slot : actors[a] = Nobody
  BY DEF Init
<1> QED
  BY <1>1, <1>2 DEF Init, Owned, Orderly, Alone, Spared

\* The end of a run, also that of the last one of several.
LEMMA StopOwned ==
  ASSUME Basic, NEW a \in Slot, Stop(a), \A r \in Slot : actors[r].pc = "running" => r = a
  PROVE  Owned'
<1>0. /\ actors \in [Slot -> Actor] /\ Table(actors, inFlight, generation) /\ generation \in Nat
      /\ actors[a] \in Actor /\ Fits(actors[a])
  BY DEF Basic, Table, Fit, Calling, Calls
<1> DEFINE A == [actors[a] EXCEPT !.pc = "returned", !.stopped = FALSE, !.late = FALSE]
           old == [actors EXCEPT ![a] = A]
           woken == Awoken(old)
<1>1. actors[a].pc = "running"
  BY DEF Stop
<1>2. A \in Actor /\ A.kind = actors[a].kind /\ A.pc = "returned"
  BY <1>0 DEF Actor, Pc
<1>3. woken = Awoken([actors EXCEPT ![a].pc = "returned", ![a].stopped = FALSE, ![a].late = FALSE])
  OBVIOUS
<1> HIDE DEF A
<1>4. Fits(A)
  BY <1>0, <1>1, <1>2 DEF Fits, Actor, Kind
<1>5. \A b \in Slot : old[b].pc # "running"
  BY <1>0, <1>2
<1>6. Table(old, inFlight, generation)
  BY <1>0, <1>1, <1>2, <1>4, MovingKeeps
<1> HIDE DEF old
<1>7. /\ Table(woken, inFlight, generation)
      /\ \A b \in Slot : woken[b].pc # "running"
  <2>1. /\ Table(woken, inFlight, generation)
        /\ \A b \in Slot :
             woken[b] = IF old[b].pc = "waiting" /\ old[b].on = current
                        THEN [old[b] EXCEPT !.on = 0,
                                            !.pc = IF old[b].kind = "prompt" THEN "prompting"
                                                   ELSE "settling"]
                        ELSE old[b]
    BY <1>0, <1>6, AwokenKeeps
  <2>2. \A b \in Slot : old[b] \in Actor
    BY <1>6 DEF Table, Fit
  <2> QED
    BY <1>5, <2>1, <2>2 DEF Actor
<1>8. woken \in [Slot -> Actor]
  BY <1>7 DEF Table, Fit
<1> HIDE DEF woken
<1>9. Orderly(woken, 0)
  BY <1>7 DEF Orderly, Alone, Spared
<1>10. Orderly(actors', 0)
  <2>1. CASE Connected
    <3>1. Free(woken) # {} /\ actors' = Enter(woken, "handler", "handling")
      BY <1>3, <2>1 DEF Stop
    <3>2. "handler" \in Kind /\ "handling" \in Pc \ {"running"}
      BY DEF Kind, Pc
    <3> QED
      BY <1>8, <1>9, <3>1, <3>2, OrderlyEnter
  <2>2. CASE ~Connected
    BY <1>3, <1>9, <2>2 DEF Stop
  <2> QED
    BY <2>1, <2>2
<1>11. streaming' = FALSE /\ current' = 0
  BY DEF Stop, agent
<1> QED
  BY <1>10, <1>11 DEF Owned

LEMMA OwnedStep ==
  Basic /\ (torn \/ Owned) /\ [Next]_vars => (torn' \/ Owned')
<1> SUFFICES ASSUME Basic, torn \/ Owned, [Next]_vars, ~torn' PROVE Owned'
  OBVIOUS
<1> USE DEF agent, session, ends, queues
<1>0. actors \in [Slot -> Actor] /\ \A a \in Slot : actors[a] \in Actor /\ Fits(actors[a])
  BY DEF Basic, Table, Fit
<1>t. CASE torn
  <2>1. PICK a \in Slot : Stop(a)
    BY <1>t DEF Next, vars, Prompt, Steer, Enqueue, Abort, Step, Poll, BeginInFlight, EndSetup, Return,
                Recover, Continue, EmitEnd, EndHandler, Flush, Cancelled, Settle, Reset, Reconnect
  <2>2. Going = {a}
    BY <1>t, <2>1 DEF Stop
  <2> QED
    BY <2>1, <2>2, StopOwned DEF Going
<1>o. CASE ~torn
<2>0. Owned /\ Orderly(actors, current)
  BY <1>o DEF Owned
<2>k. ASSUME Orderly(actors', current), UNCHANGED agent PROVE Owned'
  BY <2>0, <2>k DEF Owned
<2>1. CASE Prompt
  <3>1. Free(actors) # {}
    BY <2>1, FS_EmptySet DEF Prompt, Room
  <3>2. "prompt" \in Kind /\ "entering" \in Pc \ {"running"}
    BY DEF Kind, Pc
  <3> QED
    BY <1>0, <2>0, <2>1, <2>k, <3>1, <3>2, OrderlyEnter DEF Prompt
<2>2. CASE Steer
  BY <1>0, <2>0, <2>2, <2>k, OrderlyDrain DEF Steer
<2>3. CASE Enqueue
  <3>1. CASE ~Busy /\ ~flushPending
    <4>1. Free(actors) # {}
      BY <2>3, <3>1, FS_EmptySet DEF Enqueue, Room
    <4>2. "flush" \in Kind /\ "sleeping" \in Pc \ {"running"}
      BY DEF Kind, Pc
    <4> QED
      BY <1>0, <2>0, <2>3, <2>k, <3>1, <4>1, <4>2, OrderlyEnter DEF Enqueue
  <3>2. CASE ~(~Busy /\ ~flushPending)
    BY <2>0, <2>3, <2>k, <3>2 DEF Enqueue
  <3> QED
    BY <3>1, <3>2
<2>4. ASSUME NEW kind \in {"abort", "switch"}, Abort(kind) PROVE Owned'
  <3> DEFINE acts == [a \in Slot |-> [actors[a] EXCEPT !.cancelled = @ \/ a \in Tasks,
                                                     !.stopped = @ \/ a = current,
                                                     !.late = @ /\ kind # "switch"]]
  <3>1. ASSUME NEW a \in Slot
        PROVE  /\ acts[a] \in Actor /\ acts[a].kind = actors[a].kind /\ acts[a].pc = actors[a].pc
               /\ acts[a].on = actors[a].on
               /\ kind # "switch" => acts[a].late = actors[a].late
    <4>1. actors[a].cancelled \in BOOLEAN /\ actors[a].stopped \in BOOLEAN /\ actors[a].late \in BOOLEAN
      BY <1>0 DEF Actor
    <4>2. PICK c \in BOOLEAN, d \in BOOLEAN, l \in BOOLEAN :
            /\ acts[a] = [actors[a] EXCEPT !.cancelled = c, !.stopped = d, !.late = l]
            /\ kind # "switch" => l = actors[a].late
      <5>1. (actors[a].late /\ kind # "switch") \in BOOLEAN
            /\ kind # "switch" => (actors[a].late /\ kind # "switch") = actors[a].late
        BY <4>1
      <5> QED
        BY <4>1, <5>1
    <4> HIDE DEF acts
    <4> QED
      BY <1>0, <4>2 DEF Actor
  <3>2. acts \in [Slot -> Actor]
    BY <3>1
  <3>3. actors' = Enter(acts, kind, "cancelling") /\ UNCHANGED agent
    BY <2>4 DEF Abort
  <3> HIDE DEF acts
  <3>4. Free(acts) # {}
    <4>1. Free(acts) = Free(actors)
      BY <3>1 DEF Free
    <4>2. Cardinality(Free(actors)) > 1
      BY <2>4 DEF Abort, Room
    <4> QED
      BY <4>1, <4>2, FS_EmptySet
  <3>5. Alone(acts, current)
    BY <2>0, <3>1 DEF Orderly, Alone
  <3>6. Spared(acts, current)
    <4>1. CASE kind = "switch"
      BY <2>4, <3>1, <4>1 DEF Spared, Abort, Connected
    <4>2. CASE kind # "switch"
      <5>1. current # 0 => acts[current].late = actors[current].late
        BY <2>0, <3>1, <4>2 DEF Orderly, Alone
      <5> QED
        BY <2>0, <3>1, <5>1 DEF Orderly, Spared
    <4> QED
      BY <4>1, <4>2
  <3>7. kind \in Kind /\ "cancelling" \in Pc \ {"running"}
    BY DEF Kind, Pc
  <3>8. Orderly(Enter(acts, kind, "cancelling"), current)
    BY <3>2, <3>4, <3>5, <3>6, <3>7, OrderlyEnter DEF Orderly
  <3> QED
    BY <2>k, <3>3, <3>8
<2>5. ASSUME NEW a \in Slot, Step(a) PROVE Owned'
  <3>a. actors[a] \in Actor /\ Fits(actors[a])
    BY <1>0
  <3>m. ASSUME NEW A \in Actor, actors' = [actors EXCEPT ![a] = A], UNCHANGED agent,
               actors[a].pc # "running", A.pc # "running",
               A.kind = "switch" /\ A.pc \notin {"cancelling", "waiting"}
                 => current = 0 \/ actors[current].late
        PROVE  Owned'
    BY <1>0, <2>0, <2>k, <3>m, OrderlyStep
  <3>1. CASE Poll(a)
    BY <2>0, <2>k, <3>1 DEF Poll
  <3>2. CASE Stop(a)
    <4>1. \A r \in Slot : actors[r].pc = "running" => r = a
      BY <2>0, <3>2 DEF Stop, Orderly, Alone
    <4> QED
      BY <3>2, <4>1, StopOwned
  <3>3. CASE BeginInFlight(a)
    <4> DEFINE A == [actors[a] EXCEPT !.pc = "setup", !.gen = generation]
    <4>1. actors[a].kind = "prompt" /\ actors[a].pc = "entering"
      BY <3>a, <3>3 DEF BeginInFlight, Fits, Actor, Kind
    <4>2. generation \in 0..MaxAborts
      BY BoundsAssumption DEF Basic, Calling, Calls
    <4>3. A \in Actor /\ A.kind = "prompt" /\ A.pc = "setup"
      BY <3>a, <4>1, <4>2 DEF Actor, Pc
    <4>4. actors' = [actors EXCEPT ![a] = A] /\ UNCHANGED agent
      BY <3>3 DEF BeginInFlight
    <4> HIDE DEF A
    <4> QED
      BY <3>m, <4>1, <4>3, <4>4
  <3>4. CASE EndSetup(a)
    <4>1. actors[a].kind = "prompt" /\ actors[a].pc # "running"
      BY <3>4 DEF EndSetup
    <4>2. CASE EndInFlight(a) /\ UNCHANGED agent
      BY <2>0, <2>k, <4>1, <4>2, OrderlyEnd
    <4>3. CASE StartRun(a)
      BY <2>0, <4>3, OrderlyStart
    <4>4. CASE /\ actors' = [actors EXCEPT ![a].pc = IF current = 0 THEN "prompting" ELSE "waiting",
                                           ![a].on = current]
               /\ UNCHANGED agent
      <5> DEFINE A == [actors[a] EXCEPT !.pc = IF current = 0 THEN "prompting" ELSE "waiting",
                                       !.on = current]
      <5>1. current \in 0..MaxActors
        BY DEF Basic, Flags
      <5>2. A \in Actor /\ A.kind = "prompt" /\ A.pc # "running"
        BY <3>a, <4>1, <5>1 DEF Actor, Pc
      <5>3. actors' = [actors EXCEPT ![a] = A]
        BY <4>4
      <5> HIDE DEF A
      <5> QED
        BY <3>m, <4>1, <4>4, <5>2, <5>3
    <4> QED
      BY <3>4, <4>2, <4>3, <4>4 DEF EndSetup
  <3>5. CASE Return(a)
    <4>1. actors[a].pc # "running" /\ UNCHANGED agent
      BY <3>5 DEF Return
    <4>2. CASE EndInFlight(a)
      BY <2>0, <2>k, <4>1, <4>2, OrderlyEnd
    <4>3. CASE actors' = Left(a)
      BY <2>0, <2>k, <4>1, <4>3, OrderlyLeft
    <4> QED
      BY <3>5, <4>2, <4>3 DEF Return
  <3>6. CASE Recover(a)
    <4>1. actors[a].pc # "running" /\ EndInFlight(a) /\ UNCHANGED agent
      BY <3>6 DEF Recover
    <4> QED
      BY <2>0, <2>k, <4>1, OrderlyEnd
  <3>7. CASE Continue(a)
    <4>1. actors[a].pc # "running"
      BY <3>7 DEF Continue
    <4>2. CASE EndInFlight(a) /\ UNCHANGED agent
      BY <2>0, <2>k, <4>1, <4>2, OrderlyEnd
    <4>3. CASE StartRun(a)
      BY <2>0, <4>3, OrderlyStart
    <4> QED
      BY <3>7, <4>2, <4>3 DEF Continue
  <3>8. CASE EmitEnd(a)
    <4> DEFINE A == [actors[a] EXCEPT !.pc = "maintaining"]
    <4>1. actors[a].kind = "handler" /\ actors[a].pc = "handling"
      BY <3>a, <3>8 DEF EmitEnd, Fits, Actor, Kind
    <4>2. A \in Actor /\ A.kind = "handler" /\ A.pc = "maintaining"
      BY <3>a, <4>1 DEF Actor, Pc
    <4>3. actors' = [actors EXCEPT ![a] = A] /\ UNCHANGED agent
      BY <3>8 DEF EmitEnd, At
    <4> HIDE DEF A
    <4> QED
      BY <3>m, <4>1, <4>2, <4>3
  <3>9. CASE EndHandler(a) \/ Reconnect(a)
    <4>1. actors[a].pc # "running" /\ actors' = Left(a) /\ UNCHANGED agent
      BY <3>9 DEF EndHandler, Reconnect
    <4> QED
      BY <2>0, <2>k, <4>1, OrderlyLeft
  <3>10. CASE Flush(a)
    <4>1. actors[a].pc = "sleeping"
      BY <3>10 DEF Flush
    <4>2. CASE StartRun(a)
      BY <2>0, <4>2, OrderlyStart
    <4>3. CASE actors' = Left(a) /\ UNCHANGED agent
      BY <2>0, <2>k, <4>1, <4>3, OrderlyLeft
    <4> QED
      BY <3>10, <4>2, <4>3 DEF Flush
  <3>11. CASE Cancelled(a)
    <4> DEFINE A == [actors[a] EXCEPT !.pc = IF current = 0 THEN "settling" ELSE "waiting",
                                     !.on = current]
    <4>1. current \in 0..MaxActors
      BY DEF Basic, Flags
    <4>2. A \in Actor /\ A.pc = IF current = 0 THEN "settling" ELSE "waiting"
      BY <3>a, <4>1 DEF Actor, Pc
    <4>3. actors' = [actors EXCEPT ![a] = A] /\ UNCHANGED agent /\ actors[a].pc # "running"
      BY <3>11 DEF Cancelled
    <4> HIDE DEF A
    <4> QED
      BY <3>m, <4>2, <4>3
  <3>12. CASE Settle(a)
    <4> DEFINE acts == IF actors[a].kind = "switch" THEN At(a, "resetting") ELSE Left(a)
    <4>1. AllSettled(acts, FALSE) /\ UNCHANGED agent /\ actors[a].pc = "settling"
      BY <3>12 DEF Settle
    <4>2. Orderly(acts, current) /\ acts \in [Slot -> Actor]
      <5>1. CASE actors[a].kind = "switch"
        <6> DEFINE A == [actors[a] EXCEPT !.pc = "resetting"]
        <6>1. A \in Actor /\ A.pc = "resetting"
          BY <3>a DEF Actor, Pc
        <6>2. acts = [actors EXCEPT ![a] = A]
          BY <5>1 DEF At
        <6> HIDE DEF A, acts
        <6>3. current = 0 \/ actors[current].late
          BY <2>0, <4>1, <5>1 DEF Orderly, Spared
        <6> QED
          BY <1>0, <2>0, <4>1, <6>1, <6>2, <6>3, OrderlyStep
      <5>2. CASE actors[a].kind # "switch"
        BY <2>0, <4>1, <5>2, OrderlyLeft
      <5> QED
        BY <5>1, <5>2
    <4> HIDE DEF acts
    <4>3. ScheduleDrain(acts, 0, steers)
      BY <4>1 DEF AllSettled
    <4> QED
      BY <2>k, <4>1, <4>2, <4>3, OrderlyDrain
  <3>13. CASE Reset(a)
    <4>1. actors[a].kind = "switch" /\ actors[a].pc = "resetting"
      BY <3>a, <3>13 DEF Reset, Fits, Actor, Kind
    <4>2. \A r \in Going : ~actors[r].late
      BY <3>13 DEF Reset
    <4>3. current = 0
      <5>1. current = 0 \/ (actors[current].late /\ current \in Going)
        BY <2>0, <4>1 DEF Orderly, Spared, Alone, Going
      <5> QED
        BY <4>2, <5>1
    <4> DEFINE A == [actors[a] EXCEPT !.pc = "reopening"]
    <4>4. A \in Actor /\ A.pc = "reopening"
      BY <3>a DEF Actor, Pc
    <4>5. actors' = [actors EXCEPT ![a] = A] /\ current' = current /\ streaming' = FALSE
      BY <3>13 DEF Reset, At
    <4> HIDE DEF A
    <4>6. Orderly([actors EXCEPT ![a] = A], 0)
      BY <1>0, <2>0, <4>1, <4>3, <4>4, OrderlyStep
    <4> QED
      BY <4>3, <4>5, <4>6 DEF Owned
  <3> QED
    BY <2>5, <3>1, <3>2, <3>3, <3>4, <3>5, <3>6, <3>7, <3>8, <3>9, <3>10, <3>11, <3>12, <3>13 DEF Step
<2>6. CASE UNCHANGED vars
  BY <2>0, <2>6, <2>k DEF vars
<2> QED
  BY <2>1, <2>2, <2>3, <2>4, <2>5, <2>6 DEF Next
<1> QED
  BY <1>t, <1>o

LEMMA OwnedHolds == Spec => [](torn \/ Owned)
<1>1. Init => torn \/ Owned
  BY OwnedInit
<1> QED
  BY <1>1, OwnedStep, BasicHolds, PTL DEF Spec

\* The run that is going is the one an abort reaches and the session reports itself busy
\* while it goes, whatever prompts, aborts, session changes and deliveries come in whatever
\* order: until reset() meets a run that began during its own session change.
THEOREM KnownRun == Spec => []RunIsKnown
<1>1. torn \/ Owned => RunIsKnown
  <2> SUFFICES ASSUME Owned, NEW a \in Going PROVE current = a /\ streaming
    BY DEF RunIsKnown
  <2>1. a \in Slot /\ a # 0 /\ actors[a].pc = "running"
    BY BoundsAssumption DEF Going, Slot
  <2> QED
    BY <2>1 DEF Owned, Orderly, Alone
<1> QED
  BY <1>1, OwnedHolds, PTL

\* And with the same exception no two runs go at once.
THEOREM SingleRun == Spec => []OneRunAtATime
<1>1. RunIsKnown => OneRunAtATime
  <2> SUFFICES ASSUME RunIsKnown, ~torn PROVE Cardinality(Going) <= 1
    BY DEF OneRunAtATime
  <2>1. Going \subseteq {current}
    BY DEF RunIsKnown
  <2>2. IsFiniteSet({current}) /\ Cardinality({current}) = 1
    BY FS_Singleton
  <2> QED
    BY <2>1, <2>2, FS_Subset
<1> QED
  BY <1>1, KnownRun, PTL
=============================================================================
