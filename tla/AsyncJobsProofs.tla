--------------------------- MODULE AsyncJobsProofs ---------------------------
(***************************************************************************)
(* Proofs about AsyncJobs: its type invariant for every bound, that what   *)
(* runs is on record unless a job of its id outlived its own eviction, and *)
(* that no follow-up repeats a result of a job on record.                  *)
(***************************************************************************)
EXTENDS AsyncJobs, FilteringProofs

-----------------------------------------------------------------------------
(* The operators of the model.                                             *)

LEMMA ToSetIsRange ==
  ASSUME NEW s
  PROVE  ToSet(s) = Range(s)
BY DEF ToSet, Range

LEMMA MinIsLeast ==
  ASSUME NEW S, S \subseteq Nat, S # {}
  PROVE  Min(S) \in S /\ \A y \in S : Min(S) <= y
<1>1. \E x \in S : \A y \in S : x <= y
  BY LeastNumber
<1> QED
  BY <1>1 DEF Min

LEMMA AtMostTwo ==
  ASSUME NEW n \in 0..2
  PROVE  Min({n + 1, 2}) \in 1..2
<1>1. {n + 1, 2} \subseteq Nat /\ {n + 1, 2} # {}
  OBVIOUS
<1>2. Min({n + 1, 2}) \in {n + 1, 2} /\ \A y \in {n + 1, 2} : Min({n + 1, 2}) <= y
  BY <1>1, MinIsLeast
<1> QED
  BY <1>2

\* An id that may be given out is an id nothing is on record under.
LEMMA FreeIsFree ==
  ASSUME NEW i \in Ids, FreeIds # {}, i = Min(FreeIds)
  PROVE  rec[i] = 0
<1>1. FreeIds \subseteq Nat
  BY BoundsAssumption DEF FreeIds
<1>2. i \in FreeIds
  BY <1>1, MinIsLeast
<1> QED
  BY <1>2 DEF FreeIds

LEMMA JobsType ==
  Jobs \subseteq Nat \ {0} /\ Jobs \subseteq 0..MaxJobs /\ 0 \notin Jobs /\ 0 \notin Ids /\ 0..MaxJobs = Jobs \cup {0}
BY BoundsAssumption DEF Jobs

\* Every job that was registered has an id, what is on record is on record under
\* its id, and a call waits for registered jobs only.
Named ==
  /\ \A j \in Jobs : job[j].status = "unused" <=> job[j].id = 0
  /\ \A j \in Jobs : job[j].alive => job[j].status \in {"running", "cancelled"}
  /\ \A i \in Ids : rec[i] # 0 => job[rec[i]].id = i
  /\ \A s \in Slots : \A j \in calls[s].on : job[j].status # "unused"

Typed == TypeOK /\ Named

LEMMA HasId ==
  ASSUME Typed, NEW j \in Jobs, job[j].status # "unused" \/ job[j].alive \/ Ended(j) \/ Running(j)
  PROVE  job[j].id \in Ids /\ job[j].status # "unused"
<1>1. job[j].id \in Ids \cup {0}
  BY DEF Typed, TypeOK, Job
<1>2. job[j].status # "unused"
  BY DEF Typed, Named, Ended, Running
<1> QED
  BY <1>1, <1>2 DEF Typed, Named

\* What the jobs are after job j's record ends.
LEMMA EndsAsFields ==
  ASSUME TypeOK, NEW j \in Jobs, NEW st \in Status, NEW al \in BOOLEAN, EndsAs(j, st, al)
  PROVE  /\ job' \in [Jobs -> Job]
         /\ job'[j].status = st /\ job'[j].id = job[j].id /\ job'[j].alive = al
         /\ job'[j].resumed = job[j].resumed
         /\ job'[j].late <=> (job[j].late \/ rec[job[j].id] # j)
         /\ \A k \in Jobs \ {j} : job'[k] = job[k]
         /\ timers' = Armed(job[j].id)
<1> DEFINE lt == job[j].late \/ rec[job[j].id] # j
           r == Ending(j, st, al)
<1>1. job \in [Jobs -> Job] /\ lt \in BOOLEAN
  BY DEF TypeOK, Job
<1>2. job' = [job EXCEPT ![j] = r]
  BY DEF EndsAs
<1>7. r = [job[j] EXCEPT !.status = st, !.alive = al, !.late = lt]
  BY DEF Ending
<1> HIDE DEF lt, r
<1>3. /\ r \in Job /\ r.status = st /\ r.id = job[j].id /\ r.alive = al /\ r.late = lt
      /\ r.resumed = job[j].resumed
  <2>1. job[j] \in Job
    BY <1>1
  <2> QED
    BY <1>1, <1>7, <2>1 DEF Job
<1>4. job' \in [Jobs -> Job] /\ job'[j] = r /\ \A k \in Jobs \ {j} : job'[k] = job[k]
  BY <1>1, <1>2, <1>3
<1>5. timers' = Armed(job[j].id)
  BY DEF EndsAs
<1>6. job'[j].late <=> lt
  BY <1>3, <1>4
<1> QED
  BY <1>3, <1>4, <1>5, <1>6 DEF lt

LEMMA AllCancelledFields ==
  ASSUME TypeOK, AllCancelled
  PROVE  /\ job' \in [Jobs -> Job]
         /\ \A k \in Jobs : /\ job'[k].id = job[k].id /\ job'[k].alive = job[k].alive
                            /\ job'[k].late = job[k].late /\ job'[k].resumed = job[k].resumed
         /\ \A k \in Jobs : k \in Listed /\ Running(k) => job'[k].status = "cancelled"
         /\ \A k \in Jobs : ~(k \in Listed /\ Running(k)) => job'[k] = job[k]
<1>1. job \in [Jobs -> Job]
  BY DEF TypeOK
<1>2. job' = [j \in Jobs |-> IF j \in Listed /\ Running(j) THEN [job[j] EXCEPT !.status = "cancelled"] ELSE job[j]]
  BY DEF AllCancelled
<1>3. \A k \in Jobs : /\ [job[k] EXCEPT !.status = "cancelled"] \in Job
                      /\ [job[k] EXCEPT !.status = "cancelled"].id = job[k].id
                      /\ [job[k] EXCEPT !.status = "cancelled"].alive = job[k].alive
                      /\ [job[k] EXCEPT !.status = "cancelled"].late = job[k].late
                      /\ [job[k] EXCEPT !.status = "cancelled"].resumed = job[k].resumed
                      /\ [job[k] EXCEPT !.status = "cancelled"].status = "cancelled"
  BY <1>1 DEF Job, Status
<1> QED
  BY <1>1, <1>2, <1>3

\* What a tool's answer changes.
LEMMA AnswerFields ==
  ASSUME Typed, NEW js \in SUBSET Jobs, NEW w \in SUBSET Ids, Answer(js, w),
         \A j \in js : job[j].status # "unused"
  PROVE  \E ended \in SUBSET Jobs :
           /\ \A k \in ended : Ended(k)
           /\ suppressed' = suppressed \cup {job[k].id : k \in ended} /\ suppressed' \subseteq Ids
           /\ watched' = w
           /\ deliveries' \in Seq(Jobs) /\ Range(deliveries') \subseteq Range(deliveries)
           /\ told' = Answered(ended)
<1> DEFINE ended == {k \in {Latest(j) : j \in js} : Ended(k)}
           ids == {job[k].id : k \in ended}
           spared == {k \in Jobs : job[k].id \notin suppressed \cup ids \cup w}
<1>1. /\ suppressed' = suppressed \cup ids /\ watched' = w
      /\ deliveries' = Only(deliveries, spared) /\ told' = Answered(ended)
  BY DEF Answer
<1>2. \A j \in js : Latest(j) \in Jobs
  <2>1. \A i \in Ids : rec[i] # 0 => rec[i] \in Jobs
    BY JobsType DEF Typed, TypeOK
  <2>2. \A j \in js : job[j].id \in Ids
    BY HasId
  <2> QED
    BY <2>1, <2>2 DEF Latest
<1>3. ended \in SUBSET Jobs /\ \A k \in ended : Ended(k)
  BY <1>2
<1>4. deliveries \in Seq(Jobs)
  BY DEF Typed, TypeOK
<1>5. Only(deliveries, spared) \in Seq(Jobs \cap spared) /\ Range(Only(deliveries, spared)) = Range(deliveries) \cap spared
  BY <1>4, OnlyType, OnlyMembers
<1>6. suppressed \subseteq Ids
  BY DEF Typed, TypeOK
<1>7. Jobs \cap spared = spared /\ spared \subseteq Jobs
  OBVIOUS
<1> HIDE DEF ended, spared
<1>8. deliveries' \in Seq(Jobs) /\ Range(deliveries') \subseteq Range(deliveries)
  BY <1>1, <1>5, <1>7
<1>9. ids \subseteq Ids
  BY <1>3, HasId
<1> QED
  BY <1>1, <1>3, <1>6, <1>8, <1>9

-----------------------------------------------------------------------------
(* Type correctness.                                                       *)

LEMMA InitTyped ==
  ASSUME Init
  PROVE  Typed
<1>1. 0 \in 0..MaxJobs /\ 0 \in 0..MaxCalls /\ 0 \in 0..MaxFails /\ 0 \in 0..2
  BY BoundsAssumption
<1>2. TypeOK
  <2>1. deliveries \in Seq(Jobs)
    BY DEF Init
  <2>2. NoCall \in Call /\ Untold \in [tool : BOOLEAN, followUps : 0..2]
    BY <1>1 DEF NoCall, Call, Untold
  <2>3. [status |-> "unused", id |-> 0, alive |-> FALSE, queued |-> FALSE, late |-> FALSE, resumed |-> FALSE] \in Job
    BY DEF Job, Status
  <2> QED
    BY <1>1, <2>1, <2>2, <2>3 DEF Init, TypeOK
<1>3. Named
  BY DEF Init, Named, NoCall
<1> QED
  BY <1>2, <1>3 DEF Typed

\* What registering a job changes.
LEMMA RegisterFields ==
  ASSUME Typed, NEW j \in Jobs, NEW i \in Ids, NEW q \in BOOLEAN, Register(j, i, q)
  PROVE  /\ job' \in [Jobs -> Job] /\ rec' \in [Ids -> 0..MaxJobs]
         /\ job'[j].status = "running" /\ job'[j].id = i /\ job'[j].alive
         /\ ~job'[j].late /\ ~job'[j].resumed
         /\ \A k \in Jobs \ {j} : job'[k] = job[k]
         /\ rec'[i] = j /\ \A h \in Ids \ {i} : rec'[h] = rec[h]
         /\ rec[i] = 0 /\ job[j].status = "unused"
<1> DEFINE r == [status |-> "running", id |-> i, alive |-> TRUE, queued |-> q, late |-> FALSE, resumed |-> FALSE]
<1>1. r \in Job /\ r.status = "running" /\ r.id = i /\ r.alive /\ ~r.late /\ ~r.resumed
  BY DEF Job, Status
<1>2. job' = [job EXCEPT ![j] = r] /\ rec' = [rec EXCEPT ![i] = j] /\ job[j].status = "unused"
  BY DEF Register
<1>3. rec[i] = 0
  BY FreeIsFree DEF Register
<1>4. job \in [Jobs -> Job] /\ rec \in [Ids -> 0..MaxJobs]
  BY DEF Typed, TypeOK
<1> HIDE DEF r
<1> QED
  BY <1>1, <1>2, <1>3, <1>4, JobsType

\* Dropping deliveries leaves jobs that were to be delivered.
LEMMA DroppedType ==
  ASSUME Typed, NEW S, deliveries' = Only(deliveries, S)
  PROVE  deliveries' \in Seq(Jobs) /\ Range(deliveries') \subseteq Range(deliveries)
<1>1. deliveries \in Seq(Jobs)
  BY DEF Typed, TypeOK
<1>2. Only(deliveries, S) \in Seq(Jobs \cap S) /\ Range(Only(deliveries, S)) = Range(deliveries) \cap S
  BY <1>1, OnlyType, OnlyMembers
<1> QED
  BY <1>2

\* What a start changes, of either kind.
LEMMA StartFields ==
  ASSUME Typed, NEW j \in Jobs, StartBackground(j) \/ \E s \in Slots : StartForeground(j, s)
  PROVE  \E i \in Ids, q \in BOOLEAN :
           /\ Register(j, i, q)
           /\ \/ suppressed' = suppressed \ {i} /\ calls' = calls
              \/ /\ suppressed' = suppressed \cup {i}
                 /\ \E s \in Slots : calls' = [calls EXCEPT ![s] = [kind |-> "bash", on |-> {j}, watching |-> {}]]
           /\ deliveries' \in Seq(Jobs) /\ Range(deliveries') \subseteq Range(deliveries)
           /\ disposing = "no" /\ UNCHANGED <<timers, watched, inFlight, queue, told, disposing, used>>
<1>1. CASE StartBackground(j)
  BY <1>1 DEF StartBackground, Register, Typed, TypeOK
<1>2. ASSUME NEW s \in Slots, StartForeground(j, s)
      PROVE  \E i \in Ids :
               /\ Register(j, i, FALSE)
               /\ suppressed' = suppressed \cup {i}
               /\ calls' = [calls EXCEPT ![s] = [kind |-> "bash", on |-> {j}, watching |-> {}]]
               /\ deliveries' \in Seq(Jobs) /\ Range(deliveries') \subseteq Range(deliveries)
               /\ disposing = "no" /\ UNCHANGED <<timers, watched, inFlight, queue, told, disposing, used>>
  <2>1. PICK i \in Ids : /\ Register(j, i, FALSE)
                         /\ suppressed' = suppressed \cup {i}
                         /\ calls' = [calls EXCEPT ![s] = [kind |-> "bash", on |-> {j}, watching |-> {}]]
                         /\ \E S : deliveries' = Only(deliveries, S)
    BY <1>2 DEF StartForeground
  <2>2. deliveries' \in Seq(Jobs) /\ Range(deliveries') \subseteq Range(deliveries)
    BY <2>1, DroppedType
  <2> QED
    BY <2>1, <2>2 DEF Register
<1> QED
  BY <1>1, <1>2

LEMMA StartsTyped ==
  ASSUME Typed, NEW j \in Jobs, StartBackground(j) \/ \E s \in Slots : StartForeground(j, s)
  PROVE  Typed'
<1>1. PICK i \in Ids, q \in BOOLEAN :
        /\ Register(j, i, q)
        /\ suppressed' \in {suppressed \ {i}, suppressed \cup {i}}
        /\ calls' = calls \/ \E s \in Slots : calls' = [calls EXCEPT ![s] = [kind |-> "bash", on |-> {j}, watching |-> {}]]
        /\ deliveries' \in Seq(Jobs)
        /\ UNCHANGED <<timers, watched, inFlight, queue, told, disposing, used>>
  BY StartFields
<1>2. /\ job' \in [Jobs -> Job] /\ rec' \in [Ids -> 0..MaxJobs]
      /\ job'[j].status = "running" /\ job'[j].id = i /\ job'[j].alive
      /\ \A k \in Jobs \ {j} : job'[k] = job[k]
  BY <1>1, RegisterFields
<1>3. [kind |-> "bash", on |-> {j}, watching |-> {}] \in Call
  BY DEF Call
<1>4. calls \in [Slots -> Call] /\ calls' \in [Slots -> Call]
  BY <1>1, <1>3 DEF Typed, TypeOK
<1>5. UNCHANGED <<timers, watched, inFlight, queue, told, disposing, used>> /\ deliveries' \in Seq(Jobs)
  BY <1>1
<1>6. suppressed' \subseteq Ids
  BY <1>1 DEF Typed, TypeOK
<1>7. TypeOK'
  BY <1>2, <1>4, <1>5, <1>6 DEF Typed, TypeOK
<1>8. Named'
  <2>1. \A k \in Jobs : job'[k].status = "unused" <=> job'[k].id = 0
    BY <1>2, JobsType DEF Typed, Named
  <2>2. \A k \in Jobs : job'[k].alive => job'[k].status \in {"running", "cancelled"}
    BY <1>2 DEF Typed, Named
  <2>3. \A s \in Slots : \A k \in calls[s].on : k \in Jobs /\ job[k].status # "unused"
    BY DEF Typed, TypeOK, Named, Call
  <2>7. \A h \in Ids : rec'[h] # 0 => job'[rec'[h]].id = h
    <3>1. \A h \in Ids : rec[h] # 0 => rec[h] \in Jobs \ {j} /\ job[rec[h]].id = h
      BY <1>1, RegisterFields, JobsType DEF Typed, TypeOK, Named
    <3> QED
      BY <3>1, <1>1, <1>2, RegisterFields
  <2>4. \A k \in Jobs : job[k].status # "unused" => job'[k].status # "unused"
    BY <1>2
  <2>5. \A s \in Slots : calls'[s].on \subseteq calls[s].on \cup {j}
    BY <1>1, <1>4
  <2>6. \A s \in Slots : \A k \in calls'[s].on : job'[k].status # "unused"
    BY <2>3, <2>4, <2>5, <1>2
  <2> QED
    BY <2>1, <2>2, <2>6, <2>7 DEF Named
<1> QED
  BY <1>7, <1>8 DEF Typed

LEMMA NamesKept ==
  ASSUME Typed,
         \A k \in Jobs : /\ job'[k].id = job[k].id
                         /\ job'[k].status = "unused" <=> job[k].status = "unused"
                         /\ job'[k].alive => job'[k].status \in {"running", "cancelled"},
         \A i \in Ids : rec'[i] \in {rec[i], 0},
         \A s \in Slots : \A k \in calls'[s].on : k \in Jobs /\ job[k].status # "unused"
  PROVE  Named'
<1>1. \A i \in Ids : rec'[i] # 0 => rec'[i] \in Jobs /\ job[rec'[i]].id = i
  BY JobsType DEF Typed, TypeOK, Named
<1> QED
  BY <1>1 DEF Typed, Named

LEMMA CallsOnJobs ==
  ASSUME Typed, NEW s \in Slots
  PROVE  \A k \in calls[s].on : k \in Jobs /\ job[k].status # "unused"
BY DEF Typed, TypeOK, Named, Call

LEMMA JobsStay ==
  ASSUME Typed, UNCHANGED job, \A i \in Ids : rec'[i] \in {rec[i], 0},
         \A s \in Slots : calls'[s].on \subseteq calls[s].on
  PROVE  Named'
<1>1. \A k \in Jobs : job[k].alive => job[k].status \in {"running", "cancelled"}
  BY DEF Typed, Named
<1>2. \A s \in Slots : \A k \in calls'[s].on : k \in Jobs /\ job[k].status # "unused"
  BY CallsOnJobs
<1> QED
  BY <1>1, <1>2, NamesKept

LEMMA ReturnedType ==
  ASSUME Typed, NEW s \in Slots
  PROVE  /\ Returned(s) \in [Slots -> Call]
         /\ Returned(s)[s] = NoCall
         /\ \A t \in Slots : Returned(s)[t].on \subseteq calls[t].on
         /\ \A t \in Slots \ {s} : Returned(s)[t] = calls[t]
<1>1. NoCall \in Call /\ NoCall.on = {}
  BY DEF NoCall, Call
<1>2. calls \in [Slots -> Call]
  BY DEF Typed, TypeOK
<1> QED
  BY <1>1, <1>2 DEF Returned

LEMMA EnqueuedType ==
  ASSUME Typed, NEW j \in Jobs
  PROVE  /\ Enqueued(j) \in Seq(Jobs)
         /\ Range(Enqueued(j)) = IF Suppressed(j) THEN Range(deliveries) ELSE Range(deliveries) \cup {j}
<1>1. deliveries \in Seq(Jobs)
  BY DEF Typed, TypeOK
<1>2. Append(deliveries, j) \in Seq(Jobs)
  BY <1>1
<1>3. Range(Append(deliveries, j)) = Range(deliveries) \cup {j}
  BY <1>1, RangeAppend
<1> QED
  BY <1>1, <1>2, <1>3 DEF Enqueued

LEMMA ArmedType ==
  ASSUME Typed, NEW i \in Ids
  PROVE  Armed(i) \subseteq Ids
BY DEF Armed, Typed, TypeOK

\* What a tool's answer makes of told.
LEMMA ToldByTool ==
  ASSUME Typed, NEW j \in Jobs
  PROVE  /\ [told[j] EXCEPT !.tool = TRUE] \in [tool : BOOLEAN, followUps : 0..2]
         /\ [told[j] EXCEPT !.tool = TRUE].tool
         /\ [told[j] EXCEPT !.tool = TRUE].followUps = told[j].followUps
BY DEF Typed, TypeOK

LEMMA AnsweredType ==
  ASSUME Typed, NEW js \in SUBSET Jobs
  PROVE  /\ Answered(js) \in [Jobs -> [tool : BOOLEAN, followUps : 0..2]]
         /\ \A k \in Jobs : /\ k \in js /\ Ended(k) => Answered(js)[k].tool
                            /\ Answered(js)[k].followUps = told[k].followUps
                            /\ ~(k \in js /\ Ended(k)) => Answered(js)[k] = told[k]
<1>1. told \in [Jobs -> [tool : BOOLEAN, followUps : 0..2]]
  BY DEF Typed, TypeOK
<1>2. \A k \in Jobs : Answered(js)[k] = IF k \in js /\ Ended(k) THEN [told[k] EXCEPT !.tool = TRUE] ELSE told[k]
  BY DEF Answered
<1>3. \A k \in Jobs : Answered(js)[k] \in [tool : BOOLEAN, followUps : 0..2]
  BY <1>1, <1>2, ToldByTool
<1>4. Answered(js) = [k \in Jobs |-> Answered(js)[k]]
  BY DEF Answered
<1>5. Answered(js) \in [Jobs -> [tool : BOOLEAN, followUps : 0..2]]
  BY <1>3, <1>4
<1> QED
  BY <1>2, <1>5, ToldByTool

\* A job's end, told apart from the rest of the step.
LEMMA EndsTyped ==
  ASSUME Typed, NEW j \in Jobs, job[j].status # "unused", NEW st \in {"done", "cancelled"}, NEW al \in BOOLEAN,
         al => st = "cancelled", EndsAs(j, st, al)
  PROVE  /\ job' \in [Jobs -> Job] /\ timers' \subseteq Ids
         /\ \A k \in Jobs : /\ job'[k].id = job[k].id
                            /\ job'[k].status = "unused" <=> job[k].status = "unused"
                            /\ job'[k].alive => job'[k].status \in {"running", "cancelled"}
<1>1. st \in Status
  BY DEF Status
<1>2. /\ job' \in [Jobs -> Job]
      /\ job'[j].status = st /\ job'[j].id = job[j].id /\ job'[j].alive = al
      /\ \A k \in Jobs \ {j} : job'[k] = job[k]
      /\ timers' = Armed(job[j].id)
  BY <1>1, EndsAsFields DEF Typed
<1>3. timers' \subseteq Ids
  BY <1>2, HasId, ArmedType
<1> QED
  BY <1>2, <1>3 DEF Typed, Named

LEMMA SettleTyped ==
  ASSUME Typed, NEW j \in Jobs, Settle(j)
  PROVE  Typed'
<1>1. job[j].alive /\ job[j].status # "unused"
  BY HasId DEF Settle
<1>2. /\ EndsAs(j, "done", FALSE) \/ EndsAs(j, "cancelled", FALSE)
      /\ UNCHANGED <<rec, suppressed, watched, inFlight, queue, calls, told, disposing, used>>
  BY DEF Settle, marks
<1>3. /\ job' \in [Jobs -> Job] /\ timers' \subseteq Ids
      /\ \A k \in Jobs : /\ job'[k].id = job[k].id
                         /\ job'[k].status = "unused" <=> job[k].status = "unused"
                         /\ job'[k].alive => job'[k].status \in {"running", "cancelled"}
  BY <1>1, <1>2, EndsTyped
<1>4. deliveries' \in Seq(Jobs)
  <2>1. deliveries' = deliveries \/ deliveries' = Enqueued(j)
    BY DEF Settle
  <2> QED
    BY <2>1, EnqueuedType DEF Typed, TypeOK
<1>5. TypeOK'
  BY <1>2, <1>3, <1>4 DEF Typed, TypeOK
<1>6. Named'
  BY <1>2, <1>3, CallsOnJobs, NamesKept
<1> QED
  BY <1>5, <1>6 DEF Typed

\* What letting a task through changes.
LEMMA MarkFields ==
  ASSUME Typed, NEW j \in Jobs, MarkRunning(j)
  PROVE  /\ job' \in [Jobs -> Job]
         /\ \A k \in Jobs : /\ job'[k].status = job[k].status /\ job'[k].id = job[k].id
                            /\ job'[k].alive = job[k].alive
                            /\ job'[k].late = job[k].late /\ job'[k].resumed = job[k].resumed
<1> DEFINE r == [job[j] EXCEPT !.queued = FALSE]
<1>1. job \in [Jobs -> Job]
  BY DEF Typed, TypeOK
<1>2. /\ r \in Job /\ r.status = job[j].status /\ r.id = job[j].id /\ r.alive = job[j].alive
      /\ r.late = job[j].late /\ r.resumed = job[j].resumed
  BY <1>1 DEF Job
<1>3. job' = [job EXCEPT ![j] = r]
  BY DEF MarkRunning
<1> HIDE DEF r
<1> QED
  BY <1>1, <1>2, <1>3

LEMMA MarkTyped ==
  ASSUME Typed, NEW j \in Jobs, MarkRunning(j)
  PROVE  Typed'
<1>1. UNCHANGED <<rec, timers, suppressed, watched, deliveries, inFlight, queue, calls, told, disposing, used>>
  BY DEF MarkRunning, marks, pipe
<1>2. TypeOK'
  BY <1>1, MarkFields DEF Typed, TypeOK
<1>3. \A k \in Jobs : /\ job'[k].id = job[k].id
                      /\ job'[k].status = "unused" <=> job[k].status = "unused"
                      /\ job'[k].alive => job'[k].status \in {"running", "cancelled"}
  BY MarkFields DEF Typed, Named
<1>4. Named'
  BY <1>1, <1>3, CallsOnJobs, NamesKept
<1> QED
  BY <1>2, <1>4 DEF Typed

LEMMA CompleteTyped ==
  ASSUME Typed, NEW s \in Slots, Complete(s)
  PROVE  Typed'
<1>1. PICK j \in calls[s].on : told' = [told EXCEPT ![j] = [told[j] EXCEPT !.tool = TRUE]]
  BY DEF Complete
<1>2. /\ calls' = Returned(s)
      /\ UNCHANGED <<job, rec, timers, suppressed, watched, deliveries, inFlight, queue, disposing, used>>
  BY DEF Complete, records, marks, pipe
<1>3. j \in Jobs
  BY CallsOnJobs
<1>4. told' \in [Jobs -> [tool : BOOLEAN, followUps : 0..2]]
  BY <1>1, <1>3, ToldByTool DEF Typed, TypeOK
<1>5. TypeOK'
  BY <1>2, <1>4, ReturnedType DEF Typed, TypeOK
<1>6. Named'
  BY <1>2, ReturnedType, JobsStay
<1> QED
  BY <1>5, <1>6 DEF Typed

\* What is on record under the id of a job that is waited for.
LEMMA RecordType ==
  ASSUME Typed, NEW j \in Jobs, job[j].status # "unused"
  PROVE  /\ job[j].id \in Ids
         /\ rec[job[j].id] # 0 =>
              /\ rec[job[j].id] \in Jobs /\ job[rec[job[j].id]].id = job[j].id
              /\ job[rec[job[j].id]].status # "unused"
<1>1. job[j].id \in Ids
  BY HasId
<1>2. rec[job[j].id] # 0 => rec[job[j].id] \in Jobs /\ job[rec[job[j].id]].id = job[j].id
  BY <1>1, JobsType DEF Typed, TypeOK, Named
<1>3. job[j].id # 0
  BY <1>1, JobsType
<1> QED
  BY <1>1, <1>2, <1>3 DEF Typed, Named

\* What resuming a delivery changes: jobs keep all but the mark that it was resumed,
\* and the only job it may queue again is the one on record, which has ended and is
\* marked.
LEMMA ResumeFields ==
  ASSUME Typed, NEW j \in Jobs, job[j].status # "unused", Resume(j)
  PROVE  /\ job' \in [Jobs -> Job] /\ suppressed' \subseteq suppressed /\ deliveries' \in Seq(Jobs)
         /\ \A k \in Jobs : /\ job'[k].status = job[k].status /\ job'[k].id = job[k].id
                            /\ job'[k].alive = job[k].alive /\ job'[k].late = job[k].late
                            /\ job[k].resumed => job'[k].resumed
         /\ \A i \in suppressed : i # job[j].id => i \in suppressed'
         /\ \/ suppressed' = suppressed
            \/ \A k \in Jobs : rec[job[j].id] = k /\ (k # j \/ ~Running(k)) => job'[k].resumed
         /\ \A k \in Jobs : k \in Range(deliveries') =>
              k \in Range(deliveries) \/ (job[k].status = "done" /\ job'[k].resumed)
<1> DEFINE i == job[j].id
           r == rec[i]
<1>1. i \in Ids /\ (r # 0 => r \in Jobs /\ job[r].id = i)
  BY RecordType
<1>2. job \in [Jobs -> Job] /\ deliveries \in Seq(Jobs)
  BY DEF Typed, TypeOK
<1> HIDE DEF r
<1>3. CASE i \notin suppressed
  <2>1. UNCHANGED <<suppressed, deliveries, job>>
    BY <1>3 DEF Resume
  <2> QED
    BY <2>1, <1>2
<1>4. CASE i \in suppressed
  <2>1. /\ suppressed' = suppressed \ {i}
        /\ deliveries' = Requeued(r)
        /\ job' = IF r # 0 /\ (r # j \/ ~Running(r)) THEN [job EXCEPT ![r].resumed = TRUE] ELSE job
    BY <1>4 DEF Resume, r
  <2>2. /\ deliveries' \in Seq(Jobs)
        /\ \A k \in Range(deliveries') : k \in Range(deliveries) \/ (k = r /\ r # 0 /\ job[k].status = "done")
    <3>1. CASE deliveries' = deliveries
      BY <3>1, <1>2
    <3>2. CASE deliveries' = Append(deliveries, r) /\ r # 0 /\ job[r].status = "done"
      <4>1. r \in Jobs
        BY <3>2, <1>1 DEF r
      <4>2. Range(Append(deliveries, r)) = Range(deliveries) \cup {r}
        BY <4>1, <1>2, RangeAppend
      <4> QED
        BY <3>2, <4>1, <4>2, <1>2
    <3> QED
      BY <2>1, <3>1, <3>2 DEF Requeued
  <2>3. CASE r # 0 /\ (r # j \/ ~Running(r))
    <3> DEFINE R == [job[r] EXCEPT !.resumed = TRUE]
    <3>1. r \in Jobs
      BY <1>1, <2>3 DEF r
    <3>2. /\ R \in Job /\ R.status = job[r].status /\ R.id = job[r].id /\ R.alive = job[r].alive
          /\ R.late = job[r].late /\ R.resumed
      BY <1>2, <3>1 DEF Job
    <3>3. job' = [job EXCEPT ![r] = R]
      BY <2>1, <2>3
    <3> HIDE DEF R
    <3>4. /\ job' \in [Jobs -> Job] /\ job'[r] = R /\ \A k \in Jobs \ {r} : job'[k] = job[k]
      BY <3>1, <3>2, <3>3, <1>2
    <3> QED
      BY <2>1, <2>2, <3>1, <3>2, <3>4 DEF r
  <2>4. CASE ~(r # 0 /\ (r # j \/ ~Running(r)))
    <3>1. job' = job
      BY <2>1, <2>4
    <3>2. \A k \in Jobs : r = k => k = j /\ Running(k)
      BY <2>4, JobsType
    <3>3. r # 0 => job[r].status # "done"
      BY <2>4 DEF Running
    <3> QED
      BY <2>1, <2>2, <3>1, <3>2, <3>3, <1>2 DEF r
  <2> QED
    BY <2>3, <2>4
<1> QED
  BY <1>3, <1>4

LEMMA MoveTyped ==
  ASSUME Typed, NEW s \in Slots, MoveToBackground(s)
  PROVE  Typed'
<1>1. PICK j \in calls[s].on : Resume(j)
  BY DEF MoveToBackground
<1>2. j \in Jobs /\ job[j].status # "unused"
  BY CallsOnJobs
<1>3. calls' = Returned(s) /\ UNCHANGED <<rec, timers, watched, inFlight, queue, told, disposing, used>>
  BY DEF MoveToBackground
<1>4. /\ job' \in [Jobs -> Job] /\ suppressed' \subseteq suppressed /\ deliveries' \in Seq(Jobs)
      /\ \A k \in Jobs : /\ job'[k].status = job[k].status /\ job'[k].id = job[k].id
                         /\ job'[k].alive = job[k].alive
  BY <1>1, <1>2, ResumeFields
<1>5. TypeOK'
  BY <1>3, <1>4, ReturnedType DEF Typed, TypeOK
<1>6. \A k \in Jobs : /\ job'[k].id = job[k].id
                      /\ job'[k].status = "unused" <=> job[k].status = "unused"
                      /\ job'[k].alive => job'[k].status \in {"running", "cancelled"}
  BY <1>4 DEF Typed, Named
<1>7. Named'
  BY <1>3, <1>6, ReturnedType, CallsOnJobs, NamesKept
<1> QED
  BY <1>5, <1>7 DEF Typed

LEMMA AbortTyped ==
  ASSUME Typed, NEW s \in Slots, AbortForeground(s)
  PROVE  Typed'
<1>1. PICK j \in calls[s].on :
        /\ LET r == rec[job[j].id]
           IN IF r # 0 /\ Running(r) THEN EndsAs(r, "cancelled", TRUE) ELSE UNCHANGED <<job, timers>>
        /\ told' = [told EXCEPT ![j] = [told[j] EXCEPT !.tool = TRUE]]
  BY DEF AbortForeground
<1>2. j \in Jobs /\ job[j].status # "unused"
  BY CallsOnJobs
<1>3. calls' = Returned(s) /\ UNCHANGED <<rec, suppressed, watched, deliveries, inFlight, queue, disposing, used>>
  BY DEF AbortForeground, marks, pipe
<1> DEFINE r == rec[job[j].id]
<1>r. r # 0 => r \in Jobs /\ job[r].status # "unused"
  BY <1>2, RecordType
<1>4. /\ job' \in [Jobs -> Job] /\ timers' \subseteq Ids
      /\ \A k \in Jobs : /\ job'[k].id = job[k].id
                         /\ job'[k].status = "unused" <=> job[k].status = "unused"
                         /\ job'[k].alive => job'[k].status \in {"running", "cancelled"}
  <2>1. CASE r # 0 /\ Running(r)
    <3>1. EndsAs(r, "cancelled", TRUE)
      BY <1>1, <2>1
    <3> HIDE DEF r
    <3> QED
      BY <1>r, <2>1, <3>1, EndsTyped
  <2>2. CASE ~(r # 0 /\ Running(r))
    BY <1>1, <2>2 DEF Typed, TypeOK, Named
  <2> QED
    BY <2>1, <2>2
<1>5. told' \in [Jobs -> [tool : BOOLEAN, followUps : 0..2]]
  BY <1>1, <1>2, ToldByTool DEF Typed, TypeOK
<1>6. TypeOK'
  BY <1>3, <1>4, <1>5, ReturnedType DEF Typed, TypeOK
<1>7. Named'
  BY <1>3, <1>4, ReturnedType, CallsOnJobs, NamesKept
<1> QED
  BY <1>6, <1>7 DEF Typed

LEMMA CountedType ==
  ASSUME Typed, Counted
  PROVE  used' \in [calls : 0..MaxCalls, fails : 0..MaxFails]
<1>1. MaxCalls \in Nat /\ MaxFails \in Nat
  BY BoundsAssumption
<1>2. used \in [calls : 0..MaxCalls, fails : 0..MaxFails]
  BY DEF Typed, TypeOK
<1>3. used.calls + 1 \in 0..MaxCalls
  BY <1>1, <1>2 DEF Counted
<1> QED
  BY <1>2, <1>3 DEF Counted

LEMMA ListedAreJobs ==
  ASSUME Typed
  PROVE  Listed \subseteq Jobs
BY JobsType DEF Listed, Typed, TypeOK

LEMMA RunningIds ==
  ASSUME Typed
  PROVE  {job[j].id : j \in {k \in Listed : Running(k)}} \subseteq Ids
BY ListedAreJobs, HasId

LEMMA ListedAreNamed ==
  ASSUME Typed, NEW j \in Listed
  PROVE  j \in Jobs /\ job[j].status # "unused" /\ job[j].id \in Ids /\ rec[job[j].id] = j
<1>1. PICK i \in Ids : rec[i] = j /\ rec[i] # 0
  BY DEF Listed
<1>2. job[j].id = i /\ j \in Jobs /\ i # 0
  BY <1>1, JobsType, ListedAreJobs DEF Typed, Named
<1> QED
  BY <1>1, <1>2 DEF Typed, Named

LEMMA ListTyped ==
  ASSUME Typed, NEW js \in SUBSET Jobs, List(js)
  PROVE  Typed'
<1>1. Answer(js, watched) /\ UNCHANGED <<job, rec, timers, inFlight, queue, calls, disposing>> /\ Counted
  BY DEF List, records
<1>2. watched \in SUBSET Ids /\ \A j \in js : job[j].status # "unused"
  BY ListedAreNamed DEF List, Typed, TypeOK
<1>3. PICK ended \in SUBSET Jobs : /\ suppressed' \subseteq Ids
                                   /\ watched' = watched
                                   /\ deliveries' \in Seq(Jobs)
                                   /\ told' = Answered(ended)
  BY <1>1, <1>2, AnswerFields
<1>4. told' \in [Jobs -> [tool : BOOLEAN, followUps : 0..2]]
  BY <1>3, AnsweredType
<1>5. TypeOK'
  BY <1>1, <1>2, <1>3, <1>4, CountedType DEF Typed, TypeOK
<1>6. Named'
  BY <1>1, JobsStay
<1> QED
  BY <1>5, <1>6 DEF Typed

LEMMA PollStartTyped ==
  ASSUME Typed, NEW s \in Slots, NEW js \in SUBSET Jobs, PollStart(s, js)
  PROVE  Typed'
<1> DEFINE ids == {job[j].id : j \in {k \in js : Running(k)}}
<1>1. /\ watched' = watched \cup ids
      /\ calls' = [calls EXCEPT ![s] = [kind |-> "poll", on |-> js, watching |-> ids]]
      /\ UNCHANGED <<job, rec, timers, suppressed, deliveries, inFlight, queue, told, disposing>>
      /\ Counted
  BY DEF PollStart, records, pipe
<1>2. ids \subseteq Ids
  BY HasId
<1> HIDE DEF ids
<1>3. [kind |-> "poll", on |-> js, watching |-> ids] \in Call
  BY <1>2 DEF Call
<1>4. calls' \in [Slots -> Call]
  BY <1>1, <1>3 DEF Typed, TypeOK
<1>5. TypeOK'
  BY <1>1, <1>2, <1>4, CountedType DEF Typed, TypeOK
<1>6. \A t \in Slots : \A k \in calls'[t].on : k \in Jobs /\ job[k].status # "unused"
  <2>1. calls \in [Slots -> Call]
    BY DEF Typed, TypeOK
  <2>2. \A t \in Slots : calls'[t].on = calls[t].on \/ calls'[t].on = js
    BY <1>1, <2>1
  <2>3. \A k \in js : k \in Jobs /\ job[k].status # "unused"
    BY ListedAreNamed DEF PollStart
  <2> QED
    BY <2>2, <2>3, CallsOnJobs
<1>7. Named'
  <2>1. \A k \in Jobs : job[k].alive => job[k].status \in {"running", "cancelled"}
    BY DEF Typed, Named
  <2> QED
    BY <1>1, <1>6, <2>1, NamesKept
<1> QED
  BY <1>5, <1>7 DEF Typed

LEMMA PollEndTyped ==
  ASSUME Typed, NEW s \in Slots, PollEnd(s)
  PROVE  Typed'
<1> DEFINE js == calls[s].on
           w == watched \ calls[s].watching
<1>1. Answer(js, w) /\ calls' = Returned(s) /\ UNCHANGED <<job, rec, timers, inFlight, queue, disposing, used>>
  BY DEF PollEnd, records
<1>2. w \in SUBSET Ids
  BY DEF Typed, TypeOK
<1>3. js \in SUBSET Jobs /\ \A j \in js : job[j].status # "unused"
  BY CallsOnJobs
<1> HIDE DEF js, w
<1>4. PICK ended \in SUBSET Jobs : /\ suppressed' \subseteq Ids
                                   /\ watched' = w
                                   /\ deliveries' \in Seq(Jobs)
                                   /\ told' = Answered(ended)
  BY <1>1, <1>2, <1>3, AnswerFields
<1>5. told' \in [Jobs -> [tool : BOOLEAN, followUps : 0..2]]
  BY <1>4, AnsweredType
<1>6. TypeOK'
  BY <1>1, <1>2, <1>4, <1>5, ReturnedType DEF Typed, TypeOK
<1>7. Named'
  BY <1>1, ReturnedType, JobsStay
<1> QED
  BY <1>6, <1>7 DEF Typed

LEMMA CancelTyped ==
  ASSUME Typed, NEW j \in Jobs, CancelJob(j)
  PROVE  Typed'
<1>1. /\ Running(j) /\ EndsAs(j, "cancelled", TRUE) /\ Counted
      /\ suppressed' = suppressed \cup {job[j].id}
      /\ told' = [told EXCEPT ![j] = [told[j] EXCEPT !.tool = TRUE]]
      /\ UNCHANGED <<rec, watched, inFlight, queue, calls, disposing>>
  BY DEF CancelJob
<1>2. PICK S : deliveries' = Only(deliveries, S)
  BY DEF CancelJob
<1>3. deliveries' \in Seq(Jobs)
  <2>1. deliveries \in Seq(Jobs)
    BY DEF Typed, TypeOK
  <2>2. Only(deliveries, S) \in Seq(Jobs \cap S)
    BY <2>1, OnlyType
  <2> QED
    BY <1>2, <2>2
<1>4. job[j].id \in Ids /\ job[j].status # "unused"
  BY <1>1, HasId
<1>5. told' \in [Jobs -> [tool : BOOLEAN, followUps : 0..2]]
  BY <1>1, ToldByTool DEF Typed, TypeOK
<1>6. /\ job' \in [Jobs -> Job] /\ timers' \subseteq Ids
      /\ \A k \in Jobs : /\ job'[k].id = job[k].id
                         /\ job'[k].status = "unused" <=> job[k].status = "unused"
                         /\ job'[k].alive => job'[k].status \in {"running", "cancelled"}
  BY <1>1, <1>4, EndsTyped
<1>7. TypeOK'
  BY <1>1, <1>3, <1>4, <1>5, <1>6, CountedType DEF Typed, TypeOK
<1>8. Named'
  BY <1>1, <1>6, CallsOnJobs, NamesKept
<1> QED
  BY <1>7, <1>8 DEF Typed

\* Cancelling every job, told apart from the rest of the step.
LEMMA AllCancelledTyped ==
  ASSUME Typed, AllCancelled, UNCHANGED <<calls, rec>>
  PROVE  job' \in [Jobs -> Job] /\ Named'
<1>1. /\ job' \in [Jobs -> Job]
      /\ \A k \in Jobs : job'[k].id = job[k].id /\ job'[k].alive = job[k].alive
      /\ \A k \in Jobs : k \in Listed /\ Running(k) => job'[k].status = "cancelled"
      /\ \A k \in Jobs : ~(k \in Listed /\ Running(k)) => job'[k] = job[k]
  BY AllCancelledFields DEF Typed
<1>2. \A k \in Jobs : job'[k].status = "unused" <=> job[k].status = "unused"
  BY <1>1 DEF Running
<1>3. \A k \in Jobs : job'[k].alive => job'[k].status \in {"running", "cancelled"}
  BY <1>1 DEF Typed, Named
<1> QED
  BY <1>1, <1>2, <1>3, CallsOnJobs, NamesKept

LEMMA LeaveTyped ==
  ASSUME Typed, LeaveSession
  PROVE  Typed'
<1>1. /\ AllCancelled
      /\ timers' = timers \cup {job[j].id : j \in {k \in Listed : Running(k)}}
      /\ UNCHANGED <<rec, suppressed, watched, deliveries, inFlight, queue, calls, told, disposing, used>>
  BY DEF LeaveSession, marks, pipe
<1>2. TypeOK'
  BY <1>1, AllCancelledTyped, RunningIds DEF Typed, TypeOK
<1> QED
  BY <1>1, <1>2, AllCancelledTyped DEF Typed

LEMMA DisposeTyped ==
  ASSUME Typed, Dispose
  PROVE  Typed'
<1>1. /\ AllCancelled /\ disposing' = "waiting" /\ queue' = {} /\ timers' = {}
      /\ UNCHANGED <<rec, suppressed, watched, deliveries, inFlight, calls, told, used>>
  BY DEF Dispose, marks
<1>2. TypeOK'
  BY <1>1, AllCancelledTyped DEF Typed, TypeOK
<1> QED
  BY <1>1, <1>2, AllCancelledTyped DEF Typed

LEMMA DisposedTyped ==
  ASSUME Typed, Disposed
  PROVE  Typed'
<1>1. /\ disposing' = "over" /\ rec' = [i \in Ids |-> 0] /\ suppressed' = {} /\ watched' = {}
      /\ deliveries' = << >> /\ inFlight' = [w \in Workers |-> 0]
      /\ UNCHANGED <<job, timers, queue, calls, told, used>>
  BY DEF Disposed
<1>2. deliveries' \in Seq(Jobs)
  BY <1>1
<1>3. TypeOK'
  BY <1>1, <1>2, JobsType DEF Typed, TypeOK
<1>4. Named'
  BY <1>1, JobsStay
<1> QED
  BY <1>3, <1>4 DEF Typed

LEMMA EvictTyped ==
  ASSUME Typed, NEW i \in Ids, Evict(i)
  PROVE  Typed'
<1>1. /\ timers' = timers \ {i} /\ rec' = [rec EXCEPT ![i] = 0]
      /\ suppressed' = suppressed \ {i} /\ watched' = watched \ {i}
      /\ UNCHANGED <<job, deliveries, inFlight, queue, calls, told, disposing, used>>
  BY DEF Evict, pipe
<1>2. TypeOK'
  BY <1>1, JobsType DEF Typed, TypeOK
<1>3. Named'
  BY <1>1, JobsStay
<1> QED
  BY <1>2, <1>3 DEF Typed

LEMMA TakeTyped ==
  ASSUME Typed, NEW w \in Workers, NEW j \in Jobs, TakeDelivery(w, j)
  PROVE  Typed'
<1>1. /\ deliveries' = Only(deliveries, Jobs \ {j})
      /\ inFlight' = inFlight \/ inFlight' = [inFlight EXCEPT ![w] = j]
      /\ UNCHANGED <<job, rec, timers, suppressed, watched, queue, calls, told, disposing, used>>
  BY DEF TakeDelivery, records, marks
<1>2. deliveries' \in Seq(Jobs)
  <2>1. deliveries \in Seq(Jobs)
    BY DEF Typed, TypeOK
  <2>2. Only(deliveries, Jobs \ {j}) \in Seq(Jobs \cap (Jobs \ {j}))
    BY <2>1, OnlyType
  <2> QED
    BY <1>1, <2>2
<1>3. TypeOK'
  BY <1>1, <1>2, JobsType DEF Typed, TypeOK
<1>4. Named'
  BY <1>1, JobsStay
<1> QED
  BY <1>3, <1>4 DEF Typed

\* A worker that is delivering delivers a job.
LEMMA InFlightJob ==
  ASSUME Typed, NEW w \in Workers, inFlight[w] # 0
  PROVE  inFlight[w] \in Jobs
BY JobsType DEF Typed, TypeOK

LEMMA DeliverTyped ==
  ASSUME Typed, NEW w \in Workers, Deliver(w) \/ DeliveryFails(w)
  PROVE  Typed'
<1>1. /\ inFlight[w] # 0 /\ inFlight' = [inFlight EXCEPT ![w] = 0]
      /\ UNCHANGED <<job, rec, timers, suppressed, watched, calls, told, disposing>>
  BY DEF Deliver, DeliveryFails, records, marks
<1>2. inFlight[w] \in Jobs
  BY <1>1, InFlightJob
<1>3. queue' \subseteq Jobs
  BY <1>2 DEF Deliver, DeliveryFails, Typed, TypeOK
<1>4. deliveries' \in Seq(Jobs)
  <2>1. deliveries' = deliveries \/ deliveries' = Enqueued(inFlight[w])
    BY DEF Deliver, DeliveryFails
  <2> QED
    BY <1>2, <2>1, EnqueuedType DEF Typed, TypeOK
<1>5. used' \in [calls : 0..MaxCalls, fails : 0..MaxFails]
  <2>1. MaxCalls \in Nat /\ MaxFails \in Nat
    BY BoundsAssumption
  <2> QED
    BY <2>1 DEF Deliver, DeliveryFails, Typed, TypeOK
<1>6. TypeOK'
  BY <1>1, <1>3, <1>4, <1>5, JobsType DEF Typed, TypeOK
<1>7. Named'
  BY <1>1, JobsStay
<1> QED
  BY <1>6, <1>7 DEF Typed

\* What an injection makes of told.
LEMMA ToldByFollowUp ==
  ASSUME Typed, Inject
  PROVE  /\ told' \in [Jobs -> [tool : BOOLEAN, followUps : 0..2]]
         /\ \A j \in Jobs : told'[j].tool = told[j].tool
         /\ \A j \in Jobs \ Fresh : told'[j] = told[j]
<1>1. told \in [Jobs -> [tool : BOOLEAN, followUps : 0..2]]
  BY DEF Typed, TypeOK
<1>2. told' = [j \in Jobs |-> IF j \in Fresh THEN [told[j] EXCEPT !.followUps = Min({told[j].followUps + 1, 2})] ELSE told[j]]
  BY DEF Inject
<1>3. ASSUME NEW j \in Jobs
      PROVE  /\ [told[j] EXCEPT !.followUps = Min({told[j].followUps + 1, 2})] \in [tool : BOOLEAN, followUps : 0..2]
             /\ [told[j] EXCEPT !.followUps = Min({told[j].followUps + 1, 2})].tool = told[j].tool
  <2>1. told[j] \in [tool : BOOLEAN, followUps : 0..2] /\ told[j].followUps \in 0..2
    BY <1>1
  <2>2. Min({told[j].followUps + 1, 2}) \in 0..2
    BY <2>1, AtMostTwo
  <2> DEFINE m == Min({told[j].followUps + 1, 2})
  <2> HIDE DEF m
  <2>3. m \in 0..2
    BY <2>2 DEF m
  <2>4. [told[j] EXCEPT !.followUps = m] \in [tool : BOOLEAN, followUps : 0..2]
    BY <2>1, <2>3
  <2>5. [told[j] EXCEPT !.followUps = m].tool = told[j].tool
    BY <2>1
  <2> QED
    BY <2>4, <2>5 DEF m
<1> QED
  BY <1>1, <1>2, <1>3

LEMMA InjectTyped ==
  ASSUME Typed, Inject
  PROVE  Typed'
<1>1. /\ queue' = {}
      /\ UNCHANGED <<job, rec, timers, suppressed, watched, deliveries, inFlight, calls, disposing, used>>
  BY DEF Inject, records, marks
<1>2. TypeOK'
  BY <1>1, ToldByFollowUp DEF Typed, TypeOK
<1>3. Named'
  BY <1>1, JobsStay
<1> QED
  BY <1>2, <1>3 DEF Typed

LEMMA NextTyped ==
  ASSUME Typed, [Next]_vars
  PROVE  Typed'
<1>1. CASE UNCHANGED vars
  <2>1. UNCHANGED <<job, rec, timers, suppressed, watched, deliveries, inFlight, queue, calls, told, disposing, used>>
    BY <1>1 DEF vars, records, marks, pipe
  <2>2. TypeOK'
    BY <2>1 DEF Typed, TypeOK
  <2>3. Named'
    BY <2>1, JobsStay
  <2> QED
    BY <2>2, <2>3 DEF Typed
<1>2. ASSUME NEW j \in Jobs, StartBackground(j) PROVE Typed'
  BY <1>2, StartsTyped
<1>3. ASSUME NEW j \in Jobs, Settle(j) PROVE Typed'
  BY <1>3, SettleTyped
<1>4. ASSUME NEW j \in Jobs, CancelJob(j) PROVE Typed'
  BY <1>4, CancelTyped
<1>5. ASSUME NEW j \in Jobs, NEW s \in Slots, StartForeground(j, s) PROVE Typed'
  BY <1>5, StartsTyped
<1>6. ASSUME NEW s \in Slots, MoveToBackground(s) PROVE Typed'
  BY <1>6, MoveTyped
<1>7. ASSUME NEW s \in Slots, AbortForeground(s) PROVE Typed'
  BY <1>7, AbortTyped
<1>8. ASSUME NEW s \in Slots, PollEnd(s) PROVE Typed'
  BY <1>8, PollEndTyped
<1>9. ASSUME NEW js \in SUBSET Jobs, List(js) PROVE Typed'
  BY <1>9, ListTyped
<1>10. ASSUME NEW js \in SUBSET Jobs, NEW s \in Slots, PollStart(s, js) PROVE Typed'
  BY <1>10, PollStartTyped
<1>11. ASSUME NEW w \in Workers, NEW j \in Jobs, TakeDelivery(w, j) PROVE Typed'
  BY <1>11, TakeTyped
<1>12. ASSUME NEW w \in Workers, Deliver(w) \/ DeliveryFails(w) PROVE Typed'
  BY <1>12, DeliverTyped
<1>13. ASSUME NEW i \in Ids, Evict(i) PROVE Typed'
  BY <1>13, EvictTyped
<1>14. CASE Inject
  BY <1>14, InjectTyped
<1>15. CASE LeaveSession
  BY <1>15, LeaveTyped
<1>16. CASE Dispose
  BY <1>16, DisposeTyped
<1>17. CASE Disposed
  BY <1>17, DisposedTyped
<1>18. ASSUME NEW j \in Jobs, MarkRunning(j) PROVE Typed'
  BY <1>18, MarkTyped
<1>19. ASSUME NEW s \in Slots, Complete(s) PROVE Typed'
  BY <1>19, CompleteTyped
<1> QED
  BY <1>1, <1>2, <1>3, <1>4, <1>5, <1>6, <1>7, <1>8, <1>9, <1>10, <1>11, <1>12, <1>13, <1>14, <1>15, <1>16, <1>17,
     <1>18, <1>19 DEF Next

\* Every variable keeps its type, for every bound: a tool's answer names
\* registered jobs only, and what the eviction timers and the marks of
\* acknowledgement are kept by are ids of jobs.
THEOREM TypeCorrect == Spec => []TypeOK
<1>1. Init => Typed
  BY InitTyped
<1>2. Typed /\ [Next]_vars => Typed'
  BY NextTyped
<1>3. Typed => TypeOK
  BY DEF Typed
<1> QED
  BY <1>1, <1>2, <1>3, PTL DEF Spec

-----------------------------------------------------------------------------
(* What runs is on record.  A timer that is armed for an id with nothing,  *)
(* or with a running job, on record was armed by a job that ended when it  *)
(* was not on record any more.                                             *)

Recorded ==
  /\ disposing # "over" => \A j \in Jobs : Running(j) => OnRecord(j) \/ Overtaken(job[j].id)
  /\ \A i \in timers : rec[i] = 0 \/ Running(rec[i]) => Overtaken(i)
  /\ disposing # "no" => timers = {}

\* An id is overtaken for good.
LEMMA OvertakenStays ==
  ASSUME Typed, NEW i \in Ids, Overtaken(i),
         \A k \in Jobs : job[k].status # "unused" => job'[k].id = job[k].id /\ (job[k].late => job'[k].late)
  PROVE  Overtaken(i)'
<1>1. PICK k \in Jobs : job[k].id = i /\ job[k].late
  BY DEF Overtaken
<1>2. job[k].status # "unused"
  BY <1>1, JobsType DEF Typed, Named
<1> QED
  BY <1>1, <1>2 DEF Overtaken

\* Steps that start no job and evict none: the timers they arm are those of jobs
\* on record that do not run, or of an overtaken id.
LEMMA RecordsStay ==
  ASSUME Typed, Recorded, rec' = rec,
         disposing' # "over" => disposing # "over", disposing' # "no" => timers' = {},
         \A k \in Jobs : /\ job'[k].id = job[k].id /\ (job[k].late => job'[k].late)
                         /\ Running(k)' => Running(k),
         \A i \in timers' : i \in timers \/ (rec[i] # 0 /\ ~Running(rec[i])') \/ Overtaken(i)'
  PROVE  Recorded'
<1>1. \A i \in Ids : Overtaken(i) => Overtaken(i)'
  BY OvertakenStays
<1>2. ASSUME disposing' # "over", NEW k \in Jobs, Running(k)' PROVE OnRecord(k)' \/ Overtaken(job[k].id)'
  <2>1. Running(k) /\ job[k].id \in Ids
    BY <1>2, HasId
  <2>2. OnRecord(k) \/ Overtaken(job[k].id)
    BY <1>2, <2>1 DEF Recorded
  <2>3. OnRecord(k) => OnRecord(k)'
    BY DEF OnRecord
  <2>4. Overtaken(job[k].id) => Overtaken(job[k].id)'
    <3>1. \A i \in Ids : i = job[k].id => (Overtaken(i) => (\E h \in Jobs : job'[h].id = i /\ job'[h].late))
      BY <1>1 DEF Overtaken
    <3>2. job'[k].id = job[k].id
      OBVIOUS
    <3> QED
      BY <2>1, <3>1, <3>2 DEF Overtaken
  <2> QED
    BY <2>2, <2>3, <2>4
<1>3. ASSUME NEW i \in timers', rec[i] = 0 \/ Running(rec[i])' PROVE Overtaken(i)'
  <2>1. CASE i \in timers
    <3>1. i \in Ids /\ (rec[i] # 0 => rec[i] \in Jobs)
      BY <2>1, JobsType DEF Typed, TypeOK
    <3>2. rec[i] = 0 \/ Running(rec[i])
      BY <1>3, <3>1
    <3> QED
      BY <2>1, <3>1, <3>2, <1>1 DEF Recorded
  <2> QED
    BY <1>3, <2>1
<1> QED
  BY <1>2, <1>3 DEF Recorded

LEMMA UnchangedRecorded ==
  ASSUME Typed, Recorded, UNCHANGED <<job, rec, timers, disposing>>
  PROVE  Recorded'
<1>1. \A k \in Jobs : Running(k)' => Running(k)
  BY DEF Running
<1> QED
  BY <1>1, RecordsStay DEF Recorded

\* A job that ends on record leaves it on record and not running; one that does
\* not is late.
LEMMA EndsRecorded ==
  ASSUME Typed, Recorded, NEW j \in Jobs, job[j].status # "unused",
         NEW st \in {"done", "cancelled"}, NEW al \in BOOLEAN, EndsAs(j, st, al),
         UNCHANGED <<rec, disposing>>
  PROVE  Recorded'
<1>1. st \in Status
  BY DEF Status
<1>2. /\ job'[j].status = st /\ job'[j].id = job[j].id
      /\ job'[j].late <=> (job[j].late \/ rec[job[j].id] # j)
      /\ \A k \in Jobs \ {j} : job'[k] = job[k]
      /\ timers' = Armed(job[j].id)
  BY <1>1, EndsAsFields DEF Typed
<1>3. \A k \in Jobs : /\ job'[k].id = job[k].id /\ (job[k].late => job'[k].late)
                      /\ Running(k)' => Running(k)
  BY <1>2 DEF Running
<1>4. disposing' # "no" => timers' = {}
  BY <1>2 DEF Recorded, Armed
<1>5. \A i \in timers' : i \in timers \/ i = job[j].id
  BY <1>2 DEF Armed
<1>7. \A i \in timers' : i \in timers \/ (rec[i] # 0 /\ ~Running(rec[i])') \/ Overtaken(i)'
  <2> DEFINE h == job[j].id
  <2>1. (rec[h] # 0 /\ ~(job'[rec[h]].status = "running")) \/ (\E k \in Jobs : job'[k].id = h /\ job'[k].late)
    <3>1. \A n : n = job[j].id => job'[j].id = n
      BY <1>2
    <3>2. CASE rec[h] = j
      BY <3>2, <1>2, JobsType
    <3>3. CASE rec[h] # j
      BY <3>3, <1>2
    <3> QED
      BY <3>2, <3>3
  <2> HIDE DEF h
  <2>2. \A i \in timers' : i \in timers \/ i = h
    BY <1>5 DEF h
  <2> QED
    BY <2>1, <2>2 DEF Running, Overtaken
<1> QED
  BY <1>3, <1>4, <1>7, RecordsStay

LEMMA SettleRecorded ==
  ASSUME Typed, Recorded, NEW j \in Jobs, Settle(j)
  PROVE  Recorded'
<1>1. job[j].alive /\ (EndsAs(j, "done", FALSE) \/ EndsAs(j, "cancelled", FALSE)) /\ UNCHANGED <<rec, disposing>>
  BY DEF Settle
<1>2. job[j].status # "unused"
  BY <1>1, HasId
<1> QED
  BY <1>1, <1>2, EndsRecorded

LEMMA CancelRecorded ==
  ASSUME Typed, Recorded, NEW j \in Jobs, CancelJob(j)
  PROVE  Recorded'
<1>1. Running(j) /\ EndsAs(j, "cancelled", TRUE) /\ UNCHANGED <<rec, disposing>>
  BY DEF CancelJob
<1>2. job[j].status # "unused"
  BY <1>1, HasId
<1> QED
  BY <1>1, <1>2, EndsRecorded

LEMMA AbortRecorded ==
  ASSUME Typed, Recorded, NEW s \in Slots, AbortForeground(s)
  PROVE  Recorded'
<1>1. PICK j \in calls[s].on :
        LET r == rec[job[j].id]
        IN IF r # 0 /\ Running(r) THEN EndsAs(r, "cancelled", TRUE) ELSE UNCHANGED <<job, timers>>
  BY DEF AbortForeground
<1>2. j \in Jobs /\ job[j].status # "unused" /\ UNCHANGED <<rec, disposing>>
  BY CallsOnJobs DEF AbortForeground
<1> DEFINE r == rec[job[j].id]
<1>3. r # 0 => r \in Jobs /\ job[r].status # "unused"
  BY <1>2, RecordType
<1>4. (r # 0 /\ EndsAs(r, "cancelled", TRUE)) \/ UNCHANGED <<job, timers>>
  BY <1>1
<1> HIDE DEF r
<1>5. CASE r # 0 /\ EndsAs(r, "cancelled", TRUE)
  BY <1>2, <1>3, <1>5, EndsRecorded
<1>6. CASE UNCHANGED <<job, timers>>
  BY <1>2, <1>6, UnchangedRecorded
<1> QED
  BY <1>4, <1>5, <1>6

LEMMA MarkRecorded ==
  ASSUME Typed, Recorded, NEW j \in Jobs, MarkRunning(j)
  PROVE  Recorded'
<1>1. UNCHANGED <<rec, timers, disposing>>
  BY DEF MarkRunning
<1>2. \A k \in Jobs : /\ job'[k].id = job[k].id /\ (job[k].late => job'[k].late)
                      /\ Running(k)' => Running(k)
  BY MarkFields DEF Running
<1> QED
  BY <1>1, <1>2, RecordsStay DEF Recorded

LEMMA MoveRecorded ==
  ASSUME Typed, Recorded, NEW s \in Slots, MoveToBackground(s)
  PROVE  Recorded'
<1>1. PICK j \in calls[s].on : Resume(j)
  BY DEF MoveToBackground
<1>2. j \in Jobs /\ job[j].status # "unused" /\ UNCHANGED <<rec, timers, disposing>>
  BY CallsOnJobs DEF MoveToBackground
<1>3. \A k \in Jobs : /\ job'[k].id = job[k].id /\ (job[k].late => job'[k].late)
                      /\ Running(k)' => Running(k)
  BY <1>1, <1>2, ResumeFields DEF Running
<1> QED
  BY <1>2, <1>3, RecordsStay DEF Recorded

LEMMA LeaveRecorded ==
  ASSUME Typed, Recorded, LeaveSession
  PROVE  Recorded'
<1>1. /\ AllCancelled /\ disposing = "no" /\ UNCHANGED <<rec, disposing>>
      /\ timers' = timers \cup {job[j].id : j \in {k \in Listed : Running(k)}}
  BY DEF LeaveSession
<1>2. /\ \A k \in Jobs : job'[k].id = job[k].id /\ job'[k].late = job[k].late
      /\ \A k \in Jobs : k \in Listed /\ Running(k) => job'[k].status = "cancelled"
      /\ \A k \in Jobs : ~(k \in Listed /\ Running(k)) => job'[k] = job[k]
  BY <1>1, AllCancelledFields DEF Typed
<1>3. \A k \in Jobs : Running(k)' => Running(k)
  BY <1>2 DEF Running
<1>4. \A i \in timers' : i \in timers \/ (rec[i] # 0 /\ ~Running(rec[i])')
  <2>1. ASSUME NEW k \in Listed, Running(k), NEW i, i = job[k].id
        PROVE  rec[i] # 0 /\ job'[rec[i]].status # "running"
    <3>1. k \in Jobs /\ rec[job[k].id] = k
      BY ListedAreNamed
    <3>2. job'[k].status = "cancelled"
      BY <1>2, <2>1, <3>1
    <3> QED
      BY <2>1, <3>1, <3>2, JobsType
  <2> QED
    BY <1>1, <2>1 DEF Running
<1> QED
  BY <1>1, <1>2, <1>3, <1>4, RecordsStay

LEMMA DisposeRecorded ==
  ASSUME Typed, Recorded, Dispose
  PROVE  Recorded'
<1>1. AllCancelled /\ disposing = "no" /\ timers' = {} /\ rec' = rec
  BY DEF Dispose
<1>2. \A k \in Jobs : /\ job'[k].id = job[k].id /\ (job[k].late => job'[k].late)
                      /\ Running(k)' => Running(k)
  BY <1>1, AllCancelledFields DEF Typed, Running
<1> QED
  BY <1>1, <1>2, RecordsStay

LEMMA DisposedRecorded ==
  ASSUME Typed, Recorded, Disposed
  PROVE  Recorded'
<1>1. disposing = "waiting" /\ disposing' = "over" /\ UNCHANGED timers
  BY DEF Disposed
<1> QED
  BY <1>1 DEF Recorded

\* The timer of an id with a running job on record is that of an overtaken id.
LEMMA EvictRecorded ==
  ASSUME Typed, Recorded, NEW i \in Ids, Evict(i)
  PROVE  Recorded'
<1>1. i \in timers /\ timers' = timers \ {i} /\ rec' = [rec EXCEPT ![i] = 0] /\ UNCHANGED <<job, disposing>>
  BY DEF Evict
<1>2. rec \in [Ids -> 0..MaxJobs] /\ timers \subseteq Ids /\ disposing = "no"
  BY <1>1 DEF Typed, TypeOK, Recorded
<1>3. \A h \in Ids : Overtaken(h)' <=> Overtaken(h)
  BY <1>1 DEF Overtaken
<1>4. ASSUME NEW k \in Jobs, Running(k) PROVE OnRecord(k)' \/ Overtaken(job[k].id)
  <2>1. job[k].id \in Ids /\ (OnRecord(k) \/ Overtaken(job[k].id))
    BY <1>2, <1>4, HasId DEF Recorded
  <2>2. CASE OnRecord(k) /\ job[k].id = i
    BY <1>1, <1>4, <2>2 DEF Recorded, OnRecord
  <2>3. CASE OnRecord(k) /\ job[k].id # i
    BY <1>1, <1>2, <2>1, <2>3 DEF OnRecord
  <2> QED
    BY <2>1, <2>2, <2>3
<1>5. \A h \in timers' : rec'[h] = rec[h] /\ h \in timers
  BY <1>1, <1>2
<1>6. \A k \in Jobs : job'[k].status = "running" =>
        (job'[k].id # 0 /\ rec'[job'[k].id] = k) \/ \E m \in Jobs : job'[m].id = job'[k].id /\ job'[m].late
  BY <1>1, <1>4 DEF Running, OnRecord, Overtaken
<1>7. \A h \in timers' : rec'[h] = 0 \/ job'[rec'[h]].status = "running" => \E m \in Jobs : job'[m].id = h /\ job'[m].late
  <2>1. \A h \in timers : rec[h] = 0 \/ job[rec[h]].status = "running" => \E m \in Jobs : job[m].id = h /\ job[m].late
    BY DEF Recorded, Running, Overtaken
  <2> QED
    BY <2>1, <1>1, <1>5
<1> QED
  BY <1>1, <1>2, <1>6, <1>7 DEF Recorded, Running, OnRecord, Overtaken

\* Nothing was on record under the id a job starts with.
LEMMA StartsRecorded ==
  ASSUME Typed, Recorded, NEW j \in Jobs, StartBackground(j) \/ \E s \in Slots : StartForeground(j, s)
  PROVE  Recorded'
<1>1. PICK i \in Ids, q \in BOOLEAN : Register(j, i, q) /\ disposing = "no" /\ UNCHANGED <<timers, disposing>>
  BY StartFields
<1>2. /\ job'[j].status = "running" /\ job'[j].id = i
      /\ \A k \in Jobs \ {j} : job'[k] = job[k]
      /\ rec'[i] = j /\ \A h \in Ids \ {i} : rec'[h] = rec[h]
      /\ rec[i] = 0 /\ job[j].status = "unused"
  BY <1>1, RegisterFields
<1>3. \A h \in Ids : Overtaken(h) => Overtaken(h)'
  BY <1>2, OvertakenStays
<1>4. \A h \in Ids : Overtaken(h) => \E m \in Jobs : job'[m].id = h /\ job'[m].late
  BY <1>3 DEF Overtaken
<1>5. ASSUME NEW k \in Jobs, Running(k)' PROVE OnRecord(k)' \/ \E m \in Jobs : job'[m].id = job'[k].id /\ job'[m].late
  <2>1. CASE k = j
    BY <1>2, <2>1, JobsType DEF OnRecord
  <2>2. CASE k # j
    <3>1. Running(k) /\ job'[k] = job[k]
      BY <1>2, <1>5, <2>2 DEF Running
    <3>2. job[k].id \in Ids /\ (OnRecord(k) \/ Overtaken(job[k].id))
      BY <1>1, <3>1, HasId DEF Recorded
    <3>3. OnRecord(k) => OnRecord(k)'
      BY <1>2, <3>1, <3>2, JobsType DEF OnRecord
    <3> QED
      BY <3>1, <3>2, <3>3, <1>4
  <2> QED
    BY <2>1, <2>2
<1>6. ASSUME NEW h \in timers, rec'[h] = 0 \/ job'[rec'[h]].status = "running" PROVE Overtaken(h)
  <2>1. h \in Ids /\ (rec[h] # 0 => rec[h] \in Jobs /\ job[rec[h]].id = h)
    BY JobsType DEF Typed, TypeOK, Named
  <2>2. CASE h = i
    BY <1>2, <2>2 DEF Recorded
  <2>3. CASE h # i
    <3>1. rec'[h] = rec[h] /\ rec[h] # j
      BY <1>2, <2>1, <2>3, JobsType DEF Typed, Named
    <3>2. rec[h] # 0 => job'[rec[h]] = job[rec[h]]
      BY <1>2, <2>1, <3>1
    <3>3. rec[h] = 0 \/ Running(rec[h])
      BY <1>6, <3>1, <3>2 DEF Running
    <3> QED
      BY <3>3 DEF Recorded
  <2> QED
    BY <2>2, <2>3
<1>7. timers \subseteq Ids
  BY DEF Typed, TypeOK
<1>8. \A h \in timers' : rec'[h] = 0 \/ job'[rec'[h]].status = "running" => \E m \in Jobs : job'[m].id = h /\ job'[m].late
  BY <1>1, <1>4, <1>6, <1>7
<1> QED
  BY <1>1, <1>5, <1>8 DEF Recorded, Running, OnRecord, Overtaken

LEMMA InitRecorded ==
  ASSUME Init
  PROVE  Recorded
BY DEF Init, Recorded, Running

LEMMA NextRecorded ==
  ASSUME Typed, Recorded, [Next]_vars
  PROVE  Recorded'
<1>1. ASSUME UNCHANGED <<job, rec, timers, disposing>> PROVE Recorded'
  BY <1>1, UnchangedRecorded
<1>2. CASE UNCHANGED vars
  BY <1>1, <1>2 DEF vars, records
<1>3. ASSUME NEW j \in Jobs, StartBackground(j) PROVE Recorded'
  BY <1>3, StartsRecorded
<1>4. ASSUME NEW j \in Jobs, NEW s \in Slots, StartForeground(j, s) PROVE Recorded'
  BY <1>4, StartsRecorded
<1>5. ASSUME NEW j \in Jobs, Settle(j) PROVE Recorded'
  BY <1>5, SettleRecorded
<1>6. ASSUME NEW j \in Jobs, CancelJob(j) PROVE Recorded'
  BY <1>6, CancelRecorded
<1>7. ASSUME NEW s \in Slots, AbortForeground(s) PROVE Recorded'
  BY <1>7, AbortRecorded
<1>8. ASSUME NEW s \in Slots, Complete(s) \/ PollEnd(s) PROVE Recorded'
  BY <1>1, <1>8 DEF Complete, PollEnd, records
<1>9. ASSUME NEW js \in SUBSET Jobs, List(js) PROVE Recorded'
  BY <1>1, <1>9 DEF List, records
<1>10. ASSUME NEW js \in SUBSET Jobs, NEW s \in Slots, PollStart(s, js) PROVE Recorded'
  BY <1>1, <1>10 DEF PollStart, records
<1>11. ASSUME NEW w \in Workers, NEW j \in Jobs, TakeDelivery(w, j) PROVE Recorded'
  BY <1>1, <1>11 DEF TakeDelivery, records
<1>12. ASSUME NEW w \in Workers, Deliver(w) \/ DeliveryFails(w) PROVE Recorded'
  BY <1>1, <1>12 DEF Deliver, DeliveryFails, records
<1>13. ASSUME NEW i \in Ids, Evict(i) PROVE Recorded'
  BY <1>13, EvictRecorded
<1>14. CASE Inject
  BY <1>1, <1>14 DEF Inject, records
<1>15. CASE LeaveSession
  BY <1>15, LeaveRecorded
<1>16. CASE Dispose
  BY <1>16, DisposeRecorded
<1>17. CASE Disposed
  BY <1>17, DisposedRecorded
<1>18. ASSUME NEW j \in Jobs, MarkRunning(j) PROVE Recorded'
  BY <1>18, MarkRecorded
<1>19. ASSUME NEW s \in Slots, MoveToBackground(s) PROVE Recorded'
  BY <1>19, MoveRecorded
<1> QED
  BY <1>2, <1>3, <1>4, <1>5, <1>6, <1>7, <1>8, <1>9, <1>10, <1>11, <1>12, <1>13, <1>14, <1>15, <1>16, <1>17,
     <1>18, <1>19 DEF Next

\* Whatever runs can be seen and cancelled, for any number of jobs, ids and tool
\* calls, whenever the eviction timers fire.  A running job can be missing from
\* the registry only under an id whose earlier job ended after its own eviction
\* (job-manager.ts #resolveJobId, scheduleEviction).
THEOREM ListedWhileRunning == Spec => []RunningIsListed
<1>1. Init => Typed /\ Recorded
  BY InitTyped, InitRecorded
<1>2. Typed /\ Recorded /\ [Next]_vars => (Typed /\ Recorded)'
  <2>1. Typed /\ [Next]_vars => Typed'
    BY NextTyped
  <2>2. Typed /\ Recorded /\ [Next]_vars => Recorded'
    BY NextRecorded
  <2> QED
    BY <2>1, <2>2
<1>3. Typed /\ Recorded => RunningIsListed
  BY DEF Recorded, RunningIsListed
<1> QED
  BY <1>1, <1>2, <1>3, PTL DEF Spec

-----------------------------------------------------------------------------
(* No result is told twice.  What is on its way is a job that ended by     *)
(* itself; unless its delivery was resumed it is in one place, and no      *)
(* follow-up has told it yet.  What a tool has told stays acknowledged as  *)
(* long as its job is on record.                                           *)

\* On its way to a follow-up.
Moving(j) == j \in Range(deliveries) \/ j \in queue \/ \E w \in Workers : inFlight[w] = j

Pristine == \A j \in Jobs : job[j].status = "unused" => told[j] = Untold

Done == \A j \in Jobs : /\ Moving(j) => job[j].status = "done"
                        /\ job[j].status # "done" => told[j].followUps = 0

Single == \A j \in Jobs : ~job[j].resumed =>
  /\ Moving(j) => told[j].followUps = 0
  /\ j \in Range(deliveries) => j \notin queue /\ \A w \in Workers : inFlight[w] # j
  /\ \A w \in Workers : inFlight[w] = j => j \notin queue /\ \A v \in Workers \ {w} : inFlight[v] # j

Ack == \A i \in Ids : rec[i] # 0 /\ told[rec[i]].tool /\ ~job[rec[i]].resumed => i \in suppressed

\* One call waits for a command; while the command runs nobody was told of it, and
\* while it is on record its delivery is suppressed, unless it was resumed.
Foreground ==
  /\ \A s \in Slots : calls[s].kind = "bash" => \A j \in calls[s].on :
       /\ Running(j) => told[j] = Untold
       /\ rec[job[j].id] = j => job[j].id \in suppressed \/ job[j].resumed
  /\ \A s, t \in Slots : s # t /\ calls[s].kind = "bash" /\ calls[t].kind = "bash" =>
       calls[s].on \cap calls[t].on = {}

Sound == Pristine /\ Done /\ Single /\ Ack /\ Foreground
IInv == Typed /\ Sound

\* An injection repeats nothing of a job on record.
LEMMA InjectRepeatsNothing ==
  ASSUME IInv, Inject, NEW j \in Jobs, told'[j].followUps # told[j].followUps,
         OnRecord(j), ~job[j].resumed
  PROVE  told[j] = Untold
<1>1. j \in queue /\ ~Suppressed(j)
  BY ToldByFollowUp DEF IInv, Fresh
<1>2. told[j].followUps = 0
  BY <1>1 DEF IInv, Sound, Single, Moving
<1>3. job[j].id \in Ids /\ job[j].id \notin suppressed /\ rec[job[j].id] = j /\ j # 0
  BY <1>1, JobsType DEF Suppressed, OnRecord, IInv, Typed, TypeOK, Job
<1>4. ~told[j].tool
  BY <1>3 DEF IInv, Sound, Ack
<1>5. told[j] \in [tool : BOOLEAN, followUps : 0..2]
  BY DEF IInv, Typed, TypeOK
<1>6. told[j] = [tool |-> told[j].tool, followUps |-> told[j].followUps] /\ told[j].tool = FALSE
  BY <1>4, <1>5
<1> QED
  BY <1>2, <1>6 DEF Untold

\* Steps that set nothing on its way: they may end calls, cancel jobs, evict them,
\* acknowledge results and drop deliveries.
MovesNothing ==
  /\ \A k \in Jobs : /\ job'[k].id = job[k].id /\ job'[k].resumed = job[k].resumed
                     /\ job'[k].status = job[k].status \/ (Running(k) /\ job'[k].status = "cancelled")
  /\ \A i \in Ids : rec'[i] = 0 \/ (rec'[i] = rec[i] /\ (i \in suppressed => i \in suppressed'))
  /\ \A s \in Slots : calls'[s] = calls[s] \/ calls'[s].kind # "bash"
  /\ Range(deliveries') \subseteq Range(deliveries) /\ queue' \subseteq queue
  /\ \A w \in Workers : inFlight'[w] \in {inFlight[w], 0}
  /\ \A k \in Jobs : told'[k].followUps = told[k].followUps
  /\ \A k \in Jobs : told'[k] # told[k] =>
       /\ job[k].status # "unused"
       /\ rec'[job[k].id] = k => job[k].id \in suppressed' \/ job[k].resumed
       /\ job'[k].status = "running" => \A s \in Slots : calls'[s].kind = "bash" => k \notin calls'[s].on

LEMMA SoundKept ==
  ASSUME IInv, MovesNothing
  PROVE  Sound'
<1>1. Pristine'
  BY DEF MovesNothing, IInv, Sound, Pristine, Running
<1>2. \A k \in Jobs : Moving(k)' => Moving(k)
  BY JobsType DEF Moving, MovesNothing
<1>3. Done'
  <2>1. \A k \in Jobs : Moving(k)' => job'[k].status = "done"
    BY <1>2 DEF MovesNothing, IInv, Sound, Done, Running
  <2>2. \A k \in Jobs : job'[k].status # "done" => told'[k].followUps = 0
    BY DEF MovesNothing, IInv, Sound, Done, Running
  <2> QED
    BY <2>1, <2>2 DEF Done
<1>4. Single'
  <2>1. ASSUME NEW k \in Jobs, ~job'[k].resumed
        PROVE  /\ Moving(k)' => told'[k].followUps = 0
               /\ k \in Range(deliveries') => k \notin queue' /\ \A w \in Workers : inFlight'[w] # k
               /\ \A w \in Workers : inFlight'[w] = k => k \notin queue' /\ \A v \in Workers \ {w} : inFlight'[v] # k
    <3>1. ~job[k].resumed /\ k # 0
      BY <2>1, JobsType DEF MovesNothing
    <3>2. \A w \in Workers : inFlight'[w] = k => inFlight[w] = k
      BY <3>1 DEF MovesNothing
    <3>3. Moving(k)' => told'[k].followUps = 0
      BY <1>2, <3>1 DEF MovesNothing, IInv, Sound, Single
    <3>4. k \in Range(deliveries') => k \notin queue' /\ \A w \in Workers : inFlight'[w] # k
      BY <3>1, <3>2 DEF MovesNothing, IInv, Sound, Single
    <3>5. \A w \in Workers : inFlight'[w] = k => k \notin queue' /\ \A v \in Workers \ {w} : inFlight'[v] # k
      BY <3>1, <3>2 DEF MovesNothing, IInv, Sound, Single
    <3> QED
      BY <3>3, <3>4, <3>5
  <2> QED
    BY <2>1 DEF Single
<1>5. Ack'
  <2>1. ASSUME NEW i \in Ids, rec'[i] # 0, told'[rec'[i]].tool, ~job'[rec'[i]].resumed
        PROVE  i \in suppressed'
    <3>1. rec'[i] = rec[i] /\ (i \in suppressed => i \in suppressed')
      BY <2>1 DEF MovesNothing
    <3>2. rec[i] \in Jobs /\ job[rec[i]].id = i /\ rec[i] # 0
      BY <2>1, <3>1, JobsType DEF IInv, Typed, TypeOK, Named
    <3>3. ~job[rec[i]].resumed
      BY <2>1, <3>1, <3>2 DEF MovesNothing
    <3>4. CASE told'[rec[i]] = told[rec[i]]
      BY <2>1, <3>1, <3>2, <3>3, <3>4 DEF IInv, Sound, Ack
    <3>5. CASE told'[rec[i]] # told[rec[i]]
      BY <3>1, <3>2, <3>3, <3>5 DEF MovesNothing
    <3> QED
      BY <3>4, <3>5
  <2> QED
    BY <2>1 DEF Ack
<1>6. Foreground'
  <2>1. ASSUME NEW s \in Slots, calls'[s].kind = "bash", NEW k \in calls'[s].on
        PROVE  /\ job'[k].status = "running" => told'[k] = Untold
               /\ rec'[job'[k].id] = k => job'[k].id \in suppressed' \/ job'[k].resumed
    <3>1. calls'[s] = calls[s] /\ k \in Jobs /\ job[k].id \in Ids /\ k # 0
      BY <2>1, CallsOnJobs, HasId, JobsType DEF MovesNothing, IInv
    <3>2. /\ Running(k) => told[k] = Untold
          /\ rec[job[k].id] = k => job[k].id \in suppressed \/ job[k].resumed
      BY <2>1, <3>1 DEF IInv, Sound, Foreground
    <3>3. job'[k].status = "running" => told'[k] = Untold
      BY <2>1, <3>1, <3>2 DEF MovesNothing, Running
    <3>4. rec'[job'[k].id] = k => job'[k].id \in suppressed' \/ job'[k].resumed
      BY <3>1, <3>2 DEF MovesNothing
    <3> QED
      BY <3>3, <3>4
  <2>2. \A s, t \in Slots : s # t /\ calls'[s].kind = "bash" /\ calls'[t].kind = "bash" =>
          calls'[s].on \cap calls'[t].on = {}
    BY DEF MovesNothing, IInv, Sound, Foreground
  <2> QED
    BY <2>1, <2>2 DEF Foreground, Running
<1> QED
  BY <1>1, <1>3, <1>4, <1>5, <1>6 DEF Sound

LEMMA VarsSound ==
  ASSUME IInv, UNCHANGED <<job, rec, suppressed, deliveries, inFlight, queue, calls, told>>
  PROVE  Sound'
<1>1. \A k \in Jobs : told'[k] = told[k]
  OBVIOUS
<1> QED
  BY <1>1, SoundKept DEF MovesNothing

\* What an answer tells is acknowledged.
LEMMA AnswerSound ==
  ASSUME IInv, NEW js \in SUBSET Jobs, NEW w \in SUBSET Ids, Answer(js, w),
         \A j \in js : job[j].status # "unused",
         UNCHANGED <<job, rec, inFlight, queue>>,
         \A t \in Slots : calls'[t] = calls[t] \/ calls'[t].kind # "bash"
  PROVE  Sound'
<1>1. PICK ended \in SUBSET Jobs : /\ \A k \in ended : Ended(k)
                                   /\ suppressed' = suppressed \cup {job[k].id : k \in ended}
                                   /\ Range(deliveries') \subseteq Range(deliveries)
                                   /\ told' = Answered(ended)
  BY AnswerFields DEF IInv
<1>2. \A k \in Jobs : told'[k].followUps = told[k].followUps /\ (told'[k] # told[k] => k \in ended)
  BY <1>1, AnsweredType DEF IInv
<1>3. \A k \in Jobs : told'[k] # told[k] =>
       job[k].status # "unused" /\ job[k].id \in suppressed' /\ job'[k].status # "running"
  BY <1>1, <1>2 DEF Ended
<1>4. \A i \in Ids : i \in suppressed => i \in suppressed'
  BY <1>1
<1>5. \A k \in Jobs : told'[k].followUps = told[k].followUps
  BY <1>2
<1> QED
  BY <1>1, <1>3, <1>4, <1>5, SoundKept DEF MovesNothing

LEMMA ListSound ==
  ASSUME IInv, NEW js \in SUBSET Jobs, List(js)
  PROVE  Sound'
<1>1. Answer(js, watched) /\ UNCHANGED <<job, rec, inFlight, queue, calls>>
  BY DEF List, records
<1>2. watched \in SUBSET Ids /\ \A j \in js : job[j].status # "unused"
  BY ListedAreNamed DEF List, IInv, Typed, TypeOK
<1> QED
  BY <1>1, <1>2, AnswerSound

LEMMA PollStartSound ==
  ASSUME IInv, NEW s \in Slots, NEW js \in SUBSET Jobs, PollStart(s, js)
  PROVE  Sound'
<1>1. /\ UNCHANGED <<job, rec, suppressed, deliveries, inFlight, queue, told>>
      /\ \E ids : calls' = [calls EXCEPT ![s] = [kind |-> "poll", on |-> js, watching |-> ids]]
  BY DEF PollStart, records, pipe
<1>2. \A t \in Slots : calls'[t] = calls[t] \/ calls'[t].kind # "bash"
  BY <1>1 DEF IInv, Typed, TypeOK
<1> QED
  BY <1>1, <1>2, SoundKept DEF MovesNothing

LEMMA PollEndSound ==
  ASSUME IInv, NEW s \in Slots, PollEnd(s)
  PROVE  Sound'
<1> DEFINE js == calls[s].on
           w == watched \ calls[s].watching
<1>1. Answer(js, w) /\ calls' = Returned(s) /\ UNCHANGED <<job, rec, inFlight, queue>>
  BY DEF PollEnd, records
<1>2. w \in SUBSET Ids
  BY DEF IInv, Typed, TypeOK
<1>3. js \in SUBSET Jobs /\ \A j \in js : job[j].status # "unused"
  BY CallsOnJobs DEF IInv
<1>4. \A t \in Slots : calls'[t] = calls[t] \/ calls'[t].kind # "bash"
  BY <1>1, ReturnedType DEF IInv, NoCall
<1> HIDE DEF js, w
<1> QED
  BY <1>1, <1>2, <1>3, <1>4, AnswerSound

\* What the call that waited for a command tells is suppressed; no other call
\* waits for it.
LEMMA CompleteSound ==
  ASSUME IInv, NEW s \in Slots, Complete(s)
  PROVE  Sound'
<1>1. PICK j \in calls[s].on : /\ calls[s].kind = "bash"
                               /\ told' = [told EXCEPT ![j] = [told[j] EXCEPT !.tool = TRUE]]
  BY DEF Complete
<1>2. /\ calls' = Returned(s) /\ j \in Jobs /\ job[j].status # "unused"
      /\ UNCHANGED <<job, rec, suppressed, deliveries, inFlight, queue>>
  BY <1>1, CallsOnJobs DEF Complete, records, marks, pipe, IInv
<1>3. \A t \in Slots : calls'[t] = calls[t] \/ calls'[t].kind # "bash"
  BY <1>2, ReturnedType DEF IInv, NoCall
<1>4. \A t \in Slots : calls'[t].kind = "bash" => j \notin calls'[t].on
  <2>1. calls'[s].kind # "bash" /\ \A t \in Slots \ {s} : calls'[t] = calls[t]
    BY <1>2, ReturnedType DEF IInv, NoCall
  <2> QED
    BY <2>1, <1>1 DEF IInv, Sound, Foreground
<1>5. \A k \in Jobs : told'[k].followUps = told[k].followUps /\ (told'[k] # told[k] => k = j)
  BY <1>1, <1>2, ToldByTool DEF IInv, Typed, TypeOK
<1>6. rec[job[j].id] = j => job[j].id \in suppressed \/ job[j].resumed
  BY <1>1 DEF IInv, Sound, Foreground
<1>7. \A k \in Jobs : told'[k] # told[k] =>
        /\ job[k].status # "unused"
        /\ rec'[job[k].id] = k => job[k].id \in suppressed' \/ job[k].resumed
        /\ \A t \in Slots : calls'[t].kind = "bash" => k \notin calls'[t].on
  BY <1>2, <1>4, <1>5, <1>6
<1>8. \A k \in Jobs : told'[k].followUps = told[k].followUps
  BY <1>5
<1> QED
  BY <1>2, <1>3, <1>7, <1>8, SoundKept DEF MovesNothing

\* The end of a job that was cancelled, or is now.
LEMMA CancelledFields ==
  ASSUME IInv, NEW j \in Jobs, job[j].status \in {"running", "cancelled"}, NEW al \in BOOLEAN, EndsAs(j, "cancelled", al)
  PROVE  /\ job'[j].status = "cancelled"
         /\ \A k \in Jobs : /\ job'[k].id = job[k].id /\ job'[k].resumed = job[k].resumed
                            /\ job'[k].status = job[k].status \/ (Running(k) /\ job'[k].status = "cancelled")
<1>1. "cancelled" \in Status
  BY DEF Status
<1>2. /\ job'[j].status = "cancelled" /\ job'[j].id = job[j].id /\ job'[j].resumed = job[j].resumed
      /\ \A k \in Jobs \ {j} : job'[k] = job[k]
  BY <1>1, EndsAsFields DEF IInv, Typed
<1> QED
  BY <1>2 DEF Running

LEMMA AbortSound ==
  ASSUME IInv, NEW s \in Slots, AbortForeground(s)
  PROVE  Sound'
<1>1. PICK j \in calls[s].on :
        /\ calls[s].kind = "bash"
        /\ LET r == rec[job[j].id]
           IN IF r # 0 /\ Running(r) THEN EndsAs(r, "cancelled", TRUE) ELSE UNCHANGED <<job, timers>>
        /\ told' = [told EXCEPT ![j] = [told[j] EXCEPT !.tool = TRUE]]
  BY DEF AbortForeground
<1>2. /\ calls' = Returned(s) /\ j \in Jobs /\ job[j].status # "unused"
      /\ UNCHANGED <<rec, suppressed, deliveries, inFlight, queue>>
  BY CallsOnJobs DEF AbortForeground, marks, pipe, IInv
<1>3. \A k \in Jobs : /\ job'[k].id = job[k].id /\ job'[k].resumed = job[k].resumed
                      /\ job'[k].status = job[k].status \/ (Running(k) /\ job'[k].status = "cancelled")
  <2> DEFINE r == rec[job[j].id]
  <2>1. r # 0 => r \in Jobs
    BY <1>2, RecordType DEF IInv
  <2>2. (r # 0 /\ Running(r) /\ EndsAs(r, "cancelled", TRUE)) \/ UNCHANGED job
    BY <1>1
  <2> HIDE DEF r
  <2>3. CASE r # 0 /\ Running(r) /\ EndsAs(r, "cancelled", TRUE)
    <3>1. job[r].status \in {"running", "cancelled"} /\ TRUE \in BOOLEAN
      BY <2>3 DEF Running
    <3> QED
      BY <2>1, <2>3, <3>1, CancelledFields
  <2> QED
    BY <2>2, <2>3
<1>4. \A t \in Slots : calls'[t] = calls[t] \/ calls'[t].kind # "bash"
  BY <1>2, ReturnedType DEF IInv, NoCall
<1>5. \A t \in Slots : calls'[t].kind = "bash" => j \notin calls'[t].on
  <2>1. calls'[s].kind # "bash" /\ \A t \in Slots \ {s} : calls'[t] = calls[t]
    BY <1>2, ReturnedType DEF IInv, NoCall
  <2> QED
    BY <2>1, <1>1 DEF IInv, Sound, Foreground
<1>6. \A k \in Jobs : told'[k].followUps = told[k].followUps /\ (told'[k] # told[k] => k = j)
  BY <1>1, <1>2, ToldByTool DEF IInv, Typed, TypeOK
<1>7. rec[job[j].id] = j => job[j].id \in suppressed \/ job[j].resumed
  BY <1>1 DEF IInv, Sound, Foreground
<1>8. \A k \in Jobs : told'[k] # told[k] =>
        /\ job[k].status # "unused"
        /\ rec'[job[k].id] = k => job[k].id \in suppressed' \/ job[k].resumed
        /\ \A t \in Slots : calls'[t].kind = "bash" => k \notin calls'[t].on
  BY <1>2, <1>5, <1>6, <1>7
<1>9. \A k \in Jobs : told'[k].followUps = told[k].followUps
  BY <1>6
<1> QED
  BY <1>2, <1>3, <1>4, <1>8, <1>9, SoundKept DEF MovesNothing

LEMMA CancelSound ==
  ASSUME IInv, NEW j \in Jobs, CancelJob(j)
  PROVE  Sound'
<1>1. /\ Running(j) /\ EndsAs(j, "cancelled", TRUE)
      /\ suppressed' = suppressed \cup {job[j].id}
      /\ told' = [told EXCEPT ![j] = [told[j] EXCEPT !.tool = TRUE]]
      /\ UNCHANGED <<rec, inFlight, queue, calls>>
  BY DEF CancelJob
<1>2. Range(deliveries') \subseteq Range(deliveries)
  <2>1. \E S : deliveries' = Only(deliveries, S)
    BY DEF CancelJob
  <2> QED
    BY <2>1, DroppedType DEF IInv
<1>3. /\ job'[j].status = "cancelled"
      /\ \A k \in Jobs : /\ job'[k].id = job[k].id /\ job'[k].resumed = job[k].resumed
                         /\ job'[k].status = job[k].status \/ (Running(k) /\ job'[k].status = "cancelled")
  BY <1>1, CancelledFields DEF Running
<1>4. \A k \in Jobs : told'[k].followUps = told[k].followUps /\ (told'[k] # told[k] => k = j)
  BY <1>1, ToldByTool DEF IInv, Typed, TypeOK
<1>5. \A k \in Jobs : told'[k] # told[k] =>
       job[k].status # "unused" /\ job[k].id \in suppressed' /\ job'[k].status # "running"
  BY <1>1, <1>3, <1>4 DEF Running
<1>6. \A k \in Jobs : told'[k].followUps = told[k].followUps
  BY <1>4
<1>7. \A i \in Ids : i \in suppressed => i \in suppressed'
  BY <1>1
<1>8. \A t \in Slots : calls'[t] = calls[t]
  BY <1>1
<1> QED
  BY <1>1, <1>2, <1>3, <1>5, <1>6, <1>7, <1>8, SoundKept DEF MovesNothing

LEMMA MarkSound ==
  ASSUME IInv, NEW j \in Jobs, MarkRunning(j)
  PROVE  Sound'
<1>1. UNCHANGED <<rec, suppressed, deliveries, inFlight, queue, calls, told>>
  BY DEF MarkRunning, marks, pipe
<1>2. \A k \in Jobs : told'[k] = told[k]
  BY <1>1
<1>3. \A k \in Jobs : job'[k].id = job[k].id /\ job'[k].resumed = job[k].resumed /\ job'[k].status = job[k].status
  BY MarkFields DEF IInv
<1> QED
  BY <1>1, <1>2, <1>3, SoundKept DEF MovesNothing

\* The session is left or disposed of.
LEMMA AllCancelledSound ==
  ASSUME IInv, LeaveSession \/ Dispose
  PROVE  Sound'
<1>1. AllCancelled /\ queue' \subseteq queue /\ UNCHANGED <<rec, suppressed, deliveries, inFlight, calls, told>>
  BY DEF LeaveSession, Dispose, marks, pipe
<1>2. \A k \in Jobs : told'[k] = told[k]
  BY <1>1
<1>3. \A k \in Jobs : /\ job'[k].id = job[k].id /\ job'[k].resumed = job[k].resumed
                      /\ job'[k].status = job[k].status \/ (Running(k) /\ job'[k].status = "cancelled")
  BY <1>1, AllCancelledFields DEF IInv, Typed, Running
<1> QED
  BY <1>1, <1>2, <1>3, SoundKept DEF MovesNothing

LEMMA EvictSound ==
  ASSUME IInv, NEW i \in Ids, Evict(i)
  PROVE  Sound'
<1>1. /\ rec' = [rec EXCEPT ![i] = 0] /\ suppressed' = suppressed \ {i}
      /\ UNCHANGED <<job, deliveries, inFlight, queue, calls, told>>
  BY DEF Evict, pipe
<1>2. \A k \in Jobs : told'[k] = told[k]
  BY <1>1
<1>3. \A h \in Ids : rec'[h] = 0 \/ (rec'[h] = rec[h] /\ (h \in suppressed => h \in suppressed'))
  BY <1>1 DEF IInv, Typed, TypeOK
<1> QED
  BY <1>1, <1>2, <1>3, SoundKept DEF MovesNothing

LEMMA DisposedSound ==
  ASSUME IInv, Disposed
  PROVE  Sound'
<1>1. /\ deliveries' = << >> /\ inFlight' = [w \in Workers |-> 0] /\ rec' = [i \in Ids |-> 0]
      /\ UNCHANGED <<job, queue, calls, told>>
  BY DEF Disposed
<1>2. Range(deliveries') = {} /\ \A w \in Workers : inFlight'[w] = 0
  BY <1>1 DEF Range
<1>3. \A k \in Jobs : told'[k] = told[k]
  BY <1>1
<1> QED
  BY <1>1, <1>2, <1>3, SoundKept DEF MovesNothing

LEMMA InitSound ==
  ASSUME Init
  PROVE  Sound
<1>1. Range(deliveries) = {}
  BY DEF Init, Range
<1>2. \A w \in Workers : inFlight[w] = 0
  BY DEF Init
<1>3. \A j \in Jobs : ~Moving(j)
  BY <1>1, <1>2, JobsType DEF Init, Moving
<1>4. \A j \in Jobs : told[j] = Untold /\ told[j].followUps = 0
  BY DEF Init, Untold
<1>5. Pristine /\ Done
  BY <1>3, <1>4 DEF Pristine, Done
<1>6. Single
  BY <1>3 DEF Single, Moving
<1>7. Ack /\ Foreground
  BY DEF Init, Ack, Foreground, NoCall
<1> QED
  BY <1>5, <1>6, <1>7 DEF Sound

\* Nothing was told of a job that starts, and it is the only one on record under
\* its id.
LEMMA StartsSound ==
  ASSUME IInv, NEW j \in Jobs, StartBackground(j) \/ \E s \in Slots : StartForeground(j, s)
  PROVE  Sound'
<1>1. PICK i \in Ids, q \in BOOLEAN :
        /\ Register(j, i, q)
        /\ \/ suppressed' = suppressed \ {i} /\ calls' = calls
           \/ /\ suppressed' = suppressed \cup {i}
              /\ \E s \in Slots : calls' = [calls EXCEPT ![s] = [kind |-> "bash", on |-> {j}, watching |-> {}]]
        /\ Range(deliveries') \subseteq Range(deliveries)
        /\ UNCHANGED <<inFlight, queue, told>>
  BY StartFields DEF IInv
<1>2. /\ job'[j].status = "running" /\ job'[j].id = i /\ ~job'[j].resumed
      /\ \A k \in Jobs \ {j} : job'[k] = job[k]
      /\ rec'[i] = j /\ \A h \in Ids \ {i} : rec'[h] = rec[h]
      /\ rec[i] = 0 /\ job[j].status = "unused"
  BY <1>1, RegisterFields DEF IInv
<1>3. told[j] = Untold /\ ~told[j].tool /\ told[j].followUps = 0 /\ ~Moving(j)
  BY <1>2 DEF IInv, Sound, Pristine, Done, Untold
<1>4. \A k \in Jobs : Moving(k)' => Moving(k)
  BY <1>1 DEF Moving
<1>5. Pristine' /\ Done'
  <2>1. \A k \in Jobs : job'[k].status = "unused" => told'[k] = Untold
    BY <1>1, <1>2 DEF IInv, Sound, Pristine
  <2>2. \A k \in Jobs : Moving(k)' => job'[k].status = "done"
    BY <1>2, <1>3, <1>4 DEF IInv, Sound, Done
  <2>3. \A k \in Jobs : job'[k].status # "done" => told'[k].followUps = 0
    BY <1>1, <1>2, <1>3 DEF IInv, Sound, Done
  <2> QED
    BY <2>1, <2>2, <2>3 DEF Pristine, Done
<1>6. Single'
  <2>1. ASSUME NEW k \in Jobs \ {j}, ~job[k].resumed
        PROVE  /\ Moving(k)' => told'[k].followUps = 0
               /\ k \in Range(deliveries') => k \notin queue' /\ \A w \in Workers : inFlight'[w] # k
               /\ \A w \in Workers : inFlight'[w] = k => k \notin queue' /\ \A v \in Workers \ {w} : inFlight'[v] # k
    BY <2>1, <1>1, <1>4 DEF IInv, Sound, Single
  <2>2. ~Moving(j)'
    BY <1>3, <1>4
  <2>3. j \notin Range(deliveries') /\ \A w \in Workers : inFlight'[w] # j
    BY <2>2 DEF Moving
  <2> QED
    BY <1>2, <2>1, <2>2, <2>3 DEF Single
<1>7. Ack'
  <2>1. ASSUME NEW h \in Ids, rec'[h] # 0, told'[rec'[h]].tool, ~job'[rec'[h]].resumed
        PROVE  h \in suppressed'
    <3>1. h # i
      BY <2>1, <1>1, <1>2, <1>3
    <3>2. rec'[h] = rec[h] /\ rec[h] \in Jobs \ {j}
      BY <2>1, <3>1, <1>2, JobsType DEF IInv, Typed, TypeOK, Named
    <3>3. h \in suppressed
      BY <2>1, <3>2, <1>1, <1>2 DEF IInv, Sound, Ack
    <3> QED
      BY <3>1, <3>3, <1>1
  <2> QED
    BY <2>1 DEF Ack
<1>8. Foreground'
  <2>1. ASSUME NEW s \in Slots, calls[s].kind = "bash", NEW k \in calls[s].on
        PROVE  /\ k \in Jobs \ {j}
               /\ job'[k].status = "running" => told'[k] = Untold
               /\ rec'[job'[k].id] = k => job'[k].id \in suppressed' \/ job'[k].resumed
    <3>1. k \in Jobs \ {j} /\ job'[k] = job[k] /\ job[k].id \in Ids
      BY <1>2, CallsOnJobs, HasId DEF IInv
    <3>2. /\ Running(k) => told[k] = Untold
          /\ rec[job[k].id] = k => job[k].id \in suppressed \/ job[k].resumed
      BY <2>1 DEF IInv, Sound, Foreground
    <3>3. rec'[job[k].id] = k => job[k].id # i /\ rec[job[k].id] = k
      BY <3>1, <1>2
    <3> QED
      BY <3>1, <3>2, <3>3, <1>1 DEF Running
  <2>2. \A s, t \in Slots : s # t /\ calls[s].kind = "bash" /\ calls[t].kind = "bash" =>
          calls[s].on \cap calls[t].on = {}
    BY DEF IInv, Sound, Foreground
  <2>3. CASE calls' = calls
    BY <2>1, <2>2, <2>3 DEF Foreground, Running
  <2>4. ASSUME NEW s \in Slots, suppressed' = suppressed \cup {i},
               calls' = [calls EXCEPT ![s] = [kind |-> "bash", on |-> {j}, watching |-> {}]]
        PROVE  Foreground'
    <3>1. calls'[s].on = {j} /\ \A t \in Slots \ {s} : calls'[t] = calls[t]
      BY <2>4 DEF IInv, Typed, TypeOK
    <3>2. \A t \in Slots : calls'[t].kind = "bash" => \A k \in calls'[t].on :
            /\ job'[k].status = "running" => told'[k] = Untold
            /\ rec'[job'[k].id] = k => job'[k].id \in suppressed' \/ job'[k].resumed
      BY <2>1, <2>4, <3>1, <1>1, <1>2, <1>3
    <3>3. \A t, u \in Slots : t # u /\ calls'[t].kind = "bash" /\ calls'[u].kind = "bash" =>
            calls'[t].on \cap calls'[u].on = {}
      BY <2>1, <2>2, <3>1
    <3> QED
      BY <3>2, <3>3 DEF Foreground, Running
  <2> QED
    BY <1>1, <2>3, <2>4
<1> QED
  BY <1>5, <1>6, <1>7, <1>8 DEF Sound

\* A delivery that is resumed for a job that has ended, or for another job, marks it.
LEMMA MoveSound ==
  ASSUME IInv, NEW s \in Slots, MoveToBackground(s)
  PROVE  Sound'
<1>1. PICK j \in calls[s].on : calls[s].kind = "bash" /\ Resume(j)
  BY DEF MoveToBackground
<1>2. /\ j \in Jobs /\ job[j].status # "unused" /\ calls' = Returned(s)
      /\ UNCHANGED <<rec, inFlight, queue, told>>
  BY CallsOnJobs DEF MoveToBackground, IInv
<1>3. /\ \A k \in Jobs : /\ job'[k].status = job[k].status /\ job'[k].id = job[k].id
                         /\ job[k].resumed => job'[k].resumed
      /\ \A i \in suppressed : i # job[j].id => i \in suppressed'
      /\ \/ suppressed' = suppressed
         \/ \A k \in Jobs : rec[job[j].id] = k /\ (k # j \/ ~Running(k)) => job'[k].resumed
      /\ \A k \in Jobs : k \in Range(deliveries') =>
           k \in Range(deliveries) \/ (job[k].status = "done" /\ job'[k].resumed)
  BY <1>1, <1>2, ResumeFields DEF IInv
<1>4. calls'[s].kind # "bash" /\ \A t \in Slots \ {s} : calls'[t] = calls[t]
  BY <1>2, ReturnedType DEF IInv, NoCall
<1>5. Running(j) => told[j] = Untold /\ ~told[j].tool
  BY <1>1 DEF IInv, Sound, Foreground, Untold
\* What is on record stays suppressed or is marked, but for j itself while it runs.
<1>6. \A k \in Jobs : rec[job[k].id] = k /\ job[k].id \in suppressed =>
        job[k].id \in suppressed' \/ job'[k].resumed \/ (k = j /\ Running(j))
  BY <1>2, <1>3
<1>7. \A k \in Jobs : Moving(k)' => Moving(k) \/ (job[k].status = "done" /\ job'[k].resumed)
  BY <1>2, <1>3 DEF Moving
<1>8. Pristine' /\ Done'
  BY <1>2, <1>3, <1>7 DEF IInv, Sound, Pristine, Done
<1>9. Single'
  <2>1. ASSUME NEW k \in Jobs, ~job'[k].resumed
        PROVE  /\ Moving(k)' => told'[k].followUps = 0
               /\ k \in Range(deliveries') => k \notin queue' /\ \A w \in Workers : inFlight'[w] # k
               /\ \A w \in Workers : inFlight'[w] = k => k \notin queue' /\ \A v \in Workers \ {w} : inFlight'[v] # k
    <3>1. ~job[k].resumed /\ (k \in Range(deliveries') => k \in Range(deliveries)) /\ (Moving(k)' => Moving(k))
      BY <2>1, <1>3, <1>7
    <3> QED
      BY <3>1, <1>2 DEF IInv, Sound, Single
  <2> QED
    BY <2>1 DEF Single
<1>10. Ack'
  <2>1. ASSUME NEW i \in Ids, rec[i] # 0, told[rec[i]].tool, ~job'[rec[i]].resumed
        PROVE  i \in suppressed'
    <3>1. rec[i] \in Jobs /\ job[rec[i]].id = i
      BY <2>1, JobsType DEF IInv, Typed, TypeOK, Named
    <3>2. ~job[rec[i]].resumed
      BY <2>1, <3>1, <1>3
    <3>3. i \in suppressed
      BY <2>1, <3>2 DEF IInv, Sound, Ack
    <3> QED
      BY <2>1, <3>1, <3>3, <1>5, <1>6
  <2> QED
    BY <2>1, <1>2 DEF Ack
<1>11. Foreground'
  <2>1. ASSUME NEW t \in Slots, calls'[t].kind = "bash", NEW k \in calls'[t].on
        PROVE  /\ job'[k].status = "running" => told'[k] = Untold
               /\ rec'[job'[k].id] = k => job'[k].id \in suppressed' \/ job'[k].resumed
    <3>1. t # s /\ calls'[t] = calls[t]
      BY <2>1, <1>4
    <3>2. k \in Jobs /\ k # j
      BY <2>1, <3>1, <1>1, CallsOnJobs DEF IInv, Sound, Foreground
    <3>3. /\ Running(k) => told[k] = Untold
          /\ rec[job[k].id] = k => job[k].id \in suppressed \/ job[k].resumed
      BY <2>1, <3>1 DEF IInv, Sound, Foreground
    <3> QED
      BY <3>2, <3>3, <1>2, <1>3, <1>6 DEF Running
  <2>2. \A t, u \in Slots : t # u /\ calls'[t].kind = "bash" /\ calls'[u].kind = "bash" =>
          calls'[t].on \cap calls'[u].on = {}
    BY <1>4 DEF IInv, Sound, Foreground
  <2> QED
    BY <2>1, <2>2 DEF Foreground, Running
<1> QED
  BY <1>8, <1>9, <1>10, <1>11 DEF Sound

\* A cancelled job ends, or one that runs to its end: its result is set out unless
\* its delivery is suppressed.
LEMMA SettleSound ==
  ASSUME IInv, NEW j \in Jobs, Settle(j)
  PROVE  Sound'
<1>1. job[j].alive /\ UNCHANGED <<rec, suppressed, inFlight, queue, calls, told>>
  BY DEF Settle, marks
<1>2. CASE ~Running(j)
  <2>1. EndsAs(j, "cancelled", FALSE) /\ UNCHANGED deliveries
    BY <1>2 DEF Settle
  <2>2. job[j].status \in {"running", "cancelled"}
    BY <1>1 DEF IInv, Typed, Named
  <2>3. \A k \in Jobs : /\ job'[k].id = job[k].id /\ job'[k].resumed = job[k].resumed
                        /\ job'[k].status = job[k].status \/ (Running(k) /\ job'[k].status = "cancelled")
    BY <2>1, <2>2, CancelledFields
  <2>4. \A k \in Jobs : told'[k] = told[k]
    BY <1>1
  <2> QED
    BY <1>1, <2>1, <2>3, <2>4, SoundKept DEF MovesNothing
<1>3. CASE Running(j)
  <2>1. EndsAs(j, "done", FALSE) /\ deliveries' = Enqueued(j)
    BY <1>3 DEF Settle
  <2>2. "done" \in Status
    BY DEF Status
  <2>3. /\ job'[j].status = "done" /\ job'[j].id = job[j].id /\ job'[j].resumed = job[j].resumed
        /\ \A k \in Jobs \ {j} : job'[k] = job[k]
    BY <2>1, <2>2, EndsAsFields DEF IInv, Typed
  <2>4. told[j].followUps = 0 /\ ~Moving(j)
    BY <1>3 DEF Running, IInv, Sound, Done
  <2>5. Range(deliveries') \subseteq Range(deliveries) \cup {j}
    BY <2>1, EnqueuedType DEF IInv
  <2>6. \A k \in Jobs : Moving(k)' => k = j \/ Moving(k)
    BY <2>5, <1>1 DEF Moving
  <2>7. Pristine' /\ Done'
    BY <2>3, <2>6, <1>1 DEF IInv, Sound, Pristine, Done
  <2>8. Single'
    <3>1. ASSUME NEW k \in Jobs \ {j}, ~job[k].resumed
          PROVE  /\ Moving(k)' => told'[k].followUps = 0
                 /\ k \in Range(deliveries') => k \notin queue' /\ \A w \in Workers : inFlight'[w] # k
                 /\ \A w \in Workers : inFlight'[w] = k => k \notin queue' /\ \A v \in Workers \ {w} : inFlight'[v] # k
      <4>1. k \in Range(deliveries') => k \in Range(deliveries)
        BY <2>5
      <4> QED
        BY <3>1, <4>1, <2>6, <1>1 DEF IInv, Sound, Single
    <3>2. told'[j].followUps = 0 /\ j \notin queue' /\ \A w \in Workers : inFlight'[w] # j
      BY <2>4, <1>1 DEF Moving
    <3> QED
      BY <3>1, <3>2, <2>3 DEF Single
  <2>9. Ack'
    <3>1. ASSUME NEW i \in Ids, rec[i] # 0, told[rec[i]].tool, ~job'[rec[i]].resumed PROVE i \in suppressed
      <4>1. rec[i] \in Jobs
        BY <3>1, JobsType DEF IInv, Typed, TypeOK
      <4>2. ~job[rec[i]].resumed
        BY <3>1, <4>1, <2>3
      <4> QED
        BY <3>1, <4>2 DEF IInv, Sound, Ack
    <3> QED
      BY <3>1, <1>1 DEF Ack
  <2>10. Foreground'
    <3>1. ASSUME NEW s \in Slots, calls[s].kind = "bash", NEW k \in calls[s].on
          PROVE  /\ job'[k].status = "running" => told[k] = Untold
                 /\ rec[job'[k].id] = k => job'[k].id \in suppressed \/ job'[k].resumed
      <4>1. k \in Jobs
        BY CallsOnJobs DEF IInv
      <4> QED
        BY <3>1, <4>1, <2>3 DEF IInv, Sound, Foreground, Running
    <3> QED
      BY <3>1, <1>1 DEF IInv, Sound, Foreground, Running
  <2> QED
    BY <2>7, <2>8, <2>9, <2>10 DEF Sound
<1> QED
  BY <1>2, <1>3

\* A delivery goes from one place to the next.
LEMMA PipeSound ==
  ASSUME IInv, UNCHANGED <<job, rec, suppressed, calls, told>>,
         \A k \in Jobs : Moving(k)' => Moving(k),
         Single'
  PROVE  Sound'
<1>1. Pristine' /\ Done'
  BY DEF IInv, Sound, Pristine, Done
<1>2. Ack' /\ Foreground'
  BY DEF IInv, Sound, Ack, Foreground, Running
<1> QED
  BY <1>1, <1>2 DEF Sound

LEMMA TakeSound ==
  ASSUME IInv, NEW w \in Workers, NEW j \in Jobs, TakeDelivery(w, j)
  PROVE  Sound'
<1>1. /\ inFlight[w] = 0 /\ deliveries' = Only(deliveries, Jobs \ {j})
      /\ inFlight' = inFlight \/ inFlight' = [inFlight EXCEPT ![w] = j]
      /\ UNCHANGED <<job, rec, suppressed, queue, calls, told>>
  BY DEF TakeDelivery, records, marks
<1>2. j \in Range(deliveries)
  <2>1. j \in Due(w)
    BY DEF TakeDelivery
  <2>2. deliveries # << >> => Head(deliveries) \in ToSet(deliveries)
    <3>1. deliveries \in Seq(Jobs)
      BY DEF IInv, Typed, TypeOK
    <3>2. deliveries # << >> => 1 \in DOMAIN deliveries /\ Head(deliveries) = deliveries[1]
      BY <3>1
    <3> QED
      BY <3>2 DEF ToSet
  <2> QED
    BY <2>1, <2>2, ToSetIsRange DEF Due
<1>3. Range(deliveries') \subseteq Range(deliveries) \ {j}
  <2>1. deliveries \in Seq(Jobs)
    BY DEF IInv, Typed, TypeOK
  <2>2. Range(deliveries') = Range(deliveries) \cap (Jobs \ {j})
    BY <1>1, <2>1, OnlyMembers
  <2> QED
    BY <2>2
<1>4. \A v \in Workers : inFlight'[v] = inFlight[v] \/ (v = w /\ inFlight'[v] = j)
  BY <1>1 DEF IInv, Typed, TypeOK
<1>5. \A k \in Jobs : Moving(k)' => Moving(k)
  BY <1>1, <1>2, <1>3, <1>4 DEF Moving
<1>6. Single'
  <2>1. ASSUME NEW k \in Jobs, ~job[k].resumed
        PROVE  /\ Moving(k)' => told'[k].followUps = 0
               /\ k \in Range(deliveries') => k \notin queue' /\ \A v \in Workers : inFlight'[v] # k
               /\ \A v \in Workers : inFlight'[v] = k => k \notin queue' /\ \A u \in Workers \ {v} : inFlight'[u] # k
    <3>1. Moving(k)' => told'[k].followUps = 0
      BY <2>1, <1>1, <1>5 DEF IInv, Sound, Single
    <3>2. CASE k # j
      BY <2>1, <3>1, <3>2, <1>1, <1>3, <1>4 DEF IInv, Sound, Single
    <3>3. CASE k = j
      <4>1. j \notin queue /\ \A v \in Workers : inFlight[v] # j
        BY <2>1, <3>3, <1>2 DEF IInv, Sound, Single
      <4> QED
        BY <3>1, <3>3, <4>1, <1>1, <1>3, <1>4
    <3> QED
      BY <3>2, <3>3
  <2> QED
    BY <2>1, <1>1 DEF Single
<1> QED
  BY <1>1, <1>5, <1>6, PipeSound

\* A worker has delivered, or failed to.
LEMMA DeliverSound ==
  ASSUME IInv, NEW w \in Workers, Deliver(w) \/ DeliveryFails(w)
  PROVE  Sound'
<1> DEFINE j == inFlight[w]
<1>1. /\ j # 0 /\ inFlight' = [inFlight EXCEPT ![w] = 0]
      /\ UNCHANGED <<job, rec, suppressed, calls, told>>
  BY DEF Deliver, DeliveryFails, records, marks
<1>2. j \in Jobs
  BY <1>1, InFlightJob DEF IInv
<1>3. \/ queue' \subseteq queue \cup {j} /\ deliveries' = deliveries
      \/ queue' = queue /\ Range(deliveries') \subseteq Range(deliveries) \cup {j}
  BY <1>2, EnqueuedType DEF Deliver, DeliveryFails, IInv
<1>4. \A v \in Workers : inFlight'[v] = IF v = w THEN 0 ELSE inFlight[v]
  BY <1>1 DEF IInv, Typed, TypeOK
<1>5. Moving(j)
  BY DEF Moving
<1>6. ~job[j].resumed => j \notin queue /\ j \notin Range(deliveries) /\ \A v \in Workers \ {w} : inFlight[v] # j
  BY <1>2 DEF IInv, Sound, Single
<1> HIDE DEF j
<1>7. \A k \in Jobs : Moving(k)' => Moving(k)
  BY <1>2, <1>3, <1>4, <1>5, JobsType DEF Moving
<1>8. Single'
  <2>1. ASSUME NEW k \in Jobs, ~job[k].resumed
        PROVE  /\ Moving(k)' => told'[k].followUps = 0
               /\ k \in Range(deliveries') => k \notin queue' /\ \A v \in Workers : inFlight'[v] # k
               /\ \A v \in Workers : inFlight'[v] = k => k \notin queue' /\ \A u \in Workers \ {v} : inFlight'[u] # k
    <3>1. Moving(k)' => told'[k].followUps = 0
      BY <2>1, <1>1, <1>7 DEF IInv, Sound, Single
    <3>2. CASE k # j
      <4>1. (k \in queue' => k \in queue) /\ (k \in Range(deliveries') => k \in Range(deliveries))
        BY <3>2, <1>3
      <4> QED
        BY <2>1, <3>1, <4>1, <1>4, JobsType DEF IInv, Sound, Single
    <3>3. CASE k = j
      <4>1. \A v \in Workers : inFlight'[v] # j
        BY <2>1, <3>3, <1>2, <1>4, <1>6, JobsType
      <4> QED
        BY <2>1, <3>1, <3>3, <4>1, <1>3, <1>6
    <3> QED
      BY <3>2, <3>3
  <2> QED
    BY <2>1, <1>1 DEF Single
<1> QED
  BY <1>1, <1>7, <1>8, PipeSound

LEMMA InjectSound ==
  ASSUME IInv, Inject
  PROVE  Sound'
<1>1. /\ queue' = {}
      /\ UNCHANGED <<job, rec, suppressed, deliveries, inFlight, calls>>
  BY DEF Inject, records, marks
<1>2. /\ \A j \in Jobs : told'[j].tool = told[j].tool
      /\ \A j \in Jobs : j \notin queue => told'[j] = told[j]
  BY ToldByFollowUp DEF IInv, Fresh
<1>3. \A k \in Jobs : Moving(k)' => Moving(k)
  BY <1>1 DEF Moving
<1>4. \A k \in queue : k \in Jobs /\ job[k].status = "done"
  BY DEF IInv, Typed, TypeOK, Sound, Done, Moving
<1>5. Pristine' /\ Done'
  BY <1>1, <1>2, <1>3, <1>4 DEF IInv, Sound, Pristine, Done
<1>6. Single'
  <2>1. ASSUME NEW k \in Jobs, ~job[k].resumed
        PROVE  /\ Moving(k)' => told'[k].followUps = 0
               /\ \A v \in Workers : inFlight[v] = k => \A u \in Workers \ {v} : inFlight[u] # k
               /\ k \in Range(deliveries) => \A v \in Workers : inFlight[v] # k
    <3>1. Moving(k)' => k \notin queue
      BY <2>1, <1>1 DEF Moving, IInv, Sound, Single
    <3> QED
      BY <2>1, <3>1, <1>2, <1>3 DEF IInv, Sound, Single
  <2> QED
    BY <2>1, <1>1 DEF Single
<1>7. Ack'
  <2>1. \A i \in Ids : rec[i] # 0 => rec[i] \in Jobs
    BY JobsType DEF IInv, Typed, TypeOK
  <2> QED
    BY <2>1, <1>1, <1>2 DEF IInv, Sound, Ack
<1>8. Foreground'
  <2>1. ASSUME NEW s \in Slots, calls[s].kind = "bash", NEW k \in calls[s].on, job[k].status = "running"
        PROVE  told'[k] = Untold
    <3>1. k \in Jobs /\ k \notin queue
      BY <2>1, <1>4, CallsOnJobs DEF IInv
    <3> QED
      BY <2>1, <3>1, <1>2 DEF IInv, Sound, Foreground, Running
  <2> QED
    BY <2>1, <1>1 DEF IInv, Sound, Foreground, Running
<1> QED
  BY <1>5, <1>6, <1>7, <1>8 DEF Sound

LEMMA NextSound ==
  ASSUME IInv, [Next]_vars
  PROVE  Sound'
<1>1. CASE UNCHANGED vars
  BY <1>1, VarsSound DEF vars, records, marks, pipe
<1>2. ASSUME NEW j \in Jobs, StartBackground(j) PROVE Sound'
  BY <1>2, StartsSound
<1>3. ASSUME NEW j \in Jobs, NEW s \in Slots, StartForeground(j, s) PROVE Sound'
  BY <1>3, StartsSound
<1>4. ASSUME NEW j \in Jobs, Settle(j) PROVE Sound'
  BY <1>4, SettleSound
<1>5. ASSUME NEW j \in Jobs, CancelJob(j) PROVE Sound'
  BY <1>5, CancelSound
<1>6. ASSUME NEW s \in Slots, MoveToBackground(s) PROVE Sound'
  BY <1>6, MoveSound
<1>7. ASSUME NEW s \in Slots, AbortForeground(s) PROVE Sound'
  BY <1>7, AbortSound
<1>8. ASSUME NEW s \in Slots, PollEnd(s) PROVE Sound'
  BY <1>8, PollEndSound
<1>9. ASSUME NEW js \in SUBSET Jobs, List(js) PROVE Sound'
  BY <1>9, ListSound
<1>10. ASSUME NEW js \in SUBSET Jobs, NEW s \in Slots, PollStart(s, js) PROVE Sound'
  BY <1>10, PollStartSound
<1>11. ASSUME NEW w \in Workers, NEW j \in Jobs, TakeDelivery(w, j) PROVE Sound'
  BY <1>11, TakeSound
<1>12. ASSUME NEW w \in Workers, Deliver(w) \/ DeliveryFails(w) PROVE Sound'
  BY <1>12, DeliverSound
<1>13. ASSUME NEW j \in Jobs, MarkRunning(j) PROVE Sound'
  BY <1>13, MarkSound
<1>14. ASSUME NEW i \in Ids, Evict(i) PROVE Sound'
  BY <1>14, EvictSound
<1>15. CASE Inject
  BY <1>15, InjectSound
<1>16. CASE LeaveSession \/ Dispose
  BY <1>16, AllCancelledSound
<1>17. CASE Disposed
  BY <1>17, DisposedSound
<1>18. ASSUME NEW s \in Slots, Complete(s) PROVE Sound'
  BY <1>18, CompleteSound
<1> QED
  BY <1>1, <1>2, <1>3, <1>4, <1>5, <1>6, <1>7, <1>8, <1>9, <1>10, <1>11, <1>12, <1>13, <1>14, <1>15, <1>16, <1>17,
     <1>18 DEF Next

\* Only an injection tells by a follow-up.
LEMMA OnlyInjectTells ==
  ASSUME IInv, [Next]_vars, NEW j \in Jobs, told'[j].followUps # told[j].followUps
  PROVE  Inject
<1> SUFFICES ASSUME ~Inject PROVE FALSE
  OBVIOUS
<1>1. CASE told' = told
  BY <1>1
<1>2. ASSUME NEW k \in Jobs, told' = [told EXCEPT ![k] = [told[k] EXCEPT !.tool = TRUE]] PROVE FALSE
  BY <1>2, ToldByTool DEF IInv, Typed, TypeOK
<1>3. ASSUME NEW js, told' = Answered(js) PROVE FALSE
  <2>1. told'[j] = told[j] \/ told'[j] = [told[j] EXCEPT !.tool = TRUE]
    BY <1>3 DEF Answered
  <2> QED
    BY <2>1, ToldByTool DEF IInv
<1>4. \/ told' = told
      \/ \E k \in Jobs : told' = [told EXCEPT ![k] = [told[k] EXCEPT !.tool = TRUE]]
      \/ \E js : told' = Answered(js)
  <2>1. CASE UNCHANGED vars
    BY <2>1 DEF vars
  <2>2. ASSUME NEW k \in Jobs, StartBackground(k) \/ \E s \in Slots : StartForeground(k, s) PROVE told' = told
    BY <2>2 DEF StartBackground, StartForeground, Register
  <2>3. ASSUME NEW k \in Jobs, Settle(k) \/ MarkRunning(k) PROVE told' = told
    BY <2>3 DEF Settle, MarkRunning
  <2>4. ASSUME NEW k \in Jobs, CancelJob(k) PROVE told' = [told EXCEPT ![k] = [told[k] EXCEPT !.tool = TRUE]]
    BY <2>4 DEF CancelJob
  <2>5. ASSUME NEW s \in Slots, MoveToBackground(s) PROVE told' = told
    BY <2>5 DEF MoveToBackground
  <2>12. ASSUME NEW s \in Slots, Complete(s) \/ AbortForeground(s)
         PROVE  \E k \in Jobs : told' = [told EXCEPT ![k] = [told[k] EXCEPT !.tool = TRUE]]
    BY <2>12, CallsOnJobs DEF Complete, AbortForeground, IInv
  <2>6. ASSUME NEW s \in Slots, PollEnd(s) PROVE \E js : told' = Answered(js)
    BY <2>6 DEF PollEnd, Answer
  <2>7. ASSUME NEW ks \in SUBSET Jobs, List(ks) PROVE \E js : told' = Answered(js)
    BY <2>7 DEF List, Answer
  <2>8. ASSUME NEW ks \in SUBSET Jobs, NEW s \in Slots, PollStart(s, ks) PROVE told' = told
    BY <2>8 DEF PollStart
  <2>9. ASSUME NEW w \in Workers, Deliver(w) \/ DeliveryFails(w) \/ \E k \in Jobs : TakeDelivery(w, k) PROVE told' = told
    BY <2>9 DEF Deliver, DeliveryFails, TakeDelivery
  <2>10. ASSUME NEW i \in Ids, Evict(i) PROVE told' = told
    BY <2>10 DEF Evict
  <2>11. CASE LeaveSession \/ Dispose \/ Disposed
    BY <2>11 DEF LeaveSession, Dispose, Disposed
  <2> QED
    BY <2>1, <2>2, <2>3, <2>4, <2>5, <2>6, <2>7, <2>8, <2>9, <2>10, <2>11, <2>12 DEF Next
<1> QED
  BY <1>1, <1>2, <1>3, <1>4

\* A follow-up never repeats what the model knows of a job on record whose delivery
\* was not resumed after its end, for any number of jobs, ids, tool calls and failed
\* deliveries, whenever the eviction timers fire (job-manager.ts
\* acknowledgeDeliveries, sdk.ts isStale).
THEOREM NothingRepeated == Spec => NoEcho
<1> DEFINE Tells == \A j \in Jobs : told'[j].followUps # told[j].followUps /\ OnRecord(j) /\ ~job[j].resumed
                                      => told[j] = Untold
<1>1. Init => IInv
  BY InitTyped, InitSound DEF IInv
<1>2. IInv /\ [Next]_vars => IInv'
  <2> SUFFICES ASSUME IInv, [Next]_vars PROVE IInv'
    OBVIOUS
  <2>1. Typed'
    BY NextTyped DEF IInv
  <2>2. Sound'
    BY NextSound
  <2> QED
    BY <2>1, <2>2 DEF IInv
<1>3. IInv /\ [Next]_vars => [Tells]_vars
  BY OnlyInjectTells, InjectRepeatsNothing
<1> HIDE DEF Tells
<1>4. Spec => [][Tells]_vars
  BY <1>1, <1>2, <1>3, PTL DEF Spec
<1> QED
  BY <1>4 DEF NoEcho, Tells
=============================================================================
