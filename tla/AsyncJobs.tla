------------------------------ MODULE AsyncJobs ------------------------------
(***************************************************************************)
(* Background jobs of one session: the registry, the delivery loop and the *)
(* acknowledgements of AsyncJobManager                                     *)
(* (packages/coding-agent/src/async/job-manager.ts), the tools that start, *)
(* poll and cancel jobs (tools/bash.ts, tools/job.ts) and the queue that   *)
(* carries results into the conversation (sdk.ts, session/yield-queue.ts). *)
(*                                                                         *)
(* A result reaches the model through a tool's answer or through a         *)
(* follow-up message; everything that keeps the two apart is kept by job   *)
(* id, and an id is free again once its job is evicted, which a timer does *)
(* whatever is still under way.  Completed and failed jobs are both "done".*)
(* Time, progress and the text are left out, and so are jobs of other      *)
(* owners: a subagent runs its work in place.                              *)
(***************************************************************************)
EXTENDS Naturals, Sequences, FiniteSets, SequencesExt, FiniteSetsExt, Filtering

CONSTANTS
  MaxJobs,     \* bound: jobs ever registered
  Ids,         \* bound: job ids; numbers, for the lowest free one is taken
  MaxRunning,  \* maxRunningJobs
  Slots,       \* bound: tool calls of a batch under way at a time
  MaxCalls,    \* bound: calls of the job tool
  MaxFails     \* bound: deliveries that fail and are retried

ASSUME BoundsAssumption ==
  /\ MaxJobs \in Nat \ {0} /\ MaxRunning \in Nat \ {0} /\ MaxCalls \in Nat /\ MaxFails \in Nat
  /\ Ids \subseteq Nat \ {0} /\ Ids # {} /\ IsFiniteSet(Ids)

Jobs == 1..MaxJobs

\* Who delivers: the delivery loop, and a drain an ACP client asked for.
Workers == {"loop", "drain"}

VARIABLES
  job,        \* every job registered so far
  rec,        \* #jobs: the job on record under each id, or 0
  timers,     \* ids with an eviction timer
  suppressed, \* #suppressedDeliveries
  watched,    \* #watchedJobs
  deliveries, \* #deliveries
  inFlight,   \* #inFlightDeliveries: the job whose onJobComplete each worker awaits, or 0
  queue,      \* jobs with an entry in the yield queue
  calls,      \* tool calls under way
  told,       \* through what the model was told each result
  disposing,  \* no, waiting for jobs to settle, or over
  used        \* calls of the job tool and failed deliveries so far

records == <<job, rec, timers>>
marks == <<suppressed, watched>>
pipe == <<deliveries, inFlight, queue>>
vars == <<records, marks, pipe, calls, told, disposing, used>>

Status == {"unused", "running", "done", "cancelled"}

\* alive: its function has not returned.  queued: it waits for the task semaphore.
\* Two fields record what happened to it.  late: it ended when another job, or none,
\* was on record under its id.  resumed: the suppression of its delivery was lifted
\* after its end, or for another job.
Job == [status : Status, id : Ids \cup {0}, alive : BOOLEAN, queued : BOOLEAN,
        late : BOOLEAN, resumed : BOOLEAN]
Call == [kind : {"none", "poll", "bash"}, on : SUBSET Jobs, watching : SUBSET Ids]
Untold == [tool |-> FALSE, followUps |-> 0]
NoCall == [kind |-> "none", on |-> {}, watching |-> {}]

TypeOK ==
  /\ job \in [Jobs -> Job]
  /\ rec \in [Ids -> 0..MaxJobs]
  /\ timers \subseteq Ids /\ suppressed \subseteq Ids /\ watched \subseteq Ids
  /\ deliveries \in Seq(Jobs) /\ inFlight \in [Workers -> 0..MaxJobs] /\ queue \subseteq Jobs
  /\ calls \in [Slots -> Call]
  /\ told \in [Jobs -> [tool : BOOLEAN, followUps : 0..2]]
  /\ disposing \in {"no", "waiting", "over"}
  /\ used \in [calls : 0..MaxCalls, fails : 0..MaxFails]

-----------------------------------------------------------------------------
Running(j) == job[j].status = "running"
Listed == {rec[i] : i \in Ids} \ {0}
Ended(j) == job[j].status \in {"done", "cancelled"}

Busy == {s \in Slots : calls[s].kind # "none"}
Idle == Busy = {}
Returned(s) == [calls EXCEPT ![s] = NoCall]

\* isDeliverySuppressed
Suppressed(j) == job[j].id \in suppressed \cup watched

\* Mutant: ids on record are not skipped.
FreeIds_Any == Ids

\* The ids #resolveJobId may choose from.
FreeIds == {i \in Ids : rec[i] = 0}

\* register: job j starts under the lowest free id, unless too many are running;
\* those that wait for the semaphore do not count.
Register(j, i, queued) ==
  /\ disposing = "no"
  /\ Cardinality({k \in Listed : Running(k) /\ ~job[k].queued}) < MaxRunning
  /\ job[j].status = "unused" /\ \A k \in 1..(j - 1) : job[k].status # "unused"
  /\ FreeIds # {} /\ i = Min(FreeIds)
  /\ job' = [job EXCEPT ![j] = [status |-> "running", id |-> i, alive |-> TRUE, queued |-> queued,
                                late |-> FALSE, resumed |-> FALSE]]
  /\ rec' = [rec EXCEPT ![i] = j]
  /\ UNCHANGED <<timers, watched, inFlight, queue, told, disposing, used>>

\* A background task or command; its tool call returns at once.  What was
\* acknowledged of the id's last job is forgotten.
StartBackground(j) == \E i \in Ids, queued \in BOOLEAN :
  /\ Register(j, i, queued)
  /\ suppressed' = suppressed \ {i}
  /\ UNCHANGED <<deliveries, calls>>

\* markRunning: the semaphore lets a task through.
MarkRunning(j) ==
  /\ job[j].alive /\ job[j].queued
  /\ job' = [job EXCEPT ![j].queued = FALSE]
  /\ UNCHANGED <<rec, timers, marks, pipe, calls, told, disposing, used>>

\* A command that may yet move to the background: its delivery is suppressed up
\* front, what an earlier job left queued under its id is dropped, and the call
\* waits for it.
StartForeground(j, s) == \E i \in Ids :
  /\ Register(j, i, FALSE)
  /\ suppressed' = suppressed \cup {i}
  /\ deliveries' = Only(deliveries, {k \in Jobs : job[k].id \notin suppressed' \cup watched})
  /\ calls[s].kind = "none"
  /\ calls' = [calls EXCEPT ![s] = [kind |-> "bash", on |-> {j}, watching |-> {}]]

\* scheduleEviction
Armed(i) == IF disposing = "no" THEN timers \cup {i} ELSE timers

\* #enqueueDelivery
Enqueued(j) == IF Suppressed(j) THEN deliveries ELSE Append(deliveries, j)

\* What the job's record ends as.
Ending(j, status, alive) ==
  [job[j] EXCEPT !.status = status, !.alive = alive, !.late = job[j].late \/ rec[job[j].id] # j]

\* The job's record ends; the eviction of its id is scheduled.
EndsAs(j, status, alive) ==
  /\ job' = [job EXCEPT ![j] = Ending(j, status, alive)]
  /\ timers' = Armed(job[j].id)

\* The call that waits for a command is answered; the command's job goes on until
\* its last progress was reported.
Complete(s) == \E j \in calls[s].on :
  /\ calls[s].kind = "bash" /\ job[j].alive
  /\ told' = [told EXCEPT ![j].tool = TRUE]
  /\ calls' = Returned(s)
  /\ UNCHANGED <<records, marks, pipe, disposing, used>>

\* A job's run ends.  A cancelled job only arms its eviction again; else the
\* result is queued for delivery.  A call that still waits for it goes on waiting:
\* the run failed before the command began (no room for its output).
Settle(j) ==
  /\ job[j].alive
  /\ IF Running(j)
     THEN EndsAs(j, "done", FALSE) /\ deliveries' = Enqueued(j)
     ELSE EndsAs(j, "cancelled", FALSE) /\ UNCHANGED deliveries
  /\ UNCHANGED <<rec, marks, inFlight, queue, calls, told, disposing, used>>

\* Jobs whose delivery is queued or awaited.
Underway == (ToSet(deliveries) \cup Range(inFlight)) \ {0}

\* Mutant: what ended in the meantime is not queued again.
Requeued_Not(r) == deliveries

\* resumeDeliveries queues the job on record once more if it ended meanwhile and
\* nothing is under way under its id.
Requeued(r) ==
  IF /\ r # 0 /\ job[r].status = "done"
     /\ \A k \in Underway : job[k].id # job[r].id
     /\ job[r].id \notin watched
  THEN Append(deliveries, r) ELSE deliveries

\* resumeDeliveries of job j, which looks for whatever is on record under its id.
Resume(j) ==
  LET r == rec[job[j].id]
  IN IF job[j].id \in suppressed
     THEN /\ suppressed' = suppressed \ {job[j].id}
          /\ deliveries' = Requeued(r)
          /\ job' = IF r # 0 /\ (r # j \/ ~Running(r)) THEN [job EXCEPT ![r].resumed = TRUE] ELSE job
     ELSE UNCHANGED <<suppressed, deliveries, job>>

\* The threshold passes: the command moves to the background.
MoveToBackground(s) == \E j \in calls[s].on :
  /\ calls[s].kind = "bash"
  /\ Resume(j)
  /\ calls' = Returned(s)
  /\ UNCHANGED <<rec, timers, watched, inFlight, queue, told, disposing, used>>

\* The call is aborted, and what runs under the command's id with it; the model is
\* told of the abort in place of a result.
AbortForeground(s) == \E j \in calls[s].on :
  /\ calls[s].kind = "bash"
  /\ LET r == rec[job[j].id]
     IN IF r # 0 /\ Running(r) THEN EndsAs(r, "cancelled", TRUE) ELSE UNCHANGED <<job, timers>>
  /\ told' = [told EXCEPT ![j].tool = TRUE]
  /\ calls' = Returned(s)
  /\ UNCHANGED <<rec, marks, pipe, disposing, used>>

-----------------------------------------------------------------------------
\* #snapshotJobs: what is on record under the id now, else the record it had.
Latest(j) == IF rec[job[j].id] # 0 THEN rec[job[j].id] ELSE j

\* A tool's answer tells how these jobs ended, as far as they have.
Answered(js) == [k \in Jobs |-> IF k \in js /\ Ended(k) THEN [told[k] EXCEPT !.tool = TRUE] ELSE told[k]]

\* #buildResult answers with the latest of these jobs: those that have ended are
\* acknowledged, and their queued deliveries dropped.
Answer(js, watching) ==
  LET ended == {k \in {Latest(j) : j \in js} : Ended(k)}
      ids == {job[k].id : k \in ended}
  IN /\ suppressed' = suppressed \cup ids
     /\ watched' = watching
     /\ deliveries' = Only(deliveries, {k \in Jobs : job[k].id \notin suppressed \cup ids \cup watching})
     /\ told' = Answered(ended)

Counted == used.calls < MaxCalls /\ used' = [used EXCEPT !.calls = @ + 1]

\* The job tool lists jobs, or is asked about jobs that have all ended.
List(js) ==
  /\ disposing = "no" /\ Counted
  /\ js # {} /\ js \subseteq Listed
  /\ js = Listed \/ \A j \in js : ~Running(j)
  /\ Answer(js, watched)
  /\ UNCHANGED <<records, inFlight, queue, calls, disposing>>

\* The job tool waits, watching those of the jobs that are running.
PollStart(s, js) ==
  /\ disposing = "no" /\ Counted
  /\ calls[s].kind = "none"
  /\ js # {} /\ js \subseteq Listed /\ \E j \in js : Running(j)
  /\ LET ids == {job[j].id : j \in {k \in js : Running(k)}}
     IN /\ watched' = watched \cup ids
        /\ calls' = [calls EXCEPT ![s] = [kind |-> "poll", on |-> js, watching |-> ids]]
  /\ UNCHANGED <<records, suppressed, pipe, told, disposing>>

\* The wait ends, for a job that ended, the time it had or an interrupt.  The
\* marks are not counted: another poll's watch on the same job ends as well.
PollEnd(s) ==
  /\ calls[s].kind = "poll"
  /\ Answer(calls[s].on, watched \ calls[s].watching)
  /\ calls' = Returned(s)
  /\ UNCHANGED <<records, inFlight, queue, disposing, used>>

\* The job tool cancels a job and answers with it.
CancelJob(j) ==
  /\ disposing = "no" /\ Counted
  /\ j \in Listed /\ Running(j)
  /\ EndsAs(j, "cancelled", TRUE)
  /\ suppressed' = suppressed \cup {job[j].id}
  /\ deliveries' = Only(deliveries, {k \in Jobs : job[k].id \notin suppressed' \cup watched})
  /\ told' = [told EXCEPT ![j].tool = TRUE]
  /\ UNCHANGED <<rec, watched, inFlight, queue, calls, disposing>>

\* cancelAll
AllCancelled ==
  job' = [j \in Jobs |-> IF j \in Listed /\ Running(j) THEN [job[j] EXCEPT !.status = "cancelled"] ELSE job[j]]

\* The session moves to another file once its run was aborted.
LeaveSession ==
  /\ disposing = "no" /\ Idle
  /\ \E j \in Listed : Running(j)
  /\ AllCancelled
  /\ timers' = timers \cup {job[j].id : j \in {k \in Listed : Running(k)}}
  /\ UNCHANGED <<rec, marks, pipe, calls, told, disposing, used>>

\* An eviction timer fires: whatever is on record under the id goes.
Evict(i) ==
  /\ i \in timers
  /\ timers' = timers \ {i}
  /\ rec' = [rec EXCEPT ![i] = 0]
  /\ suppressed' = suppressed \ {i}
  /\ watched' = watched \ {i}
  /\ UNCHANGED <<job, pipe, calls, told, disposing, used>>

-----------------------------------------------------------------------------
\* The deliveries a worker may take: the loop only the first.
Due(w) == IF w = "loop" /\ deliveries # <<>> THEN {Head(deliveries)} ELSE ToSet(deliveries)

\* A worker takes a delivery, or the loop drops one that is suppressed.
TakeDelivery(w, j) ==
  /\ inFlight[w] = 0 /\ j \in Due(w)
  /\ deliveries' = Only(deliveries, Jobs \ {j})
  /\ IF Suppressed(j)
     THEN w = "loop" /\ UNCHANGED inFlight
     ELSE inFlight' = [inFlight EXCEPT ![w] = j]
  /\ UNCHANGED <<records, marks, queue, calls, told, disposing, used>>

\* onJobComplete: the text is formatted, and the result enters the yield queue
\* unless it was acknowledged meanwhile.
Deliver(w) ==
  /\ inFlight[w] # 0
  /\ queue' = IF Suppressed(inFlight[w]) THEN queue ELSE queue \cup {inFlight[w]}
  /\ inFlight' = [inFlight EXCEPT ![w] = 0]
  /\ UNCHANGED <<records, marks, deliveries, calls, told, disposing, used>>

\* The delivery fails and is queued again, unless it was acknowledged meanwhile.
DeliveryFails(w) ==
  /\ inFlight[w] # 0
  /\ used.fails < MaxFails /\ used' = [used EXCEPT !.fails = @ + 1]
  /\ deliveries' = Enqueued(inFlight[w])
  /\ inFlight' = [inFlight EXCEPT ![w] = 0]
  /\ UNCHANGED <<records, marks, queue, calls, told, disposing>>

\* Mutant: entries are not looked at again before they are injected.
Fresh_All == queue

\* The entries isStale spares.
Fresh == {j \in queue : ~Suppressed(j)}

\* Between two batches of tool calls the queue is emptied into the conversation.
Inject ==
  /\ Idle /\ queue # {}
  /\ told' = [j \in Jobs |-> IF j \in Fresh THEN [told[j] EXCEPT !.followUps = Min({@ + 1, 2})] ELSE told[j]]
  /\ queue' = {}
  /\ UNCHANGED <<records, marks, deliveries, inFlight, calls, disposing, used>>

\* beginDispose and dispose: the queue is dropped and every job cancelled.
Dispose ==
  /\ disposing = "no" /\ Idle
  /\ disposing' = "waiting"
  /\ queue' = {} /\ timers' = {}
  /\ AllCancelled
  /\ UNCHANGED <<rec, marks, deliveries, inFlight, calls, told, used>>

\* All jobs settled and all deliveries drained, or the time for it is over.
Disposed ==
  /\ disposing = "waiting"
  /\ disposing' = "over"
  /\ rec' = [i \in Ids |-> 0]
  /\ suppressed' = {} /\ watched' = {} /\ deliveries' = <<>>
  /\ inFlight' = [w \in Workers |-> 0]
  /\ UNCHANGED <<job, timers, queue, calls, told, used>>
-----------------------------------------------------------------------------
Init ==
  /\ job = [j \in Jobs |-> [status |-> "unused", id |-> 0, alive |-> FALSE, queued |-> FALSE,
                         late |-> FALSE, resumed |-> FALSE]]
  /\ rec = [i \in Ids |-> 0]
  /\ timers = {} /\ suppressed = {} /\ watched = {}
  /\ deliveries = <<>> /\ inFlight = [w \in Workers |-> 0] /\ queue = {}
  /\ calls = [s \in Slots |-> NoCall]
  /\ told = [j \in Jobs |-> Untold]
  /\ disposing = "no"
  /\ used = [calls |-> 0, fails |-> 0]

CallEnds(s) == PollEnd(s) \/ Complete(s) \/ MoveToBackground(s)
LoopStep == \/ Deliver("loop")
            \/ \E j \in Jobs : TakeDelivery("loop", j)

Next ==
  \/ \E j \in Jobs : StartBackground(j) \/ MarkRunning(j) \/ Settle(j) \/ CancelJob(j)
  \/ \E j \in Jobs, s \in Slots : StartForeground(j, s)
  \/ \E s \in Slots : Complete(s) \/ MoveToBackground(s) \/ AbortForeground(s) \/ PollEnd(s)
  \/ \E js \in SUBSET Jobs : List(js) \/ \E s \in Slots : PollStart(s, js)
  \/ \E w \in Workers, j \in Jobs : TakeDelivery(w, j)
  \/ \E w \in Workers : Deliver(w) \/ DeliveryFails(w)
  \/ \E i \in Ids : Evict(i)
  \/ Inject \/ LeaveSession \/ Dispose \/ Disposed

Spec == Init /\ [][Next]_vars

\* Both waits of a call are bounded by timers, and every worker goes on as long as it
\* has a delivery.  Nothing empties the queue of a session that stays idle.
FairSpec == Spec
  /\ \A s \in Slots : WF_vars(CallEnds(s))
  /\ \A w \in Workers : WF_vars(Deliver(w))
  /\ WF_vars(LoopStep)
-----------------------------------------------------------------------------
\* Is job j on record?
OnRecord(j) == job[j].id # 0 /\ rec[job[j].id] = j

\* A job of this id has ended when it was no longer on record: the timer it armed
\* evicts whatever is under the id by then.
Overtaken(i) == \E k \in Jobs : job[k].id = i /\ job[k].late

\* Whatever runs can be seen and cancelled: a running job is on record under its
\* id, so no two of them share one, unless an earlier job of that id ended after
\* its own eviction (#resolveJobId and the eviction keyed by id).
RunningIsListed == disposing # "over" =>
  \A j \in Jobs : Running(j) => OnRecord(j) \/ Overtaken(job[j].id)

\* A follow-up never repeats what the model knows: as long as its job is on record,
\* a result a tool has answered with, or that a follow-up brought, is not injected
\* (job-manager.ts acknowledgeDeliveries, sdk.ts isStale).  A result whose delivery
\* was resumed after the job's end is not covered: a poll may have told it.
NoEcho == [][\A j \in Jobs : told'[j].followUps # told[j].followUps /\ OnRecord(j) /\ ~job[j].resumed
                               => told[j] = Untold]_vars

\* Its delivery was resumed after its end, under an id an earlier job had: a delivery
\* of that job is taken for its own.
Mistaken(j) == job[j].resumed /\ \E k \in Jobs \ {j} : job[k].id = job[j].id

\* No result is lost: a job that ends by itself is told to the model, or waits in the
\* queue of a session that stays idle, however polls, deliveries, retries and the
\* move to the background interleave.  Not covered are a job evicted before that and
\* one whose delivery is mistaken for another's.
EventuallyTold == \A j \in Jobs :
  (job[j].status = "done") ~>
    (told[j] # Untold \/ [](j \in queue) \/ disposing # "no" \/ ~OnRecord(j) \/ Mistaken(j))
=============================================================================
