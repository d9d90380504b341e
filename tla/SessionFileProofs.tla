-------------------------- MODULE SessionFileProofs --------------------------
(***************************************************************************)
(* Proofs about SessionFile, for every bound: its type invariant, and that *)
(* no append goes to a file that a rewrite replaced before a stray call    *)
(* reaches the manager.                                                    *)
(***************************************************************************)
EXTENDS SessionFile, FilteringProofs

-----------------------------------------------------------------------------
(* The values of the model.                                                *)

\* Every line but the first is an entry.
Sheet(f) == \A n \in 2..Len(f) : f[n] \in Entry

LEMMA EntryIsLine ==
  /\ Entry \subseteq Line
  /\ \A s \in Session : Header(s) \in Line
BY DEF Line

LEMMA Narrowed ==
  ASSUME NEW S, NEW T, NEW s \in Seq(T), \A i \in 1..Len(s) : s[i] \in S
  PROVE  s \in Seq(S)
<1>1. s \in [1..Len(s) -> S] /\ Len(s) \in Nat
  BY LenProperties
<1> QED
  BY <1>1, SeqDef

LEMMA NewEntry ==
  ASSUME NEW s \in Session, NEW b \in 0..MaxEntries, b < MaxEntries, NEW k \in {"user", "assistant", "title"}
  PROVE  [s |-> s, n |-> b + 1, k |-> k] \in Entry
<1>1. b + 1 \in 1..MaxEntries
  BY BoundsAssumption
<1> QED
  BY <1>1 DEF Entry

LEMMA BodyType ==
  ASSUME NEW m \in Seq(Entry), owner \in Session
  PROVE  /\ Body(m) \in Seq(Line) /\ Body(m) # << >> /\ Body(m)[1] = Header(owner) /\ Sheet(Body(m))
         /\ Body(m) = <<Header(owner)>> \o m
<1>1. m \in Seq(Line) /\ <<Header(owner)>> \in Seq(Line)
  BY EntryIsLine
<1>2. Body(m) \in Seq(Line) /\ Len(Body(m)) = Len(m) + 1
  BY <1>1 DEF Body
<1>3. \A n \in 2..Len(Body(m)) : Body(m)[n] = m[n - 1] /\ n - 1 \in 1..Len(m)
  BY <1>1, <1>2 DEF Body
<1>4. Sheet(Body(m))
  BY <1>3 DEF Sheet
<1>5. Body(m)[1] = Header(owner)
  BY <1>1 DEF Body
<1> QED
  BY <1>2, <1>4, <1>5 DEF Body

\* What follows the first line of a file can be taken into memory.
LEMMA TailOfSheet ==
  ASSUME NEW f \in Seq(Line), Sheet(f), f # << >>
  PROVE  Tail(f) \in Seq(Entry)
<1>1. Tail(f) \in Seq(Line) /\ Len(Tail(f)) = Len(f) - 1 /\ Len(f) >= 1
  OBVIOUS
<1>2. \A n \in 1..Len(Tail(f)) : Tail(f)[n] = f[n + 1] /\ n + 1 \in 2..Len(f)
  BY <1>1
<1>3. \A n \in 1..Len(Tail(f)) : Tail(f)[n] \in Entry
  BY <1>2 DEF Sheet
<1> QED
  BY <1>1, <1>3, Narrowed

LEMMA AppendToSheet ==
  ASSUME NEW f \in Seq(Line), Sheet(f), NEW e \in Entry
  PROVE  Append(f, e) \in Seq(Line) /\ Sheet(Append(f, e)) /\ Append(f, e) # << >>
<1>1. e \in Line
  BY EntryIsLine
<1>2. Append(f, e) \in Seq(Line) /\ Len(Append(f, e)) = Len(f) + 1
  BY <1>1
<1>3. \A n \in 2..Len(Append(f, e)) : Append(f, e)[n] \in Entry
  <2>1. ASSUME NEW n \in 2..Len(Append(f, e)) PROVE Append(f, e)[n] \in Entry
    <3>1. CASE n = Len(f) + 1
      BY <1>1, <1>2, <3>1
    <3>2. CASE n # Len(f) + 1
      <4>1. n \in 2..Len(f)
        BY <1>2, <3>2
      <4>2. Append(f, e)[n] = f[n]
        BY <4>1
      <4> QED
        BY <4>1, <4>2 DEF Sheet
    <3> QED
      BY <3>1, <3>2
  <2> QED
    BY <2>1
<1> QED
  BY <1>2, <1>3 DEF Sheet

\* The beginning of a file is one.
LEMMA SheetBegins ==
  ASSUME NEW f \in Seq(Line), Sheet(f), NEW n \in 1..Len(f) - 1
  PROVE  /\ SubSeq(f, 1, n) \in Seq(Line) /\ Sheet(SubSeq(f, 1, n))
         /\ Len(SubSeq(f, 1, n)) = n /\ \A j \in 1..n : SubSeq(f, 1, n)[j] = f[j]
<1>1. Len(f) \in Nat /\ n \in Nat /\ 1 <= n /\ n < Len(f)
  OBVIOUS
<1>2. /\ SubSeq(f, 1, n) \in Seq(Line) /\ Len(SubSeq(f, 1, n)) = n
      /\ \A j \in 1..n : SubSeq(f, 1, n)[j] = f[j]
  BY <1>1
<1>3. \A j \in 2..n : j \in 2..Len(f) /\ j \in 1..n
  BY <1>1
<1> QED
  BY <1>2, <1>3 DEF Sheet

LEMMA EmptySheet == << >> \in Seq(Line) /\ Sheet(<< >>)
BY DEF Sheet

-----------------------------------------------------------------------------
(* The type invariant in parts, with what it needs: where each kind of     *)
(* disk work can be, and how far a change of session has come.             *)

Contents ==
  /\ mem \in Seq(Entry) /\ owner \in Session /\ born \in 0..MaxEntries
  /\ sess \in Session /\ target \in Session
Marks ==
  /\ fileIsCurrent \in BOOLEAN /\ rewriteRequired \in BOOLEAN /\ forceFileCreation \in BOOLEAN
  /\ diskFailure \in BOOLEAN /\ dirty \in BOOLEAN
Sheets ==
  /\ file \in [Session -> Seq(Line)] /\ backup \in [Session -> Seq(Line)]
  /\ \A s \in Session : Sheet(file[s]) /\ Sheet(backup[s])
Counts ==
  /\ phase \in {"idle", "draining", "loading"} /\ writer \in {"none", "open", "detached"}
  /\ epoch \in 1..MaxEpoch /\ fence \in 0..MaxEpoch /\ crashes \in 0..MaxCrashes
Work == tasks \in Seq(Task) /\ tail \in 0..Len(tasks) /\ Len(tasks) <= MaxTasks

LEMMA TypeParts == Contents /\ Marks /\ Sheets /\ Counts /\ Work /\ torn \in [Session -> BOOLEAN]
                     /\ mishaps \subseteq Mishaps => TypeOK
BY DEF TypeOK, Contents, Marks, Sheets, Counts, Work

\* Where a task can be.
Stages == \A i \in DOMAIN tasks :
  /\ tasks[i].kind = "rewrite" => tasks[i].pc # "appended"
  /\ tasks[i].kind = "flush" => tasks[i].pc \in {"queued", "done"}
  /\ tasks[i].kind \in {"close", "drain"} => tasks[i].pc \in {"queued", "closing", "done"}
  /\ tasks[i].kind = "title" /\ tasks[i].pc = "queued" => tasks[i].body # << >> /\ tasks[i].body[1] \in Entry
  /\ tasks[i].pc = "staging" => tasks[i].body # << >> /\ Sheet(tasks[i].body)

\* Nothing but the drain is under way while the session changes.
Phases ==
  /\ phase # "idle" => \A i \in DOMAIN tasks :
       tasks[i].pc # "done" => phase = "draining" /\ i = Len(tasks) /\ tasks[i].kind = "drain" /\ tasks[i].epoch = epoch
  /\ \A i \in DOMAIN tasks : tasks[i].kind = "drain" /\ tasks[i].pc # "done" => phase = "draining"
  /\ phase # "loading" => owner = sess
  /\ phase = "loading" => Exists(sess)
  /\ phase # "idle" => ~diskFailure
  /\ phase = "draining" => (OnDisk(target) = << >> /\ target # owner) \/ Exists(target)

\* What a stray call can disturb is Phases only.
Tears == torn \in [Session -> BOOLEAN]
Record == mishaps \subseteq Mishaps
Types == Contents /\ Marks /\ Sheets /\ Counts /\ Work /\ Stages /\ Tears /\ Record
Typed == Types /\ Phases

\* The step is not a stray call.
Calm == "stray" \notin mishaps'
PhasesKept == Phases /\ Calm => Phases'
KeepsTypes == Contents' /\ Marks' /\ Sheets' /\ Counts' /\ Work' /\ Stages' /\ PhasesKept


-----------------------------------------------------------------------------
(* Steps of the chain.                                                     *)

\* Task i goes to p, and the rest of the chain stays.
Moves(i, p) ==
  /\ DOMAIN tasks' = DOMAIN tasks /\ Len(tasks') = Len(tasks)
  /\ \A j \in DOMAIN tasks \ {i} : tasks'[j] = tasks[j]
  /\ tasks'[i].kind = tasks[i].kind /\ tasks'[i].epoch = tasks[i].epoch
  /\ tasks'[i].after = tasks[i].after /\ tasks'[i].pc = p

TaskWith(t, p, q, b) ==
  [kind |-> t.kind, epoch |-> t.epoch, after |-> t.after, pc |-> p, path |-> q, body |-> b]

Puts(i, p, q, b) == tasks' = [tasks EXCEPT ![i] = TaskWith(tasks[i], p, q, b)]

LEMMA TaskFields ==
  ASSUME NEW t \in Task, NEW p, NEW q, NEW b
  PROVE  /\ [t EXCEPT !.pc = p] = TaskWith(t, p, t.path, t.body)
         /\ [TaskWith(t, p, t.path, t.body) EXCEPT !.body = b] = TaskWith(t, p, t.path, b)
         /\ [TaskWith(t, p, t.path, b) EXCEPT !.path = q] = TaskWith(t, p, q, b)
<1>1. [t EXCEPT !.pc = p] = TaskWith(t, p, t.path, t.body)
  BY DEF Task, TaskWith
<1>2. [TaskWith(t, p, t.path, t.body) EXCEPT !.body = b] = TaskWith(t, p, t.path, b)
  BY DEF TaskWith
<1>3. [TaskWith(t, p, t.path, b) EXCEPT !.path = q] = TaskWith(t, p, q, b)
  BY DEF TaskWith
<1> QED
  BY <1>1, <1>2, <1>3

LEMMA SetTask ==
  ASSUME tasks \in Seq(Task), NEW i \in DOMAIN tasks,
         NEW p \in Progress, NEW q \in Session, NEW b \in Seq(Line),
         Puts(i, p, q, b)
  PROVE  tasks' \in Seq(Task) /\ Moves(i, p) /\ tasks'[i].path = q /\ tasks'[i].body = b
<1> DEFINE t == TaskWith(tasks[i], p, q, b)
<1>1. /\ t \in Task /\ t.kind = tasks[i].kind /\ t.epoch = tasks[i].epoch /\ t.after = tasks[i].after
      /\ t.pc = p /\ t.path = q /\ t.body = b
  <2>1. tasks[i] \in Task
    OBVIOUS
  <2> QED
    BY <2>1 DEF Task, TaskWith
<1> HIDE DEF t
<1>2. tasks' = [tasks EXCEPT ![i] = t] /\ i \in 1..Len(tasks) /\ DOMAIN tasks = 1..Len(tasks)
  BY DEF t, Puts
<1>3. tasks' \in Seq(Task) /\ Len(tasks') = Len(tasks)
      /\ \A j \in 1..Len(tasks) : tasks'[j] = IF j = i THEN t ELSE tasks[j]
  BY <1>1, <1>2, ExceptSeq
<1>4. DOMAIN tasks' = 1..Len(tasks')
  BY <1>3
<1> QED
  BY <1>1, <1>2, <1>3, <1>4 DEF Moves

LEMMA TaskType ==
  ASSUME tasks \in Seq(Task), NEW i \in DOMAIN tasks
  PROVE  /\ tasks[i] \in Task /\ tasks[i].path \in Session /\ tasks[i].body \in Seq(Line)
         /\ tasks[i].kind \in Kinds /\ tasks[i].pc \in Progress /\ tasks[i].epoch \in 1..MaxEpoch
         /\ tasks[i].after \in 0..MaxTasks /\ i \in 1..Len(tasks) /\ DOMAIN tasks = 1..Len(tasks)
<1>1. tasks[i] \in Task
  OBVIOUS
<1>2. i \in 1..Len(tasks) /\ DOMAIN tasks = 1..Len(tasks)
  OBVIOUS
<1> QED
  BY <1>1, <1>2 DEF Task

LEMMA MoveTo ==
  ASSUME tasks \in Seq(Task), NEW i \in DOMAIN tasks, NEW p \in Progress,
         tasks' = [tasks EXCEPT ![i].pc = p]
  PROVE  tasks' \in Seq(Task) /\ Moves(i, p) /\ tasks'[i].path = tasks[i].path /\ tasks'[i].body = tasks[i].body
<1>1. tasks[i] \in Task /\ tasks[i].path \in Session /\ tasks[i].body \in Seq(Line) /\ p \in Progress
  BY TaskType
<1>2. [tasks[i] EXCEPT !.pc = p] = TaskWith(tasks[i], p, tasks[i].path, tasks[i].body)
  BY <1>1, TaskFields
<1>3. tasks' = [tasks EXCEPT ![i] = [tasks[i] EXCEPT !.pc = p]]
  OBVIOUS
<1>4. Puts(i, p, tasks[i].path, tasks[i].body)
  BY <1>2, <1>3 DEF Puts
<1> QED
  BY ONLY <1>1, <1>4, tasks \in Seq(Task), i \in DOMAIN tasks, SetTask

LEMMA FinishMoves ==
  ASSUME tasks \in Seq(Task), NEW i \in DOMAIN tasks, tasks' = Finished(i)
  PROVE  tasks' \in Seq(Task) /\ Moves(i, "done") /\ tasks'[i].body = << >>
<1>1. /\ tasks[i] \in Task /\ tasks[i].path \in Session /\ << >> \in Seq(Line) /\ "done" \in Progress
  BY TaskType DEF Progress
<1>2. [tasks[i] EXCEPT !.pc = "done"] = TaskWith(tasks[i], "done", tasks[i].path, tasks[i].body)
  BY <1>1, TaskFields
<1>3. [TaskWith(tasks[i], "done", tasks[i].path, tasks[i].body) EXCEPT !.body = << >>]
      = TaskWith(tasks[i], "done", tasks[i].path, << >>)
  BY DEF TaskWith
<1>4. tasks' = [tasks EXCEPT ![i] = [[tasks[i] EXCEPT !.pc = "done"] EXCEPT !.body = << >>]]
  BY DEF Finished
<1>5. Puts(i, "done", tasks[i].path, << >>)
  BY <1>2, <1>3, <1>4 DEF Puts
<1> QED
  BY <1>1, <1>5, SetTask

LEMMA StageMoves ==
  ASSUME tasks \in Seq(Task), NEW i \in DOMAIN tasks, NEW b \in Seq(Line), NEW q \in Session,
         tasks' = [tasks EXCEPT ![i].pc = "staging", ![i].body = b, ![i].path = q]
  PROVE  tasks' \in Seq(Task) /\ Moves(i, "staging") /\ tasks'[i].path = q /\ tasks'[i].body = b
<1>1. tasks[i] \in Task /\ "staging" \in Progress
  BY TaskType DEF Progress
<1>2. [tasks[i] EXCEPT !.pc = "staging"] = TaskWith(tasks[i], "staging", tasks[i].path, tasks[i].body)
  BY <1>1, TaskFields
<1>3. [TaskWith(tasks[i], "staging", tasks[i].path, tasks[i].body) EXCEPT !.body = b]
      = TaskWith(tasks[i], "staging", tasks[i].path, b)
  BY DEF TaskWith
<1>4. [TaskWith(tasks[i], "staging", tasks[i].path, b) EXCEPT !.path = q]
      = TaskWith(tasks[i], "staging", q, b)
  BY DEF TaskWith
<1>5. tasks' = [tasks EXCEPT ![i] = [[[tasks[i] EXCEPT !.pc = "staging"] EXCEPT !.body = b] EXCEPT !.path = q]]
  OBVIOUS
<1>6. Puts(i, "staging", q, b)
  BY <1>2, <1>3, <1>4, <1>5 DEF Puts
<1> QED
  BY <1>1, <1>6, SetTask

\* What scheduling does to the chain.
Adds(kind, body) ==
  /\ Len(tasks') = Len(tasks) + 1 /\ DOMAIN tasks' = DOMAIN tasks \cup {Len(tasks) + 1}
  /\ Len(tasks) + 1 \notin DOMAIN tasks
  /\ \A j \in DOMAIN tasks : tasks'[j] = tasks[j]
  /\ tasks'[Len(tasks) + 1] = [kind |-> kind, epoch |-> epoch, after |-> tail, pc |-> "queued",
                               path |-> sess, body |-> body]
  /\ tail' = Len(tasks) + 1

LEMMA ScheduleAdds ==
  ASSUME Contents, Counts, Work, NEW kind \in Kinds, NEW body \in Seq(Line), Schedule(kind, body)
  PROVE  Work' /\ Adds(kind, body)
<1> DEFINE t == [kind |-> kind, epoch |-> epoch, after |-> tail, pc |-> "queued", path |-> sess, body |-> body]
<1>1. tasks \in Seq(Task) /\ tail \in 0..Len(tasks) /\ Len(tasks) < MaxTasks /\ Len(tasks) \in Nat
      /\ MaxTasks \in Nat
  BY BoundsAssumption DEF Work, Schedule
<1>2. t \in Task
  <2>1. tail \in 0..MaxTasks /\ epoch \in 1..MaxEpoch /\ sess \in Session /\ "queued" \in Progress
    BY <1>1 DEF Counts, Contents, Progress
  <2> QED
    BY <2>1 DEF Task
<1>3. tasks' = Append(tasks, t) /\ tail' = Len(tasks) + 1
  BY DEF Schedule
<1> HIDE DEF t
<1>4. /\ tasks' \in Seq(Task) /\ Len(tasks') = Len(tasks) + 1
      /\ \A j \in 1..Len(tasks) : tasks'[j] = tasks[j]
      /\ tasks'[Len(tasks) + 1] = t
  BY <1>1, <1>2, <1>3
<1>5. DOMAIN tasks' = DOMAIN tasks \cup {Len(tasks) + 1} /\ DOMAIN tasks = 1..Len(tasks)
  BY <1>1, <1>4
<1>6. Work'
  BY <1>1, <1>3, <1>4 DEF Work
<1>7. Adds(kind, body)
  BY <1>1, <1>3, <1>4, <1>5 DEF Adds, t
<1> QED
  BY <1>6, <1>7

\* Where a task may go.
LEMMA StagesMove ==
  ASSUME Stages, NEW i \in DOMAIN tasks, NEW p, Moves(i, p), p # "queued",
         tasks[i].kind = "rewrite" => p # "appended",
         tasks[i].kind = "flush" => p = "done",
         tasks[i].kind \in {"close", "drain"} => p \in {"closing", "done"},
         p = "staging" => tasks'[i].body # << >> /\ Sheet(tasks'[i].body)
  PROVE  Stages'
<1> SUFFICES ASSUME NEW j \in DOMAIN tasks
             PROVE  /\ tasks'[j].kind = "rewrite" => tasks'[j].pc # "appended"
                    /\ tasks'[j].kind = "flush" => tasks'[j].pc \in {"queued", "done"}
                    /\ tasks'[j].kind \in {"close", "drain"} => tasks'[j].pc \in {"queued", "closing", "done"}
                    /\ tasks'[j].kind = "title" /\ tasks'[j].pc = "queued"
                         => tasks'[j].body # << >> /\ tasks'[j].body[1] \in Entry
                    /\ tasks'[j].pc = "staging" => tasks'[j].body # << >> /\ Sheet(tasks'[j].body)
  BY DEF Stages, Moves, Sheet
<1>1. CASE j = i
  BY <1>1 DEF Moves
<1>2. CASE j # i
  <2>1. tasks'[j] = tasks[j]
    BY <1>2 DEF Moves
  <2> QED
    BY <2>1 DEF Stages
<1> QED
  BY <1>1, <1>2

LEMMA StagesAdd ==
  ASSUME Stages, NEW kind, NEW body, Adds(kind, body), kind = "title" => body # << >> /\ body[1] \in Entry
  PROVE  Stages'
<1> SUFFICES ASSUME NEW j \in DOMAIN tasks \cup {Len(tasks) + 1}
             PROVE  /\ tasks'[j].kind = "rewrite" => tasks'[j].pc # "appended"
                    /\ tasks'[j].kind = "flush" => tasks'[j].pc \in {"queued", "done"}
                    /\ tasks'[j].kind \in {"close", "drain"} => tasks'[j].pc \in {"queued", "closing", "done"}
                    /\ tasks'[j].kind = "title" /\ tasks'[j].pc = "queued"
                         => tasks'[j].body # << >> /\ tasks'[j].body[1] \in Entry
                    /\ tasks'[j].pc = "staging" => tasks'[j].body # << >> /\ Sheet(tasks'[j].body)
  BY DEF Stages, Adds, Sheet
<1>1. CASE j = Len(tasks) + 1
  BY <1>1 DEF Adds
<1>2. CASE j \in DOMAIN tasks
  <2>1. tasks'[j] = tasks[j]
    BY <1>2 DEF Adds
  <2> QED
    BY <1>2, <2>1 DEF Stages
<1> QED
  BY <1>1, <1>2

\* Work of an ordinary session, and work that is done, leave a change of
\* session alone.
LEMMA PhasesMove ==
  ASSUME NEW i \in DOMAIN tasks, NEW p, Moves(i, p), tasks[i].pc # "done", tasks[i].kind # "drain",
         UNCHANGED <<phase, sess, owner>>
  PROVE  PhasesKept /\ (Phases => phase = "idle")
<1>1. Phases => phase = "idle"
  BY DEF Phases
<1>2. \A j \in DOMAIN tasks' : tasks'[j].kind = "drain" => tasks'[j] = tasks[j] /\ j \in DOMAIN tasks
  BY DEF Moves
<1> QED
  BY <1>1, <1>2 DEF Phases, PhasesKept

LEMMA PhasesAdd ==
  ASSUME Calm => phase = "idle", NEW kind, NEW body, Adds(kind, body), kind # "drain",
         UNCHANGED <<phase, sess, owner>>
  PROVE  PhasesKept
<1>1. \A j \in DOMAIN tasks' : tasks'[j].kind = "drain" => tasks'[j] = tasks[j] /\ j \in DOMAIN tasks
  BY DEF Adds
<1> QED
  BY <1>1 DEF Phases, PhasesKept

LEMMA PhasesIdle ==
  ASSUME Calm => phase = "idle", UNCHANGED <<phase, sess, owner, tasks>>
  PROVE  PhasesKept
BY DEF Phases, PhasesKept

\* A caller that is not stray finds the session at rest.
LEMMA InTurn ==
  ASSUME NEW E, Note(OutOfTurn \cup E) \/ Note(OutOfTurn)
  PROVE  Calm => phase = "idle" /\ "stray" \notin mishaps
BY DEF Note, OutOfTurn, Calm

LEMMA RewriteInTurn ==
  ASSUME NEW m, RewriteSynchronously(m)
  PROVE  Calm => phase = "idle" /\ "stray" \notin mishaps
BY InTurn DEF RewriteSynchronously

LEMMA AppendInTurn ==
  ASSUME NEW e, NEW m, AppendToSessionFile(e, m)
  PROVE  Calm => phase = "idle" /\ "stray" \notin mishaps
BY InTurn, RewriteInTurn DEF AppendToSessionFile, AppendLine

-----------------------------------------------------------------------------
(* Steps on the files.                                                     *)

LEMMA PutFile ==
  ASSUME Sheets, NEW p \in Session, NEW f \in Seq(Line), Sheet(f),
         file' = [file EXCEPT ![p] = f], UNCHANGED backup
  PROVE  Sheets' /\ file'[p] = f /\ (\A s \in Session \ {p} : file'[s] = file[s])
<1>1. file' \in [Session -> Seq(Line)] /\ file'[p] = f /\ \A s \in Session \ {p} : file'[s] = file[s]
  BY DEF Sheets
<1>2. \A s \in Session : Sheet(file'[s])
  BY <1>1 DEF Sheets
<1> QED
  BY <1>1, <1>2 DEF Sheets, Sheet

LEMMA SheetsSame ==
  ASSUME Sheets, UNCHANGED <<file, backup>>
  PROVE  Sheets'
BY DEF Sheets, Sheet

LEMMA RecoverSheets ==
  ASSUME Sheets, file' = Recovered, backup' = [s \in Session |-> IF Exists(s) THEN backup[s] ELSE << >>]
  PROVE  Sheets' /\ \A s \in Session : file'[s] = OnDisk(s)
<1>1. \A s \in Session : OnDisk(s) \in Seq(Line) /\ Sheet(OnDisk(s))
  BY DEF Sheets, OnDisk
<1>2. file' \in [Session -> Seq(Line)] /\ \A s \in Session : file'[s] = OnDisk(s)
  BY <1>1 DEF Recovered
<1>3. backup' \in [Session -> Seq(Line)] /\ \A s \in Session : Sheet(backup'[s])
  BY EmptySheet DEF Sheets
<1>4. \A s \in Session : Sheet(file'[s])
  BY <1>1, <1>2
<1> QED
  BY <1>2, <1>3, <1>4 DEF Sheets, Sheet

LEMMA LandedSheets ==
  ASSUME Sheets, sess \in Session, NEW e \in Entry, file' = Landed(e), UNCHANGED backup
  PROVE  Sheets'
<1>1. CASE writer = "detached" \/ torn[sess]
  BY <1>1, SheetsSame DEF Landed
<1>2. CASE ~(writer = "detached" \/ torn[sess])
  <2>1. file' = [file EXCEPT ![sess] = Append(file[sess], e)]
    BY <1>2 DEF Landed
  <2>2. file[sess] \in Seq(Line) /\ Sheet(file[sess])
    BY DEF Sheets
  <2>3. Append(file[sess], e) \in Seq(Line) /\ Sheet(Append(file[sess], e))
    BY <2>2, AppendToSheet
  <2> QED
    BY <2>1, <2>3, PutFile
<1> QED
  BY <1>1, <1>2

\* #rewriteSynchronously, with what each of its outcomes leaves.
LEMMA RewriteNow ==
  ASSUME Contents, Marks, Sheets, Counts, Work, NEW m \in Seq(Entry), RewriteSynchronously(m),
         UNCHANGED <<forceFileCreation, backup, dirty, tasks, phase, fence, crashes>>
  PROVE  Marks' /\ Sheets' /\ Counts' /\ Work' /\ epoch' = epoch + 1 /\ tail' = 0 /\ writer' = "none"
<1>1. epoch' = epoch + 1 /\ epoch' \in 1..MaxEpoch /\ tail' = 0 /\ writer' = "none" /\ Counts'
  BY BoundsAssumption DEF RewriteSynchronously, Counts
<1>2. Work'
  BY <1>1 DEF Work
<1>3. CASE file' = [file EXCEPT ![sess] = Body(m)] /\ fileIsCurrent' = TRUE /\ rewriteRequired' = FALSE
           /\ diskFailure' = diskFailure
  <2>1. Body(m) \in Seq(Line) /\ Sheet(Body(m)) /\ sess \in Session
    BY BodyType DEF Contents
  <2>2. Sheets'
    BY <1>3, <2>1, PutFile
  <2>3. Marks'
    BY <1>3 DEF Marks
  <2> QED
    BY <1>1, <1>2, <2>2, <2>3
<1>4. CASE diskFailure' = TRUE /\ UNCHANGED <<file, fileIsCurrent, rewriteRequired>>
  <2>1. Sheets'
    BY <1>4, SheetsSame
  <2>2. Marks'
    BY <1>4 DEF Marks
  <2> QED
    BY <1>1, <1>2, <2>1, <2>2
<1>5. CASE CutShort(Body(m)) /\ diskFailure' = TRUE /\ UNCHANGED <<fileIsCurrent, rewriteRequired>>
  <2>1. PICK n \in 1..Len(Body(m)) - 1 : file' = [file EXCEPT ![sess] = SubSeq(Body(m), 1, n)]
    BY <1>5 DEF CutShort
  <2>2. Body(m) \in Seq(Line) /\ Sheet(Body(m)) /\ sess \in Session
    BY BodyType DEF Contents
  <2>3. SubSeq(Body(m), 1, n) \in Seq(Line) /\ Sheet(SubSeq(Body(m), 1, n))
    BY <2>2, SheetBegins
  <2>4. Sheets'
    BY <2>1, <2>2, <2>3, PutFile
  <2>5. Marks'
    BY <1>5 DEF Marks
  <2> QED
    BY <1>1, <1>2, <2>4, <2>5
<1> QED
  BY <1>3, <1>4, <1>5 DEF RewriteSynchronously

-----------------------------------------------------------------------------
(* The types, one action at a time.                                        *)

LEMMA AppendEntryTyped ==
  ASSUME Types, NEW k \in {"user", "assistant"}, AppendEntry(k)
  PROVE  KeepsTypes
<1> DEFINE e == [s |-> owner, n |-> born + 1, k |-> k]
           m == Append(mem, e)
<1>1. Contents /\ Marks /\ Sheets /\ Counts /\ Work /\ Stages
  BY DEF Types, AppendEntry
<1>2. /\ born < MaxEntries /\ mem' = m /\ AppendToSessionFile(e, m) /\ born' = born + 1
      /\ UNCHANGED <<owner, place, backup, fence, tasks, crashes>>
  BY DEF AppendEntry
<1>3. e \in Entry
  <2>1. owner \in Session /\ born \in 0..MaxEntries
    BY <1>1 DEF Contents
  <2> QED
    BY <1>2, <2>1, NewEntry
<1> HIDE DEF e
<1>4. m \in Seq(Entry) /\ sess \in Session
  BY <1>1, <1>3 DEF Contents
<1> HIDE DEF m
<1>5. Contents'
  <2>1. born' \in 0..MaxEntries
    BY <1>1, <1>2, BoundsAssumption DEF Contents
  <2> QED
    BY <1>1, <1>2, <1>4, <2>1 DEF Contents, place
<1>6. Stages' /\ PhasesKept
  BY <1>1, <1>2, PhasesIdle, AppendInTurn DEF Stages, Sheet, place
<1>7. Marks' /\ Sheets' /\ Counts' /\ Work'
  <2>1. CASE UNCHANGED <<flags, diskFailure, file, writer, epoch, dirty, tail>>
    <3>1. Sheets'
      BY <1>1, <1>2, <2>1, SheetsSame
    <3> QED
      BY <1>1, <1>2, <2>1, <3>1 DEF Marks, Counts, Work, flags, place
  <2>2. CASE /\ fileIsCurrent' = FALSE
             /\ UNCHANGED <<rewriteRequired, forceFileCreation, diskFailure, file, writer, epoch, dirty, tail>>
    <3>1. Sheets'
      BY <1>1, <1>2, <2>2, SheetsSame
    <3> QED
      BY <1>1, <1>2, <2>2, <3>1 DEF Marks, Counts, Work, flags, place
  <2>3. CASE /\ fileIsCurrent' = FALSE /\ rewriteRequired' = TRUE /\ dirty' = TRUE
             /\ UNCHANGED <<forceFileCreation, diskFailure, file, writer, epoch, tail>>
    <3>1. Sheets'
      BY <1>1, <1>2, <2>3, SheetsSame
    <3> QED
      BY <1>1, <1>2, <2>3, <3>1 DEF Marks, Counts, Work, flags, place
  <2>4. CASE RewriteSynchronously(m) /\ UNCHANGED <<forceFileCreation, dirty>>
    BY <1>1, <1>2, <1>4, <2>4, RewriteNow DEF place
  <2>5. CASE /\ writer' = Appending
             /\ \/ file' = Landed(e) /\ UNCHANGED diskFailure
                \/ diskFailure' = TRUE /\ UNCHANGED file
             /\ UNCHANGED <<flags, epoch, dirty, tail>>
    <3>1. Sheets'
      BY <1>1, <1>2, <1>3, <1>4, <2>5, SheetsSame, LandedSheets
    <3>2. Marks'
      BY <1>1, <2>5 DEF Marks, flags
    <3>3. Counts'
      BY <1>1, <1>2, <2>5 DEF Counts, Appending, place
    <3>4. Work'
      BY <1>1, <1>2, <2>5 DEF Work
    <3> QED
      BY <3>1, <3>2, <3>3, <3>4
  <2> QED
    BY <1>2, <2>1, <2>2, <2>3, <2>4, <2>5 DEF AppendToSessionFile, AppendLine
<1> QED
  BY <1>5, <1>6, <1>7 DEF KeepsTypes

\* A step that only schedules work, and perhaps changes a flag or what is in
\* memory.
LEMMA SchedulesTyped ==
  ASSUME Types, Calm => phase = "idle", NEW kind \in Kinds \ {"drain"}, NEW body \in Seq(Line), Schedule(kind, body),
         kind = "title" => body # << >> /\ body[1] \in Entry,
         Contents', Marks', UNCHANGED <<owner, place, file, backup, writer, epoch, fence, crashes>>
  PROVE  KeepsTypes
<1>1. Contents /\ Marks /\ Sheets /\ Counts /\ Work /\ Stages /\ kind \in Kinds /\ kind # "drain"
  BY DEF Types
<1>2. Work' /\ Adds(kind, body)
  BY <1>1, ScheduleAdds
<1>3. Stages'
  BY <1>1, <1>2, StagesAdd
<1>4. PhasesKept
  BY <1>1, <1>2, PhasesAdd DEF place
<1>5. Counts' /\ Sheets'
  BY <1>1, SheetsSame DEF disk, Counts, place
<1> QED
  BY <1>2, <1>3, <1>4, <1>5 DEF KeepsTypes

LEMMA LineBodies ==
  /\ << >> \in Seq(Line)
  /\ \A e \in Entry : <<e>> \in Seq(Line) /\ <<e>> # << >> /\ <<e>>[1] \in Entry
  /\ \A m \in Seq(Entry) : m \in Seq(Line)
BY EntryIsLine

LEMMA SetSessionNameTyped ==
  ASSUME Types, SetSessionName
  PROVE  KeepsTypes
<1> DEFINE e == [s |-> owner, n |-> born + 1, k |-> "title"]
           m == Append(mem, e)
           behind == ~fileIsCurrent \/ rewriteRequired \/ ~Exists(sess)
<1>1. Contents /\ Marks /\ Sheets /\ Counts /\ Work /\ Stages
  BY DEF Types, SetSessionName
<1>2. /\ born < MaxEntries /\ mem' = m /\ born' = born + 1
      /\ UNCHANGED <<owner, place, rewriteRequired, forceFileCreation, diskFailure, file, backup, writer, epoch,
                     fencing, crashes>>
      /\ \/ UNCHANGED <<fileIsCurrent, chain>>
         \/ fileIsCurrent' = FALSE /\ UNCHANGED chain
         \/ /\ Schedule("rewrite", << >>) \/ Schedule("title", <<e>>)
            /\ UNCHANGED fileIsCurrent
      /\ Calm => phase = "idle"
  BY InTurn DEF SetSessionName, disk
<1>3. e \in Entry
  <2>1. owner \in Session /\ born \in 0..MaxEntries
    BY <1>1 DEF Contents
  <2> QED
    BY <1>2, <2>1, NewEntry
<1> HIDE DEF e
<1>4. m \in Seq(Entry)
  BY <1>1, <1>3 DEF Contents
<1> HIDE DEF m, behind
<1>5. Contents'
  <2>1. born' \in 0..MaxEntries
    BY <1>1, <1>2, BoundsAssumption DEF Contents
  <2> QED
    BY <1>1, <1>2, <1>4, <2>1 DEF Contents, place
<1>6. Marks'
  BY <1>1, <1>2 DEF Marks, fencing
<1>7. CASE UNCHANGED chain
  <2>1. Work' /\ Stages' /\ PhasesKept /\ Sheets' /\ Counts'
    BY <1>1, <1>2, <1>7, PhasesIdle, SheetsSame DEF Work, Stages, Sheet, Counts, chain, place, fencing
  <2> QED
    BY <1>5, <1>6, <2>1 DEF KeepsTypes
<1>8. CASE Schedule("rewrite", << >>)
  BY <1>1, <1>2, <1>5, <1>6, <1>8, SchedulesTyped, LineBodies DEF Kinds, fencing
<1>9. CASE Schedule("title", <<e>>)
  BY <1>1, <1>2, <1>3, <1>5, <1>6, <1>9, SchedulesTyped, LineBodies DEF Kinds, fencing
<1> QED
  BY <1>2, <1>7, <1>8, <1>9

LEMMA RewriteEntriesTyped ==
  ASSUME Types, RewriteEntries
  PROVE  KeepsTypes
<1>1. Contents /\ Marks
  BY DEF Types, RewriteEntries
<1>2. Contents' /\ Marks'
  BY <1>1 DEF RewriteEntries, Contents, Marks, memory, place, flags, fencing
<1>3. Schedule("rewrite", << >>) /\ UNCHANGED <<owner, place, file, backup, writer, epoch, fence, crashes>>
      /\ (Calm => phase = "idle")
  BY InTurn DEF RewriteEntries, memory, fencing, disk
<1> QED
  BY <1>1, <1>2, <1>3, SchedulesTyped, LineBodies DEF Kinds

LEMMA EnsureOnDiskTyped ==
  ASSUME Types, EnsureOnDisk
  PROVE  KeepsTypes
<1>1. Contents /\ Marks /\ Sheets /\ Counts /\ Work /\ Stages
  BY DEF Types, EnsureOnDisk
<1>2. Contents' /\ Marks'
  BY <1>1 DEF EnsureOnDisk, Contents, Marks, memory, place, fencing
<1>3. UNCHANGED <<owner, place, file, backup, writer, epoch, fence, crashes>> /\ (Calm => phase = "idle")
  BY InTurn DEF EnsureOnDisk, memory, fencing, disk
<1>4. CASE UNCHANGED chain
  <2>1. Work' /\ Stages' /\ PhasesKept /\ Sheets' /\ Counts'
    BY <1>1, <1>3, <1>4, PhasesIdle, SheetsSame DEF Work, Stages, Sheet, Counts, chain, place
  <2> QED
    BY <1>2, <2>1 DEF KeepsTypes
<1>5. CASE Schedule("rewrite", << >>)
  BY <1>1, <1>2, <1>3, <1>5, SchedulesTyped, LineBodies DEF Kinds
<1> QED
  BY <1>4, <1>5 DEF EnsureOnDisk

LEMMA FlushSyncTyped ==
  ASSUME Types, FlushSync
  PROVE  KeepsTypes
<1>1. Contents /\ Marks /\ Sheets /\ Counts /\ Work /\ Stages /\ mem \in Seq(Entry)
  BY DEF Types, Contents
<1>2. RewriteSynchronously(mem)
      /\ UNCHANGED <<mem, owner, born, sess, target, forceFileCreation, backup, dirty, tasks, phase, fence, crashes>>
  BY DEF FlushSync, memory, place, fencing
<1>3. Marks' /\ Sheets' /\ Counts' /\ Work'
  BY <1>1, <1>2, RewriteNow
<1>4. Contents' /\ Stages' /\ PhasesKept
  BY <1>1, <1>2, PhasesIdle, RewriteInTurn DEF Contents, Stages, Sheet
<1> QED
  BY <1>3, <1>4 DEF KeepsTypes

LEMMA BarrierTyped ==
  ASSUME Types, NEW kind \in {"flush", "close"}, Barrier(kind)
  PROVE  KeepsTypes
<1> DEFINE body == IF ShouldHaveFile(mem) THEN mem ELSE << >>
<1>1. Contents /\ Marks
  BY DEF Types, Barrier
<1>2. Contents' /\ Marks'
  BY <1>1 DEF Barrier, Contents, Marks, memory, place, flags, fencing
<1>3. Schedule(kind, body) /\ UNCHANGED <<owner, place, file, backup, writer, epoch, fence, crashes>>
      /\ (Calm => phase = "idle")
  BY InTurn DEF Barrier, memory, fencing, disk
<1>4. body \in Seq(Line)
  BY <1>1, LineBodies DEF Contents
<1> HIDE DEF body
<1>5. kind \in Kinds \ {"drain"} /\ kind # "title"
  BY DEF Kinds
<1> QED
  BY <1>1, <1>2, <1>3, <1>4, <1>5, SchedulesTyped

\* A step of the chain that is not a drain's.
LEMMA StepTyped ==
  ASSUME Types, NEW i \in DOMAIN tasks, NEW p, tasks' \in Seq(Task), Moves(i, p), p # "queued",
         tasks[i].pc # "done", tasks[i].kind # "drain",
         tasks[i].kind = "rewrite" => p # "appended",
         tasks[i].kind = "flush" => p = "done",
         tasks[i].kind = "close" => p \in {"closing", "done"},
         p = "staging" => tasks'[i].body # << >> /\ Sheet(tasks'[i].body),
         Marks', Sheets', Counts', UNCHANGED <<memory, place, tail>>
  PROVE  KeepsTypes
<1>1. Contents /\ Work /\ Stages
  BY DEF Types
<1>2. Contents'
  BY <1>1 DEF Contents, memory, place
<1>3. Work'
  BY <1>1 DEF Work, Moves
<1>4. Stages'
  BY <1>1, StagesMove
<1>5. PhasesKept
  BY <1>1, PhasesMove DEF memory, place
<1> QED
  BY <1>2, <1>3, <1>4, <1>5 DEF KeepsTypes

LEMMA TypesAt ==
  ASSUME Types, NEW i \in DOMAIN tasks
  PROVE  /\ Contents /\ Marks /\ Sheets /\ Counts /\ Work /\ Stages
         /\ tasks \in Seq(Task) /\ tasks[i].epoch \in 1..MaxEpoch /\ epoch \in 1..MaxEpoch /\ fence \in 0..MaxEpoch
         /\ tasks[i].path \in Session /\ tasks[i].body \in Seq(Line) /\ sess \in Session /\ mem \in Seq(Entry)
<1>1. Contents /\ Marks /\ Sheets /\ Counts /\ Work /\ Stages /\ tasks \in Seq(Task)
  BY DEF Types, Work
<1>2. tasks[i].epoch \in 1..MaxEpoch /\ tasks[i].path \in Session /\ tasks[i].body \in Seq(Line)
  BY <1>1, TaskType
<1> QED
  BY <1>1, <1>2 DEF Contents, Counts

LEMMA FinishTyped ==
  ASSUME Types, NEW i \in DOMAIN tasks, tasks' = Finished(i), tasks[i].pc # "done", tasks[i].kind # "drain",
         Marks', Sheets', Counts', UNCHANGED <<memory, place, tail>>
  PROVE  KeepsTypes
<1>1. tasks \in Seq(Task)
  BY TypesAt
<1>2. tasks' \in Seq(Task) /\ Moves(i, "done")
  BY <1>1, FinishMoves
<1> QED
  BY <1>2, StepTyped

LEMMA SkipTyped ==
  ASSUME Types, NEW i \in DOMAIN tasks, Skip(i)
  PROVE  KeepsTypes
<1>1. Marks' /\ Sheets' /\ Counts'
  BY TypesAt, SheetsSame DEF disk, Skip, Marks, Counts, flags, place, fencing
<1>2. /\ tasks' = Finished(i) /\ tasks[i].pc # "done" /\ tasks[i].kind # "drain"
      /\ UNCHANGED <<memory, place, tail>>
  BY DEF Skip, Ready
<1> QED
  BY <1>1, <1>2, FinishTyped

LEMMA RaiseTyped ==
  ASSUME Types, NEW i \in DOMAIN tasks, RaiseFence(i), tasks[i].pc # "done", tasks[i].kind \in {"rewrite", "title"},
         UNCHANGED <<memory, place, flags, diskFailure, disk, epoch, tail, crashes, mishaps>>
  PROVE  KeepsTypes
<1>1. Contents /\ Marks /\ Sheets /\ Counts /\ tasks \in Seq(Task) /\ tasks[i].epoch \in 1..MaxEpoch
  BY TypesAt
<1>2. fence' \in 0..MaxEpoch
  BY <1>1 DEF RaiseFence
<1>3. Marks' /\ Sheets' /\ Counts'
  BY <1>1, <1>2, SheetsSame DEF disk, RaiseFence, Marks, Counts, flags, place
<1>4. tasks' = [tasks EXCEPT ![i].pc = "closing"] /\ "closing" \in Progress
  BY DEF RaiseFence, Progress
<1>5. tasks' \in Seq(Task) /\ Moves(i, "closing")
  BY <1>1, <1>4, MoveTo
<1>6. tasks[i].kind # "drain" /\ tasks[i].kind # "flush" /\ tasks[i].kind # "close"
  OBVIOUS
<1> QED
  BY <1>3, <1>5, <1>6, StepTyped

LEMMA StartRewriteTyped ==
  ASSUME Types, NEW i \in DOMAIN tasks, StartRewrite(i)
  PROVE  KeepsTypes
<1>1. tasks[i].pc # "done" /\ tasks[i].kind \in {"rewrite", "title"}
  BY DEF StartRewrite, Starts, Ready
<1> QED
  BY <1>1, RaiseTyped DEF StartRewrite

LEMMA LowerCounts ==
  ASSUME Types, NEW i \in DOMAIN tasks, LowerFence(i)
  PROVE  fence' \in 0..MaxEpoch
<1>1. fence \in 0..MaxEpoch /\ MaxEpoch \in Nat
  BY TypesAt, BoundsAssumption
<1> QED
  BY <1>1 DEF LowerFence

LEMMA SerializeTyped ==
  ASSUME Types, NEW i \in DOMAIN tasks, Serialize(i)
  PROVE  KeepsTypes
<1>1. Contents /\ Marks /\ Sheets /\ Counts /\ tasks \in Seq(Task) /\ sess \in Session /\ mem \in Seq(Entry)
  BY TypesAt
<1>2. /\ tasks[i].kind \in {"rewrite", "title"} /\ tasks[i].pc = "closing"
      /\ UNCHANGED <<memory, place, flags, diskFailure, disk, writer, epoch, dirty, tail, crashes, mishaps>>
  BY DEF Serialize
<1>3. tasks[i].kind # "drain" /\ tasks[i].kind # "flush" /\ tasks[i].kind # "close"
  BY <1>2
<1>4. Marks' /\ Sheets'
  BY <1>1, <1>2, SheetsSame DEF disk, Marks, flags
<1>5. CASE tasks' = Finished(i) /\ LowerFence(i)
  <2>1. Counts'
    BY <1>1, <1>2, <1>5, LowerCounts DEF Counts, place
  <2> QED
    BY <1>2, <1>3, <1>4, <1>5, <2>1, FinishTyped
<1>6. CASE /\ tasks' = [tasks EXCEPT ![i].pc = "staging", ![i].body = Body(mem), ![i].path = sess]
           /\ UNCHANGED fence
  <2>1. Body(mem) \in Seq(Line) /\ Body(mem) # << >> /\ Sheet(Body(mem))
    BY <1>1, BodyType DEF Contents
  <2>2. tasks' \in Seq(Task) /\ Moves(i, "staging") /\ tasks'[i].body = Body(mem)
    BY <1>1, <1>6, <2>1, StageMoves
  <2>3. Counts'
    BY <1>1, <1>2, <1>6 DEF Counts, place
  <2> QED
    BY <1>2, <1>3, <1>4, <2>1, <2>2, <2>3, StepTyped
<1> QED
  BY <1>5, <1>6 DEF Serialize

LEMMA StagingKind ==
  ASSUME Types, NEW i \in DOMAIN tasks, tasks[i].pc \in {"staging", "published", "appended"}
  PROVE  /\ tasks[i].kind \in {"rewrite", "title"} /\ tasks[i].kind # "drain" /\ tasks[i].kind # "flush"
         /\ tasks[i].kind # "close" /\ tasks[i].pc # "done"
         /\ tasks[i].pc = "appended" => tasks[i].kind = "title"
<1>1. Stages /\ tasks[i].kind \in Kinds
  BY TypesAt, TaskType
<1> QED
  BY <1>1 DEF Stages, Kinds

LEMMA DetachedType ==
  ASSUME Counts, NEW p, writer' = Detached(p)
  PROVE  writer' \in {"none", "open", "detached"}
BY DEF Counts, Detached

LEMMA PublishTyped ==
  ASSUME Types, NEW i \in DOMAIN tasks, Publish(i)
  PROVE  KeepsTypes
<1> DEFINE p == tasks[i].path
<1>1. /\ Contents /\ Marks /\ Sheets /\ Counts /\ Stages /\ tasks \in Seq(Task) /\ p \in Session
      /\ tasks[i].body \in Seq(Line)
  BY TypesAt
<1>2. /\ tasks[i].pc = "staging"
      /\ UNCHANGED <<memory, place, flags, epoch, dirty, tail, crashes, mishaps>>
  BY DEF Publish
<1>3. /\ tasks[i].kind # "drain" /\ tasks[i].kind # "flush" /\ tasks[i].kind # "close" /\ tasks[i].pc # "done"
  BY <1>2, StagingKind
<1>4. ASSUME tasks' = [tasks EXCEPT ![i].pc = "published"] PROVE tasks' \in Seq(Task) /\ Moves(i, "published")
  BY <1>1, <1>4, MoveTo DEF Progress
<1>5. CASE tasks' = [tasks EXCEPT ![i].pc = "published"] /\ UNCHANGED <<disk, writer, diskFailure, fence>>
  <2>1. Marks' /\ Sheets' /\ Counts'
    BY <1>1, <1>2, <1>5, SheetsSame DEF disk, Marks, Counts, flags, place
  <2> QED
    BY <1>2, <1>3, <1>4, <1>5, <2>1, StepTyped
<1>6. CASE /\ file' = [file EXCEPT ![p] = tasks[i].body] /\ writer' = Detached(p)
           /\ tasks' = [tasks EXCEPT ![i].pc = "published"] /\ UNCHANGED <<backup, diskFailure, fence>>
  <2>1. Sheet(tasks[i].body)
    BY <1>1, <1>2 DEF Stages
  <2>2. Sheets'
    BY <1>1, <1>6, <2>1, PutFile
  <2>3. Marks' /\ Counts'
    BY <1>1, <1>2, <1>6, DetachedType DEF Marks, Counts, flags, place
  <2> QED
    BY <1>2, <1>3, <1>4, <1>6, <2>2, <2>3, StepTyped
<1>7. CASE diskFailure' = TRUE /\ tasks' = Finished(i) /\ LowerFence(i) /\ UNCHANGED <<disk, writer>>
  <2>1. Marks' /\ Sheets'
    BY <1>1, <1>2, <1>7, SheetsSame DEF disk, Marks, flags
  <2>2. Counts'
    BY <1>1, <1>2, <1>7, LowerCounts DEF Counts, place
  <2> QED
    BY <1>2, <1>3, <1>7, <2>1, <2>2, FinishTyped
<1>8. CASE /\ file' = [file EXCEPT ![p] = << >>] /\ backup' = [backup EXCEPT ![p] = file[p]]
           /\ writer' = Detached(p) /\ diskFailure' = TRUE /\ tasks' = Finished(i) /\ LowerFence(i)
  <2>1. Sheets'
    <3>1. file' \in [Session -> Seq(Line)] /\ backup' \in [Session -> Seq(Line)]
      BY <1>1, <1>8 DEF Sheets
    <3>2. \A s \in Session : Sheet(file'[s]) /\ Sheet(backup'[s])
      BY <1>1, <1>8, EmptySheet DEF Sheets
    <3> QED
      BY <3>1, <3>2 DEF Sheets, Sheet
  <2>2. Marks'
    BY <1>1, <1>2, <1>8 DEF Marks, flags
  <2>3. Counts'
    BY <1>1, <1>2, <1>8, LowerCounts, DetachedType DEF Counts, place
  <2> QED
    BY <1>2, <1>3, <1>8, <2>1, <2>2, <2>3, FinishTyped
<1> QED
  BY <1>5, <1>6, <1>7, <1>8 DEF Publish

LEMMA PublishedTyped ==
  ASSUME Types, NEW i \in DOMAIN tasks, Published(i)
  PROVE  KeepsTypes
<1>1. Contents /\ Marks /\ Sheets /\ Counts
  BY TypesAt
<1>2. /\ tasks[i].pc = "published"
      /\ UNCHANGED <<memory, place, forceFileCreation, disk, epoch, tail, crashes, mishaps>>
  BY DEF Published
<1>3. /\ tasks[i].kind \in {"rewrite", "title"} /\ tasks[i].kind # "drain" /\ tasks[i].pc # "done"
  BY <1>2, StagingKind
<1>4. Sheets'
  BY <1>1, <1>2, SheetsSame DEF disk
<1>5. CASE tasks' = Finished(i) /\ LowerFence(i) /\ UNCHANGED writer
           /\ fileIsCurrent' \in BOOLEAN /\ rewriteRequired' \in BOOLEAN /\ diskFailure' \in BOOLEAN /\ UNCHANGED dirty
  <2>1. Marks'
    BY <1>1, <1>2, <1>5 DEF Marks
  <2>2. Counts'
    BY <1>1, <1>2, <1>5, LowerCounts DEF Counts, place
  <2> QED
    BY <1>2, <1>3, <1>4, <1>5, <2>1, <2>2, FinishTyped
<1>6. CASE RaiseFence(i) /\ UNCHANGED <<fileIsCurrent, rewriteRequired, diskFailure>>
  BY <1>2, <1>3, <1>6, RaiseTyped DEF flags
<1>7. fileIsCurrent \in BOOLEAN /\ rewriteRequired \in BOOLEAN /\ diskFailure \in BOOLEAN
  BY <1>1 DEF Marks
<1>8. (diskFailure /\ tasks[i].kind # "title") \in BOOLEAN
  OBVIOUS
<1> QED
  BY <1>5, <1>6, <1>7, <1>8 DEF Published

LEMMA StartTitleTyped ==
  ASSUME Types, NEW i \in DOMAIN tasks, StartTitle(i)
  PROVE  KeepsTypes
<1>1. Contents /\ Marks /\ Sheets /\ Counts /\ Stages /\ tasks \in Seq(Task) /\ sess \in Session
  BY TypesAt
<1>2. /\ tasks[i].pc = "queued" /\ tasks[i].kind = "title" /\ writer' = Appending
      /\ \/ file' = Landed(tasks[i].body[1]) /\ UNCHANGED diskFailure
         \/ diskFailure' = TRUE /\ UNCHANGED file
      /\ tasks' = [tasks EXCEPT ![i].pc = "appended"]
      /\ UNCHANGED <<memory, place, flags, backup, epoch, fencing, tail, crashes>>
  BY DEF StartTitle, AppendLine, Starts, Ready
<1>3. tasks' \in Seq(Task) /\ Moves(i, "appended")
  BY <1>1, <1>2, MoveTo DEF Progress
<1>4. tasks[i].body[1] \in Entry
  BY <1>1, <1>2 DEF Stages
<1>5. Sheets'
  BY <1>1, <1>2, <1>4, LandedSheets, SheetsSame
<1>6. Marks'
  BY <1>1, <1>2 DEF Marks, flags, fencing
<1>7. Counts'
  BY <1>1, <1>2 DEF Counts, Appending, fencing, place
<1> QED
  BY <1>2, <1>3, <1>5, <1>6, <1>7, StepTyped

LEMMA FinishTitleTyped ==
  ASSUME Types, NEW i \in DOMAIN tasks, FinishTitle(i)
  PROVE  KeepsTypes
<1>1. Contents /\ Marks /\ Sheets /\ Counts
  BY TypesAt
<1>2. /\ tasks[i].pc = "appended"
      /\ UNCHANGED <<memory, place, rewriteRequired, forceFileCreation, diskFailure, disk, epoch, tail, crashes, mishaps>>
  BY DEF FinishTitle
<1>3. tasks[i].kind \in {"rewrite", "title"} /\ tasks[i].kind # "drain" /\ tasks[i].pc # "done"
  BY <1>2, StagingKind
<1>4. CASE /\ fileIsCurrent' = (fileIsCurrent \/ tasks[i].epoch = epoch)
           /\ tasks' = Finished(i) /\ UNCHANGED <<fencing, writer>>
  <2>1. Marks' /\ Sheets' /\ Counts'
    BY <1>1, <1>2, <1>4, SheetsSame DEF disk, Marks, Counts, fencing, place
  <2> QED
    BY <1>2, <1>3, <1>4, <2>1, FinishTyped
<1>5. CASE RaiseFence(i) /\ UNCHANGED fileIsCurrent
  BY <1>2, <1>3, <1>5, RaiseTyped DEF flags
<1> QED
  BY <1>4, <1>5 DEF FinishTitle

LEMMA RunFlushTyped ==
  ASSUME Types, NEW i \in DOMAIN tasks, RunFlush(i)
  PROVE  KeepsTypes
<1>1. Marks' /\ Sheets' /\ Counts'
  BY TypesAt, SheetsSame DEF disk, RunFlush, Marks, Counts, flags, place, fencing
<1>2. /\ tasks' = Finished(i) /\ tasks[i].pc # "done" /\ tasks[i].kind # "drain"
      /\ UNCHANGED <<memory, place, tail>>
  BY DEF RunFlush, Starts, Ready
<1> QED
  BY <1>1, <1>2, FinishTyped

LEMMA StartCloseTyped ==
  ASSUME Types, NEW i \in DOMAIN tasks, StartClose(i)
  PROVE  KeepsTypes
<1>1. Contents /\ Marks /\ Sheets /\ Counts /\ tasks \in Seq(Task)
  BY TypesAt
<1>2. /\ tasks[i].pc = "queued" /\ tasks[i].kind = "close" /\ writer' = "none"
      /\ tasks' = [tasks EXCEPT ![i].pc = "closing"]
      /\ UNCHANGED <<memory, place, flags, diskFailure, disk, epoch, fencing, tail, crashes, mishaps>>
  BY DEF StartClose, Starts, Ready
<1>3. tasks' \in Seq(Task) /\ Moves(i, "closing")
  BY <1>1, <1>2, MoveTo DEF Progress
<1>4. Marks' /\ Sheets' /\ Counts'
  BY <1>1, <1>2, SheetsSame DEF disk, Marks, Counts, flags, place, fencing
<1> QED
  BY <1>2, <1>3, <1>4, StepTyped

LEMMA FinishCloseTyped ==
  ASSUME Types, NEW i \in DOMAIN tasks, FinishClose(i)
  PROVE  KeepsTypes
<1>1. Marks' /\ Sheets' /\ Counts'
  BY TypesAt, SheetsSame DEF disk, FinishClose, Marks, Counts, place, fencing
<1>2. /\ tasks' = Finished(i) /\ tasks[i].pc # "done" /\ tasks[i].kind # "drain"
      /\ UNCHANGED <<memory, place, tail>>
  BY DEF FinishClose
<1> QED
  BY <1>1, <1>2, FinishTyped

\* The session may change once everything before the drain is done.
LEMMA SwitchTyped ==
  ASSUME Types, NEW s \in Session, Switch(s), Sheets',
         (file'[s] = << >> /\ backup'[s] = << >> /\ s # owner) \/ file'[s] # << >>
  PROVE  KeepsTypes
<1>1. Contents /\ Marks /\ Counts /\ Work /\ Stages
  BY DEF Types
<1>2. /\ phase = "idle" /\ (Calm => ~diskFailure /\ \A i \in DOMAIN tasks : tasks[i].pc = "done")
      /\ Schedule("drain", << >>) /\ phase' = "draining" /\ target' = s
      /\ UNCHANGED <<memory, sess, flags, diskFailure, writer, epoch, fencing, crashes>>
  BY DEF Switch, Flushed, Note, Calm
<1>3. Contents' /\ Marks' /\ Counts'
  BY <1>1, <1>2 DEF Contents, Marks, Counts, memory, flags, fencing
<1>4. Work' /\ Adds("drain", << >>)
  BY <1>1, <1>2, ScheduleAdds, LineBodies DEF Kinds
<1>5. Stages'
  BY <1>1, <1>4, StagesAdd
<1>6. PhasesKept
  <2> SUFFICES ASSUME Phases, Calm PROVE Phases'
    BY DEF PhasesKept
  <2> DEFINE n == Len(tasks) + 1
  <2>1. /\ Len(tasks') = n /\ DOMAIN tasks' = DOMAIN tasks \cup {n}
        /\ \A j \in DOMAIN tasks : tasks'[j].pc = "done"
        /\ tasks'[n].kind = "drain" /\ tasks'[n].epoch = epoch
    BY <1>2, <1>4 DEF Adds
  <2> HIDE DEF n
  <2>2. \A i \in DOMAIN tasks' : tasks'[i].pc # "done" =>
          i = Len(tasks') /\ tasks'[i].kind = "drain" /\ tasks'[i].epoch = epoch'
    BY <1>2, <2>1
  <2>3. owner' = sess' /\ ~diskFailure' /\ target' = s /\ owner' = owner
    BY <1>1, <1>2 DEF Phases, memory
  <2>4. (OnDisk(target)' = << >> /\ target' # owner') \/ Exists(target)'
    BY <2>3 DEF OnDisk, Exists
  <2> QED
    BY <1>2, <2>2, <2>3, <2>4 DEF Phases
<1> QED
  BY <1>3, <1>4, <1>5, <1>6 DEF KeepsTypes

LEMMA NewSessionTyped ==
  ASSUME Types, NewSession
  PROVE  KeepsTypes
<1>1. PICK s \in Session : Unused(s) /\ Switch(s)
  BY DEF NewSession
<1>2. Sheets /\ UNCHANGED disk
  BY DEF NewSession, Types
<1>3. Sheets'
  BY <1>2, SheetsSame DEF disk
<1>4. file[s] = << >> /\ backup[s] = << >> /\ s # owner
  BY <1>1 DEF Unused, OnDisk, Exists
<1>5. file'[s] = << >> /\ backup'[s] = << >>
  BY <1>2, <1>4 DEF disk
<1> QED
  BY <1>1, <1>3, <1>4, <1>5, SwitchTyped

LEMMA SetSessionFileTyped ==
  ASSUME Types, SetSessionFile
  PROVE  KeepsTypes
<1>1. PICK s \in Session : OnDisk(s) # << >> /\ Switch(s)
  BY DEF SetSessionFile
<1>2. Sheets' /\ file'[s] = OnDisk(s)
  BY RecoverSheets DEF SetSessionFile, Types
<1> QED
  BY <1>1, <1>2, SwitchTyped

LEMMA StartDrainTyped ==
  ASSUME Types, NEW i \in DOMAIN tasks, StartDrain(i)
  PROVE  KeepsTypes
<1>1. Contents /\ Marks /\ Sheets /\ Counts /\ Work /\ Stages /\ tasks \in Seq(Task)
  BY TypesAt
<1>2. /\ tasks[i].pc = "queued" /\ tasks[i].kind = "drain" /\ writer' = "none"
      /\ tasks' = [tasks EXCEPT ![i].pc = "closing"]
      /\ UNCHANGED <<memory, place, flags, diskFailure, disk, epoch, fencing, tail, crashes, mishaps>>
  BY DEF StartDrain, Ready
<1>3. tasks' \in Seq(Task) /\ Moves(i, "closing")
  BY <1>1, <1>2, MoveTo DEF Progress
<1>4. Contents' /\ Marks' /\ Sheets' /\ Counts'
  BY <1>1, <1>2, SheetsSame DEF disk, Contents, Marks, Counts, memory, flags, place, fencing
<1>5. Work' /\ Stages'
  BY <1>1, <1>2, <1>3, StagesMove DEF Work, Moves
<1>6. PhasesKept
  <2>1. /\ DOMAIN tasks' = DOMAIN tasks /\ Len(tasks') = Len(tasks)
        /\ \A j \in DOMAIN tasks : tasks'[j].kind = tasks[j].kind /\ tasks'[j].epoch = tasks[j].epoch
             /\ (tasks'[j].pc # "done" => tasks[j].pc # "done")
    BY <1>2, <1>3 DEF Moves
  <2>2. UNCHANGED <<phase, epoch, owner, sess, target, diskFailure, file, backup>>
    BY <1>2 DEF memory, place, disk
  <2>3. OnDisk(target)' = OnDisk(target) /\ Exists(target)' = Exists(target) /\ Exists(sess)' = Exists(sess)
    BY <2>2 DEF OnDisk, Exists
  <2> QED
    BY <1>1, <2>1, <2>2, <2>3 DEF Phases, PhasesKept
<1> QED
  BY <1>4, <1>5, <1>6 DEF KeepsTypes

\* The drain is the last work of the session it ends.
LEMMA DrainIsLast ==
  ASSUME Phases, NEW i \in DOMAIN tasks, FinishDrain(i)
  PROVE  phase = "draining" /\ \A j \in DOMAIN tasks : j # i => tasks[j].pc = "done"
<1>1. Phases /\ tasks[i].kind = "drain" /\ tasks[i].pc = "closing"
  BY DEF FinishDrain
<1> QED
  BY <1>1 DEF Phases

LEMMA FinishDrainTyped ==
  ASSUME Types, NEW i \in DOMAIN tasks, FinishDrain(i)
  PROVE  KeepsTypes /\ (Phases => \A j \in DOMAIN tasks' : tasks'[j].pc = "done")
<1>1. Contents /\ Marks /\ Sheets /\ Counts /\ Work /\ Stages /\ tasks \in Seq(Task)
  BY TypesAt
<1>2. /\ tasks[i].pc = "closing" /\ tasks[i].kind = "drain" /\ writer' = "none" /\ tail' = 0
      /\ diskFailure' = FALSE /\ sess' = target /\ tasks' = Finished(i)
      /\ UNCHANGED <<born, target, disk, epoch, fencing, crashes, mishaps>>
  BY DEF FinishDrain
<1>3. \/ Exists(target) /\ phase' = "loading" /\ UNCHANGED <<owner, mem, flags>>
      \/ ~Exists(target) /\ phase' = "idle" /\ Reset(target) /\ forceFileCreation' = FALSE
  BY DEF FinishDrain
<1>4. tasks' \in Seq(Task) /\ Moves(i, "done")
  BY <1>1, <1>2, FinishMoves
<1>5. Sheets' /\ Contents' /\ Marks' /\ Counts'
  <2>1. Sheets'
    BY <1>1, <1>2, SheetsSame DEF disk
  <2>2. Contents'
    <3>1. (owner' = owner /\ mem' = mem) \/ (owner' = target /\ mem' = << >>)
      BY <1>3 DEF Reset
    <3>2. born' = born /\ target' = target /\ sess' = target /\ << >> \in Seq(Entry)
      BY <1>2
    <3> QED
      BY <1>1, <3>1, <3>2 DEF Contents
  <2>3. Marks'
    BY <1>1, <1>2, <1>3 DEF Marks, flags, Reset, fencing
  <2>4. Counts'
    BY <1>1, <1>2, <1>3 DEF Counts, fencing
  <2> QED
    BY <2>1, <2>2, <2>3, <2>4
<1>6. Work' /\ Stages'
  BY <1>1, <1>2, <1>4, StagesMove DEF Work, Moves
<1>7. Phases => \A j \in DOMAIN tasks' : tasks'[j].pc = "done"
  BY <1>4, DrainIsLast DEF Moves
<1>8. PhasesKept
  <2>1. phase' = "loading" => Exists(target)
    BY <1>3
  <2>2. phase' # "loading" => owner' = target
    BY <1>3 DEF Reset
  <2>3. Exists(sess)' = Exists(target)
    BY <1>2 DEF Exists, disk
  <2>4. phase' # "draining"
    BY <1>3
  <2> QED
    BY <1>2, <1>7, <2>1, <2>2, <2>3, <2>4 DEF Phases, PhasesKept
<1> QED
  BY <1>5, <1>6, <1>7, <1>8 DEF KeepsTypes

LEMMA LoadedType ==
  ASSUME NEW f \in Seq(Line), Sheet(f)
  PROVE  Loaded(f) \in Seq(Entry)
<1>1. CASE Headlined(f)
  BY <1>1, TailOfSheet DEF Loaded, Headlined
<1>2. CASE ~Headlined(f)
  BY <1>2 DEF Loaded
<1> QED
  BY <1>1, <1>2

LEMMA LoadTyped ==
  ASSUME Types, Load
  PROVE  KeepsTypes
<1>1. Contents /\ Marks /\ Sheets /\ Counts /\ Work /\ Stages
  BY DEF Types
<1>2. /\ phase = "loading" /\ phase' = "idle" /\ forceFileCreation' = TRUE
      /\ UNCHANGED <<born, sess, target, disk, writer, epoch, fencing, crashes, mishaps>>
  BY DEF Load
<1>3. /\ sess \in Session /\ file[sess] \in Seq(Line) /\ Sheet(file[sess])
      /\ Phases => ~diskFailure /\ \A j \in DOMAIN tasks : tasks[j].pc = "done"
  BY <1>1, <1>2 DEF Contents, Sheets, Phases
<1>4. Sheets' /\ Counts'
  BY <1>1, <1>2, SheetsSame DEF disk, Counts, fencing
<1>5. CASE /\ owner' = sess /\ mem' = Loaded(file[sess]) /\ fileIsCurrent' = TRUE /\ rewriteRequired' = FALSE
           /\ UNCHANGED <<chain, diskFailure>>
  <2>1. Contents'
    BY <1>1, <1>2, <1>3, <1>5, LoadedType DEF Contents
  <2>2. Marks'
    BY <1>1, <1>2, <1>5 DEF Marks, fencing
  <2>3. Work' /\ Stages'
    BY <1>1, <1>5 DEF Work, Stages, Sheet, chain
  <2>4. PhasesKept
    BY <1>2, <1>3, <1>5 DEF Phases, PhasesKept, chain
  <2> QED
    BY <1>4, <2>1, <2>2, <2>3, <2>4 DEF KeepsTypes
<1>6. CASE Reset(sess) /\ diskFailure' = FALSE /\ Schedule("rewrite", << >>)
  <2>1. Contents'
    BY <1>1, <1>2, <1>6 DEF Contents, Reset
  <2>2. Marks'
    BY <1>1, <1>2, <1>6 DEF Marks, Reset, fencing
  <2>3. Work' /\ Adds("rewrite", << >>)
    BY <1>1, <1>6, ScheduleAdds, LineBodies DEF Kinds
  <2>4. Stages'
    BY <1>1, <2>3, StagesAdd
  <2>5. Phases => \A j \in DOMAIN tasks' : tasks'[j].kind = "drain" => tasks'[j].pc = "done"
    BY <1>3, <2>3 DEF Adds
  <2>6. PhasesKept
    BY <1>2, <1>6, <2>5 DEF Phases, PhasesKept, Reset
  <2> QED
    BY <1>4, <2>1, <2>2, <2>3, <2>4, <2>6 DEF KeepsTypes
<1> QED
  BY <1>5, <1>6 DEF Load

LEMMA CrashTyped ==
  ASSUME Types, Crash
  PROVE  KeepsTypes
<1>1. Contents /\ Marks /\ Sheets /\ Counts /\ Work /\ Stages
  BY DEF Types
<1>2. /\ crashes < MaxCrashes /\ crashes' = crashes + 1
      /\ phase' = "idle" /\ fileIsCurrent' = TRUE /\ rewriteRequired' = FALSE /\ forceFileCreation' = TRUE
      /\ diskFailure' = FALSE /\ writer' = "none" /\ epoch' = 1 /\ fence' = 0 /\ dirty' = FALSE
      /\ tasks' = << >> /\ tail' = 0 /\ UNCHANGED born
  BY DEF Crash
<1>3. PICK s \in Session : owner' = s /\ sess' = s /\ target' = s /\ mem' = Loaded(OnDisk(s))
  BY DEF Crash
<1>4. Sheets'
  BY <1>1, RecoverSheets DEF Crash
<1>5. Contents'
  <2>1. OnDisk(s) \in Seq(Line) /\ Sheet(OnDisk(s))
    BY <1>1 DEF Sheets, OnDisk
  <2> QED
    BY <1>1, <1>2, <1>3, <2>1, LoadedType DEF Contents
<1>6. Marks'
  BY <1>2 DEF Marks
<1>7. Counts'
  BY <1>1, <1>2, BoundsAssumption DEF Counts
<1>8. Work'
  BY <1>2, BoundsAssumption DEF Work
<1>9. Stages' /\ PhasesKept
  BY <1>2, <1>3 DEF Stages, Phases, PhasesKept
<1> QED
  BY <1>4, <1>5, <1>6, <1>7, <1>8, <1>9 DEF KeepsTypes

LEMMA InitTyped ==
  ASSUME Init
  PROVE  Typed
<1>1. 1 \in Session /\ 0 \in 0..MaxEntries /\ 1 \in 1..MaxEpoch /\ 0 \in 0..MaxEpoch /\ 0 \in 0..MaxCrashes
  BY BoundsAssumption DEF Session
<1>2. Contents /\ Marks /\ Counts
  <2>1. Contents
    BY <1>1 DEF Init, Contents
  <2>2. Marks
    BY DEF Init, Marks
  <2>3. Counts
    BY <1>1 DEF Init, Counts
  <2> QED
    BY <2>1, <2>2, <2>3
<1>3. Sheets
  BY EmptySheet DEF Init, Sheets
<1>4. Work
  BY BoundsAssumption DEF Init, Work
<1>5. Stages /\ Phases
  BY DEF Init, Stages, Phases
<1>6. Tears /\ Record
  BY DEF Init, Tears, Record
<1> QED
  BY <1>2, <1>3, <1>4, <1>5, <1>6 DEF Typed, Types

LEMMA StutterTyped ==
  ASSUME Types, UNCHANGED vars
  PROVE  KeepsTypes
<1>1. Contents /\ Marks /\ Sheets /\ Counts /\ Work /\ Stages
  BY DEF Types
<1>2. Contents' /\ Marks' /\ Sheets' /\ Counts' /\ Work' /\ Stages'
  BY <1>1, SheetsSame DEF vars, memory, place, flags, disk, fencing, chain, Contents, Marks, Counts, Work, Stages, Sheet
<1>3. UNCHANGED <<phase, tasks, epoch, owner, sess, target, diskFailure, file, backup>>
  BY DEF vars, memory, place, disk, chain
<1>4. PhasesKept
  BY <1>3 DEF Phases, PhasesKept, OnDisk, Exists
<1> QED
  BY <1>2, <1>4 DEF KeepsTypes

\* The last line of a file, and the record of mishaps.
LEMMA NextRecord ==
  ASSUME Types, [Next]_vars
  PROVE  Tears' /\ Record'
<1>1. Tears /\ Record /\ Contents
  BY DEF Types
<1>2. ASSUME NEW E, E \subseteq Mishaps, Note(E) PROVE Record'
  BY <1>1, <1>2 DEF Record, Note, Mishaps
<1>3. OutOfTurn \subseteq Mishaps /\ Refused \subseteq Mishaps /\ Glued \subseteq Mishaps
  BY DEF OutOfTurn, Refused, Glued, Mishaps
<1>4. ASSUME NEW m, RewriteSynchronously(m) PROVE Tears' /\ Record'
  <2>1. Tears'
    BY <1>1, <1>4 DEF RewriteSynchronously, CutShort, Tears
  <2>2. Record'
    BY <1>2, <1>3, <1>4 DEF RewriteSynchronously, Mishaps
  <2> QED
    BY <2>1, <2>2
<1>5. ASSUME NEW e, NEW E, E \subseteq Mishaps, AppendLine(e, E) PROVE Tears' /\ Record'
  <2>1. Tears'
    <3>1. torn' = torn \/ (\E b \in BOOLEAN : torn' = [torn EXCEPT ![sess] = b])
      <4>1. (torn[sess] /\ writer = "detached") \in BOOLEAN
            /\ (torn[sess] \/ (Exists(sess) /\ writer # "detached")) \in BOOLEAN
        OBVIOUS
      <4> QED
        BY <1>5, <4>1 DEF AppendLine
    <3> QED
      BY <1>1, <3>1 DEF Tears
  <2>2. Record'
    BY <1>2, <1>3, <1>5 DEF AppendLine
  <2> QED
    BY <2>1, <2>2
<1>6. ASSUME NEW k, AppendEntry(k) PROVE Tears' /\ Record'
  <2>1. PICK e, m : AppendToSessionFile(e, m)
    BY <1>6 DEF AppendEntry
  <2>2. CASE UNCHANGED torn /\ (Note(OutOfTurn \cup Refused) \/ Note(OutOfTurn))
    BY <1>1, <1>2, <1>3, <2>2 DEF Tears
  <2>3. CASE RewriteSynchronously(m)
    BY <1>4, <2>3
  <2>4. CASE AppendLine(e, OutOfTurn)
    BY <1>3, <1>5, <2>4
  <2> QED
    BY <2>1, <2>2, <2>3, <2>4 DEF AppendToSessionFile
<1>7. CASE Caller
  <2>1. CASE SetSessionName \/ RewriteEntries \/ EnsureOnDisk \/ \E kind \in {"flush", "close"} : Barrier(kind)
    <3>1. UNCHANGED torn
      BY <2>1 DEF SetSessionName, RewriteEntries, EnsureOnDisk, Barrier, disk
    <3>2. (IF ShouldHaveFile(mem) THEN {} ELSE {"early"}) \subseteq Mishaps
      BY DEF Mishaps
    <3>3. Record'
      BY <1>2, <1>3, <2>1, <3>2 DEF SetSessionName, RewriteEntries, EnsureOnDisk, Barrier
    <3> QED
      BY <1>1, <3>1, <3>3 DEF Tears
  <2>2. CASE FlushSync
    BY <1>4, <2>2 DEF FlushSync
  <2>3. ASSUME NEW s, Switch(s) PROVE Record'
    <3>1. (IF Flushed THEN {} ELSE {"stray"}) \subseteq Mishaps
      BY DEF Mishaps
    <3> QED
      BY <1>2, <2>3, <3>1 DEF Switch
  <2>4. CASE NewSession \/ SetSessionFile
    <3>1. UNCHANGED torn
      BY <2>4 DEF NewSession, SetSessionFile, disk
    <3> QED
      BY <1>1, <2>3, <2>4, <3>1 DEF NewSession, SetSessionFile, Tears
  <2> QED
    BY <1>6, <1>7, <2>1, <2>2, <2>4 DEF Caller
<1>8. CASE \E i \in DOMAIN tasks : TaskStep(i)
  <2>1. PICK i \in DOMAIN tasks : TaskStep(i)
    BY <1>8
  <2>2. CASE StartTitle(i)
    BY <1>5, <2>2 DEF StartTitle
  <2>3. CASE Publish(i)
    <3>1. UNCHANGED mishaps /\ (torn' = torn \/ torn' = [torn EXCEPT ![tasks[i].path] = FALSE])
      BY <2>3 DEF Publish, disk
    <3> QED
      BY <1>1, <3>1 DEF Tears, Record
  <2>4. CASE ~StartTitle(i) /\ ~Publish(i)
    <3>1. UNCHANGED <<torn, mishaps>>
      BY <2>1, <2>4 DEF TaskStep, Skip, StartRewrite, Serialize, Published, FinishTitle, RunFlush, StartClose,
         FinishClose, StartDrain, FinishDrain, disk
    <3> QED
      BY <1>1, <3>1 DEF Tears, Record
  <2> QED
    BY <2>2, <2>3, <2>4
<1>9. CASE Load \/ Crash \/ UNCHANGED vars
  <2>1. UNCHANGED <<torn, mishaps>>
    BY <1>9 DEF Load, Crash, vars, disk
  <2> QED
    BY <1>1, <2>1 DEF Tears, Record
<1> QED
  BY <1>7, <1>8, <1>9 DEF Next

LEMMA NextTypes ==
  ASSUME Types, [Next]_vars
  PROVE  Types' /\ PhasesKept
<1>1. KeepsTypes
  <2>1. CASE Caller
    BY <2>1, AppendEntryTyped, SetSessionNameTyped, RewriteEntriesTyped, EnsureOnDiskTyped, FlushSyncTyped,
       BarrierTyped, NewSessionTyped, SetSessionFileTyped DEF Caller
  <2>2. CASE \E i \in DOMAIN tasks : TaskStep(i)
    BY <2>2, SkipTyped, StartRewriteTyped, SerializeTyped, PublishTyped, PublishedTyped, StartTitleTyped,
       FinishTitleTyped, RunFlushTyped, StartCloseTyped, FinishCloseTyped, StartDrainTyped, FinishDrainTyped
       DEF TaskStep
  <2>3. CASE Load
    BY <2>3, LoadTyped
  <2>4. CASE Crash
    BY <2>4, CrashTyped
  <2>5. CASE UNCHANGED vars
    BY <2>5, StutterTyped
  <2> QED
    BY <2>1, <2>2, <2>3, <2>4, <2>5 DEF Next
<1>2. Tears' /\ Record'
  BY NextRecord
<1> QED
  BY <1>1, <1>2 DEF KeepsTypes, Types

LEMMA NextTyped ==
  ASSUME Typed, [Next]_vars, Calm
  PROVE  Typed'
BY NextTypes DEF Typed, PhasesKept

LEMMA TypedAt ==
  ASSUME Typed, NEW i \in DOMAIN tasks
  PROVE  /\ Contents /\ Marks /\ Sheets /\ Counts /\ Work /\ Stages /\ Phases
         /\ tasks \in Seq(Task) /\ tasks[i].epoch \in 1..MaxEpoch /\ epoch \in 1..MaxEpoch /\ fence \in 0..MaxEpoch
         /\ tasks[i].path \in Session /\ tasks[i].body \in Seq(Line) /\ sess \in Session /\ mem \in Seq(Entry)
<1>1. Types /\ Phases
  BY DEF Typed
<1>2. Contents /\ Marks /\ Sheets /\ Counts /\ Work /\ Stages
  BY <1>1 DEF Types
<1> QED
  BY <1>1, <1>2, TypesAt

-----------------------------------------------------------------------------
(* The chain: work of the present epoch runs in the order it was asked     *)
(* for, one at a time.                                                     *)

Current(i) == tasks[i].epoch = epoch

Linked ==
  /\ \A i \in DOMAIN tasks : tasks[i].after < i /\ tasks[i].epoch <= epoch
  /\ \A i \in DOMAIN tasks : tasks[i].after # 0 => tasks[tasks[i].after].epoch = tasks[i].epoch
  /\ tail # 0 => tasks[tail].epoch = epoch
Lined ==
  /\ \A i \in DOMAIN tasks : Current(i) /\ tasks[i].pc # "done" => i <= tail
  /\ \A i, j \in DOMAIN tasks : i < j /\ Current(i) /\ Current(j) =>
       /\ tasks[j].pc # "queued" => tasks[i].pc = "done"
       /\ tasks[i].pc # "done" => i <= tasks[j].after
Chain == Linked /\ Lined

\* What kind of number everything is.
LEMMA ChainNumbers ==
  ASSUME Typed
  PROVE  /\ tail \in Nat /\ epoch \in Nat /\ Len(tasks) \in Nat /\ tail \in 0..Len(tasks) /\ DOMAIN tasks = 1..Len(tasks)
         /\ \A i \in DOMAIN tasks : tasks[i].after \in Nat /\ tasks[i].epoch \in Nat
<1>1. Counts /\ Work
  BY DEF Typed, Types
<1>2. Len(tasks) \in Nat /\ DOMAIN tasks = 1..Len(tasks) /\ tail \in 0..Len(tasks) /\ epoch \in 1..MaxEpoch
  BY <1>1 DEF Work, Counts
<1>3. \A i \in DOMAIN tasks : tasks[i].after \in 0..MaxTasks /\ tasks[i].epoch \in 1..MaxEpoch
  BY <1>1, TaskType DEF Work
<1> QED
  BY <1>2, <1>3

LEMMA ChainSame ==
  ASSUME Chain, UNCHANGED <<tasks, tail, epoch>>
  PROVE  Chain'
BY DEF Chain, Linked, Lined, Current

LEMMA ChainAdds ==
  ASSUME Typed, Chain, NEW kind, NEW body, Adds(kind, body), UNCHANGED epoch
  PROVE  Chain'
<1> DEFINE n == Len(tasks) + 1
<1>1. /\ tail \in Nat /\ epoch \in Nat /\ Len(tasks) \in Nat /\ tail \in 0..Len(tasks) /\ DOMAIN tasks = 1..Len(tasks)
      /\ \A i \in DOMAIN tasks : tasks[i].after \in Nat /\ tasks[i].epoch \in Nat
  BY ChainNumbers
<1>2. /\ DOMAIN tasks' = DOMAIN tasks \cup {n} /\ \A j \in DOMAIN tasks : tasks'[j] = tasks[j]
      /\ tasks'[n].epoch = epoch /\ tasks'[n].after = tail /\ tasks'[n].pc = "queued" /\ tail' = n
  BY DEF Adds
<1>3. n \in Nat /\ tail < n /\ n # 0 /\ \A j \in DOMAIN tasks : j < n /\ j # n
  BY <1>1
<1>4. tail # 0 => tail \in DOMAIN tasks
  BY <1>1
<1>5. \A i \in DOMAIN tasks : tasks[i].after # 0 => tasks[i].after \in DOMAIN tasks
  BY <1>1 DEF Chain, Linked
<1> HIDE DEF n
<1>6. Linked'
  <2>1. \A i \in DOMAIN tasks' : tasks'[i].after < i /\ tasks'[i].epoch <= epoch'
    BY <1>1, <1>2, <1>3 DEF Chain, Linked
  <2>2. \A i \in DOMAIN tasks' : tasks'[i].after # 0 => tasks'[tasks'[i].after].epoch = tasks'[i].epoch
    <3>1. ASSUME NEW i \in DOMAIN tasks, tasks'[i].after # 0
          PROVE  tasks'[tasks'[i].after].epoch = tasks'[i].epoch
      BY <1>2, <1>5, <3>1 DEF Chain, Linked
    <3>2. tasks'[n].after # 0 => tasks'[tasks'[n].after].epoch = tasks'[n].epoch
      BY <1>2, <1>4 DEF Chain, Linked
    <3> QED
      BY <1>2, <3>1, <3>2
  <2>3. tail' # 0 => tasks'[tail'].epoch = epoch'
    BY <1>2
  <2> QED
    BY <2>1, <2>2, <2>3 DEF Linked
<1>7. Lined'
  <2>1. \A i \in DOMAIN tasks' : i <= tail'
    BY <1>1, <1>2, <1>3
  <2>2. ASSUME NEW i \in DOMAIN tasks', NEW j \in DOMAIN tasks', i < j, Current(i)', Current(j)'
        PROVE  (tasks'[j].pc # "queued" => tasks'[i].pc = "done") /\ (tasks'[i].pc # "done" => i <= tasks'[j].after)
    <3>1. i \in DOMAIN tasks /\ tasks'[i] = tasks[i] /\ Current(i)
      BY <1>1, <1>2, <1>3, <2>2 DEF Current
    <3>2. CASE j = n
      BY <1>2, <3>1, <3>2 DEF Chain, Lined
    <3>3. CASE j # n
      <4>1. j \in DOMAIN tasks /\ tasks'[j] = tasks[j] /\ Current(j)
        BY <1>2, <2>2, <3>3 DEF Current
      <4> QED
        BY <2>2, <3>1, <4>1 DEF Chain, Lined
    <3> QED
      BY <3>2, <3>3
  <2> QED
    BY <2>1, <2>2 DEF Lined
<1> QED
  BY <1>6, <1>7 DEF Chain

\* Work of the present epoch starts only when everything before it is done.
LEMMA ReadyIsNext ==
  ASSUME Typed, Chain, NEW i \in DOMAIN tasks, Ready(i), Current(i),
         NEW j \in DOMAIN tasks, Current(j), j < i
  PROVE  tasks[j].pc = "done"
<1> DEFINE a == tasks[i].after
<1>1. j \in Nat /\ i \in Nat /\ j # 0 /\ a \in Nat /\ a < i /\ DOMAIN tasks = 1..Len(tasks) /\ Len(tasks) \in Nat
  BY ChainNumbers DEF Chain, Linked
<1> SUFFICES ASSUME tasks[j].pc # "done" PROVE FALSE
  OBVIOUS
<1>2. j <= a
  BY DEF Chain, Lined
<1>3. a \in DOMAIN tasks /\ a # 0
  BY <1>1, <1>2
<1>4. tasks[a].pc = "done" /\ Current(a)
  BY <1>3 DEF Ready, Chain, Linked, Current
<1>5. j < a
  <2>1. j # a
    BY <1>4
  <2> QED
    BY <1>1, <1>2, <2>1
<1> QED
  BY <1>3, <1>4, <1>5 DEF Chain, Lined

LEMMA ChainMoves ==
  ASSUME Typed, Chain, NEW i \in DOMAIN tasks, NEW p, Moves(i, p), p # "queued", tasks[i].pc # "done",
         tasks[i].pc = "queued" => Ready(i), UNCHANGED epoch,
         tail' = tail \/ (tail' = 0 /\ \A j \in DOMAIN tasks' : tasks'[j].pc = "done")
  PROVE  Chain'
<1>1. /\ DOMAIN tasks' = DOMAIN tasks
      /\ \A j \in DOMAIN tasks : /\ tasks'[j].after = tasks[j].after /\ tasks'[j].epoch = tasks[j].epoch
                                 /\ Current(j)' <=> Current(j)
                                 /\ tasks'[j].pc # "done" => tasks[j].pc # "done"
      /\ \A j \in DOMAIN tasks : j # i => tasks'[j] = tasks[j]
      /\ tasks'[i].pc = p
  BY DEF Moves, Current
<1>2. /\ tail \in 0..Len(tasks) /\ DOMAIN tasks = 1..Len(tasks) /\ Len(tasks) \in Nat
      /\ \A j \in DOMAIN tasks : tasks[j].after \in Nat
  BY ChainNumbers
<1>3. Linked'
  <2>1. \A j \in DOMAIN tasks : tasks[j].after # 0 => tasks[j].after \in DOMAIN tasks
    BY <1>2 DEF Chain, Linked
  <2>2. tail # 0 => tail \in DOMAIN tasks
    BY <1>2
  <2> QED
    BY <1>1, <2>1, <2>2 DEF Chain, Linked
<1>4. \A j \in DOMAIN tasks' : Current(j)' /\ tasks'[j].pc # "done" => j <= tail'
  BY <1>1 DEF Chain, Lined
<1>5. ASSUME NEW k \in DOMAIN tasks, NEW j \in DOMAIN tasks, k < j, Current(k), Current(j)
      PROVE  (tasks'[j].pc # "queued" => tasks'[k].pc = "done") /\ (tasks'[k].pc # "done" => k <= tasks'[j].after)
  <2>1. tasks'[k].pc # "done" => k <= tasks'[j].after
    BY <1>1, <1>5 DEF Chain, Lined
  <2>2. ASSUME tasks'[j].pc # "queued" PROVE tasks'[k].pc = "done"
    <3>1. tasks[k].pc = "done"
      <4>1. CASE tasks[j].pc # "queued"
        BY <1>5, <4>1 DEF Chain, Lined
      <4>2. CASE tasks[j].pc = "queued"
        <5>1. j = i /\ Ready(j)
          BY <1>1, <2>2, <4>2
        <5> QED
          BY <1>5, <5>1, ReadyIsNext
      <4> QED
        BY <4>1, <4>2
    <3> QED
      BY <1>1, <3>1
  <2> QED
    BY <2>1, <2>2
<1>6. Lined'
  BY <1>1, <1>4, <1>5 DEF Lined
<1> QED
  BY <1>3, <1>6 DEF Chain

LEMMA ChainBumps ==
  ASSUME Typed, Chain, epoch' = epoch + 1, tail' = 0, UNCHANGED tasks
  PROVE  Chain' /\ \A i \in DOMAIN tasks : ~Current(i)'
<1>1. \A i \in DOMAIN tasks : tasks[i].epoch \in Nat /\ tasks[i].epoch <= epoch /\ epoch \in Nat
  BY ChainNumbers DEF Chain, Linked
<1>2. \A i \in DOMAIN tasks : tasks[i].epoch <= epoch' /\ tasks[i].epoch # epoch'
  BY <1>1
<1>3. \A i \in DOMAIN tasks : ~Current(i)'
  BY <1>2 DEF Current
<1>4. Linked'
  BY <1>2 DEF Chain, Linked
<1>5. Lined'
  BY <1>3 DEF Lined
<1> QED
  BY <1>3, <1>4, <1>5 DEF Chain

LEMMA ChainEmpty ==
  ASSUME tasks = << >>, tail = 0
  PROVE  Chain
BY DEF Chain, Linked, Lined

\* At most one piece of work of the present epoch is under way.
LEMMA OneUnderWay ==
  ASSUME Typed, Chain, NEW i \in DOMAIN tasks, NEW j \in DOMAIN tasks, Current(i), Current(j),
         tasks[i].pc # "queued", tasks[i].pc # "done", tasks[j].pc # "done"
  PROVE  i = j \/ (i < j /\ tasks[j].pc = "queued")
<1>1. i \in Nat /\ j \in Nat
  BY ChainNumbers
<1>2. CASE j < i
  BY <1>2 DEF Chain, Lined
<1>3. CASE i < j
  BY <1>3 DEF Chain, Lined
<1> QED
  BY <1>1, <1>2, <1>3

-----------------------------------------------------------------------------
(* The fence: it is up exactly while work of the present epoch rewrites    *)
(* the file, and then no writer is open.                                   *)

Rewriting(i) == tasks[i].kind \in {"rewrite", "title"} /\ tasks[i].pc \in {"closing", "staging", "published"}
Held(i) == Rewriting(i) /\ Current(i)
UpToDate == fileIsCurrent /\ ~rewriteRequired
TitleUnderWay(i) == tasks[i].kind = "title" /\ tasks[i].pc \in {"queued", "appended"}

FenceUp == \A i \in DOMAIN tasks : Held(i) => fence = epoch /\ writer = "none"
FenceDown == fence = epoch => \E i \in DOMAIN tasks : Held(i)
\* A title's line is only asked for when the file is up to date.  It may be
\* behind when the task runs after all: an earlier rewrite is then under way.
TitleWaits == \A i \in DOMAIN tasks : TitleUnderWay(i) /\ Current(i) =>
  UpToDate \/ diskFailure \/ \E j \in DOMAIN tasks : Held(j) /\ j < i
TitleRuns == \A i \in DOMAIN tasks : tasks[i].kind = "title" /\ tasks[i].pc = "appended" => Current(i)

Attached == writer # "detached"
Fences == fence <= epoch /\ FenceUp /\ FenceDown /\ TitleWaits /\ TitleRuns /\ Attached

\* Nothing makes a title's line wait in vain.
Steady == (UpToDate \/ diskFailure => (UpToDate \/ diskFailure)') \/ \A j \in DOMAIN tasks : tasks[j].pc = "done"

LEMMA FenceNumbers ==
  ASSUME Typed
  PROVE  fence \in Nat /\ epoch \in Nat /\ epoch # 0
BY DEF Typed, Types, Counts

LEMMA HeldIsUnderWay ==
  ASSUME NEW i, Held(i)
  PROVE  Current(i) /\ tasks[i].pc # "queued" /\ tasks[i].pc # "done" /\ tasks[i].pc # "appended"
BY DEF Held, Rewriting

LEMMA OneHeld ==
  ASSUME Typed, Chain, NEW i \in DOMAIN tasks, Held(i), NEW j \in DOMAIN tasks, Held(j)
  PROVE  i = j
BY HeldIsUnderWay, OneUnderWay

\* No work moves.
LEMMA FencesKeep ==
  ASSUME Typed, Chain, Fences, UNCHANGED <<tasks, epoch, fence>>,
         UpToDate => UpToDate' \/ fence = epoch, diskFailure => diskFailure',
         writer' = writer \/ (fence # epoch /\ writer' # "detached")
  PROVE  Fences'
<1>1. FenceUp /\ FenceDown /\ TitleWaits /\ TitleRuns /\ fence <= epoch /\ Attached
  BY DEF Fences
<1>2. \A j \in DOMAIN tasks : (Held(j)' <=> Held(j)) /\ (Current(j)' <=> Current(j)) /\ (TitleUnderWay(j)' <=> TitleUnderWay(j))
  BY DEF Held, Rewriting, Current, TitleUnderWay
<1>3. FenceUp' /\ FenceDown' /\ TitleRuns' /\ Attached'
  BY <1>1, <1>2 DEF FenceUp, FenceDown, TitleRuns, Attached
<1>4. TitleWaits'
  <2> SUFFICES ASSUME NEW i \in DOMAIN tasks, TitleUnderWay(i), Current(i), ~UpToDate', ~diskFailure'
               PROVE  \E j \in DOMAIN tasks : Held(j) /\ j < i
    BY <1>2 DEF TitleWaits
  <2>1. CASE fence # epoch
    BY <1>1, <2>1 DEF TitleWaits
  <2>2. CASE fence = epoch
    <3>1. PICK j \in DOMAIN tasks : Held(j)
      BY <1>1, <2>2 DEF FenceDown
    <3>2. tasks[i].pc # "done" /\ ~Held(i)
      BY DEF TitleUnderWay, Held, Rewriting
    <3>3. j < i \/ tasks[i].pc = "queued"
      BY <3>1, <3>2, HeldIsUnderWay, OneUnderWay
    <3>4. j < i
      BY <3>1, <3>2, HeldIsUnderWay, OneUnderWay
    <3> QED
      BY <3>1, <3>4
  <2> QED
    BY <2>1, <2>2
<1> QED
  BY <1>1, <1>3, <1>4 DEF Fences

LEMMA FencesAdd ==
  ASSUME Typed, Fences, NEW kind, NEW body, Adds(kind, body), UNCHANGED <<epoch, fence, writer>>,
         Steady, kind = "title" => UpToDate'
  PROVE  Fences'
<1>0. PICK n : n = Len(tasks) + 1
  OBVIOUS
<1>1. FenceUp /\ FenceDown /\ TitleWaits /\ TitleRuns /\ fence <= epoch /\ Attached
  BY DEF Fences
<1>2. /\ DOMAIN tasks' = DOMAIN tasks \cup {n}
      /\ \A j \in DOMAIN tasks : tasks'[j] = tasks[j]
      /\ tasks'[n].pc = "queued" /\ tasks'[n].kind = kind
  BY <1>0 DEF Adds
<1>3. /\ \A j \in DOMAIN tasks : (Held(j)' <=> Held(j)) /\ (Current(j)' <=> Current(j)) /\ (TitleUnderWay(j)' <=> TitleUnderWay(j))
      /\ ~Held(n)'
  BY <1>2 DEF Held, Rewriting, Current, TitleUnderWay
<1>4. FenceUp' /\ FenceDown' /\ TitleRuns' /\ Attached'
  BY <1>1, <1>2, <1>3 DEF FenceUp, FenceDown, TitleRuns, Attached
<1>5. TitleWaits'
  <2> SUFFICES ASSUME NEW i \in DOMAIN tasks', TitleUnderWay(i)', Current(i)', ~UpToDate', ~diskFailure'
               PROVE  \E j \in DOMAIN tasks' : Held(j)' /\ j < i
    BY DEF TitleWaits
  <2>1. i \in DOMAIN tasks /\ TitleUnderWay(i) /\ Current(i)
    BY <1>2, <1>3 DEF TitleUnderWay
  <2>2. ~UpToDate /\ ~diskFailure
    BY <2>1 DEF Steady, TitleUnderWay
  <2>3. PICK j \in DOMAIN tasks : Held(j) /\ j < i
    BY <1>1, <2>1, <2>2 DEF TitleWaits
  <2> QED
    BY <1>2, <1>3, <2>3
<1> QED
  BY <1>1, <1>4, <1>5 DEF Fences

\* A new epoch: nothing of the old one counts any more.
LEMMA FencesBump ==
  ASSUME Typed, Chain, Fences, ~UpToDate, ~diskFailure, epoch' = epoch + 1, tail' = 0, writer' = "none",
         UNCHANGED <<tasks, fence>>
  PROVE  Fences'
<1>1. FenceUp /\ FenceDown /\ TitleWaits /\ TitleRuns /\ fence <= epoch /\ fence \in Nat /\ epoch \in Nat
  BY FenceNumbers DEF Fences
<1>2. fence' <= epoch' /\ fence' # epoch'
  BY <1>1
<1>3. \A i \in DOMAIN tasks : ~Current(i)'
  BY ChainBumps
<1>4. FenceUp' /\ FenceDown' /\ TitleWaits' /\ Attached'
  BY <1>2, <1>3 DEF FenceUp, FenceDown, TitleWaits, Held, Attached
<1>5. TitleRuns'
  <2> SUFFICES ASSUME NEW i \in DOMAIN tasks, tasks[i].kind = "title", tasks[i].pc = "appended" PROVE FALSE
    BY DEF TitleRuns
  <2>1. Current(i) /\ TitleUnderWay(i)
    BY <1>1 DEF TitleRuns, TitleUnderWay
  <2>2. PICK j \in DOMAIN tasks : Held(j) /\ j < i
    BY <1>1, <2>1 DEF TitleWaits
  <2> QED
    BY <2>1, <2>2, HeldIsUnderWay DEF Chain, Lined
<1> QED
  BY <1>2, <1>4, <1>5 DEF Fences

\* What a move of task i leaves of the others.
LEMMA OthersStay ==
  ASSUME NEW i \in DOMAIN tasks, NEW p, Moves(i, p), UNCHANGED epoch
  PROVE  /\ DOMAIN tasks' = DOMAIN tasks
         /\ \A j \in DOMAIN tasks \ {i} : /\ (Held(j)' <=> Held(j)) /\ tasks'[j] = tasks[j]
                                          /\ (TitleUnderWay(j)' <=> TitleUnderWay(j))
         /\ \A j \in DOMAIN tasks : Current(j)' <=> Current(j)
         /\ tasks'[i].kind = tasks[i].kind /\ tasks'[i].pc = p
BY DEF Moves, Held, Rewriting, Current, TitleUnderWay

\* A move outside a rewrite.
LEMMA FencesMove ==
  ASSUME Typed, Fences, NEW i \in DOMAIN tasks, NEW p, Moves(i, p), UNCHANGED epoch, p # "queued",
         ~Held(i), ~Held(i)', fence' = fence \/ (fence' = 0 /\ fence # epoch),
         p = "appended" => tasks[i].pc = "queued" /\ Current(i),
         writer' = writer \/ writer' = "none" \/ (writer' # "detached" /\ \A j \in DOMAIN tasks : ~Held(j)),
         Steady
  PROVE  Fences'
<1>1. FenceUp /\ FenceDown /\ TitleWaits /\ TitleRuns /\ fence <= epoch /\ Attached
  BY DEF Fences
<1>2. /\ DOMAIN tasks' = DOMAIN tasks
      /\ \A j \in DOMAIN tasks \ {i} : /\ tasks'[j] = tasks[j]
                                       /\ (TitleUnderWay(j)' <=> TitleUnderWay(j))
      /\ \A j \in DOMAIN tasks : (Held(j)' <=> Held(j)) /\ (Current(j)' <=> Current(j))
      /\ tasks'[i].kind = tasks[i].kind /\ tasks'[i].pc = p
  BY OthersStay
<1>3. fence' <= epoch' /\ (fence' = epoch' <=> fence = epoch)
  BY <1>1, FenceNumbers
<1>4. FenceUp' /\ FenceDown' /\ Attached'
  BY <1>1, <1>2, <1>3 DEF FenceUp, FenceDown, Attached
<1>5. TitleRuns'
  BY <1>1, <1>2 DEF TitleRuns
<1>6. TitleWaits'
  <2> SUFFICES ASSUME NEW k \in DOMAIN tasks, TitleUnderWay(k)', Current(k)', ~UpToDate', ~diskFailure'
               PROVE  \E j \in DOMAIN tasks : Held(j) /\ j < k
    BY <1>2 DEF TitleWaits
  <2>1. TitleUnderWay(k) /\ Current(k)
    <3>1. CASE k = i
      <4>1. p = "appended" /\ tasks[i].kind = "title"
        BY <1>2, <3>1 DEF TitleUnderWay
      <4> QED
        BY <3>1, <4>1 DEF TitleUnderWay
    <3>2. CASE k # i
      BY <1>2, <3>2
    <3> QED
      BY <3>1, <3>2
  <2>2. ~UpToDate /\ ~diskFailure
    BY <2>1 DEF Steady, TitleUnderWay
  <2> QED
    BY <1>1, <2>1, <2>2 DEF TitleWaits
<1> QED
  BY <1>3, <1>4, <1>5, <1>6 DEF Fences

\* A rewrite of the present epoch begins, or goes around again.
LEMMA FencesRaise ==
  ASSUME Typed, Fences, NEW i \in DOMAIN tasks, RaiseFence(i), Current(i), tasks[i].pc # "done",
         tasks[i].kind \in {"rewrite", "title"}, UNCHANGED epoch, Steady
  PROVE  Fences'
<1>1. FenceUp /\ FenceDown /\ TitleWaits /\ TitleRuns /\ fence <= epoch /\ Attached /\ tasks \in Seq(Task)
  BY TypedAt DEF Fences
<1>2. Moves(i, "closing") /\ fence' = epoch /\ writer' = "none"
  BY <1>1, MoveTo DEF RaiseFence, Progress, Current
<1>3. /\ DOMAIN tasks' = DOMAIN tasks
      /\ \A j \in DOMAIN tasks \ {i} : /\ (Held(j)' <=> Held(j)) /\ tasks'[j] = tasks[j]
                                       /\ (TitleUnderWay(j)' <=> TitleUnderWay(j))
      /\ \A j \in DOMAIN tasks : Current(j)' <=> Current(j)
      /\ tasks'[i].kind = tasks[i].kind /\ tasks'[i].pc = "closing"
  BY <1>2, OthersStay
<1>4. Held(i)' /\ ~TitleUnderWay(i)'
  BY <1>3 DEF Held, Rewriting, TitleUnderWay
<1>5. FenceUp' /\ FenceDown' /\ Attached' /\ TitleRuns'
  BY <1>1, <1>2, <1>3, <1>4 DEF FenceUp, FenceDown, Attached, TitleRuns
<1>6. TitleWaits'
  <2> SUFFICES ASSUME NEW k \in DOMAIN tasks, TitleUnderWay(k)', Current(k)', ~UpToDate', ~diskFailure'
               PROVE  \E j \in DOMAIN tasks : Held(j)' /\ j < k
    BY <1>3 DEF TitleWaits
  <2>1. TitleUnderWay(k) /\ Current(k)
    BY <1>3, <1>4
  <2>2. ~UpToDate /\ ~diskFailure
    BY <2>1 DEF Steady, TitleUnderWay
  <2>3. PICK j \in DOMAIN tasks : Held(j) /\ j < k
    BY <1>1, <2>1, <2>2 DEF TitleWaits
  <2> QED
    BY <1>3, <1>4, <2>3
<1>7. fence' <= epoch'
  BY <1>2, FenceNumbers
<1> QED
  BY <1>5, <1>6, <1>7 DEF Fences

\* A rewrite goes on.
LEMMA FencesHold ==
  ASSUME Typed, Fences, NEW i \in DOMAIN tasks, NEW p, Moves(i, p), UNCHANGED <<epoch, fence, writer>>,
         Held(i), Held(i)', Steady
  PROVE  Fences'
<1>1. FenceUp /\ FenceDown /\ TitleWaits /\ TitleRuns /\ fence <= epoch /\ Attached
  BY DEF Fences
<1>2. /\ DOMAIN tasks' = DOMAIN tasks
      /\ \A j \in DOMAIN tasks \ {i} : /\ tasks'[j] = tasks[j]
                                       /\ (TitleUnderWay(j)' <=> TitleUnderWay(j))
      /\ \A j \in DOMAIN tasks : (Held(j)' <=> Held(j)) /\ (Current(j)' <=> Current(j))
      /\ tasks'[i].kind = tasks[i].kind /\ tasks'[i].pc = p
  BY OthersStay
<1>3. p # "appended" /\ ~TitleUnderWay(i)'
  BY <1>2, HeldIsUnderWay DEF Held, Rewriting, TitleUnderWay
<1>4. FenceUp' /\ FenceDown' /\ Attached' /\ TitleRuns'
  BY <1>1, <1>2, <1>3 DEF FenceUp, FenceDown, Attached, TitleRuns
<1>5. TitleWaits'
  <2> SUFFICES ASSUME NEW k \in DOMAIN tasks, TitleUnderWay(k)', Current(k)', ~UpToDate', ~diskFailure'
               PROVE  \E j \in DOMAIN tasks : Held(j) /\ j < k
    BY <1>2 DEF TitleWaits
  <2>1. TitleUnderWay(k) /\ Current(k)
    BY <1>2, <1>3
  <2>2. ~UpToDate /\ ~diskFailure
    BY <2>1 DEF Steady, TitleUnderWay
  <2> QED
    BY <1>1, <2>1, <2>2 DEF TitleWaits
<1> QED
  BY <1>1, <1>4, <1>5 DEF Fences

\* A rewrite of the present epoch ends: the file is up to date, or the disk
\* failed.
LEMMA FencesRelease ==
  ASSUME Typed, Chain, Fences, NEW i \in DOMAIN tasks, Moves(i, "done"), UNCHANGED <<epoch, writer>>,
         Held(i), LowerFence(i), (UpToDate \/ diskFailure)'
  PROVE  Fences'
<1>1. FenceUp /\ FenceDown /\ TitleWaits /\ TitleRuns /\ fence <= epoch /\ Attached
  BY DEF Fences
<1>2. /\ DOMAIN tasks' = DOMAIN tasks
      /\ \A j \in DOMAIN tasks \ {i} : /\ (Held(j)' <=> Held(j)) /\ tasks'[j] = tasks[j]
                                       /\ (TitleUnderWay(j)' <=> TitleUnderWay(j))
      /\ \A j \in DOMAIN tasks : Current(j)' <=> Current(j)
      /\ tasks'[i].pc = "done"
  BY OthersStay
<1>3. fence' = 0
  BY <1>1 DEF LowerFence, FenceUp, Held, Current
<1>4. \A j \in DOMAIN tasks : ~Held(j)'
  <2>1. ~Held(i)'
    BY <1>2 DEF Held, Rewriting
  <2> QED
    BY <1>2, <2>1, OneHeld
<1>5. fence' <= epoch' /\ fence' # epoch'
  BY <1>3, FenceNumbers
<1>6. FenceUp' /\ FenceDown' /\ Attached' /\ TitleRuns'
  BY <1>1, <1>2, <1>4, <1>5 DEF FenceUp, FenceDown, Attached, TitleRuns
<1>7. TitleWaits'
  BY DEF TitleWaits
<1> QED
  BY <1>5, <1>6, <1>7 DEF Fences

LEMMA FencesEmpty ==
  ASSUME tasks = << >>, fence = 0, epoch = 1, writer = "none"
  PROVE  Fences
<1>1. FenceUp /\ FenceDown /\ TitleWaits /\ TitleRuns /\ Attached
  BY DEF FenceUp, FenceDown, TitleWaits, TitleRuns, Attached
<1> QED
  BY <1>1 DEF Fences

-----------------------------------------------------------------------------
(* Chain and fence, one action at a time.                                  *)

Ordered == Chain /\ Fences

LEMMA ScheduleOrdered ==
  ASSUME Typed, Ordered, NEW kind \in Kinds, NEW body \in Seq(Line), Schedule(kind, body),
         UNCHANGED <<epoch, fence, writer>>, Steady, kind = "title" => UpToDate'
  PROVE  Ordered'
<1>1. Adds(kind, body)
  BY ScheduleAdds DEF Typed, Types
<1> QED
  BY <1>1, ChainAdds, FencesAdd DEF Ordered

LEMMA RewriteOrdered ==
  ASSUME Typed, Ordered, NEW m, RewriteSynchronously(m), ~diskFailure, ~UpToDate, UNCHANGED <<tasks, fence>>
  PROVE  Ordered'
<1>1. epoch' = epoch + 1 /\ tail' = 0 /\ writer' = "none"
  BY DEF RewriteSynchronously
<1> QED
  BY <1>1, ChainBumps, FencesBump DEF Ordered

LEMMA AppendEntryOrdered ==
  ASSUME Typed, Ordered, NEW k \in {"user", "assistant"}, AppendEntry(k)
  PROVE  Ordered'
<1> DEFINE e == [s |-> owner, n |-> born + 1, k |-> k]
           m == Append(mem, e)
<1>1. AppendToSessionFile(e, m) /\ UNCHANGED <<fence, tasks>>
  BY DEF AppendEntry
<1>2. Chain /\ Fences /\ writer # "detached"
  BY DEF Ordered, Fences, Attached
<1> HIDE DEF e, m
<1>3. CASE diskFailure /\ UNCHANGED <<flags, diskFailure, file, torn, writer, epoch, dirty, tail>>
  BY <1>1, <1>2, <1>3, ChainSame, FencesKeep DEF Ordered, UpToDate, flags
<1>4. CASE /\ ~ShouldHaveFile(m) /\ fileIsCurrent' = FALSE
           /\ UNCHANGED <<rewriteRequired, forceFileCreation, diskFailure, file, torn, writer, epoch, dirty, tail>>
  <2>1. ~UpToDate
    BY <1>4 DEF ShouldHaveFile, UpToDate
  <2> QED
    BY <1>1, <1>2, <1>4, <2>1, ChainSame, FencesKeep DEF Ordered
<1>5. CASE /\ Fenced /\ UNCHANGED <<forceFileCreation, diskFailure, file, torn, writer, epoch, tail>>
  <2>1. fence = epoch
    BY <1>5 DEF Fenced
  <2> QED
    BY <1>1, <1>2, <1>5, <2>1, ChainSame, FencesKeep DEF Ordered
<1>6. CASE ~diskFailure /\ (~fileIsCurrent \/ rewriteRequired) /\ RewriteSynchronously(m)
  <2>1. ~UpToDate
    BY <1>6 DEF UpToDate
  <2> QED
    BY <1>1, <1>6, <2>1, RewriteOrdered
<1>7. CASE /\ ~Fenced /\ writer' = Appending /\ (UNCHANGED diskFailure \/ diskFailure' = TRUE)
           /\ UNCHANGED <<flags, epoch, dirty, tail>>
  <2>1. fence # epoch
    BY <1>7, FenceNumbers DEF Fenced
  <2>2. writer' # "detached" /\ (diskFailure => diskFailure')
    BY <1>2, <1>7 DEF Appending
  <2>3. UpToDate => UpToDate'
    BY <1>7 DEF UpToDate, flags
  <2> QED
    BY <1>1, <1>2, <1>7, <2>1, <2>2, <2>3, ChainSame, FencesKeep DEF Ordered
<1> QED
  BY <1>1, <1>3, <1>4, <1>5, <1>6, <1>7 DEF AppendToSessionFile, AppendLine

LEMMA SetSessionNameOrdered ==
  ASSUME Typed, Ordered, SetSessionName
  PROVE  Ordered'
<1> DEFINE e == [s |-> owner, n |-> born + 1, k |-> "title"]
           m == Append(mem, e)
           behind == ~fileIsCurrent \/ rewriteRequired \/ ~Exists(sess)
<1>1. /\ born < MaxEntries /\ UNCHANGED <<rewriteRequired, diskFailure, writer, epoch, fence>>
      /\ \/ diskFailure /\ UNCHANGED <<fileIsCurrent, chain>>
         \/ ~ShouldHaveFile(m) /\ fileIsCurrent' = FALSE /\ UNCHANGED chain
         \/ /\ IF behind THEN Schedule("rewrite", << >>) ELSE Schedule("title", <<e>>)
            /\ UNCHANGED fileIsCurrent
  BY DEF SetSessionName, fencing
<1>2. e \in Entry
  <2>1. owner \in Session /\ born \in 0..MaxEntries
    BY DEF Typed, Types, Contents
  <2> QED
    BY <1>1, <2>1, NewEntry
<1> HIDE DEF e
<1>3. Chain /\ Fences
  BY DEF Ordered
<1>4. CASE UNCHANGED <<fileIsCurrent, chain>>
  BY <1>1, <1>3, <1>4, ChainSame, FencesKeep DEF Ordered, UpToDate, chain
<1>5. CASE ~ShouldHaveFile(m) /\ fileIsCurrent' = FALSE /\ UNCHANGED chain
  <2>1. ~UpToDate
    BY <1>5 DEF ShouldHaveFile, UpToDate
  <2> QED
    BY <1>1, <1>3, <1>5, <2>1, ChainSame, FencesKeep DEF Ordered, chain
<1>6. CASE Schedule("rewrite", << >>) /\ UNCHANGED fileIsCurrent
  <2>1. Steady
    BY <1>1, <1>6 DEF Steady, UpToDate
  <2> QED
    BY <1>1, <1>6, <2>1, ScheduleOrdered, LineBodies DEF Kinds
<1>7. CASE ~behind /\ Schedule("title", <<e>>) /\ UNCHANGED fileIsCurrent
  <2>1. Steady /\ UpToDate'
    BY <1>1, <1>7 DEF Steady, UpToDate
  <2> QED
    BY <1>1, <1>2, <1>7, <2>1, ScheduleOrdered, LineBodies DEF Kinds
<1> QED
  BY <1>1, <1>4, <1>5, <1>6, <1>7

LEMMA RewriteEntriesOrdered ==
  ASSUME Typed, Ordered, RewriteEntries
  PROVE  Ordered'
<1>1. Schedule("rewrite", << >>) /\ UNCHANGED <<flags, diskFailure, writer, epoch, fence>>
  BY DEF RewriteEntries, fencing
<1>2. Steady
  BY <1>1 DEF Steady, UpToDate, flags
<1> QED
  BY <1>1, <1>2, ScheduleOrdered, LineBodies DEF Kinds

LEMMA EnsureOnDiskOrdered ==
  ASSUME Typed, Ordered, EnsureOnDisk
  PROVE  Ordered'
<1>1. /\ UNCHANGED <<fileIsCurrent, rewriteRequired, diskFailure, writer, epoch, fence>>
      /\ UNCHANGED chain \/ Schedule("rewrite", << >>)
  BY DEF EnsureOnDisk, fencing
<1>2. Steady
  BY <1>1 DEF Steady, UpToDate
<1>3. CASE UNCHANGED chain
  BY <1>1, <1>3, ChainSame, FencesKeep DEF Ordered, UpToDate, chain
<1> QED
  BY <1>1, <1>2, <1>3, ScheduleOrdered, LineBodies DEF Kinds

LEMMA FlushSyncOrdered ==
  ASSUME Typed, Ordered, FlushSync
  PROVE  Ordered'
<1>1. ~diskFailure /\ ~UpToDate /\ RewriteSynchronously(mem) /\ UNCHANGED <<tasks, fence>>
  BY DEF FlushSync, UpToDate, fencing
<1> QED
  BY <1>1, RewriteOrdered

LEMMA BarrierOrdered ==
  ASSUME Typed, Ordered, NEW kind \in {"flush", "close"}, Barrier(kind)
  PROVE  Ordered'
<1> DEFINE body == IF ShouldHaveFile(mem) THEN mem ELSE << >>
<1>1. Schedule(kind, body) /\ UNCHANGED <<flags, diskFailure, writer, epoch, fence>>
  BY DEF Barrier, fencing
<1>2. body \in Seq(Line)
  BY LineBodies DEF Typed, Types, Contents
<1> HIDE DEF body
<1>3. Steady /\ kind \in Kinds /\ kind # "title"
  BY <1>1 DEF Steady, UpToDate, flags, Kinds
<1> QED
  BY <1>1, <1>2, <1>3, ScheduleOrdered

LEMMA SwitchOrdered ==
  ASSUME Typed, Ordered, NEW s, Switch(s)
  PROVE  Ordered'
<1>1. Schedule("drain", << >>) /\ UNCHANGED <<flags, diskFailure, writer, epoch, fence>>
  BY DEF Switch, fencing
<1>2. Steady
  BY <1>1 DEF Steady, UpToDate, flags
<1> QED
  BY <1>1, <1>2, ScheduleOrdered, LineBodies DEF Kinds

\* A step of the chain that is no part of a rewrite.
LEMMA MoveOrdered ==
  ASSUME Typed, Ordered, NEW i \in DOMAIN tasks, NEW p, Moves(i, p), UNCHANGED <<epoch, tail>>, p # "queued",
         tasks[i].pc # "done", tasks[i].pc = "queued" => Ready(i),
         ~Held(i), ~Held(i)', fence' = fence \/ (fence' = 0 /\ fence # epoch),
         p = "appended" => tasks[i].pc = "queued" /\ Current(i),
         writer' = writer \/ writer' = "none" \/ (writer' # "detached" /\ \A j \in DOMAIN tasks : ~Held(j)),
         Steady
  PROVE  Ordered'
<1>1. Chain /\ Fences
  BY DEF Ordered
<1>2. Chain'
  BY <1>1, ChainMoves
<1>3. Fences'
  BY <1>1, FencesMove
<1> QED
  BY <1>2, <1>3 DEF Ordered

LEMMA FinishOrdered ==
  ASSUME Typed, Ordered, NEW i \in DOMAIN tasks, tasks' = Finished(i), UNCHANGED <<epoch, tail>>,
         tasks[i].pc # "done", tasks[i].pc = "queued" => Ready(i), ~Held(i),
         fence' = fence \/ (fence' = 0 /\ fence # epoch),
         writer' = writer \/ writer' = "none", Steady
  PROVE  Ordered'
<1>1. Moves(i, "done")
  BY FinishMoves, TypedAt
<1>2. ~Held(i)'
  BY <1>1 DEF Moves, Held, Rewriting
<1> QED
  BY <1>1, <1>2, MoveOrdered

LEMMA SkipOrdered ==
  ASSUME Typed, Ordered, NEW i \in DOMAIN tasks, Skip(i)
  PROVE  Ordered'
<1>1. /\ Ready(i) /\ tasks[i].pc = "queued" /\ tasks' = Finished(i)
      /\ UNCHANGED <<flags, diskFailure, writer, epoch, fence, tail>>
  BY DEF Skip, Ready, fencing
<1>2. Steady /\ ~Held(i)
  BY <1>1 DEF Steady, UpToDate, flags, Held, Rewriting
<1> QED
  BY <1>1, <1>2, FinishOrdered

LEMMA RaiseOrdered ==
  ASSUME Typed, Ordered, NEW i \in DOMAIN tasks, RaiseFence(i), Current(i), tasks[i].pc # "done",
         tasks[i].pc = "queued" => Ready(i), tasks[i].kind \in {"rewrite", "title"},
         UNCHANGED <<fileIsCurrent, rewriteRequired, diskFailure, epoch, tail>>
  PROVE  Ordered'
<1>1. Chain /\ Fences /\ tasks \in Seq(Task)
  BY TypedAt DEF Ordered
<1>2. Moves(i, "closing")
  BY <1>1, MoveTo DEF RaiseFence, Progress
<1>3. Steady
  BY DEF Steady, UpToDate
<1>4. Chain'
  BY <1>1, <1>2, ChainMoves
<1>5. Fences'
  BY <1>1, <1>3, FencesRaise
<1> QED
  BY <1>4, <1>5 DEF Ordered

LEMMA StartRewriteOrdered ==
  ASSUME Typed, Ordered, NEW i \in DOMAIN tasks, StartRewrite(i)
  PROVE  Ordered'
<1>1. /\ Ready(i) /\ tasks[i].pc = "queued" /\ tasks[i].kind \in {"rewrite", "title"} /\ Current(i) /\ RaiseFence(i)
      /\ UNCHANGED <<fileIsCurrent, rewriteRequired, diskFailure, epoch, tail>>
  BY DEF StartRewrite, Starts, Ready, Current, flags
<1> QED
  BY <1>1, RaiseOrdered

\* A superseded rewrite takes down no fence but its own.
LEMMA LowerOther ==
  ASSUME NEW i \in DOMAIN tasks, LowerFence(i), ~Current(i)
  PROVE  fence' = fence \/ (fence' = 0 /\ fence # epoch)
BY DEF LowerFence, Current

LEMMA SerializeOrdered ==
  ASSUME Typed, Ordered, NEW i \in DOMAIN tasks, Serialize(i)
  PROVE  Ordered'
<1>1. /\ tasks[i].kind \in {"rewrite", "title"} /\ tasks[i].pc = "closing"
      /\ UNCHANGED <<flags, diskFailure, writer, epoch, tail>>
  BY DEF Serialize
<1>2. Steady
  BY <1>1 DEF Steady, UpToDate, flags
<1>3. CASE tasks[i].epoch # epoch /\ tasks' = Finished(i) /\ LowerFence(i)
  <2>1. ~Current(i) /\ ~Held(i)
    BY <1>3 DEF Current, Held
  <2> QED
    BY <1>1, <1>2, <1>3, <2>1, LowerOther, FinishOrdered
<1>4. CASE /\ tasks[i].epoch = epoch /\ UNCHANGED fence
           /\ tasks' = [tasks EXCEPT ![i].pc = "staging", ![i].body = Body(mem), ![i].path = sess]
  <2>1. Chain /\ Fences /\ tasks \in Seq(Task) /\ sess \in Session /\ Body(mem) \in Seq(Line)
    BY TypedAt, BodyType DEF Ordered, Contents
  <2>2. Moves(i, "staging")
    BY <1>4, <2>1, StageMoves
  <2>3. Held(i) /\ Held(i)'
    BY <1>1, <1>4, <2>2 DEF Held, Rewriting, Current, Moves
  <2>4. Chain'
    BY <1>1, <2>1, <2>2, ChainMoves
  <2>5. Fences'
    BY <1>1, <1>2, <1>4, <2>1, <2>2, <2>3, FencesHold
  <2> QED
    BY <2>4, <2>5 DEF Ordered
<1> QED
  BY <1>3, <1>4 DEF Serialize

LEMMA ReleaseOrdered ==
  ASSUME Typed, Ordered, NEW i \in DOMAIN tasks, tasks' = Finished(i), UNCHANGED <<epoch, tail, writer>>,
         Rewriting(i), LowerFence(i), (UpToDate \/ diskFailure)'
  PROVE  Ordered'
<1>1. Chain /\ Fences /\ tasks \in Seq(Task)
  BY TypedAt DEF Ordered
<1>2. Moves(i, "done") /\ tasks[i].pc # "done" /\ tasks[i].pc # "queued"
  BY <1>1, FinishMoves DEF Rewriting
<1>3. CASE Current(i)
  <2>1. Held(i)
    BY <1>3 DEF Held
  <2>2. Fences'
    BY <1>1, <1>2, <2>1, FencesRelease
  <2>3. Chain'
    BY <1>1, <1>2, ChainMoves
  <2> QED
    BY <2>2, <2>3 DEF Ordered
<1>4. CASE ~Current(i)
  <2>1. Steady /\ ~Held(i)
    BY <1>4 DEF Steady, Held
  <2> QED
    BY <1>2, <1>4, <2>1, LowerOther, FinishOrdered
<1> QED
  BY <1>3, <1>4

LEMMA PublishOrdered ==
  ASSUME Typed, Ordered, NEW i \in DOMAIN tasks, Publish(i)
  PROVE  Ordered'
<1>1. Rewriting(i) /\ tasks[i].pc = "staging" /\ UNCHANGED <<flags, epoch, tail>>
  BY StagingKind DEF Typed, Publish, Rewriting
<1>2. Chain /\ Fences /\ tasks \in Seq(Task)
  BY TypedAt DEF Ordered
<1>3. CommitGuard(i) => Held(i) /\ \A p : Detached(p) = writer
  BY <1>1, <1>2 DEF CommitGuard, Held, Current, Fences, FenceUp, Detached
<1>4. ASSUME tasks' = [tasks EXCEPT ![i].pc = "published"] PROVE Moves(i, "published") /\ Chain'
  <2>1. Moves(i, "published")
    BY <1>2, <1>4, MoveTo DEF Progress
  <2> QED
    BY <1>1, <1>2, <2>1, ChainMoves
<1>5. CASE /\ ~CommitGuard(i) /\ tasks' = [tasks EXCEPT ![i].pc = "published"]
           /\ UNCHANGED <<disk, writer, diskFailure, fence>>
  <2>1. Steady /\ ~Held(i)
    BY <1>1, <1>5 DEF Steady, UpToDate, flags, Held, Current, CommitGuard
  <2>2. ~Held(i)'
    BY <1>1, <1>4, <1>5 DEF Held, Current, CommitGuard, Moves
  <2> QED
    BY <1>1, <1>4, <1>5, <2>1, <2>2, MoveOrdered
<1>6. CASE /\ CommitGuard(i) /\ writer' = Detached(tasks[i].path) /\ tasks' = [tasks EXCEPT ![i].pc = "published"]
           /\ UNCHANGED <<diskFailure, fence>>
  <2>1. Steady /\ Held(i)
    BY <1>1, <1>3, <1>6 DEF Steady, UpToDate, flags
  <2>2. Held(i)' /\ Moves(i, "published") /\ UNCHANGED writer
    BY <1>1, <1>3, <1>4, <1>6, <2>1 DEF Held, Rewriting, Current, Moves
  <2>3. Fences'
    BY <1>1, <1>2, <1>6, <2>1, <2>2, FencesHold
  <2> QED
    BY <1>4, <1>6, <2>3 DEF Ordered
<1>7. CASE diskFailure' = TRUE /\ tasks' = Finished(i) /\ LowerFence(i) /\ UNCHANGED writer
  <2>1. (UpToDate \/ diskFailure)'
    BY <1>7
  <2> QED
    BY <1>1, <1>7, <2>1, ReleaseOrdered
<1>8. CASE /\ CommitGuard(i) /\ writer' = Detached(tasks[i].path) /\ diskFailure' = TRUE /\ tasks' = Finished(i)
           /\ LowerFence(i)
  <2>1. (UpToDate \/ diskFailure)' /\ UNCHANGED writer
    BY <1>3, <1>8
  <2> QED
    BY <1>1, <1>8, <2>1, ReleaseOrdered
<1> QED
  BY <1>5, <1>6, <1>7, <1>8 DEF Publish

LEMMA PublishedOrdered ==
  ASSUME Typed, Ordered, NEW i \in DOMAIN tasks, Published(i)
  PROVE  Ordered'
<1>1. Rewriting(i) /\ tasks[i].pc = "published" /\ tasks[i].kind \in {"rewrite", "title"} /\ UNCHANGED <<epoch, tail>>
  BY StagingKind DEF Typed, Published, Rewriting
<1>2. CASE /\ tasks[i].epoch # epoch /\ tasks' = Finished(i) /\ LowerFence(i)
           /\ UNCHANGED <<writer, fileIsCurrent, rewriteRequired, diskFailure>>
  <2>1. ~Current(i) /\ ~Held(i) /\ Steady
    BY <1>2 DEF Current, Held, Steady, UpToDate
  <2> QED
    BY <1>1, <1>2, <2>1, LowerOther, FinishOrdered
<1>3. CASE tasks[i].epoch = epoch /\ RaiseFence(i) /\ UNCHANGED <<fileIsCurrent, rewriteRequired, diskFailure>>
  BY <1>1, <1>3, RaiseOrdered DEF Current
<1>4. CASE /\ tasks' = Finished(i) /\ LowerFence(i) /\ fileIsCurrent' = TRUE /\ rewriteRequired' = FALSE
           /\ UNCHANGED writer
  <2>1. (UpToDate \/ diskFailure)'
    BY <1>4 DEF UpToDate
  <2> QED
    BY <1>1, <1>4, <2>1, ReleaseOrdered
<1> QED
  BY <1>2, <1>3, <1>4 DEF Published

LEMMA StartTitleOrdered ==
  ASSUME Typed, Ordered, NEW i \in DOMAIN tasks, StartTitle(i)
  PROVE  Ordered'
<1>1. /\ Ready(i) /\ tasks[i].pc = "queued" /\ tasks[i].kind = "title" /\ Current(i) /\ ~diskFailure
      /\ writer' = Appending /\ tasks' = [tasks EXCEPT ![i].pc = "appended"]
      /\ UNCHANGED <<flags, epoch, fence, tail>>
  BY DEF StartTitle, AppendLine, Starts, Ready, Current, fencing
<1>2. Chain /\ Fences /\ tasks \in Seq(Task) /\ writer # "detached"
  BY TypedAt DEF Ordered, Fences, Attached
<1>3. Moves(i, "appended")
  BY <1>1, <1>2, MoveTo DEF Progress
<1>4. Steady
  BY <1>1 DEF Steady, UpToDate, flags
<1>5. \A j \in DOMAIN tasks : ~Held(j)
  <2> SUFFICES ASSUME NEW j \in DOMAIN tasks, Held(j) PROVE FALSE
    OBVIOUS
  <2>1. j # i /\ Current(j) /\ tasks[j].pc # "queued" /\ tasks[j].pc # "done"
    BY <1>1, HeldIsUnderWay
  <2>2. ~(j < i)
    BY <1>1, <1>2, <2>1, ReadyIsNext
  <2>3. i < j
    BY <2>1, <2>2, ChainNumbers
  <2> QED
    BY <1>1, <1>2, <2>1, <2>3 DEF Chain, Lined
<1>6. ~Held(i)'
  BY <1>3 DEF Held, Rewriting, Moves
<1>7. writer' # "detached"
  BY <1>1, <1>2 DEF Appending
<1> QED
  BY <1>1, <1>3, <1>4, <1>5, <1>6, <1>7, MoveOrdered

LEMMA FinishTitleOrdered ==
  ASSUME Typed, Ordered, NEW i \in DOMAIN tasks, FinishTitle(i)
  PROVE  Ordered'
<1>1. /\ tasks[i].pc = "appended" /\ tasks[i].kind = "title"
      /\ UNCHANGED <<rewriteRequired, diskFailure, epoch, tail>>
  BY StagingKind DEF Typed, FinishTitle
<1>2. Current(i)
  BY <1>1 DEF Ordered, Fences, TitleRuns
<1>3. CASE /\ fileIsCurrent' = (fileIsCurrent \/ tasks[i].epoch = epoch) /\ tasks' = Finished(i)
           /\ UNCHANGED <<fencing, writer>>
  <2>1. Steady /\ ~Held(i)
    BY <1>1, <1>3 DEF Steady, UpToDate, Held, Rewriting
  <2> QED
    BY <1>1, <1>3, <2>1, FinishOrdered DEF fencing
<1>4. CASE RaiseFence(i) /\ UNCHANGED fileIsCurrent
  BY <1>1, <1>2, <1>4, RaiseOrdered
<1> QED
  BY <1>3, <1>4 DEF FinishTitle

LEMMA RunFlushOrdered ==
  ASSUME Typed, Ordered, NEW i \in DOMAIN tasks, RunFlush(i)
  PROVE  Ordered'
<1>1. /\ Ready(i) /\ tasks[i].pc = "queued" /\ tasks' = Finished(i)
      /\ UNCHANGED <<flags, diskFailure, writer, epoch, fence, tail>>
  BY DEF RunFlush, Starts, Ready, fencing
<1>2. Steady /\ ~Held(i)
  BY <1>1 DEF Steady, UpToDate, flags, Held, Rewriting
<1> QED
  BY <1>1, <1>2, FinishOrdered

LEMMA CloserOrdered ==
  ASSUME Typed, Ordered, NEW i \in DOMAIN tasks, StartClose(i) \/ StartDrain(i)
  PROVE  Ordered'
<1>1. /\ Ready(i) /\ tasks[i].pc = "queued" /\ tasks[i].kind \in {"close", "drain"} /\ writer' = "none"
      /\ tasks' = [tasks EXCEPT ![i].pc = "closing"]
      /\ UNCHANGED <<flags, diskFailure, epoch, fence, tail>>
  BY DEF StartClose, StartDrain, Starts, Ready, fencing
<1>2. Moves(i, "closing")
  BY <1>1, TypedAt, MoveTo DEF Progress
<1>3. Steady /\ ~Held(i) /\ ~Held(i)'
  BY <1>1, <1>2 DEF Steady, UpToDate, flags, Held, Rewriting, Moves
<1> QED
  BY <1>1, <1>2, <1>3, MoveOrdered

LEMMA FinishCloseOrdered ==
  ASSUME Typed, Ordered, NEW i \in DOMAIN tasks, FinishClose(i)
  PROVE  Ordered'
<1>1. /\ tasks[i].pc = "closing" /\ tasks[i].kind = "close" /\ tasks' = Finished(i)
      /\ (fileIsCurrent => fileIsCurrent') /\ UNCHANGED <<rewriteRequired, diskFailure, writer, epoch, fence, tail>>
  BY DEF FinishClose, fencing
<1>2. Steady /\ ~Held(i)
  BY <1>1 DEF Steady, UpToDate, Held, Rewriting
<1> QED
  BY <1>1, <1>2, FinishOrdered

LEMMA FinishDrainOrdered ==
  ASSUME Typed, Ordered, NEW i \in DOMAIN tasks, FinishDrain(i)
  PROVE  Ordered'
<1>1. /\ tasks[i].pc = "closing" /\ tasks[i].kind = "drain" /\ tasks' = Finished(i) /\ tail' = 0
      /\ writer' = "none" /\ UNCHANGED <<epoch, fence>>
  BY DEF FinishDrain, fencing
<1>2. Chain /\ Fences /\ tasks \in Seq(Task)
  BY TypedAt DEF Ordered
<1>3. Moves(i, "done") /\ \A j \in DOMAIN tasks' : tasks'[j].pc = "done"
  BY <1>1, <1>2, FinishMoves, FinishDrainTyped DEF Typed
<1>4. Chain'
  BY <1>1, <1>2, <1>3, ChainMoves
<1>5. \A j \in DOMAIN tasks : ~Held(j) /\ ~Held(j)' /\ tasks'[j].pc = "done"
  BY <1>1, <1>3, DrainIsLast DEF Held, Rewriting, Moves
<1>6. fence' <= epoch' /\ fence' # epoch'
  BY <1>1, <1>2, <1>5 DEF Fences, FenceDown
<1>7. DOMAIN tasks' = DOMAIN tasks
  BY <1>3 DEF Moves
<1>8. FenceUp' /\ FenceDown' /\ Attached' /\ TitleWaits' /\ TitleRuns'
  BY <1>1, <1>5, <1>6, <1>7 DEF FenceUp, FenceDown, Attached, TitleWaits, TitleRuns, TitleUnderWay
<1> QED
  BY <1>4, <1>6, <1>8 DEF Ordered, Fences

LEMMA LoadOrdered ==
  ASSUME Typed, Ordered, Load
  PROVE  Ordered'
<1>1. phase = "loading" /\ UNCHANGED <<writer, epoch, fence>> /\ (UNCHANGED chain \/ Schedule("rewrite", << >>))
  BY DEF Load, fencing
<1>2. \A j \in DOMAIN tasks : tasks[j].pc = "done"
  BY <1>1 DEF Typed, Types, Phases
<1>3. Steady
  BY <1>2 DEF Steady
<1>4. CASE UNCHANGED chain
  <2>1. Chain /\ Fences /\ UNCHANGED <<tasks, tail>>
    BY <1>4 DEF Ordered, chain
  <2>2. \A j \in DOMAIN tasks : (Held(j)' <=> Held(j)) /\ ~Held(j) /\ ~TitleUnderWay(j)'
    BY <1>1, <1>2, <2>1 DEF Held, Rewriting, Current, TitleUnderWay
  <2>3. FenceUp' /\ FenceDown' /\ Attached' /\ TitleWaits' /\ TitleRuns' /\ fence' <= epoch'
    BY <1>1, <1>2, <2>1, <2>2 DEF Fences, FenceUp, FenceDown, Attached, TitleWaits, TitleRuns
  <2> QED
    BY <1>1, <2>1, <2>3, ChainSame DEF Ordered, Fences
<1> QED
  BY <1>1, <1>3, <1>4, ScheduleOrdered, LineBodies DEF Kinds

LEMMA NextOrdered ==
  ASSUME Typed, Ordered, [Next]_vars
  PROVE  Ordered'
<1>1. CASE Caller
  <2>1. ASSUME NewSession \/ SetSessionFile PROVE Ordered'
    BY <2>1, SwitchOrdered DEF NewSession, SetSessionFile
  <2> QED
    BY <1>1, <2>1, AppendEntryOrdered, SetSessionNameOrdered, RewriteEntriesOrdered, EnsureOnDiskOrdered,
       FlushSyncOrdered, BarrierOrdered DEF Caller
<1>2. CASE \E i \in DOMAIN tasks : TaskStep(i)
  BY <1>2, SkipOrdered, StartRewriteOrdered, SerializeOrdered, PublishOrdered, PublishedOrdered, StartTitleOrdered,
     FinishTitleOrdered, RunFlushOrdered, CloserOrdered, FinishCloseOrdered, FinishDrainOrdered DEF TaskStep
<1>3. CASE Load
  BY <1>3, LoadOrdered
<1>4. CASE Crash
  <2>1. tasks' = << >> /\ tail' = 0 /\ fence' = 0 /\ epoch' = 1 /\ writer' = "none"
    BY <1>4 DEF Crash
  <2>2. Chain'
    BY <2>1 DEF Chain, Linked, Lined
  <2>3. FenceUp' /\ FenceDown' /\ TitleWaits' /\ TitleRuns' /\ Attached'
    BY <2>1 DEF FenceUp, FenceDown, TitleWaits, TitleRuns, Attached
  <2>4. fence' <= epoch'
    BY <2>1
  <2> QED
    BY <2>2, <2>3, <2>4 DEF Ordered, Fences
<1>5. CASE UNCHANGED vars
  <2>1. UNCHANGED <<tasks, tail, epoch, fence, writer, fileIsCurrent, rewriteRequired, diskFailure>>
    BY <1>5 DEF vars, chain, fencing, flags
  <2> QED
    BY <2>1, ChainSame, FencesKeep DEF Ordered, UpToDate
<1> QED
  BY <1>1, <1>2, <1>3, <1>4, <1>5 DEF Next

-----------------------------------------------------------------------------
(* The theorems.                                                           *)

\* No mishap is forgotten, but for what a stray call covers.
LEMMA MishapForEver ==
  ASSUME NEW x, x \in mishaps, [Next]_vars
  PROVE  x \in mishaps' \/ "stray" \in mishaps'
<1>1. ASSUME NEW E, Note(E) PROVE x \in mishaps' \/ "stray" \in mishaps'
  BY <1>1 DEF Note
<1>2. ASSUME NEW m, RewriteSynchronously(m) PROVE x \in mishaps' \/ "stray" \in mishaps'
  BY <1>1, <1>2 DEF RewriteSynchronously
<1>3. ASSUME NEW e, NEW E, AppendLine(e, E) PROVE x \in mishaps' \/ "stray" \in mishaps'
  BY <1>1, <1>3 DEF AppendLine
<1>4. ASSUME NEW k, AppendEntry(k) PROVE x \in mishaps' \/ "stray" \in mishaps'
  BY <1>1, <1>2, <1>3, <1>4 DEF AppendEntry, AppendToSessionFile
<1>5. CASE Caller
  <2>1. CASE SetSessionName \/ RewriteEntries \/ EnsureOnDisk \/ \E kind \in {"flush", "close"} : Barrier(kind)
    BY <1>1, <2>1 DEF SetSessionName, RewriteEntries, EnsureOnDisk, Barrier
  <2>2. CASE FlushSync
    BY <1>2, <2>2 DEF FlushSync
  <2>3. CASE NewSession \/ SetSessionFile
    BY <1>1, <2>3 DEF NewSession, SetSessionFile, Switch
  <2> QED
    BY <1>4, <1>5, <2>1, <2>2, <2>3 DEF Caller
<1>6. CASE \E i \in DOMAIN tasks : TaskStep(i)
  <2>1. PICK i \in DOMAIN tasks : TaskStep(i)
    BY <1>6
  <2>2. CASE StartTitle(i)
    BY <1>3, <2>2 DEF StartTitle
  <2>3. CASE ~StartTitle(i)
    <3>1. UNCHANGED mishaps
      BY <2>1, <2>3 DEF TaskStep, Skip, StartRewrite, Serialize, Publish, Published, FinishTitle, RunFlush,
         StartClose, FinishClose, StartDrain, FinishDrain
    <3> QED
      BY <3>1
  <2> QED
    BY <2>2, <2>3
<1>7. CASE Load \/ Crash \/ UNCHANGED vars
  <2>1. UNCHANGED mishaps
    BY <1>7 DEF Load, Crash, vars
  <2> QED
    BY <2>1
<1> QED
  BY <1>5, <1>6, <1>7 DEF Next

\* The types hold in every step; what a stray call disturbs holds until then.
InPlace == "stray" \in mishaps \/ (Typed /\ Ordered)

LEMMA Invariance == Spec => [](Types /\ InPlace)
<1>1. Init => Types /\ InPlace
  <2> SUFFICES ASSUME Init PROVE Types /\ InPlace
    OBVIOUS
  <2>1. Chain /\ Fences
    BY ChainEmpty, FencesEmpty DEF Init
  <2> QED
    BY <2>1, InitTyped DEF Ordered, InPlace, Typed
<1>2. Types /\ InPlace /\ [Next]_vars => (Types /\ InPlace)'
  <2> SUFFICES ASSUME Types, InPlace, [Next]_vars PROVE Types' /\ InPlace'
    OBVIOUS
  <2>1. Types'
    BY NextTypes
  <2>2. CASE "stray" \in mishaps
    BY <2>1, <2>2, MishapForEver DEF InPlace
  <2>3. CASE ~Calm
    BY <2>1, <2>3 DEF Calm, InPlace
  <2>4. CASE Calm /\ Typed /\ Ordered
    BY <2>1, <2>4, NextTyped, NextOrdered DEF InPlace
  <2> QED
    BY <2>1, <2>2, <2>3, <2>4 DEF InPlace
<1> QED
  BY <1>1, <1>2, PTL DEF Spec

\* Every variable keeps its type, through stray calls, disk errors and crashes
\* alike: whatever the callers do, no file gets a line that is not an entry
\* behind its header, and no loaded session an entry that is none.
THEOREM TypeCorrect == Spec => []TypeOK
<1>1. Types => TypeOK
  BY TypeParts DEF Types, Tears, Record
<1> QED
  BY <1>1, Invariance, PTL

\* Until a stray call reaches the manager, no append ever goes to a file that a
\* rewrite has replaced: while the fence of #runFencedAtomicRewrite is up no
\* writer is open, and it is up whenever a rewrite of the present epoch can
\* still be published.
THEOREM WriterStaysAttached == Spec => []WriterAttached
<1>1. InPlace => WriterAttached
  BY DEF InPlace, Ordered, Fences, Attached, WriterAttached
<1> QED
  BY <1>1, Invariance, PTL
=============================================================================
