---------------------------- MODULE SessionFile -----------------------------
(***************************************************************************)
(* Session persistence: SessionManager's journal and its file              *)
(* (packages/coding-agent/src/session/session-manager.ts), on the file     *)
(* storage of session-storage.ts.  Entries are appended synchronously to   *)
(* an open writer; whole-file rewrites are either synchronous or staged in *)
(* a temporary file and renamed, on a chain of asynchronous disk work.     *)
(* Disk errors, refused renames, crashes and restarts are part of it.      *)
(*                                                                         *)
(* A step is the code between two awaits.  A line of a file is the header  *)
(* of a session or one of its entries; the text of a line, blobs and the   *)
(* title slot's contents are left out, as are fork, moveTo, branches and   *)
(* the cleanup of draft-only files.  The epoch starts at 1, so that 0 is   *)
(* the code's null fence.  A file's sequence holds the lines that can be   *)
(* read; a last line that was cut short is a mark beside it.  A rewrite in *)
(* place that is cut short writes the header at least.  Two changes of     *)
(* session do not overlap.                                                 *)
(*                                                                         *)
(* The manager trusts its callers and its storage in ways nothing in it    *)
(* enforces.  Every schedule is modelled, also those that break the trust; *)
(* mishaps remembers how it was broken so far, and a property that does    *)
(* not survive it says so.                                                 *)
(***************************************************************************)
EXTENDS Naturals, Sequences, SequencesExt, Filtering

CONSTANTS
  MaxSessions,  \* bound: session files
  MaxEntries,   \* bound: entries ever created
  MaxTasks,     \* bound: disk work scheduled by one process
  MaxEpoch,     \* bound: synchronous rewrites of one process, plus one
  MaxCrashes    \* bound: crashes

ASSUME BoundsAssumption ==
  /\ MaxSessions \in Nat \ {0} /\ MaxEntries \in Nat /\ MaxTasks \in Nat
  /\ MaxEpoch \in Nat \ {0} /\ MaxCrashes \in Nat

Session == 1..MaxSessions
Entry == [s : Session, n : 1..MaxEntries, k : {"user", "assistant", "title"}]
Header(s) == [s |-> s, n |-> 0, k |-> "header"]
Line == Entry \cup {Header(s) : s \in Session}

VARIABLES
  mem, owner,       \* #entries, and the session they belong to
  born,             \* entries created so far
  sess,             \* #sessionFile
  phase, target,    \* whether a change of session is under way, and to which
  fileIsCurrent, rewriteRequired, forceFileCreation,
  diskFailure,      \* a latched disk error
  file, backup,     \* per session: the lines at its path and in its .bak; << >>: no file
  torn,             \* per session: whether its last line was cut short
  writer,           \* #writer: none, open on the file at the path, or on a replaced one
  epoch,            \* #diskEpoch
  fence, dirty,     \* #atomicRewriteFenceEpoch, #atomicRewriteDirty
  tasks, tail,      \* scheduled disk work, and the last of the chain (#diskTail)
  crashes,
  mishaps           \* history: how the manager's trust was broken

memory == <<mem, owner, born>>
place == <<sess, phase, target>>
flags == <<fileIsCurrent, rewriteRequired, forceFileCreation>>
disk == <<file, backup, torn>>
fencing == <<fence, dirty>>
chain == <<tasks, tail>>
vars == <<memory, place, flags, diskFailure, disk, writer, epoch, fencing, chain, crashes, mishaps>>

Kinds == {"rewrite", "title", "flush", "close", "drain"}
\* stray: the manager was used while its session was being changed, from the
\*   flush before the change on (AgentSession flushes, input-controller.ts lets
\*   a generated title come at any time).
\* early: a rewrite was asked of a session that is not to have a file yet.
\* refused: an entry was added, and refused, while a title change that failed
\*   was being repaired.
\* glued: a line was appended to a last line that was cut short.
\* cut: a rewrite in place was cut short.
Mishaps == {"stray", "early", "refused", "glued", "cut"}
Progress == {"queued", "closing", "staging", "published", "appended", "done"}
Task == [kind : Kinds, epoch : 1..MaxEpoch, after : 0..MaxTasks, pc : Progress,
         path : Session, body : Seq(Line)]

TypeOK ==
  /\ mem \in Seq(Entry) /\ owner \in Session /\ born \in 0..MaxEntries
  /\ sess \in Session /\ phase \in {"idle", "draining", "loading"} /\ target \in Session
  /\ fileIsCurrent \in BOOLEAN /\ rewriteRequired \in BOOLEAN /\ forceFileCreation \in BOOLEAN
  /\ diskFailure \in BOOLEAN
  /\ file \in [Session -> Seq(Line)] /\ backup \in [Session -> Seq(Line)]
  /\ torn \in [Session -> BOOLEAN]
  /\ writer \in {"none", "open", "detached"}
  /\ epoch \in 1..MaxEpoch /\ fence \in 0..MaxEpoch /\ dirty \in BOOLEAN
  /\ tasks \in Seq(Task) /\ tail \in 0..Len(tasks) /\ Len(tasks) <= MaxTasks
  /\ crashes \in 0..MaxCrashes /\ mishaps \subseteq Mishaps

-----------------------------------------------------------------------------
\* What the file should hold.

Body(m) == <<Header(owner)>> \o m                       \* #fileBody

Exists(s) == file[s] # << >>

ShouldHaveFile(m) ==
  \/ forceFileCreation
  \/ fileIsCurrent
  \/ \E i \in DOMAIN m : m[i].k = "assistant"

\* Mutants: the fence raised only after the close, or never outdated.
Fenced_AfterClose == fence # 0 /\ fence = epoch /\ \E i \in DOMAIN tasks : tasks[i].pc = "staging"
Fenced_ByAnyEpoch == fence # 0
Fenced == fence # 0 /\ fence = epoch

\* A file that replaces the one at its path leaves an open writer behind.
Detached(p) == IF writer = "open" /\ p = sess THEN "detached" ELSE writer

\* An append through #appendWriter: on the file at the path, unless the writer
\* is still open on the file that was there before.  Behind a line that was cut
\* short it becomes part of that line, which no loader can read.
Landed(line) ==
  IF writer = "detached" \/ torn[sess] THEN file ELSE [file EXCEPT ![sess] = Append(@, line)]
Appending == IF writer = "none" THEN "open" ELSE writer

\* What a restart would find for session s, after the directory scan that
\* promotes an orphaned backup (recoverOrphanedBackups, session-listing.ts).
OnDisk(s) == IF Exists(s) THEN file[s] ELSE backup[s]

Headlined(lines) == lines # << >> /\ lines[1].k = "header"
\* Mutant: the header counted as an entry.
Loaded_WithHeader(lines) == lines
Loaded(lines) == IF Headlined(lines) THEN Tail(lines) ELSE << >>

-----------------------------------------------------------------------------
\* The chain of asynchronous disk work, #scheduleDiskWork.

Schedule(kind, body) ==
  /\ Len(tasks) < MaxTasks
  /\ tasks' = Append(tasks, [kind |-> kind, epoch |-> epoch, after |-> tail, pc |-> "queued",
                             path |-> sess, body |-> body])
  /\ tail' = Len(tasks) + 1

Finished(i) == [tasks EXCEPT ![i].pc = "done", ![i].body = << >>]
\* Mutant: disk work that does not wait for the work before it.
Ready_AtOnce(i) == tasks[i].pc = "queued"
Ready(i) ==
  /\ tasks[i].pc = "queued"
  /\ \A j \in DOMAIN tasks : j = tasks[i].after => tasks[j].pc = "done"

\* Where a mishap happens.  After a stray call no other is told apart.
Note(events) ==
  mishaps' = IF "stray" \in mishaps \cup events THEN {"stray"} ELSE mishaps \cup events
OutOfTurn == IF phase = "idle" THEN {} ELSE {"stray"}
Flushed == ~diskFailure /\ \A i \in DOMAIN tasks : tasks[i].pc = "done"
Repairing(i) ==
  tasks[i].kind = "title" /\ tasks[i].pc \in {"staging", "published"} /\ diskFailure
Refused == IF \E i \in DOMAIN tasks : Repairing(i) THEN {"refused"} ELSE {}
Glued == IF writer # "detached" /\ torn[sess] THEN {"glued"} ELSE {}

-----------------------------------------------------------------------------
\* A whole write of the file that fails half way: some lines of the body, and
\* perhaps a part of the next.
CutShort(body) ==
  /\ \E n \in 1..Len(body) - 1 : file' = [file EXCEPT ![sess] = SubSeq(body, 1, n)]
  /\ \E t \in BOOLEAN : torn' = [torn EXCEPT ![sess] = t]

\* #rewriteSynchronously: bump the epoch, drop the chain and the writer, and
\* replace the file in one step, or fail after the bump.  When the rename is
\* refused (EPERM) writeTextSync writes the file in place; a process that dies
\* in that write leaves what a failed one does before a crash.
RewriteSynchronously(m) ==
  /\ epoch < MaxEpoch
  /\ epoch' = epoch + 1
  /\ tail' = 0
  /\ writer' = "none"
  /\ \/ /\ file' = [file EXCEPT ![sess] = Body(m)]
        /\ torn' = [torn EXCEPT ![sess] = FALSE]
        /\ fileIsCurrent' = TRUE
        /\ rewriteRequired' = FALSE
        /\ UNCHANGED diskFailure
        /\ Note(OutOfTurn)
     \/ /\ diskFailure' = TRUE
        /\ UNCHANGED <<file, torn, fileIsCurrent, rewriteRequired>>
        /\ Note(OutOfTurn)
     \/ /\ CutShort(Body(m))                              \* in place
        /\ diskFailure' = TRUE
        /\ UNCHANGED <<fileIsCurrent, rewriteRequired>>
        /\ Note(OutOfTurn \cup {"cut"})

\* A line through the writer, which may fail with a part of it written.
AppendLine(line, events) ==
  /\ writer' = Appending
  /\ \/ /\ file' = Landed(line)
        /\ torn' = [torn EXCEPT ![sess] = @ /\ writer = "detached"]
        /\ UNCHANGED diskFailure
        /\ Note(events \cup Glued)
     \/ /\ diskFailure' = TRUE                            \* the writer's onError
        /\ torn' \in {torn, [torn EXCEPT ![sess] = @ \/ (Exists(sess) /\ writer # "detached")]}
        /\ UNCHANGED file
        /\ Note(events)

\* #recordEntry and #appendToSessionFile, by the branch they take.
AppendToSessionFile(e, m) ==
  \/ /\ diskFailure                                       \* throws, the entry is in memory
     /\ UNCHANGED <<flags, diskFailure, file, torn, writer, epoch, dirty, tail>>
     /\ Note(OutOfTurn \cup Refused)
  \/ /\ ~diskFailure /\ ~ShouldHaveFile(m)                \* the lazy gate
     /\ fileIsCurrent' = FALSE
     /\ UNCHANGED <<rewriteRequired, forceFileCreation, diskFailure, file, torn, writer, epoch, dirty, tail>>
     /\ Note(OutOfTurn)
  \/ /\ ~diskFailure /\ ShouldHaveFile(m) /\ Fenced       \* left to the rewrite under way
     /\ fileIsCurrent' = FALSE
     /\ rewriteRequired' = TRUE
     /\ dirty' = TRUE
     /\ UNCHANGED <<forceFileCreation, diskFailure, file, torn, writer, epoch, tail>>
     /\ Note(OutOfTurn)
  \/ /\ ~diskFailure /\ ShouldHaveFile(m) /\ ~Fenced      \* cold
     /\ ~fileIsCurrent \/ rewriteRequired
     /\ RewriteSynchronously(m)
     /\ UNCHANGED <<forceFileCreation, dirty>>
  \/ /\ ~diskFailure /\ ShouldHaveFile(m) /\ ~Fenced      \* hot
     /\ fileIsCurrent /\ ~rewriteRequired
     /\ AppendLine(e, OutOfTurn)
     /\ UNCHANGED <<flags, epoch, dirty, tail>>

AppendEntry(k) ==
  /\ born < MaxEntries
  /\ LET e == [s |-> owner, n |-> born + 1, k |-> k]
         m == Append(mem, e)
     IN /\ mem' = m
        /\ AppendToSessionFile(e, m)
  /\ born' = born + 1
  /\ UNCHANGED <<owner, place, backup, fence, tasks, crashes>>

\* setSessionName, which a generated title reaches at any time: the entry is in
\* memory at once; #persistTitleChangeEntry schedules either its line or, when
\* the file is behind, a rewrite.
SetSessionName ==
  /\ born < MaxEntries
  /\ LET e == [s |-> owner, n |-> born + 1, k |-> "title"]
         m == Append(mem, e)
         behind == ~fileIsCurrent \/ rewriteRequired \/ ~Exists(sess)
     IN /\ mem' = m
        /\ \/ /\ diskFailure
              /\ UNCHANGED <<fileIsCurrent, chain>>
              /\ Note(OutOfTurn \cup Refused)
           \/ /\ ~diskFailure /\ ~ShouldHaveFile(m)
              /\ fileIsCurrent' = FALSE
              /\ UNCHANGED chain
              /\ Note(OutOfTurn)
           \/ /\ ~diskFailure /\ ShouldHaveFile(m)
              /\ IF behind THEN Schedule("rewrite", << >>) ELSE Schedule("title", <<e>>)
              /\ UNCHANGED fileIsCurrent
              /\ Note(OutOfTurn)
  /\ born' = born + 1
  /\ UNCHANGED <<owner, place, rewriteRequired, forceFileCreation, diskFailure, disk, writer, epoch,
                 fencing, crashes>>

\* rewriteEntries, and the rewrite appendCompaction asks for.
RewriteEntries ==
  /\ Schedule("rewrite", << >>)
  /\ Note(OutOfTurn \cup IF ShouldHaveFile(mem) THEN {} ELSE {"early"})
  /\ UNCHANGED <<memory, place, flags, diskFailure, disk, writer, epoch, fencing, crashes>>

EnsureOnDisk ==
  /\ ~forceFileCreation
  /\ Note(OutOfTurn)
  /\ forceFileCreation' = TRUE
  /\ \/ fileIsCurrent /\ ~rewriteRequired /\ UNCHANGED chain
     \/ (~fileIsCurrent \/ rewriteRequired) /\ Schedule("rewrite", << >>)
  /\ UNCHANGED <<memory, place, fileIsCurrent, rewriteRequired, diskFailure, disk, writer, epoch,
                 fencing, crashes>>

\* flushSync of a file that is behind; with a current file, or after a disk
\* error, it changes nothing.
FlushSync ==
  /\ ~diskFailure
  /\ ~fileIsCurrent \/ rewriteRequired
  /\ ShouldHaveFile(mem)
  /\ RewriteSynchronously(mem)
  /\ UNCHANGED <<memory, place, forceFileCreation, backup, fencing, tasks, crashes>>

\* flush and close are scheduled behind the chain.  The task remembers what was
\* in memory when it was asked for, if a file should hold it.
Barrier(kind) ==
  /\ Note(OutOfTurn)
  /\ Schedule(kind, IF ShouldHaveFile(mem) THEN mem ELSE << >>)
  /\ UNCHANGED <<memory, place, flags, diskFailure, disk, writer, epoch, fencing, crashes>>

-----------------------------------------------------------------------------
\* Running the chain.  A task whose epoch has passed does nothing; after a
\* disk error a task throws at once.
Skip(i) ==
  /\ Ready(i) /\ tasks[i].kind # "drain"
  /\ tasks[i].epoch # epoch \/ diskFailure
  /\ tasks' = Finished(i)
  /\ UNCHANGED <<memory, place, flags, diskFailure, disk, writer, epoch, fencing, tail, crashes, mishaps>>

Starts(i, kind) == Ready(i) /\ tasks[i].kind = kind /\ tasks[i].epoch = epoch /\ ~diskFailure

\* One pass of #runFencedAtomicRewrite's loop, up to the await of the close.
RaiseFence(i) ==
  /\ fence' = tasks[i].epoch
  /\ dirty' = FALSE
  /\ writer' = "none"
  /\ tasks' = [tasks EXCEPT ![i].pc = "closing"]

\* The finally clause: only the owner takes the fence down.
\* Mutant: anyone does.
LowerFence_ByAnyone(i) == fence' = 0
LowerFence(i) == fence' = IF fence = tasks[i].epoch THEN 0 ELSE fence

StartRewrite(i) ==
  /\ Starts(i, "rewrite")
  /\ RaiseFence(i)
  /\ UNCHANGED <<memory, place, flags, diskFailure, disk, epoch, tail, crashes, mishaps>>

\* The rewrite after the writer was closed: serialize the body, or give up.
Serialize(i) ==
  /\ tasks[i].kind \in {"rewrite", "title"} /\ tasks[i].pc = "closing"
  /\ \/ /\ tasks[i].epoch # epoch
        /\ tasks' = Finished(i)
        /\ LowerFence(i)
     \/ /\ tasks[i].epoch = epoch
        /\ tasks' = [tasks EXCEPT ![i].pc = "staging", ![i].body = Body(mem), ![i].path = sess]
        /\ UNCHANGED fence
  /\ UNCHANGED <<memory, place, flags, diskFailure, disk, writer, epoch, dirty, tail, crashes, mishaps>>

\* Mutant: a superseded rewrite still publishes.
CommitGuard_Dropped(i) == TRUE
CommitGuard(i) == tasks[i].epoch = epoch

\* writeTextAtomic after the temporary file was written: the guard and the
\* rename are one step.  A refused rename moves the old file aside first.
Publish(i) ==
  /\ tasks[i].pc = "staging"
  /\ LET p == tasks[i].path IN
     \/ /\ ~CommitGuard(i)
        /\ tasks' = [tasks EXCEPT ![i].pc = "published"]
        /\ UNCHANGED <<disk, writer, diskFailure, fence>>
     \/ /\ CommitGuard(i)
        /\ file' = [file EXCEPT ![p] = tasks[i].body]
        /\ torn' = [torn EXCEPT ![p] = FALSE]
        /\ writer' = Detached(p)
        /\ tasks' = [tasks EXCEPT ![i].pc = "published"]
        /\ UNCHANGED <<backup, diskFailure, fence>>
     \/ /\ diskFailure' = TRUE                            \* staging or renaming failed
        /\ tasks' = Finished(i)
        /\ LowerFence(i)
        /\ UNCHANGED <<disk, writer>>
     \/ /\ CommitGuard(i) /\ Exists(p)                    \* moved aside, and not put back
        /\ file' = [file EXCEPT ![p] = << >>]
        /\ backup' = [backup EXCEPT ![p] = file[p]]
        /\ UNCHANGED torn
        /\ writer' = Detached(p)
        /\ diskFailure' = TRUE
        /\ tasks' = Finished(i)
        /\ LowerFence(i)
  /\ UNCHANGED <<memory, place, flags, epoch, dirty, tail, crashes, mishaps>>

\* Back from writeTextAtomic: superseded, once more for what was fenced, or
\* done.  The callers' settling of the flags follows in the next microtask and
\* is part of the step.
Published(i) ==
  /\ tasks[i].pc = "published"
  /\ \/ /\ tasks[i].epoch # epoch
        /\ tasks' = Finished(i)
        /\ LowerFence(i)
        /\ UNCHANGED <<dirty, writer, fileIsCurrent, rewriteRequired, diskFailure>>
     \/ /\ tasks[i].epoch = epoch /\ dirty
        /\ RaiseFence(i)
        /\ UNCHANGED <<fileIsCurrent, rewriteRequired, diskFailure>>
     \/ /\ tasks[i].epoch = epoch /\ ~dirty
        /\ tasks' = Finished(i)
        /\ LowerFence(i)
        /\ fileIsCurrent' = TRUE
        /\ rewriteRequired' = FALSE
        /\ diskFailure' = (diskFailure /\ tasks[i].kind # "title")
        /\ UNCHANGED <<dirty, writer>>
  /\ UNCHANGED <<memory, place, forceFileCreation, disk, epoch, tail, crashes, mishaps>>

\* #persistTitleChangeEntry's task: append the line, rewrite the title slot in
\* place, and rewrite the whole file when either fails.
StartTitle(i) ==
  /\ Starts(i, "title")
  /\ AppendLine(tasks[i].body[1], {})
  /\ tasks' = [tasks EXCEPT ![i].pc = "appended"]
  /\ UNCHANGED <<memory, place, flags, backup, epoch, fencing, tail, crashes>>

FinishTitle(i) ==
  /\ tasks[i].pc = "appended"
  /\ \/ /\ ~diskFailure
        /\ fileIsCurrent' = (fileIsCurrent \/ tasks[i].epoch = epoch)
        /\ tasks' = Finished(i)
        /\ UNCHANGED <<fencing, writer>>
     \/ /\ RaiseFence(i)
        /\ UNCHANGED fileIsCurrent
  /\ UNCHANGED <<memory, place, rewriteRequired, forceFileCreation, diskFailure, disk, epoch, tail,
                 crashes, mishaps>>

\* flush: the writer of a file has nothing buffered.
RunFlush(i) ==
  /\ Starts(i, "flush")
  /\ tasks' = Finished(i)
  /\ UNCHANGED <<memory, place, flags, diskFailure, disk, writer, epoch, fencing, tail, crashes, mishaps>>

StartClose(i) ==
  /\ Starts(i, "close")
  /\ writer' = "none"
  /\ tasks' = [tasks EXCEPT ![i].pc = "closing"]
  /\ UNCHANGED <<memory, place, flags, diskFailure, disk, epoch, fencing, tail, crashes, mishaps>>

FinishClose(i) ==
  /\ tasks[i].kind = "close" /\ tasks[i].pc = "closing"
  /\ fileIsCurrent' = (fileIsCurrent \/ Exists(sess))
  /\ tasks' = Finished(i)
  /\ UNCHANGED <<memory, place, rewriteRequired, forceFileCreation, diskFailure, disk, writer, epoch,
                 fencing, tail, crashes, mishaps>>

-----------------------------------------------------------------------------
\* newSession and setSessionFile: drain the chain, then switch.

Switch(s) ==
  /\ phase = "idle"
  /\ Note(IF Flushed THEN {} ELSE {"stray"})
  /\ Schedule("drain", << >>)
  /\ phase' = "draining"
  /\ target' = s
  /\ UNCHANGED <<memory, sess, flags, diskFailure, writer, epoch, fencing, crashes>>

Unused(s) == s # owner /\ s # sess /\ OnDisk(s) = << >>

NewSession ==
  /\ \E s \in Session : Unused(s) /\ Switch(s)
  /\ UNCHANGED disk

\* The selector lists the directory first, which promotes orphaned backups.
Recovered == [s \in Session |-> OnDisk(s)]
SetSessionFile ==
  /\ \E s \in Session : OnDisk(s) # << >> /\ Switch(s)
  /\ file' = Recovered
  /\ backup' = [s \in Session |-> IF Exists(s) THEN backup[s] ELSE << >>]
  /\ UNCHANGED torn

StartDrain(i) ==
  /\ Ready(i) /\ tasks[i].kind = "drain"
  /\ writer' = "none"
  /\ tasks' = [tasks EXCEPT ![i].pc = "closing"]
  /\ UNCHANGED <<memory, place, flags, diskFailure, disk, epoch, fencing, tail, crashes, mishaps>>

\* #resetToNewSession
Reset(s) ==
  /\ owner' = s
  /\ mem' = << >>
  /\ fileIsCurrent' = FALSE
  /\ rewriteRequired' = FALSE

\* The drain is done: its finally clause, and the caller up to its next await.
FinishDrain(i) ==
  /\ tasks[i].kind = "drain" /\ tasks[i].pc = "closing"
  /\ writer' = "none"
  /\ tail' = 0
  /\ diskFailure' = FALSE
  /\ sess' = target
  /\ tasks' = Finished(i)
  /\ IF Exists(target)
     THEN /\ phase' = "loading"
          /\ UNCHANGED <<owner, mem, flags>>
     ELSE /\ phase' = "idle"
          /\ Reset(target)
          /\ forceFileCreation' = FALSE
  /\ UNCHANGED <<born, target, disk, epoch, fencing, crashes, mishaps>>

\* setSessionFile once the file was read; one without a header starts afresh.
Load ==
  /\ phase = "loading"
  /\ phase' = "idle"
  /\ forceFileCreation' = TRUE
  /\ \/ /\ Headlined(file[sess])
        /\ owner' = sess
        /\ mem' = Loaded(file[sess])
        /\ fileIsCurrent' = TRUE
        /\ rewriteRequired' = FALSE
        /\ UNCHANGED <<chain, diskFailure>>
     \/ /\ ~Headlined(file[sess])
        /\ Reset(sess)
        /\ diskFailure' = FALSE
        /\ Schedule("rewrite", << >>)
  /\ UNCHANGED <<born, sess, target, disk, writer, epoch, fencing, crashes, mishaps>>

-----------------------------------------------------------------------------
\* The process dies; the next one scans the directory and opens a session.  A
\* death between the two renames of a replacement leaves the old file in its
\* backup, which the scan puts back: that is the state before the renames.
Crash ==
  /\ crashes < MaxCrashes
  /\ crashes' = crashes + 1
  /\ file' = Recovered
  /\ backup' = [s \in Session |-> IF Exists(s) THEN backup[s] ELSE << >>]
  /\ \E s \in Session :
       /\ OnDisk(s) # << >>
       /\ owner' = s /\ sess' = s /\ target' = s
       /\ mem' = Loaded(OnDisk(s))
  /\ phase' = "idle"
  /\ fileIsCurrent' = TRUE /\ rewriteRequired' = FALSE /\ forceFileCreation' = TRUE
  /\ diskFailure' = FALSE
  /\ writer' = "none" /\ epoch' = 1 /\ fence' = 0 /\ dirty' = FALSE
  /\ tasks' = << >> /\ tail' = 0
  /\ UNCHANGED <<born, torn, mishaps>>

-----------------------------------------------------------------------------
Init ==
  /\ mem = << >> /\ owner = 1 /\ born = 0
  /\ sess = 1 /\ phase = "idle" /\ target = 1
  /\ fileIsCurrent = FALSE /\ rewriteRequired = FALSE /\ forceFileCreation = FALSE
  /\ diskFailure = FALSE
  /\ file = [s \in Session |-> << >>] /\ backup = [s \in Session |-> << >>]
  /\ torn = [s \in Session |-> FALSE]
  /\ writer = "none" /\ epoch = 1 /\ fence = 0 /\ dirty = FALSE
  /\ tasks = << >> /\ tail = 0
  /\ crashes = 0 /\ mishaps = {}

\* What the program's callers do, and what its asynchronous disk work does.
Caller ==
  \/ \E k \in {"user", "assistant"} : AppendEntry(k)
  \/ SetSessionName
  \/ RewriteEntries
  \/ EnsureOnDisk
  \/ FlushSync
  \/ \E kind \in {"flush", "close"} : Barrier(kind)
  \/ NewSession
  \/ SetSessionFile

TaskStep(i) ==
  \/ Skip(i)
  \/ StartRewrite(i) \/ Serialize(i) \/ Publish(i) \/ Published(i)
  \/ StartTitle(i) \/ FinishTitle(i)
  \/ RunFlush(i)
  \/ StartClose(i) \/ FinishClose(i)
  \/ StartDrain(i) \/ FinishDrain(i)

Next ==
  \/ Caller
  \/ \E i \in DOMAIN tasks : TaskStep(i)
  \/ Load
  \/ Crash

\* File operations settle, and the event loop runs what they wake.
Fairness ==
  /\ \A i \in 1..MaxTasks : WF_vars(i \in DOMAIN tasks /\ TaskStep(i))
  /\ WF_vars(Load)

Spec == Init /\ [][Next]_vars
FairSpec == Spec /\ Fairness

-----------------------------------------------------------------------------
\* Properties.

Talk == {e \in Entry : e.k # "title"}
Plain(lines) == Only(lines, Talk)
Saved(s) == Plain(OnDisk(s))
Accepted(s) == IF s = owner THEN Plain(mem) ELSE Saved(s)

\* An open writer is on the file at the session's path: no append goes to a
\* file that a rewrite has replaced meanwhile (the fence of #appendToSessionFile
\* and #runFencedAtomicRewrite), unless the manager was used while its session
\* was being changed.
WriterAttached == "stray" \in mishaps \/ writer # "detached"

\* No mishap yet that costs an entry without a disk error being reported.
Orderly == mishaps \subseteq {"cut"}
AnsweredFor ==
  (fileIsCurrent /\ ~rewriteRequired /\ ~diskFailure /\ phase = "idle") => Saved(sess) = Plain(mem)

\* The file says it is current only when it holds every entry appended so far,
\* in order (the comment on #fileIsCurrent), until a mishap other than a
\* rewrite cut short.  Title changes, which are appended by a task, are not
\* counted.
CurrentIsComplete == Orderly => AnsweredFor

\* The same comment where the only mishap is an entry refused while a title
\* change is being repaired: the repair clears the error and says the file is
\* current, and the entry is in memory only.
RepairIsComplete == mishaps \subseteq {"refused"} => AnsweredFor

\* Per session, the disk holds a prefix of what was appended, an appended entry
\* is on disk at once unless the manager holds it back, and what the disk holds
\* it never loses: through rewrites, disk errors, switches and crashes, until a
\* mishap.
Journal == INSTANCE SessionLog WITH
  Session <- Session,
  Entry <- Talk,
  log <- [s \in Session |-> Accepted(s)],
  saved <- [s \in Session |-> Saved(s)],
  held <- diskFailure \/ Fenced \/ ~ShouldHaveFile(mem),
  broken <- mishaps # {}
JournalIsKept == Journal!Spec

\* When flush() or close() resolves without a disk error, every entry that was
\* in memory when it was called is on disk, title changes included, unless
\* there was a mishap other than a rewrite cut short.
BarrierSaves ==
  [][Orderly' =>
     \A i \in DOMAIN tasks :
       (/\ tasks[i].kind \in {"flush", "close"} /\ tasks[i].pc # "done"
        /\ i \in DOMAIN tasks' /\ tasks'[i].pc = "done" /\ ~diskFailure')
       => \A n \in DOMAIN tasks[i].body :
            \E l \in DOMAIN OnDisk(sess)' : OnDisk(sess)'[l] = tasks[i].body[n]]_vars

\* An entry of a session that is to have a file gets onto disk without anybody
\* asking, unless the disk fails, the process or the session ends first, or
\* there is a mishap.
EventuallySaved ==
  \A n \in 1..MaxEntries :
    (phase = "idle" /\ ~diskFailure /\ ShouldHaveFile(mem) /\ \E i \in DOMAIN mem : mem[i].n = n)
    ~> (\/ diskFailure \/ ~Orderly
        \/ ~\E i \in DOMAIN mem : mem[i].n = n
        \/ \E i \in DOMAIN OnDisk(owner) : OnDisk(owner)[i].n = n)
=============================================================================
