------------------------ MODULE SessionJournalProofs ------------------------
(***************************************************************************)
(* Proofs about what SessionFile keeps on disk, for every bound and every  *)
(* schedule: until a mishap, a file that says it is current is complete,   *)
(* the file implements the log that SessionLog promises, and a flush() or  *)
(* close() that succeeds has saved everything.  A rewrite in place that is *)
(* cut short is a mishap for the log only, as the error is reported.       *)
(* Types, chain and fence come from SessionFileProofs.                     *)
(***************************************************************************)
EXTENDS SessionFileProofs

-----------------------------------------------------------------------------
(* Prefixes.                                                               *)

LEMMA PrefixIs ==
  ASSUME NEW T, NEW s \in Seq(T), NEW t \in Seq(T)
  PROVE  IsPrefix(s, t) <=> Len(s) <= Len(t) /\ \A i \in 1..Len(s) : s[i] = t[i]
<1>1. Len(s) \in Nat /\ Len(t) \in Nat
  OBVIOUS
<1>2. SubSeq(s, 1, Len(s)) = [i \in 1..Len(s) |-> s[i]] /\ SubSeq(t, 1, Len(s)) = [i \in 1..Len(s) |-> t[i]]
  BY <1>1
<1>3. ASSUME IsPrefix(s, t), NEW i \in 1..Len(s) PROVE s[i] = t[i]
  <2>1. [j \in 1..Len(s) |-> s[j]] = [j \in 1..Len(s) |-> t[j]]
    BY <1>2, <1>3 DEF IsPrefix
  <2>2. [j \in 1..Len(s) |-> s[j]][i] = [j \in 1..Len(s) |-> t[j]][i]
    BY <2>1
  <2> QED
    BY <2>2
<1>4. ASSUME Len(s) <= Len(t), \A i \in 1..Len(s) : s[i] = t[i] PROVE IsPrefix(s, t)
  BY <1>2, <1>4 DEF IsPrefix
<1> QED
  BY <1>3, <1>4 DEF IsPrefix

LEMMA PrefixSelf ==
  ASSUME NEW T, NEW s \in Seq(T)
  PROVE  IsPrefix(s, s) /\ IsPrefix(<< >>, s)
<1>1. IsPrefix(s, s)
  BY PrefixIs
<1>2. IsPrefix(<< >>, s)
  <2>1. ASSUME NEW e \in Seq(T), Len(e) = 0 PROVE IsPrefix(e, s)
    <3>1. Len(s) \in Nat /\ Len(e) <= Len(s) /\ 1..Len(e) = {}
      BY <2>1
    <3> QED
      BY <2>1, <3>1, PrefixIs
  <2>2. << >> \in Seq(T) /\ Len(<< >>) = 0
    OBVIOUS
  <2> QED
    BY <2>1, <2>2
<1> QED
  BY <1>1, <1>2

LEMMA PrefixOfPrefix ==
  ASSUME NEW T, NEW s \in Seq(T), NEW t \in Seq(T), NEW u \in Seq(T), IsPrefix(s, t), IsPrefix(t, u)
  PROVE  IsPrefix(s, u)
<1>1. Len(s) \in Nat /\ Len(t) \in Nat /\ Len(u) \in Nat
  OBVIOUS
<1>2. Len(s) <= Len(t) /\ Len(t) <= Len(u) /\ (\A i \in 1..Len(s) : s[i] = t[i]) /\ (\A i \in 1..Len(t) : t[i] = u[i])
  BY PrefixIs
<1>3. Len(s) <= Len(u) /\ \A i \in 1..Len(s) : s[i] = u[i]
  BY <1>1, <1>2
<1> QED
  BY <1>3, PrefixIs

LEMMA PrefixGrows ==
  ASSUME NEW T, NEW t \in Seq(T), NEW e \in T
  PROVE  IsPrefix(t, Append(t, e))
<1>1. ASSUME NEW u \in Seq(T), Len(u) = Len(t) + 1, \A i \in 1..Len(t) : u[i] = t[i]
      PROVE  IsPrefix(t, u)
  <2>1. Len(t) \in Nat /\ Len(t) <= Len(u) /\ \A i \in 1..Len(t) : t[i] = u[i]
    BY <1>1
  <2> QED
    BY <2>1, PrefixIs
<1>2. Append(t, e) \in Seq(T) /\ Len(Append(t, e)) = Len(t) + 1
  OBVIOUS
<1>3. \A i \in 1..Len(t) : Append(t, e)[i] = t[i]
  OBVIOUS
<1> QED
  BY <1>1, <1>2, <1>3

-----------------------------------------------------------------------------
(* What counts of a list of lines.                                         *)

LEMMA TalkIsLine ==
  /\ Talk \subseteq Line /\ Line \cap Talk = Talk
  /\ \A s \in Session : Header(s) \in Line /\ Header(s) \notin Talk
<1>1. Talk \subseteq Line
  BY EntryIsLine DEF Talk
<1>2. ASSUME NEW s \in Session PROVE Header(s) \notin Talk
  <2>1. Header(s).n = 0
    BY DEF Header
  <2>2. \A e \in Entry : e.n \in 1..MaxEntries
    BY DEF Entry
  <2>3. 0 \notin 1..MaxEntries
    BY BoundsAssumption
  <2> QED
    BY <2>1, <2>2, <2>3 DEF Talk
<1> QED
  BY <1>1, <1>2, EntryIsLine

LEMMA PlainType ==
  ASSUME NEW f \in Seq(Line)
  PROVE  Plain(f) \in Seq(Talk)
<1>1. Plain(f) \in Seq(Line \cap Talk)
  BY OnlyType DEF Plain
<1> QED
  BY <1>1, TalkIsLine

LEMMA PlainEmpty == Plain(<< >>) = << >>
BY OnlyEmpty DEF Plain

LEMMA PlainAppend ==
  ASSUME NEW f \in Seq(Line), NEW e \in Entry
  PROVE  /\ e.k # "title" => e \in Talk /\ Plain(Append(f, e)) = Append(Plain(f), e)
         /\ e.k = "title" => Plain(Append(f, e)) = Plain(f)
<1>1. e \in Line /\ (e \in Talk <=> e.k # "title")
  BY EntryIsLine DEF Talk
<1>2. Plain(Append(f, e)) = IF e \in Talk THEN Append(Plain(f), e) ELSE Plain(f)
  BY <1>1, OnlyAppend DEF Plain
<1> QED
  BY <1>1, <1>2

LEMMA PlainBody ==
  ASSUME NEW m \in Seq(Entry), owner \in Session
  PROVE  Plain(Body(m)) = Plain(m)
<1>1. m \in Seq(Line) /\ Header(owner) \in Line /\ Header(owner) \notin Talk
  BY EntryIsLine, TalkIsLine
<1> QED
  BY <1>1, OnlySkips DEF Plain, Body

LEMMA PlainTail ==
  ASSUME NEW f \in Seq(Line), f # << >>, NEW s \in Session, f[1] = Header(s)
  PROVE  Plain(Tail(f)) = Plain(f)
<1>1. Tail(f) \in Seq(Line) /\ f = <<f[1]>> \o Tail(f)
  OBVIOUS
<1>2. f[1] \in Line /\ f[1] \notin Talk
  BY TalkIsLine
<1>3. Only(<<f[1]>> \o Tail(f), Talk) = Only(Tail(f), Talk)
  BY <1>1, <1>2, OnlySkips
<1> QED
  BY <1>1, <1>3 DEF Plain

\* What counts at the beginning of a list comes first in what counts of it.
LEMMA PlainPrefix ==
  ASSUME NEW f \in Seq(Line), NEW g \in Seq(Line), Len(g) <= Len(f), \A i \in 1..Len(g) : g[i] = f[i]
  PROVE  IsPrefix(Plain(g), Plain(f))
<1>1. Plain(g) \in Seq(Talk) /\ Plain(f) \in Seq(Talk)
  BY PlainType
<1>2. Len(Plain(g)) <= Len(Plain(f)) /\ \A i \in 1..Len(Plain(g)) : Plain(g)[i] = Plain(f)[i]
  BY OnlyBegins DEF Plain
<1> QED
  BY <1>1, <1>2, PrefixIs

-----------------------------------------------------------------------------
(* What a step says of the mishaps.                                        *)

\* A caller that leaves the manager orderly was in turn, and broke no trust.
LEMMA Tamed ==
  ASSUME NEW E, Note(E), Orderly'
  PROVE  E \subseteq {"cut"} /\ Orderly /\ "stray" \notin mishaps'
BY DEF Note, Orderly

LEMMA TamedInTurn ==
  ASSUME NEW E, Note(OutOfTurn \cup E) \/ Note(OutOfTurn), Orderly'
  PROVE  phase = "idle" /\ (Note(OutOfTurn \cup E) => E \subseteq {"cut"})
<1>1. Orderly' => Calm
  BY DEF Orderly, Calm
<1>2. phase = "idle"
  BY <1>1, InTurn
<1>3. ASSUME Note(OutOfTurn \cup E) PROVE E \subseteq {"cut"}
  BY <1>3, Tamed
<1> QED
  BY <1>2, <1>3

\* An orderly step leaves an orderly state.
LEMMA NextNotes ==
  ASSUME [Next]_vars
  PROVE  (Orderly' => Orderly) /\ (mishaps' = {} => mishaps = {})
<1>1. \A x \in mishaps : x \in mishaps' \/ "stray" \in mishaps'
  BY MishapForEver
<1> QED
  BY <1>1 DEF Orderly

-----------------------------------------------------------------------------
(* What a step does to the log, and that it is a step of SessionLog.       *)

\* What the manager holds back.
HeldBack == diskFailure \/ Fenced \/ ~ShouldHaveFile(mem)

AcceptedSame == \A s \in Session : Accepted(s)' = Accepted(s)
SavedSame == \A s \in Session : Saved(s)' = Saved(s)
CatchesUp == \A s \in Session : IsPrefix(Saved(s), Saved(s)') /\ IsPrefix(Saved(s)', Accepted(s)')

Stays == AcceptedSame /\ SavedSame
Saves == AcceptedSame /\ CatchesUp
Accepts == \E e \in Talk :
  /\ \A s \in Session : Accepted(s)' = IF s = owner THEN Append(Accepted(s), e) ELSE Accepted(s)
  /\ \A s \in Session : s = owner => HeldBack' \/ Saved(s)' = Accepted(s)'
  /\ CatchesUp
Forgets == (\A s \in Session : Accepted(s)' = IF s = owner THEN Saved(s) ELSE Accepted(s)) /\ SavedSame

LogStep == mishaps' # {} \/ Stays \/ Saves \/ Accepts \/ Forgets

LEMMA CatchesUpImplements ==
  ASSUME CatchesUp
  PROVE  Journal!CatchUp
<1>1. \A s, t : Journal!IsPrefix(s, t) <=> IsPrefix(s, t)
  BY DEF IsPrefix, Journal!IsPrefix
<1> QED
  BY <1>1 DEF CatchesUp, Journal!CatchUp

LEMMA LogStepImplements ==
  ASSUME LogStep, owner \in Session, mishaps' = {} => mishaps = {}
  PROVE  [Journal!Next]_(Journal!vars)
<1> DEFINE log == [s \in Session |-> Accepted(s)]
           saved == [s \in Session |-> Saved(s)]
<1>1. CASE mishaps' # {}
  BY <1>1 DEF Journal!Next
<1>2. CASE mishaps = {} /\ Stays
  <2>1. log' = [s \in Session |-> IF s \in {} THEN saved[s] ELSE log[s]] /\ saved' = saved
    BY <1>2 DEF Stays, AcceptedSame, SavedSame
  <2>2. {} \in SUBSET Session
    OBVIOUS
  <2> QED
    BY <1>2, <2>1, <2>2 DEF Journal!Next, Journal!Forget
<1>3. CASE mishaps = {} /\ Saves
  BY <1>3, CatchesUpImplements DEF Saves, AcceptedSame, Journal!Next, Journal!Save
<1>4. CASE mishaps = {} /\ Accepts
  <2>1. PICK e \in Talk : \A s \in Session : Accepted(s)' = IF s = owner THEN Append(Accepted(s), e) ELSE Accepted(s)
    BY <1>4 DEF Accepts
  <2>2. Journal!CatchUp
    BY <1>4, CatchesUpImplements DEF Accepts
  <2>3. log' = [log EXCEPT ![owner] = Append(@, e)]
    BY <2>1
  <2>4. PICK s \in Session : s = owner
    OBVIOUS
  <2>5. HeldBack' \/ saved'[s] = log'[s]
    BY <1>4, <2>4 DEF Accepts
  <2> HIDE DEF log, saved
  <2>6. log' = [log EXCEPT ![s] = Append(@, e)]
    BY <2>3, <2>4
  <2> USE DEF log, saved
  <2> QED
    BY <1>4, <2>2, <2>5, <2>6 DEF Journal!Next, Journal!Accept, HeldBack
<1>5. CASE mishaps = {} /\ Forgets
  <2>1. log' = [s \in Session |-> IF s \in {owner} THEN saved[s] ELSE log[s]]
    BY <1>5 DEF Forgets
  <2>2. saved' = saved
    BY <1>5 DEF Forgets, SavedSame
  <2>3. {owner} \in SUBSET Session
    OBVIOUS
  <2> QED
    BY <1>5, <2>1, <2>2, <2>3 DEF Journal!Next, Journal!Forget
<1> QED
  BY <1>1, <1>2, <1>3, <1>4, <1>5 DEF LogStep

-----------------------------------------------------------------------------
(* What the file, the flags and the work under way say about each other.   *)

Kind(i) == tasks[i].kind
InHand(i) == tasks[i].pc \in {"staging", "published"} /\ Current(i)
Writes(i) == Kind(i) \in {"rewrite", "title"} /\ tasks[i].pc # "done"
\* The session is to have a file whatever fileIsCurrent says.
Permitted == forceFileCreation \/ \E n \in DOMAIN mem : mem[n].k = "assistant"
\* The rewrite will answer for everything in memory.
Answers(i) == ~dirty /\ (Kind(i) = "title" \/ ~diskFailure)

\* Every file starts with the header of its session.
Headed == \A s \in Session : /\ file[s] # << >> => file[s][1] = Header(s)
                             /\ backup[s] # << >> => backup[s][1] = Header(s)
\* The disk is never ahead of memory.
Journaled == IsPrefix(Saved(owner), Plain(mem))
\* Only a session that is to have a file gets one.
Allowed == phase = "idle" /\ (fileIsCurrent \/ Exists(sess) \/ \E i \in DOMAIN tasks : Writes(i)) => Permitted
\* A file that is said to be current is there.
Present == phase = "idle" /\ fileIsCurrent /\ ~diskFailure => Exists(sess)
\* An entry that was left to the rewrite under way is not forgotten.
Behind == phase = "idle" /\ dirty /\ fence = epoch => rewriteRequired
\* A file that nobody is to rewrite is complete.
Complete == phase = "idle" /\ ~diskFailure /\ Exists(sess) /\ ~rewriteRequired => Saved(sess) = Plain(mem)
\* What is staged continues the file, and is complete unless it is dirty.
Staged == \A i \in DOMAIN tasks : tasks[i].pc = "staging" /\ Current(i) =>
  /\ tasks[i].path = sess /\ tasks[i].body[1] = Header(sess)
  /\ IsPrefix(Saved(sess), Plain(tasks[i].body)) /\ IsPrefix(Plain(tasks[i].body), Plain(mem))
  /\ Answers(i) => Plain(tasks[i].body) = Plain(mem)
Replaced == \A i \in DOMAIN tasks : tasks[i].pc = "published" /\ Current(i) =>
  /\ Exists(sess)
  /\ Answers(i) => Saved(sess) = Plain(mem)
Titles == \A i \in DOMAIN tasks : Kind(i) = "title" /\ tasks[i].pc = "queued" => tasks[i].body[1].k = "title"

Books == /\ Headed /\ Journaled /\ Allowed /\ Present /\ Behind /\ Complete
         /\ Staged /\ Replaced /\ Titles

\* What is known in any state of a behaviour.
Sound == Typed /\ Ordered /\ Books

LEMMA SoundParts ==
  ASSUME Sound
  PROVE  /\ Typed /\ Types /\ Ordered /\ Books /\ Chain /\ Fences /\ Contents /\ Counts /\ Work
         /\ Sheets /\ Stages /\ Phases
         /\ mem \in Seq(Entry) /\ mem \in Seq(Line) /\ owner \in Session /\ sess \in Session
         /\ (phase = "idle" => owner = sess)
         /\ tasks \in Seq(Task)
<1>1. /\ Typed /\ Types /\ Ordered /\ Books /\ Chain /\ Fences /\ Contents /\ Counts /\ Work
      /\ Sheets /\ Stages /\ Phases
  BY DEF Sound, Ordered, Typed, Types
<1>2. mem \in Seq(Entry) /\ owner \in Session /\ sess \in Session /\ tasks \in Seq(Task)
  BY <1>1 DEF Contents, Work
<1>3. mem \in Seq(Line)
  BY <1>2, EntryIsLine
<1>4. phase = "idle" => owner = sess
  BY <1>1 DEF Phases
<1> QED
  BY <1>1, <1>2, <1>3, <1>4

LEMMA OnDiskType ==
  ASSUME Sheets, NEW s \in Session
  PROVE  OnDisk(s) \in Seq(Line) /\ Sheet(OnDisk(s)) /\ file[s] \in Seq(Line) /\ Sheet(file[s])
BY DEF Sheets, OnDisk

LEMMA SavedType ==
  ASSUME Sheets, NEW s \in Session
  PROVE  Saved(s) \in Seq(Talk) /\ IsPrefix(Saved(s), Saved(s))
<1>1. Saved(s) \in Seq(Talk)
  BY OnDiskType, PlainType DEF Saved
<1> QED
  BY <1>1, PrefixSelf

LEMMA AcceptedType ==
  ASSUME Sheets, mem \in Seq(Line), NEW s \in Session
  PROVE  Accepted(s) \in Seq(Talk)
BY SavedType, PlainType DEF Accepted

\* What the disk holds, when nothing happens to it.
LEMMA SavedKept ==
  ASSUME NEW s \in Session, file'[s] = file[s], backup'[s] = backup[s]
  PROVE  Saved(s)' = Saved(s) /\ (Exists(s)' <=> Exists(s)) /\ OnDisk(s)' = OnDisk(s)
BY DEF Saved, OnDisk, Exists, Plain

LEMMA DiskKept ==
  ASSUME UNCHANGED <<file, backup>>
  PROVE  SavedSame /\ \A s \in Session : Saved(s)' = Saved(s) /\ (Exists(s)' <=> Exists(s)) /\ OnDisk(s)' = OnDisk(s)
<1>1. \A s \in Session : file'[s] = file[s] /\ backup'[s] = backup[s]
  OBVIOUS
<1>2. \A s \in Session : Saved(s)' = Saved(s) /\ (Exists(s)' <=> Exists(s)) /\ OnDisk(s)' = OnDisk(s)
  BY <1>1, SavedKept
<1> QED
  BY <1>2 DEF SavedSame

\* A step that leaves files and memory alone.
LEMMA QuietLog ==
  ASSUME UNCHANGED <<memory, file, backup>>
  PROVE  Stays
<1>1. SavedSame
  BY DiskKept
<1>2. \A s \in Session : Accepted(s)' = Accepted(s)
  BY <1>1 DEF Accepted, memory, SavedSame, Plain
<1> QED
  BY <1>1, <1>2 DEF Stays, AcceptedSame

\* What is in hand answers for no more than before.
Handed == \A i \in DOMAIN tasks' : tasks'[i].pc \in {"staging", "published"} /\ Current(i)' =>
            i \in DOMAIN tasks /\ tasks'[i] = tasks[i] /\ Current(i) /\ (Answers(i)' => Answers(i))

LEMMA HandedKeeps ==
  ASSUME Sound, Handed, Plain(mem)' = Plain(mem), UNCHANGED <<sess, file, backup>>
  PROVE  Staged' /\ Replaced'
<1>1. sess \in Session /\ sess' = sess /\ Saved(sess)' = Saved(sess) /\ (Exists(sess)' <=> Exists(sess))
  <2> QED
    BY SoundParts DEF Saved, OnDisk, Exists, Plain
<1>2. Plain(mem)' = Plain(mem) /\ \A b : Plain(b)' = Plain(b)
  BY DEF Plain
<1>3. Staged /\ Replaced
  BY DEF Sound, Books
<1>4. Staged'
  <2> SUFFICES ASSUME NEW i \in DOMAIN tasks', tasks'[i].pc = "staging", Current(i)'
               PROVE  /\ tasks'[i].path = sess /\ tasks'[i].body[1] = Header(sess)
                      /\ IsPrefix(Saved(sess), Plain(tasks'[i].body)) /\ IsPrefix(Plain(tasks'[i].body), Plain(mem))
                      /\ Answers(i)' => Plain(tasks'[i].body) = Plain(mem)
    BY <1>1, <1>2 DEF Staged
  <2>1. i \in DOMAIN tasks /\ tasks'[i] = tasks[i] /\ Current(i) /\ (Answers(i)' => Answers(i))
    BY DEF Handed
  <2> QED
    BY <1>3, <2>1 DEF Staged
<1>5. Replaced'
  <2> SUFFICES ASSUME NEW i \in DOMAIN tasks', tasks'[i].pc = "published", Current(i)'
               PROVE  Exists(sess) /\ (Answers(i)' => Saved(sess) = Plain(mem))
    BY <1>1, <1>2 DEF Replaced
  <2>1. i \in DOMAIN tasks /\ tasks'[i] = tasks[i] /\ Current(i) /\ (Answers(i)' => Answers(i))
    BY DEF Handed
  <2> QED
    BY <1>3, <2>1 DEF Replaced
<1> QED
  BY <1>4, <1>5

\* A step that leaves files and memory alone, and what it must not do to the
\* flags.
FlagsHonest ==
  /\ forceFileCreation => forceFileCreation'
  /\ (fileIsCurrent' \/ \E i \in DOMAIN tasks' : Writes(i)')
       => fileIsCurrent \/ Exists(sess) \/ (\E i \in DOMAIN tasks : Writes(i)) \/ forceFileCreation'
          \/ \E n \in DOMAIN mem : mem[n].k = "assistant"
  /\ fileIsCurrent' /\ ~diskFailure' => Exists(sess) \/ (fileIsCurrent /\ ~diskFailure)
  /\ dirty' /\ fence' = epoch' => rewriteRequired' \/ phase # "idle"
  /\ ~diskFailure' /\ ~rewriteRequired' /\ Exists(sess)
       => (~diskFailure /\ ~rewriteRequired) \/ Saved(sess) = Plain(mem) \/ phase # "idle"

LEMMA BooksQuiet ==
  ASSUME Sound, Handed, UNCHANGED <<memory, place, file, backup>>, FlagsHonest, Titles'
  PROVE  Books' /\ LogStep
<1>1. /\ Headed /\ Journaled /\ Allowed /\ Present /\ Behind /\ Complete
      /\ sess \in Session /\ owner \in Session
  BY SoundParts DEF Books
<1>2. UNCHANGED <<mem, owner, sess, phase, file, backup>>
  BY DEF memory, place
<1>3. /\ Saved(sess)' = Saved(sess) /\ Saved(owner)' = Saved(owner) /\ (Exists(sess)' <=> Exists(sess))
      /\ Plain(mem)' = Plain(mem)
  BY <1>2 DEF Saved, OnDisk, Exists, Plain
<1>4. Headed' /\ Journaled'
  BY <1>1, <1>2, <1>3 DEF Headed, Journaled
<1>5. Allowed'
  BY <1>1, <1>2, <1>3 DEF Allowed, Permitted, FlagsHonest
<1>6. Present' /\ Behind' /\ Complete'
  BY <1>1, <1>2, <1>3 DEF Present, Behind, Complete, FlagsHonest
<1>7. Staged' /\ Replaced'
  BY <1>2, <1>3, HandedKeeps
<1>8. LogStep
  BY QuietLog DEF LogStep
<1> QED
  BY <1>4, <1>5, <1>6, <1>7, <1>8 DEF Books

LEMMA TitlesMove ==
  ASSUME Titles, NEW i \in DOMAIN tasks, NEW p, Moves(i, p), p # "queued"
  PROVE  Titles'
<1>1. \A j \in DOMAIN tasks' : tasks'[j].pc = "queued" => j \in DOMAIN tasks /\ tasks'[j] = tasks[j]
  BY DEF Moves
<1> QED
  BY <1>1 DEF Titles, Kind

LEMMA TitlesAdd ==
  ASSUME Titles, NEW kind, NEW body, Adds(kind, body), kind = "title" => body[1].k = "title"
  PROVE  Titles'
<1>1. \A j \in DOMAIN tasks' : (j \in DOMAIN tasks /\ tasks'[j] = tasks[j]) \/ (tasks'[j].kind = kind /\ tasks'[j].body = body)
  BY DEF Adds
<1> QED
  BY <1>1 DEF Titles, Kind

LEMMA HandedMove ==
  ASSUME NEW i \in DOMAIN tasks, NEW p, Moves(i, p), UNCHANGED epoch,
         p \notin {"staging", "published"} \/ ~Current(i),
         ((dirty => dirty') /\ (diskFailure => diskFailure')) \/ \A j \in DOMAIN tasks \ {i} : ~InHand(j)
  PROVE  Handed
<1>1. /\ DOMAIN tasks' = DOMAIN tasks /\ \A j \in DOMAIN tasks \ {i} : tasks'[j] = tasks[j]
      /\ tasks'[i].pc = p /\ tasks'[i].epoch = tasks[i].epoch
  BY DEF Moves
<1> SUFFICES ASSUME NEW j \in DOMAIN tasks', tasks'[j].pc \in {"staging", "published"}, Current(j)'
             PROVE  j \in DOMAIN tasks /\ tasks'[j] = tasks[j] /\ Current(j) /\ (Answers(j)' => Answers(j))
  BY DEF Handed
<1>2. j # i
  BY <1>1 DEF Current
<1>3. tasks'[j] = tasks[j] /\ Current(j) /\ InHand(j)
  BY <1>1, <1>2 DEF Current, InHand
<1>4. (dirty => dirty') /\ (diskFailure => diskFailure')
  BY <1>1, <1>2, <1>3
<1> QED
  BY <1>1, <1>3, <1>4 DEF Answers, Kind

LEMMA HandedAdd ==
  ASSUME NEW kind, NEW body, Adds(kind, body), UNCHANGED <<epoch, dirty, diskFailure>>
  PROVE  Handed
<1>1. \A j \in DOMAIN tasks' : (j \in DOMAIN tasks /\ tasks'[j] = tasks[j]) \/ tasks'[j].pc = "queued"
  BY DEF Adds
<1> QED
  BY <1>1 DEF Handed, Current, Answers, Kind

\* Whatever of the present epoch is under way is alone.
LEMMA Alone ==
  ASSUME Typed, Ordered, NEW i \in DOMAIN tasks, Current(i), tasks[i].pc # "queued", tasks[i].pc # "done"
  PROVE  \A j \in DOMAIN tasks \ {i} : ~InHand(j)
<1> SUFFICES ASSUME NEW j \in DOMAIN tasks \ {i}, InHand(j) PROVE FALSE
  OBVIOUS
<1>1. Current(j) /\ tasks[j].pc # "queued" /\ tasks[j].pc # "done" /\ Chain
  BY DEF InHand, Ordered
<1> QED
  BY <1>1, OneUnderWay

LEMMA ReadyAlone ==
  ASSUME Typed, Ordered, NEW i \in DOMAIN tasks, Current(i), Ready(i)
  PROVE  \A j \in DOMAIN tasks : ~Held(j) /\ ~InHand(j)
<1>0. Chain /\ tasks[i].pc = "queued"
  BY DEF Ordered, Ready
<1> SUFFICES ASSUME NEW j \in DOMAIN tasks, Held(j) \/ InHand(j) PROVE FALSE
  OBVIOUS
<1>1. j # i /\ Current(j) /\ tasks[j].pc # "queued" /\ tasks[j].pc # "done"
  BY <1>0, HeldIsUnderWay DEF InHand
<1>2. ~(j < i)
  BY <1>0, <1>1, ReadyIsNext
<1>3. i < j
  BY <1>1, <1>2, ChainNumbers
<1> QED
  BY <1>0, <1>1, <1>3 DEF Chain, Lined

-----------------------------------------------------------------------------
(* One action at a time: those that leave files and memory alone.          *)

\* Scheduling leaves the flags as they are, or makes the file wanted.
LEMMA ScheduleBooks ==
  ASSUME Sound, NEW kind \in Kinds \ {"title"}, NEW body \in Seq(Line), Schedule(kind, body),
         kind = "rewrite" => ShouldHaveFile(mem) \/ forceFileCreation',
         forceFileCreation => forceFileCreation',
         UNCHANGED <<memory, place, file, backup, fileIsCurrent, rewriteRequired, diskFailure, epoch, fence, dirty>>
  PROVE  Books' /\ LogStep
<1>1. Adds(kind, body)
  BY SoundParts, ScheduleAdds
<1>2. Handed
  BY <1>1, HandedAdd
<1>3. Titles'
  BY <1>1, TitlesAdd DEF Sound, Books
<1>4. \A j \in DOMAIN tasks' : Writes(j)' => (j \in DOMAIN tasks /\ Writes(j)) \/ kind = "rewrite"
  <2>1. \A j \in DOMAIN tasks' : (j \in DOMAIN tasks /\ tasks'[j] = tasks[j]) \/ tasks'[j].kind = kind
    BY <1>1 DEF Adds
  <2> QED
    BY <2>1 DEF Writes, Kind
<1>5. FlagsHonest
  BY <1>4 DEF FlagsHonest, ShouldHaveFile, Sound, Books, Behind
<1> QED
  BY <1>2, <1>3, <1>5, BooksQuiet

LEMMA RewriteEntriesBooks ==
  ASSUME Sound, Orderly', RewriteEntries
  PROVE  Books' /\ LogStep
<1>1. Schedule("rewrite", << >>) /\ ShouldHaveFile(mem)
      /\ UNCHANGED <<memory, place, flags, diskFailure, file, backup, epoch, fencing>>
  BY TamedInTurn DEF RewriteEntries, disk
<1> QED
  BY <1>1, ScheduleBooks, LineBodies DEF Kinds, flags, fencing

LEMMA EnsureOnDiskBooks ==
  ASSUME Sound, EnsureOnDisk
  PROVE  Books' /\ LogStep
<1>1. /\ forceFileCreation' = TRUE
      /\ UNCHANGED <<memory, place, fileIsCurrent, rewriteRequired, diskFailure, file, backup, epoch, fencing>>
      /\ UNCHANGED chain \/ Schedule("rewrite", << >>)
  BY DEF EnsureOnDisk, disk
<1>2. CASE Schedule("rewrite", << >>)
  BY <1>1, <1>2, ScheduleBooks, LineBodies DEF Kinds, fencing
<1>3. CASE UNCHANGED chain
  <2>1. Handed /\ Titles'
    BY <1>1, <1>3 DEF Handed, Current, Answers, Kind, chain, fencing, Sound, Books, Titles
  <2>2. FlagsHonest
    BY <1>1, <1>3 DEF FlagsHonest, chain, fencing, Sound, Books, Behind
  <2> QED
    BY <1>1, <2>1, <2>2, BooksQuiet
<1> QED
  BY <1>1, <1>2, <1>3

LEMMA BarrierBooks ==
  ASSUME Sound, NEW kind \in {"flush", "close"}, Barrier(kind)
  PROVE  Books' /\ LogStep
<1> DEFINE body == IF ShouldHaveFile(mem) THEN mem ELSE << >>
<1>1. Schedule(kind, body) /\ UNCHANGED <<memory, place, flags, diskFailure, file, backup, epoch, fencing>>
  BY DEF Barrier, disk
<1>2. body \in Seq(Line) /\ kind \in Kinds \ {"title"} /\ kind # "rewrite"
  BY SoundParts, LineBodies DEF Kinds
<1> HIDE DEF body
<1> QED
  BY <1>1, <1>2, ScheduleBooks DEF flags, fencing

\* A task that ends, or goes on, without having rewritten the file.
LEMMA MoveBooks ==
  ASSUME Sound, NEW i \in DOMAIN tasks, NEW p, Moves(i, p), p # "queued", tasks[i].pc # "done",
         p \notin {"staging", "published"} \/ ~Current(i),
         ((dirty => dirty') /\ (diskFailure => diskFailure')) \/ \A j \in DOMAIN tasks \ {i} : ~InHand(j),
         forceFileCreation => forceFileCreation',
         fileIsCurrent' => fileIsCurrent \/ Exists(sess) \/ Writes(i),
         fileIsCurrent' /\ ~diskFailure' => Exists(sess) \/ (fileIsCurrent /\ ~diskFailure),
         dirty' /\ fence' = epoch' => rewriteRequired' \/ phase # "idle",
         ~diskFailure' /\ ~rewriteRequired' => (~diskFailure /\ ~rewriteRequired) \/ Saved(sess) = Plain(mem),
         UNCHANGED <<memory, place, file, backup, epoch>>
  PROVE  Books' /\ LogStep
<1>1. Handed
  BY HandedMove
<1>2. Titles'
  BY TitlesMove DEF Sound, Books
<1>3. \A j \in DOMAIN tasks' : Writes(j)' => j \in DOMAIN tasks /\ Writes(j)
  BY DEF Moves, Writes, Kind
<1>4. FlagsHonest
  BY <1>3 DEF FlagsHonest
<1> QED
  BY <1>1, <1>2, <1>4, BooksQuiet

\* A task that changes no flag.
LEMMA PlainMoveBooks ==
  ASSUME Sound, NEW i \in DOMAIN tasks, NEW p, Moves(i, p), p # "queued", tasks[i].pc # "done",
         p \notin {"staging", "published"} \/ ~Current(i),
         fence' = fence \/ (fence' = 0 /\ fence # epoch), diskFailure => diskFailure',
         UNCHANGED <<memory, place, file, backup, epoch, flags, dirty>>
  PROVE  Books' /\ LogStep
<1>1. fence' = epoch' => fence = epoch
  BY SoundParts, FenceNumbers
<1>2. dirty' /\ fence' = epoch' => rewriteRequired' \/ phase # "idle"
  BY <1>1 DEF Sound, Books, Behind, flags
<1> QED
  BY <1>2, MoveBooks DEF flags

LEMMA FinishBooks ==
  ASSUME Sound, NEW i \in DOMAIN tasks, tasks' = Finished(i), tasks[i].pc # "done",
         fence' = fence \/ (fence' = 0 /\ fence # epoch), diskFailure => diskFailure',
         UNCHANGED <<memory, place, file, backup, epoch, flags, dirty>>
  PROVE  Books' /\ LogStep
<1>1. Moves(i, "done")
  BY FinishMoves, SoundParts
<1> QED
  BY <1>1, PlainMoveBooks

LEMMA SkipBooks ==
  ASSUME Sound, NEW i \in DOMAIN tasks, Skip(i) \/ RunFlush(i)
  PROVE  Books' /\ LogStep
<1>1. /\ tasks[i].pc # "done" /\ tasks' = Finished(i)
      /\ UNCHANGED <<memory, place, file, backup, epoch, flags, fence, dirty, diskFailure>>
  BY DEF Skip, RunFlush, Starts, Ready, fencing, disk
<1> QED
  BY <1>1, FinishBooks

LEMMA CloserBooks ==
  ASSUME Sound, NEW i \in DOMAIN tasks, StartClose(i) \/ StartDrain(i)
  PROVE  Books' /\ LogStep
<1>1. /\ tasks[i].pc # "done" /\ tasks' = [tasks EXCEPT ![i].pc = "closing"]
      /\ UNCHANGED <<memory, place, file, backup, epoch, flags, fence, dirty, diskFailure>>
  BY DEF StartClose, StartDrain, Starts, Ready, fencing, disk
<1>2. Moves(i, "closing")
  BY <1>1, SoundParts, MoveTo DEF Progress
<1> QED
  BY <1>1, <1>2, PlainMoveBooks

LEMMA FinishCloseBooks ==
  ASSUME Sound, NEW i \in DOMAIN tasks, FinishClose(i)
  PROVE  Books' /\ LogStep
<1>1. /\ tasks[i].pc # "done" /\ tasks' = Finished(i) /\ fileIsCurrent' = (fileIsCurrent \/ Exists(sess))
      /\ UNCHANGED <<memory, place, file, backup, epoch, rewriteRequired, forceFileCreation, fence, dirty, diskFailure>>
  BY DEF FinishClose, fencing, disk
<1>2. Moves(i, "done")
  BY <1>1, FinishMoves, SoundParts
<1>3. dirty' /\ fence' = epoch' => rewriteRequired' \/ phase # "idle"
  BY <1>1 DEF Sound, Books, Behind
<1> QED
  BY <1>1, <1>2, <1>3, MoveBooks

\* A rewrite of the present epoch begins, or goes around again.
LEMMA RaiseBooks ==
  ASSUME Sound, NEW i \in DOMAIN tasks, RaiseFence(i), tasks[i].pc # "done",
         \A j \in DOMAIN tasks \ {i} : ~InHand(j),
         UNCHANGED <<memory, place, flags, diskFailure, file, backup, epoch>>
  PROVE  Books' /\ LogStep
<1>1. Moves(i, "closing") /\ dirty' = FALSE
  BY SoundParts, MoveTo DEF RaiseFence, Progress, disk
<1> QED
  BY <1>1, MoveBooks DEF flags

LEMMA StartRewriteBooks ==
  ASSUME Sound, NEW i \in DOMAIN tasks, StartRewrite(i)
  PROVE  Books' /\ LogStep
<1>1. /\ tasks[i].pc # "done" /\ Ready(i) /\ Current(i) /\ RaiseFence(i)
      /\ UNCHANGED <<memory, place, flags, diskFailure, file, backup, epoch>>
  BY DEF StartRewrite, Starts, Ready, Current, disk
<1>2. \A j \in DOMAIN tasks \ {i} : ~InHand(j)
  BY <1>1, ReadyAlone, SoundParts
<1> QED
  BY <1>1, <1>2, RaiseBooks

\* A title's line under way: the file it was meant for is there.
LEMMA TitleHasFile ==
  ASSUME Sound, NEW i \in DOMAIN tasks, Kind(i) = "title", Current(i), ~diskFailure,
         tasks[i].pc = "appended" \/ Ready(i)
  PROVE  phase = "idle" /\ fileIsCurrent /\ Exists(sess)
<1>1. Typed /\ Ordered /\ TitleWaits /\ Phases /\ Present
  BY SoundParts DEF Fences, Books
<1>2. tasks[i].pc = "queued" \/ tasks[i].pc = "appended"
  BY DEF Ready
<1>3. \A j \in DOMAIN tasks : ~(Held(j) /\ j < i)
  <2>1. CASE tasks[i].pc = "appended"
    <3> SUFFICES ASSUME NEW j \in DOMAIN tasks, Held(j), j < i PROVE FALSE
      OBVIOUS
    <3>1. tasks[j].pc # "done" /\ Current(j) /\ Chain
      BY <1>1, HeldIsUnderWay DEF Ordered
    <3> QED
      BY <2>1, <3>1 DEF Chain, Lined
  <2>2. CASE Ready(i)
    BY <1>1, <2>2, ReadyAlone
  <2> QED
    BY <2>1, <2>2
<1>4. UpToDate
  BY <1>1, <1>2, <1>3 DEF TitleWaits, TitleUnderWay, Kind
<1>5. phase = "idle"
  BY <1>1, <1>2 DEF Phases, Kind
<1> QED
  BY <1>1, <1>4, <1>5 DEF UpToDate, Present

LEMMA FinishTitleBooks ==
  ASSUME Sound, NEW i \in DOMAIN tasks, FinishTitle(i)
  PROVE  Books' /\ LogStep
<1>1. /\ tasks[i].pc = "appended" /\ tasks[i].kind = "title"
      /\ UNCHANGED <<memory, place, rewriteRequired, forceFileCreation, diskFailure, file, backup, epoch>>
  BY StagingKind, SoundParts DEF FinishTitle, disk
<1>2. Current(i)
  BY <1>1, SoundParts DEF Fences, TitleRuns
<1>3. CASE /\ ~diskFailure /\ fileIsCurrent' = (fileIsCurrent \/ tasks[i].epoch = epoch) /\ tasks' = Finished(i)
           /\ UNCHANGED fencing
  <2>1. Exists(sess)
    BY <1>1, <1>2, <1>3, TitleHasFile DEF Kind
  <2>2. Moves(i, "done")
    BY <1>3, FinishMoves, SoundParts
  <2>3. dirty' /\ fence' = epoch' => rewriteRequired' \/ phase # "idle"
    BY <1>1, <1>3 DEF Sound, Books, Behind, fencing
  <2> QED
    BY <1>1, <1>3, <2>1, <2>2, <2>3, MoveBooks DEF fencing
<1>4. CASE RaiseFence(i) /\ UNCHANGED fileIsCurrent
  <2>1. \A j \in DOMAIN tasks \ {i} : ~InHand(j)
    BY <1>1, <1>2, Alone, SoundParts
  <2> QED
    BY <1>1, <1>4, <2>1, RaiseBooks DEF flags
<1> QED
  BY <1>3, <1>4 DEF FinishTitle

-----------------------------------------------------------------------------
(* Those that change the file at the session's path.                       *)

\* A file is put at the session's path.
LEMMA PutDisk ==
  ASSUME Sheets, sess \in Session, NEW f \in Seq(Line), f # << >>,
         file' = [file EXCEPT ![sess] = f], UNCHANGED <<backup, sess>>
  PROVE  /\ \A s \in Session \ {sess} : /\ Saved(s)' = Saved(s) /\ (Exists(s)' <=> Exists(s))
                                        /\ file'[s] = file[s]
         /\ Saved(sess)' = Plain(f) /\ Exists(sess)' /\ file'[sess] = f
<1>1. file'[sess] = f /\ \A s \in Session \ {sess} : file'[s] = file[s] /\ backup'[s] = backup[s]
  BY DEF Sheets
<1>2. \A s \in Session \ {sess} : Saved(s)' = Saved(s) /\ (Exists(s)' <=> Exists(s))
  BY <1>1, SavedKept
<1>3. Exists(sess)' /\ OnDisk(sess)' = f
  BY <1>1 DEF Exists, OnDisk
<1>4. Saved(sess)' = Plain(f)
  BY <1>3 DEF Saved, Plain
<1> QED
  BY <1>1, <1>2, <1>3, <1>4

\* The disk of the session may catch up with memory.
LEMMA SavesLog ==
  ASSUME Sound, phase = "idle", UNCHANGED <<memory, sess>>,
         \A s \in Session \ {sess} : Saved(s)' = Saved(s),
         mishaps' = {} => IsPrefix(Saved(sess), Saved(sess)'), IsPrefix(Saved(sess)', Plain(mem))
  PROVE  LogStep /\ Journaled'
<1>1. owner = sess /\ Sheets /\ mem \in Seq(Line) /\ sess \in Session
  BY SoundParts
<1>2. owner' = owner /\ mem' = mem /\ Plain(mem)' = Plain(mem)
  BY DEF memory, Plain
<1>3. \A s \in Session : Accepted(s)' = Accepted(s)
  BY <1>1, <1>2 DEF Accepted
<1>4. ASSUME mishaps' = {} PROVE \A s \in Session : IsPrefix(Saved(s), Saved(s)') /\ IsPrefix(Saved(s)', Accepted(s)')
  <2> SUFFICES ASSUME NEW s \in Session
               PROVE  IsPrefix(Saved(s), Saved(s)') /\ IsPrefix(Saved(s)', Accepted(s)')
    OBVIOUS
  <2>1. CASE s = sess
    BY <1>1, <1>2, <1>4, <2>1 DEF Accepted
  <2>2. CASE s # sess
    BY <1>1, <1>2, <2>2, SavedType DEF Accepted
  <2> QED
    BY <2>1, <2>2
<1>5. Journaled'
  BY <1>1, <1>2 DEF Journaled
<1> QED
  BY <1>3, <1>4, <1>5 DEF LogStep, Saves, AcceptedSame, CatchesUp

LEMMA HeadedPut ==
  ASSUME Headed, Sheets, sess \in Session, NEW f \in Seq(Line), f[1] = Header(sess),
         file' = [file EXCEPT ![sess] = f], UNCHANGED backup
  PROVE  Headed'
<1>1. file'[sess] = f /\ \A s \in Session \ {sess} : file'[s] = file[s]
  BY DEF Sheets
<1> QED
  BY <1>1 DEF Headed

\* What is known of a rewrite of the present epoch.
LEMMA InHandFacts ==
  ASSUME Sound, NEW i \in DOMAIN tasks, tasks[i].pc \in {"staging", "published"}
  PROVE  /\ phase = "idle" /\ Kind(i) \in {"rewrite", "title"} /\ tasks[i].pc # "done" /\ tasks[i].pc # "queued"
         /\ Permitted
         /\ Current(i) => fence = epoch /\ \A j \in DOMAIN tasks \ {i} : ~InHand(j)
<1>1. tasks[i].kind \in {"rewrite", "title"} /\ tasks[i].kind # "drain"
  BY StagingKind, SoundParts
<1>2. phase = "idle"
  BY <1>1, SoundParts DEF Phases
<1>3. Permitted
  BY <1>1, <1>2 DEF Sound, Books, Allowed, Writes, Kind
<1>4. ASSUME Current(i) PROVE fence = epoch
  BY <1>1, <1>4, SoundParts DEF Fences, FenceUp, Held, Rewriting
<1>5. ASSUME Current(i) PROVE \A j \in DOMAIN tasks \ {i} : ~InHand(j)
  BY <1>5, Alone, SoundParts
<1> QED
  BY <1>1, <1>2, <1>3, <1>4, <1>5 DEF Kind

LEMMA SerializeBooks ==
  ASSUME Sound, NEW i \in DOMAIN tasks, Serialize(i)
  PROVE  Books' /\ LogStep
<1>1. /\ tasks[i].kind \in {"rewrite", "title"} /\ tasks[i].pc = "closing"
      /\ UNCHANGED <<memory, place, flags, diskFailure, file, backup, epoch, dirty>>
  BY DEF Serialize, disk
<1>2. CASE tasks[i].epoch # epoch /\ tasks' = Finished(i) /\ LowerFence(i)
  BY <1>1, <1>2, LowerOther, FinishBooks DEF Current
<1>3. CASE /\ tasks[i].epoch = epoch /\ UNCHANGED fence
           /\ tasks' = [tasks EXCEPT ![i].pc = "staging", ![i].body = Body(mem), ![i].path = sess]
  <2>1. /\ mem \in Seq(Entry) /\ mem \in Seq(Line) /\ owner \in Session /\ sess \in Session /\ tasks \in Seq(Task)
        /\ phase = "idle" /\ owner = sess /\ Sheets
    <3>1. phase = "idle"
      BY <1>1, SoundParts DEF Phases
    <3> QED
      BY <3>1, SoundParts
  <2>2. Body(mem) \in Seq(Line) /\ Body(mem)[1] = Header(owner) /\ Plain(Body(mem)) = Plain(mem)
    BY <2>1, BodyType, PlainBody
  <2>3. Moves(i, "staging") /\ tasks'[i].path = sess /\ tasks'[i].body = Body(mem)
    BY <1>3, <2>1, <2>2, StageMoves
  <2>4. \A j \in DOMAIN tasks \ {i} : ~InHand(j)
    BY <1>1, <1>3, Alone, SoundParts DEF Current
  <2>5. \A j \in DOMAIN tasks' : j \in DOMAIN tasks /\ (InHand(j)' => j = i)
    BY <1>1, <2>3, <2>4 DEF InHand, Current, Moves
  <2>6. UNCHANGED <<sess, mem, owner, file, backup>>
    BY <1>1 DEF memory, place, disk
  <2>7. Staged'
    <3>1. Plain(tasks'[i].body) = Plain(mem) /\ Plain(mem) \in Seq(Talk)
      BY <2>1, <2>2, <2>3, PlainType
    <3>2. IsPrefix(Saved(sess), Plain(tasks'[i].body)) /\ IsPrefix(Plain(tasks'[i].body), Plain(mem))
      BY <2>1, <3>1, PrefixSelf DEF Sound, Books, Journaled
    <3>3. Saved(sess)' = Saved(sess)
      BY <2>6 DEF Saved, OnDisk, Exists, Plain
    <3>4. \A j \in DOMAIN tasks' : tasks'[j].pc = "staging" /\ Current(j)' => j = i
      BY <2>5 DEF InHand
    <3> QED
      BY <2>1, <2>2, <2>3, <2>6, <3>1, <3>2, <3>3, <3>4 DEF Staged, Plain
  <2>8. Replaced'
    <3>1. tasks'[i].pc = "staging"
      BY <2>3 DEF Moves
    <3> QED
      BY <2>5, <3>1 DEF InHand, Replaced
  <2>9. Titles'
    BY <2>3, TitlesMove DEF Sound, Books
  <2>10. \A j \in DOMAIN tasks : Writes(j)' <=> Writes(j)
    BY <1>1, <2>3 DEF Writes, Kind, Moves
  <2>11. Headed' /\ Journaled' /\ Allowed' /\ Present' /\ Behind' /\ Complete'
    <3>1. UNCHANGED <<phase, fileIsCurrent, rewriteRequired, forceFileCreation, diskFailure, dirty, fence, epoch>>
      BY <1>1, <1>3 DEF place, flags
    <3>2. DOMAIN tasks' = DOMAIN tasks
      BY <2>3 DEF Moves
    <3>3. Headed' /\ Journaled'
      BY <2>6 DEF Sound, Books, Headed, Journaled, Saved, OnDisk, Exists, Plain
    <3>4. Allowed' /\ Present' /\ Behind' /\ Complete'
      BY <2>6, <2>10, <3>1, <3>2 DEF Sound, Books, Allowed, Permitted, Present, Behind, Complete, Saved, OnDisk, Exists, Plain
    <3> QED
      BY <3>3, <3>4
  <2>12. LogStep
    BY <1>1, QuietLog DEF LogStep
  <2> QED
    BY <2>7, <2>8, <2>9, <2>11, <2>12 DEF Books
<1> QED
  BY <1>2, <1>3 DEF Serialize

\* The staged file is put in place.
LEMMA RenameBooks ==
  ASSUME Sound, NEW i \in DOMAIN tasks, tasks[i].pc = "staging", Current(i),
         file' = [file EXCEPT ![tasks[i].path] = tasks[i].body], Moves(i, "published"),
         UNCHANGED <<memory, place, flags, diskFailure, backup, epoch, fence, dirty>>
  PROVE  Books' /\ LogStep
<1> DEFINE f == tasks[i].body
<1>1. /\ Sheets /\ sess \in Session /\ mem \in Seq(Line) /\ f \in Seq(Line) /\ f # << >>
  BY SoundParts, TaskType DEF Stages
<1>2. /\ phase = "idle" /\ Permitted /\ fence = epoch /\ \A j \in DOMAIN tasks \ {i} : ~InHand(j)
  BY InHandFacts
<1>3. /\ tasks[i].path = sess /\ f[1] = Header(sess)
      /\ IsPrefix(Saved(sess), Plain(f)) /\ IsPrefix(Plain(f), Plain(mem))
      /\ Answers(i) => Plain(f) = Plain(mem)
  BY DEF Sound, Books, Staged
<1>4. file' = [file EXCEPT ![sess] = f]
  BY <1>3
<1> HIDE DEF f
<1>5. UNCHANGED <<sess, mem, owner, phase, backup>> /\ Plain(mem)' = Plain(mem)
  BY DEF memory, place, Plain
<1>6. /\ \A s \in Session \ {sess} : Saved(s)' = Saved(s)
      /\ Saved(sess)' = Plain(f) /\ Exists(sess)'
  BY <1>1, <1>4, <1>5, PutDisk
<1>7. LogStep /\ Journaled'
  BY <1>2, <1>3, <1>5, <1>6, SavesLog
<1>8. Headed'
  BY <1>1, <1>3, <1>4, <1>5, HeadedPut DEF Sound, Books
<1>9. UNCHANGED <<fileIsCurrent, rewriteRequired, forceFileCreation, diskFailure, dirty, fence, epoch>>
  BY DEF flags
<1>10. Allowed'
  BY <1>2, <1>5, <1>9 DEF Allowed, Permitted
<1>11. Present' /\ Behind'
  BY <1>5, <1>6, <1>9 DEF Present, Behind, Sound, Books
<1>12. Complete'
  <2>1. ~rewriteRequired => ~dirty
    BY <1>2 DEF Sound, Books, Behind
  <2>2. ~rewriteRequired /\ ~diskFailure => Plain(f) = Plain(mem)
    BY <1>3, <2>1 DEF Answers
  <2> QED
    BY <1>5, <1>6, <1>9, <2>2 DEF Complete
<1>13. \A j \in DOMAIN tasks' : InHand(j)' => j = i
  BY <1>2 DEF InHand, Current, Moves
<1>14. Staged'
  BY <1>13 DEF Staged, InHand, Moves
<1>15. Replaced'
  <2>1. Answers(i)' => Answers(i)
    BY <1>9 DEF Answers, Kind, Moves
  <2> QED
    BY <1>3, <1>5, <1>6, <1>13, <2>1 DEF Replaced, InHand
<1>16. Titles'
  BY TitlesMove DEF Sound, Books
<1> QED
  BY <1>7, <1>8, <1>10, <1>11, <1>12, <1>14, <1>15, <1>16 DEF Books

\* The old file is moved aside and stays there.
LEMMA AsideBooks ==
  ASSUME Sound, NEW i \in DOMAIN tasks, tasks[i].pc = "staging", Current(i), Exists(tasks[i].path),
         file' = [file EXCEPT ![tasks[i].path] = << >>],
         backup' = [backup EXCEPT ![tasks[i].path] = file[tasks[i].path]],
         diskFailure' = TRUE, Moves(i, "done"), LowerFence(i),
         UNCHANGED <<memory, place, flags, epoch, dirty>>
  PROVE  Books' /\ LogStep
<1>1. /\ Sheets /\ sess \in Session /\ mem \in Seq(Line) /\ tasks[i].path = sess
  BY SoundParts DEF Books, Staged
<1>2. /\ phase = "idle" /\ Permitted /\ fence = epoch /\ \A j \in DOMAIN tasks \ {i} : ~InHand(j)
  BY InHandFacts
<1>3. UNCHANGED <<sess, mem, owner, phase>> /\ Plain(mem)' = Plain(mem)
  BY DEF memory, place, Plain
<1>4. \A s \in Session : /\ file'[s] = IF s = sess THEN << >> ELSE file[s]
                         /\ backup'[s] = IF s = sess THEN file[s] ELSE backup[s]
  BY <1>1 DEF Sheets
<1>5. \A s \in Session : OnDisk(s)' = OnDisk(s) /\ (Exists(s)' => Exists(s))
  BY <1>1, <1>4 DEF OnDisk, Exists
<1>6. \A s \in Session : Saved(s)' = Saved(s)
  BY <1>5 DEF Saved, Plain
<1>7. LogStep
  <2>1. \A s \in Session : Accepted(s)' = Accepted(s)
    BY <1>3, <1>6 DEF Accepted
  <2> QED
    BY <1>6, <2>1 DEF LogStep, Stays, AcceptedSame, SavedSame
<1>8. Headed'
  BY <1>4 DEF Headed, Sound, Books
<1>9. Journaled'
  BY <1>3, <1>6, SoundParts DEF Journaled, Books
<1>10. Allowed' /\ Present' /\ Complete'
  <2>1. forceFileCreation' = forceFileCreation
    BY DEF flags
  <2>2. Permitted'
    BY <1>2, <1>3, <2>1 DEF Permitted
  <2> QED
    BY <2>2 DEF Allowed, Present, Complete
<1>11. Behind'
  <2>1. fence' = 0 /\ epoch' # 0
    BY <1>2, SoundParts, FenceNumbers DEF LowerFence, Current
  <2> QED
    BY <2>1 DEF Behind
<1>12. \A j \in DOMAIN tasks' : ~InHand(j)'
  BY <1>2 DEF InHand, Current, Moves
<1>13. Staged' /\ Replaced'
  BY <1>12 DEF Staged, Replaced, InHand
<1>14. Titles'
  BY TitlesMove DEF Sound, Books
<1> QED
  BY <1>7, <1>8, <1>9, <1>10, <1>11, <1>13, <1>14 DEF Books

LEMMA PublishBooks ==
  ASSUME Sound, NEW i \in DOMAIN tasks, Publish(i)
  PROVE  Books' /\ LogStep
<1>1. /\ tasks[i].pc = "staging" /\ tasks[i].pc # "done" /\ tasks \in Seq(Task)
      /\ UNCHANGED <<memory, place, flags, epoch, dirty>>
  BY SoundParts DEF Publish
<1>2. ASSUME tasks' = [tasks EXCEPT ![i].pc = "published"] PROVE Moves(i, "published")
  BY <1>1, <1>2, MoveTo DEF Progress
<1>3. ASSUME tasks' = Finished(i) PROVE Moves(i, "done")
  BY <1>1, <1>3, FinishMoves
<1>4. CASE /\ ~CommitGuard(i) /\ tasks' = [tasks EXCEPT ![i].pc = "published"]
           /\ UNCHANGED <<file, backup, diskFailure, fence>>
  BY <1>1, <1>2, <1>4, PlainMoveBooks DEF CommitGuard, Current, disk
<1>5. CASE /\ CommitGuard(i) /\ file' = [file EXCEPT ![tasks[i].path] = tasks[i].body]
           /\ tasks' = [tasks EXCEPT ![i].pc = "published"] /\ UNCHANGED <<backup, diskFailure, fence>>
  BY <1>1, <1>2, <1>5, RenameBooks DEF CommitGuard, Current
<1>6. CASE diskFailure' = TRUE /\ tasks' = Finished(i) /\ LowerFence(i) /\ UNCHANGED <<file, backup>>
  <2>1. fence' = epoch' => fence = epoch
    BY <1>1, <1>6, SoundParts, FenceNumbers DEF LowerFence, disk
  <2>2. dirty' /\ fence' = epoch' => rewriteRequired' \/ phase # "idle"
    BY <1>1, <2>1 DEF Sound, Books, Behind, flags
  <2> QED
    BY <1>1, <1>3, <1>6, <2>2, MoveBooks DEF flags
<1>7. CASE /\ CommitGuard(i) /\ Exists(tasks[i].path) /\ file' = [file EXCEPT ![tasks[i].path] = << >>]
           /\ backup' = [backup EXCEPT ![tasks[i].path] = file[tasks[i].path]]
           /\ diskFailure' = TRUE /\ tasks' = Finished(i) /\ LowerFence(i)
  BY <1>1, <1>3, <1>7, AsideBooks DEF CommitGuard, Current
<1> QED
  BY <1>4, <1>5, <1>6, <1>7 DEF Publish, disk

LEMMA PublishedBooks ==
  ASSUME Sound, NEW i \in DOMAIN tasks, Published(i)
  PROVE  Books' /\ LogStep
<1>1. /\ tasks[i].pc = "published" /\ tasks[i].pc # "done" /\ UNCHANGED <<memory, place, forceFileCreation, file, backup, epoch>>
  BY DEF Published, disk
<1>2. CASE /\ tasks[i].epoch # epoch /\ tasks' = Finished(i) /\ LowerFence(i)
           /\ UNCHANGED <<dirty, fileIsCurrent, rewriteRequired, diskFailure>>
  BY <1>1, <1>2, LowerOther, FinishBooks DEF Current, flags
<1>3. CASE /\ tasks[i].epoch = epoch /\ RaiseFence(i) /\ UNCHANGED <<fileIsCurrent, rewriteRequired, diskFailure>>
  <2>1. \A j \in DOMAIN tasks \ {i} : ~InHand(j)
    BY <1>1, <1>3, InHandFacts DEF Current
  <2> QED
    BY <1>1, <1>3, <2>1, RaiseBooks DEF flags
<1>4. CASE /\ tasks[i].epoch = epoch /\ ~dirty /\ tasks' = Finished(i) /\ LowerFence(i)
           /\ fileIsCurrent' = TRUE /\ rewriteRequired' = FALSE
           /\ diskFailure' = (diskFailure /\ tasks[i].kind # "title") /\ UNCHANGED dirty
  <2>1. Moves(i, "done")
    BY <1>4, FinishMoves, SoundParts
  <2>2. Exists(sess) /\ (Answers(i) => Saved(sess) = Plain(mem))
    BY <1>1, <1>4 DEF Sound, Books, Replaced, Current
  <2>3. ~diskFailure' => Answers(i)
    BY <1>4 DEF Answers, Kind
  <2>4. \A j \in DOMAIN tasks \ {i} : ~InHand(j)
    BY <1>1, <1>4, InHandFacts DEF Current
  <2> QED
    BY <1>1, <1>4, <2>1, <2>2, <2>3, <2>4, MoveBooks
<1> QED
  BY <1>2, <1>3, <1>4 DEF Published

LEMMA LineAppended ==
  ASSUME NEW f \in Seq(Line), f # << >>, NEW e \in Entry
  PROVE  Append(f, e) \in Seq(Line) /\ Append(f, e) # << >> /\ Append(f, e)[1] = f[1]
<1>1. e \in Line /\ 1 \in 1..Len(f)
  BY EntryIsLine
<1> QED
  BY <1>1

\* An orderly line goes to the file at the path, behind a whole one.
LEMMA NotGlued ==
  ASSUME Fences, Orderly', NEW E, Note(E \cup Glued)
  PROVE  writer # "detached" /\ ~torn[sess]
<1>1. Glued \subseteq {"cut"}
  BY Tamed
<1> QED
  BY <1>1 DEF Glued, Fences, Attached

LEMMA StartTitleBooks ==
  ASSUME Sound, Orderly', NEW i \in DOMAIN tasks, StartTitle(i)
  PROVE  Books' /\ LogStep
<1>1. /\ Ready(i) /\ tasks[i].pc = "queued" /\ tasks[i].kind = "title" /\ Current(i) /\ ~diskFailure
      /\ tasks' = [tasks EXCEPT ![i].pc = "appended"]
      /\ UNCHANGED <<memory, place, flags, backup, epoch, fence, dirty>> /\ AppendLine(tasks[i].body[1], {})
  BY DEF StartTitle, Starts, Ready, Current, fencing
<1>2. Moves(i, "appended")
  BY <1>1, MoveTo, SoundParts DEF Progress
<1>3. CASE diskFailure' = TRUE /\ UNCHANGED file
  BY <1>1, <1>2, <1>3, PlainMoveBooks
<1>4. CASE file' = Landed(tasks[i].body[1]) /\ UNCHANGED diskFailure /\ Note({} \cup Glued)
  <2> DEFINE e == tasks[i].body[1]
             f == Append(file[sess], e)
  <2>1. /\ Sheets /\ sess \in Session /\ mem \in Seq(Line) /\ phase = "idle" /\ fileIsCurrent /\ Exists(sess)
        /\ e \in Entry /\ e.k = "title" /\ file[sess] \in Seq(Line) /\ owner = sess
        /\ writer # "detached" /\ ~torn[sess]
    <3>1. phase = "idle" /\ fileIsCurrent /\ Exists(sess)
      BY <1>1, TitleHasFile DEF Kind
    <3>2. e \in Entry /\ e.k = "title"
      BY <1>1, SoundParts DEF Stages, Books, Titles, Kind
    <3>3. writer # "detached" /\ ~torn[sess]
      BY <1>4, SoundParts, NotGlued
    <3> QED
      BY <3>1, <3>2, <3>3, SoundParts DEF Sheets
  <2>2. file' = [file EXCEPT ![sess] = f]
    BY <1>4, <2>1 DEF Landed
  <2> HIDE DEF e
  <2>3. f \in Seq(Line) /\ f # << >> /\ f[1] = file[sess][1]
    BY <2>1, LineAppended DEF Exists
  <2>4. Plain(f) = Saved(sess)
    BY <2>1, PlainAppend DEF Saved, OnDisk
  <2> HIDE DEF f
  <2>5. UNCHANGED <<sess, mem, owner, phase, fileIsCurrent, rewriteRequired, forceFileCreation>>
        /\ Plain(mem)' = Plain(mem)
    BY <1>1 DEF memory, place, flags, Plain
  <2>6. /\ \A s \in Session \ {sess} : Saved(s)' = Saved(s)
        /\ Saved(sess)' = Saved(sess) /\ Exists(sess)'
    BY <1>1, <2>1, <2>2, <2>3, <2>4, <2>5, PutDisk
  <2>7. LogStep /\ Journaled'
    <3>1. IsPrefix(Saved(sess), Saved(sess)') /\ IsPrefix(Saved(sess)', Plain(mem))
      BY <2>1, <2>6, SavedType DEF Sound, Books, Journaled
    <3> QED
      BY <1>1, <2>1, <2>5, <2>6, <3>1, SavesLog
  <2>8. Headed'
    <3>1. f[1] = Header(sess)
      BY <2>1, <2>3 DEF Sound, Books, Headed, Exists
    <3> QED
      BY <1>1, <2>1, <2>2, <2>3, <3>1, HeadedPut DEF Sound, Books
  <2>9. Allowed' /\ Present' /\ Complete'
    <3>1. Permitted
      BY <2>1 DEF Sound, Books, Allowed
    <3> QED
      BY <1>4, <2>1, <2>5, <2>6, <3>1 DEF Allowed, Permitted, Present, Complete, Sound, Books
  <2>10. Behind'
    BY <1>1, <2>5 DEF Behind, Sound, Books
  <2>11. \A j \in DOMAIN tasks' : ~InHand(j)'
    BY <1>1, <1>2, ReadyAlone, SoundParts DEF InHand, Current, Moves
  <2>12. Staged' /\ Replaced'
    BY <2>11 DEF Staged, Replaced, InHand
  <2>13. Titles'
    BY <1>2, TitlesMove DEF Sound, Books
  <2> QED
    BY <2>7, <2>8, <2>9, <2>10, <2>12, <2>13 DEF Books
<1> QED
  BY <1>1, <1>3, <1>4 DEF AppendLine

\* #rewriteSynchronously, when memory holds m.
LEMMA RewriteBooks ==
  ASSUME Sound, phase = "idle", NEW m \in Seq(Entry), RewriteSynchronously(m), mem' = m,
         IsPrefix(Plain(mem), Plain(m)), Permitted',
         UNCHANGED <<owner, place, forceFileCreation, backup, fence, dirty, tasks>>
  PROVE  /\ Headed' /\ Allowed' /\ Present' /\ Behind' /\ Complete' /\ Staged' /\ Replaced' /\ Titles'
         /\ \A s \in Session \ {sess} : Saved(s)' = Saved(s)
         /\ mishaps' = {} => IsPrefix(Saved(sess), Saved(sess)')
         /\ IsPrefix(Saved(sess)', Plain(m)) /\ (diskFailure' \/ Saved(sess)' = Plain(m))
<1>1. /\ Sheets /\ sess \in Session /\ owner = sess /\ mem \in Seq(Line) /\ m \in Seq(Line)
      /\ Plain(m) \in Seq(Talk) /\ Plain(mem) \in Seq(Talk) /\ Saved(sess) \in Seq(Talk)
      /\ IsPrefix(Saved(sess), Saved(sess)) /\ IsPrefix(Saved(sess), Plain(m)) /\ IsPrefix(Plain(m), Plain(m))
  <2>1. Sheets /\ sess \in Session /\ owner = sess /\ mem \in Seq(Line) /\ m \in Seq(Line)
    BY SoundParts, EntryIsLine
  <2>2. Plain(m) \in Seq(Talk) /\ Plain(mem) \in Seq(Talk) /\ Saved(sess) \in Seq(Talk)
    BY <2>1, PlainType, SavedType
  <2>3. IsPrefix(Saved(sess), Plain(mem))
    BY <2>1 DEF Sound, Books, Journaled
  <2> QED
    BY <2>1, <2>2, <2>3, PrefixSelf, PrefixOfPrefix
<1>2. /\ epoch' = epoch + 1 /\ tail' = 0
      /\ UNCHANGED <<sess, phase>>
  BY DEF RewriteSynchronously, place
<1>3. Behind'
  <2>1. fence \in Nat /\ epoch \in Nat /\ fence <= epoch
    BY SoundParts, FenceNumbers DEF Fences
  <2>2. fence' # epoch'
    BY <1>2, <2>1
  <2> QED
    BY <2>2 DEF Behind
<1>4. Staged' /\ Replaced'
  <2>1. \A i \in DOMAIN tasks : ~Current(i)'
    BY <1>2, SoundParts, ChainBumps
  <2> QED
    BY <2>1 DEF Staged, Replaced
<1>5. Titles' /\ Allowed'
  BY DEF Titles, Kind, Sound, Books, Allowed
<1>6. CASE file' = [file EXCEPT ![sess] = Body(m)] /\ fileIsCurrent' = TRUE /\ rewriteRequired' = FALSE
  <2>1. Body(m) \in Seq(Line) /\ Body(m) # << >> /\ Body(m)[1] = Header(sess) /\ Plain(Body(m)) = Plain(m)
    BY <1>1, BodyType, PlainBody
  <2>2. /\ \A s \in Session \ {sess} : Saved(s)' = Saved(s)
        /\ Saved(sess)' = Plain(m) /\ Exists(sess)'
    BY <1>1, <1>2, <1>6, <2>1, PutDisk
  <2>3. Headed'
    BY <1>1, <1>6, <2>1, HeadedPut DEF Sound, Books
  <2>4. Present' /\ Complete'
    BY <1>2, <2>2 DEF Present, Complete, Plain
  <2> QED
    BY <1>1, <1>3, <1>4, <1>5, <2>2, <2>3, <2>4
<1>7. CASE diskFailure' = TRUE /\ UNCHANGED file
  <2>1. \A s \in Session : Saved(s)' = Saved(s)
    BY <1>7, SavedKept
  <2>2. Headed'
    BY <1>7 DEF Headed, Sound, Books
  <2>3. Present' /\ Complete'
    BY <1>7 DEF Present, Complete
  <2>4. Saved(sess)' = Saved(sess)
    BY <1>2, <1>7 DEF Saved, OnDisk, Exists, Plain
  <2>5. IsPrefix(Saved(sess), Saved(sess)') /\ IsPrefix(Saved(sess)', Plain(m))
    BY <1>1, <2>4
  <2> QED
    BY <1>3, <1>4, <1>5, <1>7, <2>1, <2>2, <2>3, <2>5
<1>8. CASE CutShort(Body(m)) /\ diskFailure' = TRUE /\ Note(OutOfTurn \cup {"cut"})
  <2>1. PICK n \in 1..Len(Body(m)) - 1 : file' = [file EXCEPT ![sess] = SubSeq(Body(m), 1, n)]
    BY <1>8 DEF CutShort
  <2>2. PICK f : f = SubSeq(Body(m), 1, n)
    OBVIOUS
  <2>3. /\ Body(m) \in Seq(Line) /\ Sheet(Body(m)) /\ Body(m)[1] = Header(sess) /\ Plain(Body(m)) = Plain(m)
        /\ Len(Body(m)) \in Nat
    BY <1>1, BodyType, PlainBody
  <2>4. f \in Seq(Line) /\ Len(f) = n /\ \A j \in 1..n : f[j] = Body(m)[j]
    BY <2>2, <2>3, SheetBegins
  <2>5. n \in Nat /\ 1 <= n /\ n <= Len(Body(m)) /\ 1 \in 1..n
    BY <2>3
  <2>6. f # << >> /\ f[1] = Header(sess)
    BY <2>3, <2>4, <2>5
  <2>7. IsPrefix(Plain(f), Plain(m))
    BY <2>3, <2>4, <2>5, PlainPrefix
  <2>8. file' = [file EXCEPT ![sess] = f]
    BY <2>1, <2>2
  <2>9. (\A s \in Session \ {sess} : Saved(s)' = Saved(s)) /\ Saved(sess)' = Plain(f)
    BY <1>1, <1>2, <2>4, <2>6, <2>8, PutDisk
  <2>10. Headed'
    BY <1>1, <2>4, <2>6, <2>8, HeadedPut DEF Sound, Books
  <2>11. Present' /\ Complete'
    BY <1>8 DEF Present, Complete
  <2>12. mishaps' # {}
    BY <1>8 DEF Note
  <2> QED
    BY <1>3, <1>4, <1>5, <1>8, <2>7, <2>9, <2>10, <2>11, <2>12
<1> QED
  BY <1>6, <1>7, <1>8 DEF RewriteSynchronously

LEMMA FlushSyncBooks ==
  ASSUME Sound, Orderly', FlushSync
  PROVE  Books' /\ LogStep
<1>1. /\ phase = "idle" /\ ShouldHaveFile(mem) /\ RewriteSynchronously(mem)
      /\ UNCHANGED <<memory, place, forceFileCreation, backup, fencing, tasks>>
  <2>1. Calm
    BY DEF Orderly, Calm
  <2> QED
    BY <2>1, RewriteInTurn DEF FlushSync
<1>2. UNCHANGED <<mem, owner, sess, fence, dirty>>
  BY <1>1 DEF memory, place, fencing
<1>3. Permitted'
  BY <1>1, <1>2 DEF ShouldHaveFile, Permitted, Sound, Books, Allowed
<1>4. mem \in Seq(Entry) /\ IsPrefix(Plain(mem), Plain(mem))
  BY SoundParts, PlainType, PrefixSelf
<1>5. /\ Headed' /\ Allowed' /\ Present' /\ Behind' /\ Complete' /\ Staged' /\ Replaced' /\ Titles'
      /\ \A s \in Session \ {sess} : Saved(s)' = Saved(s)
      /\ (mishaps' = {} => IsPrefix(Saved(sess), Saved(sess)')) /\ IsPrefix(Saved(sess)', Plain(mem))
  BY <1>1, <1>2, <1>3, <1>4, RewriteBooks
<1>6. LogStep /\ Journaled'
  BY <1>1, <1>2, <1>5, SavesLog
<1> QED
  BY <1>5, <1>6 DEF Books

-----------------------------------------------------------------------------
(* Those that add an entry.                                                *)

\* An entry joins the log of the session.
LEMMA AcceptsLog ==
  ASSUME Sound, phase = "idle", NEW e \in Talk, NEW m, mem' = m, Plain(m) = Append(Plain(mem), e),
         UNCHANGED <<owner, sess>>, \A s \in Session \ {sess} : Saved(s)' = Saved(s),
         mishaps' = {} => IsPrefix(Saved(sess), Saved(sess)'), IsPrefix(Saved(sess)', Plain(m)),
         HeldBack' \/ Saved(sess)' = Plain(m)
  PROVE  LogStep /\ Journaled'
<1>1. owner = sess /\ Sheets /\ sess \in Session
  BY SoundParts
<1>2. Plain(mem)' = Plain(m)
  BY DEF Plain
<1>3. \A s \in Session : Accepted(s)' = IF s = owner THEN Append(Accepted(s), e) ELSE Accepted(s)
  BY <1>1, <1>2 DEF Accepted
<1>4. ASSUME mishaps' = {} PROVE \A s \in Session : IsPrefix(Saved(s), Saved(s)') /\ IsPrefix(Saved(s)', Accepted(s)')
  <2> SUFFICES ASSUME NEW s \in Session
               PROVE  IsPrefix(Saved(s), Saved(s)') /\ IsPrefix(Saved(s)', Accepted(s)')
    OBVIOUS
  <2>1. CASE s = sess
    <3>1. Saved(s)' = Saved(sess)' /\ Accepted(s)' = Plain(m)
      BY <1>1, <1>2, <2>1 DEF Accepted
    <3> QED
      BY <1>4, <2>1, <3>1
  <2>2. CASE s # sess
    <3>1. Saved(s)' = Saved(s) /\ Accepted(s)' = Saved(s)
      BY <1>1, <1>3, <2>2 DEF Accepted
    <3> QED
      BY <3>1, SavedType, <1>1
  <2> QED
    BY <2>1, <2>2
<1>5. Journaled'
  BY <1>1, <1>2 DEF Journaled
<1>6. \A s \in Session : s = owner => HeldBack' \/ Saved(s)' = Accepted(s)'
  <2> SUFFICES ASSUME NEW s \in Session, s = owner PROVE HeldBack' \/ Saved(s)' = Accepted(s)'
    OBVIOUS
  <2>1. Saved(s)' = Saved(sess)' /\ Accepted(s)' = Plain(m)
    BY <1>1, <1>2 DEF Accepted, Saved, OnDisk, Exists, Plain
  <2> QED
    BY <2>1
<1> QED
  BY <1>3, <1>4, <1>5, <1>6 DEF LogStep, Accepts, CatchesUp

LEMMA Grows ==
  ASSUME Sound, NEW e \in Entry, NEW m, m = Append(mem, e), mem' = m
  PROVE  /\ m \in Seq(Entry)
         /\ IsPrefix(Plain(mem), Plain(m))
         /\ e.k # "title" => e \in Talk /\ Plain(m) = Append(Plain(mem), e)
         /\ e.k = "title" => Plain(m) = Plain(mem)
         /\ Permitted /\ (forceFileCreation => forceFileCreation') => Permitted'
         /\ \A n \in DOMAIN m : m[n].k = "assistant" => Permitted'
<1>1. mem \in Seq(Entry) /\ mem \in Seq(Line) /\ Plain(mem) \in Seq(Talk)
  BY SoundParts, PlainType
<1>2. m \in Seq(Entry) /\ DOMAIN mem \subseteq DOMAIN m /\ \A n \in DOMAIN mem : m[n] = mem[n]
  BY <1>1
<1>3. /\ e.k # "title" => e \in Talk /\ Plain(m) = Append(Plain(mem), e)
      /\ e.k = "title" => Plain(m) = Plain(mem)
  BY <1>1, PlainAppend
<1>4. IsPrefix(Plain(mem), Plain(m))
  BY <1>1, <1>3, PrefixGrows, PrefixSelf
<1>5. /\ Permitted /\ (forceFileCreation => forceFileCreation') => Permitted'
      /\ \A n \in DOMAIN m : m[n].k = "assistant" => Permitted'
  BY <1>2 DEF Permitted
<1> QED
  BY <1>2, <1>3, <1>4, <1>5

\* While memory grows and nothing else happens, what is in hand stays behind it
\* by as much as it may.
LEMMA GrowsInHand ==
  ASSUME Sound, NEW e \in Entry, NEW m, m = Append(mem, e), mem' = m, UNCHANGED <<tasks, epoch, sess, file, backup>>,
         \A i \in DOMAIN tasks : InHand(i) => ~Answers(i)'
  PROVE  Staged' /\ Replaced'
<1>1. Plain(mem) \in Seq(Talk) /\ Plain(m) \in Seq(Talk) /\ IsPrefix(Plain(mem), Plain(m))
  <2>1. m \in Seq(Entry) /\ IsPrefix(Plain(mem), Plain(m))
    BY Grows
  <2>2. m \in Seq(Line)
    BY <2>1, EntryIsLine
  <2>3. mem \in Seq(Line)
    BY SoundParts
  <2> QED
    BY <2>1, <2>2, <2>3, PlainType
<1>2. Saved(sess)' = Saved(sess) /\ (Exists(sess)' <=> Exists(sess))
  BY DEF Saved, OnDisk, Exists, Plain
<1>3. \A i \in DOMAIN tasks : (Current(i)' <=> Current(i)) /\ Plain(tasks[i].body)' = Plain(tasks[i].body)
                              /\ Plain(tasks[i].body) \in Seq(Talk)
  BY SoundParts, TaskType, PlainType DEF Current, Plain
<1>4. Staged'
  <2> SUFFICES ASSUME NEW i \in DOMAIN tasks, tasks[i].pc = "staging", Current(i)
               PROVE  /\ tasks[i].path = sess /\ tasks[i].body[1] = Header(sess)
                      /\ IsPrefix(Saved(sess), Plain(tasks[i].body)) /\ IsPrefix(Plain(tasks[i].body), Plain(m))
                      /\ ~Answers(i)'
    BY <1>2, <1>3 DEF Staged, Plain
  <2>1. /\ tasks[i].path = sess /\ tasks[i].body[1] = Header(sess)
        /\ IsPrefix(Saved(sess), Plain(tasks[i].body)) /\ IsPrefix(Plain(tasks[i].body), Plain(mem))
    BY DEF Sound, Books, Staged
  <2>2. IsPrefix(Plain(tasks[i].body), Plain(m))
    BY <1>1, <1>3, <2>1, PrefixOfPrefix
  <2> QED
    BY <2>1, <2>2 DEF InHand
<1>5. Replaced'
  <2> SUFFICES ASSUME NEW i \in DOMAIN tasks, tasks[i].pc = "published", Current(i)
               PROVE  Exists(sess) /\ ~Answers(i)'
    BY <1>2, <1>3 DEF Replaced
  <2> QED
    BY DEF Sound, Books, Replaced, InHand
<1> QED
  BY <1>4, <1>5

LEMMA AppendEntryBooks ==
  ASSUME Sound, Orderly', NEW k \in {"user", "assistant"}, AppendEntry(k)
  PROVE  Books' /\ LogStep
<1> DEFINE e == [s |-> owner, n |-> born + 1, k |-> k]
           m == Append(mem, e)
<1>1. /\ phase = "idle" /\ mem' = m /\ AppendToSessionFile(e, m)
      /\ UNCHANGED <<owner, place, backup, fence, tasks>>
  <2>1. /\ mem' = m /\ AppendToSessionFile(e, m)
        /\ UNCHANGED <<owner, place, backup, fence, tasks>>
    BY DEF AppendEntry
  <2>2. Calm
    BY DEF Orderly, Calm
  <2> HIDE DEF e, m
  <2> QED
    BY <2>1, <2>2, AppendInTurn
<1>2. e \in Entry /\ e.k # "title"
  <2>1. owner \in Session /\ born \in 0..MaxEntries /\ born < MaxEntries
    BY SoundParts DEF Contents, AppendEntry
  <2> QED
    BY <2>1, NewEntry
<1>3. m = Append(mem, e)
  OBVIOUS
<1> HIDE DEF e, m
<1>4. /\ m \in Seq(Entry) /\ IsPrefix(Plain(mem), Plain(m)) /\ e \in Talk /\ Plain(m) = Append(Plain(mem), e)
      /\ Permitted /\ (forceFileCreation => forceFileCreation') => Permitted'
      /\ \A n \in DOMAIN m : m[n].k = "assistant" => Permitted'
  BY <1>1, <1>2, <1>3, Grows
<1>5. UNCHANGED <<sess, phase>> /\ sess \in Session /\ Sheets /\ owner = sess
  BY <1>1, SoundParts DEF place
<1>6. /\ Headed /\ Journaled /\ Allowed /\ Present /\ Behind /\ Complete /\ Titles
      /\ Plain(mem) \in Seq(Talk) /\ Plain(m) \in Seq(Talk) /\ Saved(sess) \in Seq(Talk)
  BY <1>4, <1>5, SoundParts, SavedType, PlainType, EntryIsLine DEF Books
<1>7. IsPrefix(Saved(sess), Saved(sess)) /\ IsPrefix(Saved(sess), Plain(m)) /\ IsPrefix(Plain(m), Plain(m))
  BY <1>4, <1>5, <1>6, PrefixSelf, PrefixOfPrefix DEF Journaled
<1>8. Titles'
  BY <1>1, <1>6 DEF Titles, Kind
<1>9. ASSUME ShouldHaveFile(m), UNCHANGED forceFileCreation PROVE Permitted'
  <2>1. forceFileCreation => Permitted'
    BY <1>9 DEF Permitted
  <2>2. fileIsCurrent => Permitted
    BY <1>1, <1>6 DEF Allowed
  <2> QED
    BY <1>4, <1>9, <2>1, <2>2 DEF ShouldHaveFile
<1>10. ASSUME UNCHANGED file, HeldBack'
       PROVE  /\ LogStep /\ Journaled' /\ Headed'
              /\ Saved(sess)' = Saved(sess) /\ (Exists(sess)' <=> Exists(sess))
  <2>1. \A s \in Session : Saved(s)' = Saved(s)
    BY <1>1, <1>10, SavedKept
  <2>2. Saved(sess)' = Saved(sess) /\ (Exists(sess)' <=> Exists(sess))
    BY <1>1, <1>5, <1>10 DEF Saved, OnDisk, Exists, Plain
  <2>3. LogStep /\ Journaled'
    BY <1>1, <1>4, <1>5, <1>7, <1>10, <2>1, <2>2, AcceptsLog
  <2>4. Headed'
    BY <1>1, <1>6, <1>10 DEF Headed
  <2> QED
    BY <2>2, <2>3, <2>4
<1>11. ASSUME UNCHANGED <<file, epoch>>, \A i \in DOMAIN tasks : InHand(i) => ~Answers(i)' PROVE Staged' /\ Replaced'
  BY <1>1, <1>2, <1>3, <1>5, <1>11, GrowsInHand
<1>12. \A i \in DOMAIN tasks : Writes(i)' <=> Writes(i)
  BY <1>1 DEF Writes, Kind
<1>13. CASE diskFailure /\ UNCHANGED <<flags, diskFailure, file, epoch, dirty>> /\ Note(OutOfTurn \cup Refused)
  <2>0. HeldBack' /\ \A i \in DOMAIN tasks : ~Repairing(i)
    <3>1. Refused \subseteq {"cut"}
      BY <1>13, TamedInTurn
    <3> QED
      BY <1>13, <3>1 DEF HeldBack, Refused
  <2>1. UNCHANGED <<fileIsCurrent, rewriteRequired, forceFileCreation>>
    BY <1>13 DEF flags
  <2>2. \A i \in DOMAIN tasks : InHand(i) => ~Answers(i)'
    BY <1>1, <1>13, <2>0 DEF InHand, Answers, Kind, Repairing
  <2>3. Staged' /\ Replaced'
    BY <1>11, <1>13, <2>2
  <2>4. Allowed'
    BY <1>1, <1>4, <1>5, <1>6, <1>10, <1>12, <1>13, <2>0, <2>1 DEF Allowed
  <2>5. Present' /\ Behind' /\ Complete'
    BY <1>1, <1>5, <1>6, <1>13, <2>1 DEF Present, Behind, Complete
  <2> QED
    BY <1>8, <1>10, <1>13, <2>0, <2>3, <2>4, <2>5 DEF Books
<1>14. CASE /\ ~ShouldHaveFile(m) /\ fileIsCurrent' = FALSE
            /\ UNCHANGED <<rewriteRequired, forceFileCreation, diskFailure, file, epoch, dirty>>
  <2>0. HeldBack'
    BY <1>1, <1>14 DEF HeldBack, ShouldHaveFile
  <2>1. ~Permitted
    <3>1. ~forceFileCreation /\ \A n \in DOMAIN m : m[n].k # "assistant"
      BY <1>14 DEF ShouldHaveFile
    <3>2. ~Permitted'
      BY <1>1, <1>14, <3>1 DEF Permitted
    <3> QED
      BY <1>4, <1>14, <3>2
  <2>2. ~Exists(sess) /\ \A i \in DOMAIN tasks : ~Writes(i)
    BY <1>1, <1>6, <2>1 DEF Allowed
  <2>3. \A i \in DOMAIN tasks : ~InHand(i)
    BY <2>1, InHandFacts DEF InHand
  <2>4. Staged' /\ Replaced'
    BY <1>11, <1>14, <2>3
  <2>5. Allowed' /\ Present' /\ Complete'
    BY <1>1, <1>10, <1>12, <1>14, <2>0, <2>2 DEF Allowed, Present, Complete
  <2>6. Behind'
    BY <1>1, <1>5, <1>6, <1>14 DEF Behind
  <2> QED
    BY <1>8, <1>10, <1>14, <2>0, <2>4, <2>5, <2>6 DEF Books
<1>15. CASE /\ ShouldHaveFile(m) /\ Fenced /\ fileIsCurrent' = FALSE /\ rewriteRequired' = TRUE /\ dirty' = TRUE
            /\ UNCHANGED <<forceFileCreation, diskFailure, file, epoch>>
  <2>0. HeldBack'
    BY <1>1, <1>15 DEF HeldBack, Fenced
  <2>1. Staged' /\ Replaced'
    BY <1>11, <1>15 DEF Answers
  <2>2. Allowed' /\ Present' /\ Behind' /\ Complete'
    BY <1>9, <1>15 DEF Allowed, Present, Behind, Complete
  <2> QED
    BY <1>8, <1>10, <1>15, <2>0, <2>1, <2>2 DEF Books
<1>16. CASE /\ ShouldHaveFile(m) /\ RewriteSynchronously(m) /\ UNCHANGED <<forceFileCreation, dirty>>
  <2>1. Permitted'
    BY <1>9, <1>16
  <2>2. /\ Headed' /\ Allowed' /\ Present' /\ Behind' /\ Complete' /\ Staged' /\ Replaced'
        /\ \A s \in Session \ {sess} : Saved(s)' = Saved(s)
        /\ (mishaps' = {} => IsPrefix(Saved(sess), Saved(sess)')) /\ IsPrefix(Saved(sess)', Plain(m))
        /\ (diskFailure' \/ Saved(sess)' = Plain(m))
    BY <1>1, <1>4, <1>16, <2>1, RewriteBooks
  <2>3. LogStep /\ Journaled'
    BY <1>1, <1>4, <1>5, <2>2, AcceptsLog DEF HeldBack
  <2> QED
    BY <1>8, <2>2, <2>3 DEF Books
<1>17. CASE /\ ~diskFailure /\ ShouldHaveFile(m) /\ ~Fenced /\ fileIsCurrent /\ ~rewriteRequired
            /\ \/ file' = Landed(e) /\ UNCHANGED diskFailure /\ Note(OutOfTurn \cup Glued)
               \/ diskFailure' = TRUE /\ UNCHANGED file
            /\ UNCHANGED <<flags, epoch, dirty>>
  <2>1. fence # epoch
    BY <1>17, SoundParts, FenceNumbers DEF Fenced
  <2>2. \A i \in DOMAIN tasks : ~InHand(i)
    BY <2>1, InHandFacts DEF InHand
  <2>3. UNCHANGED <<fileIsCurrent, rewriteRequired, forceFileCreation>>
    BY <1>17 DEF flags
  <2>4. Allowed' /\ Behind'
    BY <1>1, <1>9, <1>17, <2>1, <2>3 DEF Allowed, Behind
  <2>5. CASE diskFailure' = TRUE /\ UNCHANGED file
    <3>1. Staged' /\ Replaced'
      BY <1>11, <1>17, <2>2, <2>5
    <3>2. Present' /\ Complete'
      BY <2>5 DEF Present, Complete
    <3> QED
      BY <1>8, <1>10, <2>4, <2>5, <3>1, <3>2 DEF Books, HeldBack
  <2>6. CASE file' = Landed(e) /\ UNCHANGED diskFailure /\ Note(OutOfTurn \cup Glued)
    <3> DEFINE f == Append(file[sess], e)
    <3>1. /\ Exists(sess) /\ Saved(sess) = Plain(mem) /\ writer # "detached" /\ ~torn[sess]
          /\ file[sess] \in Seq(Line)
      <4>1. Exists(sess)
        BY <1>1, <1>6, <1>17 DEF Present
      <4>2. Saved(sess) = Plain(mem)
        BY <1>1, <1>6, <1>17, <4>1 DEF Complete
      <4> QED
        BY <1>5, <2>6, <4>1, <4>2, SoundParts, NotGlued DEF Sheets
    <3>2. file' = [file EXCEPT ![sess] = f]
      BY <2>6, <3>1 DEF Landed
    <3>3. f \in Seq(Line) /\ f # << >> /\ f[1] = file[sess][1]
      BY <1>2, <3>1, LineAppended DEF Exists
    <3>4. Plain(f) = Plain(m)
      <4>1. Plain(f) = Append(Plain(file[sess]), e)
        BY <1>2, <3>1, PlainAppend
      <4>2. Plain(file[sess]) = Saved(sess)
        BY <3>1 DEF Saved, OnDisk
      <4> QED
        BY <1>4, <3>1, <4>1, <4>2
    <3> HIDE DEF f
    <3>5. /\ \A s \in Session \ {sess} : Saved(s)' = Saved(s)
          /\ Saved(sess)' = Plain(m) /\ Exists(sess)'
      BY <1>1, <1>5, <3>2, <3>3, <3>4, PutDisk
    <3>6. LogStep /\ Journaled'
      BY <1>1, <1>4, <1>5, <1>7, <3>5, AcceptsLog
    <3>7. Headed'
      <4>1. f[1] = Header(sess)
        BY <1>5, <1>6, <3>1, <3>3 DEF Headed, Exists
      <4> QED
        BY <1>1, <1>5, <1>6, <3>2, <3>3, <4>1, HeadedPut
    <3>8. Present' /\ Complete'
      BY <1>1, <3>5 DEF Present, Complete, Plain
    <3>9. \A i \in DOMAIN tasks : ~InHand(i)'
      BY <1>1, <1>17, <2>2 DEF InHand, Current
    <3>10. Staged' /\ Replaced'
      BY <1>1, <3>9 DEF Staged, Replaced, InHand
    <3> QED
      BY <1>8, <2>4, <3>6, <3>7, <3>8, <3>10 DEF Books
  <2> QED
    BY <1>17, <2>5, <2>6
<1> QED
  BY <1>1, <1>13, <1>14, <1>15, <1>16, <1>17 DEF AppendToSessionFile, AppendLine

\* A title change is in memory, and asks for its line or for a rewrite.
LEMMA SetSessionNameBooks ==
  ASSUME Sound, Orderly', SetSessionName
  PROVE  Books' /\ LogStep
<1> DEFINE e == [s |-> owner, n |-> born + 1, k |-> "title"]
           m == Append(mem, e)
           behind == ~fileIsCurrent \/ rewriteRequired \/ ~Exists(sess)
           Asked == ShouldHaveFile(m) /\ UNCHANGED fileIsCurrent
                    /\ (Schedule("rewrite", << >>) \/ Schedule("title", <<e>>))
           Waits == ~ShouldHaveFile(m) /\ fileIsCurrent' = FALSE /\ UNCHANGED chain
           Fails == UNCHANGED <<fileIsCurrent, chain>>
<1>1. /\ phase = "idle" /\ mem' = m /\ (Fails \/ Waits \/ Asked)
      /\ UNCHANGED <<owner, place, rewriteRequired, forceFileCreation, diskFailure, file, backup, epoch, fencing>>
  <2>1. Note(OutOfTurn \cup Refused) \/ Note(OutOfTurn)
    BY DEF SetSessionName
  <2>2. phase = "idle"
    BY <2>1, TamedInTurn
  <2> QED
    BY <2>2 DEF SetSessionName, disk
<1>2. e \in Entry /\ e.k = "title"
  <2>1. owner \in Session /\ born \in 0..MaxEntries /\ born < MaxEntries
    BY SoundParts DEF Contents, SetSessionName
  <2> QED
    BY <2>1, NewEntry
<1>3. m = Append(mem, e)
  OBVIOUS
<1> HIDE DEF e, m, behind
<1>4. /\ Plain(m) = Plain(mem)
      /\ Permitted /\ (forceFileCreation => forceFileCreation') => Permitted'
      /\ \A n \in DOMAIN m : m[n].k = "assistant" => Permitted'
  BY <1>1, <1>2, <1>3, Grows
<1>5. /\ UNCHANGED <<sess, phase, file, backup, fence, dirty>> /\ sess \in Session /\ owner \in Session
      /\ Headed /\ Journaled /\ Allowed /\ Present /\ Behind /\ Complete /\ Titles
  BY <1>1, SoundParts DEF place, disk, fencing, Books
<1>6. /\ Plain(mem)' = Plain(mem) /\ Saved(sess)' = Saved(sess) /\ Saved(owner)' = Saved(owner)
      /\ (Exists(sess)' <=> Exists(sess)) /\ \A s \in Session : Saved(s)' = Saved(s)
  BY <1>1, <1>4, <1>5 DEF Saved, OnDisk, Exists, Plain
<1>7. LogStep
  <2>1. \A s \in Session : Accepted(s)' = Accepted(s)
    BY <1>1, <1>6 DEF Accepted
  <2> QED
    BY <1>6, <2>1 DEF LogStep, Stays, AcceptedSame, SavedSame
<1>8. Headed' /\ Journaled' /\ Behind' /\ Complete'
  BY <1>1, <1>5, <1>6 DEF Headed, Journaled, Behind, Complete
<1>9. fileIsCurrent' => fileIsCurrent
  BY <1>1
<1>10. Present'
  BY <1>1, <1>5, <1>6, <1>9 DEF Present
<1>11. CASE UNCHANGED chain /\ (ShouldHaveFile(m) \/ ~ShouldHaveFile(m))
  <2>1. UNCHANGED tasks
    BY <1>11 DEF chain
  <2>2. Handed
    BY <1>1, <1>5, <2>1 DEF Handed, Current, Answers, Kind
  <2>3. Staged' /\ Replaced'
    BY <1>1, <1>5, <1>6, <2>2, HandedKeeps
  <2>4. Titles'
    BY <1>5, <2>1 DEF Titles, Kind
  <2>5. \A i \in DOMAIN tasks : Writes(i)' <=> Writes(i)
    BY <2>1 DEF Writes, Kind
  <2>6. Allowed'
    BY <1>1, <1>4, <1>5, <1>6, <1>9, <2>1, <2>5 DEF Allowed
  <2> QED
    BY <1>7, <1>8, <1>10, <2>3, <2>4, <2>6 DEF Books
<1>12. CASE Asked
  <2>1. Permitted'
    <3>1. forceFileCreation => Permitted'
      BY <1>1 DEF Permitted
    <3>2. fileIsCurrent => Permitted
      BY <1>1, <1>5 DEF Allowed
    <3> QED
      BY <1>1, <1>4, <1>12, <3>1, <3>2 DEF ShouldHaveFile
  <2>2. Allowed'
    BY <2>1 DEF Allowed
  <2>3. ASSUME NEW kind \in Kinds, NEW body \in Seq(Line), Schedule(kind, body), kind = "title" => body[1].k = "title"
        PROVE  Handed /\ Titles'
    <3>1. Adds(kind, body)
      BY <2>3, SoundParts, ScheduleAdds
    <3>2. Handed
      BY <1>1, <1>5, <3>1, HandedAdd
    <3>3. Titles'
      BY <1>5, <2>3, <3>1, TitlesAdd
    <3> QED
      BY <3>2, <3>3
  <2>4. Handed /\ Titles'
    <3>1. << >> \in Seq(Line) /\ <<e>> \in Seq(Line) /\ <<e>>[1] = e /\ "rewrite" \in Kinds /\ "title" \in Kinds
      BY <1>2, EntryIsLine DEF Kinds
    <3>2. CASE Schedule("rewrite", << >>)
      BY <2>3, <3>1, <3>2
    <3>3. CASE Schedule("title", <<e>>)
      BY <1>2, <2>3, <3>1, <3>3
    <3> QED
      BY <1>12, <3>2, <3>3
  <2>5. Staged' /\ Replaced'
    BY <1>1, <1>5, <1>6, <2>4, HandedKeeps
  <2> QED
    BY <1>7, <1>8, <1>10, <2>2, <2>4, <2>5 DEF Books
<1> QED
  BY <1>1, <1>11, <1>12

-----------------------------------------------------------------------------
(* Those that change the session, or the process.                          *)

\* When nothing is under way, nothing is in hand and the fence is down.
LEMMA RestBooks ==
  ASSUME \A i \in DOMAIN tasks' : tasks'[i].pc = "done" \/ (tasks'[i].pc = "queued" /\ tasks'[i].kind = "drain")
  PROVE  Staged' /\ Replaced' /\ Titles' /\ \A i \in DOMAIN tasks' : ~Writes(i)'
BY DEF Staged, Replaced, Titles, Writes, Kind

\* What a session's file holds survives the promotion of its backup.
LEMMA RecoveredDisk ==
  ASSUME Sheets, Headed, file' = Recovered,
         backup' = [s \in Session |-> IF Exists(s) THEN backup[s] ELSE << >>]
  PROVE  /\ Headed' /\ \A s \in Session : OnDisk(s)' = OnDisk(s) /\ Saved(s)' = Saved(s)
         /\ SavedSame
<1>1. \A s \in Session : file'[s] = OnDisk(s) /\ backup'[s] = IF Exists(s) THEN backup[s] ELSE << >>
  BY DEF Recovered
<1>2. ASSUME NEW s \in Session PROVE OnDisk(s)' = OnDisk(s) /\ Saved(s)' = Saved(s)
  <2>1. OnDisk(s)' = OnDisk(s)
    BY <1>1 DEF OnDisk, Exists
  <2> QED
    BY <2>1 DEF Saved, Plain
<1>3. Headed'
  BY <1>1 DEF Headed, OnDisk, Exists
<1> QED
  BY <1>2, <1>3 DEF SavedSame

\* A session is opened with what its file holds.
LEMMA Reopens ==
  ASSUME Sound, NEW s \in Session, owner' = s, Plain(mem)' = Saved(s), \A t \in Session : Saved(t)' = Saved(t)
  PROVE  LogStep /\ Journaled'
<1>1. Saved(owner)' = Saved(s)
  BY DEF Saved, OnDisk, Exists, Plain
<1>2. Journaled'
  BY <1>1, SoundParts, SavedType DEF Journaled
<1>3. \A t \in Session : Accepted(t)' = Saved(t)
  BY DEF Accepted
<1>4. \A t \in Session : t # owner => Accepted(t) = Saved(t)
  BY DEF Accepted
<1> QED
  BY <1>2, <1>3, <1>4 DEF LogStep, Forgets, SavedSame

\* The session changes in turn only when the manager was flushed.
LEMMA SwitchFlushed ==
  ASSUME Orderly', NEW s, Switch(s)
  PROVE  Flushed
<1> DEFINE E == IF Flushed THEN {} ELSE {"stray"}
<1>1. Note(E)
  BY DEF Switch
<1> HIDE DEF E
<1>2. E \subseteq {"cut"}
  BY <1>1, Tamed
<1> QED
  BY <1>2 DEF E

LEMMA SwitchBooks ==
  ASSUME Sound, Orderly', NewSession \/ SetSessionFile
  PROVE  Books' /\ LogStep
<1>1. PICK s \in Session : Switch(s)
  BY DEF NewSession, SetSessionFile
<1>2. /\ phase' = "draining" /\ Schedule("drain", << >>) /\ UNCHANGED memory
      /\ \A i \in DOMAIN tasks : tasks[i].pc = "done"
  BY <1>1, SwitchFlushed DEF Switch, Flushed
<1>3. UNCHANGED <<mem, owner>> /\ Sheets /\ Headed /\ Journaled /\ owner \in Session
  BY <1>2, SoundParts DEF memory, Books
<1>4. Headed' /\ \A t \in Session : Saved(t)' = Saved(t)
  <2>1. CASE UNCHANGED <<file, backup>>
    BY <1>3, <2>1, DiskKept DEF Headed, disk
  <2>2. CASE SetSessionFile
    BY <1>3, <2>2, RecoveredDisk DEF SetSessionFile
  <2> QED
    BY <2>1, <2>2 DEF NewSession, disk
<1>5. Saved(owner)' = Saved(owner) /\ Plain(mem)' = Plain(mem)
  <2>1. Saved(owner)' = Saved(owner)
    <3>1. PICK o \in Session : o = owner
      BY <1>3
    <3>2. Saved(owner)' = Saved(o)'
      BY <1>3, <3>1 DEF Saved, OnDisk, Exists, Plain
    <3> QED
      BY <1>4, <3>1, <3>2
  <2> QED
    BY <1>3, <2>1 DEF Plain
<1>6. Journaled'
  BY <1>3, <1>5 DEF Journaled
<1>7. \A t \in Session : Accepted(t)' = Accepted(t)
  BY <1>3, <1>4, <1>5 DEF Accepted
<1>8. Adds("drain", << >>)
  BY <1>2, SoundParts, ScheduleAdds, LineBodies DEF Kinds
<1>9. Staged' /\ Replaced' /\ Titles'
  <2>1. \A i \in DOMAIN tasks' : tasks'[i].pc = "done" \/ (tasks'[i].pc = "queued" /\ tasks'[i].kind = "drain")
    BY <1>2, <1>8 DEF Adds
  <2> QED
    BY <2>1, RestBooks
<1>10. Allowed' /\ Present' /\ Behind' /\ Complete'
  BY <1>2 DEF Allowed, Present, Behind, Complete
<1> QED
  BY <1>4, <1>6, <1>7, <1>9, <1>10 DEF Books, LogStep, Stays, AcceptedSame, SavedSame, disk

\* While the session changes, no rewrite holds the fence.
LEMMA NoFence ==
  ASSUME Sound, phase # "idle"
  PROVE  fence # epoch
<1>1. \A j \in DOMAIN tasks : ~Held(j)
  BY SoundParts DEF Phases, Held, Rewriting
<1> QED
  BY <1>1, SoundParts DEF Fences, FenceDown

LEMMA FinishDrainBooks ==
  ASSUME Sound, NEW i \in DOMAIN tasks, FinishDrain(i)
  PROVE  Books' /\ LogStep
<1>1. /\ tasks[i].kind = "drain" /\ tasks[i].pc = "closing" /\ sess' = target /\ tasks' = Finished(i)
      /\ UNCHANGED <<file, backup, epoch, fence, dirty>>
  BY DEF FinishDrain, fencing, disk
<1>2. phase = "draining" /\ \A j \in DOMAIN tasks \ {i} : tasks[j].pc = "done"
  <2>1. phase = "draining"
    BY <1>1, SoundParts DEF Phases
  <2>2. \A j \in DOMAIN tasks : tasks[j].pc # "done" => j = Len(tasks)
    BY <2>1, SoundParts DEF Phases
  <2>3. i = Len(tasks)
    BY <1>1, <2>2
  <2> QED
    BY <2>1, <2>2, <2>3
<1>3. fence' # epoch'
  BY <1>1, <1>2, NoFence
<1>4. \A j \in DOMAIN tasks' : tasks'[j].pc = "done"
  <2>1. Moves(i, "done")
    BY <1>1, SoundParts, FinishMoves
  <2> QED
    BY <1>2, <2>1 DEF Moves
<1>5. Staged' /\ Replaced' /\ Titles' /\ \A j \in DOMAIN tasks' : ~Writes(j)'
  BY <1>4, RestBooks
<1>6. /\ SavedSame /\ \A s \in Session : Saved(s)' = Saved(s) /\ (Exists(s)' <=> Exists(s))
  BY <1>1, DiskKept
<1>7. Headed'
  BY <1>1, SoundParts DEF Books, Headed, disk
<1>8. CASE phase' = "loading" /\ UNCHANGED <<owner, mem>>
  <2>1. UNCHANGED <<file, backup>>
    BY <1>1 DEF disk
  <2>2. Saved(owner)' = Saved(owner) /\ Plain(mem)' = Plain(mem)
    BY <1>8, <2>1 DEF Saved, OnDisk, Exists, Plain
  <2>3. Journaled'
    BY <2>2, SoundParts DEF Books, Journaled
  <2>4. \A s \in Session : Accepted(s)' = Accepted(s)
    BY <1>6, <1>8, <2>2 DEF Accepted
  <2>5. Allowed' /\ Present' /\ Behind' /\ Complete'
    BY <1>8 DEF Allowed, Present, Behind, Complete
  <2> QED
    BY <1>5, <1>6, <1>7, <2>3, <2>4, <2>5 DEF Books, LogStep, Stays, AcceptedSame
<1>9. CASE ~Exists(target) /\ owner' = target /\ mem' = << >> /\ fileIsCurrent' = FALSE
  <2>1. target \in Session /\ OnDisk(target) = << >>
    BY <1>2, <1>9, SoundParts DEF Contents, Phases
  <2>2. Saved(target) = << >>
    BY <2>1, PlainEmpty DEF Saved
  <2>3. Plain(mem)' = << >>
    <3>1. Plain(mem)' = Plain(<< >>)
      BY <1>9 DEF Plain
    <3> QED
      BY <3>1, PlainEmpty
  <2>4. LogStep /\ Journaled'
    BY <1>6, <1>9, <2>1, <2>2, <2>3, Reopens
  <2>5. ~Exists(sess)'
    BY <1>1, <1>9 DEF Exists, disk
  <2>6. Allowed' /\ Present' /\ Behind' /\ Complete'
    BY <1>3, <1>5, <1>9, <2>5 DEF Allowed, Present, Behind, Complete
  <2> QED
    BY <1>5, <1>7, <2>4, <2>6 DEF Books
<1> QED
  BY <1>8, <1>9 DEF FinishDrain, Reset

LEMMA LoadBooks ==
  ASSUME Sound, Load
  PROVE  Books' /\ LogStep
<1>1. /\ phase = "loading" /\ forceFileCreation' = TRUE
      /\ UNCHANGED <<sess, file, backup, epoch, fence, dirty>>
  BY DEF Load, disk, fencing
<1>2. file[sess] # << >> /\ sess \in Session /\ file[sess] \in Seq(Line) /\ Headed
      /\ (\A j \in DOMAIN tasks : tasks[j].pc = "done")
  BY <1>1, SoundParts DEF Phases, Exists, Sheets, Books
<1>3. file[sess][1] = Header(sess) /\ file[sess][1].k = "header"
  BY <1>2 DEF Headed, Header
<1>4. owner' = sess /\ mem' = Tail(file[sess]) /\ UNCHANGED tasks
  BY <1>2, <1>3 DEF Load, Loaded, Headlined, chain
<1>5. Saved(sess) = Plain(file[sess]) /\ Plain(mem)' = Saved(sess)
  <2>1. Saved(sess) = Plain(file[sess])
    BY <1>2 DEF Saved, OnDisk, Exists
  <2>2. Plain(mem)' = Plain(Tail(file[sess]))
    BY <1>4 DEF Plain
  <2> QED
    BY <1>2, <1>3, <2>1, <2>2, PlainTail
<1>6. /\ \A t \in Session : Saved(t)' = Saved(t)
      /\ Saved(sess)' = Saved(sess) /\ Exists(sess)'
  BY <1>1, <1>2 DEF Saved, OnDisk, Exists, Plain
<1>7. LogStep /\ Journaled'
  BY <1>2, <1>4, <1>5, <1>6, Reopens
<1>8. fence' # epoch'
  BY <1>1, NoFence
<1>9. Staged' /\ Replaced' /\ Titles'
  BY <1>2, <1>4, RestBooks
<1>10. Headed'
  BY <1>1, <1>2 DEF Headed
<1>11. Allowed' /\ Present' /\ Behind' /\ Complete'
  BY <1>1, <1>5, <1>6, <1>8 DEF Allowed, Permitted, Present, Behind, Complete
<1> QED
  BY <1>7, <1>9, <1>10, <1>11 DEF Books

LEMMA CrashBooks ==
  ASSUME Sound, Crash
  PROVE  Books' /\ LogStep
<1>1. PICK s \in Session : OnDisk(s) # << >> /\ owner' = s /\ sess' = s /\ mem' = Loaded(OnDisk(s))
  BY DEF Crash
<1>2. /\ file' = Recovered /\ backup' = [t \in Session |-> IF Exists(t) THEN backup[t] ELSE << >>]
      /\ forceFileCreation' = TRUE /\ dirty' = FALSE /\ tasks' = << >>
  BY DEF Crash
<1>3. Sheets /\ Headed
  BY SoundParts DEF Books
<1>4. /\ Headed' /\ \A t \in Session : OnDisk(t)' = OnDisk(t) /\ Saved(t)' = Saved(t)
  BY <1>2, <1>3, RecoveredDisk
<1>5. OnDisk(s) \in Seq(Line) /\ OnDisk(s)[1] = Header(s)
  BY <1>1, <1>3, OnDiskType DEF Headed, OnDisk, Exists
<1>6. mem' = Tail(OnDisk(s))
  <2>1. OnDisk(s)[1].k = "header"
    BY <1>5 DEF Header
  <2> QED
    BY <1>1, <2>1 DEF Loaded, Headlined
<1>7. Plain(mem)' = Saved(s)
  <2>1. Plain(mem)' = Plain(Tail(OnDisk(s)))
    BY <1>6 DEF Plain
  <2> QED
    BY <1>1, <1>5, <2>1, PlainTail DEF Saved
<1>8. LogStep /\ Journaled'
  BY <1>1, <1>4, <1>7, Reopens
<1>9. Saved(sess)' = Saved(s) /\ Exists(sess)'
  <2>1. Saved(sess)' = Saved(s)'
    BY <1>1 DEF Saved, OnDisk, Exists, Plain
  <2>2. file'[s] = OnDisk(s)
    BY <1>2 DEF Recovered
  <2> QED
    BY <1>1, <1>4, <2>1, <2>2 DEF Exists
<1>10. Staged' /\ Replaced' /\ Titles'
  <2>1. DOMAIN tasks' = {}
    BY <1>2
  <2> QED
    BY <2>1, RestBooks
<1>11. Allowed' /\ Present' /\ Behind' /\ Complete'
  BY <1>2, <1>7, <1>9 DEF Allowed, Permitted, Present, Behind, Complete
<1> QED
  BY <1>4, <1>8, <1>10, <1>11 DEF Books

LEMMA InitBooks ==
  ASSUME Init
  PROVE  Books /\ Journal!Init
<1>1. /\ mem = << >> /\ owner = 1 /\ owner \in Session /\ tasks = << >> /\ DOMAIN tasks = {}
      /\ fileIsCurrent = FALSE /\ dirty = FALSE
      /\ \A s \in Session : file[s] = << >> /\ backup[s] = << >>
  BY BoundsAssumption DEF Init, Session
<1>2. \A s \in Session : ~Exists(s) /\ Saved(s) = << >> /\ Accepted(s) = << >>
  BY <1>1, PlainEmpty DEF Exists, OnDisk, Saved, Accepted
<1>3. Journaled
  <2>1. Saved(owner) = << >> /\ Plain(mem) = << >> /\ << >> \in Seq(Talk)
    BY <1>1, <1>2, PlainEmpty
  <2> QED
    BY <2>1, PrefixSelf DEF Journaled
<1>4. Allowed /\ Complete
  <2>1. ~Exists(sess)
    BY <1>1, <1>2 DEF Init
  <2> QED
    BY <1>1, <2>1 DEF Allowed, Complete
<1>5. Headed /\ Present /\ Behind /\ Staged /\ Replaced /\ Titles
  BY <1>1 DEF Headed, Present, Behind, Staged, Replaced, Titles
<1>6. Journal!Init
  <2>1. mishaps = {} /\ diskFailure = FALSE /\ ~Fenced /\ ~ShouldHaveFile(mem)
    BY <1>1 DEF Init, Fenced, ShouldHaveFile
  <2> QED
    BY <1>2, <2>1 DEF Journal!Init
<1> QED
  BY <1>3, <1>4, <1>5, <1>6 DEF Books

LEMMA StutterBooks ==
  ASSUME Sound, UNCHANGED vars
  PROVE  Books' /\ LogStep
<1>1. UNCHANGED <<memory, place, flags, diskFailure, file, backup, epoch, fencing, chain>>
  BY DEF vars, disk
<1>2. Handed /\ Titles'
  BY <1>1 DEF Handed, Current, Answers, Kind, chain, fencing, Sound, Books, Titles
<1>3. FlagsHonest
  <2>1. UNCHANGED <<fileIsCurrent, rewriteRequired, forceFileCreation, fence, dirty, tasks>>
    BY <1>1 DEF flags, chain, fencing
  <2>2. \A i \in DOMAIN tasks : Writes(i)' <=> Writes(i)
    BY <2>1 DEF Writes, Kind
  <2> QED
    BY <1>1, <2>1, <2>2 DEF FlagsHonest, Sound, Books, Behind, place
<1> QED
  BY <1>1, <1>2, <1>3, BooksQuiet

LEMMA NextBooks ==
  ASSUME Sound, Orderly', [Next]_vars
  PROVE  Books' /\ LogStep
<1>1. CASE Caller
  BY <1>1, AppendEntryBooks, SetSessionNameBooks, RewriteEntriesBooks, EnsureOnDiskBooks, FlushSyncBooks,
     BarrierBooks, SwitchBooks DEF Caller
<1>2. CASE \E i \in DOMAIN tasks : TaskStep(i)
  BY <1>2, SkipBooks, StartRewriteBooks, SerializeBooks, PublishBooks, PublishedBooks, StartTitleBooks,
     FinishTitleBooks, CloserBooks, FinishCloseBooks, FinishDrainBooks DEF TaskStep
<1>3. CASE Load
  BY <1>3, LoadBooks
<1>4. CASE Crash
  BY <1>4, CrashBooks
<1>5. CASE UNCHANGED vars
  BY <1>5, StutterBooks
<1> QED
  BY <1>1, <1>2, <1>3, <1>4, <1>5 DEF Next

\* Until a mishap that costs an entry.
LEMMA SoundAlways == Spec => [](Orderly => Sound)
<1>1. Init => (Orderly => Books)
  BY InitBooks
<1>2. (Orderly => Books) /\ (Types /\ InPlace) /\ [Next]_vars => (Orderly => Books)'
  <2> SUFFICES ASSUME Orderly => Books, InPlace, [Next]_vars, Orderly' PROVE Books'
    OBVIOUS
  <2>1. Orderly
    BY NextNotes
  <2>2. Sound
    BY <2>1 DEF Orderly, InPlace, Sound
  <2> QED
    BY <2>2, NextBooks
<1>3. Spec => [](Types /\ InPlace)
  BY Invariance
<1>4. Spec => [](Orderly => Books)
  BY <1>1, <1>2, <1>3, PTL DEF Spec
<1>5. (Orderly => Books) /\ (Types /\ InPlace) => (Orderly => Sound)
  BY DEF Orderly, InPlace, Sound
<1> QED
  BY <1>3, <1>4, <1>5, PTL

-----------------------------------------------------------------------------
(* The theorems.                                                           *)

\* Until a mishap other than a rewrite cut short, a file that says it is current
\* holds every entry appended so far, in order: what #appendToSessionFile leaves
\* to a rewrite under way, what a rewrite serialized before it, and what a title
\* change rewrites meanwhile is either on disk, or still owed and marked so.
THEOREM CurrentComplete == Spec => []CurrentIsComplete
<1>1. (Orderly => Sound) => CurrentIsComplete
  BY DEF Sound, Books, Present, Complete, CurrentIsComplete, AnsweredFor
<1> QED
  BY <1>1, SoundAlways, PTL

\* Until a mishap, SessionManager implements the log of SessionLog: per session
\* the disk holds a prefix of the entries appended, has each as soon as it is
\* appended unless the manager holds entries back, never loses one it holds, and
\* a restart or a change of session goes on from what it holds.
THEOREM JournalKept == Spec => JournalIsKept
<1>1. Init => Journal!Init
  BY InitBooks
<1>2. (Orderly => Sound) /\ [Next]_vars => [Journal!Next]_(Journal!vars)
  <2> SUFFICES ASSUME Orderly => Sound, [Next]_vars PROVE [Journal!Next]_(Journal!vars)
    OBVIOUS
  <2>1. CASE mishaps' # {}
    BY <2>1 DEF Journal!Next
  <2>2. CASE mishaps' = {}
    <3>1. Orderly' /\ Orderly /\ mishaps = {}
      BY <2>2, NextNotes DEF Orderly
    <3>2. owner \in Session /\ LogStep
      BY <3>1, NextBooks, SoundParts
    <3> QED
      BY <3>1, <3>2, LogStepImplements
  <2> QED
    BY <2>1, <2>2
<1>3. Spec => [](Orderly => Sound)
  BY SoundAlways
<1> QED
  BY <1>1, <1>2, <1>3, PTL DEF Spec, JournalIsKept, Journal!Spec

-----------------------------------------------------------------------------
(* The barriers: what flush() and close() wait for.                        *)

In(e, f) == \E l \in DOMAIN f : f[l] = e

\* A title change under way: it repairs the disk if its line could not be written.
Mending(j) == Kind(j) = "title" /\ Current(j) /\ tasks[j].pc \in {"appended", "closing", "staging", "published"}
\* A disk error that stays until the session changes.
Lost == diskFailure /\ \A j \in DOMAIN tasks : ~Mending(j)
\* Entry e is on disk, and no rewrite under way takes it away.
Durable(e) == /\ In(e, OnDisk(sess))
              /\ \A j \in DOMAIN tasks : tasks[j].pc = "staging" /\ Current(j) => In(e, tasks[j].body)
Settled(e) == Lost \/ Durable(e)
\* Task j will put entry e on disk, or fail.
Covers(j, e) ==
  /\ Current(j)
  /\ \/ Kind(j) = "rewrite" /\ tasks[j].pc = "queued"
     \/ Kind(j) = "title" /\ tasks[j].pc = "queued" /\ tasks[j].body[1] = e
     \/ tasks[j].pc = "appended" /\ diskFailure
     \/ Kind(j) \in {"rewrite", "title"} /\ tasks[j].pc = "closing"
     \/ tasks[j].pc = "staging" /\ (dirty \/ In(e, tasks[j].body))
     \/ tasks[j].pc = "published" /\ dirty

Secured(e) == Settled(e) \/ \E j \in DOMAIN tasks : Covers(j, e)
SecuredBefore(b, e) == Settled(e) \/ (Current(b) /\ \E j \in DOMAIN tasks : j < b /\ Covers(j, e))
Barring(b) == Kind(b) \in {"flush", "close"} /\ tasks[b].pc # "done"

\* No entry of a session that is to have a file is left to nobody.
AllSecured == phase = "idle" /\ Permitted => \A e \in Entry : In(e, mem) => Secured(e)
\* What a barrier waits for is settled, or comes before it in the chain.
BarriersWait == \A b \in DOMAIN tasks : Barring(b) =>
  \A e \in Line : In(e, tasks[b].body) => In(e, mem) /\ SecuredBefore(b, e)

\* Nothing that memory holds is dropped by a step.
Grown == \A e \in Entry : In(e, mem) => In(e, mem)'
Carried == \A e \in Entry : In(e, mem) =>
  /\ Settled(e) => Settled(e)'
  /\ \A j \in DOMAIN tasks : Covers(j, e) => Settled(e)' \/ (j \in DOMAIN tasks' /\ Covers(j, e)')
\* The barriers that are waiting were waiting before.
SameBarriers == \A b \in DOMAIN tasks' : Barring(b)' =>
  /\ b \in DOMAIN tasks /\ Barring(b) /\ tasks'[b].body = tasks[b].body
  /\ Current(b) => Current(b)'

LEMMA InMemory ==
  ASSUME mem \in Seq(Entry), NEW e, In(e, mem)
  PROVE  e \in Entry
BY DEF In

LEMMA SecuredStays ==
  ASSUME Carried, NEW e \in Entry, In(e, mem), Secured(e)
  PROVE  Secured(e)'
BY DEF Carried, Secured

LEMMA BarriersStay ==
  ASSUME Sound, BarriersWait, Carried, Grown, SameBarriers
  PROVE  BarriersWait'
<1> SUFFICES ASSUME NEW b \in DOMAIN tasks', Barring(b)', NEW e \in Line, In(e, tasks[b].body)'
             PROVE  In(e, mem)' /\ SecuredBefore(b, e)'
  BY DEF BarriersWait
<1>1. /\ b \in DOMAIN tasks /\ Barring(b) /\ tasks'[b].body = tasks[b].body
      /\ Current(b) => Current(b)'
  BY DEF SameBarriers
<1>2. In(e, tasks[b].body)
  BY <1>1 DEF In
<1>3. In(e, mem) /\ SecuredBefore(b, e)
  BY <1>1, <1>2 DEF BarriersWait
<1>4. e \in Entry
  BY <1>3, SoundParts, InMemory
<1>5. In(e, mem)'
  BY <1>3, <1>4 DEF Grown
<1>6. SecuredBefore(b, e)'
  BY <1>1, <1>3, <1>4 DEF Carried, SecuredBefore
<1> QED
  BY <1>5, <1>6

\* The same, when memory does not change either.
LEMMA QuietBarriers ==
  ASSUME Sound, AllSecured, BarriersWait, Carried, SameBarriers, UNCHANGED mem,
         phase' = "idle" => phase = "idle", Permitted' => Permitted
  PROVE  AllSecured' /\ BarriersWait'
<1>1. Grown
  BY DEF Grown, In
<1>2. BarriersWait'
  BY <1>1, BarriersStay
<1>3. AllSecured'
  <2> SUFFICES ASSUME phase' = "idle", Permitted', NEW e \in Entry, In(e, mem)' PROVE Secured(e)'
    BY DEF AllSecured
  <2>1. In(e, mem)
    BY DEF In
  <2> QED
    BY <2>1, SecuredStays DEF AllSecured
<1> QED
  BY <1>2, <1>3

\* The task the chain is at: no other of the present epoch is under way.
Solo(i) == \A j \in DOMAIN tasks \ {i} : Current(j) => tasks[j].pc \in {"queued", "done"}

LEMMA UnderWaySolo ==
  ASSUME Typed, Ordered, NEW i \in DOMAIN tasks, Current(i), tasks[i].pc # "queued", tasks[i].pc # "done"
  PROVE  Solo(i)
<1> SUFFICES ASSUME NEW j \in DOMAIN tasks \ {i}, Current(j), tasks[j].pc # "done" PROVE tasks[j].pc = "queued"
  BY DEF Solo
<1> QED
  BY OneUnderWay DEF Ordered

LEMMA ReadySolo ==
  ASSUME Typed, Ordered, NEW i \in DOMAIN tasks, Current(i), Ready(i)
  PROVE  Solo(i)
<1>0. Chain /\ tasks[i].pc = "queued"
  BY DEF Ordered, Ready
<1> SUFFICES ASSUME NEW j \in DOMAIN tasks \ {i}, Current(j), tasks[j].pc # "done", tasks[j].pc # "queued" PROVE FALSE
  BY DEF Solo
<1>1. ~(j < i)
  BY <1>0, ReadyIsNext
<1>2. i < j
  BY <1>1, ChainNumbers
<1> QED
  BY <1>0, <1>2 DEF Chain, Lined

\* A step that starts no title change while the disk fails keeps what is lost lost.
LEMMA LostStays ==
  ASSUME Lost, diskFailure', \A j \in DOMAIN tasks' : Mending(j)' => j \in DOMAIN tasks /\ Mending(j)
  PROVE  Lost'
BY DEF Lost

\* Covering as seen from one task.
LEMMA CoversSame ==
  ASSUME NEW j \in DOMAIN tasks, NEW e, j \in DOMAIN tasks', tasks'[j] = tasks[j], UNCHANGED epoch, Covers(j, e),
         ((dirty => dirty') /\ (diskFailure => diskFailure')) \/ tasks[j].pc \in {"queued", "closing"}
  PROVE  Covers(j, e)'
BY DEF Covers, Current, Kind, In

\* What a step of the chain must do.
LEMMA CarriedMove ==
  ASSUME Sound, NEW i \in DOMAIN tasks, NEW p, Moves(i, p), UNCHANGED <<epoch, sess>>,
         \A e \in Entry : In(e, mem) /\ Durable(e) => In(e, OnDisk(sess))',
         p = "staging" /\ Current(i) => \A e \in Entry : In(e, mem) => In(e, tasks'[i].body),
         \A e \in Entry : In(e, mem) /\ Covers(i, e) => Settled(e)' \/ Covers(i, e)',
         Mending(i)' => Mending(i) \/ ~diskFailure,
         \/ (dirty => dirty') /\ (diskFailure => diskFailure')
         \/ Solo(i) /\ (diskFailure => diskFailure' \/ Mending(i))
  PROVE  Carried
<1>1. /\ DOMAIN tasks' = DOMAIN tasks /\ \A j \in DOMAIN tasks \ {i} : tasks'[j] = tasks[j]
      /\ \A j \in DOMAIN tasks : Current(j)' <=> Current(j)
      /\ tasks'[i].pc = p
  BY OthersStay
<1>2. ASSUME NEW e \in Entry, In(e, mem), NEW j \in DOMAIN tasks \ {i}, Covers(j, e) PROVE Covers(j, e)'
  <2>1. ((dirty => dirty') /\ (diskFailure => diskFailure')) \/ tasks[j].pc = "queued"
    BY <1>2 DEF Solo, Covers, Current, Kind
  <2> QED
    BY <1>1, <1>2, <2>1, CoversSame
<1>3. Lost => Lost'
  <2> SUFFICES ASSUME Lost PROVE Lost'
    OBVIOUS
  <2>1. diskFailure /\ ~Mending(i)
    BY DEF Lost
  <2>2. diskFailure'
    BY <2>1
  <2>3. \A j \in DOMAIN tasks' : Mending(j)' => Mending(j)
    BY <1>1, <2>1 DEF Mending, Kind
  <2> QED
    BY <1>1, <2>2, <2>3, LostStays
<1>4. ASSUME NEW e \in Entry, In(e, mem), Durable(e) PROVE Durable(e)'
  <2>1. In(e, OnDisk(sess))'
    BY <1>4
  <2>2. ASSUME NEW j \in DOMAIN tasks, tasks'[j].pc = "staging", Current(j)' PROVE In(e, tasks'[j].body)
    <3>1. CASE j = i
      BY <1>1, <1>4, <2>2, <3>1
    <3>2. CASE j # i
      BY <1>1, <1>4, <2>2, <3>2 DEF Durable
    <3> QED
      BY <3>1, <3>2
  <2> QED
    BY <1>1, <2>1, <2>2 DEF Durable, In
<1> QED
  BY <1>1, <1>2, <1>3, <1>4 DEF Carried, Settled

\* A step in which no work moves, though some may be added.
LEMMA CarriedStay ==
  ASSUME \A j \in DOMAIN tasks : j \in DOMAIN tasks' /\ tasks'[j] = tasks[j],
         \A j \in DOMAIN tasks' : j \in DOMAIN tasks \/ tasks'[j].pc = "queued",
         UNCHANGED <<epoch, sess>>, dirty => dirty', diskFailure => diskFailure',
         \A e \in Entry : In(e, OnDisk(sess)) => In(e, OnDisk(sess))'
  PROVE  Carried
<1>1. \A j \in DOMAIN tasks' : tasks'[j].pc = "queued" \/
        (j \in DOMAIN tasks /\ tasks'[j] = tasks[j] /\ (Current(j)' <=> Current(j)) /\ (Mending(j)' <=> Mending(j)))
  BY DEF Current, Mending, Kind
<1>2. \A e, j : j \in DOMAIN tasks /\ Covers(j, e) => j \in DOMAIN tasks' /\ Covers(j, e)'
  BY CoversSame
<1>3. Lost => Lost'
  <2>1. \A j \in DOMAIN tasks' : Mending(j)' => j \in DOMAIN tasks /\ Mending(j)
    BY <1>1 DEF Mending
  <2> QED
    BY <2>1, LostStays DEF Lost
<1>4. ASSUME NEW e \in Entry, Durable(e) PROVE Durable(e)'
  <2>1. In(e, OnDisk(sess))'
    BY <1>4 DEF Durable
  <2>2. ASSUME NEW j \in DOMAIN tasks', tasks'[j].pc = "staging", Current(j)' PROVE In(e, tasks'[j].body)
    BY <1>1, <1>4, <2>2 DEF Durable
  <2> QED
    BY <2>1, <2>2 DEF Durable, In
<1> QED
  BY <1>2, <1>3, <1>4 DEF Carried, Settled

\* Nothing of the present epoch is under way, and what memory holds is on disk,
\* or lost.
LEMMA AllSettled ==
  ASSUME \A j \in DOMAIN tasks' : Current(j)' => tasks'[j].pc \in {"queued", "done"},
         diskFailure' \/ \A e \in Entry : In(e, mem)' => In(e, OnDisk(sess))'
  PROVE  \A e \in Entry : In(e, mem)' => Settled(e)'
<1>1. \A j \in DOMAIN tasks' : ~Mending(j)' /\ ~(tasks'[j].pc = "staging" /\ Current(j)')
  BY DEF Mending
<1> QED
  BY <1>1 DEF Settled, Lost, Durable

\* The chain's steps, one at a time.

LEMMA MovedBarriers ==
  ASSUME NEW i \in DOMAIN tasks, NEW p, Moves(i, p), UNCHANGED epoch,
         p = "done" \/ Kind(i) \notin {"flush", "close"} \/ (tasks[i].pc # "done" /\ tasks'[i].body = tasks[i].body)
  PROVE  SameBarriers
BY DEF SameBarriers, Barring, Kind, Moves, Current

\* The disk fails under the only task under way.
LEMMA FailsLost ==
  ASSUME NEW i \in DOMAIN tasks, Moves(i, "done"), UNCHANGED epoch, Solo(i), diskFailure'
  PROVE  Lost'
<1>1. \A j \in DOMAIN tasks' : ~Mending(j)'
  BY DEF Solo, Moves, Mending, Current
<1> QED
  BY <1>1 DEF Lost

\* A move that touches neither the file nor what anybody answers for.
LEMMA PlainCarried ==
  ASSUME Sound, NEW i \in DOMAIN tasks, NEW p, Moves(i, p), p # "staging",
         UNCHANGED <<epoch, sess, file, backup, dirty, diskFailure>>,
         Lost' \/ \A e \in Entry : ~Covers(i, e), Mending(i)' => Mending(i)
  PROVE  Carried
<1>1. \A e \in Entry : In(e, mem) /\ Durable(e) => In(e, OnDisk(sess))'
  BY DEF Durable, In, OnDisk, Exists, disk
<1>2. \A e \in Entry : In(e, mem) /\ Covers(i, e) => Settled(e)' \/ Covers(i, e)'
  BY DEF Settled
<1> QED
  BY <1>1, <1>2, CarriedMove

LEMMA SkipCarried ==
  ASSUME Sound, NEW i \in DOMAIN tasks, Skip(i)
  PROVE  Carried /\ SameBarriers
<1>1. /\ Ready(i) /\ (~Current(i) \/ diskFailure) /\ tasks' = Finished(i)
      /\ UNCHANGED <<epoch, sess, file, backup, dirty, diskFailure>>
  BY DEF Skip, Current, place, fencing, disk
<1>2. Moves(i, "done")
  BY <1>1, SoundParts, FinishMoves
<1>3. Lost' \/ \A e \in Entry : ~Covers(i, e)
  <2>1. CASE Current(i)
    <3>1. Solo(i)
      BY <1>1, <2>1, SoundParts, ReadySolo
    <3> QED
      BY <1>1, <1>2, <2>1, <3>1, FailsLost
  <2>2. CASE ~Current(i)
    BY <2>2 DEF Covers
  <2> QED
    BY <2>1, <2>2
<1>4. ~Mending(i)'
  BY <1>2 DEF Mending, Moves
<1> QED
  BY <1>1, <1>2, <1>3, <1>4, PlainCarried, MovedBarriers

\* flush, close and drain answer for nothing.
LEMMA BarrierCoversNothing ==
  ASSUME Sound, NEW i \in DOMAIN tasks, Kind(i) \notin {"rewrite", "title"}
  PROVE  /\ \A e : ~Covers(i, e)
         /\ ~Mending(i)
<1>1. tasks[i].pc \notin {"staging", "published", "appended"}
  BY SoundParts, StagingKind DEF Kind
<1> QED
  BY <1>1 DEF Covers, Mending

LEMMA CloserCarried ==
  ASSUME Sound, NEW i \in DOMAIN tasks, RunFlush(i) \/ StartClose(i) \/ FinishClose(i) \/ StartDrain(i)
  PROVE  Carried /\ SameBarriers
<1>1. /\ Kind(i) \in {"flush", "close", "drain"} /\ tasks[i].pc # "done"
      /\ tasks' = Finished(i) \/ tasks' = [tasks EXCEPT ![i].pc = "closing"]
      /\ UNCHANGED <<epoch, sess, file, backup, dirty, diskFailure>>
  BY DEF RunFlush, StartClose, FinishClose, StartDrain, Starts, Ready, Kind, place, fencing, disk
<1>2. (\A e : ~Covers(i, e)) /\ ~Mending(i)
  BY <1>1, BarrierCoversNothing
<1>3. CASE tasks' = Finished(i)
  <2>1. Moves(i, "done")
    BY <1>3, SoundParts, FinishMoves
  <2>2. ~Mending(i)'
    BY <2>1 DEF Mending, Moves
  <2> QED
    BY <1>1, <1>2, <2>1, <2>2, PlainCarried, MovedBarriers
<1>4. CASE tasks' = [tasks EXCEPT ![i].pc = "closing"]
  <2>1. Moves(i, "closing") /\ tasks'[i].body = tasks[i].body
    BY <1>4, SoundParts, MoveTo DEF Progress
  <2>2. ~Mending(i)'
    BY <1>1, <2>1 DEF Mending, Kind, Moves
  <2> QED
    BY <1>1, <1>2, <2>1, <2>2, PlainCarried, MovedBarriers
<1> QED
  BY <1>1, <1>3, <1>4

\* A rewrite of the present epoch begins, or goes around again: it will hold
\* everything.
LEMMA RaiseCarried ==
  ASSUME Sound, NEW i \in DOMAIN tasks, RaiseFence(i), Current(i), Solo(i), Kind(i) \in {"rewrite", "title"},
         Mending(i) \/ ~diskFailure \/ Kind(i) = "rewrite", UNCHANGED <<epoch, sess, file, backup, diskFailure>>
  PROVE  Carried /\ SameBarriers
<1>1. Moves(i, "closing")
  BY SoundParts, MoveTo DEF RaiseFence, Progress, disk
<1>2. \A e : Covers(i, e)'
  BY <1>1 DEF Covers, Moves, Kind, Current
<1>3. \A e \in Entry : In(e, mem) /\ Durable(e) => In(e, OnDisk(sess))'
  BY DEF Durable, In, OnDisk, Exists, disk
<1>4. Mending(i)' => Mending(i) \/ ~diskFailure
  BY <1>1 DEF Mending, Kind, Moves
<1>5. Carried
  BY <1>1, <1>2, <1>3, <1>4, CarriedMove
<1>6. SameBarriers
  BY <1>1, MovedBarriers
<1> QED
  BY <1>5, <1>6

LEMMA StartRewriteCarried ==
  ASSUME Sound, NEW i \in DOMAIN tasks, StartRewrite(i)
  PROVE  Carried /\ SameBarriers
<1>1. /\ Ready(i) /\ Current(i) /\ Kind(i) = "rewrite" /\ RaiseFence(i)
      /\ UNCHANGED <<epoch, sess, file, backup, diskFailure>>
  BY DEF StartRewrite, Starts, Current, Kind, place, disk
<1>2. Solo(i)
  BY <1>1, SoundParts, ReadySolo
<1> QED
  BY <1>1, <1>2, RaiseCarried

LEMMA InBody ==
  ASSUME NEW m \in Seq(Entry), owner \in Session, NEW e, In(e, m)
  PROVE  In(e, Body(m))
<1>1. PICK l \in DOMAIN m : m[l] = e
  BY DEF In
<1>2. m \in Seq(Line) /\ <<Header(owner)>> \in Seq(Line)
  BY EntryIsLine
<1>3. Body(m)[l + 1] = e /\ l + 1 \in DOMAIN Body(m)
  BY <1>1, <1>2 DEF Body
<1> QED
  BY <1>3 DEF In

LEMMA SerializeCarried ==
  ASSUME Sound, NEW i \in DOMAIN tasks, Serialize(i)
  PROVE  Carried /\ SameBarriers
<1>1. /\ Kind(i) \in {"rewrite", "title"} /\ tasks[i].pc = "closing" /\ tasks[i].pc # "done"
      /\ UNCHANGED <<epoch, sess, file, backup, dirty, diskFailure>>
  BY DEF Serialize, Kind, place, disk
<1>2. CASE tasks[i].epoch # epoch /\ tasks' = Finished(i)
  <2>1. Moves(i, "done")
    BY <1>2, SoundParts, FinishMoves
  <2>2. ~Mending(i)' /\ \A e : ~Covers(i, e)
    BY <1>2, <2>1 DEF Mending, Covers, Current, Moves
  <2> QED
    BY <1>1, <2>1, <2>2, PlainCarried, MovedBarriers
<1>3. CASE /\ tasks[i].epoch = epoch
           /\ tasks' = [tasks EXCEPT ![i].pc = "staging", ![i].body = Body(mem), ![i].path = sess]
  <2>1. mem \in Seq(Entry) /\ owner \in Session /\ sess \in Session /\ tasks \in Seq(Task)
    BY SoundParts
  <2>2. Moves(i, "staging") /\ tasks'[i].body = Body(mem)
    BY <1>3, <2>1, BodyType, StageMoves
  <2>3. \A e \in Entry : In(e, mem) => In(e, tasks'[i].body)
    BY <2>1, <2>2, InBody
  <2>4. \A e \in Entry : In(e, mem) => Covers(i, e)'
    BY <1>1, <1>3, <2>2, <2>3 DEF Covers, In, Current, Kind, Moves
  <2>5. \A e \in Entry : In(e, mem) /\ Durable(e) => In(e, OnDisk(sess))'
    BY <1>1 DEF Durable, In, OnDisk, Exists, disk
  <2>6. Mending(i)' => Mending(i)
    BY <1>1, <1>3, <2>2 DEF Mending, Kind, Moves, Current
  <2>7. Carried
    BY <1>1, <2>2, <2>3, <2>4, <2>5, <2>6, CarriedMove
  <2>8. SameBarriers
    BY <1>1, <2>2, MovedBarriers
  <2> QED
    BY <2>7, <2>8
<1> QED
  BY <1>2, <1>3 DEF Serialize

\* The staged file takes the place of the old one.
LEMMA RenameCarried ==
  ASSUME Sound, NEW i \in DOMAIN tasks, tasks[i].pc = "staging", Current(i), Moves(i, "published"),
         file' = [file EXCEPT ![tasks[i].path] = tasks[i].body],
         UNCHANGED <<epoch, sess, backup, dirty, diskFailure>>
  PROVE  Carried
<1>1. /\ Sheets /\ sess \in Session /\ tasks[i].path = sess /\ tasks[i].body # << >>
  BY SoundParts DEF Stages, Books, Staged
<1>2. OnDisk(sess)' = tasks[i].body
  <2>1. file'[sess] = tasks[i].body
    BY <1>1 DEF Sheets
  <2> QED
    BY <1>1, <2>1 DEF OnDisk, Exists
<1>3. Solo(i) /\ Kind(i) \in {"rewrite", "title"}
  BY SoundParts, UnderWaySolo, StagingKind DEF Kind
<1>4. \A e \in Entry : In(e, mem) /\ Durable(e) => In(e, OnDisk(sess))'
  BY <1>2 DEF Durable, In
<1>5. ASSUME NEW e \in Entry, Covers(i, e) PROVE Settled(e)' \/ Covers(i, e)'
  <2>1. CASE dirty
    BY <2>1 DEF Covers, Current, Moves
  <2>2. CASE In(e, tasks[i].body)
    <3>1. In(e, OnDisk(sess))'
      BY <1>2, <2>2 DEF In
    <3>2. \A j \in DOMAIN tasks' : ~(tasks'[j].pc = "staging" /\ Current(j)')
      BY <1>3 DEF Solo, Moves, Current
    <3>3. Durable(e)'
      BY <3>1, <3>2 DEF Durable
    <3> QED
      BY <3>3 DEF Settled
  <2> QED
    BY <1>5, <2>1, <2>2 DEF Covers
<1>6. Mending(i)' => Mending(i)
  BY DEF Mending, Kind, Moves, Current
<1> QED
  BY <1>4, <1>5, <1>6, CarriedMove

\* Staging fails, or the old file is moved aside and stays there.
LEMMA PublishFails ==
  ASSUME Sound, NEW i \in DOMAIN tasks, tasks[i].pc = "staging", Moves(i, "done"), diskFailure',
         \A e \in Entry : In(e, OnDisk(sess)) => In(e, OnDisk(sess))',
         UNCHANGED <<epoch, sess, dirty>>
  PROVE  Carried
<1>1. \A e \in Entry : Covers(i, e) => Settled(e)'
  <2>1. CASE Current(i)
    <3>1. Solo(i)
      BY <2>1, SoundParts, UnderWaySolo
    <3> QED
      BY <3>1, FailsLost DEF Settled
  <2>2. CASE ~Current(i)
    BY <2>2 DEF Covers
  <2> QED
    BY <2>1, <2>2
<1>2. ~Mending(i)'
  BY DEF Mending, Moves
<1>3. \A e \in Entry : In(e, mem) /\ Durable(e) => In(e, OnDisk(sess))'
  BY DEF Durable
<1> QED
  BY <1>1, <1>2, <1>3, CarriedMove

LEMMA PublishCarried ==
  ASSUME Sound, NEW i \in DOMAIN tasks, Publish(i)
  PROVE  Carried /\ SameBarriers
<1>1. /\ tasks[i].pc = "staging" /\ tasks[i].pc # "done" /\ tasks \in Seq(Task) /\ Kind(i) \notin {"flush", "close"}
      /\ UNCHANGED <<epoch, sess, dirty>>
  BY SoundParts, StagingKind DEF Publish, place, Kind
<1>2. ASSUME tasks' = [tasks EXCEPT ![i].pc = "published"] PROVE Moves(i, "published") /\ SameBarriers
  <2>1. Moves(i, "published")
    BY <1>1, <1>2, MoveTo DEF Progress
  <2> QED
    BY <1>1, <2>1, MovedBarriers
<1>3. ASSUME tasks' = Finished(i) PROVE Moves(i, "done") /\ SameBarriers
  BY <1>1, <1>3, FinishMoves, MovedBarriers
<1>4. CASE /\ ~CommitGuard(i) /\ tasks' = [tasks EXCEPT ![i].pc = "published"]
           /\ UNCHANGED <<file, backup, diskFailure>>
  <2>1. ~Current(i) /\ Moves(i, "published") /\ SameBarriers
    BY <1>2, <1>4 DEF CommitGuard, Current, disk
  <2>2. ~Mending(i)' /\ \A e : ~Covers(i, e)
    BY <1>1, <2>1 DEF Mending, Covers, Current, Moves
  <2> QED
    BY <1>1, <1>4, <2>1, <2>2, PlainCarried
<1>5. CASE /\ CommitGuard(i) /\ file' = [file EXCEPT ![tasks[i].path] = tasks[i].body]
           /\ tasks' = [tasks EXCEPT ![i].pc = "published"] /\ UNCHANGED <<backup, diskFailure>>
  BY <1>1, <1>2, <1>5, RenameCarried DEF CommitGuard, Current
<1>6. CASE diskFailure' = TRUE /\ tasks' = Finished(i) /\ UNCHANGED <<file, backup>>
  <2>1. \A e \in Entry : In(e, OnDisk(sess)) => In(e, OnDisk(sess))'
    BY <1>1, <1>6 DEF In, OnDisk, Exists, disk
  <2> QED
    BY <1>1, <1>3, <1>6, <2>1, PublishFails
<1>7. CASE /\ CommitGuard(i) /\ Exists(tasks[i].path) /\ file' = [file EXCEPT ![tasks[i].path] = << >>]
           /\ backup' = [backup EXCEPT ![tasks[i].path] = file[tasks[i].path]]
           /\ diskFailure' = TRUE /\ tasks' = Finished(i)
  <2>1. tasks[i].path = sess /\ sess \in Session /\ Sheets
    BY <1>1, <1>7, SoundParts DEF CommitGuard, Current, Books, Staged
  <2>2. file'[sess] = << >> /\ backup'[sess] = file[sess]
    BY <1>7, <2>1 DEF Sheets
  <2>3. OnDisk(sess)' = OnDisk(sess)
    BY <1>1, <1>7, <2>1, <2>2 DEF OnDisk, Exists
  <2>4. \A e \in Entry : In(e, OnDisk(sess)) => In(e, OnDisk(sess))'
    BY <2>3 DEF In
  <2> QED
    BY <1>1, <1>3, <1>7, <2>4, PublishFails
<1> QED
  BY <1>4, <1>5, <1>6, <1>7 DEF Publish, disk

LEMMA PublishedCarried ==
  ASSUME Sound, NEW i \in DOMAIN tasks, Published(i)
  PROVE  Carried /\ SameBarriers
<1>1. /\ tasks[i].pc = "published" /\ tasks[i].pc # "done" /\ Kind(i) \in {"rewrite", "title"}
      /\ UNCHANGED <<epoch, sess, file, backup>>
  BY SoundParts, StagingKind DEF Published, place, Kind, disk
<1>2. ASSUME tasks' = Finished(i) PROVE Moves(i, "done") /\ SameBarriers /\ ~Mending(i)'
  <2>1. Moves(i, "done")
    BY <1>2, SoundParts, FinishMoves
  <2> QED
    BY <2>1, MovedBarriers, <1>1 DEF Mending, Moves
<1>3. CASE tasks[i].epoch # epoch /\ tasks' = Finished(i) /\ UNCHANGED <<dirty, diskFailure>>
  <2>1. \A e : ~Covers(i, e)
    BY <1>3 DEF Covers, Current
  <2> QED
    BY <1>1, <1>2, <1>3, <2>1, PlainCarried
<1>4. ASSUME tasks[i].epoch = epoch PROVE Current(i) /\ Solo(i) /\ (Mending(i) \/ Kind(i) = "rewrite")
  BY <1>1, <1>4, SoundParts, UnderWaySolo DEF Mending, Current
<1>5. CASE tasks[i].epoch = epoch /\ RaiseFence(i) /\ UNCHANGED diskFailure
  BY <1>1, <1>4, <1>5, RaiseCarried
<1>6. CASE /\ tasks[i].epoch = epoch /\ ~dirty /\ tasks' = Finished(i)
           /\ diskFailure' = (diskFailure /\ tasks[i].kind # "title") /\ UNCHANGED dirty
  <2>1. \A e : ~Covers(i, e)
    BY <1>1, <1>6 DEF Covers
  <2>2. diskFailure => diskFailure' \/ Mending(i)
    BY <1>4, <1>6 DEF Kind
  <2>3. \A e \in Entry : In(e, mem) /\ Durable(e) => In(e, OnDisk(sess))'
    BY <1>1 DEF Durable, In, OnDisk, Exists, disk
  <2> QED
    BY <1>1, <1>2, <1>4, <1>6, <2>1, <2>2, <2>3, CarriedMove
<1> QED
  BY <1>3, <1>5, <1>6 DEF Published

\* A line at the end of the session's file.
LEMMA LandedOnDisk ==
  ASSUME Sound, Exists(sess), ~torn[sess], NEW e \in Entry, file' = Landed(e), UNCHANGED <<backup, sess>>
  PROVE  /\ \A d \in Entry : In(d, OnDisk(sess)) => In(d, OnDisk(sess))'
         /\ In(e, OnDisk(sess))'
<1>1. sess \in Session /\ file \in [Session -> Seq(Line)] /\ file[sess] \in Seq(Line) /\ e \in Line /\ writer # "detached"
  BY SoundParts, EntryIsLine DEF Sheets, Fences, Attached
<1>2. file'[sess] = Append(file[sess], e)
  BY <1>1 DEF Landed
<1>3. Append(file[sess], e) # << >>
  BY <1>1, LineAppended DEF Exists
<1>4. OnDisk(sess)' = Append(file[sess], e) /\ OnDisk(sess) = file[sess]
  BY <1>2, <1>3 DEF OnDisk, Exists
<1>5. \A l \in DOMAIN file[sess] : l \in DOMAIN Append(file[sess], e) /\ Append(file[sess], e)[l] = file[sess][l]
  BY <1>1
<1>6. Len(file[sess]) + 1 \in DOMAIN Append(file[sess], e) /\ Append(file[sess], e)[Len(file[sess]) + 1] = e
  BY <1>1
<1> QED
  BY <1>4, <1>5, <1>6 DEF In

LEMMA StartTitleCarried ==
  ASSUME Sound, Orderly', NEW i \in DOMAIN tasks, StartTitle(i)
  PROVE  Carried /\ SameBarriers
<1>1. /\ Ready(i) /\ tasks[i].pc = "queued" /\ Kind(i) = "title" /\ Current(i) /\ ~diskFailure
      /\ tasks' = [tasks EXCEPT ![i].pc = "appended"]
      /\ UNCHANGED <<epoch, sess, backup, dirty>> /\ AppendLine(tasks[i].body[1], {})
  BY DEF StartTitle, Starts, Ready, Current, Kind, fencing, place
<1>2. Moves(i, "appended") /\ SameBarriers
  <2>1. Moves(i, "appended")
    BY <1>1, SoundParts, MoveTo DEF Progress
  <2> QED
    BY <1>1, <2>1, MovedBarriers
<1>3. CASE diskFailure' = TRUE /\ UNCHANGED file
  <2>1. \A e : Covers(i, e)'
    BY <1>1, <1>2, <1>3 DEF Covers, Moves, Current
  <2>2. \A e \in Entry : In(e, mem) /\ Durable(e) => In(e, OnDisk(sess))'
    BY <1>1, <1>3 DEF Durable, In, OnDisk, Exists
  <2> QED
    BY <1>1, <1>2, <1>3, <2>1, <2>2, CarriedMove
<1>4. CASE file' = Landed(tasks[i].body[1]) /\ UNCHANGED diskFailure /\ Note({} \cup Glued)
  <2>1. Exists(sess) /\ ~torn[sess] /\ tasks[i].body[1] \in Entry
    BY <1>1, <1>4, SoundParts, TitleHasFile, NotGlued DEF Stages, Kind
  <2>2. (\A d \in Entry : In(d, OnDisk(sess)) => In(d, OnDisk(sess))') /\ In(tasks[i].body[1], OnDisk(sess)')
    <3>1. PICK e \in Entry : e = tasks[i].body[1]
      BY <2>1
    <3>2. (\A d \in Entry : In(d, OnDisk(sess)) => In(d, OnDisk(sess))') /\ In(e, OnDisk(sess))'
      BY <1>1, <1>4, <2>1, <3>1, LandedOnDisk
    <3> QED
      BY <3>1, <3>2 DEF In
  <2>3. ASSUME NEW e \in Entry, Covers(i, e) PROVE Settled(e)'
    <3>1. e = tasks[i].body[1]
      BY <1>1, <2>3 DEF Covers
    <3>2. Solo(i)
      BY <1>1, SoundParts, ReadySolo
    <3>3. \A j \in DOMAIN tasks' : ~(tasks'[j].pc = "staging" /\ Current(j)')
      BY <1>1, <1>2, <3>2 DEF Solo, Moves, Current
    <3>4. Durable(e)'
      BY <2>2, <3>1, <3>3 DEF Durable, In
    <3> QED
      BY <3>4 DEF Settled
  <2>4. \A e \in Entry : In(e, mem) /\ Durable(e) => In(e, OnDisk(sess))'
    BY <2>2 DEF Durable
  <2> QED
    BY <1>1, <1>2, <1>4, <2>3, <2>4, CarriedMove
<1> QED
  BY <1>1, <1>3, <1>4 DEF AppendLine

LEMMA FinishTitleCarried ==
  ASSUME Sound, NEW i \in DOMAIN tasks, FinishTitle(i)
  PROVE  Carried /\ SameBarriers
<1>1. /\ tasks[i].pc = "appended" /\ Kind(i) = "title" /\ Current(i)
      /\ UNCHANGED <<epoch, sess, file, backup, diskFailure>>
  BY SoundParts, StagingKind DEF FinishTitle, Kind, place, Fences, TitleRuns, disk
<1>2. CASE ~diskFailure /\ tasks' = Finished(i) /\ UNCHANGED fencing
  <2>1. Moves(i, "done")
    BY <1>2, SoundParts, FinishMoves
  <2>2. ~Mending(i)' /\ \A e : ~Covers(i, e)
    BY <1>1, <1>2, <2>1 DEF Mending, Moves, Covers
  <2> QED
    BY <1>1, <1>2, <2>1, <2>2, PlainCarried, MovedBarriers DEF fencing
<1>3. CASE RaiseFence(i)
  <2>1. Solo(i) /\ Mending(i)
    BY <1>1, SoundParts, UnderWaySolo DEF Mending
  <2> QED
    BY <1>1, <1>3, <2>1, RaiseCarried
<1> QED
  BY <1>2, <1>3 DEF FinishTitle

\* The callers.

LEMMA InAppended ==
  ASSUME NEW m \in Seq(Entry), NEW d \in Entry, NEW e
  PROVE  In(e, Append(m, d)) <=> In(e, m) \/ e = d
<1>1. /\ DOMAIN m = 1..Len(m) /\ DOMAIN Append(m, d) = 1..(Len(m) + 1) /\ Len(m) \in Nat
      /\ \A l \in 1..Len(m) : Append(m, d)[l] = m[l]
      /\ Append(m, d)[Len(m) + 1] = d
  OBVIOUS
<1>2. 1..(Len(m) + 1) = 1..Len(m) \cup {Len(m) + 1}
  BY <1>1
<1> HIDE DEF In
<1>3. In(e, Append(m, d)) <=> \E l \in 1..Len(m) \cup {Len(m) + 1} : Append(m, d)[l] = e
  BY <1>1, <1>2 DEF In
<1>4. In(e, m) <=> \E l \in 1..Len(m) : m[l] = e
  BY <1>1 DEF In
<1> QED
  BY <1>1, <1>3, <1>4

\* An entry joins memory, and somebody answers for it.
LEMMA EntrySecured ==
  ASSUME Sound, AllSecured, BarriersWait, NEW d \in Entry, mem' = Append(mem, d), Carried, SameBarriers,
         phase = "idle", Permitted' => Secured(d)', Permitted' => Permitted \/ Lost'
  PROVE  AllSecured' /\ BarriersWait'
<1>1. \A e : In(e, mem)' <=> In(e, mem) \/ e = d
  <2>1. mem \in Seq(Entry)
    BY SoundParts
  <2>2. \A e : In(e, mem)' <=> In(e, Append(mem, d))
    BY DEF In
  <2> QED
    BY <2>1, <2>2, InAppended
<1>2. BarriersWait'
  <2>1. Grown
    BY <1>1 DEF Grown
  <2> QED
    BY <2>1, BarriersStay
<1>3. AllSecured'
  <2> SUFFICES ASSUME Permitted', NEW e \in Entry, In(e, mem)' PROVE Secured(e)'
    BY DEF AllSecured
  <2>1. CASE e = d
    BY <2>1
  <2>2. CASE In(e, mem)
    <3>1. CASE Lost'
      BY <3>1 DEF Secured, Settled
    <3>2. CASE Permitted
      BY <2>2, <3>2, SecuredStays DEF AllSecured
    <3> QED
      BY <3>1, <3>2
  <2> QED
    BY <1>1, <2>1, <2>2
<1> QED
  BY <1>2, <1>3

\* Everything memory holds is settled.
LEMMA SettledBarriers ==
  ASSUME Sound, BarriersWait, Grown, \A e \in Entry : In(e, mem)' => Settled(e)',
         \A b \in DOMAIN tasks' : Barring(b)' => b \in DOMAIN tasks /\ Barring(b) /\ tasks'[b].body = tasks[b].body
  PROVE  AllSecured' /\ BarriersWait'
<1>1. AllSecured'
  BY DEF AllSecured, Secured
<1>2. BarriersWait'
  <2> SUFFICES ASSUME NEW b \in DOMAIN tasks', Barring(b)', NEW e \in Line, In(e, tasks[b].body)'
               PROVE  In(e, mem)' /\ SecuredBefore(b, e)'
    BY DEF BarriersWait
  <2>1. In(e, mem)
    BY DEF BarriersWait, In
  <2>2. e \in Entry
    BY <2>1, SoundParts, InMemory
  <2> QED
    BY <2>1, <2>2 DEF Grown, SecuredBefore
<1> QED
  BY <1>1, <1>2

\* What a title change or a rewrite under way says of the session.
LEMMA WriterPermits ==
  ASSUME Sound, phase = "idle", NEW j \in DOMAIN tasks, Mending(j) \/ Held(j)
  PROVE  Permitted
<1>1. Writes(j)
  BY DEF Writes, Mending, Held, Rewriting, Kind
<1> QED
  BY <1>1, SoundParts DEF Books, Allowed

\* Staging and published work of the present epoch holds the fence.
LEMMA InHandHeld ==
  ASSUME Sound, NEW j \in DOMAIN tasks, tasks[j].pc \in {"staging", "published"}, Current(j)
  PROVE  Held(j)
BY SoundParts, StagingKind DEF Held, Rewriting

LEMMA SameTasks ==
  ASSUME UNCHANGED <<tasks, epoch>>
  PROVE  SameBarriers
BY DEF SameBarriers, Barring, Kind, Current

\* An entry that comes when the disk has failed.
LEMMA FailedEntry ==
  ASSUME Sound, AllSecured, BarriersWait, NEW d \in Entry, mem' = Append(mem, d), phase = "idle", diskFailure,
         \A j \in DOMAIN tasks : ~Repairing(j),
         UNCHANGED <<tasks, epoch, sess, file, backup, dirty, diskFailure>>
  PROVE  AllSecured' /\ BarriersWait'
<1>1. \A e \in Entry : In(e, OnDisk(sess)) => In(e, OnDisk(sess))'
  BY DEF In, OnDisk, Exists
<1>2. Carried /\ SameBarriers
  BY <1>1, CarriedStay, SameTasks
<1>3. CASE \A j \in DOMAIN tasks : ~Mending(j)
  <2>1. Lost'
    BY <1>3 DEF Lost, Mending, Current, Kind
  <2> QED
    BY <1>2, <2>1, EntrySecured DEF Secured, Settled
<1>4. CASE \E j \in DOMAIN tasks : Mending(j)
  <2>1. PICK j \in DOMAIN tasks : Mending(j)
    BY <1>4
  <2>2. Permitted
    BY <2>1, WriterPermits
  <2>3. tasks[j].pc \in {"appended", "closing"}
    BY <2>1 DEF Mending, Repairing, Kind
  <2>4. Covers(j, d)'
    BY <2>1, <2>3 DEF Covers, Mending, Current, Kind
  <2> QED
    BY <1>2, <2>2, <2>4, EntrySecured DEF Secured
<1> QED
  BY <1>3, <1>4

\* #rewriteSynchronously, when memory holds m.
LEMMA BumpBarriers ==
  ASSUME Sound, BarriersWait, NEW m \in Seq(Entry), RewriteSynchronously(m), mem' = m, Grown,
         UNCHANGED <<sess, backup, tasks>>
  PROVE  AllSecured' /\ BarriersWait'
<1>1. /\ epoch' = epoch + 1 /\ tail' = 0 /\ owner \in Session /\ sess \in Session /\ Sheets
  BY SoundParts DEF RewriteSynchronously
<1>2. \A j \in DOMAIN tasks' : ~Current(j)'
  BY <1>1, SoundParts, ChainBumps
<1>3. diskFailure' \/ \A e \in Entry : In(e, mem)' => In(e, OnDisk(sess))'
  <2>1. CASE file' = [file EXCEPT ![sess] = Body(m)]
    <3>1. file'[sess] = Body(m) /\ Body(m) # << >>
      BY <1>1, <2>1, BodyType DEF Sheets
    <3>2. OnDisk(sess)' = Body(m)
      BY <3>1 DEF OnDisk, Exists
    <3>3. \A e \in Entry : In(e, m) => In(e, Body(m))
      BY <1>1, InBody
    <3> QED
      BY <3>2, <3>3 DEF In
  <2>2. CASE diskFailure' = TRUE
    BY <2>2
  <2> QED
    BY <2>1, <2>2 DEF RewriteSynchronously
<1>4. \A e \in Entry : In(e, mem)' => Settled(e)'
  BY <1>2, <1>3, AllSettled
<1>5. \A b \in DOMAIN tasks' : Barring(b)' => b \in DOMAIN tasks /\ Barring(b) /\ tasks'[b].body = tasks[b].body
  BY DEF Barring, Kind
<1> QED
  BY <1>4, <1>5, SettledBarriers

LEMMA FlushSyncBarriers ==
  ASSUME Sound, AllSecured, BarriersWait, FlushSync
  PROVE  AllSecured' /\ BarriersWait'
<1>1. RewriteSynchronously(mem) /\ mem' = mem /\ UNCHANGED <<sess, backup, tasks>> /\ mem \in Seq(Entry)
  BY SoundParts DEF FlushSync, memory, place
<1>2. Grown
  BY <1>1 DEF Grown, In
<1> QED
  BY <1>1, <1>2, BumpBarriers

\* An orderly step is refused only while no title change is being repaired.
LEMMA NoneRefused ==
  ASSUME Orderly', Note(OutOfTurn \cup Refused)
  PROVE  \A i \in DOMAIN tasks : ~Repairing(i)
<1>1. Refused \subseteq {"cut"}
  BY TamedInTurn
<1> QED
  BY <1>1 DEF Refused

LEMMA AppendEntryBarriers ==
  ASSUME Sound, AllSecured, BarriersWait, Orderly', NEW k \in {"user", "assistant"}, AppendEntry(k)
  PROVE  AllSecured' /\ BarriersWait'
<1> DEFINE e == [s |-> owner, n |-> born + 1, k |-> k]
           m == Append(mem, e)
<1>1. /\ phase = "idle" /\ mem' = m /\ AppendToSessionFile(e, m)
      /\ UNCHANGED <<sess, phase, backup, fence, tasks>>
  <2>1. /\ mem' = m /\ AppendToSessionFile(e, m)
        /\ UNCHANGED <<sess, phase, backup, fence, tasks>>
    BY DEF AppendEntry, place
  <2>2. Calm
    BY DEF Orderly, Calm
  <2> HIDE DEF e, m
  <2> QED
    BY <2>1, <2>2, AppendInTurn
<1>2. e \in Entry
  <2>1. owner \in Session /\ born \in 0..MaxEntries /\ born < MaxEntries
    BY SoundParts DEF Contents, AppendEntry
  <2> QED
    BY <2>1, NewEntry
<1>3. PICK d \in Entry : d = e /\ m = Append(mem, d)
  BY <1>2
<1> HIDE DEF e, m
<1>4. /\ mem \in Seq(Entry) /\ m \in Seq(Entry) /\ sess \in Session
      /\ \A c : In(c, m) <=> In(c, mem) \/ c = d
  BY <1>2, <1>3, SoundParts, InAppended
<1>5. ASSUME UNCHANGED <<epoch, file>>, dirty => dirty', diskFailure => diskFailure' PROVE Carried /\ SameBarriers
  <2>1. \A c \in Entry : In(c, OnDisk(sess)) => In(c, OnDisk(sess))'
    BY <1>1, <1>5 DEF In, OnDisk, Exists
  <2> QED
    BY <1>1, <1>5, <2>1, CarriedStay, SameTasks
<1>6. CASE diskFailure /\ UNCHANGED <<diskFailure, file, epoch, dirty>> /\ Note(OutOfTurn \cup Refused)
  <2>1. \A j \in DOMAIN tasks : ~Repairing(j)
    BY <1>6, NoneRefused
  <2> QED
    BY <1>1, <1>2, <1>3, <1>6, <2>1, FailedEntry
<1>7. CASE ~ShouldHaveFile(m) /\ UNCHANGED <<forceFileCreation, diskFailure, file, epoch, dirty>>
  <2>1. ~Permitted'
    BY <1>1, <1>7 DEF ShouldHaveFile, Permitted
  <2> QED
    BY <1>1, <1>2, <1>3, <1>5, <1>7, <2>1, EntrySecured
<1>8. CASE Fenced /\ dirty' = TRUE /\ UNCHANGED <<diskFailure, file, epoch>>
  <2>1. PICK j \in DOMAIN tasks : Held(j)
    BY <1>8, SoundParts DEF Fenced, Fences, FenceDown
  <2>2. Permitted
    BY <1>1, <2>1, WriterPermits
  <2>3. Covers(j, d)'
    BY <1>1, <1>8, <2>1 DEF Covers, Held, Rewriting, Current, Kind
  <2>4. Secured(d)'
    BY <1>1, <2>3 DEF Secured
  <2> QED
    BY <1>1, <1>2, <1>3, <1>5, <1>8, <2>2, <2>4, EntrySecured
<1>9. CASE RewriteSynchronously(m)
  <2>1. Grown
    BY <1>1, <1>4 DEF Grown, In
  <2> QED
    BY <1>1, <1>4, <1>9, <2>1, BumpBarriers
<1>10. CASE /\ ~Fenced /\ ~diskFailure /\ fileIsCurrent
            /\ \/ file' = Landed(d) /\ UNCHANGED diskFailure /\ Note(OutOfTurn \cup Glued)
               \/ diskFailure' = TRUE /\ UNCHANGED file
            /\ UNCHANGED <<epoch, dirty>>
  <2>1. Permitted /\ Exists(sess)
    BY <1>1, <1>10, SoundParts DEF Books, Allowed, Present
  <2>2. \A j \in DOMAIN tasks : ~Held(j)
    <3>1. fence # epoch
      BY <1>10, SoundParts, FenceNumbers DEF Fenced
    <3> QED
      BY <3>1, SoundParts DEF Fences, FenceUp
  <2>3. CASE diskFailure' = TRUE /\ UNCHANGED file
    <3>1. ASSUME NEW j \in DOMAIN tasks, Mending(j) PROVE Covers(j, d)'
      <4>1. tasks[j].pc = "appended" /\ Current(j)
        BY <2>2, <3>1 DEF Mending, Held, Rewriting, Kind
      <4> QED
        BY <1>1, <1>10, <2>3, <4>1 DEF Covers, Current
    <3>2. \A j \in DOMAIN tasks : Mending(j)' <=> Mending(j)
      BY <1>1, <1>10 DEF Mending, Current, Kind
    <3>3. Secured(d)'
      BY <1>1, <2>3, <3>1, <3>2 DEF Secured, Settled, Lost
    <3> QED
      BY <1>1, <1>2, <1>3, <1>5, <1>10, <2>1, <2>3, <3>3, EntrySecured
  <2>4. CASE file' = Landed(d) /\ UNCHANGED diskFailure /\ Note(OutOfTurn \cup Glued)
    <3>0. ~torn[sess]
      BY <2>4, SoundParts, NotGlued
    <3>1. (\A c \in Entry : In(c, OnDisk(sess)) => In(c, OnDisk(sess))') /\ In(d, OnDisk(sess))'
      BY <1>1, <1>2, <2>1, <2>4, <3>0, LandedOnDisk
    <3>2. Carried /\ SameBarriers
      BY <1>1, <1>10, <2>4, <3>1, CarriedStay, SameTasks
    <3>3. \A j \in DOMAIN tasks' : ~(tasks'[j].pc = "staging" /\ Current(j)')
      BY <1>1, <1>10, <2>2, InHandHeld DEF Current
    <3>4. Durable(d)'
      BY <3>1, <3>3 DEF Durable
    <3>5. Secured(d)'
      BY <3>4 DEF Secured, Settled
    <3> QED
      BY <1>1, <1>2, <1>3, <2>1, <3>2, <3>5, EntrySecured
  <2> QED
    BY <1>10, <2>3, <2>4
<1> QED
  BY <1>1, <1>3, <1>6, <1>7, <1>8, <1>9, <1>10 DEF AppendToSessionFile, AppendLine

\* Scheduling disturbs nobody.
LEMMA AddedCarried ==
  ASSUME NEW kind, NEW body, Adds(kind, body), UNCHANGED <<epoch, sess, file, backup, dirty, diskFailure>>
  PROVE  /\ Carried
         /\ \A b \in DOMAIN tasks : (Barring(b)' <=> Barring(b)) /\ (Current(b)' <=> Current(b)) /\ tasks'[b] = tasks[b]
<1>1. /\ \A j \in DOMAIN tasks : j \in DOMAIN tasks' /\ tasks'[j] = tasks[j]
      /\ \A j \in DOMAIN tasks' : j \in DOMAIN tasks \/ tasks'[j].pc = "queued"
  BY DEF Adds
<1>2. \A e \in Entry : In(e, OnDisk(sess)) => In(e, OnDisk(sess))'
  BY DEF In, OnDisk, Exists, disk
<1>3. Carried
  BY <1>1, <1>2, CarriedStay
<1> QED
  BY <1>1, <1>3 DEF Barring, Current, Kind

LEMMA AddedBarriers ==
  ASSUME NEW kind, NEW body, Adds(kind, body), UNCHANGED <<epoch, sess, file, backup, dirty, diskFailure>>,
         kind \notin {"flush", "close"}
  PROVE  SameBarriers
<1>1. \A b \in DOMAIN tasks : (Barring(b)' <=> Barring(b)) /\ (Current(b)' <=> Current(b)) /\ tasks'[b] = tasks[b]
  BY AddedCarried
<1>2. \A b \in DOMAIN tasks' : b \in DOMAIN tasks \/ ~Barring(b)'
  BY DEF Adds, Barring, Kind
<1> QED
  BY <1>1, <1>2 DEF SameBarriers

\* A rewrite that was asked for will hold everything.
LEMMA AskedCovers ==
  ASSUME NEW body, Adds("rewrite", body), UNCHANGED epoch
  PROVE  \A e : \E j \in DOMAIN tasks' : Covers(j, e)'
<1> DEFINE n == Len(tasks) + 1
<1>1. n \in DOMAIN tasks' /\ tasks'[n].kind = "rewrite" /\ tasks'[n].pc = "queued" /\ tasks'[n].epoch = epoch
  BY DEF Adds
<1>2. PICK j \in DOMAIN tasks' : tasks'[j].kind = "rewrite" /\ tasks'[j].pc = "queued" /\ tasks'[j].epoch = epoch
  BY <1>1
<1> HIDE DEF n
<1>3. \A e : Covers(j, e)'
  BY <1>2 DEF Covers, Current, Kind
<1> QED
  BY <1>3

LEMMA RewriteEntriesBarriers ==
  ASSUME Sound, AllSecured, BarriersWait, RewriteEntries
  PROVE  AllSecured' /\ BarriersWait'
<1>1. Schedule("rewrite", << >>)
      /\ UNCHANGED <<mem, phase, forceFileCreation, epoch, sess, file, backup, dirty, diskFailure>>
  BY DEF RewriteEntries, memory, place, flags, fencing, disk
<1>2. Adds("rewrite", << >>)
  BY <1>1, SoundParts, ScheduleAdds, LineBodies DEF Kinds
<1>3. Carried /\ SameBarriers
  BY <1>1, <1>2, AddedCarried, AddedBarriers
<1>4. Permitted' => Permitted
  BY <1>1 DEF Permitted
<1> QED
  BY <1>1, <1>3, <1>4, QuietBarriers

LEMMA EnsureOnDiskBarriers ==
  ASSUME Sound, AllSecured, BarriersWait, Orderly', EnsureOnDisk
  PROVE  AllSecured' /\ BarriersWait'
<1>1. /\ phase = "idle" /\ UNCHANGED <<mem, phase, epoch, sess, file, backup, dirty, diskFailure>>
      /\ (fileIsCurrent /\ UNCHANGED chain) \/ Schedule("rewrite", << >>)
  BY TamedInTurn DEF EnsureOnDisk, memory, place, fencing, disk
<1>2. CASE fileIsCurrent /\ UNCHANGED chain
  <2>1. Permitted
    BY <1>1, <1>2, SoundParts DEF Books, Allowed
  <2>2. UNCHANGED tasks /\ \A e \in Entry : In(e, OnDisk(sess)) => In(e, OnDisk(sess))'
    BY <1>1, <1>2 DEF chain, In, OnDisk, Exists, disk
  <2>3. Carried /\ SameBarriers
    BY <1>1, <2>2, CarriedStay, SameTasks
  <2> QED
    BY <1>1, <2>1, <2>3, QuietBarriers
<1>3. CASE Schedule("rewrite", << >>)
  <2>1. Adds("rewrite", << >>)
    BY <1>3, SoundParts, ScheduleAdds, LineBodies DEF Kinds
  <2>2. Carried /\ SameBarriers
    BY <1>1, <2>1, AddedCarried, AddedBarriers
  <2>3. AllSecured'
    BY <1>1, <2>1, AskedCovers DEF AllSecured, Secured
  <2>4. Grown
    BY <1>1 DEF Grown, In
  <2> QED
    BY <2>2, <2>3, <2>4, BarriersStay
<1> QED
  BY <1>1, <1>2, <1>3

\* A new barrier waits for what memory holds, and that is secured before it.
LEMMA BarrierBarriers ==
  ASSUME Sound, AllSecured, BarriersWait, Orderly', NEW kind \in {"flush", "close"}, Barrier(kind)
  PROVE  AllSecured' /\ BarriersWait'
<1> DEFINE body == IF ShouldHaveFile(mem) THEN mem ELSE << >>
<1>1. /\ phase = "idle" /\ Schedule(kind, body)
      /\ UNCHANGED <<mem, phase, forceFileCreation, epoch, sess, file, backup, dirty, diskFailure>>
  BY TamedInTurn DEF Barrier, memory, place, flags, fencing, disk
<1>2. body \in Seq(Line) /\ kind \in Kinds /\ mem \in Seq(Entry)
  BY SoundParts, LineBodies DEF Kinds
<1>3. \A e : In(e, body) => ShouldHaveFile(mem) /\ In(e, mem)
  BY DEF In
<1> HIDE DEF body
<1>4. PICK n \in Nat : n = Len(tasks) + 1
  BY SoundParts
<1>5. /\ Adds(kind, body) /\ DOMAIN tasks = 1..(n - 1) /\ DOMAIN tasks' = DOMAIN tasks \cup {n}
      /\ tasks'[n].kind = kind /\ tasks'[n].epoch = epoch /\ tasks'[n].body = body
  <2>1. Adds(kind, body)
    BY <1>1, <1>2, SoundParts, ScheduleAdds
  <2>2. DOMAIN tasks = 1..(n - 1)
    BY <1>4, SoundParts
  <2> QED
    BY <1>4, <2>1, <2>2 DEF Adds
<1>6. /\ Carried
      /\ \A b \in DOMAIN tasks : (Barring(b)' <=> Barring(b)) /\ (Current(b)' <=> Current(b)) /\ tasks'[b] = tasks[b]
  BY <1>1, <1>5, AddedCarried
<1>7. (Permitted' <=> Permitted) /\ \A e : In(e, mem)' <=> In(e, mem)
  BY <1>1 DEF Permitted, In
<1>8. AllSecured'
  BY <1>1, <1>6, <1>7, SecuredStays DEF AllSecured
<1>9. ASSUME NEW e \in Line, In(e, body) PROVE In(e, mem)' /\ SecuredBefore(n, e)'
  <2>1. ShouldHaveFile(mem) /\ In(e, mem)
    BY <1>3, <1>9
  <2>2. Permitted
    BY <1>1, <2>1, SoundParts DEF ShouldHaveFile, Permitted, Books, Allowed
  <2>3. e \in Entry
    BY <1>2, <2>1, InMemory
  <2>4. Secured(e)
    BY <1>1, <2>1, <2>2, <2>3 DEF AllSecured
  <2>5. Settled(e)' \/ \E j \in DOMAIN tasks : Covers(j, e)'
    BY <1>6, <2>1, <2>3, <2>4 DEF Carried, Secured
  <2>6. Current(n)' /\ (\A j \in DOMAIN tasks : j \in DOMAIN tasks' /\ j < n)
    BY <1>1, <1>5 DEF Current
  <2> QED
    BY <1>7, <2>1, <2>5, <2>6 DEF SecuredBefore
<1>10. ASSUME NEW b \in DOMAIN tasks, Barring(b)', NEW e \in Line, In(e, tasks[b].body)'
       PROVE  In(e, mem)' /\ SecuredBefore(b, e)'
  <2>1. Barring(b) /\ In(e, tasks[b].body)
    BY <1>6, <1>10 DEF In
  <2>2. In(e, mem) /\ SecuredBefore(b, e)
    BY <2>1 DEF BarriersWait
  <2>3. e \in Entry
    BY <1>2, <2>2, InMemory
  <2> QED
    BY <1>6, <1>7, <2>2, <2>3 DEF Carried, SecuredBefore
<1>11. BarriersWait'
  <2> SUFFICES ASSUME NEW b \in DOMAIN tasks', Barring(b)', NEW e \in Line, In(e, tasks[b].body)'
               PROVE  In(e, mem)' /\ SecuredBefore(b, e)'
    BY DEF BarriersWait
  <2>1. CASE b = n
    BY <1>5, <1>9, <2>1 DEF In
  <2>2. CASE b \in DOMAIN tasks
    BY <1>10, <2>2
  <2> QED
    BY <1>5, <2>1, <2>2
<1> QED
  BY <1>8, <1>11

LEMMA SetSessionNameBarriers ==
  ASSUME Sound, AllSecured, BarriersWait, Orderly', SetSessionName
  PROVE  AllSecured' /\ BarriersWait'
<1> DEFINE e == [s |-> owner, n |-> born + 1, k |-> "title"]
           m == Append(mem, e)
           Asked == ShouldHaveFile(m) /\ (Schedule("rewrite", << >>) \/ Schedule("title", <<e>>))
           Waits == ~ShouldHaveFile(m) /\ UNCHANGED chain
           Fails == diskFailure /\ UNCHANGED chain /\ Note(OutOfTurn \cup Refused)
<1>1. /\ phase = "idle" /\ mem' = m /\ (Fails \/ Waits \/ Asked)
      /\ UNCHANGED <<sess, phase, forceFileCreation, diskFailure, file, backup, epoch, dirty>>
  <2>1. Note(OutOfTurn \cup Refused) \/ Note(OutOfTurn)
    BY DEF SetSessionName
  <2>2. phase = "idle"
    BY <2>1, TamedInTurn
  <2> QED
    BY <2>2 DEF SetSessionName, place, fencing, disk
<1>2. e \in Entry /\ e.k = "title"
  <2>1. owner \in Session /\ born \in 0..MaxEntries /\ born < MaxEntries
    BY SoundParts DEF Contents, SetSessionName
  <2> QED
    BY <2>1, NewEntry
<1>3. PICK d \in Entry : d = e /\ m = Append(mem, d) /\ d.k = "title"
  BY <1>2
<1> HIDE DEF e, m
<1>4. UNCHANGED <<file, backup>>
  BY <1>1 DEF disk
<1>5. CASE Fails
  <2>1. \A j \in DOMAIN tasks : ~Repairing(j)
    BY <1>5, NoneRefused
  <2> QED
    BY <1>1, <1>3, <1>4, <1>5, <2>1, FailedEntry DEF chain
<1>6. CASE Waits
  <2>1. ~Permitted'
    BY <1>1, <1>6 DEF ShouldHaveFile, Permitted
  <2>2. UNCHANGED tasks /\ \A c \in Entry : In(c, OnDisk(sess)) => In(c, OnDisk(sess))'
    BY <1>1, <1>4, <1>6 DEF chain, In, OnDisk, Exists
  <2>3. Carried /\ SameBarriers
    BY <1>1, <2>2, CarriedStay, SameTasks
  <2> QED
    BY <1>1, <1>3, <2>1, <2>3, EntrySecured
<1>7. CASE Asked
  <2>1. Permitted' => Permitted
    <3>1. mem \in Seq(Entry)
      BY SoundParts
    <3>2. \A c \in Entry : In(c, m) => In(c, mem) \/ c = d
      BY <1>3, <3>1, InAppended
    <3>3. ASSUME NEW l \in DOMAIN m, m[l].k = "assistant" PROVE \E n \in DOMAIN mem : mem[n].k = "assistant"
      <4>1. m[l] \in Entry /\ In(m[l], m)
        BY <1>3, <3>1 DEF In
      <4> QED
        BY <1>3, <3>2, <3>3, <4>1 DEF In
    <3> QED
      BY <1>1, <3>3 DEF Permitted
  <2>2. ASSUME NEW kind \in {"rewrite", "title"}, NEW body \in Seq(Line), Schedule(kind, body),
               kind = "title" => body[1] = d
        PROVE  Carried /\ SameBarriers /\ Secured(d)'
    <3>1. Adds(kind, body)
      BY <2>2, SoundParts, ScheduleAdds DEF Kinds
    <3>2. Carried /\ SameBarriers
      BY <1>1, <3>1, AddedCarried, AddedBarriers
    <3>3. PICK j \in DOMAIN tasks' : /\ tasks'[j].kind = kind /\ tasks'[j].pc = "queued" /\ tasks'[j].epoch = epoch
                                     /\ tasks'[j].body = body
      BY <3>1 DEF Adds
    <3>4. Covers(j, d)'
      BY <1>1, <2>2, <3>3 DEF Covers, Current, Kind
    <3> QED
      BY <3>2, <3>4 DEF Secured
  <2>3. Carried /\ SameBarriers /\ Secured(d)'
    <3>1. << >> \in Seq(Line) /\ <<e>> \in Seq(Line) /\ <<e>>[1] = d
      BY <1>2, <1>3, EntryIsLine
    <3>2. CASE Schedule("rewrite", << >>)
      BY <2>2, <3>1, <3>2
    <3>3. CASE Schedule("title", <<e>>)
      BY <2>2, <3>1, <3>3
    <3> QED
      BY <1>7, <3>2, <3>3
  <2> QED
    BY <1>1, <1>3, <2>1, <2>3, EntrySecured
<1> QED
  BY <1>1, <1>5, <1>6, <1>7

\* Those that change the session, or the process: no barrier is left waiting.

LEMMA NobodyWaits ==
  ASSUME \A b \in DOMAIN tasks' : ~Barring(b)',
         phase' # "idle" \/ \A e \in Entry : In(e, mem)' => Settled(e)'
  PROVE  AllSecured' /\ BarriersWait'
BY DEF AllSecured, BarriersWait, Secured

LEMMA SwitchBarriers ==
  ASSUME Sound, Orderly', NewSession \/ SetSessionFile
  PROVE  AllSecured' /\ BarriersWait'
<1>1. PICK s \in Session : Switch(s)
  BY DEF NewSession, SetSessionFile
<1>2. phase' = "draining" /\ Schedule("drain", << >>) /\ \A i \in DOMAIN tasks : tasks[i].pc = "done"
  BY <1>1, SwitchFlushed DEF Switch, Flushed
<1>3. Adds("drain", << >>)
  BY <1>2, SoundParts, ScheduleAdds, LineBodies DEF Kinds
<1>4. \A b \in DOMAIN tasks' : ~Barring(b)'
  BY <1>2, <1>3 DEF Adds, Barring, Kind
<1> QED
  BY <1>2, <1>4, NobodyWaits

LEMMA FinishDrainBarriers ==
  ASSUME Sound, NEW i \in DOMAIN tasks, FinishDrain(i)
  PROVE  AllSecured' /\ BarriersWait'
<1>1. \A j \in DOMAIN tasks : j # i => tasks[j].pc = "done"
  BY SoundParts, DrainIsLast
<1>2. Moves(i, "done")
  BY SoundParts, FinishMoves DEF FinishDrain
<1>3. \A b \in DOMAIN tasks' : ~Barring(b)'
  BY <1>1, <1>2 DEF Moves, Barring
<1>4. phase' = "loading" \/ mem' = << >>
  BY DEF FinishDrain, Reset
<1>5. phase' # "idle" \/ \A e \in Entry : In(e, mem)' => Settled(e)'
  BY <1>4 DEF In
<1> QED
  BY <1>3, <1>5, NobodyWaits

LEMMA InTail ==
  ASSUME NEW f \in Seq(Line), f # << >>, NEW e, In(e, Tail(f))
  PROVE  In(e, f)
<1>1. PICK l \in DOMAIN Tail(f) : Tail(f)[l] = e
  BY DEF In
<1>2. l + 1 \in DOMAIN f /\ f[l + 1] = e
  BY <1>1
<1> QED
  BY <1>2 DEF In

LEMMA LoadBarriers ==
  ASSUME Sound, Load
  PROVE  AllSecured' /\ BarriersWait'
<1>1. phase = "loading" /\ UNCHANGED <<sess, file, backup, epoch>>
  BY DEF Load, disk
<1>2. file[sess] # << >> /\ sess \in Session /\ file[sess] \in Seq(Line) /\ Headed
      /\ (\A j \in DOMAIN tasks : tasks[j].pc = "done")
  BY <1>1, SoundParts DEF Phases, Exists, Sheets, Books
<1>3. file[sess][1].k = "header"
  <2>1. file[sess][1] = Header(sess)
    BY <1>2 DEF Headed
  <2>2. Header(sess).k = "header"
    BY DEF Header
  <2> QED
    BY <2>1, <2>2
<1>4. mem' = Tail(file[sess]) /\ UNCHANGED tasks
  BY <1>2, <1>3 DEF Load, Loaded, Headlined, chain
<1>5. OnDisk(sess)' = file[sess]
  BY <1>1, <1>2 DEF OnDisk, Exists
<1>6. \A e \in Entry : In(e, mem)' => In(e, OnDisk(sess))'
  BY <1>2, <1>4, <1>5, InTail DEF In
<1>7. \A e \in Entry : In(e, mem)' => Settled(e)'
  BY <1>2, <1>4, <1>6, AllSettled
<1>8. \A b \in DOMAIN tasks' : ~Barring(b)'
  BY <1>2, <1>4 DEF Barring
<1> QED
  BY <1>7, <1>8, NobodyWaits

LEMMA CrashBarriers ==
  ASSUME Sound, Crash
  PROVE  AllSecured' /\ BarriersWait'
<1>1. PICK s \in Session : OnDisk(s) # << >> /\ sess' = s /\ mem' = Loaded(OnDisk(s))
  BY DEF Crash
<1>2. tasks' = << >> /\ DOMAIN tasks' = {} /\ file'[s] = OnDisk(s)
  BY DEF Crash, Recovered
<1>3. OnDisk(s) \in Seq(Line) /\ OnDisk(sess)' = OnDisk(s)
  BY <1>1, <1>2, SoundParts, OnDiskType DEF OnDisk, Exists
<1>4. mem' = Tail(OnDisk(s)) \/ mem' = << >>
  BY <1>1 DEF Loaded
<1>5. \A e \in Entry : In(e, mem)' => In(e, OnDisk(sess))'
  BY <1>1, <1>3, <1>4, InTail DEF In
<1>6. \A e \in Entry : In(e, mem)' => Settled(e)'
  BY <1>2, <1>5, AllSettled
<1> QED
  BY <1>2, <1>6, NobodyWaits

LEMMA TaskStepBarriers ==
  ASSUME Sound, AllSecured, BarriersWait, Orderly', NEW i \in DOMAIN tasks, TaskStep(i)
  PROVE  AllSecured' /\ BarriersWait'
<1>1. CASE FinishDrain(i)
  BY <1>1, FinishDrainBarriers
<1>2. CASE ~FinishDrain(i)
  <2>1. Carried /\ SameBarriers
    BY <1>2, SkipCarried, StartRewriteCarried, SerializeCarried, PublishCarried, PublishedCarried, StartTitleCarried,
       FinishTitleCarried, CloserCarried DEF TaskStep
  <2>2. UNCHANGED <<memory, place, forceFileCreation>>
    BY <1>2 DEF TaskStep, Skip, StartRewrite, Serialize, Publish, Published, StartTitle, FinishTitle, RunFlush,
       StartClose, FinishClose, StartDrain, flags
  <2>3. UNCHANGED <<mem, phase>> /\ (Permitted' => Permitted)
    BY <2>2 DEF memory, place, Permitted
  <2> QED
    BY <2>1, <2>3, QuietBarriers
<1> QED
  BY <1>1, <1>2

LEMMA NextBarriers ==
  ASSUME Sound, AllSecured, BarriersWait, Orderly', [Next]_vars
  PROVE  AllSecured' /\ BarriersWait'
<1>1. CASE Caller
  BY <1>1, AppendEntryBarriers, SetSessionNameBarriers, RewriteEntriesBarriers, EnsureOnDiskBarriers,
     FlushSyncBarriers, BarrierBarriers, SwitchBarriers DEF Caller
<1>2. CASE \E i \in DOMAIN tasks : TaskStep(i)
  BY <1>2, TaskStepBarriers
<1>3. CASE Load
  BY <1>3, LoadBarriers
<1>4. CASE Crash
  BY <1>4, CrashBarriers
<1>5. CASE UNCHANGED vars
  <2>1. UNCHANGED <<mem, phase, forceFileCreation, sess, file, backup, dirty, diskFailure, tasks, epoch>>
    BY <1>5 DEF vars, memory, place, flags, disk, fencing, chain
  <2>2. \A e \in Entry : In(e, OnDisk(sess)) => In(e, OnDisk(sess))'
    BY <2>1 DEF In, OnDisk, Exists
  <2>3. Carried /\ SameBarriers
    BY <2>1, <2>2, CarriedStay, SameTasks
  <2>4. Permitted' => Permitted
    BY <2>1 DEF Permitted
  <2> QED
    BY <2>1, <2>3, <2>4, QuietBarriers
<1> QED
  BY <1>1, <1>2, <1>3, <1>4, <1>5 DEF Next

\* A task comes to its end only by its own step.
LEMMA EndedBy ==
  ASSUME Sound, [Next]_vars, NEW b \in DOMAIN tasks, Barring(b), b \in DOMAIN tasks', tasks'[b].pc = "done"
  PROVE  Skip(b) \/ RunFlush(b) \/ FinishClose(b)
<1>1. CASE \E i \in DOMAIN tasks : TaskStep(i)
  <2>1. PICK i \in DOMAIN tasks : TaskStep(i)
    BY <1>1
  <2>2. tasks[b].pc # "done" /\ Kind(b) \in {"flush", "close"} /\ tasks \in Seq(Task)
    BY SoundParts DEF Barring
  <2>3. \A j \in DOMAIN tasks \ {i} : tasks'[j] = tasks[j]
    BY <2>1, <2>2 DEF TaskStep, Skip, StartRewrite, Serialize, Publish, Published, StartTitle, FinishTitle, RunFlush,
       StartClose, FinishClose, StartDrain, FinishDrain, RaiseFence, Finished
  <2>4. b = i
    BY <2>2, <2>3
  <2>5. ~StartClose(b)
    <3> SUFFICES ASSUME StartClose(b) PROVE FALSE
      OBVIOUS
    <3>1. tasks' = [tasks EXCEPT ![b].pc = "closing"]
      BY DEF StartClose
    <3>2. Moves(b, "closing")
      BY <2>2, <3>1, MoveTo DEF Progress
    <3> QED
      BY <3>2 DEF Moves
  <2>6. tasks[b].pc \notin {"staging", "published", "appended"}
    BY <2>2, SoundParts, StagingKind DEF Kind
  <2> QED
    BY <2>1, <2>2, <2>4, <2>5, <2>6 DEF TaskStep, StartRewrite, Serialize, Publish, Published, StartTitle,
       FinishTitle, StartDrain, FinishDrain, Starts, Kind
<1>2. CASE UNCHANGED tasks \/ \E kind, body : Schedule(kind, body)
  <2>1. tasks'[b] = tasks[b]
    <3>1. CASE \E kind, body : Schedule(kind, body)
      <4>1. PICK t : tasks' = Append(tasks, t)
        BY <3>1 DEF Schedule
      <4>2. tasks \in Seq(Task) /\ b \in 1..Len(tasks)
        BY SoundParts
      <4> QED
        BY <4>1, <4>2
    <3> QED
      BY <1>2, <3>1
  <2> QED
    BY <2>1 DEF Barring
<1>3. CASE Caller
  BY <1>2, <1>3 DEF Caller, AppendEntry, SetSessionName, RewriteEntries, EnsureOnDisk, FlushSync, Barrier, NewSession,
     SetSessionFile, Switch, chain
<1>4. CASE Load
  BY <1>2, <1>4 DEF Load, chain
<1>5. CASE Crash
  BY <1>5 DEF Crash
<1>6. CASE UNCHANGED vars
  BY <1>2, <1>6 DEF vars, chain
<1> QED
  BY <1>1, <1>3, <1>4, <1>5, <1>6 DEF Next

\* When a barrier's turn comes, nothing before it is left to do.
LEMMA TurnComes ==
  ASSUME Sound, NEW b \in DOMAIN tasks, Current(b), Ready(b) \/ tasks[b].pc = "closing",
         NEW j \in DOMAIN tasks, Current(j), j < b
  PROVE  tasks[j].pc = "done"
<1>1. CASE Ready(b)
  BY <1>1, SoundParts, ReadyIsNext
<1>2. CASE tasks[b].pc = "closing"
  BY <1>2, SoundParts DEF Chain, Lined
<1> QED
  BY <1>1, <1>2

LEMMA BarrierDone ==
  ASSUME Sound, BarriersWait, [Next]_vars, NEW b \in DOMAIN tasks, Barring(b),
         b \in DOMAIN tasks', tasks'[b].pc = "done", ~diskFailure', NEW e \in Line, In(e, tasks[b].body)
  PROVE  In(e, OnDisk(sess))'
<1>1. Skip(b) \/ RunFlush(b) \/ FinishClose(b)
  BY EndedBy
<1>2. /\ UNCHANGED <<sess, file, backup, diskFailure>>
      /\ Ready(b) \/ tasks[b].pc = "closing"
  BY <1>1 DEF Skip, RunFlush, FinishClose, Starts, place, disk
<1>3. SecuredBefore(b, e)
  BY DEF BarriersWait
<1>4. ~Lost
  BY <1>2 DEF Lost
<1>5. ~(Current(b) /\ \E j \in DOMAIN tasks : j < b /\ Covers(j, e))
  <2> SUFFICES ASSUME Current(b), NEW j \in DOMAIN tasks, j < b, Covers(j, e) PROVE FALSE
    OBVIOUS
  <2>1. Current(j) /\ tasks[j].pc # "done"
    BY DEF Covers
  <2> QED
    BY <1>2, <2>1, TurnComes
<1>6. In(e, OnDisk(sess))
  BY <1>3, <1>4, <1>5 DEF SecuredBefore, Settled, Durable
<1> QED
  BY <1>2, <1>6 DEF In, OnDisk, Exists, disk

\* Until a mishap other than a rewrite cut short, when flush() or close()
\* resolves without a disk error, every entry that was in memory when it was
\* called is on disk, title changes included: whatever was not on disk then was
\* answered for by work that comes before the barrier in the chain, and neither
\* a synchronous rewrite that drops that work nor an append the fence holds back
\* leaves an entry to nobody.
THEOREM FlushMeansSaved == Spec => BarrierSaves
<1> DEFINE Saves1 == \A i \in DOMAIN tasks :
       (/\ tasks[i].kind \in {"flush", "close"} /\ tasks[i].pc # "done"
        /\ i \in DOMAIN tasks' /\ tasks'[i].pc = "done" /\ ~diskFailure')
       => \A n \in DOMAIN tasks[i].body :
            \E l \in DOMAIN OnDisk(sess)' : OnDisk(sess)'[l] = tasks[i].body[n]
           Waiting == Orderly => AllSecured /\ BarriersWait
<1>1. Init => Waiting
  BY DEF Init, AllSecured, BarriersWait, In
<1>2. Waiting /\ (Orderly => Sound) /\ [Next]_vars => Waiting'
  <2> SUFFICES ASSUME Waiting, Orderly => Sound, [Next]_vars, Orderly' PROVE AllSecured' /\ BarriersWait'
    OBVIOUS
  <2>1. Sound /\ AllSecured /\ BarriersWait
    BY NextNotes
  <2> QED
    BY <2>1, NextBarriers
<1>3. Waiting /\ (Orderly => Sound) /\ [Next]_vars => (Orderly' => Saves1)
  <2> SUFFICES ASSUME Waiting, Orderly => Sound, Orderly', [Next]_vars, NEW i \in DOMAIN tasks,
                      tasks[i].kind \in {"flush", "close"}, tasks[i].pc # "done",
                      i \in DOMAIN tasks', tasks'[i].pc = "done", ~diskFailure', NEW n \in DOMAIN tasks[i].body
               PROVE  \E l \in DOMAIN OnDisk(sess)' : OnDisk(sess)'[l] = tasks[i].body[n]
    OBVIOUS
  <2>0. Sound /\ BarriersWait
    BY NextNotes
  <2>1. tasks[i].body \in Seq(Line)
    BY <2>0, SoundParts, TaskType
  <2>2. tasks[i].body[n] \in Line /\ In(tasks[i].body[n], tasks[i].body)
    BY <2>1 DEF In
  <2>3. PICK e \in Line : e = tasks[i].body[n]
    BY <2>2
  <2>4. In(e, OnDisk(sess))'
    BY <2>0, <2>2, <2>3, BarrierDone DEF Barring, Kind
  <2> QED
    BY <2>3, <2>4 DEF In
<1>4. Spec => [](Orderly => Sound)
  BY SoundAlways
<1>5. (Orderly' => Saves1) => [Orderly' => Saves1]_vars
  OBVIOUS
<1> HIDE DEF Saves1, Waiting
<1>6. Spec => [][Orderly' => Saves1]_vars
  BY <1>1, <1>2, <1>3, <1>4, PTL DEF Spec
<1> QED
  BY <1>6 DEF BarrierSaves, Saves1
=============================================================================
