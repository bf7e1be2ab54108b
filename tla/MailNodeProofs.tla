--------------------------- MODULE MailNodeProofs ---------------------------
(***************************************************************************)
(* Theorems about the node, for every number of sessions, names, messages  *)
(* and every interleaving of handlers, deletions, crashes and registry.    *)
(***************************************************************************)
EXTENDS MailNode, FiniteSetTheorems, SequenceTheorems, TLAPS

USE MailNodeAssumption

-----------------------------------------------------------------------------
(* The inductive invariant.                                                *)

\* What a handler knows in each of its phases, stored being the pinned blobs.
JobOK(job, stored) ==
    /\ job.phase = "ready" => job.accepted # <<>>
    /\ job.phase \in Phases \ {"idle", "ready"} => job.name \in Names
    /\ job.phase \in {"reading", "pinning", "appending"} => job.cid # None
    /\ job.phase \in {"pinning", "appending"} => job.dek # None /\ job.gen # None
    /\ job.phase = "appending" => job.cid \in stored

JobsOK == \A s \in Sessions : JobOK(sessions[s], pins)

\* A content id belongs to one session, or to one row and its answer.
CidsAreOwned ==
    /\ \A s \in Sessions : sessions[s].cid # None =>
           /\ sessions[s].cid < nextMail
           /\ \A t \in Sessions : s # t => sessions[s].cid # sessions[t].cid
           /\ \A e \in entries : e.cid # sessions[s].cid
           /\ \A a \in answered : a.cid # sessions[s].cid
    /\ \A a \in answered :
           /\ a.cid \in Nat /\ a.cid < nextMail
           /\ \A e \in entries : e.cid = a.cid => e.name = a.name

\* A flag in the trash is about a row that exists or existed, and a row that is
\* flagged was condemned.
FlagsCondemn ==
    \A n \in Names : \A seq \in trashed[n] :
        /\ seq < nextSeq
        /\ \A e \in entries : e.name = n /\ e.seq = seq => e.cid \in condemned

DiskInv ==
    CidsAreOwned /\ RowsAreDistinct /\ NoDanglingRow /\ FlagsCondemn /\ AnsweredMailIsKept

\* A writer that may write has seen the node opted in since it pinned the blob.
JobOpen(job) ==
    job.phase = "appending" =>
        /\ IsOpen(job.name) => job.open = TRUE
        /\ job.answer = TRUE => job.open = TRUE

OpenOK == \A s \in Sessions : JobOpen(sessions[s])

MailInv == TypeOK /\ JobsOK /\ DiskInv /\ OpenOK

-----------------------------------------------------------------------------
(* Types.                                                                  *)

\* A session that has nothing to do is a session.
LEMMA IdleType == Idle \in Jobs
<1>1. None \in Answers BY DEF Answers
<1>2. <<>> \in Seq(Names) OBVIOUS
<1> QED BY <1>1, <1>2 DEF Idle, Jobs, Phases

\* The registry keeps its type.
LEMMA BookType ==
    ASSUME book \in [Names -> [epoch : Nat, keys : SUBSET Keys, doors : SUBSET Nodes]],
           Registry!Next
    PROVE  book' \in [Names -> [epoch : Nat, keys : SUBSET Keys, doors : SUBSET Nodes]]
<1> DEFINE Records == [epoch : Nat, keys : SUBSET Keys, doors : SUBSET Nodes]
<1>1. ASSUME NEW n \in Names, NEW r \in Records, book' = [book EXCEPT ![n] = r]
      PROVE  book' \in [Names -> Records]
  BY <1>1
<1>2. ASSUME NEW n \in Names, NEW k \in Keys, NEW epoch \in 1..MaxGeneration,
             Registry!Claim(n, k, epoch)
      PROVE  book' \in [Names -> Records]
  <2>1. [epoch |-> epoch, keys |-> {k}, doors |-> {}] \in Records
    OBVIOUS
  <2> QED BY <1>1, <1>2, <2>1 DEF Registry!Claim
<1>3. ASSUME NEW n \in Names, NEW k \in Keys, NEW d \in Nodes, Registry!LinkDevice(n, k, d)
      PROVE  book' \in [Names -> Records]
  <2>1. PICK open \in SUBSET {d} :
            book' = [book EXCEPT ![n].keys = @ \cup {k}, ![n].doors = @ \cup open]
    BY <1>3 DEF Registry!LinkDevice
  <2> DEFINE keyed == [book EXCEPT ![n].keys = @ \cup {k}]
  <2>2. keyed \in [Names -> Records]
    OBVIOUS
  <2>3. book' = [keyed EXCEPT ![n].doors = @ \cup open]
    BY <2>1
  <2> HIDE DEF keyed
  <2> QED BY <2>2, <2>3
<1>4. ASSUME NEW n \in Names, NEW k \in Keys, Registry!DropDevice(n, k)
      PROVE  book' \in [Names -> Records]
  BY <1>4 DEF Registry!DropDevice
<1>5. ASSUME NEW n \in Names, Registry!Release(n)
      PROVE  book' \in [Names -> Records]
  BY <1>5 DEF Registry!Release
<1>6. ASSUME NEW n \in Names, NEW d \in Nodes,
             Registry!OpenDoor(n, d) \/ Registry!ShutDoor(n, d)
      PROVE  book' \in [Names -> Records]
  BY <1>6 DEF Registry!OpenDoor, Registry!ShutDoor
<1> QED BY <1>2, <1>3, <1>4, <1>5, <1>6 DEF Registry!Next, Names

\* An opt-in is answered with true or false, or not yet.
LEMMA AnswerTypes == None \in Answers /\ TRUE \in Answers /\ FALSE \in Answers
BY DEF Answers

\* Whatever the relayer answers about the generation is an answer.
LEMMA GenerationAnswersType ==
    ASSUME TypeOK, NEW n \in Names
    PROVE  GenerationAnswers(n) \subseteq Nat
<1>1. book[n].epoch \in Nat BY DEF TypeOK
<1> QED BY <1>1 DEF GenerationAnswers, NormalizeIndexGeneration

\* A recipient that is accepted or refused leaves a well-typed session.
LEMMA AfterRcptType ==
    ASSUME NEW s, NEW accepted \in Seq(Names)
    PROVE  AfterRcpt(s, accepted) \in Jobs
<1>1. [Idle EXCEPT !.phase = "ready", !.accepted = accepted] \in Jobs
  BY IdleType, AnswerTypes DEF Idle, Jobs, Phases
<1> QED BY <1>1, IdleType DEF AfterRcpt

\* The answers keep the types of the sessions.
LEMMA AnswerType ==
    ASSUME TypeOK, JobsOK, NEW s \in Sessions, Answer(s)
    PROVE  TypeOK'
<1> DEFINE job == sessions[s]
<1>1. job \in Jobs /\ sessions \in [Sessions -> Jobs]
  BY DEF TypeOK
<1>2. ASSUME sessions' \in [Sessions -> Jobs], UNCHANGED <<book, disk, nextMail, history>>
      PROVE  TypeOK'
  BY <1>2 DEF TypeOK, disk, history, Rows
<1>3. CASE AnswerOptedIn(s)
  <2>1. PICK yes \in {IsOpen(job.name), FALSE} : sessions' = [sessions EXCEPT ![s].answer = yes]
    BY <1>3 DEF AnswerOptedIn
  <2>2. yes \in Answers
    <3>1. IsOpen(job.name) \in BOOLEAN
      BY DEF IsOpen
    <3>2. \A b \in BOOLEAN : b \in Answers
      BY DEF Answers
    <3> QED BY <3>1, <3>2
  <2>3. [job EXCEPT !.answer = yes] \in Jobs
    BY <1>1, <2>2 DEF Jobs
  <2>4. sessions' \in [Sessions -> Jobs]
    BY <1>1, <2>1, <2>3
  <2> QED BY <1>2, <1>3, <2>4 DEF AnswerOptedIn
<1>4. CASE AnswerGeneration(s)
  <2>1. job.name \in Names
    BY <1>4 DEF AnswerGeneration, JobsOK, JobOK, Phases
  <2>2. PICK gen \in GenerationAnswers(job.name) : sessions' = [sessions EXCEPT ![s].gen = gen]
    BY <1>4 DEF AnswerGeneration
  <2>3. [job EXCEPT !.gen = gen] \in Jobs
    BY <1>1, <2>1, GenerationAnswersType DEF Jobs
  <2>4. sessions' \in [Sessions -> Jobs]
    BY <1>1, <2>2, <2>3
  <2> QED BY <1>2, <1>4, <2>4 DEF AnswerGeneration
<1>5. CASE AnswerRecord(s)
  <2>1. job.name \in Names
    BY <1>5 DEF AnswerRecord, JobsOK, JobOK, Phases
  <2>2. book[job.name].epoch \in Nat
    BY <2>1 DEF TypeOK
  <2>3. [job EXCEPT !.dek = book[job.name].epoch] \in Jobs
    BY <1>1, <2>2 DEF Jobs
  <2>4. sessions' \in [Sessions -> Jobs]
    BY <1>1, <1>5, <2>3 DEF AnswerRecord
  <2> QED BY <1>2, <1>5, <2>4 DEF AnswerRecord
<1>6. CASE AnswerRecordGeneration(s)
  <2>1. job.name \in Names
    BY <1>6 DEF AnswerRecordGeneration, JobsOK, JobOK, Phases
  <2>2. PICK gen \in GenerationAnswers(job.name) : sessions' = [sessions EXCEPT ![s].gen = gen]
    BY <1>6 DEF AnswerRecordGeneration
  <2>3. [job EXCEPT !.gen = gen] \in Jobs
    BY <1>1, <2>1, GenerationAnswersType DEF Jobs
  <2>4. sessions' \in [Sessions -> Jobs]
    BY <1>1, <2>2, <2>3
  <2> QED BY <1>2, <1>6, <2>4 DEF AnswerRecordGeneration
<1>7. CASE IngestThrows(s)
  <2>1. sessions' \in [Sessions -> Jobs]
    BY <1>1, <1>7, IdleType DEF IngestThrows, Refuse
  <2> QED BY <1>2, <1>7, <2>1 DEF IngestThrows
<1> QED BY <1>3, <1>4, <1>5, <1>6, <1>7 DEF Answer

\* A row that is saved is a row.
LEMMA SavesType ==
    ASSUME TypeOK, JobsOK, NEW s \in Sessions, Saves(s), sessions' \in [Sessions -> Jobs]
    PROVE  TypeOK'
<1> DEFINE job == sessions[s]
<1>1. /\ job.name \in Names /\ job.gen \in Nat /\ job.dek \in Nat
      /\ job.cid \in Nat /\ job.size \in Nat
  BY DEF Saves, JobsOK, JobOK, TypeOK, Jobs, Phases
<1>2. nextSeq' \in Nat /\ entries' \subseteq Rows
  BY <1>1 DEF Saves, TypeOK, Rows
<1> QED BY <1>2 DEF Saves, TypeOK, Rows

\* The steps of the handlers keep the types.
LEMMA ContinueType ==
    ASSUME TypeOK, JobsOK, NEW s \in Sessions, Continue(s)
    PROVE  TypeOK'
<1> DEFINE job == sessions[s]
<1>1. job \in Jobs /\ sessions \in [Sessions -> Jobs]
  BY DEF TypeOK
<1>2. ASSUME sessions' \in [Sessions -> Jobs], UNCHANGED <<book, disk, nextMail, history>>
      PROVE  TypeOK'
  BY <1>2 DEF TypeOK, disk, history, Rows
<1>3. CASE RcptOptedIn(s)
  <2>1. [job EXCEPT !.phase = "measuring", !.answer = None] \in Jobs
    BY <1>1, AnswerTypes DEF Jobs, Phases
  <2>2. sessions' \in [Sessions -> Jobs]
    BY <1>1, <1>3, <2>1 DEF RcptOptedIn
  <2> QED BY <1>2, <1>3, <2>2 DEF RcptOptedIn
<1>4. CASE RcptUnknown(s)
  <2>1. AfterRcpt(s, job.accepted) \in Jobs
    BY <1>1, AfterRcptType DEF Jobs
  <2>2. sessions' \in [Sessions -> Jobs]
    BY <1>1, <1>4, <2>1 DEF RcptUnknown
  <2> QED BY <1>2, <1>4, <2>2 DEF RcptUnknown
<1>5. CASE RcptMeasured(s)
  <2>1. job.accepted \in Seq(Names) /\ Append(job.accepted, job.name) \in Seq(Names)
    BY <1>1, <1>5, AppendProperties DEF RcptMeasured, JobsOK, JobOK, Phases, Jobs
  <2>2. \A accepted \in Seq(Names) : AfterRcpt(s, accepted) \in Jobs
    BY AfterRcptType
  <2>3. sessions' \in [Sessions -> Jobs]
    BY <1>1, <1>5, <2>1, <2>2 DEF RcptMeasured
  <2> QED BY <1>2, <1>5, <2>3 DEF RcptMeasured
<1>6. CASE Sealed(s)
  <2>1. [job EXCEPT !.phase = "pinning"] \in Jobs
    BY <1>1 DEF Jobs, Phases
  <2>2. sessions' \in [Sessions -> Jobs]
    BY <1>1, <1>6, <2>1, IdleType DEF Sealed, Refuse
  <2> QED BY <1>2, <1>6, <2>2 DEF Sealed
<1>7. CASE Pin(s)
  <2>1. IsOpen(job.name) \in BOOLEAN /\ job.cid \in Nat
    BY <1>1, <1>7 DEF IsOpen, Pin, JobsOK, JobOK, Jobs
  <2>2. [job EXCEPT !.phase = "appending", !.answer = None, !.open = IsOpen(job.name)] \in Jobs
    BY <1>1, <2>1, AnswerTypes DEF Jobs, Phases
  <2>3. sessions' \in [Sessions -> Jobs]
    BY <1>1, <1>7, <2>2 DEF Pin
  <2> QED BY <1>7, <2>1, <2>3 DEF Pin, TypeOK, Rows, history
<1>8. CASE AppendRow(s)
  <2>1. sessions' \in [Sessions -> Jobs]
    BY <1>1, <1>8, IdleType DEF AppendRow
  <2> QED BY <1>8, <2>1, SavesType DEF AppendRow
<1>9. CASE AppendRefused(s)
  <2>1. sessions' \in [Sessions -> Jobs]
    BY <1>1, <1>9, IdleType DEF AppendRefused, Refuse
  <2> QED BY <1>2, <1>9, <2>1 DEF AppendRefused
<1> QED BY <1>3, <1>4, <1>5, <1>6, <1>7, <1>8, <1>9 DEF Continue

\* New commands keep the types.
LEMMA ArriveType ==
    ASSUME TypeOK, JobsOK, NEW s \in Sessions, Arrive(s)
    PROVE  TypeOK'
<1> DEFINE job == sessions[s]
<1>1. job \in Jobs /\ sessions \in [Sessions -> Jobs]
  BY DEF TypeOK
<1>2. ASSUME NEW n \in Names, Rcpt(s, n)
      PROVE  TypeOK'
  <2>1. [job EXCEPT !.phase = "asking", !.name = n, !.answer = None] \in Jobs
    BY <1>1, AnswerTypes DEF Jobs, Phases
  <2>2. sessions' \in [Sessions -> Jobs]
    BY <1>1, <1>2, <2>1 DEF Rcpt
  <2> QED BY <1>2, <2>2 DEF Rcpt, TypeOK, disk, history, Rows
<1>3. ASSUME NEW size \in Sizes, Data(s, size)
      PROVE  TypeOK'
  <2>1. Head(job.accepted) \in Names
    BY <1>1, <1>3, HeadTailProperties DEF Data, JobsOK, JobOK, Jobs
  <2>2. nextMail \in Nat /\ size \in Nat
    BY DEF TypeOK
  <2>3. [job EXCEPT !.phase = "reading", !.size = size, !.cid = nextMail,
                    !.name = Head(job.accepted)] \in Jobs
    BY <1>1, <2>1, <2>2 DEF Jobs, Phases
  <2>4. sessions' \in [Sessions -> Jobs]
    BY <1>1, <1>3, <2>3 DEF Data
  <2> QED BY <1>3, <2>2, <2>4 DEF Data, TypeOK, disk, history, Rows
<1> QED BY <1>2, <1>3 DEF Arrive

-----------------------------------------------------------------------------
(* Deletions and crashes.                                                  *)

\* What a deletion does to the disk, whether it ends or is cut short, and with it a
\* lost file of flags.
Deletes(n, seqs) ==
    /\ entries' = Without(n, seqs)
    /\ pins \ Unreferenced(n, seqs) \subseteq pins' /\ pins' \subseteq pins
    /\ trashed' \in [Names -> SUBSET Nat]
    /\ \A m \in Names : trashed'[m] \subseteq trashed[m]
    /\ torn \subseteq torn' /\ torn' \subseteq {"index", "flags"}
    /\ UNCHANGED <<book, nextSeq, nextMail, answered, condemned>>
    /\ sessions' = sessions \/ sessions' = [s \in Sessions |-> Idle]

\* A deletion, whole or cut short, takes rows, flags and blobs away and adds none.
LEMMA DeletionStep ==
    ASSUME TypeOK, NEW n \in Names, NEW seqs,
           PermanentlyDelete(n, seqs) \/ CrashInDelete(n, seqs)
    PROVE  Deletes(n, seqs)
<1>1. ASSUME ClearTrashFlags(n, seqs)
      PROVE  /\ trashed' \in [Names -> SUBSET Nat]
             /\ \A m \in Names : trashed'[m] \subseteq trashed[m]
  BY <1>1 DEF ClearTrashFlags, TypeOK
<1>2. CASE PermanentlyDelete(n, seqs)
  BY <1>1, <1>2 DEF PermanentlyDelete, Deletes, TypeOK
<1>3. CASE CrashInDelete(n, seqs)
  <2>1. /\ entries' = Without(n, seqs)
        /\ UNCHANGED <<book, nextSeq, torn, nextMail, answered, condemned>>
        /\ sessions' = [s \in Sessions |-> Idle]
        /\ torn \subseteq {"index", "flags"}
    BY <1>3 DEF CrashInDelete, SessionsEnd, TypeOK
  <2>2. CASE UNCHANGED <<trashed, pins>>
    BY <2>1, <2>2 DEF Deletes, TypeOK
  <2>3. CASE /\ ClearTrashFlags(n, seqs)
             /\ \E gone \in SUBSET Unreferenced(n, seqs) : pins' = pins \ gone
    BY <1>1, <2>1, <2>3 DEF Deletes
  <2> QED BY <1>3, <2>2, <2>3 DEF CrashInDelete
<1> QED BY <1>2, <1>3

\* So does a crash inside the write of the flags.
LEMMA FlushStep ==
    ASSUME TypeOK, CrashInFlush
    PROVE  \E n \in Names, seqs \in SUBSET Nat : seqs \subseteq trashed[n] /\ Deletes(n, seqs)
<1>1. /\ trashed' \in [Names -> SUBSET Nat] /\ \A m \in Names : trashed'[m] \subseteq trashed[m]
      /\ torn \subseteq torn' /\ torn' \subseteq {"index", "flags"}
      /\ UNCHANGED <<book, nextSeq, pins, nextMail, answered, condemned>>
      /\ sessions' = [s \in Sessions |-> Idle]
  BY DEF CrashInFlush, SessionsEnd, TypeOK, history
<1>2. ASSUME NEW n \in Names, NEW seqs \in Deletions(n), entries' = Without(n, seqs)
      PROVE  seqs \in SUBSET Nat /\ seqs \subseteq trashed[n] /\ Deletes(n, seqs)
  <2>1. seqs \subseteq trashed[n] /\ trashed[n] \in SUBSET Nat
    BY DEF Deletions, TypeOK
  <2> QED BY <1>1, <1>2, <2>1 DEF Deletes
<1>3. ASSUME NEW n \in Names, UNCHANGED entries
      PROVE  {} \in SUBSET Nat /\ {} \subseteq trashed[n] /\ Deletes(n, {})
  <2>1. Without(n, {}) = entries
    BY DEF Without
  <2> QED BY <1>1, <1>3, <2>1 DEF Deletes
<1> QED BY <1>2, <1>3 DEF CrashInFlush

\* The steps of the trash and the crashes are deletions of what is in the trash,
\* flags that change, the loss of the index, or the end of every session.
LEMMA DiskSteps ==
    ASSUME TypeOK, TrashStep \/ CrashStep
    PROVE  \/ \E n \in Names, seqs \in SUBSET Nat : seqs \subseteq trashed[n] /\ Deletes(n, seqs)
           \/ \E n \in Names, seq \in 1..nextSeq - 1 : Trash(n, seq) \/ Restore(n, seq)
           \/ CrashInSave
           \/ Crash
<1>1. ASSUME NEW n \in Names, NEW seq, seq \in 1..nextSeq - 1, Delete(n, seq)
      PROVE  \E seqs \in SUBSET Nat : seqs \subseteq trashed[n] /\ Deletes(n, seqs)
  <2>1. {seq} \in SUBSET Nat /\ {seq} \subseteq trashed[n] /\ Deletes(n, {seq})
    BY <1>1, DeletionStep DEF Delete, TypeOK
  <2> QED BY <2>1
<1>2. ASSUME NEW n \in Names, EmptyTrash(n)
      PROVE  \E seqs \in SUBSET Nat : seqs \subseteq trashed[n] /\ Deletes(n, seqs)
  <2>1. trashed[n] \in SUBSET Nat /\ Deletes(n, trashed[n])
    BY <1>2, DeletionStep DEF EmptyTrash, TypeOK
  <2> QED BY <2>1
<1>3. ASSUME NEW n \in Names, NEW seqs \in Deletions(n), CrashInDelete(n, seqs)
      PROVE  \E d \in SUBSET Nat : d \subseteq trashed[n] /\ Deletes(n, d)
  <2>1. seqs \in SUBSET Nat /\ seqs \subseteq trashed[n] /\ Deletes(n, seqs)
    BY <1>3, DeletionStep DEF TypeOK, Deletions
  <2> QED BY <2>1
<1> QED BY <1>1, <1>2, <1>3, FlushStep DEF TrashStep, CrashStep

\* The disk keeps its type.
LEMMA DiskType ==
    ASSUME TypeOK, TrashStep \/ CrashStep
    PROVE  TypeOK'
<1>1. [s \in Sessions |-> Idle] \in [Sessions -> Jobs]
  BY IdleType
<1>2. ASSUME NEW n \in Names, NEW seqs \in SUBSET Nat, Deletes(n, seqs)
      PROVE  TypeOK'
  <2>1. entries' \subseteq Rows /\ pins' \subseteq Nat
    BY <1>2 DEF Deletes, Without, TypeOK
  <2>2. sessions' \in [Sessions -> Jobs]
    BY <1>1, <1>2 DEF Deletes, TypeOK
  <2> QED BY <1>2, <2>1, <2>2 DEF Deletes, TypeOK, Rows
<1>3. ASSUME NEW n \in Names, NEW seq \in 1..nextSeq - 1, Trash(n, seq) \/ Restore(n, seq)
      PROVE  TypeOK'
  <2>1. trashed' \in [Names -> SUBSET Nat]
    BY <1>3 DEF Trash, Restore, TypeOK
  <2> QED BY <1>3, <2>1 DEF Trash, Restore, TypeOK, Rows
<1>4. CASE Crash
  <2>1. sessions' \in [Sessions -> Jobs] /\ nextSeq' \in Nat
    BY <1>1, <1>4 DEF Crash, SessionsEnd, NextSeqOnLoad, TypeOK
  <2> QED BY <1>4, <2>1 DEF Crash, TypeOK, Rows
<1>5. CASE CrashInSave
  <2>1. sessions' \in [Sessions -> Jobs]
    BY <1>1, <1>5 DEF CrashInSave, SessionsEnd
  <2>2. entries' \subseteq Rows /\ torn' \subseteq {"index", "flags"}
    BY <1>5 DEF CrashInSave, TypeOK
  <2> QED BY <1>5, <2>1, <2>2 DEF CrashInSave, TypeOK, Rows
<1> QED BY <1>2, <1>3, <1>4, <1>5, DiskSteps

\* The registry keeps the types of its book.
LEMMA RegistryStepType ==
    ASSUME TypeOK, RegistryStep
    PROVE  TypeOK'
<1>1. book' \in [Names -> [epoch : Nat, keys : SUBSET Keys, doors : SUBSET Nodes]]
  BY BookType DEF RegistryStep, TypeOK
<1>2. ASSUME NEW s \in Sessions
      PROVE  /\ sessions[s] \in Jobs
             /\ [sessions[s] EXCEPT !.open =
                    @ \/ ThisNode \in book'[sessions[s].name].doors] \in Jobs
  <2>1. sessions[s] \in Jobs
    BY DEF TypeOK
  <2>2. (sessions[s].open \/ ThisNode \in book'[sessions[s].name].doors) \in BOOLEAN
    OBVIOUS
  <2> QED BY <2>1, <2>2 DEF Jobs
<1>3. sessions' \in [Sessions -> Jobs]
  BY <1>2 DEF RegistryStep
<1> QED BY <1>1, <1>3 DEF RegistryStep, TypeOK, disk, history, Rows

\* Every step keeps the types.
LEMMA NextType ==
    ASSUME TypeOK, JobsOK, [Next]_vars
    PROVE  TypeOK'
<1>1. CASE UNCHANGED vars
  BY <1>1 DEF vars, disk, history, TypeOK, Rows
<1>2. ASSUME NEW s \in Sessions, CrashBeforeReply(s)
      PROVE  TypeOK'
  <2>1. sessions' \in [Sessions -> Jobs]
    BY <1>2, IdleType DEF CrashBeforeReply, SessionsEnd
  <2> QED BY <1>2, <2>1, SavesType DEF CrashBeforeReply
<1> QED BY <1>1, <1>2, AnswerType, ContinueType, ArriveType, DiskType, RegistryStepType
        DEF Next, NodeStep

-----------------------------------------------------------------------------
(* The handlers know what they need.                                       *)

\* An idle session knows nothing that could be wrong.
LEMMA IdleJob == \A stored : JobOK(Idle, stored)
BY DEF JobOK, Idle, Phases

\* One handler moves on and no blob is unpinned.
LEMMA OneJob ==
    ASSUME TypeOK, JobsOK, NEW s \in Sessions, NEW job,
           sessions' = [sessions EXCEPT ![s] = job], JobOK(job, pins'), pins \subseteq pins'
    PROVE  JobsOK'
BY DEF JobsOK, JobOK, TypeOK

\* A reply of the relayer gives a handler only what its phase may know.
LEMMA AnswerJobs ==
    ASSUME TypeOK, JobsOK, NEW s \in Sessions, Answer(s)
    PROVE  JobsOK'
<1>1. sessions[s] \in Jobs /\ JobOK(sessions[s], pins) /\ pins' = pins
  BY DEF TypeOK, JobsOK, Answer, AnswerOptedIn, AnswerGeneration, AnswerRecord,
         AnswerRecordGeneration, IngestThrows, disk
<1>2. ASSUME NEW yes, sessions' = [sessions EXCEPT ![s].answer = yes]
      PROVE  JobsOK'
  <2>1. JobOK([sessions[s] EXCEPT !.answer = yes], pins')
    BY <1>1 DEF JobOK, Jobs
  <2> QED BY <1>1, <1>2, <2>1, OneJob
<1>3. ASSUME NEW gen \in Nat, sessions' = [sessions EXCEPT ![s].dek = gen]
      PROVE  JobsOK'
  <2>1. JobOK([sessions[s] EXCEPT !.dek = gen], pins')
    BY <1>1 DEF JobOK, Jobs
  <2> QED BY <1>1, <1>3, <2>1, OneJob
<1>4. ASSUME NEW gen \in Nat, sessions' = [sessions EXCEPT ![s].gen = gen]
      PROVE  JobsOK'
  <2>1. JobOK([sessions[s] EXCEPT !.gen = gen], pins')
    BY <1>1 DEF JobOK, Jobs
  <2> QED BY <1>1, <1>4, <2>1, OneJob
<1>5. CASE AnswerOptedIn(s)
  BY <1>2, <1>5 DEF AnswerOptedIn
<1>6. CASE AnswerGeneration(s) \/ AnswerRecord(s) \/ AnswerRecordGeneration(s)
  <2>1. sessions[s].name \in Names
    BY <1>1, <1>6 DEF AnswerGeneration, AnswerRecord, AnswerRecordGeneration, JobOK, Phases
  <2>2. book[sessions[s].name].epoch \in Nat
    BY <2>1 DEF TypeOK
  <2> QED BY <1>3, <1>4, <1>6, <2>1, <2>2, GenerationAnswersType
          DEF AnswerGeneration, AnswerRecord, AnswerRecordGeneration
<1>7. CASE IngestThrows(s)
  BY <1>1, <1>7, IdleJob, OneJob DEF IngestThrows, Refuse
<1> QED BY <1>5, <1>6, <1>7 DEF Answer

\* The code between two awaits carries what a handler knows into its next phase.
LEMMA ContinueJobs ==
    ASSUME TypeOK, JobsOK, NEW s \in Sessions, Continue(s)
    PROVE  JobsOK'
<1> DEFINE job == sessions[s]
<1>1. job \in Jobs /\ JobOK(job, pins)
  BY DEF TypeOK, JobsOK
<1>2. \A accepted \in Seq(Names) : \A stored : JobOK(AfterRcpt(s, accepted), stored)
  <2> SUFFICES ASSUME NEW accepted \in Seq(Names), accepted # <<>>, NEW stored
               PROVE  JobOK([Idle EXCEPT !.phase = "ready", !.accepted = accepted], stored)
    BY IdleJob DEF AfterRcpt
  <2> QED BY DEF JobOK, Idle, Phases
<1>3. CASE RcptOptedIn(s)
  <2>1. JobOK([job EXCEPT !.phase = "measuring", !.answer = None], pins)
    BY <1>1, <1>3 DEF RcptOptedIn, JobOK, Jobs, Phases
  <2> QED BY <1>3, <2>1, OneJob DEF RcptOptedIn, disk
<1>4. CASE RcptUnknown(s)
  <2>1. JobOK(AfterRcpt(s, job.accepted), pins)
    BY <1>1, <1>2 DEF Jobs
  <2> QED BY <1>4, <2>1, OneJob DEF RcptUnknown, disk
<1>5. CASE RcptMeasured(s)
  <2>1. job.accepted \in Seq(Names) /\ Append(job.accepted, job.name) \in Seq(Names)
    BY <1>1, <1>5, AppendProperties DEF RcptMeasured, JobOK, Phases, Jobs
  <2> DEFINE acc == IF TotalSize(job.name, job.gen) >= Cap
                    THEN job.accepted ELSE Append(job.accepted, job.name)
  <2>2. sessions' = [sessions EXCEPT ![s] = AfterRcpt(s, acc)] /\ UNCHANGED pins
    BY <1>1, <1>5 DEF RcptMeasured, disk, TypeOK
  <2>3. acc \in Seq(Names)
    BY <2>1
  <2> QED BY <1>2, <2>2, <2>3, OneJob
<1>6. CASE Sealed(s)
  <2>1. JobOK([job EXCEPT !.phase = "pinning"], pins)
    BY <1>1, <1>6 DEF Sealed, BothRead, JobOK, Jobs, Phases
  <2> QED BY <1>6, <2>1, IdleJob, OneJob DEF Sealed, Refuse, disk
<1>7. CASE Pin(s)
  <2>1. JobOK([job EXCEPT !.phase = "appending", !.answer = None, !.open = IsOpen(job.name)], pins')
    BY <1>1, <1>7 DEF Pin, JobOK, Jobs, Phases
  <2>2. pins \subseteq pins'
    BY <1>7 DEF Pin
  <2>3. sessions' = [sessions EXCEPT ![s] =
                         [job EXCEPT !.phase = "appending", !.answer = None, !.open = IsOpen(job.name)]]
    BY <1>7 DEF Pin
  <2> HIDE DEF job
  <2> QED BY <2>1, <2>2, <2>3, OneJob
<1>8. CASE AppendRow(s)
  BY <1>8, IdleJob, OneJob DEF AppendRow, Saves
<1>9. CASE AppendRefused(s)
  BY <1>9, IdleJob, OneJob DEF AppendRefused, Refuse, disk
<1> QED BY <1>3, <1>4, <1>5, <1>6, <1>7, <1>8, <1>9 DEF Continue

\* A new command begins with what its phase knows.
LEMMA ArriveJobs ==
    ASSUME TypeOK, JobsOK, NEW s \in Sessions, Arrive(s)
    PROVE  JobsOK'
<1> DEFINE job == sessions[s]
<1>1. job \in Jobs /\ JobOK(job, pins)
  BY DEF TypeOK, JobsOK
<1>2. ASSUME NEW n \in Names, Rcpt(s, n)
      PROVE  JobsOK'
  <2>1. JobOK([job EXCEPT !.phase = "asking", !.name = n, !.answer = None], pins)
    BY <1>1 DEF JobOK, Jobs, Phases
  <2> QED BY <1>2, <2>1, OneJob DEF Rcpt, disk
<1>3. ASSUME NEW size \in Sizes, Data(s, size)
      PROVE  JobsOK'
  <2>1. Head(job.accepted) \in Names /\ nextMail # None
    BY <1>1, <1>3, HeadTailProperties DEF Data, JobOK, Jobs, TypeOK
  <2>2. JobOK([job EXCEPT !.phase = "reading", !.size = size, !.cid = nextMail,
                         !.name = Head(job.accepted)], pins)
    BY <1>1, <2>1 DEF JobOK, Jobs, Phases
  <2> QED BY <1>3, <2>2, OneJob DEF Data, disk
<1> QED BY <1>2, <1>3 DEF Arrive

\* What happens in the registry changes nothing a handler knows.
LEMMA RegistryJobs ==
    ASSUME TypeOK, JobsOK, RegistryStep
    PROVE  JobsOK'
<1> SUFFICES ASSUME NEW s \in Sessions
             PROVE  JobOK(sessions'[s], pins')
  BY DEF JobsOK
<1>1. sessions[s] \in Jobs /\ JobOK(sessions[s], pins) /\ pins' = pins
  BY DEF TypeOK, JobsOK, RegistryStep, disk
<1>2. \A b : JobOK([sessions[s] EXCEPT !.open = b], pins)
  BY <1>1 DEF JobOK, Jobs
<1> QED BY <1>1, <1>2 DEF RegistryStep

\* A deletion leaves the blobs of the messages in hand alone.
LEMMA DiskJobs ==
    ASSUME TypeOK, JobsOK, CidsAreOwned, TrashStep \/ CrashStep
    PROVE  JobsOK'
<1>1. ASSUME sessions' = [s \in Sessions |-> Idle]
      PROVE  JobsOK'
  BY <1>1, IdleJob DEF JobsOK
<1>2. ASSUME NEW n \in Names, NEW seqs \in SUBSET Nat, Deletes(n, seqs)
      PROVE  JobsOK'
  <2>1. CASE sessions' = sessions
    <3> SUFFICES ASSUME NEW s \in Sessions
                 PROVE  JobOK(sessions[s], pins')
      BY <2>1 DEF JobsOK
    <3>1. JobOK(sessions[s], pins)
      BY DEF JobsOK
    <3>2. ASSUME sessions[s].phase = "appending"
          PROVE  sessions[s].cid \in pins'
      <4>1. sessions[s].cid \in pins /\ sessions[s].cid # None
        BY <3>1, <3>2 DEF JobOK
      <4>2. sessions[s].cid \notin Unreferenced(n, seqs)
        BY <4>1 DEF Unreferenced, CidsAreOwned
      <4> QED BY <1>2, <4>1, <4>2 DEF Deletes
    <3> QED BY <3>1, <3>2 DEF JobOK
  <2> QED BY <1>1, <1>2, <2>1 DEF Deletes
<1>3. ASSUME NEW n \in Names, NEW seq \in 1..nextSeq - 1, Trash(n, seq) \/ Restore(n, seq)
      PROVE  JobsOK'
  BY <1>3 DEF Trash, Restore, JobsOK
<1> QED BY <1>1, <1>2, <1>3, DiskSteps DEF Crash, CrashInSave, SessionsEnd

\* Every step keeps JobsOK.
LEMMA NextJobs ==
    ASSUME TypeOK, JobsOK, CidsAreOwned, [Next]_vars
    PROVE  JobsOK'
<1>1. CASE UNCHANGED vars
  BY <1>1 DEF vars, disk, JobsOK
<1>2. ASSUME NEW s \in Sessions, CrashBeforeReply(s)
      PROVE  JobsOK'
  BY <1>2, IdleJob DEF CrashBeforeReply, SessionsEnd, JobsOK
<1> QED BY <1>1, <1>2, AnswerJobs, ContinueJobs, ArriveJobs, DiskJobs, RegistryJobs
        DEF Next, NodeStep

-----------------------------------------------------------------------------
(* The disk.                                                               *)

\* Nothing on the disk depends on what a handler forgets or on more pinned blobs.
LEMMA Forgets ==
    ASSUME TypeOK, DiskInv,
           UNCHANGED <<entries, nextSeq, trashed, torn, nextMail, history>>, pins \subseteq pins',
           \A t \in Sessions : sessions'[t].cid \in {sessions[t].cid, None}
    PROVE  DiskInv'
<1>1. CidsAreOwned'
  BY DEF DiskInv, CidsAreOwned, history
<1>2. RowsAreDistinct' /\ NoDanglingRow'
  BY DEF DiskInv, RowsAreDistinct, NoDanglingRow
<1>3. FlagsCondemn' /\ AnsweredMailIsKept'
  BY DEF DiskInv, FlagsCondemn, AnsweredMailIsKept, history
<1> QED BY <1>1, <1>2, <1>3 DEF DiskInv

\* One handler moves on and keeps its message or forgets it.
LEMMA OneForgets ==
    ASSUME TypeOK, DiskInv, NEW s \in Sessions, NEW job,
           sessions' = [sessions EXCEPT ![s] = job], job.cid \in {sessions[s].cid, None},
           UNCHANGED <<entries, nextSeq, trashed, torn, nextMail, history>>, pins \subseteq pins'
    PROVE  DiskInv'
BY Forgets DEF TypeOK

\* A reply, or a failing ingest, takes nothing from the disk and hands out no content id.
LEMMA AnswerDisk ==
    ASSUME TypeOK, DiskInv, NEW s \in Sessions, Answer(s)
    PROVE  DiskInv'
<1>1. sessions[s] \in Jobs
  BY DEF TypeOK
<1>2. /\ UNCHANGED <<entries, nextSeq, trashed, torn, nextMail, history>>
      /\ pins \subseteq pins'
  BY DEF Answer, AnswerOptedIn, AnswerGeneration, AnswerRecord, AnswerRecordGeneration,
         IngestThrows, disk
<1>3. PICK job : /\ sessions' = [sessions EXCEPT ![s] = job]
                 /\ job.cid \in {sessions[s].cid, None}
  <2>1. \A v : /\ [sessions[s] EXCEPT !.answer = v].cid = sessions[s].cid
               /\ [sessions[s] EXCEPT !.dek = v].cid = sessions[s].cid
               /\ [sessions[s] EXCEPT !.gen = v].cid = sessions[s].cid
    BY <1>1 DEF Jobs
  <2>2. Idle.cid = None
    BY DEF Idle
  <2>3. CASE AnswerOptedIn(s) \/ AnswerGeneration(s)
    BY <2>1, <2>3 DEF AnswerOptedIn, AnswerGeneration
  <2>4. CASE AnswerRecord(s) \/ AnswerRecordGeneration(s)
    BY <2>1, <2>4 DEF AnswerRecord, AnswerRecordGeneration
  <2>5. CASE IngestThrows(s)
    BY <2>2, <2>5 DEF IngestThrows, Refuse
  <2> QED BY <2>3, <2>4, <2>5 DEF Answer
<1> QED BY <1>2, <1>3, OneForgets

\* A new row, answered or not: its number and its blob are new, and nothing is said
\* of them yet.
LEMMA SavesDisk ==
    ASSUME TypeOK, JobsOK, DiskInv, NEW s \in Sessions,
           AppendRow(s) \/ CrashBeforeReply(s)
    PROVE  DiskInv'
<1> DEFINE job == sessions[s]
           row == [seq |-> nextSeq, name |-> job.name, generation |-> job.gen,
                   cid |-> job.cid, size |-> job.size, dek |-> job.dek]
           reply == [to |-> Range(job.accepted), cid |-> job.cid, name |-> job.name]
<1>1. /\ entries' = entries \cup {row} /\ nextSeq' = nextSeq + 1
      /\ answered' \in {answered, answered \cup {reply}}
      /\ \A t \in Sessions : sessions'[t] \in {sessions[t], Idle}
      /\ sessions'[s] = Idle
      /\ UNCHANGED <<pins, trashed, torn, nextMail, condemned>>
  BY DEF AppendRow, CrashBeforeReply, Saves, SessionsEnd, TypeOK
<1>2. /\ row.cid = job.cid /\ row.name = job.name /\ row.seq = nextSeq
      /\ reply.cid = job.cid /\ reply.name = job.name
  OBVIOUS
<1>3. /\ job.cid # None /\ job.cid \in Nat /\ job.cid < nextMail /\ job.cid \in pins
      /\ nextSeq \in Nat
  <2>1. job \in Jobs /\ job.cid # None /\ job.cid \in pins
    BY DEF TypeOK, JobsOK, JobOK, AppendRow, CrashBeforeReply, Saves
  <2> QED BY <2>1 DEF Jobs, DiskInv, CidsAreOwned, TypeOK
<1>4. \A t \in Sessions : sessions'[t].cid # None => t # s /\ sessions'[t] = sessions[t]
  BY <1>1 DEF TypeOK, Idle
<1>5. /\ \A e \in entries : e.cid # job.cid /\ e.seq < nextSeq /\ e.seq \in Nat
      /\ \A a \in answered : a.cid # job.cid
      /\ \A t \in Sessions : t # s => sessions[t].cid # job.cid
  BY <1>3 DEF DiskInv, CidsAreOwned, RowsAreDistinct, TypeOK, Rows
<1> HIDE DEF row, reply
<1>6. CidsAreOwned'
  <2>1. ASSUME NEW t \in Sessions, sessions'[t].cid # None
        PROVE  /\ sessions'[t].cid < nextMail'
               /\ \A u \in Sessions : t # u => sessions'[t].cid # sessions'[u].cid
               /\ \A e \in entries' : e.cid # sessions'[t].cid
               /\ \A a \in answered' : a.cid # sessions'[t].cid
    <3>1. t # s /\ sessions'[t] = sessions[t]
      BY <1>4, <2>1
    <3>2. \A u \in Sessions : sessions'[u].cid \in {sessions[u].cid, None}
      BY <1>1 DEF TypeOK, Idle
    <3> QED BY <1>1, <1>2, <1>5, <2>1, <3>1, <3>2 DEF DiskInv, CidsAreOwned
  <2>2. ASSUME NEW a \in answered'
        PROVE  /\ a.cid \in Nat /\ a.cid < nextMail'
               /\ \A e \in entries' : e.cid = a.cid => e.name = a.name
    BY <1>1, <1>2, <1>3, <1>5 DEF DiskInv, CidsAreOwned
  <2> QED BY <2>1, <2>2 DEF CidsAreOwned
<1>7. RowsAreDistinct'
  <2>1. \A e \in entries' : e.seq < nextSeq' /\ e.cid < nextMail'
    BY <1>1, <1>2, <1>3, <1>5 DEF DiskInv, RowsAreDistinct
  <2>2. \A e, f \in entries' : e # f => e.seq # f.seq /\ e.cid # f.cid
    BY <1>1, <1>2, <1>3, <1>5 DEF DiskInv, RowsAreDistinct
  <2> QED BY <2>1, <2>2 DEF RowsAreDistinct
<1>8. NoDanglingRow'
  BY <1>1, <1>2, <1>3 DEF DiskInv, NoDanglingRow
<1>9. FlagsCondemn'
  <2> SUFFICES ASSUME NEW n \in Names, NEW seq \in trashed[n]
               PROVE  /\ seq < nextSeq'
                      /\ \A e \in entries' : e.name = n /\ e.seq = seq => e.cid \in condemned
    BY <1>1 DEF FlagsCondemn
  <2>1. seq \in Nat /\ seq < nextSeq
    BY DEF DiskInv, FlagsCondemn, TypeOK
  <2> QED BY <1>1, <1>2, <1>3, <2>1 DEF DiskInv, FlagsCondemn
<1>10. AnsweredMailIsKept'
  BY <1>1, <1>2, <1>3 DEF DiskInv, AnsweredMailIsKept
<1> QED BY <1>6, <1>7, <1>8, <1>9, <1>10 DEF DiskInv

\* Pinning, appending and refusing keep the disk consistent.
LEMMA ContinueDisk ==
    ASSUME TypeOK, JobsOK, DiskInv, NEW s \in Sessions, Continue(s)
    PROVE  DiskInv'
<1> DEFINE job == sessions[s]
<1>1. job \in Jobs /\ Idle.cid = None
  BY DEF TypeOK, Idle
<1>2. \A accepted : AfterRcpt(s, accepted).cid = None
  BY DEF AfterRcpt, Idle
<1>3. CASE RcptOptedIn(s)
  <2>1. [job EXCEPT !.phase = "measuring", !.answer = None].cid = job.cid
    BY <1>1 DEF Jobs
  <2> QED BY <1>3, <2>1, OneForgets DEF RcptOptedIn, disk
<1>4. CASE RcptUnknown(s) \/ RcptMeasured(s)
  <2>1. PICK accepted : sessions' = [sessions EXCEPT ![s] = AfterRcpt(s, accepted)]
    BY <1>1, <1>4 DEF RcptUnknown, RcptMeasured, TypeOK
  <2> QED BY <1>2, <1>4, <2>1, OneForgets DEF RcptUnknown, RcptMeasured, disk
<1>5. CASE Sealed(s) \/ AppendRefused(s)
  <2>1. [job EXCEPT !.phase = "pinning"].cid = job.cid
    BY <1>1 DEF Jobs
  <2> QED BY <1>1, <1>5, <2>1, OneForgets DEF Sealed, AppendRefused, Refuse, disk
<1>6. CASE Pin(s)
  <2> DEFINE pinned == [job EXCEPT !.phase = "appending", !.answer = None,
                                   !.open = IsOpen(job.name)]
  <2>1. pinned.cid = job.cid
    BY <1>1 DEF Jobs
  <2>2. /\ sessions' = [sessions EXCEPT ![s] = pinned] /\ pins \subseteq pins'
        /\ UNCHANGED <<entries, nextSeq, trashed, torn, nextMail, history>>
    BY <1>6 DEF Pin
  <2> HIDE DEF pinned
  <2> QED BY <2>1, <2>2, OneForgets
<1> QED BY <1>3, <1>4, <1>5, <1>6, SavesDisk DEF Continue

\* A message that arrives gets a content id nobody has had.
LEMMA ArriveDisk ==
    ASSUME TypeOK, JobsOK, DiskInv, NEW s \in Sessions, Arrive(s)
    PROVE  DiskInv'
<1> DEFINE job == sessions[s]
<1>1. job \in Jobs
  BY DEF TypeOK
<1>2. ASSUME NEW n \in Names, Rcpt(s, n)
      PROVE  DiskInv'
  <2> DEFINE asking == [job EXCEPT !.phase = "asking", !.name = n, !.answer = None]
  <2>1. asking.cid = job.cid
    BY <1>1 DEF Jobs
  <2>2. /\ sessions' = [sessions EXCEPT ![s] = asking] /\ pins \subseteq pins'
        /\ UNCHANGED <<entries, nextSeq, trashed, torn, nextMail, history>>
    BY <1>2 DEF Rcpt, disk
  <2> HIDE DEF asking
  <2> QED BY <2>1, <2>2, OneForgets
<1>3. ASSUME NEW size \in Sizes, Data(s, size)
      PROVE  DiskInv'
  <2>1. /\ UNCHANGED <<entries, nextSeq, pins, trashed, torn, answered, condemned>>
        /\ nextMail' = nextMail + 1 /\ nextMail \in Nat
    BY <1>3 DEF Data, disk, history, TypeOK
  <2>2. \A t \in Sessions : sessions'[t].cid = IF t = s THEN nextMail ELSE sessions[t].cid
    BY <1>1, <1>3 DEF Data, TypeOK, Jobs
  <2>3. \A e \in entries : e.cid \in Nat /\ e.cid < nextMail
    BY DEF DiskInv, RowsAreDistinct, TypeOK, Rows
  <2>4. \A t \in Sessions : sessions[t].cid # None =>
            sessions[t].cid \in Nat /\ sessions[t].cid < nextMail
    BY DEF DiskInv, CidsAreOwned, TypeOK, Jobs
  <2>5. CidsAreOwned'
    <3>1. ASSUME NEW t \in Sessions, sessions'[t].cid # None
          PROVE  /\ sessions'[t].cid < nextMail'
                 /\ \A u \in Sessions : t # u => sessions'[t].cid # sessions'[u].cid
                 /\ \A e \in entries' : e.cid # sessions'[t].cid
                 /\ \A a \in answered' : a.cid # sessions'[t].cid
      BY <2>1, <2>2, <2>3, <2>4, <3>1 DEF DiskInv, CidsAreOwned
    <3>2. ASSUME NEW a \in answered'
          PROVE  /\ a.cid \in Nat /\ a.cid < nextMail'
                 /\ \A e \in entries' : e.cid = a.cid => e.name = a.name
      BY <2>1, <3>2 DEF DiskInv, CidsAreOwned
    <3> QED BY <3>1, <3>2 DEF CidsAreOwned
  <2>6. RowsAreDistinct'
    <3>1. \A e \in entries' : e.seq < nextSeq' /\ e.cid < nextMail'
      BY <2>1, <2>3 DEF DiskInv, RowsAreDistinct
    <3> QED BY <2>1, <3>1 DEF DiskInv, RowsAreDistinct
  <2>7. NoDanglingRow' /\ FlagsCondemn' /\ AnsweredMailIsKept'
    BY <2>1 DEF DiskInv, NoDanglingRow, FlagsCondemn, AnsweredMailIsKept
  <2> QED BY <2>5, <2>6, <2>7 DEF DiskInv
<1> QED BY <1>2, <1>3 DEF Arrive

\* The registry does not touch the disk.
LEMMA RegistryDisk ==
    ASSUME TypeOK, DiskInv, RegistryStep
    PROVE  DiskInv'
<1>1. \A t \in Sessions : sessions'[t].cid = sessions[t].cid
  <2>1. \A t \in Sessions : \A b : [sessions[t] EXCEPT !.open = b].cid = sessions[t].cid
    BY DEF TypeOK, Jobs
  <2> QED BY <2>1 DEF RegistryStep
<1> QED BY <1>1, Forgets DEF RegistryStep, disk

\* A deletion takes nothing but what was condemned, and blobs nobody refers to.
LEMMA DeleteDisk ==
    ASSUME TypeOK, DiskInv, NEW n \in Names, NEW seqs \in SUBSET Nat,
           seqs \subseteq trashed[n], Deletes(n, seqs)
    PROVE  DiskInv'
<1>1. /\ entries' \subseteq entries
      /\ UNCHANGED <<nextSeq, nextMail, answered, condemned>>
      /\ \A t \in Sessions : sessions'[t].cid \in {sessions[t].cid, None}
  BY DEF Deletes, Without, Idle
<1>2. \A e \in entries \ entries' : e.name = n /\ e.seq \in seqs
  BY DEF Deletes, Without
<1>3. CidsAreOwned' /\ RowsAreDistinct'
  BY <1>1 DEF DiskInv, CidsAreOwned, RowsAreDistinct
<1>4. NoDanglingRow'
  BY <1>1 DEF DiskInv, NoDanglingRow, Deletes, Unreferenced
<1>5. FlagsCondemn'
  BY <1>1 DEF DiskInv, FlagsCondemn, Deletes
<1>6. AnsweredMailIsKept'
  <2> SUFFICES ASSUME NEW a \in answered, a.cid \notin condemned
               PROVE  /\ a.cid \in pins'
                      /\ "index" \in torn' \/ \E e \in entries' : e.cid = a.cid /\ e.name = a.name
    BY <1>1 DEF AnsweredMailIsKept
  <2>1. /\ a.cid \in pins
        /\ "index" \in torn \/ \E e \in entries : e.cid = a.cid /\ e.name = a.name
    BY DEF DiskInv, AnsweredMailIsKept
  <2>2. \A e \in entries : e.cid = a.cid => e \in entries'
    BY <1>2 DEF DiskInv, FlagsCondemn
  <2>3. a.cid \notin Unreferenced(n, seqs)
    BY <2>2 DEF Unreferenced, Deletes
  <2> QED BY <2>1, <2>2, <2>3 DEF Deletes
<1> QED BY <1>3, <1>4, <1>5, <1>6 DEF DiskInv

\* Condemning and sparing go with the flag.
LEMMA FlagDisk ==
    ASSUME TypeOK, DiskInv, NEW n \in Names, NEW seq \in 1..nextSeq - 1,
           Trash(n, seq) \/ Restore(n, seq)
    PROVE  DiskInv'
<1>1. UNCHANGED <<sessions, entries, nextSeq, pins, torn, nextMail, answered>>
  BY DEF Trash, Restore
<1>2. CidsAreOwned' /\ RowsAreDistinct' /\ NoDanglingRow'
  BY <1>1 DEF DiskInv, CidsAreOwned, RowsAreDistinct, NoDanglingRow
<1>3. \A c : c \in CidsOf(n, {seq}) <=>
          \E e \in entries : e.name = n /\ e.seq = seq /\ e.cid = c
  BY DEF CidsOf, Without
<1>4. CASE Trash(n, seq)
  <2>1. /\ trashed' = [trashed EXCEPT ![n] = @ \cup {seq}]
        /\ condemned' = condemned \cup CidsOf(n, {seq})
    BY <1>4 DEF Trash
  <2>2. seq < nextSeq
    BY DEF TypeOK
  <2>3. FlagsCondemn'
    <3> SUFFICES ASSUME NEW m \in Names, NEW q \in trashed'[m]
                 PROVE  /\ q < nextSeq
                        /\ \A e \in entries : e.name = m /\ e.seq = q => e.cid \in condemned'
      BY <1>1 DEF FlagsCondemn
    <3>1. CASE q \in trashed[m]
      BY <2>1, <3>1 DEF DiskInv, FlagsCondemn
    <3>2. CASE m = n /\ q = seq
      BY <1>3, <2>1, <2>2, <3>2
    <3>3. q \in trashed[m] \/ (m = n /\ q = seq)
      BY <2>1 DEF TypeOK
    <3> QED BY <3>1, <3>2, <3>3
  <2>4. AnsweredMailIsKept'
    BY <1>1, <2>1 DEF DiskInv, AnsweredMailIsKept
  <2> QED BY <1>2, <2>3, <2>4 DEF DiskInv
<1>5. CASE Restore(n, seq)
  <2>1. /\ trashed' = [trashed EXCEPT ![n] = @ \ {seq}]
        /\ condemned' = condemned \ CidsOf(n, {seq})
    BY <1>5 DEF Restore
  <2>2. FlagsCondemn'
    <3> SUFFICES ASSUME NEW m \in Names, NEW q \in trashed'[m]
                 PROVE  /\ q < nextSeq
                        /\ \A e \in entries : e.name = m /\ e.seq = q => e.cid \in condemned'
      BY <1>1 DEF FlagsCondemn
    <3>1. q \in trashed[m] /\ ~(m = n /\ q = seq)
      <4>1. \A x \in Names : trashed'[x] = IF x = n THEN trashed[n] \ {seq} ELSE trashed[x]
        BY <2>1 DEF TypeOK
      <4> QED BY <4>1
    <3>2. ASSUME NEW e \in entries, e.name = m, e.seq = q
          PROVE  e.cid \notin CidsOf(n, {seq})
      <4> SUFFICES ASSUME NEW f \in entries, f.name = n, f.seq = seq, f.cid = e.cid
                   PROVE  FALSE
        BY <1>3
      <4>1. e = f
        BY DEF DiskInv, RowsAreDistinct
      <4> QED BY <3>1, <3>2, <4>1
    <3> QED BY <2>1, <3>1, <3>2 DEF DiskInv, FlagsCondemn
  <2>3. AnsweredMailIsKept'
    <3> SUFFICES ASSUME NEW a \in answered, a.cid \notin condemned'
                 PROVE  /\ a.cid \in pins
                        /\ "index" \in torn \/ \E e \in entries : e.cid = a.cid /\ e.name = a.name
      BY <1>1 DEF AnsweredMailIsKept
    <3>1. CASE a.cid \in CidsOf(n, {seq})
      BY <1>3, <3>1 DEF DiskInv, CidsAreOwned, NoDanglingRow
    <3>2. CASE a.cid \notin condemned
      BY <3>2 DEF DiskInv, AnsweredMailIsKept
    <3> QED BY <2>1, <3>1, <3>2
  <2> QED BY <1>2, <2>2, <2>3 DEF DiskInv
<1> QED BY <1>4, <1>5

\* Trashing, restoring, deleting and crashing keep the disk consistent.
LEMMA DiskDisk ==
    ASSUME TypeOK, DiskInv, TrashStep \/ CrashStep
    PROVE  DiskInv'
<1>1. ASSUME Crash
      PROVE  DiskInv'
  <2>1. \A t \in Sessions : sessions'[t].cid = None
    BY <1>1 DEF Crash, SessionsEnd, Idle
  <2> QED BY <1>1, <2>1, Forgets DEF Crash, NextSeqOnLoad, history
<1>2. ASSUME CrashInSave
      PROVE  DiskInv'
  <2>1. /\ \A t \in Sessions : sessions'[t].cid = None
        /\ entries' = {} /\ "index" \in torn'
        /\ UNCHANGED <<nextSeq, pins, trashed, nextMail, answered, condemned>>
    BY <1>2 DEF CrashInSave, SessionsEnd, Idle, history
  <2>2. CidsAreOwned' /\ RowsAreDistinct' /\ NoDanglingRow'
    BY <2>1 DEF DiskInv, CidsAreOwned, RowsAreDistinct, NoDanglingRow
  <2>3. FlagsCondemn' /\ AnsweredMailIsKept'
    BY <2>1 DEF DiskInv, FlagsCondemn, AnsweredMailIsKept
  <2> QED BY <2>2, <2>3 DEF DiskInv
<1> QED BY <1>1, <1>2, DeleteDisk, FlagDisk, DiskSteps

\* Every step keeps DiskInv.
LEMMA NextDisk ==
    ASSUME TypeOK, JobsOK, DiskInv, [Next]_vars
    PROVE  DiskInv'
<1>1. CASE UNCHANGED vars
  BY <1>1, Forgets DEF vars, disk
<1> QED BY <1>1, AnswerDisk, ContinueDisk, ArriveDisk, SavesDisk, DiskDisk, RegistryDisk
        DEF Next, NodeStep

-----------------------------------------------------------------------------
(* Who may write.                                                          *)

\* One handler moves on and the registry stands still.
LEMMA OneOpen ==
    ASSUME TypeOK, OpenOK, NEW s \in Sessions, NEW job, UNCHANGED book,
           sessions' = [sessions EXCEPT ![s] = job], JobOpen(job)
    PROVE  OpenOK'
BY DEF OpenOK, JobOpen, IsOpen, TypeOK

\* A handler that does not wait to append has nothing to show.
LEMMA NotAppending ==
    ASSUME NEW job, job.phase # "appending"
    PROVE  JobOpen(job)
BY DEF JobOpen

\* An opted-in reply is given only while the node is opted in.
LEMMA AnswerOpen ==
    ASSUME TypeOK, OpenOK, NEW s \in Sessions, Answer(s)
    PROVE  OpenOK'
<1> DEFINE job == sessions[s]
<1>1. job \in Jobs /\ JobOpen(job) /\ UNCHANGED book
  BY DEF TypeOK, OpenOK, Answer, AnswerOptedIn, AnswerGeneration, AnswerRecord,
         AnswerRecordGeneration, IngestThrows
<1>2. CASE AnswerOptedIn(s)
  <2>1. PICK yes \in {IsOpen(job.name), FALSE} : sessions' = [sessions EXCEPT ![s].answer = yes]
    BY <1>2 DEF AnswerOptedIn
  <2> DEFINE told == [job EXCEPT !.answer = yes]
  <2>2. /\ told.phase = job.phase /\ told.name = job.name /\ told.open = job.open
        /\ told.answer = yes
    BY <1>1 DEF Jobs
  <2>3. yes = TRUE => IsOpen(job.name)
    BY <2>1
  <2>4. sessions' = [sessions EXCEPT ![s] = told]
    BY <2>1
  <2> HIDE DEF told
  <2>5. JobOpen(told)
    BY <1>1, <2>2, <2>3 DEF JobOpen
  <2> QED BY <1>1, <2>4, <2>5, OneOpen
<1>3. CASE AnswerGeneration(s)
  <2>1. \A v : [job EXCEPT !.gen = v].phase = "measuring"
    BY <1>1, <1>3 DEF AnswerGeneration, Waits, Jobs
  <2> QED BY <1>1, <1>3, <2>1, NotAppending, OneOpen DEF AnswerGeneration
<1>4. CASE AnswerRecord(s) \/ AnswerRecordGeneration(s)
  <2>1. \A v : /\ [job EXCEPT !.dek = v].phase = "reading"
               /\ [job EXCEPT !.gen = v].phase = "reading"
    BY <1>1, <1>4 DEF AnswerRecord, AnswerRecordGeneration, Jobs
  <2> QED BY <1>1, <1>4, <2>1, NotAppending, OneOpen DEF AnswerRecord, AnswerRecordGeneration
<1>5. CASE IngestThrows(s)
  BY <1>1, <1>5, NotAppending, OneOpen DEF IngestThrows, Refuse, Idle
<1> QED BY <1>2, <1>3, <1>4, <1>5 DEF Answer

\* A blob is pinned before the index asks for the opt-in again.
LEMMA ContinueOpen ==
    ASSUME TypeOK, OpenOK, NEW s \in Sessions, Continue(s)
    PROVE  OpenOK'
<1> DEFINE job == sessions[s]
<1>1. job \in Jobs /\ UNCHANGED book
  BY DEF TypeOK, Continue, RcptOptedIn, RcptUnknown, RcptMeasured, Sealed, Pin, AppendRow,
         Saves, AppendRefused
<1>2. Idle.phase = "idle" /\ \A accepted : AfterRcpt(s, accepted).phase \in {"idle", "ready"}
  BY DEF AfterRcpt, Idle
<1>3. CASE Pin(s)
  <2> DEFINE pinned == [job EXCEPT !.phase = "appending", !.answer = None,
                                   !.open = IsOpen(job.name)]
  <2>1. /\ pinned.answer = None /\ pinned.name = job.name
        /\ pinned.open = IsOpen(job.name)
    BY <1>1 DEF Jobs
  <2>2. sessions' = [sessions EXCEPT ![s] = pinned]
    BY <1>3 DEF Pin
  <2>3. None # TRUE
    OBVIOUS
  <2> HIDE DEF pinned
  <2>4. IsOpen(job.name) \in BOOLEAN
    BY DEF IsOpen
  <2>5. JobOpen(pinned)
    BY <2>1, <2>3, <2>4 DEF JobOpen
  <2> QED BY <1>1, <2>2, <2>5, OneOpen
<1>4. CASE ~Pin(s)
  <2>1. PICK next : sessions' = [sessions EXCEPT ![s] = next] /\ next.phase # "appending"
    <3>1. /\ [job EXCEPT !.phase = "measuring", !.answer = None].phase = "measuring"
          /\ [job EXCEPT !.phase = "pinning"].phase = "pinning"
      BY <1>1 DEF Jobs
    <3>2. CASE RcptUnknown(s) \/ RcptMeasured(s)
      <4>1. PICK accepted : sessions' = [sessions EXCEPT ![s] = AfterRcpt(s, accepted)]
        BY <1>1, <3>2 DEF RcptUnknown, RcptMeasured, TypeOK
      <4> QED BY <1>2, <4>1
    <3>3. CASE RcptOptedIn(s)
      BY <3>1, <3>3 DEF RcptOptedIn
    <3>4. CASE Sealed(s)
      BY <1>2, <3>1, <3>4 DEF Sealed, Refuse
    <3>5. CASE AppendRow(s) \/ AppendRefused(s)
      BY <1>2, <3>5 DEF AppendRow, AppendRefused, Refuse
    <3> QED BY <1>4, <3>2, <3>3, <3>4, <3>5 DEF Continue
  <2> QED BY <1>1, <2>1, NotAppending, OneOpen
<1> QED BY <1>3, <1>4

\* A new command is not about to write.
LEMMA ArriveOpen ==
    ASSUME TypeOK, OpenOK, NEW s \in Sessions, Arrive(s)
    PROVE  OpenOK'
<1>1. sessions[s] \in Jobs
  BY DEF TypeOK
<1>2. UNCHANGED book
  BY DEF Arrive, Rcpt, Data
<1>3. PICK next : sessions' = [sessions EXCEPT ![s] = next] /\ next.phase # "appending"
  <2>1. ASSUME NEW n \in Names, Rcpt(s, n)
        PROVE  \E next : sessions' = [sessions EXCEPT ![s] = next] /\ next.phase # "appending"
    <3>1. [sessions[s] EXCEPT !.phase = "asking", !.name = n, !.answer = None].phase = "asking"
      BY <1>1 DEF Jobs
    <3> QED BY <2>1, <3>1 DEF Rcpt
  <2>2. ASSUME NEW size \in Sizes, Data(s, size)
        PROVE  \E next : sessions' = [sessions EXCEPT ![s] = next] /\ next.phase # "appending"
    <3>1. [sessions[s] EXCEPT !.phase = "reading", !.size = size, !.cid = nextMail,
                              !.name = Head(sessions[s].accepted)].phase = "reading"
      BY <1>1 DEF Jobs
    <3> QED BY <2>2, <3>1 DEF Data
  <2> QED BY <2>1, <2>2 DEF Arrive
<1> QED BY <1>2, <1>3, NotAppending, OneOpen

\* An opt-in that happens in the registry is noticed by the history.
LEMMA RegistryOpen ==
    ASSUME TypeOK, OpenOK, RegistryStep
    PROVE  OpenOK'
<1> SUFFICES ASSUME NEW s \in Sessions, sessions'[s].phase = "appending"
             PROVE  JobOpen(sessions[s])'
  BY DEF OpenOK, JobOpen
<1> DEFINE job == sessions[s]
           door == ThisNode \in book'[job.name].doors
<1>1. job \in Jobs /\ JobOpen(job)
  BY DEF TypeOK, OpenOK
<1>2. CASE job.phase = "appending"
  <2>1. sessions'[s] = [job EXCEPT !.open = @ \/ door]
    BY <1>2 DEF RegistryStep
  <2>2. /\ sessions'[s].name = job.name /\ sessions'[s].answer = job.answer
        /\ sessions'[s].open = (job.open \/ door)
    BY <1>1, <2>1 DEF Jobs
  <2>3. job.answer = TRUE => job.open
    BY <1>1, <1>2 DEF JobOpen
  <2>4. (job.open \/ door) => (job.open \/ door) = TRUE
    OBVIOUS
  <2>5. IsOpen(sessions[s].name)' => door
    BY <2>2 DEF IsOpen
  <2> HIDE DEF door, job
  <2> QED BY <2>2, <2>3, <2>4, <2>5 DEF JobOpen, job
<1>3. CASE job.phase # "appending"
  BY <1>3 DEF RegistryStep
<1> QED BY <1>2, <1>3

\* Every step keeps OpenOK.
LEMMA NextOpen ==
    ASSUME TypeOK, OpenOK, [Next]_vars
    PROVE  OpenOK'
<1>1. ASSUME UNCHANGED book, \A s \in Sessions : sessions'[s] \in {sessions[s], Idle}
      PROVE  OpenOK'
  BY <1>1 DEF OpenOK, JobOpen, IsOpen, Idle
<1>2. CASE UNCHANGED vars
  BY <1>1, <1>2 DEF vars
<1>3. CASE TrashStep \/ CrashStep
  BY <1>1, <1>3, DiskSteps DEF Deletes, Trash, Restore, Crash, CrashInSave, SessionsEnd
<1>4. ASSUME NEW s \in Sessions, CrashBeforeReply(s)
      PROVE  OpenOK'
  BY <1>1, <1>4 DEF CrashBeforeReply, Saves, SessionsEnd
<1> QED BY <1>2, <1>3, <1>4, AnswerOpen, ContinueOpen, ArriveOpen, RegistryOpen
        DEF Next, NodeStep

-----------------------------------------------------------------------------
(* Sums. They are folds, and what a fold computes is shown by a smallest   *)
(* counterexample: no induction over an operator is needed.                *)

HIDE MailNodeAssumption

\* What a fold takes first.
First(S) == CHOOSE x \in S : TRUE

\* g is the fold behind MapThenSumSet, on the subsets of S.
IsFold(g, S) ==
    g = [s \in SUBSET S |-> IF s = {} THEN 0 ELSE First(s).size + g[s \ {First(s)}]]

Fold(S) == CHOOSE g : IsFold(g, S)

Total(S) == MapThenSumSet(LAMBDA e : e.size, S)

\* The sum of the community module is the fold on the whole set.
LEMMA TotalIsFold == ASSUME NEW S PROVE Total(S) = Fold(S)[S]
BY DEF Total, MapThenSumSet, MapThenFoldSet, Fold, IsFold, First

\* Induction over the subsets of a finite set, without operators: among the subsets
\* of which something fails there is a smallest one.
LEMMA SmallestSubset ==
    ASSUME NEW S, IsFiniteSet(S), NEW Bad, Bad \subseteq SUBSET S,
           \A T \in Bad : \E U \in Bad : U \subseteq T /\ U # T
    PROVE  Bad = {}
<1>1. IsWellFoundedOn(StrictSubsetOrdering(S), SUBSET S)
  <2>1. FiniteSubsetsOf(S) = SUBSET S
    BY FS_FiniteSubsetsOfFinite
  <2>2. IsWellFoundedOn(StrictSubsetOrdering(S), FiniteSubsetsOf(S))
    BY FS_StrictSubsetOrderingWellFounded
  <2>. QED  BY <2>1, <2>2
<1>2. SUFFICES ASSUME Bad # {} PROVE FALSE
  OBVIOUS
<1>3. PICK T \in Bad : \A U \in Bad : <<U, T>> \notin StrictSubsetOrdering(S)
  BY <1>1, <1>2, WFMin
<1>4. PICK U \in Bad : U \subseteq T /\ U # T
  OBVIOUS
<1>5. <<U, T>> \in StrictSubsetOrdering(S)
  BY <1>4 DEF StrictSubsetOrdering
<1>. QED  BY <1>3, <1>5

\* One step of a fold.
LEMMA FoldStep ==
    ASSUME NEW S, NEW g, IsFold(g, S), NEW s \in SUBSET S
    PROVE  g[s] = IF s = {} THEN 0 ELSE First(s).size + g[s \ {First(s)}]
<1> DEFINE h == [t \in SUBSET S |-> IF t = {} THEN 0 ELSE First(t).size + g[t \ {First(t)}]]
<1>1. g = h
  BY DEF IsFold
<1>2. h[s] = IF s = {} THEN 0 ELSE First(s).size + g[s \ {First(s)}]
  OBVIOUS
<1>. HIDE DEF h
<1>. QED  BY <1>1, <1>2

\* A finite set has at most one fold.
LEMMA FoldIsUnique ==
    ASSUME NEW S, IsFiniteSet(S), NEW g, IsFold(g, S), NEW h, IsFold(h, S)
    PROVE  g = h
<1> DEFINE Bad == {t \in SUBSET S : g[t] # h[t]}
<1>1. ASSUME NEW t \in Bad  PROVE \E u \in Bad : u \subseteq t /\ u # t
  <2>1. t # {} /\ t \in SUBSET S
    BY FoldStep
  <2>2. First(t) \in t
    BY <2>1 DEF First
  <2>3. g[t \ {First(t)}] # h[t \ {First(t)}]
    BY <2>1, FoldStep
  <2>. QED  BY <2>1, <2>2, <2>3
<1>2. Bad = {}
  <2>1. Bad \subseteq SUBSET S
    OBVIOUS
  <2>. HIDE DEF Bad
  <2>. QED  BY <1>1, <2>1, SmallestSubset
<1>. DEFINE body(f) == [s \in SUBSET S |-> IF s = {} THEN 0
                                           ELSE First(s).size + f[s \ {First(s)}]]
<1>3. g = body(g) /\ h = body(h)
  BY DEF IsFold
<1>4. DOMAIN body(g) = SUBSET S /\ DOMAIN body(h) = SUBSET S
  OBVIOUS
<1>5. body(g) = [s \in SUBSET S |-> body(g)[s]] /\ body(h) = [s \in SUBSET S |-> body(h)[s]]
  OBVIOUS
<1>6. \A s \in SUBSET S : g[s] = h[s]
  BY <1>2
<1>. HIDE DEF body
<1>. QED  BY <1>3, <1>5, <1>6

\* A fold is one on every subset, too.
LEMMA FoldOfSubset ==
    ASSUME NEW S, NEW T \in SUBSET S, NEW g, IsFold(g, S)
    PROVE  IsFold([t \in SUBSET T |-> g[t]], T)
<1> DEFINE h == [t \in SUBSET T |-> g[t]]
<1>1. ASSUME NEW s \in SUBSET T
      PROVE  h[s] = IF s = {} THEN 0 ELSE First(s).size + h[s \ {First(s)}]
  <2>1. s \in SUBSET S /\ s \ {First(s)} \in SUBSET T
    OBVIOUS
  <2>2. h[s] = g[s] /\ h[s \ {First(s)}] = g[s \ {First(s)}]
    BY <2>1
  <2>. HIDE DEF h
  <2>3. s \in SUBSET S
    BY <2>1
  <2>4. g[s] = IF s = {} THEN 0 ELSE First(s).size + g[s \ {First(s)}]
    BY <2>3, FoldStep
  <2>. QED  BY <2>2, <2>4
<1>2. h = [s \in SUBSET T |-> h[s]]
  OBVIOUS
<1>. HIDE DEF h
<1>3. h = [s \in SUBSET T |-> IF s = {} THEN 0 ELSE First(s).size + h[s \ {First(s)}]]
  BY <1>1, <1>2
<1>4. IsFold(h, T)
  BY <1>3 DEF IsFold
<1>. QED  BY <1>4 DEF h

\* A finite set has a fold.
LEMMA FoldExists ==
    ASSUME NEW S, IsFiniteSet(S)
    PROVE  IsFold(Fold(S), S)
<1> DEFINE Bad == {t \in SUBSET S : ~IsFold(Fold(t), t)}
<1>1. ASSUME NEW t \in Bad, \A u \in Bad : u \subseteq t => u = t  PROVE FALSE
  <2>1. \A u \in SUBSET t : u # t => IsFold(Fold(u), u)
    BY <1>1
  <2>2. \A u \in SUBSET t : IsFiniteSet(u)
    BY FS_Subset
  <2> DEFINE rest(s) == s \ {First(s)}
             g == [s \in SUBSET t |-> IF s = {} THEN 0
                                      ELSE First(s).size + Fold(rest(s))[rest(s)]]
  <2>3. ASSUME NEW s \in SUBSET t, s # {}  PROVE g[rest(s)] = Fold(rest(s))[rest(s)]
    <3> DEFINE r == rest(s)
    <3>1. First(s) \in s
      BY <2>3 DEF First
    <3>2. r \in SUBSET t /\ r # t
      BY <3>1
    <3>3. IsFold(Fold(r), r)
      BY <2>1, <3>2
    <3>4. CASE r = {}
      <4>1. g[r] = 0
        BY <3>4
      <4>2. Fold(r)[r] = 0
        <5>. HIDE DEF r, g
        <5>. QED  BY <3>3, <3>4, FoldStep
      <4>. QED  BY <4>1, <4>2
    <3>5. CASE r # {}
      <4> DEFINE q == rest(r)
      <4>1. q \in SUBSET r /\ q \in SUBSET t /\ First(r) \in r
        BY <3>2, <3>5 DEF First
      <4>2. q # t
        BY <3>2, <4>1
      <4>3. g[r] = First(r).size + Fold(q)[q]
        BY <3>2, <3>5
      <4>4. Fold(r)[r] = First(r).size + Fold(r)[q]
        <5>1. r \in SUBSET r /\ q = r \ {First(r)}
          OBVIOUS
        <5>. HIDE DEF r, q
        <5>. QED  BY <3>3, <3>5, <5>1, FoldStep
      <4>5. IsFold(Fold(q), q) /\ IsFiniteSet(q)
        BY <2>1, <2>2, <4>1, <4>2
      <4>6. IsFold([u \in SUBSET q |-> Fold(r)[u]], q)
        <5>. HIDE DEF r, q
        <5>. QED  BY <3>3, <4>1, FoldOfSubset
      <4>7. Fold(q) = [u \in SUBSET q |-> Fold(r)[u]]
        <5>. HIDE DEF r, q
        <5>. QED  BY <4>5, <4>6, FoldIsUnique
      <4>8. q \in SUBSET q /\ [u \in SUBSET q |-> Fold(r)[u]][q] = Fold(r)[q]
        OBVIOUS
      <4>9. Fold(q)[q] = Fold(r)[q]
        <5>. HIDE DEF r, q
        <5>. QED  BY <4>7, <4>8
      <4>10. g[r] = Fold(r)[r]
        <5>. HIDE DEF r, q, g
        <5>. QED  BY <4>3, <4>4, <4>9
      <4>. QED  BY <4>10
    <3>. QED  BY <3>4, <3>5
  <2>4. ASSUME NEW s \in SUBSET t
        PROVE  g[s] = IF s = {} THEN 0 ELSE First(s).size + g[rest(s)]
    <3>1. g[s] = IF s = {} THEN 0 ELSE First(s).size + Fold(rest(s))[rest(s)]
      OBVIOUS
    <3>. HIDE DEF g, rest
    <3>. QED  BY <2>3, <3>1
  <2>5. g = [s \in SUBSET t |-> g[s]]
    OBVIOUS
  <2>. HIDE DEF g
  <2>6. g = [s \in SUBSET t |-> IF s = {} THEN 0 ELSE First(s).size + g[s \ {First(s)}]]
    BY <2>4, <2>5
  <2>7. IsFold(g, t)
    BY <2>6 DEF IsFold
  <2>8. IsFold(Fold(t), t)
    BY <2>7 DEF Fold
  <2>. QED  BY <1>1, <2>8
<1>2. Bad = {}
  <2>1. Bad \subseteq SUBSET S
    OBVIOUS
  <2>. HIDE DEF Bad
  <2>. QED  BY <1>1, <2>1, SmallestSubset
<1>. QED  BY <1>2

\* Sums over a finite set of records.
LEMMA TotalStep ==
    ASSUME NEW S, IsFiniteSet(S)
    PROVE  /\ Total({}) = 0
           /\ S # {} => Total(S) = First(S).size + Total(S \ {First(S)})
<1>1. Total({}) = 0
  <2>1. IsFiniteSet({}) /\ {} \in SUBSET {}
    BY FS_EmptySet
  <2>2. IsFold(Fold({}), {})
    BY <2>1, FoldExists
  <2>. QED  BY <2>1, <2>2, FoldStep, TotalIsFold
<1>2. ASSUME S # {}  PROVE Total(S) = First(S).size + Total(S \ {First(S)})
  <2> DEFINE r == S \ {First(S)}
  <2>1. r \in SUBSET S /\ S \in SUBSET S
    OBVIOUS
  <2>2. IsFold(Fold(S), S) /\ IsFiniteSet(r)
    BY <2>1, FoldExists, FS_Subset
  <2>3. Fold(S)[S] = First(S).size + Fold(S)[r]
    <3> DEFINE fold == Fold(S)
    <3>1. IsFold(fold, S)
      BY <2>2
    <3>. HIDE DEF fold
    <3>2. fold[S] = IF S = {} THEN 0 ELSE First(S).size + fold[S \ {First(S)}]
      BY <2>1, <3>1, FoldStep
    <3>. QED  BY <1>2, <3>2 DEF fold
  <2>. HIDE DEF r
  <2>4. IsFold(Fold(r), r) /\ IsFold([u \in SUBSET r |-> Fold(S)[u]], r)
    BY <2>1, <2>2, FoldExists, FoldOfSubset
  <2>5. Fold(r) = [u \in SUBSET r |-> Fold(S)[u]]
    BY <2>2, <2>4, FoldIsUnique
  <2>6. [u \in SUBSET r |-> Fold(S)[u]][r] = Fold(S)[r]
    OBVIOUS
  <2>7. Fold(r)[r] = Fold(S)[r]
    BY <2>5, <2>6
  <2>8. Total(S) = First(S).size + Total(r)
    BY <2>3, <2>7, TotalIsFold
  <2>. QED  BY <2>8 DEF r
<1>. QED  BY <1>1, <1>2

\* The order does not matter.
LEMMA TotalOfOneMore ==
    ASSUME NEW S, IsFiniteSet(S), \A e \in S : e.size \in Nat
    PROVE  /\ Total(S) \in Nat
           /\ \A x \in S : Total(S) = x.size + Total(S \ {x}) /\ Total(S \ {x}) \in Nat
<1> DEFINE Good(t) == /\ Total(t) \in Nat
                      /\ \A x \in t : Total(t) = x.size + Total(t \ {x})
           Bad == {t \in SUBSET S : ~Good(t)}
<1>1. ASSUME NEW t \in Bad, \A u \in Bad : u \subseteq t => u = t  PROVE FALSE
  <2>1. IsFiniteSet(t) /\ t \in SUBSET S
    BY FS_Subset
  <2>2. CASE t = {}
    <3>1. Total(t) = 0
      BY <2>1, <2>2, TotalStep
    <3>2. Good(t)
      BY <2>2, <3>1
    <3>. QED  BY <3>2
  <2>3. CASE t # {}
    <3> DEFINE p == First(t)
    <3>1. p \in t
      BY <2>3 DEF First
    <3>2. Total(t) = p.size + Total(t \ {p})
      BY <2>1, <2>3, TotalStep
    <3>3. \A x \in t : Good(t \ {x})
      BY <1>1, <2>1
    <3>. HIDE DEF p
    <3>4. \A x \in t : x.size \in Nat /\ Total(t \ {x}) \in Nat
      BY <2>1, <3>3
    <3>5. ASSUME NEW x \in t, x # p  PROVE Total(t) = x.size + Total(t \ {x})
      <4>1. x \in t \ {p} /\ p \in t \ {x} /\ (t \ {p}) \ {x} = (t \ {x}) \ {p}
        BY <3>1, <3>5
      <4>2. Total(t \ {p}) = x.size + Total((t \ {p}) \ {x})
        BY <3>1, <3>3, <4>1
      <4>3. Total(t \ {x}) = p.size + Total((t \ {x}) \ {p})
        BY <3>3, <4>1
      <4>4. Total((t \ {p}) \ {x}) \in Nat
        <5>1. (t \ {p}) \ {x} \in SUBSET t /\ (t \ {p}) \ {x} # t
          BY <4>1
        <5>2. Good((t \ {p}) \ {x})
          BY <1>1, <2>1, <5>1
        <5>. QED  BY <5>2
      <4> DEFINE whole == Total(t)  noP == Total(t \ {p})  noX == Total(t \ {x})
                 rest == Total((t \ {p}) \ {x})
      <4>5. /\ whole = p.size + noP /\ noP = x.size + rest /\ noX = p.size + rest
            /\ x.size \in Nat /\ p.size \in Nat /\ rest \in Nat
        BY <3>1, <3>2, <3>4, <4>1, <4>2, <4>3, <4>4
      <4>. HIDE DEF Good, Bad, whole, noP, noX, rest
      <4>6. whole = x.size + noX
        BY <4>5
      <4>. QED  BY <4>6 DEF whole, noX
    <3>6. Total(t) \in Nat
      BY <3>1, <3>2, <3>4
    <3>7. Good(t)
      BY <3>2, <3>5, <3>6
    <3>. QED  BY <3>7
  <2>. QED  BY <2>2, <2>3
<1>2. Bad = {}
  <2>1. Bad \subseteq SUBSET S
    OBVIOUS
  <2>. HIDE DEF Bad
  <2>. QED  BY <1>1, <2>1, SmallestSubset
<1>3. \A t \in SUBSET S : Good(t)
  BY <1>2
<1>. QED  BY <1>3

\* A part has no more than the whole.
LEMMA TotalOfPart ==
    ASSUME NEW S, IsFiniteSet(S), \A e \in S : e.size \in Nat, NEW T \in SUBSET S
    PROVE  Total(T) <= Total(S)
<1> DEFINE Bad == {u \in SUBSET S : T \subseteq u /\ ~(Total(T) <= Total(u))}
<1>1. ASSUME NEW u \in Bad, \A v \in Bad : v \subseteq u => v = u  PROVE FALSE
  <2>1. /\ IsFiniteSet(u) /\ IsFiniteSet(T) /\ T \subseteq u /\ ~(Total(T) <= Total(u))
        /\ \A e \in u : e.size \in Nat
        /\ \A e \in T : e.size \in Nat
    BY FS_Subset
  <2>2. Total(u) \in Nat /\ Total(T) \in Nat
    BY <2>1, TotalOfOneMore
  <2>3. PICK x \in u : x \notin T
    BY <2>1, <2>2
  <2>4. Total(u) = x.size + Total(u \ {x}) /\ Total(u \ {x}) \in Nat
    BY <2>1, TotalOfOneMore
  <2>5. Total(T) <= Total(u \ {x})
    BY <1>1, <2>1, <2>3
  <2>. QED  BY <2>1, <2>2, <2>4, <2>5
<1>2. Bad = {}
  <2>1. Bad \subseteq SUBSET S
    OBVIOUS
  <2>. HIDE DEF Bad
  <2>. QED  BY <1>1, <2>1, SmallestSubset
<1>. QED  BY <1>2

\* A finite set of numbers has a largest one.
LEMMA LargestExists ==
    ASSUME NEW S, IsFiniteSet(S)
    PROVE  S \subseteq Nat /\ S # {} => \E m \in S : \A x \in S : x <= m
<1> DEFINE Bad == {t \in SUBSET S : t \subseteq Nat /\ t # {} /\ ~\E m \in t : \A x \in t : x <= m}
<1>1. ASSUME NEW t \in Bad, \A u \in Bad : u \subseteq t => u = t  PROVE FALSE
  <2>1. PICK p \in t : TRUE
    OBVIOUS
  <2>2. t \in SUBSET Nat
    OBVIOUS
  <2>3. t # {p}
    BY <2>2
  <2>4. t \ {p} \in SUBSET S /\ t \ {p} \subseteq Nat /\ t \ {p} # {} /\ t \ {p} # t
    BY <2>1, <2>2, <2>3
  <2>5. PICK m \in t \ {p} : \A x \in t \ {p} : x <= m
    BY <1>1, <2>4
  <2>6. \/ \A x \in t : x <= m
        \/ \A x \in t : x <= p
    BY <2>2, <2>5
  <2>. QED  BY <2>5, <2>6
<1>2. Bad = {}
  <2>1. Bad \subseteq SUBSET S
    OBVIOUS
  <2>. HIDE DEF Bad
  <2>. QED  BY <1>1, <2>1, SmallestSubset
<1>. QED  BY <1>2

\* It is the one that Max chooses.
LEMMA MaxOfFinite ==
    ASSUME NEW S, IsFiniteSet(S), S \subseteq Nat, S # {}
    PROVE  Max(S) \in S /\ \A x \in S : x <= Max(S)
<1>1. \E m \in S : \A x \in S : m >= x
  <2>1. PICK m \in S : \A x \in S : x <= m
    BY LargestExists
  <2>. QED  BY <2>1
<1>. QED  BY <1>1 DEF Max

\* The sum of n numbers up to max is at most n times max.
LEMMA TotalIsBounded ==
    ASSUME NEW S, IsFiniteSet(S), NEW max \in Nat, \A e \in S : e.size \in Nat /\ e.size <= max
    PROVE  Cardinality(S) \in Nat /\ Total(S) \in Nat /\ Total(S) <= Cardinality(S) * max
<1> DEFINE Bad == {t \in SUBSET S : ~(Total(t) <= Cardinality(t) * max)}
<1>1. ASSUME NEW t \in Bad, \A u \in Bad : u \subseteq t => u = t  PROVE FALSE
  <2>1. IsFiniteSet(t) /\ t \in SUBSET S /\ Cardinality(t) \in Nat
    BY FS_Subset, FS_CardinalityType
  <2>2. CASE t = {}
    <3>1. Total(t) = 0 /\ Cardinality(t) = 0
      BY <2>1, <2>2, TotalStep, FS_EmptySet
    <3>2. 0 <= 0 * max
      OBVIOUS
    <3>. QED  BY <3>1, <3>2
  <2>3. ASSUME NEW x \in t  PROVE FALSE
    <3> DEFINE k == Cardinality(t \ {x})
    <3>1. Total(t) = x.size + Total(t \ {x}) /\ Total(t \ {x}) \in Nat
      BY <2>1, TotalOfOneMore
    <3>2. Cardinality(t) = k + 1 /\ k \in Nat
      <4>1. IsFiniteSet(t \ {x}) /\ k = Cardinality(t) - 1
        BY <2>1, FS_RemoveElement
      <4>2. k \in Nat
        BY <4>1, FS_CardinalityType
      <4>. HIDE DEF k
      <4>. QED  BY <2>1, <4>1, <4>2
    <3>3. Total(t \ {x}) <= k * max
      BY <1>1, <2>1
    <3>. HIDE DEF k
    <3>4. (k + 1) * max = k * max + max /\ k * max \in Nat
      BY <3>2
    <3>5. x.size \in Nat /\ x.size <= max
      BY <2>1
    <3>6. Total(t) <= Cardinality(t) * max
      <4> DEFINE km == k * max
      <4>. HIDE DEF km
      <4>1. Cardinality(t) * max = km + max /\ km \in Nat /\ Total(t \ {x}) <= km
        BY <3>2, <3>3, <3>4 DEF km
      <4>. QED  BY <3>1, <3>5, <4>1
    <3>. QED  BY <3>6
  <2>. QED  BY <2>2, <2>3
<1>2. Bad = {}
  <2>1. Bad \subseteq SUBSET S
    OBVIOUS
  <2>. HIDE DEF Bad
  <2>. QED  BY <1>1, <2>1, SmallestSubset
<1>3. Total(S) <= Cardinality(S) * max
  BY <1>2
<1>. QED  BY <1>3, TotalOfOneMore, FS_CardinalityType

-----------------------------------------------------------------------------
(* The quota.                                                              *)

USE MailNodeAssumption

Writing == {"pinning", "appending"}

\* What the sessions that passed the quota will add to a mailbox.
Writers(n, gen) ==
    {s \in Sessions : sessions[s].phase \in Writing /\ sessions[s].name = n /\ sessions[s].gen = gen}

Claims(n, gen) == {[session |-> s, size |-> sessions[s].size] : s \in Writers(n, gen)}

Bound == Cap + (Cardinality(Sessions) - 1) * Max(Sizes)

\* Rows and claims of a mailbox do not go together beyond the bound.
QuotaHolds(n, gen) == Total(List(n, gen)) + Total(Claims(n, gen)) <= Bound

SizesAreKnown ==
    \A s \in Sessions : sessions[s].phase \in {"reading"} \cup Writing => sessions[s].size \in Sizes

QuotaInv ==
    /\ IsFiniteSet(entries)
    /\ SizesAreKnown
    /\ \A n \in Names, gen \in Nat : QuotaHolds(n, gen)

\* The bound is a number, and leaves room for one message of each other session.
LEMMA BoundType ==
    /\ Max(Sizes) \in Nat /\ \A size \in Sizes : size <= Max(Sizes)
    /\ Cardinality(Sessions) \in Nat \ {0}
    /\ Bound \in Nat
    /\ \A k \in Nat : k <= Cardinality(Sessions) - 1 => Cap + k * Max(Sizes) <= Bound
<1>1. Max(Sizes) \in Nat /\ \A size \in Sizes : size <= Max(Sizes)
  BY MaxOfFinite, QuotaAssumption
<1>2. Cardinality(Sessions) \in Nat \ {0}
  BY QuotaAssumption, FS_CardinalityType, FS_EmptySet
<1> DEFINE m == Max(Sizes)  r == Cardinality(Sessions) - 1
<1>3. m \in Nat /\ r \in Nat
  BY <1>1, <1>2
<1>. HIDE DEF m, r
<1>4. r * m \in Nat
  BY <1>3
<1>5. ASSUME NEW k \in Nat, k <= r  PROVE k * m \in Nat /\ k * m <= r * m
  <2>1. PICK d \in Nat : r = k + d
    <3>1. r - k \in Nat /\ r = k + (r - k)
      BY <1>3, <1>5
    <3>. QED  BY <3>1
  <2>2. r * m = k * m + d * m /\ d * m \in Nat /\ k * m \in Nat
    BY <1>3, <2>1
  <2>. QED  BY <2>2
<1>6. \A k \in Nat : k <= r => Cap + k * m <= Cap + r * m
  BY <1>4, <1>5
<1>7. Cap + r * m \in Nat
  BY <1>4
<1>. QED  BY <1>1, <1>2, <1>6, <1>7 DEF Bound, m, r

\* Claims are as many as writers; rows and claims have sizes.
LEMMA ClaimsType ==
    ASSUME TypeOK, QuotaInv, NEW n \in Names, NEW gen \in Nat
    PROVE  /\ IsFiniteSet(List(n, gen)) /\ \A e \in List(n, gen) : e.size \in Nat
           /\ IsFiniteSet(Claims(n, gen))
           /\ \A c \in Claims(n, gen) : c.size \in Nat /\ c.size <= Max(Sizes)
           /\ Cardinality(Claims(n, gen)) <= Cardinality(Writers(n, gen))
           /\ IsFiniteSet(Writers(n, gen))
<1>1. IsFiniteSet(List(n, gen)) /\ \A e \in List(n, gen) : e.size \in Nat
  <2>1. List(n, gen) \subseteq entries
    BY DEF List
  <2>. QED  BY <2>1, FS_Subset DEF QuotaInv, TypeOK, Rows
<1>2. IsFiniteSet(Writers(n, gen))
  <2>1. Writers(n, gen) \subseteq Sessions
    BY DEF Writers
  <2>. QED  BY <2>1, FS_Subset, QuotaAssumption
<1>3. IsFiniteSet(Claims(n, gen)) /\ Cardinality(Claims(n, gen)) <= Cardinality(Writers(n, gen))
  <2> DEFINE f == [s \in Writers(n, gen) |-> [session |-> s, size |-> sessions[s].size]]
  <2>1. f \in Surjection(Writers(n, gen), Claims(n, gen))
    BY DEF Surjection, Claims
  <2>. HIDE DEF f
  <2>. QED  BY <1>2, <2>1, FS_Surjection
<1>4. \A c \in Claims(n, gen) : c.size \in Nat /\ c.size <= Max(Sizes)
  <2>1. \A s \in Writers(n, gen) : sessions[s].size \in Sizes
    BY DEF QuotaInv, SizesAreKnown, Writers
  <2>2. \A c \in Claims(n, gen) : c.size \in Sizes
    BY <2>1 DEF Claims
  <2>3. \A size \in Sizes : size \in Nat /\ size <= Max(Sizes)
    BY BoundType
  <2>. QED  BY <2>2, <2>3
<1>. QED  BY <1>1, <1>2, <1>3, <1>4

\* A session that claims nothing new.
Claimless(s) ==
    sessions'[s].phase \in Writing =>
        /\ sessions[s].phase \in Writing
        /\ sessions'[s].name = sessions[s].name
        /\ sessions'[s].gen = sessions[s].gen
        /\ sessions'[s].size = sessions[s].size

\* Neither new rows nor new claims: the quota stays.
LEMMA NothingNew ==
    ASSUME TypeOK, QuotaInv, entries' \subseteq entries, \A s \in Sessions : Claimless(s)
    PROVE  IsFiniteSet(entries') /\ \A n \in Names, gen \in Nat : QuotaHolds(n, gen)'
<1>1. IsFiniteSet(entries')
  BY FS_Subset DEF QuotaInv
<1>2. ASSUME NEW n \in Names, NEW gen \in Nat  PROVE QuotaHolds(n, gen)'
  <2>1. List(n, gen)' \in SUBSET List(n, gen)
    BY DEF List
  <2>2. \A s \in Writers(n, gen)' : s \in Writers(n, gen) /\ sessions'[s].size = sessions[s].size
    BY DEF Writers, Claimless
  <2>3. Claims(n, gen)' \in SUBSET Claims(n, gen)
    BY <2>2 DEF Claims
  <2>4. /\ IsFiniteSet(List(n, gen)) /\ \A e \in List(n, gen) : e.size \in Nat
        /\ IsFiniteSet(Claims(n, gen)) /\ \A c \in Claims(n, gen) : c.size \in Nat
    BY ClaimsType
  <2> DEFINE l == List(n, gen)  l1 == List(n, gen)'  c == Claims(n, gen)  c1 == Claims(n, gen)'
  <2>. HIDE DEF l, l1, c, c1
  <2>5. Total(l1) <= Total(l) /\ Total(c1) <= Total(c)
    BY <2>1, <2>3, <2>4, TotalOfPart DEF l, l1, c, c1
  <2>6. Total(l) \in Nat /\ Total(l1) \in Nat /\ Total(c) \in Nat /\ Total(c1) \in Nat
    <3>1. IsFiniteSet(l1) /\ IsFiniteSet(c1)
      BY <2>1, <2>3, <2>4, FS_Subset DEF l, l1, c, c1
    <3>2. (\A e \in l1 : e.size \in Nat) /\ (\A e \in c1 : e.size \in Nat)
      BY <2>1, <2>3, <2>4 DEF l, l1, c, c1
    <3>3. /\ IsFiniteSet(l) /\ IsFiniteSet(c)
          /\ (\A e \in l : e.size \in Nat) /\ (\A e \in c : e.size \in Nat)
      BY <2>4 DEF l, c
    <3>. QED  BY <3>1, <3>2, <3>3, TotalOfOneMore
  <2>7. Total(l) + Total(c) <= Bound /\ Bound \in Nat
    BY BoundType DEF QuotaInv, QuotaHolds, l, c
  <2>8. Total(l1) + Total(c1) <= Bound
    BY <2>5, <2>6, <2>7
  <2>. QED  BY <2>8 DEF QuotaHolds, l1, c1, Bound
<1>. QED  BY <1>1, <1>2

\* A message that passes the check claims its size; the others claim one message each.
LEMMA SealedKeepsQuota ==
    ASSUME MailInv, QuotaInv, NEW s \in Sessions, Sealed(s)
    PROVE  QuotaInv'
<1> DEFINE job == sessions[s]
<1>0. /\ job.phase = "reading" /\ job \in Jobs /\ sessions \in [Sessions -> Jobs]
      /\ UNCHANGED <<entries, book>> /\ job.size \in Sizes /\ TypeOK
  BY DEF Sealed, MailInv, TypeOK, disk, QuotaInv, SizesAreKnown
<1>1. CASE ~Fits(job.name, job.gen, job.size)
  <2>1. sessions' = [sessions EXCEPT ![s] = Idle] /\ Idle.phase = "idle"
    BY <1>1 DEF Sealed, Refuse, Idle
  <2>2. \A t \in Sessions : Claimless(t)
    BY <1>0, <2>1 DEF Claimless, Writing
  <2>3. SizesAreKnown'
    BY <1>0, <2>1 DEF QuotaInv, SizesAreKnown, Writing
  <2>. QED  BY <1>0, <2>2, <2>3, NothingNew DEF QuotaInv
<1>2. CASE Fits(job.name, job.gen, job.size)
  <2>1. sessions' = [sessions EXCEPT ![s].phase = "pinning"]
    BY <1>2 DEF Sealed
  <2>2. /\ sessions'[s].phase = "pinning" /\ sessions'[s].name = job.name
        /\ sessions'[s].gen = job.gen /\ sessions'[s].size = job.size
        /\ \A t \in Sessions : t # s => sessions'[t] = sessions[t]
    BY <1>0, <2>1 DEF Jobs
  <2>3. SizesAreKnown'
    BY <1>0, <2>2 DEF QuotaInv, SizesAreKnown, Writing
  <2>4. ASSUME NEW n \in Names, NEW gen \in Nat, n = job.name, gen = job.gen
        PROVE  QuotaHolds(n, gen)'
    <3> DEFINE l == List(n, gen)  c == Claims(n, gen)  new == [session |-> s, size |-> job.size]
    <3>1. List(n, gen)' = l
      BY <1>0 DEF List
    <3>2. Writers(n, gen)' = Writers(n, gen) \cup {s} /\ s \notin Writers(n, gen)
      BY <1>0, <2>2, <2>4 DEF Writers, Writing
    <3>3. Claims(n, gen)' = c \cup {new}
      <4>1. \A t \in Writers(n, gen) : sessions'[t].size = sessions[t].size
        BY <2>2, <3>2 DEF Writers
      <4>. QED  BY <2>2, <3>2, <4>1 DEF Claims
    <3>4. new \notin c
      BY <3>2 DEF Claims
    <3>5. /\ IsFiniteSet(l) /\ \A e \in l : e.size \in Nat
          /\ IsFiniteSet(c) /\ \A e \in c : e.size \in Nat /\ e.size <= Max(Sizes)
          /\ Cardinality(c) <= Cardinality(Writers(n, gen)) /\ IsFiniteSet(Writers(n, gen))
      BY <1>0, ClaimsType
    <3>6. Cardinality(Writers(n, gen)) <= Cardinality(Sessions) - 1
      <4>1. Writers(n, gen) \subseteq Sessions \ {s}
        BY <3>2 DEF Writers
      <4>2. IsFiniteSet(Sessions \ {s}) /\ Cardinality(Sessions \ {s}) = Cardinality(Sessions) - 1
        BY FS_RemoveElement, QuotaAssumption
      <4>3. Cardinality(Writers(n, gen)) <= Cardinality(Sessions \ {s})
        BY <4>1, <4>2, FS_Subset
      <4>. QED  BY <4>2, <4>3
    <3>7. Total(l) + job.size <= Cap
      BY <1>2, <2>4 DEF Fits, TotalSize, Total
    <3>. HIDE DEF l, c
    <3>8. Total(l) \in Nat /\ job.size \in Nat
      BY <1>0, <3>5, TotalOfOneMore DEF Jobs
    <3>9. /\ Cardinality(c) \in Nat /\ Total(c) \in Nat
          /\ Total(c) <= Cardinality(c) * Max(Sizes)
      BY <3>5, BoundType, TotalIsBounded
    <3>10. Cap + Cardinality(c) * Max(Sizes) <= Bound
      <4>1. Cardinality(Writers(n, gen)) \in Nat /\ Cardinality(Sessions) \in Nat
        BY <3>5, QuotaAssumption, FS_CardinalityType
      <4>2. Cardinality(c) <= Cardinality(Sessions) - 1
        BY <3>5, <3>6, <3>9, <4>1
      <4>. QED  BY <3>9, <4>2, BoundType
    <3>11. Total(c \cup {new}) = job.size + Total(c)
      <4>1. IsFiniteSet(c \cup {new}) /\ (c \cup {new}) \ {new} = c
        BY <3>4, <3>5, FS_AddElement
      <4>2. \A e \in c \cup {new} : e.size \in Nat
        BY <3>5, <3>8
      <4>3. Total(c \cup {new}) = new.size + Total((c \cup {new}) \ {new})
        BY <4>1, <4>2, TotalOfOneMore
      <4>. QED  BY <4>1, <4>3
    <3>12. Total(l) + Total(c \cup {new}) <= Bound
      <4> DEFINE km == Cardinality(c) * Max(Sizes)
      <4>1. km \in Nat /\ Bound \in Nat
        BY <3>9, BoundType
      <4>2. Total(c) <= km /\ Cap + km <= Bound
        BY <3>9, <3>10
      <4>. HIDE DEF km, new
      <4>. QED  BY <3>7, <3>8, <3>9, <3>11, <4>1, <4>2
    <3>. QED  BY <3>1, <3>3, <3>12 DEF QuotaHolds, Bound
  <2>5. ASSUME NEW n \in Names, NEW gen \in Nat, ~(n = job.name /\ gen = job.gen)
        PROVE  QuotaHolds(n, gen)'
    <3>1. List(n, gen)' = List(n, gen)
      BY <1>0 DEF List
    <3>2. Writers(n, gen)' = Writers(n, gen)
      BY <1>0, <2>2, <2>5 DEF Writers, Writing
    <3>3. \A t \in Writers(n, gen) : sessions'[t].size = sessions[t].size
      BY <2>2 DEF Writers
    <3>4. Claims(n, gen)' = Claims(n, gen)
      BY <3>2, <3>3 DEF Claims
    <3>. QED  BY <3>1, <3>4 DEF QuotaInv, QuotaHolds, Bound
  <2>. QED  BY <1>0, <2>3, <2>4, <2>5 DEF QuotaInv
<1>. QED  BY <1>1, <1>2

\* A row takes the place of the claim of its session.
LEMMA SavesKeepsQuota ==
    ASSUME MailInv, QuotaInv, NEW s \in Sessions, AppendRow(s) \/ CrashBeforeReply(s)
    PROVE  QuotaInv'
<1> DEFINE job == sessions[s]
           row == [seq |-> nextSeq, name |-> job.name, generation |-> job.gen,
                   cid |-> job.cid, size |-> job.size, dek |-> job.dek]
<1>0. /\ job.phase = "appending" /\ job \in Jobs /\ sessions \in [Sessions -> Jobs] /\ TypeOK
      /\ entries' = entries \cup {row}
      /\ job.size \in Sizes /\ job.size \in Nat
  BY DEF AppendRow, CrashBeforeReply, Saves, MailInv, TypeOK, QuotaInv, SizesAreKnown, Writing
<1>1. /\ sessions'[s].phase = "idle"
      /\ \A t \in Sessions : sessions'[t] = sessions[t] \/ sessions'[t].phase = "idle"
  BY <1>0 DEF AppendRow, CrashBeforeReply, SessionsEnd, Idle
<1>2. SizesAreKnown'
  BY <1>0, <1>1 DEF QuotaInv, SizesAreKnown, Writing
<1>3. IsFiniteSet(entries')
  BY <1>0, FS_AddElement DEF QuotaInv
<1>4. row \notin entries
  <2>1. \A e \in entries : e.seq < nextSeq /\ nextSeq \in Nat /\ e.seq \in Nat
    BY DEF MailInv, DiskInv, RowsAreDistinct, TypeOK, Rows
  <2>2. row.seq = nextSeq
    OBVIOUS
  <2>. HIDE DEF row
  <2>. QED  BY <2>1, <2>2
<1>5. ASSUME NEW n \in Names, NEW gen \in Nat, n = job.name, gen = job.gen
      PROVE  QuotaHolds(n, gen)'
  <2> DEFINE l == List(n, gen)  c == Claims(n, gen)  old == [session |-> s, size |-> job.size]
  <2>1. List(n, gen)' = l \cup {row} /\ row \notin l
    BY <1>0, <1>4, <1>5 DEF List
  <2>2. Writers(n, gen)' \subseteq Writers(n, gen) \ {s} /\ s \in Writers(n, gen)
    BY <1>0, <1>1, <1>5 DEF Writers, Writing
  <2> DEFINE c1 == Claims(n, gen)'
  <2>3. c1 \in SUBSET (c \ {old}) /\ old \in c
    <3>1. \A t \in Writers(n, gen)' : sessions'[t].size = sessions[t].size
      BY <1>1, <2>2 DEF Writers, Writing
    <3>. QED  BY <2>2, <3>1 DEF Claims
  <2>4. /\ IsFiniteSet(l) /\ \A e \in l : e.size \in Nat
        /\ IsFiniteSet(c) /\ \A e \in c : e.size \in Nat
    BY <1>0, ClaimsType
  <2>5. Total(l) + Total(c) <= Bound
    BY DEF QuotaInv, QuotaHolds
  <2>6. row.size = job.size /\ old.size = job.size
    OBVIOUS
  <2>. HIDE DEF l, c, c1, row, old
  <2>7. Total(l \cup {row}) = job.size + Total(l) /\ Total(l) \in Nat
    <3>1. IsFiniteSet(l \cup {row}) /\ (l \cup {row}) \ {row} = l
      BY <2>1, <2>4, FS_AddElement
    <3>2. \A e \in l \cup {row} : e.size \in Nat
      BY <1>0, <2>4, <2>6
    <3>. QED  BY <2>4, <2>6, <3>1, <3>2, TotalOfOneMore
  <2>8. Total(c) = job.size + Total(c \ {old}) /\ Total(c \ {old}) \in Nat
    BY <2>3, <2>4, <2>6, TotalOfOneMore
  <2>9. Total(c1) \in Nat /\ Total(c1) <= Total(c \ {old})
    <3>1. IsFiniteSet(c \ {old}) /\ \A e \in c \ {old} : e.size \in Nat
      BY <2>3, <2>4, FS_Subset
    <3>2. IsFiniteSet(c1) /\ \A e \in c1 : e.size \in Nat
      BY <2>3, <3>1, FS_Subset
    <3>. QED  BY <2>3, <3>1, <3>2, TotalOfPart, TotalOfOneMore
  <2>10. Total(l \cup {row}) + Total(c1) <= Bound
    BY <1>0, <2>5, <2>7, <2>8, <2>9, BoundType
  <2>. QED  BY <2>1, <2>10 DEF QuotaHolds, Bound, c1
<1>6. ASSUME NEW n \in Names, NEW gen \in Nat, ~(n = job.name /\ gen = job.gen)
      PROVE  QuotaHolds(n, gen)'
  <2> DEFINE l == List(n, gen)  c == Claims(n, gen)  c1 == Claims(n, gen)'
  <2>1. List(n, gen)' = l
    BY <1>0, <1>6 DEF List
  <2>2. \A t \in Writers(n, gen)' : t \in Writers(n, gen) /\ sessions'[t].size = sessions[t].size
    BY <1>0, <1>1 DEF Writers, Writing
  <2>3. c1 \in SUBSET c
    BY <2>2 DEF Claims
  <2>4. /\ IsFiniteSet(l) /\ \A e \in l : e.size \in Nat
        /\ IsFiniteSet(c) /\ \A e \in c : e.size \in Nat
    BY <1>0, ClaimsType
  <2>5. Total(l) + Total(c) <= Bound
    BY DEF QuotaInv, QuotaHolds
  <2>. HIDE DEF l, c, c1
  <2>6. IsFiniteSet(c1) /\ \A e \in c1 : e.size \in Nat
    BY <2>3, <2>4, FS_Subset
  <2>7. /\ Total(l) \in Nat /\ Total(c) \in Nat /\ Total(c1) \in Nat
        /\ Total(c1) <= Total(c)
    BY <2>3, <2>4, <2>6, TotalOfPart, TotalOfOneMore
  <2>8. Total(l) + Total(c1) <= Bound
    BY <2>5, <2>7, BoundType
  <2>. QED  BY <2>1, <2>8 DEF QuotaHolds, Bound, l, c1
<1>. QED  BY <1>2, <1>3, <1>5, <1>6 DEF QuotaInv

\* One session moves on, with nothing new to claim.
LEMMA OneClaimless ==
    ASSUME TypeOK, QuotaInv, NEW s \in Sessions, NEW job,
           sessions' = [sessions EXCEPT ![s] = job], UNCHANGED entries,
           \/ job.phase \notin Writing \cup {"reading"}
           \/ job.phase = "reading" /\ job.size \in Sizes
           \/ /\ job.phase = "appending" /\ sessions[s].phase \in Writing
              /\ job.name = sessions[s].name /\ job.gen = sessions[s].gen
              /\ job.size = sessions[s].size
    PROVE  QuotaInv'
<1>1. sessions \in [Sessions -> Jobs]
  BY DEF TypeOK
<1>2. sessions'[s] = job /\ \A t \in Sessions : t # s => sessions'[t] = sessions[t]
  BY <1>1
<1>3. \A t \in Sessions : Claimless(t)
  BY <1>2 DEF Claimless, Writing
<1>4. SizesAreKnown'
  BY <1>2 DEF QuotaInv, SizesAreKnown, Writing
<1>. QED  BY <1>3, <1>4, NothingNew DEF QuotaInv

\* Answers claim nothing.
LEMMA AnswerKeepsQuota ==
    ASSUME TypeOK, QuotaInv, NEW s \in Sessions, Answer(s)
    PROVE  QuotaInv'
<1> DEFINE job == sessions[s]
<1>1. job \in Jobs /\ UNCHANGED entries
  BY DEF TypeOK, Answer, AnswerOptedIn, AnswerGeneration, AnswerRecord,
         AnswerRecordGeneration, IngestThrows, disk
<1>2. job.phase \in Writing \cup {"reading"} => job.size \in Sizes
  BY DEF QuotaInv, SizesAreKnown
<1>3. CASE AnswerOptedIn(s)
  <2>1. PICK yes : sessions' = [sessions EXCEPT ![s].answer = yes]
    BY <1>3 DEF AnswerOptedIn
  <2>2. job.phase \in {"asking", "appending"}
    BY <1>3 DEF AnswerOptedIn, Waits
  <2> DEFINE told == [job EXCEPT !.answer = yes]
  <2>3. /\ told.phase = job.phase /\ told.name = job.name /\ told.size = job.size
        /\ told.gen = job.gen
    BY <1>1 DEF Jobs
  <2>4. sessions' = [sessions EXCEPT ![s] = told]
    BY <2>1
  <2>. HIDE DEF told
  <2>. QED  BY <1>1, <2>2, <2>3, <2>4, OneClaimless DEF Writing
<1>4. CASE AnswerGeneration(s)
  <2>1. PICK gen : sessions' = [sessions EXCEPT ![s] = [job EXCEPT !.gen = gen]]
    BY <1>4 DEF AnswerGeneration
  <2>2. [job EXCEPT !.gen = gen].phase = "measuring"
    BY <1>1, <1>4 DEF AnswerGeneration, Jobs
  <2>. QED  BY <1>1, <2>1, <2>2, OneClaimless DEF Writing
<1>5. CASE AnswerRecord(s) \/ AnswerRecordGeneration(s)
  <2>1. \A v : /\ [job EXCEPT !.dek = v].phase = job.phase /\ [job EXCEPT !.dek = v].size = job.size
               /\ [job EXCEPT !.gen = v].phase = job.phase /\ [job EXCEPT !.gen = v].size = job.size
    BY <1>1 DEF Jobs
  <2>2. PICK told : sessions' = [sessions EXCEPT ![s] = told] /\ told.phase = job.phase
                    /\ told.size = job.size
    <3>1. CASE AnswerRecord(s)
      <4>1. sessions' = [sessions EXCEPT ![s] = [job EXCEPT !.dek = book[job.name].epoch]]
        BY <3>1 DEF AnswerRecord
      <4>. QED  BY <2>1, <4>1
    <3>2. CASE AnswerRecordGeneration(s)
      <4>1. PICK gen : sessions' = [sessions EXCEPT ![s] = [job EXCEPT !.gen = gen]]
        BY <3>2 DEF AnswerRecordGeneration
      <4>. QED  BY <2>1, <4>1
    <3>. QED  BY <1>5, <3>1, <3>2
  <2>3. job.phase = "reading"
    BY <1>5 DEF AnswerRecord, AnswerRecordGeneration
  <2>. QED  BY <1>1, <1>2, <2>2, <2>3, OneClaimless
<1>6. CASE IngestThrows(s)
  <2>1. sessions' = [sessions EXCEPT ![s] = Idle] /\ Idle.phase = "idle"
    BY <1>6 DEF IngestThrows, Refuse, Idle
  <2>. QED  BY <1>1, <2>1, OneClaimless DEF Writing
<1>. QED  BY <1>3, <1>4, <1>5, <1>6 DEF Answer

\* So do continuations, but for the check of the quota and the row itself.
LEMMA ContinueKeepsQuota ==
    ASSUME MailInv, QuotaInv, NEW s \in Sessions, Continue(s)
    PROVE  QuotaInv'
<1> DEFINE job == sessions[s]
<1>1. job \in Jobs /\ TypeOK
  BY DEF MailInv, TypeOK
<1>2. Idle.phase = "idle" /\ \A accepted : AfterRcpt(s, accepted).phase \in {"idle", "ready"}
  BY DEF AfterRcpt, Idle
<1>3. CASE Pin(s)
  <2> DEFINE pinned == [job EXCEPT !.phase = "appending", !.answer = None,
                                   !.open = IsOpen(job.name)]
  <2>1. /\ pinned.phase = "appending" /\ pinned.name = job.name /\ pinned.gen = job.gen
        /\ pinned.size = job.size
    BY <1>1 DEF Jobs
  <2>2. /\ sessions' = [sessions EXCEPT ![s] = pinned] /\ job.phase = "pinning"
        /\ UNCHANGED entries
    BY <1>3 DEF Pin
  <2>. HIDE DEF pinned
  <2>. QED  BY <1>1, <2>1, <2>2, OneClaimless DEF Writing
<1>4. CASE RcptOptedIn(s)
  <2> DEFINE measuring == [job EXCEPT !.phase = "measuring", !.answer = None]
  <2>1. measuring.phase = "measuring"
    BY <1>1 DEF Jobs
  <2>2. sessions' = [sessions EXCEPT ![s] = measuring] /\ UNCHANGED entries
    BY <1>4 DEF RcptOptedIn, disk
  <2>. HIDE DEF measuring
  <2>. QED  BY <1>1, <2>1, <2>2, OneClaimless DEF Writing
<1>5. CASE RcptUnknown(s) \/ RcptMeasured(s)
  <2>1. PICK accepted : sessions' = [sessions EXCEPT ![s] = AfterRcpt(s, accepted)]
    BY <1>1, <1>5 DEF RcptUnknown, RcptMeasured, TypeOK
  <2>2. UNCHANGED entries
    BY <1>5 DEF RcptUnknown, RcptMeasured, disk
  <2>. QED  BY <1>1, <1>2, <2>1, <2>2, OneClaimless DEF Writing
<1>6. CASE AppendRefused(s)
  BY <1>1, <1>2, <1>6, OneClaimless DEF AppendRefused, Refuse, Writing, disk
<1>. QED  BY <1>3, <1>4, <1>5, <1>6, SealedKeepsQuota, SavesKeepsQuota DEF Continue

\* A message that has begun has one of the sizes.
LEMMA ArriveKeepsQuota ==
    ASSUME TypeOK, QuotaInv, NEW s \in Sessions, Arrive(s)
    PROVE  QuotaInv'
<1>1. sessions[s] \in Jobs /\ UNCHANGED entries
  BY DEF TypeOK, Arrive, Rcpt, Data, disk
<1>2. ASSUME NEW n \in Names, Rcpt(s, n)  PROVE QuotaInv'
  <2> DEFINE asking == [sessions[s] EXCEPT !.phase = "asking", !.name = n, !.answer = None]
  <2>1. asking.phase = "asking"
    BY <1>1 DEF Jobs
  <2>2. sessions' = [sessions EXCEPT ![s] = asking]
    BY <1>2 DEF Rcpt
  <2>. HIDE DEF asking
  <2>. QED  BY <1>1, <2>1, <2>2, OneClaimless DEF Writing
<1>3. ASSUME NEW size \in Sizes, Data(s, size)  PROVE QuotaInv'
  <2> DEFINE begun == [sessions[s] EXCEPT !.phase = "reading", !.size = size, !.cid = nextMail,
                                          !.name = Head(sessions[s].accepted)]
  <2>1. begun.phase = "reading" /\ begun.size = size
    BY <1>1 DEF Jobs
  <2>2. sessions' = [sessions EXCEPT ![s] = begun]
    BY <1>3 DEF Data
  <2>. HIDE DEF begun
  <2>. QED  BY <1>1, <2>1, <2>2, OneClaimless
<1>. QED  BY <1>2, <1>3 DEF Arrive

\* Every step keeps the quota.
LEMMA NextQuota ==
    ASSUME MailInv, QuotaInv, [Next]_vars
    PROVE  QuotaInv'
<1>0. TypeOK
  BY DEF MailInv
<1>1. ASSUME entries' \subseteq entries, \A s \in Sessions : sessions'[s] \in {sessions[s], Idle}
      PROVE  QuotaInv'
  <2>1. Idle.phase = "idle"
    BY DEF Idle
  <2>2. \A s \in Sessions : Claimless(s)
    BY <1>1, <2>1 DEF Claimless, Writing
  <2>3. SizesAreKnown'
    BY <1>1, <2>1 DEF QuotaInv, SizesAreKnown, Writing
  <2>. QED  BY <1>0, <1>1, <2>2, <2>3, NothingNew DEF QuotaInv
<1>2. CASE UNCHANGED vars
  BY <1>1, <1>2 DEF vars, disk
<1>3. CASE TrashStep \/ CrashStep
  <2>1. entries' \subseteq entries
    BY <1>0, <1>3, DiskSteps DEF Deletes, Trash, Restore, Crash, CrashInSave, Without
  <2>2. \A s \in Sessions : sessions'[s] \in {sessions[s], Idle}
    BY <1>0, <1>3, DiskSteps DEF Deletes, Trash, Restore, Crash, CrashInSave, SessionsEnd
  <2>. QED  BY <1>1, <2>1, <2>2
<1>4. CASE RegistryStep
  <2>1. \A s \in Sessions :
            /\ sessions'[s].phase = sessions[s].phase /\ sessions'[s].name = sessions[s].name
            /\ sessions'[s].gen = sessions[s].gen /\ sessions'[s].size = sessions[s].size
    BY <1>0, <1>4 DEF RegistryStep, TypeOK, Jobs
  <2>2. UNCHANGED entries
    BY <1>4 DEF RegistryStep, disk
  <2>3. \A s \in Sessions : Claimless(s)
    BY <2>1 DEF Claimless
  <2>4. SizesAreKnown'
    BY <2>1 DEF QuotaInv, SizesAreKnown
  <2>. QED  BY <1>0, <2>2, <2>3, <2>4, NothingNew DEF QuotaInv
<1>. QED  BY <1>0, <1>2, <1>3, <1>4, AnswerKeepsQuota, ContinueKeepsQuota, ArriveKeepsQuota,
           SavesKeepsQuota DEF Next, NodeStep

\* An empty mailbox is within the bound.
LEMMA InitQuota == Init => QuotaInv
<1> SUFFICES ASSUME Init PROVE QuotaInv
  OBVIOUS
<1>1. \A s \in Sessions : sessions[s].phase = "idle"
  BY DEF Init, Idle
<1>2. IsFiniteSet(entries) /\ SizesAreKnown
  BY <1>1, FS_EmptySet DEF Init, SizesAreKnown, Writing
<1>3. ASSUME NEW n \in Names, NEW gen \in Nat  PROVE QuotaHolds(n, gen)
  <2>1. List(n, gen) = {} /\ Claims(n, gen) = {}
    BY <1>1 DEF Init, List, Claims, Writers, Writing
  <2>2. Total({}) = 0
    BY FS_EmptySet, TotalStep
  <2>. QED  BY <2>1, <2>2, BoundType DEF QuotaHolds
<1>. QED  BY <1>2, <1>3 DEF QuotaInv

-----------------------------------------------------------------------------
(* The theorems.                                                           *)

\* A node that has received nothing satisfies the invariant.
LEMMA InitMail == Init => MailInv
<1> SUFFICES ASSUME Init PROVE MailInv
  OBVIOUS
<1>1. TypeOK
  <2>1. book \in [Names -> [epoch : Nat, keys : SUBSET Keys, doors : SUBSET Nodes]]
    BY DEF Init, Registry!Init, Names
  <2>2. sessions \in [Sessions -> Jobs]
    BY IdleType DEF Init
  <2> QED BY <2>1, <2>2 DEF Init, TypeOK
<1>2. \A s \in Sessions : sessions[s] = Idle
  BY DEF Init
<1>3. JobsOK /\ OpenOK
  BY <1>2, IdleJob, NotAppending DEF JobsOK, OpenOK, Idle
<1>4. CidsAreOwned
  BY <1>2 DEF Init, CidsAreOwned, Idle
<1>5. RowsAreDistinct /\ NoDanglingRow /\ FlagsCondemn /\ AnsweredMailIsKept
  BY DEF Init, RowsAreDistinct, NoDanglingRow, FlagsCondemn, AnsweredMailIsKept
<1> QED BY <1>1, <1>3, <1>4, <1>5 DEF MailInv, DiskInv

\* The inductive invariant holds in every state of the node.
THEOREM MailInvariant == Spec => []MailInv
<1>1. MailInv /\ [Next]_vars => MailInv'
  BY NextType, NextJobs, NextDisk, NextOpen DEF MailInv, DiskInv
<1> QED BY InitMail, <1>1, PTL DEF Spec

\* Rows are written with values of their types only, whatever was answered when.
THEOREM TypeCorrect == Spec => []TypeOK
<1>1. MailInv => TypeOK
  BY DEF MailInv
<1> QED BY <1>1, MailInvariant, PTL

\* A row that is listed can be opened: no deletion, cut short or not, takes a blob
\* that a remaining row refers to.
THEOREM RowsCanBeOpened == Spec => []NoDanglingRow
<1>1. MailInv => NoDanglingRow
  BY DEF MailInv, DiskInv
<1> QED BY <1>1, MailInvariant, PTL

\* Numbers and content ids are never used twice, across restarts and deletions.
THEOREM NumbersAreUnique == Spec => []RowsAreDistinct
<1>1. MailInv => RowsAreDistinct
  BY DEF MailInv, DiskInv
<1> QED BY <1>1, MailInvariant, PTL

\* What was answered with 250 keeps its blob and its row until its holder trashes it,
\* but for the crash inside the rewrite of index.json, which takes all the rows and
\* leaves the blobs.
THEOREM AnsweredMailStays == Spec => []AnsweredMailIsKept
<1>1. MailInv => AnsweredMailIsKept
  BY DEF MailInv, DiskInv
<1> QED BY <1>1, MailInvariant, PTL

\* An opt-out applied before the blob was pinned, and not taken back, stops the row.
THEOREM OptOutIsHeeded == Spec => OptOutStopsIndexing
<1> DEFINE Heeds == \A s \in Sessions : AppendRow(s) \/ CrashBeforeReply(s) => sessions[s].open
<1>1. MailInv => Heeds
  BY DEF MailInv, OpenOK, JobOpen, AppendRow, CrashBeforeReply, Saves, MayWrite
<1>2. MailInv /\ [Next]_vars => [Heeds]_vars
  BY <1>1
<1> QED BY <1>2, MailInvariant, PTL DEF Spec, OptOutStopsIndexing

\* Sessions that pass the quota side by side overshoot it by one message each at most,
\* less the one it was measured for: for any number of sessions and any sizes.
THEOREM OvershootIsLimited == Spec => []OvershootIsBounded
<1>1. MailInv /\ QuotaInv => OvershootIsBounded
  <2> SUFFICES ASSUME MailInv, QuotaInv, NEW n \in Names, NEW gen \in 1..MaxGeneration
               PROVE  TotalSize(n, gen) <= Bound
    BY DEF OvershootIsBounded, Bound
  <2>1. gen \in Nat /\ TypeOK
    BY DEF MailInv
  <2>2. TotalSize(n, gen) = Total(List(n, gen))
    BY DEF TotalSize, Total
  <2>3. Total(List(n, gen)) \in Nat /\ Total(Claims(n, gen)) \in Nat
    BY <2>1, ClaimsType, TotalOfOneMore
  <2>4. Total(List(n, gen)) + Total(Claims(n, gen)) <= Bound
    BY <2>1 DEF QuotaInv, QuotaHolds
  <2>. QED  BY <2>2, <2>3, <2>4, BoundType
<1>2. MailInv /\ QuotaInv /\ [Next]_vars => QuotaInv'
  BY NextQuota
<1>. QED  BY <1>1, <1>2, InitQuota, MailInvariant, PTL DEF Spec
=============================================================================
