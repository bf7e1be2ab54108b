------------------------------ MODULE MailNode ------------------------------
(***************************************************************************)
(* A node that receives mail: the SMTP handlers and permanentlyDelete of   *)
(* node/src/node.ts, the index of dal/src/indexLog.ts, the blob store of   *)
(* dal/src/storage.ts and the trash of node/src/mailbox-state.ts.          *)
(*                                                                         *)
(* JavaScript runs a handler without interruption up to its next await, so *)
(* an action is what lies between two awaits.  The node asks the registry  *)
(* through the relayer; an answer is what the registry said at some moment *)
(* between the question and the next step, and it may be out of date when  *)
(* it is used.  The registry is the abstract one, MailboxBook.             *)
(***************************************************************************)
EXTENDS Naturals, Sequences, FiniteSets, FiniteSetsExt, Functions

CONSTANTS
    OENames, EnsNames, Keys, Nodes, MaxControllers, MaxGeneration,  \* see MailboxBook
    ThisNode,       \* the key of this node
    Sessions,       \* SMTP sessions open at the same time
    Sizes,          \* sizes of sealed messages
    Cap,            \* STORAGE_CAP
    MaxRecipients,  \* recipients of one message
    MaxMails,       \* how many messages are sent to the node in all
    None            \* not asked or not answered yet

Names == OENames \cup EnsNames

ASSUME MailNodeAssumption ==
    /\ ThisNode \in Nodes
    /\ Sizes \subseteq Nat
    /\ Cap \in Nat
    /\ MaxMails \in Nat
    /\ MaxGeneration \in Nat
    /\ None \notin Nat \cup BOOLEAN \cup Names

\* What OvershootIsBounded counts is finite, and there is something to count.
ASSUME QuotaAssumption ==
    /\ IsFiniteSet(Sessions) /\ Sessions # {}
    /\ IsFiniteSet(Sizes) /\ Sizes # {}

VARIABLES
    book,           \* the registry, see MailboxBook
    sessions,       \* the SMTP sessions and what their handlers wait for
    entries,        \* the rows of the index, on disk
    nextSeq,        \* the sequence number of the next row, on disk
    pins,           \* the blobs pinned, on disk
    trashed,        \* name -> the sequence numbers flagged as trashed, on disk
    torn,           \* the files that a crash cut short: "index", "flags"
    nextMail,       \* numbers the messages; sealing is randomised, so each number
                    \* stands for a content id of its own
    answered,       \* history: the messages answered with 250
    condemned       \* history: blobs the user has trashed and not restored

disk == <<entries, nextSeq, pins, trashed, torn>>
history == <<answered, condemned>>
vars == <<book, sessions, disk, nextMail, history>>

Registry == INSTANCE MailboxBook

\* isOptedIn of the contract, for this node.
IsOpen(n) == ThisNode \in book[n].doors

Idle == [phase |-> "idle", accepted |-> <<>>, name |-> None, size |-> 0,
         answer |-> None, dek |-> None, gen |-> None, cid |-> None, open |-> FALSE]

Init ==
    /\ Registry!Init
    /\ sessions = [s \in Sessions |-> Idle]
    /\ entries = {}
    /\ nextSeq = 1
    /\ pins = {}
    /\ trashed = [n \in Names |-> {}]
    /\ torn = {}
    /\ nextMail = 1
    /\ answered = {}
    /\ condemned = {}

-----------------------------------------------------------------------------
(* The index.                                                              *)

\* list: the rows of a mailbox are those of one generation.
List(n, gen) == {e \in entries : e.name = n /\ e.generation = gen}

TotalSize(n, gen) == MapThenSumSet(LAMBDA e : e.size, List(n, gen))

NormalizeIndexGeneration(gen) == IF gen > 0 THEN gen ELSE 1

\* Mutant of Without: the numbers are not looked at.
WithoutMailbox(n, seqs) == {e \in entries : e.name # n}

\* remove: without the rows of these numbers.
Without(n, seqs) == {e \in entries : ~(e.name = n /\ e.seq \in seqs)}

\* The blobs that no remaining row refers to.
Unreferenced(n, seqs) ==
    {e.cid : e \in entries \ Without(n, seqs)} \ {e.cid : e \in Without(n, seqs)}

-----------------------------------------------------------------------------
(* What the relayer answers.  An error of the relayer reads as "not opted  *)
(* in" and as generation 1.                                                *)

Waits(s, phases) == sessions[s].phase \in phases /\ sessions[s].answer = None

AnswerOptedIn(s) ==
    /\ Waits(s, {"asking", "appending"})
    /\ \E yes \in {IsOpen(sessions[s].name), FALSE} :
           sessions' = [sessions EXCEPT ![s].answer = yes]
    /\ UNCHANGED <<book, disk, nextMail, history>>

GenerationAnswers(n) == {NormalizeIndexGeneration(book[n].epoch), 1}

AnswerGeneration(s) ==
    /\ sessions[s].phase = "measuring" /\ sessions[s].gen = None
    /\ \E gen \in GenerationAnswers(sessions[s].name) :
           sessions' = [sessions EXCEPT ![s].gen = gen]
    /\ UNCHANGED <<book, disk, nextMail, history>>

\* A DEK is named after the generation it belongs to.
AnswerRecord(s) ==
    /\ sessions[s].phase = "reading" /\ sessions[s].dek = None
    /\ book[sessions[s].name].keys # {}
    /\ sessions' = [sessions EXCEPT ![s].dek = book[sessions[s].name].epoch]
    /\ UNCHANGED <<book, disk, nextMail, history>>

AnswerRecordGeneration(s) ==
    /\ sessions[s].phase = "reading" /\ sessions[s].gen = None
    /\ \E gen \in GenerationAnswers(sessions[s].name) :
           sessions' = [sessions EXCEPT ![s].gen = gen]
    /\ UNCHANGED <<book, disk, nextMail, history>>

-----------------------------------------------------------------------------
(* onRcptTo.                                                               *)

Rcpt(s, n) ==
    /\ sessions[s].phase \in {"idle", "ready"}
    /\ n \notin Range(sessions[s].accepted)
    /\ Len(sessions[s].accepted) < MaxRecipients
    /\ sessions' = [sessions EXCEPT ![s].phase = "asking", ![s].name = n,
                                    ![s].answer = None]
    /\ UNCHANGED <<book, disk, nextMail, history>>

\* The handler is done with a recipient.
AfterRcpt(s, accepted) ==
    IF accepted = <<>> THEN Idle ELSE [Idle EXCEPT !.phase = "ready", !.accepted = accepted]

RcptOptedIn(s) ==
    /\ sessions[s].phase = "asking" /\ sessions[s].answer = TRUE
    /\ sessions' = [sessions EXCEPT ![s].phase = "measuring", ![s].answer = None]
    /\ UNCHANGED <<book, disk, nextMail, history>>

\* 550
RcptUnknown(s) ==
    /\ sessions[s].phase = "asking" /\ sessions[s].answer = FALSE
    /\ sessions' = [sessions EXCEPT ![s] = AfterRcpt(s, sessions[s].accepted)]
    /\ UNCHANGED <<book, disk, nextMail, history>>

\* 452 when the mailbox is full, else 250
RcptMeasured(s) ==
    /\ sessions[s].phase = "measuring" /\ sessions[s].gen # None
    /\ sessions' = [sessions EXCEPT ![s] =
           AfterRcpt(s, IF TotalSize(@.name, @.gen) >= Cap
                        THEN @.accepted ELSE Append(@.accepted, @.name))]
    /\ UNCHANGED <<book, disk, nextMail, history>>

-----------------------------------------------------------------------------
(* onData and ingest.                                                      *)

\* The message goes to the first of the accepted recipients.
Data(s, size) ==
    /\ sessions[s].phase = "ready"
    /\ nextMail <= MaxMails
    /\ nextMail' = nextMail + 1
    /\ sessions' = [sessions EXCEPT
           ![s].phase = "reading", ![s].size = size, ![s].cid = nextMail,
           ![s].name = Head(sessions[s].accepted)]
    /\ UNCHANGED <<book, disk, history>>

\* The reply is an error, whatever the reason.
Refuse(s) == sessions' = [sessions EXCEPT ![s] = Idle]

AlwaysFits(n, gen, size) == TRUE        \* mutant of Fits
Fits(n, gen, size) == TotalSize(n, gen) + size <= Cap

BothRead(s) == sessions[s].dek # None /\ sessions[s].gen # None

\* The message is sealed; 452 if it does not fit.
Sealed(s) ==
    LET job == sessions[s] IN
    /\ job.phase = "reading" /\ BothRead(s)
    /\ IF Fits(job.name, job.gen, job.size)
       THEN sessions' = [sessions EXCEPT ![s].phase = "pinning"]
       ELSE Refuse(s)
    /\ UNCHANGED <<book, disk, nextMail, history>>

Pin(s) ==
    /\ sessions[s].phase = "pinning"
    /\ pins' = pins \cup {sessions[s].cid}
    /\ sessions' = [sessions EXCEPT
           ![s].phase = "appending", ![s].answer = None, ![s].open = IsOpen(sessions[s].name)]
    /\ UNCHANGED <<book, entries, nextSeq, trashed, torn, nextMail, history>>

AnyAnswer(s) == sessions[s].answer # None   \* mutant of MayWrite
MayWrite(s) == sessions[s].answer = TRUE

\* append, after isOptedIn: number, push and save, the whole file at once.
Saves(s) ==
    LET job == sessions[s] IN
    /\ job.phase = "appending"
    /\ MayWrite(s)
    /\ entries' = entries \cup {[seq |-> nextSeq, name |-> job.name, generation |-> job.gen,
                                 cid |-> job.cid, size |-> job.size, dek |-> job.dek]}
    /\ nextSeq' = nextSeq + 1
    /\ UNCHANGED <<book, pins, trashed, torn, nextMail, condemned>>

\* The row is saved; 250
AppendRow(s) ==
    /\ Saves(s)
    /\ answered' = answered \cup {[to |-> Range(sessions[s].accepted), cid |-> sessions[s].cid,
                                   name |-> sessions[s].name]}
    /\ sessions' = [sessions EXCEPT ![s] = Idle]

\* Mutant of AppendRefused: the error is not passed to the SMTP callback.
AppendForgotten(s) ==
    /\ sessions[s].phase = "appending" /\ sessions[s].answer = FALSE
    /\ UNCHANGED vars

\* append: "unauthorized writer"
AppendRefused(s) ==
    /\ sessions[s].phase = "appending" /\ sessions[s].answer = FALSE
    /\ Refuse(s)
    /\ UNCHANGED <<book, disk, nextMail, history>>

\* No record or no connection: ingest throws and onData replies with an error.
IngestThrows(s) ==
    /\ \/ sessions[s].phase = "reading" /\ ~BothRead(s)
       \/ Waits(s, {"appending"})
    /\ Refuse(s)
    /\ UNCHANGED <<book, disk, nextMail, history>>

-----------------------------------------------------------------------------
(* The trash.                                                              *)

CidsOf(n, seqs) == {e.cid : e \in entries \ Without(n, seqs)}

\* /trash, and /mail-state with trashed; the client has seen the number.
Trash(n, seq) ==
    /\ trashed' = [trashed EXCEPT ![n] = @ \cup {seq}]
    /\ condemned' = condemned \cup CidsOf(n, {seq})
    /\ UNCHANGED <<book, sessions, entries, nextSeq, pins, torn, nextMail, answered>>

Restore(n, seq) ==
    /\ trashed' = [trashed EXCEPT ![n] = @ \ {seq}]
    /\ condemned' = condemned \ CidsOf(n, {seq})
    /\ UNCHANGED <<book, sessions, entries, nextSeq, pins, torn, nextMail, answered>>

\* permanentlyDelete in its order: the rows, the flags, the blobs.
ClearTrashFlags(n, seqs) == trashed' = [trashed EXCEPT ![n] = @ \ seqs]

PermanentlyDelete(n, seqs) ==
    /\ seqs # {}
    /\ entries' = Without(n, seqs)
    /\ ClearTrashFlags(n, seqs)
    /\ pins' = pins \ Unreferenced(n, seqs)
    /\ UNCHANGED <<book, sessions, nextSeq, torn, nextMail, answered, condemned>>

EmptyTrash(n) == PermanentlyDelete(n, trashed[n])

Delete(n, seq) == seq \in trashed[n] /\ PermanentlyDelete(n, {seq})

-----------------------------------------------------------------------------
(* Crashes. What is in memory only is the sessions. A file is written over *)
(* in place: a crash inside the write leaves a file that does not parse,   *)
(* and a node that does not start.                                         *)

NextSeqByCount == Cardinality(entries) + 1      \* mutant of NextSeqOnLoad
NextSeqOnLoad == nextSeq

SessionsEnd == sessions' = [s \in Sessions |-> Idle]

\* The process ends, whether it is stopped or an answer to onRcptTo fails, which
\* nothing catches. It starts again from the disk.
Crash ==
    /\ SessionsEnd
    /\ nextSeq' = NextSeqOnLoad
    /\ UNCHANGED <<book, entries, pins, trashed, torn, nextMail, history>>

\* The process ends after the row is saved and before the 250 is sent.
CrashBeforeReply(s) == Saves(s) /\ SessionsEnd /\ UNCHANGED answered

\* Mutant of CrashInDelete: the blobs are unpinned before the rows are removed.
CrashAfterUnpin(n, seqs) ==
    /\ seqs # {}
    /\ SessionsEnd
    /\ pins' = pins \ Unreferenced(n, seqs)
    /\ UNCHANGED <<book, entries, nextSeq, trashed, torn, nextMail, history>>

\* The process ends between the writes of permanentlyDelete.
CrashInDelete(n, seqs) ==
    /\ seqs # {}
    /\ SessionsEnd
    /\ entries' = Without(n, seqs)
    /\ \/ UNCHANGED <<trashed, pins>>
       \/ /\ ClearTrashFlags(n, seqs)
          /\ \E gone \in SUBSET Unreferenced(n, seqs) : pins' = pins \ gone
    /\ UNCHANGED <<book, nextSeq, torn, nextMail, answered, condemned>>

\* What permanentlyDelete may be called with.
Deletions(n) == ({trashed[n]} \cup {{seq} : seq \in trashed[n]}) \ {{}}

\* The process ends inside save(), of append or of remove: the rows of all mailboxes
\* are lost with the file, and the blobs stay.
CrashInSave ==
    /\ \/ \E s \in Sessions : sessions[s].phase = "appending" /\ MayWrite(s)
       \/ \E n \in Names : Deletions(n) # {}
    /\ SessionsEnd
    /\ entries' = {}
    /\ torn' = torn \cup {"index"}
    /\ UNCHANGED <<book, nextSeq, pins, trashed, nextMail, history>>

\* The process ends inside flush(), of trash or restore, or of clearTrashFlags when
\* permanentlyDelete has removed the rows: the flags of all mailboxes are lost.
CrashInFlush ==
    /\ \E n \in Names :
           \/ nextSeq > 1 /\ UNCHANGED entries
           \/ \E seqs \in Deletions(n) : entries' = Without(n, seqs)
    /\ SessionsEnd
    /\ trashed' = [n \in Names |-> {}]
    /\ torn' = torn \cup {"flags"}
    /\ UNCHANGED <<book, nextSeq, pins, nextMail, history>>

-----------------------------------------------------------------------------
\* The registry goes on; open remembers that the node was opted in since the pin.
RegistryStep ==
    /\ Registry!Next
    /\ sessions' = [s \in Sessions |->
           IF sessions[s].phase = "appending"
           THEN [sessions[s] EXCEPT !.open = @ \/ ThisNode \in book'[sessions[s].name].doors]
           ELSE sessions[s]]
    /\ UNCHANGED <<disk, nextMail, history>>

Answer(s) ==
    \/ AnswerOptedIn(s) \/ AnswerGeneration(s)
    \/ AnswerRecord(s) \/ AnswerRecordGeneration(s) \/ IngestThrows(s)

Continue(s) ==
    \/ RcptOptedIn(s) \/ RcptUnknown(s) \/ RcptMeasured(s)
    \/ Sealed(s) \/ Pin(s) \/ AppendRow(s) \/ AppendRefused(s)

Arrive(s) == (\E n \in Names : Rcpt(s, n)) \/ (\E size \in Sizes : Data(s, size))

TrashStep ==
    \E n \in Names :
        \/ \E seq \in 1..nextSeq - 1 : Trash(n, seq) \/ Restore(n, seq) \/ Delete(n, seq)
        \/ EmptyTrash(n)

CrashStep ==
    \/ Crash \/ CrashInSave \/ CrashInFlush
    \/ \E n \in Names : \E seqs \in Deletions(n) : CrashInDelete(n, seqs)

NodeStep ==
    \/ \E s \in Sessions : Arrive(s) \/ Answer(s) \/ Continue(s) \/ CrashBeforeReply(s)
    \/ TrashStep
    \/ CrashStep

\* A node with a torn file throws when it loads it, and does not start.
Next == (torn = {} /\ NodeStep) \/ RegistryStep

Spec == Init /\ [][Next]_vars

\* The node's event loop and the relayer go on: a question is answered or fails.
FairSpec == Spec /\ \A s \in Sessions : WF_vars(Answer(s)) /\ WF_vars(Continue(s))
-----------------------------------------------------------------------------
(* Properties.                                                             *)

Rows == [seq : Nat, name : Names, generation : Nat, cid : Nat, size : Nat, dek : Nat]

Phases == {"idle", "asking", "measuring", "ready", "reading", "pinning", "appending"}

Answers == BOOLEAN \cup {None}

Jobs ==
    [phase : Phases, accepted : Seq(Names), name : Names \cup {None}, size : Nat,
     answer : Answers, dek : Nat \cup {None}, gen : Nat \cup {None},
     cid : Nat \cup {None}, open : BOOLEAN]

\* The disk and the handlers hold what their TypeScript types say: no row is
\* written with a value that was not answered yet.
TypeOK ==
    /\ book \in [Names -> [epoch : Nat, keys : SUBSET Keys, doors : SUBSET Nodes]]
    /\ sessions \in [Sessions -> Jobs]
    /\ entries \subseteq Rows
    /\ nextSeq \in Nat /\ nextMail \in Nat
    /\ pins \subseteq Nat
    /\ trashed \in [Names -> SUBSET Nat]
    /\ torn \subseteq {"index", "flags"}

\* Every row that is listed can be opened: its blob is pinned, whatever is
\* deleted and wherever a deletion is cut short.
NoDanglingRow == \A e \in entries : e.cid \in pins

\* Messages have numbers and blobs of their own, none ahead of the counters.
RowsAreDistinct ==
    /\ \A e \in entries : e.seq < nextSeq /\ e.cid < nextMail
    /\ \A e, f \in entries : e # f => e.seq # f.seq /\ e.cid # f.cid

\* A message that was answered with 250 keeps its blob and its row in the index of
\* the mailbox it was ingested for until the holder trashes it: through crashes
\* between the writes, restarts, deletions of other rows that are cut short, and flags
\* that outlive the rows they condemned. One crash is too much for the rows, that
\* inside the rewrite of index.json: it takes those of every mailbox at once, the
\* node does not start again, and what is left of the mail is the blobs.
AnsweredMailIsKept ==
    \A a \in answered : a.cid \notin condemned =>
        /\ a.cid \in pins
        /\ "index" \in torn \/ \E e \in entries : e.cid = a.cid /\ e.name = a.name

\* Sessions that pass the quota together overshoot it together, but by no more
\* than one message each, less the one the quota was measured for.
OvershootIsBounded ==
    \A n \in Names, gen \in 1..MaxGeneration : \A max \in {Max(Sizes)} :
        TotalSize(n, gen) <= Cap + (Cardinality(Sessions) - 1) * max

\* A message is indexed only if the node was opted in at some moment after it was
\* pinned: an opt-out that the registry applied before stops it.
OptOutStopsIndexing ==
    [][\A s \in Sessions : AppendRow(s) \/ CrashBeforeReply(s) => sessions[s].open]_vars

\* Every recipient and every message gets its reply.
SessionsAreAnswered ==
    \A s \in Sessions :
        sessions[s].phase \notin {"idle", "ready"} ~> sessions[s].phase \in {"idle", "ready"}
=============================================================================
