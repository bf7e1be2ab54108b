------------------------------ MODULE Outbound ------------------------------
(***************************************************************************)
(* Mail that leaves the node: the composer of the web client with its      *)
(* uploads, the staging directory of compose-attachments.ts, POST /send,   *)
(* the SMTP submission of mail for other domains, the rate limit, the copy *)
(* in the sender's mailbox and the SMTP dialog with the recipient's host.  *)
(* One mailbox: limits and files are per name.                             *)
(*                                                                         *)
(* The node may crash between any two steps and inside a write to the      *)
(* directory; hits and calls are lost, files and copies stay.  The host of *)
(* the recipient refuses, breaks the connection at any point, or closes it *)
(* without a word, which no handler of smtpSend.ts notices.                *)
(***************************************************************************)
EXTENDS Naturals, FiniteSets

CONSTANTS
    Jobs,           \* messages on their way: calls of /send and SMTP submissions
    Files,          \* files the user picks; every pick gets an id of its own
    HourMax, DayMax,        \* the limits of takeSendSlot
    Hour, Day, Ttl,         \* the windows, and the life of a staged file
    StageMax,               \* files that fit in the staging directory (all of one size)
    MaxTime, MaxCrashes,    \* bounds of the model
    None

ASSUME OutboundAssumption ==
    /\ {HourMax, DayMax, Hour, Day, Ttl, StageMax, MaxTime, MaxCrashes} \subseteq Nat
    /\ Hour <= Day
    /\ None \notin Jobs

VARIABLES
    now,            \* the clock
    life,           \* crashes so far
    hits,           \* the list of createHitWindow
    accepted,       \* every hit that was granted since the node started
    metas, torn,    \* <id>.json whole, and cut off in the middle
    bins,           \* <id>.bin
    stagedAt,       \* createdAt of an id
    jobs,           \* the messages
    copies,         \* messages with a row in the mailbox of the sender
    delivered,      \* messages that the recipient's host took
    form            \* the composer

clock == <<now, life>>
limits == <<hits, accepted>>
disk == <<metas, torn, bins, stagedAt>>
mail == <<jobs, copies, delivered>>
vars == <<clock, limits, disk, mail, form>>

NoJob == [phase |-> "idle", kind |-> "none", asked |-> {}, taken |-> {}, answer |-> "none"]
NoForm == [open |-> FALSE, list |-> {}, todo |-> {}, next |-> {}, sending |-> None,
           orphaned |-> FALSE]

Init ==
    /\ now = 0 /\ life = 0
    /\ hits = {} /\ accepted = {}
    /\ metas = {} /\ torn = {} /\ bins = {} /\ stagedAt = [f \in Files |-> 0]
    /\ jobs = [j \in Jobs |-> NoJob] /\ copies = {} /\ delivered = {}
    /\ form = NoForm

Tick == now < MaxTime /\ now' = now + 1 /\ UNCHANGED <<life, limits, disk, mail, form>>

-----------------------------------------------------------------------------
(* rateLimit.ts.  A hit is [job, at]; the list forgets what is a day old.  *)

DayHits == {h \in hits : h.at + Day > now}
HourHits == {h \in DayHits : h.at + Hour > now}
SlotIsFree == Cardinality(HourHits) < HourMax /\ Cardinality(DayHits) < DayMax

TakeSlotByHourOnly(j) ==       \* mutant of TakeSlot: the day is not counted
    /\ Cardinality(HourHits) < HourMax
    /\ hits' = HourHits \cup {[job |-> j, at |-> now]}
    /\ accepted' = accepted \cup {[job |-> j, at |-> now]}

TakeSlot(j) ==
    /\ SlotIsFree
    /\ hits' = DayHits \cup {[job |-> j, at |-> now]}
    /\ accepted' = accepted \cup {[job |-> j, at |-> now]}

RefuseSlot == ~SlotIsFree /\ hits' = DayHits /\ UNCHANGED accepted

-----------------------------------------------------------------------------
(* compose-attachments.ts: the staging directory.                          *)

Expired == {f \in metas : now > stagedAt[f] + Ttl}

\* stagedBytesFor, as put compares it: the files in the directory after a purge.
RoomForOne == Cardinality(metas \ Expired) < StageMax

\* put: purge, check the room, write the bytes, then the meta file. A torn meta
\* file of anybody makes purge throw, and with it every upload. The caller gives
\* what the body of the request came to: cut says that the node crashed in the write.
Put(f, cut) ==
    /\ torn = {}
    /\ RoomForOne
    /\ bins' = (bins \ Expired) \cup {f}
    /\ metas' = (metas \ Expired) \cup (IF cut = "no" THEN {f} ELSE {})
    /\ torn' = IF cut = "meta" THEN {f} ELSE {}
    /\ stagedAt' = [stagedAt EXCEPT ![f] = now]

Purge ==
    /\ torn = {}
    /\ metas' = metas \ Expired /\ bins' = bins \ Expired
    /\ UNCHANGED <<torn, stagedAt>>

\* Mutant of Drop: the bytes go first.
DropBytesFirst(gone, left) ==
    /\ bins' = bins \ gone /\ metas' = metas \ (gone \ left)
    /\ UNCHANGED <<torn, stagedAt>>

\* drop: the meta file first, then the bytes; left is what a crash saves from it.
Drop(gone, left) ==
    /\ metas' = metas \ gone /\ bins' = bins \ (gone \ left)
    /\ UNCHANGED <<torn, stagedAt>>

-----------------------------------------------------------------------------
(* The composer: ComposeModal.tsx, openCompose, send and onClose of        *)
(* InboxPage.tsx.                                                          *)

Uploading == form.todo # {}

\* DELETE /compose-attachment, for each of a set of files; those that are gone are 404.
Delete(fs) == Drop(fs \cap metas, {})

\* Nobody looks at the answers, or repeats a call that failed.
Discard(fs) == \E reached \in SUBSET fs : Delete(reached)

\* lookupWkdPublicKey tries three places: one that refuses, breaks or has no key for
\* the recipient is passed over, so "none" may be the answer for one who has a key.
WkdAnswers == {"key", "none"}

\* encryptForOpenPgp: the whole message, with the files the client has kept.
EncryptForOpenPgp(files) == [NoJob EXCEPT !.phase = "checking", !.kind = "sealed", !.asked = files]

OpenCompose ==
    /\ ~form.open
    /\ form' = [form EXCEPT !.open = TRUE, !.list = {}, !.orphaned = Uploading]
    /\ UNCHANGED <<clock, limits, disk, mail>>

\* addFiles starts from the list of this moment and uploads one file after the other.
AddFiles(chosen) ==
    /\ form.open /\ ~Uploading /\ form.sending = None
    /\ chosen \cap (bins \cup metas \cup torn \cup form.list) = {}    \* new ids
    /\ form' = [form EXCEPT !.todo = chosen, !.next = form.list]
    /\ UNCHANGED <<clock, limits, disk, mail>>

\* POST /compose-attachment.
Upload(f) ==
    /\ f \in form.todo \ (metas \cup bins)
    /\ Put(f, "no")
    /\ UNCHANGED <<clock, limits, mail, form>>

\* Its answer; after the last one the list becomes what addFiles has collected.
Uploaded(f) ==
    /\ f \in form.todo \cap metas
    /\ form' = IF form.todo = {f}
               THEN [form EXCEPT !.todo = {}, !.next = {}, !.list = form.next \cup {f}]
               ELSE [form EXCEPT !.todo = @ \ {f}, !.next = @ \cup {f}]
    /\ UNCHANGED <<clock, limits, disk, mail>>

\* An upload was refused, failed or lost its answer: what this addFiles has
\* uploaded stays on disk and on no list.
UploadFails ==
    /\ Uploading
    /\ form' = [form EXCEPT !.todo = {}, !.next = {}]
    /\ Purge \/ UNCHANGED disk
    /\ UNCHANGED <<clock, limits, mail>>

RemoveAnyTime(f) ==             \* mutant of Remove: the button works during an upload
    /\ form.open /\ form.sending = None
    /\ f \in form.list
    /\ form' = [form EXCEPT !.list = @ \ {f}]
    /\ Discard({f})
    /\ UNCHANGED <<clock, limits, mail>>

Remove(f) ==
    /\ form.open /\ ~Uploading /\ form.sending = None
    /\ f \in form.list
    /\ form' = [form EXCEPT !.list = @ \ {f}]
    /\ Discard({f})
    /\ UNCHANGED <<clock, limits, mail>>

\* onClose: the upload under way goes on, for a composer that is closed.
Close ==
    /\ form.open
    /\ form' = [form EXCEPT !.open = FALSE, !.list = {}, !.orphaned = Uploading]
    /\ Discard(form.list)
    /\ UNCHANGED <<clock, limits, mail>>

\* send has emptied the form when no Turnstile token comes in time: an error, the
\* message is lost and its files stay on disk.
NoTurnstile ==
    /\ form.open /\ ~Uploading /\ form.sending = None
    /\ form' = [form EXCEPT !.open = FALSE, !.list = {}]
    /\ UNCHANGED <<clock, limits, disk, mail>>

\* send empties the form, then looks up the key of the recipient once more, whatever the
\* composer said of it: with one the client encrypts the files it has kept, without one
\* it names their ids.
Send(j) ==
    /\ form.open /\ ~Uploading /\ form.sending = None
    /\ jobs[j].phase = "idle"
    /\ \E answer \in WkdAnswers :
           jobs' = [jobs EXCEPT ![j] =
               IF answer = "key" THEN EncryptForOpenPgp(form.list)
               ELSE [NoJob EXCEPT !.phase = "checking", !.kind = "staged", !.asked = form.list]]
    /\ form' = [form EXCEPT !.open = FALSE, !.list = {}, !.sending = j]
    /\ UNCHANGED <<clock, limits, disk, copies, delivered>>

\* The answer, or the error of a call that broke: success deletes the files of the
\* message and empties the form once more; after a failure nothing is left of it.
SendAnswered ==
    /\ form.sending # None
    /\ LET job == jobs[form.sending] IN
       /\ job.phase \in {"answered", "gone"}
       /\ form' = [form EXCEPT !.sending = None,
                               !.list = IF job.answer = "ok" THEN {} ELSE @]
       /\ Discard(IF job.answer = "ok" THEN job.asked ELSE {})
    /\ UNCHANGED <<clock, limits, mail>>

-----------------------------------------------------------------------------
(* POST /send and the SMTP submission, up to the first await after the     *)
(* slot was taken.                                                         *)

\* A call that is over without success: of its record only that is kept.
Over(phase, what) == [NoJob EXCEPT !.phase = phase, !.answer = what]
Answer(j, what) == [jobs EXCEPT ![j] = Over("answered", what)]

\* RCPT TO of another domain, from a mailbox of this node.
Submit(j) ==
    /\ jobs[j].phase = "idle"
    /\ jobs' = [jobs EXCEPT ![j].phase = "checking", ![j].kind = "smtp"]
    /\ UNCHANGED <<clock, limits, disk, copies, delivered, form>>

\* Turnstile, a field or the opt-in: 403, 400, 550.
Refuse(j) ==
    /\ jobs[j].phase = "checking"
    /\ jobs' = Answer(j, "refused")
    /\ UNCHANGED <<clock, limits, disk, copies, delivered, form>>

\* 429 or 452.
RateLimited(j) ==
    /\ jobs[j].phase = "checking"
    /\ RefuseSlot
    /\ jobs' = Answer(j, "rate")
    /\ UNCHANGED <<clock, disk, copies, delivered, form>>

Readable(j) == jobs[j].kind = "staged" => jobs[j].asked \subseteq metas \cap bins

TakeAsManyAsThereAre(j) ==     \* mutant of Accept: a file that is missing is left out
    /\ jobs[j].phase = "checking"
    /\ TakeSlot(j)
    /\ LET own == jobs[j].asked \cap metas \cap bins IN
       /\ Drop(own, {})
       /\ jobs' = [jobs EXCEPT ![j].phase = "storing", ![j].taken = own]
    /\ UNCHANGED <<clock, copies, delivered, form>>

\* The slot, then take: the files leave the directory before anything is stored.
Accept(j) ==
    /\ jobs[j].phase = "checking"
    /\ TakeSlot(j)
    /\ Readable(j)
    /\ IF jobs[j].kind = "staged" THEN Drop(jobs[j].asked, {}) ELSE UNCHANGED disk
    /\ jobs' = [jobs EXCEPT ![j].phase = "storing", ![j].taken = jobs[j].asked]
    /\ UNCHANGED <<clock, copies, delivered, form>>

\* take throws at an id it cannot read, after it has dropped those before it.
InvalidAttachment(j) ==
    /\ jobs[j].phase = "checking"
    /\ TakeSlot(j)
    /\ ~Readable(j)
    /\ \E before \in SUBSET (jobs[j].asked \cap metas \cap bins) : Drop(before, {})
    /\ jobs' = Answer(j, "attachment")
    /\ UNCHANGED <<clock, copies, delivered, form>>

-----------------------------------------------------------------------------
(* The copy, then the dialog with the recipient's host.                    *)

\* ingest stores the copy, or the mailbox is full or the storage fails.
Store(j) ==
    /\ jobs[j].phase = "storing"
    /\ \/ jobs' = [jobs EXCEPT ![j].phase = "dialog"] /\ copies' = copies \cup {j}
       \/ jobs' = Answer(j, "storage") /\ UNCHANGED copies
    /\ UNCHANGED <<clock, limits, disk, delivered, form>>

\* The host answers the dot: it has the message, we do not know yet.
HostTakes(j) ==
    /\ jobs[j].phase = "dialog"
    /\ jobs' = [jobs EXCEPT ![j].phase = "taken"]
    /\ delivered' = delivered \cup {j}
    /\ UNCHANGED <<clock, limits, disk, copies, form>>

AfterQuit(j) ==
    IF jobs[j].answer = "ok" THEN [jobs EXCEPT ![j].phase = "answered"]
    ELSE Answer(j, jobs[j].answer)

\* A code of 400 or more to RCPT or to the data, or 250; then QUIT.
HostReplies(j) ==
    /\ \/ jobs[j].phase = "dialog"
          /\ jobs' = [jobs EXCEPT ![j].phase = "quitting", ![j].answer = "delivery"]
       \/ jobs[j].phase = "taken"
          /\ jobs' = [jobs EXCEPT ![j].phase = "quitting", ![j].answer = "ok"]
       \/ jobs[j].phase = "quitting"
          /\ jobs' = AfterQuit(j)
    /\ UNCHANGED <<clock, limits, disk, copies, delivered, form>>

\* An error event or another code than the one wanted: sendSmtp throws, but an
\* error after QUIT is caught.
HostBreaks(j) ==
    /\ \/ jobs[j].phase \in {"dialog", "taken"} /\ jobs' = Answer(j, "delivery")
       \/ jobs[j].phase = "quitting" /\ jobs' = AfterQuit(j)
    /\ UNCHANGED <<clock, limits, disk, copies, delivered, form>>

\* The host closes, or says no more: readReply has no timeout and no close handler.
HostFallsSilent(j) ==
    /\ jobs[j].phase \in {"dialog", "taken", "quitting"}
    /\ jobs' = [jobs EXCEPT ![j] = Over("hanging", "none")]
    /\ UNCHANGED <<clock, limits, disk, copies, delivered, form>>

-----------------------------------------------------------------------------
(* A crash, perhaps in the middle of put, or of remove, take or purge, which *)
(* drop files that are on the composer's list no more.                     *)

UnderWay == {j \in Jobs : jobs[j].phase \notin {"idle", "answered"}}

CutShort ==
    \/ \E f \in form.todo \ (metas \cup bins), cut \in {"bytes", "meta"} : Put(f, cut)
    \/ \E f \in metas \ (form.list \cup form.next) : Drop({f}, {f})

Crash ==
    /\ life < MaxCrashes /\ life' = life + 1
    /\ hits' = {} /\ accepted' = {}
    /\ jobs' = [j \in Jobs |-> IF j \in UnderWay THEN Over("gone", "none")
                                               ELSE jobs[j]]
    /\ CutShort \/ UNCHANGED disk
    /\ UNCHANGED <<now, copies, delivered, form>>

-----------------------------------------------------------------------------
Compose ==
    \/ OpenCompose \/ Close \/ UploadFails \/ NoTurnstile \/ SendAnswered
    \/ \E chosen \in SUBSET Files \ {{}} : AddFiles(chosen)
    \/ \E f \in Files : Upload(f) \/ Uploaded(f) \/ Remove(f)
    \/ \E j \in Jobs : Send(j)

Process(j) == Refuse(j) \/ RateLimited(j) \/ Accept(j) \/ InvalidAttachment(j) \/ Store(j)
Host(j) == HostTakes(j) \/ HostReplies(j) \/ HostBreaks(j) \/ HostFallsSilent(j)

Next ==
    \/ Tick \/ Crash \/ Compose
    \/ \E j \in Jobs : Submit(j) \/ Process(j) \/ Host(j)

Spec == Init /\ [][Next]_vars

-----------------------------------------------------------------------------
(* Properties.                                                             *)

Phases == {"idle", "checking", "storing", "dialog", "taken", "quitting", "hanging",
           "answered", "gone"}
Answers == {"none", "ok", "refused", "rate", "attachment", "storage", "delivery"}
JobRecords == [phase : Phases, kind : {"none", "staged", "sealed", "smtp"},
               asked : SUBSET Files, taken : SUBSET Files, answer : Answers]
Forms == [open : BOOLEAN, list : SUBSET Files, todo : SUBSET Files, next : SUBSET Files,
          sending : Jobs \cup {None}, orphaned : BOOLEAN]

\* The type invariant.
TypeOK ==
    /\ now \in Nat /\ life \in Nat
    /\ hits \subseteq [job : Jobs, at : Nat]
    /\ accepted \subseteq [job : Jobs, at : Nat]
    /\ metas \subseteq Files /\ torn \subseteq Files /\ bins \subseteq Files
    /\ stagedAt \in [Files -> Nat]
    /\ jobs \in [Jobs -> JobRecords]
    /\ copies \subseteq Jobs /\ delivered \subseteq Jobs
    /\ form \in Forms

Granted(t, width) == {a \in accepted : a.at <= t /\ t < a.at + width}

\* takeSendSlot lets no hour and no day, wherever it begins, see more messages
\* than the limits, as long as the process lives.
RateHolds ==
    \A t \in 0..now :
        /\ Cardinality(Granted(t, Hour)) <= HourMax
        /\ Cardinality(Granted(t, Day)) <= DayMax

\* The meta file of an attachment is written last and removed first: one that is
\* there has its bytes, whatever crash happened, so take reads what put wrote.
MetaImpliesBytes == metas \cup torn \subseteq bins

\* A call that was told 200 delivered its message, with all the files that the
\* user attached; and no message reaches a host without the sender's copy.
SentAsAsked ==
    /\ \A j \in Jobs : jobs[j].phase = "answered" /\ jobs[j].answer = "ok" =>
           j \in delivered /\ jobs[j].taken = jobs[j].asked
    /\ delivered \subseteq copies

\* A file that the composer lists can still be sent: it is staged, unless it has
\* expired or the composer was closed under the upload that made the list.
ListedIsStaged ==
    form.open /\ ~form.orphaned =>
        \A f \in form.list : f \in metas \/ now > stagedAt[f] + Ttl
=============================================================================
