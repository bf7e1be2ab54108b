----------------------------- MODULE WebMailbox -----------------------------
(***************************************************************************)
(* One mailbox in several tabs: InboxPage.tsx with lib/mail.ts and         *)
(* use-pending-action.ts, and what they talk to, the mail handlers of      *)
(* node.ts and the flags of mailbox-state.ts.                              *)
(*                                                                         *)
(* A tab shows a copy of what the node had when the copy was asked for.    *)
(* reloadCore ends by writing to the session, each write makes a new       *)
(* session, and the effect that depends on it reloads again: so a tab      *)
(* reloads for ever, and every action of the user adds a loop of its own.  *)
(* The answers of these loops overtake each other, and the requests of     *)
(* the user, which go out at any time, may be lost or lose their answers.  *)
(*                                                                         *)
(* The holder of the mailbox does not change here; MailNode has the rows   *)
(* and blobs in detail, with generations, quota and crashes.               *)
(***************************************************************************)
EXTENDS Naturals, FiniteSets

CONSTANTS
    Tabs,
    MaxMails,       \* bound: messages that arrive
    MaxActs,        \* bound: what users do, over all tabs
    MaxReloads      \* bound: calls of reloadCore at the same time, over all tabs

ASSUME WebMailboxAssumption == {MaxMails, MaxActs} \subseteq Nat /\ MaxReloads \in Nat \ {0}

VARIABLES
    rows,           \* the numbers in the index
    flags,          \* mailbox-state: what is set for a number
    arrived,        \* messages so far
    shown,          \* mails of each tab: what the list shows
    failed,         \* what became of the error of each tab's last failed reload
    reloads,        \* the calls of reloadCore of each tab
    job,            \* the action under the key "mail" of each tab
    opening,        \* the calls of markOpened on their way
    acts,           \* what users did so far
    unwanted        \* history: what the user wants to be rid of

node == <<rows, flags, arrived>>
tab == <<shown, failed, reloads>>
keyed == <<job, acts>>
mailboxVars == <<node, tab, keyed, opening, unwanted>>

Seqs == 1..MaxMails
Flags == {"read", "trashed"}       \* a label, a star or a folder is like "read"
Calls == 1..2

\* mergeRow: a row with its flags.
MergeRow(s) == [seq |-> s, flags |-> flags[s]]

\* GET /index: the rows with their flags.
Listing == {MergeRow(s) : s \in rows}

\* A message in a list: its row, and whether it was decrypted.
Mail(row, opened) == [seq |-> row.seq, flags |-> row.flags, opened |-> opened]
RowOf(mail) == [seq |-> mail.seq, flags |-> mail.flags]

NoReload == [step |-> "none", copy |-> {}, key |-> "none"]
NoJob == [op |-> "none", seqs |-> {}, set |-> {}, clear |-> {}]

MailboxInit ==
    /\ arrived \in 0..MaxMails /\ rows = 1..arrived
    /\ unwanted \in SUBSET rows
    /\ flags = [s \in Seqs |-> IF s \in unwanted THEN {"trashed"} ELSE {}]
    /\ shown = [t \in Tabs |-> {Mail(row, TRUE) : row \in Listing}]
    /\ failed = [t \in Tabs |-> "no"]
    /\ reloads = [t \in Tabs |-> [i \in Calls |->
                     IF i = 1 THEN [NoReload EXCEPT !.step = "list"] ELSE NoReload]]
    /\ job = [t \in Tabs |-> NoJob]
    /\ opening = [t \in Tabs |-> {}]
    /\ acts = 0

-----------------------------------------------------------------------------
(* The node.                                                               *)

\* POST /mail-state names every flag; those the request leaves out it sets to
\* undefined, and the spread of patchOne lets undefined overwrite: one flag is set or
\* cleared, and all the others are lost.
Patched(f, set, clear) == set

Patch(seqs, set, clear) ==
    flags' = [s \in Seqs |-> IF s \in seqs THEN Patched(flags[s], set, clear) ELSE flags[s]]

InTrash == {s \in Seqs : "trashed" \in flags[s]}

\* permanentlyDelete: the rows, then the flag; other flags stay behind.
PermanentlyDelete(seqs) ==
    /\ rows' = rows \ seqs
    /\ flags' = [s \in Seqs |-> IF s \in seqs THEN flags[s] \ {"trashed"} ELSE flags[s]]

Arrive ==
    /\ arrived < MaxMails
    /\ arrived' = arrived + 1
    /\ rows' = rows \cup {arrived + 1}
    /\ UNCHANGED <<flags, tab, keyed, opening, unwanted>>

-----------------------------------------------------------------------------
(* reloadCore.                                                             *)

\* A call starts: loadError is cleared. key: the key of the action it ends.
Reloading(t, i, key) ==
    /\ reloads' = [reloads EXCEPT ![t][i] = [NoReload EXCEPT !.step = "list", !.key = key]]
    /\ failed' = [failed EXCEPT ![t] = "no"]

StartReload(t, key) ==
    /\ Cardinality({c \in Tabs \X Calls : reloads[c[1]][c[2]].step # "none"}) < MaxReloads
    /\ \E i \in Calls :
        /\ reloads[t][i].step = "none"
        /\ \A h \in 1..i-1 : reloads[t][h].step # "none"
        /\ Reloading(t, i, key)

FetchIndex(t, i) ==
    /\ reloads[t][i].step = "list"
    /\ reloads' = [reloads EXCEPT ![t][i].step = "show", ![t][i].copy = Listing]
    /\ UNCHANGED <<node, shown, failed, keyed, opening, unwanted>>

\* GET /blobs/: of rows that are there now, whatever the list of the tab says.
Blob(q) == q \in rows

\* decryptRows: a row whose blob is gone stays on the list, as a message that could
\* not be decrypted (so does one whose request fails, which is left out).
DecryptRows(listed) == {Mail(row, Blob(row.seq)) : row \in listed}

\* The calls that end an action under the key "mail": onRestore is told from the others
\* because it catches nothing.
MailKeys == {"mail", "restore"}

FreeKey(t, i) ==
    job' = IF reloads[t][i].key \in MailKeys THEN [job EXCEPT ![t] = NoJob] ELSE job

ShowOnce(t, i) ==               \* mutant of ShowMails: the effect does not run again
    /\ reloads[t][i].step = "show"
    /\ shown' = [shown EXCEPT ![t] = DecryptRows(reloads[t][i].copy)]
    /\ reloads' = [reloads EXCEPT ![t][i] = NoReload]
    /\ FreeKey(t, i)
    /\ UNCHANGED <<node, failed, acts, opening, unwanted>>

\* setMails, and onSessionUpdate when labels, storage and registry have answered: a
\* new session, therefore a new reloadCore, therefore the effect runs again.
ShowMails(t, i) ==
    /\ reloads[t][i].step = "show"
    /\ shown' = [shown EXCEPT ![t] = DecryptRows(reloads[t][i].copy)]
    /\ Reloading(t, i, "none")
    /\ FreeKey(t, i)
    /\ UNCHANGED <<node, acts, opening, unwanted>>

\* The error of a call stays until the user goes on, except after a restore, which has
\* no catch, and after a message was sent, when it goes away by itself.
Quiet == {"restore", "send"}

\* A request fails and the loop ends. An error that stands there already stays.
ReloadFails(t, i) ==
    /\ reloads[t][i].step # "none"
    /\ reloads' = [reloads EXCEPT ![t][i] = NoReload]
    /\ failed' = [failed EXCEPT ![t] =
                      IF reloads[t][i].key \in Quiet /\ @ # "shown" THEN "lost" ELSE "shown"]
    /\ FreeKey(t, i)
    /\ UNCHANGED <<node, shown, acts, opening, unwanted>>

Reload(t, i) == FetchIndex(t, i) \/ ShowMails(t, i) \/ ReloadFails(t, i)

-----------------------------------------------------------------------------
(* Actions under the key "mail": another one is ignored meanwhile.         *)

\* mailInFolder: the trash has what is flagged, the other folders what is not.
InFolder(m, trash) == ("trashed" \in m.flags) = trash

\* What the list of a folder shows.
Folder(t, trash) == {m.seq : m \in {r \in shown[t] : InFolder(r, trash)}}

\* targetSeqs: the messages that are ticked, or the one that is open.
Targets(t, trash) == SUBSET Folder(t, trash) \ {{}}

\* The restores the node has had are not undone by an older wish.
Wanted(seqs) ==
    unwanted' = unwanted \ {s \in seqs : \A t \in Tabs :
                               ~(job[t].op = "patch" /\ s \in job[t].seqs /\ "trashed" \in job[t].set)}

Click(t, op, seqs, set, clear) ==
    /\ job[t].op = "none" /\ acts < MaxActs /\ acts' = acts + 1
    /\ job' = [job EXCEPT ![t] = [op |-> op, seqs |-> seqs, set |-> set, clear |-> clear]]
    /\ UNCHANGED <<node, tab, opening>>

\* patchSeqs, for one flag.
PatchSeqs(t, seqs, f, on) ==
    Click(t, "patch", seqs, IF on THEN {f} ELSE {}, IF on THEN {} ELSE {f})

\* Read or unread, labels, back to the inbox, to the trash.
ClickPatch(t) ==
    /\ \E trash \in BOOLEAN, f \in Flags, on \in BOOLEAN :
        \E seqs \in Targets(t, trash) :
           /\ f = "trashed" => trash # on
           /\ PatchSeqs(t, seqs, f, on)
           /\ unwanted' = IF f = "trashed" /\ on THEN unwanted \cup seqs ELSE unwanted

\* moveToTrash in the trash: permanentDeleteSeqs.
ClickDelete(t) ==
    /\ \E seqs \in Targets(t, TRUE) : Click(t, "delete", seqs, {}, {})
    /\ UNCHANGED unwanted

ClickDeleteAll(t) == Click(t, "empty", Seqs, {}, {}) /\ UNCHANGED unwanted

ClickRestore(t) ==
    /\ \E s \in Folder(t, TRUE) : Click(t, "restore", {s}, {}, {"trashed"})
    /\ UNCHANGED unwanted

ReloadAfterJob(t) ==
    /\ StartReload(t, IF job[t].op = "restore" THEN "restore" ELSE "mail")
    /\ job' = [job EXCEPT ![t] = [NoJob EXCEPT !.op = "reload"]]
    /\ UNCHANGED <<arrived, shown, acts, opening>>

\* The answer, or the request before it, is lost: an error, and no reload.
JobFails(t) ==
    /\ job[t].op \in {"patch", "delete", "empty", "restore"}
    /\ job' = [job EXCEPT ![t] = NoJob]
    /\ UNCHANGED <<arrived, tab, acts, opening>>

Answered(t) == ReloadAfterJob(t) \/ JobFails(t)

RequestLost(t) == JobFails(t) /\ UNCHANGED <<rows, flags, unwanted>>

DoPatch(t) ==
    /\ job[t].op = "patch"
    /\ Patch(job[t].seqs, job[t].set, job[t].clear)
    /\ IF "trashed" \in job[t].clear THEN Wanted(job[t].seqs) ELSE UNCHANGED unwanted
    /\ UNCHANGED rows /\ Answered(t)

\* restoreMail; an answer that is an error counts as success.
DoRestore(t) ==
    /\ job[t].op = "restore"
    /\ \/ /\ flags' = [s \in Seqs |-> flags[s] \ (IF s \in job[t].seqs THEN {"trashed"} ELSE {})]
          /\ Wanted(job[t].seqs)
       \/ UNCHANGED <<flags, unwanted>>
    /\ UNCHANGED rows /\ Answered(t)

DoDeleteAll(t) ==
    /\ job[t].op = "empty"
    /\ PermanentlyDelete(InTrash)
    /\ UNCHANGED unwanted /\ Answered(t)

DeletesUnasked(t, s) ==         \* mutant of DoDelete: the node trusts the list of the tab
    /\ job[t].op = "delete" /\ s \in job[t].seqs
    /\ PermanentlyDelete({s})
    /\ UNCHANGED unwanted /\ Answered(t)

\* POST /delete.
DeleteOne(s) == s \in InTrash /\ PermanentlyDelete({s})

\* permanentDeleteSeqs: one number after the other; "not in trash" ends the loop.
DoDelete(t, s) ==
    /\ job[t].op = "delete" /\ s \in job[t].seqs
    /\ UNCHANGED unwanted
    /\ \/ /\ s \notin InTrash /\ JobFails(t) /\ UNCHANGED <<rows, flags>>
       \/ /\ DeleteOne(s)
          /\ \/ JobFails(t)
             \/ job[t].seqs = {s} /\ ReloadAfterJob(t)
             \/ /\ job[t].seqs # {s} /\ job' = [job EXCEPT ![t].seqs = @ \ {s}]
                /\ UNCHANGED <<arrived, tab, acts, opening>>

-----------------------------------------------------------------------------
(* What has no key, or another one.                                        *)

\* The button, and a message that was sent (Outbound has what comes before).
ClickReload(t) ==
    /\ acts < MaxActs /\ acts' = acts + 1
    /\ \E key \in {"reload", "send"} :
        /\ \A i \in Calls : reloads[t][i].key # key
        /\ StartReload(t, key)
    /\ UNCHANGED <<node, shown, job, opening, unwanted>>

Unread(m) == m.flags \cap {"read", "trashed"} = {}

\* markOpened: the message that is open, once it is shown as unread.
MarkOpened(t, s) ==
    /\ s \notin opening[t]
    /\ \E m \in shown[t] : m.seq = s /\ Unread(m)
    /\ opening' = [opening EXCEPT ![t] = @ \cup {s}]
    /\ UNCHANGED <<node, tab, keyed, unwanted>>

\* The patch comes to the node, and the tab corrects its copy when it hears of it.
OpenedAnswered(t, s) ==
    /\ s \in opening[t]
    /\ opening' = [opening EXCEPT ![t] = @ \ {s}]
    /\ \/ /\ Patch({s}, {"read"}, {})
          /\ shown' = [shown EXCEPT ![t] =
                 {IF m.seq = s THEN [m EXCEPT !.flags = @ \cup {"read"}] ELSE m : m \in @}]
       \/ Patch({s}, {"read"}, {}) /\ UNCHANGED shown
       \/ UNCHANGED <<flags, shown>>
    /\ UNCHANGED <<rows, arrived, failed, reloads, keyed, unwanted>>

-----------------------------------------------------------------------------
MailboxNext ==
    \/ Arrive
    \/ \E t \in Tabs :
        \/ \E i \in Calls : Reload(t, i)
        \/ ClickPatch(t) \/ ClickDelete(t) \/ ClickDeleteAll(t) \/ ClickRestore(t)
        \/ RequestLost(t) \/ DoPatch(t) \/ DoRestore(t) \/ DoDeleteAll(t)
        \/ ClickReload(t)
        \/ \E s \in Seqs : DoDelete(t, s) \/ MarkOpened(t, s) \/ OpenedAnswered(t, s)

MailboxSpec == MailboxInit /\ [][MailboxNext]_mailboxVars

\* A reload goes on or fails.
MailboxFairSpec == MailboxSpec /\ \A t \in Tabs, i \in Calls : WF_mailboxVars(Reload(t, i))

-----------------------------------------------------------------------------
(* Properties.                                                             *)

Rows == [seq : Seqs, flags : SUBSET Flags]
Mails == [seq : Seqs, flags : SUBSET Flags, opened : BOOLEAN]
Keys == {"none", "reload", "send"} \cup MailKeys
ReloadRecords == [step : {"none", "list", "show"}, copy : SUBSET Rows, key : Keys]
MailJobs ==
    [op : {"none", "patch", "delete", "empty", "restore", "reload"}, seqs : SUBSET Seqs,
     set : SUBSET Flags, clear : SUBSET Flags]

\* What the node keeps, and what a tab shows, asks for and waits for.
MailboxTypeOK ==
    /\ rows \subseteq Seqs /\ arrived \in 0..MaxMails /\ rows \subseteq 1..arrived
    /\ flags \in [Seqs -> SUBSET Flags]
    /\ shown \in [Tabs -> SUBSET Mails] /\ failed \in [Tabs -> {"no", "shown", "lost"}]
    /\ reloads \in [Tabs -> [Calls -> ReloadRecords]]
    /\ job \in [Tabs -> MailJobs] /\ opening \in [Tabs -> SUBSET Seqs]
    /\ acts \in 0..MaxActs /\ unwanted \subseteq Seqs

\* What the user has put back, and the node knows it, is not deleted for ever by a
\* tab that still shows it in the trash: only what was sent there since can be.
KeptMailStays == [][rows \ rows' \subseteq unwanted]_mailboxVars

\* Though old answers overwrite newer ones and answers that are errors are taken
\* for success: in the end a tab shows what the node has, unless its last reload
\* failed, of which it shows the error. The one exception is a reload after a restore
\* or after sending ("lost"): its start wipes the error of a loop that had ended, its
\* own is kept nowhere, and the tab is out of date with nothing to say so.
TabsCatchUp == \A t \in Tabs : <>[](failed[t] # "no" \/ {RowOf(m) : m \in shown[t]} = Listing)
=============================================================================
