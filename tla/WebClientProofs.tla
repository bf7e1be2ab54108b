-------------------------- MODULE WebClientProofs --------------------------
(***************************************************************************)
(* Proofs about the page: the browser is asked for a passkey by one        *)
(* ceremony at a time and logging out ends the prompt that is open         *)
(* (Passkeys), for any number of flows and ceremonies; no message that is  *)
(* wanted is deleted for ever (WebMailbox), for any number of tabs,        *)
(* messages and actions.                                                   *)
(***************************************************************************)
EXTENDS Passkeys, WebMailbox, TLAPS

-----------------------------------------------------------------------------
(* The queue of passkey prompts.                                           *)

Inside == {"slot", "clearing", "ready", "calling", "settling"}

\* Ceremonies that have not been asked for are nowhere; one that has begun has all
\* those before it behind it.
Fresh == \A c \in Serials : c > serial => pc[c] = "none"
InOrder == \A b, c \in Serials : b < c /\ pc[c] \notin {"none", "queued"} => pc[b] = "over"

\* The call that the page knows is pending; the controller is that of the ceremony
\* that is under way, or it was aborted.
CallIsPending == activeBrowserCall # 0 => pc[activeBrowserCall] = "calling"
HasController == \A c \in Serials : pc[c] \in Inside => ceremonyAbort = c \/ c \in aborted

QueueInv ==
    /\ TypeOK /\ Fresh /\ InOrder
    /\ OneBrowserCall /\ CallIsPending /\ HasController

\* At most one ceremony is under way: of two, the later one would have the earlier one
\* behind it.
LEMMA OneInside ==
    ASSUME TypeOK, InOrder, NEW b \in Serials, NEW c \in Serials,
           pc[b] \in Inside, pc[c] \in Inside
    PROVE  b = c
<1>1. b \in Nat /\ c \in Nat
  BY PasskeysAssumption DEF Serials
<1>2. ~(b < c) /\ ~(c < b)
  BY DEF InOrder, Inside
<1> QED BY <1>1, <1>2

\* The first state of the page.
LEMMA QueueInit == Init => QueueInv
<1> SUFFICES ASSUME Init PROVE QueueInv
  OBVIOUS
<1>1. TypeOK
  <2>1. Off \in FlowStates
    BY DEF Off, FlowStates
  <2>2. flow \in [Flows -> FlowStates]
    BY <2>1 DEF Init
  <2>3. pc \in [Serials -> Steps] /\ kind \in [Serials -> Kinds] /\ seen \in [Serials -> {0} \cup Serials]
    BY DEF Init, Steps, Kinds
  <2>4. serial \in 0..MaxCeremonies
    BY PasskeysAssumption DEF Init
  <2> QED BY <2>2, <2>3, <2>4 DEF Init, TypeOK
<1>2. Fresh /\ InOrder /\ OneBrowserCall /\ CallIsPending /\ HasController
  BY DEF Init, Fresh, InOrder, OneBrowserCall, CallIsPending, HasController, Inside
<1> QED BY <1>1, <1>2 DEF QueueInv

\* A new ceremony is the last in the queue.
LEMMA AskingKeepsQueue ==
    ASSUME QueueInv, NEW f \in Flows, NEW k \in Kinds, WithCeremony(f, k)
    PROVE  QueueInv'
<1> DEFINE c == serial + 1
<1>1. c \in Serials /\ serial' = c /\ c > serial /\ serial \in Nat
  BY PasskeysAssumption DEF QueueInv, TypeOK, WithCeremony, Serials
<1>2. pc[c] = "none"
  BY <1>1 DEF QueueInv, Fresh
<1>3. pc' = [pc EXCEPT ![c] = "queued"]
  BY DEF WithCeremony, Goto
<1>4. TypeOK'
  <2> DEFINE waiting == [at |-> "ceremony", for |-> c]
  <2>1. waiting \in FlowStates
    BY <1>1 DEF FlowStates
  <2>2. flow' = [flow EXCEPT ![f] = waiting] /\ kind' = [kind EXCEPT ![c] = k]
    BY <1>1 DEF WithCeremony
  <2>3. serial' \in 0..MaxCeremonies
    BY <1>1, PasskeysAssumption DEF Serials
  <2> HIDE DEF waiting, c
  <2> QED BY <1>1, <1>3, <2>1, <2>2, <2>3 DEF QueueInv, TypeOK, WithCeremony, Steps, signals
<1>5. Fresh'
  BY <1>1, <1>3 DEF QueueInv, Fresh, TypeOK, Serials
<1>6. InOrder'
  <2> SUFFICES ASSUME NEW a \in Serials, NEW b \in Serials, a < b, pc'[b] \notin {"none", "queued"}
               PROVE  pc'[a] = "over"
    BY DEF InOrder
  <2>1. b # c /\ pc[b] \notin {"none", "queued"}
    BY <1>1, <1>3 DEF QueueInv, TypeOK
  <2>2. pc[a] = "over"
    BY <2>1 DEF QueueInv, InOrder
  <2> QED BY <1>2, <1>3, <2>2 DEF QueueInv, TypeOK
<1>7. \A b \in Serials : pc'[b] \in Inside => pc'[b] = pc[b]
  BY <1>3 DEF QueueInv, TypeOK, Inside
<1>8. OneBrowserCall' /\ HasController'
  BY <1>7 DEF QueueInv, OneBrowserCall, HasController, WithCeremony, signals, Inside
<1>9. CallIsPending'
  BY <1>2, <1>3 DEF QueueInv, CallIsPending, WithCeremony, TypeOK
<1> QED BY <1>4, <1>5, <1>6, <1>8, <1>9 DEF QueueInv

\* Logging out leaves the order alone and moves the controller among the aborted ones.
LEMMA LogoutKeepsQueue ==
    ASSUME QueueInv, Logout
    PROVE  QueueInv'
<1>1. UNCHANGED <<serial, kind, pc, seen, rejected, activeBrowserCall, flow>>
  BY DEF Logout, ceremonies
<1>2. aborted' \subseteq Serials /\ ceremonyAbort' \in {0} \cup Serials
  BY DEF Logout, QueueInv, TypeOK
<1>3. HasController'
  <2> SUFFICES ASSUME NEW c \in Serials, pc'[c] \in Inside
               PROVE  ceremonyAbort' = c \/ c \in aborted'
    BY DEF HasController
  <2>1. c # 0
    BY PasskeysAssumption DEF Serials
  <2>2. ceremonyAbort = c \/ c \in aborted
    BY <1>1 DEF QueueInv, HasController
  <2> QED BY <2>1, <2>2 DEF Logout
<1> QED BY <1>1, <1>2, <1>3 DEF QueueInv, TypeOK, Fresh, InOrder, OneBrowserCall, CallIsPending

\* The steps of the flows that ask for nothing.
LEMMA OtherFlowStepsKeepQueue ==
    ASSUME QueueInv, NEW f \in Flows,
           AwaitPasskeyIdle(f) \/ FlowGoesOn(f)
    PROVE  QueueInv'
<1>1. flow' \in [Flows -> FlowStates]
  <2>1. CASE AwaitPasskeyIdle(f)
    <3> DEFINE waiting == [at |-> "idle", for |-> activeBrowserCall]
    <3>1. waiting \in FlowStates
      BY DEF QueueInv, TypeOK, FlowStates
    <3>2. flow' = [flow EXCEPT ![f] = waiting]
      BY <2>1 DEF AwaitPasskeyIdle
    <3> HIDE DEF waiting
    <3> QED BY <3>1, <3>2 DEF QueueInv, TypeOK
  <2>2. CASE FlowGoesOn(f)
    <3>1. Off \in FlowStates
      BY DEF Off, FlowStates
    <3> QED BY <2>2, <3>1 DEF FlowGoesOn, QueueInv, TypeOK
  <2> QED BY <2>1, <2>2
<1>2. UNCHANGED <<serial, kind, pc, seen, rejected, aborted, ceremonyAbort, activeBrowserCall>>
  BY DEF AwaitPasskeyIdle, FlowGoesOn, ceremonies, signals
<1> QED BY <1>1, <1>2 DEF QueueInv, TypeOK, Fresh, InOrder, OneBrowserCall, CallIsPending, HasController

\* A ceremony whose turn it is gets the controller: nothing else is under way.
LEMMA EnteringKeepsQueue ==
    ASSUME QueueInv, NEW c \in Serials, Enter(c)
    PROVE  QueueInv'
<1>1. pc' = [pc EXCEPT ![c] = "slot"] /\ pc[c] = "queued" /\ QueueIsAt(c) /\ ceremonyAbort' = c
  BY DEF Enter, Goto
<1>2. UNCHANGED <<serial, kind, aborted, activeBrowserCall, flow>>
  BY DEF Enter, ceremonies
<1>3. \A b \in Serials : b < c => pc[b] = "over"
  <2> SUFFICES ASSUME NEW b \in Serials, b < c PROVE pc[b] = "over"
    OBVIOUS
  <2>1. c - 1 \in Serials /\ (b = c - 1 \/ b < c - 1)
    BY PasskeysAssumption DEF Serials
  <2>2. pc[c - 1] = "over"
    BY <1>1, <2>1 DEF QueueIsAt
  <2> QED BY <2>1, <2>2 DEF QueueInv, InOrder
<1>4. \A b \in Serials : b > c => pc[b] \in {"none", "queued"}
  BY <1>1 DEF QueueInv, InOrder
<1>5. TypeOK'
  BY <1>1, <1>2 DEF Enter, QueueInv, TypeOK, Steps
<1>6. Fresh' /\ CallIsPending'
  BY <1>1, <1>2, PasskeysAssumption DEF QueueInv, Fresh, CallIsPending, TypeOK
<1>7. InOrder'
  BY <1>1, <1>3 DEF QueueInv, InOrder, TypeOK
<1>8. \A b \in Serials : pc'[b] \in Inside => b = c
  <2> SUFFICES ASSUME NEW b \in Serials, pc'[b] \in Inside, b # c PROVE FALSE
    OBVIOUS
  <2>1. pc[b] \in Inside
    BY <1>1 DEF QueueInv, TypeOK
  <2>2. b < c \/ b > c
    BY PasskeysAssumption DEF Serials
  <2> QED BY <1>3, <1>4, <2>1, <2>2 DEF Inside
<1>9. OneBrowserCall' /\ HasController'
  BY <1>1, <1>8 DEF OneBrowserCall, HasController, Inside, QueueInv, TypeOK
<1> QED BY <1>5, <1>6, <1>7, <1>9 DEF QueueInv

\* The steps under way keep the ceremony where it is in the order.
LEMMA StepsKeepQueue ==
    ASSUME QueueInv, NEW c \in Serials,
           SlotIsFree(c) \/ Cleared(c) \/ Call(c) \/ Settle(c)
    PROVE  QueueInv'
<1>1. PICK step \in Inside : pc' = [pc EXCEPT ![c] = step]
  BY DEF SlotIsFree, Cleared, Call, Settle, Goto, Inside
<1>2. pc[c] \in Inside /\ pc' \in [Serials -> Steps]
  BY <1>1 DEF SlotIsFree, Cleared, Call, Settle, Inside, QueueInv, TypeOK, Steps
<1>3. UNCHANGED <<serial, kind, rejected, aborted, ceremonyAbort, flow>>
  BY DEF SlotIsFree, Cleared, Call, Settle, ceremonies, signals
<1>4. \A b \in Serials : pc[b] \in Inside => b = c
  BY <1>2, OneInside DEF QueueInv
<1>5. activeBrowserCall' \in {0} \cup Serials /\ seen' \in [Serials -> {0} \cup Serials]
  BY DEF SlotIsFree, Cleared, Call, Settle, QueueInv, TypeOK
<1>6. TypeOK'
  BY <1>2, <1>3, <1>5 DEF QueueInv, TypeOK
<1>7. Fresh' /\ InOrder' /\ HasController'
  BY <1>1, <1>2, <1>3 DEF QueueInv, Fresh, InOrder, HasController, Inside, TypeOK
<1>8. \A b \in Serials : pc'[b] = "calling" => b = c
  BY <1>1, <1>4 DEF Inside, QueueInv, TypeOK
<1>9. activeBrowserCall \in {0, c}
  BY <1>4 DEF QueueInv, CallIsPending, TypeOK, Inside
<1>10. OneBrowserCall' /\ CallIsPending'
  <2>1. CASE Call(c)
    BY <2>1, <1>8 DEF Call, Goto, OneBrowserCall, CallIsPending, QueueInv, TypeOK
  <2>2. CASE Settle(c)
    BY <2>2, <1>8, <1>9 DEF Settle, Goto, OneBrowserCall, CallIsPending, QueueInv, TypeOK
  <2>3. CASE SlotIsFree(c) \/ Cleared(c)
    <3>1. pc[c] # "calling" /\ pc'[c] # "calling" /\ activeBrowserCall' = activeBrowserCall
      BY <2>3 DEF SlotIsFree, Cleared, Goto, QueueInv, TypeOK
    <3>2. activeBrowserCall = 0
      BY <1>9, <3>1 DEF QueueInv, CallIsPending
    <3> QED BY <1>8, <3>1, <3>2 DEF OneBrowserCall, CallIsPending
  <2> QED BY <2>1, <2>2, <2>3
<1> QED BY <1>6, <1>7, <1>10 DEF QueueInv

\* A ceremony that is over takes its controller with it.
LEMMA LeavingKeepsQueue ==
    ASSUME QueueInv, NEW c \in Serials, ClearingFails(c) \/ Finish(c)
    PROVE  QueueInv'
<1>1. pc' = [pc EXCEPT ![c] = "over"] /\ kind' = [kind EXCEPT ![c] = "none"]
      /\ aborted' = aborted \ {c} /\ ceremonyAbort' = IF ceremonyAbort = c THEN 0 ELSE ceremonyAbort
  BY DEF ClearingFails, Finish, Exit, Goto
<1>2. UNCHANGED <<serial, seen, activeBrowserCall, flow>> /\ rejected' \in BOOLEAN
  BY DEF ClearingFails, Finish
<1>3. pc[c] \in Inside \ {"calling"}
  BY DEF ClearingFails, Finish, Inside
<1>4. \A b \in Serials : pc'[b] \notin Inside
  BY <1>1, <1>3, OneInside DEF QueueInv, TypeOK, Inside
<1>5. TypeOK'
  BY <1>1, <1>2 DEF QueueInv, TypeOK, Steps, Kinds
<1>6. Fresh' /\ InOrder'
  BY <1>1, <1>2, <1>3 DEF QueueInv, Fresh, InOrder, Inside, TypeOK
<1>7. activeBrowserCall = 0
  BY <1>3, OneInside DEF QueueInv, CallIsPending, TypeOK, Inside
<1>8. OneBrowserCall' /\ HasController' /\ CallIsPending'
  BY <1>2, <1>4, <1>7 DEF OneBrowserCall, HasController, CallIsPending, Inside
<1> QED BY <1>5, <1>6, <1>8 DEF QueueInv

\* The invariant is inductive.
LEMMA QueueStep == QueueInv /\ [Next]_vars => QueueInv'
<1> SUFFICES ASSUME QueueInv, [Next]_vars PROVE QueueInv'
  OBVIOUS
<1>1. CASE Logout
  BY <1>1, LogoutKeepsQueue
<1>2. ASSUME NEW f \in Flows, Flow(f)
      PROVE  QueueInv'
  <2>1. \A k \in Kinds : WithCeremony(f, k) => QueueInv'
    BY AskingKeepsQueue
  <2> QED BY <1>2, <2>1, OtherFlowStepsKeepQueue
          DEF Flow, CreatePasskey, ConnectPasskey, AssertWebAuthn, Kinds
<1>3. ASSUME NEW c \in Serials, Ceremony(c)
      PROVE  QueueInv'
  BY <1>3, EnteringKeepsQueue, StepsKeepQueue, LeavingKeepsQueue DEF Ceremony
<1>4. CASE UNCHANGED vars
  BY <1>4 DEF vars, ceremonies, signals, QueueInv, TypeOK, Fresh, InOrder,
              OneBrowserCall, CallIsPending, HasController
<1> QED BY <1>1, <1>2, <1>3, <1>4 DEF Next

\* The whole invariant, for any number of flows and of ceremonies.
THEOREM QueueInvariant == Spec => []QueueInv
<1> QED BY QueueInit, QueueStep, PTL DEF Spec

\* The browser is never asked twice: awaitBrowserSlot may look only once because the
\* queue lets one ceremony in at a time.
THEOREM BrowserIsAskedOnce == Spec => []OneBrowserCall
<1>1. QueueInv => OneBrowserCall
  BY DEF QueueInv
<1> QED BY <1>1, QueueInvariant, PTL

\* Logging out aborts the controller of the pending call, of which there is one.
THEOREM LogoutAborts == Spec => LogoutEndsThePrompt
<1> DEFINE Aborts == Logout => activeBrowserCall \in {0} \cup aborted'
<1>1. QueueInv => Aborts
  <2> SUFFICES ASSUME QueueInv, Logout, activeBrowserCall # 0 PROVE activeBrowserCall \in aborted'
    OBVIOUS
  <2>1. activeBrowserCall \in Serials /\ pc[activeBrowserCall] \in Inside
    BY DEF QueueInv, TypeOK, CallIsPending, Inside
  <2>2. ceremonyAbort = activeBrowserCall \/ activeBrowserCall \in aborted
    BY <2>1 DEF QueueInv, HasController
  <2> QED BY <2>2 DEF Logout
<1>2. QueueInv => [Aborts]_vars
  BY <1>1
<1> QED BY <1>2, QueueInvariant, PTL DEF LogoutEndsThePrompt

-----------------------------------------------------------------------------
(* The mailbox in several tabs: types.                                     *)

\* A list that a tab shows or waits for.
LEMMA MailType ==
    ASSUME MailboxTypeOK
    PROVE  /\ Listing \subseteq Rows
           /\ \A listed \in SUBSET Rows : DecryptRows(listed) \subseteq Mails
<1>1. Listing \subseteq Rows
  BY DEF MailboxTypeOK, Listing, MergeRow, Rows
<1>2. ASSUME NEW listed \in SUBSET Rows, NEW row \in listed
      PROVE  Mail(row, Blob(row.seq)) \in Mails
  <2>1. Blob(row.seq) \in BOOLEAN
    BY DEF Blob
  <2>2. row.seq \in Seqs /\ row.flags \in SUBSET Flags
    BY <1>2 DEF Rows
  <2>3. \A opened \in BOOLEAN : Mail(row, opened) \in Mails
    BY <2>2 DEF Mail, Mails
  <2> QED BY <2>1, <2>3
<1> QED BY <1>1, <1>2 DEF DecryptRows

\* Ending a reload may free the key of the action it belongs to.
LEMMA FreeKeyType ==
    ASSUME MailboxTypeOK, NEW t \in Tabs, NEW i \in Calls, FreeKey(t, i)
    PROVE  job' \in [Tabs -> MailJobs]
BY DEF FreeKey, MailboxTypeOK, NoJob, MailJobs

\* A call of reloadCore that starts.
LEMMA ReloadingType ==
    ASSUME MailboxTypeOK, NEW t \in Tabs, NEW i \in Calls, NEW key \in Keys,
           Reloading(t, i, key)
    PROVE  /\ reloads' \in [Tabs -> [Calls -> ReloadRecords]]
           /\ failed' \in [Tabs -> {"no", "shown", "lost"}]
<1>1. [NoReload EXCEPT !.step = "list", !.key = key] \in ReloadRecords
  BY DEF NoReload, ReloadRecords
<1> QED BY <1>1 DEF Reloading, MailboxTypeOK

\* The flags after a patch of any messages.
LEMMA PatchType ==
    ASSUME MailboxTypeOK, NEW seqs \in SUBSET Seqs, NEW set \in SUBSET Flags, NEW clear,
           Patch(seqs, set, clear)
    PROVE  flags' \in [Seqs -> SUBSET Flags]
BY DEF Patch, Patched, MailboxTypeOK

\* An action ends, with a reload or with an error.
LEMMA AnsweredType ==
    ASSUME MailboxTypeOK, NEW t \in Tabs, Answered(t)
    PROVE  /\ job' \in [Tabs -> MailJobs] /\ reloads' \in [Tabs -> [Calls -> ReloadRecords]]
           /\ failed' \in [Tabs -> {"no", "shown", "lost"}]
           /\ UNCHANGED <<arrived, shown, acts, opening>>
<1>1. CASE JobFails(t)
  BY <1>1 DEF JobFails, MailboxTypeOK, NoJob, MailJobs, tab
<1>2. CASE ReloadAfterJob(t)
  <2>1. PICK i \in Calls, key \in Keys : Reloading(t, i, key)
    BY <1>2 DEF ReloadAfterJob, StartReload, Keys, MailKeys
  <2>2. job' \in [Tabs -> MailJobs]
    BY <1>2 DEF ReloadAfterJob, MailboxTypeOK, NoJob, MailJobs
  <2> QED BY <1>2, <2>1, <2>2, ReloadingType DEF ReloadAfterJob
<1> QED BY <1>1, <1>2 DEF Answered

\* A click starts an action.
LEMMA ClickType ==
    ASSUME MailboxTypeOK, NEW t \in Tabs,
           NEW op \in {"patch", "delete", "empty", "restore"}, NEW seqs \in SUBSET Seqs,
           NEW set \in SUBSET Flags, NEW clear \in SUBSET Flags,
           Click(t, op, seqs, set, clear), unwanted' \subseteq Seqs
    PROVE  MailboxTypeOK'
<1>1. job' \in [Tabs -> MailJobs]
  BY DEF Click, MailboxTypeOK, MailJobs
<1>2. acts' \in 0..MaxActs
  BY WebMailboxAssumption DEF Click, MailboxTypeOK
<1> QED BY <1>1, <1>2 DEF Click, MailboxTypeOK, node, tab

\* What a tab shows in a folder is a message of its list.
LEMMA FolderType ==
    ASSUME MailboxTypeOK, NEW t \in Tabs, NEW trash \in BOOLEAN
    PROVE  Folder(t, trash) \subseteq Seqs
BY DEF Folder, MailboxTypeOK, Mails

\* A tab and a mailbox to begin with.
LEMMA MailboxInitType == MailboxInit => MailboxTypeOK
<1> SUFFICES ASSUME MailboxInit PROVE MailboxTypeOK
  OBVIOUS
<1>1. rows \subseteq Seqs /\ arrived \in 0..MaxMails /\ rows \subseteq 1..arrived
  BY WebMailboxAssumption DEF MailboxInit, Seqs
<1>2. flags \in [Seqs -> SUBSET Flags] /\ unwanted \subseteq Seqs
  BY <1>1 DEF MailboxInit, Flags
<1>3. shown \in [Tabs -> SUBSET Mails]
  <2>1. \A s \in rows : Mail(MergeRow(s), TRUE) \in Mails
    BY <1>1, <1>2 DEF Mail, MergeRow, Mails
  <2> QED BY <2>1 DEF MailboxInit, Listing
<1>4. reloads \in [Tabs -> [Calls -> ReloadRecords]]
  BY DEF MailboxInit, NoReload, ReloadRecords, Keys
<1>5. job \in [Tabs -> MailJobs]
  BY DEF MailboxInit, NoJob, MailJobs
<1>6. acts \in 0..MaxActs
  BY WebMailboxAssumption DEF MailboxInit
<1> QED BY <1>1, <1>2, <1>3, <1>4, <1>5, <1>6 DEF MailboxInit, MailboxTypeOK

\* A step of a reload.
LEMMA ReloadStepType ==
    ASSUME MailboxTypeOK, NEW t \in Tabs, NEW i \in Calls, Reload(t, i)
    PROVE  MailboxTypeOK'
<1>1. CASE FetchIndex(t, i)
  <2> DEFINE r == [reloads[t][i] EXCEPT !.step = "show", !.copy = Listing]
  <2>1. r \in ReloadRecords
    <3>1. Listing \in SUBSET Rows /\ reloads[t][i] \in ReloadRecords
      BY MailType DEF MailboxTypeOK
    <3> QED BY <3>1 DEF ReloadRecords
  <2>2. reloads' = [reloads EXCEPT ![t][i] = r]
    BY <1>1 DEF FetchIndex
  <2> HIDE DEF r
  <2>3. reloads' \in [Tabs -> [Calls -> ReloadRecords]]
    BY <2>1, <2>2 DEF MailboxTypeOK
  <2> QED BY <1>1, <2>3 DEF FetchIndex, MailboxTypeOK, node, keyed
<1>2. CASE ShowMails(t, i)
  <2>1. reloads[t][i].copy \in SUBSET Rows
    BY DEF MailboxTypeOK, ReloadRecords
  <2>2. shown' \in [Tabs -> SUBSET Mails]
    BY <1>2, <2>1, MailType DEF ShowMails, MailboxTypeOK
  <2>3. job' \in [Tabs -> MailJobs]
    BY <1>2, FreeKeyType DEF ShowMails
  <2>4. reloads' \in [Tabs -> [Calls -> ReloadRecords]] /\ failed' \in [Tabs -> {"no", "shown", "lost"}]
    BY <1>2, ReloadingType DEF ShowMails, Keys
  <2> QED BY <1>2, <2>2, <2>3, <2>4 DEF ShowMails, MailboxTypeOK, node
<1>3. CASE ReloadFails(t, i)
  <2>1. job' \in [Tabs -> MailJobs]
    BY <1>3, FreeKeyType DEF ReloadFails
  <2>2. NoReload \in ReloadRecords
    BY DEF NoReload, ReloadRecords, Keys
  <2>3. reloads' \in [Tabs -> [Calls -> ReloadRecords]] /\ failed' \in [Tabs -> {"no", "shown", "lost"}]
    BY <1>3, <2>2 DEF ReloadFails, MailboxTypeOK
  <2> QED BY <1>3, <2>1, <2>3 DEF ReloadFails, MailboxTypeOK, node
<1> QED BY <1>1, <1>2, <1>3 DEF Reload

\* A click on a message, or on the trash.
LEMMA ClickStepType ==
    ASSUME MailboxTypeOK, NEW t \in Tabs,
           ClickPatch(t) \/ ClickDelete(t) \/ ClickDeleteAll(t) \/ ClickRestore(t)
    PROVE  MailboxTypeOK'
<1>0. unwanted \subseteq Seqs
  BY DEF MailboxTypeOK
<1>1. CASE ClickPatch(t)
  <2>1. PICK trash \in BOOLEAN, f \in Flags, on \in BOOLEAN : \E seqs \in Targets(t, trash) :
            /\ PatchSeqs(t, seqs, f, on)
            /\ unwanted' = IF f = "trashed" /\ on THEN unwanted \cup seqs ELSE unwanted
    BY <1>1 DEF ClickPatch
  <2>2. PICK seqs \in Targets(t, trash) :
            /\ PatchSeqs(t, seqs, f, on)
            /\ unwanted' = IF f = "trashed" /\ on THEN unwanted \cup seqs ELSE unwanted
    BY <2>1
  <2>3. seqs \in SUBSET Seqs
    BY FolderType DEF Targets
  <2>4. unwanted' \subseteq Seqs
    BY <1>0, <2>2, <2>3
  <2> QED BY <2>2, <2>3, <2>4, ClickType DEF PatchSeqs
<1>2. CASE ClickDelete(t)
  <2>1. PICK seqs \in Targets(t, TRUE) : Click(t, "delete", seqs, {}, {})
    BY <1>2 DEF ClickDelete
  <2>2. seqs \in SUBSET Seqs /\ unwanted' \subseteq Seqs
    BY <1>0, <1>2, FolderType DEF Targets, ClickDelete
  <2> QED BY <2>1, <2>2, ClickType
<1>3. CASE ClickDeleteAll(t)
  BY <1>0, <1>3, ClickType DEF ClickDeleteAll
<1>4. CASE ClickRestore(t)
  <2>1. PICK s \in Folder(t, TRUE) : Click(t, "restore", {s}, {}, {"trashed"})
    BY <1>4 DEF ClickRestore
  <2>2. {s} \in SUBSET Seqs /\ unwanted' \subseteq Seqs
    BY <1>0, <1>4, FolderType DEF ClickRestore
  <2> QED BY <2>1, <2>2, ClickType DEF Flags
<1> QED BY <1>1, <1>2, <1>3, <1>4

\* What the node does with the request of an action, and how the tab takes its answer.
LEMMA JobStepType ==
    ASSUME MailboxTypeOK, NEW t \in Tabs,
           \/ RequestLost(t) \/ DoPatch(t) \/ DoRestore(t) \/ DoDeleteAll(t)
           \/ \E s \in Seqs : DoDelete(t, s)
    PROVE  MailboxTypeOK'
<1>0. job[t] \in MailJobs /\ rows \subseteq Seqs /\ unwanted \subseteq Seqs
      /\ flags \in [Seqs -> SUBSET Flags]
  BY DEF MailboxTypeOK
<1>1. /\ rows' \subseteq rows
      /\ unwanted' \subseteq unwanted
      /\ flags' \in [Seqs -> SUBSET Flags]
  <2>1. CASE RequestLost(t)
    BY <1>0, <2>1 DEF RequestLost
  <2>2. CASE DoPatch(t)
    <3>1. flags' \in [Seqs -> SUBSET Flags]
      BY <1>0, <2>2, PatchType DEF DoPatch, MailJobs
    <3> QED BY <2>2, <3>1 DEF DoPatch, Wanted
  <2>3. CASE DoRestore(t)
    BY <1>0, <2>3 DEF DoRestore, Wanted
  <2>4. CASE DoDeleteAll(t)
    BY <1>0, <2>4 DEF DoDeleteAll, PermanentlyDelete
  <2>5. ASSUME NEW s \in Seqs, DoDelete(t, s)
        PROVE  /\ rows' \subseteq rows /\ unwanted' \subseteq unwanted
               /\ flags' \in [Seqs -> SUBSET Flags]
    BY <1>0, <2>5 DEF DoDelete, DeleteOne, PermanentlyDelete
  <2> QED BY <2>1, <2>2, <2>3, <2>4, <2>5
<1>2. /\ job' \in [Tabs -> MailJobs] /\ reloads' \in [Tabs -> [Calls -> ReloadRecords]]
      /\ failed' \in [Tabs -> {"no", "shown", "lost"}]
      /\ UNCHANGED <<arrived, shown, acts, opening>>
  <2>1. CASE Answered(t) \/ JobFails(t)
    BY <2>1, AnsweredType DEF Answered
  <2>2. ASSUME NEW s \in Seqs, DoDelete(t, s), ~JobFails(t), ~Answered(t)
        PROVE  /\ job' \in [Tabs -> MailJobs] /\ reloads' = reloads /\ failed' = failed
               /\ UNCHANGED <<arrived, shown, acts, opening>>
    <3>1. job' = [job EXCEPT ![t].seqs = @ \ {s}] /\ UNCHANGED <<arrived, tab, acts, opening>>
      BY <2>2 DEF DoDelete, Answered
    <3>2. [job[t] EXCEPT !.seqs = @ \ {s}] \in MailJobs
      BY <1>0 DEF MailJobs
    <3> QED BY <3>1, <3>2 DEF MailboxTypeOK, tab
  <2>3. reloads \in [Tabs -> [Calls -> ReloadRecords]] /\ failed \in [Tabs -> {"no", "shown", "lost"}]
    BY DEF MailboxTypeOK
  <2> QED BY <2>1, <2>2, <2>3 DEF RequestLost, DoPatch, DoRestore, DoDeleteAll
<1> QED BY <1>0, <1>1, <1>2 DEF MailboxTypeOK

\* Every step keeps the types.
LEMMA MailboxStepType == MailboxTypeOK /\ [MailboxNext]_mailboxVars => MailboxTypeOK'
<1> SUFFICES ASSUME MailboxTypeOK, [MailboxNext]_mailboxVars PROVE MailboxTypeOK'
  OBVIOUS
<1>1. CASE Arrive
  <2>1. /\ arrived' = arrived + 1 /\ rows' = rows \cup {arrived + 1} /\ arrived < MaxMails
        /\ arrived \in 0..MaxMails /\ rows \subseteq 1..arrived /\ rows \subseteq Seqs
    BY <1>1 DEF Arrive, MailboxTypeOK
  <2>2. arrived' \in 0..MaxMails /\ arrived + 1 \in Seqs
    BY <2>1, WebMailboxAssumption DEF Seqs
  <2>3. rows' \subseteq Seqs /\ rows' \subseteq 1..arrived'
    BY <2>1, <2>2
  <2> QED BY <1>1, <2>2, <2>3 DEF Arrive, MailboxTypeOK, tab, keyed
<1>2. ASSUME NEW t \in Tabs, ClickReload(t)
      PROVE  MailboxTypeOK'
  <2>1. PICK i \in Calls, key \in Keys : Reloading(t, i, key)
    BY <1>2 DEF ClickReload, StartReload, Keys
  <2>2. acts' \in 0..MaxActs
    BY <1>2, WebMailboxAssumption DEF ClickReload, MailboxTypeOK
  <2> QED BY <1>2, <2>1, <2>2, ReloadingType DEF ClickReload, MailboxTypeOK, node
<1>3. ASSUME NEW t \in Tabs, NEW s \in Seqs, MarkOpened(t, s)
      PROVE  MailboxTypeOK'
  <2>1. opening' \in [Tabs -> SUBSET Seqs]
    BY <1>3 DEF MarkOpened, MailboxTypeOK
  <2> QED BY <1>3, <2>1 DEF MarkOpened, MailboxTypeOK, node, tab, keyed
<1>4. ASSUME NEW t \in Tabs, NEW s \in Seqs, OpenedAnswered(t, s)
      PROVE  MailboxTypeOK'
  <2>1. opening' \in [Tabs -> SUBSET Seqs]
    BY <1>4 DEF OpenedAnswered, MailboxTypeOK
  <2>2. flags' \in [Seqs -> SUBSET Flags]
    <3>1. {"read"} \in SUBSET Flags /\ flags \in [Seqs -> SUBSET Flags]
      BY DEF Flags, MailboxTypeOK
    <3> QED BY <1>4, <3>1, PatchType DEF OpenedAnswered
  <2>3. shown' \in [Tabs -> SUBSET Mails]
    <3>1. \A m \in shown[t] : [m EXCEPT !.flags = @ \cup {"read"}] \in Mails /\ m \in Mails
      BY DEF MailboxTypeOK, Mails, Flags
    <3>2. CASE shown' = shown
      BY <3>2 DEF MailboxTypeOK
    <3>3. CASE shown' = [shown EXCEPT ![t] =
                   {IF m.seq = s THEN [m EXCEPT !.flags = @ \cup {"read"}] ELSE m : m \in @}]
      BY <3>1, <3>3 DEF MailboxTypeOK
    <3> QED BY <1>4, <3>2, <3>3 DEF OpenedAnswered
  <2> QED BY <1>4, <2>1, <2>2, <2>3 DEF OpenedAnswered, MailboxTypeOK, keyed
<1>5. CASE UNCHANGED mailboxVars
  BY <1>5 DEF mailboxVars, node, tab, keyed, MailboxTypeOK
<1> QED
  BY <1>1, <1>2, <1>3, <1>4, <1>5, ReloadStepType, ClickStepType, JobStepType DEF MailboxNext

\* Rows, flags, lists and actions keep their types, whatever answers overtake each other.
THEOREM MailboxTypeCorrect == MailboxSpec => []MailboxTypeOK
BY MailboxInitType, MailboxStepType, PTL DEF MailboxSpec

-----------------------------------------------------------------------------
(* The mailbox in several tabs: what can be deleted.                       *)

\* What is in the trash, and what is on its way there, is not wanted.
TrashIsUnwanted ==
    /\ InTrash \subseteq unwanted
    /\ \A t \in Tabs :
           job[t].op = "patch" /\ "trashed" \in job[t].set => job[t].seqs \subseteq unwanted

\* A patch either sets a flag or clears one.
PatchIsOneFlag == \A t \in Tabs : job[t].set = {} \/ job[t].clear = {}

KeptInv == TrashIsUnwanted /\ PatchIsOneFlag

\* Most steps leave a tab its action, or end it, or start one that patches nothing.
Tame(t) ==
    \/ job'[t] = job[t]
    \/ job'[t].op # "patch" /\ (job'[t].set = {} \/ job'[t].clear = {})

\* They keep the invariant if they put nothing into the trash.
LEMMA TameKeeps ==
    ASSUME KeptInv, \A t \in Tabs : Tame(t), unwanted' = unwanted, InTrash' \subseteq unwanted
    PROVE  KeptInv'
BY DEF KeptInv, TrashIsUnwanted, PatchIsOneFlag, Tame

\* So do those that take messages out of it, wanted again or not.
LEMMA RestoreKeeps ==
    ASSUME KeptInv, \A t \in Tabs : Tame(t), NEW seqs, Wanted(seqs),
           InTrash' \subseteq InTrash \ seqs
    PROVE  KeptInv'
<1>1. InTrash' \subseteq unwanted'
  BY DEF KeptInv, TrashIsUnwanted, Wanted
<1>2. ASSUME NEW t \in Tabs, job'[t].op = "patch", "trashed" \in job'[t].set
      PROVE  job'[t].seqs \subseteq unwanted'
  <2>1. job'[t] = job[t] /\ job[t].seqs \subseteq unwanted
    BY <1>2 DEF KeptInv, TrashIsUnwanted, Tame
  <2> QED BY <1>2, <2>1 DEF Wanted
<1>3. PatchIsOneFlag'
  BY DEF KeptInv, PatchIsOneFlag, Tame
<1> QED BY <1>1, <1>2, <1>3 DEF KeptInv, TrashIsUnwanted

\* An action that ends is tame, with or without a reload.
LEMMA AnsweredIsTame ==
    ASSUME MailboxTypeOK, NEW t \in Tabs, Answered(t) \/ JobFails(t)
    PROVE  \A u \in Tabs : Tame(u)
<1>1. \A u \in Tabs : u # t => job'[u] = job[u]
  BY DEF Answered, ReloadAfterJob, JobFails, MailboxTypeOK
<1>2. job'[t].op # "patch" /\ job'[t].set = {}
  <2>1. CASE JobFails(t)
    BY <2>1 DEF JobFails, NoJob, MailboxTypeOK
  <2>2. CASE ReloadAfterJob(t)
    <3>1. job' = [job EXCEPT ![t] = [NoJob EXCEPT !.op = "reload"]]
      BY <2>2 DEF ReloadAfterJob
    <3> QED BY <3>1 DEF NoJob, MailboxTypeOK
  <2> QED BY <2>1, <2>2 DEF Answered
<1> QED BY <1>1, <1>2 DEF Tame

\* The node handles the request of an action.
LEMMA JobKeepsKept ==
    ASSUME MailboxTypeOK, KeptInv, NEW t \in Tabs,
           \/ RequestLost(t) \/ DoPatch(t) \/ DoRestore(t) \/ DoDeleteAll(t)
           \/ \E s \in Seqs : DoDelete(t, s)
    PROVE  KeptInv'
<1>0. /\ job[t] \in MailJobs /\ flags \in [Seqs -> SUBSET Flags]
      /\ InTrash \subseteq unwanted
  BY DEF MailboxTypeOK, KeptInv, TrashIsUnwanted
<1>1. CASE RequestLost(t)
  <2>1. InTrash' \subseteq unwanted /\ unwanted' = unwanted
    BY <1>0, <1>1 DEF RequestLost, InTrash
  <2> QED BY <1>1, <2>1, AnsweredIsTame, TameKeeps DEF RequestLost
<1>2. CASE DoPatch(t)
  <2>1. \A u \in Tabs : Tame(u)
    BY <1>2, AnsweredIsTame DEF DoPatch
  <2>2. \A s \in Seqs : flags'[s] = IF s \in job[t].seqs THEN job[t].set ELSE flags[s]
    BY <1>2 DEF DoPatch, Patch, Patched
  <2>3. CASE "trashed" \in job[t].clear
    <3>1. job[t].set = {}
      BY <2>3 DEF KeptInv, PatchIsOneFlag
    <3>2. InTrash' \subseteq InTrash \ job[t].seqs
      BY <2>2, <3>1 DEF InTrash
    <3>3. Wanted(job[t].seqs)
      BY <1>2, <2>3 DEF DoPatch
    <3> QED BY <2>1, <3>2, <3>3, RestoreKeeps
  <2>4. CASE "trashed" \notin job[t].clear
    <3>1. unwanted' = unwanted
      BY <1>2, <2>4 DEF DoPatch
    <3>2. "trashed" \in job[t].set => job[t].seqs \subseteq unwanted
      BY <1>2 DEF DoPatch, KeptInv, TrashIsUnwanted
    <3>3. InTrash' \subseteq unwanted
      BY <1>0, <2>2, <3>2 DEF InTrash
    <3> QED BY <2>1, <3>1, <3>3, TameKeeps
  <2> QED BY <2>3, <2>4
<1>3. CASE DoRestore(t)
  <2>1. \A u \in Tabs : Tame(u)
    BY <1>3, AnsweredIsTame DEF DoRestore
  <2>2. CASE UNCHANGED <<flags, unwanted>>
    BY <1>0, <2>1, <2>2, TameKeeps DEF InTrash
  <2>3. CASE /\ flags' = [s \in Seqs |-> flags[s] \ (IF s \in job[t].seqs THEN {"trashed"} ELSE {})]
             /\ Wanted(job[t].seqs)
    <3>1. InTrash' \subseteq InTrash \ job[t].seqs
      BY <2>3 DEF InTrash
    <3> QED BY <2>1, <2>3, <3>1, RestoreKeeps
  <2> QED BY <1>3, <2>2, <2>3 DEF DoRestore
<1>4. CASE DoDeleteAll(t)
  <2>1. InTrash' \subseteq InTrash
    BY <1>4 DEF DoDeleteAll, PermanentlyDelete, InTrash
  <2> QED BY <1>0, <1>4, <2>1, AnsweredIsTame, TameKeeps DEF DoDeleteAll
<1>5. ASSUME NEW s \in Seqs, DoDelete(t, s)
      PROVE  KeptInv'
  <2>1. InTrash' \subseteq InTrash /\ unwanted' = unwanted
    BY <1>5 DEF DoDelete, DeleteOne, PermanentlyDelete, InTrash
  <2>2. CASE Answered(t) \/ JobFails(t)
    BY <1>0, <2>1, <2>2, AnsweredIsTame, TameKeeps
  <2>3. CASE job' = [job EXCEPT ![t].seqs = @ \ {s}]
    <3>1. job'[t].op = "delete" /\ job'[t].set = job[t].set /\ job'[t].clear = job[t].clear
      BY <1>0, <1>5, <2>3 DEF DoDelete, MailJobs, MailboxTypeOK
    <3>2. \A u \in Tabs : u # t => job'[u] = job[u]
      BY <2>3 DEF MailboxTypeOK
    <3>3. \A u \in Tabs : Tame(u)
      BY <3>1, <3>2 DEF Tame, KeptInv, PatchIsOneFlag
    <3> QED BY <1>0, <2>1, <3>3, TameKeeps
  <2> QED BY <1>5, <2>2, <2>3 DEF DoDelete, Answered
<1> QED BY <1>1, <1>2, <1>3, <1>4, <1>5

\* The user clicks.
LEMMA ClickKeepsKept ==
    ASSUME MailboxTypeOK, KeptInv, NEW t \in Tabs,
           ClickPatch(t) \/ ClickDelete(t) \/ ClickDeleteAll(t) \/ ClickRestore(t)
    PROVE  KeptInv'
<1>1. ASSUME NEW op, NEW seqs, NEW set, NEW clear, Click(t, op, seqs, set, clear)
      PROVE  /\ InTrash' = InTrash
             /\ job'[t] = [op |-> op, seqs |-> seqs, set |-> set, clear |-> clear]
             /\ \A u \in Tabs : u # t => job'[u] = job[u]
  BY <1>1 DEF Click, node, InTrash, MailboxTypeOK
<1>2. CASE ClickPatch(t)
  <2>0. PICK trash \in BOOLEAN, f \in Flags, on \in BOOLEAN : \E seqs \in Targets(t, trash) :
            /\ PatchSeqs(t, seqs, f, on)
            /\ unwanted' = IF f = "trashed" /\ on THEN unwanted \cup seqs ELSE unwanted
    BY <1>2 DEF ClickPatch
  <2>1. PICK seqs \in Targets(t, trash) :
            /\ PatchSeqs(t, seqs, f, on)
            /\ unwanted' = IF f = "trashed" /\ on THEN unwanted \cup seqs ELSE unwanted
    BY <2>0
  <2>2. /\ InTrash' = InTrash /\ \A u \in Tabs : u # t => job'[u] = job[u]
        /\ job'[t] = [op |-> "patch", seqs |-> seqs, set |-> IF on THEN {f} ELSE {},
                      clear |-> IF on THEN {} ELSE {f}]
    BY <1>1, <2>1 DEF PatchSeqs
  <2>3. unwanted \subseteq unwanted'
    BY <2>1
  <2>4. InTrash' \subseteq unwanted'
    BY <2>2, <2>3 DEF KeptInv, TrashIsUnwanted
  <2>5. ASSUME NEW u \in Tabs, job'[u].op = "patch", "trashed" \in job'[u].set
        PROVE  job'[u].seqs \subseteq unwanted'
    <3>1. CASE u = t
      BY <2>1, <2>2, <2>5, <3>1
    <3>2. CASE u # t
      BY <2>2, <2>3, <2>5, <3>2 DEF KeptInv, TrashIsUnwanted
    <3> QED BY <3>1, <3>2
  <2>6. PatchIsOneFlag'
    BY <2>2 DEF KeptInv, PatchIsOneFlag
  <2> QED BY <2>4, <2>5, <2>6 DEF KeptInv, TrashIsUnwanted
<1>3. ASSUME NEW op, op # "patch", NEW seqs, NEW clear, Click(t, op, seqs, {}, clear),
             unwanted' = unwanted
      PROVE  KeptInv'
  <2>0. /\ InTrash' = InTrash
        /\ job'[t] = [op |-> op, seqs |-> seqs, set |-> {}, clear |-> clear]
        /\ \A u \in Tabs : u # t => job'[u] = job[u]
    BY <1>1, <1>3, Zenon
  <2>1. \A u \in Tabs : Tame(u)
    BY <1>3, <2>0 DEF Tame
  <2>2. InTrash' \subseteq unwanted
    BY <2>0 DEF KeptInv, TrashIsUnwanted
  <2> QED BY <1>3, <2>1, <2>2, TameKeeps
<1> QED BY <1>2, <1>3 DEF ClickDelete, ClickDeleteAll, ClickRestore

\* Every step keeps it.
LEMMA StepKeepsKept == MailboxTypeOK /\ KeptInv /\ [MailboxNext]_mailboxVars => KeptInv'
<1> SUFFICES ASSUME MailboxTypeOK, KeptInv, [MailboxNext]_mailboxVars PROVE KeptInv'
  OBVIOUS
<1>0. flags \in [Seqs -> SUBSET Flags] /\ InTrash \subseteq unwanted
  BY DEF MailboxTypeOK, KeptInv, TrashIsUnwanted
<1>1. ASSUME NEW t \in Tabs, NEW i \in Calls, Reload(t, i)
      PROVE  KeptInv'
  <2>1. \A u \in Tabs : Tame(u)
    BY <1>1
    DEF Reload, FetchIndex, ShowMails, ReloadFails, FreeKey, NoJob, keyed, Tame, MailboxTypeOK
  <2>2. unwanted' = unwanted /\ InTrash' = InTrash
    BY <1>1 DEF Reload, FetchIndex, ShowMails, ReloadFails, node, InTrash
  <2> QED BY <1>0, <2>1, <2>2, TameKeeps
<1>2. ASSUME NEW t \in Tabs, NEW s \in Seqs, OpenedAnswered(t, s)
      PROVE  KeptInv'
  <2>1. job' = job /\ unwanted' = unwanted
    BY <1>2 DEF OpenedAnswered, keyed
  <2>2. InTrash' \subseteq InTrash
    BY <1>2 DEF OpenedAnswered, Patch, Patched, InTrash
  <2> QED BY <1>0, <2>1, <2>2, TameKeeps DEF Tame
<1>3. CASE \/ Arrive
           \/ \E t \in Tabs : ClickReload(t) \/ \E s \in Seqs : MarkOpened(t, s)
           \/ UNCHANGED mailboxVars
  <2>1. job' = job /\ unwanted' = unwanted /\ flags' = flags
    BY <1>3 DEF Arrive, ClickReload, MarkOpened, mailboxVars, node, keyed
  <2> QED BY <2>1 DEF KeptInv, TrashIsUnwanted, PatchIsOneFlag, InTrash
<1> QED BY <1>1, <1>2, <1>3, ClickKeepsKept, JobKeepsKept DEF MailboxNext

\* Only what the user has sent to the trash, and not put back, is deleted for ever: in
\* however many tabs, with whatever lists and answers that are out of date.
THEOREM KeptMailIsNotDeleted == MailboxSpec => KeptMailStays
<1> DEFINE Kept == rows \ rows' \subseteq unwanted
<1>1. MailboxInit => KeptInv
  <2> SUFFICES ASSUME MailboxInit PROVE KeptInv
    OBVIOUS
  <2>1. InTrash \subseteq unwanted
    BY DEF MailboxInit, InTrash
  <2> QED BY <2>1 DEF MailboxInit, NoJob, KeptInv, TrashIsUnwanted, PatchIsOneFlag
<1>2. MailboxTypeOK /\ KeptInv /\ [MailboxNext]_mailboxVars => [Kept]_mailboxVars
  <2> SUFFICES ASSUME KeptInv, MailboxNext PROVE Kept
    BY DEF mailboxVars, node
  <2>1. InTrash \subseteq unwanted
    BY DEF KeptInv, TrashIsUnwanted
  <2>2. ASSUME NEW t \in Tabs,
               \/ RequestLost(t) \/ DoPatch(t) \/ DoRestore(t) \/ DoDeleteAll(t)
               \/ \E s \in Seqs : DoDelete(t, s)
        PROVE  Kept
    BY <2>1, <2>2
    DEF RequestLost, DoPatch, DoRestore, DoDeleteAll, DoDelete, DeleteOne, PermanentlyDelete
  <2>3. ASSUME NEW t \in Tabs,
               ClickPatch(t) \/ ClickDelete(t) \/ ClickDeleteAll(t) \/ ClickRestore(t)
        PROVE  Kept
    BY <2>3 DEF ClickPatch, ClickDelete, ClickDeleteAll, ClickRestore, PatchSeqs, Click, node
  <2>4. ASSUME NEW t \in Tabs, ClickReload(t) \/ \E i \in Calls : Reload(t, i)
        PROVE  Kept
    BY <2>4 DEF ClickReload, Reload, FetchIndex, ShowMails, ReloadFails, node
  <2>5. ASSUME NEW t \in Tabs, NEW s \in Seqs, MarkOpened(t, s) \/ OpenedAnswered(t, s)
        PROVE  Kept
    BY <2>5 DEF MarkOpened, OpenedAnswered, node
  <2>6. ASSUME Arrive PROVE Kept
    BY <2>6 DEF Arrive
  <2> QED BY <2>2, <2>3, <2>4, <2>5, <2>6 DEF MailboxNext
<1> QED
  BY <1>1, <1>2, StepKeepsKept, MailboxTypeCorrect, PTL DEF MailboxSpec, KeptMailStays
=============================================================================
