------------------------------- MODULE OpenPgp -------------------------------
(***************************************************************************)
(* The OpenPGP identity of a mailbox, and the switch that opts it in:      *)
(* openpgp-mail.ts, openpgp-keys.ts and openpgp-http.ts, the start and the *)
(* end of reloadCore, and optToggle and completeOptIn of InboxPage.tsx.    *)
(*                                                                         *)
(* A tab that takes the mailbox for opted in and holds no OpenPGP key asks *)
(* the node for one, and makes and publishes one if there is none.  Tabs,  *)
(* and the reloads of one tab, do so side by side; the node keeps the last *)
(* one.  A key is wrapped with the DEK, which is known by its generation.  *)
(* The registry may change between any two steps, by a tab of the mailbox  *)
(* or because the name gets a new holder.                                  *)
(***************************************************************************)
EXTENDS Naturals, FiniteSets

CONSTANTS
    Tabs,
    MaxGeneration, MaxKeys, MaxToggles      \* bounds of the model

ASSUME OpenPgpAssumption ==
    /\ {MaxKeys, MaxToggles} \subseteq Nat /\ MaxGeneration \in Nat \ {0}

VARIABLES
    open,           \* isOptedIn of the registry, for this node
    generation,     \* of the mailbox: 1 is the first holder
    stored,         \* createOpenPgpKeyStore: the record of the mailbox, and its file
    made,           \* keys generated so far
    dek,            \* the DEK of each tab
    switch,         \* session.optedIn of each tab
    ref,            \* openPgpPrivateRef of each tab
    failed,         \* loadError of each tab
    reloads,        \* the calls of reloadCore of each tab
    opting, toggles,        \* the action under the key "opt", and how many there were
    pending,                \* PENDING_OPTIN_KEY of each tab
    published       \* history: the records the node has stored

registry == <<open, generation>>
keys == <<stored, made, published>>
session == <<switch, ref, failed>>
opt == <<opting, toggles, pending>>
vars == <<registry, keys, dek, session, reloads, opt>>

Calls == 1..2
NoKey == [key |-> 0, dek |-> 0]
NoReload == [step |-> "none", key |-> 0, answer |-> FALSE, seen |-> FALSE]

FirstReload == [i \in Calls |-> IF i = 1 THEN [NoReload EXCEPT !.step = "start"] ELSE NoReload]

Init ==
    /\ open \in BOOLEAN /\ generation = 1
    /\ stored = NoKey /\ made = 0 /\ published = {}
    /\ dek = [t \in Tabs |-> 1]
    /\ switch = [t \in Tabs |-> open]
    /\ ref = [t \in Tabs |-> 0]
    /\ failed = [t \in Tabs |-> FALSE]
    /\ reloads = [t \in Tabs |-> FirstReload]
    /\ opting = [t \in Tabs |-> "none"] /\ toggles = 0
    /\ pending = [t \in Tabs |-> FALSE]

At(t, i, step) == reloads[t][i].step = step
Goto(t, i, step) == reloads' = [reloads EXCEPT ![t][i] = [NoReload EXCEPT !.step = step]]

\* The registry has changed: a publication that waits has seen it.
SeenBy(yes) ==
    [t \in Tabs |-> [i \in Calls |->
        [reloads[t][i] EXCEPT !.seen = @ \/ (yes /\ reloads[t][i].step \in {"asking", "storing"})]]]

-----------------------------------------------------------------------------
(* ensureOpenPgpIdentity, at the start of reloadCore.                      *)

\* isOptedIn of the node, which asks the relayer: an error of it reads as no.
IsOptedIn == {open, FALSE}

\* GET /openpgp/<name>: the record, if there is one; or another answer, or none.
Lookup == {stored, NoKey}

\* wrapOpenPgpPrivate and unwrapOpenPgpPrivate: a record opens with one DEK only.
Wrapped(key, d) == [key |-> key, dek |-> d]
Unwraps(record, d) == record.dek = d

\* generateOpenPgpIdentity.
NewIdentity == made < MaxKeys /\ made' = made + 1

\* The node has a record: its key is unwrapped. With another DEK that throws, which
\* reloadCore ignores.
UseStored(t, i) ==
    /\ At(t, i, "start") /\ switch[t] /\ ref[t] = 0
    /\ \E record \in Lookup \ {NoKey} :
           ref' = IF Unwraps(record, dek[t]) THEN [ref EXCEPT ![t] = record.key] ELSE ref
    /\ Goto(t, i, "list")
    /\ UNCHANGED <<registry, keys, dek, switch, failed, opt>>

\* It has none, or does not answer with one: a new key is generated and posted.
Generate(t, i) ==
    /\ At(t, i, "start") /\ switch[t] /\ ref[t] = 0
    /\ NewIdentity
    /\ reloads' = [reloads EXCEPT ![t][i].step = "asking", ![t][i].key = made', ![t][i].seen = open]
    /\ UNCHANGED <<registry, stored, published, dek, session, opt>>

\* POST /openpgp: the node asks the registry.
AskOptedIn(t, i) ==
    /\ At(t, i, "asking")
    /\ \E yes \in IsOptedIn :
           reloads' = [reloads EXCEPT ![t][i].step = "storing", ![t][i].answer = yes]
    /\ UNCHANGED <<registry, keys, dek, session, opt>>

StoreKey(t, i) ==
    LET record == Wrapped(reloads[t][i].key, dek[t]) IN
    /\ stored' = record
    /\ published' = published \cup {record}

StoreUnasked(t, i) ==           \* mutant of Publish: the node does not wait for the registry
    /\ At(t, i, "asking")
    /\ StoreKey(t, i)
    /\ ref' = [ref EXCEPT ![t] = reloads[t][i].key]
    /\ Goto(t, i, "list")
    /\ UNCHANGED <<registry, made, dek, switch, failed, opt>>

KeepUnpublished(t, i) ==        \* mutant of Publish: the tab does not look at the answer
    /\ At(t, i, "storing")
    /\ IF reloads[t][i].answer THEN StoreKey(t, i) ELSE UNCHANGED <<stored, published>>
    /\ ref' = [ref EXCEPT ![t] = reloads[t][i].key]
    /\ Goto(t, i, "list")
    /\ UNCHANGED <<registry, made, dek, switch, failed, opt>>

\* Opted in: the record replaces the one that is there, and the tab has its key,
\* unless the answer is lost.
Publish(t, i) ==
    /\ At(t, i, "storing") /\ reloads[t][i].answer
    /\ StoreKey(t, i)
    /\ ref' = [ref EXCEPT ![t] = reloads[t][i].key] \/ UNCHANGED ref
    /\ Goto(t, i, "list")
    /\ UNCHANGED <<registry, made, dek, switch, failed, opt>>

\* Not opted in, or no connection: reloadCore goes on without a key.
PublishFails(t, i) ==
    /\ \/ At(t, i, "start") /\ switch[t] /\ ref[t] = 0
       \/ At(t, i, "asking")
       \/ At(t, i, "storing") /\ ~reloads[t][i].answer
    /\ Goto(t, i, "list")
    /\ UNCHANGED <<registry, keys, dek, session, opt>>

NoNeed(t, i) ==
    /\ At(t, i, "start") /\ (switch[t] => ref[t] # 0)
    /\ Goto(t, i, "list")
    /\ UNCHANGED <<registry, keys, dek, session, opt>>

-----------------------------------------------------------------------------
(* The end of reloadCore.                                                  *)

\* The mails are shown; the registry is asked.
AskSwitch(t, i) ==
    /\ At(t, i, "list")
    /\ reloads' = [reloads EXCEPT ![t][i].step = "update", ![t][i].answer = open]
    /\ UNCHANGED <<registry, keys, dek, session, opt>>

UpdateOnce(t, i) ==             \* mutant of UpdateSession: the effect does not run again
    /\ At(t, i, "update")
    /\ switch' = [switch EXCEPT ![t] = reloads[t][i].answer]
    /\ failed' = [failed EXCEPT ![t] = FALSE]
    /\ Goto(t, i, "none")
    /\ UNCHANGED <<registry, keys, dek, ref, opt>>

\* onSessionUpdate, and the effect runs reloadCore again.
UpdateSession(t, i) ==
    /\ At(t, i, "update")
    /\ switch' = [switch EXCEPT ![t] = reloads[t][i].answer]
    /\ failed' = [failed EXCEPT ![t] = FALSE]
    /\ Goto(t, i, "start")
    /\ UNCHANGED <<registry, keys, dek, ref, opt>>

ReloadFails(t, i) ==
    /\ At(t, i, "list")
    /\ failed' = [failed EXCEPT ![t] = TRUE]
    /\ Goto(t, i, "none")
    /\ UNCHANGED <<registry, keys, dek, switch, ref, opt>>

Reload(t, i) ==
    \/ UseStored(t, i) \/ Generate(t, i) \/ AskOptedIn(t, i) \/ Publish(t, i) \/ PublishFails(t, i)
    \/ NoNeed(t, i) \/ AskSwitch(t, i) \/ UpdateSession(t, i) \/ ReloadFails(t, i)

-----------------------------------------------------------------------------
(* The switch, and the holder.                                             *)

\* The page is loaded afresh: the key in memory is gone, and what was on the way.
FreshPage(t) ==
    /\ ref' = [ref EXCEPT ![t] = 0]
    /\ failed' = [failed EXCEPT ![t] = FALSE]
    /\ opting' = [opting EXCEPT ![t] = "none"]
    /\ reloads' = [reloads EXCEPT ![t] = FirstReload]

\* optToggle, to opt in: the first click loads the page afresh.
Prepare(t) ==
    /\ opting[t] = "none" /\ ~switch[t] /\ ~pending[t]
    /\ pending' = [pending EXCEPT ![t] = TRUE]
    /\ FreshPage(t)
    /\ UNCHANGED <<registry, keys, dek, switch, toggles>>

\* optToggle and completeOptIn: a passkey of the holder signs.
OptToggle(t) ==
    /\ opting[t] = "none" /\ dek[t] = generation
    /\ switch[t] \/ pending[t]
    /\ toggles < MaxToggles /\ toggles' = toggles + 1
    /\ opting' = [opting EXCEPT ![t] = IF switch[t] THEN "out" ELSE "in"]
    /\ UNCHANGED <<registry, keys, dek, session, reloads, pending>>

OptAnswered(t) ==
    /\ opting[t] # "none"
    /\ opting' = [opting EXCEPT ![t] = "none"]
    /\ \/ open' = (opting[t] = "in") /\ dek[t] = generation
       \/ UNCHANGED open
    /\ UNCHANGED <<generation, keys, dek, ref, toggles>>

\* Whatever the relayer answers: the session says what was asked for, and the effect
\* runs reloadCore once more.
Believe(t) ==
    /\ switch' = [switch EXCEPT ![t] = (opting[t] = "in")]
    /\ pending' = [pending EXCEPT ![t] = @ /\ opting[t] = "out"]
    /\ \E i \in Calls :
           /\ At(t, i, "none")
           /\ reloads' = [SeenBy(open') EXCEPT ![t][i].step = "start"]
    /\ failed' = [failed EXCEPT ![t] = FALSE]

\* An exception: the switch stays.
OptThrows(t) == reloads' = SeenBy(open') /\ UNCHANGED <<switch, failed, pending>>

Opt(t) == OptAnswered(t) /\ (Believe(t) \/ OptThrows(t))

\* The name is vacated and bound again; a tab of the new holder is opened.
NewHolder(t) ==
    /\ generation < MaxGeneration /\ generation' = generation + 1
    /\ open' = FALSE
    /\ dek' = [dek EXCEPT ![t] = generation']
    /\ switch' = [switch EXCEPT ![t] = FALSE] /\ pending' = [pending EXCEPT ![t] = FALSE]
    /\ FreshPage(t)
    /\ UNCHANGED <<keys, toggles>>

Next ==
    \/ \E t \in Tabs, i \in Calls : Reload(t, i)
    \/ \E t \in Tabs : Prepare(t) \/ OptToggle(t) \/ Opt(t) \/ NewHolder(t)

Spec == Init /\ [][Next]_vars

\* A reload goes on or fails.
FairSpec == Spec /\ \A t \in Tabs, i \in Calls : WF_vars(Reload(t, i))

-----------------------------------------------------------------------------
(* Properties.                                                             *)

Steps == {"none", "start", "asking", "storing", "list", "update"}
KeyNumbers == 0..MaxKeys
Records == [key : KeyNumbers, dek : 0..MaxGeneration]
Reloads == [step : Steps, key : KeyNumbers, answer : BOOLEAN, seen : BOOLEAN]

\* What the node keeps of a key and what a tab holds of one.
TypeOK ==
    /\ open \in BOOLEAN /\ generation \in 1..MaxGeneration
    /\ stored \in Records /\ made \in KeyNumbers /\ published \subseteq Records
    /\ dek \in [Tabs -> 1..MaxGeneration] /\ ref \in [Tabs -> KeyNumbers]
    /\ {switch, failed, pending} \subseteq [Tabs -> BOOLEAN]
    /\ reloads \in [Tabs -> [Calls -> Reloads]]
    /\ opting \in [Tabs -> {"none", "in", "out"}] /\ toggles \in 0..MaxToggles

\* A key is published only if the node was opted in at some moment after the node
\* had the request: an opt-out that the registry applied before stops it, one that
\* comes after the registry was asked does not.
OptOutStopsPublishing ==
    [][\A t \in Tabs, i \in Calls : Publish(t, i) => reloads[t][i].seen]_vars

\* What a tab decrypts with is a key that the directory has shown, wrapped with the
\* DEK of the tab, whoever else published meanwhile and whatever was lost.
HeldKeyWasPublished ==
    \A t \in Tabs : ref[t] # 0 => [key |-> ref[t], dek |-> dek[t]] \in published

\* The tab believes what it asked the relayer for, whatever the relayer answered; in
\* the end it says what the registry says, or shows an error.
SwitchCatchesUp == \A t \in Tabs : <>[](failed[t] \/ switch[t] = open)
=============================================================================
