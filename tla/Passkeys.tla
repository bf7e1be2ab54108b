------------------------------ MODULE Passkeys ------------------------------
(***************************************************************************)
(* The passkey prompts of a page: lib/webauthn.ts.  The browser shows one  *)
(* at a time and refuses a second call while the first is pending, so the  *)
(* page runs its ceremonies one after the other, in the order in which     *)
(* they were asked for; logging out aborts the one that is open.           *)
(*                                                                         *)
(* The flows are what asks for ceremonies: App.tsx, which runs one of its  *)
(* actions at a time, InboxPage.tsx and each of the modals.  The browser   *)
(* is external: it settles a call when the user has acted, or the call was *)
(* aborted, or it gives up.  Time is not modelled: the pauses of a second  *)
(* or three that webauthn.ts makes are steps of their own.                 *)
(***************************************************************************)
EXTENDS Naturals

CONSTANTS
    Flows,
    MaxCeremonies       \* bound: ceremonies asked for

ASSUME PasskeysAssumption == MaxCeremonies \in Nat

VARIABLES
    serial,             \* ceremonySerial: the ceremonies asked for so far
    pc,                 \* where each ceremony is
    kind,               \* createPasskey, connectPasskey or assertWebAuthn, until it is over
    seen,               \* the call a ceremony waits for in awaitBrowserSlot
    rejected,           \* the last ceremony that ended was rejected
    aborted,            \* ceremonies under way whose signal is aborted
    ceremonyAbort,      \* the ceremony of the AbortController, 0 for null
    activeBrowserCall,  \* the ceremony of the pending call, 0 for null
    flow                \* what each flow waits for

ceremonies == <<serial, kind>>
signals == <<aborted, ceremonyAbort>>
vars == <<ceremonies, pc, seen, rejected, signals, activeBrowserCall, flow>>

Serials == 1..MaxCeremonies
Off == [at |-> "off", for |-> 0]

Init ==
    /\ serial = 0
    /\ pc = [c \in Serials |-> "none"] /\ kind = [c \in Serials |-> "none"]
    /\ seen = [c \in Serials |-> 0]
    /\ rejected = FALSE /\ aborted = {}
    /\ ceremonyAbort = 0 /\ activeBrowserCall = 0
    /\ flow = [f \in Flows |-> Off]

Goto(c, step) == pc' = [pc EXCEPT ![c] = step]

\* The browser's call of ceremony c, if there is one, is no longer pending.
CallIsOver(c) == \A b \in Serials : b = c => pc[b] \in {"settling", "over"}

-----------------------------------------------------------------------------
(* The flows.                                                              *)

\* awaitPasskeyIdle: for the call that is pending, if there is one.
AwaitPasskeyIdle(f) ==
    /\ flow[f] = Off /\ serial < MaxCeremonies
    /\ flow' = [flow EXCEPT ![f] = [at |-> "idle", for |-> activeBrowserCall]]
    /\ UNCHANGED <<ceremonies, pc, seen, rejected, signals, activeBrowserCall>>

\* It is settled: that the next one may have begun meanwhile is not looked at.
Idle(f) == flow[f].at = "idle" /\ CallIsOver(flow[f].for)

StartWithController(f, k) ==    \* mutant of WithCeremony: the controller is made at once
    /\ flow[f] = Off \/ Idle(f)
    /\ serial < MaxCeremonies /\ serial' = serial + 1
    /\ kind' = [kind EXCEPT ![serial'] = k]
    /\ Goto(serial', "queued") /\ ceremonyAbort' = serial'
    /\ flow' = [flow EXCEPT ![f] = [at |-> "ceremony", for |-> serial']]
    /\ UNCHANGED <<seen, rejected, aborted, activeBrowserCall>>

\* withCeremony: a ceremony at the end of the queue.
WithCeremony(f, k) ==
    /\ flow[f] = Off \/ Idle(f)
    /\ serial < MaxCeremonies /\ serial' = serial + 1
    /\ kind' = [kind EXCEPT ![serial'] = k]
    /\ Goto(serial', "queued")
    /\ flow' = [flow EXCEPT ![f] = [at |-> "ceremony", for |-> serial']]
    /\ UNCHANGED <<seen, rejected, signals, activeBrowserCall>>

\* Only assertWebAuthn takes the prompts away that browsers show by themselves.
CreatePasskey(f) == WithCeremony(f, "create")
ConnectPasskey(f) == WithCeremony(f, "connect")
AssertWebAuthn(f) == WithCeremony(f, "assert")

\* The promise is settled, and the flow hears of it. A flow whose wait was the last that
\* the bound allows ends there.
FlowGoesOn(f) ==
    /\ \/ flow[f].at = "ceremony" /\ \A c \in Serials : c = flow[f].for => pc[c] = "over"
       \/ Idle(f) /\ serial = MaxCeremonies
    /\ flow' = [flow EXCEPT ![f] = Off]
    /\ UNCHANGED <<ceremonies, pc, seen, rejected, signals, activeBrowserCall>>

\* logout: abortPasskeyCeremony. Ceremonies in the queue, and flows, go on.
Logout ==
    /\ aborted' = aborted \cup ({ceremonyAbort} \ {0})
    /\ ceremonyAbort' = 0
    /\ UNCHANGED <<ceremonies, pc, seen, rejected, activeBrowserCall, flow>>

-----------------------------------------------------------------------------
(* A ceremony.                                                             *)

\* The promise that ceremonyQueue is: fulfilled when the one before is settled.
QueueIsAt(c) == \A b \in Serials : b = c - 1 => pc[b] = "over"

EnterAtOnce(c) ==               \* mutant of Enter: there is no queue
    /\ pc[c] = "queued"
    /\ Goto(c, "slot") /\ seen' = [seen EXCEPT ![c] = activeBrowserCall]
    /\ ceremonyAbort' = c
    /\ UNCHANGED <<ceremonies, rejected, aborted, activeBrowserCall, flow>>

EnterAfterSuccess(c) ==         \* mutant of Enter: ceremonyQueue may be rejected
    /\ pc[c] = "queued" /\ QueueIsAt(c) /\ ~rejected
    /\ Goto(c, "slot") /\ seen' = [seen EXCEPT ![c] = activeBrowserCall]
    /\ ceremonyAbort' = c
    /\ UNCHANGED <<ceremonies, rejected, aborted, activeBrowserCall, flow>>

\* Its turn has come, whatever became of the one before: a controller of its own,
\* and awaitBrowserSlot begins.
Enter(c) ==
    /\ pc[c] = "queued" /\ QueueIsAt(c)
    /\ Goto(c, "slot") /\ seen' = [seen EXCEPT ![c] = activeBrowserCall]
    /\ ceremonyAbort' = c
    /\ UNCHANGED <<ceremonies, rejected, aborted, activeBrowserCall, flow>>

\* awaitBrowserSlot ends: the slot is not looked at again.
SlotIsFree(c) ==
    /\ pc[c] = "slot" /\ CallIsOver(seen[c])
    /\ Goto(c, IF kind[c] = "assert" THEN "clearing" ELSE "ready")
    /\ seen' = [seen EXCEPT ![c] = 0]
    /\ UNCHANGED <<ceremonies, rejected, signals, activeBrowserCall, flow>>

\* preventSilentAccess.
Cleared(c) ==
    /\ pc[c] = "clearing"
    /\ Goto(c, "ready")
    /\ UNCHANGED <<ceremonies, seen, rejected, signals, activeBrowserCall, flow>>

\* What the browser may answer: nothing, when the call breaks, or a credential, which
\* may be another than was asked for and may lack each of the parts.
Answers == {{}} \cup
    {{"credential"} \cup a : a \in SUBSET
        {"asked for", "prf", "public key", "attested key", "signature", "client data"}}

\* prfFrom and parseEcdsaDer: 32 bytes, and a signature in two integers, or an error.
HasPrf(answer) == "prf" \in answer
HasSignature(answer) == "signature" \in answer

\* p256CoordsFromPublicKey: some browsers have the key in the attestation only.
HasKey(answer) == {"public key", "attested key"} \cap answer # {}

\* clientDataJsonIndices.
HasIndices(answer) == "client data" \in answer

CreateAccepts(answer) == "credential" \in answer /\ HasKey(answer) /\ HasPrf(answer)
ConnectAccepts(answer) == {"credential", "asked for"} \subseteq answer /\ HasPrf(answer)
AssertAccepts(answer) == "credential" \in answer /\ HasSignature(answer) /\ HasIndices(answer)

Accepts(k, answer) ==
    CASE k = "create"  -> CreateAccepts(answer)
      [] k = "connect" -> ConnectAccepts(answer)
      [] k = "assert"  -> AssertAccepts(answer)

\* run: finally.
Exit(c) ==
    /\ Goto(c, "over")
    /\ kind' = [kind EXCEPT ![c] = "none"] /\ aborted' = aborted \ {c}
    /\ ceremonyAbort' = IF ceremonyAbort = c THEN 0 ELSE ceremonyAbort

ClearingFails(c) ==
    /\ pc[c] = "clearing"
    /\ Exit(c) /\ rejected' = TRUE
    /\ UNCHANGED <<serial, seen, activeBrowserCall, flow>>

\* browserCreate and browserGet: navigator.credentials.create or get.
Call(c) ==
    /\ pc[c] = "ready"
    /\ Goto(c, "calling") /\ activeBrowserCall' = c
    /\ UNCHANGED <<ceremonies, seen, rejected, signals, flow>>

\* The user, the signal or the browser ends the call, with a passkey or an error; the
\* slot is free before the pause.
Settle(c) ==
    /\ pc[c] = "calling"
    /\ Goto(c, "settling")
    /\ activeBrowserCall' = IF activeBrowserCall = c THEN 0 ELSE activeBrowserCall
    /\ UNCHANGED <<ceremonies, seen, rejected, signals, flow>>

\* After the pause: what the answer lacks is an error, too.
Finish(c) ==
    /\ pc[c] = "settling"
    /\ Exit(c)
    /\ \E answer \in Answers : rejected' = ~Accepts(kind[c], answer)
    /\ UNCHANGED <<serial, seen, activeBrowserCall, flow>>

Ceremony(c) ==
    Enter(c) \/ SlotIsFree(c) \/ Cleared(c) \/ ClearingFails(c) \/ Call(c) \/ Settle(c) \/ Finish(c)

-----------------------------------------------------------------------------
Flow(f) ==
    \/ AwaitPasskeyIdle(f) \/ FlowGoesOn(f)
    \/ CreatePasskey(f) \/ ConnectPasskey(f) \/ AssertWebAuthn(f)

Next ==
    \/ Logout
    \/ \E f \in Flows : Flow(f)
    \/ \E c \in Serials : Ceremony(c)

Spec == Init /\ [][Next]_vars

\* The browser settles every call, if only because the user closes the prompt or it
\* gives up after a while; the rest are promises and timers of the page. A flow that
\* was waiting for the slot has its challenge and goes on.
FairSpec ==
    /\ Spec
    /\ \A c \in Serials : WF_vars(Ceremony(c))
    /\ \A f \in Flows : WF_vars(FlowGoesOn(f)) /\ WF_vars(Idle(f) /\ AssertWebAuthn(f))

-----------------------------------------------------------------------------
(* Properties.                                                             *)

Steps == {"none", "queued", "slot", "clearing", "ready", "calling", "settling", "over"}
Kinds == {"none", "create", "connect", "assert"}

FlowStates == [at : {"off", "idle", "ceremony"}, for : {0} \cup Serials]

\* The type invariant.
TypeOK ==
    /\ serial \in 0..MaxCeremonies
    /\ pc \in [Serials -> Steps] /\ kind \in [Serials -> Kinds]
    /\ seen \in [Serials -> {0} \cup Serials]
    /\ rejected \in BOOLEAN /\ aborted \subseteq Serials
    /\ ceremonyAbort \in {0} \cup Serials /\ activeBrowserCall \in {0} \cup Serials
    /\ flow \in [Flows -> FlowStates]

\* The browser never has two calls of this page, though awaitBrowserSlot looks at the
\* slot only once and preventSilentAccess comes between the look and the call; and the
\* page knows the call that is pending.
OneBrowserCall == \A c \in Serials : pc[c] = "calling" => activeBrowserCall = c

\* Logging out ends the prompt that is open: the controller that is aborted is that of
\* the pending call, not of a ceremony that is queued or over.
LogoutEndsThePrompt ==
    [][Logout => activeBrowserCall \in {0} \cup aborted']_vars

\* Every flow is answered, whatever fails and whoever logs out: one that waits for the
\* slot and one that waits in the queue do not wait for each other, and a ceremony that
\* fails does not stop those behind it.
FlowsEnd == \A f \in Flows : flow[f] # Off ~> flow[f] = Off
=============================================================================
