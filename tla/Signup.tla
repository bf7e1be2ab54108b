------------------------------- MODULE Signup -------------------------------
(***************************************************************************)
(* Signing up: the invoices of signup.ts, the payment service behind       *)
(* commerce-invoice.ts, the relayer that registers a paid name, and the    *)
(* tabs of one browser (App.tsx, PayModal.tsx, RecoveryModal.tsx) with     *)
(* what they keep in localStorage (passkeys, drafts) and sessionStorage.   *)
(*                                                                         *)
(* The invoices live in the memory of the node and are lost when it        *)
(* restarts; the payment service keeps its own, under the key the node     *)
(* gave.  A tab may be reloaded at any time; the call it waited for goes   *)
(* on without it. A webhook is lost or repeated, and it is believed,       *)
(* whoever sent it. The relayer answers 200 for every transaction that was *)
(* mined, as module Relayer shows.                                         *)
(***************************************************************************)
EXTENDS Naturals, Sequences, FiniteSets

CONSTANTS
    Creds,              \* passkeys that can be created
    Names,              \* OE ids
    Tabs,
    MaxInvoices, MaxDeks, MaxRestarts,      \* bounds of the model
    None

ASSUME SignupAssumption ==
    {MaxInvoices, MaxDeks, MaxRestarts} \subseteq Nat

VARIABLES
    book,               \* byId: the invoices of the node
    byCred,             \* byCred: the id last created for a credential, or 0
    n,                  \* the counter of createMemoryInvoices
    life,               \* restarts of the node so far
    remotes,            \* the invoices of the payment service
    vouched,            \* history: the invoices somebody has said were paid, be it the
                        \* service, a webhook or the helper of the tests
    chain,              \* who registered a name, with which DEK
    txs,                \* register transactions on their way to a block
    calls,              \* the call a tab has started, until its handler ends
    tabs,
    passkeys,           \* localStorage: the OE id remembered with a passkey
    drafts,             \* localStorage: the signup of a credential
    deks                \* DEKs generated so far

node == <<book, byCred, n, life>>
service == <<remotes, vouched>>
registry == <<chain, txs>>
storage == <<passkeys, drafts>>
vars == <<node, service, registry, calls, tabs, storage, deks>>

Ids == 1..MaxInvoices
NoInvoice == [status |-> "none", cred |-> None, name |-> None, commerce |-> 0]
NoCall == [op |-> "none", cred |-> None, inv |-> 0, name |-> None, dek |-> 0]
NoSignup == [inv |-> 0, name |-> None, status |-> "none", link |-> 0]
NoTab == [phase |-> "landing", cred |-> None, signup |-> NoSignup, dek |-> 0]
Unregistered == [cred |-> None, dek |-> 0]

Init ==
    /\ book = [i \in Ids |-> NoInvoice] /\ byCred = [c \in Creds |-> 0]
    /\ n = 0 /\ life = 0
    /\ remotes = <<>> /\ vouched = {}
    /\ chain = [x \in Names |-> Unregistered] /\ txs = {}
    /\ calls = [t \in Tabs |-> NoCall] /\ tabs = [t \in Tabs |-> NoTab]
    /\ passkeys = [c \in Creds |-> None] /\ drafts = [c \in Creds |-> NoSignup]
    /\ deks = 0

-----------------------------------------------------------------------------
(* createMemoryInvoices.                                                   *)

Awaiting(i) == i \in Ids /\ book[i].status = "awaiting_payment"

\* getOpenForCredential.
OpenOf(c) == IF Awaiting(byCred[c]) THEN byCred[c] ELSE 0

\* create: the open invoice of the credential takes the new name, or a new one is
\* made; i is its id.
CreateInvoice(c, name, i) ==
    IF OpenOf(c) # 0
    THEN /\ i = OpenOf(c)
         /\ book' = [book EXCEPT ![i].name = name]
         /\ UNCHANGED <<byCred, n>>
    ELSE /\ i = n + 1 /\ i <= MaxInvoices
         /\ book' = [book EXCEPT ![i] = [status |-> "awaiting_payment", cred |-> c,
                                         name |-> name, commerce |-> 0]]
         /\ byCred' = [byCred EXCEPT ![c] = i]
         /\ n' = i

MarkPaidAlways(i) ==            \* mutant of MarkPaid: the status is not read again
    book' = IF book[i].status # "none" THEN [book EXCEPT ![i].status = "paid"] ELSE book

MarkPaid(i) ==
    book' = IF Awaiting(i) THEN [book EXCEPT ![i].status = "paid"] ELSE book

\* cancel: the credential has no open invoice then, unless a newer one took its place.
CancelInvoice(i) ==
    /\ Awaiting(i)
    /\ book' = [book EXCEPT ![i].status = "cancelled"]
    /\ byCred' = [c \in Creds |-> IF byCred[c] = i THEN 0 ELSE byCred[c]]

\* retarget: also of an invoice that is paid.
RetargetInvoice(i, name) ==
    /\ book[i].status \in {"awaiting_payment", "paid"}
    /\ book' = [book EXCEPT ![i].name = name]

\* GET /signup/open: the open invoice as the browser will show it.
OpenSignup(c) ==
    LET i == OpenOf(c) IN
    [inv |-> i, name |-> book[i].name, status |-> book[i].status, link |-> book[i].commerce]

\* What the browser makes of the answer: 404 is no signup.
FetchOpenSignup(c) == IF OpenOf(c) = 0 THEN NoSignup ELSE OpenSignup(c)

\* POST /cancel and POST /retarget, of the API; the web client calls neither.
Cancel(i) ==
    /\ CancelInvoice(i)
    /\ UNCHANGED <<n, life, service, registry, calls, tabs, storage, deks>>

Retarget(i, name) ==
    /\ RetargetInvoice(i, name)
    /\ UNCHANGED <<byCred, n, life, service, registry, calls, tabs, storage, deks>>

\* POST /pay, the temporary test helper.
PayByHand(i) ==
    /\ Awaiting(i)
    /\ MarkPaid(i)
    /\ vouched' = vouched \cup {i}
    /\ UNCHANGED <<byCred, n, life, remotes, registry, calls, tabs, storage, deks>>

\* POST /signup/commerce/webhook, any number of times, or never. It is believed: that
\* the service was paid is neither asked nor shown by a signature.
Webhook(i) ==
    /\ book[i].status # "none"
    /\ MarkPaid(i)
    /\ vouched' = vouched \cup {i}
    /\ UNCHANGED <<byCred, n, life, remotes, registry, calls, tabs, storage, deks>>

-----------------------------------------------------------------------------
(* The payment service: external.  It keeps one invoice per key.           *)

RemoteOf(i) == {r \in DOMAIN remotes : remotes[r].client = i}

PayLink(c) ==
    LET r == drafts[c].link IN
    /\ r \in DOMAIN remotes /\ ~remotes[r].paid
    /\ remotes' = [remotes EXCEPT ![r].paid = TRUE]
    /\ vouched' = vouched \cup {remotes[r].client}
    /\ UNCHANGED <<node, registry, calls, tabs, storage, deks>>

-----------------------------------------------------------------------------
(* The tabs and the calls they make. A request is received when it is sent *)
(* and its answer is read when it is given: between the two lies only the  *)
(* await of the handler.  A tab that was left in the meantime hears        *)
(* nothing, and a call of a tab goes on when it was left.                  *)

Free(t) == calls[t].op = "none"
OnLanding(t) == tabs[t].phase = "landing" /\ Free(t)
Done(t) == calls' = [calls EXCEPT ![t] = NoCall]
Hears(t, phases) == tabs[t].phase \in phases
To(t, phase) == tabs' = [tabs EXCEPT ![t].phase = phase]
Left(t) == tabs' = [tabs EXCEPT ![t] = NoTab]

\* What localStorage keeps: rememberPasskey, saveSignupDraft, clearSignupDraft.
Remember(c, name) == passkeys' = [passkeys EXCEPT ![c] = name]
SaveDraft(c, s) == drafts' = [drafts EXCEPT ![c] = s]
ClearDraft(c) == drafts' = [drafts EXCEPT ![c] = NoSignup]

\* loadSignupDraftByInvoice: after a restart of the node two credentials may have a
\* draft of one number.
DraftsOf(i) == {c \in Creds : drafts[c].inv = i}

\* setSignup, and the effect that saves the draft.
Show(t, c, phase, s) ==
    /\ tabs' = [tabs EXCEPT ![t] = [NoTab EXCEPT !.phase = phase, !.cred = c, !.signup = s]]
    /\ SaveDraft(c, s)

\* redirectToSignup: the draft is saved and the page is loaded anew for it.
RedirectToSignup(t, c, s) == Show(t, c, "resuming", s)

\* enterInbox: the signup of the credential is over.
EnterInbox(t, c) == To(t, "inbox") /\ ClearDraft(c)

\* POST /signup/invoice up to its await: i is the invoice. One with a link of the
\* service is answered at once; a refusal (403, 400) leaves the tab where it was.
PostInvoice(t, c, name) ==
    \E i \in Ids :
        /\ CreateInvoice(c, name, i)
        /\ IF book'[i].commerce # 0
           THEN /\ RedirectToSignup(t, c,
                        [inv |-> i, name |-> name, status |-> "awaiting_payment",
                         link |-> book'[i].commerce])
                /\ UNCHANGED calls
           ELSE /\ calls' = [calls EXCEPT ![t] = [op |-> "create", cred |-> c, inv |-> i,
                                                  name |-> name, dek |-> 0]]
                /\ To(t, "creating")
                /\ UNCHANGED drafts

\* A passkey is created and remembered, then an invoice asked for it; the request may
\* be refused (403, 400) or lost.
NewPasskey(t, c, name) ==
    /\ OnLanding(t) /\ passkeys[c] = None
    /\ Remember(c, name)
    /\ \/ PostInvoice(t, c, name)
       \/ UNCHANGED <<book, byCred, n, calls, tabs, drafts>>
    /\ UNCHANGED <<life, service, registry, deks>>

\* onSignUp: a passkey of its own for every attempt.
SignUp(t, c, name) == NewPasskey(t, c, name)

\* resumeUnpaidSignup with an orphan, a passkey of earlier days whose coordinates
\* nobody kept: it is forgotten, and a new one goes on under its name. Orphans are no
\* members of Creds, and there may be any number of them.
MintPasskey(t, c, name) == NewPasskey(t, c, name)

\* onConnect and onConnectStored: the passkey answers.
Connects(t, c) == OnLanding(t) /\ passkeys[c] # None

\* GET /bootstrap: what the registry has for the name, whoever asks. (Wraps that the
\* node itself keeps for a passkey are in Pairing.)
Bootstrap(name) == chain[name]

\* signIn with a wrap that opens: the draft goes, the inbox opens.
SignIn(t, c) ==
    /\ Connects(t, c)
    /\ Bootstrap(passkeys[c]).cred = c
    /\ EnterInbox(t, c)
    /\ UNCHANGED <<node, service, registry, calls, passkeys, deks>>

\* resumeUnpaidSignup, after any failure of the above: the open invoice of the
\* node, if there is one; a draft that was paid is not looked at.
ResumeUnpaid(t, c) ==
    /\ Connects(t, c)
    /\ IF FetchOpenSignup(c) # NoSignup
       THEN /\ Remember(c, FetchOpenSignup(c).name)
            /\ RedirectToSignup(t, c, FetchOpenSignup(c))
       ELSE /\ tabs' = [tabs EXCEPT ![t].phase = "renewing", ![t].cred = c]
            /\ UNCHANGED storage
    /\ UNCHANGED <<node, service, registry, calls, deks>>

\* There was none when it asked: it has one created.
Renew(t) ==
    /\ tabs[t].phase = "renewing"
    /\ \/ PostInvoice(t, tabs[t].cred, passkeys[tabs[t].cred])
       \/ Left(t) /\ UNCHANGED <<book, byCred, n, calls, drafts>>
    /\ UNCHANGED <<life, service, registry, passkeys, deks>>

\* attachCommerce with the invoice r of the service, and the answer: the page is
\* loaded anew for the draft.
Attach(t, r) ==
    LET call == calls[t] IN
    /\ book' = [book EXCEPT ![call.inv].commerce = r]
    /\ IF Hears(t, {"creating"})
       THEN RedirectToSignup(t, call.cred,
                 [inv |-> call.inv, name |-> call.name, status |-> "awaiting_payment",
                  link |-> r])
       ELSE UNCHANGED <<tabs, drafts>>
    /\ Done(t)
    /\ UNCHANGED <<byCred, n, life, vouched, registry, passkeys, deks>>

NewRemote(t) == remotes' = Append(remotes, [client |-> calls[t].inv, paid |-> FALSE])

CommerceWithoutKey(t) ==        \* mutant of CommerceCreates: no idempotency-key
    /\ calls[t].op = "create" /\ Len(remotes) <= MaxInvoices
    /\ NewRemote(t) /\ Attach(t, Len(remotes'))

CommerceCreates(t) ==
    /\ calls[t].op = "create"
    /\ \/ RemoteOf(calls[t].inv) = {} /\ NewRemote(t) /\ Attach(t, Len(remotes'))
       \/ \E r \in RemoteOf(calls[t].inv) : Attach(t, r) /\ UNCHANGED remotes

\* 502: the invoice may exist over there.
CommerceFails(t) ==
    /\ calls[t].op = "create"
    /\ \/ UNCHANGED remotes
       \/ RemoteOf(calls[t].inv) = {} /\ NewRemote(t)
    /\ IF Hears(t, {"creating"}) THEN Left(t) ELSE UNCHANGED tabs
    /\ Done(t)
    /\ UNCHANGED <<node, vouched, registry, storage, deks>>

\* The address the payment page leads back to, in a tab of its own. The page of the
\* node has a link there for those who have not paid, too: paid=1 is believed.
ReturnFromPayment(t, c) ==
    /\ OnLanding(t) /\ \E i \in Ids : c \in DraftsOf(i)
    /\ Show(t, c, "paying", [drafts[c] EXCEPT !.status = "paid"])
    /\ UNCHANGED <<node, service, registry, calls, passkeys, deks>>

\* resumeFromInvoice asks once; the open dialog asks until the status is paid.
Polls(t) ==
    /\ Free(t)
    /\ \/ tabs[t].phase = "resuming"
       \/ tabs[t].phase = "paying" /\ tabs[t].signup.status # "paid"

ShowStatus(t, status) ==
    Show(t, tabs[t].cred, "paying", [tabs[t].signup EXCEPT !.status = status])

PollWithoutService(t) ==        \* mutant of Poll: the webhook is relied on
    /\ Polls(t) /\ book[tabs[t].signup.inv].status # "none"
    /\ ShowStatus(t, book[tabs[t].signup.inv].status)
    /\ UNCHANGED <<node, service, registry, calls, passkeys, deks>>

\* GET /signup/invoice/<id>: answered at once, or the service says paid.
Poll(t) ==
    LET i == tabs[t].signup.inv IN
    /\ Polls(t) /\ book[i].status # "none"
    /\ IF Awaiting(i) /\ book[i].commerce # 0 /\ remotes[book[i].commerce].paid
       THEN /\ calls' = [calls EXCEPT ![t] = [NoCall EXCEPT !.op = "poll", !.inv = i]]
            /\ UNCHANGED <<tabs, drafts>>
       ELSE ShowStatus(t, book[i].status) /\ UNCHANGED calls
    /\ UNCHANGED <<node, service, registry, passkeys, deks>>

\* After the await the status is read once more.
PollAnswered(t) ==
    LET i == calls[t].inv IN
    /\ calls[t].op = "poll"
    /\ MarkPaid(i)
    /\ IF Hears(t, {"resuming", "paying"}) THEN ShowStatus(t, book'[i].status)
       ELSE UNCHANGED <<tabs, drafts>>
    /\ Done(t)
    /\ UNCHANGED <<byCred, n, life, service, registry, passkeys, deks>>

\* 404, or no answer: the dialog asks again, the page gives up.
PollFails(t) ==
    /\ Polls(t) \/ calls[t].op = "poll"
    /\ IF tabs[t].phase = "resuming" THEN Left(t) ELSE UNCHANGED tabs
    /\ Done(t)
    /\ UNCHANGED <<node, service, registry, storage, deks>>

-----------------------------------------------------------------------------
(* POST /signup/register and /signup/confirm.                              *)

AnyForCredential(i, c) == book[i].cred = c      \* mutant of PaidForCredential

PaidForCredential(i, c) == book[i].cred = c /\ book[i].status = "paid"

\* POST /signup/register: the relayer is asked for the name of the invoice. It takes
\* the call when the name is free and the signature is for it.
MayRegister(i, c, name) ==
    /\ PaidForCredential(i, c)
    /\ book[i].name = name /\ chain[name].cred = None

\* POST /signup/confirm: the relayer takes the signature of the controller only.
MayOptIn(i, c, name) ==
    /\ PaidForCredential(i, c)
    /\ book[i].name = name /\ chain[name].cred = c

\* The button of the dialog: shown when the status is paid, and locked from a click
\* until the attempt is over.
MayClickRegister(t) ==
    tabs[t].phase = "paying" /\ Free(t) /\ tabs[t].signup.status = "paid"

\* What a passkey signs to register: the name that the tab knows, and a DEK.
RegisterChallenge(tab, dek) == [name |-> tab.signup.name, cred |-> tab.cred, dek |-> dek]

\* What it signs to opt in.
OptInChallenge(tab) == [name |-> tab.signup.name, cred |-> tab.cred]

\* onPaidRegister makes a new DEK for every attempt. The name is that of the
\* invoice, the signature is for the name of the tab; the relayer estimates the
\* call against the last block.
Register(t) ==
    LET signed == RegisterChallenge(tabs[t], deks + 1) IN
    /\ MayClickRegister(t)
    /\ deks < MaxDeks /\ deks' = deks + 1
    /\ MayRegister(tabs[t].signup.inv, signed.cred, signed.name)
    /\ txs' = txs \cup {signed}
    /\ calls' = [calls EXCEPT ![t] = [NoCall EXCEPT !.op = "register", !.dek = deks']]
    /\ To(t, "registering")
    /\ UNCHANGED <<node, service, chain, storage>>

\* A block: a name that is taken by then reverts.
Mine(tx) ==
    /\ txs' = txs \ {tx}
    /\ chain' = IF chain[tx.name].cred # None THEN chain
                ELSE [chain EXCEPT ![tx.name] = [cred |-> tx.cred, dek |-> tx.dek]]
    /\ UNCHANGED <<node, service, calls, tabs, storage, deks>>

\* redirectToRecovery and resumeRecovery: the secret is in sessionStorage while the page
\* is loaded anew, then it is shown.
ShowRecovery(t, dek) == [tabs EXCEPT ![t].phase = "recovery", ![t].dek = dek]

\* The relayer has a receipt, whatever it says: the tab goes on to the secret.
RegisterAnswered(t) ==
    /\ calls[t].op = "register"
    /\ \A tx \in txs : tx.dek # calls[t].dek
    /\ tabs' = IF Hears(t, {"registering"}) THEN ShowRecovery(t, calls[t].dek) ELSE tabs
    /\ Done(t)
    /\ UNCHANGED <<node, service, registry, storage, deks>>

\* The relayer gives up waiting, or the answer is lost.
RegisterFails(t) ==
    /\ calls[t].op = "register"
    /\ IF Hears(t, {"registering"}) THEN To(t, "paying") ELSE UNCHANGED tabs
    /\ Done(t)
    /\ UNCHANGED <<node, service, registry, storage, deks>>

\* The only button of the dialog, which cannot be closed, locked like the one above.
MayConfirm(t) == tabs[t].phase = "recovery" /\ Free(t)

\* onRecoverySaved.
Confirm(t) ==
    LET signed == OptInChallenge(tabs[t]) IN
    /\ MayConfirm(t)
    /\ MayOptIn(tabs[t].signup.inv, signed.cred, signed.name)
    /\ EnterInbox(t, signed.cred)
    /\ UNCHANGED <<node, service, registry, calls, passkeys, deks>>

\* The dialog is closed, the user logs out, the page is closed.
Leave(t) ==
    /\ tabs[t].phase # "landing"
    /\ Left(t)
    /\ UNCHANGED <<node, service, registry, calls, storage, deks>>

-----------------------------------------------------------------------------
\* The node restarts: the invoices and the calls under way are gone, the counter
\* begins again.
Restart ==
    /\ life < MaxRestarts /\ life' = life + 1
    /\ book' = [i \in Ids |-> NoInvoice] /\ byCred' = [c \in Creds |-> 0] /\ n' = 0
    /\ calls' = [t \in Tabs |-> NoCall]
    /\ tabs' = [t \in Tabs |->
                   IF tabs[t].phase = "creating" THEN NoTab
                   ELSE IF tabs[t].phase = "registering" THEN [tabs[t] EXCEPT !.phase = "paying"]
                   ELSE tabs[t]]
    /\ UNCHANGED <<service, registry, storage, deks>>

Server(t) ==
    \/ CommerceCreates(t) \/ CommerceFails(t)
    \/ PollAnswered(t) \/ PollFails(t)
    \/ RegisterAnswered(t) \/ RegisterFails(t)

Tab(t) ==
    \/ Renew(t) \/ Poll(t) \/ Register(t) \/ Confirm(t) \/ Leave(t)
    \/ \E c \in Creds : SignIn(t, c) \/ ResumeUnpaid(t, c) \/ ReturnFromPayment(t, c)
    \/ \E c \in Creds, name \in Names : SignUp(t, c, name) \/ MintPasskey(t, c, name)

Next ==
    \/ \E t \in Tabs : Server(t) \/ Tab(t)
    \/ \E i \in Ids :
           Cancel(i) \/ PayByHand(i) \/ Webhook(i) \/ \E name \in Names : Retarget(i, name)
    \/ \E c \in Creds : PayLink(c)
    \/ \E tx \in txs : Mine(tx)
    \/ Restart

Spec == Init /\ [][Next]_vars

\* The dialog polls every second and a half as long as it is open, and a poll that
\* is repeated for ever is not lost for ever.
FairSpec ==
    Spec /\ \A t \in Tabs : WF_vars(Poll(t)) /\ SF_vars(PollAnswered(t))

-----------------------------------------------------------------------------
(* Properties.                                                             *)

Statuses == {"none", "awaiting_payment", "paid", "cancelled"}
InvoiceRecords == [status : Statuses, cred : Creds \cup {None}, name : Names \cup {None},
                   commerce : Nat]
Signups == [inv : Nat, name : Names \cup {None}, status : Statuses, link : Nat]
CallRecords == [op : {"none", "create", "poll", "register"}, cred : Creds \cup {None}, inv : Nat,
                name : Names \cup {None}, dek : Nat]
Phases == {"landing", "renewing", "creating", "resuming", "paying", "registering", "recovery",
           "inbox"}
TabRecords == [phase : Phases, cred : Creds \cup {None}, signup : Signups, dek : Nat]

\* The type invariant.
TypeOK ==
    /\ book \in [Ids -> InvoiceRecords] /\ byCred \in [Creds -> Nat]
    /\ n \in Nat /\ life \in Nat
    /\ remotes \in Seq([client : Nat, paid : BOOLEAN]) /\ vouched \subseteq Nat
    /\ chain \in [Names -> [cred : Creds \cup {None}, dek : Nat]]
    /\ txs \subseteq [name : Names \cup {None}, cred : Creds \cup {None}, dek : Nat]
    /\ calls \in [Tabs -> CallRecords] /\ tabs \in [Tabs -> TabRecords]
    /\ passkeys \in [Creds -> Names \cup {None}] /\ drafts \in [Creds -> Signups]
    /\ deks \in Nat

\* As long as the node lives, money paid over a link that a browser holds is found
\* by polling: the link belongs to the service invoice that the node attached to
\* the credential's own invoice, though two calls may have created it.
PaymentFindsInvoice ==
    \A c \in Creds : life = 0 /\ drafts[c].link # 0 =>
        /\ book[drafts[c].inv].cred = c
        /\ book[drafts[c].inv].commerce = drafts[c].link

\* A status is final: no late poll, webhook or cancellation changes an invoice that
\* is paid or cancelled, until the node forgets it.
StatusIsFinal ==
    [][\A i \in Ids : book[i].status \in {"paid", "cancelled"} =>
           book'[i].status \in {book[i].status, "none"}]_vars

\* As long as the node has not restarted, whoever registered a name through it has
\* an invoice of its own that is paid by the book and that somebody has said was paid:
\* the service when it was polled, the test helper, or whoever posted the webhook.
\* Nothing that a browser believes (paid=1), repeats or has from another credential
\* gets past the book. That money came in is not shown: the webhook is believed.
MailboxesArePaid ==
    life = 0 => \A x \in Names : chain[x].cred # None =>
        \E i \in vouched : book[i].cred = chain[x].cred /\ book[i].status = "paid"

\* "A printable / offline secret that wraps the DEK" (CONTEXT.md:72): the secret a
\* user is told to keep opens the mailbox that was registered.
RecoveryWrapsTheDek ==
    \A t \in Tabs : tabs[t].phase = "recovery" =>
        chain[tabs[t].signup.name] = [cred |-> tabs[t].cred, dek |-> tabs[t].dek]

\* A payment is noticed by the dialog that waits for it, webhook or not, unless it
\* is closed, the invoice was cancelled or the node restarts.
PaymentIsNoticed ==
    \A t \in Tabs :
        /\ tabs[t].phase = "paying" /\ tabs[t].signup.link # 0
        /\ remotes[tabs[t].signup.link].paid
        ~> \/ tabs[t].phase # "paying" \/ life > 0
           \/ tabs[t].signup.status \in {"paid", "cancelled"}
=============================================================================
