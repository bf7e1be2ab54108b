# A formal model of open-email

open-email is mail without an operator that can read it. A *registry* contract
says who controls a mailbox and which *nodes* may receive for it; a *node* is an
SMTP server that seals what arrives to the mailbox's public key, pins the sealed
blob and indexes it; a *relayer* pays for the users' transactions; owners of ENS
names *claim* a mailbox on L1 and a bridge carries the claim to the registry.

The modules here are TLA+ models of that code, configurations under which TLC
checks them on small instances, and proofs that TLAPS checks for every instance.
`PROJECT.json` maps every definition to the lines it models and lists runs,
mutants, hazards, findings and theorems.

    tlc -workers 2 -config Registry_ens.cfg MCRegistry.tla
    tlapm RegistryProofs.tla

## 1. Inventory

### OpenEmailRegistry, the contract on Base (`registry/src/OpenEmailRegistry.sol`)

*State*: a record per name (primary key, DEK, nonce, mailbox generation, up to
eight controllers), the directory of nodes in both directions, the opt-in and
opt-out stamps per name and node, the used invites, the bridge's two addresses.
*Operations*: register, registerNode, linkNode, removeController, optIn, optOut,
setEnsBridge, applyEnsBind, applyEnsVacate; the view isOptedIn decides who may
receive. *Interacts with*: passkeys, which sign challenges read from its views;
the relayer, which submits; the messenger, which calls the two apply functions;
nodes, which read it through the relayer.
*Hard*: signatures that arrive late, twice or in another generation; two devices
that sign the same nonce; swap-and-pop in the controller list; block timestamps
that coincide; bridge messages out of order.
*Correct when*: a live name always has a controller and a vacated one none; a
removed key has no say; a write is applied once; a node is opted in only because
somebody who controls the name *now* said so and has not taken it back; an OE id
is permanent; one generation has one DEK.

### EnsClaim, the contract on L1 (`registry/src/EnsClaim.sol`, `EnsNamehash.sol`)

*State*: per name the last claimer and the generation; the bridge's addresses.
*Operations*: claim (by the ENS owner, with a passkey's signature), vacate (by
anyone, once the name has moved on), setBridge. *Interacts with*: the ENS
registrar and name wrapper, whose answer changes under it; the messenger.
*Hard*: names wrapped, traded, lapsed and renewed between a claim and a vacate.
*Correct when*: its messages about a name alternate, bind and vacate, one
generation at a time, and every claim has a signature of its own.

### The bridge

The two contracts and the cross-domain messenger (external). *Hard*: messages
arrive in any order, a relay that reverts may be repeated, setBridge and
setEnsBridge may be called late or changed. *Correct when*: the registry holds
the newest claim that reached it and the chains agree in the end.

### Relayer (`relayer/src/server.ts`)

Stateless HTTP between clients, nodes and the chain: `/register`, `/nodes`,
`/opt-in`, `/link`, `/remove-controller`, `/opt-out` write; `/names`,
`/opted-in`, `/challenges` read. *Hard*: a write waits for its receipt and does
not look whether the transaction succeeded; `/names` makes two reads that a
transaction may separate; concurrent writes share one account's nonce.
*Correct when*: what is acknowledged has happened and what is answered was true
at one moment.

### SMTP ingest, index and blobs (`node/src/node.ts`, `dal/src/indexLog.ts`, `dal/src/storage.ts`)

*State*: SMTP sessions in memory; the index (rows, next number) in one file; one
file per blob. *Operations*: RCPT (opted in? room left?), DATA (read record and
generation, seal, compare with the cap, pin, append after asking again), list,
remove. *Interacts with*: the registry through the relayer, the trash.
*Hard*: every await lets other sessions, deletions and the registry run; the
answers it acts on may be old; a process that ends anywhere, also inside the write
of the one file that has all rows.
*Correct when*: what is answered with 250 stays until it is trashed, its row unless
that file was torn; every row can be opened; an opt-out that was applied stops indexing; the quota holds; a
new holder's mailbox is fresh; everybody gets a reply.

### Mailbox state and trash (`node/src/mailbox-state.ts`)

*State*: flags by name and number, in a file of its own. *Operations*: patch,
trash, restore, permanent delete, empty-trash. *Hard*: a deletion writes rows,
flags and blobs one after the other; flags survive their rows.
*Correct when*: only what the user trashed is ever removed.

### Outbound mail (`node/src/send.ts`, `rateLimit.ts`, `smtpSend.ts`) and compose attachments (`compose-attachments.ts`, `web/src/components/mail/ComposeModal.tsx`)

*State*: hits per name in memory; two files per attachment on disk, with an
expiry; the composer's list of attachments; the dialog with the recipient's host.
*Operations*: send (authorize, take a slot, take attachments, sign, keep a copy,
deliver), put, take, remove, purge; the SMTP branch for other domains. *Hard*:
one step of several fails after others have had their effect; window boundaries;
a crash between two files; a host that says nothing more; uploads that go on
under a composer that was closed. *Correct when*: at most 20 an hour and 100 a
day; what was answered with 200 was delivered with all its files and kept; a
staged file has its bytes; what the composer lists can be sent.

### Signup and invoices (`node/src/signup.ts`, `commerce-invoice.ts`, `web/src/App.tsx`, `web/src/modals/PayModal.tsx`)

*State*: invoices in memory, numbered from 1 at each start; the payment service
keeps its own; passkeys and drafts in localStorage; the phase of each tab.
*Operations*: invoice, open, webhook, poll, cancel, pay, register, confirm,
retarget, and the tab's way from the landing page to the inbox. *Hard*: webhook,
poll and cancel race; a request that waits for the payment service while another
one runs; a restart forgets every invoice and reuses their identifiers; a paid
invoice is never used up; a registration whose answer is lost is tried again.
The webhook is believed, whoever posts it: it has no signature
(`docs/research/trustless-commerce-invoice.md:26`), and the service is not asked.
*Correct when*: who has a name has an invoice that somebody the node believes has
called paid; a payment is noticed and belongs to the
invoice it was made for; the secret that is shown opens the mailbox.

### Device pairing (`node/src/pair.ts`, `client/src/pair-blob.ts`, `node/src/credential-wraps.ts`) and service pairing (`service-pair.ts`)

*State*: sessions with an expiry, wraps by credential in one file, the dialogs of
host and guest, invites and grants that the user carries. *Operations*: create,
join, grant, finish; invite, grant, link, service wrap. *Hard*: expiry between
any two steps, a second guest, a finish that is repeated, two loops that wait
for each other, a crash inside the write, two grants signed over one nonce.
*Correct when*: the DEK is sealed to the guest that joined, a session serves one
credential, a device that is done can sign in unless the file of the wraps was torn,
and is a controller unless another write overtook its link.

### OpenPGP keys (`node/src/openpgp-keys.ts`, `openpgp-http.ts`, `client/src/openpgp-identity.ts`, `web/src/lib/openpgp-mail.ts`)

One key per mailbox, published by whichever tab finds none. *Hard*: two tabs, or
two reloads of one, publish side by side; an opt-out comes in between; answers
are lost; the name changes hands. *Correct when*: a tab decrypts with a key that
was published, and a key is stored only by a request during which the mailbox was
opted in.

### Web client (`web/src/screens/InboxPage.tsx`, `web/src/lib/mail.ts`, `web/src/lib/webauthn.ts`)

*State*: what a tab shows of the mailbox, the reloads and the one action under
way, the queue of passkey prompts. *Hard*: reloads that overtake each other,
actions on a list that is old, a browser that shows one prompt at a time, a
log-out at any point. *Correct when*: nothing is deleted that was put back, tabs
catch up, the browser is asked for one passkey at a time and nobody waits for
ever.

### Name spelling (`EnsNamehash.sol`, `_requireValidName`, `_requireLinkedEnsName`, `mailbox-name.ts`)

Several validators of one language in two programming languages. *Correct when*
they agree wherever one relies on another.

### Not to be modelled

Cryptography proper (`client/src/dek.ts`, `envelope.ts`, `passkey.ts`,
`webauthn-p256.ts`), whose contract the models assume: who does not hold a key
cannot sign or open. Layout and settings of the web client, MIME, DKIM, geo,
translations and static files, which keep no shared state. Deployment scripts
and test fixtures.

## 2. Plan

| # | modules | what | composes | state |
|---|---------|------|----------|-------|
| 1 | `Registry`, `MailboxBook`, `RegistryProofs` | the L2 contract, its abstract promise, proofs of both | | done, proved |
| 2 | `EnsClaim`, `EnsBridge`, `ChainProofs` | L1, the messenger, both chains | Registry, EnsClaim | done, safety proved |
| 3 | `MailNode`, `MailNodeProofs` | ingest, index, trash, crashes | MailboxBook | done, proved |
| 4 | `Relayer`, `ChainProofs` | estimate, submit, mine, acknowledge; the split read of `/names` | Registry | done, proved |
| 5 | `Outbound`, `OutboundProofs` | composer, staging directory, `/send`, SMTP submission, rate limit | | done, proved |
| 6 | `Signup`, `SignupProofs` | invoices, payment service, tabs, restarts | | done, safety proved |
| 7 | `Pairing`, `PairingProofs` | pair sessions, wraps, grants; both dialogs | | done, safety proved |
| 8 | `WebMailbox`, `WebClientProofs` | tabs over one mailbox | | done, safety proved |
| 9 | `OpenPgp`, `OpenPgpProofs` | publication of keys and the opt-in switch | | done, safety proved |
| 10 | `Passkeys`, `WebClientProofs` | the queue of passkey prompts | | done, safety proved |
| 11 | proofs about the quota and about acknowledgements | `OvershootIsBounded`: sums over sets of sessions; `AcknowledgedOrOvertaken`: an order on standings, with the guards of the registry as operators | | done, proved |

Abstract specifications: `MailboxBook` is stated and shown to be implemented, by
TLC and by proof. A ledger of invoices and a handover of one secret would be the
next ones; what they would promise is stated as invariants of `Signup` and
`Pairing`. Bounds: two of everything that can race, three where order among three
matters (keys in a list, generations of messages, flows that ask for passkeys).

## 3. The modules

### Registry

One action per external function; a transaction is atomic and a revert changes
nothing, so a `require` is a conjunct; the conditions under which a write does not
revert have names of their own (`CanRegister`, `CanLinkNode`, ...), which the relayer's
estimate evaluates, too. `names[n]` is the record, `optIns` the
three mappings of stamps, `signed` every signature the passkeys have made.
Signatures are never forgotten: whether a relayer delays, repeats or loses one,
the model has the behaviour. A signature is made over a challenge the views
answer at that moment (`CurrentChallenges`), which is what clients sign.
`now` is the block's timestamp; `Tick` lets it advance or not between any two
transactions, so several fall into one block. `writes` is history: what was
applied, by name and generation.

Abstracted: a name is the class its spelling falls in; a public key is its
holder; WebAuthn verification is equality of challenge and key; `dekPublic` and
`wrappedDek` are one value. `MaxNonce`, `MaxGeneration` and `MaxTime` stand for
the widths of the integers: Solidity 0.8 reverts on overflow, so the guard at
the bound is the contract's. `MaxSigned` only limits the environment.

`MailboxBook` is the abstract specification: epochs, keys and open doors. The
mapping takes the set of controllers, and `isOptedIn` for the doors.

### EnsClaim, EnsBridge

`EnsClaim` is the L1 contract with its ENS surroundings (external: `Transfer`,
`Wrap`, `Unwrap`, `Lapse`, `Renew`). `sent` is the list of messages. `EnsBridge`
extends `Registry` and instantiates `EnsClaim`; `Relay(i)` hands the i-th
message to the registry's handler. The messenger's rule, a successful relay is
final and a reverted one may be tried again, is `i \notin delivered`.

### Relayer

Extends `Registry` and has its variables move by transactions of HTTP calls.
`Post` is a request with a body that some passkey signed at some time, `Send` the
estimate and the broadcast of writeContract, `Mine` the block, `Acknowledge` the
200 after the receipt whatever its status, `Refuse` the 400 with the revert,
`Fail` everything else that ends a call while its transaction may live on. Two
calls may carry one body: a client that lost the answer, or the node's proxy and
another relayer. `ReadRecord` and `ReadGeneration` are the two reads of
`GET /names`. Owners, the bridge and the clock go on beside them. `Standing` is
what the outcome of a transaction depends on, remembered from the estimate.
`Estimate` is the contract's own conditions (`Can...`) for the body in the present
state, as estimateGas runs the call without a block.

### MailNode

JavaScript runs until the next await, so an action is what lies between two
awaits. `Rcpt`, `RcptOptedIn`, `RcptUnknown`, `RcptMeasured` are onRcptTo and
its callbacks; `Data`, `Sealed`, `Pin`, `AppendRow`, `AppendRefused`,
`IngestThrows` are onData, ingest and append. The `Answer...` actions are the
relayer's replies: true when they are given, possibly old when they are used,
and, as main.ts has it, "not opted in" and "generation 1" when the relayer
reports an error. The two reads of ingest are answered in either order.
The registry is `MailboxBook`, which `Registry` implements.

`entries`, `nextSeq`, `pins`, `trashed` are on disk. A deletion writes three files
and `CrashInDelete` ends the process after any of them; `CrashBeforeReply` ends it
between the write of a row and its 250. `save` and `flush` write over their file in
place: `CrashInSave` and `CrashInFlush` end the process inside such a write, all rows
or all flags are lost, `torn` remembers the file, and the node does not start again
(`Next`), while the registry goes on. `Crash` covers stops and the unhandled
rejection in onRcptTo.
A DEK is named by the generation it belongs to. Every message has a content id
of its own because sealing is randomised. Not here: the ENS gate, which main.ts
does not configure, the outbound branch of the SMTP server (in `Outbound`), and
flags that no operation of this module reads.

### Outbound

One mailbox, since limits and files are per name. `jobs` are messages on their
way from `POST /send` (kind "staged", with ids of files, or "sealed", encrypted
by the client with the files inside) or from an SMTP session (`Submit`).
`Accept`, `RateLimited`, `InvalidAttachment` and `Refuse` are the handler up to
its first await after the slot was taken, `Store` the copy, `HostTakes`,
`HostReplies`, `HostBreaks` and `HostFallsSilent` the dialog of smtpSend.ts,
whose host is external. A staged file is `<id>.bin` in `bins` and `<id>.json` in
`metas`; `torn` is a meta file that a crash cut off, which makes every purge
throw. `form` is the composer: `todo` and `next` are the loop of addFiles, which
starts from the list of its first moment and overwrites that of its last. `Crash`
may cut `put` and `drop` between their files (`CutShort`). All files have one
size and the directory holds `StageMax` of them.

### Signup

`book`, `byCred` and `n` are createMemoryInvoices; `remotes` is the payment
service, which keeps one invoice per idempotency key. `chain` and `txs` are the
registry as far as a registration sees it: `Register` is the relayer's estimate
and broadcast, `Mine` the block, `RegisterAnswered` the 200 after the receipt,
whatever it says, as module `Relayer` has it. A tab has a phase of App.tsx, the
signup it shows and at most one call under way; `Leave` closes it while its call
goes on. `passkeys` and `drafts` are localStorage, which all tabs share.
`MintPasskey` stands for a passkey of earlier days without stored coordinates,
for which resumeUnpaidSignup makes a new one. `Restart` forgets the book and the
calls. `Webhook` may come for any invoice at any time, paid or not: the handler looks
at nothing but the invoice's number and the status it is sent. `vouched` is history:
the invoices that the service, when polled, the helper of the tests, or a webhook has
called paid. Left out: the lists' limits of 5 drafts and 20 passkeys, and the recovery
by the secret itself, which no code reads back.

### Pairing

`sessions` are createPairStore's, `hosts` the QR dialog of the mailbox, `guests`
the device that scans it (`Join`, `ChoosePasskey`, `FetchSealed`, `Finish`) or
that is invited from another service (`Invite`, `AcceptGrant`, `LinkAnswered`,
`StoreServiceWrap`; `Confirm`, `Back` and `IssueGrant` are the host's side).
A sealed DEK is the transport key it was sealed for. `wraps` and `disk` are
credential-wraps.ts and its file, which `CrashInFlush` tears. `confirmed` and
`granted` are what the user carries. A grant is signed over the nonce of its day
(`LinkChallenge`); `SubmitLink` is the relayer's estimate and broadcast, `MineLink`
the block, where the link reverts if its nonce or its invite is used up by then, and
`LinkAnswered` the 200 after the receipt whatever its status. `writes` lists what
used up each nonce of a mailbox, links or any `OtherWrite`. Registry has the rest of
linkNode, the removal of controllers and generations. Every loss of an answer is a
branch that leaves the caller where it was.

### WebMailbox

The list of a tab is a copy of the node's rows and flags. `reloads` are the calls
of reloadCore under way in a tab; each ends by setting the session, which starts
the next (`ShowMails`), so loops go on until one fails. `job` is the one action
under the key "mail"; `opening` the calls of markOpened, which have no key.
`failed` says what became of the error of the last reload that failed: it is shown,
or, after a restore and after a send, kept nowhere ("lost").
`Patched` is what POST /mail-state does to the flags it does not name: they are
lost. What an action is about is taken from the list of its folder; a tick that
outlives its message's stay there is not kept. Flags stand for read, starred, labels and folders; "trashed" is the one
that deletion looks at. `unwanted` is history: what the user wants gone, and has
not put back with the node's knowledge.

### OpenPgp

`stored` is the record of the mailbox, a key wrapped with the DEK of a generation.
A reload that finds the switch on and no key looks one up (`UseStored`), or makes
and publishes one (`Generate`, `AskOptedIn`, `Publish`); then it asks the registry
for the switch (`AskSwitch`, `UpdateSession`). `Prepare`, `OptToggle` and `Opt`
are optToggle and completeOptIn, which believe any answer. `NewHolder` vacates and
binds the name.

### Passkeys

A ceremony goes through `queued`, `slot` (awaitBrowserSlot, which looks once),
`clearing` (preventSilentAccess, for assertWebAuthn only), `ready`, `calling`,
`settling` (the pause) to `over`. `ceremonyQueue`, a promise chain, is the rule
`QueueIsAt`: the one before is over, however it ended. `ceremonyAbort` and
`activeBrowserCall` are the module's two variables. An answer of the browser is
the set of parts it has; `Accepts` says what each kind of ceremony needs. The
flows are the parts of the page that ask.

## 4. What the runs show

| run | configuration | what it asks |
|-----|---------------|--------------|
| registry_oe | an OE id, 3 keys, 2 controllers at most, 4 signatures, 2 blocks | devices linked and removed, opt-in and opt-out in every order and with coinciding stamps: controllers, invites, nonces, the cause of every opt-in, permanence |
| registry_ens | a linked name, 2 keys, 2 nodes, 2 generations, 2 DEKs | bind and vacate between signed writes: the node directory, and that every transaction is a step of `MailboxBook` |
| bridge | 3 generations, 2 owners, 2 registries, 3 attested claims | any order of relays; with fairness, that the chains agree in the end |
| mail | 2 sessions, 2 messages, 2 generations | awaits, stale answers, deletions, crashes between and inside writes; with fairness, that every command is answered |
| relayer | 2 write calls, 1 read, an OE id and a linked name, 2 generations | estimates that are stale in the block, answers that are lost, calls that are repeated; the mixed answer of `/names` |
| outbound | 2 messages, 2 files, limits of 1, windows of 1 and 2, 1 crash | what is limited, refused, cut short or answered by every kind of host; files and composer |
| signup | 1 credential, 2 names, 2 tabs, 1 invoice number, 1 DEK, 1 restart | invoices raced by two tabs, payments noticed by webhook or polling, registrations; with fairness, that a payment is noticed |
| pairing | 1 mailbox, 2 devices and passkeys of any service, 2 transport keys, 2 sessions or 1 other write | devices that race for a code, lost answers, expiry, restart, crash in a write; grants signed over one nonce, links that revert after their estimate and are answered 200; with fairness, that a waiting guest is served or told |
| webmailbox | 2 tabs, 1 message, 2 actions, 2 reloads at a time | old lists, overtaking answers, lost requests; with fairness, that tabs catch up |
| openpgp | 2 tabs with 2 reloads each, 2 keys, 2 generations, 1 toggle | keys made side by side, opt-outs in between; with fairness, that the switch tells the truth |
| passkeys | 3 flows, 4 ceremonies | every answer of the browser, a log-out at every point; with fairness, that every flow ends |
| signup_recovery | 1 credential, 1 name, 2 tabs, 2 DEKs; *expected to fail* | that the secret a user is shown opens the mailbox that was registered |

*The finding.* `signup_recovery`: two registrations of one name are on their way
together, from two tabs or because the first answer was lost. Each has a DEK of
its own. The later transaction reverts, is answered with 200 all the same, and
its tab shows a recovery secret, and opens a session, for a DEK that was never
registered. CONTEXT.md:72 promises a secret "that wraps the DEK".

*Other places where the code may surprise*, seen while modelling and told with the
hazards of `PROJECT.json` rather than in runs of their own: an opt-in signed in one
generation is taken in the next, because challenges hold the nonce, which
restarts, and not the generation; linkNode in the block of an opt-out links the
device and does not opt the node in; two sessions that measure the quota before
either is indexed go over it together (`OvershootIsBounded` says by how much);
mail may be filed in a generation it is not sealed for, when the relayer reports
an error or the name changes hands between two reads; a mail refused after its
blob was pinned leaves the blob for good; two recipients accepted for one message
and one copy kept; POST /mail-state loses the flags it does not name; a grant
whose nonce was used up between its estimate and its block sets up a device that can
read and is no controller (`DoneDeviceIsLinked` says when); index, flags and wraps are
files that are written over in place, and a crash inside a write loses the whole file
and keeps the node from starting; a webhook without a payment is believed; a reload
that fails after a restore leaves a list that is old and no error; a composer
that says "this send will be end-to-end encrypted" (`en.json:127`) while the key
is looked up again, and may not be found, when the message is sent.

*Why the bounds are enough.* Three keys with room for two controllers make a
full list, swap-and-pop at both ends and the return of a removed key; two nodes
(`registry_ens`) show what a write for one does to the other; two blocks make stamps
equal, ordered and reversed. Three generations let a message be overtaken by two
others and be older or newer than both; two registries on L1 lead messages astray.
Two sessions, calls, tabs or guests make every race between two handlers, and the
environment (crashes, deletions, the registry, expiry) runs beside them. In
`outbound` limits of one make every second message a refused one, windows of one
and two make hits fall inside, outside and at the edge of each, and one crash may
come at any step and inside any write; the limit of the day decides there, and that of
the hour rests on `SendingIsLimited`. In `signup` one invoice number is what a
restart reuses; `MaxRestarts` is 1 because a second restart meets no state that the
first does not. In `pairing` `MaxKeys` = 2 lets a guest try again or two devices
try once each; two sessions are enough to mix up what is sealed for whom. Sessions and
writes that are no links share the bound `MaxSessions` (`InBounds`), a write counting as
two: the QR code and the grants by hand meet only in the file of the wraps, and one
other write lets a nonce be used up before a link is sent, between its estimate and its
block, and after it. With sessions two links still compete for one nonce. One mailbox
is what the run with liveness can afford without symmetry; that two are not mixed up
rests on the theorems, which hold for every set of them. In `webmailbox`
`MaxReloads` = 2 lets one reload overtake the other, in one tab or two, and two actions let one undo what the other did. In `passkeys` four
ceremonies have one over, one open and two in the queue at once. Symmetry is used only
over sets whose members the specification does not tell apart and never in a run
with liveness. `CHECK_DEADLOCK FALSE` stands where the system may really stop:
in `pairing` after a crash inside the write of the wraps, from
which the node does not start; in `webmailbox` and `openpgp` when every reload has failed and
the bound on actions is used up.

*Fairness.* `bridge` assumes weak fairness of each message's relay: the
sequencer relays every message once and anyone may repeat a relay that failed.
Nothing is assumed about claims, vacates or the owners; the property asks for
agreement only if the bridge stays set and the last messages went to this
registry. `mail` assumes weak fairness of `Answer` and `Continue` per
session: a request to the relayer is answered or fails, and Node's event loop
runs the continuation. `signup` assumes that an open dialog polls (an interval
timer) and strong fairness of the service's answer to it: a poll that is repeated
for ever is not lost for ever. `pairing` assumes the two polling loops and the
grant that the host's loop makes, not that a session lives or a host stays.
`webmailbox` and `openpgp` assume that a reload goes on or fails: `ReloadFails` is
part of the fair action. `passkeys` assumes that the browser settles a call (by the
user, the signal or its own timeout) and that promises and timers of the page run.
`relayer` and `outbound` state safety only: a host that falls silent holds a
message for ever, since readReply has no timeout. Clients, users and the registry are
free to stop everywhere.

## 5. What is proved

All theorems hold for every value of the constants that meets the ASSUMEs of the
modules: disjoint kinds of names, `None` outside of the other sets, natural or
positive bounds, the bridge's addresses among those that can be set, an hour that
is no longer than a day. None of them bounds the number of keys, names, nodes, calls,
tabs, devices or messages. `QuotaAssumption` of `MailNode` asks for finitely many
sessions and sizes of messages, at least one of each, because the bound on the
overshoot counts the sessions and speaks of the largest message; which size that is
remains open, since smtp-server is given no limit.

`RegistryProofs`. `TypeCorrect` first. Then two inductive invariants. `RecordsOK`
says of each record what `ControllersAreSound` says of all: a live name has
between one and `MaxControllers` controllers, all different, the primary among
them, and a vacated one none. Its parts are not inductive alone: removal keeps the
primary among the controllers only because the list has no duplicates, and it
leaves somebody only because a live list is never empty. `HistoryInv` joins
`OptInHasCause` and `InviteUsedOnce` to what they need: the i-th write of a
generation has nonce i (`NonceCountsWrites`), writes and stamps are not ahead of
their generation and time (`GenerationsBeginEmpty`, `StampsAreNotAhead`), and
the invites of applied links are marked (`LinkedInvitesAreUsed`).
From them: `ControllersStaySound`, `OptInIsJustified`, `WritesAreAppliedOnce`,
`InvitesLinkOnce`, `RegistryInvariant`, and the action properties
`RemovalRevokes`, `OEIdsStay`, `DekIsFixed`. `DirectoryIsABijection` is inductive
as it stands.

`RegistryIsABook`, in the same module, is the refinement `Registry` => `MailboxBook`. A
name's page (`Face`) depends on its record and stamps only, so a transaction turns
one page; a lemma per action shows which step of the book that is. It needs
`RegistryInv`: a claim opens no door because no stamp is ahead of its generation,
a link or an opt-in in the block of an opt-out leaves the door shut because the
door was shut already, and a removal leaves a key because the list is sound.

`ChainProofs`, the bridge. `MessagesAlternate` rests on `ClaimInv`: messages are not
ahead of the generation, and a vacate of the present generation exists only if nobody
holds the name. `BridgeRunsTheRegistry` shows that the composition, seen on the
registry's variables, is a behaviour of `Registry`: all its theorems carry over.
`NewestClaimHolds` combines both.

`ChainProofs`, the relayer. `RelayerRunsTheRegistry` is the same for transactions that
are posted, estimated and mined. `NamesAnswersTheRecord` needs `ReadsAreBehind`: a
claimed name has a DEK, and the generation of the first read has only grown by the
time of the second. `RetriesAreHarmless` needs `AppliedIsSpent`: what was applied in a
generation has used up its nonce there, or registered its node, so that the same body
cannot be applied again; no step of the registry gives a used body back
(`SpentStays`), because nonces only grow within a generation and generations only
grow. `AcknowledgementsAreSound` needs an order on what an estimate can have seen
(`StandingGrows`): a record by generation, by nonce and by being vacated, while the
tables of nodes and the used invites only get more. Every step of the registry goes up
in it (`StandingSteps`), and nothing that is strictly above is ever the same again
(`StandingOrder`), so what was overtaken stays overtaken. With it `AckInv`: a
transaction that waits would still succeed if the standing is the one its estimate saw
(`EstimateStays`: the guards read nothing else), and one that was reverted has a
standing that moved.

`MailNodeProofs`. `MailInv` joins the types, what a handler knows in each of its
phases (`JobsOK`), and the disk: a content id belongs to one session or to one row
(`CidsAreOwned`), and flags in the trash are about numbers that exist or existed,
whose rows are condemned (`FlagsCondemn`). Without the first, a deletion could take
the blob of a message that is about to be indexed; without the second, an
interrupted deletion could take a row nobody trashed. `OpenOK` says that a handler
which may write was opted in at some moment since it pinned the blob. From them:
`RowsCanBeOpened`, `NumbersAreUnique`, `AnsweredMailStays` and `OptOutIsHeeded`,
for any number of sessions, messages and generations. `AnsweredMailStays` is in two
parts: the blob of what was answered stays pinned, whatever crashes, and its row stays
unless the index file is torn.

`OvershootIsLimited` rests on `QuotaInv`: the rows of a mailbox and the claims of the
sessions that passed the quota for it and have not written yet come to the bound at
most. A session that passes the quota has a size that fits beside the rows, and the
other claims are at most one largest message per other session; writing turns a claim
into a row. The sum is the fold of the community module, over a set. What it computes
(`TotalOfOneMore`, `TotalOfPart`, `TotalIsBounded`) is shown by taking a smallest
subset for which it fails (`SmallestSubset`), with finite subsets well-founded.

`OutboundProofs`. `SendingIsLimited`: the list of hits forgets, the limit is about
all times, so `RateInv` says that a grant of the last day is still in the list and
that no window that has begun holds more than its limit; a new grant adds one to
the windows that contain now, whose grants are all in the list, and the slot was
free. `StagedFilesAreWhole`: bytes are written before the meta file and removed
after it, and no file is whole and torn at once (`DiskInv`).

`SuccessMeansDelivery`: `SentInv` says what each phase of a message knows; the files
that were asked for are all taken from the first await on, the sender's copy is kept
before the dialog with the host begins, and the host's word comes before the answer.
`ListStaysStaged`: `FormInv` separates the files that are on the list from those that
are still to be uploaded, and says that the composer lists nothing while its message
is being sent, so that `take` only removes files that no list holds.

`SignupProofs`. The properties speak of browsers and of the registry, and hold because
of the books in between. `BookInv`: no invoice has a number that was not given out, a
credential finds its own invoice, and an invoice and its counterpart at the payment
service point at each other, one to one; the idempotency key is what keeps this when
two calls create a counterpart side by side. `CallOK` and `TabOK`: a call in flight is
about an invoice there is, and only a tab that has its invoice has a link.
`BrowsersInv` and `PaymentInv` hold until a restart: a link in a draft or a tab that of
the credential's own invoice (`LinksFindInvoices`), nothing is paid by the book that
nobody has called paid, and whoever is on the way to a name, broadcast or registered,
has an invoice that is paid by the book (`RegisteredMeansPaid`); one that is paid stays
so (`PaidKeeps`). That money came in does not follow: the webhook is believed. After a
restart the numbers begin anew and neither holds, which is why the two properties say
so. `SettledIsFinal` is an action property: every write of a status looks first
whether the invoice is still awaited.

`PairingProofs`. `SessionInv`: before a session is joined no guest takes part in it and
no host seals for it; afterwards everybody who takes part has one transport key, that
of the guest that joined, and the host seals for that one only. This needs a session
id never to be given out twice; `sid` stands for the counter in `pair-${++n}-...`
(`pair.ts:36`), which only grows. From it
`OnlyTheJoinerIsServed`. `ServedInv` counts the credentials that got a wrap of a
session, none before it is gone and one at most then: `SessionServesOne`, also when
`finish` is answered into the void and repeated with another passkey. `GuestInv`: a
guest that is done owns its passkey, so that no other device overwrites its wrap:
`DoneDeviceFindsItsWrap`, unless a crash tore the file. The file holds what memory
holds (`disk.rows = wraps`), and with a torn file the node is down. Of a link
`GuestInv` says that it is on its way or settled: it made its passkey a controller, or
its nonce is used up for something else (`Settled`). A link that is mined is settled
because no link on its way is signed for a nonce still to come (`ChainInv`), and what
is settled stays so: `LinkedUnlessOvertaken`. The types use that a guest with an invite
has a name and a passkey, so `TypeCorrect` rests on the same invariant.

`OpenPgpProofs`. `HeldKeysAreShown` needs that the record of the mailbox has been
published, too (`HeldInv`), as tabs take their key from it. `PublishingIsAllowed` is an
action property and needs `YesWasSeen`: a request that waits for the registry's answer
has seen the mailbox opted in if it is opted in now, and a request that was told yes
has seen it.

`WebClientProofs`, the tabs. `KeptMailIsNotDeleted` needs `KeptInv`: everything in the
trash is unwanted, so is everything that an action on its way will put there, and an
action either sets flags or clears them. Lists may be as old as they like: the node
deletes only what is in its trash when the request arrives.

`WebClientProofs`, the prompts. `QueueInv`: ceremonies that were not asked for have not
begun (`Fresh`), one that has left the queue comes after ceremonies that are over
(`InOrder`), the pending call belongs to the ceremony that made it
(`CallIsPending`), and one inside has its controller or was aborted
(`HasController`). From it `BrowserIsAskedOnce`, where the single look of
awaitBrowserSlot is enough because the queue lets one in at a time, and
`LogoutAborts`.

Every module with a theorem about its behaviour also proves its type invariant, which
the other invariants use for what a record or a function update yields.

Only model-checked. The seven liveness properties (`ChainsAgreeInTheEnd`, `SessionsAreAnswered`,
`PaymentIsNoticed`, `GuestIsServed`, `TabsCatchUp`, `SwitchCatchesUp`, `FlowsEnd`) are
liveness under fairness. `RecoveryWrapsTheDek` of `Signup` is the finding and does not
hold. Only proved, and asked of no run: that a removed key is no controller afterwards
(`RemovalRevokes`); what swap-and-pop leaves of the list is in `ControllersAreSound`, too.

## 6. What is not modelled

*Name spelling rules.* Validators of strings without state, in two languages;
`Registry` has one class of names per validator, and which strings fall in it is
not a question of behaviour over time.

*Cryptography.* `dek.ts`, `envelope.ts`, `passkey.ts`, `webauthn-p256.ts`: the
models take from it who can sign and who can open. What a reply of the
authenticator must contain is in `Passkeys`.

*Of the web client*: layout, search, settings, snoozing, the list of label names,
drag and camera handling, the limits of the lists in localStorage (5 drafts, 20
passkeys), the development sign-in with a mock passkey.

*Of the node*: DKIM, MIME, geo and translations, static files, the ENS gate (not
configured by main.ts), decoding of bodies.

*Deployment and test fixtures*: `Deploy.s.sol`, `anvil.ts`, `dev-server.ts`,
`e2e`.
