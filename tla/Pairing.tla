------------------------------ MODULE Pairing ------------------------------
(***************************************************************************)
(* A second device gets the DEK of a mailbox: by a pairing session of the  *)
(* node (pair.ts), shown as a QR code by the device that is signed in      *)
(* (PairQrModal.tsx) and scanned by the new one (PairScanModal.tsx), or    *)
(* by an invite and a grant that the user carries from node to node        *)
(* (service-pair.ts, ServicePairOpenModal.tsx, ConnectServiceModal.tsx).   *)
(* Either way ends with a wrap of the DEK in credential-wraps.ts, which    *)
(* /bootstrap hands to that credential.                                    *)
(*                                                                         *)
(* Sessions are in memory, expire, and are lost when the node restarts;    *)
(* the wraps are rewritten in one file, and a crash inside the write       *)
(* leaves a file the node cannot start from.  Answers get lost.  A grant   *)
(* is signed over the nonce of the mailbox, and the relayer, which sends   *)
(* it to the registry, answers 200 for whatever was mined. A DEK is known  *)
(* by the mailbox it belongs to, an envelope by the transport key it was   *)
(* sealed for.                                                             *)
(***************************************************************************)
EXTENDS Naturals, Sequences, FiniteSets

CONSTANTS
    Names,              \* mailboxes; each has one device that is signed in, its host
    Devices,            \* new devices
    Creds,              \* passkeys the devices create
    MaxSessions, MaxKeys, MaxWrites,        \* bounds of the model
    None

ASSUME PairingAssumption ==
    {MaxSessions, MaxKeys, MaxWrites} \subseteq Nat /\ None \notin Devices \cup Creds

VARIABLES
    sessions,           \* createPairStore: the sessions by sid
    wraps, disk,        \* createCredentialWrapStore: byCred, and its file
    up,                 \* whether the node runs
    hosts,              \* PairQrModal of each mailbox
    guests,             \* PairScanModal and ServicePairOpenModal of each device
    owner,              \* the device of a passkey
    keys,               \* transport keys generated so far
    confirmed,          \* ConnectServiceModal: invites, by their key, to be confirmed
    granted,            \* the links that a grant was signed for
    controllers,        \* passkeys linked on chain
    writes,             \* what used up each nonce of a mailbox: the passkey it linked, or
                        \* None for any other write
    txs,                \* links on their way to a block
    served              \* for each session the passkeys it has stored a wrap for

node == <<sessions, wraps, disk, up>>
carried == <<confirmed, granted>>
chain == <<carried, controllers, writes, txs>>
vars == <<node, hosts, guests, owner, keys, chain, served>>

Sids == 1..MaxSessions
NoSession == [status |-> "none", name |-> None, guestPub |-> 0, sealed |-> 0]
Closed == [phase |-> "closed", sid |-> 0, key |-> 0]
Scanning == [step |-> "scan", sid |-> 0, name |-> None, key |-> 0, cred |-> None, nonce |-> 0]
NoWraps == [c \in Creds |-> None]

Init ==
    /\ sessions = [s \in Sids |-> NoSession]
    /\ wraps = NoWraps /\ disk = [torn |-> FALSE, rows |-> NoWraps]
    /\ up = TRUE
    /\ hosts = [x \in Names |-> Closed]
    /\ guests = [d \in Devices |-> Scanning]
    /\ owner = [c \in Creds |-> None]
    /\ keys = 0 /\ confirmed = {} /\ granted = {}
    /\ controllers = {} /\ writes = [x \in Names |-> <<>>] /\ txs = {}
    /\ served = [s \in Sids |-> {}]

Live(s) == up /\ s \in Sids /\ sessions[s].status \in {"waiting", "joined", "granted"}
Status(s) == IF Live(s) THEN sessions[s].status ELSE "unknown"

\* purge: a session that was granted stays.
Expire(s) ==
    /\ Status(s) \in {"waiting", "joined"}
    /\ sessions' = [sessions EXCEPT ![s] = [NoSession EXCEPT !.status = "gone"]]
    /\ UNCHANGED <<wraps, disk, up, hosts, guests, owner, keys, chain, served>>

\* create: the next number.
Create(s, x) ==
    /\ sessions[s].status = "none"
    /\ \A r \in 1..s-1 : sessions[r].status # "none"
    /\ sessions' = [sessions EXCEPT ![s] = [NoSession EXCEPT !.status = "waiting", !.name = x]]

\* join: the first guest only.
JoinSession(s, key) ==
    /\ Status(s) = "waiting"
    /\ sessions' = [sessions EXCEPT ![s].status = "joined", ![s].guestPub = key]

Grant(s, key) ==
    /\ Status(s) = "joined"
    /\ sessions' = [sessions EXCEPT ![s].status = "granted", ![s].sealed = key]

MarkFinished(s) == sessions' = [sessions EXCEPT ![s] = [NoSession EXCEPT !.status = "gone"]]

\* The bound on behaviours: sessions and writes that are not links share MaxSessions,
\* where a write counts as two sessions.
Others ==
    {w \in Names \X (1..MaxWrites) :
         w[2] \in DOMAIN writes[w[1]] /\ writes[w[1]][w[2]] = None}
InBounds(more) ==
    more + Cardinality({s \in Sids : sessions[s].status # "none"}) + 2 * Cardinality(Others)
        <= MaxSessions

-----------------------------------------------------------------------------
(* The host: the QR code, the loop that waits for a guest, and the grant.  *)

ShowQr(x) ==
    /\ up /\ hosts[x].phase = "closed" /\ InBounds(1)
    /\ \E s \in Sids :
           /\ Create(s, x)
           /\ hosts' = [hosts EXCEPT ![x] = [phase |-> "polling", sid |-> s, key |-> 0]]
    /\ UNCHANGED <<wraps, disk, up, guests, owner, keys, chain, served>>

HostPollsForGrant(x) ==         \* mutant of HostPolls: waits for the grant it has to give
    LET s == hosts[x].sid IN
    /\ hosts[x].phase = "polling" /\ Status(s) = "granted"
    /\ hosts' = [hosts EXCEPT ![x].phase = "sealing", ![x].key = sessions[s].guestPub]
    /\ UNCHANGED <<node, guests, owner, keys, chain, served>>

\* The loop sees that a guest has joined, and seals the DEK for the key it was given.
HostPolls(x) ==
    LET s == hosts[x].sid IN
    /\ hosts[x].phase = "polling" /\ Status(s) = "joined"
    /\ hosts' = [hosts EXCEPT ![x].phase = "sealing", ![x].key = sessions[s].guestPub]
    /\ UNCHANGED <<node, guests, owner, keys, chain, served>>

\* POST grant: what it answers is not looked at, the modal says that the DEK is sent.
HostGrants(x) ==
    LET s == hosts[x].sid IN
    /\ hosts[x].phase = "sealing" /\ up
    /\ Grant(s, hosts[x].key) \/ (Status(s) # "joined" /\ UNCHANGED sessions)
    /\ hosts' = [hosts EXCEPT ![x] = Closed]
    /\ UNCHANGED <<wraps, disk, up, guests, owner, keys, chain, served>>

\* A call that fails ends the loop, and nobody is told; closing the modal ends it,
\* too. It can then be opened again, as it can after the grant.
HostStops(x) ==
    /\ hosts[x].phase \in {"polling", "sealing"}
    /\ hosts' = [hosts EXCEPT ![x] = Closed]
    /\ UNCHANGED <<node, guests, owner, keys, chain, served>>

-----------------------------------------------------------------------------
(* The guest of a session.                                                 *)

NewKey == keys < MaxKeys /\ keys' = keys + 1

RejoinAllowed(d, s) ==          \* mutant of Join: join does not look at the status
    /\ guests[d].step = "scan" /\ NewKey
    /\ Status(s) \in {"waiting", "joined"}
    /\ sessions' = [sessions EXCEPT ![s].status = "joined", ![s].guestPub = keys']
    /\ guests' = [guests EXCEPT ![d] = [Scanning EXCEPT !.step = "passkey", !.sid = s,
                                                        !.key = keys']]
    /\ UNCHANGED <<wraps, disk, up, hosts, owner, chain, served>>

\* join: with a transport key of its own for every try. The answer may be lost; a
\* try that is refused has used up its key, and is not told from no try.
Join(d, s) ==
    /\ guests[d].step = "scan" /\ NewKey
    /\ JoinSession(s, keys')
    /\ guests' = [guests EXCEPT ![d] = [Scanning EXCEPT !.step = "passkey", !.sid = s,
                                                        !.key = keys']]
                 \/ UNCHANGED guests
    /\ UNCHANGED <<wraps, disk, up, hosts, owner, chain, served>>

\* A passkey is created, or one of this device connected.
OwnPasskey(d, c) ==
    /\ owner[c] \in {None, d}
    /\ owner' = [owner EXCEPT ![c] = d]

\* finishPair, as far as the loop that waits for the sealed DEK.
ChoosePasskey(d, c) ==
    LET s == guests[d].sid IN
    /\ guests[d].step = "passkey" /\ Live(s)
    /\ OwnPasskey(d, c)
    /\ guests' = [guests EXCEPT ![d].step = "wait", ![d].cred = c,
                                ![d].name = sessions[s].name]
    /\ UNCHANGED <<node, hosts, keys, chain, served>>

\* The sealed DEK is there. An envelope for another key does not open.
FetchSealed(d) ==
    LET s == guests[d].sid IN
    /\ guests[d].step = "wait" /\ Status(s) = "granted"
    /\ guests' = [guests EXCEPT ![d].step =
                     IF sessions[s].sealed = guests[d].key THEN "opened" ELSE "passkey"]
    /\ UNCHANGED <<node, hosts, owner, keys, chain, served>>

\* A call fails, or the session was gone when it came: an error, and the choice of
\* a passkey again. The loop itself takes an unknown session for one to wait for.
GuestFails(d) ==
    /\ guests[d].step \in {"wait", "opened"}
    /\ guests' = [guests EXCEPT ![d].step = "passkey", ![d].cred = None]
    /\ UNCHANGED <<node, hosts, owner, keys, chain, served>>

SetInMemory(c, x) ==            \* mutant of SetWrap: the file is left for later
    /\ wraps' = [wraps EXCEPT ![c] = x]
    /\ UNCHANGED disk

\* set and flush: a credential has one wrap, whatever mailbox it was for before.
SetWrap(c, x) ==
    /\ wraps' = [wraps EXCEPT ![c] = x]
    /\ disk' = [torn |-> FALSE, rows |-> wraps']

WrapOnly(s, c) ==               \* mutant of FinishSession: the session is not marked finished
    /\ Status(s) = "granted"
    /\ SetWrap(c, sessions[s].name)
    /\ served' = [served EXCEPT ![s] = @ \cup {c}]
    /\ UNCHANGED sessions

\* POST finish: the wrap is stored, then the session ends.
FinishSession(s, c) ==
    /\ Status(s) = "granted"
    /\ SetWrap(c, sessions[s].name)
    /\ served' = [served EXCEPT ![s] = @ \cup {c}]
    /\ MarkFinished(s)

\* When the answer is lost the guest is told that it failed.
Finish(d) ==
    /\ guests[d].step = "opened"
    /\ FinishSession(guests[d].sid, guests[d].cred)
    /\ guests' = [guests EXCEPT ![d].step = "done"] \/ UNCHANGED guests
    /\ UNCHANGED <<up, hosts, owner, keys, chain>>

-----------------------------------------------------------------------------
(* The guest of another service.                                           *)

\* signInvite: what the node's signature is for.
Invitation(c, x, key) == [Scanning EXCEPT !.step = "invited", !.name = x, !.key = key, !.cred = c]

\* POST /pair/invite-sign: the node signs whatever name, passkey and key it is given;
\* nothing of it is stored, the invite is known by its key.
SignInvite(d, c, x, key) == up /\ guests' = [guests EXCEPT ![d] = Invitation(c, x, key)]

\* startOpen: a passkey and a transport key, which the page keeps with the invite.
Invite(d, c, x) ==
    /\ guests[d].step = "scan"
    /\ owner[c] = None /\ owner' = [owner EXCEPT ![c] = d]
    /\ NewKey
    /\ SignInvite(d, c, x, keys')
    /\ UNCHANGED <<node, hosts, chain, served>>

\* The user has the invite at hand, whatever the page that made it waits for.
HasInvite(d) == guests[d].step \in {"invited", "linking", "linked"}

Used(c) == c \in controllers       \* fetchInviteUsed: each passkey has one invite

\* verifyInvite, in the mailbox the invite names. That an invite may have expired is
\* no more than that it may be refused.
VerifyInvite(d) == HasInvite(d) /\ ~Used(guests[d].cred)

\* verifyAndConfirm: the host is shown the domain to confirm.
Confirm(d) ==
    /\ VerifyInvite(d)
    /\ confirmed' = confirmed \cup {guests[d].key}
    /\ UNCHANGED <<node, hosts, guests, owner, keys, granted, controllers, writes, txs, served>>

Nonce(x) == Len(writes[x])

Link(d, nonce) == [name |-> guests[d].name, cred |-> guests[d].cred, key |-> guests[d].key,
                   nonce |-> nonce]

\* What the passkey of the host signs: the new passkey, for the mailbox and the invite,
\* over the nonce that the registry has by then. Two grants may be signed over one.
LinkChallenge(d) == Link(d, Nonce(guests[d].name))

\* The host goes back, or closes the dialog: an invite is verified once more then.
Back(d) ==
    /\ HasInvite(d) /\ guests[d].key \in confirmed
    /\ confirmed' = confirmed \ {guests[d].key}
    /\ UNCHANGED <<node, hosts, guests, owner, keys, granted, controllers, writes, txs, served>>

\* issueGrant: the host checks again that the invite is not used, and signs; that it
\* has expired meanwhile is not looked at. Its memory of the grants it has issued is of
\* one tab only.
IssueGrant(d) ==
    /\ HasInvite(d) /\ guests[d].key \in confirmed
    /\ ~Used(guests[d].cred)
    /\ confirmed' = confirmed \ {guests[d].key}
    /\ granted' = granted \cup {LinkChallenge(d)}
    /\ UNCHANGED <<node, hosts, guests, owner, keys, controllers, writes, txs, served>>

\* What the relayer's estimate asks, and the registry once more in the block: the
\* invite is not spent, and the nonce is the one that was signed.
MayLink(link) == ~Used(link.cred) /\ link.nonce = Nonce(link.name)

\* POST /link as far as the transaction: one that is refused by the estimate (the
\* invite, the nonce, the number of controllers) is not sent.
SubmitLink(link) == MayLink(link) /\ txs' = txs \cup {link}

\* acceptGrant sends the link of the grant it was given.
AcceptGrant(d) ==
    /\ guests[d].step = "invited"
    /\ \E nonce \in 0..Nonce(guests[d].name) :
           /\ Link(d, nonce) \in granted
           /\ SubmitLink(Link(d, nonce))
           /\ guests' = [guests EXCEPT ![d].step = "linking", ![d].nonce = nonce]
    /\ UNCHANGED <<node, hosts, owner, keys, carried, controllers, writes, served>>

\* A block: another write may have come first, then the link reverts.
MineLink(link) ==
    /\ txs' = txs \ {link}
    /\ IF MayLink(link)
       THEN /\ controllers' = controllers \cup {link.cred}
            /\ writes' = [writes EXCEPT ![link.name] = Append(@, link.cred)]
       ELSE UNCHANGED <<controllers, writes>>
    /\ UNCHANGED <<node, hosts, guests, owner, keys, carried, served>>

\* Any other write for the mailbox, from whichever of its controllers: its nonce goes
\* on. One that removes a controller is left to Registry.
OtherWrite(x) ==
    /\ Nonce(x) < MaxWrites /\ InBounds(2)
    /\ writes' = [writes EXCEPT ![x] = Append(@, None)]
    /\ UNCHANGED <<node, hosts, guests, owner, keys, carried, controllers, txs, served>>

AnswersAtOnce(d) ==             \* mutant of LinkAnswered: the relayer waits for no receipt
    /\ guests[d].step = "linking"
    /\ guests' = [guests EXCEPT ![d].step = "linked"]
    /\ UNCHANGED <<node, hosts, owner, keys, chain, served>>

\* The relayer has a receipt, and answers 200 whatever its status says.
LinkAnswered(d) ==
    /\ guests[d].step = "linking" /\ Link(d, guests[d].nonce) \notin txs
    /\ guests' = [guests EXCEPT ![d].step = "linked"]
    /\ UNCHANGED <<node, hosts, owner, keys, chain, served>>

\* The relayer gives up waiting, or the answer is lost. A link that took effect has
\* spent the invite: a second try with the same grant is refused for ever.
LinkFails(d) ==
    /\ guests[d].step = "linking"
    /\ guests' = [guests EXCEPT ![d].step = "invited"]
    /\ UNCHANGED <<node, hosts, owner, keys, chain, served>>

\* POST /pair/service-wrap.
ServiceWrap(c, x) == up /\ SetWrap(c, x)

\* The end of acceptGrant; a call that fails, or whose answer is lost, leaves the
\* guest with the grant it cannot use again.
StoreServiceWrap(d) ==
    /\ guests[d].step = "linked"
    /\ \/ /\ ServiceWrap(guests[d].cred, guests[d].name)
          /\ \E step \in {"done", "invited"} : guests' = [guests EXCEPT ![d].step = step]
       \/ /\ guests' = [guests EXCEPT ![d].step = "invited"]
          /\ UNCHANGED <<wraps, disk>>
    /\ UNCHANGED <<sessions, up, hosts, owner, keys, chain, served>>

\* The device is set up, its page is closed, or the user gives up: its transport key is
\* gone, and what was signed for it is of no use.
Reload(d) ==
    /\ guests[d].step # "scan"
    /\ guests' = [guests EXCEPT ![d] = Scanning]
    /\ confirmed' = confirmed \ {guests[d].key}
    /\ granted' = {link \in granted : link.key # guests[d].key}
    /\ UNCHANGED <<node, hosts, owner, keys, controllers, writes, txs, served>>

-----------------------------------------------------------------------------
\* Sessions are forgotten, the wraps are what the file says.
Restart ==
    /\ up
    /\ sessions' = [s \in Sids |-> IF sessions[s].status = "none" THEN NoSession
                                   ELSE [NoSession EXCEPT !.status = "gone"]]
    /\ wraps' = disk.rows
    /\ UNCHANGED <<disk, up, hosts, guests, owner, keys, chain, served>>

\* A crash inside the write of the file, in POST finish or POST service-wrap: what was
\* in it is lost, and the node does not start again.
CrashInFlush(d) ==
    /\ up
    /\ \/ guests[d].step = "opened" /\ Status(guests[d].sid) = "granted"
       \/ guests[d].step = "linked"
    /\ up' = FALSE /\ wraps' = NoWraps /\ disk' = [torn |-> TRUE, rows |-> NoWraps]
    /\ UNCHANGED <<sessions, hosts, guests, owner, keys, chain, served>>

Host(x) == ShowQr(x) \/ HostPolls(x) \/ HostGrants(x) \/ HostStops(x)

Guest(d) ==
    \/ FetchSealed(d) \/ GuestFails(d) \/ Finish(d)
    \/ Confirm(d) \/ Back(d) \/ IssueGrant(d)
    \/ AcceptGrant(d) \/ LinkAnswered(d) \/ LinkFails(d) \/ StoreServiceWrap(d)
    \/ Reload(d) \/ CrashInFlush(d)
    \/ \E s \in Sids : Join(d, s)
    \/ \E c \in Creds : ChoosePasskey(d, c) \/ \E x \in Names : Invite(d, c, x)

Next ==
    \/ \E s \in Sids : Expire(s)
    \/ \E x \in Names : Host(x) \/ OtherWrite(x)
    \/ \E d \in Devices : Guest(d)
    \/ \E link \in txs : MineLink(link)
    \/ Restart

Spec == Init /\ [][Next]_vars

\* Both loops poll every second until they end.
FairSpec ==
    /\ Spec
    /\ \A x \in Names : WF_vars(HostPolls(x)) /\ WF_vars(HostGrants(x))
    /\ \A d \in Devices : WF_vars(FetchSealed(d))

-----------------------------------------------------------------------------
(* Properties.                                                             *)

SessionRecords == [status : {"none", "waiting", "joined", "granted", "gone"},
                   name : Names \cup {None}, guestPub : Nat, sealed : Nat]
HostRecords == [phase : {"closed", "polling", "sealing"}, sid : 0..MaxSessions, key : Nat]
GuestRecords == [step : {"scan", "passkey", "wait", "opened", "invited", "linking", "linked",
                         "done"},
                 sid : 0..MaxSessions, name : Names \cup {None}, key : Nat,
                 cred : Creds \cup {None}, nonce : Nat]
Links == [name : Names, cred : Creds, key : Nat, nonce : Nat]
Wraps == [Creds -> Names \cup {None}]

\* The type invariant.
TypeOK ==
    /\ sessions \in [Sids -> SessionRecords]
    /\ wraps \in Wraps /\ disk \in [torn : BOOLEAN, rows : Wraps] /\ up \in BOOLEAN
    /\ hosts \in [Names -> HostRecords] /\ guests \in [Devices -> GuestRecords]
    /\ owner \in [Creds -> Devices \cup {None}]
    /\ keys \in Nat /\ confirmed \subseteq Nat
    /\ granted \subseteq Links /\ txs \subseteq Links
    /\ controllers \subseteq Creds /\ writes \in [Names -> Seq(Creds \cup {None})]
    /\ served \in [Sids -> SUBSET (Creds \cup {None})]

\* Of all the devices that scan a code only the one that joined is served, though
\* the host seals between two calls: whatever a session holds was sealed for the
\* key of the guest that waits in it, so the envelope opens.
ServesTheJoiner ==
    \A s \in Sids : sessions[s].status = "granted" =>
        /\ sessions[s].sealed = sessions[s].guestPub
        /\ \A d \in Devices :
               guests[d].step \in {"passkey", "wait", "opened"} /\ guests[d].sid = s
               => guests[d].key = sessions[s].sealed

\* A session hands the DEK to one credential, also when the guest was told that it
\* failed and tries again with another passkey.
OneWrapPerSession == \A s \in Sids : Cardinality(served[s]) <= 1

\* A device that was told that it is set up finds the wrap of that mailbox when it
\* signs in, after restarts too, and whoever paired since; unless a crash tore the file
\* while another wrap was written to it: then the wraps of all devices are gone.
DoneDeviceOpens ==
    \A d \in Devices : guests[d].step = "done" =>
        \/ disk.torn
        \/ /\ wraps[guests[d].cred] = guests[d].name
           /\ disk.rows[guests[d].cred] = guests[d].name

\* A device that was set up from another service is a controller of the mailbox,
\* unless another write used up the nonce that its grant was signed over: its link was
\* estimated, it reverted, it was answered 200 all the same.
DoneDeviceIsLinked ==
    \A d \in Devices : guests[d].step = "done" /\ guests[d].sid = 0 =>
        \/ guests[d].cred \in controllers
        \/ \E i \in DOMAIN writes[guests[d].name] :
               i = guests[d].nonce + 1 /\ writes[guests[d].name][i] # guests[d].cred

\* A guest that waits is served or told, as long as a host works on its session and
\* the node does not lose it: the two loops do not wait for each other.
GuestIsServed ==
    \A d \in Devices, s \in Sids :
        /\ guests[d].step = "wait" /\ guests[d].sid = s
        /\ Live(s)
        ~> \/ guests[d].step # "wait" \/ ~Live(s)
           \/ /\ sessions[s].status # "granted"
              /\ \A x \in Names : hosts[x].sid # s
=============================================================================
