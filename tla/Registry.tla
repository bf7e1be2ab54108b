------------------------------ MODULE Registry ------------------------------
(***************************************************************************)
(* The name registry on the Base chain: registry/src/OpenEmailRegistry.sol *)
(*                                                                         *)
(* Every external function that writes state is one action; a transaction  *)
(* is atomic and a revert leaves everything as it was, so the guards of an *)
(* action are the revert conditions of its function.  Views are operators. *)
(*                                                                         *)
(* What surrounds the contract is here as far as it bounds the inputs:     *)
(* passkeys sign challenges that they read from the contract's views, and  *)
(* a signature, once made, may reach the contract late, twice or never     *)
(* (whoever relays it may retry).  A public key is abstracted to its       *)
(* holder, a signature to the challenge it signs, dekPublic and wrappedDek *)
(* to one value, and a name to the class its spelling puts it in.          *)
(***************************************************************************)
EXTENDS Naturals, Sequences, FiniteSets, Functions

CONSTANTS
    OENames,        \* names _requireValidName accepts: no dot in the stem
    EnsNames,       \* names _requireLinkedEnsName accepts: "<label>.eth"
    Keys,           \* passkey public keys (qx, qy)
    Nodes,          \* node master keys
    Domains,        \* node domains
    Invites,        \* pairing invite ids other than bytes32(0)
    Deks,           \* (32-byte dekPublic, wrappedDek) pairs
    Bridges,        \* (ensClaim, crossDomainMessenger) pairs the owner may set
    None,           \* the zero value of keys, domains, DEKs and bridges
    MaxControllers, \* MAX_CONTROLLERS, 8 in the contract
    MaxNonce,       \* where ++nonce overflows (uint256)
    MaxGeneration,  \* the largest mailbox generation (uint64)
    MaxTime,        \* the largest block timestamp (uint64)
    MaxSigned       \* how many signatures the passkeys make

Names == OENames \cup EnsNames
Generations == 0..MaxGeneration

ASSUME ConstantsAssumption ==
    /\ OENames \cap EnsNames = {}
    /\ None \notin Keys \cup Nodes \cup Domains \cup Deks \cup Bridges
    /\ MaxControllers \in Nat \ {0}
    /\ MaxNonce \in Nat \ {0}
    /\ MaxGeneration \in Nat \ {0}
    /\ MaxTime \in Nat \ {0}
    /\ MaxSigned \in Nat

VARIABLES
    bridge,         \* <<ensClaim, crossDomainMessenger>>, None until set
    names,          \* _names: the NameRecord of every name
    nodes,          \* _nodes: master key -> domain, None when not registered
    masterByDomain, \* _masterByDomain: domain -> master key or None
    optIns,         \* _optedInAt, _optedOutAt, _optedInGeneration
    inviteUsed,     \* _inviteUsed: the invite ids already consumed
    now,            \* block.timestamp
    signed,         \* signatures made so far, none is ever forgotten
    writes          \* history: per name and generation, the signed writes applied

envVars == <<now, signed>>
vars == <<bridge, names, nodes, masterByDomain, optIns, inviteUsed, now, signed, writes>>

-----------------------------------------------------------------------------
(* The challenges: what a passkey signs. The views compute them with the   *)
(* nonce the record has now; the write functions compute them again when   *)
(* the signature arrives. None of them holds the mailbox generation.       *)

RegisterChallenge(n, dek) ==
    [act |-> "register", name |-> n, dek |-> dek, nonce |-> names[n].nonce]

LinkNodeChallenge(n, d, k, invite) ==
    [act |-> "linkNode", name |-> n, node |-> d, newKey |-> k, invite |-> invite,
     nonce |-> names[n].nonce]

RemoveControllerChallenge(n, k) ==
    [act |-> "removeController", name |-> n, oldKey |-> k, nonce |-> names[n].nonce]

OptInChallenge(n, d) ==
    [act |-> "optIn", name |-> n, node |-> d, nonce |-> names[n].nonce]

OptOutChallenge(n, d) ==
    [act |-> "optOut", name |-> n, node |-> d, nonce |-> names[n].nonce]

\* Every challenge the views answer for a name at this moment.
CurrentChallenges(n) ==
    {RegisterChallenge(n, dek) : dek \in Deks}
    \cup {LinkNodeChallenge(n, d, k, i) : d \in Nodes, k \in Keys, i \in Invites}
    \cup {RemoveControllerChallenge(n, k) : k \in Keys}
    \cup {OptInChallenge(n, d) : d \in Nodes}
    \cup {OptOutChallenge(n, d) : d \in Nodes}

\* WebAuthn.verify: the signature is over this challenge and by this key.
Verify(challenge, auth, k) == auth.challenge = challenge /\ auth.key = k

\* _verifyAny: by a key that is a controller now.
VerifyAny(n, challenge, auth) ==
    \E k \in Range(names[n].controllers) : Verify(challenge, auth, k)

-----------------------------------------------------------------------------
EmptyRecord ==
    [primary |-> None, dek |-> None, nonce |-> 0, mailboxGeneration |-> 0,
     exists |-> FALSE, controllers |-> <<>>]

Init ==
    /\ bridge = None
    /\ names = [n \in Names |-> EmptyRecord]
    /\ nodes = [d \in Nodes |-> None]
    /\ masterByDomain = [dom \in Domains |-> None]
    /\ optIns = [n \in Names |-> [d \in Nodes |-> [inAt |-> 0, outAt |-> 0, gen |-> 0]]]
    /\ inviteUsed = {}
    /\ now = 1
    /\ signed = {}
    /\ writes = [n \in Names |-> [g \in Generations |-> <<>>]]

\* Mutants of IsOptedIn: an opt-out in the block of the opt-in does not count;
\* the generation of the opt-in is not compared.
IsOptedInAtOptOut(n, d) ==
    LET o == optIns[n][d]
    IN  /\ names[n].exists
        /\ o.inAt # 0
        /\ o.inAt >= o.outAt
        /\ o.gen = names[n].mailboxGeneration

IsOptedInEver(n, d) ==
    LET o == optIns[n][d]
    IN  names[n].exists /\ o.inAt # 0 /\ o.inAt > o.outAt

\* isOptedIn: the view every node asks before it receives, sends or appends.
IsOptedIn(n, d) ==
    LET o == optIns[n][d]
    IN  /\ names[n].exists
        /\ o.inAt # 0
        /\ o.inAt > o.outAt
        /\ o.gen = names[n].mailboxGeneration

\* Mutant of CountWrite: the nonce stays.
CountWriteOnly(n, rec, auth) ==
    /\ names' = [names EXCEPT ![n] = rec]
    /\ writes' = [writes EXCEPT ![n][rec.mailboxGeneration] = Append(@, auth)]

\* ++rec.nonce, and the history of the writes it counts.
CountWrite(n, rec, auth) ==
    /\ names' = [names EXCEPT ![n] = [rec EXCEPT !.nonce = @ + 1]]
    /\ writes' = [writes EXCEPT ![n][rec.mailboxGeneration] = Append(@, auth)]

-----------------------------------------------------------------------------
(* Users' writes. auth is the signature that came with the call.  Can...   *)
(* are the revert conditions of a write, which an estimate evaluates, too. *)

Available(n) == ~names[n].exists

CanRegister(n, k, dek, auth) ==
    /\ n \in OENames
    /\ Available(n)
    /\ Verify(RegisterChallenge(n, dek), auth, k)

Register(n, k, dek, auth) ==
    /\ CanRegister(n, k, dek, auth)
    /\ names' = [names EXCEPT ![n] =
           [primary |-> k, dek |-> dek, nonce |-> 1, mailboxGeneration |-> 1,
            exists |-> TRUE, controllers |-> Append(@.controllers, k)]]
    /\ UNCHANGED <<bridge, nodes, masterByDomain, optIns, inviteUsed, writes, envVars>>

InviteAlwaysGood(invite) == TRUE   \* mutant of InviteUnused
InviteUnused(invite) == invite \notin inviteUsed

IsNewController(rec, k) == k \notin Range(rec.controllers)

HasRoomForOneMore(rec) == Len(rec.controllers) <= MaxControllers   \* mutant of HasRoom
HasRoom(rec) == Len(rec.controllers) < MaxControllers

\* A controller of the claimed name signed this, and ++nonce does not overflow.
Accepts(n, challenge, auth) ==
    /\ names[n].exists
    /\ VerifyAny(n, challenge, auth)
    /\ names[n].nonce < MaxNonce

CanLinkNode(n, d, k, invite, auth) ==
    /\ InviteUnused(invite)
    /\ nodes[d] # None
    /\ IsNewController(names[n], k)
    /\ HasRoom(names[n])
    /\ Accepts(n, LinkNodeChallenge(n, d, k, invite), auth)

LinkNode(n, d, k, invite, auth) ==
    LET rec == names[n] IN
    /\ CanLinkNode(n, d, k, invite, auth)
    /\ inviteUsed' = inviteUsed \cup {invite}
    /\ optIns' = [optIns EXCEPT ![n][d] =
                     [@ EXCEPT !.inAt = now, !.gen = rec.mailboxGeneration]]
    /\ CountWrite(n, [rec EXCEPT !.controllers = Append(@, k)], auth)
    /\ UNCHANGED <<bridge, nodes, masterByDomain, envVars>>

\* The last controller takes the place of the removed one.
SwapAndPop(cs, i) ==
    [j \in 1..Len(cs) - 1 |-> IF j = i THEN cs[Len(cs)] ELSE cs[j]]

\* _controllerIndex: the first place k stands at.
IsIndexOf(i, cs, k) == cs[i] = k /\ \A j \in 1..i - 1 : cs[j] # k

\* The primary key moves to controllers[0] when it was the removed one.
WithoutController(rec, k, i) ==
    LET rest == SwapAndPop(rec.controllers, i)
    IN  [rec EXCEPT !.controllers = rest,
                    !.primary = IF @ = k THEN rest[1] ELSE @]

CanRemoveController(n, k, auth) ==
    /\ Len(names[n].controllers) > 1
    /\ Accepts(n, RemoveControllerChallenge(n, k), auth)
    /\ \E i \in DOMAIN names[n].controllers : IsIndexOf(i, names[n].controllers, k)

RemoveController(n, k, auth) ==
    LET rec == names[n] IN
    /\ CanRemoveController(n, k, auth)
    /\ \E i \in DOMAIN rec.controllers :
           /\ IsIndexOf(i, rec.controllers, k)
           /\ CountWrite(n, WithoutController(rec, k, i), auth)
    /\ UNCHANGED <<bridge, nodes, masterByDomain, optIns, inviteUsed, envVars>>

CanOptIn(n, d, auth) == nodes[d] # None /\ Accepts(n, OptInChallenge(n, d), auth)

OptIn(n, d, auth) ==
    LET rec == names[n] IN
    /\ CanOptIn(n, d, auth)
    /\ optIns' = [optIns EXCEPT ![n][d] =
                     [@ EXCEPT !.inAt = now, !.gen = rec.mailboxGeneration]]
    /\ CountWrite(n, rec, auth)
    /\ UNCHANGED <<bridge, nodes, masterByDomain, inviteUsed, envVars>>

CanOptOut(n, d, auth) == nodes[d] # None /\ Accepts(n, OptOutChallenge(n, d), auth)

OptOut(n, d, auth) ==
    LET rec == names[n] IN
    /\ CanOptOut(n, d, auth)
    /\ optIns' = [optIns EXCEPT ![n][d] = [@ EXCEPT !.outAt = now]]
    /\ CountWrite(n, rec, auth)
    /\ UNCHANGED <<bridge, nodes, masterByDomain, inviteUsed, envVars>>

-----------------------------------------------------------------------------
(* The registry owner's writes.                                            *)

SetEnsBridge(b) ==
    /\ bridge' = b
    /\ UNCHANGED <<names, nodes, masterByDomain, optIns, inviteUsed, writes, envVars>>

\* Mutant of RegisterNode: DomainTaken is not checked.
RegisterNodeAnyDomain(dom, d) ==
    /\ nodes[d] = None
    /\ nodes' = [nodes EXCEPT ![d] = dom]
    /\ masterByDomain' = [masterByDomain EXCEPT ![dom] = d]
    /\ UNCHANGED <<bridge, names, optIns, inviteUsed, writes, envVars>>

CanRegisterNode(dom, d) == nodes[d] = None /\ masterByDomain[dom] = None

RegisterNode(dom, d) ==
    /\ CanRegisterNode(dom, d)
    /\ nodes' = [nodes EXCEPT ![d] = dom]
    /\ masterByDomain' = [masterByDomain EXCEPT ![dom] = d]
    /\ UNCHANGED <<bridge, names, optIns, inviteUsed, writes, envVars>>

-----------------------------------------------------------------------------
(* Messages of an EnsClaim contract, delivered by the L2 messenger.        *)

\* _onlyEnsClaimMessenger; nobody can call as the zero address.
OnlyEnsClaimMessenger(b) == b # None /\ bridge = b

AnyGeneration(n, gen) == TRUE       \* mutant of IsNewer: StaleGeneration is not checked
IsNewer(n, gen) == gen > names[n].mailboxGeneration

AnyName(n) == TRUE                 \* mutant of RequireLinkedEnsName
RequireLinkedEnsName(n) == n \in EnsNames

ApplyEnsBind(b, n, k, dek, gen) ==
    /\ OnlyEnsClaimMessenger(b)
    /\ RequireLinkedEnsName(n)
    /\ IsNewer(n, gen)
    /\ names' = [names EXCEPT ![n] =
           [primary |-> k, dek |-> dek, nonce |-> 1, mailboxGeneration |-> gen,
            exists |-> TRUE, controllers |-> <<k>>]]
    /\ UNCHANGED <<bridge, nodes, masterByDomain, optIns, inviteUsed, writes, envVars>>

Vacated(rec) ==
    [rec EXCEPT !.exists = FALSE, !.primary = None, !.dek = None, !.controllers = <<>>]

ApplyEnsVacate(b, n, gen) ==
    /\ OnlyEnsClaimMessenger(b)
    /\ RequireLinkedEnsName(n)
    /\ gen = names[n].mailboxGeneration
    /\ names[n].exists
    /\ names' = [names EXCEPT ![n] = Vacated(@)]
    /\ UNCHANGED <<bridge, nodes, masterByDomain, optIns, inviteUsed, writes, envVars>>

-----------------------------------------------------------------------------
(* The environment: passkeys sign what the views answered, blocks go on.   *)
(* The signature remembers the generation it was made in; the contract     *)
(* never sees that field.                                                  *)

Sign(k, n, challenge) ==
    /\ Cardinality(signed) < MaxSigned
    /\ signed' = signed \cup {[key |-> k, challenge |-> challenge,
                               madeIn |-> names[n].mailboxGeneration]}
    /\ UNCHANGED <<bridge, names, nodes, masterByDomain, optIns, inviteUsed, now, writes>>

Tick ==
    /\ now < MaxTime
    /\ now' = now + 1
    /\ UNCHANGED <<bridge, names, nodes, masterByDomain, optIns, inviteUsed, signed, writes>>

-----------------------------------------------------------------------------
UserWrite ==
    \E n \in Names, auth \in signed :
        \/ \E k \in Keys, dek \in Deks : Register(n, k, dek, auth)
        \/ \E d \in Nodes, k \in Keys, i \in Invites : LinkNode(n, d, k, i, auth)
        \/ \E k \in Keys : RemoveController(n, k, auth)
        \/ \E d \in Nodes : OptIn(n, d, auth)
        \/ \E d \in Nodes : OptOut(n, d, auth)

OwnerWrite ==
    \/ \E b \in Bridges \cup {None} : SetEnsBridge(b)
    \/ \E dom \in Domains, d \in Nodes : RegisterNode(dom, d)

BridgeWrite ==
    \E b \in Bridges, n \in Names, gen \in 1..MaxGeneration :
        \/ \E k \in Keys, dek \in Deks : ApplyEnsBind(b, n, k, dek, gen)
        \/ ApplyEnsVacate(b, n, gen)

Environment ==
    \/ \E k \in Keys, n \in Names : \E ch \in CurrentChallenges(n) : Sign(k, n, ch)
    \/ Tick

Next == UserWrite \/ OwnerWrite \/ BridgeWrite \/ Environment

Spec == Init /\ [][Next]_vars
-----------------------------------------------------------------------------
(* Types.                                                                  *)

Challenges ==
    [act : {"register"}, name : Names, dek : Deks, nonce : Nat]
    \cup [act : {"linkNode"}, name : Names, node : Nodes, newKey : Keys,
          invite : Invites, nonce : Nat]
    \cup [act : {"removeController"}, name : Names, oldKey : Keys, nonce : Nat]
    \cup [act : {"optIn", "optOut"}, name : Names, node : Nodes, nonce : Nat]

Signatures == [key : Keys, challenge : Challenges, madeIn : Generations]

NameRecords ==
    [primary : Keys \cup {None}, dek : Deks \cup {None}, nonce : Nat,
     mailboxGeneration : Generations, exists : BOOLEAN, controllers : Seq(Keys)]

OptInTimes == [inAt : Nat, outAt : Nat, gen : Generations]

\* Every variable has the type its Solidity declaration gives it.
TypeOK ==
    /\ bridge \in Bridges \cup {None}
    /\ names \in [Names -> NameRecords]
    /\ nodes \in [Nodes -> Domains \cup {None}]
    /\ masterByDomain \in [Domains -> Nodes \cup {None}]
    /\ optIns \in [Names -> [Nodes -> OptInTimes]]
    /\ inviteUsed \subseteq Invites
    /\ now \in Nat \ {0}
    /\ signed \subseteq Signatures
    /\ writes \in [Names -> [Generations -> Seq(Signatures)]]

-----------------------------------------------------------------------------
(* Safety.                                                                 *)

\* A name exists exactly while somebody controls it: linkNode, removeController
\* and the ENS messages never leave a live name without a controller, nor a
\* vacated one with any, and never more than MAX_CONTROLLERS.  The key nameRecord
\* answers is one of them, whatever was linked and removed before, and the zero key
\* once the name is vacated.  No key stands twice among them; removeController takes
\* out the first match only, so a second one would keep its authority.
ControllersAreSound ==
    \A n \in Names :
        /\ names[n].exists <=> names[n].controllers # <<>>
        /\ Len(names[n].controllers) <= MaxControllers
        /\ IF names[n].exists
           THEN names[n].primary \in Range(names[n].controllers)
           ELSE names[n].primary = None
        /\ IsInjective(names[n].controllers)

\* Within one generation of a mailbox no two writes were applied under the same
\* nonce: of two devices that signed the same state one fails, and a relayed
\* signature that arrives twice is applied once.
OneWritePerNonce ==
    \A n \in Names, g \in Generations : \A i, j \in DOMAIN writes[n][g] :
        i # j => writes[n][g][i].challenge.nonce # writes[n][g][j].challenge.nonce

\* The i-th write of a generation carries the nonce i, and the nonce of a live
\* name counts the writes of its generation: why OneWritePerNonce holds.
NonceCountsWrites ==
    \A n \in Names :
        /\ \A g \in Generations : \A i \in DOMAIN writes[n][g] :
               writes[n][g][i].challenge.nonce = i
        /\ names[n].exists =>
               names[n].nonce = Len(writes[n][names[n].mailboxGeneration]) + 1

\* Nothing is written in a generation that has not begun, and an OE id that does
\* not exist has never begun one.
GenerationsBeginEmpty ==
    \A n \in Names :
        /\ \A g \in Generations : g > names[n].mailboxGeneration => writes[n][g] = <<>>
        /\ n \in OENames /\ ~names[n].exists => names[n].mailboxGeneration = 0

\* Opt-ins are stamped with generations and blocks that have begun.
StampsAreNotAhead ==
    \A n \in Names, d \in Nodes :
        /\ optIns[n][d].inAt <= now
        /\ optIns[n][d].outAt <= now
        /\ optIns[n][d].gen <= names[n].mailboxGeneration

SameInvite(a, b) ==
    /\ a.challenge.act = "linkNode" /\ b.challenge.act = "linkNode"
    /\ a.challenge.invite = b.challenge.invite

\* An invite adds at most one controller, over all names and all generations.
InviteUsedOnce ==
    \A n, m \in Names, g, h \in Generations :
        \A i \in DOMAIN writes[n][g], j \in DOMAIN writes[m][h] :
            SameInvite(writes[n][g][i], writes[m][h][j]) => n = m /\ g = h /\ i = j

\* The invites of the linkNode writes are marked: why InviteUsedOnce holds.
LinkedInvitesAreUsed ==
    \A n \in Names, g \in Generations : \A i \in DOMAIN writes[n][g] :
        writes[n][g][i].challenge.act = "linkNode" =>
            writes[n][g][i].challenge.invite \in inviteUsed

OptsIn(auth, d) ==
    auth.challenge.act \in {"optIn", "linkNode"} /\ auth.challenge.node = d

OptsOut(auth, d) == auth.challenge.act = "optOut" /\ auth.challenge.node = d

\* A node is opted in only on the strength of a write of the current generation
\* that no opt-out followed: timestamps that coincide, a rebind or a vacate in
\* between never revive an authorization the user has withdrawn.
OptInHasCause ==
    \A n \in Names, d \in Nodes : IsOptedIn(n, d) =>
        LET w == writes[n][names[n].mailboxGeneration]
        IN  \E i \in DOMAIN w :
                /\ OptsIn(w[i], d)
                /\ \A j \in i + 1..Len(w) : ~OptsOut(w[j], d)

\* The inductive invariant: the safety properties and what makes them inductive.
RegistryInv ==
    /\ ControllersAreSound
    /\ NonceCountsWrites
    /\ GenerationsBeginEmpty
    /\ StampsAreNotAhead
    /\ OptInHasCause
    /\ LinkedInvitesAreUsed
    /\ InviteUsedOnce

\* registerNode keeps the two directions of the node directory inverse to each
\* other: a domain has one master key and a key one domain.
DirectoryIsInverse ==
    \A d \in Nodes, dom \in Domains : nodes[d] = dom <=> masterByDomain[dom] = d

\* Once a key has been removed it is not a controller any more.
RemovedKeyIsRevoked ==
    [][\A n \in Names, k \in Keys, auth \in signed :
           RemoveController(n, k, auth) => k \notin Range(names'[n].controllers)]_vars

\* An OE id, once registered, is never released, rebound or given another DEK.
OEIdsArePermanent ==
    [][\A n \in OENames : names[n].exists =>
           /\ names'[n].exists
           /\ names'[n].dek = names[n].dek
           /\ names'[n].mailboxGeneration = names[n].mailboxGeneration]_vars

\* A mailbox gets another DEK only with another, larger generation, and a vacated
\* name comes back only with one: within a generation all mail has one DEK.
OneDekPerGeneration ==
    [][\A n \in Names :
           /\ names'[n].mailboxGeneration >= names[n].mailboxGeneration
           /\ names'[n].exists =>
                  \/ names'[n].mailboxGeneration > names[n].mailboxGeneration
                  \/ names[n].exists /\ names'[n].dek = names[n].dek]_vars

-----------------------------------------------------------------------------
(* What the contract promises its readers, without nonces, signatures,     *)
(* timestamps and the order of the controllers.                            *)

Book == INSTANCE MailboxBook WITH
    book <- [n \in Names |->
                [epoch |-> names[n].mailboxGeneration,
                 keys  |-> Range(names[n].controllers),
                 doors |-> {d \in Nodes : IsOptedIn(n, d)}]]

\* Seen as who controls a name and which nodes it has opened, every transaction
\* is one of the five things a user or an ENS holder can mean, or nothing.
ImplementsBook == Book!Spec

=============================================================================
