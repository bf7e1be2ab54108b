------------------------------ MODULE EnsClaim ------------------------------
(***************************************************************************)
(* The claim contract on L1: registry/src/EnsClaim.sol.                    *)
(*                                                                         *)
(* claim and vacate are the two transactions; each ends by handing one     *)
(* message to the cross-domain messenger.  The ENS contracts are external: *)
(* a name has a holder in the base registrar and, while it is wrapped, one *)
(* in the name wrapper.                                                    *)
(***************************************************************************)
EXTENDS Naturals, Sequences, FiniteSets

CONSTANTS
    EnsNames,       \* names eth2ldNode accepts: one label and ".eth"
    Owners,         \* addresses that hold names, the wrapper contract aside
    Wrapper,        \* the address of the name wrapper contract
    Keys, Deks,     \* passkeys and (dekPublic, wrappedDek) pairs
    Registries,     \* L2 addresses the owner may set with setBridge
    None,           \* the zero address; a registrar without an owner reverts
    MaxGeneration,  \* the largest uint64
    MaxAttested     \* how many claim challenges are signed

VARIABLES
    ens,            \* name -> its holder in the registrar and in the wrapper
    l2Registry,     \* the registry messages go to, None before setBridge
    lastOwner,      \* name -> who claimed it last, None when vacated
    generation,     \* name -> how often it was claimed
    sent,           \* the messages handed to the messenger, in order
    attested        \* claim challenges signed by passkeys

l1vars == <<ens, l2Registry, lastOwner, generation, sent, attested>>

Init ==
    /\ ens \in [EnsNames -> [registrar : Owners, wrapper : {None}]]
    /\ l2Registry = None
    /\ lastOwner = [n \in EnsNames |-> None]
    /\ generation = [n \in EnsNames |-> 0]
    /\ sent = <<>>
    /\ attested = {}

\* _ensOwner: the wrapper's holder if there is one, else the registrar's.
EnsOwner(n) == IF ens[n].wrapper # None THEN ens[n].wrapper ELSE ens[n].registrar

\* BaseRegistrar.ownerOf reverts for a name that has lapsed.
OwnerIsKnown(n) == ens[n].wrapper # None \/ ens[n].registrar # None

ClaimChallenge(n, k, dek) == [name |-> n, key |-> k, dek |-> dek, gen |-> generation[n]]

\* messenger.sendMessage; before setBridge there is no messenger to call.
SendMessage(m) ==
    /\ l2Registry # None
    /\ sent' = Append(sent, [m EXCEPT !.to = l2Registry])

BindMessage(n, k, dek, gen) ==
    [to |-> None, call |-> "applyEnsBind", name |-> n, key |-> k, dek |-> dek, gen |-> gen]

VacateMessage(n, gen) ==
    [to |-> None, call |-> "applyEnsVacate", name |-> n, gen |-> gen]

\* Mutant of NextGeneration: a claim reuses the generation a vacate has ended.
ReusedGeneration(n) ==
    IF lastOwner[n] = None /\ generation[n] > 0 THEN generation[n] ELSE generation[n] + 1

NextGeneration(n) == generation[n] + 1

\* claim, sent by the wallet o with a passkey's signature over the challenge.
Claim(n, o, k, dek) ==
    /\ OwnerIsKnown(n)
    /\ o = EnsOwner(n)
    /\ ClaimChallenge(n, k, dek) \in attested
    /\ generation[n] < MaxGeneration
    /\ generation' = [generation EXCEPT ![n] = NextGeneration(n)]
    /\ lastOwner' = [lastOwner EXCEPT ![n] = o]
    /\ SendMessage(BindMessage(n, k, dek, NextGeneration(n)))
    /\ UNCHANGED <<ens, l2Registry, attested>>

\* Mutant of Vacatable: a name that is vacated already can be vacated again.
NotHeld(n) == EnsOwner(n) # lastOwner[n] /\ generation[n] > 0

Vacatable(n) == lastOwner[n] # None /\ EnsOwner(n) # lastOwner[n]

\* vacate: anyone may call it once the name has moved on.
Vacate(n) ==
    /\ OwnerIsKnown(n)
    /\ Vacatable(n)
    /\ lastOwner' = [lastOwner EXCEPT ![n] = None]
    /\ SendMessage(VacateMessage(n, generation[n]))
    /\ UNCHANGED <<ens, l2Registry, generation, attested>>

\* The owner of EnsClaim points it at a registry (zero addresses revert).
SetBridge(r) ==
    /\ l2Registry' = r
    /\ UNCHANGED <<ens, lastOwner, generation, sent, attested>>

-----------------------------------------------------------------------------
(* Outside the contract.                                                   *)

\* A passkey signs the claim challenge the contract answers now.
Attest(n, k, dek) ==
    /\ Cardinality(attested) < MaxAttested
    /\ attested' = attested \cup {ClaimChallenge(n, k, dek)}
    /\ UNCHANGED <<ens, l2Registry, lastOwner, generation, sent>>

\* The name changes hands, inside the wrapper or outside of it.
Transfer(n, o) ==
    /\ OwnerIsKnown(n)
    /\ ens' = IF ens[n].wrapper # None
              THEN [ens EXCEPT ![n].wrapper = o]
              ELSE [ens EXCEPT ![n].registrar = o]
    /\ UNCHANGED <<l2Registry, lastOwner, generation, sent, attested>>

Wrap(n) ==
    /\ ens[n].wrapper = None /\ ens[n].registrar # None
    /\ ens' = [ens EXCEPT ![n] = [registrar |-> Wrapper, wrapper |-> @.registrar]]
    /\ UNCHANGED <<l2Registry, lastOwner, generation, sent, attested>>

Unwrap(n) ==
    /\ ens[n].wrapper # None
    /\ ens' = [ens EXCEPT ![n] = [registrar |-> @.wrapper, wrapper |-> None]]
    /\ UNCHANGED <<l2Registry, lastOwner, generation, sent, attested>>

\* The registration lapses; later somebody, perhaps the same, registers it anew.
Lapse(n) ==
    /\ ens' = [ens EXCEPT ![n] = [registrar |-> None, wrapper |-> None]]
    /\ UNCHANGED <<l2Registry, lastOwner, generation, sent, attested>>

Renew(n, o) ==
    /\ ~OwnerIsKnown(n)
    /\ ens' = [ens EXCEPT ![n].registrar = o]
    /\ UNCHANGED <<l2Registry, lastOwner, generation, sent, attested>>

-----------------------------------------------------------------------------
ContractStep ==
    \/ \E n \in EnsNames, o \in Owners, k \in Keys, dek \in Deks : Claim(n, o, k, dek)
    \/ \E n \in EnsNames : Vacate(n)
    \/ \E r \in Registries : SetBridge(r)

Outside ==
    \E n \in EnsNames :
        \/ \E k \in Keys, dek \in Deks : Attest(n, k, dek)
        \/ \E o \in Owners : Transfer(n, o) \/ Renew(n, o)
        \/ Wrap(n) \/ Unwrap(n) \/ Lapse(n)

Next == ContractStep \/ Outside

Spec == Init /\ [][Next]_l1vars
=============================================================================
