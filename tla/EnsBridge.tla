----------------------------- MODULE EnsBridge -----------------------------
(***************************************************************************)
(* EnsClaim on L1, the registry on L2 and the cross-domain messenger       *)
(* between them.  The messenger is external: it relays each message sent   *)
(* to the registry when it likes and in any order, a relay that reverts    *)
(* changes nothing and may be repeated, one that succeeded may not.        *)
(***************************************************************************)
EXTENDS Registry

CONSTANTS
    Owners, Wrapper, Registries, MaxAttested,    \* see EnsClaim
    ThisClaim,      \* the EnsClaim of this module, as the registry's owner sets it
    ThisRegistry    \* the registry of this module, as the owner of EnsClaim sets it

ASSUME EnsBridgeAssumption ==
    /\ ThisClaim \in Bridges
    /\ ThisRegistry \in Registries
    /\ None \notin Owners \cup Registries \cup {Wrapper}
    /\ Wrapper \notin Owners
    /\ MaxAttested \in Nat

VARIABLES
    ens, l2Registry, lastOwner, generation, sent, attested,  \* see EnsClaim
    delivered       \* the positions in sent of the messages relayed with success

L1 == INSTANCE EnsClaim

l1vars == <<ens, l2Registry, lastOwner, generation, sent, attested>>
bridgeVars == <<vars, l1vars, delivered>>

BridgeInit == Init /\ L1!Init /\ delivered = {}

OnL1 == L1!Next /\ UNCHANGED <<vars, delivered>>

OnL2 == (UserWrite \/ OwnerWrite \/ Environment) /\ UNCHANGED <<l1vars, delivered>>

\* The registry's handler of a message.
Handle(m) ==
    \/ /\ m.call = "applyEnsBind"
       /\ ApplyEnsBind(ThisClaim, m.name, m.key, m.dek, m.gen)
    \/ /\ m.call = "applyEnsVacate"
       /\ ApplyEnsVacate(ThisClaim, m.name, m.gen)

Relay(i) ==
    /\ i \in DOMAIN sent \ delivered
    /\ sent[i].to = ThisRegistry
    /\ Handle(sent[i])
    /\ delivered' = delivered \cup {i}
    /\ UNCHANGED l1vars

BridgeNext == OnL1 \/ OnL2 \/ \E i \in DOMAIN sent : Relay(i)

BridgeSpec == BridgeInit /\ [][BridgeNext]_bridgeVars

\* A message whose relay can succeed is relayed in the end: the sequencer relays
\* it once and whoever wants it repeats a relay that failed. A claim and a vacate
\* per generation are all the messages about a name.
MaxSent == 2 * MaxGeneration * Cardinality(EnsNames)

FairBridgeSpec == BridgeSpec /\ \A i \in 1..MaxSent : WF_bridgeVars(Relay(i))

-----------------------------------------------------------------------------
(* Properties.                                                             *)

Binds(i, n, gen) ==
    sent[i].call = "applyEnsBind" /\ sent[i].name = n /\ sent[i].gen = gen

Vacates(i, n, gen) ==
    sent[i].call = "applyEnsVacate" /\ sent[i].name = n /\ sent[i].gen = gen

\* The messages about a name alternate: generation by generation one bind, then
\* at most one vacate, however the name is traded, wrapped or renewed meanwhile.
\* The registry tells messages apart by their generation only.
ClaimsAlternate ==
    \A i, j \in DOMAIN sent : i < j /\ sent[i].name = sent[j].name =>
        \/ sent[i].gen < sent[j].gen
        \/ /\ sent[i].gen = sent[j].gen
           /\ sent[i].call = "applyEnsBind" /\ sent[j].call = "applyEnsVacate"

\* Whatever order the messages arrive in, the registry holds the newest claim it
\* has heard of: an older bind never replaces it, a bind never undoes the vacate
\* of its generation, and the DEK mail is sealed to is the one that was claimed.
NewestClaimWins ==
    \A n \in EnsNames :
        LET g == names[n].mailboxGeneration
        IN  /\ \A i \in delivered : sent[i].name = n => sent[i].gen <= g
            /\ names[n].exists =>
                   /\ \E i \in delivered : Binds(i, n, g) /\ sent[i].dek = names[n].dek
                   /\ \A i \in delivered : ~Vacates(i, n, g)

\* The registry and EnsClaim tell the same about a name.
AgreeOn(n) ==
    /\ names[n].mailboxGeneration = generation[n]
    /\ names[n].exists <=> lastOwner[n] # None

ToldThisRegistry(n) ==
    \A i \in DOMAIN sent :
        sent[i].name = n /\ sent[i].gen = generation[n] => sent[i].to = ThisRegistry

\* If the two contracts stay pointed at each other, then for every name whose last
\* claim (and vacate) went to this registry the chains agree in the end, whatever
\* arrived early, late or against a bridge that was not set yet.
ChainsAgreeInTheEnd ==
    <>[](bridge = ThisClaim) =>
        \A n \in EnsNames : <>[](ToldThisRegistry(n) => AgreeOn(n))
=============================================================================
