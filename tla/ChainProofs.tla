---------------------------- MODULE ChainProofs ----------------------------
(***************************************************************************)
(* Proofs about what surrounds the registry: EnsBridge, for every number   *)
(* of names, owners, generations and messages, and Relayer, for every      *)
(* number of calls and reads.  Both run the registry's own specification;  *)
(* the order in which the messenger relays does not matter to what the     *)
(* registry believes, and a call that is repeated does no harm.            *)
(***************************************************************************)
EXTENDS EnsBridge, Relayer, RegistryProofs, SequenceTheorems, TLAPS

-----------------------------------------------------------------------------
(* L1: what EnsClaim sends.                                                *)

BindMessages ==
    [to : Registries, call : {"applyEnsBind"}, name : EnsNames, key : Keys,
     dek : Deks, gen : 1..MaxGeneration]

VacateMessages ==
    [to : Registries, call : {"applyEnsVacate"}, name : EnsNames, gen : 1..MaxGeneration]

ClaimType ==
    /\ sent \in Seq(BindMessages \cup VacateMessages)
    /\ generation \in [EnsNames -> 0..MaxGeneration]
    /\ lastOwner \in [EnsNames -> Owners \cup {None}]
    /\ l2Registry \in Registries \cup {None}

\* A name that is held has been claimed; no message is ahead of its name, and a
\* vacate is behind it as soon as the name is held again.
ClaimInv ==
    /\ ClaimType
    /\ \A n \in EnsNames : lastOwner[n] # None => generation[n] >= 1
    /\ \A i \in DOMAIN sent :
           /\ sent[i].gen <= generation[sent[i].name]
           /\ sent[i].call = "applyEnsVacate" /\ lastOwner[sent[i].name] # None =>
                  sent[i].gen < generation[sent[i].name]
    /\ ClaimsAlternate

\* What appending a message does to the sequence of messages.
LEMMA SendOne ==
    ASSUME ClaimType, NEW m, sent' = Append(sent, m)
    PROVE  /\ Len(sent) \in Nat
           /\ DOMAIN sent = 1..Len(sent) /\ DOMAIN sent' = 1..Len(sent) + 1
           /\ \A i \in 1..Len(sent) : sent'[i] = sent[i]
           /\ sent'[Len(sent) + 1] = m
<1>1. sent \in Seq(BindMessages \cup VacateMessages \cup {m})
  BY DEF ClaimType
<1> QED BY <1>1, AppendProperties, LenProperties

\* The fields of the messages that have been sent.
LEMMA MessageFields ==
    ASSUME ClaimType, NEW i \in DOMAIN sent
    PROVE  /\ sent[i] \in BindMessages \cup VacateMessages
           /\ sent[i].gen \in 1..MaxGeneration /\ sent[i].gen \in Nat
           /\ sent[i].name \in EnsNames
<1>1. sent[i] \in BindMessages \cup VacateMessages
  BY ElementOfSeq DEF ClaimType
<1>2. sent[i].gen \in 1..MaxGeneration /\ sent[i].name \in EnsNames
  BY <1>1 DEF BindMessages, VacateMessages
<1> QED BY <1>1, <1>2

\* A claim sends a bind of a generation that no message has yet.
LEMMA ClaimKeepsInv ==
    ASSUME ClaimInv, NEW n \in EnsNames, NEW o \in Owners, NEW k \in Keys, NEW dek \in Deks,
           L1!Claim(n, o, k, dek)
    PROVE  ClaimInv'
<1> DEFINE m == [L1!BindMessage(n, k, dek, generation[n] + 1) EXCEPT !.to = l2Registry]
<1>1. generation[n] \in Nat /\ generation[n] + 1 \in 1..MaxGeneration
  BY ConstantsAssumption DEF L1!Claim, ClaimInv, ClaimType
<1>2. /\ m \in BindMessages /\ m.name = n /\ m.gen = generation[n] + 1
      /\ m.call = "applyEnsBind"
  BY <1>1 DEF L1!Claim, L1!SendMessage, L1!BindMessage, BindMessages, ClaimInv, ClaimType
<1>3. /\ sent' = Append(sent, m)
      /\ generation' = [generation EXCEPT ![n] = generation[n] + 1]
      /\ lastOwner' = [lastOwner EXCEPT ![n] = o]
      /\ l2Registry' = l2Registry
  BY DEF L1!Claim, L1!SendMessage, L1!NextGeneration
<1> HIDE DEF m
<1>4. ClaimType'
  <2>1. sent' \in Seq(BindMessages \cup VacateMessages)
    BY <1>2, <1>3, AppendProperties DEF ClaimInv, ClaimType
  <2> QED BY <1>1, <1>3, <2>1 DEF ClaimInv, ClaimType
<1>5. \A p \in EnsNames : /\ generation[p] \in Nat
                          /\ generation'[p] = IF p = n THEN generation[p] + 1 ELSE generation[p]
                          /\ lastOwner'[p] = IF p = n THEN o ELSE lastOwner[p]
  BY <1>3 DEF ClaimInv, ClaimType
<1>6. \A p \in EnsNames : lastOwner'[p] # None => generation'[p] >= 1
  BY <1>5 DEF ClaimInv
<1>7. /\ Len(sent) \in Nat
      /\ DOMAIN sent = 1..Len(sent) /\ DOMAIN sent' = 1..Len(sent) + 1
      /\ \A i \in 1..Len(sent) : sent'[i] = sent[i]
      /\ sent'[Len(sent) + 1] = m
  BY <1>3, SendOne DEF ClaimInv
<1>8. \A i \in 1..Len(sent) : /\ sent[i].gen \in Nat /\ sent[i].name \in EnsNames
                              /\ sent[i].gen <= generation[sent[i].name]
  BY <1>7, MessageFields DEF ClaimInv
<1>9. ASSUME NEW i \in DOMAIN sent'
      PROVE  /\ sent'[i].gen <= generation'[sent'[i].name]
             /\ sent'[i].call = "applyEnsVacate" /\ lastOwner'[sent'[i].name] # None =>
                    sent'[i].gen < generation'[sent'[i].name]
  <2>1. CASE i = Len(sent) + 1
    BY <1>1, <1>2, <1>5, <1>7, <2>1
  <2>2. CASE i \in 1..Len(sent)
    <3>1. sent'[i] = sent[i] /\ i \in DOMAIN sent
      BY <1>7, <2>2
    <3> QED BY <1>5, <1>8, <2>2, <3>1 DEF ClaimInv
  <2> QED BY <1>7, <2>1, <2>2
<1>10. ClaimsAlternate'
  <2> SUFFICES ASSUME NEW i \in DOMAIN sent', NEW j \in DOMAIN sent', i < j,
                      sent'[i].name = sent'[j].name
               PROVE  \/ sent'[i].gen < sent'[j].gen
                      \/ /\ sent'[i].gen = sent'[j].gen
                         /\ sent'[i].call = "applyEnsBind"
                         /\ sent'[j].call = "applyEnsVacate"
    BY DEF ClaimsAlternate
  <2>1. i \in 1..Len(sent) /\ sent'[i] = sent[i]
    BY <1>7
  <2>2. CASE j = Len(sent) + 1
    BY <1>1, <1>2, <1>7, <1>8, <2>1, <2>2
  <2>3. CASE j \in 1..Len(sent)
    BY <1>7, <2>1, <2>3 DEF ClaimInv, ClaimsAlternate
  <2> QED BY <1>7, <2>2, <2>3
<1> QED BY <1>4, <1>6, <1>9, <1>10 DEF ClaimInv

\* A vacate is sent about a name that is held, so it is the first of its generation.
LEMMA VacateKeepsInv ==
    ASSUME ClaimInv, NEW n \in EnsNames, L1!Vacate(n)
    PROVE  ClaimInv'
<1> DEFINE m == [L1!VacateMessage(n, generation[n]) EXCEPT !.to = l2Registry]
<1>1. lastOwner[n] # None /\ generation[n] \in 1..MaxGeneration
  BY ConstantsAssumption DEF L1!Vacate, L1!Vacatable, ClaimInv, ClaimType
<1>2. /\ m \in VacateMessages /\ m.name = n /\ m.gen = generation[n]
      /\ m.call = "applyEnsVacate"
  BY <1>1
  DEF L1!Vacate, L1!SendMessage, L1!VacateMessage, VacateMessages, ClaimInv, ClaimType
<1>3. /\ sent' = Append(sent, m)
      /\ generation' = generation
      /\ lastOwner' = [lastOwner EXCEPT ![n] = None]
      /\ l2Registry' = l2Registry
  BY DEF L1!Vacate, L1!SendMessage
<1> HIDE DEF m
<1>4. ClaimType'
  <2>1. sent' \in Seq(BindMessages \cup VacateMessages)
    BY <1>2, <1>3, AppendProperties DEF ClaimInv, ClaimType
  <2> QED BY <1>3, <2>1 DEF ClaimInv, ClaimType
<1>5. \A p \in EnsNames : lastOwner'[p] = IF p = n THEN None ELSE lastOwner[p]
  BY <1>3 DEF ClaimInv, ClaimType
<1>6. \A p \in EnsNames : lastOwner'[p] # None => generation'[p] >= 1
  BY <1>3, <1>5 DEF ClaimInv
<1>7. /\ Len(sent) \in Nat
      /\ DOMAIN sent = 1..Len(sent) /\ DOMAIN sent' = 1..Len(sent) + 1
      /\ \A i \in 1..Len(sent) : sent'[i] = sent[i]
      /\ sent'[Len(sent) + 1] = m
  BY <1>3, SendOne DEF ClaimInv
<1>8. ASSUME NEW i \in 1..Len(sent)
      PROVE  /\ sent[i].gen \in Nat /\ sent[i].name \in EnsNames
             /\ sent[i].gen <= generation[sent[i].name]
             /\ sent[i].call \in {"applyEnsBind", "applyEnsVacate"}
             /\ sent[i].call = "applyEnsVacate" /\ lastOwner[sent[i].name] # None =>
                    sent[i].gen < generation[sent[i].name]
  <2>1. i \in DOMAIN sent
    BY <1>7
  <2>2. sent[i] \in BindMessages \cup VacateMessages
    BY <2>1, MessageFields DEF ClaimInv
  <2>3. sent[i].call \in {"applyEnsBind", "applyEnsVacate"}
    BY <2>2 DEF BindMessages, VacateMessages
  <2> QED BY <2>1, <2>3, MessageFields DEF ClaimInv
<1>9. ASSUME NEW i \in DOMAIN sent'
      PROVE  /\ sent'[i].gen <= generation'[sent'[i].name]
             /\ sent'[i].call = "applyEnsVacate" /\ lastOwner'[sent'[i].name] # None =>
                    sent'[i].gen < generation'[sent'[i].name]
  <2>1. CASE i = Len(sent) + 1
    BY <1>1, <1>2, <1>3, <1>5, <1>7, <2>1
  <2>2. CASE i \in 1..Len(sent)
    BY <1>3, <1>5, <1>7, <1>8, <2>2
  <2> QED BY <1>7, <2>1, <2>2
<1>10. ClaimsAlternate'
  <2> SUFFICES ASSUME NEW i \in DOMAIN sent', NEW j \in DOMAIN sent', i < j,
                      sent'[i].name = sent'[j].name
               PROVE  \/ sent'[i].gen < sent'[j].gen
                      \/ /\ sent'[i].gen = sent'[j].gen
                         /\ sent'[i].call = "applyEnsBind"
                         /\ sent'[j].call = "applyEnsVacate"
    BY DEF ClaimsAlternate
  <2>1. i \in 1..Len(sent) /\ sent'[i] = sent[i]
    BY <1>7
  <2>2. CASE j = Len(sent) + 1
    BY <1>1, <1>2, <1>7, <1>8, <2>1, <2>2
  <2>3. CASE j \in 1..Len(sent)
    BY <1>7, <2>1, <2>3 DEF ClaimInv, ClaimsAlternate
  <2> QED BY <1>7, <2>2, <2>3
<1> QED BY <1>4, <1>6, <1>9, <1>10 DEF ClaimInv

\* Every step of L1 keeps the invariant; the holders' own moves do not touch it.
LEMMA L1StepKeepsInv ==
    ASSUME ClaimInv, L1!Next
    PROVE  ClaimInv'
<1>1. ASSUME UNCHANGED <<sent, generation, lastOwner>>, l2Registry' \in Registries \cup {None}
      PROVE  ClaimInv'
  BY <1>1 DEF ClaimInv, ClaimType, ClaimsAlternate
<1>2. CASE L1!Outside
  <2>1. UNCHANGED <<sent, generation, lastOwner, l2Registry>>
    BY <1>2
    DEF L1!Outside, L1!Attest, L1!Transfer, L1!Renew, L1!Wrap, L1!Unwrap, L1!Lapse
  <2> QED BY <1>1, <2>1 DEF ClaimInv, ClaimType
<1>3. ASSUME NEW r \in Registries, L1!SetBridge(r)
      PROVE  ClaimInv'
  BY <1>1, <1>3 DEF L1!SetBridge
<1> QED
  BY <1>2, <1>3, ClaimKeepsInv, VacateKeepsInv DEF L1!Next, L1!ContractStep

\* Nothing has been sent at the start.
LEMMA InitClaimInv == L1!Init => ClaimInv
<1> SUFFICES ASSUME L1!Init PROVE ClaimInv
  OBVIOUS
<1>1. /\ sent = <<>> /\ DOMAIN sent = {} /\ l2Registry = None
      /\ generation = [n \in EnsNames |-> 0] /\ lastOwner = [n \in EnsNames |-> None]
  BY EmptySeq DEF L1!Init
<1>2. sent \in Seq(BindMessages \cup VacateMessages)
  BY <1>1, EmptySeq
<1> QED
  BY <1>1, <1>2, ConstantsAssumption DEF ClaimInv, ClaimType, ClaimsAlternate

-----------------------------------------------------------------------------
(* The messenger: relayed messages are steps of the registry.              *)

BridgeInv ==
    /\ ClaimInv
    /\ delivered \subseteq DOMAIN sent

\* The messages of EnsClaim are calls the registry's model knows.
LEMMA RelayIsBridgeWrite ==
    ASSUME ClaimInv, NEW i \in DOMAIN sent, Relay(i)
    PROVE  /\ sent[i].call = "applyEnsBind" =>
                  /\ sent[i].key \in Keys /\ sent[i].dek \in Deks
                  /\ ApplyEnsBind(ThisClaim, sent[i].name, sent[i].key, sent[i].dek,
                                  sent[i].gen)
           /\ sent[i].call # "applyEnsBind" =>
                  /\ sent[i].call = "applyEnsVacate"
                  /\ ApplyEnsVacate(ThisClaim, sent[i].name, sent[i].gen)
           /\ sent[i].name \in EnsNames /\ sent[i].name \in Names
           /\ sent[i].gen \in 1..MaxGeneration
           /\ BridgeWrite
<1>1. /\ sent[i] \in BindMessages \cup VacateMessages
      /\ sent[i].gen \in 1..MaxGeneration /\ sent[i].name \in EnsNames
  BY MessageFields DEF ClaimInv
<1>2. Handle(sent[i])
  BY DEF Relay
<1>3. sent[i].call = "applyEnsBind" => sent[i].key \in Keys /\ sent[i].dek \in Deks
  BY <1>1 DEF BindMessages, VacateMessages
<1>4. sent[i].name \in Names /\ ThisClaim \in Bridges
  BY <1>1, EnsBridgeAssumption DEF Names
<1> QED BY <1>1, <1>2, <1>3, <1>4 DEF Handle, BridgeWrite

\* Every step of the composed system is a step of the registry or leaves it alone.
LEMMA StepOfRegistry ==
    ASSUME ClaimInv, [BridgeNext]_bridgeVars
    PROVE  [Next]_vars
<1>1. ASSUME NEW i \in DOMAIN sent, Relay(i)
      PROVE  Next
  BY <1>1, RelayIsBridgeWrite DEF Next
<1>2. CASE OnL1 \/ OnL2 \/ UNCHANGED bridgeVars
  BY <1>2 DEF OnL1, OnL2, bridgeVars, Next
<1> QED BY <1>1, <1>2 DEF BridgeNext

\* The invariant of L1 and of the messenger is kept by every step.
LEMMA StepKeepsBridgeInv ==
    ASSUME BridgeInv, [BridgeNext]_bridgeVars
    PROVE  BridgeInv'
<1>1. CASE OnL1
  <2>1. ClaimInv' /\ delivered' = delivered
    BY <1>1, L1StepKeepsInv DEF OnL1, BridgeInv
  <2>2. DOMAIN sent \subseteq DOMAIN sent'
    <3>1. CASE sent' = sent
      BY <3>1
    <3>2. ASSUME NEW m, sent' = Append(sent, m)
          PROVE  DOMAIN sent \subseteq DOMAIN sent'
      BY <3>2, SendOne DEF BridgeInv, ClaimInv
    <3> QED
      BY <1>1, <3>1, <3>2
      DEF OnL1, L1!Next, L1!ContractStep, L1!Claim, L1!Vacate, L1!SendMessage, L1!SetBridge,
          L1!Outside, L1!Attest, L1!Transfer, L1!Renew, L1!Wrap, L1!Unwrap, L1!Lapse
  <2> QED BY <2>1, <2>2 DEF BridgeInv
<1>2. CASE OnL2 \/ UNCHANGED bridgeVars
  BY <1>2 DEF OnL2, bridgeVars, l1vars, BridgeInv, ClaimInv, ClaimType, ClaimsAlternate
<1>3. ASSUME NEW i \in DOMAIN sent, Relay(i)
      PROVE  BridgeInv'
  BY <1>3 DEF Relay, l1vars, BridgeInv, ClaimInv, ClaimType, ClaimsAlternate
<1> QED BY <1>1, <1>2, <1>3 DEF BridgeNext

\* The invariant of L1 and the messenger, for every behaviour.
LEMMA BridgeInvariant == BridgeSpec => []BridgeInv
<1>1. BridgeInit => BridgeInv
  BY InitClaimInv DEF BridgeInit, BridgeInv
<1> QED BY <1>1, StepKeepsBridgeInv, PTL DEF BridgeSpec

\* The messages about a name alternate between binds and vacates, generation by
\* generation, however the name is traded, wrapped or renewed.
THEOREM MessagesAlternate == BridgeSpec => []ClaimsAlternate
<1>1. BridgeInv => ClaimsAlternate
  BY DEF BridgeInv, ClaimInv
<1> QED BY <1>1, BridgeInvariant, PTL

\* The registry behind the bridge is the registry: all that is proved about Spec
\* holds of it in the composed system.
THEOREM BridgeRunsTheRegistry == BridgeSpec => Spec
<1>1. BridgeInit => Init
  BY DEF BridgeInit
<1>2. BridgeInv /\ [BridgeNext]_bridgeVars => [Next]_vars
  BY StepOfRegistry DEF BridgeInv
<1> QED BY <1>1, <1>2, BridgeInvariant, PTL DEF BridgeSpec, Spec

-----------------------------------------------------------------------------
(* The newest claim wins.                                                  *)

\* A relayed message leaves the registry with the newest claim it has heard of.
LEMMA RelayKeepsNewest ==
    ASSUME TypeOK, BridgeInv, NewestClaimWins, NEW i \in DOMAIN sent, Relay(i)
    PROVE  NewestClaimWins'
<1> DEFINE n == sent[i].name
           g == sent[i].gen
<1>1. /\ delivered' = delivered \cup {i} /\ sent' = sent /\ i \notin delivered
      /\ n \in EnsNames /\ n \in Names /\ g \in 1..MaxGeneration /\ g \in Nat
      /\ delivered \subseteq DOMAIN sent
  BY RelayIsBridgeWrite DEF Relay, l1vars, BridgeInv
<1>2. \A j \in delivered : sent[j].gen \in Nat /\ sent[j].name \in EnsNames
  BY <1>1, MessageFields DEF BridgeInv, ClaimInv
<1>3. \A p \in EnsNames : names[p] \in NameRecords /\ names[p].mailboxGeneration \in Nat
  BY DEF TypeOK, NameRecords, Names, Generations
<1>4. CASE sent[i].call = "applyEnsBind"
  <2> DEFINE rec == [primary |-> sent[i].key, dek |-> sent[i].dek, nonce |-> 1,
                     mailboxGeneration |-> g, exists |-> TRUE,
                     controllers |-> <<sent[i].key>>]
  <2>0. names \in [Names -> NameRecords]
    BY DEF TypeOK
  <2>4. g > names[n].mailboxGeneration /\ names' = [names EXCEPT ![n] = rec]
    BY <1>4, RelayIsBridgeWrite DEF BridgeInv, ApplyEnsBind, IsNewer
  <2>5. names'[n] = rec /\ \A p \in Names : p # n => names'[p] = names[p]
    BY <1>1, <2>0, <2>4
  <2>1. /\ g > names[n].mailboxGeneration
        /\ names'[n].mailboxGeneration = g /\ names'[n].exists /\ names'[n].dek = sent[i].dek
        /\ \A p \in Names : p # n => names'[p] = names[p]
    BY <2>4, <2>5
  <2>2. ASSUME NEW p \in EnsNames, p # n
        PROVE  names'[p] = names[p]
    BY <2>1, <2>2 DEF Names
  <2>3. \A j \in delivered : sent[j].name = n => sent[j].gen < g
    BY <1>1, <1>2, <1>3, <2>1 DEF NewestClaimWins
  <2> QED
    BY <1>1, <1>2, <1>3, <1>4, <2>1, <2>2, <2>3 DEF NewestClaimWins, Binds, Vacates
<1>5. CASE sent[i].call # "applyEnsBind"
  <2>1. /\ g = names[n].mailboxGeneration
        /\ names' = [names EXCEPT ![n] = Vacated(names[n])]
    BY <1>5, RelayIsBridgeWrite DEF BridgeInv, ApplyEnsVacate
  <2>2. /\ names'[n].mailboxGeneration = g /\ ~names'[n].exists
        /\ \A p \in EnsNames : p # n => names'[p] = names[p]
    BY <1>1, <1>3, <2>1 DEF Vacated, NameRecords, TypeOK, Names
  <2> QED
    BY <1>1, <1>2, <1>3, <2>1, <2>2 DEF NewestClaimWins, Binds, Vacates
<1> QED BY <1>4, <1>5

\* Whatever is claimed, traded and written meanwhile, and in whatever order the
\* messages arrive, the registry holds the newest claim it has heard of.
THEOREM NewestClaimHolds == BridgeSpec => []NewestClaimWins
<1>1. BridgeInit => NewestClaimWins
  BY DEF BridgeInit, Init, EmptyRecord, NewestClaimWins, Names
<1>2. TypeOK /\ RegistryInv /\ BridgeInv /\ NewestClaimWins /\ [BridgeNext]_bridgeVars
          => NewestClaimWins'
  <2> SUFFICES ASSUME TypeOK, RegistryInv, BridgeInv, NewestClaimWins,
                      [BridgeNext]_bridgeVars
               PROVE  NewestClaimWins'
    OBVIOUS
  <2>1. CASE OnL1
    <3>1. delivered' = delivered /\ names' = names /\ delivered \subseteq DOMAIN sent
      BY <2>1 DEF OnL1, vars, BridgeInv
    <3>2. \A i \in DOMAIN sent : sent'[i] = sent[i]
      <4>1. CASE sent' = sent
        BY <4>1
      <4>2. ASSUME NEW m, sent' = Append(sent, m)
            PROVE  \A i \in DOMAIN sent : sent'[i] = sent[i]
        BY <4>2, SendOne DEF BridgeInv, ClaimInv
      <4> QED
        BY <2>1, <4>1, <4>2
        DEF OnL1, L1!Next, L1!ContractStep, L1!Claim, L1!Vacate, L1!SendMessage,
            L1!SetBridge, L1!Outside, L1!Attest, L1!Transfer, L1!Renew, L1!Wrap,
            L1!Unwrap, L1!Lapse
    <3>3. \A i \in delivered : sent'[i] = sent[i]
      BY <3>1, <3>2
    <3> QED BY <3>1, <3>3 DEF NewestClaimWins, Binds, Vacates
  <2>2. CASE OnL2 \/ UNCHANGED bridgeVars
    <3>1. delivered' = delivered /\ sent' = sent
      BY <2>2 DEF OnL2, bridgeVars, l1vars
    <3>2. UserWrite \/ OwnerWrite \/ Environment \/ UNCHANGED vars
      BY <2>2 DEF OnL2, bridgeVars
    <3>3. ASSUME NEW n \in EnsNames
          PROVE  SameClaim(n)
      <4>1. n \in Names /\ n \notin OENames
        BY ConstantsAssumption DEF Names
      <4> QED BY <3>2, <4>1, StepWithoutBridge
    <3> QED BY <3>1, <3>3 DEF NewestClaimWins, Binds, Vacates, SameClaim
  <2>3. ASSUME NEW i \in DOMAIN sent, Relay(i)
        PROVE  NewestClaimWins'
    BY <2>3, RelayKeepsNewest
  <2> QED BY <2>1, <2>2, <2>3 DEF BridgeNext
<1>3. BridgeSpec => []TypeOK /\ []RegistryInv
  BY BridgeRunsTheRegistry, TypeCorrect, RegistryInvariant, PTL
<1> QED BY <1>1, <1>2, <1>3, BridgeInvariant, PTL DEF BridgeSpec

-----------------------------------------------------------------------------
(* The relayer's transactions are the registry's.                          *)

\* A call that has arrived carries a signature that was made, or a node to register,
\* and only such a call has a transaction. A read that has begun is about a name.
RequestsAreFilled ==
    /\ \A c \in Calls :
           /\ calls[c].phase # "idle" => calls[c].body \in Bodies
           /\ calls[c].tx # "none" => calls[c].phase # "idle"
    /\ \A r \in Reads : reads[r].phase = "between" => reads[r].name \in Names

\* What a signature can ask for.
LEMMA SignedBody ==
    ASSUME TypeOK, NEW body \in signed
    PROVE  LET ch == body.challenge
           IN  /\ ch.name \in Names /\ ch.nonce \in Nat /\ body.key \in Keys
               /\ ch.act \in {"register", "linkNode", "removeController", "optIn", "optOut"}
               /\ ch.act = "register" => ch.dek \in Deks
               /\ ch.act = "linkNode" =>
                      ch.node \in Nodes /\ ch.newKey \in Keys /\ ch.invite \in Invites
               /\ ch.act = "removeController" => ch.oldKey \in Keys
               /\ ch.act \in {"optIn", "optOut"} => ch.node \in Nodes
<1>1. body.challenge \in Challenges /\ body.key \in Keys
  BY DEF TypeOK, Signatures
<1> QED BY <1>1 DEF Challenges

\* A node to register is not a signature.
LEMMA NodeBody ==
    ASSUME NEW body \in NodeBodies
    PROVE  /\ body.challenge.act = "registerNode"
           /\ body.challenge.domain \in Domains /\ body.challenge.node \in Nodes
BY DEF NodeBodies

\* The transaction of a call is a write of a user or of the owner.
LEMMA TransactIsNext ==
    ASSUME TypeOK, NEW body \in Bodies, Transact(body)
    PROVE  Next
<1>1. CASE body \in signed
  <2> DEFINE ch == body.challenge
  <2>1. /\ ch.name \in Names /\ body.key \in Keys /\ ch.act # "registerNode"
        /\ ch.act = "register" => ch.dek \in Deks
        /\ ch.act = "linkNode" =>
               ch.node \in Nodes /\ ch.newKey \in Keys /\ ch.invite \in Invites
        /\ ch.act = "removeController" => ch.oldKey \in Keys
        /\ ch.act \in {"optIn", "optOut"} => ch.node \in Nodes
    BY <1>1, SignedBody
  <2>2. CASE ch.act = "register" /\ Register(ch.name, body.key, ch.dek, body)
    BY <1>1, <2>1, <2>2 DEF Next, UserWrite
  <2>3. CASE ch.act = "linkNode" /\ LinkNode(ch.name, ch.node, ch.newKey, ch.invite, body)
    BY <1>1, <2>1, <2>3 DEF Next, UserWrite
  <2>4. CASE ch.act = "removeController" /\ RemoveController(ch.name, ch.oldKey, body)
    BY <1>1, <2>1, <2>4 DEF Next, UserWrite
  <2>5. CASE ch.act = "optIn" /\ OptIn(ch.name, ch.node, body)
    BY <1>1, <2>1, <2>5 DEF Next, UserWrite
  <2>6. CASE ch.act = "optOut" /\ OptOut(ch.name, ch.node, body)
    BY <1>1, <2>1, <2>6 DEF Next, UserWrite
  <2> QED BY <2>1, <2>2, <2>3, <2>4, <2>5, <2>6 DEF Transact
<1>2. CASE body \in NodeBodies
  <2>1. RegisterNode(body.challenge.domain, body.challenge.node)
    BY <1>2, NodeBody DEF Transact
  <2> QED BY <1>2, <2>1, NodeBody DEF Next, OwnerWrite
<1> QED BY <1>1, <1>2 DEF Bodies

\* Every step of the relayer and its callers is a step of the registry or leaves it
\* alone.
LEMMA RelayerStepIsNext ==
    ASSUME TypeOK, RequestsAreFilled, [RelayerNext]_relayerVars
    PROVE  [Next]_vars
<1>1. ASSUME NEW c \in Calls, Mine(c)
      PROVE  [Next]_vars
  <2>1. calls[c].body \in Bodies
    BY <1>1 DEF Mine, RequestsAreFilled
  <2> QED BY <1>1, <2>1, TransactIsNext DEF Mine
<1>2. ASSUME NEW k \in Keys, NEW n \in Names, FetchAndSign(k, n)
      PROVE  Next
  BY <1>2 DEF FetchAndSign, Next, Environment
<1>3. CASE (OwnerWrite \/ BridgeWrite \/ Tick) /\ UNCHANGED <<calls, reads>>
  BY <1>3 DEF Next, Environment
<1>4. ASSUME NEW c \in Calls, RelayerStep(c) \/ \E body \in Bodies : Post(c, body)
      PROVE  UNCHANGED vars
  BY <1>4 DEF RelayerStep, Post, Send, Refuse, Acknowledge, Fail
<1>5. ASSUME NEW r \in Reads, ReadGeneration(r) \/ \E n \in Names : ReadRecord(r, n)
      PROVE  UNCHANGED vars
  BY <1>5 DEF ReadGeneration, ReadRecord
<1>6. CASE UNCHANGED relayerVars
  BY <1>6 DEF relayerVars
<1> QED BY <1>1, <1>2, <1>3, <1>4, <1>5, <1>6 DEF RelayerNext

\* Signatures are never forgotten.
LEMMA SignaturesStay ==
    ASSUME [Next]_vars
    PROVE  signed \subseteq signed'
<1>1. CASE UserWrite
  <2>1. \A n \in Names, auth \in signed, k \in Keys, dek \in Deks :
            Register(n, k, dek, auth) => signed' = signed
    BY DEF Register, envVars
  <2>2. \A n \in Names, auth \in signed, d \in Nodes, k \in Keys, i \in Invites :
            LinkNode(n, d, k, i, auth) => signed' = signed
    BY DEF LinkNode, envVars
  <2>3. \A n \in Names, auth \in signed, k \in Keys :
            RemoveController(n, k, auth) => signed' = signed
    BY DEF RemoveController, envVars
  <2>4. \A n \in Names, auth \in signed, d \in Nodes :
            OptIn(n, d, auth) \/ OptOut(n, d, auth) => signed' = signed
    BY DEF OptIn, OptOut, envVars
  <2> QED BY <1>1, <2>1, <2>2, <2>3, <2>4 DEF UserWrite
<1>2. CASE OwnerWrite \/ BridgeWrite
  BY <1>2
  DEF OwnerWrite, BridgeWrite, SetEnsBridge, RegisterNode, ApplyEnsBind, ApplyEnsVacate, envVars
<1>3. CASE Environment \/ UNCHANGED vars
  BY <1>3 DEF Environment, Sign, Tick, vars
<1> QED BY <1>1, <1>2, <1>3 DEF Next

\* What is entered in a table stays.
TableGrows(f, g) == \A x \in DOMAIN f : f[x] # None => g[x] = f[x]

\* Nor are nodes, domains and used invites.
LEMMA TablesGrow ==
    ASSUME TypeOK, [Next]_vars
    PROVE  /\ TableGrows(nodes, nodes')
           /\ TableGrows(masterByDomain, masterByDomain')
           /\ inviteUsed \subseteq inviteUsed'
<1> DEFINE Same == nodes' = nodes /\ masterByDomain' = masterByDomain
<1>1. ASSUME UserWrite  PROVE Same /\ inviteUsed \subseteq inviteUsed'
  <2>1. \A n \in Names, auth \in signed, k \in Keys, dek \in Deks :
            Register(n, k, dek, auth) => Same /\ inviteUsed' = inviteUsed
    BY DEF Register
  <2>2. \A n \in Names, auth \in signed, e \in Nodes, k \in Keys, i \in Invites :
            LinkNode(n, e, k, i, auth) => Same /\ inviteUsed \subseteq inviteUsed'
    BY DEF LinkNode
  <2>3. \A n \in Names, auth \in signed, k \in Keys :
            RemoveController(n, k, auth) => Same /\ inviteUsed' = inviteUsed
    BY DEF RemoveController
  <2>4. \A n \in Names, auth \in signed, e \in Nodes :
            OptIn(n, e, auth) \/ OptOut(n, e, auth) => Same /\ inviteUsed' = inviteUsed
    BY DEF OptIn, OptOut
  <2> HIDE DEF Same
  <2> QED BY <1>1, <2>1, <2>2, <2>3, <2>4 DEF UserWrite
<1>2. ASSUME NEW dom \in Domains, NEW e \in Nodes, RegisterNode(dom, e)
      PROVE  /\ TableGrows(nodes, nodes')
             /\ TableGrows(masterByDomain, masterByDomain')
             /\ inviteUsed' = inviteUsed
  BY <1>2 DEF RegisterNode, CanRegisterNode, TypeOK, TableGrows
<1>3. ASSUME BridgeWrite \/ Environment \/ UNCHANGED vars
      PROVE  Same /\ inviteUsed' = inviteUsed
  BY <1>3 DEF BridgeWrite, ApplyEnsBind, ApplyEnsVacate, Environment, Sign, Tick, vars
<1>4. ASSUME NEW b \in Bridges \cup {None}, SetEnsBridge(b)
      PROVE  Same /\ inviteUsed' = inviteUsed
  BY <1>4 DEF SetEnsBridge
<1>5. Same => TableGrows(nodes, nodes') /\ TableGrows(masterByDomain, masterByDomain')
  BY DEF TableGrows
<1> HIDE DEF Same
<1> QED BY <1>1, <1>2, <1>3, <1>4, <1>5 DEF Next, OwnerWrite

\* A node that is registered stays so.
LEMMA NodesStay ==
    ASSUME TypeOK, [Next]_vars, NEW d \in Nodes, nodes[d] # None
    PROVE  nodes'[d] # None
BY TablesGrow DEF TableGrows, TypeOK

\* What a call remembers of the state it was estimated in.
LEMMA StandingType ==
    ASSUME TypeOK, NEW body \in Bodies
    PROVE  Standing(body) \in Standings /\ GenerationOf(body) \in Generations
<1>1. 0 \in Generations
  BY ConstantsAssumption DEF Generations
<1>2. body.challenge.act # "registerNode" => body.challenge.name \in Names
  BY SignedBody, NodeBody DEF Bodies
<1> QED BY <1>1, <1>2 DEF Standing, Standings, GenerationOf, TypeOK, NameRecords

\* The relayer starts without calls.
LEMMA RelayerInitType == RelayerInit => RelayerTypeOK /\ RequestsAreFilled
<1> SUFFICES ASSUME RelayerInit PROVE RelayerTypeOK /\ RequestsAreFilled
  OBVIOUS
<1>1. 0 \in Generations
  BY ConstantsAssumption DEF Generations
<1>2. TypeOK
  BY InitType DEF RelayerInit
<1>3. calls \in [Calls -> CallRecords]
  BY <1>1 DEF RelayerInit, NoCall, CallRecords
<1>4. reads \in [Reads -> ReadRecords]
  BY <1>1 DEF RelayerInit, NoRead, ReadRecords
<1> QED BY <1>2, <1>3, <1>4 DEF RelayerInit, NoCall, NoRead, RelayerTypeOK, RequestsAreFilled

\* A step of a call leaves the others alone; it is enough to look at what it makes of
\* the one.
LEMMA OneCall ==
    ASSUME RelayerTypeOK, RequestsAreFilled, [Next]_vars, NEW c \in Calls, NEW call \in CallRecords,
           calls' = [calls EXCEPT ![c] = call], reads' = reads,
           call.phase # "idle", call.body \in Bodies
    PROVE  /\ calls' \in [Calls -> CallRecords]
           /\ RequestsAreFilled'
<1>1. /\ calls' \in [Calls -> CallRecords]
      /\ \A d \in Calls : calls'[d] = IF d = c THEN call ELSE calls[d]
  BY DEF RelayerTypeOK
<1>2. \A body \in Bodies : body \in Bodies'
  BY SignaturesStay DEF Bodies, NodeBodies
<1> QED BY <1>1, <1>2 DEF RequestsAreFilled

\* Every step keeps the calls and the reads well typed.
LEMMA RelayerStepType ==
    RelayerTypeOK /\ RequestsAreFilled /\ [RelayerNext]_relayerVars
        => RelayerTypeOK' /\ RequestsAreFilled'
<1> SUFFICES ASSUME RelayerTypeOK, RequestsAreFilled, [RelayerNext]_relayerVars
             PROVE  RelayerTypeOK' /\ RequestsAreFilled'
  OBVIOUS
<1>1. TypeOK /\ [Next]_vars
  BY RelayerStepIsNext DEF RelayerTypeOK
<1>2. TypeOK'
  BY <1>1, NextType
<1>3. \A body \in Bodies : body \in Bodies'
  BY <1>1, SignaturesStay DEF Bodies, NodeBodies
<1>4. \A c \in Calls : calls[c] \in CallRecords
  BY DEF RelayerTypeOK
<1>5. ASSUME NEW c \in Calls, NEW body \in Bodies, Post(c, body)
      PROVE  RelayerTypeOK' /\ RequestsAreFilled'
  <2> DEFINE call == [calls[c] EXCEPT !.phase = "received", !.body = body]
  <2>1. calls' = [calls EXCEPT ![c] = call] /\ reads' = reads
    BY <1>5 DEF Post
  <2>2. body \in Signatures \cup NodeBodies
    BY <1>1 DEF Bodies, TypeOK
  <2>3. call \in CallRecords /\ call.phase # "idle" /\ call.body \in Bodies
    BY <1>4, <2>2 DEF CallRecords
  <2> HIDE DEF call
  <2> QED BY <1>1, <1>2, <2>1, <2>3, OneCall DEF RelayerTypeOK
<1>6. ASSUME NEW c \in Calls, Send(c)
      PROVE  RelayerTypeOK' /\ RequestsAreFilled'
  <2> DEFINE s == Standing(calls[c].body)
             call == [calls[c] EXCEPT !.phase = "sent", !.tx = "pending", !.seen = s]
  <2>1. calls' = [calls EXCEPT ![c] = call] /\ reads' = reads /\ calls[c].body \in Bodies
    BY <1>6 DEF Send, RequestsAreFilled
  <2>2. s \in Standings
    BY <1>1, <2>1, StandingType
  <2> HIDE DEF s
  <2>3. call \in CallRecords /\ call.phase # "idle" /\ call.body \in Bodies
    BY <1>4, <2>1, <2>2 DEF CallRecords
  <2> HIDE DEF call
  <2> QED BY <1>1, <1>2, <2>1, <2>3, OneCall DEF RelayerTypeOK
<1>7. ASSUME NEW c \in Calls, Refuse(c) \/ Acknowledge(c) \/ Fail(c)
      PROVE  RelayerTypeOK' /\ RequestsAreFilled'
  <2>1. PICK phase \in {"received", "sent", "over"}, answer \in {"ok", "failed", "reverted"} :
            calls' = [calls EXCEPT ![c].phase = phase, ![c].answer = Told(c, answer)]
    BY <1>7 DEF Refuse, Acknowledge, Fail
  <2> DEFINE told == Told(c, answer)
             call == [calls[c] EXCEPT !.phase = phase, !.answer = told]
  <2>2. told \in {"none", "ok", "failed", "reverted"}
    BY <1>4 DEF Told, CallRecords
  <2> HIDE DEF told
  <2>3. calls' = [calls EXCEPT ![c] = call] /\ reads' = reads
    BY <1>7, <2>1 DEF Refuse, Acknowledge, Fail, told
  <2>4. calls[c].body \in Bodies
    BY <1>7 DEF Refuse, Acknowledge, Fail, RequestsAreFilled
  <2>5. call \in CallRecords /\ call.phase # "idle" /\ call.body \in Bodies
    BY <1>4, <2>2, <2>4 DEF CallRecords
  <2> HIDE DEF call
  <2> QED BY <1>1, <1>2, <2>3, <2>5, OneCall DEF RelayerTypeOK
<1>8. ASSUME NEW c \in Calls, Mine(c)
      PROVE  RelayerTypeOK' /\ RequestsAreFilled'
  <2> DEFINE g == GenerationOf(calls[c].body)
  <2>1. /\ calls[c].body \in Bodies /\ calls[c].phase # "idle" /\ calls[c].tx = "pending"
        /\ reads' = reads
    BY <1>8 DEF Mine, RequestsAreFilled
  <2>2. g \in Generations
    BY <1>1, <2>1, StandingType
  <2>3. PICK tx \in {"applied", "reverted"}, gen \in {g, calls[c].gen} :
            calls' = [calls EXCEPT ![c] = [calls[c] EXCEPT !.tx = tx, !.gen = gen]]
    <3>1. CASE calls' = [calls EXCEPT ![c].tx = "applied", ![c].gen = g]
      BY <3>1
    <3>2. CASE calls' = [calls EXCEPT ![c].tx = "reverted"]
      <4>1. [calls[c] EXCEPT !.tx = "reverted"]
                = [calls[c] EXCEPT !.tx = "reverted", !.gen = calls[c].gen]
        BY <1>4 DEF CallRecords
      <4> QED BY <3>2, <4>1
    <3> QED BY <1>8, <3>1, <3>2 DEF Mine
  <2> DEFINE call == [calls[c] EXCEPT !.tx = tx, !.gen = gen]
  <2>4. gen \in Generations
    BY <1>4, <2>2 DEF CallRecords
  <2>5. call \in CallRecords /\ call.phase # "idle" /\ call.body \in Bodies
    BY <1>4, <2>1, <2>4 DEF CallRecords
  <2>6. calls' = [calls EXCEPT ![c] = call]
    BY <2>3
  <2> HIDE DEF call, g
  <2> QED BY <1>1, <1>2, <2>1, <2>5, <2>6, OneCall DEF RelayerTypeOK
<1>9. ASSUME NEW r \in Reads, NEW n \in Names, ReadRecord(r, n)
      PROVE  RelayerTypeOK' /\ RequestsAreFilled'
  <2>1. names[n] \in NameRecords /\ 0 \in Generations
    BY <1>1, ConstantsAssumption DEF TypeOK, Generations
  <2> DEFINE read == [phase |-> "between", name |-> n, exists |-> names[n].primary # None,
                      dek |-> names[n].dek, readAt |-> names[n].mailboxGeneration,
                      generation |-> 0]
  <2>2. read \in ReadRecords /\ read.name \in Names
    BY <2>1 DEF ReadRecords, NameRecords
  <2>3. reads' = [reads EXCEPT ![r] = read] /\ calls' = calls
    BY <1>9 DEF ReadRecord
  <2> HIDE DEF read
  <2> QED BY <1>2, <1>3, <2>2, <2>3 DEF RelayerTypeOK, RequestsAreFilled
<1>10. ASSUME NEW r \in Reads, ReadGeneration(r)
       PROVE  RelayerTypeOK' /\ RequestsAreFilled'
  <2> DEFINE g == names[reads[r].name].mailboxGeneration
  <2>1. calls' = calls /\ reads' = [reads EXCEPT ![r].phase = "answered", ![r].generation = g]
    BY <1>10 DEF ReadGeneration
  <2>2. g \in Generations
    BY <1>1, <1>10 DEF ReadGeneration, RequestsAreFilled, TypeOK, NameRecords
  <2> HIDE DEF g
  <2> DEFINE read == [reads[r] EXCEPT !.phase = "answered", !.generation = g]
  <2>3. read \in ReadRecords /\ read.phase = "answered"
    BY <2>2 DEF RelayerTypeOK, ReadRecords
  <2>4. reads' = [reads EXCEPT ![r] = read]
    BY <2>1
  <2> HIDE DEF read
  <2> QED BY <1>2, <1>3, <2>1, <2>3, <2>4 DEF RelayerTypeOK, RequestsAreFilled
<1>11. CASE \/ UNCHANGED relayerVars
            \/ (OwnerWrite \/ BridgeWrite \/ Tick) /\ UNCHANGED <<calls, reads>>
            \/ \E k \in Keys, n \in Names : FetchAndSign(k, n)
  <2>1. calls' = calls /\ reads' = reads
    BY <1>11 DEF relayerVars, FetchAndSign
  <2> QED BY <1>2, <1>3, <2>1 DEF RelayerTypeOK, RequestsAreFilled
<1> QED
  BY <1>5, <1>6, <1>7, <1>8, <1>9, <1>10, <1>11 DEF RelayerNext, RelayerStep

\* Calls and reads keep their types, whoever posts what.
THEOREM RelayerTypeCorrect == RelayerSpec => []RelayerTypeOK
BY RelayerInitType, RelayerStepType, PTL DEF RelayerSpec

\* The registry behind the relayer is the registry: all that is proved about Spec
\* holds of it, whatever is posted, posted again or lost.
THEOREM RelayerRunsTheRegistry == RelayerSpec => Spec
<1>1. RelayerInit => Init
  BY DEF RelayerInit
<1>2. RelayerTypeOK /\ RequestsAreFilled /\ [RelayerNext]_relayerVars => [Next]_vars
  BY RelayerStepIsNext DEF RelayerTypeOK
<1>3. RelayerSpec => [](RelayerTypeOK /\ RequestsAreFilled)
  BY RelayerInitType, RelayerStepType, PTL DEF RelayerSpec
<1> QED BY <1>1, <1>2, <1>3, PTL DEF RelayerSpec, Spec

\* What the rest of the proofs starts from.
LEMMA RelayerGround ==
    RelayerSpec => [](RelayerTypeOK /\ RequestsAreFilled /\ RegistryInv)
<1>1. RelayerSpec => [](RelayerTypeOK /\ RequestsAreFilled)
  BY RelayerInitType, RelayerStepType, PTL DEF RelayerSpec
<1> QED BY <1>1, RelayerRunsTheRegistry, RegistryInvariant, PTL

-----------------------------------------------------------------------------
(* /names: two reads.                                                      *)

\* A claimed name has a DEK, and so has the record that was read of it; its generation
\* has only grown since.
ReadsAreBehind ==
    /\ \A n \in Names : names[n].exists => names[n].dek # None
    /\ \A r \in Reads :
           /\ reads[r].exists => reads[r].dek # None
           /\ reads[r].phase = "between" =>
                  reads[r].readAt <= names[reads[r].name].mailboxGeneration
           /\ reads[r].phase = "answered" => reads[r].readAt <= reads[r].generation

\* Every step of the registry, the relayer and its callers keeps it so.
LEMMA StepKeepsReads ==
    ASSUME RelayerTypeOK, RequestsAreFilled, RegistryInv, ReadsAreBehind,
           [RelayerNext]_relayerVars
    PROVE  ReadsAreBehind'
<1>1. TypeOK /\ [Next]_vars
  BY RelayerStepIsNext DEF RelayerTypeOK
<1>2. TypeOK'
  BY <1>1, NextType
<1>3. \A n \in Names :
          /\ names[n].mailboxGeneration \in Nat /\ names'[n].mailboxGeneration \in Nat
          /\ names'[n].mailboxGeneration >= names[n].mailboxGeneration
  <2>1. \A n \in Names :
            names[n].mailboxGeneration \in Nat /\ names'[n].mailboxGeneration \in Nat
    BY <1>1, <1>2 DEF TypeOK, NameRecords, Generations
  <2> QED BY <1>1, <2>1, StepOfRecord DEF SameClaim, NewClaim
<1>4. \A n \in Names : names'[n].exists => names'[n].dek # None
  BY <1>1, StepOfRecord, ConstantsAssumption DEF SameClaim, NewClaim, ReadsAreBehind
<1>5. \A r \in Reads : reads[r].readAt \in Nat
  BY DEF RelayerTypeOK, ReadRecords, Generations
<1>6. CASE reads' = reads
  <2>1. ASSUME NEW r \in Reads, reads[r].phase = "between"
        PROVE  reads[r].readAt <= names'[reads[r].name].mailboxGeneration
    <3>1. reads[r].name \in Names
      BY <2>1 DEF RequestsAreFilled
    <3> QED BY <1>3, <1>5, <2>1, <3>1 DEF ReadsAreBehind
  <2> QED BY <1>4, <1>6, <2>1 DEF ReadsAreBehind
<1>7. ASSUME NEW r \in Reads, NEW n \in Names, ReadRecord(r, n)
      PROVE  ReadsAreBehind'
  <2>1. names' = names
    BY <1>7 DEF ReadRecord, vars
  <2>2. \A q \in Reads : q # r => reads'[q] = reads[q]
    BY <1>7 DEF ReadRecord, RelayerTypeOK
  <2>3. /\ reads'[r].phase = "between" /\ reads'[r].name = n
        /\ reads'[r].exists = (names[n].primary # None) /\ reads'[r].dek = names[n].dek
        /\ reads'[r].readAt = names[n].mailboxGeneration
    BY <1>7 DEF ReadRecord, RelayerTypeOK
  <2>4. names[n].primary # None => names[n].exists
    BY DEF RegistryInv, ControllersAreSound
  <2>5. /\ reads'[r].exists => reads'[r].dek # None
        /\ reads'[r].readAt <= names'[reads'[r].name].mailboxGeneration
    BY <1>3, <2>1, <2>3, <2>4 DEF ReadsAreBehind
  <2>6. ASSUME NEW q \in Reads, q # r
        PROVE  /\ reads'[q].exists => reads'[q].dek # None
               /\ reads'[q].phase = "between" =>
                      reads'[q].readAt <= names'[reads'[q].name].mailboxGeneration
               /\ reads'[q].phase = "answered" => reads'[q].readAt <= reads'[q].generation
    BY <2>1, <2>2, <2>6 DEF ReadsAreBehind
  <2> QED BY <1>4, <2>3, <2>5, <2>6 DEF ReadsAreBehind
<1>8. ASSUME NEW r \in Reads, ReadGeneration(r)
      PROVE  ReadsAreBehind'
  <2> DEFINE g == names[reads[r].name].mailboxGeneration
  <2>1. names' = names /\ reads[r].phase = "between"
    BY <1>8 DEF ReadGeneration, vars
  <2>2. \A q \in Reads : q # r => reads'[q] = reads[q]
    BY <1>8 DEF ReadGeneration, RelayerTypeOK
  <2>3. /\ reads'[r].phase = "answered" /\ reads'[r].exists = reads[r].exists
        /\ reads'[r].dek = reads[r].dek /\ reads'[r].readAt = reads[r].readAt
        /\ reads'[r].generation = g
    BY <1>8 DEF ReadGeneration, RelayerTypeOK, ReadRecords
  <2> QED BY <1>4, <2>1, <2>2, <2>3 DEF ReadsAreBehind
<1>9. ASSUME NEW c \in Calls,
             RelayerStep(c) \/ Mine(c) \/ \E body \in Bodies : Post(c, body)
      PROVE  reads' = reads
  BY <1>9 DEF RelayerStep, Mine, Post, Send, Refuse, Acknowledge, Fail
<1>10. ASSUME NEW k \in Keys, NEW n \in Names, FetchAndSign(k, n)
       PROVE  reads' = reads
  BY <1>10 DEF FetchAndSign
<1> QED
  BY <1>6, <1>7, <1>8, <1>9, <1>10 DEF RelayerNext, relayerVars

\* What /names answers may mix two moments, but the number is never that of an earlier
\* generation than the record, whatever becomes of the name between the two reads.
THEOREM NamesAnswersTheRecord == RelayerSpec => []NamesAnswerIsNotAhead
<1>1. RelayerInit => ReadsAreBehind
  BY DEF RelayerInit, Init, EmptyRecord, NoRead, ReadsAreBehind
<1>2. ReadsAreBehind => NamesAnswerIsNotAhead
  BY DEF ReadsAreBehind, NamesAnswerIsNotAhead
<1> QED
  BY <1>1, <1>2, StepKeepsReads, RelayerGround, PTL DEF RelayerSpec

-----------------------------------------------------------------------------
(* Retries.                                                                *)

\* A body that was applied in generation g cannot be applied in it again.
Spent(body, g) ==
    IF body.challenge.act = "registerNode"
    THEN nodes[body.challenge.node] # None
    ELSE LET rec == names[body.challenge.name]
         IN  \/ g < rec.mailboxGeneration
             \/ g = rec.mailboxGeneration /\ body.challenge.nonce < rec.nonce

AppliedIsSpent ==
    \A c \in Calls : calls[c].tx = "applied" => Spent(calls[c].body, calls[c].gen)

RetryInv == RetryIsHarmless /\ AppliedIsSpent

\* No step of the registry gives a spent body back.
LEMMA SpentStays ==
    ASSUME TypeOK, RegistryInv, [Next]_vars, NEW body \in Bodies, NEW g \in Generations,
           Spent(body, g)
    PROVE  Spent(body, g)'
<1>1. CASE body \in NodeBodies
  BY <1>1, NodeBody, NodesStay DEF Spent
<1>2. CASE body \in signed
  <2> DEFINE n == body.challenge.name
  <2>1. n \in Names /\ body.challenge.nonce \in Nat /\ body.challenge.act # "registerNode"
    BY <1>2, SignedBody
  <2>2. TypeOK'
    BY NextType
  <2>3. /\ names[n].mailboxGeneration \in Nat /\ names'[n].mailboxGeneration \in Nat
        /\ names[n].nonce \in Nat /\ names'[n].nonce \in Nat /\ g \in Nat
    <3>1. names[n] \in NameRecords /\ names'[n] \in NameRecords
      BY <2>1, <2>2 DEF TypeOK
    <3> QED BY <3>1 DEF NameRecords, Generations
  <2>4. \/ names'[n].mailboxGeneration > names[n].mailboxGeneration
        \/ /\ names'[n].mailboxGeneration = names[n].mailboxGeneration
           /\ names'[n].nonce >= names[n].nonce
    BY <2>1, <2>3, StepOfRecord DEF SameClaim, NewClaim
  <2> QED BY <2>1, <2>3, <2>4 DEF Spent
<1> QED BY <1>1, <1>2 DEF Bodies

\* A signature that is applied signs the nonce of the moment, and the next one is
\* larger, or the name has begun a generation.
LEMMA AppliedUsesNonce ==
    ASSUME TypeOK, RegistryInv, NEW body \in signed, Transact(body)
    PROVE  LET n == body.challenge.name
           IN  /\ body.challenge.nonce = names[n].nonce
               /\ \/ names'[n].mailboxGeneration > names[n].mailboxGeneration
                  \/ /\ names'[n].mailboxGeneration = names[n].mailboxGeneration
                     /\ names'[n].nonce > names[n].nonce
<1> DEFINE ch == body.challenge
           n == ch.name
<1>1. /\ n \in Names /\ body.key \in Keys /\ ch.act # "registerNode"
      /\ ch.act = "linkNode" =>
             ch.node \in Nodes /\ ch.newKey \in Keys /\ ch.invite \in Invites
      /\ ch.act = "removeController" => ch.oldKey \in Keys
  BY SignedBody
<1>2. names[n] \in NameRecords /\ names[n].nonce \in Nat
  BY <1>1 DEF TypeOK, NameRecords
<1>3. ASSUME NEW rec \in NameRecords, CountWrite(n, rec, body),
             rec.mailboxGeneration = names[n].mailboxGeneration, rec.nonce = names[n].nonce
      PROVE  /\ names'[n].mailboxGeneration = names[n].mailboxGeneration
             /\ names'[n].nonce > names[n].nonce
  <2>1. names'[n] = [rec EXCEPT !.nonce = @ + 1]
    BY <1>1, <1>3, CountWriteRecord
  <2> QED BY <1>2, <1>3, <2>1 DEF NameRecords
<1>4. CASE ch.act = "register" /\ Register(n, body.key, ch.dek, body)
  <2>1. names[n].mailboxGeneration = 0 /\ names'[n].mailboxGeneration = 1
    BY <1>1, <1>4 DEF Register, CanRegister, Available, RegistryInv, GenerationsBeginEmpty, TypeOK
  <2>2. ch.nonce = names[n].nonce
    BY <1>4 DEF Register, CanRegister, Verify, RegisterChallenge
  <2> QED BY <2>1, <2>2
<1>5. CASE ch.act = "linkNode" /\ LinkNode(n, ch.node, ch.newKey, ch.invite, body)
  <2> DEFINE rec == [names[n] EXCEPT !.controllers = Append(@, ch.newKey)]
  <2>1. rec \in NameRecords /\ rec.mailboxGeneration = names[n].mailboxGeneration
        /\ rec.nonce = names[n].nonce
    BY <1>1, <1>2, <1>5, AppendProperties DEF NameRecords
  <2>2. CountWrite(n, rec, body)
    BY <1>5 DEF LinkNode
  <2>3. ch.nonce = names[n].nonce
    BY <1>5 DEF LinkNode, CanLinkNode, Accepts, VerifyAny, Verify, LinkNodeChallenge
  <2> HIDE DEF rec
  <2> QED BY <1>3, <2>1, <2>2, <2>3
<1>6. CASE ch.act = "removeController" /\ RemoveController(n, ch.oldKey, body)
  <2>1. PICK i \in DOMAIN names[n].controllers :
            CountWrite(n, WithoutController(names[n], ch.oldKey, i), body)
    BY <1>6 DEF RemoveController
  <2>2. Len(names[n].controllers) > 1 /\ ch.nonce = names[n].nonce
    BY <1>6
    DEF RemoveController, CanRemoveController, Accepts, VerifyAny, Verify, RemoveControllerChallenge
  <2> QED BY <1>1, <1>2, <1>3, <1>6, <2>1, <2>2, WithoutControllerType
<1>7. CASE ch.act = "optIn" /\ OptIn(n, ch.node, body)
  <2>1. CountWrite(n, names[n], body) /\ ch.nonce = names[n].nonce
    BY <1>7 DEF OptIn, CanOptIn, Accepts, VerifyAny, Verify, OptInChallenge
  <2> QED BY <1>2, <1>3, <2>1
<1>8. CASE ch.act = "optOut" /\ OptOut(n, ch.node, body)
  <2>1. CountWrite(n, names[n], body) /\ ch.nonce = names[n].nonce
    BY <1>8 DEF OptOut, CanOptOut, Accepts, VerifyAny, Verify, OptOutChallenge
  <2> QED BY <1>2, <1>3, <2>1
<1> QED BY <1>1, <1>4, <1>5, <1>6, <1>7, <1>8 DEF Transact

\* What is applied was not spent in this generation, and is so afterwards.
LEMMA TransactSpends ==
    ASSUME TypeOK, RegistryInv, NEW body \in Bodies, Transact(body),
           NEW g \in Generations, g = GenerationOf(body)
    PROVE  Spent(body, g)' /\ ~Spent(body, g)
<1>1. CASE body \in NodeBodies
  <2>1. RegisterNode(body.challenge.domain, body.challenge.node)
    BY <1>1, NodeBody DEF Transact
  <2> QED
    BY <1>1, <2>1, NodeBody, ConstantsAssumption DEF RegisterNode, CanRegisterNode, Spent, TypeOK
<1>2. CASE body \in signed
  <2> DEFINE n == body.challenge.name
  <2>1. n \in Names /\ body.challenge.act # "registerNode"
    BY <1>2, SignedBody
  <2>2. names[n].mailboxGeneration \in Nat /\ names[n].nonce \in Nat
    BY <2>1 DEF TypeOK, NameRecords, Generations
  <2>3. g = names[n].mailboxGeneration
    BY <2>1 DEF GenerationOf
  <2> QED BY <1>2, <2>1, <2>2, <2>3, AppliedUsesNonce DEF Spent
<1> QED BY <1>1, <1>2 DEF Bodies

\* Every step keeps what was applied spent, and applies nothing that is.
LEMMA StepKeepsRetry ==
    ASSUME RelayerTypeOK, RequestsAreFilled, RegistryInv, RetryInv,
           [RelayerNext]_relayerVars
    PROVE  RetryInv'
<1>1. TypeOK /\ [Next]_vars
  BY RelayerStepIsNext DEF RelayerTypeOK
<1>2. \A c \in Calls : calls[c] \in CallRecords /\ calls[c].gen \in Generations
  BY DEF RelayerTypeOK, CallRecords
<1>3. ASSUME NEW c \in Calls, calls[c].tx = "applied",
             NEW body, body = calls[c].body, NEW g, g = calls[c].gen
      PROVE  body \in Bodies /\ g \in Generations /\ Spent(body, g) /\ Spent(body, g)'
  <2>1. body \in Bodies /\ g \in Generations /\ Spent(body, g)
    BY <1>2, <1>3 DEF RequestsAreFilled, RetryInv, AppliedIsSpent
  <2> QED BY <1>1, <2>1, SpentStays DEF RelayerTypeOK
<1> DEFINE Kept(c) == calls'[c].tx = "applied" =>
               /\ calls[c].tx = "applied"
               /\ calls'[c].body = calls[c].body /\ calls'[c].gen = calls[c].gen
           Differ(c, body, g) ==
               \A d \in Calls : /\ d # c /\ calls'[d].body = body /\ calls'[d].tx = "applied"
                                => calls'[d].gen # g
<1>4. SUFFICES ASSUME NEW c \in Calls, calls'[c].tx = "applied",
                      NEW body, body = calls'[c].body, NEW g, g = calls'[c].gen
               PROVE  Spent(body, g)' /\ Differ(c, body, g)
  BY DEF RetryInv, RetryIsHarmless, AppliedIsSpent, Spent
<1>5. ASSUME \A d \in Calls : Kept(d)
      PROVE  Spent(body, g)' /\ Differ(c, body, g)
  <2>1. calls[c].tx = "applied" /\ body = calls[c].body /\ g = calls[c].gen
    BY <1>4, <1>5
  <2>2. Spent(body, g)'
    BY <1>3, <2>1
  <2> QED BY <1>5, <2>1, <2>2 DEF RetryInv, RetryIsHarmless
<1>6. ASSUME NEW a \in Calls, RelayerStep(a) \/ \E b \in Bodies : Post(a, b)
      PROVE  \A d \in Calls : Kept(d)
  <2>1. \A d \in Calls : d # a => calls'[d] = calls[d]
    BY <1>6 DEF RelayerStep, Post, Send, Refuse, Acknowledge, Fail, RelayerTypeOK
  <2>2. CASE \E b \in Bodies : Post(a, b)
    <3>1. calls[a].tx = "none" /\ calls'[a].tx = calls[a].tx
      BY <1>2, <2>2 DEF Post, RequestsAreFilled, RelayerTypeOK, CallRecords
    <3> QED BY <2>1, <3>1
  <2>3. CASE Send(a)
    <3>1. calls'[a].tx = "pending"
      BY <1>2, <2>3 DEF Send, RelayerTypeOK, CallRecords
    <3> QED BY <2>1, <3>1
  <2>4. CASE Refuse(a) \/ Acknowledge(a) \/ Fail(a)
    <3>1. /\ calls'[a].tx = calls[a].tx /\ calls'[a].body = calls[a].body
          /\ calls'[a].gen = calls[a].gen
      BY <1>2, <2>4 DEF Refuse, Acknowledge, Fail, RelayerTypeOK, CallRecords
    <3> QED BY <2>1, <3>1
  <2> QED BY <1>6, <2>2, <2>3, <2>4 DEF RelayerStep
<1>7. ASSUME NEW a \in Calls, Mine(a)
      PROVE  Spent(body, g)' /\ Differ(c, body, g)
  <2>1. \A d \in Calls : d # a => calls'[d] = calls[d]
    BY <1>7 DEF Mine, RelayerTypeOK
  <2>2. CASE calls' = [calls EXCEPT ![a].tx = "reverted"]
    <3>1. calls'[a].tx = "reverted"
      BY <1>2, <2>2 DEF RelayerTypeOK, CallRecords
    <3> QED BY <1>5, <2>1, <3>1
  <2>3. ASSUME NEW b, b = calls[a].body, NEW h, h = GenerationOf(b), Transact(b),
               calls' = [calls EXCEPT ![a].tx = "applied", ![a].gen = h]
        PROVE  Spent(body, g)' /\ Differ(c, body, g)
    <3>1. calls[a].tx = "pending" /\ b \in Bodies
      BY <1>7, <2>3 DEF Mine, RequestsAreFilled
    <3>2. h \in Generations
      BY <1>1, <2>3, <3>1, StandingType
    <3>3. Spent(b, h)' /\ ~Spent(b, h)
      BY <1>1, <2>3, <3>1, <3>2, TransactSpends
    <3>4. calls'[a].body = b /\ calls'[a].gen = h
      BY <1>2, <2>3 DEF RelayerTypeOK, CallRecords
    <3>5. \A d \in Calls : d # a /\ calls[d].tx = "applied" /\ calls[d].body = b
              => calls[d].gen # h
      BY <3>3 DEF RetryInv, AppliedIsSpent
    <3>6. CASE c = a
      BY <1>4, <2>1, <3>3, <3>4, <3>5, <3>6
    <3>7. CASE c # a
      <4>1. calls[c].tx = "applied" /\ body = calls[c].body /\ g = calls[c].gen
        BY <1>4, <2>1, <3>7
      <4>2. Spent(body, g)'
        BY <1>3, <4>1
      <4>3. \A d \in Calls : d # a /\ d # c /\ calls'[d].body = body /\ calls'[d].tx = "applied"
                => calls'[d].gen # g
        BY <2>1, <4>1 DEF RetryInv, RetryIsHarmless
      <4>4. calls'[a].body = body => calls'[a].gen # g
        BY <3>4, <3>5, <3>7, <4>1
      <4> QED BY <4>2, <4>3, <4>4
    <3> QED BY <3>6, <3>7
  <2> QED BY <1>7, <2>2, <2>3 DEF Mine
<1>8. CASE UNCHANGED calls
  BY <1>5, <1>8
<1>9. ASSUME \/ UNCHANGED relayerVars
             \/ (OwnerWrite \/ BridgeWrite \/ Tick) /\ UNCHANGED <<calls, reads>>
             \/ \E k \in Keys, n \in Names : FetchAndSign(k, n)
             \/ \E r \in Reads : ReadGeneration(r) \/ \E n \in Names : ReadRecord(r, n)
      PROVE  UNCHANGED calls
  BY <1>9 DEF relayerVars, FetchAndSign, ReadGeneration, ReadRecord
<1> QED
  BY <1>5, <1>6, <1>7, <1>8, <1>9 DEF RelayerNext

\* Whoever posts a signature again does it no harm: of all calls that carry it, on any
\* number of relayers, at most one is applied in a generation.
THEOREM RetriesAreHarmless == RelayerSpec => []RetryIsHarmless
<1>1. RelayerInit => RetryInv
  BY DEF RelayerInit, NoCall, RetryInv, RetryIsHarmless, AppliedIsSpent
<1>2. RetryInv => RetryIsHarmless
  BY DEF RetryInv
<1> QED
  BY <1>1, <1>2, StepKeepsRetry, RelayerGround, PTL DEF RelayerSpec

-----------------------------------------------------------------------------
(* Acknowledgements: what an estimate saw does not come back.              *)

\* A record that is r now is s later.
RecordGrows(r, s) ==
    \/ r.mailboxGeneration < s.mailboxGeneration
    \/ /\ r.mailboxGeneration = s.mailboxGeneration
       /\ \/ r.nonce < s.nonce
          \/ r = s
          \/ r.nonce = s.nonce /\ r.exists /\ ~s.exists

\* What an estimate of a body can have seen, and how that goes on.
StandingsOf(body) ==
    IF body.challenge.act = "registerNode"
    THEN [nodes : [Nodes -> Domains \cup {None}], domains : [Domains -> Nodes \cup {None}]]
    ELSE [record : NameRecords, nodes : [Nodes -> Domains \cup {None}], invites : SUBSET Invites]

StandingGrows(body, s, t) ==
    /\ TableGrows(s.nodes, t.nodes)
    /\ IF body.challenge.act = "registerNode"
       THEN TableGrows(s.domains, t.domains)
       ELSE RecordGrows(s.record, t.record) /\ s.invites \subseteq t.invites

\* A transaction that waits would succeed if nothing had changed since its estimate,
\* and something has changed for one that was reverted.
EstimateHolds(body, tx, seen) ==
    tx \in {"pending", "reverted"} =>
        /\ seen \in StandingsOf(body)
        /\ StandingGrows(body, seen, Standing(body))
        /\ tx = "pending" /\ Standing(body) = seen => Estimate(body)
        /\ tx = "reverted" => Standing(body) # seen

AckInv ==
    \A c \in Calls :
        /\ EstimateHolds(calls[c].body, calls[c].tx, calls[c].seen)
        /\ calls[c].phase = "received" => calls[c].tx = "none"
        /\ calls[c].phase = "sent" => calls[c].tx # "none"
        /\ calls[c].answer = "ok" => calls[c].tx \in {"applied", "reverted"}

\* Tables that grew into each other are the same.
LEMMA TableOrder ==
    ASSUME NEW D, NEW R, NEW f \in [D -> R], NEW g \in [D -> R], NEW h \in [D -> R],
           TableGrows(f, g), TableGrows(g, h)
    PROVE  TableGrows(f, h) /\ (h = f => g = f)
<1>1. TableGrows(f, h)
  BY DEF TableGrows
<1>2. ASSUME h = f  PROVE g = f
  <2>1. \A x \in D : g[x] = f[x]
    BY <1>2 DEF TableGrows
  <2> QED BY <2>1
<1> QED BY <1>1, <1>2

\* So are records.
LEMMA RecordOrder ==
    ASSUME NEW r \in NameRecords, NEW s \in NameRecords, NEW t \in NameRecords,
           RecordGrows(r, s), RecordGrows(s, t)
    PROVE  RecordGrows(r, t) /\ (t = r => s = r)
<1>1. /\ r.mailboxGeneration \in Nat /\ s.mailboxGeneration \in Nat /\ t.mailboxGeneration \in Nat
      /\ r.nonce \in Nat /\ s.nonce \in Nat /\ t.nonce \in Nat
  BY DEF NameRecords, Generations
<1>2. RecordGrows(r, t)
  BY <1>1 DEF RecordGrows
<1>3. t = r => s = r
  BY <1>1 DEF RecordGrows
<1> QED BY <1>2, <1>3

\* What has been left behind is not seen again.
LEMMA StandingOrder ==
    ASSUME NEW body, NEW s \in StandingsOf(body), NEW t \in StandingsOf(body),
           NEW u \in StandingsOf(body), StandingGrows(body, s, t), StandingGrows(body, t, u)
    PROVE  StandingGrows(body, s, u) /\ (u = s => t = s)
<1>1. TableGrows(s.nodes, u.nodes) /\ (u.nodes = s.nodes => t.nodes = s.nodes)
  <2> DEFINE E == Domains \cup {None}
  <2>1. s.nodes \in [Nodes -> E] /\ t.nodes \in [Nodes -> E] /\ u.nodes \in [Nodes -> E]
    BY DEF StandingsOf
  <2>2. TableGrows(s.nodes, t.nodes) /\ TableGrows(t.nodes, u.nodes)
    BY DEF StandingGrows
  <2> HIDE DEF E
  <2> QED BY <2>1, <2>2, TableOrder
<1>2. CASE body.challenge.act = "registerNode"
  <2> DEFINE E == Nodes \cup {None}
  <2>1. s.domains \in [Domains -> E] /\ t.domains \in [Domains -> E] /\ u.domains \in [Domains -> E]
    BY <1>2 DEF StandingsOf
  <2>2. TableGrows(s.domains, t.domains) /\ TableGrows(t.domains, u.domains)
    BY <1>2 DEF StandingGrows
  <2>3. TableGrows(s.domains, u.domains) /\ (u.domains = s.domains => t.domains = s.domains)
    <3> HIDE DEF E
    <3> QED BY <2>1, <2>2, TableOrder
  <2>4. s.nodes = t.nodes /\ s.domains = t.domains => s = t
    BY <1>2 DEF StandingsOf
  <2> QED BY <1>1, <1>2, <2>3, <2>4 DEF StandingGrows
<1>3. CASE body.challenge.act # "registerNode"
  <2>1. s.record \in NameRecords /\ t.record \in NameRecords /\ u.record \in NameRecords
    BY <1>3 DEF StandingsOf
  <2>2. RecordGrows(s.record, u.record) /\ (u.record = s.record => t.record = s.record)
    BY <1>3, <2>1, RecordOrder DEF StandingGrows
  <2>3. s.invites \subseteq u.invites /\ (u.invites = s.invites => t.invites = s.invites)
    BY <1>3 DEF StandingGrows
  <2>4. s.record = t.record /\ s.nodes = t.nodes /\ s.invites = t.invites => s = t
    BY <1>3 DEF StandingsOf
  <2> QED BY <1>1, <1>3, <2>2, <2>3, <2>4 DEF StandingGrows
<1> QED BY <1>2, <1>3

\* Every step of the registry goes on from what there is.
LEMMA StandingSteps ==
    ASSUME TypeOK, RegistryInv, [Next]_vars, NEW body \in Bodies
    PROVE  /\ Standing(body) \in StandingsOf(body) /\ Standing(body)' \in StandingsOf(body)
           /\ StandingGrows(body, Standing(body), Standing(body)')
<1>1. TypeOK'
  BY NextType
<1>2. body.challenge.act # "registerNode" => body.challenge.name \in Names
  BY SignedBody, NodeBody DEF Bodies
<1>3. Standing(body) \in StandingsOf(body) /\ Standing(body)' \in StandingsOf(body)
  BY <1>1, <1>2 DEF Standing, StandingsOf, TypeOK
<1>4. ASSUME NEW n \in Names  PROVE RecordGrows(names[n], names'[n])
  BY StepOfRecord DEF SameClaim, NewClaim, RecordGrows, TypeOK
<1>5. StandingGrows(body, Standing(body), Standing(body)')
  BY <1>2, <1>4, TablesGrow DEF StandingGrows, Standing
<1> QED BY <1>3, <1>5

\* An estimate depends on what it sees.
LEMMA EstimateOfStanding ==
    ASSUME NEW body, Standing(body)' = Standing(body), Estimate(body)
    PROVE  Estimate(body)'
<1>1. CASE body.challenge.act = "registerNode"
  <2>1. nodes' = nodes /\ masterByDomain' = masterByDomain
    BY <1>1 DEF Standing
  <2> QED BY <1>1, <2>1 DEF Estimate, CanRegisterNode
<1>2. CASE body.challenge.act # "registerNode"
  <2>1. /\ names'[body.challenge.name] = names[body.challenge.name] /\ nodes' = nodes
        /\ inviteUsed' = inviteUsed
    BY <1>2 DEF Standing
  <2> QED
    BY <1>2, <2>1
    DEF Estimate, CanRegister, CanLinkNode, CanRemoveController, CanOptIn, CanOptOut, Accepts,
        Available, InviteUnused, IsNewController, HasRoom, VerifyAny, Verify, RegisterChallenge,
        LinkNodeChallenge, RemoveControllerChallenge, OptInChallenge, OptOutChallenge
<1> QED BY <1>1, <1>2

\* Whatever the registry does, an estimate that held is overtaken or holds.
LEMMA EstimateStays ==
    ASSUME TypeOK, RegistryInv, [Next]_vars, NEW body \in Bodies, NEW tx, NEW seen,
           EstimateHolds(body, tx, seen)
    PROVE  EstimateHolds(body, tx, seen)'
<1> SUFFICES ASSUME tx \in {"pending", "reverted"}
             PROVE  /\ seen \in StandingsOf(body)
                    /\ StandingGrows(body, seen, Standing(body)')
                    /\ tx = "pending" /\ Standing(body)' = seen => Estimate(body)'
                    /\ tx = "reverted" => Standing(body)' # seen
  BY DEF EstimateHolds, StandingsOf, StandingGrows, TableGrows, RecordGrows
<1> DEFINE here == Standing(body)  next == Standing(body)'
<1>1. /\ seen \in StandingsOf(body) /\ StandingGrows(body, seen, here)
      /\ tx = "pending" /\ here = seen => Estimate(body)
      /\ tx = "reverted" => here # seen
  BY DEF EstimateHolds
<1>2. /\ here \in StandingsOf(body) /\ next \in StandingsOf(body)
      /\ StandingGrows(body, here, next)
  BY StandingSteps
<1>3. next = here /\ Estimate(body) => Estimate(body)'
  BY EstimateOfStanding
<1> HIDE DEF here, next
<1>4. StandingGrows(body, seen, next) /\ (next = seen => here = seen)
  BY <1>1, <1>2, StandingOrder
<1> QED BY <1>1, <1>3, <1>4 DEF here, next

\* Every step of the relayer, its callers and the chain keeps it so.
LEMMA StepKeepsAck ==
    ASSUME RelayerTypeOK, RequestsAreFilled, RegistryInv, AckInv, [RelayerNext]_relayerVars
    PROVE  AckInv'
<1> DEFINE AnswerOK(call) ==
               /\ call.phase = "received" => call.tx = "none"
               /\ call.phase = "sent" => call.tx # "none"
               /\ call.answer = "ok" => call.tx \in {"applied", "reverted"}
<1>1. TypeOK /\ [Next]_vars
  BY RelayerStepIsNext DEF RelayerTypeOK
<1>2. \A c \in Calls : calls[c] \in CallRecords
  BY DEF RelayerTypeOK
<1>3. ASSUME NEW body, NEW tx, NEW seen, tx # "none" => body \in Bodies,
             EstimateHolds(body, tx, seen)
      PROVE  EstimateHolds(body, tx, seen)'
  <2>1. CASE tx \in {"pending", "reverted"}
    BY <1>1, <1>3, <2>1, EstimateStays
  <2>2. CASE tx \notin {"pending", "reverted"}
    BY <2>2 DEF EstimateHolds
  <2> QED BY <2>1, <2>2
<1>4. SUFFICES ASSUME NEW c \in Calls, NEW body, body = calls'[c].body, NEW tx, tx = calls'[c].tx,
                      NEW seen, seen = calls'[c].seen
               PROVE  EstimateHolds(body, tx, seen)' /\ AnswerOK(calls'[c])
  BY DEF AckInv
<1>5. ASSUME calls'[c] = calls[c]
      PROVE  EstimateHolds(body, tx, seen)' /\ AnswerOK(calls'[c])
  <2>1. EstimateHolds(body, tx, seen) /\ (tx # "none" => body \in Bodies)
    BY <1>4, <1>5 DEF AckInv, RequestsAreFilled
  <2> QED BY <1>3, <1>4, <1>5, <2>1 DEF AckInv
<1>6. ASSUME NEW a \in Calls, RelayerStep(a) \/ \E b \in Bodies : Post(a, b)
      PROVE  EstimateHolds(body, tx, seen)' /\ AnswerOK(calls'[c])
  <2>1. \A d \in Calls : d # a => calls'[d] = calls[d]
    BY <1>6 DEF RelayerStep, Post, Send, Refuse, Acknowledge, Fail, RelayerTypeOK
  <2>2. CASE c # a
    BY <1>5, <2>1, <2>2
  <2>3. CASE c = a /\ \E b \in Bodies : Post(a, b)
    <3>1. /\ calls[c].tx = "none" /\ calls'[c].tx = calls[c].tx
          /\ calls'[c].phase = "received" /\ calls'[c].answer = calls[c].answer
      BY <1>2, <2>3 DEF Post, RequestsAreFilled, RelayerTypeOK, CallRecords
    <3>2. calls'[c].answer # "ok"
      BY <3>1 DEF AckInv
    <3> QED BY <1>4, <3>1, <3>2 DEF EstimateHolds
  <2>4. CASE c = a /\ Send(a)
    <3>1. /\ calls'[c].tx = "pending" /\ calls'[c].phase = "sent"
          /\ calls'[c].answer = calls[c].answer
          /\ calls'[c].body = calls[c].body /\ calls'[c].seen = Standing(calls[c].body)
      BY <1>2, <2>4 DEF Send, RelayerTypeOK, CallRecords
    <3>2. body \in Bodies /\ seen = Standing(body) /\ Estimate(body) /\ tx = "pending"
      BY <1>4, <2>4, <3>1 DEF Send, RequestsAreFilled
    <3>3. StandingGrows(body, seen, Standing(body))
      BY <3>2 DEF StandingGrows, TableGrows, RecordGrows
    <3>4. seen \in StandingsOf(body)
      BY <1>1, <3>2, StandingSteps
    <3>5. EstimateHolds(body, tx, seen)
      BY <3>2, <3>3, <3>4 DEF EstimateHolds
    <3>6. calls[c].answer # "ok"
      BY <1>2, <2>4 DEF AckInv, Send, RequestsAreFilled
    <3> QED BY <1>3, <1>4, <3>1, <3>2, <3>5, <3>6
  <2>5. CASE c = a /\ (Refuse(a) \/ Acknowledge(a) \/ Fail(a))
    <3>1. /\ calls'[c].tx = calls[c].tx /\ calls'[c].body = calls[c].body
          /\ calls'[c].seen = calls[c].seen
          /\ calls'[c].phase \in {calls[c].phase, "over"}
          /\ calls'[c].answer = "ok" => \/ calls[c].answer = "ok"
                                        \/ calls[c].phase = "sent" /\ calls[c].tx # "pending"
      <4>1. PICK phase \in {calls[c].phase, "over"}, answer \in {"ok", "failed", "reverted"} :
                /\ calls' = [calls EXCEPT ![c].phase = phase, ![c].answer = Told(c, answer)]
                /\ answer = "ok" => calls[c].phase = "sent" /\ calls[c].tx # "pending"
        BY <2>5 DEF Refuse, Acknowledge, Fail
      <4> QED BY <1>2, <4>1 DEF Told, RelayerTypeOK, CallRecords
    <3>2. EstimateHolds(body, tx, seen) /\ (tx # "none" => body \in Bodies)
      BY <1>4, <3>1 DEF AckInv, RequestsAreFilled
    <3>3. tx \in {"none", "pending", "applied", "reverted"}
      BY <1>2, <1>4, <3>1 DEF CallRecords
    <3> QED BY <1>3, <1>4, <3>1, <3>2, <3>3 DEF AckInv
  <2> QED BY <1>6, <2>2, <2>3, <2>4, <2>5 DEF RelayerStep
<1>7. ASSUME NEW a \in Calls, Mine(a)
      PROVE  EstimateHolds(body, tx, seen)' /\ AnswerOK(calls'[c])
  <2>1. \A d \in Calls : d # a => calls'[d] = calls[d]
    BY <1>7 DEF Mine, RelayerTypeOK
  <2>2. CASE c # a
    BY <1>5, <2>1, <2>2
  <2>3. CASE c = a
    <3> DEFINE g == GenerationOf(calls[c].body)
    <3>0. calls[c].tx = "pending" /\ calls[c].phase # "received"
      BY <1>7, <2>3 DEF Mine, AckInv
    <3>1. CASE calls' = [calls EXCEPT ![c].tx = "applied", ![c].gen = g]
      <4> HIDE DEF g
      <4>1. calls'[c].tx = "applied" /\ calls'[c].phase = calls[c].phase
        BY <1>2, <3>1 DEF RelayerTypeOK, CallRecords
      <4> QED BY <1>4, <3>0, <4>1 DEF EstimateHolds
    <3>2. CASE UNCHANGED vars /\ ~Estimate(calls[c].body) /\ calls' = [calls EXCEPT ![c].tx = "reverted"]
      <4>1. /\ tx = "reverted" /\ body = calls[c].body /\ seen = calls[c].seen
            /\ calls'[c].phase = calls[c].phase
        BY <1>2, <1>4, <3>2 DEF RelayerTypeOK, CallRecords
      <4>2. /\ seen \in StandingsOf(body) /\ StandingGrows(body, seen, Standing(body))
            /\ Standing(body) # seen
        BY <3>0, <3>2, <4>1 DEF AckInv, EstimateHolds
      <4>3. EstimateHolds(body, "reverted", seen) /\ body \in Bodies
        BY <3>0, <4>1, <4>2 DEF EstimateHolds, RequestsAreFilled
      <4> QED BY <1>3, <1>4, <3>0, <4>1, <4>3
    <3> QED BY <1>7, <2>3, <3>1, <3>2 DEF Mine
  <2> QED BY <2>2, <2>3
<1>8. ASSUME \/ UNCHANGED relayerVars
             \/ (OwnerWrite \/ BridgeWrite \/ Tick) /\ UNCHANGED <<calls, reads>>
             \/ \E k \in Keys, n \in Names : FetchAndSign(k, n)
             \/ \E r \in Reads : ReadGeneration(r) \/ \E n \in Names : ReadRecord(r, n)
      PROVE  UNCHANGED calls
  BY <1>8 DEF relayerVars, FetchAndSign, ReadGeneration, ReadRecord
<1> QED
  BY <1>5, <1>6, <1>7, <1>8 DEF RelayerNext

\* A call answered 200 has had its effect, or what its estimate saw was gone for good
\* when the block came: for any number of calls, names and invites, and whatever fails
\* or is posted again.
THEOREM AcknowledgementsAreSound == RelayerSpec => []AcknowledgedOrOvertaken
<1>1. RelayerInit => AckInv
  BY DEF RelayerInit, NoCall, AckInv, EstimateHolds
<1>2. AckInv => AcknowledgedOrOvertaken
  BY DEF AckInv, EstimateHolds, AcknowledgedOrOvertaken
<1> QED
  BY <1>1, <1>2, StepKeepsAck, RelayerGround, PTL DEF RelayerSpec
=============================================================================
