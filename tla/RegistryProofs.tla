--------------------------- MODULE RegistryProofs ---------------------------
(***************************************************************************)
(* Theorems about the registry, for every set of names, keys and nodes and *)
(* every value of the bounds: what the contract keeps true, and that it    *)
(* implements MailboxBook.                                                 *)
(***************************************************************************)
EXTENDS Registry, SequenceTheorems, FiniteSetTheorems, TLAPS

-----------------------------------------------------------------------------
(* The operators on controller lists.                                      *)

\* Swap-and-pop takes a list of at least two keys to a list one shorter.
LEMMA SwapAndPopType ==
    ASSUME NEW cs \in Seq(Keys), Len(cs) > 1, NEW i \in DOMAIN cs
    PROVE  /\ SwapAndPop(cs, i) \in Seq(Keys)
           /\ Len(SwapAndPop(cs, i)) = Len(cs) - 1
           /\ DOMAIN SwapAndPop(cs, i) = 1..Len(cs) - 1
           /\ SwapAndPop(cs, i)[1] \in Keys
<1> DEFINE e(j) == IF j = i THEN cs[Len(cs)] ELSE cs[j]
<1>1. Len(cs) - 1 \in Nat /\ \A j \in 1..Len(cs) - 1 : e(j) \in Keys
  BY ElementOfSeq, LenProperties
<1>2. [j \in 1..Len(cs) - 1 |-> e(j)] \in Seq(Keys)
  <2> HIDE DEF e
  <2> QED BY <1>1, IsASeq
<1>3. SwapAndPop(cs, i) \in Seq(Keys) /\ DOMAIN SwapAndPop(cs, i) = 1..Len(cs) - 1
  BY <1>2 DEF SwapAndPop
<1>4. Len(SwapAndPop(cs, i)) = Len(cs) - 1
  BY <1>1, <1>3, LenProperties
<1> QED BY <1>1, <1>3, <1>4 DEF SwapAndPop

\* On a list without duplicates it removes exactly the key at i.
LEMMA SwapAndPopRemoves ==
    ASSUME NEW cs \in Seq(Keys), Len(cs) > 1, NEW i \in DOMAIN cs, IsInjective(cs)
    PROVE  /\ IsInjective(SwapAndPop(cs, i))
           /\ Range(SwapAndPop(cs, i)) = Range(cs) \ {cs[i]}
<1> DEFINE r == SwapAndPop(cs, i)
           last == Len(cs)
<1>1. /\ last \in Nat /\ DOMAIN cs = 1..last /\ i \in 1..last
      /\ DOMAIN r = 1..last - 1
      /\ \A j \in 1..last - 1 : r[j] = IF j = i THEN cs[last] ELSE cs[j]
  BY LenProperties, SwapAndPopType DEF SwapAndPop
<1>2. \A a, b \in 1..last : cs[a] = cs[b] => a = b
  BY <1>1 DEF IsInjective
<1> HIDE DEF r, last
<1>3. ASSUME NEW a \in 1..last - 1, NEW b \in 1..last - 1, r[a] = r[b]
      PROVE  a = b
  <2>1. a \in 1..last /\ b \in 1..last /\ last \in 1..last /\ a # last /\ b # last
    BY <1>1
  <2> QED BY <1>1, <1>2, <1>3, <2>1
<1>4. IsInjective(r)
  BY <1>1, <1>3 DEF IsInjective
<1>5. ASSUME NEW j \in 1..last - 1
      PROVE  r[j] \in Range(cs) /\ r[j] # cs[i]
  <2>1. j \in 1..last /\ last \in 1..last /\ j # last
    BY <1>1
  <2> QED BY <1>1, <1>2, <2>1 DEF Range
<1>6. ASSUME NEW m \in 1..last, cs[m] # cs[i]
      PROVE  cs[m] \in Range(r)
  <2>1. CASE m = last
    <3>1. i \in 1..last - 1 /\ r[i] = cs[m]
      BY <1>1, <1>6, <2>1
    <3> QED BY <1>1, <3>1 DEF Range
  <2>2. CASE m # last
    <3>1. m \in 1..last - 1 /\ r[m] = cs[m]
      BY <1>1, <1>6, <2>2
    <3> QED BY <1>1, <3>1 DEF Range
  <2> QED BY <2>1, <2>2
<1>7. Range(r) = Range(cs) \ {cs[i]}
  BY <1>1, <1>5, <1>6 DEF Range
<1> QED BY <1>4, <1>7 DEF r

\* Appending a key that is not in the list.
LEMMA AppendNewKey ==
    ASSUME NEW cs \in Seq(Keys), NEW k \in Keys, k \notin Range(cs), IsInjective(cs)
    PROVE  /\ IsInjective(Append(cs, k))
           /\ Range(Append(cs, k)) = Range(cs) \cup {k}
<1> DEFINE r == Append(cs, k)
           last == Len(cs)
<1>1. /\ last \in Nat /\ DOMAIN cs = 1..last /\ DOMAIN r = 1..last + 1
      /\ \A j \in 1..last : r[j] = cs[j] /\ cs[j] # k
      /\ r[last + 1] = k
  BY LenProperties, AppendProperties DEF Range
<1>2. \A a, b \in 1..last : cs[a] = cs[b] => a = b
  BY <1>1 DEF IsInjective
<1> HIDE DEF r, last
<1>3. \A j \in 1..last + 1 : j \in 1..last \/ j = last + 1
  BY <1>1
<1>4. IsInjective(r)
  BY <1>1, <1>2, <1>3 DEF IsInjective
<1>5. last + 1 \in 1..last + 1 /\ 1..last \subseteq 1..last + 1
  BY <1>1
<1>6. Range(r) = Range(cs) \cup {k}
  BY <1>1, <1>3, <1>5 DEF Range
<1> QED BY <1>4, <1>6 DEF r

-----------------------------------------------------------------------------
(* Type correctness.                                                       *)

\* Changing one entry of the opt-in table leaves a table.
LEMMA OptInUpdateType ==
    ASSUME NEW t \in [Names -> [Nodes -> OptInTimes]], NEW n \in Names, NEW d \in Nodes,
           NEW o \in OptInTimes
    PROVE  [t EXCEPT ![n][d] = o] \in [Names -> [Nodes -> OptInTimes]]
OBVIOUS

\* removeController changes the controllers and the primary key of a record only.
LEMMA WithoutControllerType ==
    ASSUME NEW rec \in NameRecords, NEW k \in Keys, Len(rec.controllers) > 1,
           NEW i \in DOMAIN rec.controllers
    PROVE  /\ WithoutController(rec, k, i) \in NameRecords
           /\ WithoutController(rec, k, i).mailboxGeneration = rec.mailboxGeneration
           /\ WithoutController(rec, k, i).nonce = rec.nonce
           /\ WithoutController(rec, k, i).exists = rec.exists
<1>1. rec.controllers \in Seq(Keys)
  BY DEF NameRecords
<1>2. WithoutController(rec, k, i) \in NameRecords
  BY <1>1, SwapAndPopType DEF WithoutController, NameRecords
<1>3. /\ WithoutController(rec, k, i).mailboxGeneration = rec.mailboxGeneration
      /\ WithoutController(rec, k, i).nonce = rec.nonce
      /\ WithoutController(rec, k, i).exists = rec.exists
  BY DEF WithoutController, NameRecords
<1> QED BY <1>2, <1>3

\* A counted write keeps the records and the history well typed.
LEMMA CountWriteType ==
    ASSUME TypeOK, NEW n \in Names, NEW rec \in NameRecords, NEW auth \in signed,
           CountWrite(n, rec, auth)
    PROVE  /\ names' \in [Names -> NameRecords]
           /\ writes' \in [Names -> [Generations -> Seq(Signatures)]]
<1>1. [rec EXCEPT !.nonce = @ + 1] \in NameRecords
  BY DEF NameRecords
<1>2. names' \in [Names -> NameRecords]
  BY <1>1 DEF CountWrite, TypeOK
<1>3. /\ rec.mailboxGeneration \in Generations
      /\ writes[n] \in [Generations -> Seq(Signatures)]
      /\ auth \in Signatures
  BY DEF TypeOK, NameRecords
<1>4. Append(writes[n][rec.mailboxGeneration], auth) \in Seq(Signatures)
  BY <1>3, AppendProperties
<1>5. writes' \in [Names -> [Generations -> Seq(Signatures)]]
  BY <1>3, <1>4 DEF CountWrite, TypeOK
<1> QED BY <1>2, <1>5

\* What the views answer is a challenge.
LEMMA CurrentChallengesType ==
    ASSUME TypeOK, NEW n \in Names
    PROVE  CurrentChallenges(n) \subseteq Challenges
<1>1. names[n].nonce \in Nat
  BY DEF TypeOK, NameRecords
<1> QED
  BY <1>1 DEF CurrentChallenges, Challenges, RegisterChallenge, LinkNodeChallenge,
     RemoveControllerChallenge, OptInChallenge, OptOutChallenge

\* So do the two ways to stamp an entry.
LEMMA OptInStampType ==
    ASSUME TypeOK, NEW n \in Names, NEW d \in Nodes
    PROVE  /\ [optIns[n][d] EXCEPT !.inAt = now, !.gen = names[n].mailboxGeneration]
                 \in OptInTimes
           /\ [optIns[n][d] EXCEPT !.outAt = now] \in OptInTimes
<1> DEFINE o == optIns[n][d]
           g == names[n].mailboxGeneration
<1>1. o \in OptInTimes /\ now \in Nat /\ g \in Generations
  BY DEF TypeOK, NameRecords
<1> HIDE DEF o, g
<1>2. [o EXCEPT !.inAt = now] \in OptInTimes /\ [o EXCEPT !.outAt = now] \in OptInTimes
  BY <1>1 DEF OptInTimes
<1>3. [[o EXCEPT !.inAt = now] EXCEPT !.gen = g] \in OptInTimes
  BY <1>1, <1>2 DEF OptInTimes
<1> QED BY <1>2, <1>3 DEF o, g

\* The fresh contract is well typed.
LEMMA InitType == Init => TypeOK
<1> SUFFICES ASSUME Init PROVE TypeOK
  OBVIOUS
<1>1. <<>> \in Seq(Keys) /\ <<>> \in Seq(Signatures)
  BY EmptySeq
<1>2. 0 \in Generations
  BY ConstantsAssumption DEF Generations
<1>3. EmptyRecord \in NameRecords
  BY <1>1, <1>2 DEF EmptyRecord, NameRecords
<1> QED BY <1>1, <1>2, <1>3 DEF Init, TypeOK, OptInTimes

\* Every transaction, and every step of its surroundings, keeps the types.
LEMMA NextType == TypeOK /\ [Next]_vars => TypeOK'
<1> SUFFICES ASSUME TypeOK, [Next]_vars PROVE TypeOK'
  OBVIOUS
<1>1. ASSUME NEW n \in Names, NEW k \in Keys, NEW dek \in Deks, NEW auth \in signed,
             Register(n, k, dek, auth)
      PROVE  TypeOK'
  <2>1. names[n].controllers \in Seq(Keys)
    BY DEF TypeOK, NameRecords
  <2>2. Append(names[n].controllers, k) \in Seq(Keys)
    BY <2>1, AppendProperties
  <2>3. 1 \in Generations
    BY ConstantsAssumption DEF Generations
  <2>4. names' \in [Names -> NameRecords]
    BY <1>1, <2>2, <2>3 DEF Register, TypeOK, NameRecords
  <2> QED BY <1>1, <2>4 DEF Register, TypeOK, envVars
<1>2. ASSUME NEW n \in Names, NEW d \in Nodes, NEW k \in Keys, NEW i \in Invites,
             NEW auth \in signed, LinkNode(n, d, k, i, auth)
      PROVE  TypeOK'
  <2> DEFINE rec == [names[n] EXCEPT !.controllers = Append(@, k)]
  <2>1. names[n] \in NameRecords
    BY DEF TypeOK
  <2>2. rec \in NameRecords
    BY <2>1, AppendProperties DEF NameRecords
  <2>3. CountWrite(n, rec, auth)
    BY <1>2 DEF LinkNode
  <2>4. /\ names' \in [Names -> NameRecords]
        /\ writes' \in [Names -> [Generations -> Seq(Signatures)]]
    BY <2>2, <2>3, CountWriteType
  <2>5. [optIns[n][d] EXCEPT !.inAt = now, !.gen = names[n].mailboxGeneration]
           \in OptInTimes
    BY <2>1, OptInStampType
  <2>6. optIns' \in [Names -> [Nodes -> OptInTimes]]
    BY <1>2, <2>5, OptInUpdateType DEF LinkNode, TypeOK
  <2> QED BY <1>2, <2>4, <2>6 DEF LinkNode, TypeOK, envVars
<1>3. ASSUME NEW n \in Names, NEW k \in Keys, NEW auth \in signed,
             RemoveController(n, k, auth)
      PROVE  TypeOK'
  <2>1. PICK i \in DOMAIN names[n].controllers :
            CountWrite(n, WithoutController(names[n], k, i), auth)
    BY <1>3 DEF RemoveController
  <2>2. names[n] \in NameRecords /\ Len(names[n].controllers) > 1
    BY <1>3 DEF TypeOK, RemoveController, CanRemoveController, Accepts
  <2>3. WithoutController(names[n], k, i) \in NameRecords
    BY <2>2, WithoutControllerType
  <2>4. /\ names' \in [Names -> NameRecords]
        /\ writes' \in [Names -> [Generations -> Seq(Signatures)]]
    BY <2>1, <2>3, CountWriteType
  <2> QED BY <1>3, <2>4 DEF RemoveController, TypeOK, envVars
<1>4. ASSUME NEW n \in Names, NEW d \in Nodes, NEW auth \in signed, OptIn(n, d, auth)
      PROVE  TypeOK'
  <2>1. names[n] \in NameRecords
    BY DEF TypeOK
  <2>2. /\ names' \in [Names -> NameRecords]
        /\ writes' \in [Names -> [Generations -> Seq(Signatures)]]
    BY <1>4, <2>1, CountWriteType DEF OptIn
  <2>3. [optIns[n][d] EXCEPT !.inAt = now, !.gen = names[n].mailboxGeneration]
           \in OptInTimes
    BY <2>1, OptInStampType
  <2>4. optIns' \in [Names -> [Nodes -> OptInTimes]]
    BY <1>4, <2>3, OptInUpdateType DEF OptIn, TypeOK
  <2> QED BY <1>4, <2>2, <2>4 DEF OptIn, TypeOK, envVars
<1>5. ASSUME NEW n \in Names, NEW d \in Nodes, NEW auth \in signed, OptOut(n, d, auth)
      PROVE  TypeOK'
  <2>1. names[n] \in NameRecords
    BY DEF TypeOK
  <2>2. /\ names' \in [Names -> NameRecords]
        /\ writes' \in [Names -> [Generations -> Seq(Signatures)]]
    BY <1>5, <2>1, CountWriteType DEF OptOut
  <2>3. [optIns[n][d] EXCEPT !.outAt = now] \in OptInTimes
    BY OptInStampType
  <2>4. optIns' \in [Names -> [Nodes -> OptInTimes]]
    BY <1>5, <2>3, OptInUpdateType DEF OptOut, TypeOK
  <2> QED BY <1>5, <2>2, <2>4 DEF OptOut, TypeOK, envVars
<1>6. ASSUME NEW b \in Bridges \cup {None}, SetEnsBridge(b)
      PROVE  TypeOK'
  BY <1>6 DEF SetEnsBridge, TypeOK, envVars
<1>7. ASSUME NEW dom \in Domains, NEW d \in Nodes, RegisterNode(dom, d)
      PROVE  TypeOK'
  BY <1>7 DEF RegisterNode, TypeOK, envVars
<1>8. ASSUME NEW b \in Bridges, NEW n \in Names, NEW k \in Keys, NEW dek \in Deks,
             NEW gen \in 1..MaxGeneration, ApplyEnsBind(b, n, k, dek, gen)
      PROVE  TypeOK'
  <2>1. <<k>> \in Seq(Keys) /\ gen \in Generations
    BY ConstantsAssumption DEF Generations
  <2>2. names' \in [Names -> NameRecords]
    BY <1>8, <2>1 DEF RequireLinkedEnsName, ApplyEnsBind, TypeOK, NameRecords
  <2> QED BY <1>8, <2>2 DEF RequireLinkedEnsName, ApplyEnsBind, TypeOK, envVars
<1>9. ASSUME NEW b \in Bridges, NEW n \in Names, NEW gen \in 1..MaxGeneration,
             ApplyEnsVacate(b, n, gen)
      PROVE  TypeOK'
  <2>1. <<>> \in Seq(Keys) /\ names[n] \in NameRecords
    BY EmptySeq DEF TypeOK
  <2>2. Vacated(names[n]) \in NameRecords
    BY <2>1 DEF Vacated, NameRecords
  <2> QED BY <1>9, <2>2 DEF RequireLinkedEnsName, ApplyEnsVacate, TypeOK, envVars
<1>10. ASSUME NEW k \in Keys, NEW n \in Names, NEW ch \in CurrentChallenges(n), Sign(k, n, ch)
       PROVE  TypeOK'
  <2>1. ch \in Challenges /\ names[n].mailboxGeneration \in Generations
    BY CurrentChallengesType DEF TypeOK, NameRecords
  <2>2. signed' \subseteq Signatures
    BY <1>10, <2>1 DEF Sign, TypeOK, Signatures
  <2> QED BY <1>10, <2>2 DEF Sign, TypeOK
<1>11. CASE Tick
  BY <1>11 DEF Tick, TypeOK
<1>12. CASE UNCHANGED vars
  BY <1>12 DEF vars, TypeOK
<1> QED
  BY <1>1, <1>2, <1>3, <1>4, <1>5, <1>6, <1>7, <1>8, <1>9, <1>10, <1>11, <1>12
  DEF Next, UserWrite, OwnerWrite, BridgeWrite, Environment

\* Whatever users, the registry owner and the bridge send, every storage slot
\* keeps the type it is declared with.
THEOREM TypeCorrect == Spec => []TypeOK
BY InitType, NextType, PTL DEF Spec

-----------------------------------------------------------------------------
(* The records: who controls a name.                                       *)

\* What ControllersAreSound says of one record.
RecordOK(rec) ==
    /\ rec.exists <=> rec.controllers # <<>>
    /\ Len(rec.controllers) <= MaxControllers
    /\ IF rec.exists THEN rec.primary \in Range(rec.controllers) ELSE rec.primary = None
    /\ IsInjective(rec.controllers)

RecordsOK == \A n \in Names : RecordOK(names[n])

\* RecordsOK is the controller invariant, record by record.
LEMMA RecordsOKIsInv == RecordsOK <=> ControllersAreSound
BY DEF RecordsOK, RecordOK, ControllersAreSound

\* A list that holds one key: what register and applyEnsBind start with.
LEMMA SingleController ==
    ASSUME NEW k \in Keys
    PROVE  /\ Append(<<>>, k) = <<k>> /\ <<k>> # <<>> /\ Len(<<k>>) = 1
           /\ Range(<<k>>) = {k} /\ IsInjective(<<k>>)
BY DEF Range, IsInjective

\* A record that was never written satisfies them.
LEMMA EmptyRecordOK == RecordOK(EmptyRecord)
BY ConstantsAssumption DEF RecordOK, EmptyRecord, IsInjective

\* linkNode leaves a good record.
LEMMA LinkedRecordOK ==
    ASSUME NEW rec \in NameRecords, RecordOK(rec), NEW k \in Keys, rec.exists,
           k \notin Range(rec.controllers), Len(rec.controllers) < MaxControllers
    PROVE  RecordOK([rec EXCEPT !.controllers = Append(@, k)])
<1>1. rec.controllers \in Seq(Keys)
  BY DEF NameRecords
<1>2. /\ Append(rec.controllers, k) # <<>>
      /\ Len(Append(rec.controllers, k)) <= MaxControllers
      /\ Range(Append(rec.controllers, k)) = Range(rec.controllers) \cup {k}
      /\ IsInjective(Append(rec.controllers, k))
  BY <1>1, AppendProperties, AppendNewKey, LenProperties, ConstantsAssumption
     DEF RecordOK
<1> QED BY <1>2 DEF RecordOK, NameRecords

\* removeController leaves a good record, and the key is out of it.
LEMMA RemovedRecordOK ==
    ASSUME NEW rec \in NameRecords, RecordOK(rec), NEW k \in Keys, rec.exists,
           Len(rec.controllers) > 1, NEW i \in DOMAIN rec.controllers,
           rec.controllers[i] = k
    PROVE  /\ RecordOK(WithoutController(rec, k, i))
           /\ WithoutController(rec, k, i).exists
           /\ Range(WithoutController(rec, k, i).controllers)
                  = Range(rec.controllers) \ {k}
<1> DEFINE rest == SwapAndPop(rec.controllers, i)
<1>1. rec.controllers \in Seq(Keys) /\ IsInjective(rec.controllers)
  BY DEF NameRecords, RecordOK
<1>2. /\ rest \in Seq(Keys) /\ Len(rest) = Len(rec.controllers) - 1
      /\ DOMAIN rest = 1..Len(rec.controllers) - 1
      /\ IsInjective(rest) /\ Range(rest) = Range(rec.controllers) \ {k}
  BY <1>1, SwapAndPopType, SwapAndPopRemoves
<1>3. Len(rec.controllers) \in Nat
  BY <1>1, LenProperties
<1>4. rest # <<>> /\ rest[1] \in Range(rest) /\ Len(rest) <= MaxControllers
  BY <1>2, <1>3, ConstantsAssumption DEF Range, RecordOK
<1> HIDE DEF rest
<1>5. WithoutController(rec, k, i) =
          [rec EXCEPT !.controllers = rest,
                      !.primary = IF rec.primary = k THEN rest[1] ELSE rec.primary]
  BY DEF WithoutController, rest, NameRecords
<1>6. /\ WithoutController(rec, k, i).controllers = rest
      /\ WithoutController(rec, k, i).exists
      /\ WithoutController(rec, k, i).primary
             = IF rec.primary = k THEN rest[1] ELSE rec.primary
  BY <1>5 DEF NameRecords
<1>7. WithoutController(rec, k, i).primary \in Range(rest)
  BY <1>2, <1>4, <1>6 DEF RecordOK
<1> QED BY <1>2, <1>4, <1>6, <1>7 DEF RecordOK

\* What CountWrite does to the records.
LEMMA CountWriteRecord ==
    ASSUME TypeOK, NEW n \in Names, NEW rec \in NameRecords, NEW auth \in signed,
           CountWrite(n, rec, auth)
    PROVE  /\ names'[n] = [rec EXCEPT !.nonce = @ + 1]
           /\ \A m \in Names : m # n => names'[m] = names[m]
           /\ RecordOK(rec) => RecordOK(names'[n])
<1>1. names \in [Names -> NameRecords]
  BY DEF TypeOK
<1>2. names'[n] = [rec EXCEPT !.nonce = @ + 1]
  BY <1>1 DEF CountWrite
<1>3. /\ names'[n].exists = rec.exists /\ names'[n].controllers = rec.controllers
      /\ names'[n].primary = rec.primary
  BY <1>2 DEF NameRecords
<1> QED BY <1>1, <1>2, <1>3 DEF CountWrite, RecordOK

\* Every step leaves every record with sound controllers.
LEMMA NextRecordsOK == TypeOK /\ RecordsOK /\ [Next]_vars => RecordsOK'
<1> SUFFICES ASSUME TypeOK, RecordsOK, [Next]_vars PROVE RecordsOK'
  OBVIOUS
<1> USE DEF RecordsOK
<1>0. \A n \in Names : names[n] \in NameRecords
  BY DEF TypeOK
<1>1. ASSUME NEW n \in Names, NEW k \in Keys, NEW dek \in Deks, NEW auth \in signed,
             Register(n, k, dek, auth)
      PROVE  RecordsOK'
  <2>1. /\ names[n].controllers = <<>>
        /\ names'[n].controllers = Append(names[n].controllers, k)
        /\ names'[n].exists /\ names'[n].primary = k
        /\ \A m \in Names : m # n => names'[m] = names[m]
    BY <1>1 DEF Register, CanRegister, Available, RecordOK, TypeOK
  <2>2. RecordOK(names'[n])
    BY <2>1, SingleController, ConstantsAssumption DEF RecordOK
  <2> QED BY <2>1, <2>2
<1>2. ASSUME NEW n \in Names, NEW d \in Nodes, NEW k \in Keys, NEW i \in Invites,
             NEW auth \in signed, LinkNode(n, d, k, i, auth)
      PROVE  RecordsOK'
  <2> DEFINE rec == [names[n] EXCEPT !.controllers = Append(@, k)]
  <2>1. rec \in NameRecords
    BY <1>0, AppendProperties DEF NameRecords
  <2>2. RecordOK(rec)
    BY <1>0, <1>2, LinkedRecordOK DEF LinkNode, CanLinkNode, Accepts, IsNewController, HasRoom
  <2>3. CountWrite(n, rec, auth)
    BY <1>2 DEF LinkNode
  <2> QED BY <2>1, <2>2, <2>3, CountWriteRecord
<1>3. ASSUME NEW n \in Names, NEW k \in Keys, NEW auth \in signed,
             RemoveController(n, k, auth)
      PROVE  RecordsOK'
  <2>1. PICK i \in DOMAIN names[n].controllers :
            /\ names[n].controllers[i] = k
            /\ CountWrite(n, WithoutController(names[n], k, i), auth)
    BY <1>3 DEF RemoveController, IsIndexOf
  <2>2. names[n].exists /\ Len(names[n].controllers) > 1
    BY <1>3 DEF RemoveController, CanRemoveController, Accepts
  <2>3. WithoutController(names[n], k, i) \in NameRecords
    BY <1>0, <2>2, WithoutControllerType
  <2>4. RecordOK(WithoutController(names[n], k, i))
    BY <1>0, <2>1, <2>2, RemovedRecordOK
  <2> QED BY <2>1, <2>3, <2>4, CountWriteRecord
<1>4. ASSUME NEW n \in Names, NEW d \in Nodes, NEW auth \in signed,
             OptIn(n, d, auth) \/ OptOut(n, d, auth)
      PROVE  RecordsOK'
  <2>1. CountWrite(n, names[n], auth)
    BY <1>4 DEF OptIn, OptOut
  <2> QED BY <1>0, <2>1, CountWriteRecord
<1>5. ASSUME NEW b \in Bridges, NEW n \in Names, NEW k \in Keys, NEW dek \in Deks,
             NEW gen \in 1..MaxGeneration, ApplyEnsBind(b, n, k, dek, gen)
      PROVE  RecordsOK'
  <2>1. /\ names'[n].controllers = <<k>> /\ names'[n].exists /\ names'[n].primary = k
        /\ \A m \in Names : m # n => names'[m] = names[m]
    BY <1>5 DEF RequireLinkedEnsName, ApplyEnsBind, TypeOK
  <2>2. RecordOK(names'[n])
    BY <2>1, SingleController, ConstantsAssumption DEF RecordOK
  <2> QED BY <2>1, <2>2
<1>6. ASSUME NEW b \in Bridges, NEW n \in Names, NEW gen \in 1..MaxGeneration,
             ApplyEnsVacate(b, n, gen)
      PROVE  RecordsOK'
  <2>1. /\ names'[n] = Vacated(names[n])
        /\ \A m \in Names : m # n => names'[m] = names[m]
    BY <1>6 DEF RequireLinkedEnsName, ApplyEnsVacate, TypeOK
  <2>2. /\ names'[n].controllers = <<>> /\ ~names'[n].exists /\ names'[n].primary = None
    BY <1>0, <2>1 DEF Vacated, NameRecords
  <2>3. RecordOK(names'[n])
    BY <2>2, ConstantsAssumption DEF RecordOK, IsInjective
  <2> QED BY <2>1, <2>3
<1>7. CASE OwnerWrite \/ Environment \/ UNCHANGED vars
  <2>1. UNCHANGED names
    BY <1>7 DEF OwnerWrite, Environment, SetEnsBridge, RegisterNode, Sign, Tick, vars
  <2> QED BY <2>1 DEF RecordOK
<1> QED
  BY <1>1, <1>2, <1>3, <1>4, <1>5, <1>6, <1>7 DEF Next, UserWrite, BridgeWrite

\* A live name always has between one and MaxControllers controllers, all
\* different, and the key that nameRecord answers is one of them; a vacated name
\* has none.
THEOREM ControllersStaySound == Spec => []ControllersAreSound
<1>1. Init => RecordsOK
  BY EmptyRecordOK DEF Init, RecordsOK
<1>2. Spec => []RecordsOK
  BY <1>1, NextRecordsOK, TypeCorrect, PTL DEF Spec
<1> QED BY <1>2, RecordsOKIsInv, PTL

-----------------------------------------------------------------------------
(* The history: nonces, generations, opt-ins and invites.                  *)

\* A write that was authorized by a signature over the present nonce keeps the
\* history in step with the nonce, and adds itself to the current generation only.
LEMMA CountWriteHistory ==
    ASSUME TypeOK, NonceCountsWrites, GenerationsBeginEmpty,
           NEW n \in Names, NEW rec \in NameRecords, NEW auth \in signed,
           rec.mailboxGeneration = names[n].mailboxGeneration,
           rec.nonce = names[n].nonce, rec.exists, names[n].exists,
           auth.challenge.nonce = names[n].nonce,
           CountWrite(n, rec, auth)
    PROVE  LET g == names[n].mailboxGeneration IN
           /\ NonceCountsWrites'
           /\ GenerationsBeginEmpty'
           /\ names'[n].mailboxGeneration = g
           /\ names'[n].exists
           /\ \A m \in Names : m # n => names'[m] = names[m]
           /\ writes'[n][g] = Append(writes[n][g], auth)
           /\ \A m \in Names, h \in Generations :
                  m # n \/ h # g => writes'[m][h] = writes[m][h]
<1> DEFINE g == names[n].mailboxGeneration
           w == writes[n][g]
<1>1. /\ g \in Generations /\ names[n].nonce \in Nat
      /\ w \in Seq(Signatures) /\ auth \in Signatures
      /\ names[n].nonce = Len(w) + 1
      /\ \A m \in Names, h \in Generations : writes[m][h] \in Seq(Signatures)
  BY DEF TypeOK, NameRecords, NonceCountsWrites
<1>2. /\ names'[n] = [rec EXCEPT !.nonce = @ + 1]
      /\ \A m \in Names : m # n => names'[m] = names[m]
  BY CountWriteRecord
<1>3. /\ names'[n].mailboxGeneration = g /\ names'[n].exists
      /\ names'[n].nonce = names[n].nonce + 1
  BY <1>2 DEF NameRecords
<1>4. /\ writes'[n][g] = Append(w, auth)
      /\ \A m \in Names, h \in Generations :
             m # n \/ h # g => writes'[m][h] = writes[m][h]
  BY <1>1 DEF CountWrite, TypeOK
<1>5. /\ Len(Append(w, auth)) = Len(w) + 1
      /\ DOMAIN Append(w, auth) = 1..Len(w) + 1
      /\ \A i \in 1..Len(w) : Append(w, auth)[i] = w[i]
      /\ Append(w, auth)[Len(w) + 1] = auth
      /\ DOMAIN w = 1..Len(w) /\ Len(w) \in Nat
  BY <1>1, AppendProperties, LenProperties
<1> HIDE DEF g, w
<1>6. \A i \in DOMAIN writes'[n][g] : writes'[n][g][i].challenge.nonce = i
  <2>1. \A i \in DOMAIN w : w[i].challenge.nonce = i
    BY <1>1 DEF NonceCountsWrites, w
  <2>2. \A i \in 1..Len(w) + 1 : i \in 1..Len(w) \/ i = Len(w) + 1
    BY <1>5
  <2> QED BY <1>1, <1>4, <1>5, <2>1, <2>2
<1>7. NonceCountsWrites'
  <2>1. ASSUME NEW m \in Names, NEW h \in Generations, NEW i \in DOMAIN writes'[m][h]
        PROVE  writes'[m][h][i].challenge.nonce = i
    <3>1. CASE m = n /\ h = g
      BY <1>6, <2>1, <3>1
    <3>2. CASE ~(m = n /\ h = g)
      BY <1>4, <2>1, <3>2 DEF NonceCountsWrites
    <3> QED BY <3>1, <3>2
  <2>2. ASSUME NEW m \in Names, names'[m].exists
        PROVE  names'[m].nonce = Len(writes'[m][names'[m].mailboxGeneration]) + 1
    <3>1. CASE m = n
      BY <1>1, <1>3, <1>4, <1>5, <3>1
    <3>2. CASE m # n
      <4>1. names[m].mailboxGeneration \in Generations /\ names'[m] = names[m]
        BY <1>2, <3>2 DEF TypeOK, NameRecords
      <4>2. writes'[m][names[m].mailboxGeneration] = writes[m][names[m].mailboxGeneration]
        BY <1>4, <3>2, <4>1
      <4>3. names[m].nonce = Len(writes[m][names[m].mailboxGeneration]) + 1
        BY <2>2, <4>1 DEF NonceCountsWrites
      <4> QED BY <4>1, <4>2, <4>3
    <3> QED BY <3>1, <3>2
  <2> QED BY <2>1, <2>2 DEF NonceCountsWrites
<1>8. GenerationsBeginEmpty'
  <2>1. ASSUME NEW m \in Names, NEW h \in Generations, h > names'[m].mailboxGeneration
        PROVE  writes'[m][h] = <<>>
    <3>1. names'[m].mailboxGeneration = names[m].mailboxGeneration
      BY <1>2, <1>3 DEF g
    <3>2. h > names[m].mailboxGeneration
      BY <2>1, <3>1
    <3>3. m # n \/ h # g
      BY <1>1, <3>2 DEF g, Generations
    <3> QED BY <1>4, <3>2, <3>3 DEF GenerationsBeginEmpty
  <2>2. ASSUME NEW m \in Names, m \in OENames, ~names'[m].exists
        PROVE  names'[m].mailboxGeneration = 0
    BY <1>2, <1>3, <2>2 DEF GenerationsBeginEmpty
  <2> QED BY <2>1, <2>2 DEF GenerationsBeginEmpty
<1> QED BY <1>2, <1>3, <1>4, <1>7, <1>8 DEF g, w

\* w holds an opt-in of d that no opt-out of d follows.
Cause(w, d) ==
    \E i \in DOMAIN w :
        /\ OptsIn(w[i], d)
        /\ \A j \in i + 1..Len(w) : ~OptsOut(w[j], d)

\* One more write keeps the cause of an opt-in unless it is the opt-out of that
\* node, and is itself a cause when it opts the node in.
LEMMA AppendCause ==
    ASSUME NEW w \in Seq(Signatures), NEW auth \in Signatures, NEW d \in Nodes
    PROVE  /\ Cause(w, d) /\ ~OptsOut(auth, d) => Cause(Append(w, auth), d)
           /\ OptsIn(auth, d) => Cause(Append(w, auth), d)
<1>1. /\ Len(Append(w, auth)) = Len(w) + 1
      /\ DOMAIN Append(w, auth) = 1..Len(w) + 1
      /\ \A i \in 1..Len(w) : Append(w, auth)[i] = w[i]
      /\ Append(w, auth)[Len(w) + 1] = auth
      /\ DOMAIN w = 1..Len(w) /\ Len(w) \in Nat
  BY AppendProperties, LenProperties
<1> DEFINE v == Append(w, auth)
           N == Len(w)
<1> HIDE DEF v, N
<1>2. ASSUME Cause(w, d), ~OptsOut(auth, d)
      PROVE  Cause(v, d)
  <2>1. PICK i \in 1..N : OptsIn(w[i], d) /\ \A j \in i + 1..N : ~OptsOut(w[j], d)
    BY <1>1, <1>2 DEF Cause, N
  <2>2. i \in 1..N + 1 /\ v[i] = w[i]
    BY <1>1 DEF v, N
  <2>3. ASSUME NEW j \in i + 1..N + 1
        PROVE  ~OptsOut(v[j], d)
    <3>1. CASE j = N + 1
      BY <1>1, <1>2, <3>1 DEF v, N
    <3>2. CASE j # N + 1
      <4>1. N \in Nat /\ j \in i + 1..N /\ j \in 1..N
        BY <1>1, <3>2 DEF N
      <4> QED BY <1>1, <2>1, <4>1 DEF v, N
    <3> QED BY <3>1, <3>2
  <2> QED BY <1>1, <2>1, <2>2, <2>3 DEF Cause, v, N
<1>3. ASSUME OptsIn(auth, d)
      PROVE  Cause(v, d)
  <2>1. N + 1 \in DOMAIN v /\ v[N + 1] = auth /\ Len(v) = N + 1 /\ N \in Nat
    BY <1>1 DEF v, N
  <2>2. \A j \in (N + 1) + 1..Len(v) : FALSE
    BY <2>1
  <2> QED BY <1>3, <2>1, <2>2 DEF Cause
<1> QED BY <1>2, <1>3 DEF v

\* One more write keeps invites single if it is no linkNode or its invite is new.
LEMMA AppendInvite ==
    ASSUME TypeOK, LinkedInvitesAreUsed, InviteUsedOnce,
           NEW n \in Names, NEW g \in Generations, NEW auth \in signed,
           writes'[n][g] = Append(writes[n][g], auth),
           \A m \in Names, h \in Generations :
               m # n \/ h # g => writes'[m][h] = writes[m][h],
           inviteUsed \subseteq inviteUsed',
           auth.challenge.act = "linkNode" =>
               /\ auth.challenge.invite \notin inviteUsed
               /\ auth.challenge.invite \in inviteUsed'
    PROVE  LinkedInvitesAreUsed' /\ InviteUsedOnce'
<1> DEFINE N == Len(writes[n][g])
           IsNew(m, h, i) == m = n /\ h = g /\ i = N + 1
           IsOld(m, h, i) == i \in DOMAIN writes[m][h] /\ writes'[m][h][i] = writes[m][h][i]
<1>1. writes[n][g] \in Seq(Signatures) /\ auth \in Signatures
  BY DEF TypeOK
<1>2. /\ DOMAIN writes'[n][g] = 1..N + 1 /\ N \in Nat
      /\ \A i \in 1..N : writes'[n][g][i] = writes[n][g][i]
      /\ writes'[n][g][N + 1] = auth
      /\ DOMAIN writes[n][g] = 1..N
  BY <1>1, AppendProperties, LenProperties
<1>3. ASSUME NEW m \in Names, NEW h \in Generations, NEW i \in DOMAIN writes'[m][h]
      PROVE  IsOld(m, h, i) \/ (IsNew(m, h, i) /\ writes'[m][h][i] = auth)
  <2>1. CASE m = n /\ h = g
    <3>1. i \in 1..N + 1 /\ N \in Nat
      BY <1>2, <2>1
    <3>2. i \in 1..N \/ i = N + 1
      <4> HIDE DEF N
      <4> QED BY <3>1
    <3> QED BY <1>2, <2>1, <3>2
  <2>2. CASE m # n \/ h # g
    BY <2>2
  <2> QED BY <2>1, <2>2
<1> HIDE DEF N, IsNew, IsOld
<1>4. ASSUME NEW m \in Names, NEW h \in Generations, NEW i, IsOld(m, h, i),
             writes'[m][h][i].challenge.act = "linkNode"
      PROVE  /\ i \in DOMAIN writes[m][h]
             /\ writes[m][h][i].challenge = writes'[m][h][i].challenge
             /\ writes'[m][h][i].challenge.invite \in inviteUsed
  BY <1>4 DEF IsOld, LinkedInvitesAreUsed
<1>5. LinkedInvitesAreUsed'
  <2> SUFFICES ASSUME NEW m \in Names, NEW h \in Generations,
                      NEW i \in DOMAIN writes'[m][h],
                      writes'[m][h][i].challenge.act = "linkNode"
               PROVE  writes'[m][h][i].challenge.invite \in inviteUsed'
    BY DEF LinkedInvitesAreUsed
  <2> QED BY <1>3, <1>4
<1>6. InviteUsedOnce'
  <2> SUFFICES ASSUME NEW m \in Names, NEW p \in Names,
                      NEW h \in Generations, NEW q \in Generations,
                      NEW i \in DOMAIN writes'[m][h], NEW j \in DOMAIN writes'[p][q],
                      SameInvite(writes'[m][h][i], writes'[p][q][j])
               PROVE  m = p /\ h = q /\ i = j
    BY DEF InviteUsedOnce
  <2>1. CASE IsOld(m, h, i) /\ IsOld(p, q, j)
    <3>1. /\ i \in DOMAIN writes[m][h] /\ j \in DOMAIN writes[p][q]
          /\ writes[m][h][i] = writes'[m][h][i] /\ writes[p][q][j] = writes'[p][q][j]
      BY <2>1 DEF IsOld
    <3>2. SameInvite(writes[m][h][i], writes[p][q][j])
      BY <3>1
    <3> QED BY <3>1, <3>2 DEF InviteUsedOnce
  <2>2. CASE IsNew(m, h, i) /\ IsNew(p, q, j)
    BY <2>2 DEF IsNew
  <2>3. CASE IsOld(m, h, i) /\ writes'[p][q][j] = auth
    BY <1>4, <2>3 DEF SameInvite
  <2>4. CASE IsOld(p, q, j) /\ writes'[m][h][i] = auth
    BY <1>4, <2>4 DEF SameInvite
  <2> QED BY <1>3, <2>1, <2>2, <2>3, <2>4
<1> QED BY <1>5, <1>6

HistoryInv ==
    /\ NonceCountsWrites
    /\ GenerationsBeginEmpty
    /\ StampsAreNotAhead
    /\ OptInHasCause
    /\ LinkedInvitesAreUsed
    /\ InviteUsedOnce

\* OptInHasCause, with its inner condition named.
LEMMA OptInHasCauseIsCause ==
    OptInHasCause <=>
        \A n \in Names, d \in Nodes :
            IsOptedIn(n, d) => Cause(writes[n][names[n].mailboxGeneration], d)
BY DEF OptInHasCause, Cause

\* The rest of HistoryInv when a user's write was counted: what is left to show
\* of each operation is how it stamps the opt-in of one node d.
LEMMA CountedWriteKeepsHistory ==
    ASSUME TypeOK, HistoryInv,
           NEW n \in Names, NEW d \in Nodes, NEW rec \in NameRecords, NEW auth \in signed,
           rec.mailboxGeneration = names[n].mailboxGeneration,
           rec.nonce = names[n].nonce, rec.exists, names[n].exists,
           auth.challenge.nonce = names[n].nonce,
           CountWrite(n, rec, auth),
           now' = now, inviteUsed \subseteq inviteUsed',
           auth.challenge.act = "linkNode" =>
               /\ auth.challenge.invite \notin inviteUsed
               /\ auth.challenge.invite \in inviteUsed',
           \A m \in Names, e \in Nodes : m # n \/ e # d => optIns'[m][e] = optIns[m][e],
           \A e \in Nodes : e # d => ~OptsOut(auth, e),
           /\ optIns'[n][d].inAt <= now
           /\ optIns'[n][d].outAt <= now
           /\ optIns'[n][d].gen <= names[n].mailboxGeneration,
           \/ optIns'[n][d] = optIns[n][d] /\ ~OptsOut(auth, d)
           \/ OptsIn(auth, d)
           \/ ~(optIns'[n][d].inAt > optIns'[n][d].outAt)
    PROVE  HistoryInv'
<1> DEFINE g == names[n].mailboxGeneration
<1> USE DEF HistoryInv
<1>1. /\ NonceCountsWrites' /\ GenerationsBeginEmpty'
      /\ names'[n].mailboxGeneration = g /\ names'[n].exists
      /\ \A m \in Names : m # n => names'[m] = names[m]
      /\ writes'[n][g] = Append(writes[n][g], auth)
      /\ \A m \in Names, h \in Generations :
             m # n \/ h # g => writes'[m][h] = writes[m][h]
  BY CountWriteHistory
<1>2. \A m \in Names : names[m].mailboxGeneration \in Generations
  BY DEF TypeOK, NameRecords
<1>3. LinkedInvitesAreUsed' /\ InviteUsedOnce'
  BY <1>1, <1>2, AppendInvite
<1>4. StampsAreNotAhead'
  <2> SUFFICES ASSUME NEW m \in Names, NEW e \in Nodes
               PROVE  /\ optIns'[m][e].inAt <= now /\ optIns'[m][e].outAt <= now
                      /\ optIns'[m][e].gen <= names'[m].mailboxGeneration
    BY DEF StampsAreNotAhead
  <2>1. names'[m].mailboxGeneration = names[m].mailboxGeneration
    BY <1>1
  <2>2. CASE m = n /\ e = d
    BY <2>1, <2>2
  <2>3. CASE m # n \/ e # d
    BY <2>1, <2>3 DEF StampsAreNotAhead
  <2> QED BY <2>2, <2>3
<1>5. OptInHasCause'
  <2> SUFFICES ASSUME NEW m \in Names, NEW e \in Nodes, IsOptedIn(m, e)'
               PROVE  Cause(writes'[m][names'[m].mailboxGeneration], e)
    BY DEF OptInHasCause, Cause
  <2>1. /\ optIns'[m][e].inAt # 0 /\ optIns'[m][e].inAt > optIns'[m][e].outAt
        /\ optIns'[m][e].gen = names'[m].mailboxGeneration
        /\ names'[m].exists
    BY DEF IsOptedIn
  <2>2. CASE m # n
    <3>1. /\ names'[m] = names[m] /\ optIns'[m][e] = optIns[m][e]
          /\ writes'[m][names[m].mailboxGeneration] = writes[m][names[m].mailboxGeneration]
      BY <1>1, <1>2, <2>2
    <3>2. IsOptedIn(m, e)
      BY <2>1, <3>1 DEF IsOptedIn
    <3> QED BY <3>1, <3>2, OptInHasCauseIsCause
  <2>3. CASE m = n
    <3>1. writes[n][g] \in Seq(Signatures) /\ auth \in Signatures
      BY <1>2 DEF TypeOK
    <3>2. writes'[m][names'[m].mailboxGeneration] = Append(writes[n][g], auth)
      BY <1>1, <2>3
    <3>3. CASE OptsIn(auth, e)
      BY <3>1, <3>2, <3>3, AppendCause
    <3>4. CASE ~OptsIn(auth, e)
      <4>1. optIns'[n][e] = optIns[n][e] /\ ~OptsOut(auth, e)
        BY <2>1, <2>3, <3>4
      <4>2. IsOptedIn(n, e)
        BY <1>1, <2>1, <2>3, <4>1 DEF IsOptedIn
      <4>3. Cause(writes[n][g], e)
        BY <4>2, OptInHasCauseIsCause
      <4> QED BY <3>1, <3>2, <4>1, <4>3, AppendCause
    <3> QED BY <3>3, <3>4
  <2> QED BY <2>2, <2>3
<1> QED BY <1>1, <1>3, <1>4, <1>5

\* A name that enters a new generation takes an empty history with nonce 1 and no
\* opt-in of an earlier one with it.
LEMMA NewGenerationKeepsHistory ==
    ASSUME TypeOK, TypeOK', HistoryInv, NEW n \in Names,
           names'[n].mailboxGeneration > names[n].mailboxGeneration,
           names'[n].nonce = 1, names'[n].exists,
           \A m \in Names : m # n => names'[m] = names[m],
           UNCHANGED <<optIns, inviteUsed, now, writes>>
    PROVE  HistoryInv'
<1> USE DEF HistoryInv
<1> DEFINE g == names'[n].mailboxGeneration
<1>1. /\ g \in Generations /\ g \in Nat
      /\ \A m \in Names : names[m].mailboxGeneration \in Nat
      /\ \A m \in Names, d \in Nodes : optIns[m][d].gen \in Nat
      /\ Generations \subseteq Nat
  BY DEF TypeOK, NameRecords, OptInTimes, Generations
<1>2. writes[n][g] = <<>> /\ Len(writes[n][g]) = 0
  BY <1>1 DEF GenerationsBeginEmpty
<1>3. NonceCountsWrites'
  <2>1. names'[n].nonce = Len(writes'[n][g]) + 1
    BY <1>2
  <2>2. ASSUME NEW m \in Names, m # n, names'[m].exists
        PROVE  names'[m].nonce = Len(writes'[m][names'[m].mailboxGeneration]) + 1
    BY <2>2 DEF NonceCountsWrites
  <2>3. \A m \in Names : \A h \in Generations : \A i \in DOMAIN writes'[m][h] :
            writes'[m][h][i].challenge.nonce = i
    BY DEF NonceCountsWrites
  <2> QED BY <2>1, <2>2, <2>3 DEF NonceCountsWrites
<1>4. GenerationsBeginEmpty'
  <2>1. ASSUME NEW m \in Names, NEW h \in Generations, h > names'[m].mailboxGeneration
        PROVE  h > names[m].mailboxGeneration
    BY <1>1, <2>1
  <2> QED BY <2>1 DEF GenerationsBeginEmpty
<1>5. StampsAreNotAhead'
  <2>1. ASSUME NEW m \in Names, NEW d \in Nodes
        PROVE  optIns[m][d].gen <= names'[m].mailboxGeneration
    <3>1. CASE m = n
      BY <1>1, <3>1 DEF StampsAreNotAhead
    <3>2. CASE m # n
      BY <3>2 DEF StampsAreNotAhead
    <3> QED BY <3>1, <3>2
  <2> QED BY <2>1 DEF StampsAreNotAhead
<1>6. OptInHasCause'
  <2> SUFFICES ASSUME NEW m \in Names, NEW d \in Nodes, IsOptedIn(m, d)'
               PROVE  Cause(writes[m][names'[m].mailboxGeneration], d)
    BY DEF OptInHasCause, Cause
  <2>1. m # n
    BY <1>1 DEF IsOptedIn, StampsAreNotAhead
  <2>2. IsOptedIn(m, d)
    BY <2>1 DEF IsOptedIn
  <2> QED BY <2>1, <2>2, OptInHasCauseIsCause
<1> QED BY <1>3, <1>4, <1>5, <1>6 DEF LinkedInvitesAreUsed, InviteUsedOnce

\* Every step keeps nonces, generations, stamps and invites in step with the
\* history.
LEMMA NextHistory == TypeOK /\ HistoryInv /\ [Next]_vars => HistoryInv'
<1> SUFFICES ASSUME TypeOK, HistoryInv, [Next]_vars PROVE HistoryInv'
  OBVIOUS
<1>0. TypeOK'
  BY NextType
<1>1. /\ \A n \in Names : names[n] \in NameRecords /\ names[n].mailboxGeneration \in Nat
      /\ \A n \in Names, d \in Nodes : optIns[n][d] \in OptInTimes
      /\ now \in Nat
  BY DEF TypeOK, NameRecords, Generations
<1>2. \A n \in Names, d \in Nodes :
          /\ optIns[n][d].inAt <= now /\ optIns[n][d].outAt <= now
          /\ optIns[n][d].gen <= names[n].mailboxGeneration
  BY DEF HistoryInv, StampsAreNotAhead
<1>3. ASSUME NEW n \in Names, NEW k \in Keys, NEW dek \in Deks, NEW auth \in signed,
             Register(n, k, dek, auth)
      PROVE  HistoryInv'
  <2>1. /\ names[n].mailboxGeneration = 0
        /\ names'[n].mailboxGeneration = 1 /\ names'[n].nonce = 1 /\ names'[n].exists
        /\ \A m \in Names : m # n => names'[m] = names[m]
        /\ UNCHANGED <<optIns, inviteUsed, now, writes>>
    BY <1>3 DEF Register, CanRegister, Available, TypeOK, HistoryInv, GenerationsBeginEmpty, envVars
  <2> QED BY <1>0, <2>1, NewGenerationKeepsHistory
<1>4. ASSUME NEW n \in Names, NEW d \in Nodes, NEW k \in Keys, NEW i \in Invites,
             NEW auth \in signed, LinkNode(n, d, k, i, auth)
      PROVE  HistoryInv'
  <2> DEFINE rec == [names[n] EXCEPT !.controllers = Append(@, k)]
  <2>1. /\ rec \in NameRecords /\ rec.mailboxGeneration = names[n].mailboxGeneration
        /\ rec.nonce = names[n].nonce /\ rec.exists = names[n].exists
    <3>1. names[n] \in NameRecords /\ names[n].controllers \in Seq(Keys)
      BY <1>1 DEF NameRecords
    <3>2. Append(names[n].controllers, k) \in Seq(Keys)
      BY <3>1, AppendProperties
    <3> QED BY <3>1, <3>2 DEF NameRecords
  <2>2. auth.challenge = LinkNodeChallenge(n, d, k, i)
    BY <1>4 DEF LinkNode, CanLinkNode, Accepts, VerifyAny, Verify
  <2>3. /\ auth.challenge.nonce = names[n].nonce /\ auth.challenge.act = "linkNode"
        /\ auth.challenge.invite = i /\ auth.challenge.node = d
    BY <2>2 DEF LinkNodeChallenge
  <2>4. OptsIn(auth, d) /\ \A e \in Nodes : ~OptsOut(auth, e)
    BY <2>3 DEF OptsIn, OptsOut
  <2>5. /\ names[n].exists /\ i \notin inviteUsed /\ inviteUsed' = inviteUsed \cup {i}
        /\ CountWrite(n, rec, auth) /\ now' = now
        /\ optIns' = [optIns EXCEPT ![n][d] =
               [@ EXCEPT !.inAt = now, !.gen = names[n].mailboxGeneration]]
    BY <1>4 DEF LinkNode, CanLinkNode, Accepts, InviteUnused, envVars
  <2> HIDE DEF rec
  <2>6. /\ optIns'[n][d].inAt = now /\ optIns'[n][d].outAt = optIns[n][d].outAt
        /\ optIns'[n][d].gen = names[n].mailboxGeneration
        /\ \A m \in Names, e \in Nodes : m # n \/ e # d => optIns'[m][e] = optIns[m][e]
    BY <1>1, <2>5 DEF TypeOK, OptInTimes
  <2>7. /\ auth.challenge.invite \notin inviteUsed
        /\ auth.challenge.invite \in inviteUsed' /\ inviteUsed \subseteq inviteUsed'
    BY <2>3, <2>5
  <2>8. /\ optIns'[n][d].inAt <= now /\ optIns'[n][d].outAt <= now
        /\ optIns'[n][d].gen <= names[n].mailboxGeneration
    BY <1>1, <1>2, <2>6
  <2> QED
    BY <2>1, <2>3, <2>4, <2>5, <2>6, <2>7, <2>8, CountedWriteKeepsHistory
<1>5. ASSUME NEW n \in Names, NEW k \in Keys, NEW auth \in signed,
             RemoveController(n, k, auth)
      PROVE  HistoryInv'
  <2>1. PICK i \in DOMAIN names[n].controllers :
            CountWrite(n, WithoutController(names[n], k, i), auth)
    BY <1>5 DEF RemoveController
  <2> DEFINE rec == WithoutController(names[n], k, i)
  <2>2. /\ names[n].exists /\ Len(names[n].controllers) > 1
        /\ UNCHANGED <<optIns, inviteUsed, now>>
    BY <1>5 DEF RemoveController, CanRemoveController, Accepts, envVars
  <2>3. /\ rec \in NameRecords /\ rec.mailboxGeneration = names[n].mailboxGeneration
        /\ rec.nonce = names[n].nonce /\ rec.exists = names[n].exists
    BY <1>1, <2>2, WithoutControllerType
  <2>4. auth.challenge = RemoveControllerChallenge(n, k)
    BY <1>5 DEF RemoveController, CanRemoveController, Accepts, VerifyAny, Verify
  <2>5. auth.challenge.nonce = names[n].nonce /\ auth.challenge.act = "removeController"
    BY <2>4 DEF RemoveControllerChallenge
  <2>6. \A e \in Nodes : ~OptsOut(auth, e)
    BY <2>5 DEF OptsOut
  <2> HIDE DEF rec
  <2>7. CASE Nodes = {}
    <3> USE DEF HistoryInv
    <3>1. /\ NonceCountsWrites' /\ GenerationsBeginEmpty'
          /\ writes'[n][names[n].mailboxGeneration]
                 = Append(writes[n][names[n].mailboxGeneration], auth)
          /\ \A m \in Names, h \in Generations :
                 m # n \/ h # names[n].mailboxGeneration => writes'[m][h] = writes[m][h]
      BY <2>1, <2>2, <2>3, <2>5, CountWriteHistory DEF rec
    <3>2. LinkedInvitesAreUsed' /\ InviteUsedOnce'
      BY <1>1, <2>2, <2>5, <3>1, AppendInvite DEF NameRecords
    <3> QED BY <2>7, <3>1, <3>2 DEF StampsAreNotAhead, OptInHasCause
  <2>8. CASE Nodes # {}
    <3>1. PICK d \in Nodes : TRUE
      BY <2>8
    <3> QED
      BY <1>1, <1>2, <2>1, <2>2, <2>3, <2>5, <2>6, CountedWriteKeepsHistory DEF rec
  <2> QED BY <2>7, <2>8
<1>6. ASSUME NEW n \in Names, NEW d \in Nodes, NEW auth \in signed, OptIn(n, d, auth)
      PROVE  HistoryInv'
  <2>1. auth.challenge = OptInChallenge(n, d)
    BY <1>6 DEF OptIn, CanOptIn, Accepts, VerifyAny, Verify
  <2>2. /\ auth.challenge.nonce = names[n].nonce /\ auth.challenge.act = "optIn"
        /\ auth.challenge.node = d
    BY <2>1 DEF OptInChallenge
  <2>3. OptsIn(auth, d) /\ \A e \in Nodes : ~OptsOut(auth, e)
    BY <2>2 DEF OptsIn, OptsOut
  <2>4. /\ names[n].exists /\ inviteUsed' = inviteUsed
        /\ CountWrite(n, names[n], auth) /\ now' = now
        /\ optIns' = [optIns EXCEPT ![n][d] =
               [@ EXCEPT !.inAt = now, !.gen = names[n].mailboxGeneration]]
    BY <1>6 DEF OptIn, CanOptIn, Accepts, envVars
  <2>5. /\ optIns'[n][d].inAt = now /\ optIns'[n][d].outAt = optIns[n][d].outAt
        /\ optIns'[n][d].gen = names[n].mailboxGeneration
        /\ \A m \in Names, e \in Nodes : m # n \/ e # d => optIns'[m][e] = optIns[m][e]
    BY <1>1, <2>4 DEF TypeOK, OptInTimes
  <2> QED BY <1>1, <1>2, <2>2, <2>3, <2>4, <2>5, CountedWriteKeepsHistory
<1>7. ASSUME NEW n \in Names, NEW d \in Nodes, NEW auth \in signed, OptOut(n, d, auth)
      PROVE  HistoryInv'
  <2>1. auth.challenge = OptOutChallenge(n, d)
    BY <1>7 DEF OptOut, CanOptOut, Accepts, VerifyAny, Verify
  <2>2. /\ auth.challenge.nonce = names[n].nonce /\ auth.challenge.act = "optOut"
        /\ auth.challenge.node = d
    BY <2>1 DEF OptOutChallenge
  <2>3. \A e \in Nodes : e # d => ~OptsOut(auth, e)
    BY <2>2 DEF OptsOut
  <2>4. /\ names[n].exists /\ inviteUsed' = inviteUsed
        /\ CountWrite(n, names[n], auth) /\ now' = now
        /\ optIns' = [optIns EXCEPT ![n][d] = [@ EXCEPT !.outAt = now]]
    BY <1>7 DEF OptOut, CanOptOut, Accepts, envVars
  <2>5. /\ optIns'[n][d].inAt = optIns[n][d].inAt /\ optIns'[n][d].outAt = now
        /\ optIns'[n][d].gen = optIns[n][d].gen
        /\ \A m \in Names, e \in Nodes : m # n \/ e # d => optIns'[m][e] = optIns[m][e]
    BY <1>1, <2>4 DEF TypeOK, OptInTimes
  <2>6. ~(optIns'[n][d].inAt > optIns'[n][d].outAt)
    BY <1>1, <1>2, <2>5 DEF OptInTimes
  <2> QED BY <1>1, <1>2, <2>2, <2>3, <2>4, <2>5, <2>6, CountedWriteKeepsHistory
<1>8. ASSUME NEW b \in Bridges, NEW n \in Names, NEW k \in Keys, NEW dek \in Deks,
             NEW gen \in 1..MaxGeneration, ApplyEnsBind(b, n, k, dek, gen)
      PROVE  HistoryInv'
  <2>1. /\ names'[n].mailboxGeneration > names[n].mailboxGeneration
        /\ names'[n].nonce = 1 /\ names'[n].exists
        /\ \A m \in Names : m # n => names'[m] = names[m]
        /\ UNCHANGED <<optIns, inviteUsed, now, writes>>
    BY <1>8 DEF RequireLinkedEnsName, ApplyEnsBind, IsNewer, TypeOK, envVars
  <2> QED BY <1>0, <2>1, NewGenerationKeepsHistory
<1>9. ASSUME NEW b \in Bridges, NEW n \in Names, NEW gen \in 1..MaxGeneration,
             ApplyEnsVacate(b, n, gen)
      PROVE  HistoryInv'
  <2>1. /\ names'[n] = Vacated(names[n])
        /\ \A m \in Names : m # n => names'[m] = names[m]
        /\ UNCHANGED <<optIns, inviteUsed, now, writes>>
        /\ n \notin OENames
    BY <1>9, ConstantsAssumption DEF RequireLinkedEnsName, ApplyEnsVacate, TypeOK, envVars
  <2>2. ~names'[n].exists /\ names'[n].mailboxGeneration = names[n].mailboxGeneration
    BY <1>1, <2>1 DEF Vacated, NameRecords
  <2>3. \A m \in Names : /\ names'[m].mailboxGeneration = names[m].mailboxGeneration
                         /\ names'[m].exists => names'[m] = names[m]
                         /\ m \in OENames => names'[m] = names[m]
    BY <2>1, <2>2
  <2>4. NonceCountsWrites' /\ GenerationsBeginEmpty' /\ StampsAreNotAhead'
    BY <2>1, <2>3
    DEF HistoryInv, NonceCountsWrites, GenerationsBeginEmpty, StampsAreNotAhead
  <2>5. \A m \in Names, d \in Nodes : IsOptedIn(m, d)' => IsOptedIn(m, d)
    BY <2>1, <2>3 DEF IsOptedIn
  <2>6. OptInHasCause'
    BY <2>1, <2>3, <2>5 DEF HistoryInv, OptInHasCause
  <2> QED BY <2>1, <2>4, <2>6 DEF HistoryInv, LinkedInvitesAreUsed, InviteUsedOnce
<1>10. CASE OwnerWrite \/ Environment \/ UNCHANGED vars
  <2>1. /\ UNCHANGED <<names, optIns, inviteUsed, writes>>
        /\ now' \in Nat /\ now <= now'
    BY <1>1, <1>10
    DEF OwnerWrite, Environment, SetEnsBridge, RegisterNode, Sign, Tick, vars, envVars
  <2>2. StampsAreNotAhead'
    BY <1>1, <1>2, <2>1 DEF StampsAreNotAhead, OptInTimes
  <2> QED
    BY <2>1, <2>2 DEF HistoryInv, NonceCountsWrites, GenerationsBeginEmpty, OptInHasCause,
       IsOptedIn, LinkedInvitesAreUsed, InviteUsedOnce
<1> QED
  BY <1>3, <1>4, <1>5, <1>6, <1>7, <1>8, <1>9, <1>10 DEF Next, UserWrite, BridgeWrite

\* Nothing has happened before the first transaction.
LEMMA InitHistory == Init => HistoryInv
<1> SUFFICES ASSUME Init PROVE HistoryInv
  OBVIOUS
<1>1. \A n \in Names : names[n] = EmptyRecord
  BY DEF Init
<1>2. \A n \in Names, g \in Generations : writes[n][g] = <<>>
  BY DEF Init
<1>3. \A n \in Names, d \in Nodes : optIns[n][d] = [inAt |-> 0, outAt |-> 0, gen |-> 0]
  BY DEF Init
<1>4. now = 1
  BY DEF Init
<1> QED
  BY <1>1, <1>2, <1>3, <1>4
  DEF HistoryInv, NonceCountsWrites, GenerationsBeginEmpty, StampsAreNotAhead,
      OptInHasCause, IsOptedIn, LinkedInvitesAreUsed, InviteUsedOnce, EmptyRecord

\* The inductive invariant over the history, for every behaviour.
LEMMA HistoryIsInvariant == Spec => []HistoryInv
<1>1. TypeOK /\ HistoryInv /\ [Next]_vars => HistoryInv'
  BY NextHistory
<1> QED BY InitHistory, <1>1, TypeCorrect, PTL DEF Spec

\* A node is opted in only on the strength of a write of the current generation
\* that no opt-out followed.
THEOREM OptInIsJustified == Spec => []OptInHasCause
<1>1. HistoryInv => OptInHasCause
  BY DEF HistoryInv
<1> QED BY <1>1, HistoryIsInvariant, PTL

\* Within a generation no two writes are applied under one nonce, so none twice.
THEOREM WritesAreAppliedOnce == Spec => []OneWritePerNonce
<1>1. HistoryInv => OneWritePerNonce
  BY DEF HistoryInv, NonceCountsWrites, OneWritePerNonce
<1> QED BY <1>1, HistoryIsInvariant, PTL

\* An invite links at most one device, over all names and generations.
THEOREM InvitesLinkOnce == Spec => []InviteUsedOnce
<1>1. HistoryInv => InviteUsedOnce
  BY DEF HistoryInv
<1> QED BY <1>1, HistoryIsInvariant, PTL

-----------------------------------------------------------------------------
(* The whole invariant, and the action properties.                         *)

\* The invariant the runs check holds for every value of the constants.
THEOREM RegistryInvariant == Spec => []RegistryInv
<1>1. RecordsOK /\ HistoryInv => RegistryInv
  BY RecordsOKIsInv DEF HistoryInv, RegistryInv
<1>2. Spec => []RecordsOK
  <2>1. Init => RecordsOK
    BY EmptyRecordOK DEF Init, RecordsOK
  <2> QED BY <2>1, NextRecordsOK, TypeCorrect, PTL DEF Spec
<1> QED BY <1>1, <1>2, HistoryIsInvariant, PTL

\* Once removeController has been applied the key is not a controller any more.
THEOREM RemovalRevokes == Spec => RemovedKeyIsRevoked
<1> DEFINE Revokes ==
        \A n \in Names, k \in Keys, auth \in signed :
            RemoveController(n, k, auth) => k \notin Range(names'[n].controllers)
<1>1. TypeOK /\ RegistryInv => Revokes
  <2> SUFFICES ASSUME TypeOK, RegistryInv,
                      NEW n \in Names, NEW k \in Keys, NEW auth \in signed,
                      RemoveController(n, k, auth)
               PROVE  k \notin Range(names'[n].controllers)
    OBVIOUS
  <2>1. PICK i \in DOMAIN names[n].controllers :
            /\ names[n].controllers[i] = k
            /\ CountWrite(n, WithoutController(names[n], k, i), auth)
    BY DEF RemoveController, IsIndexOf
  <2> DEFINE rec == WithoutController(names[n], k, i)
  <2>2. /\ names[n].exists /\ Len(names[n].controllers) > 1
        /\ names[n] \in NameRecords /\ RecordOK(names[n])
    BY RecordsOKIsInv
    DEF RemoveController, CanRemoveController, Accepts, TypeOK, RegistryInv, RecordsOK
  <2>3. rec \in NameRecords /\ Range(rec.controllers) = Range(names[n].controllers) \ {k}
    BY <2>1, <2>2, WithoutControllerType, RemovedRecordOK
  <2> HIDE DEF rec
  <2>4. names'[n] = [rec EXCEPT !.nonce = @ + 1]
    BY <2>1, <2>3, CountWriteRecord DEF rec
  <2>5. names'[n].controllers = rec.controllers
    BY <2>3, <2>4 DEF NameRecords
  <2> QED BY <2>3, <2>5
<1>2. TypeOK /\ RegistryInv => [Revokes]_vars
  BY <1>1
<1> QED
  BY <1>2, TypeCorrect, RegistryInvariant, PTL DEF RemovedKeyIsRevoked

\* What a step of a user leaves of a record: its nonce only grows, its controllers may
\* change.
SameClaim(m) ==
    /\ names'[m].exists = names[m].exists
    /\ names'[m].dek = names[m].dek
    /\ names'[m].mailboxGeneration = names[m].mailboxGeneration
    /\ names'[m] = names[m] \/ names'[m].nonce > names[m].nonce

\* A name that is claimed has a DEK and a generation it did not have before.
NewClaim(m) ==
    /\ names'[m].exists /\ names'[m].dek \in Deks
    /\ names'[m].mailboxGeneration > names[m].mailboxGeneration

\* Without a message from the bridge the claim on a name stays as it is, unless
\* the name is an OE id that is being registered.
LEMMA StepWithoutBridge ==
    ASSUME TypeOK, RegistryInv,
           UserWrite \/ OwnerWrite \/ Environment \/ UNCHANGED vars, NEW n \in Names
    PROVE  \/ SameClaim(n)
           \/ NewClaim(n) /\ ~names[n].exists /\ n \in OENames
<1>0. \A m \in Names : names[m] \in NameRecords /\ names[m].nonce \in Nat
  BY DEF TypeOK, NameRecords
<1>1. ASSUME NEW m \in Names, NEW rec \in NameRecords, NEW auth \in signed,
             CountWrite(m, rec, auth), rec.exists = names[m].exists,
             rec.dek = names[m].dek, rec.nonce = names[m].nonce,
             rec.mailboxGeneration = names[m].mailboxGeneration
      PROVE  \A p \in Names : SameClaim(p)
  <2>1. /\ names'[m] = [rec EXCEPT !.nonce = @ + 1]
        /\ \A p \in Names : p # m => names'[p] = names[p]
    BY <1>1, CountWriteRecord
  <2>2. SameClaim(m)
    BY <1>1, <2>1 DEF NameRecords, SameClaim
  <2>3. ASSUME NEW p \in Names, p # m
        PROVE  SameClaim(p)
    BY <1>0, <2>1, <2>3 DEF SameClaim
  <2> QED BY <2>2, <2>3
<1>2. ASSUME NEW m \in Names, NEW k \in Keys, NEW dek \in Deks, NEW auth \in signed,
             Register(m, k, dek, auth)
      PROVE  /\ \A p \in Names : p # m => SameClaim(p)
             /\ NewClaim(m) /\ ~names[m].exists /\ m \in OENames
  <2>1. ~names[m].exists /\ m \in OENames
    BY <1>2 DEF Register, CanRegister, Available
  <2>2. names[m].mailboxGeneration = 0
    BY <2>1 DEF RegistryInv, GenerationsBeginEmpty
  <2>3. /\ names'[m].exists /\ names'[m].dek = dek /\ names'[m].mailboxGeneration = 1
        /\ \A p \in Names : p # m => names'[p] = names[p]
    BY <1>2 DEF Register, TypeOK
  <2> QED BY <1>0, <2>1, <2>2, <2>3 DEF NewClaim, SameClaim, NameRecords
<1>3. ASSUME NEW m \in Names, NEW d \in Nodes, NEW k \in Keys, NEW i \in Invites,
             NEW auth \in signed, LinkNode(m, d, k, i, auth)
      PROVE  \A p \in Names : SameClaim(p)
  <2> DEFINE rec == [names[m] EXCEPT !.controllers = Append(@, k)]
  <2>1. /\ rec \in NameRecords /\ rec.mailboxGeneration = names[m].mailboxGeneration
        /\ rec.dek = names[m].dek /\ rec.exists = names[m].exists
        /\ rec.nonce = names[m].nonce
    BY <1>0, AppendProperties DEF NameRecords
  <2>2. CountWrite(m, rec, auth)
    BY <1>3 DEF LinkNode
  <2> QED BY <1>1, <2>1, <2>2
<1>4. ASSUME NEW m \in Names, NEW k \in Keys, NEW auth \in signed,
             RemoveController(m, k, auth)
      PROVE  \A p \in Names : SameClaim(p)
  <2>1. PICK i \in DOMAIN names[m].controllers :
            CountWrite(m, WithoutController(names[m], k, i), auth)
    BY <1>4 DEF RemoveController
  <2>2. names[m] \in NameRecords /\ Len(names[m].controllers) > 1
    BY <1>0, <1>4 DEF RemoveController, CanRemoveController, Accepts
  <2>3. WithoutController(names[m], k, i).dek = names[m].dek
    BY <2>2 DEF WithoutController, NameRecords
  <2> QED BY <1>1, <2>1, <2>2, <2>3, WithoutControllerType
<1>5. ASSUME NEW m \in Names, NEW d \in Nodes, NEW auth \in signed,
             OptIn(m, d, auth) \/ OptOut(m, d, auth)
      PROVE  \A p \in Names : SameClaim(p)
  BY <1>0, <1>1, <1>5 DEF OptIn, OptOut
<1>6. CASE OwnerWrite \/ Environment \/ UNCHANGED vars
  <2>1. names' = names
    BY <1>6 DEF OwnerWrite, Environment, SetEnsBridge, RegisterNode, Sign, Tick, vars
  <2> QED BY <1>0, <2>1 DEF SameClaim
<1> QED
  BY <1>2, <1>3, <1>4, <1>5, <1>6 DEF UserWrite

\* What a step can do to the record of a name: a counted write keeps its DEK and
\* generation, everything else is a new claim or the end of one.
LEMMA StepOfRecord ==
    ASSUME TypeOK, RegistryInv, [Next]_vars, NEW n \in Names
    PROVE  \/ SameClaim(n)
           \/ NewClaim(n) /\ (n \in OENames => ~names[n].exists)
           \/ /\ names[n].exists /\ ~names'[n].exists
              /\ names'[n].mailboxGeneration = names[n].mailboxGeneration
              /\ names'[n].nonce = names[n].nonce
              /\ n \in EnsNames
<1>0. \A m \in Names : names[m] \in NameRecords
  BY DEF TypeOK
<1>1. ASSUME NEW b \in Bridges, NEW m \in Names, NEW k \in Keys, NEW dek \in Deks,
             NEW gen \in 1..MaxGeneration, ApplyEnsBind(b, m, k, dek, gen)
      PROVE  /\ \A p \in Names : p # m => SameClaim(p)
             /\ NewClaim(m) /\ m \notin OENames
  <2>1. /\ names'[m].exists /\ names'[m].dek = dek /\ names'[m].mailboxGeneration = gen
        /\ \A p \in Names : p # m => names'[p] = names[p]
        /\ gen > names[m].mailboxGeneration /\ m \notin OENames
    BY <1>1, ConstantsAssumption DEF RequireLinkedEnsName, ApplyEnsBind, IsNewer, TypeOK
  <2> QED BY <1>0, <2>1 DEF NewClaim, SameClaim, NameRecords
<1>2. ASSUME NEW b \in Bridges, NEW m \in Names, NEW gen \in 1..MaxGeneration,
             ApplyEnsVacate(b, m, gen)
      PROVE  /\ \A p \in Names : p # m => SameClaim(p)
             /\ names[m].exists /\ ~names'[m].exists /\ m \in EnsNames
             /\ names'[m].mailboxGeneration = names[m].mailboxGeneration
             /\ names'[m].nonce = names[m].nonce
  <2>1. /\ names[m].exists /\ names'[m] = Vacated(names[m]) /\ m \in EnsNames
        /\ \A p \in Names : p # m => names'[p] = names[p]
    BY <1>2 DEF RequireLinkedEnsName, ApplyEnsVacate, TypeOK
  <2> QED BY <1>0, <2>1 DEF Vacated, NameRecords, SameClaim
<1> QED
  BY <1>1, <1>2, StepWithoutBridge DEF Next, BridgeWrite

\* An OE id is permanent: its DEK and generation are those of its registration.
THEOREM OEIdsStay == Spec => OEIdsArePermanent
<1> DEFINE Stays ==
        \A n \in OENames : names[n].exists =>
            /\ names'[n].exists
            /\ names'[n].dek = names[n].dek
            /\ names'[n].mailboxGeneration = names[n].mailboxGeneration
<1>1. TypeOK /\ RegistryInv /\ [Next]_vars => Stays
  <2> SUFFICES ASSUME TypeOK, RegistryInv, [Next]_vars, NEW n \in OENames, names[n].exists
               PROVE  /\ names'[n].exists
                      /\ names'[n].dek = names[n].dek
                      /\ names'[n].mailboxGeneration = names[n].mailboxGeneration
    OBVIOUS
  <2>1. n \in Names /\ n \notin EnsNames
    BY ConstantsAssumption DEF Names
  <2> QED BY <2>1, StepOfRecord DEF SameClaim, NewClaim
<1>2. TypeOK /\ RegistryInv /\ [Next]_vars => [Stays]_vars
  BY <1>1
<1> QED
  BY <1>2, TypeCorrect, RegistryInvariant, PTL DEF Spec, OEIdsArePermanent

\* Within a generation a mailbox has one DEK, and generations only grow.
THEOREM DekIsFixed == Spec => OneDekPerGeneration
<1> DEFINE Fixed ==
        \A n \in Names :
            /\ names'[n].mailboxGeneration >= names[n].mailboxGeneration
            /\ names'[n].exists =>
                   \/ names'[n].mailboxGeneration > names[n].mailboxGeneration
                   \/ names[n].exists /\ names'[n].dek = names[n].dek
<1>1. TypeOK /\ RegistryInv /\ [Next]_vars => Fixed
  <2> SUFFICES ASSUME TypeOK, RegistryInv, [Next]_vars, NEW n \in Names
               PROVE  /\ names'[n].mailboxGeneration >= names[n].mailboxGeneration
                      /\ names'[n].exists =>
                             \/ names'[n].mailboxGeneration > names[n].mailboxGeneration
                             \/ names[n].exists /\ names'[n].dek = names[n].dek
    OBVIOUS
  <2>1. TypeOK'
    BY NextType
  <2>2. names[n].mailboxGeneration \in Nat /\ names'[n].mailboxGeneration \in Nat
    BY <2>1 DEF TypeOK, NameRecords, Generations
  <2> QED BY <2>2, StepOfRecord DEF SameClaim, NewClaim
<1>2. TypeOK /\ RegistryInv /\ [Next]_vars => [Fixed]_vars
  BY <1>1
<1> QED
  BY <1>2, TypeCorrect, RegistryInvariant, PTL DEF Spec, OneDekPerGeneration

-----------------------------------------------------------------------------
(* The directory of nodes.                                                 *)

\* A domain has one master key and a key one domain, however many are registered.
THEOREM DirectoryIsABijection == Spec => []DirectoryIsInverse
<1>1. Init => DirectoryIsInverse
  BY ConstantsAssumption DEF Init, DirectoryIsInverse
<1>2. TypeOK /\ DirectoryIsInverse /\ [Next]_vars => DirectoryIsInverse'
  <2> SUFFICES ASSUME TypeOK, DirectoryIsInverse, [Next]_vars
               PROVE  DirectoryIsInverse'
    OBVIOUS
  <2>1. ASSUME NEW dom \in Domains, NEW d \in Nodes, RegisterNode(dom, d)
        PROVE  DirectoryIsInverse'
    BY <2>1, ConstantsAssumption DEF RegisterNode, CanRegisterNode, DirectoryIsInverse, TypeOK
  <2>2. CASE UNCHANGED <<nodes, masterByDomain>>
    BY <2>2 DEF DirectoryIsInverse
  <2>3. ASSUME UserWrite PROVE UNCHANGED <<nodes, masterByDomain>>
    <3>1. \A n \in Names, k \in Keys, dek \in Deks, auth \in signed :
              Register(n, k, dek, auth) => UNCHANGED <<nodes, masterByDomain>>
      BY DEF Register
    <3>2. \A n \in Names, d \in Nodes, k \in Keys, i \in Invites, auth \in signed :
              LinkNode(n, d, k, i, auth) => UNCHANGED <<nodes, masterByDomain>>
      BY DEF LinkNode
    <3>3. \A n \in Names, k \in Keys, auth \in signed :
              RemoveController(n, k, auth) => UNCHANGED <<nodes, masterByDomain>>
      BY DEF RemoveController
    <3>4. \A n \in Names, d \in Nodes, auth \in signed :
              OptIn(n, d, auth) \/ OptOut(n, d, auth) => UNCHANGED <<nodes, masterByDomain>>
      BY DEF OptIn, OptOut
    <3> QED BY <2>3, <3>1, <3>2, <3>3, <3>4 DEF UserWrite
  <2>4. ASSUME BridgeWrite PROVE UNCHANGED <<nodes, masterByDomain>>
    BY <2>4 DEF BridgeWrite, ApplyEnsBind, ApplyEnsVacate
  <2>5. ASSUME Environment \/ UNCHANGED vars PROVE UNCHANGED <<nodes, masterByDomain>>
    BY <2>5 DEF Environment, Sign, Tick, vars
  <2>6. ASSUME NEW b \in Bridges \cup {None}, SetEnsBridge(b)
        PROVE  UNCHANGED <<nodes, masterByDomain>>
    BY <2>6 DEF SetEnsBridge
  <2> QED BY <2>1, <2>2, <2>3, <2>4, <2>5, <2>6 DEF Next, OwnerWrite
<1> QED BY <1>1, <1>2, TypeCorrect, PTL DEF Spec

-----------------------------------------------------------------------------
(* The registry implements the book that nodes and users rely on: seen as  *)
(* epochs, keys and open doors, every transaction is one step of           *)
(* MailboxBook or none.                                                    *)

\* What the book says of one name, and the book.
Doors(n) == {d \in Nodes : IsOptedIn(n, d)}

Face(n) == [epoch |-> names[n].mailboxGeneration,
            keys  |-> Range(names[n].controllers),
            doors |-> Doors(n)]

TheBook == [n \in Names |-> Face(n)]

-----------------------------------------------------------------------------
(* How a transaction shows in the book.                                    *)

\* A page depends on the record and the stamps of its name only.
LEMMA SamePage ==
    ASSUME NEW n \in Names,
           names'[n].mailboxGeneration = names[n].mailboxGeneration,
           names'[n].controllers = names[n].controllers,
           names'[n].exists = names[n].exists,
           optIns'[n] = optIns[n]
    PROVE  Face(n)' = Face(n)
BY DEF Face, Doors, IsOptedIn

\* A transaction about n turns one page.
LEMMA OnePage ==
    ASSUME NEW n \in Names,
           \A m \in Names : m # n => names'[m] = names[m] /\ optIns'[m] = optIns[m]
    PROVE  TheBook' = [TheBook EXCEPT ![n] = Face(n)']
<1>1. \A m \in Names : m # n => Face(m)' = Face(m)
  BY SamePage
<1> QED BY <1>1 DEF TheBook

\* A list of controllers has at least as many places as keys.
LEMMA KeysFitTheList ==
    ASSUME NEW cs \in Seq(Keys)
    PROVE  IsFiniteSet(Range(cs)) /\ Cardinality(Range(cs)) \in Nat
           /\ Cardinality(Range(cs)) <= Len(cs)
<1>1. DOMAIN cs = 1..Len(cs) /\ Len(cs) \in Nat
  BY LenProperties
<1>2. IsFiniteSet(DOMAIN cs) /\ Cardinality(DOMAIN cs) = Len(cs)
  BY <1>1, FS_Interval
<1>3. cs \in Surjection(DOMAIN cs, Range(cs))
  BY DEF Range, Surjection
<1>4. /\ IsFiniteSet(Range(cs))
      /\ Cardinality(Range(cs)) <= Cardinality(DOMAIN cs)
  BY <1>2, <1>3, FS_Surjection
<1> QED BY <1>2, <1>4, FS_CardinalityType

\* An opt-in opens the node's door, unless the node was opted out in this very
\* block; then the door was shut and stays shut.
LEMMA StampOpens ==
    ASSUME TypeOK, StampsAreNotAhead, NEW n \in Names, NEW d \in Nodes,
           names[n].exists, names'[n].exists,
           names'[n].mailboxGeneration = names[n].mailboxGeneration,
           optIns' = [optIns EXCEPT ![n][d] =
                         [@ EXCEPT !.inAt = now, !.gen = names[n].mailboxGeneration]]
    PROVE  IF now > optIns[n][d].outAt
           THEN Doors(n)' = Doors(n) \cup {d}
           ELSE Doors(n)' = Doors(n)
<1> DEFINE o == optIns[n][d]
           g == names[n].mailboxGeneration
<1>1. /\ o \in OptInTimes /\ now \in Nat \ {0} /\ g \in Nat
      /\ o.inAt <= now
  BY DEF TypeOK, NameRecords, Generations, StampsAreNotAhead
<1>2. /\ optIns'[n][d] = [o EXCEPT !.inAt = now, !.gen = g]
      /\ \A e \in Nodes : e # d => optIns'[n][e] = optIns[n][e]
  BY DEF TypeOK
<1>3. /\ optIns'[n][d].inAt = now /\ optIns'[n][d].outAt = o.outAt
      /\ optIns'[n][d].gen = g
  <2> DEFINE p == [o EXCEPT !.inAt = now, !.gen = g]
  <2> HIDE DEF o, g
  <2>1. p.inAt = now /\ p.outAt = o.outAt /\ p.gen = g
    BY <1>1 DEF OptInTimes
  <2> QED BY <1>2, <2>1
<1>4. IsOptedIn(n, d)' <=> now > o.outAt
  BY <1>1, <1>3 DEF IsOptedIn
<1>5. IsOptedIn(n, d) => now > o.outAt
  BY <1>1 DEF IsOptedIn, OptInTimes
<1>6. \A e \in Nodes : e # d => (IsOptedIn(n, e)' <=> IsOptedIn(n, e))
  BY <1>2 DEF IsOptedIn
<1> QED BY <1>4, <1>5, <1>6 DEF Doors

\* An opt-out shuts it, whatever the block.
LEMMA StampShuts ==
    ASSUME TypeOK, StampsAreNotAhead, NEW n \in Names, NEW d \in Nodes,
           names'[n].exists = names[n].exists,
           names'[n].mailboxGeneration = names[n].mailboxGeneration,
           optIns' = [optIns EXCEPT ![n][d] = [@ EXCEPT !.outAt = now]]
    PROVE  Doors(n)' = Doors(n) \ {d}
<1> DEFINE o == optIns[n][d]
<1>1. o \in OptInTimes /\ now \in Nat /\ o.inAt <= now
  BY DEF TypeOK, StampsAreNotAhead
<1>2. /\ optIns'[n][d] = [o EXCEPT !.outAt = now]
      /\ \A e \in Nodes : e # d => optIns'[n][e] = optIns[n][e]
  BY DEF TypeOK
<1>3. optIns'[n][d].inAt = o.inAt /\ optIns'[n][d].outAt = now
  BY <1>1, <1>2 DEF OptInTimes
<1>4. ~IsOptedIn(n, d)'
  BY <1>1, <1>3 DEF IsOptedIn, OptInTimes
<1>5. \A e \in Nodes : e # d => (IsOptedIn(n, e)' <=> IsOptedIn(n, e))
  BY <1>2 DEF IsOptedIn
<1> QED BY <1>4, <1>5 DEF Doors

\* A generation that has just begun has no open doors: every stamp is older.
LEMMA NewGenerationIsShut ==
    ASSUME TypeOK, StampsAreNotAhead, NEW n \in Names,
           names'[n].mailboxGeneration \in Nat,
           names'[n].mailboxGeneration > names[n].mailboxGeneration,
           optIns'[n] = optIns[n]
    PROVE  Doors(n)' = {}
<1>1. names[n].mailboxGeneration \in Nat
  BY DEF TypeOK, NameRecords, Generations
<1>2. \A d \in Nodes : /\ optIns[n][d].gen \in Nat
                       /\ optIns[n][d].gen <= names[n].mailboxGeneration
  BY DEF TypeOK, OptInTimes, Generations, StampsAreNotAhead
<1> QED BY <1>1, <1>2 DEF Doors, IsOptedIn

-----------------------------------------------------------------------------
(* Pages turned, as the steps of the book.                                 *)

\* The refinement mapping of the registry is TheBook.
LEMMA BookInit == Init => Book!Init
<1> SUFFICES ASSUME Init PROVE Book!Init
  OBVIOUS
<1>1. ASSUME NEW n \in Names
      PROVE  Face(n) = [epoch |-> 0, keys |-> {}, doors |-> {}]
  <2>1. names[n] = EmptyRecord
    BY DEF Init
  <2>2. names[n].controllers = <<>> /\ ~names[n].exists /\ names[n].mailboxGeneration = 0
    BY <2>1 DEF EmptyRecord
  <2>3. Doors(n) = {}
    BY <2>2 DEF Doors, IsOptedIn
  <2>4. Range(<<>>) = {}
    BY DEF Range
  <2> QED BY <2>2, <2>3, <2>4 DEF Face
<1> QED BY <1>1 DEF Book!Init, Names, Face, Doors

\* The pages are what the book holds.
LEMMA PageOf ==
    ASSUME NEW n \in Names
    PROVE  /\ TheBook[n] = Face(n)
           /\ Face(n).epoch = names[n].mailboxGeneration
           /\ Face(n).keys = Range(names[n].controllers)
           /\ Face(n).doors = Doors(n)
BY DEF TheBook, Face

\* Turning the page of n to p.
Turns(n, p) == TheBook' = [TheBook EXCEPT ![n] = p]

\* A first or a newer claim.
LEMMA TurnClaim ==
    ASSUME NEW n \in Names, NEW k \in Keys, NEW epoch \in 1..MaxGeneration,
           epoch > names[n].mailboxGeneration,
           n \in OENames => names[n].mailboxGeneration = 0,
           Turns(n, [epoch |-> epoch, keys |-> {k}, doors |-> {}])
    PROVE  Book!Next
<1>1. Book!Claim(n, k, epoch)
  BY DEF Book!Claim, Turns, TheBook, Face, Doors
<1> QED BY <1>1 DEF Book!Next, Names

\* The end of a claim.
LEMMA TurnRelease ==
    ASSUME NEW n \in EnsNames, Range(names[n].controllers) # {},
           Turns(n, [epoch |-> names[n].mailboxGeneration, keys |-> {}, doors |-> {}])
    PROVE  Book!Next
<1>1. n \in Names
  BY DEF Names
<1>2. Book!Release(n)
  BY <1>1 DEF Book!Release, Turns, TheBook, Face, Doors
<1> QED BY <1>2 DEF Book!Next

\* A new device, and what becomes of the inviting node's door.
LEMMA TurnLink ==
    ASSUME NEW n \in Names, NEW k \in Keys, NEW d \in Nodes, NEW open \in SUBSET {d},
           Range(names[n].controllers) # {}, k \notin Range(names[n].controllers),
           Cardinality(Range(names[n].controllers)) < MaxControllers,
           Turns(n, [epoch |-> names[n].mailboxGeneration,
                     keys  |-> Range(names[n].controllers) \cup {k},
                     doors |-> Doors(n) \cup open])
    PROVE  Book!Next
<1>1. TheBook' = [TheBook EXCEPT ![n].keys = @ \cup {k}, ![n].doors = @ \cup open]
  BY DEF Turns, TheBook, Face
<1>2. \E o \in SUBSET {d} :
          TheBook' = [TheBook EXCEPT ![n].keys = @ \cup {k}, ![n].doors = @ \cup o]
  BY <1>1
<1>3. TheBook[n].keys = Range(names[n].controllers)
  BY PageOf
<1>4. Book!Cardinality(Range(names[n].controllers)) = Cardinality(Range(names[n].controllers))
  BY DEF Book!Cardinality, Cardinality
<1>5. Book!LinkDevice(n, k, d)
  BY <1>2, <1>3, <1>4 DEF Book!LinkDevice, TheBook, Face, Doors
<1> QED BY <1>5 DEF Book!Next, Names

\* A device that is removed.
LEMMA TurnDrop ==
    ASSUME NEW n \in Names, NEW k \in Keys,
           k \in Range(names[n].controllers), Range(names[n].controllers) # {k},
           Turns(n, [epoch |-> names[n].mailboxGeneration,
                     keys  |-> Range(names[n].controllers) \ {k},
                     doors |-> Doors(n)])
    PROVE  Book!Next
<1>1. TheBook' = [TheBook EXCEPT ![n].keys = @ \ {k}]
  BY DEF Turns, TheBook, Face
<1>2. Book!DropDevice(n, k)
  BY <1>1 DEF Book!DropDevice, TheBook, Face, Doors
<1> QED BY <1>2 DEF Book!Next, Names

\* A door that is opened.
LEMMA TurnOpen ==
    ASSUME NEW n \in Names, NEW d \in Nodes, Range(names[n].controllers) # {},
           Turns(n, [epoch |-> names[n].mailboxGeneration,
                     keys  |-> Range(names[n].controllers),
                     doors |-> Doors(n) \cup {d}])
    PROVE  Book!Next
<1>1. TheBook' = [TheBook EXCEPT ![n].doors = @ \cup {d}]
  BY DEF Turns, TheBook, Face
<1>2. Book!OpenDoor(n, d)
  BY <1>1 DEF Book!OpenDoor, TheBook, Face, Doors
<1> QED BY <1>2 DEF Book!Next, Names

\* A door that is shut.
LEMMA TurnShut ==
    ASSUME NEW n \in Names, NEW d \in Nodes,
           Turns(n, [epoch |-> names[n].mailboxGeneration,
                     keys  |-> Range(names[n].controllers),
                     doors |-> Doors(n) \ {d}])
    PROVE  Book!Next
<1>1. TheBook' = [TheBook EXCEPT ![n].doors = @ \ {d}]
  BY DEF Turns, TheBook, Face
<1>2. Book!ShutDoor(n, d)
  BY <1>1 DEF Book!ShutDoor, TheBook, Face, Doors
<1> QED BY <1>2 DEF Book!Next, Names

-----------------------------------------------------------------------------
(* Every transaction is a step of the book.                                *)

\* One field of a record, changed by a counted write that keeps the claim.
LEMMA CountedPage ==
    ASSUME TypeOK, NEW n \in Names, NEW rec \in NameRecords, NEW auth \in signed,
           CountWrite(n, rec, auth),
           rec.mailboxGeneration = names[n].mailboxGeneration,
           rec.exists, names[n].exists
    PROVE  /\ names'[n].mailboxGeneration = names[n].mailboxGeneration
           /\ names'[n].controllers = rec.controllers
           /\ names'[n].exists
           /\ \A m \in Names : m # n => names'[m] = names[m]
<1>1. /\ names'[n] = [rec EXCEPT !.nonce = @ + 1]
      /\ \A m \in Names : m # n => names'[m] = names[m]
  BY CountWriteRecord
<1> QED BY <1>1 DEF NameRecords

\* Only the page of the name a transaction is about is turned.
LEMMA TurnsPage ==
    ASSUME NEW n \in Names, NEW e, NEW ks, NEW ds,
           \A m \in Names : m # n => names'[m] = names[m] /\ optIns'[m] = optIns[m],
           names'[n].mailboxGeneration = e, Range(names'[n].controllers) = ks,
           Doors(n)' = ds
    PROVE  Turns(n, [epoch |-> e, keys |-> ks, doors |-> ds])
<1>1. Face(n)' = [epoch |-> e, keys |-> ks, doors |-> ds]
  BY DEF Face
<1> QED BY <1>1, OnePage DEF Turns

\* What the users' writes leave of the stamps of other names.
LEMMA OtherStamps ==
    ASSUME TypeOK, NEW n \in Names, NEW d \in Nodes, NEW o,
           optIns' = [optIns EXCEPT ![n][d] = o]
    PROVE  \A m \in Names : m # n => optIns'[m] = optIns[m]
BY DEF TypeOK

\* register begins the only epoch of an OE id.
LEMMA BookRegister ==
    ASSUME TypeOK, RegistryInv, NEW n \in Names, NEW k \in Keys, NEW dek \in Deks,
           NEW auth \in signed, Register(n, k, dek, auth)
    PROVE  Book!Next
<1>1. n \in OENames /\ names[n].mailboxGeneration = 0 /\ names[n].controllers = <<>>
  BY DEF Register, CanRegister, Available, RegistryInv, GenerationsBeginEmpty, ControllersAreSound
<1>2. /\ names'[n].mailboxGeneration = 1
      /\ names'[n].controllers = Append(names[n].controllers, k)
      /\ \A m \in Names : m # n => names'[m] = names[m] /\ optIns'[m] = optIns[m]
      /\ optIns'[n] = optIns[n]
  BY DEF Register, TypeOK
<1>3. Range(names'[n].controllers) = {k}
  BY <1>1, <1>2, SingleController
<1>4. Doors(n)' = {}
  BY <1>1, <1>2, NewGenerationIsShut DEF RegistryInv
<1>5. Turns(n, [epoch |-> 1, keys |-> {k}, doors |-> {}])
  BY <1>2, <1>3, <1>4, TurnsPage
<1>6. 1 \in 1..MaxGeneration
  BY ConstantsAssumption
<1> QED BY <1>1, <1>5, <1>6, TurnClaim

\* applyEnsBind begins a newer one.
LEMMA BookBind ==
    ASSUME TypeOK, RegistryInv, NEW b \in Bridges, NEW n \in Names, NEW k \in Keys,
           NEW dek \in Deks, NEW gen \in 1..MaxGeneration, ApplyEnsBind(b, n, k, dek, gen)
    PROVE  Book!Next
<1>1. n \notin OENames /\ gen > names[n].mailboxGeneration /\ gen \in Nat
  BY ConstantsAssumption DEF ApplyEnsBind, RequireLinkedEnsName, IsNewer
<1>2. /\ names'[n].mailboxGeneration = gen /\ names'[n].controllers = <<k>>
      /\ \A m \in Names : m # n => names'[m] = names[m] /\ optIns'[m] = optIns[m]
      /\ optIns'[n] = optIns[n]
  BY DEF ApplyEnsBind, TypeOK
<1>3. Range(names'[n].controllers) = {k}
  BY <1>2, SingleController
<1>4. Doors(n)' = {}
  BY <1>1, <1>2, NewGenerationIsShut DEF RegistryInv
<1>5. Turns(n, [epoch |-> gen, keys |-> {k}, doors |-> {}])
  BY <1>2, <1>3, <1>4, TurnsPage
<1> QED BY <1>1, <1>5, TurnClaim

\* applyEnsVacate ends it, with every door shut.
LEMMA BookVacate ==
    ASSUME TypeOK, RegistryInv, NEW b \in Bridges, NEW n \in Names,
           NEW gen \in 1..MaxGeneration, ApplyEnsVacate(b, n, gen)
    PROVE  Book!Next
<1>1. /\ n \in EnsNames /\ names[n] \in NameRecords /\ RecordOK(names[n])
      /\ names[n].exists
  BY RecordsOKIsInv DEF ApplyEnsVacate, RequireLinkedEnsName, TypeOK, RegistryInv, RecordsOK
<1>2. /\ names'[n] = Vacated(names[n])
      /\ \A m \in Names : m # n => names'[m] = names[m] /\ optIns'[m] = optIns[m]
  BY DEF ApplyEnsVacate, TypeOK
<1>3. /\ names'[n].mailboxGeneration = names[n].mailboxGeneration
      /\ names'[n].controllers = <<>> /\ ~names'[n].exists
  BY <1>1, <1>2 DEF Vacated, NameRecords
<1>4. Range(names'[n].controllers) = {}
  BY <1>3 DEF Range
<1>5. Doors(n)' = {}
  BY <1>3 DEF Doors, IsOptedIn
<1>6. Turns(n, [epoch |-> names[n].mailboxGeneration, keys |-> {}, doors |-> {}])
  BY <1>2, <1>3, <1>4, <1>5, TurnsPage
<1>7. Range(names[n].controllers) # {}
  BY <1>1 DEF RecordOK
<1> QED BY <1>1, <1>6, <1>7, TurnRelease

\* linkNode adds a device; the node's door opens unless it was shut in this block.
LEMMA BookLink ==
    ASSUME TypeOK, RegistryInv, NEW n \in Names, NEW d \in Nodes, NEW k \in Keys,
           NEW i \in Invites, NEW auth \in signed, LinkNode(n, d, k, i, auth)
    PROVE  Book!Next
<1> DEFINE rec == [names[n] EXCEPT !.controllers = Append(@, k)]
           open == IF now > optIns[n][d].outAt THEN {d} ELSE {}
<1>1. /\ names[n] \in NameRecords /\ RecordOK(names[n]) /\ names[n].exists
      /\ k \notin Range(names[n].controllers)
      /\ Len(names[n].controllers) < MaxControllers
  BY RecordsOKIsInv
  DEF LinkNode, CanLinkNode, Accepts, IsNewController, HasRoom, TypeOK, RegistryInv, RecordsOK
<1>2. /\ rec \in NameRecords /\ rec.exists
      /\ rec.mailboxGeneration = names[n].mailboxGeneration
      /\ rec.controllers = Append(names[n].controllers, k)
      /\ names[n].controllers \in Seq(Keys)
  BY <1>1, AppendProperties DEF NameRecords
<1>3. CountWrite(n, rec, auth)
  BY DEF LinkNode
<1> HIDE DEF rec
<1>4. /\ names'[n].mailboxGeneration = names[n].mailboxGeneration
      /\ names'[n].controllers = Append(names[n].controllers, k)
      /\ names'[n].exists
      /\ \A m \in Names : m # n => names'[m] = names[m]
  BY <1>1, <1>2, <1>3, CountedPage
<1>5. optIns' = [optIns EXCEPT ![n][d] =
                    [@ EXCEPT !.inAt = now, !.gen = names[n].mailboxGeneration]]
  BY DEF LinkNode
<1>6. Doors(n)' = Doors(n) \cup open
  BY <1>1, <1>4, <1>5, StampOpens DEF RegistryInv
<1>7. Range(names'[n].controllers) = Range(names[n].controllers) \cup {k}
  BY <1>1, <1>2, <1>4, AppendNewKey DEF RecordOK
<1>8. \A m \in Names : m # n => optIns'[m] = optIns[m]
  BY <1>5, OtherStamps
<1>9. Turns(n, [epoch |-> names[n].mailboxGeneration,
                keys  |-> Range(names[n].controllers) \cup {k},
                doors |-> Doors(n) \cup open])
  BY <1>4, <1>6, <1>7, <1>8, TurnsPage
<1>10. Cardinality(Range(names[n].controllers)) < MaxControllers
  <2>1. Len(names[n].controllers) \in Nat
    BY <1>2, LenProperties
  <2> QED BY <1>1, <1>2, <2>1, KeysFitTheList, ConstantsAssumption
<1>11. Range(names[n].controllers) # {} /\ open \in SUBSET {d}
  BY <1>1, <1>2 DEF RecordOK, Range
<1> HIDE DEF open
<1> QED BY <1>1, <1>9, <1>10, <1>11, TurnLink

\* removeController takes out one device and leaves another.
LEMMA BookRemove ==
    ASSUME TypeOK, RegistryInv, NEW n \in Names, NEW k \in Keys, NEW auth \in signed,
           RemoveController(n, k, auth)
    PROVE  Book!Next
<1>1. PICK i \in DOMAIN names[n].controllers :
          /\ names[n].controllers[i] = k
          /\ CountWrite(n, WithoutController(names[n], k, i), auth)
  BY DEF RemoveController, IsIndexOf
<1> DEFINE rec == WithoutController(names[n], k, i)
<1>2. /\ names[n] \in NameRecords /\ RecordOK(names[n]) /\ names[n].exists
      /\ Len(names[n].controllers) > 1
  BY RecordsOKIsInv
  DEF RemoveController, CanRemoveController, Accepts, TypeOK, RegistryInv, RecordsOK
<1>3. /\ rec \in NameRecords /\ rec.exists /\ RecordOK(rec)
      /\ rec.mailboxGeneration = names[n].mailboxGeneration
      /\ Range(rec.controllers) = Range(names[n].controllers) \ {k}
  BY <1>1, <1>2, WithoutControllerType, RemovedRecordOK
<1>4. CountWrite(n, rec, auth)
  BY <1>1
<1> HIDE DEF rec
<1>5. /\ names'[n].mailboxGeneration = names[n].mailboxGeneration
      /\ names'[n].controllers = rec.controllers
      /\ names'[n].exists
      /\ \A m \in Names : m # n => names'[m] = names[m]
  BY <1>2, <1>3, <1>4, CountedPage
<1>6. optIns' = optIns
  BY DEF RemoveController
<1>7. Doors(n)' = Doors(n)
  BY <1>2, <1>5, <1>6 DEF Doors, IsOptedIn
<1>8. Turns(n, [epoch |-> names[n].mailboxGeneration,
                keys  |-> Range(names[n].controllers) \ {k},
                doors |-> Doors(n)])
  BY <1>3, <1>5, <1>6, <1>7, TurnsPage
<1>9. k \in Range(names[n].controllers) /\ Range(names[n].controllers) # {k}
  BY <1>1, <1>3 DEF RecordOK, Range
<1> QED BY <1>8, <1>9, TurnDrop

\* optIn opens a door, or leaves it shut in the block of an opt-out; optOut shuts it.
LEMMA BookOpt ==
    ASSUME TypeOK, RegistryInv, NEW n \in Names, NEW d \in Nodes, NEW auth \in signed,
           OptIn(n, d, auth) \/ OptOut(n, d, auth)
    PROVE  Book!Next \/ TheBook' = TheBook
<1>1. /\ names[n] \in NameRecords /\ RecordOK(names[n]) /\ names[n].exists
      /\ CountWrite(n, names[n], auth)
  BY RecordsOKIsInv DEF OptIn, CanOptIn, Accepts, OptOut, CanOptOut, TypeOK, RegistryInv, RecordsOK
<1>2. /\ names'[n].mailboxGeneration = names[n].mailboxGeneration
      /\ names'[n].controllers = names[n].controllers
      /\ names'[n].exists
      /\ \A m \in Names : m # n => names'[m] = names[m]
  BY <1>1, CountedPage
<1>3. \A m \in Names : m # n => optIns'[m] = optIns[m]
  BY OtherStamps DEF OptIn, OptOut
<1>4. Range(names[n].controllers) # {}
  BY <1>1 DEF RecordOK, Range, NameRecords
<1>5. StampsAreNotAhead
  BY DEF RegistryInv
<1>6. CASE OptIn(n, d, auth)
  <2>1. optIns' = [optIns EXCEPT ![n][d] =
                      [@ EXCEPT !.inAt = now, !.gen = names[n].mailboxGeneration]]
    BY <1>6 DEF OptIn
  <2>2. CASE now > optIns[n][d].outAt
    <3>1. Doors(n)' = Doors(n) \cup {d}
      BY <1>1, <1>2, <1>5, <2>1, <2>2, StampOpens
    <3>2. Turns(n, [epoch |-> names[n].mailboxGeneration,
                    keys  |-> Range(names[n].controllers),
                    doors |-> Doors(n) \cup {d}])
      BY <1>2, <1>3, <3>1, TurnsPage
    <3> QED BY <1>4, <3>2, TurnOpen
  <2>3. CASE ~(now > optIns[n][d].outAt)
    <3>1. Doors(n)' = Doors(n)
      BY <1>1, <1>2, <1>5, <2>1, <2>3, StampOpens
    <3>2. Turns(n, Face(n))
      BY <1>2, <1>3, <3>1, TurnsPage DEF Face
    <3> QED BY <3>2 DEF Turns, TheBook
  <2> QED BY <2>2, <2>3
<1>7. CASE OptOut(n, d, auth)
  <2>1. optIns' = [optIns EXCEPT ![n][d] = [@ EXCEPT !.outAt = now]]
    BY <1>7 DEF OptOut
  <2>2. Doors(n)' = Doors(n) \ {d}
    BY <1>1, <1>2, <1>5, <2>1, StampShuts
  <2>3. Turns(n, [epoch |-> names[n].mailboxGeneration,
                  keys  |-> Range(names[n].controllers),
                  doors |-> Doors(n) \ {d}])
    BY <1>2, <1>3, <2>2, TurnsPage
  <2> QED BY <2>3, TurnShut
<1> QED BY <1>6, <1>7

\* The owner of the registry and its surroundings turn no page.
LEMMA BookStutters ==
    ASSUME OwnerWrite \/ Environment \/ UNCHANGED vars
    PROVE  TheBook' = TheBook
<1>1. UNCHANGED <<names, optIns>>
  BY DEF OwnerWrite, Environment, SetEnsBridge, RegisterNode, Sign, Tick, vars, envVars
<1> QED BY <1>1 DEF TheBook, Face, Doors, IsOptedIn

\* Every step of the registry is a step of the book or leaves it as it is.
LEMMA BookStep == TypeOK /\ RegistryInv /\ [Next]_vars => Book!Next \/ TheBook' = TheBook
BY BookRegister, BookLink, BookRemove, BookOpt, BookBind, BookVacate, BookStutters
DEF Next, UserWrite, BridgeWrite

\* Seen as who controls a name and which nodes it has opened, every transaction of
\* the contract is one of the things a user or an ENS holder can mean, or nothing:
\* nodes and the mail server may reason with the book alone.
THEOREM RegistryIsABook == Spec => ImplementsBook
<1>1. TypeOK /\ RegistryInv /\ [Next]_vars => [Book!Next]_(TheBook)
  BY BookStep
<1> QED
  BY <1>1, BookInit, TypeCorrect, RegistryInvariant, PTL
  DEF Spec, ImplementsBook, Book!Spec, TheBook, Face, Doors
=============================================================================
