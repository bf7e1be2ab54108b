--------------------------- MODULE OpenPgpProofs ---------------------------
(***************************************************************************)
(* The key a tab decrypts with was published under its DEK, and none is    *)
(* published that the registry did not allow, for any number of tabs, keys *)
(* and holders.                                                            *)
(***************************************************************************)
EXTENDS OpenPgp, TLAPS

-----------------------------------------------------------------------------
(* Type correctness.                                                       *)

\* The reloads of a page that has just been loaded.
LEMMA FirstReloadType == FirstReload \in [Calls -> Reloads]
<1>1. 0 \in KeyNumbers
  BY OpenPgpAssumption DEF KeyNumbers
<1>2. NoReload \in Reloads
  BY <1>1 DEF NoReload, Reloads, Steps
<1>3. [NoReload EXCEPT !.step = "start"] \in Reloads
  BY <1>2 DEF Reloads, Steps
<1> QED BY <1>2, <1>3 DEF FirstReload

\* Changing one reload of a tab leaves a table of reloads.
LEMMA OneReload ==
    ASSUME NEW table \in [Tabs -> [Calls -> Reloads]], NEW t \in Tabs, NEW i \in Calls,
           NEW r \in Reloads
    PROVE  [table EXCEPT ![t][i] = r] \in [Tabs -> [Calls -> Reloads]]
OBVIOUS

\* A reload that goes on to another step forgets what it knew.
LEMMA GotoType ==
    ASSUME TypeOK, NEW t \in Tabs, NEW i \in Calls, NEW step \in Steps, Goto(t, i, step)
    PROVE  reloads' \in [Tabs -> [Calls -> Reloads]]
<1>1. 0 \in KeyNumbers
  BY OpenPgpAssumption DEF KeyNumbers
<1>2. [NoReload EXCEPT !.step = step] \in Reloads
  BY <1>1 DEF NoReload, Reloads
<1> QED BY <1>2, OneReload DEF Goto, TypeOK

\* Marking the publications that wait changes no types.
LEMMA SeenByType ==
    ASSUME TypeOK, NEW yes \in BOOLEAN
    PROVE  SeenBy(yes) \in [Tabs -> [Calls -> Reloads]]
<1>1. ASSUME NEW r \in Reloads, NEW seen \in BOOLEAN
      PROVE  [r EXCEPT !.seen = seen] \in Reloads
  BY DEF Reloads
<1>2. ASSUME NEW t \in Tabs, NEW i \in Calls
      PROVE  [reloads[t][i] EXCEPT !.seen = @ \/ (yes /\ reloads[t][i].step \in {"asking", "storing"})]
                 \in Reloads
  <2>1. reloads[t][i] \in Reloads
    BY DEF TypeOK
  <2>2. (reloads[t][i].seen \/ (yes /\ reloads[t][i].step \in {"asking", "storing"})) \in BOOLEAN
    BY Zenon
  <2> QED BY <1>1, <2>1, <2>2
<1> QED BY <1>2 DEF SeenBy

\* A fresh mailbox.
LEMMA InitType == Init => TypeOK
<1> SUFFICES ASSUME Init PROVE TypeOK
  OBVIOUS
<1>1. /\ 0 \in KeyNumbers /\ 0 \in 0..MaxGeneration /\ 1 \in 1..MaxGeneration /\ 0 \in 0..MaxToggles
  BY OpenPgpAssumption DEF KeyNumbers
<1>2. NoKey \in Records
  BY <1>1 DEF NoKey, Records
<1>3. reloads \in [Tabs -> [Calls -> Reloads]]
  BY FirstReloadType DEF Init
<1> QED BY <1>1, <1>2, <1>3 DEF Init, TypeOK

\* A reload keeps the types, at each of its steps.
LEMMA ReloadType ==
    ASSUME TypeOK, NEW t \in Tabs, NEW i \in Calls, Reload(t, i)
    PROVE  TypeOK'
<1>0. /\ reloads[t][i] \in Reloads
      /\ ref \in [Tabs -> KeyNumbers] /\ switch \in [Tabs -> BOOLEAN] /\ failed \in [Tabs -> BOOLEAN]
  BY DEF TypeOK
<1>1. CASE UseStored(t, i)
  <2>1. reloads' \in [Tabs -> [Calls -> Reloads]]
    BY <1>1, GotoType DEF UseStored, Steps
  <2>2. PICK record \in Lookup \ {NoKey} :
            ref' = IF Unwraps(record, dek[t]) THEN [ref EXCEPT ![t] = record.key] ELSE ref
    BY <1>1 DEF UseStored
  <2>3. record.key \in KeyNumbers
    BY <2>2 DEF Lookup, TypeOK, Records
  <2>4. ref' \in [Tabs -> KeyNumbers]
    BY <1>0, <2>2, <2>3
  <2> QED BY <1>1, <2>1, <2>4 DEF UseStored, TypeOK, registry, keys, opt
<1>2. CASE Generate(t, i)
  <2>1. made' \in KeyNumbers
    BY <1>2, OpenPgpAssumption DEF Generate, NewIdentity, TypeOK, KeyNumbers
  <2> DEFINE r == [reloads[t][i] EXCEPT !.step = "asking", !.key = made', !.seen = open]
  <2>2. r \in Reloads
    BY <1>0, <2>1 DEF Reloads, Steps, TypeOK
  <2>3. reloads' = [reloads EXCEPT ![t][i] = r]
    BY <1>2 DEF Generate
  <2> HIDE DEF r
  <2>4. reloads' \in [Tabs -> [Calls -> Reloads]]
    BY <2>2, <2>3, OneReload DEF TypeOK
  <2> QED BY <1>2, <2>1, <2>4 DEF Generate, TypeOK, registry, session, opt
<1>3. CASE AskOptedIn(t, i) \/ AskSwitch(t, i)
  <2>1. PICK yes \in BOOLEAN, step \in Steps :
            reloads' = [reloads EXCEPT ![t][i].step = step, ![t][i].answer = yes]
    BY <1>3 DEF AskOptedIn, AskSwitch, IsOptedIn, TypeOK, Steps
  <2> DEFINE r == [reloads[t][i] EXCEPT !.step = step, !.answer = yes]
  <2>2. r \in Reloads
    BY <1>0 DEF Reloads
  <2>3. reloads' = [reloads EXCEPT ![t][i] = r]
    BY <2>1
  <2> HIDE DEF r
  <2>4. reloads' \in [Tabs -> [Calls -> Reloads]]
    BY <2>2, <2>3, OneReload DEF TypeOK
  <2> QED BY <1>3, <2>4 DEF AskOptedIn, AskSwitch, TypeOK, registry, keys, session, opt
<1>4. CASE Publish(t, i)
  <2> DEFINE record == Wrapped(reloads[t][i].key, dek[t])
  <2>1. reloads' \in [Tabs -> [Calls -> Reloads]]
    BY <1>4, GotoType DEF Publish, Steps
  <2>2. reloads[t][i].key \in KeyNumbers /\ dek[t] \in 0..MaxGeneration
    BY <1>0, OpenPgpAssumption DEF Reloads, TypeOK
  <2>3. record \in Records
    BY <2>2 DEF Wrapped, Records
  <2>4. stored' = record /\ published' = published \cup {record}
    BY <1>4 DEF Publish, StoreKey
  <2>5. ref' \in [Tabs -> KeyNumbers]
    BY <1>0, <1>4, <2>2 DEF Publish
  <2> HIDE DEF record
  <2> QED BY <1>4, <2>1, <2>3, <2>4, <2>5 DEF Publish, TypeOK, registry, opt
<1>5. CASE PublishFails(t, i) \/ NoNeed(t, i)
  <2>1. reloads' \in [Tabs -> [Calls -> Reloads]]
    BY <1>5, GotoType DEF PublishFails, NoNeed, Steps
  <2> QED BY <1>5, <2>1 DEF PublishFails, NoNeed, TypeOK, registry, keys, session, opt
<1>6. CASE UpdateSession(t, i)
  <2>1. reloads' \in [Tabs -> [Calls -> Reloads]]
    BY <1>6, GotoType DEF UpdateSession, Steps
  <2>2. switch' \in [Tabs -> BOOLEAN] /\ failed' \in [Tabs -> BOOLEAN]
    BY <1>0, <1>6 DEF UpdateSession, Reloads
  <2> QED BY <1>6, <2>1, <2>2 DEF UpdateSession, TypeOK, registry, keys, opt
<1>7. CASE ReloadFails(t, i)
  <2>1. reloads' \in [Tabs -> [Calls -> Reloads]]
    BY <1>7, GotoType DEF ReloadFails, Steps
  <2>2. failed' \in [Tabs -> BOOLEAN]
    BY <1>0, <1>7 DEF ReloadFails
  <2> QED BY <1>7, <2>1, <2>2 DEF ReloadFails, TypeOK, registry, keys, opt
<1> QED BY <1>1, <1>2, <1>3, <1>4, <1>5, <1>6, <1>7 DEF Reload

\* A page that is loaded afresh.
LEMMA FreshPageType ==
    ASSUME TypeOK, NEW t \in Tabs, FreshPage(t)
    PROVE  /\ ref' \in [Tabs -> KeyNumbers] /\ failed' \in [Tabs -> BOOLEAN]
           /\ opting' \in [Tabs -> {"none", "in", "out"}]
           /\ reloads' \in [Tabs -> [Calls -> Reloads]]
<1>1. 0 \in KeyNumbers /\ failed \in [Tabs -> BOOLEAN]
  BY OpenPgpAssumption DEF KeyNumbers, TypeOK
<1> QED BY <1>1, FirstReloadType DEF FreshPage, TypeOK

\* What the page makes of the relayer's answer.
LEMMA OptType ==
    ASSUME TypeOK, NEW t \in Tabs, Opt(t)
    PROVE  TypeOK'
<1>1. /\ switch \in [Tabs -> BOOLEAN] /\ failed \in [Tabs -> BOOLEAN]
      /\ pending \in [Tabs -> BOOLEAN] /\ opting[t] \in {"none", "in", "out"}
  BY DEF TypeOK
<1>2. open' \in BOOLEAN
  <2>1. (opting[t] = "in") \in BOOLEAN
    BY Zenon
  <2> QED BY <2>1 DEF Opt, OptAnswered, TypeOK
<1>3. opting' \in [Tabs -> {"none", "in", "out"}]
  BY DEF Opt, OptAnswered, TypeOK
<1>4. /\ switch' \in [Tabs -> BOOLEAN] /\ failed' \in [Tabs -> BOOLEAN]
      /\ pending' \in [Tabs -> BOOLEAN] /\ reloads' \in [Tabs -> [Calls -> Reloads]]
  <2>1. SeenBy(open') \in [Tabs -> [Calls -> Reloads]]
    BY <1>2, SeenByType
  <2>2. CASE OptThrows(t)
    BY <1>1, <2>1, <2>2 DEF OptThrows
  <2>3. CASE Believe(t)
    <3>1. PICK i \in Calls : reloads' = [SeenBy(open') EXCEPT ![t][i].step = "start"]
      BY <2>3 DEF Believe
    <3> DEFINE table == SeenBy(open')
               r == [table[t][i] EXCEPT !.step = "start"]
    <3>2. r \in Reloads
      BY <2>1 DEF Reloads, Steps
    <3>3. reloads' = [table EXCEPT ![t][i] = r]
      BY <3>1
    <3> HIDE DEF r, table
    <3>4. reloads' \in [Tabs -> [Calls -> Reloads]]
      BY <2>1, <3>2, <3>3, OneReload DEF table
    <3>5. (opting[t] = "in") \in BOOLEAN /\ (pending[t] /\ opting[t] = "out") \in BOOLEAN
      BY Zenon
    <3>6. switch' \in [Tabs -> BOOLEAN] /\ pending' \in [Tabs -> BOOLEAN]
      BY <1>1, <2>3, <3>5 DEF Believe
    <3>7. failed' \in [Tabs -> BOOLEAN]
      BY <1>1, <2>3 DEF Believe
    <3> QED BY <3>4, <3>6, <3>7
  <2> QED BY <2>2, <2>3 DEF Opt
<1> QED BY <1>2, <1>3, <1>4 DEF Opt, OptAnswered, TypeOK, keys

\* Every step keeps the types.
LEMMA NextType == TypeOK /\ [Next]_vars => TypeOK'
<1> SUFFICES ASSUME TypeOK, [Next]_vars PROVE TypeOK'
  OBVIOUS
<1>1. ASSUME NEW t \in Tabs, Prepare(t)
      PROVE  TypeOK'
  <2>1. FreshPage(t) /\ pending' = [pending EXCEPT ![t] = TRUE]
    BY <1>1 DEF Prepare
  <2>2. pending' \in [Tabs -> BOOLEAN]
    BY <2>1 DEF TypeOK
  <2> QED BY <1>1, <2>1, <2>2, FreshPageType DEF Prepare, TypeOK, registry, keys
<1>2. ASSUME NEW t \in Tabs, OptToggle(t)
      PROVE  TypeOK'
  <2>1. toggles' \in 0..MaxToggles
    BY <1>2, OpenPgpAssumption DEF OptToggle, TypeOK
  <2>2. opting' \in [Tabs -> {"none", "in", "out"}]
    BY <1>2 DEF OptToggle, TypeOK
  <2> QED BY <1>2, <2>1, <2>2 DEF OptToggle, TypeOK, registry, keys, session
<1>3. ASSUME NEW t \in Tabs, NewHolder(t)
      PROVE  TypeOK'
  <2>1. generation' \in 1..MaxGeneration
    BY <1>3, OpenPgpAssumption DEF NewHolder, TypeOK
  <2>2. dek' \in [Tabs -> 1..MaxGeneration]
    BY <1>3, <2>1 DEF NewHolder, TypeOK
  <2>3. switch' \in [Tabs -> BOOLEAN] /\ pending' \in [Tabs -> BOOLEAN] /\ open' = FALSE
    BY <1>3 DEF NewHolder, TypeOK
  <2>4. FreshPage(t)
    BY <1>3 DEF NewHolder
  <2> QED BY <1>3, <2>1, <2>2, <2>3, <2>4, FreshPageType DEF NewHolder, TypeOK, keys
<1>4. CASE UNCHANGED vars
  BY <1>4 DEF vars, registry, keys, session, opt, TypeOK
<1> QED
  BY <1>1, <1>2, <1>3, <1>4, ReloadType, OptType DEF Next

\* Whatever the node and the relayer answer, and whoever holds the name: keys, switches
\* and reloads keep their types.
THEOREM TypeCorrect == Spec => []TypeOK
BY InitType, NextType, PTL DEF Spec

-----------------------------------------------------------------------------
(* The key in memory.                                                      *)

\* The record of the mailbox was published, too.
HeldInv ==
    /\ stored # NoKey => stored \in published
    /\ HeldKeyWasPublished

\* Every step keeps it so: a tab takes a key from the record, or publishes it, and forgets
\* it when its DEK changes.
LEMMA StepKeepsHeld == TypeOK /\ HeldInv /\ [Next]_vars => HeldInv'
<1> SUFFICES ASSUME TypeOK, HeldInv, [Next]_vars PROVE HeldInv'
  OBVIOUS
<1>1. ASSUME NEW t \in Tabs, NEW i \in Calls, UseStored(t, i)
      PROVE  HeldInv'
  <2>1. PICK record \in Lookup \ {NoKey} :
            ref' = IF Unwraps(record, dek[t]) THEN [ref EXCEPT ![t] = record.key] ELSE ref
    BY <1>1 DEF UseStored
  <2>2. record = stored /\ stored \in published /\ record \in Records
    BY <2>1 DEF Lookup, HeldInv, TypeOK
  <2>3. UNCHANGED <<stored, published, dek>>
    BY <1>1 DEF UseStored, keys
  <2>4. record.dek = dek[t] => record = [key |-> record.key, dek |-> dek[t]]
    BY <2>2 DEF Records
  <2>5. CASE ~Unwraps(record, dek[t])
    BY <2>1, <2>3, <2>5 DEF HeldInv, HeldKeyWasPublished
  <2>6. CASE Unwraps(record, dek[t])
    <3>1. \A u \in Tabs : ref'[u] = IF u = t THEN record.key ELSE ref[u]
      BY <2>1, <2>6 DEF TypeOK
    <3> QED BY <2>2, <2>3, <2>4, <2>6, <3>1 DEF HeldInv, HeldKeyWasPublished, Unwraps
  <2> QED BY <2>5, <2>6
<1>2. ASSUME NEW t \in Tabs, NEW i \in Calls, Publish(t, i)
      PROVE  HeldInv'
  <2> DEFINE record == Wrapped(reloads[t][i].key, dek[t])
  <2>1. stored' = record /\ published' = published \cup {record} /\ dek' = dek
    BY <1>2 DEF Publish, StoreKey
  <2>2. \A u \in Tabs : ref'[u] = ref[u] \/ (u = t /\ ref'[u] = reloads[t][i].key)
    <3>1. CASE ref' = [ref EXCEPT ![t] = reloads[t][i].key]
      BY <3>1 DEF TypeOK
    <3>2. CASE ref' = ref
      BY <3>2
    <3> QED BY <1>2, <3>1, <3>2 DEF Publish
  <2> QED BY <2>1, <2>2 DEF HeldInv, HeldKeyWasPublished, Wrapped
<1>3. ASSUME NEW t \in Tabs, Prepare(t) \/ NewHolder(t)
      PROVE  HeldInv'
  <2>1. UNCHANGED <<stored, published>> /\ ref' = [ref EXCEPT ![t] = 0]
    BY <1>3 DEF Prepare, NewHolder, FreshPage, keys
  <2>2. \A u \in Tabs : dek'[u] = dek[u] \/ u = t
    BY <1>3 DEF Prepare, NewHolder, TypeOK
  <2>3. \A u \in Tabs : ref'[u] = IF u = t THEN 0 ELSE ref[u]
    BY <2>1 DEF TypeOK
  <2> QED BY <2>1, <2>2, <2>3 DEF HeldInv, HeldKeyWasPublished
<1>4. CASE UNCHANGED <<stored, published, ref, dek>>
  BY <1>4 DEF HeldInv, HeldKeyWasPublished
<1>5. ASSUME NEW t \in Tabs, NEW i \in Calls,
             \/ Generate(t, i) \/ AskOptedIn(t, i) \/ PublishFails(t, i) \/ NoNeed(t, i)
             \/ AskSwitch(t, i) \/ UpdateSession(t, i) \/ ReloadFails(t, i)
      PROVE  UNCHANGED <<stored, published, ref, dek>>
  BY <1>5
  DEF Generate, AskOptedIn, PublishFails, NoNeed, AskSwitch, UpdateSession, ReloadFails,
      keys, session
<1>6. ASSUME NEW t \in Tabs, OptToggle(t) \/ Opt(t)
      PROVE  UNCHANGED <<stored, published, ref, dek>>
  BY <1>6 DEF OptToggle, Opt, OptAnswered, keys, session
<1>7. CASE UNCHANGED vars
  BY <1>4, <1>7 DEF vars, keys, session
<1> QED
  BY <1>1, <1>2, <1>3, <1>4, <1>5, <1>6, <1>7 DEF Next, Reload

\* What a tab decrypts with is a key the directory has shown, under the DEK of the tab.
THEOREM HeldKeysAreShown == Spec => []HeldKeyWasPublished
<1>1. Init => HeldInv
  BY DEF Init, HeldInv, HeldKeyWasPublished
<1>2. HeldInv => HeldKeyWasPublished
  BY DEF HeldInv
<1> QED BY <1>1, <1>2, StepKeepsHeld, TypeCorrect, PTL DEF Spec

-----------------------------------------------------------------------------
(* Publishing needs a yes.                                                 *)

\* A publication that has its yes, or that would get one now, has seen the mailbox opted
\* in since the node had the request.
YesWasSeen ==
    \A t \in Tabs, i \in Calls :
        /\ At(t, i, "asking") /\ open => reloads[t][i].seen
        /\ At(t, i, "storing") /\ reloads[t][i].answer => reloads[t][i].seen


\* What a step makes of one reload, as far as it matters here.
HasCause(r) ==
    /\ r.step = "asking" /\ open => r.seen
    /\ r.step = "storing" /\ r.answer => r.seen

\* It is enough to look at the reload that takes the step.
LEMMA OneCause ==
    ASSUME TypeOK, YesWasSeen, open' = open, NEW t \in Tabs, NEW i \in Calls, NEW r,
           reloads' = [reloads EXCEPT ![t][i] = r], HasCause(r)
    PROVE  YesWasSeen'
<1>1. \A u \in Tabs, j \in Calls :
          reloads'[u][j] = IF u = t /\ j = i THEN r ELSE reloads[u][j]
  BY DEF TypeOK
<1> QED BY <1>1 DEF YesWasSeen, HasCause, At

\* Every step of a reload keeps it so.
LEMMA ReloadKeepsSeen ==
    ASSUME TypeOK, YesWasSeen, NEW t \in Tabs, NEW i \in Calls, Reload(t, i)
    PROVE  YesWasSeen'
<1>0. reloads[t][i] \in Reloads
  BY DEF TypeOK
<1>1. ASSUME NEW step \in {"start", "list", "none"}, Goto(t, i, step), open' = open
      PROVE  YesWasSeen'
  <2> DEFINE r == [NoReload EXCEPT !.step = step]
  <2>1. HasCause(r)
    BY DEF HasCause, NoReload
  <2>2. reloads' = [reloads EXCEPT ![t][i] = r]
    BY <1>1 DEF Goto
  <2> HIDE DEF r
  <2> QED BY <1>1, <2>1, <2>2, OneCause
<1>2. CASE Generate(t, i)
  <2> DEFINE r == [reloads[t][i] EXCEPT !.step = "asking", !.key = made', !.seen = open]
  <2>1. HasCause(r)
    BY <1>0 DEF HasCause, Reloads
  <2>2. reloads' = [reloads EXCEPT ![t][i] = r] /\ open' = open
    BY <1>2 DEF Generate, registry
  <2> HIDE DEF r
  <2> QED BY <2>1, <2>2, OneCause
<1>3. CASE AskOptedIn(t, i)
  <2>1. PICK yes \in IsOptedIn :
            reloads' = [reloads EXCEPT ![t][i].step = "storing", ![t][i].answer = yes]
    BY <1>3 DEF AskOptedIn
  <2> DEFINE r == [reloads[t][i] EXCEPT !.step = "storing", !.answer = yes]
  <2>2. yes => open
    BY <2>1 DEF IsOptedIn
  <2>3. open => reloads[t][i].seen
    BY <1>3 DEF AskOptedIn, YesWasSeen
  <2>4. r.step = "storing" /\ r.answer = yes /\ r.seen = reloads[t][i].seen
    BY <1>0 DEF Reloads
  <2>5. reloads' = [reloads EXCEPT ![t][i] = r]
    BY <2>1, Zenon
  <2>6. open' = open
    BY <1>3 DEF AskOptedIn, registry
  <2> HIDE DEF r
  <2>7. HasCause(r)
    BY <2>2, <2>3, <2>4 DEF HasCause
  <2> QED BY <2>5, <2>6, <2>7, OneCause
<1>4. CASE AskSwitch(t, i)
  <2> DEFINE r == [reloads[t][i] EXCEPT !.step = "update", !.answer = open]
  <2>1. HasCause(r)
    BY <1>0 DEF HasCause, Reloads
  <2>2. reloads' = [reloads EXCEPT ![t][i] = r] /\ open' = open
    BY <1>4 DEF AskSwitch, registry
  <2> HIDE DEF r
  <2> QED BY <2>1, <2>2, OneCause
<1>5. CASE UseStored(t, i) \/ Publish(t, i) \/ PublishFails(t, i) \/ NoNeed(t, i)
  BY <1>1, <1>5 DEF UseStored, Publish, PublishFails, NoNeed, registry
<1>6. CASE UpdateSession(t, i) \/ ReloadFails(t, i)
  BY <1>1, <1>6 DEF UpdateSession, ReloadFails, registry
<1> QED BY <1>2, <1>3, <1>4, <1>5, <1>6 DEF Reload

\* An opt-in that the registry applies is seen by the publications that wait.
LEMMA OptKeepsSeen ==
    ASSUME TypeOK, YesWasSeen, NEW t \in Tabs, Opt(t)
    PROVE  YesWasSeen'
<1> DEFINE table == SeenBy(open')
<1>1. ASSUME NEW u \in Tabs, NEW j \in Calls
      PROVE  /\ table[u][j].step = reloads[u][j].step
             /\ table[u][j].answer = reloads[u][j].answer
             /\ table[u][j].seen = (reloads[u][j].seen
                    \/ (open' /\ reloads[u][j].step \in {"asking", "storing"}))
  <2>1. reloads[u][j] \in Reloads
    BY DEF TypeOK
  <2> DEFINE seen == reloads[u][j].seen
                     \/ (open' /\ reloads[u][j].step \in {"asking", "storing"})
  <2>2. table[u][j] = [reloads[u][j] EXCEPT !.seen = seen]
    BY Zenon DEF SeenBy
  <2> HIDE DEF seen, table
  <2>3. /\ table[u][j].step = reloads[u][j].step
        /\ table[u][j].answer = reloads[u][j].answer
        /\ table[u][j].seen = seen
    BY <2>1, <2>2 DEF Reloads
  <2> QED BY <2>3, Zenon DEF seen
<1>2. ASSUME NEW u \in Tabs, NEW j \in Calls
      PROVE  \/ reloads'[u][j] = table[u][j]
             \/ reloads'[u][j].step = "start"
  <2>1. CASE OptThrows(t)
    BY <2>1 DEF OptThrows
  <2>2. CASE Believe(t)
    <3>1. PICK i \in Calls : reloads' = [table EXCEPT ![t][i].step = "start"]
      BY <2>2 DEF Believe
    <3>2. table \in [Tabs -> [Calls -> Reloads]]
      BY SeenByType DEF Opt, OptAnswered, TypeOK
    <3> HIDE DEF table
    <3> QED BY <3>1, <3>2 DEF Reloads
  <2> QED BY <2>1, <2>2 DEF Opt
<1> HIDE DEF table
<1>3. ASSUME NEW u \in Tabs, NEW j \in Calls,
             \/ reloads'[u][j].step = "asking" /\ open'
             \/ reloads'[u][j].step = "storing" /\ reloads'[u][j].answer
      PROVE  reloads'[u][j].seen
  <2>1. reloads'[u][j] = table[u][j]
    BY <1>2, <1>3
  <2>2. /\ reloads'[u][j].step = reloads[u][j].step
        /\ reloads'[u][j].answer = reloads[u][j].answer
    BY <1>1, <2>1, Zenon
  <2>3. \/ reloads[u][j].step = "asking" /\ open'
        \/ reloads[u][j].step = "storing" /\ reloads[u][j].answer
    BY <1>3, <2>2, Zenon
  <2>4. reloads[u][j].seen \/ (open' /\ reloads[u][j].step \in {"asking", "storing"})
    BY <2>3, Zenon DEF YesWasSeen, At
  <2> QED BY <1>1, <2>1, <2>4, Zenon
<1> QED BY <1>3, Zenon DEF YesWasSeen, At

\* Every step keeps it so.
LEMMA StepKeepsSeen == TypeOK /\ YesWasSeen /\ [Next]_vars => YesWasSeen'
<1> SUFFICES ASSUME TypeOK, YesWasSeen, [Next]_vars PROVE YesWasSeen'
  OBVIOUS
<1>1. ASSUME NEW t \in Tabs, Prepare(t) \/ NewHolder(t)
      PROVE  YesWasSeen'
  <2>1. open' => open
    BY <1>1 DEF Prepare, NewHolder, registry
  <2>2. reloads' = [reloads EXCEPT ![t] = FirstReload]
    BY <1>1 DEF Prepare, NewHolder, FreshPage
  <2>3. \A i \in Calls : FirstReload[i].step \in {"start", "none"}
    BY DEF FirstReload, NoReload
  <2>4. \A u \in Tabs, i \in Calls :
            reloads'[u][i] = reloads[u][i] \/ reloads'[u][i].step \in {"start", "none"}
    BY <2>2, <2>3 DEF TypeOK
  <2> QED BY <2>1, <2>4 DEF YesWasSeen, At
<1>2. ASSUME NEW t \in Tabs, OptToggle(t)
      PROVE  YesWasSeen'
  BY <1>2 DEF OptToggle, YesWasSeen, At, registry
<1>3. CASE UNCHANGED vars
  BY <1>3 DEF vars, YesWasSeen, At, registry
<1> QED BY <1>1, <1>2, <1>3, ReloadKeepsSeen, OptKeepsSeen DEF Next

\* A key is published only if the mailbox was opted in at some moment after the node had
\* the request.
THEOREM PublishingIsAllowed == Spec => OptOutStopsPublishing
<1> DEFINE Allowed == \A t \in Tabs, i \in Calls : Publish(t, i) => reloads[t][i].seen
<1>1. Init => YesWasSeen
  BY DEF Init, FirstReload, NoReload, YesWasSeen, At
<1>2. YesWasSeen => [Allowed]_vars
  BY DEF YesWasSeen, Publish
<1> QED
  BY <1>1, <1>2, StepKeepsSeen, TypeCorrect, PTL DEF Spec, OptOutStopsPublishing
=============================================================================
