--------------------------- MODULE OutboundProofs ---------------------------
(***************************************************************************)
(* Outgoing mail, for any jobs, limits and windows.  RateInv is about the  *)
(* sliding windows of the sending limit: Limit alone is not inductive, for *)
(* the list that takeSendSlot filters must hold every grant of the last    *)
(* day, which only RateInv says.  The second half is about the mail itself *)
(* and the files of the compose form: what a sent job says it did was      *)
(* done, and a file the form lists is staged on the node.                  *)
(***************************************************************************)
EXTENDS Outbound, FiniteSetTheorems, TLAPS

Grants == [job : Jobs, at : Nat]

RateInv ==
    /\ now \in Nat
    /\ accepted \subseteq Grants /\ IsFiniteSet(accepted)
    /\ \A a \in accepted : a.at <= now
    /\ hits \subseteq accepted
    /\ \A a \in accepted : a.at + Day > now => a \in hits
    /\ RateHolds

\* A window of grants is a finite set.
LEMMA GrantsAreFinite ==
    ASSUME IsFiniteSet(accepted), NEW t, NEW w
    PROVE  /\ IsFiniteSet(Granted(t, w))
           /\ Cardinality(Granted(t, w)) \in Nat
<1>1. Granted(t, w) \subseteq accepted
  BY DEF Granted
<1>2. IsFiniteSet(Granted(t, w))
  BY <1>1, FS_Subset
<1>. QED  BY <1>2, FS_CardinalityType

\* What takeSendSlot counts is what was granted in the hour and in the day.
LEMMA CountsAreExact ==
    ASSUME RateInv
    PROVE  /\ DayHits = Granted(now, Day)
           /\ HourHits = Granted(now, Hour)
<1>. USE OutboundAssumption DEF RateInv, Grants
<1>1. DayHits = Granted(now, Day)
  BY DEF DayHits, Granted
<1>2. HourHits = Granted(now, Hour)
  <2>1. ASSUME NEW a \in accepted, a.at + Hour > now
        PROVE  a.at + Day > now
    BY <2>1
  <2>. QED  BY <2>1, <1>1 DEF HourHits, Granted
<1>. QED  BY <1>1, <1>2

\* A new grant: windows that end before now do not see it, those that end now had room.
LEMMA TakeSlotKeepsRate ==
    ASSUME RateInv, NEW j \in Jobs, TakeSlot(j), UNCHANGED clock
    PROVE  RateInv'
<1>. USE OutboundAssumption
<1>. DEFINE x == [job |-> j, at |-> now]
<1>1. /\ now' = now /\ accepted' = accepted \cup {x} /\ hits' = DayHits \cup {x}
      /\ SlotIsFree
  BY DEF TakeSlot, clock
<1>2. /\ accepted' \subseteq Grants /\ IsFiniteSet(accepted')
      /\ \A a \in accepted' : a.at <= now
  <2>1. x \in Grants /\ x.at = now /\ now \in Nat
    BY DEF RateInv, Grants
  <2>2. IsFiniteSet(accepted')
    BY <1>1, FS_AddElement DEF RateInv
  <2>. QED  BY <1>1, <2>1, <2>2 DEF RateInv
<1>3. /\ hits' \subseteq accepted'
      /\ \A a \in accepted' : a.at + Day > now => a \in hits'
  BY <1>1 DEF RateInv, DayHits
<1>4. ASSUME NEW t \in 0..now, NEW w \in Nat, NEW max \in Nat,
             Cardinality(Granted(t, w)) <= max,
             t = now => Cardinality(Granted(now, w)) < max
      PROVE  Cardinality(Granted(t, w)') <= max
  <2>. now \in Nat
    BY DEF RateInv
  <2>1. IsFiniteSet(Granted(t, w)) /\ Cardinality(Granted(t, w)) \in Nat
    BY GrantsAreFinite DEF RateInv
  <2>2. CASE t = now
    <3>1. Granted(t, w)' \subseteq Granted(t, w) \cup {x}
      BY <1>1 DEF Granted
    <3>2. /\ IsFiniteSet(Granted(t, w) \cup {x})
          /\ Cardinality(Granted(t, w) \cup {x}) <= Cardinality(Granted(t, w)) + 1
          /\ Cardinality(Granted(t, w) \cup {x}) \in Nat
      <4>. DEFINE S == Granted(t, w)
      <4>1. IsFiniteSet(S) /\ Cardinality(S) \in Nat
        BY <2>1
      <4>. HIDE DEF S, x
      <4>2. /\ IsFiniteSet(S \cup {x})
            /\ Cardinality(S \cup {x}) =
                   IF x \in S THEN Cardinality(S) ELSE Cardinality(S) + 1
        BY <4>1, FS_AddElement
      <4>3. /\ Cardinality(S \cup {x}) <= Cardinality(S) + 1
            /\ Cardinality(S \cup {x}) \in Nat
        BY <4>1, <4>2
      <4>. QED  BY <4>2, <4>3 DEF S
    <3>3. /\ Cardinality(Granted(t, w)') <= Cardinality(Granted(t, w) \cup {x})
          /\ Cardinality(Granted(t, w)') \in Nat
      BY <3>1, <3>2, FS_Subset, FS_CardinalityType
    <3>. QED  BY <2>1, <2>2, <3>2, <3>3, <1>4
  <2>3. CASE t # now
    <3>1. Granted(t, w)' = Granted(t, w)
      BY <1>1, <2>3 DEF Granted
    <3>. QED  BY <3>1, <1>4
  <2>. QED  BY <2>2, <2>3
<1>5. /\ Cardinality(Granted(now, Hour)) < HourMax
      /\ Cardinality(Granted(now, Day)) < DayMax
  BY <1>1, CountsAreExact DEF SlotIsFree
<1>6. RateHolds'
  <2>. SUFFICES ASSUME NEW t \in 0..now
                PROVE  /\ Cardinality(Granted(t, Hour)') <= HourMax
                       /\ Cardinality(Granted(t, Day)') <= DayMax
    BY <1>1 DEF RateHolds
  <2>1. /\ Cardinality(Granted(t, Hour)) <= HourMax
        /\ Cardinality(Granted(t, Day)) <= DayMax
    BY DEF RateInv, RateHolds
  <2>. QED  BY <1>4, <1>5, <2>1
<1>. QED  BY <1>1, <1>2, <1>3, <1>6 DEF RateInv

\* Time passes: the new window sees no grant that the one before did not see.
LEMMA TickKeepsRate ==
    ASSUME RateInv, Tick
    PROVE  RateInv'
<1>. USE OutboundAssumption
<1>1. now' = now + 1 /\ accepted' = accepted /\ hits' = hits /\ now \in Nat
  BY DEF Tick, limits, RateInv
<1>2. /\ \A a \in accepted' : a.at <= now'
      /\ \A a \in accepted' : a.at + Day > now' => a \in hits'
  BY <1>1 DEF RateInv, Grants
<1>3. ASSUME NEW w \in Nat, NEW max \in Nat,
             \A t \in 0..now : Cardinality(Granted(t, w)) <= max,
             NEW t \in 0..now'
      PROVE  Cardinality(Granted(t, w)') <= max
  <2>1. CASE t = now'
    <3>1. Granted(t, w)' \subseteq Granted(now, w)
      BY <1>1, <2>1 DEF Granted, RateInv, Grants
    <3>2. IsFiniteSet(Granted(now, w)) /\ Cardinality(Granted(now, w)) \in Nat
      BY GrantsAreFinite DEF RateInv
    <3>3. /\ Cardinality(Granted(t, w)') <= Cardinality(Granted(now, w))
          /\ Cardinality(Granted(t, w)') \in Nat
      BY <3>1, <3>2, FS_Subset, FS_CardinalityType
    <3>4. Cardinality(Granted(now, w)) <= max
      BY <1>1, <1>3
    <3>. QED  BY <3>2, <3>3, <3>4
  <2>2. CASE t # now'
    <3>1. t \in 0..now
      BY <1>1, <2>2
    <3>2. Granted(t, w)' = Granted(t, w)
      BY <1>1 DEF Granted
    <3>. QED  BY <3>1, <3>2, <1>3
  <2>. QED  BY <2>1, <2>2
<1>4. RateHolds'
  <2>1. /\ \A t \in 0..now : Cardinality(Granted(t, Hour)) <= HourMax
        /\ \A t \in 0..now : Cardinality(Granted(t, Day)) <= DayMax
    BY DEF RateInv, RateHolds
  <2>2. \A t \in 0..now' : /\ Cardinality(Granted(t, Hour)') <= HourMax
                           /\ Cardinality(Granted(t, Day)') <= DayMax
    BY <1>3, <2>1
  <2>. QED  BY <2>2 DEF RateHolds
<1>. QED  BY <1>1, <1>2, <1>4 DEF RateInv

\* A step that leaves the grants, or drops all of them, or only what is a day old.
LEMMA OtherStepsKeepRate ==
    ASSUME RateInv, now' = now,
           \/ UNCHANGED limits
           \/ accepted' = accepted /\ hits' = DayHits
           \/ accepted' = {} /\ hits' = {}
    PROVE  RateInv'
<1>. USE OutboundAssumption
<1>1. CASE accepted' = accepted
  <2>1. hits' \subseteq accepted /\ \A a \in accepted : a.at + Day > now => a \in hits'
    <3>1. CASE UNCHANGED limits
      BY <3>1 DEF limits, RateInv
    <3>2. CASE accepted' = {} /\ hits' = {}
      BY <1>1, <3>2
    <3>3. CASE accepted' = accepted /\ hits' = DayHits
      BY <3>3 DEF DayHits, RateInv
    <3>. QED  BY <3>1, <3>2, <3>3
  <2>2. \A t, w : Granted(t, w)' = Granted(t, w)
    BY <1>1 DEF Granted
  <2>3. RateHolds'
    BY <2>2 DEF RateHolds, RateInv
  <2>. QED  BY <1>1, <2>1, <2>3 DEF RateInv
<1>2. CASE accepted' = {} /\ hits' = {}
  <2>1. \A t, w : Granted(t, w)' = {}
    BY <1>2 DEF Granted
  <2>2. RateHolds'
    BY <2>1, FS_EmptySet DEF RateHolds
  <2>. QED  BY <1>2, <2>2, FS_EmptySet DEF RateInv
<1>. QED  BY <1>1, <1>2 DEF limits

\* No step of the specification breaks the invariant.
LEMMA RateStep ==
    ASSUME RateInv, [Next]_vars
    PROVE  RateInv'
<1>1. CASE Tick
  BY <1>1, TickKeepsRate
<1>2. ASSUME NEW j \in Jobs, TakeSlot(j), UNCHANGED clock
      PROVE  RateInv'
  BY <1>2, TakeSlotKeepsRate
<1>3. CASE UNCHANGED vars
  BY <1>3, OtherStepsKeepRate DEF vars, clock
<1>4. CASE Crash
  BY <1>4, OtherStepsKeepRate DEF Crash
<1>5. CASE Compose
  <2>1. now' = now /\ UNCHANGED limits
    BY <1>5 DEF Compose, OpenCompose, Close, UploadFails, NoTurnstile, SendAnswered, AddFiles, Upload,
                Uploaded, Remove, Send, clock
  <2>. QED  BY <2>1, OtherStepsKeepRate
<1>6. ASSUME NEW j \in Jobs, Submit(j) \/ Process(j) \/ Host(j)
      PROVE  RateInv'
  <2>1. CASE RateLimited(j)
    BY <2>1, OtherStepsKeepRate DEF RateLimited, RefuseSlot, clock
  <2>2. CASE Accept(j) \/ InvalidAttachment(j)
    BY <2>2, <1>2 DEF Accept, InvalidAttachment
  <2>3. CASE Submit(j) \/ Refuse(j) \/ Store(j) \/ Host(j)
    <3>1. now' = now /\ UNCHANGED limits
      BY <2>3 DEF Submit, Refuse, Store, Host, HostTakes, HostReplies, HostBreaks,
                  HostFallsSilent, clock
    <3>. QED  BY <3>1, OtherStepsKeepRate
  <2>. QED  BY <1>6, <2>1, <2>2, <2>3 DEF Process
<1>. QED  BY <1>1, <1>3, <1>4, <1>5, <1>6 DEF Next

\* No hour and no day sees more messages leave a mailbox than the limits of
\* takeSendSlot, for every limit, window and number of messages.
THEOREM SendingIsLimited == Spec => []RateHolds
<1>1. Init => RateInv
  <2>. SUFFICES ASSUME Init PROVE RateInv
    OBVIOUS
  <2>1. accepted = {} /\ hits = {} /\ now = 0
    BY DEF Init
  <2>2. \A t, w : Granted(t, w) = {}
    BY <2>1 DEF Granted
  <2>3. RateHolds
    BY <2>2, FS_EmptySet, OutboundAssumption DEF RateHolds
  <2>. QED  BY <2>1, <2>3, FS_EmptySet DEF RateInv
<1>2. RateInv /\ [Next]_vars => RateInv'
  BY RateStep
<1>3. RateInv => RateHolds
  BY DEF RateInv
<1>. QED  BY <1>1, <1>2, <1>3, PTL DEF Spec
-----------------------------------------------------------------------------
(* The staging directory.                                                  *)

DiskInv == MetaImpliesBytes /\ metas \cap torn = {}

\* put leaves whole what it finds, even when a crash cuts it short.
LEMMA PutKeepsDisk ==
    ASSUME DiskInv, NEW f \in Files \ metas, NEW cut \in {"no", "bytes", "meta"}, Put(f, cut)
    PROVE  DiskInv'
<1>1. /\ bins' = (bins \ Expired) \cup {f}
      /\ metas' \subseteq (metas \ Expired) \cup {f}
      /\ torn' \subseteq {f}
      /\ torn' = {} \/ metas' = metas \ Expired
  BY DEF Put
<1>2. metas \subseteq bins
  BY DEF DiskInv, MetaImpliesBytes
<1>. QED  BY <1>1, <1>2 DEF DiskInv, MetaImpliesBytes

\* So does drop, for files whose meta file is there.
LEMMA DropKeepsDisk ==
    ASSUME DiskInv, NEW gone \in SUBSET metas, NEW left, Drop(gone, left)
    PROVE  DiskInv'
BY DEF Drop, DiskInv, MetaImpliesBytes

\* No step of the specification breaks the invariant.
LEMMA DiskStep ==
    ASSUME DiskInv, [Next]_vars
    PROVE  DiskInv'
<1>1. ASSUME UNCHANGED disk  PROVE DiskInv'
  BY <1>1 DEF disk, DiskInv, MetaImpliesBytes
<1>2. CASE Tick \/ UNCHANGED vars
  BY <1>1, <1>2 DEF Tick, vars
<1>3. CASE Crash
  <2>1. CASE CutShort
    <3>1. CASE \E f \in form.todo \ (metas \cup bins), cut \in {"bytes", "meta"} : Put(f, cut)
      <4>1. PICK f \in form.todo \ (metas \cup bins), cut \in {"bytes", "meta"} : Put(f, cut)
        BY <3>1
      <4>2. /\ bins' = (bins \ Expired) \cup {f}
            /\ metas' = metas \ Expired
            /\ torn' \subseteq {f}
        BY <4>1 DEF Put
      <4>. QED  BY <4>1, <4>2 DEF DiskInv, MetaImpliesBytes
    <3>2. CASE \E f \in metas \ (form.list \cup form.next) : Drop({f}, {f})
      BY <3>2, DropKeepsDisk
    <3>. QED  BY <2>1, <3>1, <3>2 DEF CutShort
  <2>. QED  BY <1>1, <1>3, <2>1 DEF Crash
<1>4. CASE Compose
  <2>1. CASE UploadFails
    <3>1. ASSUME Purge  PROVE DiskInv'
      BY <3>1 DEF Purge, DiskInv, MetaImpliesBytes
    <3>. QED  BY <1>1, <2>1, <3>1 DEF UploadFails
  <2>2. ASSUME NEW fs, Discard(fs)  PROVE DiskInv'
    <3>1. PICK reached \in SUBSET fs : Drop(reached \cap metas, {})
      BY <2>2 DEF Discard, Delete
    <3>. QED  BY <3>1, DropKeepsDisk
  <2>3. CASE Close \/ SendAnswered
    BY <2>2, <2>3 DEF Close, SendAnswered
  <2>4. ASSUME NEW f \in Files, Remove(f)  PROVE DiskInv'
    BY <2>2, <2>4 DEF Remove
  <2>5. ASSUME NEW f \in Files, Upload(f)  PROVE DiskInv'
    <3>1. f \in Files \ metas /\ Put(f, "no")
      BY <2>5 DEF Upload
    <3>. QED  BY <3>1, PutKeepsDisk
  <2>6. CASE OpenCompose \/ NoTurnstile \/ (\E chosen \in SUBSET Files \ {{}} : AddFiles(chosen))
             \/ (\E f \in Files : Uploaded(f)) \/ (\E j \in Jobs : Send(j))
    BY <1>1, <2>6 DEF OpenCompose, NoTurnstile, AddFiles, Uploaded, Send
  <2>. QED  BY <1>4, <2>1, <2>3, <2>4, <2>5, <2>6 DEF Compose
<1>5. ASSUME NEW j \in Jobs, Submit(j) \/ Process(j) \/ Host(j)
      PROVE  DiskInv'
  <2>1. CASE Accept(j)
    <3>1. CASE jobs[j].kind = "staged"
      BY <2>1, <3>1, DropKeepsDisk DEF Accept, Readable
    <3>2. CASE jobs[j].kind # "staged"
      BY <1>1, <2>1, <3>2 DEF Accept
    <3>. QED  BY <3>1, <3>2
  <2>2. CASE InvalidAttachment(j)
    <3>1. PICK before \in SUBSET (jobs[j].asked \cap metas \cap bins) : Drop(before, {})
      BY <2>2 DEF InvalidAttachment
    <3>2. before \in SUBSET metas
      BY <3>1
    <3>. QED  BY <3>1, <3>2, DropKeepsDisk
  <2>3. CASE Submit(j) \/ Refuse(j) \/ RateLimited(j) \/ Store(j) \/ Host(j)
    BY <1>1, <2>3 DEF Submit, Refuse, RateLimited, Store, Host, HostTakes, HostReplies,
                      HostBreaks, HostFallsSilent
  <2>. QED  BY <1>5, <2>1, <2>2, <2>3 DEF Process
<1>. QED  BY <1>2, <1>3, <1>4, <1>5 DEF Next

\* Whatever crash cuts a write short, the bytes of a staged file are there as long
\* as its meta file is: take never reads a meta file without bytes.
THEOREM StagedFilesAreWhole == Spec => []MetaImpliesBytes
<1>1. Init => DiskInv
  BY DEF Init, DiskInv, MetaImpliesBytes
<1>2. DiskInv /\ [Next]_vars => DiskInv'
  BY DiskStep
<1>3. DiskInv => MetaImpliesBytes
  BY DEF DiskInv
<1>. QED  BY <1>1, <1>2, <1>3, PTL DEF Spec
-----------------------------------------------------------------------------
(* Types.                                                                  *)

\* The records of messages, of the composer and of grants.
LEMMA RecordTypes ==
    /\ NoJob \in JobRecords /\ NoForm \in Forms
    /\ \A phase \in Phases, what \in Answers : Over(phase, what) \in JobRecords
    /\ \A files \in SUBSET Files : EncryptForOpenPgp(files) \in JobRecords
BY DEF NoJob, NoForm, JobRecords, Forms, Phases, Answers, Over, EncryptForOpenPgp

\* Every write to the staging directory names files of Files.
LEMMA DiskWritesType ==
    ASSUME TypeOK,
           \/ UNCHANGED disk
           \/ Purge
           \/ \E f \in Files, cut \in {"no", "bytes", "meta"} : Put(f, cut)
           \/ \E gone, left \in SUBSET Files : Drop(gone, left)
           \/ \E fs : Discard(fs)
    PROVE  metas' \subseteq Files /\ torn' \subseteq Files /\ bins' \subseteq Files
           /\ stagedAt' \in [Files -> Nat]
<1>. USE DEF TypeOK
<1>1. CASE UNCHANGED disk
  BY <1>1 DEF disk
<1>2. CASE Purge
  BY <1>2 DEF Purge
<1>3. ASSUME NEW f \in Files, NEW cut, Put(f, cut)
      PROVE  metas' \subseteq Files /\ torn' \subseteq Files /\ bins' \subseteq Files
             /\ stagedAt' \in [Files -> Nat]
  BY <1>3 DEF Put
<1>4. ASSUME NEW gone, NEW left, Drop(gone, left)
      PROVE  metas' \subseteq Files /\ torn' \subseteq Files /\ bins' \subseteq Files
             /\ stagedAt' \in [Files -> Nat]
  BY <1>4 DEF Drop
<1>5. CASE \E fs : Discard(fs)
  BY <1>4, <1>5 DEF Discard, Delete
<1>. QED  BY <1>1, <1>2, <1>3, <1>4, <1>5

\* The hits and the grants of a job are typed, whatever takeSendSlot decides.
LEMMA SlotType ==
    ASSUME TypeOK, NEW j \in Jobs, TakeSlot(j) \/ RefuseSlot \/ UNCHANGED limits
    PROVE  hits' \subseteq Grants /\ accepted' \subseteq Grants
BY DEF TypeOK, TakeSlot, RefuseSlot, DayHits, limits, Grants

\* The clock, the grants and the directory.
LEMMA ClockAndDiskType ==
    ASSUME TypeOK, [Next]_vars
    PROVE  /\ now' \in Nat /\ life' \in Nat
           /\ hits' \subseteq Grants /\ accepted' \subseteq Grants
           /\ metas' \subseteq Files /\ torn' \subseteq Files /\ bins' \subseteq Files
           /\ stagedAt' \in [Files -> Nat]
<1>. DEFINE Goal == /\ now' \in Nat /\ life' \in Nat
                    /\ hits' \subseteq Grants /\ accepted' \subseteq Grants
                    /\ metas' \subseteq Files /\ torn' \subseteq Files /\ bins' \subseteq Files
                    /\ stagedAt' \in [Files -> Nat]
<1>1. now \in Nat /\ life \in Nat /\ hits \subseteq Grants /\ accepted \subseteq Grants
  BY DEF TypeOK, Grants
<1>2. CASE UNCHANGED vars
  BY <1>1, <1>2, DiskWritesType DEF vars, clock, limits
<1>3. CASE Tick
  BY <1>1, <1>3, DiskWritesType DEF Tick, limits
<1>4. CASE Crash
  <2>1. /\ now' = now /\ life' = life + 1 /\ hits' = {} /\ accepted' = {}
        /\ CutShort \/ UNCHANGED disk
    BY <1>4 DEF Crash
  <2>2. CASE CutShort
    <3>1. CASE \E f \in form.todo \ (metas \cup bins), cut \in {"bytes", "meta"} : Put(f, cut)
      <4>1. form.todo \subseteq Files
        BY DEF TypeOK, Forms
      <4>. QED  BY <1>1, <2>1, <3>1, <4>1, DiskWritesType
    <3>2. CASE \E f \in metas \ (form.list \cup form.next) : Drop({f}, {f})
      <4>1. PICK f \in metas \ (form.list \cup form.next) : Drop({f}, {f})
        BY <3>2
      <4>2. {f} \in SUBSET Files
        BY DEF TypeOK
      <4>. QED  BY <1>1, <2>1, <4>1, <4>2, DiskWritesType
    <3>. QED  BY <2>2, <3>1, <3>2 DEF CutShort
  <2>. QED  BY <1>1, <2>1, <2>2, DiskWritesType
<1>5. CASE Compose
  <2>1. UNCHANGED <<clock, limits>>
    BY <1>5 DEF Compose, OpenCompose, Close, UploadFails, NoTurnstile, SendAnswered, AddFiles,
                Upload, Uploaded, Remove, Send
  <2>2. \/ UNCHANGED disk \/ Purge
        \/ \E f \in Files : Put(f, "no")
        \/ \E fs : Discard(fs)
    <3>1. CASE OpenCompose \/ NoTurnstile \/ (\E chosen \in SUBSET Files \ {{}} : AddFiles(chosen))
               \/ (\E f \in Files : Uploaded(f)) \/ (\E j \in Jobs : Send(j))
      BY <3>1 DEF OpenCompose, NoTurnstile, AddFiles, Uploaded, Send
    <3>2. CASE Close \/ SendAnswered \/ (\E f \in Files : Remove(f))
      BY <3>2 DEF Close, SendAnswered, Remove
    <3>3. CASE UploadFails \/ (\E f \in Files : Upload(f))
      BY <3>3 DEF UploadFails, Upload
    <3>. QED  BY <1>5, <3>1, <3>2, <3>3 DEF Compose
  <2>. QED  BY <1>1, <2>1, <2>2, DiskWritesType DEF clock, limits
<1>6. ASSUME NEW j \in Jobs, Submit(j) \/ Process(j) \/ Host(j)
      PROVE  Goal
  <2>1. UNCHANGED clock
    BY <1>6 DEF Submit, Process, Host, Refuse, RateLimited, Accept, InvalidAttachment, Store,
                HostTakes, HostReplies, HostBreaks, HostFallsSilent
  <2>2. TakeSlot(j) \/ RefuseSlot \/ UNCHANGED limits
    BY <1>6 DEF Submit, Process, Host, Refuse, RateLimited, Accept, InvalidAttachment, Store,
                HostTakes, HostReplies, HostBreaks, HostFallsSilent
  <2>3. UNCHANGED disk \/ \E gone, left \in SUBSET Files : Drop(gone, left)
    <3>1. CASE Accept(j)
      <4>1. jobs[j].asked \in SUBSET Files
        BY DEF TypeOK, JobRecords
      <4>. QED  BY <3>1, <4>1 DEF Accept
    <3>2. CASE InvalidAttachment(j)
      <4>1. PICK before \in SUBSET (jobs[j].asked \cap metas \cap bins) : Drop(before, {})
        BY <3>2 DEF InvalidAttachment
      <4>2. before \in SUBSET Files
        BY <4>1 DEF TypeOK
      <4>. QED  BY <4>1, <4>2
    <3>3. CASE Submit(j) \/ Refuse(j) \/ RateLimited(j) \/ Store(j) \/ Host(j)
      BY <3>3 DEF Submit, Host, Refuse, RateLimited, Store,
                  HostTakes, HostReplies, HostBreaks, HostFallsSilent
    <3>. QED  BY <1>6, <3>1, <3>2, <3>3 DEF Process
  <2>4. hits' \subseteq Grants /\ accepted' \subseteq Grants
    BY <2>2, SlotType
  <2>. QED  BY <1>1, <2>1, <2>3, <2>4, DiskWritesType DEF clock
<1>. QED  BY <1>2, <1>3, <1>4, <1>5, <1>6 DEF Next

\* The messages and the composer.
LEMMA MailAndFormType ==
    ASSUME TypeOK, [Next]_vars
    PROVE  /\ jobs' \in [Jobs -> JobRecords]
           /\ copies' \subseteq Jobs /\ delivered' \subseteq Jobs
           /\ form' \in Forms
<1>1. /\ jobs \in [Jobs -> JobRecords] /\ copies \subseteq Jobs /\ delivered \subseteq Jobs
      /\ form \in Forms
  BY DEF TypeOK
<1>2. CASE UNCHANGED vars \/ Tick
  BY <1>1, <1>2 DEF vars, mail, Tick
<1>3. CASE Crash
  BY <1>1, <1>3, RecordTypes DEF Crash, Phases, Answers
<1>4. CASE Compose
  <2>1. CASE OpenCompose \/ Close \/ UploadFails \/ NoTurnstile \/ SendAnswered
    BY <1>1, <2>1 DEF OpenCompose, Close, UploadFails, NoTurnstile, SendAnswered, mail, Forms, Uploading
  <2>2. CASE \E chosen \in SUBSET Files \ {{}} : AddFiles(chosen)
    BY <1>1, <2>2 DEF AddFiles, mail, Forms
  <2>3. CASE \E f \in Files : Upload(f) \/ Uploaded(f) \/ Remove(f)
    <3>1. PICK f \in Files : Upload(f) \/ Uploaded(f) \/ Remove(f)
      BY <2>3
    <3>2. UNCHANGED mail
      BY <3>1 DEF Upload, Uploaded, Remove
    <3>3. ASSUME Upload(f)  PROVE form' \in Forms
      BY <1>1, <3>3 DEF Upload
    <3>4. ASSUME Uploaded(f)  PROVE form' \in Forms
      BY <1>1, <3>4 DEF Uploaded, Forms
    <3>5. ASSUME Remove(f)  PROVE form' \in Forms
      BY <1>1, <3>5 DEF Remove, Forms
    <3>. QED  BY <1>1, <3>1, <3>2, <3>3, <3>4, <3>5 DEF mail
  <2>4. ASSUME NEW j \in Jobs, Send(j)
        PROVE  jobs' \in [Jobs -> JobRecords] /\ form' \in Forms
    <3>1. form.list \in SUBSET Files
      BY <1>1 DEF Forms
    <3>2. [NoJob EXCEPT !.phase = "checking", !.kind = "staged", !.asked = form.list] \in JobRecords
      BY <3>1 DEF NoJob, JobRecords, Phases, Answers
    <3>3. EncryptForOpenPgp(form.list) \in JobRecords
      BY <3>1, RecordTypes
    <3>4. PICK job \in JobRecords : jobs' = [jobs EXCEPT ![j] = job]
      BY <2>4, <3>2, <3>3 DEF Send
    <3>5. form' = [form EXCEPT !.open = FALSE, !.list = {}, !.sending = j]
      BY <2>4 DEF Send
    <3>6. jobs' \in [Jobs -> JobRecords]
      BY <1>1, <3>4
    <3>7. form' \in Forms
      BY <1>1, <3>5 DEF Forms
    <3>. QED  BY <3>6, <3>7
  <2>5. ASSUME NEW j \in Jobs, Send(j)
        PROVE  UNCHANGED <<copies, delivered>>
    BY <2>5 DEF Send
  <2>. QED  BY <1>1, <1>4, <2>1, <2>2, <2>3, <2>4, <2>5 DEF Compose
<1>5. ASSUME NEW j \in Jobs, Submit(j) \/ Process(j) \/ Host(j)
      PROVE  /\ jobs' \in [Jobs -> JobRecords] /\ copies' \subseteq Jobs /\ delivered' \subseteq Jobs
             /\ form' = form
  <2>. USE DEF Phases, Answers
  <2>0. jobs[j] \in JobRecords
    BY <1>1
  <2>1. ASSUME NEW what \in Answers  PROVE Answer(j, what) \in [Jobs -> JobRecords]
    BY <1>1, RecordTypes DEF Answer
  <2>2. CASE Submit(j)
    <3>1. [jobs[j] EXCEPT !.phase = "checking", !.kind = "smtp"] \in JobRecords
      BY <2>0 DEF JobRecords
    <3>2. jobs' = [jobs EXCEPT ![j] = [jobs[j] EXCEPT !.phase = "checking", !.kind = "smtp"]]
      BY <1>1, <2>0, <2>2 DEF Submit
    <3>. QED  BY <1>1, <2>2, <3>1, <3>2 DEF Submit
  <2>3. CASE Refuse(j) \/ RateLimited(j) \/ InvalidAttachment(j)
    BY <1>1, <2>1, <2>3 DEF Refuse, RateLimited, InvalidAttachment
  <2>4. CASE Accept(j)
    <3>. DEFINE r == [jobs[j] EXCEPT !.phase = "storing", !.taken = jobs[j].asked]
    <3>1. r \in JobRecords
      BY <2>0 DEF JobRecords
    <3>2. jobs' = [jobs EXCEPT ![j] = r]
      BY <1>1, <2>0, <2>4 DEF Accept
    <3>. QED  BY <1>1, <2>4, <3>1, <3>2 DEF Accept
  <2>5. CASE Store(j) \/ HostTakes(j)
    <3>1. ASSUME NEW phase \in Phases
          PROVE  [jobs EXCEPT ![j].phase = phase] \in [Jobs -> JobRecords]
      BY <1>1 DEF JobRecords
    <3>2. jobs' \in [Jobs -> JobRecords]
      BY <2>1, <2>5, <3>1 DEF Store, HostTakes
    <3>. QED  BY <1>1, <2>5, <3>2 DEF Store, HostTakes
  <2>6. AfterQuit(j) \in [Jobs -> JobRecords]
    <3>1. jobs[j].answer \in Answers
      BY <2>0 DEF JobRecords
    <3>2. [jobs EXCEPT ![j].phase = "answered"] \in [Jobs -> JobRecords]
      BY <1>1 DEF JobRecords
    <3>. QED  BY <2>1, <3>1, <3>2 DEF AfterQuit
  <2>7. CASE HostReplies(j)
    <3>. DEFINE r(answer) == [jobs[j] EXCEPT !.phase = "quitting", !.answer = answer]
    <3>1. ASSUME NEW answer \in Answers
          PROVE  [jobs EXCEPT ![j] = r(answer)] \in [Jobs -> JobRecords]
      BY <1>1, <2>0 DEF JobRecords
    <3>2. \/ jobs' = AfterQuit(j)
          \/ jobs' = [jobs EXCEPT ![j] = r("delivery")]
          \/ jobs' = [jobs EXCEPT ![j] = r("ok")]
      BY <1>1, <2>0, <2>7 DEF HostReplies
    <3>3. jobs' \in [Jobs -> JobRecords]
      BY <2>6, <3>1, <3>2
    <3>. QED  BY <1>1, <2>7, <3>3 DEF HostReplies
  <2>8. CASE HostBreaks(j) \/ HostFallsSilent(j)
    BY <1>1, <2>1, <2>6, <2>8, RecordTypes DEF HostBreaks, HostFallsSilent
  <2>. QED  BY <1>5, <2>2, <2>3, <2>4, <2>5, <2>7, <2>8 DEF Process, Host
<1>. QED  BY <1>1, <1>2, <1>3, <1>4, <1>5 DEF Next

\* Every variable keeps its type.
THEOREM TypeCorrect == Spec => []TypeOK
<1>1. Init => TypeOK
  BY RecordTypes DEF Init, TypeOK
<1>2. TypeOK /\ [Next]_vars => TypeOK'
  BY ClockAndDiskType, MailAndFormType DEF TypeOK, Grants
<1>. QED  BY <1>1, <1>2, PTL DEF Spec
-----------------------------------------------------------------------------
(* What becomes of a message.                                              *)

\* What each phase of a message knows.
JobKnows(j) ==
    LET job == jobs[j] IN
    /\ job.phase \in {"storing", "dialog", "taken", "quitting"} => job.taken = job.asked
    /\ job.phase \in {"dialog", "taken", "quitting"} => j \in copies
    /\ job.phase = "taken" => j \in delivered
    /\ job.answer = "ok" =>
           job.phase \in {"quitting", "answered"} /\ j \in delivered /\ job.taken = job.asked

SentInv == delivered \subseteq copies /\ \A j \in Jobs : JobKnows(j)

\* A step that moves one message, and forgets neither copies nor deliveries.
LEMMA OneMessage ==
    ASSUME SentInv, NEW j \in Jobs, JobKnows(j)',
           \A i \in Jobs \ {j} : jobs'[i] = jobs[i],
           copies \subseteq copies', delivered \subseteq delivered', delivered' \subseteq copies'
    PROVE  SentInv'
<1>1. ASSUME NEW i \in Jobs \ {j}  PROVE JobKnows(i)'
  <2>1. JobKnows(i) /\ jobs'[i] = jobs[i]
    BY DEF SentInv
  <2>. QED  BY <2>1 DEF JobKnows
<1>. QED  BY <1>1 DEF SentInv

\* A message that ended without success knows nothing.
LEMMA OverKnowsNothing ==
    ASSUME TypeOK, SentInv, NEW j \in Jobs, NEW phase \in {"answered", "gone", "hanging"}, NEW what,
           what # "ok", jobs' = [jobs EXCEPT ![j] = Over(phase, what)], UNCHANGED <<copies, delivered>>
    PROVE  SentInv'
<1>1. jobs'[j] = Over(phase, what) /\ \A i \in Jobs \ {j} : jobs'[i] = jobs[i]
  BY DEF TypeOK
<1>2. Over(phase, what).phase = phase /\ Over(phase, what).answer = what
  BY DEF Over, NoJob
<1>3. jobs'[j].phase \notin {"storing", "dialog", "taken", "quitting"} /\ jobs'[j].answer # "ok"
  BY <1>1, <1>2
<1>4. JobKnows(j)'
  BY <1>3 DEF JobKnows
<1>. QED  BY <1>1, <1>4, OneMessage DEF SentInv

\* The answer to a QUIT says what the message has come to.
LEMMA QuitKeepsSent ==
    ASSUME TypeOK, SentInv, NEW j \in Jobs, jobs[j].phase = "quitting", jobs' = AfterQuit(j),
           UNCHANGED <<copies, delivered>>
    PROVE  SentInv'
<1>1. CASE jobs[j].answer = "ok"
  <2>1. /\ jobs'[j] = [jobs[j] EXCEPT !.phase = "answered"]
        /\ \A i \in Jobs \ {j} : jobs'[i] = jobs[i]
    BY <1>1 DEF AfterQuit, TypeOK
  <2>2. jobs[j] \in JobRecords /\ JobKnows(j)
    BY DEF TypeOK, SentInv
  <2>3. JobKnows(j)'
    BY <1>1, <2>1, <2>2 DEF JobKnows, JobRecords
  <2>. QED  BY <2>1, <2>3, OneMessage DEF SentInv
<1>2. CASE jobs[j].answer # "ok"
  BY <1>2, OverKnowsNothing DEF AfterQuit, Answer
<1>. QED  BY <1>1, <1>2

\* The steps of one message, from the submission to the last answer of the host.
LEMMA MessageKeepsSent ==
    ASSUME TypeOK, SentInv, NEW j \in Jobs, Submit(j) \/ Process(j) \/ Host(j)
    PROVE  SentInv'
<1>. DEFINE Others == \A i \in Jobs \ {j} : jobs'[i] = jobs[i]
<1>0. jobs[j] \in JobRecords /\ JobKnows(j) /\ delivered \subseteq copies
  BY DEF TypeOK, SentInv
<1>1. CASE Submit(j)
  <2>1. /\ jobs'[j] = [jobs[j] EXCEPT !.phase = "checking", !.kind = "smtp"]
        /\ Others /\ UNCHANGED <<copies, delivered>> /\ jobs[j].phase = "idle"
    BY <1>1 DEF Submit, TypeOK
  <2>2. JobKnows(j)'
    BY <1>0, <2>1 DEF JobKnows, JobRecords
  <2>. QED  BY <1>0, <2>1, <2>2, OneMessage
<1>2. CASE Refuse(j) \/ RateLimited(j) \/ InvalidAttachment(j)
  BY <1>2, OverKnowsNothing DEF Refuse, RateLimited, InvalidAttachment, Answer
<1>3. CASE Accept(j)
  <2>1. /\ jobs'[j] = [jobs[j] EXCEPT !.phase = "storing", !.taken = jobs[j].asked]
        /\ Others /\ UNCHANGED <<copies, delivered>> /\ jobs[j].phase = "checking"
    BY <1>3 DEF Accept, TypeOK
  <2>2. JobKnows(j)'
    BY <1>0, <2>1 DEF JobKnows, JobRecords
  <2>. QED  BY <1>0, <2>1, <2>2, OneMessage
<1>4. CASE Store(j)
  <2>1. CASE jobs' = Answer(j, "storage") /\ UNCHANGED copies
    BY <1>4, <2>1, OverKnowsNothing DEF Store, Answer
  <2>2. CASE jobs' = [jobs EXCEPT ![j].phase = "dialog"] /\ copies' = copies \cup {j}
    <3>1. /\ jobs'[j] = [jobs[j] EXCEPT !.phase = "dialog"]
          /\ Others /\ UNCHANGED delivered /\ jobs[j].phase = "storing"
      BY <1>4, <2>2 DEF Store, TypeOK
    <3>2. JobKnows(j)'
      BY <1>0, <2>2, <3>1 DEF JobKnows, JobRecords
    <3>. QED  BY <1>0, <2>2, <3>1, <3>2, OneMessage
  <2>. QED  BY <1>4, <2>1, <2>2 DEF Store
<1>5. CASE HostTakes(j)
  <2>1. /\ jobs'[j] = [jobs[j] EXCEPT !.phase = "taken"]
        /\ Others /\ copies' = copies /\ delivered' = delivered \cup {j}
        /\ jobs[j].phase = "dialog"
    BY <1>5 DEF HostTakes, TypeOK
  <2>2. JobKnows(j)' /\ j \in copies
    BY <1>0, <2>1 DEF JobKnows, JobRecords
  <2>. QED  BY <1>0, <2>1, <2>2, OneMessage
<1>6. CASE HostReplies(j)
  <2>0. UNCHANGED <<copies, delivered>>
    BY <1>6 DEF HostReplies
  <2>1. CASE jobs[j].phase = "quitting"
    BY <1>6, <2>1, QuitKeepsSent DEF HostReplies
  <2>2. CASE jobs[j].phase # "quitting"
    <3>1. PICK answer \in {"delivery", "ok"} :
              /\ jobs' = [jobs EXCEPT ![j].phase = "quitting", ![j].answer = answer]
              /\ jobs[j].phase \in {"dialog", "taken"}
              /\ answer = "ok" => jobs[j].phase = "taken"
      BY <1>6, <2>2 DEF HostReplies
    <3>2. /\ jobs'[j] = [jobs[j] EXCEPT !.phase = "quitting", !.answer = answer]
          /\ Others
      BY <3>1 DEF TypeOK
    <3>3. /\ jobs'[j].phase = "quitting" /\ jobs'[j].answer = answer
          /\ jobs'[j].taken = jobs[j].taken /\ jobs'[j].asked = jobs[j].asked
      BY <1>0, <3>2 DEF JobRecords
    <3>4. /\ jobs[j].taken = jobs[j].asked /\ j \in copies
          /\ answer = "ok" => j \in delivered
      BY <1>0, <3>1 DEF JobKnows
    <3>5. JobKnows(j)'
      BY <2>0, <3>3, <3>4 DEF JobKnows
    <3>. QED  BY <1>0, <2>0, <3>2, <3>5, OneMessage
  <2>. QED  BY <2>1, <2>2
<1>7. CASE HostBreaks(j)
  <2>1. CASE jobs[j].phase = "quitting"
    BY <1>7, <2>1, QuitKeepsSent DEF HostBreaks
  <2>2. CASE jobs[j].phase # "quitting"
    BY <1>7, <2>2, OverKnowsNothing DEF HostBreaks, Answer
  <2>. QED  BY <2>1, <2>2
<1>8. CASE HostFallsSilent(j)
  BY <1>8, OverKnowsNothing DEF HostFallsSilent
<1>. QED  BY <1>1, <1>2, <1>3, <1>4, <1>5, <1>6, <1>7, <1>8 DEF Process, Host

\* No step of the specification breaks the invariant.
LEMMA SentStep ==
    ASSUME TypeOK, SentInv, [Next]_vars
    PROVE  SentInv'
<1>1. ASSUME UNCHANGED mail  PROVE SentInv'
  BY <1>1 DEF mail, SentInv, JobKnows
<1>2. CASE Tick \/ UNCHANGED vars
  BY <1>1, <1>2 DEF Tick, vars
<1>3. CASE Crash
  <2>1. /\ \A j \in Jobs : jobs'[j] = Over("gone", "none") \/ jobs'[j] = jobs[j]
        /\ UNCHANGED <<copies, delivered>>
    BY <1>3 DEF Crash
  <2>2. ASSUME NEW j \in Jobs  PROVE JobKnows(j)'
    <3>1. JobKnows(j)
      BY DEF SentInv
    <3>. QED  BY <2>1, <3>1 DEF JobKnows, Over, NoJob
  <2>. QED  BY <2>1, <2>2 DEF SentInv
<1>4. CASE Compose
  <2>1. ASSUME NEW j \in Jobs, Send(j)  PROVE SentInv'
    <3>1. PICK kind, files :
              jobs' = [jobs EXCEPT ![j] = [NoJob EXCEPT !.phase = "checking", !.kind = kind,
                                                        !.asked = files]]
      BY <2>1 DEF Send, EncryptForOpenPgp
    <3>2. /\ jobs'[j].phase = "checking" /\ jobs'[j].answer = "none"
          /\ \A i \in Jobs \ {j} : jobs'[i] = jobs[i]
          /\ UNCHANGED <<copies, delivered>>
      BY <2>1, <3>1 DEF Send, TypeOK, NoJob
    <3>3. JobKnows(j)'
      BY <3>2 DEF JobKnows
    <3>. QED  BY <3>2, <3>3, OneMessage DEF SentInv
  <2>2. CASE OpenCompose \/ Close \/ UploadFails \/ NoTurnstile \/ SendAnswered
             \/ (\E chosen \in SUBSET Files \ {{}} : AddFiles(chosen))
             \/ (\E f \in Files : Upload(f) \/ Uploaded(f) \/ Remove(f))
    BY <1>1, <2>2 DEF OpenCompose, Close, UploadFails, NoTurnstile, SendAnswered, AddFiles,
                      Upload, Uploaded, Remove
  <2>. QED  BY <1>4, <2>1, <2>2 DEF Compose
<1>. QED  BY <1>2, <1>3, <1>4, MessageKeepsSent DEF Next

\* A call that was told 200 delivered its message with every file the user attached,
\* and nothing reaches a host before the sender's copy, whatever crashes and breaks.
THEOREM SuccessMeansDelivery == Spec => []SentAsAsked
<1>1. Init => SentInv
  BY DEF Init, SentInv, JobKnows, NoJob
<1>2. TypeOK /\ SentInv /\ [Next]_vars => SentInv'
  BY SentStep
<1>3. SentInv => SentAsAsked
  BY DEF SentInv, JobKnows, SentAsAsked
<1>. QED  BY <1>1, <1>2, <1>3, TypeCorrect, PTL DEF Spec
-----------------------------------------------------------------------------
(* The list of the composer.                                               *)

Kept(f) == f \in metas \/ now > stagedAt[f] + Ttl

\* While a message is on its way the composer holds no files, so that take removes
\* none of them; what is to be uploaded is on no list yet.
FormInv ==
    /\ form.todo \cap (form.list \cup form.next) = {}
    /\ form.sending # None => form.list = {} /\ ~Uploading
    /\ \A j \in Jobs : jobs[j].phase = "checking" /\ jobs[j].kind = "staged" => form.sending = j
    /\ form.open /\ ~form.orphaned =>
           /\ \A f \in form.list : Kept(f)
           /\ Uploading => \A f \in form.next : Kept(f)

\* Uploads, purges and drops of other files leave these.
LEMMA PutKeepsListed ==
    ASSUME TypeOK, NEW f \in form.todo \ metas, NEW cut, Put(f, cut), now' = now,
           form.todo \cap (form.list \cup form.next) = {},
           NEW g \in form.list \cup form.next, Kept(g)
    PROVE  Kept(g)'
<1>1. g # f /\ stagedAt'[g] = stagedAt[g]
  BY DEF Put, TypeOK, Forms
<1>2. metas \ Expired \subseteq metas'
  BY DEF Put
<1>. QED  BY <1>1, <1>2 DEF Kept, Expired

\* purge takes only what has expired.
LEMMA PurgeKeepsListed ==
    ASSUME Purge \/ UNCHANGED disk, now' = now, NEW g, Kept(g)
    PROVE  Kept(g)'
BY DEF Purge, disk, Kept, Expired

\* drop takes only the files it is given.
LEMMA DropKeepsListed ==
    ASSUME NEW gone, NEW left, Drop(gone, left), now' = now, NEW g, g \notin gone, Kept(g)
    PROVE  Kept(g)'
BY DEF Drop, Kept

\* A message that moves keeps the composer; if it is a staged one the lists are empty.
LEMMA MessageKeepsForm ==
    ASSUME TypeOK, FormInv, NEW j \in Jobs, Submit(j) \/ Process(j) \/ Host(j)
    PROVE  FormInv'
<1>. USE OutboundAssumption
<1>1. form' = form /\ now' = now
  BY DEF Submit, Process, Host, Refuse, RateLimited, Accept, InvalidAttachment, Store,
         HostTakes, HostReplies, HostBreaks, HostFallsSilent, clock
<1>2. ASSUME NEW i \in Jobs, jobs'[i].phase = "checking", jobs'[i].kind = "staged"
      PROVE  jobs[i].phase = "checking" /\ jobs[i].kind = "staged"
  <2>1. jobs[i] \in JobRecords /\ jobs \in [Jobs -> JobRecords]
    BY DEF TypeOK
  <2>2. i # j => jobs'[i] = jobs[i]
    BY <2>1 DEF Submit, Process, Host, Refuse, RateLimited, Accept, InvalidAttachment, Store,
         HostTakes, HostReplies, HostBreaks, HostFallsSilent, Answer, AfterQuit
  <2>3. CASE i = j
    <3>1. CASE Submit(j)
      BY <1>2, <2>1, <2>3, <3>1 DEF Submit, JobRecords
    <3>2. CASE Process(j) \/ Host(j)
      <4>1. jobs[j] \in JobRecords /\ \A what : Answer(j, what)[j].phase = "answered"
        BY <2>1 DEF Answer, Over, NoJob
      <4>2. AfterQuit(j)[j].phase = "answered"
        BY <2>1, <4>1 DEF AfterQuit, JobRecords
      <4>3. CASE Refuse(j) \/ RateLimited(j) \/ InvalidAttachment(j)
        BY <1>2, <2>3, <4>1, <4>3 DEF Refuse, RateLimited, InvalidAttachment
      <4>4. CASE Accept(j) \/ Store(j) \/ HostTakes(j)
        BY <1>2, <2>1, <2>3, <4>1, <4>4 DEF Accept, Store, HostTakes, JobRecords
      <4>5. CASE HostReplies(j)
        BY <1>2, <2>1, <2>3, <4>1, <4>2, <4>5 DEF HostReplies, JobRecords
      <4>6. CASE HostBreaks(j) \/ HostFallsSilent(j)
        BY <1>2, <2>1, <2>3, <4>1, <4>2, <4>6 DEF HostBreaks, HostFallsSilent, Over, NoJob
      <4>. QED  BY <3>2, <4>3, <4>4, <4>5, <4>6 DEF Process, Host
    <3>. QED  BY <3>1, <3>2
  <2>. QED  BY <1>2, <2>2, <2>3
<1>3. ASSUME NEW g, g \in form.list \/ (Uploading /\ g \in form.next), Kept(g)
      PROVE  Kept(g)'
  <2>1. CASE Accept(j) \/ InvalidAttachment(j)
    <3>1. UNCHANGED disk \/ jobs[j].kind = "staged"
      BY <2>1 DEF Accept, InvalidAttachment, Readable
    <3>2. CASE jobs[j].kind = "staged"
      <4>1. form.sending = j /\ form.sending # None
        BY <2>1, <3>2 DEF FormInv, Accept, InvalidAttachment
      <4>2. form.list = {} /\ ~Uploading
        BY <4>1 DEF FormInv
      <4>. QED  BY <1>3, <4>2
    <3>. QED  BY <1>1, <1>3, <3>1, <3>2, PurgeKeepsListed
  <2>2. CASE Submit(j) \/ Refuse(j) \/ RateLimited(j) \/ Store(j) \/ Host(j)
    <3>1. UNCHANGED disk
      BY <2>2 DEF Submit, Host, Refuse, RateLimited, Store,
         HostTakes, HostReplies, HostBreaks, HostFallsSilent
    <3>. QED  BY <1>1, <1>3, <3>1, PurgeKeepsListed
  <2>. QED  BY <2>1, <2>2 DEF Process
<1>. QED  BY <1>1, <1>2, <1>3 DEF FormInv, Uploading

\* The steps of the composer.
LEMMA ComposeKeepsForm ==
    ASSUME TypeOK, FormInv, Compose
    PROVE  FormInv'
<1>. USE OutboundAssumption
<1>0. /\ form \in Forms /\ now' = now
      /\ form.todo \cap (form.list \cup form.next) = {}
  BY DEF TypeOK, FormInv, Compose, OpenCompose, Close, UploadFails, NoTurnstile, SendAnswered,
         AddFiles, Upload, Uploaded, Remove, Send, clock
<1>1. ASSUME UNCHANGED disk, NEW g, Kept(g)  PROVE Kept(g)'
  BY <1>0, <1>1, PurgeKeepsListed
<1>2. CASE OpenCompose \/ NoTurnstile
  BY <1>0, <1>2 DEF OpenCompose, NoTurnstile, FormInv, Uploading, Forms, mail
<1>3. CASE Close
  BY <1>0, <1>3 DEF Close, FormInv, Uploading, Forms, mail
<1>4. CASE UploadFails
  <2>1. /\ form' = [form EXCEPT !.todo = {}, !.next = {}] /\ jobs' = jobs
        /\ Purge \/ UNCHANGED disk
    BY <1>4 DEF UploadFails, mail
  <2>2. \A g : Kept(g) => Kept(g)'
    BY <1>0, <2>1, PurgeKeepsListed
  <2>. QED  BY <1>0, <2>1, <2>2 DEF FormInv, Uploading, Forms
<1>5. CASE SendAnswered
  <2>1. form.sending # None /\ jobs[form.sending].phase \in {"answered", "gone"}
    BY <1>5 DEF SendAnswered
  <2>2. form.list = {} /\ ~Uploading
    BY <2>1 DEF FormInv
  <2>3. /\ form' = [form EXCEPT !.sending = None, !.list = {}]
        /\ jobs' = jobs
    BY <1>0, <1>5, <2>2 DEF SendAnswered, mail, Forms
  <2>4. \A j \in Jobs : ~(jobs[j].phase = "checking" /\ jobs[j].kind = "staged")
    BY <2>1 DEF FormInv
  <2>. QED  BY <1>0, <2>2, <2>3, <2>4 DEF FormInv, Uploading, Forms
<1>6. ASSUME NEW chosen, AddFiles(chosen)  PROVE FormInv'
  <2>1. /\ form.open /\ ~Uploading /\ form.sending = None
        /\ chosen \cap form.list = {}
        /\ form' = [form EXCEPT !.todo = chosen, !.next = form.list]
        /\ jobs' = jobs /\ UNCHANGED disk
    BY <1>6 DEF AddFiles, mail
  <2>. QED  BY <1>0, <1>1, <2>1 DEF FormInv, Uploading, Forms
<1>7. ASSUME NEW f \in Files, Upload(f)  PROVE FormInv'
  <2>1. f \in form.todo \ metas /\ Put(f, "no") /\ form' = form /\ jobs' = jobs
    BY <1>7 DEF Upload, mail
  <2>2. \A g \in form.list \cup form.next : Kept(g) => Kept(g)'
    BY <1>0, <2>1, PutKeepsListed
  <2>. QED  BY <2>1, <2>2 DEF FormInv, Uploading
<1>8. ASSUME NEW f \in Files, Uploaded(f)  PROVE FormInv'
  <2>1. f \in form.todo \cap metas /\ jobs' = jobs /\ UNCHANGED disk
    BY <1>8 DEF Uploaded, mail
  <2>2. Kept(f)' /\ Uploading /\ form.sending = None
    BY <2>1 DEF Kept, disk, FormInv, Uploading
  <2>3. CASE form.todo = {f}
    <3>1. form' = [form EXCEPT !.todo = {}, !.next = {}, !.list = form.next \cup {f}]
      BY <1>8, <2>3 DEF Uploaded
    <3>. QED  BY <1>0, <1>1, <2>1, <2>2, <3>1 DEF FormInv, Uploading, Forms
  <2>4. CASE form.todo # {f}
    <3>1. form' = [form EXCEPT !.todo = @ \ {f}, !.next = @ \cup {f}]
      BY <1>8, <2>4 DEF Uploaded
    <3>. QED  BY <1>0, <1>1, <2>1, <2>2, <3>1 DEF FormInv, Uploading, Forms
  <2>. QED  BY <2>3, <2>4
<1>9. ASSUME NEW f \in Files, Remove(f)  PROVE FormInv'
  <2>1. /\ ~Uploading /\ form.sending = None /\ jobs' = jobs
        /\ form' = [form EXCEPT !.list = @ \ {f}]
        /\ Discard({f})
    BY <1>9 DEF Remove, mail
  <2>2. ASSUME NEW g \in form.list \ {f}, Kept(g)  PROVE Kept(g)'
    <3>1. PICK reached \in SUBSET {f} : Drop(reached \cap metas, {})
      BY <2>1 DEF Discard, Delete
    <3>. QED  BY <1>0, <2>2, <3>1, DropKeepsListed
  <2>. QED  BY <1>0, <2>1, <2>2 DEF FormInv, Uploading, Forms
<1>10. ASSUME NEW j \in Jobs, Send(j)  PROVE FormInv'
  <2>1. /\ ~Uploading /\ form.sending = None
        /\ form' = [form EXCEPT !.open = FALSE, !.list = {}, !.sending = j]
        /\ \A i \in Jobs \ {j} : jobs'[i] = jobs[i]
    BY <1>10 DEF Send, TypeOK
  <2>2. \A i \in Jobs \ {j} : ~(jobs[i].phase = "checking" /\ jobs[i].kind = "staged")
    BY <2>1 DEF FormInv
  <2>. QED  BY <1>0, <2>1, <2>2 DEF FormInv, Uploading, Forms
<1>. QED  BY <1>2, <1>3, <1>4, <1>5, <1>6, <1>7, <1>8, <1>9, <1>10 DEF Compose

\* A crash, also inside a write to the directory.
LEMMA CrashKeepsForm ==
    ASSUME TypeOK, FormInv, Crash
    PROVE  FormInv'
<1>1. /\ form' = form /\ now' = now
      /\ \A j \in Jobs : jobs'[j] = jobs[j] \/ jobs'[j].phase = "gone"
      /\ CutShort \/ UNCHANGED disk
  BY DEF Crash, Over, NoJob
<1>2. ASSUME NEW g \in form.list \cup form.next, Kept(g)  PROVE Kept(g)'
  <2>1. CASE UNCHANGED disk
    BY <1>1, <1>2, <2>1, PurgeKeepsListed
  <2>2. CASE \E f \in form.todo \ (metas \cup bins), cut \in {"bytes", "meta"} : Put(f, cut)
    <3>1. form.todo \cap (form.list \cup form.next) = {}
      BY DEF FormInv
    <3>. QED  BY <1>1, <1>2, <2>2, <3>1, PutKeepsListed
  <2>3. CASE \E f \in metas \ (form.list \cup form.next) : Drop({f}, {f})
    BY <1>1, <1>2, <2>3, DropKeepsListed
  <2>. QED  BY <1>1, <2>1, <2>2, <2>3 DEF CutShort
<1>. QED  BY <1>1, <1>2 DEF FormInv, Uploading

\* No step of the specification breaks the invariant.
LEMMA FormStep ==
    ASSUME TypeOK, FormInv, [Next]_vars
    PROVE  FormInv'
<1>1. CASE Tick \/ UNCHANGED vars
  <2>1. /\ form' = form /\ jobs' = jobs /\ UNCHANGED disk /\ now' \in Nat /\ now <= now'
    BY <1>1 DEF Tick, vars, clock, mail, TypeOK
  <2>2. ASSUME NEW g \in Files, Kept(g)  PROVE Kept(g)'
    BY <2>1, <2>2, OutboundAssumption DEF Kept, disk, TypeOK
  <2>3. form.list \subseteq Files /\ form.next \subseteq Files
    BY DEF TypeOK, Forms
  <2>. QED  BY <2>1, <2>2, <2>3 DEF FormInv, Uploading
<1>2. CASE \E j \in Jobs : Submit(j) \/ Process(j) \/ Host(j)
  BY <1>2, MessageKeepsForm
<1>. QED  BY <1>1, <1>2, ComposeKeepsForm, CrashKeepsForm DEF Next

\* Whatever other messages take, purges drop and crashes cut short: a file that the
\* composer lists is staged until it expires.
THEOREM ListStaysStaged == Spec => []ListedIsStaged
<1>1. Init => FormInv
  BY DEF Init, FormInv, NoForm, NoJob, Uploading
<1>2. TypeOK /\ FormInv /\ [Next]_vars => FormInv'
  BY FormStep
<1>3. FormInv => ListedIsStaged
  BY DEF FormInv, Kept, ListedIsStaged
<1>. QED  BY <1>1, <1>2, <1>3, TypeCorrect, PTL DEF Spec
=============================================================================
