---------------------------- MODULE PairingProofs ----------------------------
(***************************************************************************)
(* Pairing for any number of mailboxes, devices, passkeys and sessions.    *)
(* What the runs check is not inductive: that the host seals for the guest *)
(* that waits rests on what is known of a session before anybody joined,   *)
(* that a device finds its wrap on who owns a passkey, and that a link was *)
(* taken or overtaken on what is known of it while it is on its way.       *)
(***************************************************************************)
EXTENDS Pairing, FiniteSetTheorems, SequenceTheorems, TLAPS

HasJoined(d) == guests[d].step \in {"passkey", "wait", "opened"}

\* A session and those who take part in it: nobody before it begins and is joined,
\* afterwards one transport key, for which alone the host seals.
SessionInv(s) ==
    LET session == sessions[s] IN
    /\ session.status \in {"none", "waiting"} =>
           /\ \A d \in Devices : HasJoined(d) => guests[d].sid # s
           /\ \A x \in Names : hosts[x].phase = "sealing" => hosts[x].sid # s
    /\ session.status \in {"joined", "granted"} =>
           \A d \in Devices : HasJoined(d) /\ guests[d].sid = s =>
               /\ guests[d].key = session.guestPub
               /\ guests[d].step \in {"wait", "opened"} => guests[d].name = session.name
    /\ session.status = "joined" =>
           \A x \in Names : hosts[x].phase = "sealing" /\ hosts[x].sid = s =>
               hosts[x].key = session.guestPub
    /\ session.status = "granted" => session.sealed = session.guestPub

\* Until a session is over it has served nobody, then one credential at most.
ServedInv(s) ==
    IF sessions[s].status = "gone" THEN \E c : served[s] \subseteq {c} ELSE served[s] = {}

\* The passkey is a controller, or another write took the nonce of its link.
Settled(link) ==
    \/ link.cred \in controllers
    \/ /\ link.name \in Names
       /\ \E i \in DOMAIN writes[link.name] :
              i = link.nonce + 1 /\ writes[link.name][i] # link.cred

\* What the guest has sent.
Sent(d) == Link(d, guests[d].nonce)

\* A guest that has a passkey owns it; its link is on its way before it is settled; one
\* that is done finds its wrap.
GuestInv(d) ==
    LET guest == guests[d] IN
    /\ HasJoined(d) => guest.sid \in Sids
    /\ guest.step \in {"wait", "opened", "invited", "linking", "linked", "done"} =>
           guest.cred \in Creds /\ owner[guest.cred] = d
    /\ guest.step \in {"invited", "linking", "linked"} => guest.name \in Names
    /\ guest.step = "linking" => Sent(d) \in txs \/ Settled(Sent(d))
    /\ guest.step = "linked" => Settled(Sent(d))
    /\ guest.step = "done" =>
           /\ disk.torn \/ wraps[guest.cred] = guest.name
           /\ guest.sid = 0 => Settled(Sent(d))

\* A link that was sent was signed for the nonce of its day; what a nonce was used up
\* for is a controller, where it was a link.
ChainInv ==
    /\ \A link \in txs : link.nonce <= Nonce(link.name)
    /\ \A x \in Names : \A i \in DOMAIN writes[x] : writes[x][i] \in controllers \cup {None}

PairingInv ==
    /\ disk.rows = wraps /\ (disk.torn => ~up)
    /\ ChainInv
    /\ \A s \in Sids : SessionInv(s) /\ ServedInv(s)
    /\ \A d \in Devices : GuestInv(d)
-----------------------------------------------------------------------------
(* Types.                                                                  *)

\* What a status says that is not "unknown".
LEMMA StatusMeans ==
    ASSUME TypeOK, NEW s, Status(s) \in {"waiting", "joined", "granted"}
    PROVE  s \in Sids /\ up /\ sessions[s].status = Status(s)
BY DEF Status, Live

\* A passkey that is created or connected belongs to the device.
LEMMA OwnType ==
    ASSUME TypeOK, NEW d \in Devices, NEW c \in Creds, OwnPasskey(d, c)
    PROVE  /\ owner' \in [Creds -> Devices \cup {None}]
           /\ owner'[c] = d
           /\ \A b \in Creds : owner[b] # None => owner'[b] = owner[b]
BY DEF OwnPasskey, TypeOK

\* The actions of the sessions keep the types.
LEMMA SessionsType ==
    ASSUME TypeOK, NEW s \in Sids,
           \/ \E x \in Names : Create(s, x)
           \/ \E key \in Nat : JoinSession(s, key) \/ Grant(s, key)
           \/ MarkFinished(s)
    PROVE  sessions' \in [Sids -> SessionRecords]
<1>0. sessions \in [Sids -> SessionRecords] /\ sessions[s] \in SessionRecords
  BY DEF TypeOK
<1>1. ASSUME NEW x \in Names, Create(s, x)  PROVE sessions' \in [Sids -> SessionRecords]
  <2>. DEFINE r == [NoSession EXCEPT !.status = "waiting", !.name = x]
  <2>1. r \in SessionRecords
    BY DEF NoSession, SessionRecords
  <2>. QED  BY <1>0, <1>1, <2>1 DEF Create
<1>2. ASSUME NEW key \in Nat, JoinSession(s, key) \/ Grant(s, key)
      PROVE  sessions' \in [Sids -> SessionRecords]
  <2>. DEFINE r == [sessions[s] EXCEPT !.status = "joined", !.guestPub = key]
              q == [sessions[s] EXCEPT !.status = "granted", !.sealed = key]
  <2>1. r \in SessionRecords /\ q \in SessionRecords
    BY <1>0 DEF SessionRecords
  <2>2. sessions' = [sessions EXCEPT ![s] = r] \/ sessions' = [sessions EXCEPT ![s] = q]
    BY <1>0, <1>2 DEF JoinSession, Grant
  <2>. QED  BY <1>0, <2>1, <2>2
<1>3. CASE MarkFinished(s)
  <2>1. [NoSession EXCEPT !.status = "gone"] \in SessionRecords
    BY DEF NoSession, SessionRecords
  <2>. QED  BY <1>0, <1>3, <2>1 DEF MarkFinished
<1>. QED  BY <1>1, <1>2, <1>3

\* Storing a wrap keeps the types, and memory and file agree.
LEMMA WrapType ==
    ASSUME TypeOK, NEW c \in Creds, NEW x \in Names \cup {None}, SetWrap(c, x)
    PROVE  /\ wraps' \in Wraps /\ disk' \in [torn : BOOLEAN, rows : Wraps]
           /\ disk'.rows = wraps' /\ ~disk'.torn
BY DEF TypeOK, SetWrap, Wraps

\* What a guest holds after it has joined a session, and after it has its invite.
LEMMA NewGuest ==
    ASSUME NEW key \in Nat
    PROVE  /\ Scanning \in GuestRecords
           /\ \A s \in Sids :
                  [Scanning EXCEPT !.step = "passkey", !.sid = s, !.key = key] \in GuestRecords
           /\ \A c \in Creds, x \in Names : Invitation(c, x, key) \in GuestRecords
<1>1. 0 \in 0..MaxSessions /\ \A s \in Sids : s \in 0..MaxSessions
  BY PairingAssumption DEF Sids
<1>2. Scanning \in GuestRecords
  BY <1>1 DEF Scanning, GuestRecords
<1>3. ASSUME NEW s \in Sids
      PROVE  [Scanning EXCEPT !.step = "passkey", !.sid = s, !.key = key] \in GuestRecords
  BY <1>1, <1>2 DEF GuestRecords
<1>4. ASSUME NEW c \in Creds, NEW x \in Names  PROVE Invitation(c, x, key) \in GuestRecords
  BY <1>1, <1>2 DEF GuestRecords, Invitation
<1>. QED  BY <1>2, <1>3, <1>4

\* The host.
LEMMA HostType ==
    ASSUME TypeOK, NEW x \in Names, Host(x)
    PROVE  TypeOK'
<1>1. CASE ShowQr(x)
  <2>1. PICK s \in Sids :
            /\ Create(s, x)
            /\ hosts' = [hosts EXCEPT ![x] = [phase |-> "polling", sid |-> s, key |-> 0]]
    BY <1>1 DEF ShowQr
  <2>2. sessions' \in [Sids -> SessionRecords]
    BY <2>1, SessionsType
  <2>3. hosts' \in [Names -> HostRecords]
    BY <2>1, PairingAssumption DEF TypeOK, HostRecords, Sids
  <2>. QED  BY <1>1, <2>2, <2>3 DEF ShowQr, TypeOK, chain, carried
<1>2. CASE HostPolls(x)
  <2>1. hosts[x].sid \in Sids
    BY <1>2, StatusMeans DEF HostPolls
  <2>2. sessions[hosts[x].sid].guestPub \in Nat
    BY <2>1 DEF TypeOK, SessionRecords
  <2> DEFINE sealing == [hosts[x] EXCEPT !.phase = "sealing", !.key = sessions[hosts[x].sid].guestPub]
  <2>3. hosts \in [Names -> HostRecords] /\ hosts[x] \in HostRecords
    BY DEF TypeOK
  <2>4. sealing \in HostRecords
    BY <2>2, <2>3 DEF HostRecords
  <2>5. hosts' = [hosts EXCEPT ![x] = sealing]
    BY <1>2 DEF HostPolls
  <2> HIDE DEF sealing
  <2>6. hosts' \in [Names -> HostRecords]
    BY <2>3, <2>4, <2>5
  <2>. QED  BY <1>2, <2>6 DEF HostPolls, TypeOK, node, chain, carried
<1>3. CASE HostGrants(x)
  <2>1. sessions' \in [Sids -> SessionRecords]
    <3>1. CASE Grant(hosts[x].sid, hosts[x].key)
      <4>1. hosts[x].sid \in Sids /\ hosts[x].key \in Nat
        BY <3>1, StatusMeans DEF Grant, TypeOK, HostRecords
      <4>. QED  BY <3>1, <4>1, SessionsType
    <3>. QED  BY <1>3, <3>1 DEF HostGrants, TypeOK
  <2>2. hosts' \in [Names -> HostRecords]
    BY <1>3, PairingAssumption DEF HostGrants, TypeOK, HostRecords, Closed
  <2>. QED  BY <1>3, <2>1, <2>2 DEF HostGrants, TypeOK, chain, carried
<1>4. CASE HostStops(x)
  <2>1. hosts' \in [Names -> HostRecords]
    BY <1>4, PairingAssumption DEF HostStops, TypeOK, HostRecords, Closed
  <2>. QED  BY <1>4, <2>1 DEF HostStops, TypeOK, node, chain, carried
<1>. QED  BY <1>1, <1>2, <1>3, <1>4 DEF Host

\* The guest of a session.
LEMMA SessionGuestType ==
    ASSUME TypeOK, NEW d \in Devices,
           \/ \E s \in Sids : Join(d, s)
           \/ \E c \in Creds : ChoosePasskey(d, c)
           \/ FetchSealed(d) \/ GuestFails(d) \/ Finish(d)
    PROVE  TypeOK'
<1>0. guests[d] \in GuestRecords /\ guests \in [Devices -> GuestRecords]
  BY DEF TypeOK
<1>1. ASSUME NEW s \in Sids, Join(d, s)  PROVE TypeOK'
  <2>0. NewKey /\ keys \in Nat
    BY <1>1 DEF Join, TypeOK
  <2>1. keys' \in Nat
    BY <2>0 DEF NewKey
  <2>2. sessions' \in [Sids -> SessionRecords]
    BY <1>1, <2>1, SessionsType DEF Join
  <2>3. guests' \in [Devices -> GuestRecords]
    <3>1. [Scanning EXCEPT !.step = "passkey", !.sid = s, !.key = keys'] \in GuestRecords
      BY <2>1, NewGuest
    <3>. QED  BY <1>0, <1>1, <3>1 DEF Join
  <2>. QED  BY <1>1, <2>1, <2>2, <2>3 DEF Join, TypeOK, chain, carried
<1>2. ASSUME NEW c \in Creds, ChoosePasskey(d, c)  PROVE TypeOK'
  <2>1. guests[d].sid \in Sids
    BY <1>2 DEF ChoosePasskey, Live
  <2>2. sessions[guests[d].sid].name \in Names \cup {None}
    BY <2>1 DEF TypeOK, SessionRecords
  <2>3. guests' \in [Devices -> GuestRecords]
    BY <1>0, <1>2, <2>2 DEF ChoosePasskey, GuestRecords
  <2>4. owner' \in [Creds -> Devices \cup {None}]
    BY <1>2, OwnType DEF ChoosePasskey
  <2>. QED  BY <1>2, <2>3, <2>4 DEF ChoosePasskey, TypeOK, node, chain, carried
<1>3. CASE FetchSealed(d) \/ GuestFails(d)
  <2>1. guests' \in [Devices -> GuestRecords]
    BY <1>0, <1>3 DEF FetchSealed, GuestFails, GuestRecords
  <2>. QED  BY <1>3, <2>1 DEF FetchSealed, GuestFails, TypeOK, node, chain, carried
<1>4. CASE Finish(d)
  <2>. DEFINE s == guests[d].sid  c == guests[d].cred
  <2>1. s \in Sids
    BY <1>4, StatusMeans DEF Finish, FinishSession
  <2>2. c \in Creds \cup {None} /\ sessions[s].name \in Names \cup {None}
    BY <1>0, <2>1 DEF TypeOK, GuestRecords, SessionRecords
  <2>3. sessions' \in [Sids -> SessionRecords]
    BY <1>4, <2>1, SessionsType DEF Finish, FinishSession
  <2>4. guests' \in [Devices -> GuestRecords]
    BY <1>0, <1>4 DEF Finish, GuestRecords
  <2>5. wraps' \in Wraps /\ disk' \in [torn : BOOLEAN, rows : Wraps]
    BY <1>4, <2>2 DEF Finish, FinishSession, SetWrap, TypeOK, Wraps
  <2>6. served' \in [Sids -> SUBSET (Creds \cup {None})]
    BY <1>4, <2>2 DEF Finish, FinishSession, TypeOK
  <2>. QED  BY <1>4, <2>3, <2>4, <2>5, <2>6 DEF Finish, TypeOK, chain, carried
<1>. QED  BY <1>1, <1>2, <1>3, <1>4

\* How many writes there were.
LEMMA NonceType ==
    ASSUME TypeOK, NEW x \in Names
    PROVE  writes[x] \in Seq(Creds \cup {None}) /\ Nonce(x) \in Nat
BY LenProperties DEF TypeOK, Nonce

\* A guest that sends its link.
LEMMA AcceptMoves ==
    ASSUME TypeOK, NEW d \in Devices, NEW nonce \in Nat,
           guests' = [guests EXCEPT ![d].step = "linking", ![d].nonce = nonce]
    PROVE  /\ guests' \in [Devices -> GuestRecords]
           /\ guests'[d].step = "linking" /\ guests'[d].nonce = nonce
           /\ guests'[d].name = guests[d].name /\ guests'[d].cred = guests[d].cred
           /\ guests'[d].key = guests[d].key
           /\ \A e \in Devices : e # d => guests'[e] = guests[e]
<1>0. guests[d] \in GuestRecords /\ guests \in [Devices -> GuestRecords]
  BY DEF TypeOK
<1>. DEFINE r == [guests[d] EXCEPT !.step = "linking", !.nonce = nonce]
<1>1. /\ r \in GuestRecords /\ r.step = "linking" /\ r.nonce = nonce
      /\ r.name = guests[d].name /\ r.cred = guests[d].cred /\ r.key = guests[d].key
  BY <1>0 DEF GuestRecords
<1>2. guests' = [guests EXCEPT ![d] = r]
  BY <1>0
<1>. HIDE DEF r
<1>. QED  BY <1>0, <1>1, <1>2

\* The guest of another service, and what may happen to any guest.
LEMMA OtherGuestType ==
    ASSUME TypeOK, NEW d \in Devices, GuestInv(d),
           \/ \E c \in Creds, x \in Names : Invite(d, c, x)
           \/ Confirm(d) \/ Back(d) \/ IssueGrant(d) \/ AcceptGrant(d)
           \/ LinkAnswered(d) \/ LinkFails(d) \/ StoreServiceWrap(d)
           \/ Reload(d) \/ CrashInFlush(d)
    PROVE  TypeOK'
<1>0. guests[d] \in GuestRecords /\ guests \in [Devices -> GuestRecords]
  BY DEF TypeOK
<1>1. ASSUME NEW c \in Creds, NEW x \in Names, Invite(d, c, x)  PROVE TypeOK'
  <2>0. NewKey /\ keys \in Nat /\ owner' \in [Creds -> Devices \cup {None}]
    BY <1>1 DEF Invite, TypeOK
  <2>1. keys' \in Nat
    BY <2>0 DEF NewKey
  <2>2. guests' \in [Devices -> GuestRecords]
    <3>1. Invitation(c, x, keys') \in GuestRecords
      BY <2>1, NewGuest
    <3>. QED  BY <1>0, <1>1, <3>1 DEF Invite, SignInvite
  <2>. QED  BY <1>1, <2>0, <2>1, <2>2 DEF Invite, TypeOK, node, chain, carried
<1>2. CASE Confirm(d) \/ Back(d)
  BY <1>0, <1>2 DEF Confirm, Back, TypeOK, node, GuestRecords
<1>3. CASE IssueGrant(d)
  <2>1. guests[d].name \in Names /\ guests[d].cred \in Creds /\ guests[d].key \in Nat
    BY <1>0, <1>3 DEF IssueGrant, HasInvite, GuestInv, GuestRecords
  <2>2. Nonce(guests[d].name) \in Nat
    BY <2>1, NonceType
  <2>3. LinkChallenge(d) \in Links
    BY <2>1, <2>2 DEF LinkChallenge, Link, Links
  <2>4. confirmed' \subseteq Nat
    BY <1>3 DEF IssueGrant, TypeOK
  <2>. QED  BY <1>3, <2>3, <2>4 DEF IssueGrant, TypeOK, node
<1>4. CASE AcceptGrant(d)
  <2>1. PICK nonce \in 0..Nonce(guests[d].name) :
            /\ Link(d, nonce) \in granted /\ SubmitLink(Link(d, nonce))
            /\ guests' = [guests EXCEPT ![d].step = "linking", ![d].nonce = nonce]
    BY <1>4 DEF AcceptGrant
  <2>2. Link(d, nonce) \in Links /\ nonce \in Nat
    BY <2>1 DEF TypeOK
  <2>3. guests' \in [Devices -> GuestRecords]
    BY <1>0, <2>1, <2>2, AcceptMoves
  <2>4. txs' \subseteq Links
    BY <2>1, <2>2 DEF SubmitLink, TypeOK
  <2>. QED  BY <1>4, <2>3, <2>4 DEF AcceptGrant, TypeOK, node, carried
<1>8. CASE LinkAnswered(d) \/ LinkFails(d)
  <2>1. guests' \in [Devices -> GuestRecords]
    BY <1>0, <1>8 DEF LinkAnswered, LinkFails, GuestRecords
  <2>. QED  BY <1>8, <2>1 DEF LinkAnswered, LinkFails, TypeOK, node, chain, carried
<1>5. CASE StoreServiceWrap(d)
  <2>1. guests' \in [Devices -> GuestRecords]
    BY <1>0, <1>5 DEF StoreServiceWrap, GuestRecords
  <2>2. wraps' \in Wraps /\ disk' \in [torn : BOOLEAN, rows : Wraps]
    <3>1. CASE ServiceWrap(guests[d].cred, guests[d].name)
      BY <1>0, <3>1 DEF ServiceWrap, SetWrap, TypeOK, Wraps, GuestRecords
    <3>2. CASE UNCHANGED <<wraps, disk>>
      BY <3>2 DEF TypeOK
    <3>. QED  BY <1>5, <3>1, <3>2 DEF StoreServiceWrap
  <2>. QED  BY <1>5, <2>1, <2>2 DEF StoreServiceWrap, TypeOK, chain, carried
<1>6. CASE Reload(d)
  <2>1. guests' \in [Devices -> GuestRecords]
    BY <1>0, <1>6, PairingAssumption DEF Reload, GuestRecords, Scanning
  <2>. QED  BY <1>6, <2>1 DEF Reload, TypeOK, node
<1>7. CASE CrashInFlush(d)
  BY <1>7 DEF CrashInFlush, NoWraps, Wraps, TypeOK, chain, carried
<1>. QED  BY <1>1, <1>2, <1>3, <1>4, <1>5, <1>6, <1>7, <1>8

\* The registry.
LEMMA ChainType ==
    ASSUME TypeOK,
           \/ \E link \in txs : MineLink(link)
           \/ \E x \in Names : OtherWrite(x)
    PROVE  TypeOK'
<1>0. controllers \subseteq Creds /\ writes \in [Names -> Seq(Creds \cup {None})]
  BY DEF TypeOK
<1>1. ASSUME NEW x \in Names, OtherWrite(x)  PROVE TypeOK'
  <2>1. writes[x] \in Seq(Creds \cup {None})
    BY <1>0
  <2>2. Append(writes[x], None) \in Seq(Creds \cup {None})
    BY <2>1, AppendProperties
  <2>3. writes' \in [Names -> Seq(Creds \cup {None})]
    BY <1>0, <1>1, <2>2 DEF OtherWrite
  <2>. QED  BY <1>1, <2>3 DEF OtherWrite, TypeOK, node, carried
<1>2. ASSUME NEW link \in txs, MineLink(link)  PROVE TypeOK'
  <2>1. link \in Links /\ txs' \subseteq Links
    BY <1>2 DEF MineLink, TypeOK
  <2>2. link.name \in Names /\ link.cred \in Creds
    BY <2>1 DEF Links
  <2>3. Append(writes[link.name], link.cred) \in Seq(Creds \cup {None})
    BY <1>0, <2>2, AppendProperties
  <2>4. controllers' \subseteq Creds /\ writes' \in [Names -> Seq(Creds \cup {None})]
    BY <1>0, <1>2, <2>2, <2>3 DEF MineLink
  <2>. QED  BY <1>2, <2>1, <2>4 DEF MineLink, TypeOK, node, carried
<1>. QED  BY <1>1, <1>2

\* Every variable keeps its type.
LEMMA TypeStep == TypeOK /\ PairingInv /\ [Next]_vars => TypeOK'
<1>. SUFFICES ASSUME TypeOK, PairingInv, [Next]_vars PROVE TypeOK'
  OBVIOUS
<1>1. ASSUME NEW s \in Sids, Expire(s)  PROVE TypeOK'
  <2>1. sessions' \in [Sids -> SessionRecords]
    BY <1>1, SessionsType DEF Expire, MarkFinished
  <2>. QED  BY <1>1, <2>1 DEF Expire, TypeOK, chain, carried
<1>2. CASE Restart
  <2>1. sessions' \in [Sids -> SessionRecords]
    BY <1>2 DEF Restart, SessionRecords, NoSession
  <2>. QED  BY <1>2, <2>1 DEF Restart, TypeOK, chain, carried
<1>3. CASE UNCHANGED vars
  BY <1>3 DEF vars, node, chain, carried, TypeOK
<1>4. ASSUME NEW d \in Devices, Guest(d)  PROVE TypeOK'
  BY <1>4, SessionGuestType, OtherGuestType DEF Guest, PairingInv
<1>. QED  BY <1>1, <1>2, <1>3, <1>4, HostType, ChainType DEF Next

-----------------------------------------------------------------------------
(* The invariant.                                                          *)

\* A guest that has joined and a host that seals still take part as they did.
GuestKeeps(d) ==
    HasJoined(d)' =>
        /\ HasJoined(d)
        /\ guests'[d].sid = guests[d].sid /\ guests'[d].key = guests[d].key
        /\ guests'[d].step \in {"wait", "opened"} =>
               guests[d].step \in {"wait", "opened"} /\ guests'[d].name = guests[d].name

HostKeeps(x) ==
    hosts'[x].phase = "sealing" =>
        /\ hosts[x].phase = "sealing"
        /\ hosts'[x].sid = hosts[x].sid /\ hosts'[x].key = hosts[x].key

\* A session that is not written keeps its facts when guests and hosts only
\* move forward.
LEMMA SessionKeeps ==
    ASSUME NEW s, SessionInv(s), sessions'[s] = sessions[s],
           \A d \in Devices : GuestKeeps(d), \A x \in Names : HostKeeps(x)
    PROVE  SessionInv(s)'
BY DEF SessionInv, GuestKeeps, HostKeeps

\* A session that was removed owes nothing.
LEMMA GoneSession ==
    ASSUME NEW s, sessions'[s].status = "gone"
    PROVE  SessionInv(s)'
BY DEF SessionInv

\* What is settled stays so, and no link gets lost before.
ChainKeeps ==
    /\ \A link : Settled(link) => Settled(link)'
    /\ \A link \in txs : link \in txs' \/ Settled(link)'

\* The wraps of the passkeys of a device stay, unless the file is torn.
WrapsKeep(d) ==
    \/ disk'.torn
    \/ ~disk.torn /\ \A c \in Creds : owner[c] = d => wraps'[c] = wraps[c]

\* Where the registry does not move.
LEMMA ChainStands ==
    ASSUME UNCHANGED <<controllers, writes>>, txs \subseteq txs'
    PROVE  ChainKeeps
BY DEF ChainKeeps, Settled

\* Where the wraps do not move.
LEMMA WrapsStand ==
    ASSUME UNCHANGED <<wraps, disk>>, NEW d
    PROVE  WrapsKeep(d)
BY DEF WrapsKeep

\* Guests and hosts that do not move keep what is known of them.
LEMMA GuestsStand ==
    ASSUME TypeOK, NEW d \in Devices, GuestInv(d),
           guests'[d] = guests[d], ChainKeeps, WrapsKeep(d),
           \A c \in Creds : owner[c] # None => owner'[c] = owner[c]
    PROVE  GuestInv(d)' /\ GuestKeeps(d)
<1>1. GuestKeeps(d) /\ (HasJoined(d)' <=> HasJoined(d)) /\ Sent(d)' = Sent(d)
  BY DEF GuestKeeps, HasJoined, Sent, Link
<1>2. /\ Settled(Sent(d)) => Settled(Sent(d))'
      /\ Sent(d) \in txs => Sent(d) \in txs' \/ Settled(Sent(d))'
  BY <1>1 DEF ChainKeeps, Settled
<1>3. CASE guests[d].step \in {"wait", "opened", "invited", "linking", "linked", "done"}
  <2>1. guests[d].cred \in Creds /\ owner[guests[d].cred] = d /\ d # None
    BY <1>3, PairingAssumption DEF GuestInv
  <2>2. owner'[guests[d].cred] = d
    BY <2>1
  <2>3. disk.torn \/ wraps[guests[d].cred] = guests[d].name
        => disk'.torn \/ wraps'[guests[d].cred] = guests[d].name
    BY <2>1 DEF WrapsKeep
  <2>. QED  BY <1>1, <1>2, <1>3, <2>1, <2>2, <2>3 DEF GuestInv
<1>4. CASE guests[d].step \notin {"wait", "opened", "invited", "linking", "linked", "done"}
  BY <1>1, <1>4 DEF GuestInv
<1>. QED  BY <1>1, <1>3, <1>4

\* The host.
LEMMA HostKeepsInv ==
    ASSUME TypeOK, PairingInv, NEW x \in Names, Host(x)
    PROVE  PairingInv'
<1>0. /\ UNCHANGED <<wraps, disk, up, guests, owner, controllers, writes, txs, served>>
      /\ sessions \in [Sids -> SessionRecords] /\ hosts \in [Names -> HostRecords]
  BY DEF Host, ShowQr, HostPolls, HostGrants, HostStops, node, chain, carried, TypeOK
<1>1. \A d \in Devices : GuestInv(d)' /\ GuestKeeps(d)
  BY <1>0, GuestsStand, ChainStands, WrapsStand DEF PairingInv
<1>2. disk'.rows = wraps' /\ (disk'.torn => ~up') /\ ChainInv'
  BY <1>0 DEF PairingInv, ChainInv, Nonce
<1>3. ASSUME NEW y \in Names, y # x  PROVE HostKeeps(y)
  BY <1>0, <1>3 DEF Host, ShowQr, HostPolls, HostGrants, HostStops, HostKeeps
<1>4. CASE ShowQr(x)
  <2>1. PICK s \in Sids :
            /\ Create(s, x)
            /\ hosts' = [hosts EXCEPT ![x] = [phase |-> "polling", sid |-> s, key |-> 0]]
    BY <1>4 DEF ShowQr
  <2>2. \A y \in Names : HostKeeps(y)
    BY <1>0, <1>3, <2>1 DEF HostKeeps
  <2>3. ASSUME NEW r \in Sids  PROVE SessionInv(r)' /\ ServedInv(r)'
    <3>1. CASE r # s
      <4>1. sessions'[r] = sessions[r]
        BY <1>0, <2>1, <3>1 DEF Create
      <4>2. SessionInv(r)'
        BY <4>1, <1>1, <2>2, SessionKeeps DEF PairingInv
      <4>. QED  BY <1>0, <4>1, <4>2 DEF PairingInv, ServedInv
    <3>2. CASE r = s
      <4>1. sessions[r].status = "none" /\ sessions'[r].status = "waiting"
        BY <1>0, <2>1, <3>2 DEF Create, NoSession
      <4>2. SessionInv(r) /\ ServedInv(r)
        BY DEF PairingInv
      <4>3. SessionInv(r)'
        BY <1>1, <2>2, <4>1, <4>2 DEF SessionInv, GuestKeeps, HostKeeps
      <4>. QED  BY <1>0, <4>1, <4>2, <4>3 DEF ServedInv
    <3>. QED  BY <3>1, <3>2
  <2>. QED  BY <1>1, <1>2, <2>3 DEF PairingInv
<1>5. CASE HostPolls(x)
  <2>. DEFINE s == hosts[x].sid
  <2>1. s \in Sids /\ sessions[s].status = "joined" /\ UNCHANGED sessions
    BY <1>5, StatusMeans DEF HostPolls, node
  <2>2. hosts'[x].sid = s /\ hosts'[x].key = sessions[s].guestPub
    BY <1>0, <1>5 DEF HostPolls, HostRecords
  <2>3. ASSUME NEW r \in Sids  PROVE SessionInv(r)' /\ ServedInv(r)'
    <3>1. SessionInv(r) /\ ServedInv(r)
      BY DEF PairingInv
    <3>2. SessionInv(r)'
      BY <1>1, <1>3, <2>1, <2>2, <3>1 DEF SessionInv, GuestKeeps, HostKeeps
    <3>. QED  BY <1>0, <2>1, <3>1, <3>2 DEF ServedInv
  <2>. QED  BY <1>1, <1>2, <2>3 DEF PairingInv
<1>6. CASE HostGrants(x)
  <2>. DEFINE s == hosts[x].sid
  <2>1. \A y \in Names : HostKeeps(y)
    BY <1>0, <1>3, <1>6 DEF HostGrants, HostKeeps, Closed
  <2>2. CASE UNCHANGED sessions
    <3>1. \A r \in Sids : SessionInv(r)'
      BY <1>1, <2>1, <2>2, SessionKeeps DEF PairingInv
    <3>2. \A r \in Sids : ServedInv(r)'
      BY <1>0, <2>2 DEF PairingInv, ServedInv
    <3>. QED  BY <1>1, <1>2, <3>1, <3>2 DEF PairingInv
  <2>3. CASE Grant(s, hosts[x].key)
    <3>1. s \in Sids /\ sessions[s].status = "joined"
      BY <2>3, StatusMeans DEF Grant
    <3>2. sessions' = [sessions EXCEPT ![s] = [sessions[s] EXCEPT
                          !.status = "granted", !.sealed = hosts[x].key]]
      BY <1>0, <2>3, <3>1 DEF Grant
    <3>3. /\ sessions'[s].status = "granted" /\ sessions'[s].sealed = hosts[x].key
          /\ sessions'[s].guestPub = sessions[s].guestPub
          /\ sessions'[s].name = sessions[s].name
      BY <1>0, <3>1, <3>2 DEF SessionRecords
    <3>4. ASSUME NEW r \in Sids  PROVE SessionInv(r)' /\ ServedInv(r)'
      <4>1. SessionInv(r) /\ ServedInv(r)
        BY DEF PairingInv
      <4>2. CASE r # s
        <5>1. sessions'[r] = sessions[r]
          BY <1>0, <3>2, <4>2
        <5>2. SessionInv(r)'
          BY <4>1, <5>1, <1>1, <2>1, SessionKeeps
        <5>. QED  BY <1>0, <4>1, <5>1, <5>2 DEF ServedInv
      <4>3. CASE r = s
        <5>1. hosts[x].phase = "sealing"
          BY <1>6 DEF HostGrants
        <5>2. hosts[x].key = sessions[s].guestPub
          BY <3>1, <4>1, <4>3, <5>1 DEF SessionInv
        <5>3. SessionInv(r)'
          BY <1>1, <3>1, <3>3, <4>1, <4>3, <5>2 DEF SessionInv, GuestKeeps
        <5>. QED  BY <1>0, <3>1, <3>3, <4>1, <4>3, <5>3 DEF ServedInv
      <4>. QED  BY <4>2, <4>3
    <3>. QED  BY <1>1, <1>2, <3>4 DEF PairingInv
  <2>. QED  BY <1>6, <2>2, <2>3 DEF HostGrants
<1>7. CASE HostStops(x)
  <2>1. \A y \in Names : HostKeeps(y)
    BY <1>0, <1>3, <1>7 DEF HostStops, HostKeeps, Closed
  <2>2. UNCHANGED sessions
    BY <1>7 DEF HostStops, node
  <2>3. \A r \in Sids : SessionInv(r)'
    BY <1>1, <2>1, <2>2, SessionKeeps DEF PairingInv
  <2>4. \A r \in Sids : ServedInv(r)'
    BY <1>0, <2>2 DEF PairingInv, ServedInv
  <2>. QED  BY <1>1, <1>2, <2>3, <2>4 DEF PairingInv
<1>. QED  BY <1>4, <1>5, <1>6, <1>7 DEF Host

\* A guest of which nothing is known until it has chosen again.
LEMMA GuestAnew ==
    ASSUME NEW d, guests'[d].step \in {"scan"}
    PROVE  GuestInv(d)' /\ GuestKeeps(d)
BY DEF GuestInv, GuestKeeps, HasJoined

\* What is known of the links, where none is added to them.
LEMMA ChainInvStands ==
    ASSUME ChainInv, UNCHANGED <<controllers, writes, txs>>
    PROVE  ChainInv'
BY DEF ChainInv, Nonce

\* Where the sessions do not change.
LEMMA SessionsStand ==
    ASSUME PairingInv, UNCHANGED <<sessions, served, hosts>>, disk'.rows = wraps',
           disk'.torn => ~up', ChainInv',
           \A d \in Devices : GuestInv(d)' /\ GuestKeeps(d)
    PROVE  PairingInv'
<1>1. \A x \in Names : HostKeeps(x)
  BY DEF HostKeeps
<1>2. \A s \in Sids : SessionInv(s)'
  BY <1>1, SessionKeeps DEF PairingInv
<1>3. \A s \in Sids : ServedInv(s)'
  BY DEF PairingInv, ServedInv
<1>. QED  BY <1>2, <1>3 DEF PairingInv

\* The guest of a session.
LEMMA SessionGuestKeepsInv ==
    ASSUME TypeOK, PairingInv, NEW d \in Devices,
           \/ \E s \in Sids : Join(d, s)
           \/ \E c \in Creds : ChoosePasskey(d, c)
           \/ FetchSealed(d) \/ GuestFails(d) \/ Finish(d)
    PROVE  PairingInv'
<1>0. /\ UNCHANGED <<hosts, controllers, writes, txs, up>>
      /\ guests \in [Devices -> GuestRecords] /\ guests[d] \in GuestRecords
      /\ sessions \in [Sids -> SessionRecords] /\ wraps \in Wraps
  BY DEF Join, ChoosePasskey, FetchSealed, GuestFails, Finish, chain, node, TypeOK
<1>9. \A e \in Devices : GuestInv(e)
  BY DEF PairingInv
<1>10. ChainKeeps /\ ChainInv' /\ \A e : UNCHANGED <<wraps, disk>> => WrapsKeep(e)
  BY <1>0, ChainStands, ChainInvStands, WrapsStand DEF PairingInv
<1>11. UNCHANGED disk => (disk'.torn => ~up')
  BY <1>0 DEF PairingInv
<1>1. ASSUME NEW s \in Sids, Join(d, s)  PROVE PairingInv'
  <2>1. UNCHANGED <<wraps, disk, owner, served>>
    BY <1>1 DEF Join
  <2>2. \A e \in Devices : e # d => GuestInv(e)' /\ GuestKeeps(e)
    BY <1>0, <1>9, <1>10, <1>1, <2>1, GuestsStand DEF Join
  <2>3. sessions[s].status = "waiting"
    <3>1. Status(s) = "waiting"
      BY <1>1 DEF Join, JoinSession
    <3>. QED  BY <3>1, StatusMeans
  <2>4. sessions' = [sessions EXCEPT ![s] = [sessions[s] EXCEPT
                        !.status = "joined", !.guestPub = keys']]
    BY <1>0, <1>1 DEF Join, JoinSession
  <2>5. sessions'[s].status = "joined" /\ sessions'[s].guestPub = keys'
    BY <1>0, <2>4 DEF SessionRecords
  <2>6. \/ UNCHANGED guests
        \/ /\ guests'[d].step = "passkey" /\ guests'[d].sid = s /\ guests'[d].key = keys'
    BY <1>0, <1>1 DEF Join, Scanning
  <2>7. GuestInv(d)'
    <3>1. CASE UNCHANGED guests
      BY <1>0, <1>9, <1>10, <2>1, <3>1, GuestsStand
    <3>2. CASE guests'[d].step = "passkey" /\ guests'[d].sid = s
      BY <3>2 DEF GuestInv, HasJoined
    <3>. QED  BY <2>6, <3>1, <3>2
  <2>8. ASSUME NEW r \in Sids  PROVE SessionInv(r)' /\ ServedInv(r)'
    <3>1. SessionInv(r) /\ ServedInv(r)
      BY DEF PairingInv
    <3>2. CASE r # s
      <4>1. sessions'[r] = sessions[r]
        BY <1>0, <2>4, <3>2
      <4>2. GuestKeeps(d) \/ guests'[d].sid = s
        BY <2>6 DEF GuestKeeps, HasJoined
      <4>3. SessionInv(r)'
        BY <1>0, <2>2, <3>1, <3>2, <4>1, <4>2 DEF SessionInv, GuestKeeps
      <4>. QED  BY <2>1, <3>1, <4>1, <4>3 DEF ServedInv
    <3>3. CASE r = s
      <4>1. ASSUME NEW e \in Devices, HasJoined(e)', guests'[e].sid = s
            PROVE  guests'[e].key = keys' /\ guests'[e].step = "passkey"
        <5>1. ~(HasJoined(e) /\ guests[e].sid = s)
          BY <2>3, <3>1, <3>3 DEF SessionInv
        <5>. QED  BY <2>2, <2>6, <4>1, <5>1 DEF GuestKeeps, HasJoined
      <4>2. SessionInv(r)'
        BY <1>0, <2>3, <2>5, <3>1, <3>3, <4>1 DEF SessionInv
      <4>. QED  BY <2>1, <2>3, <2>5, <3>1, <3>3, <4>2 DEF ServedInv
    <3>. QED  BY <3>2, <3>3
  <2>. QED  BY <1>10, <1>11, <2>1, <2>2, <2>7, <2>8 DEF PairingInv
<1>2. ASSUME NEW c \in Creds, ChoosePasskey(d, c)  PROVE PairingInv'
  <2>. DEFINE s == guests[d].sid
  <2>1. UNCHANGED <<sessions, wraps, disk, served>>
    BY <1>2 DEF ChoosePasskey, node, chain
  <2>2. owner'[c] = d /\ \A b \in Creds : owner[b] # None => owner'[b] = owner[b]
    BY <1>2, OwnType DEF ChoosePasskey
  <2>3. \A e \in Devices : e # d => GuestInv(e)' /\ GuestKeeps(e)
    BY <1>0, <1>9, <1>10, <1>2, <2>1, <2>2, GuestsStand DEF ChoosePasskey
  <2>4. guests' = [guests EXCEPT ![d] = [guests[d] EXCEPT
                      !.step = "wait", !.cred = c, !.name = sessions[s].name]]
    BY <1>0, <1>2 DEF ChoosePasskey
  <2>5. /\ guests'[d].step = "wait" /\ guests'[d].cred = c /\ guests'[d].name = sessions[s].name
        /\ guests'[d].sid = s /\ guests'[d].key = guests[d].key
    BY <1>0, <2>4 DEF GuestRecords
  <2>6. HasJoined(d) /\ s \in Sids
    BY <1>2 DEF ChoosePasskey, HasJoined, Live
  <2>7. GuestInv(d)'
    BY <2>2, <2>5, <2>6 DEF GuestInv, HasJoined
  <2>8. ASSUME NEW r \in Sids  PROVE SessionInv(r)' /\ ServedInv(r)'
    <3>1. SessionInv(r) /\ ServedInv(r)
      BY DEF PairingInv
    <3>2. ASSUME NEW e \in Devices, e # d  PROVE GuestKeeps(e)
      BY <2>3, <3>2
    <3>3. SessionInv(r)'
      BY <1>0, <2>1, <2>5, <2>6, <3>1, <3>2 DEF SessionInv, GuestKeeps
    <3>. QED  BY <2>1, <3>1, <3>3 DEF ServedInv
  <2>. QED  BY <1>10, <1>11, <2>1, <2>3, <2>7, <2>8 DEF PairingInv
<1>3. CASE FetchSealed(d) \/ GuestFails(d)
  <2>1. UNCHANGED <<sessions, wraps, disk, served, owner>>
    BY <1>3 DEF FetchSealed, GuestFails, node, chain
  <2>2. \A e \in Devices : e # d => GuestInv(e)' /\ GuestKeeps(e)
    BY <1>0, <1>9, <1>10, <1>3, <2>1, GuestsStand DEF FetchSealed, GuestFails
  <2>3. \/ /\ guests[d].step = "wait" /\ guests'[d].step \in {"opened", "passkey"}
           /\ guests'[d].sid = guests[d].sid /\ guests'[d].key = guests[d].key
           /\ guests'[d].name = guests[d].name /\ guests'[d].cred = guests[d].cred
        \/ /\ guests[d].step \in {"wait", "opened"} /\ guests'[d].step = "passkey"
           /\ guests'[d].sid = guests[d].sid /\ guests'[d].key = guests[d].key
    <3>1. CASE FetchSealed(d)
      BY <1>0, <3>1 DEF FetchSealed, GuestRecords
    <3>2. CASE GuestFails(d)
      <4>1. guests' = [guests EXCEPT ![d] = [guests[d] EXCEPT !.step = "passkey", !.cred = None]]
        BY <1>0, <3>2 DEF GuestFails
      <4>. QED  BY <1>0, <3>2, <4>1 DEF GuestFails, GuestRecords
    <3>. QED  BY <1>3, <3>1, <3>2
  <2>4. GuestInv(d)' /\ GuestKeeps(d)
    BY <1>9, <2>1, <2>3 DEF GuestInv, GuestKeeps, HasJoined
  <2>5. \A e \in Devices : GuestInv(e)' /\ GuestKeeps(e)
    BY <2>2, <2>4
  <2>6. disk'.rows = wraps'
    BY <2>1 DEF PairingInv
  <2>. QED  BY <1>0, <1>10, <1>11, <2>1, <2>5, <2>6, SessionsStand
<1>4. CASE Finish(d)
  <2>. DEFINE s == guests[d].sid  c == guests[d].cred
  <2>0. guests[d].step = "opened" /\ FinishSession(s, c) /\ owner' = owner
    BY <1>4 DEF Finish
  <2>1. s \in Sids /\ sessions[s].status = "granted"
    BY <2>0, StatusMeans DEF FinishSession
  <2>2. c \in Creds /\ owner[c] = d
    BY <1>9, <2>0 DEF GuestInv
  <2>3. SessionInv(s) /\ ServedInv(s)
    BY <2>1 DEF PairingInv
  <2>4. guests[d].name = sessions[s].name
    BY <2>0, <2>1, <2>3 DEF SessionInv, HasJoined
  <2>5. /\ wraps' = [wraps EXCEPT ![c] = sessions[s].name]
        /\ disk'.rows = wraps' /\ ~disk'.torn /\ ~disk.torn
    <3>1. up
      BY <2>0, StatusMeans DEF FinishSession
    <3>. QED  BY <2>0, <3>1 DEF FinishSession, SetWrap, PairingInv
  <2>6. \A b \in Creds : b # c => wraps'[b] = wraps[b]
    BY <1>0, <2>5 DEF Wraps
  <2>7. wraps'[c] = guests[d].name
    BY <1>0, <2>2, <2>4, <2>5 DEF Wraps
  <2>8. ASSUME NEW e \in Devices, e # d  PROVE GuestInv(e)' /\ GuestKeeps(e)
    <3>1. guests'[e] = guests[e]
      BY <1>0, <1>4, <2>8 DEF Finish
    <3>2. \A b \in Creds : owner[b] = e => wraps'[b] = wraps[b]
      BY <2>2, <2>6, <2>8
    <3>3. WrapsKeep(e)
      BY <2>5, <3>2 DEF WrapsKeep
    <3>. QED  BY <1>0, <1>9, <1>10, <2>0, <3>1, <3>3, GuestsStand
  <2>9. GuestInv(d)' /\ GuestKeeps(d)
    <3>1. CASE UNCHANGED guests
      BY <1>9, <1>0, <2>0, <2>2, <3>1 DEF GuestInv, GuestKeeps, HasJoined
    <3>2. CASE guests' = [guests EXCEPT ![d].step = "done"]
      <4>1. /\ guests'[d].step = "done" /\ guests'[d].sid = s
            /\ guests'[d].cred = c /\ guests'[d].name = guests[d].name
        BY <1>0, <3>2 DEF GuestRecords
      <4>2. s # 0
        BY <2>1 DEF Sids
      <4>. QED  BY <1>0, <2>0, <2>2, <2>7, <4>1, <4>2 DEF GuestInv, GuestKeeps, HasJoined
    <3>. QED  BY <1>4, <3>1, <3>2 DEF Finish
  <2>10. ASSUME NEW r \in Sids  PROVE SessionInv(r)' /\ ServedInv(r)'
    <3>1. SessionInv(r) /\ ServedInv(r)
      BY DEF PairingInv
    <3>2. CASE r # s
      <4>1. sessions'[r] = sessions[r] /\ served'[r] = served[r]
        BY <1>0, <2>0, <3>2 DEF FinishSession, MarkFinished, TypeOK
      <4>2. SessionInv(r)'
        BY <1>0, <2>8, <2>9, <3>1, <4>1, SessionKeeps DEF HostKeeps
      <4>. QED  BY <3>1, <4>1, <4>2 DEF ServedInv
    <3>3. CASE r = s
      <4>1. sessions'[s].status = "gone"
        BY <1>0, <2>0, <2>1 DEF FinishSession, MarkFinished, NoSession
      <4>2. served[s] = {}
        BY <2>1, <2>3 DEF ServedInv
      <4>3. served'[s] \subseteq {c}
        BY <2>0, <2>1, <4>2 DEF FinishSession, TypeOK
      <4>. QED  BY <3>3, <4>1, <4>3, GoneSession DEF ServedInv
    <3>. QED  BY <3>2, <3>3
  <2>. QED  BY <1>10, <2>5, <2>8, <2>9, <2>10 DEF PairingInv
<1>. QED  BY <1>1, <1>2, <1>3, <1>4

\* The guest of another service, and what may happen to any guest.
LEMMA OtherGuestKeepsInv ==
    ASSUME TypeOK, PairingInv, NEW d \in Devices,
           \/ \E c \in Creds, x \in Names : Invite(d, c, x)
           \/ Confirm(d) \/ Back(d) \/ IssueGrant(d) \/ AcceptGrant(d)
           \/ LinkAnswered(d) \/ LinkFails(d) \/ StoreServiceWrap(d)
           \/ Reload(d) \/ CrashInFlush(d)
    PROVE  PairingInv'
<1>0. /\ UNCHANGED <<sessions, served, hosts, controllers, writes>> /\ txs \subseteq txs'
      /\ guests \in [Devices -> GuestRecords] /\ guests[d] \in GuestRecords /\ wraps \in Wraps
      /\ disk \in [torn : BOOLEAN, rows : Wraps]
  BY DEF Invite, Confirm, Back, IssueGrant, AcceptGrant, SubmitLink, LinkAnswered, LinkFails,
     StoreServiceWrap, Reload, CrashInFlush, node, chain, carried, TypeOK
<1>9. \A e \in Devices : GuestInv(e)
  BY DEF PairingInv
<1>10. ChainKeeps /\ (UNCHANGED txs => ChainInv')
  BY <1>0, ChainStands, ChainInvStands DEF PairingInv
<1>11. UNCHANGED <<wraps, disk, up>> =>
           /\ disk'.rows = wraps' /\ (disk'.torn => ~up')
           /\ \A e : WrapsKeep(e)
  BY WrapsStand DEF PairingInv
<1>1. ASSUME NEW c \in Creds, NEW x \in Names, Invite(d, c, x)  PROVE PairingInv'
  <2>1. UNCHANGED <<wraps, disk, up, txs>>
    BY <1>1 DEF Invite, node, chain
  <2>2. owner[c] = None /\ owner' = [owner EXCEPT ![c] = d]
    BY <1>1 DEF Invite
  <2>3. owner'[c] = d /\ \A b \in Creds : owner[b] # None => owner'[b] = owner[b]
    BY <2>2 DEF TypeOK
  <2>4. \A e \in Devices : e # d => GuestInv(e)' /\ GuestKeeps(e)
    BY <1>0, <1>9, <1>10, <1>11, <1>1, <2>1, <2>3, GuestsStand DEF Invite, SignInvite
  <2>5. guests'[d] = Invitation(c, x, keys')
    BY <1>0, <1>1 DEF Invite, SignInvite
  <2>6. guests'[d].step = "invited" /\ guests'[d].cred = c /\ guests'[d].name = x
    BY <2>5 DEF Invitation, Scanning
  <2>7. GuestInv(d)' /\ GuestKeeps(d)
    BY <2>3, <2>6 DEF GuestInv, GuestKeeps, HasJoined
  <2>. QED  BY <1>0, <1>10, <1>11, <2>1, <2>4, <2>7, SessionsStand
<1>2. CASE Confirm(d) \/ Back(d) \/ IssueGrant(d)
  <2>1. UNCHANGED <<wraps, disk, up, guests, owner, txs>>
    BY <1>2 DEF Confirm, Back, IssueGrant, node, chain
  <2>2. \A e \in Devices : GuestInv(e)' /\ GuestKeeps(e)
    BY <1>9, <1>10, <1>11, <2>1, GuestsStand
  <2>. QED  BY <1>0, <1>10, <1>11, <2>1, <2>2, SessionsStand
<1>3. CASE AcceptGrant(d)
  <2>1. PICK nonce \in 0..Nonce(guests[d].name) :
            /\ Link(d, nonce) \in granted /\ SubmitLink(Link(d, nonce))
            /\ guests' = [guests EXCEPT ![d].step = "linking", ![d].nonce = nonce]
    BY <1>3 DEF AcceptGrant
  <2>2. Link(d, nonce) \in Links /\ nonce \in Nat
    BY <2>1 DEF TypeOK
  <2>3. UNCHANGED <<wraps, disk, up, owner>> /\ guests[d].step = "invited"
    BY <1>3 DEF AcceptGrant, node
  <2>4. /\ guests'[d].step = "linking" /\ guests'[d].nonce = nonce
        /\ guests'[d].name = guests[d].name /\ guests'[d].cred = guests[d].cred
        /\ guests'[d].key = guests[d].key
        /\ \A e \in Devices : e # d => guests'[e] = guests[e]
    BY <2>1, <2>2, AcceptMoves
  <2>5. \A e \in Devices : e # d => GuestInv(e)' /\ GuestKeeps(e)
    BY <1>9, <1>10, <1>11, <2>3, <2>4, GuestsStand
  <2>6. Sent(d)' = Link(d, nonce) /\ Link(d, nonce) \in txs'
    BY <2>1, <2>4 DEF Sent, Link, SubmitLink
  <2>7. GuestInv(d)' /\ GuestKeeps(d)
    BY <1>9, <2>3, <2>4, <2>6 DEF GuestInv, GuestKeeps, HasJoined
  <2>8. ChainInv'
    <3>1. Link(d, nonce).nonce <= Nonce(Link(d, nonce).name)
      <4>1. nonce = Nonce(guests[d].name)
        BY <2>1 DEF SubmitLink, MayLink, Link
      <4>. QED  BY <2>2, <4>1 DEF Link
    <3>2. \A link \in txs' : link.nonce <= Nonce(link.name)
      BY <2>1, <3>1 DEF SubmitLink, PairingInv, ChainInv
    <3>. QED  BY <1>0, <3>2 DEF PairingInv, ChainInv, Nonce
  <2>. QED  BY <1>0, <1>11, <2>3, <2>5, <2>7, <2>8, SessionsStand
<1>8. CASE LinkAnswered(d) \/ LinkFails(d)
  <2>1. UNCHANGED <<wraps, disk, up, owner, txs>> /\ guests[d].step = "linking"
    BY <1>8 DEF LinkAnswered, LinkFails, node, chain
  <2>2. /\ \A e \in Devices : e # d => guests'[e] = guests[e]
        /\ guests'[d].cred = guests[d].cred /\ guests'[d].name = guests[d].name
        /\ guests'[d].nonce = guests[d].nonce /\ guests'[d].key = guests[d].key
        /\ \/ guests'[d].step = "invited"
           \/ guests'[d].step = "linked" /\ Sent(d) \notin txs
    BY <1>0, <1>8 DEF LinkAnswered, LinkFails, GuestRecords, Sent
  <2>3. \A e \in Devices : e # d => GuestInv(e)' /\ GuestKeeps(e)
    BY <1>9, <1>10, <1>11, <2>1, <2>2, GuestsStand
  <2>4. Sent(d)' = Sent(d)
    BY <2>2 DEF Sent, Link
  <2>5. Sent(d) \notin txs => Settled(Sent(d))'
    <3>1. Sent(d) \notin txs => Settled(Sent(d))
      BY <1>9, <2>1 DEF GuestInv
    <3>2. Settled(Sent(d)) => Settled(Sent(d))'
      BY <1>0, <2>4 DEF Settled
    <3>. QED  BY <3>1, <3>2
  <2>6. GuestInv(d)' /\ GuestKeeps(d)
    BY <1>9, <2>1, <2>2, <2>5 DEF GuestInv, GuestKeeps, HasJoined
  <2>. QED  BY <1>0, <1>10, <1>11, <2>1, <2>3, <2>6, SessionsStand
<1>4. CASE StoreServiceWrap(d)
  <2>. DEFINE c == guests[d].cred
  <2>1. guests[d].step = "linked" /\ UNCHANGED <<owner, txs, up>>
    BY <1>4 DEF StoreServiceWrap, chain
  <2>2. c \in Creds /\ owner[c] = d /\ guests[d].name \in Names /\ Settled(Sent(d))
    BY <1>9, <2>1 DEF GuestInv
  <2>3. /\ \A e \in Devices : e # d => guests'[e] = guests[e]
        /\ guests'[d].cred = c /\ guests'[d].name = guests[d].name
        /\ guests'[d].nonce = guests[d].nonce /\ guests'[d].key = guests[d].key
        /\ \/ guests'[d].step = "invited"
           \/ guests'[d].step = "done" /\ ServiceWrap(c, guests[d].name)
    BY <1>0, <1>4 DEF StoreServiceWrap, GuestRecords
  <2>4. /\ disk'.rows = wraps' /\ (disk'.torn => ~up')
        /\ \A e \in Devices : e # d => WrapsKeep(e)
        /\ guests'[d].step = "done" => wraps'[c] = guests[d].name
    <3>1. CASE ServiceWrap(c, guests[d].name)
      <4>1. /\ wraps' = [wraps EXCEPT ![c] = guests[d].name]
            /\ disk'.rows = wraps' /\ ~disk'.torn /\ ~disk.torn
        BY <3>1 DEF ServiceWrap, SetWrap, PairingInv
      <4>2. wraps'[c] = guests[d].name /\ \A b \in Creds : b # c => wraps'[b] = wraps[b]
        BY <1>0, <2>2, <4>1 DEF Wraps
      <4>. QED  BY <2>2, <4>1, <4>2 DEF WrapsKeep
    <3>2. CASE UNCHANGED <<wraps, disk>> /\ guests'[d].step = "invited"
      BY <1>11, <2>1, <3>2
    <3>3. CASE UNCHANGED <<wraps, disk>> /\ guests' = [guests EXCEPT ![d].step = "invited"]
      <4>1. guests'[d].step = "invited"
        BY <1>0, <3>3 DEF GuestRecords
      <4>. QED  BY <3>3, <3>2, <4>1
    <3>. QED  BY <1>4, <3>1, <3>3 DEF StoreServiceWrap
  <2>5. \A e \in Devices : e # d => GuestInv(e)' /\ GuestKeeps(e)
    BY <1>9, <1>10, <2>1, <2>3, <2>4, GuestsStand
  <2>6. Settled(Sent(d))'
    <3>1. Sent(d)' = Sent(d)
      BY <2>3 DEF Sent, Link
    <3>. QED  BY <1>0, <2>2, <3>1 DEF Settled
  <2>7. GuestInv(d)' /\ GuestKeeps(d)
    BY <2>1, <2>2, <2>3, <2>4, <2>6 DEF GuestInv, GuestKeeps, HasJoined
  <2>. QED  BY <1>0, <1>10, <2>1, <2>4, <2>5, <2>7, SessionsStand
<1>5. CASE Reload(d)
  <2>1. UNCHANGED <<wraps, disk, up, owner, txs>>
    BY <1>5 DEF Reload, node
  <2>2. \A e \in Devices : e # d => GuestInv(e)' /\ GuestKeeps(e)
    BY <1>0, <1>9, <1>10, <1>11, <1>5, <2>1, GuestsStand DEF Reload
  <2>3. guests'[d].step = "scan"
    BY <1>0, <1>5 DEF Reload, Scanning
  <2>. QED  BY <1>0, <1>10, <1>11, <2>1, <2>2, <2>3, GuestAnew, SessionsStand
<1>6. CASE CrashInFlush(d)
  <2>1. UNCHANGED <<guests, owner, txs>> /\ ~up' /\ disk'.torn /\ disk'.rows = wraps'
    BY <1>6 DEF CrashInFlush, chain
  <2>2. \A e \in Devices : GuestInv(e)' /\ GuestKeeps(e)
    <3>1. \A e \in Devices : WrapsKeep(e)
      BY <2>1 DEF WrapsKeep
    <3>. QED  BY <1>9, <1>10, <2>1, <3>1, GuestsStand
  <2>. QED  BY <1>0, <1>10, <2>1, <2>2, SessionsStand
<1>. QED  BY <1>1, <1>2, <1>3, <1>4, <1>5, <1>6, <1>8

\* The writes of a mailbox are only added to.
LEMMA WritesGrow ==
    ASSUME TypeOK, NEW x \in Names, NEW c \in Creds \cup {None},
           writes' = [writes EXCEPT ![x] = Append(@, c)], controllers \subseteq controllers'
    PROVE  /\ \A link : Settled(link) => Settled(link)'
           /\ \A y \in Names : Nonce(y) \in Nat /\ Nonce(y)' \in Nat /\ Nonce(y) <= Nonce(y)'
           /\ \A y \in Names : \A i \in DOMAIN writes'[y] :
                  \/ i \in DOMAIN writes[y] /\ writes'[y][i] = writes[y][i]
                  \/ writes'[y][i] = c
<1>0. writes \in [Names -> Seq(Creds \cup {None})] /\ writes[x] \in Seq(Creds \cup {None})
  BY DEF TypeOK
<1>1. writes'[x] = Append(writes[x], c) /\ \A y \in Names : y # x => writes'[y] = writes[y]
  BY <1>0
<1>2. /\ Append(writes[x], c) \in Seq(Creds \cup {None})
      /\ Len(Append(writes[x], c)) = Len(writes[x]) + 1 /\ Len(writes[x]) \in Nat
      /\ DOMAIN writes[x] = 1..Len(writes[x])
      /\ DOMAIN Append(writes[x], c) = 1..Len(writes[x]) + 1
      /\ \A i \in 1..Len(writes[x]) : Append(writes[x], c)[i] = writes[x][i]
      /\ Append(writes[x], c)[Len(writes[x]) + 1] = c
  BY <1>0, AppendProperties, LenProperties
<1>3. ASSUME NEW y \in Names
      PROVE  \A i \in DOMAIN writes[y] : i \in DOMAIN writes'[y] /\ writes'[y][i] = writes[y][i]
  BY <1>1, <1>2
<1>4. \A link : Settled(link) => Settled(link)'
  BY <1>3 DEF Settled
<1>5. ASSUME NEW y \in Names
      PROVE  Nonce(y) \in Nat /\ Nonce(y)' \in Nat /\ Nonce(y) <= Nonce(y)'
  <2>1. Len(writes[y]) \in Nat
    BY <1>0, LenProperties
  <2>. QED  BY <1>1, <1>2, <2>1 DEF Nonce
<1>6. ASSUME NEW y \in Names, NEW i \in DOMAIN writes'[y]
      PROVE  \/ i \in DOMAIN writes[y] /\ writes'[y][i] = writes[y][i]
             \/ writes'[y][i] = c
  BY <1>1, <1>2
<1>. QED  BY <1>4, <1>5, <1>6

\* A link that is mined is settled, by itself or by the write that came first.
LEMMA ChainKeepsInv ==
    ASSUME TypeOK, PairingInv,
           \/ \E link \in txs : MineLink(link)
           \/ \E x \in Names : OtherWrite(x)
    PROVE  PairingInv'
<1>0. /\ UNCHANGED <<sessions, served, hosts, wraps, disk, up, guests, owner>> /\ txs \subseteq Links
      /\ txs' \subseteq txs
  BY DEF MineLink, OtherWrite, node, TypeOK
<1>1. ASSUME NEW x \in Names, OtherWrite(x)  PROVE ChainKeeps /\ ChainInv'
  <2>1. writes' = [writes EXCEPT ![x] = Append(@, None)] /\ UNCHANGED <<controllers, txs>>
    BY <1>1 DEF OtherWrite
  <2>2. /\ \A link : Settled(link) => Settled(link)'
        /\ \A y \in Names : Nonce(y) \in Nat /\ Nonce(y)' \in Nat /\ Nonce(y) <= Nonce(y)'
        /\ \A y \in Names : \A i \in DOMAIN writes'[y] :
               \/ i \in DOMAIN writes[y] /\ writes'[y][i] = writes[y][i]
               \/ writes'[y][i] = None
    BY <2>1, WritesGrow
  <2>3. \A link \in txs' : link.nonce <= Nonce(link.name)'
    BY <1>0, <2>1, <2>2 DEF PairingInv, ChainInv, Links
  <2>4. \A y \in Names : \A i \in DOMAIN writes'[y] : writes'[y][i] \in controllers' \cup {None}
    BY <2>1, <2>2 DEF PairingInv, ChainInv
  <2>5. ChainInv'
    BY <2>3, <2>4 DEF ChainInv, Nonce
  <2>. QED  BY <2>1, <2>2, <2>5 DEF ChainKeeps
<1>2. ASSUME NEW link \in txs, MineLink(link)  PROVE ChainKeeps /\ ChainInv'
  <2>0. /\ link \in Links /\ link.name \in Names /\ link.cred \in Creds /\ link.nonce \in Nat
        /\ txs' = txs \ {link}
    BY <1>0, <1>2 DEF MineLink, Links
  <2>1. CASE MayLink(link)
    <3>1. /\ writes' = [writes EXCEPT ![link.name] = Append(@, link.cred)]
          /\ controllers' = controllers \cup {link.cred}
      BY <1>2, <2>1 DEF MineLink
    <3>2. /\ \A l : Settled(l) => Settled(l)'
          /\ \A y \in Names : Nonce(y) \in Nat /\ Nonce(y)' \in Nat /\ Nonce(y) <= Nonce(y)'
          /\ \A y \in Names : \A i \in DOMAIN writes'[y] :
                 \/ i \in DOMAIN writes[y] /\ writes'[y][i] = writes[y][i]
                 \/ writes'[y][i] = link.cred
      BY <2>0, <3>1, WritesGrow
    <3>3. Settled(link)'
      BY <3>1 DEF Settled
    <3>4. \A l \in txs' : l.nonce <= Nonce(l.name)'
      BY <1>0, <2>0, <3>2 DEF PairingInv, ChainInv, Links
    <3>5. \A y \in Names : \A i \in DOMAIN writes'[y] : writes'[y][i] \in controllers' \cup {None}
      BY <3>1, <3>2 DEF PairingInv, ChainInv
    <3>6. ChainInv'
      BY <3>4, <3>5 DEF ChainInv, Nonce
    <3>. QED  BY <2>0, <3>2, <3>3, <3>6 DEF ChainKeeps
  <2>2. CASE ~MayLink(link)
    <3>1. UNCHANGED <<controllers, writes>>
      BY <1>2, <2>2 DEF MineLink
    <3>2. Settled(link)
      <4>1. CASE Used(link.cred)
        BY <4>1 DEF Used, Settled
      <4>2. CASE link.cred \notin controllers /\ link.nonce # Nonce(link.name)
        <5>1. /\ writes[link.name] \in Seq(Creds \cup {None}) /\ Nonce(link.name) \in Nat
              /\ link.nonce <= Nonce(link.name)
          BY <2>0, NonceType DEF PairingInv, ChainInv
        <5>2. DOMAIN writes[link.name] = 1..Nonce(link.name)
          BY <5>1, LenProperties DEF Nonce
        <5>3. link.nonce + 1 \in DOMAIN writes[link.name]
          BY <2>0, <4>2, <5>1, <5>2
        <5>4. writes[link.name][link.nonce + 1] # link.cred
          BY <2>0, <4>2, <5>3, PairingAssumption DEF PairingInv, ChainInv
        <5>. QED  BY <2>0, <5>3, <5>4 DEF Settled
      <4>. QED  BY <2>2, <4>1, <4>2 DEF MayLink, Used
    <3>3. \A l : Settled(l) => Settled(l)'
      BY <3>1 DEF Settled
    <3>4. Settled(link)'
      BY <3>1, <3>2 DEF Settled
    <3>5. ChainInv'
      BY <1>0, <3>1 DEF PairingInv, ChainInv, Nonce
    <3>. QED  BY <2>0, <3>3, <3>4, <3>5 DEF ChainKeeps
  <2>. QED  BY <2>1, <2>2
<1>3. ChainKeeps /\ ChainInv'
  BY <1>1, <1>2
<1>4. \A d \in Devices : GuestInv(d)' /\ GuestKeeps(d)
  BY <1>0, <1>3, GuestsStand, WrapsStand DEF PairingInv
<1>5. disk'.rows = wraps' /\ (disk'.torn => ~up')
  BY <1>0 DEF PairingInv
<1>. QED  BY <1>0, <1>3, <1>4, <1>5, SessionsStand

\* Every step keeps the invariant.
LEMMA PairingInvStep == TypeOK /\ PairingInv /\ [Next]_vars => PairingInv'
<1>. SUFFICES ASSUME TypeOK, PairingInv, [Next]_vars PROVE PairingInv'
  OBVIOUS
<1>1. ASSUME NEW s \in Sids, Expire(s)  PROVE PairingInv'
  <2>1. /\ UNCHANGED <<wraps, disk, up, hosts, guests, owner, controllers, writes, txs, served>>
        /\ sessions' = [sessions EXCEPT ![s] = [NoSession EXCEPT !.status = "gone"]]
        /\ sessions[s].status \in {"waiting", "joined"}
    BY <1>1, StatusMeans DEF Expire, chain
  <2>2. \A d \in Devices : GuestInv(d)' /\ GuestKeeps(d)
    BY <2>1, GuestsStand, ChainStands, WrapsStand DEF PairingInv
  <2>3. ASSUME NEW r \in Sids  PROVE SessionInv(r)' /\ ServedInv(r)'
    <3>1. SessionInv(r) /\ ServedInv(r)
      BY DEF PairingInv
    <3>2. CASE r # s
      <4>1. sessions'[r] = sessions[r]
        BY <2>1, <3>2 DEF TypeOK
      <4>. QED  BY <2>1, <2>2, <3>1, <4>1, SessionKeeps DEF HostKeeps, ServedInv
    <3>3. CASE r = s
      <4>1. sessions'[s].status = "gone"
        BY <2>1 DEF TypeOK, NoSession
      <4>. QED  BY <2>1, <3>1, <3>3, <4>1, GoneSession DEF ServedInv
    <3>. QED  BY <3>2, <3>3
  <2>4. disk'.rows = wraps' /\ (disk'.torn => ~up') /\ ChainInv'
    BY <2>1, ChainInvStands DEF PairingInv
  <2>. QED  BY <2>2, <2>3, <2>4 DEF PairingInv
<1>2. CASE Restart
  <2>1. /\ UNCHANGED <<disk, up, hosts, guests, owner, controllers, writes, txs, served>>
        /\ wraps' = disk.rows
    BY <1>2 DEF Restart, chain
  <2>2. wraps' = wraps /\ disk'.rows = wraps' /\ (disk'.torn => ~up') /\ ChainInv'
    BY <2>1, ChainInvStands DEF PairingInv
  <2>3. \A d \in Devices : GuestInv(d)' /\ GuestKeeps(d)
    BY <2>1, <2>2, GuestsStand, ChainStands, WrapsStand DEF PairingInv
  <2>4. ASSUME NEW s \in Sids  PROVE SessionInv(s)' /\ ServedInv(s)'
    <3>1. SessionInv(s) /\ ServedInv(s)
      BY DEF PairingInv
    <3>2. CASE sessions[s].status = "none"
      <4>1. sessions'[s].status = "none"
        BY <1>2, <3>2 DEF Restart, NoSession
      <4>2. SessionInv(s)'
        BY <2>1, <2>3, <3>1, <3>2, <4>1 DEF SessionInv, GuestKeeps
      <4>. QED  BY <2>1, <3>1, <3>2, <4>1, <4>2 DEF ServedInv
    <3>3. CASE sessions[s].status # "none"
      <4>1. sessions'[s].status = "gone"
        BY <1>2, <3>3 DEF Restart, NoSession
      <4>. QED  BY <2>1, <3>1, <4>1, GoneSession DEF ServedInv
    <3>. QED  BY <3>2, <3>3
  <2>. QED  BY <2>2, <2>3, <2>4 DEF PairingInv
<1>3. CASE UNCHANGED vars
  <2>1. /\ UNCHANGED <<sessions, wraps, disk, up, hosts, guests, owner, served>>
        /\ UNCHANGED <<controllers, writes, txs>>
    BY <1>3 DEF vars, node, chain, carried
  <2>2. /\ disk'.rows = wraps' /\ (disk'.torn => ~up') /\ ChainInv'
        /\ \A d \in Devices : GuestInv(d)' /\ GuestKeeps(d)
    BY <2>1, GuestsStand, ChainStands, WrapsStand, ChainInvStands DEF PairingInv
  <2>. QED  BY <2>1, <2>2, SessionsStand
<1>4. ASSUME NEW d \in Devices, Guest(d)  PROVE PairingInv'
  BY <1>4, SessionGuestKeepsInv, OtherGuestKeepsInv DEF Guest
<1>. QED  BY <1>1, <1>2, <1>3, <1>4, HostKeepsInv, ChainKeepsInv DEF Next

\* The types and the inductive invariant hold in every state of every run.
LEMMA PairingInvariant == Spec => [](TypeOK /\ PairingInv)
<1>1. Init => PairingInv
  BY DEF Init, PairingInv, SessionInv, ServedInv, GuestInv, ChainInv, HasJoined, Scanning,
     NoSession, Closed
<1>2. Init => TypeOK
  BY PairingAssumption DEF Init, TypeOK, SessionRecords, HostRecords, GuestRecords, Wraps, NoSession,
     Closed, Scanning, NoWraps
<1>. QED  BY <1>1, <1>2, TypeStep, PairingInvStep, PTL DEF Spec

-----------------------------------------------------------------------------
(* What follows from it.                                                   *)

\* Sessions, wraps, guests and links keep their types, whatever crashes and gets lost.
THEOREM TypeCorrect == Spec => []TypeOK
BY PairingInvariant, PTL

\* The host seals for the guest that waits, however calls interleave: whatever a
\* session hands out opens with the key of the one guest that joined.
THEOREM OnlyTheJoinerIsServed == Spec => []ServesTheJoiner
<1>1. TypeOK /\ PairingInv => ServesTheJoiner
  BY DEF PairingInv, SessionInv, ServesTheJoiner, HasJoined
<1>. QED  BY <1>1, PairingInvariant, PTL

\* A session ends with one passkey served at most, also when answers get lost and
\* the guest tries again with another.
THEOREM SessionServesOne == Spec => []OneWrapPerSession
<1>1. ASSUME PairingInv, NEW s \in Sids  PROVE Cardinality(served[s]) <= 1
  <2>1. ServedInv(s)
    BY <1>1 DEF PairingInv
  <2>2. PICK c : served[s] \subseteq {c}
    BY <2>1 DEF ServedInv
  <2>3. IsFiniteSet({c}) /\ Cardinality({c}) = 1
    BY FS_Singleton
  <2>4. Cardinality(served[s]) <= Cardinality({c})
    BY <2>2, <2>3, FS_Subset
  <2>. QED  BY <2>3, <2>4
<1>2. PairingInv => OneWrapPerSession
  BY <1>1 DEF OneWrapPerSession
<1>. QED  BY <1>2, PairingInvariant, PTL

\* A device that was told it is set up finds the wrap of its mailbox, in memory and in
\* the file, whoever paired before or after it, as long as no crash tore the file.
THEOREM DoneDeviceFindsItsWrap == Spec => []DoneDeviceOpens
<1>1. PairingInv => DoneDeviceOpens
  BY DEF PairingInv, GuestInv, DoneDeviceOpens
<1>. QED  BY <1>1, PairingInvariant, PTL

\* A device that is set up from another service is a controller by then, unless some
\* other write came before its link in the block: what the relayer answers says no more.
THEOREM LinkedUnlessOvertaken == Spec => []DoneDeviceIsLinked
<1>1. PairingInv => DoneDeviceIsLinked
  BY DEF PairingInv, GuestInv, Settled, Sent, Link, DoneDeviceIsLinked
<1>. QED  BY <1>1, PairingInvariant, PTL
=============================================================================
