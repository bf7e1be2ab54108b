------------------------------ MODULE Relayer ------------------------------
(***************************************************************************)
(* The relayer of relayer/src/server.ts, which pays for the users'         *)
(* transactions, in front of the registry, and the node's proxy to it.     *)
(*                                                                         *)
(* A write is an HTTP call: writeContract estimates the gas, which runs    *)
(* the transaction on the state of that moment and fails with the name of  *)
(* the revert, then broadcasts; the call waits for the receipt and answers *)
(* 200 without a look at its status.  A call that fails anywhere else is   *)
(* answered "failed" while its transaction may still be mined.  /names     *)
(* makes two reads.  Whoever lost an answer may post the same again.       *)
(***************************************************************************)
EXTENDS Registry

CONSTANTS
    Calls,          \* HTTP calls that write, of this relayer or another: it keeps no state
    Reads           \* HTTP calls of /names

VARIABLES
    calls,          \* the calls, what the relayer does for them and what they were told
    reads           \* the reads of /names

relayerVars == <<vars, calls, reads>>

NoCall == [phase |-> "idle", body |-> None, tx |-> "none", answer |-> "none",
           seen |-> None, gen |-> 0]
NoRead == [phase |-> "idle", name |-> None, exists |-> FALSE, dek |-> None,
           readAt |-> 0, generation |-> 0]

RelayerInit ==
    /\ Init
    /\ calls = [c \in Calls |-> NoCall]
    /\ reads = [r \in Reads |-> NoRead]

-----------------------------------------------------------------------------
(* Transactions.  A body carries the arguments that its signature signs;   *)
(* with others the contract's Verify fails, as with an outdated nonce.     *)

NodeBodies == [challenge : [act : {"registerNode"}, domain : Domains, node : Nodes]]
Bodies == signed \cup NodeBodies

Transact(body) ==
    LET ch == body.challenge IN
    \/ /\ ch.act = "register"
       /\ Register(ch.name, body.key, ch.dek, body)
    \/ /\ ch.act = "linkNode"
       /\ LinkNode(ch.name, ch.node, ch.newKey, ch.invite, body)
    \/ /\ ch.act = "removeController"
       /\ RemoveController(ch.name, ch.oldKey, body)
    \/ /\ ch.act = "optIn"
       /\ OptIn(ch.name, ch.node, body)
    \/ /\ ch.act = "optOut"
       /\ OptOut(ch.name, ch.node, body)
    \/ /\ ch.act = "registerNode"
       /\ RegisterNode(ch.domain, ch.node)

\* estimateGas: the transaction would not revert in this state.
Estimate(body) ==
    LET ch == body.challenge IN
    \/ ch.act = "register" /\ CanRegister(ch.name, body.key, ch.dek, body)
    \/ ch.act = "linkNode" /\ CanLinkNode(ch.name, ch.node, ch.newKey, ch.invite, body)
    \/ ch.act = "removeController" /\ CanRemoveController(ch.name, ch.oldKey, body)
    \/ ch.act = "optIn" /\ CanOptIn(ch.name, ch.node, body)
    \/ ch.act = "optOut" /\ CanOptOut(ch.name, ch.node, body)
    \/ ch.act = "registerNode" /\ CanRegisterNode(ch.domain, ch.node)

\* What the outcome of a transaction depends on.
Standing(body) ==
    IF body.challenge.act = "registerNode"
    THEN [nodes |-> nodes, domains |-> masterByDomain]
    ELSE [record |-> names[body.challenge.name], nodes |-> nodes, invites |-> inviteUsed]

GenerationOf(body) ==
    IF body.challenge.act = "registerNode" THEN 0
    ELSE names[body.challenge.name].mailboxGeneration

-----------------------------------------------------------------------------
(* The writes: POST /register, /nodes, /opt-in, /opt-out, /link and        *)
(* /remove-controller.                                                     *)

\* A client reads a challenge and has its passkey sign it. What it signs may be
\* outdated by the time it is posted, or at once.
FetchAndSign(k, n) ==
    /\ \E ch \in CurrentChallenges(n) : Sign(k, n, ch)
    /\ UNCHANGED <<calls, reads>>

Told(c, answer) == IF calls[c].answer = "none" THEN answer ELSE calls[c].answer

Post(c, body) ==
    /\ calls[c].phase = "idle"
    /\ calls' = [calls EXCEPT ![c].phase = "received", ![c].body = body]
    /\ UNCHANGED <<vars, reads>>

SendUnchecked(c) ==            \* mutant of Send: broadcast without an estimate
    /\ calls[c].phase = "received"
    /\ calls' = [calls EXCEPT ![c].phase = "sent", ![c].tx = "pending",
                              ![c].seen = Standing(calls[c].body)]
    /\ UNCHANGED <<vars, reads>>

\* writeContract: estimated and broadcast.
Send(c) ==
    /\ calls[c].phase = "received"
    /\ Estimate(calls[c].body)
    /\ calls' = [calls EXCEPT ![c].phase = "sent", ![c].tx = "pending",
                              ![c].seen = Standing(calls[c].body)]
    /\ UNCHANGED <<vars, reads>>

\* 400 with the name of the revert.
Refuse(c) ==
    /\ calls[c].phase = "received"
    /\ ~Estimate(calls[c].body)
    /\ calls' = [calls EXCEPT ![c].phase = "over", ![c].answer = Told(c, "reverted")]
    /\ UNCHANGED <<vars, reads>>

\* The transaction takes its place in a block and does what it did there.
Mine(c) ==
    /\ calls[c].tx = "pending"
    /\ \/ /\ Transact(calls[c].body)
          /\ calls' = [calls EXCEPT ![c].tx = "applied",
                                    ![c].gen = GenerationOf(calls[c].body)]
       \/ /\ ~Estimate(calls[c].body)
          /\ calls' = [calls EXCEPT ![c].tx = "reverted"]
          /\ UNCHANGED vars
    /\ UNCHANGED reads

\* waitForTransactionReceipt, then 200.
Acknowledge(c) ==
    /\ calls[c].phase = "sent"
    /\ calls[c].tx # "pending"
    /\ calls' = [calls EXCEPT ![c].phase = "over", ![c].answer = Told(c, "ok")]
    /\ UNCHANGED <<vars, reads>>

\* The RPC endpoint, the wait for the receipt or the node's proxy fails: 400
\* "failed" or 502, whatever becomes of the transaction.
Fail(c) ==
    /\ calls[c].phase \in {"received", "sent"}
    /\ \E phase \in {calls[c].phase, "over"} :
           calls' = [calls EXCEPT ![c].phase = phase, ![c].answer = Told(c, "failed")]
    /\ UNCHANGED <<vars, reads>>

-----------------------------------------------------------------------------
(* GET /names: nameRecord, then mailboxGeneration.                         *)

ReadRecord(r, n) ==
    /\ reads[r].phase = "idle"
    /\ reads' = [reads EXCEPT ![r] =
           [phase |-> "between", name |-> n, exists |-> names[n].primary # None,
            dek |-> names[n].dek, readAt |-> names[n].mailboxGeneration,
            generation |-> 0]]
    /\ UNCHANGED <<vars, calls>>

\* Mutant of ReadGeneration: the generation is taken from an earlier answer.
ReadGenerationEarlier(r) ==
    /\ reads[r].phase = "between"
    /\ \E g \in 0..reads[r].readAt :
           reads' = [reads EXCEPT ![r].phase = "answered", ![r].generation = g]
    /\ UNCHANGED <<vars, calls>>

ReadGeneration(r) ==
    /\ reads[r].phase = "between"
    /\ reads' = [reads EXCEPT ![r].phase = "answered",
                     ![r].generation = names[reads[r].name].mailboxGeneration]
    /\ UNCHANGED <<vars, calls>>

-----------------------------------------------------------------------------
RelayerStep(c) == Send(c) \/ Refuse(c) \/ Acknowledge(c) \/ Fail(c)

RelayerNext ==
    \/ \E c \in Calls :
           \/ \E body \in Bodies : Post(c, body)
           \/ RelayerStep(c)
           \/ Mine(c)
    \/ \E r \in Reads : ReadGeneration(r) \/ \E n \in Names : ReadRecord(r, n)
    \/ \E k \in Keys, n \in Names : FetchAndSign(k, n)
    \/ (OwnerWrite \/ BridgeWrite \/ Tick) /\ UNCHANGED <<calls, reads>>

RelayerSpec == RelayerInit /\ [][RelayerNext]_relayerVars

-----------------------------------------------------------------------------
(* Types.                                                                  *)

Standings ==
    [nodes : [Nodes -> Domains \cup {None}], domains : [Domains -> Nodes \cup {None}]]
    \cup [record : NameRecords, nodes : [Nodes -> Domains \cup {None}],
          invites : SUBSET Invites]

CallRecords ==
    [phase : {"idle", "received", "sent", "over"},
     body : Signatures \cup NodeBodies \cup {None},
     tx : {"none", "pending", "applied", "reverted"},
     answer : {"none", "ok", "failed", "reverted"},
     seen : Standings \cup {None}, gen : Generations]

ReadRecords ==
    [phase : {"idle", "between", "answered"}, name : Names \cup {None}, exists : BOOLEAN,
     dek : Deks \cup {None}, readAt : Generations, generation : Generations]

\* The calls and the reads are what the handlers of server.ts make of them.
RelayerTypeOK ==
    /\ TypeOK
    /\ calls \in [Calls -> CallRecords]
    /\ reads \in [Reads -> ReadRecords]

-----------------------------------------------------------------------------
(* Properties.                                                             *)

\* A call answered 200 has had its effect, or the name, the invites or the nodes
\* were changed by somebody else between the estimate and the block: the status
\* of the receipt, which nobody reads, can be bad for no other reason.
AcknowledgedOrOvertaken ==
    \A c \in Calls : calls[c].answer = "ok" =>
        \/ calls[c].tx = "applied"
        \/ calls[c].tx = "reverted" /\ Standing(calls[c].body) # calls[c].seen

\* Whoever posts a signature again because the answer was lost does it no harm:
\* of all the calls that carry it at most one is applied in a generation.
RetryIsHarmless ==
    \A c, d \in Calls :
        /\ c # d /\ calls[c].body = calls[d].body
        /\ calls[c].tx = "applied" /\ calls[d].tx = "applied"
        => calls[c].gen # calls[d].gen

\* What /names answers may mix two moments, but only one way: a record of an
\* earlier generation with the number of a later one.
NamesAnswerIsNotAhead ==
    \A r \in Reads : reads[r].phase = "answered" =>
        /\ reads[r].readAt <= reads[r].generation
        /\ reads[r].exists => reads[r].dek # None
=============================================================================
