---------------------------- MODULE MailboxBook ----------------------------
(***************************************************************************)
(* What the registry promises to nodes and users: a book that says, for    *)
(* every name, which keys control the mailbox and which nodes are its open *)
(* doors, in epochs (generations) that never come back.                    *)
(***************************************************************************)
EXTENDS Naturals, FiniteSets

CONSTANTS OENames, EnsNames, Keys, Nodes, MaxControllers, MaxGeneration

VARIABLE book       \* name -> [epoch, keys, doors]

Init == book = [n \in OENames \cup EnsNames |-> [epoch |-> 0, keys |-> {}, doors |-> {}]]

\* A holder starts a new epoch with one key and every door shut. An OE id is
\* taken once, a linked ENS name may be claimed over and over.
Claim(n, k, epoch) ==
    /\ epoch > book[n].epoch
    /\ n \in OENames => book[n].epoch = 0
    /\ book' = [book EXCEPT ![n] = [epoch |-> epoch, keys |-> {k}, doors |-> {}]]

\* The name is unbound; the epoch is over.
Release(n) ==
    /\ n \in EnsNames
    /\ book[n].keys # {}
    /\ book' = [book EXCEPT ![n].keys = {}, ![n].doors = {}]

\* A new device; the inviting node's door opens, unless it was shut in this block.
LinkDevice(n, k, d) ==
    /\ book[n].keys # {} /\ k \notin book[n].keys
    /\ Cardinality(book[n].keys) < MaxControllers
    /\ \E open \in SUBSET {d} :
           book' = [book EXCEPT ![n].keys = @ \cup {k}, ![n].doors = @ \cup open]

\* A device loses its authority; the doors it opened stay open.
DropDevice(n, k) ==
    /\ k \in book[n].keys /\ book[n].keys # {k}
    /\ book' = [book EXCEPT ![n].keys = @ \ {k}]

OpenDoor(n, d) ==
    /\ book[n].keys # {}
    /\ book' = [book EXCEPT ![n].doors = @ \cup {d}]

ShutDoor(n, d) == book' = [book EXCEPT ![n].doors = @ \ {d}]

Next ==
    \/ \E n \in OENames \cup EnsNames, k \in Keys :
           \/ \E epoch \in 1..MaxGeneration : Claim(n, k, epoch)
           \/ \E d \in Nodes : LinkDevice(n, k, d)
           \/ DropDevice(n, k)
    \/ \E n \in OENames \cup EnsNames : Release(n)
    \/ \E n \in OENames \cup EnsNames, d \in Nodes : OpenDoor(n, d) \/ ShutDoor(n, d)

Spec == Init /\ [][Next]_book
=============================================================================
