----------------------------- MODULE SignupProofs -----------------------------
(***************************************************************************)
(* Signing up for any number of passkeys, names, tabs and invoices, and    *)
(* any number of restarts of the node.  What the runs check is about the   *)
(* drafts and the registry; why it holds lies in the books between them:   *)
(* an invoice has one counterpart at the payment service, and none is      *)
(* marked paid unless somebody said that it was.                           *)
(***************************************************************************)
EXTENDS Signup, SequenceTheorems, TLAPS

\* There is such an invoice in the book b.
Made(b, i) == i \in Ids /\ b[i].status # "none"

\* What the node knows of its invoices and of those of the service: a credential
\* finds its own, and an invoice has one counterpart, over there too.
BookInv ==
    /\ \A i \in Ids : i > n => ~Made(book, i)
    /\ \A c \in Creds : byCred[c] # 0 => Made(book, byCred[c]) /\ book[byCred[c]].cred = c
    /\ \A i \in Ids : book[i].commerce # 0 =>
           book[i].commerce \in DOMAIN remotes /\ remotes[book[i].commerce].client = i
    /\ \A r, q \in DOMAIN remotes : remotes[r].client = remotes[q].client => r = q

\* A call is about an invoice there is; one for the service, of its credential.
CallOK(b, call) ==
    /\ call.op \in {"create", "poll"} => Made(b, call.inv)
    /\ call.op = "create" => b[call.inv].cred = call.cred

\* A tab has an invoice from the payment on, and no link before.
TabOK(tab) ==
    /\ tab.phase \in {"resuming", "paying", "registering", "recovery"} => tab.signup.inv \in Ids
    /\ tab.phase \in {"landing", "renewing", "creating"} => tab.signup.link = 0
    /\ tab.phase = "renewing" => tab.cred \in Creds

\* A link that a browser holds is the one of an invoice of the credential.
Knows(b, c, s) ==
    s.link # 0 => Made(b, s.inv) /\ b[s.inv].cred = c /\ b[s.inv].commerce = s.link

BrowsersInv ==
    /\ \A c \in Creds : Knows(book, c, drafts[c])
    /\ \A t \in Tabs : Knows(book, tabs[t].cred, tabs[t].signup)

\* The credential has a paid invoice in the book b.
Paid(b, c) == \E i \in Ids : b[i].cred = c /\ b[i].status = "paid"

\* Nothing counts as paid that nobody has said was paid, and nobody is on the way to
\* a name without an invoice that counts.
PaymentInv ==
    /\ \A r \in DOMAIN remotes :
           /\ Made(book, remotes[r].client)
           /\ remotes[r].paid => remotes[r].client \in vouched
    /\ \A i \in Ids : book[i].status = "paid" => i \in vouched
    /\ \A t \in Tabs : calls[t].op = "poll" => calls[t].inv \in vouched
    /\ \A tx \in txs : Paid(book, tx.cred)
    /\ \A x \in Names : chain[x].cred # None => Paid(book, chain[x].cred)

\* As long as the node has not restarted, browsers and service agree with it.
SignupInv ==
    /\ BookInv
    /\ \A t \in Tabs : CallOK(book, calls[t]) /\ TabOK(tabs[t])
    /\ life = 0 => BrowsersInv /\ PaymentInv

-----------------------------------------------------------------------------
(* Operators.                                                              *)

\* A page goes on, or is left.
LEMMA ToMoves ==
    ASSUME TypeOK, NEW t \in Tabs, NEW phase \in Phases, To(t, phase)
    PROVE  /\ tabs' \in [Tabs -> TabRecords]
           /\ tabs'[t].phase = phase /\ tabs'[t].cred = tabs[t].cred
           /\ tabs'[t].signup = tabs[t].signup /\ tabs'[t].dek = tabs[t].dek
           /\ \A u \in Tabs : u # t => tabs'[u] = tabs[u]
<1>0. tabs \in [Tabs -> TabRecords] /\ tabs[t] \in TabRecords
  BY DEF TypeOK
<1>1. [tabs[t] EXCEPT !.phase = phase] \in TabRecords
  BY <1>0 DEF TabRecords
<1>2. tabs' = [tabs EXCEPT ![t] = [tabs[t] EXCEPT !.phase = phase]]
  BY <1>0 DEF To
<1>. QED  BY <1>0, <1>1, <1>2 DEF TabRecords

\* A tab that leaves starts afresh; the others do not move.
LEMMA LeftMoves ==
    ASSUME TypeOK, NEW t \in Tabs, Left(t)
    PROVE  /\ tabs' \in [Tabs -> TabRecords] /\ tabs'[t] = NoTab
           /\ \A u \in Tabs : u # t => tabs'[u] = tabs[u]
<1>1. NoTab \in TabRecords
  BY DEF NoTab, NoSignup, TabRecords, Phases, Signups, Statuses
<1>. QED  BY <1>1 DEF Left, TypeOK

\* A signup that is shown is saved.
LEMMA ShowMoves ==
    ASSUME TypeOK, NEW t \in Tabs, NEW c \in Creds \cup {None}, NEW phase \in Phases,
           NEW s \in Signups, Show(t, c, phase, s)
    PROVE  /\ tabs' \in [Tabs -> TabRecords] /\ drafts' \in [Creds -> Signups]
           /\ tabs'[t].phase = phase /\ tabs'[t].cred = c /\ tabs'[t].signup = s
           /\ \A u \in Tabs : u # t => tabs'[u] = tabs[u]
           /\ \A b \in Creds : drafts'[b] = IF b = c THEN s ELSE drafts[b]
<1>. DEFINE r == [NoTab EXCEPT !.phase = phase, !.cred = c, !.signup = s]
<1>0. tabs \in [Tabs -> TabRecords] /\ drafts \in [Creds -> Signups]
  BY DEF TypeOK
<1>1. r \in TabRecords /\ r.phase = phase /\ r.cred = c /\ r.signup = s
  BY DEF NoTab, NoSignup, TabRecords
<1>2. tabs' = [tabs EXCEPT ![t] = r] /\ drafts' = [drafts EXCEPT ![c] = s]
  BY DEF Show, SaveDraft
<1>. HIDE DEF r
<1>. QED  BY <1>0, <1>1, <1>2

\* An invoice that was made stays, with its credential and its counterpart, and one
\* that is paid stays paid.
BookKeeps ==
    \A i \in Ids : Made(book, i) =>
        /\ Made(book', i) /\ book'[i].cred = book[i].cred
        /\ book[i].commerce # 0 => book'[i].commerce = book[i].commerce
        /\ book[i].status = "paid" => book'[i].status = "paid"

\* Where only statuses and names change.
LEMMA StatusMoves ==
    ASSUME TypeOK, BookInv, UNCHANGED <<n, remotes>>,
           \A i \in Ids : /\ book'[i].cred = book[i].cred /\ book'[i].commerce = book[i].commerce
                          /\ Made(book', i) <=> Made(book, i)
                          /\ book[i].status = "paid" => book'[i].status = "paid",
           \A c \in Creds : byCred'[c] \in {0, byCred[c]}
    PROVE  BookInv' /\ BookKeeps
<1>1. BookKeeps
  BY DEF BookKeeps
<1>2. \A i \in Ids : i > n' => ~Made(book', i)
  BY DEF BookInv
<1>3. \A c \in Creds : byCred'[c] # 0 => Made(book', byCred'[c]) /\ book'[byCred'[c]].cred = c
  BY DEF BookInv, Made
<1>4. \A i \in Ids : book'[i].commerce # 0 =>
          book'[i].commerce \in DOMAIN remotes' /\ remotes'[book'[i].commerce].client = i
  BY DEF BookInv
<1>5. \A r, q \in DOMAIN remotes' : remotes'[r].client = remotes'[q].client => r = q
  BY DEF BookInv
<1>. QED  BY <1>1, <1>2, <1>3, <1>4, <1>5 DEF BookInv

\* One invoice changes no more than its status and its name.
LEMMA InvoiceMoves ==
    ASSUME TypeOK, NEW i \in Ids, NEW status \in Statuses, NEW name \in Names \cup {None},
           book' = [book EXCEPT ![i] = [book[i] EXCEPT !.status = status, !.name = name]]
    PROVE  /\ book' \in [Ids -> InvoiceRecords]
           /\ \A j \in Ids : book'[j].cred = book[j].cred /\ book'[j].commerce = book[j].commerce
           /\ book'[i].status = status
           /\ \A j \in Ids : j # i => book'[j] = book[j]
<1>0. book \in [Ids -> InvoiceRecords] /\ book[i] \in InvoiceRecords
  BY DEF TypeOK
<1>. DEFINE r == [book[i] EXCEPT !.status = status, !.name = name]
<1>1. /\ r \in InvoiceRecords /\ r.cred = book[i].cred /\ r.commerce = book[i].commerce
      /\ r.status = status
  BY <1>0 DEF InvoiceRecords
<1>2. book' = [book EXCEPT ![i] = r]
  OBVIOUS
<1>. HIDE DEF r
<1>. QED  BY <1>0, <1>1, <1>2

\* markPaid writes one status, and only of an invoice that was still
\* awaited.
LEMMA MarkPaidMoves ==
    ASSUME TypeOK, NEW i, MarkPaid(i)
    PROVE  /\ book' \in [Ids -> InvoiceRecords]
           /\ \A j \in Ids : /\ book'[j].cred = book[j].cred /\ book'[j].commerce = book[j].commerce
                             /\ Made(book', j) <=> Made(book, j)
           /\ \A j \in Ids : book'[j].status = "paid" => book[j].status = "paid" \/ j = i
           /\ \A j \in Ids : book'[j].status = book[j].status \/ Awaiting(j)
           /\ \A j \in Ids : book[j].status = "paid" => book'[j].status = "paid"
<1>0. book \in [Ids -> InvoiceRecords]
  BY DEF TypeOK
<1>1. CASE Awaiting(i)
  <2>1. i \in Ids /\ book[i] \in InvoiceRecords /\ book[i].status = "awaiting_payment"
    BY <1>0, <1>1 DEF Awaiting
  <2>2. book' = [book EXCEPT ![i].status = "paid"]
    BY <1>1 DEF MarkPaid
  <2>3. book' = [book EXCEPT ![i] = [book[i] EXCEPT !.status = "paid", !.name = book[i].name]]
    BY <1>0, <2>1, <2>2 DEF InvoiceRecords
  <2>4. "paid" \in Statuses /\ book[i].name \in Names \cup {None}
    BY <2>1 DEF Statuses, InvoiceRecords
  <2>5. /\ book' \in [Ids -> InvoiceRecords] /\ book'[i].status = "paid"
        /\ \A j \in Ids : book'[j].cred = book[j].cred /\ book'[j].commerce = book[j].commerce
        /\ \A j \in Ids : j # i => book'[j] = book[j]
    BY <2>1, <2>3, <2>4, InvoiceMoves
  <2>6. \A j \in Ids : Made(book', j) <=> Made(book, j)
    BY <2>1, <2>5 DEF Made
  <2>7. \A j \in Ids : book'[j].status = book[j].status \/ Awaiting(j)
    BY <1>1, <2>5
  <2>8. \A j \in Ids : book'[j].status = "paid" => book[j].status = "paid" \/ j = i
    BY <2>5
  <2>9. \A j \in Ids : book[j].status = "paid" => book'[j].status = "paid"
    BY <2>5
  <2>. QED  BY <2>5, <2>6, <2>7, <2>8, <2>9
<1>2. CASE ~Awaiting(i)
  <2>1. book' = book
    BY <1>2 DEF MarkPaid
  <2>. QED  BY <1>0, <2>1
<1>. QED  BY <1>1, <1>2

\* create: whoever asked, the invoice is the credential's own.
LEMMA CreateMoves ==
    ASSUME TypeOK, BookInv, NEW c \in Creds, NEW name \in Names \cup {None}, NEW i \in Ids,
           CreateInvoice(c, name, i), UNCHANGED remotes
    PROVE  /\ book' \in [Ids -> InvoiceRecords] /\ byCred' \in [Creds -> Nat] /\ n' \in Nat
           /\ BookInv' /\ BookKeeps
           /\ Made(book', i) /\ book'[i].cred = c
           /\ \A j \in Ids : book'[j].status = "paid" => book[j].status = "paid"
           /\ \A j \in Ids : book[j].status \in {"paid", "cancelled"} => book'[j].status = book[j].status
<1>0. book \in [Ids -> InvoiceRecords] /\ byCred \in [Creds -> Nat] /\ n \in Nat
  BY DEF TypeOK
<1>1. CASE OpenOf(c) # 0
  <2>1. i = byCred[c] /\ book[i].status = "awaiting_payment" /\ book[i] \in InvoiceRecords
    BY <1>0, <1>1 DEF CreateInvoice, OpenOf, Awaiting
  <2>2. book[i].cred = c
    BY <2>1, SignupAssumption DEF BookInv, Ids
  <2>3. UNCHANGED <<byCred, n>>
    BY <1>1 DEF CreateInvoice
  <2>4. book' = [book EXCEPT ![i].name = name]
    BY <1>1 DEF CreateInvoice
  <2>5. book' = [book EXCEPT ![i] = [book[i] EXCEPT !.status = "awaiting_payment", !.name = name]]
    BY <1>0, <2>1, <2>4 DEF InvoiceRecords
  <2>6. "awaiting_payment" \in Statuses
    BY DEF Statuses
  <2>7. /\ book' \in [Ids -> InvoiceRecords] /\ book'[i].status = "awaiting_payment"
        /\ \A j \in Ids : book'[j].cred = book[j].cred /\ book'[j].commerce = book[j].commerce
        /\ \A j \in Ids : j # i => book'[j] = book[j]
    BY <2>5, <2>6, InvoiceMoves
  <2>8. \A j \in Ids : Made(book', j) <=> Made(book, j)
    BY <2>1, <2>7 DEF Made
  <2>9. BookInv' /\ BookKeeps
    <3>1. \A j \in Ids : book[j].status = "paid" => book'[j].status = "paid"
      BY <2>1, <2>7
    <3>. QED  BY <2>3, <2>7, <2>8, <3>1, StatusMoves
  <2>10. Made(book', i) /\ book'[i].cred = c
    BY <2>1, <2>2, <2>7 DEF Made
  <2>. QED  BY <1>0, <2>1, <2>3, <2>7, <2>9, <2>10
<1>2. CASE OpenOf(c) = 0
  <2>. DEFINE r == [status |-> "awaiting_payment", cred |-> c, name |-> name, commerce |-> 0]
  <2>1. /\ i = n + 1 /\ n' = i
        /\ book' = [book EXCEPT ![i] = r] /\ byCred' = [byCred EXCEPT ![c] = i]
    BY <1>2 DEF CreateInvoice
  <2>2. r \in InvoiceRecords /\ i \in Nat
    BY <1>0, <2>1 DEF InvoiceRecords, Statuses
  <2>3. ~Made(book, i)
    BY <1>0, <2>1 DEF BookInv, Ids
  <2>4. /\ book' \in [Ids -> InvoiceRecords] /\ byCred' \in [Creds -> Nat] /\ n' \in Nat
        /\ book'[i].status = "awaiting_payment" /\ book'[i].cred = c /\ book'[i].commerce = 0
        /\ \A j \in Ids : j # i => book'[j] = book[j]
    BY <1>0, <2>1, <2>2
  <2>5. BookKeeps /\ Made(book', i)
    BY <2>3, <2>4 DEF BookKeeps, Made
  <2>6. \A j \in Ids : j > n' => ~Made(book', j)
    BY <1>0, <2>1, <2>4 DEF BookInv, Made, Ids
  <2>7. \A b \in Creds : byCred'[b] # 0 => Made(book', byCred'[b]) /\ book'[byCred'[b]].cred = b
    BY <1>0, <2>1, <2>3, <2>4, <2>5 DEF BookInv, BookKeeps, Made
  <2>8. \A j \in Ids : book'[j].commerce # 0 =>
            book'[j].commerce \in DOMAIN remotes' /\ remotes'[book'[j].commerce].client = j
    BY <2>4 DEF BookInv
  <2>9. \A s, q \in DOMAIN remotes' : remotes'[s].client = remotes'[q].client => s = q
    BY DEF BookInv
  <2>10. BookInv'
    BY <2>6, <2>7, <2>8, <2>9 DEF BookInv
  <2>11. book[i].status = "none"
    BY <2>3 DEF Made
  <2>. QED  BY <2>4, <2>5, <2>10, <2>11
<1>. QED  BY <1>1, <1>2

-----------------------------------------------------------------------------
(* What is known stays known.                                              *)

\* What a call in flight carries stays true while invoices are only added or
\* settled.
LEMMA CallsKeep ==
    ASSUME BookKeeps, NEW call, CallOK(book, call)
    PROVE  CallOK(book', call)
BY DEF BookKeeps, CallOK, Made

\* What a browser knows of its signup stays true in the same way.
LEMMA KnowsKeeps ==
    ASSUME BookKeeps, NEW c, NEW s, Knows(book, c, s)
    PROVE  Knows(book', c, s)
BY DEF BookKeeps, Knows, Made

\* Browsers keep their facts when each draft and each tab either stands
\* still or is right anew.
LEMMA BrowsersKeep ==
    ASSUME BrowsersInv, BookKeeps,
           \A c \in Creds : drafts'[c] = drafts[c] \/ Knows(book', c, drafts'[c]),
           \A t \in Tabs : \/ tabs'[t].cred = tabs[t].cred /\ tabs'[t].signup = tabs[t].signup
                           \/ Knows(book', tabs'[t].cred, tabs'[t].signup)
    PROVE  BrowsersInv'
<1>1. ASSUME NEW c \in Creds  PROVE Knows(book', c, drafts'[c])
  <2>1. Knows(book', c, drafts[c])
    BY KnowsKeeps DEF BrowsersInv
  <2>. QED  BY <2>1
<1>2. ASSUME NEW t \in Tabs  PROVE Knows(book', tabs'[t].cred, tabs'[t].signup)
  <2>1. Knows(book', tabs[t].cred, tabs[t].signup)
    BY KnowsKeeps DEF BrowsersInv
  <2>. QED  BY <2>1
<1>. QED  BY <1>1, <1>2 DEF BrowsersInv

\* Who has a paid invoice keeps it.
LEMMA PaidKeeps ==
    ASSUME BookKeeps, NEW c, Paid(book, c)
    PROVE  Paid(book', c)
BY DEF BookKeeps, Paid, Made

\* No more is paid than before.
LEMMA PaymentKeeps ==
    ASSUME PaymentInv, BookKeeps, vouched \subseteq vouched', chain' = chain, txs' \subseteq txs,
           remotes' = remotes, \A t \in Tabs : CallOK(book, calls[t]),
           \A i \in Ids : book'[i].status = "paid" => book[i].status = "paid" \/ i \in vouched',
           \A t \in Tabs : calls'[t].op = "poll" => calls'[t] = calls[t]
    PROVE  PaymentInv'
<1>1. ASSUME NEW r \in DOMAIN remotes
      PROVE  /\ Made(book', remotes[r].client)
             /\ remotes[r].paid => remotes[r].client \in vouched'
  BY DEF PaymentInv, BookKeeps, Made
<1>2. ASSUME NEW i \in Ids, book'[i].status = "paid"  PROVE i \in vouched'
  BY <1>2 DEF PaymentInv
<1>3. ASSUME NEW t \in Tabs, calls'[t].op = "poll"  PROVE calls'[t].inv \in vouched'
  BY <1>3 DEF PaymentInv
<1>4. \A tx \in txs' : Paid(book', tx.cred)
  BY PaidKeeps DEF PaymentInv
<1>5. \A x \in Names : chain'[x].cred # None => Paid(book', chain'[x].cred)
  BY PaidKeeps DEF PaymentInv
<1>. QED  BY <1>1, <1>2, <1>3, <1>4, <1>5 DEF PaymentInv

\* What a step must show for the invariant: the invoices, the calls and tabs
\* it wrote, and, before the first restart, what browsers and the service know.
LEMMA InvFrom ==
    ASSUME SignupInv, BookInv', BookKeeps, life' = life,
           \A t \in Tabs : calls'[t] \in {calls[t], NoCall} \/ CallOK(book', calls'[t]),
           \A t \in Tabs : tabs'[t] \in {tabs[t], NoTab} \/ TabOK(tabs'[t]),
           life = 0 => BrowsersInv' /\ PaymentInv'
    PROVE  SignupInv'
<1>1. CallOK(book', NoCall) /\ TabOK(NoTab)
  BY DEF CallOK, NoCall, TabOK, NoTab, NoSignup
<1>2. \A t \in Tabs : CallOK(book', calls[t])
  BY CallsKeep DEF SignupInv
<1>3. \A t \in Tabs : CallOK(book', calls'[t]) /\ TabOK(tabs'[t])
  BY <1>1, <1>2 DEF SignupInv
<1>. QED  BY <1>3 DEF SignupInv

\* Where the books of both sides stay.
LEMMA BooksStand ==
    ASSUME SignupInv, UNCHANGED <<book, byCred, n, remotes>>
    PROVE  BookInv' /\ BookKeeps
<1>1. BookKeeps
  BY DEF BookKeeps
<1>. QED  BY <1>1 DEF SignupInv, BookInv

-----------------------------------------------------------------------------
(* The invoices.                                                           *)

\* Statuses and names of invoices change, no call and no tab hears of it.
LEMMA BookChanges ==
    ASSUME TypeOK, SignupInv, UNCHANGED <<n, life, remotes, registry, calls, tabs, storage, deks>>,
           book' \in [Ids -> InvoiceRecords], byCred' \in [Creds -> Nat],
           \A i \in Ids : /\ book'[i].cred = book[i].cred /\ book'[i].commerce = book[i].commerce
                          /\ Made(book', i) <=> Made(book, i)
                          /\ book[i].status = "paid" => book'[i].status = "paid",
           \A c \in Creds : byCred'[c] \in {0, byCred[c]},
           vouched \subseteq vouched', vouched' \subseteq Nat,
           life = 0 => \A i \in Ids : book'[i].status = "paid" =>
                           book[i].status = "paid" \/ i \in vouched'
    PROVE  TypeOK' /\ SignupInv'
<1>1. TypeOK'
  BY DEF TypeOK, registry, storage
<1>2. BookInv' /\ BookKeeps
  BY StatusMoves DEF SignupInv
<1>3. ASSUME life = 0  PROVE BrowsersInv' /\ PaymentInv'
  <2>1. BrowsersInv'
    BY <1>2, <1>3, BrowsersKeep DEF SignupInv, storage
  <2>2. PaymentInv'
    BY <1>2, <1>3, PaymentKeeps DEF SignupInv, registry
  <2>. QED  BY <2>1, <2>2
<1>. QED  BY <1>1, <1>2, <1>3, InvFrom

\* Cancelling and renaming an invoice, marking it by hand or by a webhook.
LEMMA NodeKeepsInv ==
    ASSUME TypeOK, SignupInv, NEW i \in Ids,
           \/ Cancel(i) \/ PayByHand(i) \/ Webhook(i)
           \/ \E name \in Names : Retarget(i, name)
    PROVE  TypeOK' /\ SignupInv'
<1>0. /\ book[i] \in InvoiceRecords /\ book \in [Ids -> InvoiceRecords]
      /\ byCred \in [Creds -> Nat] /\ vouched \subseteq Nat
  BY DEF TypeOK
<1>1. CASE Cancel(i)
  <2>1. book' = [book EXCEPT ![i] = [book[i] EXCEPT !.status = "cancelled", !.name = book[i].name]]
    BY <1>0, <1>1 DEF Cancel, CancelInvoice, InvoiceRecords
  <2>2. "cancelled" \in Statuses /\ book[i].name \in Names \cup {None} /\ Made(book, i)
    BY <1>0, <1>1 DEF Cancel, CancelInvoice, Awaiting, Made, Statuses, InvoiceRecords
  <2>3. /\ byCred' \in [Creds -> Nat] /\ \A c \in Creds : byCred'[c] \in {0, byCred[c]}
        /\ vouched' = vouched
        /\ UNCHANGED <<n, life, remotes, registry, calls, tabs, storage, deks>>
    BY <1>0, <1>1 DEF Cancel, CancelInvoice, service
  <2>4. /\ book' \in [Ids -> InvoiceRecords] /\ book'[i].status = "cancelled"
        /\ \A j \in Ids : book'[j].cred = book[j].cred /\ book'[j].commerce = book[j].commerce
        /\ \A j \in Ids : j # i => book'[j] = book[j]
    BY <2>1, <2>2, InvoiceMoves
  <2>5. \A j \in Ids : Made(book', j) <=> Made(book, j)
    BY <2>2, <2>4 DEF Made
  <2>6. \A j \in Ids : book'[j].status = "paid" <=> book[j].status = "paid"
    BY <1>1, <2>4 DEF Cancel, CancelInvoice, Awaiting
  <2>. QED  BY <1>0, <2>3, <2>4, <2>5, <2>6, BookChanges
<1>2. ASSUME NEW name \in Names, Retarget(i, name)  PROVE TypeOK' /\ SignupInv'
  <2>1. book' = [book EXCEPT ![i] = [book[i] EXCEPT !.status = book[i].status, !.name = name]]
    BY <1>0, <1>2 DEF Retarget, RetargetInvoice, InvoiceRecords
  <2>2. book[i].status \in Statuses
    BY <1>0 DEF InvoiceRecords
  <2>3. /\ UNCHANGED <<n, life, remotes, registry, calls, tabs, storage, deks>>
        /\ byCred' = byCred /\ vouched' = vouched
    BY <1>2 DEF Retarget, service
  <2>4. /\ book' \in [Ids -> InvoiceRecords] /\ book'[i].status = book[i].status
        /\ \A j \in Ids : book'[j].cred = book[j].cred /\ book'[j].commerce = book[j].commerce
        /\ \A j \in Ids : j # i => book'[j] = book[j]
    BY <1>0, <2>1, <2>2, <1>2, InvoiceMoves
  <2>5. \A j \in Ids : Made(book', j) <=> Made(book, j)
    BY <2>4 DEF Made
  <2>6. \A j \in Ids : book'[j].status = "paid" <=> book[j].status = "paid"
    BY <2>4
  <2>. QED  BY <1>0, <2>3, <2>4, <2>5, <2>6, BookChanges
<1>3. CASE PayByHand(i) \/ Webhook(i)
  <2>1. /\ UNCHANGED <<n, life, remotes, registry, calls, tabs, storage, deks>>
        /\ byCred' = byCred /\ vouched' = vouched \cup {i} /\ MarkPaid(i)
    BY <1>3 DEF PayByHand, Webhook
  <2>2. i \in Nat
    BY SignupAssumption DEF Ids
  <2>3. vouched' \subseteq Nat /\ vouched \subseteq vouched' /\ i \in vouched'
    BY <1>0, <2>1, <2>2
  <2>. QED  BY <1>0, <2>1, <2>3, MarkPaidMoves, BookChanges
<1>. QED  BY <1>1, <1>2, <1>3

\* The user pays over the link of a draft: it is the invoice of that credential.
LEMMA PayLinkKeepsInv ==
    ASSUME TypeOK, SignupInv, NEW c \in Creds, PayLink(c)
    PROVE  TypeOK' /\ SignupInv'
<1>. DEFINE r == drafts[c].link
<1>0. /\ remotes \in Seq([client : Nat, paid : BOOLEAN]) /\ drafts[c] \in Signups
      /\ vouched \subseteq Nat
  BY DEF TypeOK
<1>1. /\ UNCHANGED <<book, byCred, n, life, registry, calls, tabs, storage, deks>>
      /\ r \in DOMAIN remotes /\ vouched' = vouched \cup {remotes[r].client}
      /\ remotes' = [remotes EXCEPT ![r].paid = TRUE]
  BY DEF PayLink, node
<1>2. /\ remotes' \in Seq([client : Nat, paid : BOOLEAN]) /\ DOMAIN remotes' = DOMAIN remotes
      /\ \A q \in DOMAIN remotes : remotes'[q].client = remotes[q].client
      /\ \A q \in DOMAIN remotes : remotes'[q].paid => remotes[q].paid \/ q = r
      /\ remotes[r].client \in Nat
  <2>1. remotes[r] \in [client : Nat, paid : BOOLEAN] /\ r \in 1..Len(remotes)
    BY <1>0, <1>1, LenProperties, ElementOfSeq
  <2>2. [remotes[r] EXCEPT !.paid = TRUE] \in [client : Nat, paid : BOOLEAN]
    BY <2>1
  <2>3. remotes' = [remotes EXCEPT ![r] = [remotes[r] EXCEPT !.paid = TRUE]]
    BY <1>1
  <2>4. remotes' \in Seq([client : Nat, paid : BOOLEAN])
    BY <1>0, <2>1, <2>2, <2>3, ExceptSeq
  <2>. QED  BY <1>0, <2>1, <2>3, <2>4
<1>3. TypeOK'
  BY <1>0, <1>1, <1>2 DEF TypeOK, registry, storage
<1>4. BookKeeps
  BY <1>1 DEF BookKeeps
<1>5. BookInv'
  BY <1>1, <1>2 DEF SignupInv, BookInv
<1>6. ASSUME life = 0  PROVE BrowsersInv' /\ PaymentInv'
  <2>1. BrowsersInv'
    BY <1>1, <1>4, <1>6, BrowsersKeep DEF SignupInv, storage
  <2>2. \A q \in DOMAIN remotes' :
            /\ Made(book', remotes'[q].client)
            /\ remotes'[q].paid => remotes'[q].client \in vouched'
    BY <1>1, <1>2, <1>6 DEF SignupInv, PaymentInv
  <2>3. PaymentInv'
    BY <1>1, <1>6, <2>2 DEF SignupInv, PaymentInv, registry
  <2>. QED  BY <2>1, <2>3
<1>. QED  BY <1>1, <1>3, <1>4, <1>5, <1>6, InvFrom

-----------------------------------------------------------------------------
(* Tabs, and the calls they make.                                          *)

\* A tab without a link asks for an invoice.
LEMMA PostMoves ==
    ASSUME TypeOK, SignupInv, NEW t \in Tabs, NEW c \in Creds, NEW name \in Names \cup {None},
           tabs[t].signup.link = 0, PostInvoice(t, c, name), UNCHANGED <<life, service, registry>>
    PROVE  /\ SignupInv'
           /\ book' \in [Ids -> InvoiceRecords] /\ byCred' \in [Creds -> Nat] /\ n' \in Nat
           /\ calls' \in [Tabs -> CallRecords] /\ tabs' \in [Tabs -> TabRecords]
           /\ drafts' \in [Creds -> Signups]
<1>0. /\ calls \in [Tabs -> CallRecords] /\ drafts \in [Creds -> Signups]
      /\ remotes' = remotes /\ vouched' = vouched /\ chain' = chain /\ txs' = txs
  BY DEF TypeOK, service, registry
<1>1. PICK i \in Ids :
          /\ CreateInvoice(c, name, i)
          /\ IF book'[i].commerce # 0
             THEN /\ RedirectToSignup(t, c,
                        [inv |-> i, name |-> name, status |-> "awaiting_payment",
                         link |-> book'[i].commerce])
                  /\ UNCHANGED calls
             ELSE /\ calls' = [calls EXCEPT ![t] = [op |-> "create", cred |-> c, inv |-> i,
                                                    name |-> name, dek |-> 0]]
                  /\ To(t, "creating")
                  /\ UNCHANGED drafts
  BY DEF PostInvoice
<1>2. /\ book' \in [Ids -> InvoiceRecords] /\ byCred' \in [Creds -> Nat] /\ n' \in Nat
      /\ BookInv' /\ BookKeeps
      /\ Made(book', i) /\ book'[i].cred = c
      /\ \A j \in Ids : book'[j].status = "paid" => book[j].status = "paid"
  BY <1>0, <1>1, CreateMoves DEF SignupInv
<1>3. i \in Nat /\ book'[i] \in InvoiceRecords
  BY <1>2, SignupAssumption DEF Ids
<1>4. CASE book'[i].commerce # 0
  <2>. DEFINE s == [inv |-> i, name |-> name, status |-> "awaiting_payment",
                    link |-> book'[i].commerce]
  <2>1. s \in Signups /\ s.link = book'[i].commerce /\ s.inv = i
    BY <1>3 DEF Signups, Statuses, InvoiceRecords
  <2>2. Show(t, c, "resuming", s) /\ calls' = calls
    BY <1>1, <1>4 DEF RedirectToSignup
  <2>. HIDE DEF s
  <2>3. /\ tabs' \in [Tabs -> TabRecords] /\ drafts' \in [Creds -> Signups]
        /\ tabs'[t].phase = "resuming" /\ tabs'[t].cred = c /\ tabs'[t].signup = s
        /\ \A u \in Tabs : u # t => tabs'[u] = tabs[u]
        /\ \A b \in Creds : drafts'[b] = IF b = c THEN s ELSE drafts[b]
    BY <2>1, <2>2, ShowMoves DEF Phases
  <2>4. Knows(book', c, s)
    BY <1>2, <2>1 DEF Knows
  <2>5. TabOK(tabs'[t])
    BY <2>1, <2>3 DEF TabOK
  <2>6. ASSUME life = 0  PROVE BrowsersInv' /\ PaymentInv'
    <3>1. BrowsersInv'
      BY <1>2, <2>3, <2>4, <2>6, BrowsersKeep DEF SignupInv
    <3>2. PaymentInv'
      BY <1>0, <1>2, <2>2, <2>6, PaymentKeeps DEF SignupInv
    <3>. QED  BY <3>1, <3>2
  <2>7. SignupInv'
    BY <1>2, <2>2, <2>3, <2>5, <2>6, InvFrom
  <2>. QED  BY <1>0, <1>2, <2>2, <2>3, <2>7
<1>5. CASE book'[i].commerce = 0
  <2>. DEFINE call == [op |-> "create", cred |-> c, inv |-> i, name |-> name, dek |-> 0]
  <2>1. calls' = [calls EXCEPT ![t] = call] /\ To(t, "creating") /\ drafts' = drafts
    BY <1>1, <1>5
  <2>2. /\ call \in CallRecords /\ call.op = "create" /\ call.inv = i /\ call.cred = c
    BY <1>3 DEF CallRecords
  <2>. HIDE DEF call
  <2>3. /\ calls' \in [Tabs -> CallRecords] /\ calls'[t] = call
        /\ \A u \in Tabs : u # t => calls'[u] = calls[u]
    BY <1>0, <2>1, <2>2
  <2>4. /\ tabs' \in [Tabs -> TabRecords]
        /\ tabs'[t].phase = "creating" /\ tabs'[t].cred = tabs[t].cred
        /\ tabs'[t].signup = tabs[t].signup
        /\ \A u \in Tabs : u # t => tabs'[u] = tabs[u]
    BY <2>1, ToMoves DEF Phases
  <2>5. CallOK(book', call)
    BY <1>2, <2>2 DEF CallOK
  <2>6. TabOK(tabs'[t])
    BY <2>4 DEF TabOK
  <2>7. ASSUME life = 0  PROVE BrowsersInv' /\ PaymentInv'
    <3>1. BrowsersInv'
      BY <1>2, <2>1, <2>4, <2>7, BrowsersKeep DEF SignupInv
    <3>2. \A u \in Tabs : calls'[u].op = "poll" => calls'[u] = calls[u]
      BY <2>2, <2>3
    <3>3. PaymentInv'
      BY <1>0, <1>2, <2>7, <3>2, PaymentKeeps DEF SignupInv
    <3>. QED  BY <3>1, <3>3
  <2>8. SignupInv'
    BY <1>2, <2>3, <2>4, <2>5, <2>6, <2>7, InvFrom
  <2>. QED  BY <1>0, <1>2, <2>1, <2>3, <2>4, <2>8
<1>. QED  BY <1>4, <1>5

\* A tab on the landing page makes a passkey, to sign up or to have one.
LEMMA PasskeyKeepsInv ==
    ASSUME TypeOK, SignupInv, NEW t \in Tabs, NEW c \in Creds, NEW name \in Names,
           NewPasskey(t, c, name)
    PROVE  TypeOK' /\ SignupInv'
<1>1. /\ passkeys' \in [Creds -> Names \cup {None}]
      /\ UNCHANGED <<life, service, registry, deks>> /\ tabs[t].phase = "landing"
  BY DEF NewPasskey, Remember, OnLanding, TypeOK
<1>2. tabs[t].signup.link = 0
  BY <1>1 DEF SignupInv, TabOK
<1>3. CASE PostInvoice(t, c, name)
  <2>1. /\ SignupInv'
        /\ book' \in [Ids -> InvoiceRecords] /\ byCred' \in [Creds -> Nat] /\ n' \in Nat
        /\ calls' \in [Tabs -> CallRecords] /\ tabs' \in [Tabs -> TabRecords]
        /\ drafts' \in [Creds -> Signups]
    BY <1>1, <1>2, <1>3, PostMoves
  <2>. QED  BY <1>1, <2>1 DEF TypeOK, service, registry
<1>4. CASE UNCHANGED <<book, byCred, n, calls, tabs, drafts>>
  <2>1. TypeOK'
    BY <1>1, <1>4 DEF TypeOK, service, registry
  <2>2. SignupInv'
    BY <1>1, <1>4 DEF SignupInv, BookInv, BrowsersInv, PaymentInv, service, registry
  <2>. QED  BY <2>1, <2>2
<1>. QED  BY <1>3, <1>4 DEF NewPasskey

\* A tab drops its old signup to start another.
LEMMA RenewKeepsInv ==
    ASSUME TypeOK, SignupInv, NEW t \in Tabs, Renew(t)
    PROVE  TypeOK' /\ SignupInv'
<1>. DEFINE c == tabs[t].cred
<1>1. tabs[t].phase = "renewing" /\ UNCHANGED <<life, service, registry, passkeys, deks>>
  BY DEF Renew
<1>2. tabs[t].signup.link = 0 /\ c \in Creds
  BY <1>1 DEF SignupInv, TabOK
<1>3. passkeys[c] \in Names \cup {None}
  BY <1>2 DEF TypeOK
<1>4. CASE PostInvoice(t, c, passkeys[c])
  <2>1. /\ SignupInv'
        /\ book' \in [Ids -> InvoiceRecords] /\ byCred' \in [Creds -> Nat] /\ n' \in Nat
        /\ calls' \in [Tabs -> CallRecords] /\ tabs' \in [Tabs -> TabRecords]
        /\ drafts' \in [Creds -> Signups]
    BY <1>1, <1>2, <1>3, <1>4, PostMoves
  <2>. QED  BY <1>1, <2>1 DEF TypeOK, service, registry
<1>5. CASE Left(t) /\ UNCHANGED <<book, byCred, n, calls, drafts>>
  <2>1. /\ tabs' \in [Tabs -> TabRecords] /\ tabs'[t] = NoTab
        /\ \A u \in Tabs : u # t => tabs'[u] = tabs[u]
    BY <1>5, LeftMoves
  <2>2. TypeOK'
    BY <1>1, <1>5, <2>1 DEF TypeOK, service, registry
  <2>3. BookInv' /\ BookKeeps
    BY <1>1, <1>5, BooksStand DEF service
  <2>4. Knows(book', NoTab.cred, NoTab.signup)
    BY DEF Knows, NoTab, NoSignup
  <2>5. ASSUME life = 0  PROVE BrowsersInv' /\ PaymentInv'
    <3>1. BrowsersInv'
      BY <1>5, <2>1, <2>3, <2>4, <2>5, BrowsersKeep DEF SignupInv
    <3>2. PaymentInv'
      BY <1>1, <1>5, <2>3, <2>5, PaymentKeeps DEF SignupInv, service, registry
    <3>. QED  BY <3>1, <3>2
  <2>6. SignupInv'
    BY <1>1, <1>5, <2>1, <2>3, <2>5, InvFrom
  <2>. QED  BY <2>2, <2>6
<1>. QED  BY <1>4, <1>5 DEF Renew

\* A browser moves; the node, the service and the registry stay.
LEMMA BrowserChanges ==
    ASSUME TypeOK, SignupInv, UNCHANGED <<node, service, registry>>,
           tabs' \in [Tabs -> TabRecords], drafts' \in [Creds -> Signups],
           calls' \in [Tabs -> CallRecords], passkeys' \in [Creds -> Names \cup {None}],
           deks' \in Nat,
           \A t \in Tabs : calls'[t] \in {calls[t], NoCall},
           \A t \in Tabs : tabs'[t] \in {tabs[t], NoTab} \/ TabOK(tabs'[t]),
           life = 0 => \A c \in Creds : drafts'[c] = drafts[c] \/ Knows(book, c, drafts'[c]),
           life = 0 => \A t \in Tabs :
               \/ tabs'[t].cred = tabs[t].cred /\ tabs'[t].signup = tabs[t].signup
               \/ tabs'[t] = NoTab
               \/ Knows(book, tabs'[t].cred, tabs'[t].signup)
    PROVE  TypeOK' /\ SignupInv'
<1>0. UNCHANGED <<book, byCred, n, life, remotes, vouched, chain, txs>>
  BY DEF node, service, registry
<1>1. TypeOK'
  BY <1>0 DEF TypeOK
<1>2. BookInv' /\ BookKeeps
  BY <1>0, BooksStand
<1>3. Knows(book, NoTab.cred, NoTab.signup)
  BY DEF Knows, NoTab, NoSignup
<1>4. ASSUME life = 0  PROVE BrowsersInv' /\ PaymentInv'
  <2>1. BrowsersInv'
    BY <1>0, <1>2, <1>3, <1>4, BrowsersKeep DEF SignupInv
  <2>2. NoCall.op # "poll"
    BY DEF NoCall
  <2>3. PaymentInv'
    BY <1>0, <1>2, <1>4, <2>2, PaymentKeeps DEF SignupInv
  <2>. QED  BY <2>1, <2>3
<1>. QED  BY <1>0, <1>1, <1>2, <1>4, InvFrom

\* A call that ends leaves its tab without one; the others do not move.
LEMMA DoneMoves ==
    ASSUME TypeOK, NEW t \in Tabs, Done(t)
    PROVE  /\ calls' \in [Tabs -> CallRecords] /\ calls'[t] = NoCall
           /\ \A u \in Tabs : u # t => calls'[u] = calls[u]
<1>1. NoCall \in CallRecords
  BY DEF NoCall, CallRecords
<1>. QED  BY <1>1 DEF Done, TypeOK

\* A tab shows a signup and saves it.
LEMMA ShowKeepsInv ==
    ASSUME TypeOK, SignupInv, UNCHANGED <<node, service, registry, deks>>,
           NEW t \in Tabs, NEW c \in Creds \cup {None}, NEW phase \in {"resuming", "paying"},
           NEW s \in Signups, Show(t, c, phase, s), s.inv \in Ids, life = 0 => Knows(book, c, s),
           passkeys' \in [Creds -> Names \cup {None}], calls' \in [Tabs -> CallRecords],
           \A u \in Tabs : calls'[u] \in {calls[u], NoCall}
    PROVE  TypeOK' /\ SignupInv'
<1>1. /\ tabs' \in [Tabs -> TabRecords] /\ drafts' \in [Creds -> Signups]
      /\ tabs'[t].phase = phase /\ tabs'[t].cred = c /\ tabs'[t].signup = s
      /\ \A u \in Tabs : u # t => tabs'[u] = tabs[u]
      /\ \A b \in Creds : drafts'[b] = IF b = c THEN s ELSE drafts[b]
  <2>1. phase \in Phases
    BY DEF Phases
  <2>. QED  BY <2>1, ShowMoves
<1>2. TabOK(tabs'[t])
  BY <1>1 DEF TabOK
<1>3. deks' \in Nat
  BY DEF TypeOK
<1>. QED  BY <1>1, <1>2, <1>3, BrowserChanges

\* A tab goes on with what it has; the draft stays, or is cleared.
LEMMA ToKeepsInv ==
    ASSUME TypeOK, SignupInv, UNCHANGED <<node, service, registry, passkeys>>, deks' \in Nat,
           NEW t \in Tabs, NEW phase \in Phases, To(t, phase),
           \/ phase = "inbox"
           \/ /\ phase \in {"paying", "recovery"}
              /\ tabs[t].phase \in {"paying", "registering", "recovery"},
           drafts' = drafts \/ \E c \in Creds \cup {None} : ClearDraft(c),
           calls' \in [Tabs -> CallRecords], \A u \in Tabs : calls'[u] \in {calls[u], NoCall}
    PROVE  TypeOK' /\ SignupInv'
<1>1. /\ tabs' \in [Tabs -> TabRecords]
      /\ tabs'[t].phase = phase /\ tabs'[t].cred = tabs[t].cred
      /\ tabs'[t].signup = tabs[t].signup
      /\ \A u \in Tabs : u # t => tabs'[u] = tabs[u]
  BY ToMoves
<1>2. TabOK(tabs'[t])
  BY <1>1 DEF SignupInv, TabOK
<1>3. NoSignup \in Signups /\ \A c \in Creds : Knows(book, c, NoSignup)
  BY DEF NoSignup, Signups, Statuses, Knows
<1>4. drafts' \in [Creds -> Signups] /\ \A c \in Creds : drafts'[c] \in {drafts[c], NoSignup}
  BY <1>3 DEF ClearDraft, TypeOK
<1>5. passkeys' \in [Creds -> Names \cup {None}]
  BY DEF TypeOK
<1>6. \A c \in Creds : drafts'[c] = drafts[c] \/ Knows(book, c, drafts'[c])
  BY <1>3, <1>4
<1>. QED  BY <1>1, <1>2, <1>4, <1>5, <1>6, BrowserChanges

\* A step that only closes a tab or drops calls.
LEMMA LeaveKeepsInv ==
    ASSUME TypeOK, SignupInv, UNCHANGED <<node, service, registry, storage, deks>>,
           NEW t \in Tabs, Left(t) \/ UNCHANGED tabs,
           calls' \in [Tabs -> CallRecords], \A u \in Tabs : calls'[u] \in {calls[u], NoCall}
    PROVE  TypeOK' /\ SignupInv'
<1>1. tabs' \in [Tabs -> TabRecords] /\ \A u \in Tabs : tabs'[u] \in {tabs[u], NoTab}
  BY LeftMoves DEF TypeOK
<1>2. /\ drafts' = drafts /\ drafts' \in [Creds -> Signups]
      /\ passkeys' \in [Creds -> Names \cup {None}] /\ deks' \in Nat
  BY DEF TypeOK, storage
<1>. QED  BY <1>1, <1>2, BrowserChanges

\* Signing in and coming back.
LEMMA EnterKeepsInv ==
    ASSUME TypeOK, SignupInv, NEW t \in Tabs, NEW c \in Creds,
           SignIn(t, c) \/ ResumeUnpaid(t, c) \/ ReturnFromPayment(t, c)
    PROVE  TypeOK' /\ SignupInv'
<1>0. /\ UNCHANGED <<node, service, registry, calls, deks>>
      /\ calls' \in [Tabs -> CallRecords] /\ \A u \in Tabs : calls'[u] \in {calls[u], NoCall}
      /\ deks' \in Nat /\ tabs[t].phase = "landing" /\ tabs[t] \in TabRecords
      /\ drafts \in [Creds -> Signups] /\ passkeys \in [Creds -> Names \cup {None}]
      /\ tabs \in [Tabs -> TabRecords]
  BY DEF SignIn, ResumeUnpaid, ReturnFromPayment, Connects, OnLanding, TypeOK
<1>1. CASE SignIn(t, c)
  <2>1. To(t, "inbox") /\ ClearDraft(c) /\ passkeys' = passkeys
    BY <1>1 DEF SignIn, EnterInbox
  <2>. QED  BY <1>0, <2>1, ToKeepsInv DEF Phases
<1>2. CASE ResumeUnpaid(t, c)
  <2>1. CASE FetchOpenSignup(c) # NoSignup
    <3>. DEFINE s == FetchOpenSignup(c)  i == byCred[c]
    <3>1. OpenOf(c) # 0 /\ s = OpenSignup(c)
      BY <2>1 DEF FetchOpenSignup
    <3>2. i \in Ids /\ i = OpenOf(c) /\ book[i].status = "awaiting_payment"
      BY <3>1 DEF OpenOf, Awaiting
    <3>3. i # 0 /\ i \in Nat /\ book[i] \in InvoiceRecords
      BY <3>2, SignupAssumption DEF Ids, TypeOK
    <3>4. book[i].cred = c
      BY <3>3 DEF SignupInv, BookInv
    <3>5. s = [inv |-> i, name |-> book[i].name, status |-> book[i].status,
               link |-> book[i].commerce]
      BY <3>1, <3>2 DEF OpenSignup
    <3>6. s \in Signups /\ s.inv = i /\ s.link = book[i].commerce /\ s.name \in Names \cup {None}
      BY <3>3, <3>5 DEF Signups, InvoiceRecords
    <3>7. Knows(book, c, s)
      BY <3>2, <3>4, <3>6 DEF Knows, Made
    <3>8. Show(t, c, "resuming", s) /\ Remember(c, s.name)
      BY <1>2, <2>1 DEF ResumeUnpaid, RedirectToSignup
    <3>. HIDE DEF s
    <3>9. passkeys' \in [Creds -> Names \cup {None}]
      BY <1>0, <3>6, <3>8 DEF Remember
    <3>. QED  BY <1>0, <3>2, <3>6, <3>7, <3>8, <3>9, ShowKeepsInv
  <2>2. CASE FetchOpenSignup(c) = NoSignup
    <3>. DEFINE r == [tabs[t] EXCEPT !.phase = "renewing", !.cred = c]
    <3>1. tabs' = [tabs EXCEPT ![t] = r] /\ passkeys' = passkeys /\ drafts' = drafts
      BY <1>0, <1>2, <2>2 DEF ResumeUnpaid, storage
    <3>2. r \in TabRecords /\ r.phase = "renewing" /\ r.cred = c /\ r.signup = tabs[t].signup
      BY <1>0 DEF TabRecords, Phases
    <3>. HIDE DEF r
    <3>3. tabs[t].signup.link = 0
      BY <1>0 DEF SignupInv, TabOK
    <3>4. TabOK(r) /\ Knows(book, r.cred, r.signup)
      BY <3>2, <3>3 DEF TabOK, Knows
    <3>5. /\ tabs' \in [Tabs -> TabRecords] /\ tabs'[t] = r
          /\ \A u \in Tabs : u # t => tabs'[u] = tabs[u]
      BY <1>0, <3>1, <3>2
    <3>. QED  BY <1>0, <3>1, <3>4, <3>5, BrowserChanges
  <2>. QED  BY <2>1, <2>2
<1>3. CASE ReturnFromPayment(t, c)
  <2>. DEFINE s == [drafts[c] EXCEPT !.status = "paid"]
  <2>1. Show(t, c, "paying", s) /\ passkeys' = passkeys /\ drafts[c].inv \in Ids
    BY <1>3 DEF ReturnFromPayment, DraftsOf
  <2>2. drafts[c] \in Signups
    BY <1>0
  <2>3. s \in Signups /\ s.inv = drafts[c].inv /\ s.link = drafts[c].link
    BY <2>2 DEF Signups, Statuses
  <2>4. life = 0 => Knows(book, c, s)
    BY <2>3 DEF SignupInv, BrowsersInv, Knows
  <2>. HIDE DEF s
  <2>. QED  BY <1>0, <2>1, <2>3, <2>4, ShowKeepsInv
<1>. QED  BY <1>1, <1>2, <1>3

\* The tab shows what it heard of its invoice.
LEMMA StatusShown ==
    ASSUME TypeOK, SignupInv, UNCHANGED <<service, registry, passkeys, deks, byCred, n, life>>,
           NEW t \in Tabs, NEW status \in Statuses,
           tabs[t].phase \in {"resuming", "paying"}, ShowStatus(t, status)
    PROVE  /\ tabs' \in [Tabs -> TabRecords] /\ drafts' \in [Creds -> Signups]
           /\ TabOK(tabs'[t]) /\ tabs'[t].cred = tabs[t].cred
           /\ tabs'[t].signup.link = tabs[t].signup.link /\ tabs'[t].signup.inv = tabs[t].signup.inv
           /\ \A u \in Tabs : u # t => tabs'[u] = tabs[u]
           /\ \A c \in Creds : drafts'[c] = drafts[c] \/
                  (c = tabs'[t].cred /\ drafts'[c] = tabs'[t].signup)
<1>. DEFINE c == tabs[t].cred  s == [tabs[t].signup EXCEPT !.status = status]
<1>1. tabs[t] \in TabRecords
  BY DEF TypeOK
<1>2. c \in Creds \cup {None} /\ tabs[t].signup \in Signups
  BY <1>1 DEF TabRecords
<1>3. s \in Signups /\ s.inv = tabs[t].signup.inv /\ s.link = tabs[t].signup.link
  BY <1>2 DEF Signups
<1>4. Show(t, c, "paying", s)
  BY DEF ShowStatus
<1>. HIDE DEF s
<1>5. /\ tabs' \in [Tabs -> TabRecords] /\ drafts' \in [Creds -> Signups]
      /\ tabs'[t].phase = "paying" /\ tabs'[t].cred = c /\ tabs'[t].signup = s
      /\ \A u \in Tabs : u # t => tabs'[u] = tabs[u]
      /\ \A b \in Creds : drafts'[b] = IF b = c THEN s ELSE drafts[b]
  <2>1. "paying" \in Phases
    BY DEF Phases
  <2>. QED  BY <1>2, <1>3, <1>4, <2>1, ShowMoves
<1>6. TabOK(tabs'[t])
  BY <1>3, <1>5 DEF SignupInv, TabOK
<1>. QED  BY <1>3, <1>5, <1>6

\* Polling.
LEMMA PollKeepsInv ==
    ASSUME TypeOK, SignupInv, NEW t \in Tabs, Poll(t)
    PROVE  TypeOK' /\ SignupInv'
<1>. DEFINE i == tabs[t].signup.inv
<1>0. /\ UNCHANGED <<node, service, registry, passkeys, deks>>
      /\ tabs[t].phase \in {"resuming", "paying"}
      /\ UNCHANGED <<book, byCred, n, life, remotes, vouched, chain, txs>>
      /\ calls \in [Tabs -> CallRecords] /\ tabs \in [Tabs -> TabRecords]
      /\ drafts \in [Creds -> Signups] /\ book \in [Ids -> InvoiceRecords]
  BY DEF Poll, Polls, node, service, registry, TypeOK
<1>1. i \in Ids
  BY <1>0 DEF SignupInv, TabOK
<1>2. passkeys' \in [Creds -> Names \cup {None}] /\ deks' \in Nat
  BY <1>0 DEF TypeOK
<1>3. CASE UNCHANGED calls /\ ShowStatus(t, book[i].status)
  <2>1. book[i].status \in Statuses
    BY <1>0, <1>1 DEF InvoiceRecords
  <2>2. /\ tabs' \in [Tabs -> TabRecords] /\ drafts' \in [Creds -> Signups]
        /\ TabOK(tabs'[t]) /\ tabs'[t].cred = tabs[t].cred
        /\ tabs'[t].signup.link = tabs[t].signup.link
        /\ tabs'[t].signup.inv = tabs[t].signup.inv
        /\ \A u \in Tabs : u # t => tabs'[u] = tabs[u]
        /\ \A c \in Creds : drafts'[c] = drafts[c] \/
               (c = tabs'[t].cred /\ drafts'[c] = tabs'[t].signup)
    BY <1>0, <1>3, <2>1, StatusShown
  <2>3. life = 0 => Knows(book, tabs'[t].cred, tabs'[t].signup)
    BY <2>2 DEF SignupInv, BrowsersInv, Knows
  <2>. QED  BY <1>0, <1>2, <1>3, <2>2, <2>3, BrowserChanges
<1>4. CASE /\ Awaiting(i) /\ book[i].commerce # 0 /\ remotes[book[i].commerce].paid
           /\ calls' = [calls EXCEPT ![t] = [NoCall EXCEPT !.op = "poll", !.inv = i]]
           /\ UNCHANGED <<tabs, drafts>>
  <2>. DEFINE call == [NoCall EXCEPT !.op = "poll", !.inv = i]
  <2>1. call \in CallRecords /\ call.op = "poll" /\ call.inv = i
    <3>1. i \in Nat
      BY <1>1, SignupAssumption DEF Ids
    <3>2. NoCall \in CallRecords
      BY DEF NoCall, CallRecords
    <3>. QED  BY <3>1, <3>2 DEF CallRecords
  <2>2. calls' = [calls EXCEPT ![t] = call]
    BY <1>4
  <2>. HIDE DEF call
  <2>3. /\ calls' \in [Tabs -> CallRecords] /\ calls'[t] = call
        /\ \A u \in Tabs : u # t => calls'[u] = calls[u]
    BY <1>0, <2>1, <2>2
  <2>4. TypeOK'
    BY <1>0, <1>2, <1>4, <2>3 DEF TypeOK
  <2>5. Made(book, i)
    BY <1>1, <1>4 DEF Awaiting, Made
  <2>6. CallOK(book, call)
    BY <2>1, <2>5 DEF CallOK
  <2>7. BookInv' /\ BookKeeps
    BY <1>0, BooksStand
  <2>8. ASSUME life = 0  PROVE BrowsersInv' /\ PaymentInv'
    <3>1. BrowsersInv'
      BY <1>0, <1>4, <2>7, <2>8, BrowsersKeep DEF SignupInv
    <3>2. book[i].commerce \in DOMAIN remotes /\ remotes[book[i].commerce].client = i
      BY <1>1, <1>4 DEF SignupInv, BookInv
    <3>3. i \in vouched
      BY <1>4, <2>8, <3>2 DEF SignupInv, PaymentInv
    <3>4. \A u \in Tabs : calls'[u].op = "poll" => calls'[u].inv \in vouched
      BY <2>1, <2>3, <2>8, <3>3 DEF SignupInv, PaymentInv
    <3>5. PaymentInv'
      BY <1>0, <2>8, <3>4 DEF SignupInv, PaymentInv
    <3>. QED  BY <3>1, <3>5
  <2>. QED  BY <1>0, <1>4, <2>3, <2>4, <2>6, <2>7, <2>8, InvFrom
<1>. QED  BY <1>3, <1>4 DEF Poll

\* The answer of GET /invoices/:id, which may mark the invoice paid.
LEMMA PollAnsweredKeepsInv ==
    ASSUME TypeOK, SignupInv, NEW t \in Tabs, PollAnswered(t)
    PROVE  TypeOK' /\ SignupInv'
<1>. DEFINE i == calls[t].inv
<1>0. /\ UNCHANGED <<byCred, n, life, service, registry, passkeys, deks>>
      /\ UNCHANGED <<remotes, vouched, chain, txs>>
      /\ calls[t].op = "poll" /\ MarkPaid(i) /\ Done(t)
      /\ tabs \in [Tabs -> TabRecords] /\ drafts \in [Creds -> Signups]
  BY DEF PollAnswered, service, registry, TypeOK
<1>1. /\ book' \in [Ids -> InvoiceRecords]
      /\ \A j \in Ids : /\ book'[j].cred = book[j].cred /\ book'[j].commerce = book[j].commerce
                        /\ Made(book', j) <=> Made(book, j)
      /\ \A j \in Ids : book'[j].status = "paid" => book[j].status = "paid" \/ j = i
      /\ \A j \in Ids : book[j].status = "paid" => book'[j].status = "paid"
  BY <1>0, MarkPaidMoves
<1>2. i \in Ids
  BY <1>0 DEF SignupInv, CallOK, Made
<1>3. BookInv' /\ BookKeeps
  BY <1>0, <1>1, StatusMoves DEF SignupInv
<1>4. /\ calls' \in [Tabs -> CallRecords] /\ calls'[t] = NoCall
      /\ \A u \in Tabs : u # t => calls'[u] = calls[u]
  BY <1>0, DoneMoves
<1>5. /\ tabs' \in [Tabs -> TabRecords] /\ drafts' \in [Creds -> Signups]
      /\ \A u \in Tabs : u # t => tabs'[u] = tabs[u]
      /\ tabs'[t] = tabs[t] \/ TabOK(tabs'[t])
      /\ /\ tabs'[t].cred = tabs[t].cred /\ tabs'[t].signup.link = tabs[t].signup.link
         /\ tabs'[t].signup.inv = tabs[t].signup.inv
      /\ \A c \in Creds : drafts'[c] = drafts[c] \/
             (c = tabs'[t].cred /\ drafts'[c] = tabs'[t].signup)
  <2>1. CASE UNCHANGED <<tabs, drafts>>
    BY <1>0, <2>1
  <2>2. CASE Hears(t, {"resuming", "paying"}) /\ ShowStatus(t, book'[i].status)
    <3>1. book'[i].status \in Statuses
      BY <1>1, <1>2 DEF InvoiceRecords
    <3>2. tabs[t].phase \in {"resuming", "paying"}
      BY <2>2 DEF Hears
    <3>. QED  BY <1>0, <2>2, <3>1, <3>2, StatusShown
  <2>. QED  BY <2>1, <2>2 DEF PollAnswered
<1>6. TypeOK'
  BY <1>0, <1>1, <1>4, <1>5 DEF TypeOK
<1>7. ASSUME life = 0  PROVE BrowsersInv' /\ PaymentInv'
  <2>1. Knows(book', tabs[t].cred, tabs[t].signup)
    BY <1>3, <1>7, KnowsKeeps DEF SignupInv, BrowsersInv
  <2>2. Knows(book', tabs'[t].cred, tabs'[t].signup)
    BY <1>5, <2>1 DEF Knows
  <2>3. BrowsersInv'
    BY <1>3, <1>5, <1>7, <2>2, BrowsersKeep DEF SignupInv
  <2>4. i \in vouched
    BY <1>0, <1>7 DEF SignupInv, PaymentInv
  <2>5. NoCall.op # "poll"
    BY DEF NoCall
  <2>6. PaymentInv'
    BY <1>0, <1>1, <1>3, <1>4, <1>7, <2>4, <2>5, PaymentKeeps DEF SignupInv
  <2>. QED  BY <2>3, <2>6
<1>. QED  BY <1>0, <1>3, <1>4, <1>5, <1>6, <1>7, InvFrom

\* A new invoice of the service, for an invoice that has none.
LEMMA NewRemoteMoves ==
    ASSUME TypeOK, SignupInv, NEW t \in Tabs, calls[t].op = "create",
           RemoteOf(calls[t].inv) = {}, NewRemote(t)
    PROVE  /\ remotes' \in Seq([client : Nat, paid : BOOLEAN])
           /\ Len(remotes') = Len(remotes) + 1 /\ Len(remotes) \in Nat
           /\ DOMAIN remotes' = 1..Len(remotes') /\ DOMAIN remotes = 1..Len(remotes)
           /\ \A r \in DOMAIN remotes : r \in DOMAIN remotes' /\ remotes'[r] = remotes[r]
           /\ remotes'[Len(remotes')] = [client |-> calls[t].inv, paid |-> FALSE]
           /\ book[calls[t].inv].commerce = 0
           /\ \A r, q \in DOMAIN remotes' : remotes'[r].client = remotes'[q].client => r = q
<1>. DEFINE new == [client |-> calls[t].inv, paid |-> FALSE]
            S == [client : Nat, paid : BOOLEAN]
<1>1. remotes \in Seq(S) /\ new \in S
  BY DEF TypeOK, CallRecords
<1>2. remotes' = Append(remotes, new)
  BY DEF NewRemote
<1>3. \A r \in DOMAIN remotes : remotes[r].client # calls[t].inv
  BY DEF RemoteOf
<1>. HIDE DEF new, S
<1>4. /\ remotes' \in Seq(S) /\ Len(remotes') = Len(remotes) + 1 /\ Len(remotes) \in Nat
      /\ DOMAIN remotes' = 1..Len(remotes') /\ DOMAIN remotes = 1..Len(remotes)
      /\ \A r \in 1..Len(remotes) : remotes'[r] = remotes[r]
      /\ remotes'[Len(remotes) + 1] = new
  BY <1>1, <1>2, AppendProperties, LenProperties
<1>5. new.client = calls[t].inv
  BY DEF new
<1>6. book[calls[t].inv].commerce = 0
  BY <1>3 DEF SignupInv, BookInv, CallOK, Made
<1>7. \A r, q \in DOMAIN remotes : remotes[r].client = remotes[q].client => r = q
  BY DEF SignupInv, BookInv
<1>8. ASSUME NEW r \in DOMAIN remotes', NEW q \in DOMAIN remotes',
             remotes'[r].client = remotes'[q].client
      PROVE  r = q
  BY <1>3, <1>4, <1>5, <1>7, <1>8
<1>. QED  BY <1>4, <1>6, <1>8 DEF new, S

\* r is the one counterpart of the invoice i now.
Counterpart(i, r) ==
    /\ r # 0
    /\ remotes' \in Seq([client : Nat, paid : BOOLEAN])
    /\ r \in DOMAIN remotes' /\ remotes'[r].client = i
    /\ \A q \in DOMAIN remotes : q \in DOMAIN remotes' /\ remotes'[q] = remotes[q]
    /\ \A q \in DOMAIN remotes' : q \in DOMAIN remotes \/ (q = r /\ ~remotes'[q].paid)
    /\ \A p, q \in DOMAIN remotes' : remotes'[p].client = remotes'[q].client => p = q
    /\ book[i].commerce # 0 => book[i].commerce = r

\* The answer of the service, new or repeated: the invoice has that one counterpart.
LEMMA CommerceKeepsInv ==
    ASSUME TypeOK, SignupInv, NEW t \in Tabs, CommerceCreates(t)
    PROVE  TypeOK' /\ SignupInv'
<1>. DEFINE call == calls[t]  i == calls[t].inv
<1>0. /\ calls[t].op = "create" /\ calls[t] \in CallRecords
      /\ book \in [Ids -> InvoiceRecords] /\ tabs \in [Tabs -> TabRecords]
      /\ drafts \in [Creds -> Signups]
  BY DEF CommerceCreates, TypeOK
<1>1. i \in Ids /\ Made(book, i) /\ book[i].cred = call.cred /\ i \in Nat
  BY <1>0 DEF SignupInv, CallOK, Made, CallRecords
<1>2. \E r \in Nat : Attach(t, r) /\ Counterpart(i, r)
  <2>1. CASE RemoteOf(i) = {} /\ NewRemote(t) /\ Attach(t, Len(remotes'))
    <3>1. /\ remotes' \in Seq([client : Nat, paid : BOOLEAN])
          /\ Len(remotes') = Len(remotes) + 1 /\ Len(remotes) \in Nat
          /\ DOMAIN remotes' = 1..Len(remotes') /\ DOMAIN remotes = 1..Len(remotes)
          /\ \A q \in DOMAIN remotes : q \in DOMAIN remotes' /\ remotes'[q] = remotes[q]
          /\ remotes'[Len(remotes')] = [client |-> calls[t].inv, paid |-> FALSE]
          /\ book[i].commerce = 0
          /\ \A p, q \in DOMAIN remotes' : remotes'[p].client = remotes'[q].client => p = q
      BY <1>0, <2>1, NewRemoteMoves
    <3>2. \E r \in Nat : r = Len(remotes')
      BY <3>1
    <3>3. PICK r \in Nat : r = Len(remotes')
      BY <3>2
    <3>4. r # 0 /\ r \in DOMAIN remotes' /\ \A q \in DOMAIN remotes' : q \in DOMAIN remotes \/ q = r
      BY <3>1, <3>3
    <3>5. remotes'[r].client = i /\ ~remotes'[r].paid
      BY <3>1, <3>3
    <3>6. Counterpart(i, r)
      BY <3>1, <3>4, <3>5 DEF Counterpart
    <3>. QED  BY <2>1, <3>3, <3>6
  <2>2. ASSUME NEW r \in RemoteOf(i), Attach(t, r), UNCHANGED remotes
        PROVE  r \in Nat /\ Counterpart(i, r)
    <3>1. r \in DOMAIN remotes /\ remotes[r].client = i
      BY <2>2 DEF RemoteOf
    <3>2. remotes \in Seq([client : Nat, paid : BOOLEAN]) /\ remotes' = remotes
      BY <2>2 DEF TypeOK
    <3>3. DOMAIN remotes = 1..Len(remotes) /\ Len(remotes) \in Nat
      BY <3>2, LenProperties
    <3>4. r \in Nat /\ r # 0
      BY <3>1, <3>3
    <3>5. \A p, q \in DOMAIN remotes : remotes[p].client = remotes[q].client => p = q
      BY DEF SignupInv, BookInv
    <3>6. book[i].commerce # 0 => book[i].commerce = r
      BY <1>1, <3>1, <3>5 DEF SignupInv, BookInv
    <3>7. Counterpart(i, r)
      BY <3>1, <3>2, <3>4, <3>5, <3>6 DEF Counterpart
    <3>. QED  BY <3>4, <3>7
  <2>. QED  BY <2>1, <2>2 DEF CommerceCreates
<1>11. PICK r \in Nat : Attach(t, r) /\ Counterpart(i, r)
  BY <1>2
<1>12. /\ r # 0
       /\ remotes' \in Seq([client : Nat, paid : BOOLEAN])
       /\ r \in DOMAIN remotes' /\ remotes'[r].client = i
       /\ \A q \in DOMAIN remotes : q \in DOMAIN remotes' /\ remotes'[q] = remotes[q]
       /\ \A q \in DOMAIN remotes' : q \in DOMAIN remotes \/ (q = r /\ ~remotes'[q].paid)
       /\ \A p, q \in DOMAIN remotes' : remotes'[p].client = remotes'[q].client => p = q
       /\ book[i].commerce # 0 => book[i].commerce = r
  BY <1>11 DEF Counterpart
<1>3. /\ book' = [book EXCEPT ![i].commerce = r] /\ Done(t)
      /\ UNCHANGED <<byCred, n, life, vouched, registry, passkeys, deks>>
  BY <1>11 DEF Attach
<1>4. /\ book' \in [Ids -> InvoiceRecords] /\ book'[i].commerce = r
      /\ \A j \in Ids : j # i => book'[j] = book[j]
      /\ \A j \in Ids : book'[j].status = book[j].status /\ book'[j].cred = book[j].cred
  <2>. DEFINE new == [book[i] EXCEPT !.commerce = r]
  <2>1. book[i] \in InvoiceRecords
    BY <1>0, <1>1
  <2>2. /\ new \in InvoiceRecords /\ new.commerce = r /\ new.status = book[i].status
        /\ new.cred = book[i].cred
    BY <2>1 DEF InvoiceRecords
  <2>3. book' = [book EXCEPT ![i] = new]
    BY <1>3
  <2>. HIDE DEF new
  <2>. QED  BY <1>0, <1>1, <2>2, <2>3
<1>5. /\ calls' \in [Tabs -> CallRecords] /\ calls'[t] = NoCall
      /\ \A u \in Tabs : u # t => calls'[u] = calls[u]
  BY <1>3, DoneMoves
<1>6. BookKeeps
  BY <1>12, <1>4 DEF BookKeeps, Made
<1>7. BookInv'
  <2>1. \A j \in Ids : j > n' => ~Made(book', j)
    BY <1>3, <1>4 DEF SignupInv, BookInv, Made
  <2>2. \A c \in Creds : byCred'[c] # 0 => Made(book', byCred'[c]) /\ book'[byCred'[c]].cred = c
    BY <1>3, <1>6 DEF SignupInv, BookInv, BookKeeps, Made
  <2>3. \A j \in Ids : book'[j].commerce # 0 =>
            book'[j].commerce \in DOMAIN remotes' /\ remotes'[book'[j].commerce].client = j
    BY <1>12, <1>4 DEF SignupInv, BookInv
  <2>. QED  BY <1>12, <2>1, <2>2, <2>3 DEF BookInv
<1>8. /\ tabs' \in [Tabs -> TabRecords] /\ drafts' \in [Creds -> Signups]
      /\ tabs'[t] = tabs[t] \/
             (TabOK(tabs'[t]) /\ Knows(book', tabs'[t].cred, tabs'[t].signup))
      /\ \A u \in Tabs : u # t => tabs'[u] = tabs[u]
      /\ \A c \in Creds : drafts'[c] = drafts[c] \/ Knows(book', c, drafts'[c])
  <2>. DEFINE s == [inv |-> i, name |-> call.name, status |-> "awaiting_payment", link |-> r]
  <2>1. CASE UNCHANGED <<tabs, drafts>>
    BY <1>0, <2>1
  <2>2. CASE RedirectToSignup(t, call.cred, s)
    <3>1. s \in Signups /\ s.inv = i /\ s.link = r
      BY <1>0, <1>1 DEF Signups, Statuses, CallRecords
    <3>2. call.cred \in Creds \cup {None} /\ "resuming" \in Phases
      BY <1>0 DEF CallRecords, Phases
    <3>3. Show(t, call.cred, "resuming", s)
      BY <2>2 DEF RedirectToSignup
    <3>. HIDE DEF s
    <3>4. /\ tabs' \in [Tabs -> TabRecords] /\ drafts' \in [Creds -> Signups]
          /\ tabs'[t].phase = "resuming" /\ tabs'[t].cred = call.cred /\ tabs'[t].signup = s
          /\ \A u \in Tabs : u # t => tabs'[u] = tabs[u]
          /\ \A b \in Creds : drafts'[b] = IF b = call.cred THEN s ELSE drafts[b]
      BY <3>1, <3>2, <3>3, ShowMoves
    <3>5. Knows(book', call.cred, s)
      BY <1>1, <1>4, <1>6, <3>1 DEF Knows, Made
    <3>6. TabOK(tabs'[t])
      BY <1>1, <3>1, <3>4 DEF TabOK
    <3>. QED  BY <3>4, <3>5, <3>6
  <2>. QED  BY <1>11, <2>1, <2>2 DEF Attach
<1>9. TypeOK'
  BY <1>12, <1>3, <1>4, <1>5, <1>8 DEF TypeOK, registry
<1>10. ASSUME life = 0  PROVE BrowsersInv' /\ PaymentInv'
  <2>1. BrowsersInv'
    BY <1>6, <1>8, <1>10, BrowsersKeep DEF SignupInv
  <2>2. ASSUME NEW q \in DOMAIN remotes'
        PROVE  /\ Made(book', remotes'[q].client)
               /\ remotes'[q].paid => remotes'[q].client \in vouched'
    <3>1. CASE q \in DOMAIN remotes
      BY <1>12, <1>3, <1>6, <1>10, <3>1 DEF SignupInv, PaymentInv, BookKeeps, Made
    <3>2. CASE q = r /\ ~remotes'[q].paid
      BY <1>1, <1>12, <1>6, <3>2 DEF BookKeeps
    <3>. QED  BY <1>12, <3>1, <3>2
  <2>3. \A j \in Ids : book'[j].status = "paid" => j \in vouched'
    BY <1>3, <1>4, <1>10 DEF SignupInv, PaymentInv
  <2>4. NoCall.op # "poll"
    BY DEF NoCall
  <2>5. ASSUME NEW u \in Tabs, calls'[u].op = "poll"
        PROVE  calls'[u].inv \in vouched'
    <3>1. calls'[u] = calls[u]
      BY <1>5, <2>4, <2>5
    <3>. QED  BY <1>3, <1>10, <2>5, <3>1 DEF SignupInv, PaymentInv
  <2>6. /\ \A tx \in txs' : Paid(book', tx.cred)
        /\ \A x \in Names : chain'[x].cred # None => Paid(book', chain'[x].cred)
    BY <1>3, <1>6, <1>10, PaidKeeps DEF SignupInv, PaymentInv, registry
  <2>7. PaymentInv'
    BY <2>2, <2>3, <2>5, <2>6 DEF PaymentInv
  <2>. QED  BY <2>1, <2>7
<1>. QED  BY <1>3, <1>5, <1>6, <1>7, <1>8, <1>9, <1>10, InvFrom

\* The payment service refuses or drops the creation of a remote invoice.
LEMMA CommerceFailsKeepsInv ==
    ASSUME TypeOK, SignupInv, NEW t \in Tabs, CommerceFails(t)
    PROVE  TypeOK' /\ SignupInv'
<1>0. /\ UNCHANGED <<node, vouched, registry, storage, deks>> /\ calls[t].op = "create"
      /\ Left(t) \/ UNCHANGED tabs
      /\ Done(t)
  BY DEF CommerceFails
<1>1. /\ calls' \in [Tabs -> CallRecords] /\ calls'[t] = NoCall
      /\ \A u \in Tabs : u # t => calls'[u] = calls[u]
  BY <1>0, DoneMoves
<1>2. CASE UNCHANGED remotes
  BY <1>0, <1>1, <1>2, LeaveKeepsInv DEF service
<1>3. CASE RemoteOf(calls[t].inv) = {} /\ NewRemote(t)
  <2>0. UNCHANGED <<book, byCred, n, life, vouched, chain, txs, passkeys, drafts, deks>>
    BY <1>0 DEF node, registry, storage
  <2>1. /\ remotes' \in Seq([client : Nat, paid : BOOLEAN])
        /\ Len(remotes') = Len(remotes) + 1 /\ Len(remotes) \in Nat
        /\ DOMAIN remotes' = 1..Len(remotes') /\ DOMAIN remotes = 1..Len(remotes)
        /\ \A r \in DOMAIN remotes : r \in DOMAIN remotes' /\ remotes'[r] = remotes[r]
        /\ remotes'[Len(remotes')] = [client |-> calls[t].inv, paid |-> FALSE]
        /\ \A r, q \in DOMAIN remotes' : remotes'[r].client = remotes'[q].client => r = q
    BY <1>0, <1>3, NewRemoteMoves
  <2>2. tabs' \in [Tabs -> TabRecords] /\ \A u \in Tabs : tabs'[u] \in {tabs[u], NoTab}
    BY <1>0, LeftMoves DEF TypeOK
  <2>3. TypeOK'
    BY <1>1, <2>0, <2>1, <2>2 DEF TypeOK
  <2>4. BookKeeps
    BY <2>0 DEF BookKeeps
  <2>5. BookInv'
    <3>1. \A i \in Ids : book'[i].commerce # 0 =>
              book'[i].commerce \in DOMAIN remotes' /\ remotes'[book'[i].commerce].client = i
      BY <2>0, <2>1 DEF SignupInv, BookInv
    <3>. QED  BY <2>0, <2>1, <3>1 DEF SignupInv, BookInv
  <2>6. ASSUME life = 0  PROVE BrowsersInv' /\ PaymentInv'
    <3>0. Knows(book', NoTab.cred, NoTab.signup) /\ NoCall.op # "poll"
      BY DEF Knows, NoTab, NoSignup, NoCall
    <3>1. BrowsersInv'
      BY <2>0, <2>2, <2>4, <2>6, <3>0, BrowsersKeep DEF SignupInv
    <3>2. Made(book, calls[t].inv)
      BY <1>0 DEF SignupInv, CallOK
    <3>3. ASSUME NEW q \in DOMAIN remotes'
          PROVE  /\ Made(book, remotes'[q].client)
                 /\ remotes'[q].paid => remotes'[q].client \in vouched
      <4>1. CASE q \in DOMAIN remotes
        BY <2>1, <2>6, <4>1 DEF SignupInv, PaymentInv
      <4>2. CASE q = Len(remotes')
        BY <2>1, <3>2, <4>2
      <4>. QED  BY <2>1, <4>1, <4>2
    <3>4. \A u \in Tabs : calls'[u].op = "poll" => calls'[u].inv \in vouched
      BY <1>1, <2>6, <3>0 DEF SignupInv, PaymentInv
    <3>5. PaymentInv'
      BY <2>0, <2>6, <3>3, <3>4 DEF SignupInv, PaymentInv
    <3>. QED  BY <3>1, <3>5
  <2>. QED  BY <1>1, <2>0, <2>2, <2>3, <2>4, <2>5, <2>6, InvFrom
<1>. QED  BY <1>2, <1>3 DEF CommerceFails

\* Answers that are lost, tabs that are left.
LEMMA EndKeepsInv ==
    ASSUME TypeOK, SignupInv, NEW t \in Tabs,
           PollFails(t) \/ Leave(t) \/ RegisterAnswered(t) \/ RegisterFails(t) \/ Confirm(t)
    PROVE  TypeOK' /\ SignupInv'
<1>0. deks' \in Nat /\ UNCHANGED <<node, service, registry, passkeys, deks>>
  BY DEF PollFails, Leave, RegisterAnswered, RegisterFails, Confirm, storage, TypeOK
<1>1. calls' \in [Tabs -> CallRecords] /\ \A u \in Tabs : calls'[u] \in {calls[u], NoCall}
  <2>1. CASE Done(t)
    BY <2>1, DoneMoves
  <2>2. CASE UNCHANGED calls
    BY <2>2 DEF TypeOK
  <2>. QED  BY <2>1, <2>2 DEF PollFails, Leave, RegisterAnswered, RegisterFails, Confirm
<1>2. CASE PollFails(t) \/ Leave(t)
  <2>1. UNCHANGED storage /\ (Left(t) \/ UNCHANGED tabs)
    BY <1>2 DEF PollFails, Leave
  <2>. QED  BY <1>0, <1>1, <2>1, LeaveKeepsInv
<1>3. CASE RegisterFails(t)
  <2>1. UNCHANGED storage
    BY <1>3 DEF RegisterFails
  <2>2. CASE Hears(t, {"registering"}) /\ To(t, "paying")
    <3>1. tabs[t].phase = "registering" /\ drafts' = drafts
      BY <2>1, <2>2 DEF Hears, storage
    <3>. QED  BY <1>0, <1>1, <2>2, <3>1, ToKeepsInv DEF Phases
  <2>3. CASE UNCHANGED tabs
    BY <1>0, <1>1, <2>1, <2>3, LeaveKeepsInv
  <2>. QED  BY <1>3, <2>2, <2>3 DEF RegisterFails
<1>4. CASE RegisterAnswered(t)
  <2>. DEFINE r == [tabs[t] EXCEPT !.phase = "recovery", !.dek = calls[t].dek]
  <2>0. /\ UNCHANGED storage /\ tabs[t] \in TabRecords /\ tabs \in [Tabs -> TabRecords]
        /\ calls[t].dek \in Nat /\ drafts \in [Creds -> Signups]
        /\ passkeys \in [Creds -> Names \cup {None}]
    BY <1>4 DEF RegisterAnswered, TypeOK, CallRecords
  <2>1. CASE Hears(t, {"registering"}) /\ tabs' = ShowRecovery(t, calls[t].dek)
    <3>1. tabs[t].phase = "registering"
      BY <2>1 DEF Hears
    <3>2. tabs' = [tabs EXCEPT ![t] = r]
      BY <2>0, <2>1 DEF ShowRecovery
    <3>3. /\ r \in TabRecords /\ r.phase = "recovery" /\ r.cred = tabs[t].cred
          /\ r.signup = tabs[t].signup
      BY <2>0 DEF TabRecords, Phases
    <3>. HIDE DEF r
    <3>4. TabOK(r)
      BY <3>1, <3>3 DEF SignupInv, TabOK
    <3>5. /\ tabs' \in [Tabs -> TabRecords] /\ tabs'[t] = r
          /\ \A u \in Tabs : u # t => tabs'[u] = tabs[u]
      BY <2>0, <3>2, <3>3
    <3>6. passkeys' \in [Creds -> Names \cup {None}] /\ drafts' \in [Creds -> Signups] /\ drafts' = drafts
      BY <2>0 DEF storage
    <3>. QED  BY <1>0, <1>1, <3>3, <3>4, <3>5, <3>6, BrowserChanges
  <2>2. CASE UNCHANGED tabs
    BY <1>0, <1>1, <2>0, <2>2, LeaveKeepsInv
  <2>. QED  BY <1>4, <2>1, <2>2 DEF RegisterAnswered
<1>5. CASE Confirm(t)
  <2>1. To(t, "inbox") /\ ClearDraft(tabs[t].cred) /\ passkeys' = passkeys
    BY <1>5 DEF Confirm, EnterInbox, OptInChallenge
  <2>2. tabs[t].cred \in Creds \cup {None}
    BY DEF TypeOK, TabRecords
  <2>. QED  BY <1>0, <1>1, <2>1, <2>2, ToKeepsInv DEF Phases
<1>. QED  BY <1>2, <1>3, <1>4, <1>5

\* Who asks the relayer for a name has a paid invoice.
LEMMA RegisterKeepsInv ==
    ASSUME TypeOK, SignupInv, NEW t \in Tabs, Register(t)
    PROVE  TypeOK' /\ SignupInv'
<1>. DEFINE signed == RegisterChallenge(tabs[t], deks + 1)
            call == [NoCall EXCEPT !.op = "register", !.dek = deks + 1]
<1>0. /\ UNCHANGED <<book, byCred, n, life, remotes, vouched, chain, passkeys, drafts>>
      /\ tabs[t].phase = "paying" /\ deks' = deks + 1
      /\ MayRegister(tabs[t].signup.inv, signed.cred, signed.name)
      /\ txs' = txs \cup {signed} /\ calls' = [calls EXCEPT ![t] = call]
      /\ To(t, "registering")
  BY DEF Register, MayClickRegister, node, service, storage
<1>1. /\ tabs[t] \in TabRecords /\ deks \in Nat /\ calls \in [Tabs -> CallRecords]
      /\ txs \subseteq [name : Names \cup {None}, cred : Creds \cup {None}, dek : Nat]
  BY DEF TypeOK
<1>2. /\ signed \in [name : Names \cup {None}, cred : Creds \cup {None}, dek : Nat]
      /\ signed.cred = tabs[t].cred
  BY <1>1 DEF RegisterChallenge, TabRecords, Signups
<1>3. call \in CallRecords /\ call.op = "register"
  <2>1. NoCall \in CallRecords
    BY DEF NoCall, CallRecords
  <2>2. deks + 1 \in Nat
    BY <1>1
  <2>. QED  BY <2>1, <2>2 DEF CallRecords
<1>. HIDE DEF call, signed
<1>4. /\ calls' \in [Tabs -> CallRecords] /\ calls'[t] = call
      /\ \A u \in Tabs : u # t => calls'[u] = calls[u]
  BY <1>0, <1>1, <1>3
<1>5. /\ tabs' \in [Tabs -> TabRecords]
      /\ tabs'[t].phase = "registering" /\ tabs'[t].cred = tabs[t].cred
      /\ tabs'[t].signup = tabs[t].signup
      /\ \A u \in Tabs : u # t => tabs'[u] = tabs[u]
  BY <1>0, ToMoves DEF Phases
<1>6. deks' \in Nat /\ txs' \subseteq [name : Names \cup {None}, cred : Creds \cup {None}, dek : Nat]
  BY <1>0, <1>1, <1>2
<1>7. TypeOK'
  BY <1>0, <1>4, <1>5, <1>6 DEF TypeOK
<1>8. BookInv' /\ BookKeeps
  BY <1>0, BooksStand
<1>9. TabOK(tabs'[t])
  BY <1>0, <1>5 DEF SignupInv, TabOK
<1>10. CallOK(book', call)
  BY <1>3 DEF CallOK
<1>11. ASSUME life = 0  PROVE BrowsersInv' /\ PaymentInv'
  <2>1. BrowsersInv'
    BY <1>0, <1>5, <1>8, <1>11, BrowsersKeep DEF SignupInv
  <2>2. tabs[t].signup.inv \in Ids
    BY <1>0 DEF SignupInv, TabOK
  <2>3. Paid(book, signed.cred)
    BY <1>0, <2>2 DEF MayRegister, PaidForCredential, Paid
  <2>4. \A tx \in txs' : Paid(book, tx.cred)
    BY <1>0, <1>11, <2>3 DEF SignupInv, PaymentInv
  <2>5. \A u \in Tabs : calls'[u].op = "poll" => calls'[u].inv \in vouched
    BY <1>3, <1>4, <1>11 DEF SignupInv, PaymentInv
  <2>6. PaymentInv'
    BY <1>0, <1>11, <2>4, <2>5 DEF SignupInv, PaymentInv
  <2>. QED  BY <2>1, <2>6
<1>. QED  BY <1>0, <1>4, <1>5, <1>7, <1>8, <1>9, <1>10, <1>11, InvFrom

\* The chain takes a transaction that sets the DEK of a mailbox.
LEMMA MineKeepsInv ==
    ASSUME TypeOK, SignupInv, NEW tx \in txs, Mine(tx)
    PROVE  TypeOK' /\ SignupInv'
<1>. DEFINE new == [cred |-> tx.cred, dek |-> tx.dek]
<1>0. /\ UNCHANGED <<book, byCred, n, life, remotes, vouched, calls, tabs, passkeys, drafts, deks>>
      /\ txs' = txs \ {tx}
      /\ chain' = IF chain[tx.name].cred # None THEN chain ELSE [chain EXCEPT ![tx.name] = new]
      /\ tx \in [name : Names \cup {None}, cred : Creds \cup {None}, dek : Nat]
      /\ chain \in [Names -> [cred : Creds \cup {None}, dek : Nat]]
  BY DEF Mine, node, service, storage, TypeOK
<1>1. new \in [cred : Creds \cup {None}, dek : Nat] /\ new.cred = tx.cred
  BY <1>0
<1>. HIDE DEF new
<1>2. /\ chain' \in [Names -> [cred : Creds \cup {None}, dek : Nat]]
      /\ \A x \in Names : chain'[x] \in {chain[x], new}
  BY <1>0, <1>1
<1>3. TypeOK'
  BY <1>0, <1>2 DEF TypeOK
<1>4. BookInv' /\ BookKeeps
  BY <1>0, BooksStand
<1>5. ASSUME life = 0  PROVE BrowsersInv' /\ PaymentInv'
  <2>1. BrowsersInv'
    BY <1>0, <1>4, <1>5, BrowsersKeep DEF SignupInv
  <2>2. Paid(book, tx.cred)
    BY <1>5 DEF SignupInv, PaymentInv
  <2>3. \A x \in Names : chain'[x].cred # None => Paid(book, chain'[x].cred)
    BY <1>1, <1>2, <1>5, <2>2 DEF SignupInv, PaymentInv
  <2>4. PaymentInv'
    BY <1>0, <1>5, <2>3 DEF SignupInv, PaymentInv
  <2>. QED  BY <2>1, <2>4
<1>. QED  BY <1>0, <1>3, <1>4, <1>5, InvFrom

\* After a restart nothing is known but what the tabs go on with.
LEMMA RestartKeepsInv ==
    ASSUME TypeOK, SignupInv, Restart
    PROVE  TypeOK' /\ SignupInv'
<1>0. /\ UNCHANGED <<remotes, vouched, chain, txs, passkeys, drafts, deks>>
      /\ life \in Nat /\ life' = life + 1 /\ n' = 0
      /\ book' = [i \in Ids |-> NoInvoice] /\ byCred' = [c \in Creds |-> 0]
      /\ calls' = [t \in Tabs |-> NoCall]
      /\ tabs' = [t \in Tabs |->
                     IF tabs[t].phase = "creating" THEN NoTab
                     ELSE IF tabs[t].phase = "registering" THEN [tabs[t] EXCEPT !.phase = "paying"]
                     ELSE tabs[t]]
  BY DEF Restart, service, registry, storage, TypeOK
<1>1. NoInvoice \in InvoiceRecords /\ NoCall \in CallRecords /\ NoTab \in TabRecords
  BY DEF NoInvoice, InvoiceRecords, NoCall, CallRecords, NoTab, NoSignup, TabRecords, Phases, Signups,
     Statuses
<1>2. ASSUME NEW t \in Tabs  PROVE tabs'[t] \in TabRecords /\ TabOK(tabs'[t])
  <2>. DEFINE r == [tabs[t] EXCEPT !.phase = "paying"]
  <2>1. tabs[t] \in TabRecords /\ TabOK(tabs[t])
    BY DEF TypeOK, SignupInv
  <2>2. r \in TabRecords /\ r.phase = "paying" /\ r.signup = tabs[t].signup
    BY <2>1 DEF TabRecords, Phases
  <2>3. tabs[t].phase = "registering" => TabOK(r)
    BY <2>1, <2>2 DEF TabOK
  <2>4. TabOK(NoTab)
    BY DEF TabOK, NoTab, NoSignup
  <2>. HIDE DEF r
  <2>5. tabs'[t] \in {NoTab, tabs[t]} \/ (tabs[t].phase = "registering" /\ tabs'[t] = r)
    BY <1>0 DEF r
  <2>. QED  BY <1>1, <2>1, <2>2, <2>3, <2>4, <2>5
<1>3. TypeOK'
  <2>1. tabs' \in [Tabs -> TabRecords]
    BY <1>0, <1>2
  <2>2. /\ book' \in [Ids -> InvoiceRecords] /\ byCred' \in [Creds -> Nat]
        /\ calls' \in [Tabs -> CallRecords] /\ n' \in Nat /\ life' \in Nat
    BY <1>0, <1>1
  <2>. QED  BY <1>0, <2>1, <2>2 DEF TypeOK
<1>4. BookInv'
  BY <1>0 DEF SignupInv, BookInv, Made, NoInvoice
<1>5. \A t \in Tabs : CallOK(book', calls'[t])
  BY <1>0 DEF CallOK, NoCall
<1>6. life' # 0
  BY <1>0
<1>. QED  BY <1>2, <1>3, <1>4, <1>5, <1>6 DEF SignupInv

-----------------------------------------------------------------------------
(* Every step.                                                             *)

\* One step of the specification, by the kinds of Next.
LEMMA SignupInvStep == TypeOK /\ SignupInv /\ [Next]_vars => TypeOK' /\ SignupInv'
<1>. SUFFICES ASSUME TypeOK, SignupInv, [Next]_vars PROVE TypeOK' /\ SignupInv'
  OBVIOUS
<1>1. ASSUME NEW t \in Tabs, Server(t)  PROVE TypeOK' /\ SignupInv'
  BY <1>1, CommerceKeepsInv, CommerceFailsKeepsInv, PollAnsweredKeepsInv, EndKeepsInv DEF Server
<1>2. ASSUME NEW t \in Tabs, Tab(t)  PROVE TypeOK' /\ SignupInv'
  <2>1. CASE \E c \in Creds, name \in Names : SignUp(t, c, name) \/ MintPasskey(t, c, name)
    BY <2>1, PasskeyKeepsInv DEF SignUp, MintPasskey
  <2>2. CASE \E c \in Creds : SignIn(t, c) \/ ResumeUnpaid(t, c) \/ ReturnFromPayment(t, c)
    BY <2>2, EnterKeepsInv
  <2>3. CASE Renew(t) \/ Poll(t) \/ Register(t) \/ Confirm(t) \/ Leave(t)
    BY <2>3, RenewKeepsInv, PollKeepsInv, RegisterKeepsInv, EndKeepsInv
  <2>. QED  BY <1>2, <2>1, <2>2, <2>3 DEF Tab
<1>3. CASE UNCHANGED vars
  <2>1. UNCHANGED <<node, service, registry, calls, tabs, storage, deks>>
    BY <1>3 DEF vars
  <2>2. calls' \in [Tabs -> CallRecords]
    BY <2>1 DEF TypeOK
  <2>3. ASSUME NEW t \in Tabs  PROVE TypeOK' /\ SignupInv'
    BY <2>1, <2>2, LeaveKeepsInv
  <2>4. CASE Tabs = {}
    BY <2>1, <2>4 DEF TypeOK, SignupInv, BookInv, BrowsersInv, PaymentInv, node, service, registry,
       storage
  <2>. QED  BY <2>3, <2>4
<1>. QED  BY <1>1, <1>2, <1>3, NodeKeepsInv, PayLinkKeepsInv, MineKeepsInv, RestartKeepsInv
     DEF Next

\* The types and the inductive invariant hold in every state of every run.
LEMMA SignupInvariant == Spec => [](TypeOK /\ SignupInv)
<1>1. Init => TypeOK
  <2>1. NoInvoice \in InvoiceRecords /\ NoCall \in CallRecords /\ NoTab \in TabRecords
    BY DEF NoInvoice, InvoiceRecords, NoCall, CallRecords, NoTab, NoSignup, TabRecords, Phases,
       Signups, Statuses
  <2>2. NoSignup \in Signups /\ <<>> \in Seq([client : Nat, paid : BOOLEAN])
    BY DEF NoSignup, Signups, Statuses
  <2>. QED  BY <2>1, <2>2 DEF Init, TypeOK, Unregistered
<1>2. Init => SignupInv
  BY DEF Init, SignupInv, BookInv, BrowsersInv, PaymentInv, CallOK, TabOK, Knows, Made, NoInvoice,
     NoCall, NoTab, NoSignup, Unregistered
<1>. QED  BY <1>1, <1>2, SignupInvStep, PTL DEF Spec

-----------------------------------------------------------------------------
(* What follows from it.                                                   *)

\* Invoices, calls, tabs and what the browser keeps have their types, through any
\* number of restarts of the node.
THEOREM TypeCorrect == Spec => []TypeOK
BY SignupInvariant, PTL

\* As long as the node lives a link that a browser holds leads to the credential's own
\* invoice, however many calls created it at the payment service.
THEOREM LinksFindInvoices == Spec => []PaymentFindsInvoice
<1>1. SignupInv => PaymentFindsInvoice
  BY DEF SignupInv, BrowsersInv, Knows, PaymentFindsInvoice
<1>. QED  BY <1>1, SignupInvariant, PTL

\* Until the node restarts nobody registers a name without an invoice that the book has
\* as paid, and the book has none as paid unless the service, the test helper or a post
\* to the webhook said so.
THEOREM RegisteredMeansPaid == Spec => []MailboxesArePaid
<1>1. SignupInv => MailboxesArePaid
  BY DEF SignupInv, PaymentInv, Paid, MailboxesArePaid
<1>. QED  BY <1>1, SignupInvariant, PTL

\* An invoice nobody waits for any more.
Settled(i) == book[i].status \in {"paid", "cancelled"}

\* A paid or cancelled invoice keeps its status until a restart forgets it.
LEMMA SettledStays ==
    ASSUME TypeOK, SignupInv, [Next]_vars, NEW i \in Ids, Settled(i)
    PROVE  book'[i].status \in {book[i].status, "none"}
<1>0. book \in [Ids -> InvoiceRecords] /\ i \in Ids /\ ~Awaiting(i)
  BY DEF TypeOK, Settled, Awaiting
<1>1. CASE UNCHANGED book
  BY <1>1
<1>2. ASSUME NEW j \in Ids, Cancel(j) \/ \E name \in Names : Retarget(j, name)
      PROVE  book'[i].status = book[i].status
  <2>1. CASE Cancel(j)
    BY <1>0, <2>1 DEF Cancel, CancelInvoice
  <2>2. ASSUME NEW name \in Names, Retarget(j, name)  PROVE book'[i].status = book[i].status
    <3>1. book' = [book EXCEPT ![j] = [book[j] EXCEPT !.name = name]]
      BY <1>0, <2>2 DEF Retarget, RetargetInvoice
    <3>2. [book[j] EXCEPT !.name = name].status = book[j].status
      BY <1>0 DEF InvoiceRecords
    <3>. QED  BY <1>0, <3>1, <3>2
  <2>. QED  BY <1>2, <2>1, <2>2
<1>3. ASSUME NEW j, MarkPaid(j)  PROVE book'[i].status = book[i].status
  BY <1>0, <1>3, MarkPaidMoves
<1>4. ASSUME NEW t \in Tabs, NEW c \in Creds, NEW name \in Names \cup {None}, PostInvoice(t, c, name),
             UNCHANGED remotes
      PROVE  book'[i].status = book[i].status
  <2>1. PICK j \in Ids : CreateInvoice(c, name, j)
    BY <1>4 DEF PostInvoice
  <2>. QED  BY <1>4, <2>1, CreateMoves DEF Settled, SignupInv
<1>5. ASSUME NEW t \in Tabs, NEW r, Attach(t, r)  PROVE book'[i].status = book[i].status
  <2>. DEFINE j == calls[t].inv
  <2>1. book' = [book EXCEPT ![j].commerce = r]
    BY <1>5 DEF Attach
  <2>2. CASE i # j
    BY <1>0, <2>1, <2>2
  <2>3. CASE i = j
    <3>1. book'[i] = [book[i] EXCEPT !.commerce = r]
      BY <1>0, <2>1, <2>3
    <3>. QED  BY <1>0, <3>1 DEF InvoiceRecords
  <2>. QED  BY <2>2, <2>3
<1>6. ASSUME NEW t \in Tabs, Server(t)  PROVE book'[i].status = book[i].status
  <2>1. CASE CommerceCreates(t)
    BY <1>5, <2>1 DEF CommerceCreates
  <2>2. CASE PollAnswered(t)
    BY <1>3, <2>2 DEF PollAnswered
  <2>3. CASE UNCHANGED book
    BY <2>3
  <2>. QED  BY <1>6, <2>1, <2>2, <2>3
       DEF Server, CommerceFails, PollFails, RegisterAnswered, RegisterFails, node
<1>7. ASSUME NEW t \in Tabs, Tab(t)  PROVE book'[i].status = book[i].status
  <2>1. ASSUME NEW c \in Creds, NEW name \in Names, NewPasskey(t, c, name)
        PROVE  book'[i].status = book[i].status
    BY <1>4, <2>1 DEF NewPasskey, service
  <2>2. CASE Renew(t)
    <3>1. tabs[t].cred \in Creds
      BY <2>2 DEF Renew, SignupInv, TabOK
    <3>2. passkeys[tabs[t].cred] \in Names \cup {None}
      BY <3>1 DEF TypeOK
    <3>. QED  BY <1>4, <2>2, <3>1, <3>2 DEF Renew, service
  <2>3. CASE UNCHANGED book
    BY <2>3
  <2>. QED  BY <1>7, <2>1, <2>2, <2>3
       DEF Tab, SignUp, MintPasskey, SignIn, ResumeUnpaid, ReturnFromPayment, Poll, Register, Confirm,
           Leave, node
<1>8. CASE Restart
  BY <1>8 DEF Restart, NoInvoice
<1>9. ASSUME NEW j \in Ids, PayByHand(j) \/ Webhook(j)  PROVE book'[i].status = book[i].status
  BY <1>3, <1>9 DEF PayByHand, Webhook
<1>10. CASE Next
  BY <1>1, <1>2, <1>6, <1>7, <1>8, <1>9, <1>10 DEF Next, PayLink, Mine, node
<1>. QED  BY <1>1, <1>10 DEF vars, node

\* A late poll, a webhook that is repeated, a cancellation or a rename never changes
\* what became of an invoice; only a restart forgets it.
THEOREM SettledIsFinal == Spec => StatusIsFinal
<1>1. TypeOK /\ SignupInv /\ [Next]_vars
      => [\A i \in Ids : book[i].status \in {"paid", "cancelled"} =>
              book'[i].status \in {book[i].status, "none"}]_vars
  BY SettledStays DEF Settled
<1>. QED  BY <1>1, SignupInvariant, PTL DEF Spec, StatusIsFinal
=============================================================================
