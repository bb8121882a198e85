------------------------- MODULE SponsorshipPayments -------------------------
(***************************************************************************)
(* How a sponsorship is created, paid and credited.                        *)
(*                                                                         *)
(*   services/sponsorship.service.ts  createSponsorship,                   *)
(*                                    markSponsorshipPaid / ...Failed      *)
(*   routes/sponsorships.ts           POST / and POST /:id/verify-payment  *)
(*   routes/webhooks.ts               razorpayWebhookHandler               *)
(*                                                                         *)
(* Every HTTP handler is a process of the API server.  It reads the        *)
(* sponsorship row, decides, and only later opens the transaction that     *)
(* writes: the read and the commit are separate steps, and other handlers  *)
(* run in between.  A $transaction is one step: its first statement        *)
(* updates the sponsorship row, and every value it uses afterwards comes   *)
(* from a row it has locked.  A handler may crash at any step.             *)
(*                                                                         *)
(* The provider (Razorpay, or the stub that stands in for it) is external: *)
(* payments are captured or fail there, and it calls the webhook for each  *)
(* outcome, at least once, in any order, again after any answer but a 200. *)
(* createOrder gives every sponsorship an order of its own, so the order   *)
(* of sponsorship s is written s.                                          *)
(***************************************************************************)
EXTENDS RequestTable, Functions

CONSTANTS
    Sponsorships,       \* sponsorship rows that may be created
    PaymentIds,         \* payment ids of the provider
    NoRequest,          \* sponsorship.requestId is null
    NoPayment,          \* a payment id column that is null
    RequestOf,          \* sponsorship.requestId
    OrderOf,            \* the order a payment is made against
    Amount,             \* sponsorship.amountPaise
    LateCapture         \* may the provider capture a payment it had failed?

VARIABLES
    checkout,       \* progress of POST /sponsorships for each sponsorship
    sponsorship,    \* the Sponsorship table
    transactions,   \* the Transaction table
    attempt,        \* provider: the outcome of each payment
    webhook,        \* provider: the state of each event it has to deliver
    handler,        \* verify-payment and webhook handlers in flight
    notices,        \* notifications about each payment, by recipient
    raced           \* history: sponsorships credited while a handler of another
                    \* payment of the order had read the row and not yet written

tables == <<sponsorship, transactions, request, raced>>
provider == <<attempt, webhook>>
paymentVars == <<checkout, tables, provider, handler, notices>>

-----------------------------------------------------------------------------
PaymentStatus == {"CREATED", "PAID", "FAILED"}
Recipients == {"athlete", "sponsor"}

SponsorshipRow == [exists: BOOLEAN, hasOrder: BOOLEAN,
                   paymentStatus: PaymentStatus,
                   paymentId: PaymentIds \cup {NoPayment}]
TransactionRow == [sponsorship: Sponsorships,
                   payment: PaymentIds \cup {NoPayment},
                   status: PaymentStatus]
Events == [kind: {"captured", "failed"}, payment: PaymentIds]
HandlerState == {Idle} \cup
                [pc: {"markPaid", "markFailed", "tellAthlete", "tellSponsor"},
                 via: {"checkout", "webhook"},
                 sponsorship: Sponsorships,
                 payment: PaymentIds]

ASSUME PaymentsAssumption ==
    /\ NoRequest \notin Requests
    /\ NoPayment \notin PaymentIds
    /\ RequestOf \in [Sponsorships -> Requests \cup {NoRequest}]
    /\ OrderOf \in [PaymentIds -> Sponsorships]
    /\ Amount \in [Sponsorships -> Nat \ {0}]
    /\ Totals \subseteq Nat
    /\ LateCapture \in BOOLEAN

PaymentsTypeOK ==
    /\ checkout \in [Sponsorships -> {"none", "inserting", "ordering", "returned", "crashed"}]
    /\ sponsorship \in [Sponsorships -> SponsorshipRow]
    /\ transactions \subseteq TransactionRow
    /\ request \in [Requests -> RequestRow]
    /\ attempt \in [PaymentIds -> {"none", "failed", "captured"}]
    /\ webhook \in [Events -> {"unsent", "pending", "acked"}]
    /\ handler \in [Handlers -> HandlerState]
    /\ notices \in [PaymentIds -> [Recipients -> Nat]]
    /\ raced \subseteq Sponsorships

-----------------------------------------------------------------------------
\* transaction.providerPaymentId is @unique (null is not compared).
NeverRecorded(p) == FALSE       \* seeded bug: the column is not unique
PaymentRecorded(p) == \E t \in transactions : t.payment = p

Paid(s) == {t \in transactions : t.sponsorship = s /\ t.status = "PAID"}

CapturedFor(s) == {p \in PaymentIds : OrderOf[p] = s /\ attempt[p] = "captured"}

\* verifyCheckoutSignature: the provider signs the payments it has taken.
AnySignature(p) == TRUE         \* seeded bug: the signature is not checked
SignatureValid(p) == attempt[p] = "captured"

\* The order the client names must be the order of the sponsorship it names.
AnyOrder(s, p) == TRUE          \* seeded bug: no PAYMENT_MISMATCH
OrderMatches(s, p) == OrderOf[p] = s

\* The payment statuses that leave a handler nothing to do: markSponsorshipPaid
\* returns early on PAID, markSponsorshipFailed on PAID and on FAILED.
SettledEitherWay(kind) == {"PAID", "FAILED"}    \* seeded bug: one early return for both
\* Seeded bug: a failed payment is turned away from a FAILED row only.
SettledAlike(kind) == IF kind = "captured" THEN {"PAID"} ELSE {"FAILED"}
Settled(kind) == IF kind = "captured" THEN {"PAID"} ELSE {"PAID", "FAILED"}

\* raisedAmountPaise: { increment: amountPaise }.
RaisedSet(raised, amount) == amount             \* seeded bug: set, not increment
RaisedLess(raised, amount) == raised - amount   \* seeded bug: decrement
RaisedAfter(raised, amount) == raised + amount

\* Seeded bugs: an overfunded request only counts; a withdrawn one is reopened.
StatusIfExceeded(status, total, raised) ==
    IF status = "CLOSED" THEN "CLOSED"
    ELSE IF raised > total THEN "FULFILLED" ELSE "PARTIALLY_FULFILLED"
StatusReopened(status, total, raised) ==
    IF raised >= total THEN "FULFILLED" ELSE "PARTIALLY_FULFILLED"

\* The status a payment leaves a request in: never out of CLOSED.
StatusAfterPayment(status, total, raised) ==
    IF status = "CLOSED" THEN "CLOSED"
    ELSE IF raised >= total THEN "FULFILLED" ELSE "PARTIALLY_FULFILLED"

\* A request row once a payment of that amount has been added to it.
WithPayment(row, amount) ==
    LET raised == RaisedAfter(row.raised, amount) IN
    [row EXCEPT !.raised = raised,
                !.status = StatusAfterPayment(row.status, row.total, raised)]

\* The handler answers; a webhook answered 200 is acknowledged.
Acknowledge(h, kind) ==
    /\ handler' = [handler EXCEPT ![h] = Idle]
    /\ webhook' = IF handler[h].via = "webhook"
                  THEN [webhook EXCEPT ![[kind |-> kind,
                                          payment |-> handler[h].payment]] = "acked"]
                  ELSE webhook

-----------------------------------------------------------------------------
(* POST /sponsorships *)

\* createSponsorship checks the request it is asked to answer: there must be
\* one, and only a CLOSED one is refused.  (Left out: it also refuses an inactive
\* athlete, oneself, and a request of another athlete than the one named.)
CheckSponsorable(s) ==
    /\ checkout[s] = "none"
    /\ RequestOf[s] \in Requests =>
            request[RequestOf[s]].status \notin {"ABSENT", "CLOSED"}
    /\ checkout' = [checkout EXCEPT ![s] = "inserting"]
    /\ UNCHANGED <<tables, provider, handler, notices>>

\* First transaction: the code counter and the sponsorship row.
InsertSponsorship(s) ==
    /\ checkout[s] = "inserting"
    /\ sponsorship' = [sponsorship EXCEPT ![s].exists = TRUE]
    /\ checkout' = [checkout EXCEPT ![s] = "ordering"]
    /\ UNCHANGED <<transactions, request, raced, provider, handler, notices>>

\* The provider's createOrder and the second transaction that stores the order
\* id; only then does the sponsor learn the order and can pay it.
AttachOrder(s) ==
    /\ checkout[s] = "ordering"
    /\ sponsorship' = [sponsorship EXCEPT ![s].hasOrder = TRUE]
    /\ transactions' = transactions \cup
            {[sponsorship |-> s, payment |-> NoPayment, status |-> "CREATED"]}
    /\ checkout' = [checkout EXCEPT ![s] = "returned"]
    /\ UNCHANGED <<request, raced, provider, handler, notices>>

\* The server stops, or the provider refuses the order, between the steps.
CrashCheckout(s) ==
    /\ checkout[s] \in {"inserting", "ordering"}
    /\ checkout' = [checkout EXCEPT ![s] = "crashed"]
    /\ UNCHANGED <<tables, provider, handler, notices>>

-----------------------------------------------------------------------------
(* The payment provider *)

\* The sponsor knows the order and may pay it, with more than one payment even.
OrderOpen(s) == checkout[s] = "returned"

CapturePayment(p) ==
    /\ OrderOpen(OrderOf[p])
    /\ \/ attempt[p] = "none"
       \/ LateCapture /\ attempt[p] = "failed"
    /\ attempt' = [attempt EXCEPT ![p] = "captured"]
    /\ webhook' = [webhook EXCEPT ![[kind |-> "captured", payment |-> p]] = "pending"]
    /\ UNCHANGED <<checkout, tables, handler, notices>>

FailPayment(p) ==
    /\ OrderOpen(OrderOf[p])
    /\ attempt[p] = "none"
    /\ attempt' = [attempt EXCEPT ![p] = "failed"]
    /\ webhook' = [webhook EXCEPT ![[kind |-> "failed", payment |-> p]] = "pending"]
    /\ UNCHANGED <<checkout, tables, handler, notices>>

-----------------------------------------------------------------------------
(* POST /sponsorships/:id/verify-payment and the webhook: the reads *)

\* The sponsor's browser posts the payment the checkout reported.  A row that
\* is PAID already is answered at once; the order must be the row's; the
\* signature proves that the provider took the payment for that order.
VerifyPayment(h, s, p) ==
    /\ handler[h].pc = "idle"
    /\ sponsorship[s].exists /\ sponsorship[s].hasOrder
    /\ sponsorship[s].paymentStatus # "PAID"
    /\ OrderMatches(s, p)
    /\ SignatureValid(p)
    /\ handler' = [handler EXCEPT ![h] = [pc |-> "markPaid", via |-> "checkout",
                                          sponsorship |-> s, payment |-> p]]
    /\ UNCHANGED <<checkout, tables, provider, notices>>

\* An event whose order is known and whose row is not already in the state the
\* event would bring it to: the handler goes on to write.
ReceiveWebhook(h, e) ==
    LET s == OrderOf[e.payment] IN
    /\ handler[h].pc = "idle"
    /\ webhook[e] # "unsent"
    /\ sponsorship[s].hasOrder
    /\ sponsorship[s].paymentStatus \notin Settled(e.kind)
    /\ handler' = [handler EXCEPT ![h] =
            [pc |-> IF e.kind = "captured" THEN "markPaid" ELSE "markFailed",
             via |-> "webhook", sponsorship |-> s, payment |-> e.payment]]
    /\ UNCHANGED <<checkout, tables, provider, notices>>

\* An event with nothing left to do is answered 200.
IgnoreWebhook(h, e) ==
    LET s == OrderOf[e.payment] IN
    /\ handler[h].pc = "idle"
    /\ webhook[e] = "pending"
    /\ sponsorship[s].hasOrder
    /\ sponsorship[s].paymentStatus \in Settled(e.kind)
    /\ webhook' = [webhook EXCEPT ![e] = "acked"]
    /\ UNCHANGED <<checkout, tables, attempt, handler, notices>>

-----------------------------------------------------------------------------
(* The writes *)

\* Another handler has read the row of s for a payment that is not p and has
\* still to write it.
OtherInFlight(s, p) ==
    \E g \in Handlers :
        /\ handler[g].pc \in {"markPaid", "markFailed"}
        /\ handler[g].sponsorship = s /\ handler[g].payment # p

\* markSponsorshipPaid's transaction.  The early return was taken on the row
\* the handler read: the transaction itself looks at no payment status.
CommitPaid(h) ==
    LET s == handler[h].sponsorship
        p == handler[h].payment
        r == RequestOf[s] IN
    /\ handler[h].pc = "markPaid"
    /\ ~PaymentRecorded(p)
    /\ sponsorship' = [sponsorship EXCEPT
                        ![s] = [@ EXCEPT !.paymentStatus = "PAID", !.paymentId = p]]
    /\ transactions' = transactions \cup
            {[sponsorship |-> s, payment |-> p, status |-> "PAID"]}
    /\ request' = IF r \in Requests
                  THEN [request EXCEPT ![r] = WithPayment(@, Amount[s])]
                  ELSE request
    /\ handler' = [handler EXCEPT ![h].pc = "tellAthlete"]
    /\ raced' = IF OtherInFlight(s, p) THEN raced \cup {s} ELSE raced
    /\ UNCHANGED <<checkout, provider, notices>>

\* markSponsorshipFailed's transaction, as unconditional as the other.
CommitFailed(h) ==
    LET s == handler[h].sponsorship
        p == handler[h].payment IN
    /\ handler[h].pc = "markFailed"
    /\ ~PaymentRecorded(p)
    /\ sponsorship' = [sponsorship EXCEPT ![s].paymentStatus = "FAILED"]
    /\ transactions' = transactions \cup
            {[sponsorship |-> s, payment |-> p, status |-> "FAILED"]}
    /\ Acknowledge(h, "failed")
    /\ UNCHANGED <<checkout, request, raced, attempt, notices>>

\* Seeded bug: the P2002 error is swallowed and the handler goes on to notify.
SwallowDuplicate(h) ==
    /\ handler[h].pc = "markPaid"
    /\ PaymentRecorded(handler[h].payment)
    /\ handler' = [handler EXCEPT ![h].pc = "tellAthlete"]
    /\ UNCHANGED <<checkout, tables, provider, notices>>

\* The unique index on providerPaymentId rolls the whole transaction back and
\* the handler answers 500: a webhook stays to be redelivered.
RollBack(h) ==
    /\ handler[h].pc \in {"markPaid", "markFailed"}
    /\ PaymentRecorded(handler[h].payment)
    /\ handler' = [handler EXCEPT ![h] = Idle]
    /\ UNCHANGED <<checkout, tables, provider, notices>>

\* After the commit, and outside it, the two notifications and the answer.
\* notify never throws: a notification it could not write is lost.
NotifyAthlete(h) ==
    /\ handler[h].pc = "tellAthlete"
    /\ \E written \in {0, 1} :
            notices' = [notices EXCEPT ![handler[h].payment]["athlete"] = @ + written]
    /\ handler' = [handler EXCEPT ![h].pc = "tellSponsor"]
    /\ UNCHANGED <<checkout, tables, provider>>

NotifySponsor(h) ==
    /\ handler[h].pc = "tellSponsor"
    /\ \E written \in {0, 1} :
            notices' = [notices EXCEPT ![handler[h].payment]["sponsor"] = @ + written]
    /\ Acknowledge(h, "captured")
    /\ UNCHANGED <<checkout, tables, attempt>>

\* Seeded bug: the webhook is answered before the work is done.
CrashAnswered(h) ==
    /\ handler[h].pc # "idle"
    /\ Acknowledge(h, IF handler[h].pc = "markFailed" THEN "failed" ELSE "captured")
    /\ UNCHANGED <<checkout, tables, attempt, notices>>

\* The server stops while the handler runs: what was committed stays.
CrashHandler(h) ==
    /\ handler[h].pc # "idle"
    /\ handler' = [handler EXCEPT ![h] = Idle]
    /\ UNCHANGED <<checkout, tables, provider, notices>>

-----------------------------------------------------------------------------
(* The athlete withdraws a request: PUT /athletes/me/requests/:id CLOSED *)

Withdraw(r) ==
    /\ request[r].status \notin {"ABSENT", "CLOSED"}
    /\ request' = [request EXCEPT ![r].status = "CLOSED"]
    /\ UNCHANGED <<checkout, sponsorship, transactions, raced, provider, handler, notices>>

-----------------------------------------------------------------------------
\* No sponsorship exists and nothing was paid.
NothingPaid ==
    /\ checkout = [s \in Sponsorships |-> "none"]
    /\ sponsorship = [s \in Sponsorships |->
            [exists |-> FALSE, hasOrder |-> FALSE,
             paymentStatus |-> "CREATED", paymentId |-> NoPayment]]
    /\ transactions = {}
    /\ attempt = [p \in PaymentIds |-> "none"]
    /\ webhook = [e \in Events |-> "unsent"]
    /\ handler = [h \in Handlers |-> Idle]
    /\ notices = [p \in PaymentIds |-> [to \in Recipients |-> 0]]
    /\ raced = {}

\* A request that has raised nothing may be anywhere in its own life cycle.
PaymentsInit ==
    /\ NothingPaid
    /\ request \in [Requests -> [status: {"PENDING_VALIDATION", "OPEN", "REJECTED", "CLOSED"},
                                 total: Totals, raised: {0}]]

Checkout(s) ==
    CheckSponsorable(s) \/ InsertSponsorship(s) \/ AttachOrder(s) \/ CrashCheckout(s)

Provider(p) == CapturePayment(p) \/ FailPayment(p)

Handle(h) ==
    \/ \E s \in Sponsorships, p \in PaymentIds : VerifyPayment(h, s, p)
    \/ \E e \in Events : ReceiveWebhook(h, e) \/ IgnoreWebhook(h, e)
    \/ CommitPaid(h) \/ CommitFailed(h) \/ RollBack(h)
    \/ NotifyAthlete(h) \/ NotifySponsor(h) \/ CrashHandler(h)

PaymentsNext ==
    \/ \E s \in Sponsorships : Checkout(s)
    \/ \E p \in PaymentIds : Provider(p)
    \/ \E h \in Handlers : Handle(h)
    \/ \E r \in Requests : Withdraw(r)

PaymentsSpec == PaymentsInit /\ [][PaymentsNext]_paymentVars

\* The provider redelivers an event until it is answered 200, whichever handler
\* happens to be free; a handler that keeps being restarted is not stopped at
\* its commit every time; the other steps of a running handler are taken.
\* Sponsors, athletes, crashes and the provider's payments owe nothing.
Redeliver(e) ==
    /\ webhook[e] = "pending"
    /\ \E h \in Handlers : ReceiveWebhook(h, e) \/ IgnoreWebhook(h, e)

PaymentsFairness ==
    /\ \A e \in Events : SF_paymentVars(Redeliver(e))
    /\ \A h \in Handlers : SF_paymentVars(CommitPaid(h))
    /\ \A h \in Handlers : WF_paymentVars(CommitFailed(h) \/ RollBack(h)
                                    \/ NotifyAthlete(h) \/ NotifySponsor(h))

FairPayments == PaymentsSpec /\ PaymentsFairness

-----------------------------------------------------------------------------
(* Safety *)

Credited(p) == \E t \in transactions : t.payment = p /\ t.status = "PAID"

\* What the ledger says a request has raised: the amounts of the sponsorships
\* its PAID transactions are for.
Worth == [t \in TransactionRow |-> Amount[t.sponsorship]]
Contributions(r) == {t \in transactions : t.status = "PAID" /\ RequestOf[t.sponsorship] = r}
LedgerTotal(r) == SumFunctionOnSet(Worth, Contributions(r))

\* The money a request shows as raised is the sum of the PAID transactions of
\* its sponsorships, whatever the order of checkouts, webhooks, retries and
\* crashes (markSponsorshipPaid writes both in one transaction).
RaisedIsLedger == \A r \in Requests : request[r].raised = LedgerTotal(r)

\* A sponsorship shown as PAID names a payment the provider captured for its
\* own order, and the ledger holds the PAID transaction of that payment.
PaidIsBacked ==
    \A s \in Sponsorships : sponsorship[s].paymentStatus = "PAID" =>
        /\ sponsorship[s].paymentId \in CapturedFor(s)
        /\ [sponsorship |-> s, payment |-> sponsorship[s].paymentId, status |-> "PAID"]
                \in transactions

\* The unique index at work: a payment has at most one transaction, and one
\* that is credited was captured, for the order of the sponsorship credited.
LedgerIsSound ==
    /\ \A t, u \in transactions :
            t.payment = u.payment /\ t.payment # NoPayment => t = u
    /\ \A t \in transactions : t.status = "PAID" => t.payment \in CapturedFor(t.sponsorship)

\* What makes the two inductive: the provider announces a capture it has made,
\* and a handler on its way to the commit holds a payment that was captured for
\* the order of its sponsorship.
EventsAreTrue ==
    \A p \in PaymentIds :
        webhook[[kind |-> "captured", payment |-> p]] # "unsent" => attempt[p] = "captured"

HandlersAreHonest ==
    \A h \in Handlers : handler[h] # Idle =>
        /\ OrderOf[handler[h].payment] = handler[h].sponsorship
        /\ handler[h].pc # "markFailed" => attempt[handler[h].payment] = "captured"

\* The inductive invariant of the ledger: PaidIsBacked and LedgerIsSound with
\* the two facts about handlers in flight that they rest on.
LedgerInv ==
    PaymentsTypeOK /\ EventsAreTrue /\ HandlersAreHonest /\ PaidIsBacked /\ LedgerIsSound

\* A sponsorship is credited once and then stays PAID, however many payments of
\* its order are captured or fail, reported twice, out of order, by checkout and
\* webhook at the same moment, or again after a crash.  The early return and the
\* unique index do it together; what neither stops is a handler of another
\* payment that had read the row before the credit and writes after it (raced).
CreditedOnce ==
    \A s \in Sponsorships \ raced :
        /\ \A t, u \in Paid(s) : t = u
        /\ Paid(s) # {} => sponsorship[s].paymentStatus = "PAID"

\* Athlete and sponsor hear of a payment at most once, and only when it is in
\* the ledger: a handler that loses the race answers 500 without notifying.
NoticesAreTrue ==
    \A p \in PaymentIds, to \in Recipients :
        notices[p][to] <= (IF Credited(p) THEN 1 ELSE 0)

\* A request that calls itself funded is: PARTIALLY_FULFILLED and FULFILLED
\* agree with the money raised, also when several payments arrive at once.
FundingStatusIsTrue ==
    \A r \in Requests :
        /\ request[r].status = "FULFILLED" =>
                request[r].raised >= request[r].total /\ request[r].raised > 0
        /\ request[r].status = "PARTIALLY_FULFILLED" =>
                request[r].raised < request[r].total /\ request[r].raised > 0
        /\ request[r].status \in {"PENDING_VALIDATION", "OPEN", "REJECTED"} =>
                request[r].raised = 0

\* Money that arrives for a request its athlete has withdrawn is counted but
\* does not put the request back in front of sponsors.
ClosedIsFinal ==
    [][\A r \in Requests :
            request[r].status = "CLOSED" => request'[r].status = "CLOSED"]_paymentVars

\* "Idempotent transition to PAID": once a sponsorship is PAID no late or
\* repeated event takes it out of PAID again.
PaidIsFinal ==
    [][\A s \in Sponsorships : sponsorship[s].paymentStatus = "PAID"
            => sponsorship'[s].paymentStatus = "PAID"]_paymentVars

\* The ledger only moves as PaymentLedger allows.
Ledger == INSTANCE PaymentLedger WITH
    captured <- {p \in PaymentIds : attempt[p] = "captured"},
    credited <- {p \in PaymentIds : Credited(p)},
    raised <- [r \in Requests |-> request[r].raised]

ImplementsLedger == Ledger!Spec

-----------------------------------------------------------------------------
(* Liveness *)

\* A sponsorship whose order somebody has paid is credited in the end, although
\* the server may crash in every handler: the provider keeps redelivering.  (Of
\* two payments captured for one order the second may be left out.)
CapturedIsRecorded ==
    \A s \in Sponsorships : (CapturedFor(s) # {}) ~> (Paid(s) # {})
=============================================================================
