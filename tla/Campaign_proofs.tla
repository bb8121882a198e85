-------------------------- MODULE Campaign_proofs --------------------------
(***************************************************************************)
(* Proofs about the life of a request: about its payments                  *)
(* (SponsorshipPayments), about its validation (RequestValidation), and    *)
(* about the two together (Campaign), in this order, because the third     *)
(* part rests on the steps of the other two.  They hold for any number of  *)
(* requests, sponsorships, payments, coordinators and handlers, and any    *)
(* behaviour of the provider the module allows.                            *)
(***************************************************************************)
EXTENDS Campaign, SumLaws, TLAPS

-----------------------------------------------------------------------------
(* PAYMENTS *)

\* A payment turns a request row into a request row.
LEMMA WithPaymentType ==
    ASSUME NEW row \in RequestRow, NEW amount \in Nat
    PROVE  WithPayment(row, amount) \in RequestRow
<1>1. RaisedAfter(row.raised, amount) \in Nat
  BY DEF RequestRow, RaisedAfter
<1>2. \A raised : StatusAfterPayment(row.status, row.total, raised) \in RequestStatus
  BY DEF StatusAfterPayment, RequestStatus
<1> QED BY <1>1, <1>2 DEF WithPayment, RequestRow

\* A step keeps the types.
LEMMA PaymentsTypeStep ==
    ASSUME PaymentsTypeOK, [PaymentsNext]_paymentVars PROVE PaymentsTypeOK'
<1> USE PaymentsAssumption DEF PaymentsTypeOK, SponsorshipRow, TransactionRow, PaymentStatus
<1>1. ASSUME NEW s \in Sponsorships, CheckSponsorable(s) PROVE PaymentsTypeOK'
  BY <1>1 DEF CheckSponsorable, tables, provider
<1>2. ASSUME NEW s \in Sponsorships, InsertSponsorship(s) PROVE PaymentsTypeOK'
  BY <1>2 DEF InsertSponsorship, tables, provider
<1>3. ASSUME NEW s \in Sponsorships, AttachOrder(s) PROVE PaymentsTypeOK'
  <2>1. sponsorship' \in [Sponsorships -> SponsorshipRow]
    BY <1>3 DEF AttachOrder
  <2>2. transactions' \subseteq TransactionRow
    BY <1>3 DEF AttachOrder
  <2> QED BY <1>3, <2>1, <2>2 DEF AttachOrder, provider
<1>4. ASSUME NEW s \in Sponsorships, CrashCheckout(s) PROVE PaymentsTypeOK'
  BY <1>4 DEF CrashCheckout, tables, provider
<1>5. ASSUME NEW p \in PaymentIds, CapturePayment(p) PROVE PaymentsTypeOK'
  BY <1>5 DEF CapturePayment, tables, provider
<1>6. ASSUME NEW p \in PaymentIds, FailPayment(p) PROVE PaymentsTypeOK'
  BY <1>6 DEF FailPayment, tables, provider
<1>7. ASSUME NEW h \in Handlers, NEW s \in Sponsorships, NEW p \in PaymentIds,
             VerifyPayment(h, s, p) PROVE PaymentsTypeOK'
  BY <1>7 DEF VerifyPayment, tables, provider, HandlerState
<1>8. ASSUME NEW h \in Handlers, NEW e \in Events, ReceiveWebhook(h, e) PROVE PaymentsTypeOK'
  <2>1. e.payment \in PaymentIds /\ OrderOf[e.payment] \in Sponsorships
    BY DEF Events
  <2> QED BY <1>8, <2>1 DEF ReceiveWebhook, tables, provider, HandlerState
<1>9. ASSUME NEW h \in Handlers, NEW e \in Events, IgnoreWebhook(h, e) PROVE PaymentsTypeOK'
  BY <1>9 DEF IgnoreWebhook, tables, provider
<1>10. ASSUME NEW h \in Handlers, CommitPaid(h) PROVE PaymentsTypeOK'
  <2> DEFINE s == handler[h].sponsorship
             p == handler[h].payment
             r == RequestOf[s]
  <2>1. handler[h] \in HandlerState \ {Idle}
    BY <1>10 DEF CommitPaid, HandlerState, Idle
  <2>2. s \in Sponsorships /\ p \in PaymentIds
    BY <2>1 DEF HandlerState
  <2>3. handler' \in [Handlers -> HandlerState]
    BY <1>10, <2>1 DEF CommitPaid, HandlerState
  <2>4. sponsorship' \in [Sponsorships -> SponsorshipRow]
    BY <1>10, <2>2 DEF CommitPaid
  <2>5. transactions' \subseteq TransactionRow
    BY <1>10, <2>2 DEF CommitPaid
  <2>6. request' \in [Requests -> RequestRow]
    <3>1. CASE r \in Requests
      <4>1. WithPayment(request[r], Amount[s]) \in RequestRow
        BY <2>2, <3>1, WithPaymentType
      <4> QED BY <1>10, <3>1, <4>1 DEF CommitPaid
    <3>2. CASE r \notin Requests
      BY <1>10, <3>2 DEF CommitPaid
    <3> QED BY <3>1, <3>2
  <2> QED BY <1>10, <2>2, <2>3, <2>4, <2>5, <2>6 DEF CommitPaid, provider
<1>11. ASSUME NEW h \in Handlers, CommitFailed(h) PROVE PaymentsTypeOK'
  <2>1. handler[h] \in HandlerState \ {Idle}
    BY <1>11 DEF CommitFailed, HandlerState, Idle
  <2>2. handler[h].sponsorship \in Sponsorships /\ handler[h].payment \in PaymentIds
    BY <2>1 DEF HandlerState
  <2>3. handler' \in [Handlers -> HandlerState] /\ webhook' \in [Events -> {"unsent", "pending", "acked"}]
    BY <1>11 DEF CommitFailed, Acknowledge, HandlerState
  <2>4. sponsorship' \in [Sponsorships -> SponsorshipRow]
    BY <1>11, <2>2 DEF CommitFailed
  <2>5. transactions' \subseteq TransactionRow
    BY <1>11, <2>2 DEF CommitFailed
  <2> QED BY <1>11, <2>3, <2>4, <2>5 DEF CommitFailed
<1>12. ASSUME NEW h \in Handlers, RollBack(h) PROVE PaymentsTypeOK'
  BY <1>12 DEF RollBack, tables, provider, HandlerState
<1>13. ASSUME NEW h \in Handlers, NotifyAthlete(h) PROVE PaymentsTypeOK'
  <2>1. handler[h] \in HandlerState \ {Idle}
    BY <1>13 DEF NotifyAthlete, HandlerState, Idle
  <2>2. handler' \in [Handlers -> HandlerState]
    BY <1>13, <2>1 DEF NotifyAthlete, HandlerState
  <2>3. notices' \in [PaymentIds -> [Recipients -> Nat]]
    <3>1. handler[h] \in HandlerState \ {Idle}
      BY <1>13 DEF NotifyAthlete, HandlerState, Idle
    <3>2. handler[h].payment \in PaymentIds /\ "athlete" \in Recipients
      BY <3>1 DEF HandlerState, Recipients
    <3>3. \A written \in {0, 1} :
              [notices[handler[h].payment] EXCEPT !["athlete"] = @ + written] \in [Recipients -> Nat]
      BY <3>2
    <3> QED BY <1>13, <3>2, <3>3 DEF NotifyAthlete
  <2> QED BY <1>13, <2>2, <2>3 DEF NotifyAthlete, tables, provider
<1>14. ASSUME NEW h \in Handlers, NotifySponsor(h) PROVE PaymentsTypeOK'
  <2>1. handler' \in [Handlers -> HandlerState] /\ webhook' \in [Events -> {"unsent", "pending", "acked"}]
    BY <1>14 DEF NotifySponsor, Acknowledge, HandlerState
  <2>2. notices' \in [PaymentIds -> [Recipients -> Nat]]
    <3>1. handler[h] \in HandlerState \ {Idle}
      BY <1>14 DEF NotifySponsor, HandlerState, Idle
    <3>2. handler[h].payment \in PaymentIds /\ "sponsor" \in Recipients
      BY <3>1 DEF HandlerState, Recipients
    <3>3. \A written \in {0, 1} :
              [notices[handler[h].payment] EXCEPT !["sponsor"] = @ + written] \in [Recipients -> Nat]
      BY <3>2
    <3> QED BY <1>14, <3>2, <3>3 DEF NotifySponsor
  <2> QED BY <1>14, <2>1, <2>2 DEF NotifySponsor, tables
<1>15. ASSUME NEW h \in Handlers, CrashHandler(h) PROVE PaymentsTypeOK'
  BY <1>15 DEF CrashHandler, tables, provider, HandlerState
<1>16. ASSUME NEW r \in Requests, Withdraw(r) PROVE PaymentsTypeOK'
  BY <1>16 DEF Withdraw, tables, provider, RequestRow, RequestStatus
<1>17. CASE UNCHANGED paymentVars
  BY <1>17 DEF paymentVars, tables, provider
<1> QED
  BY <1>1, <1>2, <1>3, <1>4, <1>5, <1>6, <1>7, <1>8, <1>9, <1>10, <1>11, <1>12,
     <1>13, <1>14, <1>15, <1>16, <1>17
  DEF PaymentsNext, Checkout, Provider, Handle

\* Every variable has its type in every reachable state of the payment code.
THEOREM PaymentsTypes == PaymentsSpec => []PaymentsTypeOK
<1>1. PaymentsInit => PaymentsTypeOK
  <2> SUFFICES ASSUME PaymentsInit PROVE PaymentsTypeOK
    OBVIOUS
  <2> USE PaymentsAssumption DEF PaymentsInit, NothingPaid
  <2>1. sponsorship \in [Sponsorships -> SponsorshipRow]
    BY DEF SponsorshipRow, PaymentStatus
  <2>2. request \in [Requests -> RequestRow]
    <3>1. [status: {"PENDING_VALIDATION", "OPEN", "REJECTED", "CLOSED"}, total: Totals, raised: {0}]
            \subseteq RequestRow
      <4> SUFFICES ASSUME NEW row \in [status: {"PENDING_VALIDATION", "OPEN", "REJECTED", "CLOSED"},
                                       total: Totals, raised: {0}]
                   PROVE  row \in RequestRow
        OBVIOUS
      <4> USE DEF RequestRow
      <4>1. Totals \subseteq Nat /\ 0 \in Nat
        OBVIOUS
      <4>2. {"PENDING_VALIDATION", "OPEN", "REJECTED", "CLOSED"} \subseteq RequestStatus
        BY DEF RequestStatus
      <4> HIDE PaymentsAssumption DEF PaymentsInit, NothingPaid
      <4> QED BY <4>1, <4>2
    <3> QED BY <3>1
  <2>3. handler \in [Handlers -> HandlerState]
    BY DEF HandlerState
  <2>4. notices \in [PaymentIds -> [Recipients -> Nat]]
    OBVIOUS
  <2> QED BY <2>1, <2>2, <2>3, <2>4 DEF PaymentsTypeOK
<1> QED BY <1>1, PaymentsTypeStep, PTL DEF PaymentsSpec

-----------------------------------------------------------------------------
\* The provider never takes a capture back.
LEMMA CapturedStable ==
    ASSUME PaymentsTypeOK, [PaymentsNext]_paymentVars, NEW p \in PaymentIds, attempt[p] = "captured"
    PROVE  attempt'[p] = "captured"
<1>1. ASSUME NEW q \in PaymentIds, CapturePayment(q) PROVE attempt'[p] = "captured"
  BY <1>1 DEF CapturePayment, PaymentsTypeOK
<1>2. ASSUME NEW q \in PaymentIds, FailPayment(q) PROVE attempt'[p] = "captured"
  BY <1>2 DEF FailPayment, PaymentsTypeOK
<1>3. ASSUME NEW s \in Sponsorships, Checkout(s) PROVE UNCHANGED attempt
  BY <1>3 DEF Checkout, CheckSponsorable, InsertSponsorship, AttachOrder, CrashCheckout,
      provider
<1>4. ASSUME NEW h \in Handlers, Handle(h) PROVE UNCHANGED attempt
  BY <1>4 DEF Handle, VerifyPayment, ReceiveWebhook, IgnoreWebhook, CommitPaid, CommitFailed,
     RollBack, NotifyAthlete, NotifySponsor, CrashHandler, provider
<1>5. ASSUME NEW r \in Requests, Withdraw(r) PROVE UNCHANGED attempt
  BY <1>5 DEF Withdraw, provider
<1>6. CASE UNCHANGED paymentVars
  BY <1>6 DEF paymentVars, provider
<1> QED BY <1>1, <1>2, <1>3, <1>4, <1>5, <1>6 DEF PaymentsNext, Provider

\* A handler that is not idle has all the fields of a running one.
LEMMA BusyHandler ==
    ASSUME PaymentsTypeOK, NEW h \in Handlers, handler[h].pc # "idle" \/ handler[h] # Idle
    PROVE  /\ handler[h] # Idle
           /\ handler[h].pc \in {"markPaid", "markFailed", "tellAthlete", "tellSponsor"}
           /\ handler[h].via \in {"checkout", "webhook"}
           /\ handler[h].sponsorship \in Sponsorships
           /\ handler[h].payment \in PaymentIds
BY DEF PaymentsTypeOK, HandlerState, Idle

\* The four facts of LedgerInv beyond the types.
Ledgered == EventsAreTrue /\ HandlersAreHonest /\ PaidIsBacked /\ LedgerIsSound

LEMMA LedgerInit == NothingPaid => Ledgered
BY PaymentsAssumption
   DEF NothingPaid, Ledgered, EventsAreTrue, HandlersAreHonest, PaidIsBacked, LedgerIsSound, Events

LEMMA LedgerStep ==
    ASSUME PaymentsTypeOK, PaymentsTypeOK', Ledgered, [PaymentsNext]_paymentVars PROVE Ledgered'
<1>c. \A p \in PaymentIds : attempt[p] = "captured" => attempt'[p] = "captured"
  BY CapturedStable
<1>b. \A h \in Handlers : handler[h] # Idle =>
        handler[h].sponsorship \in Sponsorships /\ handler[h].payment \in PaymentIds
  BY BusyHandler
\* PaidIsBacked and LedgerIsSound survive a step that leaves both tables alone.
<1>t. ASSUME UNCHANGED <<sponsorship, transactions>> PROVE PaidIsBacked' /\ LedgerIsSound'
  BY <1>c, <1>t DEF Ledgered, PaidIsBacked, LedgerIsSound, CapturedFor, PaymentsTypeOK,
      TransactionRow
\* EventsAreTrue survives a step that announces nothing new.
<1>e. ASSUME UNCHANGED webhook PROVE EventsAreTrue'
  BY <1>c, <1>e DEF Ledgered, EventsAreTrue
\* HandlersAreHonest survives a step that starts no handler.
<1>h. ASSUME \A h \in Handlers : \/ handler'[h] = Idle
                                 \/ handler'[h] = handler[h]
      PROVE  HandlersAreHonest'
  BY <1>b, <1>c, <1>h DEF Ledgered, HandlersAreHonest
<1>1. ASSUME NEW s \in Sponsorships, CheckSponsorable(s) \/ CrashCheckout(s) PROVE Ledgered'
  BY <1>1, <1>t, <1>e, <1>h DEF CheckSponsorable, CrashCheckout, tables, provider, Ledgered
<1>2. ASSUME NEW s \in Sponsorships, InsertSponsorship(s) \/ AttachOrder(s) PROVE Ledgered'
  <2>1. EventsAreTrue' /\ HandlersAreHonest'
    BY <1>2, <1>e, <1>h DEF InsertSponsorship, AttachOrder, provider
  <2>2. /\ UNCHANGED attempt
        /\ transactions \subseteq transactions'
        /\ \A t \in transactions' \ transactions : t.payment = NoPayment /\ t.status = "CREATED"
    BY <1>2 DEF InsertSponsorship, AttachOrder, provider
  <2>3. \A x \in Sponsorships : /\ sponsorship'[x].paymentStatus = sponsorship[x].paymentStatus
                               /\ sponsorship'[x].paymentId = sponsorship[x].paymentId
    BY <1>2 DEF InsertSponsorship, AttachOrder, PaymentsTypeOK, SponsorshipRow
  <2>4. PaidIsBacked' /\ LedgerIsSound'
    BY <2>2, <2>3 DEF Ledgered, PaidIsBacked, LedgerIsSound, CapturedFor
  <2> QED BY <2>1, <2>4 DEF Ledgered
<1>3. ASSUME NEW p \in PaymentIds, CapturePayment(p) \/ FailPayment(p) PROVE Ledgered'
  <2>1. EventsAreTrue'
    BY <1>3, <1>c DEF CapturePayment, FailPayment, Ledgered, EventsAreTrue, PaymentsTypeOK,
        Events
  <2> QED BY <1>3, <1>t, <1>h, <2>1 DEF CapturePayment, FailPayment, tables, Ledgered
<1>4. ASSUME NEW h \in Handlers, NEW s \in Sponsorships, NEW p \in PaymentIds,
             VerifyPayment(h, s, p) PROVE Ledgered'
  <2>1. HandlersAreHonest'
    BY <1>4, <1>b, <1>c
        DEF VerifyPayment, OrderMatches, SignatureValid, Ledgered, HandlersAreHonest,
       PaymentsTypeOK, provider
  <2> QED BY <1>4, <1>t, <1>e, <2>1 DEF VerifyPayment, tables, provider, Ledgered
<1>5. ASSUME NEW h \in Handlers, NEW e \in Events, ReceiveWebhook(h, e) PROVE Ledgered'
  <2>1. e.payment \in PaymentIds /\ e = [kind |-> e.kind, payment |-> e.payment]
        /\ e.kind \in {"captured", "failed"}
    BY DEF Events
  <2>2. e.kind = "captured" => attempt[e.payment] = "captured"
    BY <1>5, <2>1 DEF ReceiveWebhook, Ledgered, EventsAreTrue
  <2>3. HandlersAreHonest'
    BY <1>5, <1>b, <1>c, <2>1, <2>2
        DEF ReceiveWebhook, Ledgered, HandlersAreHonest, PaymentsTypeOK, provider
  <2> QED BY <1>5, <1>t, <1>e, <2>3 DEF ReceiveWebhook, tables, provider, Ledgered
<1>6. ASSUME NEW h \in Handlers, NEW e \in Events, IgnoreWebhook(h, e) PROVE Ledgered'
  <2>1. EventsAreTrue'
    BY <1>6, <1>c DEF IgnoreWebhook, Ledgered, EventsAreTrue, PaymentsTypeOK, Events
  <2> QED BY <1>6, <1>t, <1>h, <2>1 DEF IgnoreWebhook, tables, Ledgered
<1>7. ASSUME NEW h \in Handlers, CommitPaid(h) PROVE Ledgered'
  <2> DEFINE s == handler[h].sponsorship
             p == handler[h].payment
             t == [sponsorship |-> s, payment |-> p, status |-> "PAID"]
  <2>1. handler[h] # Idle /\ s \in Sponsorships /\ p \in PaymentIds
    BY <1>7, BusyHandler DEF CommitPaid, Idle
  <2>2. OrderOf[p] = s /\ attempt[p] = "captured"
    BY <1>7, <2>1 DEF CommitPaid, Ledgered, HandlersAreHonest
  <2>3. UNCHANGED <<attempt, webhook>> /\ transactions' = transactions \cup {t}
    BY <1>7 DEF CommitPaid, provider
  <2>4. HandlersAreHonest'
    BY <1>7, <1>b, <1>c, <2>1, <2>2 DEF CommitPaid, Ledgered, HandlersAreHonest, PaymentsTypeOK
  <2>5. LedgerIsSound'
    <3>1. \A u \in transactions : u.payment # p
      BY <1>7 DEF CommitPaid, PaymentRecorded
    <3> QED BY <2>1, <2>2, <2>3, <3>1 DEF Ledgered, LedgerIsSound, CapturedFor
  <2>6. PaidIsBacked'
    <3>1. /\ sponsorship'[s].paymentId = p
          /\ \A x \in Sponsorships \ {s} : sponsorship'[x] = sponsorship[x]
      BY <1>7, <2>1 DEF CommitPaid, PaymentsTypeOK, SponsorshipRow
    <3> QED BY <2>1, <2>2, <2>3, <3>1 DEF Ledgered, PaidIsBacked, CapturedFor
  <2> QED BY <1>e, <2>3, <2>4, <2>5, <2>6 DEF Ledgered, provider
<1>8. ASSUME NEW h \in Handlers, CommitFailed(h) PROVE Ledgered'
  <2> DEFINE s == handler[h].sponsorship
             p == handler[h].payment
             t == [sponsorship |-> s, payment |-> p, status |-> "FAILED"]
  <2>1. handler[h] # Idle /\ s \in Sponsorships /\ p \in PaymentIds
    BY <1>8, BusyHandler DEF CommitFailed, Idle
  <2>2. EventsAreTrue'
    BY <1>8, <1>c, <2>1
        DEF CommitFailed, Acknowledge, Ledgered, EventsAreTrue, PaymentsTypeOK, Events
  <2>3. HandlersAreHonest'
    BY <1>8, <1>h DEF CommitFailed, Acknowledge, PaymentsTypeOK
  <2>4. UNCHANGED attempt /\ transactions' = transactions \cup {t}
    BY <1>8 DEF CommitFailed
  <2>5. LedgerIsSound'
    <3>1. \A u \in transactions : u.payment # p
      BY <1>8 DEF CommitFailed, PaymentRecorded
    <3> QED BY <2>4, <3>1 DEF Ledgered, LedgerIsSound, CapturedFor
  <2>6. PaidIsBacked'
    <3>1. /\ sponsorship'[s].paymentStatus = "FAILED"
          /\ \A x \in Sponsorships \ {s} : sponsorship'[x] = sponsorship[x]
      BY <1>8, <2>1 DEF CommitFailed, PaymentsTypeOK, SponsorshipRow
    <3> QED BY <2>4, <3>1 DEF Ledgered, PaidIsBacked, CapturedFor
  <2> QED BY <2>2, <2>3, <2>5, <2>6 DEF Ledgered
<1>9. ASSUME NEW h \in Handlers, RollBack(h) \/ CrashHandler(h) PROVE Ledgered'
  BY <1>9, <1>t, <1>e, <1>h
      DEF RollBack, CrashHandler, tables, provider, Ledgered, PaymentsTypeOK
<1>10. ASSUME NEW h \in Handlers, NotifyAthlete(h) PROVE Ledgered'
  <2>1. handler[h] # Idle
    BY <1>10 DEF NotifyAthlete, Idle
  <2>2. HandlersAreHonest'
    BY <1>10, <1>b, <1>c, <2>1 DEF NotifyAthlete, Ledgered, HandlersAreHonest, PaymentsTypeOK
  <2> QED BY <1>10, <1>t, <1>e, <2>2 DEF NotifyAthlete, tables, provider, Ledgered
<1>11. ASSUME NEW h \in Handlers, NotifySponsor(h) PROVE Ledgered'
  <2>1. handler[h] # Idle /\ handler[h].payment \in PaymentIds
    BY <1>11, BusyHandler DEF NotifySponsor, Idle
  <2>2. EventsAreTrue'
    BY <1>11, <1>c, <2>1
        DEF NotifySponsor, Acknowledge, Ledgered, EventsAreTrue, HandlersAreHonest,
       PaymentsTypeOK, Events
  <2>3. HandlersAreHonest'
    BY <1>11, <1>h DEF NotifySponsor, Acknowledge, PaymentsTypeOK
  <2> QED BY <1>11, <1>t, <2>2, <2>3 DEF NotifySponsor, tables, Ledgered
<1>12. ASSUME NEW r \in Requests, Withdraw(r) PROVE Ledgered'
  BY <1>12, <1>t, <1>e, <1>h DEF Withdraw, provider, Ledgered
<1>13. CASE UNCHANGED paymentVars
  BY <1>13, <1>t, <1>e, <1>h DEF paymentVars, tables, provider, Ledgered
<1> QED
  BY <1>1, <1>2, <1>3, <1>4, <1>5, <1>6, <1>7, <1>8, <1>9, <1>10, <1>11, <1>12, <1>13
  DEF PaymentsNext, Checkout, Provider, Handle

\* The ledger is sound: a payment is recorded once, what is credited was
\* captured for that order, and a PAID row points at its ledger entry.
THEOREM LedgerInvariant == PaymentsSpec => []LedgerInv
<1>1. PaymentsInit => Ledgered
  BY LedgerInit DEF PaymentsInit
<1>2. PaymentsTypeOK /\ PaymentsTypeOK' /\ Ledgered /\ [PaymentsNext]_paymentVars => Ledgered'
  BY LedgerStep
<1>3. PaymentsTypeOK /\ Ledgered <=> LedgerInv
  BY DEF Ledgered, LedgerInv
<1> QED BY <1>1, <1>2, <1>3, PaymentsTypes, PTL DEF PaymentsSpec

\* A sponsorship is shown as PAID only for a payment captured for its own order
\* that the ledger holds, whichever handlers raced for it.
THEOREM PaidBacked == PaymentsSpec => []PaidIsBacked
<1>1. LedgerInv => PaidIsBacked
  BY DEF LedgerInv
<1> QED BY <1>1, LedgerInvariant, PTL

\* No payment is in the ledger twice, and none is credited that was not captured
\* for the order of the sponsorship it is credited to.
THEOREM LedgerSound == PaymentsSpec => []LedgerIsSound
<1>1. LedgerInv => LedgerIsSound
  BY DEF LedgerInv
<1> QED BY <1>1, LedgerInvariant, PTL

-----------------------------------------------------------------------------
\* One step leaves the Request table alone, pays into it, or withdraws a request.
LEMMA RequestStep ==
    ASSUME PaymentsTypeOK, [PaymentsNext]_paymentVars
    PROVE  \/ UNCHANGED request
           \/ \E s \in Sponsorships : /\ RequestOf[s] \in Requests
                                      /\ request' = [request EXCEPT ![RequestOf[s]] =
                                                        WithPayment(@, Amount[s])]
           \/ \E r \in Requests : request' = [request EXCEPT ![r].status = "CLOSED"]
<1>1. ASSUME NEW h \in Handlers, CommitPaid(h)
      PROVE  \/ UNCHANGED request
             \/ \E s \in Sponsorships : /\ RequestOf[s] \in Requests
                                        /\ request' = [request EXCEPT ![RequestOf[s]] =
                                                          WithPayment(@, Amount[s])]
  <2>1. handler[h].sponsorship \in Sponsorships
    BY <1>1, BusyHandler DEF CommitPaid
  <2> QED BY <1>1, <2>1 DEF CommitPaid
<1>2. ASSUME NEW h \in Handlers, Handle(h), ~CommitPaid(h) PROVE UNCHANGED request
  BY <1>2 DEF Handle, VerifyPayment, ReceiveWebhook, IgnoreWebhook, CommitFailed, RollBack,
     NotifyAthlete, NotifySponsor, CrashHandler, tables
<1>3. ASSUME NEW s \in Sponsorships, Checkout(s) PROVE UNCHANGED request
  BY <1>3 DEF Checkout, CheckSponsorable, InsertSponsorship, AttachOrder, CrashCheckout, tables
<1>4. ASSUME NEW p \in PaymentIds, Provider(p) PROVE UNCHANGED request
  BY <1>4 DEF Provider, CapturePayment, FailPayment, tables
<1>5. ASSUME NEW r \in Requests, Withdraw(r)
      PROVE  request' = [request EXCEPT ![r].status = "CLOSED"]
  BY <1>5 DEF Withdraw
<1>6. CASE UNCHANGED paymentVars
  BY <1>6 DEF paymentVars, tables
<1> QED BY <1>1, <1>2, <1>3, <1>4, <1>5, <1>6 DEF PaymentsNext

\* What WithPayment does to the columns of a row.
LEMMA WithPaymentFields ==
    ASSUME NEW row \in RequestRow, NEW amount \in Nat
    PROVE  /\ WithPayment(row, amount).raised = row.raised + amount
           /\ WithPayment(row, amount).total = row.total
           /\ WithPayment(row, amount).status =
                    StatusAfterPayment(row.status, row.total, row.raised + amount)
BY DEF WithPayment, RequestRow, RaisedAfter

\* The status shown for a request agrees with the money it has raised.
FundingIsTrueOf(row) ==
    /\ row.status = "FULFILLED" => row.raised >= row.total /\ row.raised > 0
    /\ row.status = "PARTIALLY_FULFILLED" => row.raised < row.total /\ row.raised > 0
    /\ row.status \in {"PENDING_VALIDATION", "OPEN", "REJECTED"} => row.raised = 0

LEMMA PaymentKeepsFunding ==
    ASSUME NEW row \in RequestRow, NEW amount \in Nat \ {0}, FundingIsTrueOf(row)
    PROVE  FundingIsTrueOf(WithPayment(row, amount))
<1>1. row.raised \in Nat /\ row.total \in Nat
  BY DEF RequestRow
<1> QED BY <1>1, WithPaymentFields DEF FundingIsTrueOf, StatusAfterPayment

\* PARTIALLY_FULFILLED and FULFILLED are never claimed of a request whose money
\* says otherwise.
THEOREM FundingStatus == PaymentsSpec => []FundingStatusIsTrue
<1>1. PaymentsInit => FundingStatusIsTrue
  BY DEF PaymentsInit, NothingPaid, FundingStatusIsTrue
<1>2. PaymentsTypeOK /\ FundingStatusIsTrue /\ [PaymentsNext]_paymentVars => FundingStatusIsTrue'
  <2> SUFFICES ASSUME PaymentsTypeOK, FundingStatusIsTrue, [PaymentsNext]_paymentVars, NEW r \in Requests
               PROVE  FundingIsTrueOf(request'[r])
    BY DEF FundingStatusIsTrue, FundingIsTrueOf
  <2>1. request[r] \in RequestRow /\ FundingIsTrueOf(request[r])
    BY DEF PaymentsTypeOK, FundingStatusIsTrue, FundingIsTrueOf
  <2>2. CASE UNCHANGED request
    BY <2>1, <2>2
  <2>3. ASSUME NEW s \in Sponsorships, RequestOf[s] \in Requests,
               request' = [request EXCEPT ![RequestOf[s]] = WithPayment(@, Amount[s])]
        PROVE  FundingIsTrueOf(request'[r])
    <3>1. Amount[s] \in Nat \ {0}
      BY PaymentsAssumption
    <3>2. FundingIsTrueOf(WithPayment(request[r], Amount[s]))
      BY <2>1, <3>1, PaymentKeepsFunding
    <3>3. request'[r] = request[r] \/ request'[r] = WithPayment(request[r], Amount[s])
      BY <2>3 DEF PaymentsTypeOK
    <3> QED BY <2>1, <3>2, <3>3
  <2>4. ASSUME NEW q \in Requests, request' = [request EXCEPT ![q].status = "CLOSED"]
        PROVE  FundingIsTrueOf(request'[r])
    BY <2>1, <2>4 DEF FundingIsTrueOf, PaymentsTypeOK, RequestRow
  <2> QED BY <2>2, <2>3, <2>4, RequestStep
<1> QED BY <1>1, <1>2, PaymentsTypes, PTL DEF PaymentsSpec

\* Money for a withdrawn request never puts it back in front of sponsors.
THEOREM ClosedStays == PaymentsSpec => ClosedIsFinal
<1>1. PaymentsTypeOK /\ [PaymentsNext]_paymentVars =>
        [\A r \in Requests : request[r].status = "CLOSED" => request'[r].status = "CLOSED"]_paymentVars
  <2> SUFFICES ASSUME PaymentsTypeOK, [PaymentsNext]_paymentVars, NEW r \in Requests, request[r].status = "CLOSED"
               PROVE  request'[r].status = "CLOSED"
    OBVIOUS
  <2>1. ASSUME NEW s \in Sponsorships, RequestOf[s] \in Requests,
               request' = [request EXCEPT ![RequestOf[s]] = WithPayment(@, Amount[s])]
        PROVE  request'[r].status = "CLOSED"
    <3>1. WithPayment(request[r], Amount[s]).status = "CLOSED"
      BY PaymentsAssumption, WithPaymentFields DEF PaymentsTypeOK, StatusAfterPayment
    <3> QED BY <2>1, <3>1 DEF PaymentsTypeOK
  <2>2. ASSUME NEW q \in Requests, request' = [request EXCEPT ![q].status = "CLOSED"]
        PROVE  request'[r].status = "CLOSED"
    BY <2>2 DEF PaymentsTypeOK, RequestRow
  <2> QED BY <2>1, <2>2, RequestStep
<1> QED BY <1>1, PaymentsTypes, PTL DEF PaymentsSpec, ClosedIsFinal

-----------------------------------------------------------------------------
\* The ledger is a finite table: every step records one row at most.
RaisedInv == IsFiniteSet(transactions) /\ RaisedIsLedger

\* A transaction that is not PAID contributes to no request.
LEMMA NoContribution ==
    ASSUME transactions \subseteq transactions',
           \A t \in transactions' \ transactions : t.status # "PAID",
           NEW r \in Requests
    PROVE  LedgerTotal(r)' = LedgerTotal(r)
<1>1. Contributions(r)' = Contributions(r)
  BY DEF Contributions
<1> QED BY <1>1 DEF LedgerTotal, Worth

\* A new PAID transaction adds the amount of its sponsorship to what its request
\* has raised, and nothing to any other.
LEMMA OneContribution ==
    ASSUME transactions \subseteq TransactionRow, IsFiniteSet(transactions),
           NEW t \in TransactionRow, t \notin transactions, t.status = "PAID",
           transactions' = transactions \cup {t},
           NEW r \in Requests
    PROVE  LedgerTotal(r)' = LedgerTotal(r) + (IF RequestOf[t.sponsorship] = r
                                               THEN Amount[t.sponsorship] ELSE 0)
<1>1. CASE RequestOf[t.sponsorship] = r
  <2> DEFINE C == Contributions(r)
  <2>1. Contributions(r)' = C \cup {t} /\ t \notin C
    BY <1>1 DEF Contributions
  <2>2. IsFiniteSet(C \cup {t})
    BY FS_Subset, FS_AddElement DEF Contributions
  <2>3. \A u \in C \cup {t} : Worth[u] \in Nat
    BY PaymentsAssumption DEF Contributions, Worth, TransactionRow
  <2>4. (C \cup {t}) \ {t} = C
    BY <2>1
  <2> HIDE DEF C
  <2>5. SumFunctionOnSet(Worth, C \cup {t}) = Worth[t] + SumFunctionOnSet(Worth, C)
    BY <2>2, <2>3, <2>4, SumSplit
  <2>6. SumFunctionOnSet(Worth, C) \in Nat
    <3>1. IsFiniteSet(C) /\ \A u \in C : Worth[u] \in Nat
      BY <2>2, <2>3, FS_Subset
    <3> QED BY <3>1, SumSplit
  <2>7. Worth[t] = Amount[t.sponsorship] /\ Worth[t] \in Nat
    BY <2>3 DEF Worth
  <2>8. LedgerTotal(r) = SumFunctionOnSet(Worth, C)
    BY DEF LedgerTotal, C
  <2>9. LedgerTotal(r)' = SumFunctionOnSet(Worth, C \cup {t})
    BY <2>1 DEF LedgerTotal, Worth
  <2> QED BY <1>1, <2>5, <2>6, <2>7, <2>8, <2>9
<1>2. CASE RequestOf[t.sponsorship] # r
  <2>1. Contributions(r)' = Contributions(r)
    BY <1>2 DEF Contributions
  <2>2. LedgerTotal(r)' = LedgerTotal(r)
    BY <2>1 DEF LedgerTotal, Worth
  <2>3. LedgerTotal(r) \in Nat
    <3>1. IsFiniteSet(Contributions(r)) /\ \A u \in Contributions(r) : Worth[u] \in Nat
      BY PaymentsAssumption, FS_Subset DEF Contributions, Worth, TransactionRow
    <3> QED BY <3>1, SumSplit DEF LedgerTotal
  <2> QED BY <1>2, <2>2, <2>3
<1> QED BY <1>1, <1>2

\* A step that leaves the money columns alone and records no PAID transaction.
LEMMA RaisedStutter ==
    ASSUME RaisedInv,
           transactions \subseteq transactions', IsFiniteSet(transactions'),
           \A t \in transactions' \ transactions : t.status # "PAID",
           \A r \in Requests : request'[r].raised = request[r].raised
    PROVE  RaisedInv'
BY NoContribution DEF RaisedInv, RaisedIsLedger

LEMMA RaisedStep ==
    ASSUME PaymentsTypeOK, RaisedInv, [PaymentsNext]_paymentVars PROVE RaisedInv'
<1> USE PaymentsAssumption
<1>0. IsFiniteSet(transactions)
  BY DEF RaisedInv
<1>1. ASSUME NEW h \in Handlers, CommitPaid(h) PROVE RaisedInv'
  <2>1. PICK p \in PaymentIds, s \in Sponsorships :
            p = handler[h].payment /\ s = handler[h].sponsorship
    BY <1>1, BusyHandler DEF CommitPaid
  <2> DEFINE t == [sponsorship |-> s, payment |-> p, status |-> "PAID"]
  <2>2. t \in TransactionRow /\ t \notin transactions /\ transactions' = transactions \cup {t}
    BY <1>1, <2>1 DEF CommitPaid, PaymentRecorded, TransactionRow, PaymentStatus
  <2>3. IsFiniteSet(transactions')
    BY <1>0, <2>2, FS_AddElement
  <2>4. ASSUME NEW r \in Requests
        PROVE  request'[r].raised = request[r].raised + (IF RequestOf[s] = r THEN Amount[s] ELSE 0)
    <3>1. WithPayment(request[r], Amount[s]).raised = request[r].raised + Amount[s]
      BY WithPaymentFields DEF PaymentsTypeOK
    <3>2. request[r].raised \in Nat
      BY DEF PaymentsTypeOK, RequestRow
    <3>3. request'[r] = IF r = RequestOf[s] THEN WithPayment(request[r], Amount[s]) ELSE request[r]
      BY <1>1, <2>1 DEF CommitPaid, PaymentsTypeOK
    <3> QED BY <3>1, <3>2, <3>3
  <2>5. ASSUME NEW r \in Requests
        PROVE  LedgerTotal(r)' = LedgerTotal(r) + (IF RequestOf[s] = r THEN Amount[s] ELSE 0)
    <3>1. t.sponsorship = s /\ t.status = "PAID"
      OBVIOUS
    <3> HIDE DEF t
    <3> QED BY <1>0, <2>2, <3>1, OneContribution DEF PaymentsTypeOK
  <2> QED BY <2>3, <2>4, <2>5 DEF RaisedInv, RaisedIsLedger
<1>2. ASSUME NEW h \in Handlers, CommitFailed(h) PROVE RaisedInv'
  <2>1. PICK t : t.status = "FAILED" /\ transactions' = transactions \cup {t}
    BY <1>2 DEF CommitFailed
  <2> QED BY <1>0, <1>2, <2>1, FS_AddElement, RaisedStutter DEF CommitFailed
<1>3. ASSUME NEW s \in Sponsorships, AttachOrder(s) PROVE RaisedInv'
  <2>1. PICK t : t.status = "CREATED" /\ transactions' = transactions \cup {t}
    BY <1>3 DEF AttachOrder
  <2> QED BY <1>0, <1>3, <2>1, FS_AddElement, RaisedStutter DEF AttachOrder
<1>4. ASSUME NEW r \in Requests, Withdraw(r) PROVE RaisedInv'
  <2>1. \A q \in Requests : request'[q].raised = request[q].raised
    BY <1>4 DEF Withdraw, PaymentsTypeOK, RequestRow
  <2> QED BY <1>0, <1>4, <2>1, RaisedStutter DEF Withdraw
<1>5. CASE UNCHANGED <<transactions, request>>
  BY <1>0, <1>5, RaisedStutter
<1>6. ASSUME NEW h \in Handlers, Handle(h), ~CommitPaid(h), ~CommitFailed(h)
      PROVE  UNCHANGED <<transactions, request>>
  BY <1>6 DEF Handle, VerifyPayment, ReceiveWebhook, IgnoreWebhook, RollBack, NotifyAthlete,
     NotifySponsor, CrashHandler, tables
<1>7. ASSUME NEW s \in Sponsorships, Checkout(s), ~AttachOrder(s)
      PROVE  UNCHANGED <<transactions, request>>
  BY <1>7 DEF Checkout, CheckSponsorable, InsertSponsorship, CrashCheckout, tables
<1>8. ASSUME NEW p \in PaymentIds, Provider(p) PROVE UNCHANGED <<transactions, request>>
  BY <1>8 DEF Provider, CapturePayment, FailPayment, tables
<1>9. CASE UNCHANGED paymentVars
  BY <1>5, <1>9 DEF paymentVars, tables
<1> QED BY <1>1, <1>2, <1>3, <1>4, <1>5, <1>6, <1>7, <1>8, <1>9 DEF PaymentsNext

\* Nothing is raised where nothing was recorded.
LEMMA RaisedInit ==
    ASSUME transactions = {}, \A r \in Requests : request[r].raised = 0 PROVE RaisedInv
<1>1. \A r \in Requests : Contributions(r) = {}
  BY DEF Contributions
<1> QED BY <1>1, SumEmpty, FS_EmptySet DEF RaisedInv, RaisedIsLedger, LedgerTotal

\* What a request shows as raised is the sum of its PAID transactions, for any
\* number of payments, handlers, retries and crashes.
THEOREM RaisedFromLedger == PaymentsSpec => []RaisedIsLedger
<1>1. PaymentsInit => RaisedInv
  BY RaisedInit DEF PaymentsInit, NothingPaid
<1>2. PaymentsTypeOK /\ RaisedInv /\ [PaymentsNext]_paymentVars => RaisedInv'
  BY RaisedStep
<1>3. RaisedInv => RaisedIsLedger
  BY DEF RaisedInv
<1> QED BY <1>1, <1>2, <1>3, PaymentsTypes, PTL DEF PaymentsSpec

-----------------------------------------------------------------------------
\* What makes it inductive: a handler that still has to write a credited
\* sponsorship, and did not race with the credit, holds a payment that is
\* recorded already, so the unique index will roll it back.
CreditInv ==
    \A s \in Sponsorships \ raced : Paid(s) # {} =>
        /\ sponsorship[s].paymentStatus = "PAID"
        /\ \A t, u \in Paid(s) : t = u
        /\ \A h \in Handlers :
                handler[h].pc \in {"markPaid", "markFailed"} /\ handler[h].sponsorship = s
                    => PaymentRecorded(handler[h].payment)

\* A step that credits nothing, changes no status and starts no writer.
LEMMA CreditQuiet ==
    ASSUME CreditInv, transactions \subseteq transactions', UNCHANGED raced,
           \A t \in transactions' \ transactions : t.status # "PAID",
           \A s \in Sponsorships : sponsorship'[s].paymentStatus = sponsorship[s].paymentStatus,
           \A h \in Handlers : \/ handler'[h] = handler[h]
                               \/ handler'[h].pc \notin {"markPaid", "markFailed"}
    PROVE  CreditInv'
<1>1. \A s : Paid(s)' = Paid(s)
  BY DEF Paid
<1>2. \A p : PaymentRecorded(p) => PaymentRecorded(p)'
  BY DEF PaymentRecorded
<1> QED BY <1>1, <1>2 DEF CreditInv

\* A handler starts to write only on a row it has found not to be PAID.
LEMMA CreditStart ==
    ASSUME CreditInv, UNCHANGED <<sponsorship, transactions, raced>>, NEW h \in Handlers,
           \A g \in Handlers \ {h} : handler'[g] = handler[g],
           handler'[h].sponsorship \in Sponsorships
               => sponsorship[handler'[h].sponsorship].paymentStatus # "PAID"
    PROVE  CreditInv'
<1>1. \A s : Paid(s)' = Paid(s)
  BY DEF Paid
<1>2. \A p : PaymentRecorded(p) = PaymentRecorded(p)'
  BY DEF PaymentRecorded
<1> QED BY <1>1, <1>2 DEF CreditInv

LEMMA CreditCommit ==
    ASSUME PaymentsTypeOK, CreditInv, NEW h \in Handlers, CommitPaid(h),
           NEW s \in Sponsorships, s = handler[h].sponsorship,
           NEW p \in PaymentIds, p = handler[h].payment
    PROVE  CreditInv'
<1> DEFINE t == [sponsorship |-> s, payment |-> p, status |-> "PAID"]
<1>1. handler[h].pc = "markPaid" /\ ~PaymentRecorded(p)
  BY DEF CommitPaid
<1>2. /\ transactions' = transactions \cup {t}
      /\ sponsorship'[s].paymentStatus = "PAID"
      /\ \A x \in Sponsorships \ {s} : sponsorship'[x] = sponsorship[x]
      /\ \A g \in Handlers \ {h} : handler'[g] = handler[g]
      /\ handler'[h].pc = "tellAthlete"
      /\ raced' = IF OtherInFlight(s, p) THEN raced \cup {s} ELSE raced
  BY <1>1 DEF CommitPaid, PaymentsTypeOK, SponsorshipRow
<1>3. \A x : PaymentRecorded(x) => PaymentRecorded(x)'
  BY <1>2 DEF PaymentRecorded
<1>4. PaymentRecorded(p)'
  <2>1. t \in transactions' /\ t.payment = p
    BY <1>2
  <2> QED BY <2>1 DEF PaymentRecorded
<1>5. \A x : x # s => Paid(x)' = Paid(x)
  BY <1>2 DEF Paid
<1>6. Paid(s)' = Paid(s) \cup {t}
  BY <1>2 DEF Paid
<1>7. ASSUME NEW x \in Sponsorships, x \notin raced', Paid(x)' # {}, x # s
      PROVE  /\ sponsorship'[x].paymentStatus = "PAID"
             /\ \A u, v \in Paid(x)' : u = v
             /\ \A g \in Handlers :
                     handler'[g].pc \in {"markPaid", "markFailed"} /\ handler'[g].sponsorship = x
                         => PaymentRecorded(handler[g].payment)'
  <2>1. x \notin raced /\ Paid(x) # {}
    BY <1>2, <1>5, <1>7
  <2> QED BY <1>2, <1>3, <1>5, <1>7, <2>1 DEF CreditInv
<1>8. ASSUME s \notin raced'
      PROVE  /\ \A u, v \in Paid(s)' : u = v
             /\ \A g \in Handlers :
                     handler'[g].pc \in {"markPaid", "markFailed"} /\ handler'[g].sponsorship = s
                         => PaymentRecorded(handler[g].payment)'
  <2>1. s \notin raced /\ ~OtherInFlight(s, p)
    BY <1>2, <1>8
  <2>2. Paid(s) = {}
    BY <1>1, <2>1 DEF CreditInv
  <2>3. \A g \in Handlers : handler[g].pc \in {"markPaid", "markFailed"} /\ handler[g].sponsorship = s
            => handler[g].payment = p
    BY <2>1 DEF OtherInFlight
  <2> QED BY <1>2, <1>4, <1>6, <2>2, <2>3
<1> QED BY <1>2, <1>7, <1>8 DEF CreditInv

LEMMA CreditFailed ==
    ASSUME PaymentsTypeOK, CreditInv, NEW h \in Handlers, CommitFailed(h),
           NEW s \in Sponsorships, s = handler[h].sponsorship,
           NEW p \in PaymentIds, p = handler[h].payment
    PROVE  CreditInv'
<1> DEFINE t == [sponsorship |-> s, payment |-> p, status |-> "FAILED"]
<1>1. handler[h].pc = "markFailed" /\ ~PaymentRecorded(p)
  BY DEF CommitFailed
<1>2. /\ transactions' = transactions \cup {t}
      /\ \A x \in Sponsorships \ {s} : sponsorship'[x] = sponsorship[x]
      /\ \A g \in Handlers \ {h} : handler'[g] = handler[g]
      /\ handler'[h].pc = "idle"
      /\ raced' = raced
  BY <1>1 DEF CommitFailed, Acknowledge, PaymentsTypeOK, SponsorshipRow, Idle
<1>3. \A x : PaymentRecorded(x) => PaymentRecorded(x)'
  BY <1>2 DEF PaymentRecorded
<1>4. \A x : Paid(x)' = Paid(x)
  BY <1>2 DEF Paid
<1>5. s \notin raced => Paid(s) = {}
  BY <1>1 DEF CreditInv
<1> QED BY <1>2, <1>3, <1>4, <1>5 DEF CreditInv

LEMMA CreditStep ==
    ASSUME PaymentsTypeOK, CreditInv, [PaymentsNext]_paymentVars PROVE CreditInv'
<1>1. ASSUME NEW s \in Sponsorships, Checkout(s) PROVE CreditInv'
  <2>1. /\ UNCHANGED <<handler, raced>> /\ transactions \subseteq transactions'
        /\ \A t \in transactions' \ transactions : t.status # "PAID"
    BY <1>1 DEF Checkout, CheckSponsorable, InsertSponsorship, AttachOrder, CrashCheckout,
        tables
  <2>2. \A x \in Sponsorships : sponsorship'[x].paymentStatus = sponsorship[x].paymentStatus
    BY <1>1 DEF Checkout, CheckSponsorable, InsertSponsorship, AttachOrder, CrashCheckout,
        tables,
        PaymentsTypeOK, SponsorshipRow
  <2> QED BY <2>1, <2>2, CreditQuiet
<1>2. ASSUME NEW p \in PaymentIds, Provider(p) PROVE CreditInv'
  BY <1>2, CreditQuiet DEF Provider, CapturePayment, FailPayment, tables
<1>3. ASSUME NEW h \in Handlers, NEW s \in Sponsorships, NEW p \in PaymentIds,
             VerifyPayment(h, s, p) PROVE CreditInv'
  <2>1. handler'[h].sponsorship = s /\ \A g \in Handlers \ {h} : handler'[g] = handler[g]
    BY <1>3 DEF VerifyPayment, PaymentsTypeOK
  <2> QED BY <1>3, <2>1, CreditStart DEF VerifyPayment, tables
<1>4. ASSUME NEW h \in Handlers, NEW e \in Events, ReceiveWebhook(h, e) PROVE CreditInv'
  <2>1. /\ handler'[h].sponsorship = OrderOf[e.payment]
        /\ \A g \in Handlers \ {h} : handler'[g] = handler[g]
    BY <1>4 DEF ReceiveWebhook, PaymentsTypeOK
  <2>2. sponsorship[OrderOf[e.payment]].paymentStatus # "PAID"
    BY <1>4 DEF ReceiveWebhook, Settled
  <2> QED BY <1>4, <2>1, <2>2, CreditStart DEF ReceiveWebhook, tables
<1>5. ASSUME NEW h \in Handlers, NEW e \in Events, IgnoreWebhook(h, e) PROVE CreditInv'
  BY <1>5, CreditQuiet DEF IgnoreWebhook, tables
<1>6. ASSUME NEW h \in Handlers,
             RollBack(h) \/ NotifyAthlete(h) \/ NotifySponsor(h) \/ CrashHandler(h)
      PROVE  CreditInv'
  <2>1. UNCHANGED <<sponsorship, transactions, raced>>
    BY <1>6 DEF RollBack, NotifyAthlete, NotifySponsor, CrashHandler, tables
  <2>2. \/ handler' = [handler EXCEPT ![h] = Idle]
        \/ handler' = [handler EXCEPT ![h].pc = "tellSponsor"] /\ handler[h].pc = "tellAthlete"
    BY <1>6 DEF RollBack, NotifyAthlete, NotifySponsor, Acknowledge, CrashHandler
  <2>3. handler[h].pc = "tellAthlete" => handler[h] \in HandlerState \ {Idle}
    BY DEF PaymentsTypeOK, Idle
  <2>4. \A g \in Handlers : \/ handler'[g] = handler[g]
                            \/ handler'[g].pc \notin {"markPaid", "markFailed"}
    BY <2>2, <2>3 DEF Idle, PaymentsTypeOK, HandlerState
  <2> QED BY <2>1, <2>4, CreditQuiet
<1>7. ASSUME NEW r \in Requests, Withdraw(r) PROVE CreditInv'
  BY <1>7, CreditQuiet DEF Withdraw
<1>8. CASE UNCHANGED paymentVars
  BY <1>8, CreditQuiet DEF paymentVars, tables
<1>9. ASSUME NEW h \in Handlers, CommitPaid(h) \/ CommitFailed(h) PROVE CreditInv'
  <2>1. handler[h].sponsorship \in Sponsorships /\ handler[h].payment \in PaymentIds
    BY <1>9, BusyHandler DEF CommitPaid, CommitFailed
  <2> QED BY <1>9, <2>1, CreditCommit, CreditFailed
<1> QED
  BY <1>1, <1>2, <1>3, <1>4, <1>5, <1>6, <1>7, <1>8, <1>9
  DEF PaymentsNext, Handle

\* However checkout verify, webhooks, late failures, retries and crashes
\* interleave, and however many payments of an order are captured, a sponsorship
\* is credited once and stays PAID, unless handlers of two payments of it raced.
THEOREM CreditOnce == PaymentsSpec => []CreditedOnce
<1>1. PaymentsInit => CreditInv
  BY DEF PaymentsInit, NothingPaid, CreditInv, Paid
<1>2. PaymentsTypeOK /\ CreditInv /\ [PaymentsNext]_paymentVars => CreditInv'
  BY CreditStep
<1>3. CreditInv => CreditedOnce
  BY DEF CreditInv, CreditedOnce
<1> QED BY <1>1, <1>2, <1>3, PaymentsTypes, PTL DEF PaymentsSpec

-----------------------------------------------------------------------------
Telling == {"tellAthlete", "tellSponsor"}

\* A handler that is about to notify is the only one to do so for its payment,
\* has the payment in the ledger, and has not said yet what it is about to say.
NoticeInv ==
    /\ \A h \in Handlers : handler[h].pc \in Telling =>
            /\ Credited(handler[h].payment)
            /\ notices[handler[h].payment]["sponsor"] = 0
            /\ handler[h].pc = "tellAthlete" => notices[handler[h].payment]["athlete"] = 0
    /\ \A g, h \in Handlers :
            /\ handler[g].pc \in Telling /\ handler[h].pc \in Telling
            /\ handler[g].payment = handler[h].payment
            => g = h
    /\ NoticesAreTrue

LEMMA NoticeStep ==
    ASSUME PaymentsTypeOK, PaymentsTypeOK', NoticeInv, [PaymentsNext]_paymentVars PROVE NoticeInv'
<1> USE DEF NoticeInv, Telling
\* The ledger only grows, so what was credited stays credited.
<1>1. transactions \subseteq transactions'
  BY DEF PaymentsNext, Checkout, CheckSponsorable, InsertSponsorship, AttachOrder,
      CrashCheckout, Provider,
     CapturePayment, FailPayment, Handle, VerifyPayment, ReceiveWebhook, IgnoreWebhook, CommitPaid,
     CommitFailed, RollBack, NotifyAthlete, NotifySponsor, CrashHandler, Withdraw, tables, paymentVars
<1>2. \A p : Credited(p) => Credited(p)'
  BY <1>1 DEF Credited
<1>3. ASSUME UNCHANGED notices PROVE NoticesAreTrue'
  <2> SUFFICES ASSUME NEW p \in PaymentIds, NEW to \in Recipients
               PROVE  notices[p][to] <= IF Credited(p)' THEN 1 ELSE 0
    BY <1>3 DEF NoticesAreTrue
  <2>1. notices[p][to] <= (IF Credited(p) THEN 1 ELSE 0) /\ notices[p][to] \in Nat
    BY DEF NoticesAreTrue, PaymentsTypeOK
  <2>2. CASE Credited(p)
    BY <1>2, <2>1, <2>2
  <2>3. CASE ~Credited(p)
    BY <2>1, <2>3
  <2> QED BY <2>2, <2>3
\* A step that notifies nobody and lets no handler begin to.
<1>4. ASSUME UNCHANGED notices,
             \A h \in Handlers : handler'[h] = handler[h] \/ handler'[h].pc \notin Telling
      PROVE  NoticeInv'
  BY <1>2, <1>3, <1>4
<1>5. ASSUME NEW s \in Sponsorships, Checkout(s) PROVE NoticeInv'
  BY <1>5, <1>4 DEF Checkout, CheckSponsorable, InsertSponsorship, AttachOrder, CrashCheckout
<1>6. ASSUME NEW p \in PaymentIds, Provider(p) PROVE NoticeInv'
  BY <1>6, <1>4 DEF Provider, CapturePayment, FailPayment
<1>7. ASSUME NEW h \in Handlers, NEW s \in Sponsorships, NEW p \in PaymentIds,
             VerifyPayment(h, s, p) PROVE NoticeInv'
  BY <1>7, <1>4 DEF VerifyPayment, PaymentsTypeOK
<1>8. ASSUME NEW h \in Handlers, NEW e \in Events, ReceiveWebhook(h, e) \/ IgnoreWebhook(h, e)
      PROVE  NoticeInv'
  BY <1>8, <1>4 DEF ReceiveWebhook, IgnoreWebhook, PaymentsTypeOK
<1>9. ASSUME NEW h \in Handlers, CommitPaid(h) PROVE NoticeInv'
  <2>1. PICK p \in PaymentIds : p = handler[h].payment
    BY <1>9, BusyHandler DEF CommitPaid
  <2>2. ~Credited(p)
    BY <1>9, <2>1 DEF CommitPaid, PaymentRecorded, Credited
  <2>3. \A g \in Handlers : handler[g].pc \in Telling => handler[g].payment # p
    BY <2>2
  <2>4. notices[p]["athlete"] = 0 /\ notices[p]["sponsor"] = 0
    BY <2>1, <2>2 DEF NoticesAreTrue, PaymentsTypeOK, Recipients
  <2>5. Credited(p)'
    <3>1. [sponsorship |-> handler[h].sponsorship, payment |-> p, status |-> "PAID"] \in transactions'
      BY <1>9, <2>1 DEF CommitPaid
    <3> QED BY <3>1 DEF Credited
  <2>6. /\ handler'[h].pc = "tellAthlete" /\ handler'[h].payment = p
        /\ \A g \in Handlers \ {h} : handler'[g] = handler[g]
        /\ UNCHANGED notices
    BY <1>9, <2>1, BusyHandler DEF CommitPaid, PaymentsTypeOK, HandlerState, Idle
  <2> QED BY <1>2, <1>3, <2>3, <2>4, <2>5, <2>6
<1>10. ASSUME NEW h \in Handlers, CommitFailed(h) PROVE NoticeInv'
  BY <1>10, <1>4 DEF CommitFailed, Acknowledge, PaymentsTypeOK, Idle
<1>11. ASSUME NEW h \in Handlers, RollBack(h) \/ CrashHandler(h) PROVE NoticeInv'
  BY <1>11, <1>4 DEF RollBack, CrashHandler, PaymentsTypeOK, Idle
<1>12. ASSUME NEW h \in Handlers, NotifyAthlete(h) PROVE NoticeInv'
  <2> DEFINE p == handler[h].payment
  <2>1. p \in PaymentIds
    BY <1>12, BusyHandler DEF NotifyAthlete
  <2>2. /\ handler'[h].pc = "tellSponsor" /\ handler'[h].payment = p
        /\ \A g \in Handlers \ {h} : handler'[g] = handler[g]
    BY <1>12, BusyHandler DEF NotifyAthlete, PaymentsTypeOK, HandlerState, Idle
  <2>3. /\ notices'[p]["athlete"] \in {0, 1} /\ notices'[p]["sponsor"] = 0
        /\ \A q \in PaymentIds \ {p} : notices'[q] = notices[q]
    BY <1>12, <2>1 DEF NotifyAthlete, PaymentsTypeOK, Recipients
  <2>4. Credited(p) /\ \A g \in Handlers : handler[g].pc \in Telling /\ handler[g].payment = p => g = h
    BY <1>12 DEF NotifyAthlete
  <2>5. NoticesAreTrue'
    BY <1>2, <2>1, <2>3, <2>4 DEF NoticesAreTrue, Recipients, PaymentsTypeOK
  <2>6. \A g \in Handlers : handler[g].pc \in Telling => handler[g].payment \in PaymentIds
    BY BusyHandler
  <2> HIDE DEF p
  <2> QED BY <1>2, <1>12, <2>2, <2>3, <2>4, <2>5, <2>6 DEF NotifyAthlete
<1>13. ASSUME NEW h \in Handlers, NotifySponsor(h) PROVE NoticeInv'
  <2> DEFINE p == handler[h].payment
  <2>1. p \in PaymentIds
    BY <1>13, BusyHandler DEF NotifySponsor
  <2>2. /\ handler'[h].pc = "idle"
        /\ \A g \in Handlers \ {h} : handler'[g] = handler[g]
    BY <1>13 DEF NotifySponsor, Acknowledge, PaymentsTypeOK, Idle
  <2>3. /\ notices'[p]["athlete"] = notices[p]["athlete"] /\ notices'[p]["sponsor"] \in {0, 1}
        /\ \A q \in PaymentIds \ {p} : notices'[q] = notices[q]
    BY <1>13, <2>1 DEF NotifySponsor, PaymentsTypeOK, Recipients
  <2>4. Credited(p) /\ \A g \in Handlers : handler[g].pc \in Telling /\ handler[g].payment = p => g = h
    BY <1>13 DEF NotifySponsor
  <2>5. NoticesAreTrue'
    BY <1>2, <2>1, <2>3, <2>4 DEF NoticesAreTrue, Recipients, PaymentsTypeOK
  <2>6. \A g \in Handlers : handler[g].pc \in Telling => handler[g].payment \in PaymentIds
    BY BusyHandler
  <2> HIDE DEF p
  <2> QED BY <1>2, <2>2, <2>3, <2>4, <2>5, <2>6
<1>14. ASSUME NEW r \in Requests, Withdraw(r) PROVE NoticeInv'
  BY <1>14, <1>4 DEF Withdraw
<1>15. CASE UNCHANGED paymentVars
  BY <1>15, <1>4 DEF paymentVars
<1> QED
  BY <1>5, <1>6, <1>7, <1>8, <1>9, <1>10, <1>11, <1>12, <1>13, <1>14, <1>15
      DEF PaymentsNext, Handle

\* Athlete and sponsor are told of a payment at most once, and only when the
\* ledger has it.
THEOREM NoticesTrue == PaymentsSpec => []NoticesAreTrue
<1>1. PaymentsInit => NoticeInv
  BY DEF PaymentsInit, NothingPaid, NoticeInv, NoticesAreTrue, Telling, Idle, Recipients
<1>2. PaymentsTypeOK /\ PaymentsTypeOK' /\ NoticeInv /\ [PaymentsNext]_paymentVars => NoticeInv'
  BY NoticeStep
<1>3. NoticeInv => NoticesAreTrue
  BY DEF NoticeInv
<1> QED BY <1>1, <1>2, <1>3, PaymentsTypes, PTL DEF PaymentsSpec

-----------------------------------------------------------------------------
(* SponsorshipPayments implements PaymentLedger *)

\* The refinement mapping, named.
CapturedSet == {p \in PaymentIds : attempt[p] = "captured"}
CreditedSet == {p \in PaymentIds : Credited(p)}
RaisedByRequest == [r \in Requests |-> request[r].raised]

\* A step that captures nothing, credits nothing and moves no money stutters.
LEMMA LedgerStutter ==
    ASSUME UNCHANGED <<CapturedSet, CreditedSet, RaisedByRequest>>
    PROVE  [Ledger!Next]_(Ledger!ledgerVars)
BY DEF CapturedSet, CreditedSet, RaisedByRequest, Ledger!ledgerVars

LEMMA LedgerSteps ==
    ASSUME LedgerInv, [PaymentsNext]_paymentVars PROVE [Ledger!Next]_(Ledger!ledgerVars)
<1> USE DEF CapturedSet, CreditedSet, RaisedByRequest
<1>0. PaymentsTypeOK
  BY DEF LedgerInv
\* Recording a transaction that is not PAID credits nothing.
<1>1. ASSUME transactions \subseteq transactions',
             \A t \in transactions' \ transactions : t.status # "PAID"
      PROVE  UNCHANGED CreditedSet
  BY <1>1 DEF Credited
<1>2. ASSUME NEW s \in Sponsorships, Checkout(s) PROVE [Ledger!Next]_(Ledger!ledgerVars)
  <2>1. UNCHANGED <<attempt, request>>
    BY <1>2 DEF Checkout, CheckSponsorable, InsertSponsorship, AttachOrder, CrashCheckout,
        tables,
       provider
  <2>2. /\ transactions \subseteq transactions'
        /\ \A t \in transactions' \ transactions : t.status # "PAID"
    BY <1>2 DEF Checkout, CheckSponsorable, InsertSponsorship, AttachOrder, CrashCheckout,
        tables
  <2> QED BY <1>1, <2>1, <2>2, LedgerStutter
<1>3. ASSUME NEW p \in PaymentIds, CapturePayment(p) PROVE [Ledger!Next]_(Ledger!ledgerVars)
  <2>1. CapturedSet' = CapturedSet \cup {p} /\ UNCHANGED <<transactions, request>>
    BY <1>0, <1>3 DEF CapturePayment, PaymentsTypeOK, tables
  <2>2. Ledger!Capture(p)
    BY <2>1 DEF Ledger!Capture, Credited
  <2> QED BY <2>2 DEF Ledger!Next
<1>4. ASSUME NEW p \in PaymentIds, FailPayment(p) PROVE [Ledger!Next]_(Ledger!ledgerVars)
  <2>1. UNCHANGED <<CapturedSet, transactions, request>>
    BY <1>0, <1>4 DEF FailPayment, PaymentsTypeOK, tables
  <2> QED BY <2>1, LedgerStutter DEF Credited
<1>5. ASSUME NEW h \in Handlers, CommitPaid(h) PROVE [Ledger!Next]_(Ledger!ledgerVars)
  <2>1. PICK p \in PaymentIds, s \in Sponsorships :
            p = handler[h].payment /\ s = handler[h].sponsorship
    BY <1>0, <1>5, BusyHandler DEF CommitPaid
  <2>2. OrderOf[p] = s /\ attempt[p] = "captured"
    BY <1>5, <2>1 DEF CommitPaid, LedgerInv, HandlersAreHonest, Idle
  <2>3. ~Credited(p)
    BY <1>5, <2>1 DEF CommitPaid, PaymentRecorded, Credited
  <2>4. UNCHANGED CapturedSet
    BY <1>5 DEF CommitPaid, provider
  <2>5. CreditedSet' = CreditedSet \cup {p}
    <3>1. transactions' = transactions \cup {[sponsorship |-> s, payment |-> p, status |-> "PAID"]}
      BY <1>5, <2>1 DEF CommitPaid
    <3>2. Credited(p)'
      <4>1. [sponsorship |-> s, payment |-> p, status |-> "PAID"] \in transactions'
        BY <3>1
      <4> QED BY <4>1 DEF Credited
    <3>3. ASSUME NEW q \in PaymentIds, q # p PROVE Credited(q)' <=> Credited(q)
      BY <3>1, <3>3 DEF Credited
    <3> QED BY <3>2, <3>3
  <2>6. RaisedByRequest' = [r \in Requests |->
            IF r = RequestOf[s] THEN RaisedByRequest[r] + Amount[s] ELSE RaisedByRequest[r]]
    <3>1. \A r \in Requests : request'[r] = IF r = RequestOf[s] THEN WithPayment(request[r], Amount[s])
                                                              ELSE request[r]
      BY <1>0, <1>5, <2>1 DEF CommitPaid, PaymentsTypeOK
    <3>2. \A r \in Requests : WithPayment(request[r], Amount[s]).raised = request[r].raised + Amount[s]
      BY <1>0, PaymentsAssumption, WithPaymentFields DEF PaymentsTypeOK
    <3> QED BY <3>1, <3>2
  <2>7. Ledger!Credit(p)
    BY <2>2, <2>3, <2>4, <2>5, <2>6 DEF Ledger!Credit, Ledger!BeneficiaryOf
  <2> QED BY <2>7 DEF Ledger!Next
<1>6. ASSUME NEW h \in Handlers, CommitFailed(h) PROVE [Ledger!Next]_(Ledger!ledgerVars)
  BY <1>1, <1>6, LedgerStutter DEF CommitFailed
<1>7. ASSUME NEW h \in Handlers, Handle(h), ~CommitPaid(h), ~CommitFailed(h)
      PROVE  [Ledger!Next]_(Ledger!ledgerVars)
  <2>1. UNCHANGED <<transactions, request, attempt>>
    BY <1>7 DEF Handle, VerifyPayment, ReceiveWebhook, IgnoreWebhook, RollBack, NotifyAthlete,
       NotifySponsor, CrashHandler, tables, provider
  <2> QED BY <2>1, LedgerStutter DEF Credited
<1>8. ASSUME NEW r \in Requests, Withdraw(r) PROVE [Ledger!Next]_(Ledger!ledgerVars)
  <2>1. UNCHANGED RaisedByRequest
    BY <1>0, <1>8 DEF Withdraw, PaymentsTypeOK, RequestRow
  <2> QED BY <1>8, <2>1, LedgerStutter DEF Withdraw, provider, Credited
<1>9. CASE UNCHANGED paymentVars
  BY <1>9, LedgerStutter DEF paymentVars, tables, provider, Credited
<1> QED BY <1>2, <1>3, <1>4, <1>5, <1>6, <1>7, <1>8, <1>9 DEF PaymentsNext, Provider

\* The payment code implements the ledger: captured money is credited at most
\* once, to the request its order was created for, and never un-credited.
THEOREM LedgerRefinement == PaymentsSpec => ImplementsLedger
<1>1. PaymentsInit => Ledger!Init
  BY DEF PaymentsInit, NothingPaid, Ledger!Init, Credited
<1>2. LedgerInv /\ [PaymentsNext]_paymentVars => [Ledger!Next]_(Ledger!ledgerVars)
  BY LedgerSteps
<1> QED BY <1>1, <1>2, LedgerInvariant, PTL DEF PaymentsSpec, ImplementsLedger, Ledger!Spec

-----------------------------------------------------------------------------
(* VALIDATION: its types, the audit trail and the protection of rejected   *)
(* athletes under every interleaving, and, as long as no two handlers      *)
(* overlap, that what sponsors see was vouched for by whoever had the      *)
(* authority to.                                                           *)

\* What a handler holds, by the step it is at.
LEMMA DeskType ==
    ASSUME ValidationTypeOK, NEW h \in Handlers
    PROVE  /\ desk[h] \in DeskState
           /\ desk[h].pc = "edit" => desk[h].request \in Requests
           /\ desk[h].pc \in {"raise", "decide"} => desk[h].decision \in Decision
           /\ desk[h].pc = "raise" => desk[h].decision.author # Admin /\ desk[h].decision.approve
           /\ desk[h].pc \in {"edit", "raise", "decide"} => desk[h] # Idle
BY DEF ValidationTypeOK, DeskState, Idle

\* VouchFor keeps the statuses of the athletes statuses.
LEMMA VouchType ==
    ASSUME ValidationTypeOK, NEW r \in Requests, VouchFor(r)
    PROVE  verification' \in [Athletes -> VerificationStatus]
BY DEF ValidationTypeOK, VouchFor, Vouched, VerificationStatus

\* A decision moves its request to a status there is.
LEMMA DecideType ==
    ASSUME ValidationTypeOK, NEW d \in Decision, Decide(d)
    PROVE  request' \in [Requests -> RequestRow] /\ decisions' \subseteq Decision
BY DEF ValidationTypeOK, Decide, Outcome, Decision, RequestRow, RequestStatus

\* A step keeps the types.
LEMMA ValidationTypeStep ==
    ASSUME ValidationTypeOK, [ValidationNext]_validationVars PROVE ValidationTypeOK'
<1> USE ValidationAssumption
<1>1. ASSUME NEW r \in Requests, NEW total \in Totals, CreateRequest(r, total)
      PROVE  ValidationTypeOK'
  BY <1>1 DEF CreateRequest, Starts, ValidationTypeOK, RequestRow, RequestStatus
<1>2. ASSUME NEW r \in Requests, CloseRequest(r) PROVE ValidationTypeOK'
  BY <1>2 DEF CloseRequest, Starts, ValidationTypeOK, RequestRow, RequestStatus
<1>3. ASSUME NEW r \in Requests, NEW h \in Handlers, EditRead(h, r) PROVE ValidationTypeOK'
  BY <1>3 DEF EditRead, Starts, ValidationTypeOK, DeskState
<1>4. ASSUME NEW h \in Handlers, NEW total \in Totals, EditCommit(h, total)
      PROVE  ValidationTypeOK'
  <2>1. desk[h].request \in Requests
    BY <1>4, DeskType DEF EditCommit
  <2>2. EditedRow(request[desk[h].request], total) \in RequestRow
    BY <2>1 DEF EditedRow, ValidationTypeOK, RequestRow, RequestStatus
  <2>3. Edited(validation[desk[h].request]) \in ValidationRow
    BY <2>1 DEF Edited, ValidationTypeOK, ValidationRow
  <2> QED BY <1>4, <2>1, <2>2, <2>3 DEF EditCommit, ValidationTypeOK, DeskState
<1>5. ASSUME NEW h \in Handlers, NEW c \in Coordinators, NEW r \in Requests, RaiseRead(h, c, r)
      PROVE  ValidationTypeOK'
  <2>1. [request |-> r, version |-> validation[r].version, author |-> c, approve |-> TRUE]
          \in Decision
    BY DEF ValidationTypeOK, Decision, ValidationRow
  <2> QED BY <1>5, <2>1 DEF RaiseRead, Starts, ValidationTypeOK, DeskState
<1>6. ASSUME NEW h \in Handlers, NEW total \in Totals, RaiseCommit(h, total)
      PROVE  ValidationTypeOK'
  <2> DEFINE d == desk[h].decision
  <2>1. d \in Decision /\ d.request \in Requests /\ AthleteOf[d.request] \in Athletes \cup {NoAthlete}
    BY <1>6, DeskType DEF RaiseCommit, Decision
  <2>2. [status |-> "OPEN", total |-> total, raised |-> 0] \in RequestRow
    BY DEF RequestRow, RequestStatus
  <2>3. verification' \in [Athletes -> VerificationStatus]
    BY <1>6, <2>1, VouchType DEF RaiseCommit
  <2>4. validation' \in [Requests -> ValidationRow]
    <3>1. d.author \in Coordinators
      BY <1>6, <2>1, DeskType DEF RaiseCommit, Decision
    <3> QED BY <1>6, <2>1, <3>1 DEF RaiseCommit, ValidationTypeOK, ValidationRow
  <2>5. records' \subseteq Record
    BY <1>6, <2>1 DEF RaiseCommit, Audited, ValidationTypeOK, Record, Decision,
        VerificationStatus
  <2> QED BY <1>6, <2>1, <2>2, <2>3, <2>4, <2>5 DEF RaiseCommit, ValidationTypeOK, DeskState
<1>7. ASSUME NEW h \in Handlers, NEW r \in Requests, NEW author \in Coordinators \cup {Admin},
             NEW approve \in BOOLEAN, DecideRead(h, author, r, approve)
      PROVE  ValidationTypeOK'
  <2>1. [request |-> r, version |-> validation[r].version, author |-> author,
         approve |-> approve] \in Decision
    BY DEF ValidationTypeOK, Decision, ValidationRow
  <2> QED BY <1>7, <2>1 DEF DecideRead, Starts, ValidationTypeOK, DeskState
<1>8. ASSUME NEW h \in Handlers, DecideCommit(h) PROVE ValidationTypeOK'
  <2> DEFINE d == desk[h].decision
  <2>1. d \in Decision /\ d.request \in Requests /\ d.author \in Coordinators
    BY <1>8, DeskType DEF DecideCommit, Decision
  <2>2. request' \in [Requests -> RequestRow] /\ decisions' \subseteq Decision
    BY <1>8, <2>1, DecideType DEF DecideCommit
  <2>3. verification' \in [Athletes -> VerificationStatus]
    BY <1>8, <2>1, VouchType DEF DecideCommit, ValidationTypeOK
  <2>4. validation' \in [Requests -> ValidationRow]
    BY <1>8, <2>1 DEF DecideCommit, ValidationTypeOK, ValidationRow
  <2>5. records' \subseteq Record
    BY <1>8, <2>1 DEF DecideCommit, Audited, ValidationTypeOK, Record, VerificationStatus
  <2> QED BY <1>8, <2>1, <2>2, <2>3, <2>4, <2>5 DEF DecideCommit, ValidationTypeOK, DeskState
<1>9. ASSUME NEW h \in Handlers, AdminCommit(h) PROVE ValidationTypeOK'
  <2> DEFINE d == desk[h].decision
  <2>1. d \in Decision /\ d.request \in Requests
    BY <1>9, DeskType DEF AdminCommit, Decision
  <2>2. request' \in [Requests -> RequestRow] /\ decisions' \subseteq Decision
    BY <1>9, <2>1, DecideType DEF AdminCommit
  <2>3. records' \subseteq Record
    BY <1>9, <2>1 DEF AdminCommit, Audited, ValidationTypeOK, Record, VerificationStatus
  <2> QED BY <1>9, <2>1, <2>2, <2>3 DEF AdminCommit, ValidationTypeOK, DeskState
<1>10. ASSUME Administer PROVE ValidationTypeOK'
  <2>1. ASSUME NEW a \in Athletes, NEW decision \in VerificationStatus \ {"PENDING"},
               VerifyAthlete(a, decision)
        PROVE  ValidationTypeOK'
    <3>1. records' \subseteq Record
      BY <2>1 DEF VerifyAthlete, Audited, ValidationTypeOK, Record
    <3>2. overlapped' \in BOOLEAN
      BY <2>1 DEF VerifyAthlete, Starts, ValidationTypeOK
    <3> QED BY <2>1, <3>1, <3>2 DEF VerifyAthlete, ValidationTypeOK
  <2>2. ASSUME NEW c \in Coordinators, NEW villages \in SUBSET Villages,
               NEW isActive \in BOOLEAN,
               coordinator' = [coordinator EXCEPT ![c] =
                  [exists |-> TRUE, isActive |-> isActive, villages |-> villages]],
               Starts, UNCHANGED <<request, validation, verification, records, desk, decisions>>
        PROVE  ValidationTypeOK'
    <3>1. [exists |-> TRUE, isActive |-> isActive, villages |-> villages] \in CoordinatorRow
      BY DEF CoordinatorRow
    <3> QED BY <2>2, <3>1 DEF Starts, ValidationTypeOK
  <2>3. \A c \in Coordinators :
          coordinator[c].isActive \in BOOLEAN /\ coordinator[c].villages \in SUBSET Villages
    BY DEF ValidationTypeOK, CoordinatorRow
  <2> QED BY <1>10, <2>1, <2>2, <2>3 DEF Administer, VerificationQueue, CoordinatorsManager,
        AppointForm, EditDialog, ToggleDialog, Appoint, UpdateCoordinator, Scopes
<1>11. ASSUME NEW h \in Handlers, Crash(h) PROVE ValidationTypeOK'
  BY <1>11 DEF Crash, ValidationTypeOK, DeskState
<1>12. CASE UNCHANGED validationVars
  BY <1>12 DEF validationVars, ValidationTypeOK
<1> QED BY <1>1, <1>2, <1>3, <1>4, <1>5, <1>6, <1>7, <1>8, <1>9, <1>10, <1>11, <1>12
        DEF ValidationNext, Athlete, Judge, ValidationQueue, OrphanQueue, Commit

\* Every table keeps its shape: requests, validations, profiles and audit rows.
THEOREM ValidationTypes == ValidationSpec => []ValidationTypeOK
<1>1. ValidationInit => ValidationTypeOK
  <2> SUFFICES ASSUME ValidationInit PROVE ValidationTypeOK
    OBVIOUS
  <2>1. request \in [Requests -> RequestRow] /\ validation \in [Requests -> ValidationRow]
    BY DEF ValidationInit, InitRequests, NothingDecided, RequestRow, RequestStatus,
        ValidationRow
  <2>2. /\ verification \in [Athletes -> VerificationStatus]
        /\ coordinator \in [Coordinators -> CoordinatorRow]
    BY DEF ValidationInit, NothingDecided, VerificationStatus, CoordinatorRow
  <2> QED BY <2>1, <2>2 DEF ValidationInit, NothingDecided, ValidationTypeOK, DeskState
<1> QED BY <1>1, ValidationTypeStep, PTL DEF ValidationSpec

-----------------------------------------------------------------------------
(* What every interleaving keeps *)

\* Only an athlete's request ever waits for a decision: what an institution
\* needs is raised by a coordinator.  So every approval has an athlete to
\* write a record about, and AuditTrail is inductive with it.
OnlyAthletesWait ==
    /\ \A r \in Requests : request[r].status = "PENDING_VALIDATION" => AthleteOf[r] \in Athletes
    /\ \A h \in Handlers :
            /\ desk[h].pc = "edit" => AthleteOf[desk[h].request] \in Athletes
            /\ desk[h].pc = "decide" => AthleteOf[desk[h].decision.request] \in Athletes

AuditInv == AuditTrail /\ OnlyAthletesWait

\* Nothing decided, no status and no record taken back: the trail stands.
LEMMA AuditStutter ==
    ASSUME AuditTrail, UNCHANGED <<verification, records, decisions>>
    PROVE  AuditTrail'
BY DEF AuditTrail

\* An approval by a coordinator, with its vouching and its record.
LEMMA AuditApproval ==
    ASSUME ValidationTypeOK, AuditTrail, NEW d \in Decision, d.author # Admin, d.approve,
           VouchFor(d.request),
           records' = Audited(AthleteOf[d.request], d.author, "VERIFIED"),
           decisions' = decisions \cup {d}
    PROVE  AuditTrail'
<1>1. records \subseteq records'
  BY DEF Audited
<1>2. ASSUME NEW a \in Athletes, verification'[a] = "VERIFIED"
      PROVE  \E rec \in records' : rec.athlete = a /\ rec.decision = "VERIFIED"
  <2>1. CASE a = AthleteOf[d.request]
    <3> DEFINE row == [athlete |-> AthleteOf[d.request], reviewer |-> d.author,
                       decision |-> "VERIFIED"]
    <3>1. row \in records' /\ row.athlete = AthleteOf[d.request] /\ row.decision = "VERIFIED"
      BY DEF Audited
    <3> QED BY <2>1, <3>1
  <2>2. CASE a # AthleteOf[d.request]
    BY <1>1, <1>2, <2>2 DEF VouchFor, AuditTrail
  <2> QED BY <2>1, <2>2
<1>3. ASSUME NEW e \in decisions', e.approve
      PROVE  [athlete |-> AthleteOf[e.request], reviewer |-> e.author,
              decision |-> IF e.author = Admin THEN "PENDING" ELSE "VERIFIED"] \in records'
  <2>1. CASE e = d
    <3>1. (IF e.author = Admin THEN "PENDING" ELSE "VERIFIED") = "VERIFIED"
      BY <2>1
    <3> QED BY <2>1, <3>1 DEF Audited
  <2>2. CASE e \in decisions
    BY <1>1, <1>3, <2>2 DEF AuditTrail
  <2> QED BY <2>1, <2>2
<1> QED BY <1>2, <1>3 DEF AuditTrail

LEMMA AuditStep ==
    ASSUME ValidationTypeOK, AuditInv, [ValidationNext]_validationVars PROVE AuditInv'
<1> USE ValidationAssumption DEF AuditInv
<1>1. ASSUME NEW r \in Requests, Athlete(r) PROVE AuditInv'
  <2>1. AuditTrail'
    BY <1>1, AuditStutter DEF Athlete, CreateRequest, CloseRequest, EditRead
  <2>2. OnlyAthletesWait'
    BY <1>1 DEF Athlete, CreateRequest, CloseRequest, EditRead, OnlyAthletesWait,
        ValidationTypeOK, RequestRow
  <2> QED BY <2>1, <2>2
<1>2. ASSUME NEW r \in Requests, Judge(r) PROVE AuditInv'
  <2>1. AuditTrail'
    BY <1>2, AuditStutter DEF Judge, ValidationQueue, OrphanQueue, DecideRead
  <2>2. OnlyAthletesWait'
    BY <1>2 DEF Judge, ValidationQueue, OrphanQueue, DecideRead, Undecided, OnlyAthletesWait,
        ValidationTypeOK
  <2> QED BY <2>1, <2>2
<1>3. ASSUME NEW h \in Handlers, NEW c \in Coordinators, NEW r \in Requests, RaiseRead(h, c, r)
      PROVE  AuditInv'
  <2>1. AuditTrail'
    BY <1>3, AuditStutter DEF RaiseRead
  <2>2. OnlyAthletesWait'
    BY <1>3 DEF RaiseRead, OnlyAthletesWait, ValidationTypeOK
  <2> QED BY <2>1, <2>2
<1>4. ASSUME NEW h \in Handlers, NEW total \in Totals, EditCommit(h, total) PROVE AuditInv'
  <2>1. AuditTrail'
    BY <1>4, AuditStutter DEF EditCommit
  <2>2. OnlyAthletesWait'
    BY <1>4, DeskType
        DEF EditCommit, EditedRow, OnlyAthletesWait, ValidationTypeOK, RequestRow, Idle
  <2> QED BY <2>1, <2>2
<1>5. ASSUME NEW h \in Handlers, NEW total \in Totals, RaiseCommit(h, total) PROVE AuditInv'
  <2>1. AuditTrail'
    BY <1>5, DeskType, AuditApproval DEF RaiseCommit
  <2>2. OnlyAthletesWait'
    BY <1>5, DeskType DEF RaiseCommit, OnlyAthletesWait, ValidationTypeOK, RequestRow, Idle
  <2> QED BY <2>1, <2>2
<1>6. ASSUME NEW h \in Handlers, DecideCommit(h) PROVE AuditInv'
  <2> DEFINE d == desk[h].decision
  <2>0. d \in Decision /\ AthleteOf[d.request] \in Athletes /\ d.author # Admin
    BY <1>6, DeskType DEF DecideCommit, OnlyAthletesWait
  <2>1. ASSUME d.approve PROVE AuditTrail'
    BY <1>6, <2>0, <2>1, AuditApproval DEF DecideCommit, Decide
  <2>2. ASSUME ~d.approve PROVE AuditTrail'
    BY <1>6, <2>0, <2>2 DEF DecideCommit, Decide, AuditTrail
  <2>3. OnlyAthletesWait'
    BY <1>6, <2>0 DEF DecideCommit, Decide, Outcome, OnlyAthletesWait, ValidationTypeOK,
        RequestRow,
          Decision, Idle
  <2> QED BY <2>0, <2>1, <2>2, <2>3 DEF Decision
<1>7. ASSUME NEW h \in Handlers, AdminCommit(h) PROVE AuditInv'
  <2> DEFINE d == desk[h].decision
  <2>0. d \in Decision /\ AthleteOf[d.request] \in Athletes /\ d.author = Admin
    BY <1>7, DeskType DEF AdminCommit, OnlyAthletesWait
  <2>1. AuditTrail'
    BY <1>7, <2>0 DEF AdminCommit, Decide, Audited, AuditTrail
  <2>2. OnlyAthletesWait'
    BY <1>7, <2>0 DEF AdminCommit, Decide, Outcome, OnlyAthletesWait, ValidationTypeOK,
        RequestRow, Decision, Idle
  <2> QED BY <2>1, <2>2
<1>8. ASSUME NEW h \in Handlers, Crash(h) PROVE AuditInv'
  <2>1. AuditTrail'
    BY <1>8, AuditStutter DEF Crash
  <2>2. OnlyAthletesWait'
    BY <1>8 DEF Crash, OnlyAthletesWait, ValidationTypeOK, Idle
  <2> QED BY <2>1, <2>2
<1>9. ASSUME Administer PROVE AuditInv'
  <2>1. OnlyAthletesWait'
    BY <1>9 DEF Administer, VerificationQueue, CoordinatorsManager,
         AppointForm, EditDialog, ToggleDialog,
            VerifyAthlete, Appoint,
          UpdateCoordinator, OnlyAthletesWait
  <2>2. ASSUME NEW a \in Athletes, NEW decision \in VerificationStatus, VerifyAthlete(a, decision)
        PROVE  AuditTrail'
    BY <2>2 DEF VerifyAthlete, Audited, AuditTrail, ValidationTypeOK
  <2>3. ASSUME UNCHANGED <<verification, records, decisions>> PROVE AuditTrail'
    BY <2>3, AuditStutter
  <2> QED BY <1>9, <2>1, <2>2, <2>3 DEF Administer, VerificationQueue, CoordinatorsManager,
        AppointForm, EditDialog, ToggleDialog, Appoint, UpdateCoordinator
<1>10. CASE UNCHANGED validationVars
  BY <1>10 DEF validationVars, AuditTrail, OnlyAthletesWait
<1> QED BY <1>1, <1>2, <1>3, <1>4, <1>5, <1>6, <1>7, <1>8, <1>9, <1>10
    DEF ValidationNext, Commit

\* The audit trail is complete however the handlers interleave and crash: the
\* approval, the vouching and the record are one transaction.
THEOREM AuditTrailKept == ValidationSpec => []AuditTrail
<1>1. ValidationInit => AuditInv
  BY DEF ValidationInit, InitRequests, NothingDecided, AuditInv, AuditTrail, OnlyAthletesWait,
      Idle
<1>2. AuditInv => AuditTrail
  BY DEF AuditInv
<1> QED BY <1>1, <1>2, AuditStep, ValidationTypes, PTL DEF ValidationSpec

\* Whoever changes the status of a judged athlete commits from no desk.
Reserved == \A a \in Athletes :
    verification[a] # "PENDING" /\ verification'[a] # verification[a] => desk' = desk

LEMMA RejectedStep == ASSUME ValidationTypeOK, [ValidationNext]_validationVars PROVE Reserved
<1>1. \/ \E r \in Requests : VouchFor(r)
      \/ desk' = desk
      \/ verification' = verification
  <2>1. ASSUME NEW h \in Handlers, Commit(h)
        PROVE  (\E r \in Requests : VouchFor(r)) \/ verification' = verification
    <3>1. CASE \E total \in Totals : EditCommit(h, total)
      BY <3>1 DEF EditCommit
    <3>2. CASE \E total \in Totals : RaiseCommit(h, total)
      <4>1. desk[h].decision.request \in Requests
        BY <3>2, DeskType DEF RaiseCommit, Decision
      <4> QED BY <3>2, <4>1 DEF RaiseCommit
    <3>3. CASE DecideCommit(h)
      <4>1. desk[h].decision.request \in Requests
        BY <3>3, DeskType DEF DecideCommit, Decision
      <4> QED BY <3>3, <4>1 DEF DecideCommit
    <3>4. CASE AdminCommit(h)
      BY <3>4 DEF AdminCommit
    <3> QED BY <2>1, <3>1, <3>2, <3>3, <3>4 DEF Commit
  <2> QED BY <2>1 DEF ValidationNext, Athlete, CreateRequest, CloseRequest, EditRead, Judge,
        ValidationQueue, OrphanQueue, DecideRead,
              RaiseRead, Crash, Administer, VerificationQueue,
              CoordinatorsManager, AppointForm, EditDialog, ToggleDialog,
          VerifyAthlete, Appoint, UpdateCoordinator, validationVars
<1> QED BY <1>1 DEF Reserved, VouchFor, Vouched, ValidationTypeOK

\* An athlete whom an admin has judged is judged again by an admin only: no
\* approval, however late it commits, turns REJECTED into VERIFIED.
THEOREM RejectedStays == ValidationSpec => NeverResurrected
<1>1. ValidationTypeOK /\ [ValidationNext]_validationVars => Reserved
  BY RejectedStep
<1> QED BY <1>1, ValidationTypes, PTL DEF ValidationSpec, NeverResurrected, Reserved

-----------------------------------------------------------------------------
(* What holds while requests are served in turn *)

Alone == \A g, h \in Handlers : desk[g] # Idle /\ desk[h] # Idle => g = h

\* What the handler in flight has read is still so when it commits.
StillTrue(h) ==
    /\ desk[h].pc = "edit" => request[desk[h].request].status \notin {"ABSENT", "CLOSED"}
    /\ desk[h].pc = "raise" => request[desk[h].decision.request].status = "ABSENT"
    /\ desk[h].pc = "decide" => request[desk[h].decision.request].status = "PENDING_VALIDATION"
    /\ desk[h].pc \in {"raise", "decide"} =>
            /\ desk[h].decision.version = validation[desk[h].decision.request].version
            /\ HasAuthority(desk[h].decision.author, VillageOf[desk[h].decision.request])

\* The version that waits has not been decided, and no row bears the name of a
\* coordinator who did not decide it.
Waiting(r) ==
    request[r].status \in {"ABSENT", "PENDING_VALIDATION"} =>
        /\ validation[r].validatedBy = NoValidator
        /\ \A d \in decisions : d.request = r => d.version # validation[r].version

\* Nobody decides a version that is still to be written.
NothingAhead == \A d \in decisions : d.version <= validation[d.request].version

SeqInv ==
    /\ Alone
    /\ \A h \in Handlers : StillTrue(h)
    /\ \A r \in Requests : Waiting(r)
    /\ NothingAhead
    /\ PublicIsVouched
    /\ DecidedOnce

\* The four parts that speak of rows and decisions only.
RowsInv == (\A r \in Requests : Waiting(r)) /\ NothingAhead /\ PublicIsVouched /\ DecidedOnce

\* A handler that starts finds all others idle, and what it reads is so.
LEMMA SeqStart ==
    ASSUME ValidationTypeOK, SeqInv, NEW h \in Handlers, Starts, ~overlapped',
           NEW d, desk' = [desk EXCEPT ![h] = d],
           UNCHANGED <<request, validation, coordinator, decisions>>,
           StillTrue(h)'
    PROVE  SeqInv'
<1>1. \A g \in Handlers : g # h => desk'[g] = Idle
  BY DEF Starts, Quiet, ValidationTypeOK
<1>2. Alone'
  BY <1>1 DEF Alone
<1>3. \A g \in Handlers : StillTrue(g)'
  BY <1>1 DEF StillTrue, Idle
<1>4. RowsInv'
  BY DEF RowsInv, SeqInv, Waiting, NothingAhead, PublicIsVouched, Public, Voucher, DecidedOnce
<1> QED BY <1>2, <1>3, <1>4 DEF SeqInv, RowsInv

\* A handler that ends leaves nobody in flight.
LEMMA SeqEnd ==
    ASSUME ValidationTypeOK, SeqInv, NEW h \in Handlers, desk[h] # Idle,
           desk' = [desk EXCEPT ![h] = Idle], RowsInv'
    PROVE  SeqInv'
<1>1. \A g \in Handlers : desk'[g] = Idle
  BY DEF SeqInv, Alone, ValidationTypeOK
<1> QED BY <1>1 DEF SeqInv, RowsInv, Alone, StillTrue, Idle

\* A step taken while nobody is in flight disturbs no one.
LEMMA SeqAtomic ==
    ASSUME Starts, ~overlapped', UNCHANGED desk, RowsInv' PROVE SeqInv'
BY DEF Starts, Quiet, SeqInv, RowsInv, Alone, StillTrue, Idle

\* A decision on a version that waits, by the handler that read it.
LEMMA DecisionKeepsRows ==
    ASSUME ValidationTypeOK, SeqInv, NEW d \in Decision,
           request[d.request].status \in {"ABSENT", "PENDING_VALIDATION"},
           d.version = validation[d.request].version,
           request' \in [Requests -> RequestRow],
           \A r \in Requests : r # d.request =>
                request'[r] = request[r] /\ validation'[r] = validation[r],
           request'[d.request].status \in {"OPEN", "REJECTED"},
           request'[d.request].status = "OPEN" => d.approve,
           validation'[d.request].version = validation[d.request].version,
           Voucher(d.request)' = d.author,
           decisions' = decisions \cup {d}
    PROVE  RowsInv'
<1>0. d.request \in Requests /\ d = [request |-> d.request, version |-> d.version,
                                     author |-> d.author, approve |-> d.approve]
  BY DEF Decision
<1>1. \A e \in decisions : e.request \in Requests
  BY DEF ValidationTypeOK, Decision
<1>2. \A e \in decisions : e.request = d.request => e.version # d.version
  BY <1>0 DEF SeqInv, Waiting
<1>3. ASSUME NEW r \in Requests PROVE Waiting(r)'
  <2>1. CASE r = d.request
    BY <2>1 DEF Waiting
  <2>2. CASE r # d.request
    BY <2>2 DEF Waiting, SeqInv
  <2> QED BY <2>1, <2>2
<1>4. NothingAhead'
  <2>1. ASSUME NEW e \in decisions' PROVE e.version <= validation'[e.request].version
    <3>1. CASE e = d
      BY <3>1, <1>0 DEF ValidationTypeOK, ValidationRow
    <3>2. CASE e \in decisions
      BY <3>2, <1>1 DEF SeqInv, NothingAhead
    <3> QED BY <3>1, <3>2
  <2> QED BY <2>1 DEF NothingAhead
<1>5. DecidedOnce'
  BY <1>2 DEF SeqInv, DecidedOnce
<1>6. PublicIsVouched'
  <2>1. ASSUME NEW r \in Requests, Public(r)'
        PROVE  [request |-> r, version |-> validation'[r].version,
                author |-> Voucher(r)', approve |-> TRUE] \in decisions'
    <3>1. CASE r = d.request
      <4>1. d.approve = TRUE
        BY <2>1, <3>1 DEF Decision, Public
      <4> QED BY <3>1, <4>1, <1>0
    <3>2. CASE r # d.request
      BY <2>1, <3>2 DEF SeqInv, PublicIsVouched, Public, Voucher
    <3> QED BY <3>1, <3>2
  <2> QED BY <2>1 DEF PublicIsVouched
<1> QED BY <1>3, <1>4, <1>5, <1>6 DEF RowsInv

LEMMA SeqStep ==
    ASSUME ValidationTypeOK, ValidationTypeOK', SeqInv, ~overlapped', [ValidationNext]_validationVars
    PROVE  SeqInv'
<1> USE ValidationAssumption
<1>0. RowsInv
  BY DEF SeqInv, RowsInv
<1>1. ASSUME NEW r \in Requests, NEW total \in Totals, CreateRequest(r, total) PROVE SeqInv'
  <2>1. RowsInv'
    BY <1>0, <1>1 DEF CreateRequest, Fresh, RowsInv, Waiting, NothingAhead, PublicIsVouched,
                      Public, Voucher,
                      DecidedOnce, ValidationTypeOK
  <2> QED BY <1>1, <2>1, SeqAtomic DEF CreateRequest
<1>2. ASSUME NEW r \in Requests, CloseRequest(r) PROVE SeqInv'
  <2>1. RowsInv'
    BY <1>0, <1>2 DEF CloseRequest, RowsInv, Waiting, NothingAhead, PublicIsVouched, Public,
        Voucher,
                      DecidedOnce, ValidationTypeOK, RequestRow
  <2> QED BY <1>2, <2>1, SeqAtomic DEF CloseRequest
<1>3. ASSUME NEW r \in Requests, NEW h \in Handlers, EditRead(h, r) PROVE SeqInv'
  <2>1. StillTrue(h)'
    BY <1>3 DEF EditRead, Editable, StillTrue, ValidationTypeOK
  <2> QED BY <1>3, <2>1, SeqStart DEF EditRead
<1>4. ASSUME NEW h \in Handlers, NEW total \in Totals, EditCommit(h, total) PROVE SeqInv'
  <2>0. PICK r \in Requests : r = desk[h].request
    BY <1>4, DeskType DEF EditCommit
  <2>1. /\ request' = [request EXCEPT ![r] = EditedRow(@, total)]
        /\ validation' = [validation EXCEPT ![r] = Edited(@)]
        /\ decisions' = decisions
    BY <1>4, <2>0 DEF EditCommit
  <2>2. /\ \A s \in Requests : s # r => request'[s] = request[s] /\ validation'[s] = validation[s]
        /\ request'[r].status = "PENDING_VALIDATION"
        /\ validation'[r] = [validatedBy |-> NoValidator, version |-> validation[r].version + 1]
    BY <2>1 DEF EditedRow, Edited, ValidationTypeOK, RequestRow
  <2>3. \A d \in decisions : d.version \in Nat /\ d.request \in Requests
    BY DEF ValidationTypeOK, Decision
  <2>4. \A s \in Requests : validation[s].version \in Nat
    BY DEF ValidationTypeOK, ValidationRow
  <2>5. NothingAhead'
    BY <1>0, <2>1, <2>2, <2>3, <2>4 DEF RowsInv, NothingAhead
  <2>6. \A s \in Requests : Waiting(s)'
    BY <1>0, <2>1, <2>2, <2>3, <2>4 DEF RowsInv, NothingAhead, Waiting
  <2>7. PublicIsVouched'
    BY <1>0, <2>1, <2>2 DEF RowsInv, PublicIsVouched, Public, Voucher
  <2>8. RowsInv'
    BY <1>0, <2>1, <2>5, <2>6, <2>7 DEF RowsInv, DecidedOnce
  <2> QED BY <1>4, <2>8, SeqEnd, DeskType DEF EditCommit
<1>5. ASSUME NEW h \in Handlers, NEW c \in Coordinators, NEW r \in Requests, RaiseRead(h, c, r)
      PROVE  SeqInv'
  <2>1. StillTrue(h)'
    BY <1>5 DEF RaiseRead, Fresh, StillTrue, HasAuthority, Covers, ValidationTypeOK
  <2> QED BY <1>5, <2>1, SeqStart DEF RaiseRead
<1>6. ASSUME NEW h \in Handlers, NEW total \in Totals, RaiseCommit(h, total) PROVE SeqInv'
  <2>0. PICK d \in Decision : d = desk[h].decision
    BY <1>6, DeskType DEF RaiseCommit
  <2>1. /\ d.request \in Requests /\ d.author \in Coordinators /\ d.approve
        /\ request[d.request].status = "ABSENT"
        /\ d.version = validation[d.request].version
    BY <1>6, <2>0, DeskType DEF RaiseCommit, Decision, SeqInv, StillTrue
  <2>2. /\ request' = [request EXCEPT ![d.request] =
                        [status |-> "OPEN", total |-> total, raised |-> 0]]
        /\ validation' = [validation EXCEPT ![d.request].validatedBy = d.author]
        /\ decisions' = decisions \cup {d}
    BY <1>6, <2>0 DEF RaiseCommit
  <2>3. Voucher(d.request)' = d.author
    BY <2>1, <2>2 DEF Voucher, ValidationTypeOK, ValidationRow
  <2>4. RowsInv'
    BY <2>1, <2>2, <2>3, DecisionKeepsRows DEF ValidationTypeOK, ValidationRow
  <2> QED BY <1>6, <2>4, SeqEnd, DeskType DEF RaiseCommit
<1>7. ASSUME NEW h \in Handlers, NEW r \in Requests, NEW author \in Coordinators \cup {Admin},
             NEW approve \in BOOLEAN, DecideRead(h, author, r, approve)
      PROVE  SeqInv'
  <2>1. StillTrue(h)'
    BY <1>7 DEF DecideRead, Undecided, StillTrue, HasAuthority, Covers, Orphaned,
        ValidationTypeOK
  <2> QED BY <1>7, <2>1, SeqStart DEF DecideRead
<1>8. ASSUME NEW h \in Handlers, DecideCommit(h) PROVE SeqInv'
  <2>0. PICK d \in Decision : d = desk[h].decision
    BY <1>8, DeskType DEF DecideCommit
  <2>1. /\ d.request \in Requests /\ d.author \in Coordinators
        /\ request[d.request].status = "PENDING_VALIDATION"
        /\ d.version = validation[d.request].version
    BY <1>8, <2>0, DeskType DEF DecideCommit, Decision, SeqInv, StillTrue
  <2>2. /\ request' = [request EXCEPT ![d.request].status = Outcome(d.approve)]
        /\ validation' = [validation EXCEPT ![d.request].validatedBy = d.author]
        /\ decisions' = decisions \cup {d}
    BY <1>8, <2>0 DEF DecideCommit, Decide
  <2>3. Voucher(d.request)' = d.author
    BY <2>1, <2>2 DEF Voucher, ValidationTypeOK, ValidationRow
  <2>4. request'[d.request].status = Outcome(d.approve)
    BY <2>1, <2>2 DEF ValidationTypeOK, RequestRow
  <2>5. validation'[d.request].version = validation[d.request].version
    BY <2>1, <2>2 DEF ValidationTypeOK, ValidationRow
  <2>6. /\ request'[d.request].status \in {"OPEN", "REJECTED"}
        /\ request'[d.request].status = "OPEN" => d.approve
    BY <2>4 DEF Outcome
  <2>7. RowsInv'
    BY <2>1, <2>2, <2>3, <2>5, <2>6, DecisionKeepsRows DEF ValidationTypeOK
  <2> QED BY <1>8, <2>7, SeqEnd, DeskType DEF DecideCommit
<1>9. ASSUME NEW h \in Handlers, AdminCommit(h) PROVE SeqInv'
  <2>0. PICK d \in Decision : d = desk[h].decision
    BY <1>9, DeskType DEF AdminCommit
  <2>1. /\ d.request \in Requests /\ d.author = Admin
        /\ request[d.request].status = "PENDING_VALIDATION"
        /\ d.version = validation[d.request].version
    BY <1>9, <2>0, DeskType DEF AdminCommit, Decision, SeqInv, StillTrue
  <2>2. /\ request' = [request EXCEPT ![d.request].status = Outcome(d.approve)]
        /\ validation' = validation
        /\ decisions' = decisions \cup {d}
    BY <1>9, <2>0 DEF AdminCommit, Decide
  <2>3. Voucher(d.request)' = d.author
    BY <2>1, <2>2 DEF Voucher, SeqInv, Waiting
  <2>4. request'[d.request].status = Outcome(d.approve)
    BY <2>1, <2>2 DEF ValidationTypeOK, RequestRow
  <2>5. RowsInv'
    BY <2>1, <2>2, <2>3, <2>4, DecisionKeepsRows DEF ValidationTypeOK, Outcome, Decision
  <2> QED BY <1>9, <2>5, SeqEnd, DeskType DEF AdminCommit
<1>10. ASSUME NEW h \in Handlers, Crash(h) PROVE SeqInv'
  <2>1. RowsInv'
    BY <1>0, <1>10 DEF Crash, RowsInv, Waiting, NothingAhead, PublicIsVouched, Public, Voucher,
                       DecidedOnce
  <2> QED BY <1>10, <2>1, SeqEnd DEF Crash
<1>11. ASSUME Administer PROVE SeqInv'
  <2>1. Starts /\ UNCHANGED <<request, validation, desk, decisions>>
    BY <1>11 DEF Administer, VerificationQueue, CoordinatorsManager,
         AppointForm, EditDialog, ToggleDialog,
            VerifyAthlete, Appoint,
          UpdateCoordinator
  <2>2. RowsInv'
    BY <1>0, <2>1 DEF RowsInv, Waiting, NothingAhead, PublicIsVouched, Public, Voucher,
        DecidedOnce
  <2> QED BY <2>1, <2>2, SeqAtomic
<1>12. CASE UNCHANGED validationVars
  BY <1>12 DEF validationVars, SeqInv, Alone, StillTrue, HasAuthority, Covers, Orphaned,
      Waiting, NothingAhead,
               PublicIsVouched, Public, Voucher, DecidedOnce
<1> QED BY <1>1, <1>2, <1>3, <1>4, <1>5, <1>6, <1>7, <1>8, <1>9, <1>10, <1>11, <1>12
        DEF ValidationNext, Athlete, Judge, ValidationQueue, OrphanQueue, Commit

\* Handlers that have not overlapped had not before either.
LEMMA OverlapsRemembered == ASSUME [ValidationNext]_validationVars, ~overlapped' PROVE ~overlapped
BY DEF ValidationNext, Athlete, CreateRequest, CloseRequest, EditRead, Judge, ValidationQueue,
       OrphanQueue, DecideRead, RaiseRead, Commit, EditCommit, RaiseCommit, DecideCommit, AdminCommit,
       Crash, Administer, VerificationQueue, CoordinatorsManager,
         AppointForm, EditDialog, ToggleDialog,
            VerifyAthlete, Appoint,
       UpdateCoordinator, Starts, validationVars

InTurn == ~overlapped => SeqInv

LEMMA SeqInvariant == ValidationSpec => [](ValidationTypeOK /\ InTurn)
<1>1. ValidationInit => InTurn
  BY DEF ValidationInit, InitRequests, NothingDecided, InTurn, SeqInv, Alone, StillTrue, Idle,
      Waiting,
         NothingAhead, PublicIsVouched, Public, DecidedOnce
<1>2. ValidationTypeOK /\ ValidationTypeOK' /\ InTurn /\ [ValidationNext]_validationVars => InTurn'
  BY SeqStep, OverlapsRemembered DEF InTurn
<1> QED BY <1>1, <1>2, ValidationTypes, PTL DEF ValidationSpec

\* While requests are served in turn, what sponsors see was approved in that very
\* version by the coordinator it names, or by an admin if it names none.
THEOREM OpenVouched == ValidationSpec => []VouchedInTurn
<1>1. ValidationTypeOK /\ InTurn => VouchedInTurn
  BY DEF InTurn, SeqInv, VouchedInTurn
<1> QED BY <1>1, SeqInvariant, PTL

\* While requests are served in turn, no version of one is decided twice.
THEOREM DecisionsStand == ValidationSpec => []DecidedInTurn
<1>1. ValidationTypeOK /\ InTurn => DecidedInTurn
  BY DEF InTurn, SeqInv, DecidedInTurn
<1> QED BY <1>1, SeqInvariant, PTL

\* While requests are served in turn, a decision is made with authority over the
\* village at the moment it takes effect, and centrally only where no one is local.
THEOREM AuthorityKept == ValidationSpec => AuthorityInTurn
<1>1. ASSUME ValidationTypeOK, InTurn, [ValidationNext]_validationVars
      PROVE  ~overlapped' => Entitled
  <2> SUFFICES ASSUME ~overlapped' PROVE Entitled
    OBVIOUS
  <2>0. SeqInv
    BY <1>1, OverlapsRemembered DEF InTurn
  <2>1. ASSUME NEW d \in decisions', d \notin decisions
        PROVE  \E h \in Handlers : desk[h].pc \in {"raise", "decide"} /\ desk[h].decision = d
    <3>1. ASSUME NEW h \in Handlers, Commit(h)
          PROVE  desk[h].pc \in {"raise", "decide"} /\ desk[h].decision = d
      BY <2>1, <3>1 DEF Commit, EditCommit, RaiseCommit, DecideCommit, AdminCommit, Decide
    <3> QED BY <1>1, <2>1, <3>1
        DEF ValidationNext, Athlete, CreateRequest, CloseRequest, EditRead, Judge,
                ValidationQueue, OrphanQueue, DecideRead, RaiseRead, Crash, Administer, VerificationQueue,
                CoordinatorsManager, AppointForm, EditDialog, ToggleDialog,
            VerifyAthlete, Appoint, UpdateCoordinator, validationVars
  <2>2. ASSUME NEW d \in decisions', d \notin decisions
        PROVE  IF d.author = Admin THEN ActiveIn(VillageOf[d.request]) = {}
                                   ELSE d.author \in ActiveIn(VillageOf[d.request])
    <3>1. PICK h \in Handlers : desk[h].pc \in {"raise", "decide"} /\ desk[h].decision = d
      BY <2>1, <2>2
    <3>2. HasAuthority(d.author, VillageOf[d.request]) /\ d \in Decision
      BY <1>1, <2>0, <3>1, DeskType DEF SeqInv, StillTrue
    <3> QED BY <3>2 DEF HasAuthority, Orphaned, Covers, ActiveIn, Decision
  <2> QED BY <2>2 DEF Entitled
<1> QED BY <1>1, SeqInvariant, PTL DEF ValidationSpec, AuthorityInTurn

\* While requests are served in turn, a withdrawn one is neither edited nor decided.
THEOREM WithdrawnStays == ValidationSpec => WithdrawnInTurn
<1>1. ASSUME ValidationTypeOK, InTurn, [ValidationNext]_validationVars
      PROVE  ~overlapped' => StaysWithdrawn
  <2> SUFFICES ASSUME ~overlapped' PROVE StaysWithdrawn
    OBVIOUS
  <2>0. SeqInv
    BY <1>1, OverlapsRemembered DEF InTurn
  <2>1. ASSUME NEW h \in Handlers, Commit(h) PROVE StaysWithdrawn
    <3>1. \A r \in Requests : request[r].status = "CLOSED" => request'[r] = request[r]
      BY <1>1, <2>0, <2>1, DeskType
          DEF Commit, EditCommit, RaiseCommit, DecideCommit, AdminCommit, Decide,
              SeqInv, StillTrue, ValidationTypeOK, Decision
    <3> QED BY <3>1 DEF StaysWithdrawn
  <2>2. ASSUME NEW r \in Requests, Athlete(r) PROVE StaysWithdrawn
    BY <1>1, <2>2 DEF Athlete, CreateRequest, CloseRequest, EditRead, Fresh, StaysWithdrawn,
                       ValidationTypeOK, RequestRow
  <2>3. CASE UNCHANGED request
    BY <2>3 DEF StaysWithdrawn
  <2> QED BY <1>1, <2>1, <2>2, <2>3 DEF ValidationNext, Judge, ValidationQueue, OrphanQueue,
              DecideRead, RaiseRead, Crash, Administer, VerificationQueue, CoordinatorsManager,
              AppointForm, EditDialog, ToggleDialog, VerifyAthlete, Appoint, UpdateCoordinator, validationVars
<1> QED BY <1>1, SeqInvariant, PTL DEF ValidationSpec, WithdrawnInTurn

-----------------------------------------------------------------------------
(* THE TWO TOGETHER: each keeps what the other promises, although neither  *)
(* knows of the other.                                                     *)

\* A step of the whole is a step of one of the two, or of neither.
LEMMA EitherSteps ==
    ASSUME [Next]_vars
    PROVE  \/ PaymentsNext /\ UNCHANGED validationOnly
           \/ ValidationNext /\ UNCHANGED paymentOnly
           \/ UNCHANGED vars
BY DEF Next, Sponsor, Pay, Validate, PaymentsNext

\* Both read what they share as the type it has.
LEMMA TypeStep == ASSUME TypeOK, [Next]_vars PROVE TypeOK'
<1> USE DEF TypeOK
<1>1. CASE PaymentsNext /\ UNCHANGED validationOnly
  <2>1. PaymentsTypeOK'
    BY <1>1, PaymentsTypeStep
  <2> QED BY <1>1, <2>1 DEF PaymentsTypeOK, ValidationTypeOK, validationOnly
<1>2. CASE ValidationNext /\ UNCHANGED paymentOnly
  <2>1. ValidationTypeOK'
    BY <1>2, ValidationTypeStep
  <2> QED BY <1>2, <2>1 DEF PaymentsTypeOK, ValidationTypeOK, paymentOnly, provider
<1>3. CASE UNCHANGED vars
  BY <1>3 DEF vars, paymentOnly, validationOnly, provider, PaymentsTypeOK, ValidationTypeOK
<1> QED BY <1>1, <1>2, <1>3, EitherSteps

\* Every table of the two components keeps its shape when both work on it.
THEOREM TypeCorrect == Spec => []TypeOK
<1> USE PaymentsAssumption, ValidationAssumption DEF TypeOK
<1>1. Init => TypeOK
  <2> SUFFICES ASSUME Init PROVE TypeOK
    OBVIOUS
  <2>1. request \in [Requests -> RequestRow]
    BY DEF Init, InitRequests, RequestRow, RequestStatus
  <2>2. ValidationTypeOK
    <3>1. validation \in [Requests -> ValidationRow]
      BY DEF Init, NothingDecided, ValidationRow
    <3>2. /\ verification \in [Athletes -> VerificationStatus]
          /\ coordinator \in [Coordinators -> CoordinatorRow]
      BY DEF Init, NothingDecided, VerificationStatus, CoordinatorRow
    <3> QED BY <2>1, <3>1, <3>2 DEF Init, NothingDecided, ValidationTypeOK, DeskState
  <2>3. PaymentsTypeOK
    <3>1. sponsorship \in [Sponsorships -> SponsorshipRow]
      BY DEF Init, NothingPaid, SponsorshipRow, PaymentStatus
    <3>2. handler \in [Handlers -> HandlerState]
      BY DEF Init, NothingPaid, HandlerState
    <3>3. notices \in [PaymentIds -> [Recipients -> Nat]]
      BY DEF Init, NothingPaid
    <3> QED BY <2>1, <3>1, <3>2, <3>3 DEF Init, NothingPaid, PaymentsTypeOK
  <2> QED BY <2>2, <2>3
<1> QED BY <1>1, TypeStep, PTL DEF Spec

-----------------------------------------------------------------------------
(* The money: what a coordinator raises, or an athlete edits, is never a   *)
(* request that has raised something already.                              *)

Born(r) == request[r].status # "ABSENT"

UnbornUnpaid == \A r \in Requests : ~Born(r) => request[r].raised = 0

\* A handler edits and decides a row there is; the id a coordinator raises a
\* request under has no row yet, and is nobody else's.
DesksKnow ==
    \A h \in Handlers :
        /\ desk[h].pc = "edit" => Born(desk[h].request)
        /\ desk[h].pc = "decide" => Born(desk[h].decision.request)
        /\ desk[h].pc = "raise" =>
            /\ ~Born(desk[h].decision.request)
            /\ \A g \in Handlers :
                    desk[g].pc = "raise" /\ desk[g].decision.request = desk[h].decision.request
                        => g = h

\* Money travels only for a request there was when its sponsor sent the form.
SponsorsKnow ==
    /\ \A s \in Sponsorships :
            /\ checkout[s] # "none" /\ RequestOf[s] \in Requests => Born(RequestOf[s])
            /\ sponsorship[s].hasOrder => checkout[s] = "returned"
    /\ \A h \in Handlers : handler[h] # Idle => sponsorship[handler[h].sponsorship].hasOrder

BornInv == UnbornUnpaid /\ DesksKnow /\ SponsorsKnow

\* A payment reaches no request that is not there.
LEMMA PaymentsKeepBorn ==
    ASSUME TypeOK, BornInv, PaymentsNext, UNCHANGED validationOnly PROVE BornInv'
<1> USE PaymentsAssumption DEF TypeOK
<1>1. ASSUME NEW r \in Requests
      PROVE  /\ Born(r)' <=> Born(r)
             /\ ~Born(r) => request'[r] = request[r]
  <2>1. ASSUME NEW h \in Handlers, CommitPaid(h) PROVE Born(RequestOf[handler[h].sponsorship])
                                                    \/ UNCHANGED request
    <3>1. PICK s \in Sponsorships : s = handler[h].sponsorship
      BY <2>1, BusyHandler DEF CommitPaid
    <3>2. handler[h] # Idle
      BY <2>1, BusyHandler DEF CommitPaid
    <3>3. RequestOf[s] \in Requests => Born(RequestOf[s])
      BY <3>1, <3>2 DEF BornInv, SponsorsKnow
    <3> QED BY <2>1, <3>1, <3>3 DEF CommitPaid
  <2>2. ASSUME NEW h \in Handlers, CommitPaid(h)
        PROVE  (Born(r)' <=> Born(r)) /\ (~Born(r) => request'[r] = request[r])
    <3>1. PICK s \in Sponsorships : s = handler[h].sponsorship
      BY <2>2, BusyHandler DEF CommitPaid
    <3>2. WithPayment(request[r], Amount[s]).status # "ABSENT"
      BY WithPaymentFields DEF PaymentsTypeOK, StatusAfterPayment
    <3>3. request'[r] = IF r = RequestOf[s] THEN WithPayment(request[r], Amount[s])
                                            ELSE request[r]
      BY <2>2, <3>1 DEF CommitPaid, PaymentsTypeOK
    <3> QED BY <2>1, <2>2, <3>1, <3>2, <3>3 DEF Born
  <2>3. ASSUME NEW q \in Requests, Withdraw(q)
        PROVE  (Born(r)' <=> Born(r)) /\ (~Born(r) => request'[r] = request[r])
    BY <2>3 DEF Withdraw, Born, PaymentsTypeOK, RequestRow
  <2>4. ASSUME NEW h \in Handlers, Handle(h), ~CommitPaid(h) PROVE UNCHANGED request
    BY <2>4 DEF Handle, VerifyPayment, ReceiveWebhook, IgnoreWebhook, CommitFailed, RollBack,
       NotifyAthlete, NotifySponsor, CrashHandler, tables
  <2>5. ASSUME NEW s \in Sponsorships, Checkout(s) PROVE UNCHANGED request
    BY <2>5 DEF Checkout, CheckSponsorable, InsertSponsorship, AttachOrder, CrashCheckout,
        tables
  <2>6. ASSUME NEW p \in PaymentIds, Provider(p) PROVE UNCHANGED request
    BY <2>6 DEF Provider, CapturePayment, FailPayment, tables
  <2> QED BY <2>2, <2>3, <2>4, <2>5, <2>6 DEF PaymentsNext, Born
<1>2. UnbornUnpaid'
  BY <1>1 DEF BornInv, UnbornUnpaid
<1>3. DesksKnow'
  <2>1. desk' = desk /\ ValidationTypeOK
    BY DEF validationOnly
  <2> QED BY <1>1, <2>1, DeskType DEF BornInv, DesksKnow, Decision
<1>4. SponsorsKnow'
  <2>1. ASSUME NEW s \in Sponsorships, CheckSponsorable(s) PROVE SponsorsKnow'
    <3>1. ~sponsorship[s].hasOrder
      BY <2>1 DEF CheckSponsorable, BornInv, SponsorsKnow
    <3>2. UNCHANGED <<sponsorship, request, handler>>
      BY <2>1 DEF CheckSponsorable, tables
    <3>3. \A q \in Sponsorships : q # s => checkout'[q] = checkout[q]
      BY <2>1 DEF CheckSponsorable, PaymentsTypeOK
    <3>4. RequestOf[s] \in Requests => Born(RequestOf[s])
      BY <2>1 DEF CheckSponsorable, Born
    <3>5. \A q \in Sponsorships :
                checkout'[q] # "none" /\ RequestOf[q] \in Requests => Born(RequestOf[q])
      BY <3>3, <3>4 DEF BornInv, SponsorsKnow
    <3>6. \A q \in Sponsorships : sponsorship[q].hasOrder => checkout'[q] = "returned"
      BY <3>1, <3>3 DEF BornInv, SponsorsKnow
    <3>7. \A h \in Handlers : handler[h] # Idle => sponsorship[handler[h].sponsorship].hasOrder
      BY DEF BornInv, SponsorsKnow
    <3> QED BY <3>2, <3>5, <3>6, <3>7 DEF SponsorsKnow, Born
  <2>2. ASSUME NEW s \in Sponsorships, InsertSponsorship(s) \/ AttachOrder(s) \/ CrashCheckout(s)
        PROVE  SponsorsKnow'
    <3>1. /\ \A q \in Sponsorships : q # s => checkout'[q] = checkout[q] /\ sponsorship'[q] = sponsorship[q]
          /\ checkout[s] \in {"inserting", "ordering"} /\ UNCHANGED handler
          /\ \/ checkout'[s] = "returned"
             \/ checkout'[s] # "none" /\ sponsorship'[s].hasOrder = sponsorship[s].hasOrder
          /\ sponsorship[s].hasOrder => sponsorship'[s].hasOrder
      <4>1. CASE InsertSponsorship(s)
        BY <4>1 DEF InsertSponsorship, PaymentsTypeOK, SponsorshipRow
      <4>2. CASE AttachOrder(s)
        BY <4>2 DEF AttachOrder, PaymentsTypeOK, SponsorshipRow
      <4>3. CASE CrashCheckout(s)
        BY <4>3 DEF CrashCheckout, tables, PaymentsTypeOK
      <4> QED BY <2>2, <4>1, <4>2, <4>3
    <3>2. ~sponsorship[s].hasOrder
      BY <3>1 DEF BornInv, SponsorsKnow
    <3>3. \A q \in Sponsorships : checkout'[q] # "none" <=> checkout[q] # "none"
      BY <3>1
    <3>4. \A q \in Sponsorships : sponsorship[q].hasOrder => sponsorship'[q].hasOrder
      BY <3>1
    <3>5. \A h \in Handlers : handler[h] # Idle => handler[h].sponsorship \in Sponsorships
      BY BusyHandler
    <3> QED BY <1>1, <3>1, <3>2, <3>3, <3>4, <3>5 DEF BornInv, SponsorsKnow
  <2>3. ASSUME NEW h \in Handlers, Handle(h) PROVE SponsorsKnow'
    <3>1. UNCHANGED checkout
      BY <2>3 DEF Handle, VerifyPayment, ReceiveWebhook, IgnoreWebhook, CommitPaid,
          CommitFailed,
         RollBack, NotifyAthlete, NotifySponsor, CrashHandler
    <3>2. \A s \in Sponsorships : sponsorship'[s].hasOrder = sponsorship[s].hasOrder
      <4>0. sponsorship \in [Sponsorships -> SponsorshipRow]
        BY DEF PaymentsTypeOK
      <4>1. CASE CommitPaid(h)
        <5>1. PICK s \in Sponsorships, p \in PaymentIds :
                    s = handler[h].sponsorship /\ p = handler[h].payment
          BY <4>1, BusyHandler DEF CommitPaid
        <5>2. sponsorship' = [sponsorship EXCEPT
                    ![s] = [@ EXCEPT !.paymentStatus = "PAID", !.paymentId = p]]
          BY <4>1, <5>1 DEF CommitPaid
        <5> QED BY <4>0, <5>2 DEF SponsorshipRow
      <4>2. CASE CommitFailed(h)
        <5>1. PICK s \in Sponsorships : s = handler[h].sponsorship
          BY <4>2, BusyHandler DEF CommitFailed
        <5>2. sponsorship' = [sponsorship EXCEPT ![s].paymentStatus = "FAILED"]
          BY <4>2, <5>1 DEF CommitFailed
        <5> QED BY <4>0, <5>2 DEF SponsorshipRow
      <4>3. CASE ~CommitPaid(h) /\ ~CommitFailed(h)
        BY <2>3, <4>3 DEF Handle, VerifyPayment, ReceiveWebhook, IgnoreWebhook, RollBack,
           NotifyAthlete, NotifySponsor, CrashHandler, tables
      <4> QED BY <4>1, <4>2, <4>3
    <3>3. ASSUME NEW g \in Handlers, handler'[g] # Idle
          PROVE  handler'[g].sponsorship \in Sponsorships /\ sponsorship[handler'[g].sponsorship].hasOrder
      <4>1. ASSUME handler[g] # Idle, handler'[g].sponsorship = handler[g].sponsorship
            PROVE  handler'[g].sponsorship \in Sponsorships /\ sponsorship[handler'[g].sponsorship].hasOrder
        BY <4>1, BusyHandler DEF BornInv, SponsorsKnow
      <4>2. ASSUME NEW s \in Sponsorships, NEW p \in PaymentIds, VerifyPayment(h, s, p)
            PROVE  \/ handler'[g] = handler[g]
                   \/ handler'[g].sponsorship = s /\ sponsorship[s].hasOrder
        BY <4>2 DEF VerifyPayment, PaymentsTypeOK
      <4>3. ASSUME NEW e \in Events, ReceiveWebhook(h, e)
            PROVE  \/ handler'[g] = handler[g]
                   \/ \E s \in Sponsorships : handler'[g].sponsorship = s /\ sponsorship[s].hasOrder
        BY <4>3 DEF ReceiveWebhook, PaymentsTypeOK, Events
      <4>4. ASSUME CommitPaid(h) \/ NotifyAthlete(h)
            PROVE  handler'[g].sponsorship = handler[g].sponsorship /\ handler[g] # Idle
        <5>1. handler[h] # Idle /\ handler[h].pc # "idle"
          BY <4>4, BusyHandler DEF CommitPaid, NotifyAthlete
        <5>2. handler \in [Handlers -> HandlerState]
          BY DEF PaymentsTypeOK
        <5>3. g # h => handler'[g] = handler[g]
          BY <4>4, <5>2 DEF CommitPaid, NotifyAthlete
        <5>4. g = h => handler'[g].sponsorship = handler[g].sponsorship
          BY <4>4, <5>1, <5>2, BusyHandler DEF CommitPaid, NotifyAthlete, HandlerState
        <5> QED BY <3>3, <5>1, <5>3, <5>4
      <4>5. ASSUME NEW e \in Events, IgnoreWebhook(h, e) PROVE handler'[g] = handler[g]
        BY <4>5 DEF IgnoreWebhook
      <4>6. ASSUME CommitFailed(h) \/ RollBack(h) \/ NotifySponsor(h) \/ CrashHandler(h)
            PROVE  handler'[g] = handler[g]
        BY <3>3, <4>6
            DEF CommitFailed, RollBack, NotifySponsor, CrashHandler, Acknowledge, PaymentsTypeOK
      <4> QED BY <2>3, <3>3, <4>1, <4>2, <4>3, <4>4, <4>5, <4>6 DEF Handle
    <3> QED BY <1>1, <3>1, <3>2, <3>3 DEF BornInv, SponsorsKnow
  <2>4. ASSUME NEW p \in PaymentIds, Provider(p) PROVE SponsorsKnow'
    BY <1>1, <2>4 DEF Provider, CapturePayment, FailPayment, tables, BornInv, SponsorsKnow
  <2>5. ASSUME NEW r \in Requests, Withdraw(r) PROVE SponsorsKnow'
    BY <1>1, <2>5 DEF Withdraw, BornInv, SponsorsKnow
  <2> QED BY <2>1, <2>2, <2>3, <2>4, <2>5 DEF PaymentsNext, Checkout
<1> QED BY <1>2, <1>3, <1>4 DEF BornInv
\* What validation writes never touches money: it writes a row anew only where
\* there was none, and no row disappears.
LEMMA ValidationSparesMoney ==
    ASSUME TypeOK, BornInv, ValidationNext, NEW r \in Requests
    PROVE  /\ Born(r) => Born(r)'
           /\ request'[r].raised = request[r].raised
<1> USE DEF TypeOK
<1>0. request \in [Requests -> RequestRow]
  BY DEF PaymentsTypeOK
<1> DEFINE Spared == (Born(r) => Born(r)') /\ request'[r].raised = request[r].raised
<1>1. ASSUME NEW q \in Requests, Athlete(q) PROVE Spared
  <2>1. ASSUME NEW total \in Totals, CreateRequest(q, total) PROVE Spared
    <3>1. ~Born(q) /\ request[q].raised = 0
      BY <2>1 DEF CreateRequest, Fresh, Born, BornInv, UnbornUnpaid
    <3> QED BY <1>0, <2>1, <3>1 DEF CreateRequest, Born, RequestRow
  <2>2. CASE CloseRequest(q)
    BY <1>0, <2>2 DEF CloseRequest, Born, RequestRow
  <2> QED BY <1>1, <2>1, <2>2 DEF Athlete, EditRead, Born
<1>2. ASSUME NEW h \in Handlers, Commit(h) PROVE Spared
  <2>1. ASSUME NEW total \in Totals, EditCommit(h, total) PROVE Spared
    BY <1>0, <2>1 DEF EditCommit, EditedRow, Born, RequestRow
  <2>2. ASSUME NEW total \in Totals, RaiseCommit(h, total) PROVE Spared
    <3>1. PICK d \in Decision : d = desk[h].decision
      BY <2>2, DeskType DEF RaiseCommit
    <3>2. d.request \in Requests /\ ~Born(d.request) /\ request[d.request].raised = 0
      BY <2>2, <3>1 DEF RaiseCommit, BornInv, DesksKnow, UnbornUnpaid, Decision
    <3>3. request' = [request EXCEPT ![d.request] = [status |-> "OPEN", total |-> total, raised |-> 0]]
      BY <2>2, <3>1 DEF RaiseCommit
    <3> QED BY <1>0, <3>2, <3>3 DEF Born
  <2>3. CASE DecideCommit(h) \/ AdminCommit(h)
    BY <1>0, <2>3 DEF DecideCommit, AdminCommit, Decide, Outcome, Born, RequestRow
  <2> QED BY <1>2, <2>1, <2>2, <2>3 DEF Commit
<1>3. ASSUME UNCHANGED request PROVE Spared
  BY <1>3 DEF Born
<1> QED BY <1>1, <1>2, <1>3 DEF ValidationNext, Judge, ValidationQueue, OrphanQueue, DecideRead,
        RaiseRead, Crash, Administer, VerificationQueue, CoordinatorsManager, AppointForm,
        EditDialog, ToggleDialog, VerifyAthlete, Appoint, UpdateCoordinator

\* Validation raises a request under an id nobody uses, and edits and decides
\* one there is.
LEMMA ValidationKeepsBorn ==
    ASSUME TypeOK, BornInv, ValidationNext, UNCHANGED paymentOnly PROVE BornInv'
<1> USE PaymentsAssumption DEF TypeOK
<1>0. \A r \in Requests : (Born(r) => Born(r)') /\ request'[r].raised = request[r].raised
  BY ValidationSparesMoney
<1>1. UnbornUnpaid'
  BY <1>0 DEF BornInv, UnbornUnpaid
<1>2. SponsorsKnow'
  BY <1>0 DEF BornInv, SponsorsKnow, paymentOnly
<1>3. DesksKnow'
  <2>0. desk \in [Handlers -> DeskState]
    BY DEF ValidationTypeOK
  \* Who stops at the desk leaves the others as they were, and so do the rows,
  \* except for the one just raised, which no one else was about to raise.
  <2>1. ASSUME NEW h \in Handlers, desk' = [desk EXCEPT ![h] = Idle],
               \A r \in Requests : Born(r)' =>
                    Born(r) \/ (desk[h].pc = "raise" /\ desk[h].decision.request = r)
        PROVE  DesksKnow'
    <3>1. ASSUME NEW g \in Handlers, g # h, desk[g].pc = "raise"
          PROVE  request'[desk[g].decision.request].status = "ABSENT"
      <4>1. desk[g].decision.request \in Requests /\ ~Born(desk[g].decision.request)
        BY <3>1, DeskType DEF Decision, BornInv, DesksKnow
      <4>2. ~(desk[h].pc = "raise" /\ desk[h].decision.request = desk[g].decision.request)
        BY <3>1 DEF BornInv, DesksKnow
      <4> QED BY <2>1, <4>1, <4>2 DEF Born
    <3>2. \A g \in Handlers : desk'[g] = IF g = h THEN Idle ELSE desk[g]
      BY <2>0, <2>1
    <3>3. \A g \in Handlers : /\ desk[g].pc = "edit" => desk[g].request \in Requests
                              /\ desk[g].pc = "decide" => desk[g].decision.request \in Requests
      BY DeskType DEF Decision
    <3> QED BY <1>0, <3>1, <3>2, <3>3 DEF DesksKnow, BornInv, Born, Idle
  \* Who sits down knows the row, or the id that is free.
  <2>2. ASSUME NEW h \in Handlers, NEW d, desk' = [desk EXCEPT ![h] = d], UNCHANGED request,
               d.pc = "edit" => Born(d.request),
               d.pc = "decide" => Born(d.decision.request),
               d.pc = "raise" => Fresh(d.decision.request)
        PROVE  DesksKnow'
    <3>1. \A g \in Handlers : desk'[g] = IF g = h THEN d ELSE desk[g]
      BY <2>0, <2>2
    <3>2. \A r : Born(r)' <=> Born(r)
      BY <2>2 DEF Born
    <3>3. d.pc = "raise" => /\ ~Born(d.decision.request)
                            /\ \A g \in Handlers :
                                    desk[g].pc = "raise" => desk[g].decision.request # d.decision.request
      BY <2>2 DEF Fresh, Born
    <3> QED BY <2>2, <3>1, <3>2, <3>3 DEF DesksKnow, BornInv
  <2>3. ASSUME NEW r \in Requests, NEW total \in Totals, CreateRequest(r, total) PROVE DesksKnow'
    <3>1. UNCHANGED desk /\ \A q \in Requests : q # r => (Born(q)' <=> Born(q))
      BY <2>3 DEF CreateRequest, Born, PaymentsTypeOK
    <3>2. \A h \in Handlers : desk[h].pc = "raise" => desk[h].decision.request # r
      BY <2>3 DEF CreateRequest, Fresh
    <3>3. \A h \in Handlers :
            /\ desk[h].pc = "edit" => desk[h].request \in Requests
            /\ desk[h].pc \in {"raise", "decide"} => desk[h].decision.request \in Requests
      BY DeskType DEF Decision
    <3> QED BY <1>0, <3>1, <3>2, <3>3 DEF DesksKnow, BornInv
  <2>4. ASSUME NEW r \in Requests, CloseRequest(r) PROVE DesksKnow'
    <3>1. UNCHANGED desk /\ \A q \in Requests : Born(q)' <=> Born(q)
      BY <2>4 DEF CloseRequest, Born, PaymentsTypeOK, RequestRow
    <3>2. \A h \in Handlers :
            /\ desk[h].pc = "edit" => desk[h].request \in Requests
            /\ desk[h].pc \in {"raise", "decide"} => desk[h].decision.request \in Requests
      BY DeskType DEF Decision
    <3> QED BY <3>1, <3>2 DEF DesksKnow, BornInv
  <2>5. ASSUME NEW h \in Handlers, NEW r \in Requests, EditRead(h, r) PROVE DesksKnow'
    <3>1. /\ desk' = [desk EXCEPT ![h] = [pc |-> "edit", request |-> r]]
          /\ UNCHANGED request /\ Born(r)
      BY <2>5 DEF EditRead, Born
    <3> QED BY <2>2, <3>1
  <2>6. ASSUME NEW r \in Requests, Judge(r) PROVE DesksKnow'
    <3>1. PICK g \in Handlers, author \in Coordinators \cup {Admin}, approve \in BOOLEAN :
                DecideRead(g, author, r, approve)
      BY <2>6 DEF Judge, ValidationQueue, OrphanQueue
    <3> DEFINE d == [pc |-> "decide", decision |-> [request |-> r, version |-> validation[r].version,
                                                    author |-> author, approve |-> approve]]
    <3>2. /\ desk' = [desk EXCEPT ![g] = d] /\ UNCHANGED request /\ Born(r)
          /\ d.pc = "decide" /\ d.decision.request = r
      BY <3>1 DEF DecideRead, Undecided, Born
    <3> HIDE DEF d
    <3> QED BY <2>2, <3>2
  <2>7. ASSUME NEW h \in Handlers, NEW c \in Coordinators, NEW r \in Requests, RaiseRead(h, c, r)
        PROVE  DesksKnow'
    <3> DEFINE d == [pc |-> "raise", decision |-> [request |-> r, version |-> validation[r].version,
                                                   author |-> c, approve |-> TRUE]]
    <3>1. /\ desk' = [desk EXCEPT ![h] = d] /\ UNCHANGED request /\ Fresh(r)
          /\ d.pc = "raise" /\ d.decision.request = r
      BY <2>7 DEF RaiseRead
    <3> HIDE DEF d
    <3> QED BY <2>2, <3>1
  <2>8. ASSUME NEW h \in Handlers, Commit(h) PROVE DesksKnow'
    <3>1. ASSUME NEW total \in Totals, EditCommit(h, total) PROVE DesksKnow'
      <4>1. \A q \in Requests : Born(q)' => Born(q)
        BY <3>1 DEF EditCommit, EditedRow, BornInv, DesksKnow, Born, PaymentsTypeOK
      <4> QED BY <2>1, <3>1, <4>1 DEF EditCommit, Born
    <3>2. ASSUME NEW total \in Totals, RaiseCommit(h, total) PROVE DesksKnow'
      <4>1. \A q \in Requests : Born(q)' => Born(q) \/ desk[h].decision.request = q
        BY <3>2 DEF RaiseCommit, Born, PaymentsTypeOK
      <4> QED BY <2>1, <3>2, <4>1 DEF RaiseCommit, Born
    <3>3. CASE DecideCommit(h) \/ AdminCommit(h)
      <4>1. \A q \in Requests : Born(q)' => Born(q)
        BY <3>3 DEF DecideCommit, AdminCommit, Decide, BornInv, DesksKnow, Born, PaymentsTypeOK
      <4> QED BY <2>1, <3>3, <4>1 DEF DecideCommit, AdminCommit, Born
    <3> QED BY <2>8, <3>1, <3>2, <3>3 DEF Commit
  <2>9. ASSUME NEW h \in Handlers, Crash(h) PROVE DesksKnow'
    BY <2>1, <2>9 DEF Crash, Born
  <2>10. CASE Administer
    BY <2>10 DEF Administer, VerificationQueue, CoordinatorsManager, AppointForm, EditDialog,
       ToggleDialog, VerifyAthlete, Appoint, UpdateCoordinator, BornInv, DesksKnow, Born
  <2> QED BY <2>3, <2>4, <2>5, <2>6, <2>7, <2>8, <2>9, <2>10 DEF ValidationNext, Athlete
<1> QED BY <1>1, <1>2, <1>3 DEF BornInv

\* Whoever pays, raises, edits or decides, money and rows keep their order.
LEMMA BornInvariant == Spec => [](TypeOK /\ BornInv)
<1>1. Init => BornInv
  BY DEF Init, InitRequests, NothingDecided, NothingPaid, BornInv, UnbornUnpaid, DesksKnow,
         SponsorsKnow, Idle
<1>2. TypeOK /\ BornInv /\ [Next]_vars => BornInv'
  <2> SUFFICES ASSUME TypeOK, BornInv, [Next]_vars PROVE BornInv'
    OBVIOUS
  <2>1. CASE UNCHANGED vars
    BY <2>1 DEF vars, paymentOnly, validationOnly, BornInv, UnbornUnpaid, DesksKnow,
        SponsorsKnow, Born
  <2> QED BY <2>1, EitherSteps, PaymentsKeepBorn, ValidationKeepsBorn
<1> QED BY <1>1, <1>2, TypeCorrect, PTL DEF Spec

\* Validation writes nothing the ledger is made of.
LEMMA LedgerApart == ASSUME Ledgered, UNCHANGED paymentOnly PROVE Ledgered'
BY DEF Ledgered, EventsAreTrue, HandlersAreHonest, PaidIsBacked, LedgerIsSound, CapturedFor,
       paymentOnly, provider

\* The ledger stays sound while requests are raised, edited, withdrawn and
\* decided under the payments' feet.
LEMMA CampaignLedger == Spec => []LedgerInv
<1>1. Init => Ledgered
  BY LedgerInit DEF Init
<1>2. TypeOK /\ TypeOK' /\ Ledgered /\ [Next]_vars => Ledgered'
  <2> SUFFICES ASSUME TypeOK, TypeOK', Ledgered, [Next]_vars PROVE Ledgered'
    OBVIOUS
  <2>1. CASE PaymentsNext
    BY <2>1, LedgerStep DEF TypeOK
  <2>2. CASE UNCHANGED vars
    BY <2>2, LedgerApart DEF vars
  <2> QED BY <2>1, <2>2, LedgerApart, EitherSteps
<1>3. TypeOK /\ Ledgered => LedgerInv
  BY DEF TypeOK, Ledgered, LedgerInv
<1> QED BY <1>1, <1>2, <1>3, TypeCorrect, PTL DEF Spec

\* A sponsorship shown as PAID is backed by its own capture and its transaction,
\* whatever became of its request meanwhile.
THEOREM CampaignBacked == Spec => []PaidIsBacked
<1>1. LedgerInv => PaidIsBacked
  BY DEF LedgerInv
<1> QED BY <1>1, CampaignLedger, PTL

\* What a request shows as raised is the sum of its PAID transactions: no edit,
\* decision or coordinator's request that starts at zero wipes out a payment.
THEOREM CampaignRaised == Spec => []RaisedIsLedger
<1>1. Init => RaisedInv
  <2>1. Init => \A r \in Requests : request[r].raised = 0
    BY DEF Init, InitRequests
  <2> QED BY <2>1, RaisedInit DEF Init, NothingPaid
<1>2. TypeOK /\ BornInv /\ RaisedInv /\ [Next]_vars => RaisedInv'
  <2> SUFFICES ASSUME TypeOK, BornInv, RaisedInv, [Next]_vars PROVE RaisedInv'
    OBVIOUS
  <2>1. CASE PaymentsNext
    BY <2>1, RaisedStep DEF TypeOK
  <2>2. ASSUME ValidationNext, UNCHANGED paymentOnly PROVE RaisedInv'
    BY <2>2, RaisedStutter, ValidationSparesMoney DEF RaisedInv, paymentOnly
  <2>3. CASE UNCHANGED vars
    BY <2>3, RaisedStutter DEF RaisedInv, vars, paymentOnly
  <2> QED BY <2>1, <2>2, <2>3, EitherSteps
<1>3. RaisedInv => RaisedIsLedger
  BY DEF RaisedInv
<1> QED BY <1>1, <1>2, <1>3, BornInvariant, PTL DEF Spec

\* Credited once in the whole as in the payments: a request that is edited,
\* decided or withdrawn meanwhile opens no second way to a credit.
THEOREM CampaignCreditOnce == Spec => []CreditedOnce
<1>1. Init => CreditInv
  BY DEF Init, NothingPaid, CreditInv, Paid
<1>2. TypeOK /\ CreditInv /\ [Next]_vars => CreditInv'
  <2> SUFFICES ASSUME TypeOK, CreditInv, [Next]_vars PROVE CreditInv'
    OBVIOUS
  <2>1. CASE PaymentsNext
    BY <2>1, CreditStep DEF TypeOK
  <2>2. CASE UNCHANGED paymentOnly
    BY <2>2, CreditQuiet DEF paymentOnly
  <2> QED BY <2>1, <2>2, EitherSteps DEF vars
<1>3. CreditInv => CreditedOnce
  BY DEF CreditInv, CreditedOnce
<1> QED BY <1>1, <1>2, <1>3, TypeCorrect, PTL DEF Spec

\* Athlete and sponsor are told of a payment at most once, and of none that the
\* ledger does not hold.
THEOREM CampaignNotices == Spec => []NoticesAreTrue
<1>1. Init => NoticeInv
  BY DEF Init, NothingPaid, NoticeInv, NoticesAreTrue, Credited, Telling, Idle
<1>2. TypeOK /\ TypeOK' /\ NoticeInv /\ [Next]_vars => NoticeInv'
  <2> SUFFICES ASSUME TypeOK, TypeOK', NoticeInv, [Next]_vars PROVE NoticeInv'
    OBVIOUS
  <2>1. CASE PaymentsNext
    BY <2>1, NoticeStep DEF TypeOK
  <2>2. CASE UNCHANGED paymentOnly
    BY <2>2 DEF paymentOnly, NoticeInv, NoticesAreTrue, Credited
  <2> QED BY <2>1, <2>2, EitherSteps DEF vars
<1>3. NoticeInv => NoticesAreTrue
  BY DEF NoticeInv
<1> QED BY <1>1, <1>2, <1>3, TypeCorrect, PTL DEF Spec

\* The whole implements the ledger: to it, validation is a stutter.
THEOREM CampaignRefinement == Spec => ImplementsLedger
<1>1. Init => Ledger!Init
  BY DEF Init, InitRequests, NothingPaid, Ledger!Init, Credited
<1>2. TypeOK /\ BornInv /\ LedgerInv /\ [Next]_vars => [Ledger!Next]_(Ledger!ledgerVars)
  <2> SUFFICES ASSUME TypeOK, BornInv, LedgerInv, [Next]_vars
               PROVE  [Ledger!Next]_(Ledger!ledgerVars)
    OBVIOUS
  <2>1. CASE PaymentsNext
    BY <2>1, LedgerSteps
  <2>2. ASSUME ValidationNext, UNCHANGED paymentOnly PROVE [Ledger!Next]_(Ledger!ledgerVars)
    <3>1. UNCHANGED RaisedByRequest
      BY <2>2, ValidationSparesMoney DEF RaisedByRequest
    <3> QED BY <2>2, <3>1, LedgerStutter
        DEF paymentOnly, provider, CapturedSet, CreditedSet, Credited
  <2>3. CASE UNCHANGED vars
    BY <2>3, LedgerStutter DEF vars, paymentOnly, provider, CapturedSet, CreditedSet,
       RaisedByRequest, Credited
  <2> QED BY <2>1, <2>2, <2>3, EitherSteps
<1> QED BY <1>1, <1>2, BornInvariant, CampaignLedger, PTL
    DEF Spec, ImplementsLedger, Ledger!Spec

-----------------------------------------------------------------------------
(* The trail: a payment never puts a request back among those that wait.   *)

LEMMA AuditApart ==
    ASSUME TypeOK, AuditInv, [PaymentsNext]_paymentVars, UNCHANGED validationOnly PROVE AuditInv'
<1>1. AuditTrail'
  BY AuditStutter DEF AuditInv, validationOnly
<1>2. ASSUME NEW r \in Requests, request'[r].status = "PENDING_VALIDATION"
      PROVE  request[r].status = "PENDING_VALIDATION"
  <2>1. ASSUME NEW s \in Sponsorships, request' = [request EXCEPT ![RequestOf[s]] =
                                                    WithPayment(@, Amount[s])]
        PROVE  request[r].status = "PENDING_VALIDATION"
    <3>1. WithPayment(request[r], Amount[s]).status # "PENDING_VALIDATION"
      BY WithPaymentFields, PaymentsAssumption DEF TypeOK, PaymentsTypeOK, StatusAfterPayment
    <3> QED BY <1>2, <2>1, <3>1 DEF TypeOK, PaymentsTypeOK
  <2>2. ASSUME NEW q \in Requests, request' = [request EXCEPT ![q].status = "CLOSED"]
        PROVE  request[r].status = "PENDING_VALIDATION"
    BY <1>2, <2>2 DEF TypeOK, PaymentsTypeOK, RequestRow
  <2> QED BY <1>2, <2>1, <2>2, RequestStep DEF TypeOK
<1> QED BY <1>1, <1>2 DEF AuditInv, OnlyAthletesWait, validationOnly

\* The audit trail is complete however payments and handlers interleave.
THEOREM CampaignAudit == Spec => []AuditTrail
<1>1. Init => AuditInv
  BY DEF Init, InitRequests, NothingDecided, AuditInv, AuditTrail, OnlyAthletesWait, Idle
<1>2. TypeOK /\ AuditInv /\ [Next]_vars => AuditInv'
  <2> SUFFICES ASSUME TypeOK, AuditInv, [Next]_vars PROVE AuditInv'
    OBVIOUS
  <2>1. CASE ValidationNext
    BY <2>1, AuditStep DEF TypeOK
  <2>2. CASE UNCHANGED vars
    BY <2>2, AuditStep DEF TypeOK, vars, validationOnly, validationVars
  <2> QED BY <2>1, <2>2, AuditApart, EitherSteps
<1>3. AuditInv => AuditTrail
  BY DEF AuditInv
<1> QED BY <1>1, <1>2, <1>3, TypeCorrect, PTL DEF Spec

\* An athlete an admin has judged is judged again by an admin only, also while
\* the athlete's requests are being paid for.
THEOREM CampaignRejectedStays == Spec => NeverResurrected
<1>1. TypeOK /\ [Next]_vars => Reserved
  <2> SUFFICES ASSUME TypeOK, [Next]_vars PROVE Reserved
    OBVIOUS
  <2>1. CASE ValidationNext
    BY <2>1, RejectedStep DEF TypeOK
  <2>2. CASE UNCHANGED validationOnly
    BY <2>2 DEF validationOnly, Reserved
  <2> QED BY <2>1, <2>2, EitherSteps DEF vars
<1> QED BY <1>1, TypeCorrect, PTL DEF Spec, NeverResurrected, Reserved
-----------------------------------------------------------------------------
(* In turn, with payments in between.  What a handler of the validation    *)
(* read may have been paid since, and a paid request is public without a   *)
(* decision; but no payment withdraws a request, or decides one, or sends  *)
(* one back to the queue, and of this the rest follows.                    *)

\* Nobody has decided the version of a request there is.
Unjudged(r) == \A d \in decisions : d.request = r => d.version # validation[r].version

StillOpen(h) ==
    /\ desk[h].pc = "edit" => request[desk[h].request].status \notin {"ABSENT", "CLOSED"}
    /\ desk[h].pc = "raise" => request[desk[h].decision.request].status = "ABSENT"
    /\ desk[h].pc = "decide" =>
            request[desk[h].decision.request].status \notin {"ABSENT", "CLOSED"}
    /\ desk[h].pc \in {"raise", "decide"} =>
            /\ desk[h].decision.version = validation[desk[h].decision.request].version
            /\ HasAuthority(desk[h].decision.author, VillageOf[desk[h].decision.request])
            /\ Unjudged(desk[h].decision.request)

WaitingUnjudged ==
    \A r \in Requests : request[r].status \in {"ABSENT", "PENDING_VALIDATION"} => Unjudged(r)

JudgedRows == WaitingUnjudged /\ NothingAhead /\ DecidedOnce

TurnInv == Alone /\ (\A h \in Handlers : StillOpen(h)) /\ JudgedRows

LEMMA TurnStart ==
    ASSUME ValidationTypeOK, TurnInv, NEW h \in Handlers, Starts, ~overlapped',
           NEW d, desk' = [desk EXCEPT ![h] = d],
           UNCHANGED <<request, validation, coordinator, decisions>>,
           StillOpen(h)'
    PROVE  TurnInv'
<1>1. \A g \in Handlers : g # h => desk'[g] = Idle
  BY DEF Starts, Quiet, ValidationTypeOK
<1>2. Alone'
  BY <1>1 DEF Alone
<1>3. \A g \in Handlers : StillOpen(g)'
  BY <1>1 DEF StillOpen, Idle
<1>4. JudgedRows'
  BY DEF TurnInv, JudgedRows, WaitingUnjudged, Unjudged, NothingAhead, DecidedOnce
<1> QED BY <1>2, <1>3, <1>4 DEF TurnInv

LEMMA TurnEnd ==
    ASSUME ValidationTypeOK, TurnInv, NEW h \in Handlers, desk[h] # Idle,
           desk' = [desk EXCEPT ![h] = Idle], JudgedRows'
    PROVE  TurnInv'
<1>1. \A g \in Handlers : desk'[g] = Idle
  BY DEF TurnInv, Alone, ValidationTypeOK
<1> QED BY <1>1 DEF TurnInv, Alone, StillOpen, Idle

LEMMA TurnAtomic ==
    ASSUME Starts, ~overlapped', UNCHANGED desk, JudgedRows' PROVE TurnInv'
BY DEF Starts, Quiet, TurnInv, Alone, StillOpen, Idle

\* The decision of a version nobody had decided.
LEMMA TurnDecision ==
    ASSUME ValidationTypeOK, JudgedRows, NEW d \in Decision, Unjudged(d.request),
           d.version = validation[d.request].version,
           \A r \in Requests : r # d.request => request'[r] = request[r],
           request'[d.request].status \in {"OPEN", "REJECTED"},
           \A r \in Requests : validation'[r].version = validation[r].version,
           decisions' = decisions \cup {d}
    PROVE  JudgedRows'
<1>0. d.request \in Requests /\ validation[d.request].version \in Nat
  BY DEF Decision, ValidationTypeOK, ValidationRow
<1>1. \A e \in decisions : e.request \in Requests
  BY DEF ValidationTypeOK, Decision
<1>2. WaitingUnjudged'
  <2> SUFFICES ASSUME NEW r \in Requests, request'[r].status \in {"ABSENT", "PENDING_VALIDATION"}
               PROVE  Unjudged(r)'
    BY DEF WaitingUnjudged
  <2>1. r # d.request
    OBVIOUS
  <2>2. Unjudged(r)
    BY <2>1 DEF JudgedRows, WaitingUnjudged
  <2> QED BY <2>1, <2>2 DEF Unjudged
<1>3. NothingAhead'
  <2>1. ASSUME NEW e \in decisions' PROVE e.version <= validation'[e.request].version
    <3>1. CASE e = d
      BY <1>0, <3>1
    <3>2. CASE e \in decisions
      BY <1>1, <3>2 DEF JudgedRows, NothingAhead
    <3> QED BY <3>1, <3>2
  <2> QED BY <2>1 DEF NothingAhead
<1>4. DecidedOnce'
  <2>1. \A e \in decisions : e.request = d.request => e.version # d.version
    BY DEF Unjudged
  <2> QED BY <2>1 DEF JudgedRows, DecidedOnce
<1> QED BY <1>2, <1>3, <1>4 DEF JudgedRows

LEMMA TurnValidation ==
    ASSUME ValidationTypeOK, TurnInv, ~overlapped', ValidationNext PROVE TurnInv'
<1> USE ValidationAssumption
<1>0. JudgedRows
  BY DEF TurnInv
<1>1. ASSUME NEW r \in Requests, NEW total \in Totals, CreateRequest(r, total) PROVE TurnInv'
  <2>1. JudgedRows'
    BY <1>0, <1>1 DEF CreateRequest, Fresh, JudgedRows, WaitingUnjudged, Unjudged,
                      NothingAhead, DecidedOnce, ValidationTypeOK
  <2> QED BY <1>1, <2>1, TurnAtomic DEF CreateRequest
<1>2. ASSUME NEW r \in Requests, CloseRequest(r) PROVE TurnInv'
  <2>1. JudgedRows'
    BY <1>0, <1>2 DEF CloseRequest, JudgedRows, WaitingUnjudged, Unjudged,
                      NothingAhead, DecidedOnce, ValidationTypeOK, RequestRow
  <2> QED BY <1>2, <2>1, TurnAtomic DEF CloseRequest
<1>3. ASSUME NEW r \in Requests, NEW h \in Handlers, EditRead(h, r) PROVE TurnInv'
  <2>1. StillOpen(h)'
    BY <1>3 DEF EditRead, Editable, StillOpen, ValidationTypeOK
  <2> QED BY <1>3, <2>1, TurnStart DEF EditRead
<1>4. ASSUME NEW h \in Handlers, NEW total \in Totals, EditCommit(h, total) PROVE TurnInv'
  <2>0. PICK r \in Requests : r = desk[h].request
    BY <1>4, DeskType DEF EditCommit
  <2>1. /\ request' = [request EXCEPT ![r] = EditedRow(@, total)]
        /\ validation' = [validation EXCEPT ![r] = Edited(@)]
        /\ decisions' = decisions
    BY <1>4, <2>0 DEF EditCommit
  <2>2. /\ \A s \in Requests : s # r => request'[s] = request[s] /\ validation'[s] = validation[s]
        /\ validation'[r].version = validation[r].version + 1
    BY <2>1 DEF Edited, ValidationTypeOK
  <2>3. /\ \A d \in decisions : d.version \in Nat /\ d.request \in Requests
        /\ \A s \in Requests : validation[s].version \in Nat
    BY DEF ValidationTypeOK, ValidationRow, Decision
  <2>4. NothingAhead'
    BY <1>0, <2>1, <2>2, <2>3 DEF JudgedRows, NothingAhead
  <2>5. WaitingUnjudged'
    BY <1>0, <2>1, <2>2, <2>3 DEF JudgedRows, NothingAhead, WaitingUnjudged, Unjudged
  <2>6. JudgedRows'
    BY <1>0, <2>1, <2>4, <2>5 DEF JudgedRows, DecidedOnce
  <2> QED BY <1>4, <2>6, TurnEnd, DeskType DEF EditCommit
<1>5. ASSUME NEW h \in Handlers, NEW c \in Coordinators, NEW r \in Requests, RaiseRead(h, c, r)
      PROVE  TurnInv'
  <2>1. Unjudged(r)
    BY <1>0, <1>5 DEF RaiseRead, Fresh, JudgedRows, WaitingUnjudged
  <2>2. StillOpen(h)'
    BY <1>5, <2>1 DEF RaiseRead, Fresh, StillOpen, Unjudged, HasAuthority, Covers,
        ValidationTypeOK
  <2> QED BY <1>5, <2>2, TurnStart DEF RaiseRead
<1>6. ASSUME NEW h \in Handlers, NEW author \in Coordinators \cup {Admin}, NEW r \in Requests,
             NEW approve \in BOOLEAN, DecideRead(h, author, r, approve)
      PROVE  TurnInv'
  <2>1. Unjudged(r)
    BY <1>0, <1>6 DEF DecideRead, Undecided, JudgedRows, WaitingUnjudged
  <2>2. StillOpen(h)'
    BY <1>6, <2>1 DEF DecideRead, Undecided, StillOpen, Unjudged, HasAuthority, Covers,
        Orphaned,
        ValidationTypeOK
  <2> QED BY <1>6, <2>2, TurnStart DEF DecideRead
<1>7. ASSUME NEW h \in Handlers,
             (\E total \in Totals : RaiseCommit(h, total)) \/ DecideCommit(h) \/ AdminCommit(h)
      PROVE  TurnInv'
  <2>0. PICK d \in Decision : d = desk[h].decision
    BY <1>7, DeskType DEF RaiseCommit, DecideCommit, AdminCommit
  <2>1. /\ d.request \in Requests /\ Unjudged(d.request)
        /\ d.version = validation[d.request].version
    BY <1>7, <2>0 DEF RaiseCommit, DecideCommit, AdminCommit, Decision, TurnInv, StillOpen
  <2>2. /\ decisions' = decisions \cup {d}
        /\ desk[h] # Idle /\ desk' = [desk EXCEPT ![h] = Idle]
    BY <1>7, <2>0, DeskType DEF RaiseCommit, DecideCommit, AdminCommit, Decide
  <2>3. \A r \in Requests : validation'[r].version = validation[r].version
    <3>1. \/ validation' = validation
          \/ validation' = [validation EXCEPT ![d.request].validatedBy = d.author]
      BY <1>7, <2>0 DEF RaiseCommit, DecideCommit, AdminCommit
    <3> QED BY <2>1, <3>1 DEF ValidationTypeOK, ValidationRow
  <2>4. /\ \A r \in Requests : r # d.request => request'[r] = request[r]
        /\ request'[d.request].status \in {"OPEN", "REJECTED"}
    <3>1. ASSUME NEW total \in Totals, RaiseCommit(h, total)
          PROVE  /\ \A r \in Requests : r # d.request => request'[r] = request[r]
                 /\ request'[d.request].status \in {"OPEN", "REJECTED"}
      <4>1. request' = [request EXCEPT ![d.request] =
                            [status |-> "OPEN", total |-> total, raised |-> 0]]
        BY <2>0, <3>1 DEF RaiseCommit
      <4> QED BY <2>1, <4>1 DEF ValidationTypeOK
    <3>2. CASE DecideCommit(h) \/ AdminCommit(h)
      <4>1. request' = [request EXCEPT ![d.request].status = Outcome(d.approve)]
        BY <2>0, <3>2 DEF DecideCommit, AdminCommit, Decide
      <4> QED BY <2>1, <4>1 DEF Outcome, ValidationTypeOK, RequestRow
    <3> QED BY <1>7, <3>1, <3>2
  <2>5. JudgedRows'
    BY <1>0, <2>1, <2>2, <2>3, <2>4, TurnDecision
  <2> QED BY <2>2, <2>5, TurnEnd
<1>8. ASSUME NEW h \in Handlers, Crash(h) PROVE TurnInv'
  <2>1. JudgedRows'
    BY <1>0, <1>8 DEF Crash, JudgedRows, WaitingUnjudged, Unjudged, NothingAhead, DecidedOnce
  <2> QED BY <1>8, <2>1, TurnEnd DEF Crash
<1>9. ASSUME Administer PROVE TurnInv'
  <2>1. Starts /\ UNCHANGED <<request, validation, desk, decisions>>
    BY <1>9 DEF Administer, VerificationQueue, CoordinatorsManager, AppointForm, EditDialog,
       ToggleDialog, VerifyAthlete, Appoint, UpdateCoordinator
  <2>2. JudgedRows'
    BY <1>0, <2>1 DEF JudgedRows, WaitingUnjudged, Unjudged, NothingAhead, DecidedOnce
  <2> QED BY <2>1, <2>2, TurnAtomic
<1> QED BY <1>1, <1>2, <1>3, <1>4, <1>5, <1>6, <1>7, <1>8, <1>9
        DEF ValidationNext, Athlete, Judge, ValidationQueue, OrphanQueue, Commit

\* A payment moves the status of a request that is there and not withdrawn, and
\* to one of the two that speak of money.
LEMMA PaymentMoves ==
    ASSUME TypeOK, BornInv, Sponsor \/ Pay, NEW r \in Requests
    PROVE  \/ request'[r].status = request[r].status
           \/ /\ request[r].status \notin {"ABSENT", "CLOSED"}
              /\ request'[r].status \in {"PARTIALLY_FULFILLED", "FULFILLED"}
<1> USE PaymentsAssumption DEF TypeOK
<1>1. ASSUME NEW h \in Handlers, CommitPaid(h)
      PROVE  \/ request'[r].status = request[r].status
             \/ /\ request[r].status \notin {"ABSENT", "CLOSED"}
                /\ request'[r].status \in {"PARTIALLY_FULFILLED", "FULFILLED"}
  <2>1. PICK s \in Sponsorships : s = handler[h].sponsorship
    BY <1>1, BusyHandler DEF CommitPaid
  <2>2. RequestOf[s] \in Requests => Born(RequestOf[s])
    <3>1. handler[h] # Idle
      BY <1>1, BusyHandler DEF CommitPaid
    <3> QED BY <2>1, <3>1 DEF BornInv, SponsorsKnow
  <2>3. request'[r] = IF r = RequestOf[s] THEN WithPayment(request[r], Amount[s])
                                          ELSE request[r]
    BY <1>1, <2>1 DEF CommitPaid, PaymentsTypeOK
  <2>4. WithPayment(request[r], Amount[s]).status \in
            IF request[r].status = "CLOSED" THEN {"CLOSED"}
                                            ELSE {"PARTIALLY_FULFILLED", "FULFILLED"}
    BY WithPaymentFields DEF PaymentsTypeOK, StatusAfterPayment
  <2> QED BY <2>2, <2>3, <2>4 DEF Born
<1>2. ASSUME NEW h \in Handlers, Handle(h), ~CommitPaid(h) PROVE UNCHANGED request
  BY <1>2 DEF Handle, VerifyPayment, ReceiveWebhook, IgnoreWebhook, CommitFailed, RollBack,
     NotifyAthlete, NotifySponsor, CrashHandler, tables
<1>3. ASSUME NEW s \in Sponsorships, Checkout(s) PROVE UNCHANGED request
  BY <1>3 DEF Checkout, CheckSponsorable, InsertSponsorship, AttachOrder, CrashCheckout, tables
<1>4. ASSUME NEW p \in PaymentIds, Provider(p) PROVE UNCHANGED request
  BY <1>4 DEF Provider, CapturePayment, FailPayment, tables
<1> QED BY <1>1, <1>2, <1>3, <1>4 DEF Sponsor, Pay

LEMMA TurnPayment ==
    ASSUME TypeOK, BornInv, TurnInv, Sponsor \/ Pay PROVE TurnInv'
<1>1. UNCHANGED <<validation, coordinator, desk, decisions>>
  BY DEF Sponsor, Pay, validationOnly
<1>2. JudgedRows'
  <2>1. WaitingUnjudged'
    BY <1>1, PaymentMoves DEF TurnInv, JudgedRows, WaitingUnjudged, Unjudged
  <2> QED BY <1>1, <2>1 DEF TurnInv, JudgedRows, NothingAhead, DecidedOnce
<1>3. ASSUME NEW h \in Handlers PROVE StillOpen(h)'
  <2>1. /\ desk[h].pc = "edit" => desk[h].request \in Requests
        /\ desk[h].pc \in {"raise", "decide"} => desk[h].decision.request \in Requests
    BY DeskType DEF TypeOK, Decision
  <2>2. StillOpen(h)
    BY DEF TurnInv
  <2>3. /\ desk[h].pc = "edit" => request'[desk[h].request].status \notin {"ABSENT", "CLOSED"}
        /\ desk[h].pc = "raise" => request'[desk[h].decision.request].status = "ABSENT"
        /\ desk[h].pc = "decide" =>
                request'[desk[h].decision.request].status \notin {"ABSENT", "CLOSED"}
    BY <2>1, <2>2, PaymentMoves DEF StillOpen
  <2> QED BY <1>1, <2>2, <2>3 DEF StillOpen, Unjudged, HasAuthority, Covers, Orphaned
<1> QED BY <1>1, <1>2, <1>3 DEF TurnInv, Alone

\* Handlers that have not overlapped had not before either.
LEMMA TurnsRemembered == ASSUME [Next]_vars, ~overlapped' PROVE ~overlapped
<1>1. CASE ValidationNext
  BY <1>1, OverlapsRemembered
<1>2. CASE UNCHANGED validationOnly
  BY <1>2 DEF validationOnly
<1> QED BY <1>1, <1>2, EitherSteps DEF vars

Turns == ~overlapped => TurnInv

LEMMA TurnInvariant == Spec => [](TypeOK /\ BornInv /\ Turns)
<1>1. Init => Turns
  BY DEF Init, InitRequests, NothingDecided, Turns, TurnInv, Alone, StillOpen, Idle, JudgedRows,
         WaitingUnjudged, Unjudged, NothingAhead, DecidedOnce
<1>2. TypeOK /\ BornInv /\ Turns /\ [Next]_vars => Turns'
  <2> SUFFICES ASSUME TypeOK, BornInv, Turns, [Next]_vars, ~overlapped' PROVE TurnInv'
    BY DEF Turns
  <2>0. TurnInv
    BY TurnsRemembered DEF Turns
  <2>1. CASE Sponsor \/ Pay
    BY <2>0, <2>1, TurnPayment
  <2>2. CASE Validate
    BY <2>0, <2>2, TurnValidation DEF Validate, TypeOK
  <2>3. CASE UNCHANGED vars
    BY <2>0, <2>3 DEF vars, validationOnly, TurnInv, Alone, StillOpen, HasAuthority, Covers,
        Orphaned, JudgedRows, WaitingUnjudged, Unjudged, NothingAhead, DecidedOnce
  <2> QED BY <2>1, <2>2, <2>3 DEF Next
<1> QED BY <1>1, <1>2, BornInvariant, PTL DEF Spec

\* While requests are served in turn, no version of one is decided twice, although
\* a payment may take it out of the queue under the hands of who decides it.
THEOREM CampaignDecisionsStand == Spec => []DecidedInTurn
<1>1. Turns => DecidedInTurn
  BY DEF Turns, TurnInv, JudgedRows, DecidedInTurn
<1> QED BY <1>1, TurnInvariant, PTL

\* While requests are served in turn, a withdrawn one stays withdrawn, also when
\* money that was on its way arrives for it.
THEOREM CampaignWithdrawnStays == Spec => WithdrawnInTurn
<1>1. TypeOK /\ BornInv /\ Turns /\ [Next]_vars => (~overlapped' => StaysWithdrawn)
  <2> SUFFICES ASSUME TypeOK, BornInv, Turns, [Next]_vars, ~overlapped' PROVE StaysWithdrawn
    OBVIOUS
  <2>0. TurnInv
    BY TurnsRemembered DEF Turns
  <2>1. CASE Sponsor \/ Pay
    BY <2>1, PaymentMoves DEF StaysWithdrawn
  <2>2. ASSUME NEW h \in Handlers, Commit(h) PROVE StaysWithdrawn
    <3>1. \A r \in Requests : request[r].status = "CLOSED" => request'[r] = request[r]
      BY <2>0, <2>2, DeskType
          DEF Commit, EditCommit, RaiseCommit, DecideCommit, AdminCommit, Decide,
              TurnInv, StillOpen, TypeOK, ValidationTypeOK, Decision
    <3> QED BY <3>1 DEF StaysWithdrawn
  <2>3. ASSUME NEW r \in Requests, Athlete(r) PROVE StaysWithdrawn
    BY <2>3 DEF Athlete, CreateRequest, CloseRequest, EditRead, Fresh, StaysWithdrawn,
                TypeOK, ValidationTypeOK, RequestRow
  <2>4. CASE UNCHANGED request
    BY <2>4 DEF StaysWithdrawn
  <2> QED BY <2>1, <2>2, <2>3, <2>4 DEF Next, Validate, ValidationNext, Judge, ValidationQueue,
        OrphanQueue, DecideRead, RaiseRead, Crash, Administer, VerificationQueue,
        CoordinatorsManager, AppointForm, EditDialog, ToggleDialog, VerifyAthlete, Appoint,
        UpdateCoordinator, vars
<1>2. TypeOK /\ BornInv /\ Turns /\ [Next]_vars => [~overlapped' => StaysWithdrawn]_validationVars
  BY <1>1
<1> QED BY <1>2, TurnInvariant, PTL DEF Spec, WithdrawnInTurn

\* While requests are served in turn, a decision is made with authority over the
\* village at the moment it takes effect, however much was paid since it was read.
THEOREM CampaignAuthorityKept == Spec => AuthorityInTurn
<1>1. TypeOK /\ BornInv /\ Turns /\ [Next]_vars => (~overlapped' => Entitled)
  <2> SUFFICES ASSUME TypeOK, BornInv, Turns, [Next]_vars, ~overlapped',
                      NEW d \in decisions', d \notin decisions
               PROVE  IF d.author = Admin THEN ActiveIn(VillageOf[d.request]) = {}
                                          ELSE d.author \in ActiveIn(VillageOf[d.request])
    BY DEF Entitled
  <2>0. TurnInv
    BY TurnsRemembered DEF Turns
  <2>1. ValidationNext
    BY EitherSteps DEF vars, validationOnly
  <2>2. PICK h \in Handlers : Commit(h)
    BY <2>1 DEF ValidationNext, Athlete, CreateRequest, CloseRequest, EditRead, Judge,
       ValidationQueue, OrphanQueue, DecideRead, RaiseRead, Crash, Administer, VerificationQueue,
       CoordinatorsManager, AppointForm, EditDialog, ToggleDialog, VerifyAthlete, Appoint,
       UpdateCoordinator
  <2>3. desk[h].pc \in {"raise", "decide"} /\ desk[h].decision = d
    BY <2>2 DEF Commit, EditCommit, RaiseCommit, DecideCommit, AdminCommit, Decide
  <2>4. HasAuthority(d.author, VillageOf[d.request]) /\ d \in Decision
    BY <2>0, <2>3, DeskType DEF TurnInv, StillOpen, TypeOK
  <2> QED BY <2>4 DEF HasAuthority, Orphaned, Covers, ActiveIn, Decision
<1>2. TypeOK /\ BornInv /\ Turns /\ [Next]_vars => [~overlapped' => Entitled]_validationVars
  BY <1>1
<1> QED BY <1>2, TurnInvariant, PTL DEF Spec, AuthorityInTurn
=============================================================================
