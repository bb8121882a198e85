\* Two sponsorships of one request, three payments, two handlers at a time.
SPECIFICATION PaymentsSpec
CONSTANTS
    s1 = s1  s2 = s2  p1 = p1  p2 = p2  p3 = p3  r1 = r1  h1 = h1  h2 = h2
    Sponsorships = {s1, s2}
    PaymentIds = {p1, p2, p3}
    Requests = {r1}
    Handlers = {h1, h2}
    NoRequest = NoRequest
    NoPayment = NoPayment
    RequestOf <- Two_RequestOf
    OrderOf <- Two_OrderOf
    Amount <- Two_Amount
    Totals = {3}
    LateCapture = TRUE
SYMMETRY Symmetry
INVARIANTS
    PaymentsTypeOK
    RaisedIsLedger
    PaidIsBacked
    LedgerIsSound
    CreditedOnce
    NoticesAreTrue
    FundingStatusIsTrue
PROPERTIES
    ClosedIsFinal
    ImplementsLedger
CHECK_DEADLOCK FALSE
