\* A stale payment.failed against a PAID sponsorship.
SPECIFICATION PaymentsSpec
CONSTANTS
    s1 = s1  s2 = s2  p1 = p1  p2 = p2  p3 = p3  r1 = r1  h1 = h1  h2 = h2
    Sponsorships = {s1}
    PaymentIds = {p1, p2}
    Requests = {r1}
    Handlers = {h1, h2}
    NoRequest = NoRequest
    NoPayment = NoPayment
    RequestOf <- OneSponsorship_RequestOf
    OrderOf <- OneSponsorship_OrderOf
    Amount <- OneSponsorship_Amount
    Totals = {2}
    LateCapture = FALSE
PROPERTIES
    PaidIsFinal
CHECK_DEADLOCK FALSE
