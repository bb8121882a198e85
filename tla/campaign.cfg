\* Payments and validation of one request, side by side.
SPECIFICATION Spec
CONSTANTS
    r1 = r1  s1 = s1  p1 = p1  a1 = a1  c1 = c1  v1 = v1  h1 = h1
    Requests = {r1}
    Totals = {2}
    Handlers = {h1}
    Sponsorships = {s1}
    PaymentIds = {p1}
    NoRequest = NoRequest
    NoPayment = NoPayment
    RequestOf <- MC_RequestOf
    OrderOf <- MC_OrderOf
    Amount <- MC_Amount
    LateCapture = FALSE
    Athletes = {a1}
    Coordinators = {c1}
    Villages = {v1}
    NoAthlete = NoAthlete
    NoValidator = NoValidator
    Admin = Admin
    VillageOf <- MC_VillageOf
    AthleteOf <- MC_AthleteOf
    MaxEdits = 1
PROPERTIES
    ImplementsLedger
    CapturedIsRecorded
CHECK_DEADLOCK FALSE
