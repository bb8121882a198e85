\* Two handlers at a time, a request of an athlete and one of an institution.
SPECIFICATION FairValidation
CONSTANTS
    r1 = r1  r2 = r2  a1 = a1  v1 = v1
    Requests = {r1, r2}
    Athletes = {a1}
    Coordinators = {c1}
    Villages = {v1}
    Handlers = {h1, h2}
    NoAthlete = NoAthlete
    NoValidator = NoValidator
    Admin = Admin
    VillageOf <- Institution_VillageOf
    AthleteOf <- Institution_AthleteOf
    Totals = {1}
    MaxEdits = 1
INVARIANTS
    ValidationTypeOK
    AuditTrail
    VouchedInTurn
    DecidedInTurn
PROPERTIES
    NeverResurrected
    WithdrawnInTurn
    PendingIsDecided
CHECK_DEADLOCK FALSE
