------------------------- MODULE RequestValidation -------------------------
(***************************************************************************)
(* How a request is raised, edited, withdrawn and vouched for.             *)
(*                                                                         *)
(*   routes/athletes.ts               POST and PUT /me/requests            *)
(*   routes/coordinators.ts           POST /me/requests                    *)
(*   services/coordinator.service.ts  decideRequest, decideRequestAsAdmin  *)
(*   routes/admin.ts                  verifications, coordinators          *)
(*                                                                         *)
(* A handler that judges a row before it writes is two steps: the reads,   *)
(* which are separate statements, and the commit.  The commit updates the  *)
(* row by its id alone, whatever became of it since the read.  Handlers    *)
(* that write without having judged anything are one step.                 *)
(*                                                                         *)
(* overlapped records whether a handler ever started while another was in  *)
(* flight.  The server serves requests concurrently and nothing prevents   *)
(* it: what holds only while it is FALSE is an intention of the code, and  *)
(* the runs show which ones the interleavings break.                       *)
(***************************************************************************)
EXTENDS RequestTable

CONSTANTS
    Athletes,       \* athlete profiles
    Coordinators,   \* users who may be appointed coordinator
    Villages,       \* locations of level VILLAGE
    NoAthlete,      \* request.athleteId is null: the beneficiary is an institution
    NoValidator,    \* request.validatedById is null
    Admin,          \* the author of what an admin decides
    VillageOf,      \* request.villageId
    AthleteOf,      \* request.athleteId
    MaxEdits        \* bound: edits of one request

VARIABLES
    validation,     \* the Request rows: who validated them, and their edits
    verification,   \* athleteProfile.verificationStatus
    coordinator,    \* the CoordinatorProfile table
    records,        \* the VerificationRecord table
    desk,           \* handlers in flight
    decisions,      \* history: who decided what, having read which version
    overlapped      \* history: did two handlers ever run at a time?

validationVars ==
    <<request, validation, verification, coordinator, records, desk, decisions, overlapped>>

-----------------------------------------------------------------------------
VerificationStatus == {"PENDING", "VERIFIED", "REJECTED", "INFO_REQUESTED"}

ValidationRow == [validatedBy: Coordinators \cup {NoValidator}, version: Nat]
CoordinatorRow == [exists: BOOLEAN, isActive: BOOLEAN, villages: SUBSET Villages]
Record == [athlete: Athletes \cup {NoAthlete},
           reviewer: Coordinators \cup {Admin}, decision: VerificationStatus]
Decision == [request: Requests, version: Nat,
             author: Coordinators \cup {Admin}, approve: BOOLEAN]
DeskState == {Idle} \cup [pc: {"edit"}, request: Requests]
                    \cup [pc: {"raise"}, decision: {d \in Decision : d.author # Admin /\ d.approve}]
                    \cup [pc: {"decide"}, decision: Decision]

ASSUME ValidationAssumption ==
    /\ NoAthlete \notin Athletes
    /\ NoValidator \notin Coordinators
    /\ Admin \notin Coordinators
    /\ VillageOf \in [Requests -> Villages]
    /\ AthleteOf \in [Requests -> Athletes \cup {NoAthlete}]
    /\ Totals \subseteq Nat
    /\ MaxEdits \in Nat

ValidationTypeOK ==
    /\ request \in [Requests -> RequestRow]
    /\ validation \in [Requests -> ValidationRow]
    /\ verification \in [Athletes -> VerificationStatus]
    /\ coordinator \in [Coordinators -> CoordinatorRow]
    /\ records \subseteq Record
    /\ desk \in [Handlers -> DeskState]
    /\ decisions \subseteq Decision
    /\ overlapped \in BOOLEAN

-----------------------------------------------------------------------------
Quiet == \A h \in Handlers : desk[h] = Idle

\* A handler starts: do others run?
Starts == overlapped' = IF Quiet THEN overlapped ELSE TRUE

\* requireCoordinator and the village scope: an active profile that covers v.
Covers(c, v) ==
    coordinator[c].exists /\ coordinator[c].isActive /\ v \in coordinator[c].villages

\* No active coordinator covers the village: the admins are its fallback.
NoProfile(v) ==                 \* seeded bug: inactive coordinators count too
    \A c \in Coordinators : ~(coordinator[c].exists /\ v \in coordinator[c].villages)
Orphaned(v) == \A c \in Coordinators : ~Covers(c, v)

\* What an approval does to the athlete of the request: only a PENDING profile
\* is upgraded.
Resurrecting(status) == "VERIFIED"      \* seeded bug: not conditional
Vouched(status) == IF status = "PENDING" THEN "VERIFIED" ELSE status

VouchFor(r) ==
    verification' = [a \in Athletes |->
        IF a = AthleteOf[r] THEN Vouched(verification[a]) ELSE verification[a]]

\* verificationRecord.create.
Unaudited(athlete, reviewer, decision) == records    \* seeded bug: no audit row
Audited(athlete, reviewer, decision) ==
    records \cup {[athlete |-> athlete, reviewer |-> reviewer, decision |-> decision]}

\* An id that no row has and no handler is about to insert.
Fresh(r) ==
    /\ request[r].status = "ABSENT"
    /\ \A h \in Handlers : desk[h].pc = "raise" => desk[h].decision.request # r

\* Seeded bug: the validator survives the edit.
KeepValidator(row) == [row EXCEPT !.version = @ + 1]
\* An edit clears who validated the row.
Edited(row) == [validatedBy |-> NoValidator, version |-> row.version + 1]

RecreatedRow(row, total) ==     \* seeded bug: the row is written anew
    [status |-> "PENDING_VALIDATION", total |-> total, raised |-> 0]
EditedRow(row, total) == [row EXCEPT !.status = "PENDING_VALIDATION", !.total = total]

EditsUnderWay(r) == {h \in Handlers : desk[h].pc = "edit" /\ desk[h].request = r}

-----------------------------------------------------------------------------
(* The athlete *)

\* POST /athletes/me/requests: the request waits for the coordinator.
CreateRequest(r, total) ==
    /\ Starts
    /\ AthleteOf[r] \in Athletes
    /\ Fresh(r)
    /\ request' = [request EXCEPT ![r] =
            [status |-> "PENDING_VALIDATION", total |-> total, raised |-> 0]]
    /\ UNCHANGED <<validation, verification, coordinator, records, desk, decisions>>

\* PUT /athletes/me/requests/:id with status CLOSED: always allowed.
CloseRequest(r) ==
    /\ Starts
    /\ AthleteOf[r] \in Athletes
    /\ request[r].status # "ABSENT"
    /\ request' = [request EXCEPT ![r].status = "CLOSED"]
    /\ UNCHANGED <<validation, verification, coordinator, records, desk, decisions>>

\* PUT with anything else: refused on a closed and on a funded request.
AnyStatus(status) == TRUE       \* seeded bug: REQUEST_CLOSED is not checked
Editable(status) == status # "CLOSED"

EditRead(h, r) ==
    /\ Starts
    /\ desk[h] = Idle
    /\ AthleteOf[r] \in Athletes
    /\ request[r].status # "ABSENT"
    /\ Editable(request[r].status)
    /\ request[r].raised = 0
    /\ validation[r].version + Cardinality(EditsUnderWay(r)) < MaxEdits
    /\ desk' = [desk EXCEPT ![h] = [pc |-> "edit", request |-> r]]
    /\ UNCHANGED <<request, validation, verification, coordinator, records, decisions>>

EditCommit(h, total) ==
    LET r == desk[h].request IN
    /\ desk[h].pc = "edit"
    /\ request' = [request EXCEPT ![r] = EditedRow(@, total)]
    /\ validation' = [validation EXCEPT ![r] = Edited(@)]
    /\ desk' = [desk EXCEPT ![h] = Idle]
    /\ UNCHANGED <<verification, coordinator, records, decisions, overlapped>>

-----------------------------------------------------------------------------
(* The coordinator *)

\* POST /coordinators/me/requests: for someone of a village they cover.
RaiseRead(h, c, r) ==
    /\ Starts
    /\ desk[h] = Idle
    /\ Covers(c, VillageOf[r])
    /\ Fresh(r)
    /\ desk' = [desk EXCEPT ![h] = [pc |-> "raise", decision |->
            [request |-> r, version |-> validation[r].version, author |-> c, approve |-> TRUE]]]
    /\ UNCHANGED <<request, validation, verification, coordinator, records, decisions>>

\* The request is OPEN on arrival, the athlete vouched for, the audit row written.
RaiseCommit(h, total) ==
    LET d == desk[h].decision
        r == d.request IN
    /\ desk[h].pc = "raise"
    /\ request' = [request EXCEPT ![r] = [status |-> "OPEN", total |-> total, raised |-> 0]]
    /\ validation' = [validation EXCEPT ![r].validatedBy = d.author]
    /\ VouchFor(r)
    /\ records' = Audited(AthleteOf[r], d.author, "VERIFIED")
    /\ decisions' = decisions \cup {d}
    /\ desk' = [desk EXCEPT ![h] = Idle]
    /\ UNCHANGED <<coordinator, overlapped>>

\* decideRequest and decideRequestAsAdmin up to their transaction: the author
\* has authority over the village, and the request is still to be decided.
HasAuthority(author, v) == IF author = Admin THEN Orphaned(v) ELSE Covers(author, v)

NotClosed(status) == status \notin {"ABSENT", "CLOSED"} \* seeded bug: no ALREADY_DECIDED
Undecided(status) == status = "PENDING_VALIDATION"

\* Coordinator and request are read one after the other, taken as one read.
DecideRead(h, author, r, approve) ==
    /\ Starts
    /\ desk[h] = Idle
    /\ HasAuthority(author, VillageOf[r])
    /\ Undecided(request[r].status)
    /\ desk' = [desk EXCEPT ![h] = [pc |-> "decide", decision |->
            [request |-> r, version |-> validation[r].version,
             author |-> author, approve |-> approve]]]
    /\ UNCHANGED <<request, validation, verification, coordinator, records, decisions>>

OutcomeWord(approve) == IF approve THEN "APPROVED" ELSE "REJECTED" \* seeded bug: no such status
Outcome(approve) == IF approve THEN "OPEN" ELSE "REJECTED"

Decide(d) ==
    /\ request' = [request EXCEPT ![d.request].status = Outcome(d.approve)]
    /\ decisions' = decisions \cup {d}

\* decideRequest's transaction: names the coordinator on the row and, when it
\* approves an athlete's request, vouches for the athlete.
DecideCommit(h) ==
    LET d == desk[h].decision
        a == AthleteOf[d.request] IN
    /\ desk[h].pc = "decide" /\ d.author # Admin
    /\ Decide(d)
    /\ validation' = [validation EXCEPT ![d.request].validatedBy = d.author]
    /\ \/ /\ d.approve /\ a \in Athletes
          /\ VouchFor(d.request)
          /\ records' = Audited(a, d.author, "VERIFIED")
       \/ /\ ~(d.approve /\ a \in Athletes)
          /\ UNCHANGED <<verification, records>>
    /\ desk' = [desk EXCEPT ![h] = Idle]
    /\ UNCHANGED <<coordinator, overlapped>>

\* decideRequestAsAdmin's transaction: validatedById is left as it is, and the
\* record says the athlete was not vouched for.
AdminCommit(h) ==
    LET d == desk[h].decision
        a == AthleteOf[d.request] IN
    /\ desk[h].pc = "decide" /\ d.author = Admin
    /\ Decide(d)
    /\ records' = IF d.approve /\ a \in Athletes
                  THEN Audited(a, Admin, "PENDING") ELSE records
    /\ desk' = [desk EXCEPT ![h] = Idle]
    /\ UNCHANGED <<validation, verification, coordinator, overlapped>>

-----------------------------------------------------------------------------
(* The admin *)

\* POST /admin/verifications/athlete/:id, whatever the status was before.
VerifyAthlete(a, decision) ==
    /\ Starts
    /\ verification' = [verification EXCEPT ![a] = decision]
    /\ records' = Audited(a, Admin, decision)
    /\ UNCHANGED <<request, validation, coordinator, desk, decisions>>

\* POST /admin/coordinators.
Appoint(c, villages) ==
    /\ Starts
    /\ ~coordinator[c].exists
    /\ coordinator' = [coordinator EXCEPT ![c] =
            [exists |-> TRUE, isActive |-> TRUE, villages |-> villages]]
    /\ UNCHANGED <<request, validation, verification, records, desk, decisions>>

\* PATCH /admin/coordinators/:id: deactivate, reactivate, replace the villages.
UpdateCoordinator(c, isActive, villages) ==
    /\ Starts
    /\ coordinator[c].exists
    /\ coordinator' = [coordinator EXCEPT ![c] =
            [exists |-> TRUE, isActive |-> isActive, villages |-> villages]]
    /\ UNCHANGED <<request, validation, verification, records, desk, decisions>>

\* The server stops between the reads and the commit.
Crash(h) ==
    /\ desk[h] # Idle
    /\ desk' = [desk EXCEPT ![h] = Idle]
    /\ UNCHANGED <<request, validation, verification, coordinator, records, decisions, overlapped>>

-----------------------------------------------------------------------------
InitRequests ==
    request = [r \in Requests |-> [status |-> "ABSENT", total |-> 0, raised |-> 0]]

NothingDecided ==
    /\ validation = [r \in Requests |-> [validatedBy |-> NoValidator, version |-> 0]]
    /\ verification = [a \in Athletes |-> "PENDING"]
    /\ coordinator = [c \in Coordinators |->
            [exists |-> FALSE, isActive |-> FALSE, villages |-> {}]]
    /\ records = {}
    /\ desk = [h \in Handlers |-> Idle]
    /\ decisions = {}
    /\ overlapped = FALSE

ValidationInit == InitRequests /\ NothingDecided

Scopes == SUBSET Villages \ {{}}    \* villageIds: at least one village

Athlete(r) ==
    \/ \E total \in Totals : CreateRequest(r, total)
    \/ CloseRequest(r)
    \/ \E h \in Handlers : EditRead(h, r)

\* The coordinator's page: approve with a click or send back, on a list as old
\* as the page; whether the request still waits is for the handler to say.
ValidationQueue(r) ==
    \E h \in Handlers, c \in Coordinators, approve \in BOOLEAN : DecideRead(h, c, r, approve)

\* The admins' page of requests without a coordinator, likewise.
OrphanQueue(r) ==
    \E h \in Handlers, approve \in BOOLEAN : DecideRead(h, Admin, r, approve)

Judge(r) == ValidationQueue(r) \/ OrphanQueue(r)

Commit(h) ==
    \/ \E total \in Totals : EditCommit(h, total) \/ RaiseCommit(h, total)
    \/ DecideCommit(h)
    \/ AdminCommit(h)

\* The admins' page of profiles, decided from a row that may be old.
VerificationQueue ==
    \E a \in Athletes, decision \in VerificationStatus \ {"PENDING"} : VerifyAthlete(a, decision)

\* The admins' page of coordinators: a form to appoint one with villages, a
\* dialog that replaces the villages, one that switches off and on.
AppointForm(c) == \E villages \in Scopes : Appoint(c, villages)

EditDialog(c) ==
    \E villages \in Scopes : UpdateCoordinator(c, coordinator[c].isActive, villages)

ToggleDialog(c) ==
    \E isActive \in BOOLEAN : UpdateCoordinator(c, isActive, coordinator[c].villages)

CoordinatorsManager ==
    \E c \in Coordinators : AppointForm(c) \/ EditDialog(c) \/ ToggleDialog(c)

Administer == VerificationQueue \/ CoordinatorsManager

ValidationNext ==
    \/ \E r \in Requests :
            \/ Athlete(r)
            \/ Judge(r)
            \/ \E h \in Handlers, c \in Coordinators : RaiseRead(h, c, r)
    \/ \E h \in Handlers : Commit(h) \/ Crash(h)
    \/ Administer

ValidationSpec == ValidationInit /\ [][ValidationNext]_validationVars

\* Whoever has the authority over a pending request uses it in the end; the
\* server does not stop at every commit.  Nothing else is owed: coordinators
\* may be appointed, moved and deactivated forever.
ValidationFairness ==
    /\ \A r \in Requests : SF_validationVars(Judge(r))
    /\ \A h \in Handlers : SF_validationVars(Commit(h))

FairValidation == ValidationSpec /\ ValidationFairness

-----------------------------------------------------------------------------
(* What holds while requests are served in turn *)

\* GET /athletes/:id shows a request from its approval on, funded or not.
Public(r) == request[r].status \in {"OPEN", "PARTIALLY_FULFILLED", "FULFILLED"}

\* Whoever the athlete's page says vouches for a request: the coordinator named
\* on the row, or an admin when none is ("nobody local has vouched").
Voucher(r) == IF validation[r].validatedBy = NoValidator THEN Admin ELSE validation[r].validatedBy

\* A request that sponsors see was approved, in the version they see, by the
\* coordinator it names: an edit sends it back to the queue.
PublicIsVouched ==
    \A r \in Requests : Public(r) =>
        [request |-> r, version |-> validation[r].version,
         author |-> Voucher(r), approve |-> TRUE] \in decisions

\* PublicIsVouched as long as no two handlers have overlapped.
VouchedInTurn == ~overlapped => PublicIsVouched

\* One version of a request is decided at most once (ALREADY_DECIDED).
DecidedOnce ==
    \A d, e \in decisions : d.request = e.request /\ d.version = e.version => d = e
DecidedInTurn == ~overlapped => DecidedOnce

ActiveIn(v) ==
    {c \in Coordinators : coordinator[c].exists /\ coordinator[c].isActive
                            /\ v \in coordinator[c].villages}

\* A decision is made by an active coordinator of the village of the request,
\* and by an admin only where there is none (OUT_OF_AREA, HAS_COORDINATOR).
Entitled ==
    \A d \in decisions' \ decisions :
        LET local == ActiveIn(VillageOf[d.request]) IN
        IF d.author = Admin THEN local = {} ELSE d.author \in local
AuthorityInTurn == [][~overlapped' => Entitled]_validationVars

\* A request its athlete has withdrawn stays withdrawn (REQUEST_CLOSED), as long
\* as no two handlers have overlapped: a decision or an edit that read the
\* request before the withdrawal writes its status over CLOSED.
StaysWithdrawn ==
    \A r \in Requests : request[r].status = "CLOSED" => request'[r].status = "CLOSED"
WithdrawnInTurn == [][~overlapped' => StaysWithdrawn]_validationVars

-----------------------------------------------------------------------------
(* What holds however the handlers interleave *)

\* The audit trail: a verified athlete has a record that says so, and an
\* approval has the record that names its author.  An admin's approval is
\* recorded as one that does not vouch for the athlete.
AuditTrail ==
    /\ \A a \in Athletes : verification[a] = "VERIFIED" =>
            \E rec \in records : rec.athlete = a /\ rec.decision = "VERIFIED"
    /\ \A d \in decisions : d.approve =>
            [athlete |-> AthleteOf[d.request], reviewer |-> d.author,
             decision |-> IF d.author = Admin THEN "PENDING" ELSE "VERIFIED"] \in records

\* No coordinator's approval brings back an athlete an admin has judged: a
\* status other than PENDING changes in no handler that decides a request.
NeverResurrected ==
    [][\A a \in Athletes :
            verification[a] # "PENDING" /\ verification'[a] # verification[a] =>
                desk' = desk]_validationVars

\* No request waits forever, even if coordinators come, go and are deactivated
\* while it does: where no one local can decide it, an admin can.
PendingIsDecided ==
    \A r \in Requests : (request[r].status = "PENDING_VALIDATION")
                            ~> (request[r].status # "PENDING_VALIDATION")
=============================================================================
