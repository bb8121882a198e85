----------------------------- MODULE Allocations -----------------------------
(***************************************************************************)
(* How an athlete accounts for the money of a sponsorship.                 *)
(*                                                                         *)
(*   routes/sponsorships.ts           POST and PATCH /:id/allocations      *)
(*   services/sponsorship.service.ts  recomputeUtilization                 *)
(*                                                                         *)
(* A handler reads the sponsorship with its allocations, judges, writes    *)
(* one allocation, then reads all of them again and stores what they add   *)
(* up to: four steps with no transaction around any two.  Sponsorships do  *)
(* not interact, so there is one.  The notification a PATCH ends with      *)
(* touches nothing here and is left out.                                   *)
(*                                                                         *)
(* mishaps records what the code has no answer to: handlers that overlapped*)
(* and a server that stopped in one.  What holds without them is an        *)
(* intention of the code; nothing in it keeps them away.                   *)
(***************************************************************************)
EXTENDS Naturals, FiniteSets, Functions

CONSTANTS
    Allocations,    \* allocation rows that may be created
    Handlers,       \* handlers in flight
    Amount,         \* sponsorship.amountPaise
    Parts           \* the amounts an allocation may have

VARIABLES
    allocation,     \* the SponsorshipAllocation rows of the sponsorship
    sponsorship,    \* the sponsorship row
    handler,        \* handlers in flight
    mishaps         \* history: did handlers overlap, did the server stop in one?

vars == <<allocation, sponsorship, handler, mishaps>>

-----------------------------------------------------------------------------
AllocationStatus == {"PLANNED", "PURCHASED", "COMPLETED"}
UtilizationStatus == {"NOT_STARTED", "IN_PROGRESS", "COMPLETED"}

\* completedAt is a date or null: only whether there is one matters.
AllocationRow == [exists: BOOLEAN, amount: Nat, status: AllocationStatus,
                  completedAt: BOOLEAN]
SponsorshipRow == [paid: BOOLEAN, utilization: UtilizationStatus, completed: BOOLEAN]
Idle == [pc |-> "idle"]
HandlerState ==
    {Idle} \cup [pc: {"create"}, allocation: Allocations, amount: Parts]
           \cup [pc: {"patch"}, allocation: Allocations, amount: Parts,
                 status: AllocationStatus, dated: BOOLEAN, changes: SUBSET {"amount", "status"}]
           \cup [pc: {"recompute"}]
           \cup [pc: {"store"}, utilization: UtilizationStatus]

ASSUME ConstantsAssumption ==
    /\ Amount \in Nat
    /\ Parts \subseteq Nat \ {0}

TypeOK ==
    /\ allocation \in [Allocations -> AllocationRow]
    /\ sponsorship \in SponsorshipRow
    /\ handler \in [Handlers -> HandlerState]
    /\ mishaps \in SUBSET {"overlap", "crash"}

-----------------------------------------------------------------------------
Existing == {a \in Allocations : allocation[a].exists}

\* allocations.reduce((sum, a) => sum + a.amountPaise, 0).
Worth == [a \in Allocations |-> allocation[a].amount]
Allocated(rows) == SumFunctionOnSet(Worth, rows)

\* OVER_ALLOCATED: the part must fit beside the other rows.
FitsAlone(amount, rows) == amount <= Amount     \* seeded bug: the others are forgotten
Fits(amount, rows) == Allocated(rows) + amount <= Amount

\* What the rows say of the whole.
SomeCompleted(rows) ==          \* seeded bug: "some" for "every"
    IF \E a \in rows : allocation[a].status = "COMPLETED" THEN "COMPLETED"
    ELSE IF \E a \in rows : allocation[a].status # "PLANNED" THEN "IN_PROGRESS"
    ELSE "NOT_STARTED"
Utilization(rows) ==
    IF rows # {} /\ \A a \in rows : allocation[a].status = "COMPLETED" THEN "COMPLETED"
    ELSE IF \E a \in rows : allocation[a].status # "PLANNED" THEN "IN_PROGRESS"
    ELSE "NOT_STARTED"

\* Does a PATCH that sets status to `after` stamp completedAt?
Undated(before, after) ==        \* seeded bug: PLANNED is skipped
    before = "PURCHASED" /\ after = "COMPLETED"
Completes(before, after) == before # "COMPLETED" /\ after = "COMPLETED"

Quiet == \A h \in Handlers : handler[h] = Idle

\* A handler starts: do others run?
Starts == mishaps' = IF Quiet THEN mishaps ELSE mishaps \cup {"overlap"}

Fresh(a) ==
    /\ ~allocation[a].exists
    /\ \A h \in Handlers : handler[h].pc = "create" => handler[h].allocation # a

-----------------------------------------------------------------------------
\* The payment component: PAID, and FAILED again after a late payment.failed.
SetPaid(paid) ==
    /\ sponsorship.paid # paid
    /\ sponsorship' = [sponsorship EXCEPT !.paid = paid]
    /\ UNCHANGED <<allocation, handler, mishaps>>

\* POST /sponsorships/:id/allocations: the read and the check.
CreateRead(h, a, amount) ==
    /\ handler[h] = Idle
    /\ sponsorship.paid
    /\ Fresh(a)
    /\ Fits(amount, Existing)
    /\ handler' = [handler EXCEPT ![h] =
            [pc |-> "create", allocation |-> a, amount |-> amount]]
    /\ Starts
    /\ UNCHANGED <<allocation, sponsorship>>

CreateCommit(h) ==
    /\ handler[h].pc = "create"
    /\ allocation' = [allocation EXCEPT ![handler[h].allocation] =
            [exists |-> TRUE, amount |-> handler[h].amount,
             status |-> "PLANNED", completedAt |-> FALSE]]
    /\ handler' = [handler EXCEPT ![h] = [pc |-> "recompute"]]
    /\ UNCHANGED <<sponsorship, mishaps>>

\* PATCH /sponsorships/:id/allocations/:allocationId: the body sets the amount,
\* the status, both or neither of the two; any status may follow any other.
PatchRead(h, a, amount, status, changes) ==
    /\ handler[h] = Idle
    /\ sponsorship.paid
    /\ allocation[a].exists
    /\ "amount" \in changes => Fits(amount, Existing \ {a})
    /\ handler' = [handler EXCEPT ![h] =
            [pc |-> "patch", allocation |-> a, amount |-> amount, status |-> status,
             dated |-> "status" \in changes /\ Completes(allocation[a].status, status),
             changes |-> changes]]
    /\ Starts
    /\ UNCHANGED <<allocation, sponsorship>>

\* The row as the body changes it, dated if it was read as not completed.
Patched(row, patch) ==
    [row EXCEPT !.amount = IF "amount" \in patch.changes THEN patch.amount ELSE @,
                !.status = IF "status" \in patch.changes THEN patch.status ELSE @,
                !.completedAt = @ \/ patch.dated]

PatchCommit(h) ==
    /\ handler[h].pc = "patch"
    /\ allocation' = [allocation EXCEPT
            ![handler[h].allocation] = Patched(@, handler[h])]
    /\ handler' = [handler EXCEPT ![h] = [pc |-> "recompute"]]
    /\ UNCHANGED <<sponsorship, mishaps>>

\* recomputeUtilization reads the rows ...
Recompute(h) ==
    /\ handler[h].pc = "recompute"
    /\ handler' = [handler EXCEPT ![h] =
            [pc |-> "store", utilization |-> Utilization(Existing)]]
    /\ UNCHANGED <<allocation, sponsorship, mishaps>>

\* ... and stores the answer.  Nothing takes the sponsorship out of COMPLETED.
Store(h) ==
    /\ handler[h].pc = "store"
    /\ sponsorship' = [sponsorship EXCEPT
            !.utilization = handler[h].utilization,
            !.completed = @ \/ handler[h].utilization = "COMPLETED"]
    /\ handler' = [handler EXCEPT ![h] = Idle]
    /\ UNCHANGED <<allocation, mishaps>>

Crash(h) ==
    /\ handler[h] # Idle
    /\ handler' = [handler EXCEPT ![h] = Idle]
    /\ mishaps' = mishaps \cup {"crash"}
    /\ UNCHANGED <<allocation, sponsorship>>

-----------------------------------------------------------------------------
Init ==
    /\ allocation = [a \in Allocations |->
            [exists |-> FALSE, amount |-> 0, status |-> "PLANNED", completedAt |-> FALSE]]
    /\ sponsorship = [paid |-> FALSE, utilization |-> "NOT_STARTED", completed |-> FALSE]
    /\ handler = [h \in Handlers |-> Idle]
    /\ mishaps = {}

\* The athlete's page adds a part, sets the status of one, and attaches a
\* receipt, which changes neither; corrections of an amount have no form.
AddAllocation(h) ==
    \E a \in Allocations, amount \in Parts : CreateRead(h, a, amount)

SetStatus(h) ==
    \E a \in Allocations, amount \in Parts, status \in AllocationStatus,
       changes \in {{}, {"status"}} : PatchRead(h, a, amount, status, changes)

SetAmount(h) ==
    \E a \in Allocations, amount \in Parts, status \in AllocationStatus,
       changes \in {{"amount"}, {"amount", "status"}} : PatchRead(h, a, amount, status, changes)

TrackingManager(h) == AddAllocation(h) \/ SetStatus(h)

Start(h) == TrackingManager(h) \/ SetAmount(h)

Proceed(h) == CreateCommit(h) \/ PatchCommit(h) \/ Recompute(h) \/ Store(h)

Next ==
    \/ \E paid \in BOOLEAN : SetPaid(paid)
    \/ \E h \in Handlers : Start(h) \/ Proceed(h) \/ Crash(h)

Spec == Init /\ [][Next]_vars

-----------------------------------------------------------------------------
\* OVER_ALLOCATED: "Allocations would exceed the sponsored amount" is refused.
AllocationsFit == Allocated(Existing) <= Amount

\* The parts of a sponsorship never add up to more than the sponsored amount,
\* after any sequence of creations, corrections and stops of the server, as long
\* as no two handlers have overlapped.
NeverOverAllocated == "overlap" \notin mishaps => AllocationsFit

\* What the sponsor's page shows as utilized: the allocations that are more
\* than a plan.
Bought == {a \in Existing : allocation[a].status # "PLANNED"}
Utilized == Allocated(Bought)

\* The status of use the sponsor's page shows agrees with the sum it shows next
\* to it and with the rows below: nothing utilized is not started, and only the
\* last part completed completes the sponsorship.
UtilizationIsCurrent ==
    Quiet /\ mishaps = {} =>
        /\ sponsorship.utilization = "NOT_STARTED" <=> Utilized = 0
        /\ sponsorship.utilization = "COMPLETED" <=>
                Existing # {} /\ {a \in Existing : allocation[a].status # "COMPLETED"} = {}

\* A completed allocation says when, although the handler that completes it and
\* the one that stamps the date may have read different rows.
CompletedIsDated ==
    \A a \in Existing : allocation[a].status = "COMPLETED" => allocation[a].completedAt
=============================================================================
