---------------------------- MODULE RequestTable ----------------------------
(***************************************************************************)
(* The Request rows: what the validation of requests and the payment of    *)
(* sponsorships both read and write, each in handlers of its own.          *)
(***************************************************************************)
EXTENDS Naturals, FiniteSets

CONSTANTS
    Requests,   \* request rows that may be created
    Totals,     \* what a request may ask for
    Handlers    \* HTTP handlers that may run at a time

VARIABLE
    request     \* the Request table, as sponsors see it

\* ABSENT: there is no such row (DRAFT is a status no code ever sets).
RequestStatus == {"ABSENT", "PENDING_VALIDATION", "OPEN", "PARTIALLY_FULFILLED",
                  "FULFILLED", "CLOSED", "REJECTED"}
RequestRow == [status: RequestStatus, total: Nat, raised: Nat]

\* A handler that serves no request.
Idle == [pc |-> "idle"]
=============================================================================
