---------------------------- MODULE PaymentLedger ----------------------------
(***************************************************************************)
(* What the payment side of khelkhud promises, with none of the machinery  *)
(* that delivers it: a payment is captured at the provider, and at some    *)
(* later moment a captured payment is credited, once, to the sponsorship   *)
(* whose order it paid, adding the sponsored amount to the request the     *)
(* sponsorship answers.  Nothing is ever un-credited.                      *)
(*                                                                         *)
(* SponsorshipPayments is shown to implement this module.                  *)
(***************************************************************************)
EXTENDS Naturals

CONSTANTS
    PaymentIds,     \* payments at the provider
    Sponsorships,   \* sponsorship rows
    Requests,       \* request rows
    NoRequest,      \* "no request": the sponsorship answers no particular ask
    OrderOf,        \* [PaymentIds -> Sponsorships]: the order a payment is for
    RequestOf,      \* [Sponsorships -> Requests \cup {NoRequest}]
    Amount          \* [Sponsorships -> Nat]: the sponsored amount

VARIABLES
    captured,       \* payments the provider has captured
    credited,       \* payments the ledger has recorded as PAID
    raised          \* [Requests -> Nat]: money credited to each request

ledgerVars == <<captured, credited, raised>>

\* The request a payment is credited to.
BeneficiaryOf(p) == RequestOf[OrderOf[p]]

Init ==
    /\ captured = {}
    /\ credited = {}
    /\ raised = [r \in Requests |-> 0]

Capture(p) ==
    /\ captured' = captured \cup {p}
    /\ UNCHANGED <<credited, raised>>

Credit(p) ==
    /\ p \in captured \ credited
    /\ credited' = credited \cup {p}
    /\ raised' = [r \in Requests |->
                    IF r = BeneficiaryOf(p) THEN raised[r] + Amount[OrderOf[p]]
                                            ELSE raised[r]]
    /\ UNCHANGED captured

Next == \E p \in PaymentIds : Capture(p) \/ Credit(p)

Spec == Init /\ [][Next]_ledgerVars
=============================================================================
