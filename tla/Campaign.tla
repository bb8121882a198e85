------------------------------ MODULE Campaign ------------------------------
(***************************************************************************)
(* A request from the day it is raised to the day it is funded: the        *)
(* validation of requests and the payment of sponsorships run on the same  *)
(* Request rows, and neither looks at what the other is doing.             *)
(*                                                                         *)
(* createSponsorship, markSponsorshipPaid and the handlers of the athlete, *)
(* the coordinators and the admins share the table `request` and nothing   *)
(* else; every step of one component is a step of the whole that leaves    *)
(* the variables of the other alone.  The ledger of the payments and the   *)
(* audit trail of the validation hold of the whole.                        *)
(***************************************************************************)
EXTENDS SponsorshipPayments, RequestValidation

paymentOnly == <<checkout, sponsorship, transactions, raced, provider, handler, notices>>
validationOnly == <<validation, verification, coordinator, records, desk, decisions, overlapped>>
vars == <<request, paymentOnly, validationOnly>>

TypeOK == PaymentsTypeOK /\ ValidationTypeOK

-----------------------------------------------------------------------------
Init == InitRequests /\ NothingDecided /\ NothingPaid

\* A sponsor sends the form.
Sponsor ==
    /\ \E s \in Sponsorships : Checkout(s)
    /\ UNCHANGED validationOnly

\* The provider takes the payment the form opened and the server hears of it,
\* from the sponsor's browser and by webhook.
Pay ==
    /\ \/ \E p \in PaymentIds : Provider(p)
       \/ \E h \in Handlers : Handle(h)
    /\ UNCHANGED validationOnly

\* Requests are raised, edited, withdrawn and decided.
Validate ==
    /\ ValidationNext
    /\ UNCHANGED paymentOnly

Next == Sponsor \/ Pay \/ Validate

\* The provider redelivers until it is answered 200 and handlers go on, as in
\* SponsorshipPayments; nothing is owed by those who edit and decide.
Fairness ==
    /\ \A e \in Events : SF_vars(Redeliver(e) /\ UNCHANGED validationOnly)
    /\ \A h \in Handlers : SF_vars(CommitPaid(h) /\ UNCHANGED validationOnly)
    /\ \A h \in Handlers :
          WF_vars(/\ \/ CommitFailed(h) \/ RollBack(h)
                     \/ NotifyAthlete(h) \/ NotifySponsor(h)
                  /\ UNCHANGED validationOnly)

Spec == Init /\ [][Next]_vars /\ Fairness
=============================================================================
