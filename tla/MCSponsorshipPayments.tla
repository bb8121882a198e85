----------------------- MODULE MCSponsorshipPayments -----------------------
(***************************************************************************)
(* Instances of SponsorshipPayments for TLC.                               *)
(***************************************************************************)
EXTENDS SponsorshipPayments, TLC

CONSTANTS s1, s2, p1, p2, p3, r1, h1, h2

\* One sponsorship of r1 with two payment attempts.
OneSponsorship_RequestOf == s1 :> r1
OneSponsorship_OrderOf == (p1 :> s1) @@ (p2 :> s1)
OneSponsorship_Amount == s1 :> 2

\* Two sponsorships of the same request, the second paid at the second attempt.
Two_RequestOf == (s1 :> r1) @@ (s2 :> r1)
Two_OrderOf == (p1 :> s1) @@ (p2 :> s2) @@ (p3 :> s2)
Two_Amount == (s1 :> 1) @@ (s2 :> 2)

\* Handlers are interchangeable.
Symmetry == Permutations(Handlers)
=============================================================================
