---------------------------- MODULE MCCampaign ----------------------------
(***************************************************************************)
(* Instances of Campaign for TLC.                                          *)
(***************************************************************************)
EXTENDS Campaign, TLC

CONSTANTS r1, s1, p1, a1, c1, v1, h1

MC_RequestOf == s1 :> r1
MC_OrderOf == p1 :> s1
MC_Amount == s1 :> 2
MC_VillageOf == r1 :> v1
MC_AthleteOf == r1 :> a1
=============================================================================
