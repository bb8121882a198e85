------------------------ MODULE MCRequestValidation ------------------------
(***************************************************************************)
(* Instances of RequestValidation for TLC.                                 *)
(***************************************************************************)
EXTENDS RequestValidation, TLC

CONSTANTS r1, r2, a1, v1

\* A request of an athlete and one of an institution.
Institution_VillageOf == (r1 :> v1) @@ (r2 :> v1)
Institution_AthleteOf == (r1 :> a1) @@ (r2 :> NoAthlete)
=============================================================================
