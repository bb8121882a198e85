------------------------------ MODULE MCUpdates ------------------------------
(* A sponsor with two sponsorships of meera and one of ravi; meera has      *)
(* posted before, a file of hers is to come, and ravi has uploaded one.     *)
EXTENDS Updates

CONSTANTS news, past, s1, s2, s3, f1, f2

MCNotices == {news, past} \X {s1, s2, s3}
MCRecipient(n) == "asha"
MCSponsorOf(s) == "asha"
MCAthleteOf(s) == IF s = s3 THEN "ravi" ELSE "meera"
MCAuthorOf(u) == "meera"
MCUploaderOf(f) == IF f = f1 THEN "meera" ELSE "ravi"
=============================================================================
