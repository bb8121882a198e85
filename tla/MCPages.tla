------------------------------ MODULE MCPages ------------------------------
(* One person with two browsers, whose account may not exist yet or was    *)
(* created by the seed; as an administrator they may appoint themselves.   *)
EXTENDS Pages

MCUses(b) == Users

MCSeedRoles(u) == MaybeRole
=============================================================================
