-------------------------- MODULE MCSupplierOffers --------------------------
(* One supplier with room for two offers, and one curated link.            *)
EXTENDS SupplierOffers, TLC

CONSTANTS shop, o1, o2, link

MCOwnerOf(o) == IF o = link THEN Curated ELSE shop

\* Tabs, administrators and unwritten offers are interchangeable.
Symmetry == Permutations(Tabs) \union Permutations(Admins) \union Permutations({o1, o2})
=============================================================================
