--------------------------- MODULE MCRequestItems ---------------------------
(* One request, two browsers, one catalogue item, lines with and without it.*)
EXTENDS RequestItems, TLC

MCLines == [item: Items \union {NoItem}, paise: {1}]

Symmetry == Permutations(Clients)
=============================================================================
