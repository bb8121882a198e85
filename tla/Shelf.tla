------------------------------- MODULE Shelf -------------------------------
(***************************************************************************)
(* What donors are promised about the offers they see: an offer on the     *)
(* shelf is a curated link or belongs to a supplier who is trusted now.    *)
(* Trust is given and withdrawn for a whole supplier at once; withdrawing  *)
(* clears that supplier's offers and nobody else's.                        *)
(***************************************************************************)
CONSTANTS Offers, Suppliers, Prices,
          OwnerOf(_),    \* the supplier of an offer, or Curated
          Curated, Hidden

VARIABLES shelf,      \* the price each offer shows, or Hidden
          trusted     \* the suppliers whose offers may be shown

vars == <<shelf, trusted>>

MayShow(o, who) == OwnerOf(o) \in who \union {Curated}

Init == /\ shelf \in [Offers -> Prices \union {Hidden}]
        /\ trusted \subseteq Suppliers
        /\ \A o \in Offers : shelf[o] # Hidden => MayShow(o, trusted)

OnlyOf(s) == \A o \in Offers : OwnerOf(o) # s => shelf'[o] = shelf[o]

Trust(s) ==
  /\ trusted' = trusted \union {s}
  /\ shelf' \in [Offers -> Prices \union {Hidden}]
  /\ OnlyOf(s)

Distrust(s) ==
  /\ trusted' = trusted \ {s}
  /\ shelf' = [o \in Offers |-> IF OwnerOf(o) = s THEN Hidden ELSE shelf[o]]

\* Offers written, repriced, retired and restored, items withdrawn and brought back.
Restock ==
  /\ UNCHANGED trusted
  /\ shelf' \in [Offers -> Prices \union {Hidden}]
  /\ \A o \in Offers : shelf'[o] # shelf[o] => shelf'[o] = Hidden \/ MayShow(o, trusted)

Next == Restock \/ \E s \in Suppliers : Trust(s) \/ Distrust(s)

Spec == Init /\ [][Next]_vars
=============================================================================
