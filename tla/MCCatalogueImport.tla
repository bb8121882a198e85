-------------------------- MODULE MCCatalogueImport --------------------------
(***************************************************************************)
(* Instances of CatalogueImport for TLC.  A bat in two versions (its price *)
(* was corrected) and a ball; one link, at two prices.                     *)
(***************************************************************************)
EXTENDS CatalogueImport, TLC

CONSTANTS bat, ball, batCorrected, amazon

MCSlugs == {bat, ball}
MCContents == {bat, ball, batCorrected}
MCSlugOf == [c \in MCContents |-> IF c = ball THEN ball ELSE bat]

Listed(content) == [valid |-> TRUE, content |-> content, offer |-> NoOffer]
Linked(content, price) ==
    [valid |-> TRUE, content |-> content, offer |-> [link |-> amazon, price |-> price]]
Faulty(content) == [valid |-> FALSE, content |-> content, offer |-> NoOffer]

\* A sheet that lists the link at two prices, its correction, one that
\* contradicts itself, and one with a faulty row.
Clean ==
    {<<Linked(bat, 1), Linked(bat, 2)>>,
     <<Linked(batCorrected, 2), Listed(ball)>>}
Erroneous ==
    {<<Listed(bat), Linked(batCorrected, 2)>>,
     <<Faulty(bat), Linked(ball, 1)>>}
MCSheets == [rows: Clean, allowPartial: {FALSE}] \cup [rows: Erroneous, allowPartial: BOOLEAN]

Symmetry == Permutations(Handlers)
=============================================================================
