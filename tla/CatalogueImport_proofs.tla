------------------------ MODULE CatalogueImport_proofs ------------------------
(***************************************************************************)
(* What is proved of CatalogueImport for any catalogue, any sheets and any *)
(* number of imports in flight: its types, that an import cannot stack two *)
(* offers at one link unless its plan was out of date, that it ends no     *)
(* retirement, and that what it applies as planned is all or nothing.      *)
(***************************************************************************)
EXTENDS CatalogueImport, SequenceTheorems, WellFoundedInduction, TLAPS

LEMMA MinOfRows == ASSUME NEW I \in SUBSET Nat, I # {} PROVE Min(I) \in I
<1>1. \E i \in I : \A j \in I : <<j, i>> \notin OpToRel(<, Nat)
  BY NatLessThanWellFounded, WFMin
<1>2. PICK i \in I : \A j \in I : <<j, i>> \notin OpToRel(<, Nat)
  BY <1>1
<1>3. \A j \in I : <<j, i>> \in OpToRel(<, Nat) <=> j < i
  BY <1>2 DEF OpToRel
<1>4. ASSUME NEW j \in I PROVE i =< j
  <2>1. i \in Nat /\ j \in Nat
    BY <1>2
  <2>2. ~(j < i)
    BY <1>2, <1>3
  <2> QED BY <2>1, <2>2
<1> QED BY <1>4 DEF Min

LEMMA LenOfNonEmpty ==
    ASSUME NEW S, NEW q \in Seq(S), q # <<>>
    PROVE  /\ Len(q) \in Nat /\ Len(q) >= 1
           /\ Len(q) <= 1 => Len(q) = 1
           /\ DOMAIN q = 1 .. Len(q)
<1>1. Len(q) \in Nat \ {0}
  BY EmptySeq, Zenon
<1>2. \A n \in Nat \ {0} : n >= 1 /\ (n <= 1 => n = 1)
  OBVIOUS
<1>3. Len(q) \in Nat /\ Len(q) >= 1 /\ (Len(q) <= 1 => Len(q) = 1)
  BY <1>1, <1>2, Zenon
<1>4. DOMAIN q = 1 .. Len(q)
  OBVIOUS
<1> QED BY <1>3, <1>4, Zenon

\* The rows of a sheet and what they offer.
LEMMA RowType ==
    ASSUME NEW sheet \in Sheets, NEW i \in DOMAIN sheet.rows
    PROVE  /\ sheet.rows[i] \in SheetRow
           /\ i \in Nat
<1>1. sheet.rows \in Seq(SheetRow)
  BY ConstantsAssumption DEF Sheet
<1> QED BY <1>1

LEMMA ContentType ==
    ASSUME NEW sheet \in Sheets, NEW s, RowsFor(sheet, s) # {}
    PROVE  ContentFor(sheet, s) \in Contents
<1>1. RowsFor(sheet, s) \subseteq Nat
  BY RowType DEF RowsFor
<1>2. Min(RowsFor(sheet, s)) \in RowsFor(sheet, s)
  BY <1>1, MinOfRows
<1> QED BY <1>2, RowType DEF RowsFor, ContentFor, SheetRow

LEMMA PriceType ==
    ASSUME NEW sheet \in Sheets, NEW s, NEW l, OffersFor(sheet, s, l) # {}
    PROVE  PriceFor(sheet, s, l) \in Prices
<1>1. OffersFor(sheet, s, l) \subseteq DOMAIN sheet.rows
  BY DEF OffersFor, AcceptedRows, RowsFor
<1>2. OffersFor(sheet, s, l) \subseteq Nat
  BY <1>1, RowType
<1>3. Min(OffersFor(sheet, s, l)) \in OffersFor(sheet, s, l)
  BY <1>2, MinOfRows
<1>4. ASSUME NEW i \in OffersFor(sheet, s, l) PROVE sheet.rows[i].offer.price \in Prices
  <2>1. sheet.rows[i] \in SheetRow /\ sheet.rows[i].offer # NoOffer
    BY <1>1, RowType DEF OffersFor
  <2> QED BY <2>1 DEF SheetRow, Offer
<1> QED BY <1>3, <1>4 DEF PriceFor

-----------------------------------------------------------------------------
\* A plan acts on what its sheet lists, and only on that.
FollowsSheet(job) ==
    /\ job.sheet \in Sheets
    /\ job.plan \in Plan
    /\ Rejected(job.sheet) = {} \/ job.sheet.allowPartial
    /\ \A s \in Slugs :
        /\ job.plan.item[s] = "none" <=> RowsFor(job.sheet, s) = {}
        /\ \A l \in Links : job.plan.offer[s][l] = "none" <=> OffersFor(job.sheet, s, l) = {}
PlansFollowSheets == \A h \in Handlers : handler[h].pc = "planned" => FollowsSheet(handler[h])

TypeInv == TypeOK /\ PlansFollowSheets

LEMMA ItemActionType == ASSUME NEW sheet, NEW s PROVE ItemAction(sheet, s) \in Actions
BY DEF ItemAction, Actions

LEMMA InitTypes == Init => TypeInv
BY DEF Init, TypeInv, TypeOK, ItemRow, ItemStatus, HandlerState, Idle, PlansFollowSheets

\* What a transaction writes.
LEMMA CommitTypes ==
    ASSUME TypeInv, NEW h \in Handlers, CommitImport(h)
    PROVE  /\ item' \in [Slugs -> ItemRow]
           /\ \A s \in Slugs : item'[s].status # "ABSENT" => item'[s].content \in Contents
           /\ curated' \in [Slugs -> [Links -> Seq(Prices)]]
<1> DEFINE sheet == handler[h].sheet
           plan == handler[h].plan
<1>1. sheet \in Sheets /\ plan \in Plan
  BY DEF TypeInv, PlansFollowSheets, FollowsSheet, CommitImport
<1>2. ASSUME NEW s \in Slugs
      PROVE  item'[s] \in ItemRow /\ (item'[s].status # "ABSENT" => item'[s].content \in Contents)
  <2>1. CASE plan.item[s] \in {"create", "update"}
    <3>1. ContentFor(sheet, s) \in Contents
      BY <1>1, <2>1, ContentType DEF TypeInv, PlansFollowSheets, FollowsSheet, CommitImport
    <3> QED BY <2>1, <3>1 DEF CommitImport, SavedItem, TypeInv, TypeOK, ItemRow, ItemStatus
  <2>2. CASE plan.item[s] \notin {"create", "update"}
    BY <2>2 DEF CommitImport, TypeInv, TypeOK
  <2> QED BY <2>1, <2>2
<1>3. ASSUME NEW s \in Slugs, NEW l \in Links
      PROVE  SavedOffers(curated[s][l], plan.offer[s][l], PriceFor(sheet, s, l)) \in Seq(Prices)
  <2>1. curated[s][l] \in Seq(Prices)
    BY DEF TypeInv, TypeOK
  <2>2. CASE plan.offer[s][l] \in {"create", "update"}
    <3>1. PriceFor(sheet, s, l) \in Prices
      BY <1>1, <2>2, PriceType DEF TypeInv, PlansFollowSheets, FollowsSheet, CommitImport
    <3>2. [i \in DOMAIN curated[s][l] |-> PriceFor(sheet, s, l)] \in Seq(Prices)
      BY <2>1, <3>1
    <3> QED BY <2>1, <2>2, <3>1, <3>2 DEF SavedOffers
  <2>3. CASE plan.offer[s][l] \notin {"create", "update"}
    BY <2>1, <2>3 DEF SavedOffers
  <2> QED BY <2>2, <2>3
<1>4. item' = [s \in Slugs |-> item'[s]]
  BY DEF CommitImport
<1>5. curated' = [s \in Slugs |-> [l \in Links |->
            SavedOffers(curated[s][l], plan.offer[s][l], PriceFor(sheet, s, l))]]
  BY DEF CommitImport
<1> QED BY <1>2, <1>3, <1>4, <1>5

LEMMA NextTypes == TypeInv /\ [Next]_vars => TypeInv'
<1> SUFFICES ASSUME TypeInv, [Next]_vars PROVE TypeInv'
  OBVIOUS
<1>1. ASSUME NEW h \in Handlers, NEW sheet \in Sheets, NEW offers \in OfferPlan,
             PlanImport(h, sheet, offers)
      PROVE  TypeInv'
  <2> DEFINE plan == [item |-> [s \in Slugs |-> ItemAction(sheet, s)], offer |-> offers]
  <2>1. plan \in Plan
    BY ItemActionType DEF Plan
  <2>2. \A s \in Slugs : plan.item[s] = "none" <=> RowsFor(sheet, s) = {}
    BY DEF ItemAction
  <2>3. \A s \in Slugs, l \in Links : offers[s][l] = "none" <=> OffersFor(sheet, s, l) = {}
    BY <1>1 DEF PlanImport, OfferActions
  <2>4. handler' \in [Handlers -> HandlerState]
    BY <1>1, <2>1 DEF PlanImport, TypeInv, TypeOK, HandlerState
  <2>5. FollowsSheet([pc |-> "planned", sheet |-> sheet, plan |-> plan])
    BY <1>1, <2>1, <2>2, <2>3 DEF PlanImport, Blocked, FollowsSheet
  <2>6. PlansFollowSheets'
    <3>1. \A g \in Handlers : handler'[g] =
            IF g = h THEN [pc |-> "planned", sheet |-> sheet, plan |-> plan] ELSE handler[g]
      BY <1>1 DEF PlanImport, TypeInv, TypeOK
    <3>2. \A g \in Handlers : handler'[g].pc = "planned" => FollowsSheet(handler'[g])
      BY <2>5, <3>1 DEF TypeInv, PlansFollowSheets
    <3> QED BY <3>2 DEF PlansFollowSheets
  <2> QED BY <1>1, <2>4, <2>6 DEF PlanImport, TypeInv, TypeOK
<1>2. ASSUME NEW h \in Handlers, CommitImport(h) PROVE TypeInv'
  <2>1. handler' \in [Handlers -> HandlerState] /\ stale' \subseteq Slugs
    BY <1>2 DEF CommitImport, TypeInv, TypeOK, HandlerState
  <2>2. PlansFollowSheets'
    BY <1>2 DEF CommitImport, TypeInv, TypeOK, Idle, PlansFollowSheets
  <2> QED BY <1>2, <2>1, <2>2, CommitTypes DEF TypeInv, TypeOK
<1>3. ASSUME NEW h \in Handlers, AbandonImport(h) PROVE TypeInv'
  BY <1>3 DEF AbandonImport, TypeInv, TypeOK, HandlerState, Idle, PlansFollowSheets
<1>4. ASSUME NEW content \in Contents, AddItem(content) PROVE TypeInv'
  BY <1>4, ConstantsAssumption DEF AddItem, TypeInv, TypeOK, ItemRow, ItemStatus,
              PlansFollowSheets
<1>5. ASSUME NEW content \in Contents, NEW s \in Slugs, NEW status \in {"ACTIVE", "RETIRED"},
             EditItem(s, content, status)
      PROVE  TypeInv'
  BY <1>5 DEF EditItem, TypeInv, TypeOK, ItemRow, ItemStatus,
              PlansFollowSheets
<1>6. CASE UNCHANGED vars
  BY <1>6 DEF vars, TypeInv, TypeOK,
              PlansFollowSheets
<1> QED BY <1>1, <1>2, <1>3, <1>4, <1>5, <1>6
    DEF Next, ImportPanel, CatalogueManager, ItemDialog

LEMMA TypesKept == Spec => []TypeInv
BY InitTypes, NextTypes, PTL DEF Spec

\* The catalogue, the plans and what they are made of keep their shape.
THEOREM TypeCorrect == Spec => []TypeOK
BY TypesKept, PTL DEF TypeInv

-----------------------------------------------------------------------------
\* What a transaction does to one slug.
LEMMA CommitItem ==
    ASSUME TypeInv, NEW h \in Handlers, CommitImport(h), NEW s \in Slugs
    PROVE  item'[s] = IF handler[h].plan.item[s] \in {"create", "update"}
                      THEN SavedItem(s, ContentFor(handler[h].sheet, s)) ELSE item[s]
BY DEF CommitImport

LEMMA CommitOffers ==
    ASSUME TypeInv, NEW h \in Handlers, CommitImport(h), NEW s \in Slugs, NEW l \in Links
    PROVE  /\ curated[s][l] \in Seq(Prices)
           /\ curated'[s][l] = SavedOffers(curated[s][l], handler[h].plan.offer[s][l],
                                          PriceFor(handler[h].sheet, s, l))
BY DEF CommitImport, TypeInv, TypeOK

\* One link of an item has one curated offer, as long as no import was applied
\* to the item by a plan that was out of date.
THEOREM LinksUnique == Spec => []LinkedOnce
<1>1. Init => LinkedOnce
  BY DEF Init, LinkedOnce
<1>2. TypeInv /\ LinkedOnce /\ [Next]_vars => LinkedOnce'
  <2> SUFFICES ASSUME TypeInv, LinkedOnce, [Next]_vars,
                      NEW s \in Slugs, NEW l \in Links, s \notin stale'
               PROVE  Len(curated'[s][l]) <= 1
    BY DEF LinkedOnce
  <2>1. ASSUME NEW h \in Handlers, CommitImport(h) PROVE Len(curated'[s][l]) <= 1
    <3> DEFINE sheet == handler[h].sheet
               action == handler[h].plan.offer[s][l]
               price == PriceFor(sheet, s, l)
    <3>1. s \notin stale /\ action \in OfferActions(sheet, s, l)
      BY <2>1 DEF CommitImport, Current
    <3>2. curated[s][l] \in Seq(Prices) /\ Len(curated[s][l]) <= 1
      BY <2>1, <3>1, CommitOffers DEF LinkedOnce
    <3>3. curated'[s][l] = SavedOffers(curated[s][l], action, price)
      BY <2>1, CommitOffers
    <3>4. CASE action = "create"
      <4>1. curated[s][l] = <<>>
        BY <3>1, <3>4 DEF OfferActions
      <4> QED BY <3>3, <3>4, <4>1 DEF SavedOffers
    <3>5. CASE action = "update"
      <4>1. curated'[s][l] = [i \in DOMAIN curated[s][l] |-> price]
        BY <3>3, <3>5 DEF SavedOffers
      <4> QED BY <3>2, <4>1
    <3>6. CASE action \notin {"create", "update"}
      BY <3>2, <3>3, <3>6 DEF SavedOffers
    <3> QED BY <3>4, <3>5, <3>6
  <2>2. CASE UNCHANGED <<curated, stale>>
    BY <2>2 DEF LinkedOnce
  <2> QED BY <2>1, <2>2
      DEF Next, ImportPanel, CatalogueManager, ItemDialog, PlanImport, AbandonImport,
        AddItem, EditItem, vars
<1> QED BY <1>1, <1>2, TypesKept, PTL DEF Spec

\* No import brings a retired item back: only an admin's edit does.
THEOREM RetirementStands == Spec => RetiredStays
<1> DEFINE Stays == \A s \in Slugs : item[s].status = "RETIRED" /\ item'[s].status # "RETIRED" =>
                        \E content \in Contents : EditItem(s, content, "ACTIVE")
<1>1. TypeInv /\ [Next]_vars => Stays
  <2> SUFFICES ASSUME TypeInv, [Next]_vars,
                      NEW s \in Slugs, item[s].status = "RETIRED", item'[s].status # "RETIRED"
               PROVE  \E content \in Contents : EditItem(s, content, "ACTIVE")
    OBVIOUS
  <2>1. ASSUME NEW h \in Handlers, CommitImport(h) PROVE FALSE
    <3>1. \/ item'[s] = item[s]
          \/ item'[s] = SavedItem(s, ContentFor(handler[h].sheet, s))
      BY <2>1, CommitItem
    <3>2. SavedItem(s, ContentFor(handler[h].sheet, s)).status = "RETIRED"
      BY DEF SavedItem
    <3> QED BY <3>1, <3>2
  <2>2. ASSUME NEW content \in Contents, AddItem(content) PROVE FALSE
    BY <2>2 DEF AddItem, TypeInv, TypeOK
  <2>3. ASSUME NEW content \in Contents, NEW t \in Slugs, NEW status \in {"ACTIVE", "RETIRED"},
               EditItem(t, content, status)
        PROVE  EditItem(s, content, "ACTIVE")
    <3>1. s = t
      BY <2>3 DEF EditItem, TypeInv, TypeOK
    <3>2. status = "ACTIVE"
      BY <2>3, <3>1 DEF EditItem, TypeInv, TypeOK
    <3> QED BY <2>3, <3>1, <3>2
  <2>4. CASE UNCHANGED item
    BY <2>4
  <2> QED BY <2>1, <2>2, <2>3, <2>4
      DEF Next, ImportPanel, CatalogueManager, ItemDialog, PlanImport,
        AbandonImport, vars
<1>2. TypeInv /\ [Next]_vars => [Stays]_vars
  BY <1>1
<1> QED BY <1>2, TypesKept, PTL DEF Spec, RetiredStays

\* The content of a row is in the catalogue when its slug's plan was current.
LEMMA ItemApplied ==
    ASSUME TypeInv, NEW h \in Handlers, CommitImport(h), NEW s \in Slugs,
           Current(handler[h].sheet, handler[h].plan, s), RowsFor(handler[h].sheet, s) # {}
    PROVE  item'[s].content = ContentFor(handler[h].sheet, s)
<1> DEFINE sheet == handler[h].sheet
           action == handler[h].plan.item[s]
<1>1. SavedItem(s, ContentFor(sheet, s)).content = ContentFor(sheet, s)
  BY DEF SavedItem
<1>2. action = ItemAction(sheet, s)
  BY DEF Current
<1>3. CASE action \in {"create", "update"}
  <2>1. item'[s] = SavedItem(s, ContentFor(sheet, s))
    BY <1>3, CommitItem
  <2> QED BY <1>1, <2>1
<1>4. CASE action \notin {"create", "update"}
  <2>1. item'[s] = item[s]
    BY <1>4, CommitItem
  <2>2. item[s].content = ContentFor(sheet, s)
    BY <1>2, <1>4 DEF ItemAction
  <2> QED BY <2>1, <2>2
<1> QED BY <1>3, <1>4

\* Where the sheet has an offer and the plan was current, there is one now; if
\* there was at most one, it is the only one and has the sheet's price.
LEMMA LinkApplied ==
    ASSUME TypeInv, NEW h \in Handlers, CommitImport(h), NEW s \in Slugs, NEW l \in Links,
           Current(handler[h].sheet, handler[h].plan, s), OffersFor(handler[h].sheet, s, l) # {}
    PROVE  /\ curated'[s][l] # <<>>
           /\ Len(curated[s][l]) <= 1 =>
                curated'[s][l] = <<PriceFor(handler[h].sheet, s, l)>>
<1> DEFINE sheet == handler[h].sheet
           offers == curated[s][l]
           action == handler[h].plan.offer[s][l]
           price == PriceFor(sheet, s, l)
<1>1. offers \in Seq(Prices) /\ curated'[s][l] = SavedOffers(offers, action, price)
  BY CommitOffers
<1>2. action \in OfferActions(sheet, s, l)
  BY DEF Current
<1>3. price \in Prices
  BY PriceType DEF CommitImport, TypeInv, PlansFollowSheets, FollowsSheet
<1>4. CASE offers = <<>>
  <2>1. action = "create"
    BY <1>2, <1>4 DEF OfferActions
  <2>2. curated'[s][l] = <<price>>
    BY <1>1, <1>4, <2>1 DEF SavedOffers
  <2> QED BY <2>2
<1>5. CASE offers # <<>>
  <2>1. /\ Len(offers) \in Nat /\ Len(offers) >= 1
        /\ Len(offers) <= 1 => Len(offers) = 1
        /\ DOMAIN offers = 1 .. Len(offers)
    BY <1>1, <1>5, LenOfNonEmpty
  <2>2. CASE action = "update"
    <3>1. curated'[s][l] = [i \in 1 .. Len(offers) |-> price]
      BY <1>1, <2>1, <2>2 DEF SavedOffers
    <3>2. 1 \in DOMAIN curated'[s][l]
      BY <2>1, <3>1
    <3>3. [i \in 1 .. 1 |-> price] = <<price>>
      OBVIOUS
    <3> QED BY <2>1, <3>1, <3>2, <3>3
  <2>3. CASE action = "unchanged"
    <3>1. curated'[s][l] = offers
      BY <1>1, <2>3 DEF SavedOffers
    <3>2. PICK i \in DOMAIN offers : offers[i] = price
      BY <1>2, <1>5, <2>3 DEF OfferActions
    <3>3. Len(offers) <= 1 => offers = <<price>>
      <4> SUFFICES ASSUME Len(offers) <= 1 PROVE offers = <<price>>
        OBVIOUS
      <4>1. Len(offers) = 1 /\ i = 1
        BY <2>1, <3>2
      <4> QED BY <1>1, <3>2, <4>1
    <3> QED BY <1>5, <3>1, <3>3
  <2>4. action \in {"update", "unchanged"}
    BY <1>2, <1>5 DEF OfferActions
  <2> QED BY <2>2, <2>3, <2>4
<1> QED BY <1>4, <1>5

\* An import without allowPartial that is applied as planned applies every row.
THEOREM WholeSheets == Spec => AllOrNothing
<1> DEFINE Whole ==
        \A h \in Handlers :
            CommitImport(h) /\ Confirmed(h) /\ ~handler[h].sheet.allowPartial =>
                \A i \in DOMAIN handler[h].sheet.rows :
                    LET row == handler[h].sheet.rows[i] IN
                    /\ item'[SlugOf[row.content]].content = row.content
                    /\ row.offer # NoOffer =>
                        curated'[SlugOf[row.content]][row.offer.link] # <<>>
<1>1. TypeInv => Whole
  <2> SUFFICES ASSUME TypeInv, NEW h \in Handlers, CommitImport(h), Confirmed(h),
                      ~handler[h].sheet.allowPartial, NEW i \in DOMAIN handler[h].sheet.rows
               PROVE  LET row == handler[h].sheet.rows[i] IN
                      /\ item'[SlugOf[row.content]].content = row.content
                      /\ row.offer # NoOffer =>
                            curated'[SlugOf[row.content]][row.offer.link] # <<>>
    OBVIOUS
  <2> DEFINE sheet == handler[h].sheet
             row == sheet.rows[i]
             s == SlugOf[row.content]
             l == row.offer.link
  <2>1. sheet \in Sheets /\ Rejected(sheet) = {}
    BY DEF CommitImport, TypeInv, PlansFollowSheets, FollowsSheet
  <2>2. row \in SheetRow
    BY <2>1, RowType
  <2>3. s \in Slugs
    BY <2>2, ConstantsAssumption DEF SheetRow
  <2>4. i \in AcceptedRows(sheet, s)
    <3>1. PICK t \in Slugs : i \in AcceptedRows(sheet, t)
      BY <2>1 DEF Rejected
    <3>2. t = s
      BY <3>1 DEF AcceptedRows, RowsFor
    <3> QED BY <3>1, <3>2
  <2>5. Current(sheet, handler[h].plan, s)
    BY <2>3 DEF Confirmed
  <2>6. item'[s].content = row.content
    <3>1. RowsFor(sheet, s) # {} /\ row.content = ContentFor(sheet, s)
      BY <2>4 DEF AcceptedRows
    <3> QED BY <2>3, <2>5, <3>1, ItemApplied
  <2>7. ASSUME row.offer # NoOffer PROVE curated'[s][l] # <<>>
    <3>1. l \in Links
      BY <2>2, <2>7 DEF SheetRow, Offer
    <3>2. OffersFor(sheet, s, l) # {}
      BY <2>4, <2>7 DEF OffersFor
    <3> QED BY <2>3, <2>5, <3>1, <3>2, LinkApplied
  <2> QED BY <2>6, <2>7
<1>2. TypeInv /\ [Next]_vars => [Whole]_vars
  BY <1>1
<1> QED BY <1>2, TypesKept, PTL DEF Spec, AllOrNothing

\* What the importer's page announces of a current plan is what the transaction
\* changes: an item is new or overwritten with something else ...
LEMMA ItemAnnounced ==
    ASSUME TypeInv, NEW h \in Handlers, CommitImport(h), NEW s \in Slugs,
           Current(handler[h].sheet, handler[h].plan, s)
    PROVE  s \in Announced(handler[h].plan).items <=> item'[s] # item[s]
<1> DEFINE sheet == handler[h].sheet
           action == handler[h].plan.item[s]
           saved == SavedItem(s, ContentFor(sheet, s))
<1>1. s \in Announced(handler[h].plan).items <=> action \in {"create", "update"}
  BY DEF Announced
<1>2. action = ItemAction(sheet, s)
  BY DEF Current
<1>3. item'[s] = IF action \in {"create", "update"} THEN saved ELSE item[s]
  BY CommitItem
<1>4. CASE action = "create"
  <2>1. item[s].status = "ABSENT" /\ saved.status = "ACTIVE"
    BY <1>2, <1>4 DEF ItemAction, SavedItem
  <2> QED BY <1>1, <1>3, <1>4, <2>1
<1>5. CASE action = "update"
  <2>1. item[s].content # ContentFor(sheet, s) /\ saved.content = ContentFor(sheet, s)
    BY <1>2, <1>5 DEF ItemAction, SavedItem
  <2> QED BY <1>1, <1>3, <1>5, <2>1
<1>6. CASE action \notin {"create", "update"}
  BY <1>1, <1>3, <1>6
<1> QED BY <1>4, <1>5, <1>6

\* ... and a link has one offer more.
LEMMA LinkAnnounced ==
    ASSUME TypeInv, NEW h \in Handlers, CommitImport(h), NEW s \in Slugs, NEW l \in Links,
           Current(handler[h].sheet, handler[h].plan, s)
    PROVE  <<s, l>> \in Announced(handler[h].plan).links <=>
                Len(curated'[s][l]) # Len(curated[s][l])
<1> DEFINE sheet == handler[h].sheet
           offers == curated[s][l]
           action == handler[h].plan.offer[s][l]
           price == PriceFor(sheet, s, l)
<1>1. <<s, l>> \in Announced(handler[h].plan).links <=> action = "create"
  BY DEF Announced
<1>2. offers \in Seq(Prices) /\ curated'[s][l] = SavedOffers(offers, action, price)
  BY CommitOffers
<1>3. CASE action = "create"
  <2>1. price \in Prices
    BY <1>3, PriceType DEF CommitImport, TypeInv, PlansFollowSheets, FollowsSheet
  <2>2. curated'[s][l] = Append(offers, price)
    BY <1>2, <1>3 DEF SavedOffers
  <2>3. Len(curated'[s][l]) = Len(offers) + 1 /\ Len(offers) \in Nat
    BY <1>2, <2>1, <2>2
  <2> QED BY <1>1, <1>3, <2>3
<1>4. CASE action = "update"
  <2>1. curated'[s][l] = [i \in DOMAIN offers |-> price]
    BY <1>2, <1>4 DEF SavedOffers
  <2>2. Len(curated'[s][l]) = Len(offers)
    BY <1>2, <2>1
  <2> QED BY <1>1, <1>4, <2>2
<1>5. CASE action \notin {"create", "update"}
  <2>1. curated'[s][l] = offers
    BY <1>2, <1>5 DEF SavedOffers
  <2> QED BY <1>1, <1>5, <2>1
<1> QED BY <1>3, <1>4, <1>5

\* An import that is applied as planned leaves the catalogue as its sheet says,
\* and has changed what it announced.
THEOREM ImportsConverge == Spec => ImportConverges
<1> DEFINE Converges ==
        \A h \in Handlers : CommitImport(h) /\ Confirmed(h) =>
            \A s \in Slugs :
                /\ RowsFor(handler[h].sheet, s) # {} =>
                    item'[s].content = ContentFor(handler[h].sheet, s)
                /\ \A l \in Links : OffersFor(handler[h].sheet, s, l) # {} =>
                    curated'[s][l] = <<PriceFor(handler[h].sheet, s, l)>>
                /\ s \in Announced(handler[h].plan).items <=> item'[s] # item[s]
                /\ \A l \in Links : <<s, l>> \in Announced(handler[h].plan).links <=>
                    Len(curated'[s][l]) # Len(curated[s][l])
<1>1. TypeInv /\ LinkedOnce => Converges
  <2> SUFFICES ASSUME TypeInv, LinkedOnce, NEW h \in Handlers, CommitImport(h), Confirmed(h),
                      NEW s \in Slugs
               PROVE  /\ RowsFor(handler[h].sheet, s) # {} =>
                            item'[s].content = ContentFor(handler[h].sheet, s)
                      /\ \A l \in Links : OffersFor(handler[h].sheet, s, l) # {} =>
                            curated'[s][l] = <<PriceFor(handler[h].sheet, s, l)>>
                      /\ s \in Announced(handler[h].plan).items <=> item'[s] # item[s]
                      /\ \A l \in Links : <<s, l>> \in Announced(handler[h].plan).links <=>
                            Len(curated'[s][l]) # Len(curated[s][l])
    OBVIOUS
  <2>1. Current(handler[h].sheet, handler[h].plan, s)
    BY DEF Confirmed
  <2>2. \A l \in Links : Len(curated[s][l]) <= 1
    BY DEF LinkedOnce, Confirmed
  <2>3. RowsFor(handler[h].sheet, s) # {} =>
            item'[s].content = ContentFor(handler[h].sheet, s)
    BY <2>1, ItemApplied
  <2>4. \A l \in Links : OffersFor(handler[h].sheet, s, l) # {} =>
            curated'[s][l] = <<PriceFor(handler[h].sheet, s, l)>>
    BY <2>1, <2>2, LinkApplied
  <2>5. s \in Announced(handler[h].plan).items <=> item'[s] # item[s]
    BY <2>1, ItemAnnounced
  <2>6. \A l \in Links : <<s, l>> \in Announced(handler[h].plan).links <=>
            Len(curated'[s][l]) # Len(curated[s][l])
    BY <2>1, LinkAnnounced
  <2> QED BY <2>3, <2>4, <2>5, <2>6
<1>2. TypeInv /\ LinkedOnce /\ [Next]_vars => [Converges]_vars
  BY <1>1
<1> QED BY <1>2, TypesKept, LinksUnique, PTL DEF Spec, ImportConverges

\* No import stamps an offer whose price it leaves as it is.
THEOREM StampsMeanPrices == Spec => StampedIsRepriced
<1> DEFINE Honest ==
        \A h \in Handlers : CommitImport(h) /\ Confirmed(h) =>
            \A s \in Slugs, l \in Links :
                handler[h].plan.offer[s][l] = "update" => curated'[s][l] # curated[s][l]
<1>1. TypeInv => Honest
  <2> SUFFICES ASSUME TypeInv, NEW h \in Handlers, CommitImport(h), Confirmed(h),
                      NEW s \in Slugs, NEW l \in Links, handler[h].plan.offer[s][l] = "update"
               PROVE  curated'[s][l] # curated[s][l]
    OBVIOUS
  <2> DEFINE price == PriceFor(handler[h].sheet, s, l)
  <2>1. "update" \in OfferActions(handler[h].sheet, s, l)
    BY DEF Confirmed, Current
  <2>2. PICK i \in DOMAIN curated[s][l] : curated[s][l][i] # price
    BY <2>1 DEF OfferActions
  <2>3. curated'[s][l] = [j \in DOMAIN curated[s][l] |-> price]
    BY CommitOffers DEF SavedOffers
  <2> QED BY <2>2, <2>3
<1>2. TypeInv /\ [Next]_vars => [Honest]_vars
  BY <1>1
<1> QED BY <1>2, TypesKept, PTL DEF Spec, StampedIsRepriced
=============================================================================
