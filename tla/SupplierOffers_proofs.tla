------------------------- MODULE SupplierOffers_proofs -------------------------
(***************************************************************************)
(* What is proved of SupplierOffers for any suppliers, offers, tabs and    *)
(* administrators: its types, that the last word a supplier hears is true, *)
(* that a guarded supplier has one live offer per slot, that ages are      *)
(* honest, and that it implements Shelf.                                   *)
(***************************************************************************)
EXTENDS SupplierOffers, TLAPS

LEMMA Patchable ==
    ASSUME TypeOK, NEW t \in Tabs, tab[t] # NoTab
    PROVE  /\ tab[t].supplier \in Suppliers
           /\ tab[t].pc = "page" => /\ tab[t].offer \in Offers
                                    /\ tab[t].row.price \in Prices
                                    /\ tab[t].row.isActive \in BOOLEAN
           /\ tab[t].pc = "insert" => tab[t].row \in OfferRows
           /\ tab[t].pc \in {"page", "insert"}
BY DEF TypeOK, TabStates

\* What the time of a check changes of a row.
LEMMA Stamped ==
    ASSUME NEW row \in OfferRows, NEW given
    PROVE  /\ Stamp(row, given) \in OfferRows
           /\ Stamp(row, given).item = row.item /\ Stamp(row, given).market = row.market
           /\ Stamp(row, given).isActive = row.isActive
BY DEF OfferRows, Stamp

\* A page shows an offer that exists; a tab that inserts may do so.
PageShows(t) ==
  tab[t] # NoTab => /\ tab[t].pc = "page" => /\ offer[tab[t].offer] # NoOffer
                                             /\ OwnerOf(tab[t].offer) = tab[t].supplier
                    /\ tab[t].pc = "insert" => tab[t].row.isActive

\* What a step may write to one offer of supplier s.
Patching(t, row, given) ==
  /\ tab[t] # NoTab /\ tab[t].pc = "page"
  /\ row \in OfferRows
  /\ PatchOffer(t, row, given)

LEMMA PatchForms ==
    ASSUME TypeOK, NEW t \in Tabs, PageShows(t),
           \/ Recheck(t) \/ ToggleActive(t)
           \/ \E p \in Prices : SaveEdit(t, p)
           \/ \E m \in Markets : MoveOffer(t, m)
    PROVE  \E row \in OfferRows, given \in SUBSET {"checked", "isActive", "url", "price", "market"} :
             /\ Patching(t, row, given)
             /\ row.item = offer[tab[t].offer].item
             /\ "market" \notin given => row.market = offer[tab[t].offer].market
             /\ "isActive" \notin given => row.isActive = offer[tab[t].offer].isActive
<1> DEFINE old == offer[tab[t].offer]
<1>1. tab[t] # NoTab /\ tab[t].pc = "page"
  BY DEF Recheck, ToggleActive, SaveEdit, MoveOffer, PatchOffer
<1>2. old \in OfferRows
  BY <1>1, Patchable DEF TypeOK, PageShows
<1>3. tab[t].row.isActive \in BOOLEAN
  BY <1>1, Patchable
<1>4. CASE Recheck(t)
  BY <1>1, <1>2, <1>4 DEF Recheck, Patching
<1>5. CASE ToggleActive(t)
  <2>1. [old EXCEPT !.isActive = ~tab[t].row.isActive] \in OfferRows
    BY <1>2, <1>3 DEF OfferRows
  <2> QED BY <1>1, <1>2, <1>5, <2>1 DEF ToggleActive, Patching, OfferRows
<1>6. ASSUME NEW p \in Prices, SaveEdit(t, p) PROVE 
        \E row \in OfferRows, given \in SUBSET {"checked", "isActive", "url", "price", "market"} :
             /\ Patching(t, row, given)
             /\ row.item = offer[tab[t].offer].item
             /\ "market" \notin given => row.market = offer[tab[t].offer].market
             /\ "isActive" \notin given => row.isActive = offer[tab[t].offer].isActive
  <2>1. [old EXCEPT !.price = p] \in OfferRows
    BY <1>2 DEF OfferRows
  <2>2. CASE p = tab[t].row.price
    BY <1>1, <1>2, <1>6, <2>2 DEF SaveEdit, Patching
  <2>3. CASE p # tab[t].row.price
    BY <1>1, <1>2, <1>6, <2>1, <2>3 DEF SaveEdit, Patching, OfferRows
  <2> QED BY <2>2, <2>3
<1>7. ASSUME NEW m \in Markets, MoveOffer(t, m) PROVE 
        \E row \in OfferRows, given \in SUBSET {"checked", "isActive", "url", "price", "market"} :
             /\ Patching(t, row, given)
             /\ row.item = offer[tab[t].offer].item
             /\ "market" \notin given => row.market = offer[tab[t].offer].market
             /\ "isActive" \notin given => row.isActive = offer[tab[t].offer].isActive
  <2>1. [old EXCEPT !.market = m] \in OfferRows
    BY <1>2 DEF OfferRows
  <2> QED BY <1>1, <1>2, <1>7, <2>1 DEF MoveOffer, Patching, OfferRows
<1> QED BY <1>4, <1>5, <1>6, <1>7

-----------------------------------------------------------------------------
(* The invariant.                                                          *)

\* Who owes a supplier the last word, and what the word will be.
WordState(s) ==
  s \notin doubtful =>
    /\ \A a, b \in Admins : Owes(a, s) /\ Owes(b, s) => a = b
    /\ \A a \in Admins : Owes(a, s) => admin[a].canPublish = supplier[s].canPublish
    /\ (\A a \in Admins : ~Owes(a, s)) => ((told[s] = "live") <=> supplier[s].canPublish)

LiveOf(o, s) == OwnerOf(o) = s /\ offer[o] # NoOffer /\ offer[o].isActive

\* The slot of an insert under way is free, and there is one such insert.
SlotState(s) ==
  s \notin unguarded =>
    /\ \A t, x \in Tabs : Inserting(t, s) /\ Inserting(x, s) => t = x
    /\ \A t \in Tabs, o \in Offers : Inserting(t, s) /\ LiveOf(o, s) =>
         ~(offer[o].item = tab[t].row.item /\ offer[o].market = tab[t].row.market)
    /\ \A a, b \in Offers : LiveOf(a, s) /\ LiveOf(b, s) =>
         (offer[a].item = offer[b].item /\ offer[a].market = offer[b].market => a = b)

IInv ==
  /\ TypeOK
  /\ \A t \in Tabs : PageShows(t)
  /\ \A s \in Suppliers : WordState(s) /\ SlotState(s)

LEMMA WordUnchanged ==
    ASSUME IInv, UNCHANGED <<supplier, admin, told, doubtful>>
    PROVE  \A s \in Suppliers : WordState(s)'
BY DEF IInv, WordState, Owes

LEMMA SlotUnchanged ==
    ASSUME IInv, UNCHANGED <<offer, tab, unguarded>>
    PROVE  /\ \A s \in Suppliers : SlotState(s)'
           /\ \A t \in Tabs : PageShows(t)'
BY DEF IInv, SlotState, Inserting, LiveOf, PageShows

LEMMA InitHolds == Init => IInv
<1> SUFFICES ASSUME Init PROVE IInv
  OBVIOUS
<1>1. \A o \in Offers : offer[o] \in OfferRows \/ (offer[o] = NoOffer /\ OwnerOf(o) # Curated)
  BY DEF Init, OfferRows
<1>2. \A o \in Offers : OwnerOf(o) \in Suppliers => offer[o] = NoOffer
  BY NullsAssumption DEF Init
<1>3. TypeOK
  BY <1>1 DEF Init, TypeOK, SupplierRows
<1>4. ASSUME NEW s \in Suppliers PROVE WordState(s) /\ SlotState(s)
  <2>1. \A t \in Tabs : ~Inserting(t, s)
    BY DEF Init, Inserting
  <2>2. \A o \in Offers : ~LiveOf(o, s)
    BY <1>2 DEF LiveOf
  <2>3. /\ told[s] = "nothing" /\ supplier[s].canPublish = FALSE
        /\ \A a \in Admins : ~Owes(a, s)
    BY DEF Init, AdminIdle, Owes
  <2> QED BY <2>1, <2>2, <2>3 DEF WordState, SlotState
<1>5. \A t \in Tabs : PageShows(t)
  BY DEF Init, PageShows
<1> QED BY <1>3, <1>4, <1>5 DEF IInv

-----------------------------------------------------------------------------
(* The administrators' steps.                                              *)
LEMMA AdministerHolds == ASSUME IInv, NEW a \in Admins, SuppliersManager(a) PROVE IInv'
<1>0. TypeOK /\ \A s \in Suppliers : WordState(s)
  BY DEF IInv
<1>1. UNCHANGED <<offer, tab, unguarded, item>>
  BY DEF SuppliersManager, ApproveDialog, WithdrawDialog, LoadSuppliers, Decide, NotifyDecision,
      LoseNotice
<1>2. ASSUME NEW s \in Suppliers, LoadSuppliers(a, s) PROVE IInv'
  <2> DEFINE p == [pc |-> "page", supplier |-> s, canPublish |-> supplier[s].canPublish]
  <2>1. p \in AdminStates /\ p.pc = "page"
    BY <1>0 DEF TypeOK, SupplierRows, AdminStates
  <2>2. admin' = [admin EXCEPT ![a] = p] /\ UNCHANGED <<supplier, told, doubtful>>
    BY <1>2 DEF LoadSuppliers
  <2> HIDE DEF p
  <2>3. TypeOK'
    BY <1>0, <1>1, <2>1, <2>2 DEF TypeOK
  <2>4. \A z \in Suppliers, b \in Admins : Owes(b, z)' <=> Owes(b, z)
    BY <1>0, <1>2, <2>1, <2>2 DEF Owes, TypeOK, LoadSuppliers
  <2>5. \A z \in Suppliers, b \in Admins : Owes(b, z) => admin'[b] = admin[b]
    BY <1>0, <1>2, <2>2 DEF Owes, TypeOK, LoadSuppliers
  <2>6. \A z \in Suppliers : WordState(z)'
    BY <1>0, <2>2, <2>4, <2>5 DEF WordState
  <2> QED BY <1>1, <2>3, <2>6, SlotUnchanged DEF IInv
<1> DEFINE s == admin[a].supplier
<1>3. ASSUME NEW d \in BOOLEAN, Decide(a, d) PROVE IInv'
  <2> DEFINE p == [admin[a] EXCEPT !.pc = "notify", !.canPublish = d]
  <2>1. admin[a] \in AdminStates /\ s \in Suppliers /\ d \in BOOLEAN
    BY <1>0, <1>3 DEF Decide, TypeOK, AdminIdle, AdminStates
  <2>2. p \in AdminStates /\ p.pc = "notify" /\ p.supplier = s /\ p.canPublish = d
    BY <2>1 DEF AdminStates
  <2>3. /\ admin' = [admin EXCEPT ![a] = p] /\ UNCHANGED told
        /\ supplier' = [supplier EXCEPT ![s].canPublish = d]
        /\ doubtful' = IF \E b \in Admins : Owes(b, s)
                       THEN doubtful \union {s} ELSE doubtful \ {s}
        /\ admin[a].pc = "page"
    BY <1>3 DEF Decide
  <2> HIDE DEF p
  <2>4. /\ supplier' \in [Suppliers -> SupplierRows] /\ supplier'[s].canPublish = d
        /\ \A z \in Suppliers \ {s} : supplier'[z] = supplier[z]
    <3> HIDE DEF s
    <3>1. [supplier[s] EXCEPT !.canPublish = d] \in SupplierRows
      BY <1>0, <2>1 DEF TypeOK, SupplierRows
    <3> QED BY <1>0, <2>1, <2>3, <3>1 DEF TypeOK, SupplierRows
  <2>5. TypeOK'
    BY <1>0, <1>1, <2>1, <2>2, <2>3, <2>4 DEF TypeOK
  <2>6. admin'[a] = p /\ \A b \in Admins \ {a} : admin'[b] = admin[b]
    BY <1>0, <2>3 DEF TypeOK
  <2>7. ASSUME NEW z \in Suppliers PROVE WordState(z)'
    <3>1. CASE z # s
      <4>1. \A b \in Admins : Owes(b, z)' <=> Owes(b, z)
        BY <2>2, <2>3, <2>6, <3>1 DEF Owes
      <4>2. z \in doubtful' <=> z \in doubtful
        BY <2>3, <3>1
      <4> QED BY <1>0, <2>3, <2>4, <2>6, <3>1, <4>1, <4>2 DEF WordState, Owes
    <3>2. CASE z = s /\ s \notin doubtful'
      <4>1. \A b \in Admins : ~Owes(b, s)
        BY <2>3, <3>2
      <4>2. \A b \in Admins : Owes(b, z)' <=> b = a
        BY <2>2, <2>6, <3>2, <4>1 DEF Owes
      <4>3. admin'[a].canPublish = d /\ supplier'[z].canPublish = d
        BY <2>2, <2>4, <2>6, <3>2, Zenon
      <4>4. admin'[a].canPublish = supplier'[z].canPublish
        BY <4>3, Zenon
      <4>5. /\ \A b, c \in Admins : Owes(b, z)' /\ Owes(c, z)' => b = c
            /\ \E b \in Admins : Owes(b, z)'
        BY <3>2, <4>2
      <4>6. \A b \in Admins : Owes(b, z)' => admin'[b].canPublish = supplier'[z].canPublish
        BY <3>2, <4>2, <4>4, Zenon
      <4> QED BY <4>5, <4>6, Zenon DEF WordState
    <3> QED BY <3>1, <3>2 DEF WordState
  <2> QED BY <1>1, <2>5, <2>7, SlotUnchanged DEF IInv
<1>4. CASE NotifyDecision(a)
  <2>1. /\ admin' = [admin EXCEPT ![a] = AdminIdle] /\ UNCHANGED <<supplier, doubtful>>
        /\ told' = [told EXCEPT ![s] = IF admin[a].canPublish THEN "live" ELSE "withdrawn"]
        /\ Owes(a, s) /\ s \in Suppliers
    BY <1>0, <1>4 DEF NotifyDecision, Owes, TypeOK, AdminIdle, AdminStates
  <2> HIDE DEF s
  <2>2. TypeOK'
    BY <1>0, <1>1, <2>1 DEF TypeOK
  <2>3. /\ told'[s] = IF admin[a].canPublish THEN "live" ELSE "withdrawn"
        /\ \A z \in Suppliers \ {s} : told'[z] = told[z]
        /\ admin'[a].pc = "idle" /\ \A b \in Admins \ {a} : admin'[b] = admin[b]
    BY <1>0, <2>1 DEF TypeOK, AdminIdle
  <2>4. ASSUME NEW z \in Suppliers, z \notin doubtful' PROVE WordState(z)'
    <3>1. \A b \in Admins : Owes(b, z)' <=> Owes(b, z) /\ b # a
      BY <2>3 DEF Owes
    <3>2. z \notin doubtful /\ WordState(z)
      BY <1>0, <2>1, <2>4
    <3>3. CASE z # s
      <4>1. ~Owes(a, z)
        BY <2>1, <3>3 DEF Owes
      <4> QED BY <2>1, <2>3, <3>1, <3>2, <3>3, <4>1 DEF WordState
    <3>4. CASE z = s
      <4>1. \A b \in Admins : ~Owes(b, z)'
        BY <2>1, <3>1, <3>2, <3>4 DEF WordState
      <4>2. admin[a].canPublish = supplier'[s].canPublish
        BY <2>1, <3>2, <3>4 DEF WordState
      <4>3. admin[a].canPublish \in BOOLEAN
        <5>1. admin[a] \in AdminStates \union {AdminIdle}
          BY <1>0 DEF TypeOK
        <5>2. admin[a] # AdminIdle
          BY <2>1 DEF Owes, AdminIdle
        <5>3. admin[a] \in AdminStates
          BY <5>1, <5>2
        <5> QED BY <5>3 DEF AdminStates
      <4>4. (told'[s] = "live") <=> supplier'[s].canPublish
        <5>1. CASE admin[a].canPublish = TRUE
          BY <2>3, <4>2, <5>1
        <5>2. CASE admin[a].canPublish = FALSE
          BY <2>3, <4>2, <5>2
        <5> QED BY <4>3, <5>1, <5>2
      <4> QED BY <3>4, <4>1, <4>4 DEF WordState
    <3> QED BY <3>3, <3>4
  <2> QED BY <1>1, <2>2, <2>4, SlotUnchanged DEF IInv, WordState
<1>5. CASE LoseNotice(a)
  <2>1. /\ admin' = [admin EXCEPT ![a] = AdminIdle] /\ UNCHANGED <<supplier, told>>
        /\ doubtful' = doubtful \union {s}
        /\ Owes(a, s) /\ s \in Suppliers
    BY <1>0, <1>5 DEF LoseNotice, Owes, TypeOK, AdminIdle, AdminStates
  <2> HIDE DEF s
  <2>2. TypeOK'
    BY <1>0, <1>1, <2>1 DEF TypeOK
  <2>3. admin'[a].pc = "idle" /\ \A b \in Admins \ {a} : admin'[b] = admin[b]
    BY <1>0, <2>1 DEF TypeOK, AdminIdle
  <2>4. ASSUME NEW z \in Suppliers, z \notin doubtful' PROVE WordState(z)'
    <3>1. z # s /\ WordState(z) /\ z \notin doubtful
      BY <1>0, <2>1, <2>4
    <3>2. ~Owes(a, z)
      BY <2>1, <3>1 DEF Owes
    <3>3. \A b \in Admins : Owes(b, z)' <=> Owes(b, z)
      BY <2>3, <3>2 DEF Owes
    <3> QED BY <2>1, <2>3, <3>1, <3>2, <3>3 DEF WordState
  <2> QED BY <1>1, <2>2, <2>4, SlotUnchanged DEF IInv, WordState
<1> QED BY <1>2, <1>3, <1>4, <1>5 DEF SuppliersManager, ApproveDialog, WithdrawDialog

-----------------------------------------------------------------------------
(* The suppliers' steps.                                                   *)

\* Nothing new is live for supplier z and nothing new is being inserted.
LEMMA SlotShrinks ==
    ASSUME NEW z \in Suppliers, SlotState(z), unguarded \subseteq unguarded',
           \A o \in Offers : LiveOf(o, z)' =>
             /\ LiveOf(o, z)
             /\ offer'[o].item = offer[o].item /\ offer'[o].market = offer[o].market,
           \A x \in Tabs : Inserting(x, z)' => Inserting(x, z) /\ tab'[x] = tab[x]
    PROVE  SlotState(z)'
BY DEF SlotState

LEMMA LoadOffersHolds ==
    ASSUME IInv, NEW t \in Tabs, NEW s \in Suppliers, LoadOffers(t, s)
    PROVE  IInv'
<1>0. TypeOK /\ \A x \in Tabs : PageShows(x)
  BY DEF IInv
<1>1. PICK o \in Own(s) : offer[o] # NoOffer /\ tab' = [tab EXCEPT ![t] = Page(s, o, Rendered(o))]
  BY DEF LoadOffers
<1>2. UNCHANGED <<supplier, item, offer, admin, told, doubtful, unguarded>>
  BY DEF LoadOffers
<1> DEFINE p == Page(s, o, Rendered(o))
<1>3. /\ o \in Offers /\ OwnerOf(o) = s /\ offer[o] \in OfferRows
      /\ p \in TabStates /\ p.pc = "page" /\ p.offer = o /\ p.supplier = s
  <2>1. o \in Offers /\ OwnerOf(o) = s
    BY DEF Own
  <2>2. offer[o] \in OfferRows
    BY <1>0, <1>1, <2>1 DEF TypeOK
  <2>3. Rendered(o) \in [price: Prices, isActive: BOOLEAN]
    BY <2>2 DEF Rendered, OfferRows
  <2> QED BY <2>1, <2>2, <2>3 DEF Page, TabStates
<1> HIDE DEF p
<1>4. tab'[t] = p /\ \A x \in Tabs \ {t} : tab'[x] = tab[x]
  BY <1>0, <1>1 DEF TypeOK, p
<1>5. TypeOK'
  BY <1>0, <1>1, <1>2, <1>3 DEF TypeOK, p
<1>6. \A x \in Tabs : PageShows(x)'
  BY <1>0, <1>1, <1>2, <1>3, <1>4 DEF PageShows
<1>7. \A z \in Suppliers : SlotState(z)'
  <2>1. \A z \in Suppliers, x \in Tabs : Inserting(x, z)' => Inserting(x, z) /\ tab'[x] = tab[x]
    BY <1>3, <1>4 DEF Inserting
  <2>2. \A z \in Suppliers, x \in Offers : LiveOf(x, z)' => LiveOf(x, z)
    BY <1>2 DEF LiveOf
  <2> QED BY <1>2, <2>1, <2>2, SlotShrinks DEF IInv
<1> QED BY <1>2, <1>5, <1>6, <1>7, WordUnchanged DEF IInv

LEMMA CreateOfferHolds ==
    ASSUME IInv, NEW t \in Tabs, NEW s \in Suppliers, NEW i \in Items, NEW m \in Markets,
           NEW c \in Prices, CreateOffer(t, s, i, m, c)
    PROVE  IInv'
<1>0. TypeOK /\ \A x \in Tabs : PageShows(x)
  BY DEF IInv
<1> DEFINE r == [item |-> i, market |-> m, price |-> c, isActive |-> TRUE, checked |-> "fresh"]
           p == Insert(s, r)
<1>1. /\ tab[t] = NoTab /\ tab' = [tab EXCEPT ![t] = p] /\ Live(s, i, m) = {}
      /\ unguarded' = IF \E x \in Tabs : Inserting(x, s) THEN unguarded \union {s} ELSE unguarded
      /\ UNCHANGED <<supplier, item, offer, admin, told, doubtful>>
  BY DEF CreateOffer
<1>2. /\ p \in TabStates /\ p.pc = "insert" /\ p.supplier = s /\ p.row.isActive
      /\ p.row.item = i /\ p.row.market = m
  BY DEF Insert, TabStates, OfferRows
<1> HIDE DEF p
<1>3. tab'[t] = p /\ \A x \in Tabs \ {t} : tab'[x] = tab[x]
  BY <1>0, <1>1 DEF TypeOK
<1>4. TypeOK'
  BY <1>0, <1>1, <1>2 DEF TypeOK
<1>5. \A x \in Tabs : PageShows(x)'
  BY <1>0, <1>1, <1>2, <1>3 DEF PageShows
<1>6. ASSUME NEW z \in Suppliers PROVE SlotState(z)'
  <2>1. SlotState(z) /\ \A x \in Offers : LiveOf(x, z)' <=> LiveOf(x, z)
    BY <1>1 DEF IInv, LiveOf
  <2>2. CASE z # s
    <3>1. \A x \in Tabs : Inserting(x, z)' => Inserting(x, z) /\ tab'[x] = tab[x]
      BY <1>2, <1>3, <2>2 DEF Inserting
    <3> QED BY <1>1, <2>1, <3>1, SlotShrinks
  <2>3. CASE z = s /\ s \notin unguarded'
    <3>1. s \notin unguarded /\ \A x \in Tabs : ~Inserting(x, s)
      BY <1>1, <2>3
    <3>2. \A x \in Tabs : Inserting(x, s)' => x = t
      BY <1>3, <3>1 DEF Inserting
    <3>3. \A x \in Offers : LiveOf(x, s) => ~(offer[x].item = i /\ offer[x].market = m)
      BY <1>1 DEF Live, LiveOf, Own
    <3> QED BY <1>1, <1>2, <1>3, <2>1, <2>3, <3>1, <3>2, <3>3 DEF SlotState
  <2> QED BY <2>2, <2>3 DEF SlotState
<1> QED BY <1>1, <1>4, <1>5, <1>6, WordUnchanged DEF IInv

LEMMA InsertOfferHolds ==
    ASSUME IInv, NEW t \in Tabs, InsertOffer(t)
    PROVE  IInv'
<1>0. TypeOK /\ \A x \in Tabs : PageShows(x)
  BY DEF IInv
<1> DEFINE s == tab[t].supplier
           row == tab[t].row
<1>1. PICK o \in Own(s) : offer[o] = NoOffer /\ offer' = [offer EXCEPT ![o] = row]
  BY DEF InsertOffer
<1>2. /\ tab[t] # NoTab /\ tab[t].pc = "insert" /\ tab' = [tab EXCEPT ![t] = NoTab]
      /\ UNCHANGED <<supplier, item, admin, told, doubtful, unguarded>>
  BY DEF InsertOffer
<1>3. /\ s \in Suppliers /\ row \in OfferRows /\ row.isActive /\ Inserting(t, s)
      /\ o \in Offers /\ OwnerOf(o) = s /\ row # NoOffer
  BY <1>0, <1>2, Patchable, NoOfferAssumption DEF PageShows, Inserting, Own
<1>4. /\ offer'[o] = row /\ \A x \in Offers \ {o} : offer'[x] = offer[x]
      /\ tab'[t] = NoTab /\ \A x \in Tabs \ {t} : tab'[x] = tab[x]
  BY <1>0, <1>1, <1>2, <1>3 DEF TypeOK
<1>8. \A x \in Tabs, z \in Suppliers : Inserting(x, z)' => x # t /\ Inserting(x, z)
  BY <1>4 DEF Inserting
<1> HIDE DEF s, row
<1>5. TypeOK'
  BY <1>0, <1>1, <1>2, <1>3 DEF TypeOK
<1>6. \A x \in Tabs : PageShows(x)'
  BY <1>0, <1>1, <1>3, <1>4 DEF PageShows
<1>7. ASSUME NEW z \in Suppliers PROVE SlotState(z)'
  <2>1. SlotState(z)
    BY DEF IInv
  <2>2. CASE z # s
    <3>1. \A x \in Offers : LiveOf(x, z)' => LiveOf(x, z) /\ offer'[x] = offer[x]
      BY <1>3, <1>4, <2>2 DEF LiveOf
    <3> QED BY <1>2, <1>4, <1>8, <2>1, <3>1, SlotShrinks
  <2>3. CASE z = s /\ z \notin unguarded
    <3>1. \A x \in Tabs : ~Inserting(x, z)'
      BY <1>3, <1>8, <2>1, <2>3 DEF SlotState
    <3>2. \A x \in Offers \ {o} : LiveOf(x, z)' => LiveOf(x, z) /\ offer'[x] = offer[x]
      BY <1>4 DEF LiveOf
    <3>3. \A x \in Offers \ {o} : LiveOf(x, z)' =>
            ~(offer'[x].item = row.item /\ offer'[x].market = row.market)
      BY <1>3, <2>1, <2>3, <3>2 DEF SlotState, row
    <3>4. \A x, y \in Offers \ {o} : LiveOf(x, z)' /\ LiveOf(y, z)' =>
            (offer'[x].item = offer'[y].item /\ offer'[x].market = offer'[y].market => x = y)
      BY <2>1, <2>3, <3>2 DEF SlotState
    <3>5. \A x, y \in Offers : LiveOf(x, z)' /\ LiveOf(y, z)' =>
            (offer'[x].item = offer'[y].item /\ offer'[x].market = offer'[y].market => x = y)
      BY <1>4, <3>3, <3>4
    <3> QED BY <1>2, <2>3, <3>1, <3>5 DEF SlotState
  <2> QED BY <1>2, <2>2, <2>3 DEF SlotState
<1> QED BY <1>2, <1>5, <1>6, <1>7, WordUnchanged DEF IInv

LEMMA PatchHolds ==
    ASSUME IInv, NEW t \in Tabs,
           \/ Recheck(t) \/ ToggleActive(t)
           \/ \E p \in Prices : SaveEdit(t, p)
           \/ \E m \in Markets : MoveOffer(t, m)
    PROVE  IInv'
<1>0. TypeOK /\ \A x \in Tabs : PageShows(x)
  BY DEF IInv
<1>1. PICK row \in OfferRows, given \in SUBSET {"checked", "isActive", "url", "price", "market"} :
        /\ Patching(t, row, given)
        /\ row.item = offer[tab[t].offer].item
        /\ "market" \notin given => row.market = offer[tab[t].offer].market
        /\ "isActive" \notin given => row.isActive = offer[tab[t].offer].isActive
  BY <1>0, PatchForms
<1> DEFINE s == tab[t].supplier
           o == tab[t].offer
           new == Stamp(row, given)
<1>2. /\ tab[t] # NoTab /\ tab[t].pc = "page"
      /\ offer' = [offer EXCEPT ![o] = new]
      /\ tab' = [tab EXCEPT ![t] = NoTab]
      /\ unguarded' = IF "market" \in given \/ ("isActive" \in given /\ row.isActive)
                      THEN unguarded \union {s} ELSE unguarded
      /\ UNCHANGED <<supplier, item, admin, told, doubtful>>
  BY <1>1 DEF Patching, PatchOffer
<1>3. /\ s \in Suppliers /\ o \in Offers /\ OwnerOf(o) = s /\ offer[o] # NoOffer
  BY <1>0, <1>2, Patchable DEF PageShows
<1>4. /\ new \in OfferRows /\ new # NoOffer /\ new.item = row.item /\ new.market = row.market
      /\ new.isActive = row.isActive
  <2>1. /\ new \in OfferRows /\ new.item = row.item /\ new.market = row.market
        /\ new.isActive = row.isActive
    BY Stamped
  <2> HIDE DEF new
  <2> QED BY <2>1, NoOfferAssumption
<1> HIDE DEF s, o, new
<1>5. /\ offer'[o] = new /\ \A x \in Offers \ {o} : offer'[x] = offer[x]
      /\ tab'[t] = NoTab /\ \A x \in Tabs \ {t} : tab'[x] = tab[x]
  BY <1>0, <1>2, <1>3 DEF TypeOK
<1>6. TypeOK'
  BY <1>0, <1>2, <1>3, <1>4 DEF TypeOK
<1>7. \A x \in Tabs : PageShows(x)'
  <2> SUFFICES ASSUME NEW x \in Tabs \ {t}, tab[x] # NoTab PROVE PageShows(x)'
    BY <1>5 DEF PageShows
  <2>1. tab[x].pc = "page" => offer'[tab[x].offer] # NoOffer
    BY <1>0, <1>4, <1>5, Patchable DEF PageShows
  <2> QED BY <1>0, <1>5, <2>1 DEF PageShows
<1>8. \A x \in Tabs, z \in Suppliers : Inserting(x, z)' => Inserting(x, z) /\ tab'[x] = tab[x]
  BY <1>5 DEF Inserting
<1>9. ASSUME NEW z \in Suppliers PROVE SlotState(z)'
  <2>1. SlotState(z)
    BY DEF IInv
  <2>2. CASE z # s
    <3>1. \A x \in Offers : LiveOf(x, z)' => LiveOf(x, z) /\ offer'[x] = offer[x]
      BY <1>3, <1>5, <2>2 DEF LiveOf
    <3> QED BY <1>2, <1>8, <2>1, <3>1, SlotShrinks
  <2>3. CASE z = s /\ z \notin unguarded'
    <3>1. "market" \notin given /\ ("isActive" \in given => ~row.isActive) /\ s \notin unguarded
      BY <1>2, <2>3
    <3>2. /\ row.market = offer[o].market /\ row.item = offer[o].item
          /\ row.isActive => offer[o].isActive
      BY <1>1, <3>1 DEF o
    <3>3. \A x \in Offers : LiveOf(x, z)' =>
            /\ LiveOf(x, z)
            /\ offer'[x].item = offer[x].item /\ offer'[x].market = offer[x].market
      BY <1>3, <1>4, <1>5, <2>3, <3>2 DEF LiveOf
    <3> QED BY <1>2, <1>8, <2>1, <2>3, <3>3, SlotShrinks
  <2> QED BY <2>2, <2>3 DEF SlotState
<1> QED BY <1>2, <1>6, <1>7, <1>9, WordUnchanged DEF IInv

LEMMA ItemHolds ==
    ASSUME IInv, NEW i \in Items, NEW active \in BOOLEAN, PatchItem(i, active)
    PROVE  IInv'
<1>1. TypeOK'
  BY DEF IInv, TypeOK, PatchItem
<1> QED BY <1>1, WordUnchanged, SlotUnchanged DEF PatchItem, IInv

LEMMA TickHolds == ASSUME IInv, Tick PROVE IInv'
<1>0. TypeOK /\ \A x \in Tabs : PageShows(x)
  BY DEF IInv
<1>1. \A o \in Offers :
        /\ offer[o] = NoOffer => offer'[o] = NoOffer
        /\ offer[o] # NoOffer => /\ offer'[o] \in OfferRows
                                 /\ offer'[o].item = offer[o].item
                                 /\ offer'[o].market = offer[o].market
                                 /\ offer'[o].isActive = offer[o].isActive
  BY <1>0 DEF TypeOK, Tick, OfferRows
<1>2. UNCHANGED <<supplier, item, tab, admin, told, doubtful, unguarded>>
  BY DEF Tick
<1>3. offer' \in [Offers -> OfferRows \union {NoOffer}]
  <2>1. \A o \in Offers : offer'[o] \in OfferRows \union {NoOffer}
    BY <1>1
  <2> QED BY <2>1 DEF Tick
<1>4. TypeOK'
  BY <1>0, <1>2, <1>3 DEF TypeOK
<1>5. \A x \in Tabs : PageShows(x)'
  <2> SUFFICES ASSUME NEW x \in Tabs, tab[x] # NoTab, tab[x].pc = "page"
               PROVE  offer'[tab[x].offer] # NoOffer /\ OwnerOf(tab[x].offer) = tab[x].supplier
    BY <1>0, <1>2 DEF PageShows
  <2> QED BY <1>0, <1>1, Patchable, NoOfferAssumption DEF PageShows
<1>6. ASSUME NEW z \in Suppliers PROVE SlotState(z)'
  <2>1. \A o \in Offers : LiveOf(o, z)' =>
          /\ LiveOf(o, z)
          /\ offer'[o].item = offer[o].item /\ offer'[o].market = offer[o].market
    BY <1>1 DEF LiveOf
  <2>2. \A x \in Tabs : Inserting(x, z)' => Inserting(x, z) /\ tab'[x] = tab[x]
    BY <1>2 DEF Inserting
  <2> QED BY <1>2, <2>1, <2>2, SlotShrinks DEF IInv
<1> QED BY <1>2, <1>4, <1>5, <1>6, WordUnchanged DEF IInv

LEMMA StepHolds == IInv /\ [Next]_vars => IInv'
<1> SUFFICES ASSUME IInv, [Next]_vars PROVE IInv'
  OBVIOUS
<1>1. ASSUME NEW t \in Tabs, Supplier(t) PROVE IInv'
  BY <1>1, LoadOffersHolds, CreateOfferHolds, InsertOfferHolds, PatchHolds
      DEF Supplier, AddOffer,
        SupplierManager
<1>2. ASSUME NEW a \in Admins, SuppliersManager(a) PROVE IInv'
  BY <1>2, AdministerHolds
<1>3. CASE UNCHANGED vars
  <2>1. TypeOK'
    BY <1>3 DEF IInv, TypeOK, vars
  <2> QED BY <1>3, <2>1, WordUnchanged, SlotUnchanged DEF vars, IInv
<1> QED BY <1>1, <1>2, <1>3, ItemHolds, TickHolds DEF Next

THEOREM Invariance == Spec => []IInv
BY InitHolds, StepHolds, PTL DEF Spec

-----------------------------------------------------------------------------
(* The theorems.                                                           *)

(* Every variable keeps its type.                                          *)
THEOREM TypeCorrect == Spec => []TypeOK
BY Invariance, PTL DEF IInv

(* A supplier was last told that it is live exactly when it may publish,   *)
(* once nobody is about to notify, unless the last decisions crossed or    *)
(* the notice of the last one was lost (admin-suppliers.ts:113-155).       *)
THEOREM LastWord == Spec => []LastWordIsTrue
<1>1. IInv => LastWordIsTrue
  BY DEF IInv, WordState, LastWordIsTrue
<1> QED BY <1>1, Invariance, PTL

(* Creating, retiring, repricing and editing never leave a supplier two    *)
(* live offers for one item on one marketplace (suppliers.ts:185).         *)
THEOREM OneLive == Spec => []OneLivePerSlot
<1>1. IInv => OneLivePerSlot
  BY DEF IInv, SlotState, LiveOf, OneLivePerSlot
<1> QED BY <1>1, Invariance, PTL

(* A price is only stamped as checked by someone who confirmed or restated *)
(* it (suppliers.ts:246).                                                  *)
THEOREM AgeHonest == Spec => AgeIsHonest
<1> DEFINE Honest ==
      \A o \in Offers :
        /\ offer[o] # NoOffer /\ offer[o].checked = "old"
        /\ offer'[o].checked = "fresh"
        => \E t \in Tabs : \/ Recheck(t)
                           \/ \E p \in Prices : SaveEdit(t, p) /\ p # tab[t].row.price
<1>1. IInv /\ [Next]_vars => [Honest]_vars
  <2> SUFFICES ASSUME IInv, Next, NEW o \in Offers, offer[o] # NoOffer,
                      offer[o].checked = "old", offer'[o].checked = "fresh"
               PROVE  \E t \in Tabs : \/ Recheck(t)
                                      \/ \E p \in Prices : SaveEdit(t, p) /\ p # tab[t].row.price
    OBVIOUS
  <2>0. TypeOK /\ \A x \in Tabs : PageShows(x)
    BY DEF IInv
  <2>1. offer' # offer
    OBVIOUS
  <2>2. ASSUME NEW a \in Admins, SuppliersManager(a) PROVE FALSE
    BY <2>1, <2>2 DEF SuppliersManager, ApproveDialog, WithdrawDialog, LoadSuppliers, Decide,
                      NotifyDecision, LoseNotice
  <2>3. ASSUME NEW i \in Items, NEW active \in BOOLEAN, PatchItem(i, active) PROVE FALSE
    BY <2>1, <2>3 DEF PatchItem
  <2>4. ASSUME Tick PROVE FALSE
    <3>1. offer[o] \in OfferRows
      BY <2>0 DEF TypeOK
    <3> QED BY <2>4, <3>1 DEF Tick, OfferRows
  <2>5. PICK t \in Tabs : Supplier(t)
    BY <2>2, <2>3, <2>4 DEF Next
  <2>6. ASSUME NEW s \in Suppliers, LoadOffers(t, s) PROVE FALSE
    BY <2>1, <2>6 DEF LoadOffers
  <2>7. ASSUME NEW s \in Suppliers, NEW i \in Items, NEW m \in Markets, NEW p \in Prices,
               CreateOffer(t, s, i, m, p) PROVE FALSE
    BY <2>1, <2>7 DEF CreateOffer
  <2>8. ASSUME InsertOffer(t) PROVE FALSE
    <3>1. PICK x : offer[x] = NoOffer /\ offer' = [offer EXCEPT ![x] = tab[t].row]
      BY <2>8 DEF InsertOffer
    <3> QED BY <2>0, <3>1 DEF TypeOK
  <2>9. ASSUME NEW row, NEW given, Patching(t, row, given),
               row.checked = offer[tab[t].offer].checked,
               given \intersect {"price", "checked"} = {}
        PROVE  FALSE
    <3>1. offer' = [offer EXCEPT ![tab[t].offer] = row]
      BY <2>9 DEF Patching, PatchOffer, Stamp
    <3> QED BY <2>0, <2>9, <3>1 DEF TypeOK
  <2>10. ASSUME Recheck(t) \/ ToggleActive(t) \/ (\E p \in Prices : SaveEdit(t, p))
                \/ \E m \in Markets : MoveOffer(t, m)
         PROVE  /\ tab[t] # NoTab /\ tab[t].pc = "page" /\ tab[t].row.isActive \in BOOLEAN
                /\ offer[tab[t].offer] \in OfferRows
    <3>1. tab[t] # NoTab /\ tab[t].pc = "page"
      BY <2>10 DEF Recheck, ToggleActive, SaveEdit, MoveOffer, PatchOffer
    <3> QED BY <2>0, <3>1, Patchable DEF PageShows, TypeOK
  <2> DEFINE old == offer[tab[t].offer]
  <2>11. ASSUME ToggleActive(t) PROVE FALSE
    <3>1. [old EXCEPT !.isActive = ~tab[t].row.isActive] \in OfferRows
      BY <2>10, <2>11 DEF OfferRows
    <3>2. [old EXCEPT !.isActive = ~tab[t].row.isActive].checked = old.checked
      BY <2>10, <2>11 DEF OfferRows
    <3>3. Patching(t, [old EXCEPT !.isActive = ~tab[t].row.isActive], {"isActive"})
      BY <2>10, <2>11, <3>1 DEF ToggleActive, Patching
    <3> QED BY <2>9, <3>2, <3>3
  <2>12. ASSUME NEW m \in Markets, MoveOffer(t, m) PROVE FALSE
    <3>1. [old EXCEPT !.market = m] \in OfferRows /\ [old EXCEPT !.market = m].checked = old.checked
      BY <2>10, <2>12 DEF OfferRows
    <3>2. Patching(t, [old EXCEPT !.market = m], {"market"})
      BY <2>10, <2>12, <3>1 DEF MoveOffer, Patching
    <3> QED BY <2>9, <3>1, <3>2
  <2>13. ASSUME NEW p \in Prices, SaveEdit(t, p), p = tab[t].row.price PROVE FALSE
    <3>1. Patching(t, old, {"url"})
      BY <2>10, <2>13 DEF SaveEdit, Patching
    <3> QED BY <2>9, <3>1
  <2> QED BY <2>5, <2>6, <2>7, <2>8, <2>11, <2>12, <2>13 DEF Supplier, AddOffer, SupplierManager
<1> QED BY <1>1, Invariance, PTL DEF Spec, AgeIsHonest

-----------------------------------------------------------------------------
(* The public catalogue implements Shelf.                                  *)

Shown == [o \in Offers |-> ShownPrice(o)]

Vouched ==
  /\ Shown \in [Offers -> Prices \union {Hidden}]
  /\ \A o \in Offers : Shown[o] # Hidden => OwnerOf(o) \in TrustedNow \union {Curated}

LEMMA ShownIsVouched == TypeOK => Vouched
<1> SUFFICES ASSUME TypeOK PROVE Vouched
  OBVIOUS
<1>1. ASSUME NEW o \in Offers
      PROVE  /\ ShownPrice(o) \in Prices \union {Hidden}
             /\ ShownPrice(o) # Hidden => OwnerOf(o) \in TrustedNow \union {Curated}
  BY OwnersAssumption DEF ShownPrice, OnShow, PublicOffer, TrustedNow, TypeOK, OfferRows
<1> QED BY <1>1 DEF Shown, Vouched

\* What a decision does to what is shown.
LEMMA DecisionShows ==
    ASSUME TypeOK, NEW a \in Admins, NEW d \in BOOLEAN, Decide(a, d)
    PROVE  \E s \in Suppliers :
             \/ /\ TrustedNow' = TrustedNow \union {s}
                /\ \A o \in Offers : OwnerOf(o) # s => ShownPrice(o)' = ShownPrice(o)
             \/ /\ TrustedNow' = TrustedNow \ {s}
                /\ \A o \in Offers : ShownPrice(o)' = IF OwnerOf(o) = s THEN Hidden ELSE ShownPrice(o)
<1>0. admin[a] \in AdminStates
  BY DEF Decide, TypeOK, AdminIdle
<1>s. admin[a].supplier \in Suppliers
  BY <1>0 DEF AdminStates
<1>1. PICK s \in Suppliers : s = admin[a].supplier
  BY <1>s
<1>2. supplier' = [supplier EXCEPT ![s].canPublish = d] /\ UNCHANGED <<offer, item>>
  BY <1>1 DEF Decide
<1>3. /\ supplier'[s].canPublish = d /\ supplier'[s].isActive = supplier[s].isActive
      /\ \A z \in Suppliers \ {s} : supplier'[z] = supplier[z]
  BY <1>1, <1>2 DEF TypeOK, SupplierRows
<1>4. /\ \A z \in Suppliers \ {s} : MayPublish(z)' <=> MayPublish(z)
      /\ MayPublish(s)' <=> d /\ supplier[s].isActive
  BY <1>3, Zenon DEF MayPublish
<1>5. ASSUME NEW o \in Offers, OwnerOf(o) # s PROVE ShownPrice(o)' = ShownPrice(o)
  <2>1. OwnerOf(o) \in (Suppliers \ {s}) \union {Curated}
    BY <1>5, OwnersAssumption
  <2>2. PublicOffer(o)' <=> PublicOffer(o)
    BY <1>2, <1>4, <2>1 DEF PublicOffer
  <2> QED BY <1>2, <2>2 DEF ShownPrice, OnShow
<1>6. CASE d /\ supplier[s].isActive
  <2>1. TrustedNow' = TrustedNow \union {s}
    BY <1>4, <1>6 DEF TrustedNow
  <2> QED BY <1>5, <2>1
<1>7. CASE ~(d /\ supplier[s].isActive)
  <2>1. TrustedNow' = TrustedNow \ {s}
    BY <1>4, <1>7 DEF TrustedNow
  <2>2. ASSUME NEW o \in Offers, OwnerOf(o) = s PROVE ShownPrice(o)' = Hidden
    BY <1>4, <1>7, <2>2, NullsAssumption DEF ShownPrice, OnShow, PublicOffer
  <2> QED BY <1>5, <2>1, <2>2
<1> QED BY <1>6, <1>7

LEMMA ShelfSteps == IInv /\ [Next]_vars => [Donor!Next]_(Donor!vars)
<1> SUFFICES ASSUME IInv, [Next]_vars PROVE [Donor!Next]_(Donor!vars)
  OBVIOUS
<1>0. TypeOK /\ TypeOK'
  BY StepHolds DEF IInv
<1>v. Vouched /\ Vouched'
  BY <1>0, ShownIsVouched, PTL
<1>1. /\ Shown \in [Offers -> Prices \union {Hidden}]
      /\ Shown' \in [Offers -> Prices \union {Hidden}]
      /\ \A o \in Offers : Shown'[o] # Hidden => OwnerOf(o) \in TrustedNow' \union {Curated}
  BY <1>v DEF Vouched
<1>2. \A o \in Offers : Shown[o] = ShownPrice(o) /\ Shown'[o] = ShownPrice(o)'
  BY DEF Shown
<1>3. CASE UNCHANGED supplier
  <2>1. TrustedNow' = TrustedNow
    BY <1>3 DEF TrustedNow, MayPublish
  <2>2. \A o \in Offers : Shown'[o] # Shown[o] =>
          Shown'[o] = Hidden \/ OwnerOf(o) \in TrustedNow \union {Curated}
    BY <1>1, <2>1
  <2>3. Donor!Restock
    BY <1>1, <2>1, <2>2 DEF Donor!Restock, Donor!MayShow, Shown
  <2> QED BY <2>3 DEF Donor!Next
<1>4. CASE supplier' # supplier
  <2>1. PICK a \in Admins, d \in BOOLEAN : Decide(a, d)
    BY <1>4 DEF Next, vars, Supplier, AddOffer, SupplierManager, LoadOffers, CreateOffer,
          InsertOffer, Recheck,
                ToggleActive, SaveEdit, MoveOffer, PatchOffer, SuppliersManager, LoadSuppliers,
                ApproveDialog, WithdrawDialog, NotifyDecision, LoseNotice, PatchItem, Tick
  <2>2. PICK s \in Suppliers :
             \/ /\ TrustedNow' = TrustedNow \union {s}
                /\ \A o \in Offers : OwnerOf(o) # s => ShownPrice(o)' = ShownPrice(o)
             \/ /\ TrustedNow' = TrustedNow \ {s}
                /\ \A o \in Offers : ShownPrice(o)' = IF OwnerOf(o) = s THEN Hidden ELSE ShownPrice(o)
    BY <1>0, <2>1, DecisionShows
  <2>3. CASE /\ TrustedNow' = TrustedNow \union {s}
             /\ \A o \in Offers : OwnerOf(o) # s => ShownPrice(o)' = ShownPrice(o)
    <3>1. Donor!Trust(s)
      BY <1>1, <1>2, <2>3 DEF Donor!Trust, Donor!OnlyOf, Shown
    <3> QED BY <3>1 DEF Donor!Next
  <2>4. CASE /\ TrustedNow' = TrustedNow \ {s}
             /\ \A o \in Offers : ShownPrice(o)' = IF OwnerOf(o) = s THEN Hidden ELSE ShownPrice(o)
    <3>1. Donor!Distrust(s)
      BY <1>1, <1>2, <2>4 DEF Donor!Distrust, Shown
    <3> QED BY <3>1 DEF Donor!Next
  <2> QED BY <2>2, <2>3, <2>4
<1> QED BY <1>3, <1>4

(* What donors see is what Shelf allows: a decision on a supplier shows or *)
(* hides that supplier's offers at once and nobody else's, and nothing     *)
(* else shows the offer of a supplier not trusted (supplier.service.ts:61).*)
THEOREM ShelfRefinement == Spec => ImplementsShelf
<1>1. Init => Donor!Init
  <2>1. Init => TypeOK
    BY InitHolds DEF IInv
  <2>2. \A o \in Offers : Shown[o] = ShownPrice(o)
    BY DEF Shown
  <2> QED BY <2>1, <2>2, ShownIsVouched
      DEF Vouched, Donor!Init, Donor!MayShow, Shown, TrustedNow
<1>2. IInv /\ [Next]_vars => [Donor!Next]_(Donor!vars)
  BY ShelfSteps
<1> QED BY <1>1, <1>2, Invariance, PTL DEF Spec, ImplementsShelf, Donor!Spec
=============================================================================
