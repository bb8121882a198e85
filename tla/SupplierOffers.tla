--------------------------- MODULE SupplierOffers ---------------------------
(***************************************************************************)
(* Suppliers, their offers against catalogue items, the administrators who *)
(* let them publish, and what the public catalogue shows of it.  Suppliers *)
(* and administrators act from pages loaded earlier: a tab keeps the row   *)
(* it rendered, and the buttons on it send what follows from that row.     *)
(***************************************************************************)
CONSTANTS Suppliers, Offers, Items, Markets, Prices,
          Tabs,          \* the browser tabs of suppliers
          Admins,        \* the administrators, one page and one request each
          OwnerOf(_),    \* the supplier an offer id will belong to, or Curated
          Curated, Hidden, NoOffer, NoTab

ASSUME OwnersAssumption == \A o \in Offers : OwnerOf(o) \in Suppliers \union {Curated}
ASSUME NullsAssumption  == /\ Curated \notin Suppliers
                           /\ Hidden \notin Prices

VARIABLES supplier,   \* SupplierProfile rows
          item,       \* EquipmentItem rows
          offer,      \* SupplierOffer rows, or NoOffer
          tab,        \* what a supplier's tab shows or is waiting for
          admin,      \* what an administrator's page shows or is waiting for
          told,       \* the latest decision each supplier was notified of
          doubtful,   \* (observed) suppliers whose last decisions crossed each other,
                      \* or whose notice of the last one was lost
          unguarded   \* (observed) suppliers who brought an offer back or moved it, or
                      \* created two at the same time

vars == <<supplier, item, offer, tab, admin, told, doubtful, unguarded>>

SupplierRows == [canPublish: BOOLEAN, isActive: BOOLEAN]
OfferRows    == [item: Items, market: Markets, price: Prices,
                 isActive: BOOLEAN, checked: {"fresh", "old"}]
ASSUME NoOfferAssumption == NoOffer \notin OfferRows

Page(s, o, row) == [pc |-> "page", supplier |-> s, offer |-> o, row |-> row]
Insert(s, row) == [pc |-> "insert", supplier |-> s, offer |-> NoOffer, row |-> row]
TabStates ==
  [pc: {"page"}, supplier: Suppliers, offer: Offers,
   row: [price: Prices, isActive: BOOLEAN]]
    \union [pc: {"insert"}, supplier: Suppliers, offer: {NoOffer}, row: OfferRows]

AdminIdle == [pc |-> "idle", supplier |-> Curated, canPublish |-> FALSE]
AdminStates == [pc: {"page", "notify"}, supplier: Suppliers, canPublish: BOOLEAN]

TypeOK ==
  /\ supplier \in [Suppliers -> SupplierRows]
  /\ item \in [Items -> [isActive: BOOLEAN]]
  /\ offer \in [Offers -> OfferRows \union {NoOffer}]
  /\ tab \in [Tabs -> TabStates \union {NoTab}]
  /\ admin \in [Admins -> AdminStates \union {AdminIdle}]
  /\ told \in [Suppliers -> {"nothing", "live", "withdrawn"}]
  /\ doubtful \subseteq Suppliers
  /\ unguarded \subseteq Suppliers

\* Nothing in the program writes a supplier's isActive: it starts either way.
\* The links without a supplier are the importer's, live from the start.
Init ==
  /\ supplier \in [Suppliers -> [canPublish: {FALSE}, isActive: BOOLEAN]]
  /\ item \in [Items -> [isActive: {TRUE}]]
  /\ \E i \in Items, m \in Markets, p \in Prices :
       offer = [o \in Offers |->
         IF OwnerOf(o) = Curated
         THEN [item |-> i, market |-> m, price |-> p, isActive |-> TRUE, checked |-> "fresh"]
         ELSE NoOffer]
  /\ tab = [t \in Tabs |-> NoTab]
  /\ admin = [a \in Admins |-> AdminIdle]
  /\ told = [s \in Suppliers |-> "nothing"]
  /\ doubtful = {} /\ unguarded = {}

-----------------------------------------------------------------------------
(* The public catalogue.                                                   *)

MayPublish(s) == supplier[s].canPublish /\ supplier[s].isActive

ActiveOffer(o) == offer[o] # NoOffer /\ offer[o].isActive   \* seeded bug: any supplier's

PublicOffer(o) ==     \* PUBLIC_OFFER_WHERE
  /\ offer[o] # NoOffer /\ offer[o].isActive
  /\ OwnerOf(o) = Curated \/ MayPublish(OwnerOf(o))

\* GET /catalogue/:idOrSlug answers 404 for an item that was withdrawn.
OnShow(o) == PublicOffer(o) /\ item[offer[o].item].isActive

ShownPrice(o) == IF OnShow(o) THEN offer[o].price ELSE Hidden

-----------------------------------------------------------------------------
(* The supplier's dashboard.                                               *)

RequireSupplier(s) == supplier[s].isActive

Own(s) == {o \in Offers : OwnerOf(o) = s}

\* What the buttons of a row go by.
Rendered(o) == [price |-> offer[o].price, isActive |-> offer[o].isActive]

LoadOffers(t, s) ==
  /\ tab[t] # NoTab => tab[t].pc = "page"
  /\ RequireSupplier(s)
  /\ \E o \in Own(s) : /\ offer[o] # NoOffer
                       /\ tab' = [tab EXCEPT ![t] = Page(s, o, Rendered(o))]
  /\ UNCHANGED <<supplier, item, offer, admin, told, doubtful, unguarded>>

NoClash(s, i, m) == {}        \* seeded bug: no clash is looked for
Live(s, i, m) ==
  {o \in Own(s) : /\ offer[o] # NoOffer /\ offer[o].isActive
                  /\ offer[o].item = i /\ offer[o].market = m}

Inserting(t, s) ==
  /\ tab[t] # NoTab
  /\ tab[t].pc = "insert" /\ tab[t].supplier = s

\* The clash is looked for here and the row inserted later.  The form asks for
\* canPublish, the API does not: drafts come from its other clients.
CreateOffer(t, s, i, m, p) ==
  /\ tab[t] = NoTab
  /\ RequireSupplier(s)
  /\ item[i].isActive
  /\ Live(s, i, m) = {}
  /\ tab' = [tab EXCEPT ![t] = Insert(s,
       [item |-> i, market |-> m, price |-> p, isActive |-> TRUE, checked |-> "fresh"])]
  /\ unguarded' = IF \E x \in Tabs : Inserting(x, s) THEN unguarded \union {s} ELSE unguarded
  /\ UNCHANGED <<supplier, item, offer, admin, told, doubtful>>

InsertOffer(t) ==
  /\ tab[t] # NoTab
  /\ tab[t].pc = "insert"
  /\ \E o \in Own(tab[t].supplier) :
       /\ offer[o] = NoOffer
       /\ offer' = [offer EXCEPT ![o] = tab[t].row]
  /\ tab' = [tab EXCEPT ![t] = NoTab]
  /\ UNCHANGED <<supplier, item, admin, told, doubtful, unguarded>>

\* Seeded bug: every edit restamps.
StampAlways(row, given) == [row EXCEPT !.checked = "fresh"]

\* A price or an explicit `checked` restamps.
Stamp(row, given) ==
  IF given \intersect {"price", "checked"} # {} THEN [row EXCEPT !.checked = "fresh"] ELSE row

\* PATCH /me/offers/:id: the row with the given fields written over it.
PatchOffer(t, row, given) ==
  LET s == tab[t].supplier IN
  /\ tab[t].pc = "page"
  /\ RequireSupplier(s)
  /\ offer' = [offer EXCEPT ![tab[t].offer] = Stamp(row, given)]
  /\ tab' = [tab EXCEPT ![t] = NoTab]
  /\ unguarded' = IF "market" \in given \/ ("isActive" \in given /\ row.isActive)
                  THEN unguarded \union {s} ELSE unguarded
  /\ UNCHANGED <<supplier, item, admin, told, doubtful>>

Recheck(t) ==
  /\ tab[t] # NoTab
  /\ PatchOffer(t, offer[tab[t].offer], {"checked"})

ToggleActive(t) ==
  /\ tab[t] # NoTab
  /\ PatchOffer(t, [offer[tab[t].offer] EXCEPT !.isActive = ~tab[t].row.isActive], {"isActive"})

\* The dialog sends the price only when it differs from the row it was opened on.
SaveEdit(t, p) ==
  /\ tab[t] # NoTab
  /\ IF p = tab[t].row.price
     THEN PatchOffer(t, offer[tab[t].offer], {"url"})
     ELSE PatchOffer(t, [offer[tab[t].offer] EXCEPT !.price = p], {"url", "price"})

\* Not from the dashboard: the API takes a new marketplace too.
MoveOffer(t, m) ==
  /\ tab[t] # NoTab
  /\ PatchOffer(t, [offer[tab[t].offer] EXCEPT !.market = m], {"market"})

-----------------------------------------------------------------------------
(* Administrators.                                                         *)

LoadSuppliers(a, s) ==
  /\ admin[a].pc # "notify"
  /\ admin' = [admin EXCEPT ![a] =
       [pc |-> "page", supplier |-> s, canPublish |-> supplier[s].canPublish]]
  /\ UNCHANGED <<supplier, item, offer, tab, told, doubtful, unguarded>>

Owes(a, s) == admin[a].pc = "notify" /\ admin[a].supplier = s

\* The handler writes the decision and notifies in a later step.
Decide(a, d) ==
  LET s == admin[a].supplier IN
  /\ admin[a].pc = "page"
  /\ supplier' = [supplier EXCEPT ![s].canPublish = d]
  /\ admin' = [admin EXCEPT ![a] = [@ EXCEPT !.pc = "notify", !.canPublish = d]]
  /\ doubtful' = IF \E b \in Admins : Owes(b, s) THEN doubtful \union {s} ELSE doubtful \ {s}
  /\ UNCHANGED <<item, offer, tab, told, unguarded>>

\* Seeded bug: only good news is sent.
NotifyApproval(a) ==
  /\ admin[a].pc = "notify"
  /\ told' = IF admin[a].canPublish THEN [told EXCEPT ![admin[a].supplier] = "live"] ELSE told
  /\ admin' = [admin EXCEPT ![a] = AdminIdle]
  /\ UNCHANGED <<supplier, item, offer, tab, doubtful, unguarded>>

NotifyDecision(a) ==
  /\ admin[a].pc = "notify"
  /\ told' = [told EXCEPT ![admin[a].supplier] =
                IF admin[a].canPublish THEN "live" ELSE "withdrawn"]
  /\ admin' = [admin EXCEPT ![a] = AdminIdle]
  /\ UNCHANGED <<supplier, item, offer, tab, doubtful, unguarded>>

\* notify swallows a notice it could not write, and a server that stops after
\* the update never comes to notify: either way the decision stands unsaid.
LoseNotice(a) ==
  /\ admin[a].pc = "notify"
  /\ doubtful' = doubtful \union {admin[a].supplier}
  /\ admin' = [admin EXCEPT ![a] = AdminIdle]
  /\ UNCHANGED <<supplier, item, offer, tab, told, unguarded>>

PatchItem(i, active) ==
  /\ item' = [item EXCEPT ![i].isActive = active]
  /\ UNCHANGED <<supplier, offer, tab, admin, told, doubtful, unguarded>>

\* Ninety days without a check.
Tick ==
  /\ offer' = [o \in Offers |->
       IF offer[o] = NoOffer THEN NoOffer ELSE [offer[o] EXCEPT !.checked = "old"]]
  /\ UNCHANGED <<supplier, item, tab, admin, told, doubtful, unguarded>>

-----------------------------------------------------------------------------
\* The dashboard's form for a new offer, and its list of offers.
AddOffer(t) ==
  \/ \E s \in Suppliers, i \in Items, m \in Markets, p \in Prices : CreateOffer(t, s, i, m, p)
  \/ InsertOffer(t)

SupplierManager(t) ==
  \/ \E s \in Suppliers : LoadOffers(t, s)
  \/ Recheck(t) \/ ToggleActive(t)
  \/ \E p \in Prices : SaveEdit(t, p)

Supplier(t) == AddOffer(t) \/ SupplierManager(t) \/ \E m \in Markets : MoveOffer(t, m)

\* The administrators' page of suppliers: a row offers Approve or Withdraw by
\* what it showed, and each opens a dialog.
Publishing(a) == admin[a].canPublish

ApproveDialog(a) == ~Publishing(a) /\ Decide(a, TRUE)

WithdrawDialog(a) == Publishing(a) /\ Decide(a, FALSE)

SuppliersManager(a) ==
  \/ \E s \in Suppliers : LoadSuppliers(a, s)
  \/ ApproveDialog(a) \/ WithdrawDialog(a)
  \/ NotifyDecision(a) \/ LoseNotice(a)

Next ==
  \/ \E t \in Tabs : Supplier(t)
  \/ \E a \in Admins : SuppliersManager(a)
  \/ \E i \in Items, active \in BOOLEAN : PatchItem(i, active)
  \/ Tick

Spec == Init /\ [][Next]_vars

-----------------------------------------------------------------------------
(* Donors see what Shelf promises, whatever suppliers and administrators   *)
(* do from stale pages meanwhile (supplier.service.ts:61, catalogue.ts).   *)
TrustedNow == {s \in Suppliers : MayPublish(s)}
Donor == INSTANCE Shelf WITH shelf <- [o \in Offers |-> ShownPrice(o)],
                             trusted <- TrustedNow
ImplementsShelf == Donor!Spec

(* A price's age is never laundered: a row becomes "checked today" only    *)
(* when someone confirmed it, or restated its price, not by a new link or  *)
(* by being brought back (suppliers.ts:246, supplier-manager.tsx Save).    *)
AgeIsHonest ==
  [][\A o \in Offers :
       /\ offer[o] # NoOffer /\ offer[o].checked = "old"
       /\ offer'[o].checked = "fresh"
       => \E t \in Tabs : \/ Recheck(t)
                          \/ \E p \in Prices : SaveEdit(t, p) /\ p # tab[t].row.price]_vars

(* Once nobody is about to notify, what a supplier last heard is what it    *)
(* is: told that it is live exactly when it may publish.  The row is       *)
(* written and the notice sent in two steps, from a page that may be stale *)
(* (admin-suppliers.ts:113-155), so a round of decisions that cross, or    *)
(* one whose notice is lost (notify.ts:96), leaves it wrong; the next      *)
(* decision that is taken alone and heard puts it right again.             *)
LastWordIsTrue ==
  \A s \in Suppliers \ doubtful :
    (\A a \in Admins : ~Owes(a, s)) => ((told[s] = "live") <=> supplier[s].canPublish)

(* Of "two live offers from one supplier on one marketplace for one item"  *)
(* "the donor is left guessing which is current" (suppliers.ts:185):       *)
(* creating, retiring, repricing and editing never leave two, from however *)
(* old a page.  Bringing an offer back, moving it and creating two at once *)
(* may: none of them is stopped by DUPLICATE_OFFER.                        *)
OneLivePerSlot ==
  \A s \in Suppliers \ unguarded, a, b \in Offers :
    /\ OwnerOf(a) = s /\ OwnerOf(b) = s
    /\ offer[a] # NoOffer /\ offer[b] # NoOffer
    /\ offer[a].isActive /\ offer[b].isActive
    /\ offer[a].item = offer[b].item /\ offer[a].market = offer[b].market
    => a = b
=============================================================================
