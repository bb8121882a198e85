--------------------------- MODULE CatalogueImport ---------------------------
(***************************************************************************)
(* The equipment catalogue and the spreadsheets that are loaded into it.   *)
(*                                                                         *)
(*   services/catalogue-import.ts   importCatalogue                        *)
(*   routes/admin-catalogue.ts      POST /, PATCH /:id, POST /import       *)
(*                                                                         *)
(* An import compares the sheet with the catalogue and plans what to do    *)
(* with each item and each curated link; the transaction that follows      *)
(* applies the plan without looking again.  A dry run and a refused sheet  *)
(* end after the plan and write nothing: they are no steps here.           *)
(*                                                                         *)
(* A content is what a row says of an item (name, category, sport, spec,   *)
(* indicative price), SlugOf[content] the key equipmentSlug makes of it.   *)
(* A link is a marketplace and a URL.  Prices are paise, as stored.        *)
(***************************************************************************)
EXTENDS Naturals, Sequences, FiniteSetsExt

CONSTANTS
    Slugs,          \* keys of the items
    Contents,       \* what an item may be
    SlugOf,         \* equipmentSlug
    Links,          \* marketplace and URL of a curated offer
    Prices,         \* prices of offers
    Sheets,         \* what operators upload
    Handlers,       \* imports in flight
    NoContent,      \* the item does not exist
    NoOffer         \* a sheet row without an offer

VARIABLES
    item,           \* the EquipmentItem rows, by slug
    curated,        \* prices of the SupplierOffer rows without supplier, by slug and link
    handler,        \* imports between the plan and the transaction
    stale           \* history: slugs a commit handled by a plan that was out of date

vars == <<item, curated, handler, stale>>

-----------------------------------------------------------------------------
ItemStatus == {"ABSENT", "ACTIVE", "RETIRED"}
ItemRow == [status: ItemStatus, content: Contents \cup {NoContent}]
Offer == [link: Links, price: Prices]

\* valid: the row passes the schema, its offer fields come together and its
\* sport is known.
SheetRow == [valid: BOOLEAN, content: Contents, offer: Offer \cup {NoOffer}]
Sheet == [rows: Seq(SheetRow), allowPartial: BOOLEAN]

Actions == {"none", "create", "update", "unchanged"}
OfferPlan == [Slugs -> [Links -> Actions]]
Plan == [item: [Slugs -> Actions], offer: OfferPlan]
Idle == [pc |-> "idle"]
HandlerState == {Idle} \cup [pc: {"planned"}, sheet: Sheets, plan: Plan]

ASSUME ConstantsAssumption ==
    /\ SlugOf \in [Contents -> Slugs]
    /\ Sheets \subseteq Sheet
    /\ NoContent \notin Contents
    /\ NoOffer \notin Offer

TypeOK ==
    /\ item \in [Slugs -> ItemRow]
    /\ \A s \in Slugs : item[s].status # "ABSENT" => item[s].content \in Contents
    /\ curated \in [Slugs -> [Links -> Seq(Prices)]]
    /\ handler \in [Handlers -> HandlerState]
    /\ stale \subseteq Slugs

-----------------------------------------------------------------------------
\* What a sheet asks for.

\* The valid rows of a slug; the first of them says what the item is.
RowsFor(sheet, s) ==
    {i \in DOMAIN sheet.rows : sheet.rows[i].valid /\ SlugOf[sheet.rows[i].content] = s}
ContentFor(sheet, s) == sheet.rows[Min(RowsFor(sheet, s))].content

\* A later row that says otherwise is an error and its offer is dropped.
AcceptedRows(sheet, s) ==
    {i \in RowsFor(sheet, s) : sheet.rows[i].content = ContentFor(sheet, s)}
InvalidRows(sheet) ==           \* seeded bug: conflicting rows are no errors
    {i \in DOMAIN sheet.rows : ~sheet.rows[i].valid}
Rejected(sheet) == DOMAIN sheet.rows \ UNION {AcceptedRows(sheet, s) : s \in Slugs}

\* The first row that offers a link names its price, later ones are skipped.
OffersFor(sheet, s, l) ==
    {i \in AcceptedRows(sheet, s) :
        sheet.rows[i].offer # NoOffer /\ sheet.rows[i].offer.link = l}
PriceFor(sheet, s, l) == sheet.rows[Min(OffersFor(sheet, s, l))].offer.price

-----------------------------------------------------------------------------
\* What the plan makes of it.
KeepExisting(sheet, s) ==       \* seeded bug: an existing item is never compared
    IF RowsFor(sheet, s) = {} THEN "none"
    ELSE IF item[s].status = "ABSENT" THEN "create"
    ELSE "unchanged"
ItemAction(sheet, s) ==
    IF RowsFor(sheet, s) = {} THEN "none"
    ELSE IF item[s].status = "ABSENT" THEN "create"
    ELSE IF item[s].content # ContentFor(sheet, s) THEN "update"
    ELSE "unchanged"

MatchOnPrice(sheet, s, l) ==    \* seeded bug: the price is part of an offer's identity
    IF OffersFor(sheet, s, l) = {} THEN {"none"}
    ELSE IF \E i \in DOMAIN curated[s][l] : curated[s][l][i] = PriceFor(sheet, s, l)
    THEN {"unchanged"} ELSE {"create"}

\* `find` takes any of the offers at the link: the query has no order.
OfferActions(sheet, s, l) ==
    IF OffersFor(sheet, s, l) = {} THEN {"none"}
    ELSE IF curated[s][l] = <<>> THEN {"create"}
    ELSE {IF curated[s][l][i] = PriceFor(sheet, s, l) THEN "unchanged" ELSE "update" :
            i \in DOMAIN curated[s][l]}

\* Would the plan still say the same of a slug?
Current(sheet, plan, s) ==
    /\ plan.item[s] = ItemAction(sheet, s)
    /\ \A l \in Links : plan.offer[s][l] \in OfferActions(sheet, s, l)

\* The item after an upsert: isActive is the database's default or left alone.
ReviveItem(s, content) == [status |-> "ACTIVE", content |-> content] \* seeded bug: isActive is set
SavedItem(s, content) ==
    [status |-> IF item[s].status = "ABSENT" THEN "ACTIVE" ELSE item[s].status,
     content |-> content]

\* The offers at a link after its action: one more, or all at the new price.
SavedOffers(offers, action, price) ==
    IF action = "create" THEN Append(offers, price)
    ELSE IF action = "update" THEN [i \in DOMAIN offers |-> price]
    ELSE offers

\* What the page says a plan would do, and counts on the button that commits it:
\* items new or overwritten and links new.  A link that is only repriced is not
\* among them.
Announced(plan) ==
    [items |-> {s \in Slugs : plan.item[s] \in {"create", "update"}},
     links |-> {link \in Slugs \X Links : plan.offer[link[1]][link[2]] = "create"}]

-----------------------------------------------------------------------------
\* Errors block the commit, on the page as in the API, until their rows are
\* given up.
Blocked(sheet) == Rejected(sheet) # {} /\ ~sheet.allowPartial

\* POST /admin/catalogue/import?commit=true, and the script: plan, and refuse
\* a sheet with errors unless told to apply the rest.
PlanImport(h, sheet, offers) ==
    /\ handler[h] = Idle
    /\ ~Blocked(sheet)
    /\ \A s \in Slugs, l \in Links : offers[s][l] \in OfferActions(sheet, s, l)
    /\ handler' = [handler EXCEPT ![h] =
            [pc |-> "planned", sheet |-> sheet,
             plan |-> [item |-> [s \in Slugs |-> ItemAction(sheet, s)], offer |-> offers]]]
    /\ UNCHANGED <<item, curated, stale>>

\* The transaction.
CommitImport(h) ==
    /\ handler[h].pc = "planned"
    /\ handler' = [handler EXCEPT ![h] = Idle]
    /\ LET sheet == handler[h].sheet
           plan == handler[h].plan IN
       /\ item' = [s \in Slugs |->
                IF plan.item[s] \in {"create", "update"}
                THEN SavedItem(s, ContentFor(sheet, s)) ELSE item[s]]
       /\ curated' = [s \in Slugs |-> [l \in Links |->
                SavedOffers(curated[s][l], plan.offer[s][l], PriceFor(sheet, s, l))]]
       /\ stale' = stale \cup {s \in Slugs : ~Current(sheet, plan, s)}

\* The transaction times out or fails, or the server stops.
AbandonImport(h) ==
    /\ handler[h].pc = "planned"
    /\ handler' = [handler EXCEPT ![h] = Idle]
    /\ UNCHANGED <<item, curated, stale>>

\* POST /admin/catalogue: the check before the insert is repeated by the
\* unique index on slug, so the two are one step.
AddItem(content) ==
    /\ item[SlugOf[content]].status = "ABSENT"
    /\ item' = [item EXCEPT ![SlugOf[content]] = [status |-> "ACTIVE", content |-> content]]
    /\ UNCHANGED <<curated, handler, stale>>

\* PATCH /admin/catalogue/:id: any content, under the slug the item has.
EditItem(s, content, status) ==
    /\ item[s].status # "ABSENT"
    /\ item' = [item EXCEPT ![s] = [status |-> status, content |-> content]]
    /\ UNCHANGED <<curated, handler, stale>>

-----------------------------------------------------------------------------
Init ==
    /\ item = [s \in Slugs |-> [status |-> "ABSENT", content |-> NoContent]]
    /\ curated = [s \in Slugs |-> [l \in Links |-> <<>>]]
    /\ handler = [h \in Handlers |-> Idle]
    /\ stale = {}

\* The importer's page; a dry run writes nothing and is left out.  The page offers
\* no commit for a plan it announces as empty; the script commits any.
ImportPanel(h) ==
    \/ \E sheet \in Sheets, offers \in OfferPlan : PlanImport(h, sheet, offers)
    \/ CommitImport(h)
    \/ AbandonImport(h)

\* The page that adds and edits one item at a time.
ItemDialog(content) ==
    \/ AddItem(content)
    \/ \E s \in Slugs, status \in {"ACTIVE", "RETIRED"} : EditItem(s, content, status)

CatalogueManager == \E content \in Contents : ItemDialog(content)

Next == CatalogueManager \/ \E h \in Handlers : ImportPanel(h)

Spec == Init /\ [][Next]_vars

-----------------------------------------------------------------------------
\* "Re-importing the same sheet must land on the same offer rather than stacking
\* a second identical link": one curated offer per item and link, unless an
\* import was applied to an item that changed after it was planned.
LinkedOnce ==
    \A s \in Slugs, l \in Links : s \notin stale => Len(curated[s][l]) <= 1

\* "The operator confirms what they were shown, not what a second pass decides":
\* the plan of h is still the one its sheet would get, and no plan was applied
\* that was not.
Confirmed(h) ==
    \A s \in Slugs : s \notin stale /\ Current(handler[h].sheet, handler[h].plan, s)

\* An import that is applied as planned leaves a catalogue that the same sheet
\* would not change: items as the sheet describes them, links at its prices.  On
\* the way it has changed the items and added the links the page announced for
\* that plan, and no others: "anything not named in the sheet is left alone".
ImportConverges ==
    [][\A h \in Handlers : CommitImport(h) /\ Confirmed(h) =>
        \A s \in Slugs :
            /\ RowsFor(handler[h].sheet, s) # {} =>
                item'[s].content = ContentFor(handler[h].sheet, s)
            /\ \A l \in Links : OffersFor(handler[h].sheet, s, l) # {} =>
                curated'[s][l] = <<PriceFor(handler[h].sheet, s, l)>>
            /\ s \in Announced(handler[h].plan).items <=> item'[s] # item[s]
            /\ \A l \in Links : <<s, l>> \in Announced(handler[h].plan).links <=>
                Len(curated'[s][l]) # Len(curated[s][l])]_vars

\* "One bad row refuses the whole sheet": an import without allowPartial leaves
\* the content of every row in the catalogue, and an offer at every link.
AllOrNothing ==
    [][\A h \in Handlers :
        CommitImport(h) /\ Confirmed(h) /\ ~handler[h].sheet.allowPartial =>
            \A i \in DOMAIN handler[h].sheet.rows :
                LET row == handler[h].sheet.rows[i] IN
                /\ item'[SlugOf[row.content]].content = row.content
                /\ row.offer # NoOffer =>
                    curated'[SlugOf[row.content]][row.offer.link] # <<>>]_vars

\* "An item an admin deactivated should not come back to life because it is
\* still sitting in an old sheet": only an admin's edit ends a retirement,
\* however old the plan that is applied.
RetiredStays ==
    [][\A s \in Slugs : item[s].status = "RETIRED" /\ item'[s].status # "RETIRED" =>
        \E content \in Contents : EditItem(s, content, "ACTIVE")]_vars

\* "checkedAt moves only when the price does": an offer is stamped (its action
\* is "update") only in an import that changes a price at its link.
StampedIsRepriced ==
    [][\A h \in Handlers : CommitImport(h) /\ Confirmed(h) =>
        \A s \in Slugs, l \in Links :
            handler[h].plan.offer[s][l] = "update" => curated'[s][l] # curated[s][l]]_vars
=============================================================================
