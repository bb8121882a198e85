# Verification of KhelKhud

KhelKhud lets sponsors pay for what village athletes and institutions ask for.
An athlete (or a village coordinator for them) raises a *request*, a coordinator
vouches for it, sponsors pay part of it, and the athlete accounts for the money.
This directory holds TLA+ models of the parts of the API server and of the web
application where the order of things matters, TLC configurations that check
them on small instances, and proofs, checked by TLAPS, that hold for instances of
every size.

The server is one Express process over a PostgreSQL database (Prisma). Every
HTTP handler is asynchronous: it reads rows, awaits, decides, and writes later.
Almost every hazard here comes from one habit of the code: *a row is read and
judged outside the transaction that then updates it by id alone*. Where the
code relies on more (a unique index, a transaction that reads what it has
locked), the models show that it works; where it does not, the models show which
promise of a comment or a test breaks, and how. The web application adds the
second habit: a page keeps the row it rendered and its buttons send what follows
from that row, however old it has become.

    cd tla
    tlc -workers 2 -config payments.cfg MCSponsorshipPayments   # any run below
    tlapm Campaign_proofs.tla                                   # any *_proofs, SumLaws

## 1. The system

Paths are under `src/apps/api/src` unless they start with another name.

| Component | State | Operations | What makes it correct |
|---|---|---|---|
| Sponsorship checkout and payment (`services/sponsorship.service.ts`, `routes/sponsorships.ts`, `routes/webhooks.ts`) | `Sponsorship` rows, `Transaction` ledger, `Request.raisedAmountPaise` and `status` | `createSponsorship`, verify-payment, Razorpay webhook, `markSponsorshipPaid`, `markSponsorshipFailed` | money is credited once, for a payment captured for that order; the amount shown is the sum of the ledger; captured money is recorded in the end; nobody is told of money that is not there |
| Payment providers (`providers/payments`) | orders and payments, outside the program | create order, verify signatures, deliver webhooks | at-least-once delivery, signatures that bind payment to order |
| Request validation and coordinators (`routes/athletes.ts`, `routes/coordinators.ts`, `services/coordinator.service.ts`, `routes/admin.ts`) | `Request.status`, `validatedById`, `AthleteProfile.verificationStatus`, `CoordinatorProfile`, `VerificationRecord` | create, edit, close a request; raise one for someone; approve, reject; verify an athlete; appoint, move, deactivate a coordinator | what sponsors see was approved, in that version, by someone with authority; decisions are audited; a request cannot get stuck |
| Allocations and utilization (`routes/sponsorships.ts`, `recomputeUtilization`) | `SponsorshipAllocation` rows, `utilizationStatus`, `status` | create and patch an allocation | parts never exceed the whole; the summary agrees with the parts |
| Request items and catalogue links (`services/catalogue.service.ts`, the request forms of athletes and coordinators) | `RequestItem` rows, drafts | draft, create, raise, edit: replaced wholesale with each edit | items and total of one edit; no link to a retired item |
| Supplier profiles and offers (`routes/suppliers.ts`, `routes/admin-suppliers.ts`, `services/supplier.service.ts`) | `SupplierProfile`, `SupplierOffer` | register, approve, grant `canPublish`, create and change offers | one live offer per item and marketplace; only approved suppliers are public; the age of a price is honest; suppliers know where they stand |
| Equipment catalogue and its import (`routes/catalogue.ts`, `routes/admin-catalogue.ts`, `services/catalogue-import.ts`) | `EquipmentItem`, `SupplierOffer` | browse, edit, plan and apply an import | importing twice changes nothing |
| Accounts, sessions, roles (`routes/auth.ts`, `lib/session.ts`, `middleware/auth.ts`) | `User.role`, profiles, the session JWT | register, choose a role, log in | one role and its profile; what an old cookie may still do; pages for the role of the moment, and redirects that end |
| Notifications and mail (`services/notify.ts`, `routes/notifications.ts`, `providers/mail`) | `Notification` rows | write, mail, mark read | mailed at most once, and marked only if mailed; the bell catches up |
| Rate limiting (`middleware/rate-limit.ts`) | an in-memory map of windows | count, sweep | at most max per window |
| Uploads and documents (`routes/uploads.ts`, `providers/storage`) | `Document` rows, stored files | presign, upload, confirm | only its owner attaches a document |
| Progress updates (`routes/updates.ts`) | `SponsorshipUpdate` rows and their documents | post, attach, tell the sponsors | a sponsor hears once; attachments are the author's own |
| Institutions, villages, profiles, discovery, statistics | rows and queries | reads and single-row edits | no invariant across steps except duplicates of institutions |
| Web application (`apps/web/src`) | what each page has rendered, drafts, redirects | forms, dialogs, layouts, middleware | a stale page cannot break what its handler promises |
| Shared schemas, theme, seed, deployment | none of their own | | they reach the state through the API |

How the parts interact. The payment code and the validation code share the
`Request` table: a payment moves `raised` and `status`, a decision or an edit
moves `status` and the total. The provider reaches the server twice for the same
payment (the sponsor's browser calls verify-payment, the provider calls the
webhook), and calls the webhook again until it is answered 200. Allocations read
whether the sponsorship is PAID. All parts write notifications, which never
throw (`notify.ts` catches everything).

What is hard: two handlers that both read a row before either writes; webhooks
that come twice, late, in any order, or while the browser's call is running; a
crash between two transactions, or after a commit and before the notifications;
a request that is edited, withdrawn, decided and paid at the same time; a
coordinator appointed or deactivated while a request waits. `PROJECT.json` lists
each hazard at the line where it bites.

## 2. The modules

| Module | Models | Role |
|---|---|---|
| `RequestTable` | the `Request` rows that payments and validation share | shared state |
| `PaymentLedger` | what sponsors are promised of their money | abstract specification |
| `SponsorshipPayments` | checkout, verify-payment, webhook, the two `markSponsorship…` | component, refines `PaymentLedger` |
| `RequestValidation` | requests, decisions, verification, coordinators | component |
| `Campaign` | both components over the `Request` rows they share | composition |
| `Allocations` | allocations of one sponsorship, utilization | component |
| `CatalogueImport` | equipment items, curated links, imported spreadsheets | component |
| `Accounts` | accounts, profiles, session cookies, the ways to a role | component |
| `Pages` | middleware, layouts and redirects over `Accounts` (EXTENDS it) | composition |
| `Shelf` | what donors are promised about the offers they see | abstract specification |
| `SupplierOffers` | suppliers, offers, approval, the public catalogue | component, refines `Shelf` |
| `RequestItems` | drafts, lines, totals and catalogue links of requests | component |
| `Notifications` | notification rows, e-mail, the bell | component |
| `Updates` | progress updates, attachments, the fan-out (EXTENDS `Notifications`) | composition |
| `SumLaws` | laws of `SumFunctionOnSet`, the sum over a finite set | lemmas |
| `…_proofs` | theorems and proofs about the module of that name; `Campaign_proofs` also holds those about its two components | |
| `MC…` | the small instances TLC checks | |

### PaymentLedger and SponsorshipPayments

`PaymentLedger` has three variables: which payments were captured, which were
credited, and what each request has raised. A captured payment is credited at
most once and raises the request its order was created for by the sponsored
amount; nothing is ever un-credited.

`SponsorshipPayments` is the code. `checkout[s]` is how far `POST /sponsorships`
has come: the check of the request, the transaction that inserts the row, the
call to the provider, and the update that attaches the order are three steps,
with a crash possible after each. `handler[h]` is a verify-payment or webhook
handler after its read of the sponsorship:

| Action | Code |
|---|---|
| `CheckSponsorable`, `InsertSponsorship`, `AttachOrder`, `CrashCheckout` | `createSponsorship` |
| `VerifyPayment` | verify-payment: order and signature checks, the early return on a PAID row |
| `ReceiveWebhook`, `IgnoreWebhook` | `razorpayWebhookHandler`: events that lead to a write, and events answered 200 at once |
| `CommitPaid` | the transaction of `markSponsorshipPaid` |
| `RollBack` | the same transaction refused by `Transaction_providerPaymentId_key` |
| `CommitFailed` | the transaction of `markSponsorshipFailed` |
| `NotifyAthlete`, `NotifySponsor` | the two awaited `notify` calls after the commit, each of which may write nothing |
| `CrashHandler` | the process stops |
| `CapturePayment`, `FailPayment` | the provider (external) |
| `Withdraw` | the athlete withdraws the request meanwhile (alone; in `Campaign` it is `CloseRequest` of `RequestValidation`) |

A `$transaction` is one step. That is justified for these transactions because
their first statement updates the sponsorship row, which locks it, and the
request is updated with the database's own `increment` and re-read after
that update, under its row lock. A unique-index violation rolls everything back.
The `include` of a Prisma read is taken as part of the same read.

One constant is about the provider, not the code. `LateCapture`: a payment it
reported as failed may be captured later (`payment.failed` is not final there).
Several payments of one order may be captured in any case. `raced` is a history
variable: the sponsorships credited while a handler of another of their payments
had read the row and not yet written (`OtherInFlight`). Such a handler goes by the
row it read and may credit a second payment, or write FAILED over PAID;
`CreditedOnce` speaks of the sponsorships outside `raced`, where it says that the
checks made on stale rows and the unique index suffice. `CheckSponsorable` leaves
out that an inactive athlete, oneself and a request of another athlete are refused.

### RequestValidation

A decision, an edit and a coordinator's own request are two steps, the reads
with their checks and the commit, with `desk[h]` holding what was read. A
withdrawal, an admin's verdict on an athlete and the administration of
coordinators read nothing they judge and are one step. `decisions` is a history
variable: who decided which version of which request; `version` counts edits.
`overlapped` is a history variable too, TRUE once a handler started while
another was in flight. Nothing in the server prevents that: the properties that
hold only while it is FALSE (their names end in `InTurn`) are what the code
intends, and none of them survives overlapping handlers (section 6). `Public` and
`Voucher` are what the athlete's page shows of a request: which requests, and
"Validated by …" or "nobody local has vouched".

The pages are operators too: `ValidationQueue` and `OrphanQueue` (a decision from
a list as old as the page), `VerificationQueue`, and `CoordinatorsManager` with
its form (`AppointForm`: a user and at least one village), its dialog for the
villages (`EditDialog`, which leaves `isActive` alone) and its switch
(`ToggleDialog`, which leaves the villages alone). What they abstract is the
markup, search boxes, busy flags and toasts.

The `verificationStatus` of sponsors and institutions, texts and notifications
are left out; the user role an appointment sets is in `Accounts`, the items in
`RequestItems`.

### Campaign

EXTENDS both components over the `request` variable of `RequestTable` and adds no
step of its own: a step of one leaves the variables of the other alone. `Sponsor` is
the checkout form, which may name any request the page loaded, however it was
edited or withdrawn since; `Pay` the payment it opens, reported by the browser
and by webhook; `Validate` everything `RequestValidation` does. Sponsors may
answer any request by its id, which is what `createSponsorship` accepts unless
it is CLOSED.

### Allocations

One sponsorship and its allocations. A handler reads the rows and judges
(`CreateRead`, `PatchRead`), writes one row (`CreateCommit`, `PatchCommit`),
reads all rows again (`Recompute`) and stores the summary (`Store`): four steps
that other handlers may enter. `mishaps` is a history variable that records
overlapping handlers and crashes, in the same role as `overlapped` above.
`Allocated` is the `reduce` over amounts that both the check of OVER_ALLOCATED and
the sponsor's page make; `Utilized` is what that page shows of it.
`TrackingManager` is the athlete's page: `AddAllocation` and the status buttons
(`SetStatus`). `SetAmount` is a PATCH no form sends but the API accepts.

### CatalogueImport

An import compares a sheet with the catalogue and plans an action for every item
and every curated link (`PlanImport`: the reads and the diff of
`importCatalogue`, with the refusal of a sheet that has errors), then applies
the plan in one transaction without looking again (`CommitImport`), or fails and
leaves nothing (`AbandonImport`). A dry run and a refused sheet write nothing
and are no steps. Meanwhile an admin adds items (`AddItem`) and renames, edits,
retires and reactivates them (`EditItem`), under the slug they have.

What a sheet asks for is defined without the loop of the code: the first valid
row of a slug says what the item is, rows that say otherwise are rejected with
their offers, and the first accepted row that has a link names its price.
`item[s]` is a row by its slug (the unique index), `curated[s][l]` the prices of
the offers without a supplier at one link, a sequence because no index keeps
them apart; `find` may return any of them. Nothing deactivates a curated offer,
so their `isActive` is left out. `stale` is a history variable: the slugs some
commit handled by a plan that was out of date.

One transaction is one step: it locks the items and offers it updates until it
ends, and two that insert the same slug or wait for each other end with one of
them failing, which is `AbandonImport`. Parsing of files, the template, the
other counts of the answer and `checkedAt` (which moves exactly with the action
"update") are left out. `Announced` is what the page counts of a plan: items new
or overwritten and links new, not links repriced. The plan on the page is a dry
run's; the commit makes its own, which is the same unless the catalogue has
changed since. `ImportPanel`, `CatalogueManager` and `ItemDialog` are the
administrators' pages; `Blocked` is the tick box that lets a sheet with errors
through.

### Accounts and Pages

`account`, `profiles` and `cookie` are the `User` row, the profile rows and the
session JWT of each browser; the JWT keeps the role of the moment it was signed.
`req[b]` is the one request a browser has in flight, with what its handler has
read (`seen`): registration, login, the four steps of the Google callback
(find, link, create, promote), choosing a role, registering as a supplier and
being appointed are each split where the code awaits the database, and `Crash`
may end any of them. The appointment writes the role in one step and looks for
the profile in the next, which is how the code does it. `Expire` is the end of a
token after seven days; `adminEmails` is the configuration, any set of people.

`Pages` adds a browser that walks the site. `Middleware` looks at the cookie only,
each layout (`OnboardingGate`, `LoginGate`, `AdminGate`, `SharedGate` of the
coordinator and, as `SupplierGate`, the supplier, `OwnGate` of the athlete and, as
`SponsorGate`, the sponsor) at the account that `getMe` returns, or at nobody if the API cannot be reached
(`Unreachable`); a page is rendered when a layout answers with its own path.
Addresses are strings, since the redirects are about them.

### Shelf and SupplierOffers

`Shelf` promises donors that a shown offer is a curated link or belongs to a
supplier who is trusted now, and that a decision changes what is shown of that
supplier only. `SupplierOffers` implements it with the rows of suppliers, items
and offers. `tab[t]` is a supplier's tab: a loaded row (`LoadOffers`) or an insert
between its check for duplicates and the insert (`CreateOffer`, `InsertOffer`);
`Recheck`, `ToggleActive` and `SaveEdit` send what the buttons of an old row send.
`admin[a]` is an administrator's page: `ApproveDialog` and `WithdrawDialog` are
offered by what the row showed (`Publishing`), write the decision, and notify in
a second step, or lose the notice (`LoseNotice`: `notify` swallows a failed write,
and a server that stops after the update never comes to it). `doubtful` and
`unguarded` are history variables that mark the
suppliers for whom the code makes no promise: those decided on again before they
were told or whose notice was lost, until a decision on them is next taken alone,
and those with a slot that no check of DUPLICATE_OFFER protects (brought
back, moved, created twice at once). Edits of a supplier's name, website, GSTIN
and phone are left out.

### RequestItems

`page[c]` is a browser with a draft, or the call it sent: on the wire, past its
checks (`begun`), or in its transaction after the delete (`replacing`). Lines
carry the number of the edit that wrote them, which is what `ItemsOfOneEdit`
speaks of. `RequestsManager` with `RequestEditor` and `EditorLines` is the
athlete's page and form, `RaiseRequest` with `RaiseForm` and `RaiseLines` the
coordinator's; `SendKind` is an edit no form sends. `overlapped` marks requests
edited by two transactions at once, `kindAlone` those whose kind was set without
their lines. A line is an item or none and a price; labels, quantities and the
reason are left out, a quantity being part of the price here.

### Notifications and Updates

`notify` writes the row, or logs that it could not, and starts `deliverEmail`,
which checks the account, sends and marks in three steps that nothing awaits.
The bell has several calls in flight and shows the answer that arrives last;
`Miss` loses one. An answer holds all unread notices: the code lists 30 at most and
counts them all, in two queries taken as one read.

`Updates` adds the form of an update (`Write`: presign, PUT and confirm per file,
then `Post`; `StartOver` after any error or lost answer, while the server may go on
with what it received, which makes a repeated post another update), the handler
that creates the update, reads whom to tell and tells them one after the other
(`Serve`), and `Crash` at any point. The API accepts more than the form sends:
`ConfirmAttached` links a document to an existing update as it is confirmed
(`attach.updateId`), and `PostDirectly` posts with any documents, those of an
earlier update included, which `connect` then moves. The only check on them is
`OwnDocuments`. Which sponsorships are PAID when the audience is read is any set:
payments commit meanwhile, and a late `payment.failed` takes one back.

## 3. What TLC checks

| Run | Instance | Shows |
|---|---|---|
| `payments` | 2 sponsorships of one request, 3 payments (2 of one order), 2 handlers, late and repeated captures, 2.2 million states | `RaisedIsLedger`, `PaidIsBacked`, `LedgerIsSound`, `CreditedOnce`, `NoticesAreTrue`, `FundingStatusIsTrue`, `ClosedIsFinal`, and that the code implements `PaymentLedger` |
| `payments_live` | 1 sponsorship, 2 payments, 2 handlers, fairness, 6 thousand states | `CapturedIsRecorded`: a sponsorship with captured money gets its transaction |
| `payments_paid_final` | the same, no fairness | violated: a late `payment.failed` takes a PAID sponsorship to FAILED |
| `validation` | a request of an athlete and one of an institution, 1 coordinator, 2 handlers, fairness, 220 thousand states | `AuditTrail` and `NeverResurrected` under every interleaving; `VouchedInTurn`, `DecidedInTurn`, `WithdrawnInTurn`; `PendingIsDecided`: nobody waits forever |
| `campaign` | 1 request, 1 sponsorship, 1 payment, fairness, 200 thousand states | `ImplementsLedger` and `CapturedIsRecorded` survive edits, decisions and withdrawals of the request |
| `allocations` | 2 allocations, 2 handlers, crashes, 1.4 million states | `CompletedIsDated` always; `NeverOverAllocated` without overlaps; `UtilizationIsCurrent`, the stored status against the rows and the sum shown, without overlaps and crashes |
| `catalogue` | 2 items, 3 contents (one corrects another), 1 link at 2 prices, 4 sheets, 2 imports, 400 thousand states | `RetiredStays` always; `LinkedOnce`, `ImportConverges` (with what was announced), `AllOrNothing` for plans that are still good when applied |
| `pages` | 1 person, 2 browsers of which one walks the site, any seeded role | `ProfileBehindRole`, `ShownToItsRole`; `ChoosersSettle`: redirects end for everyone but coordinators and suppliers |
| `pages_loop` | the same | violated `EveryRoleSettles`: the athlete and sponsor layouts send a coordinator or supplier to one another for ever |
| `supply` | 1 supplier with room for 2 offers, 1 curated link, 2 prices, 2 tabs, 2 administrators, lost notices, 990 thousand states | `ImplementsShelf`, `AgeIsHonest`, `LastWordIsTrue`, `OneLivePerSlot` |
| `requests` | 1 request written at most 3 times, 2 browsers, 1 catalogue item, 2.9 million states | `ItemsOfOneEdit`, `RetiredNotLinked` |
| `updates` | 1 new and 1 earlier update, 2 files of 2 athletes, 1 sponsor with 3 sponsorships, 2 calls of the bell, fairness, 75 thousand states | `HeardOnce`, `MailIsHonest`, `AttachmentsAreOwn`; `BellCatchesUp` |

The two violated properties quote what a comment of the repository says; the
findings in `PROJECT.json` give the lines.

**Bounds and why they are enough.** Every race in this code is between two
handlers that read before either commits, so two handlers are the smallest number
that shows all of them; the properties that are also proved (section 4) hold for
any number. Two sponsorships of one request are needed for
payments to meet at a request, with a total equal to their sum so that a request
can be partly funded, exactly funded and, by a second payment of one order,
overfunded; two payments for one order are needed for a failed attempt followed by
a successful one, and for two captures. Requests are
edited at most `MaxEdits` (1) times, enough for an edit before, between and
after a decision; `version` is what it bounds. The amounts of allocations are
chosen so that two fit (1 + 2), two do not (2 + 2), and one leaves room.
The sheets of `catalogue` are the cases `importCatalogue` tells apart: a correction
of an item and its price, a link listed twice, a row that contradicts another,
a faulty row, the last two with and without `allowPartial`.
Sponsorships of an athlete without a request (`NoRequest`) occur in the theorems
only. In `pages` one person is enough: accounts of different people meet nowhere
but in an administrator's appointment, and the person may be the administrator.
In `supply` one item, one marketplace and two offers make a slot with room for a
duplicate, two tabs and two administrators every race of section 6; a move needs
a second marketplace and is covered by the theorems. In `requests` three writes
are a creation and two edits, the least that can overlap. In `updates` a
sponsor with two sponsorships of the author is the case in which somebody could
hear twice, a third sponsorship and a second athlete's file are what must not be
mixed up with them, an earlier update is one a document can be moved from or
confirmed into, and two calls of the bell the least that can overtake each other.

Handlers are interchangeable, and so are allocations, tabs, administrators and
browsers with a form: `payments`, `catalogue`, `allocations`, `supply` and
`requests` use that symmetry; liveness runs use none. Deadlock is not checked: an
instance whose payments are all settled and whose crashed checkouts are over has
nothing left to do, which is where the system really stops.

**Fairness.** *Payments*: the provider redelivers an event until it is answered
200 (`SF` on `Redeliver`: the event may find all handlers busy again and again,
but not for ever unanswered); a handler is not stopped at its commit every single
time (`SF` on `CommitPaid`); running handlers run (`WF` on the rest). Nothing is
assumed of sponsors, of crashes or of which payments are made. *Validation*:
whoever has authority over a waiting request decides it if they have it again and
again (`SF` on `Judge`), and the server does not stop at every commit (`SF` on
`Commit`). Coordinators may be appointed, moved and deactivated forever; that
the request still gets decided is the point of the admins' fallback. *Campaign*:
the payments' fairness, and nothing of those who edit and decide. *Pages*: a
browser follows a redirect it was sent (`WF` on `Answered`) and tokens expire;
nobody is obliged to sign in, choose or be appointed. *Updates*: the bell's timer
asks for ever (`WF` on `Ask`, 30 seconds), and a call that is made again and again
is answered and shown at some point (`SF`); nothing is owed by athletes, by
handlers or by the mail service.

`payments_live` takes `LateCapture` as FALSE: a payment reported as failed has
used up its `providerPaymentId` in the ledger, so a later capture of the same
payment rolls back on the unique index at every redelivery and is never
credited. The property asks for one transaction per sponsorship with captured
money: when two payments of one order are captured, the second is answered 200
and left out because the sponsorship is PAID, unless the two handlers raced.

## 4. What is proved

All theorems hold for any sets of sponsorships, payments, requests, handlers,
coordinators, villages, allocations, items, sheets, people, browsers, suppliers,
offers, tabs, updates and files, under the named assumptions of each module
(types of the constants, null values that are not members).

The proofs about requests are in one module, `Campaign_proofs`, in three parts:
the third is about the composition and rests on the steps of the other two.

**Campaign_proofs, payments** (of `PaymentsSpec`). `PaymentsTypes`.
`LedgerInvariant`: the inductive invariant is `LedgerInv`, that is `PaidIsBacked`
and `LedgerIsSound` strengthened by two facts about what is in flight: the
provider announces only captures it made (`EventsAreTrue`), and a handler on its
way to the commit holds a payment captured for the order of its sponsorship
(`HandlersAreHonest`). Without the second, a commit could write anything; it is
what the signature and order checks, made one step earlier on a row that may be
stale by now, leave true at the commit. `PaidBacked` and `LedgerSound` are its two
readable parts. `RaisedFromLedger`: what a request shows as raised is the sum of
its transactions. The ledger stays finite and only grows, a commit adds one
transaction that was not there, and what it adds to the sum of each request is
what it adds to `raised`; the sum itself is handled by the laws of `SumLaws`.
`FundingStatus` and `ClosedStays` follow from an analysis of how a step may change
a request. `CreditOnce` assumes nothing of the provider. By `CreditInv` a credited sponsorship
outside `raced` is PAID, and a handler still on its way to write it holds a payment
that is in the ledger already, which the unique index stops: one with another
payment had read the row before the credit, which `raced` records, and one that
reads it now returns early. `NoticesTrue` has an
invariant of its own: a notice of a payment is sent by the one handler whose
commit credited it, and no other handler of that payment can get past the unique
index. `LedgerRefinement`: every step is a step of `PaymentLedger` or a stutter.

**Campaign_proofs, validation** (of `ValidationSpec`). `ValidationTypes`.
`AuditTrailKept`, with the strengthening that only an athlete's request ever waits
for a decision. `RejectedStays`. And while handlers do not overlap: `OpenVouched`
(what is public was approved in that version), `DecisionsStand`, `AuthorityKept`,
`WithdrawnStays`, from the invariant `SeqInv`: at most one handler is in flight,
what it read is still so, and the version that waits has not been decided.

**Campaign_proofs, the whole** (of `Spec`). A payment step is shown to be a step
of the payments that leaves validation alone, and a validation step one that
leaves the payments alone, so what is left to prove is what each needs of the
other's steps on `request`. The payments need two things of validation, and they
are lemmas: it moves no `raised` of a request that exists (`ValidationSparesMoney`),
and no request with an order or a payment is created anew, since creation starts
at 0 (`BornInvariant`: whatever a sponsorship names exists, and a request once
created is never absent again). From these `CampaignBacked`, `CampaignRaised`,
`CampaignCreditOnce`, `CampaignNotices` and `CampaignRefinement`: to
`PaymentLedger`, validation is a stutter. Validation needs of the payments that
they put no request back in the queue, which gives `CampaignAudit` and
`CampaignRejectedStays`, and (`PaymentMoves`) that they move only a request that is
there and not withdrawn, to one of the two funded states. With the second, while
handlers of the validation do not overlap, `CampaignDecisionsStand`,
`CampaignWithdrawnStays` and `CampaignAuthorityKept` hold with any payments in
between, from the invariant `TurnInv`: weaker than `SeqInv` in that a request being
decided may have been paid out of the queue, and sufficient because its version has
not been decided. Three properties of the components do not survive the
composition, which is the code's doing: a payment makes a request public that
nobody approved (`VouchedInTurn`), the status a decision writes does not look at
the money (`FundingStatusIsTrue`), and an edit or a decision that overlaps a
withdrawal writes over CLOSED (`ClosedIsFinal`).

**Allocations_proofs.** `TypeCorrect` and `CompletedDated`. The handler that
completes an allocation and the one that stamps the date may have read different
rows; the invariant says that a handler that will complete without dating read a
completed row, which keeps its date whatever happens since. `PartsFit`: without
overlaps the rows read are the rows committed to, so the sum the check was made
with still holds at the commit; the row that is added or corrected is split off
the sum. `SponsorSeesUse`: once a handler is past its commit the rows are those it
will sum up, and a handler that stores is alone; every amount is positive, so
nothing utilized means that nothing was bought.

**SumLaws.** A sum over rows is a fold, which takes the elements of a set in an
order nobody knows. That the recursion has one value, and that any element may be
taken first, is an induction on the size of the set; since the provers cannot
instantiate the library's induction theorems with a predicate, it is made with
sets (`Induct`: a set of numbers that holds 0 and successors is `Nat`; `Grow`: the
same for the subsets of a finite set).

**CatalogueImport_proofs.** `TypeCorrect`, with the strengthening that a plan acts
on what its sheet lists and on nothing else. `RetirementStands` needs no more: an
upsert never touches `isActive`. `LinksUnique`: an offer is created only where
the plan is out of date or there is none. From the two follow `ImportsConverge`,
`WholeSheets` and `StampsMeanPrices`, which say of a commit that its effect is
the one the plan announced. The least row of a set exists because `<` is
well-founded on the naturals (a library theorem). `ImportsConverge` includes what
the page announced: `ItemAnnounced` and `LinkAnnounced` say that a current plan
names the items and links it changes in number or content, and no others.

**Pages_proofs.** `TypeCorrect`; `ProfilesBehindRoles`: profiles only grow, so it is
enough that every copy of a role (in the account, in a cookie, in a handler that
read it earlier) had its profile once; without the copies in flight the invariant
is not inductive, because a handler signs a cookie with the role it read.
`DashboardsForTheirRole` follows the layouts.

**SupplierOffers_proofs.** The invariant says of each supplier who owes the last
word and what it will be (`WordState`), that the slot of an insert under way is
free and that there is one such insert (`SlotState`), and of each page that its
offer exists. A lost notice leaves `WordState` by way of `doubtful`. From it `LastWord`, `OneLive`, `AgeHonest` and `ShelfRefinement`: a
decision is a step `Trust` or `Distrust` of `Shelf`, everything else a `Restock`.

**RequestItems_proofs.** `OneEdit` and `NoRetiredLink`, from an invariant of each
page by how far it has come (past its checks, a draft for cash has no links, and
its links were to live items) and of each request: one transaction replaces its
lines, and the lines it saw are all there are.

**Updates_proofs.** `HeardAtMostOnce`: a sponsor in `told` is not told again and one
outside has no row. `MailHonest`, from how far each delivery has come.
`AttachmentsOwned`: what a handler that has not yet created its update was allowed
to attach belongs to the author (`FileState`), and stays so, because the owner of a
document never changes; so the check made when the post was received still holds
when it is written, although documents may have been attached elsewhere since.

**Model-checked only.** Liveness (`CapturedIsRecorded`, `PendingIsDecided`,
`ChoosersSettle`, `BellCatchesUp`), which TLAPS does not prove. Every invariant,
action property and refinement of the passing runs is also a theorem.

## 5. What is not modelled

- *Rate limiting*: a counter per address and window that no other part depends on.
- *Institutions*: a check for a school of that name before the insert; the same
  race is modelled for accounts and offers.
- *Profiles* of athletes, sponsors and suppliers, achievements and events:
  single-row edits with no invariant across steps.
- *Queries*: village search, discovery, statistics, read-only dashboards and the
  landing page keep no state across steps.
- *Uploads* of photos and verification documents: the same three calls as the
  attachments of an update, without a later step that relies on them.
- *Verification of sponsors and institutions*, and the notices of request decisions
  and verifications, which are written after the commit like those that are
  modelled.
- Wording, formatting, e-mail layout, the component library, the theme's colour
  arithmetic, migrations, seed, deployment, and the storage, mail, payment and
  identity services themselves, which are external.

What would add most next: `RateLimit` (at most max in a window, across the
boundary of two), and the notices of decisions in `RequestValidation`.

## 6. Observations

What the models showed of the code besides the two findings. Each is a behaviour
of the model that follows the code; the properties above name it as an exception
or are stated for histories without it.

- An edit between a coordinator's read and commit is opened to sponsors although
  the version before it was approved (`coordinator.service.ts:130`), and a payment
  of a request edited after the checkout takes it from the queue to
  PARTIALLY_FULFILLED without a decision (`sponsorship.service.ts:132`); a request
  nobody validated can be paid by its id (`sponsorship.service.ts:38`).
- An edit that read `raisedAmountPaise = 0` is written after the first payment
  (`athletes.ts:555`); a decision read before a payment takes the request back to
  OPEN or REJECTED with money raised (`coordinator.service.ts:133`).
- Two payments of one order that are verified at the same time are both credited:
  each handler read the row before the other's commit, and the unique index
  compares payment ids (`sponsorship.service.ts:104`). When they come one after the
  other the second is answered 200 and its money is in no ledger.
- A supplier whose notice is lost (`notify.ts:96`, or a stop between
  `admin-suppliers.ts:115` and `:136`), or about whom two administrators decide at
  the same time, may be left told the opposite of what holds, until a decision is
  next taken.
- Documents of an earlier update posted again are moved to the new one and missing
  from the earlier (`updates.ts:54`): the check counts ownership only. A form that
  lost its answer posts a second update when it is sent again.
- Two allocations created together may exceed the sponsorship (`sponsorships.ts:103`).
- Two edits of a request that overlap leave the lines of both with the total of
  the later (`athletes.ts:572`); a PUT of the kind alone leaves catalogue links on
  a cash request (`athletes.ts:567`); the total shown while drafting counts lines
  that are dropped when it is sent (`requests-manager.tsx:146`).
- The comment on creating offers says that it is gated on `canPublish`
  (`suppliers.ts:159`), the handler and the one below it that it is not. PATCH
  checks for no duplicate when an offer is made live again or moved. A supplier is
  told "you will be emailed either way" (`supplier-manager.tsx:272`), but an
  approval is of type SYSTEM, which is in-app only.
- `POST /coordinators` writes the role before it looks for a profile: a refusal
  with ALREADY_COORDINATOR, or a crash, leaves the role written (`admin.ts:418`).
- The import panel leaves `offersUpdated` out of its count (`import-panel.tsx:163`),
  although its comment says that the button "names the number of changes it is
  about to make" (`import-panel.tsx:139`):
  a sheet that only reprices links is said to match the catalogue, and cannot be
  committed from the page.
- A crash between an e-mail and its mark leaves a mail that the row does not
  know of; "mark all read" marks notices the bell has not shown
  (`notifications.ts:41`).
