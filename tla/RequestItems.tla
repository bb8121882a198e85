---------------------------- MODULE RequestItems ----------------------------
(***************************************************************************)
(* The lines of a request, from the form to the database: drafts in the    *)
(* web application, the catalogue check of the API, and the transaction    *)
(* that replaces the lines of a request wholesale under a stored total.    *)
(* A handler reads and judges, then its transaction deletes the lines it   *)
(* sees, then writes; handlers of other clients run in between.            *)
(***************************************************************************)
EXTENDS Naturals, FiniteSetsExt

CONSTANTS Requests,
          Clients,       \* browsers, each with one form or one call in flight
          Items,         \* catalogue items
          Lines,         \* the lines a draft may have, [item, paise]
          NoItem, NoRequest, NoPage,
          MaxEdits       \* bound: how often a request is written

ASSUME LinesAssumption ==
  /\ Lines \subseteq [item: Items \union {NoItem}, paise: Nat]
  /\ \A l \in Lines : [l EXCEPT !.item = NoItem] \in Lines
  /\ NoItem \notin Items
  /\ MaxEdits \in Nat \ {0}

VARIABLES request,      \* Request rows, or NoRequest
          lines,        \* RequestItem rows, each with the edit that wrote it
          item,         \* EquipmentItem rows: TRUE while isActive
          page,         \* what a client is doing, or NoPage
          overlapped,   \* (observed) requests edited by two transactions at once
          kindAlone     \* (observed) requests whose kind was set without their lines

vars == <<request, lines, item, page, overlapped, kindAlone>>
observed == <<overlapped, kindAlone>>

Kinds    == {"CASH", "EQUIPMENT"}
Creations == {"create", "raise"}
Statuses == {"PENDING_VALIDATION", "OPEN", "REJECTED", "CLOSED"}

TotalEstimated(ls) == MapThenSumSet(LAMBDA l : l.paise, ls)

RequestRows == [kind: Kinds, total: {TotalEstimated(ls) : ls \in SUBSET Lines},
                status: Statuses, raised: BOOLEAN, edits: 1..MaxEdits]
RowsOf(e, ls) == {[edit |-> e, item |-> l.item, paise |-> l.paise] : l \in ls}
LineRows == UNION {RowsOf(e, Lines) : e \in 1..MaxEdits}

\* draft: being written; sent: on the wire; begun: past the checks;
\* replacing: the transaction has deleted what it saw.
Pages == [pc: {"draft", "sent", "begun", "replacing"},
          op: {"create", "raise", "edit", "kind"}, r: Requests \union {NoRequest}, kind: Kinds,
          lines: SUBSET Lines, seen: SUBSET LineRows, live: SUBSET Items]

ASSUME NullsAssumption == NoRequest \notin Requests \union RequestRows /\ NoPage \notin Pages

TypeOK ==
  /\ request \in [Requests -> RequestRows \union {NoRequest}]
  /\ lines \in [Requests -> SUBSET LineRows]
  /\ page \in [Clients -> Pages \union {NoPage}]
  /\ overlapped \subseteq Requests
  /\ kindAlone \subseteq Requests
  /\ item \in [Items -> BOOLEAN]

Init ==
  /\ request = [r \in Requests |-> NoRequest]
  /\ lines = [r \in Requests |-> {}]
  /\ page = [c \in Clients |-> NoPage]
  /\ overlapped = {} /\ kindAlone = {}
  /\ item = [i \in Items |-> TRUE]

Linked(ls) == {l \in ls : l.item # NoItem}

-----------------------------------------------------------------------------
(* The form.                                                               *)

At(c, pc) == page[c] # NoPage /\ page[c].pc = pc

Turn(c, p) == page' = [page EXCEPT ![c] = p]

Draft(op, r, kind, ls) ==
  [pc |-> "draft", op |-> op, r |-> r, kind |-> kind, lines |-> ls,
   seen |-> {}, live |-> {}]

\* An athlete creates, a coordinator raises for an athlete.
StartCreate(c, op) ==
  /\ page[c] = NoPage
  /\ Turn(c, Draft(op, NoRequest, "EQUIPMENT", {}))
  /\ UNCHANGED <<request, lines, observed, item>>

AsDraft(r) == {[item |-> row.item, paise |-> row.paise] : row \in lines[r]}

\* The button is on requests that wait or were sent back.
StartEdit(c, r) ==
  /\ page[c] = NoPage
  /\ request[r] # NoRequest
  /\ request[r].status \in {"REJECTED", "PENDING_VALIDATION"}
  /\ Turn(c, Draft("edit", r, request[r].kind, AsDraft(r)))
  /\ UNCHANGED <<request, lines, observed, item>>

Unlinked(ls) == {[l EXCEPT !.item = NoItem] : l \in ls}

\* Turning to cash drops the catalogue links of the draft.
SetKind(c, k) ==
  /\ At(c, "draft") /\ page[c].kind # k
  /\ LET ls == IF k = "CASH" THEN Unlinked(page[c].lines) ELSE page[c].lines
     IN  Turn(c, [page[c] EXCEPT !.kind = k, !.lines = ls])
  /\ UNCHANGED <<request, lines, observed, item>>

\* Free text, or what the picker lists; the list is as old as its search.
AddItem(c, l) ==
  /\ At(c, "draft")
  /\ l.item # NoItem => page[c].kind = "EQUIPMENT"
  /\ Turn(c, [page[c] EXCEPT !.lines = @ \union {l}])
  /\ UNCHANGED <<request, lines, observed, item>>

RemoveItem(c, l) ==
  /\ At(c, "draft") /\ l \in page[c].lines
  /\ Turn(c, [page[c] EXCEPT !.lines = @ \ {l}])
  /\ UNCHANGED <<request, lines, observed, item>>

Send(c) ==
  /\ At(c, "draft") /\ page[c].lines # {}
  /\ Turn(c, [page[c] EXCEPT !.pc = "sent"])
  /\ UNCHANGED <<request, lines, observed, item>>

Cancel(c) ==
  /\ At(c, "draft")
  /\ Turn(c, NoPage)
  /\ UNCHANGED <<request, lines, observed, item>>

\* Not from a form: the API accepts any part of a request, the kind alone too.
SendKind(c, r, k) ==
  /\ page[c] = NoPage
  /\ request[r] # NoRequest
  /\ Turn(c, [Draft("kind", r, k, {}) EXCEPT !.pc = "sent"])
  /\ UNCHANGED <<request, lines, observed, item>>

-----------------------------------------------------------------------------
(* The handlers.                                                           *)

\* Seeded bug: any item will do.
KindAllows(kind, ls) == Linked(ls) # {} => kind = "EQUIPMENT"

\* assertCatalogueLinks
CatalogueLinks(kind, ls) ==
  Linked(ls) # {} => /\ kind = "EQUIPMENT"
                     /\ \A l \in Linked(ls) : item[l.item]

\* A 4xx or 5xx leaves the form open; a body without a form is over.
Refused(c) ==
  LET p == page[c] IN
  Turn(c, IF p.op = "kind" THEN NoPage ELSE Draft(p.op, p.r, p.kind, p.lines))

Pass(c) ==
  Turn(c, [page[c] EXCEPT !.pc = "begun", !.live = {i \in Items : item[i]}])

CreateCheck(c) ==
  /\ At(c, "sent") /\ page[c].op \in Creations
  /\ IF CatalogueLinks(page[c].kind, page[c].lines) THEN Pass(c) ELSE Refused(c)
  /\ UNCHANGED <<request, lines, observed, item>>

Editable(r) == request[r].status # "CLOSED" /\ ~request[r].raised

\* Links are looked at only when the body has lines, and judged by the kind in it
\* (one with lines and no kind, judged by the stored kind, is sent by no form: left out).
EditLinks(c) == page[c].op = "kind" \/ CatalogueLinks(page[c].kind, page[c].lines)

EditCheck(c) ==
  /\ At(c, "sent") /\ page[c].op \notin Creations
  /\ IF Editable(page[c].r) /\ EditLinks(c) THEN Pass(c) ELSE Refused(c)
  /\ UNCHANGED <<request, lines, observed, item>>

FirstStatus(op) == IF op = "raise" THEN "OPEN" ELSE "PENDING_VALIDATION"

CreateCommit(c, r) ==
  LET p == page[c] IN
  /\ At(c, "begun") /\ p.op \in Creations
  /\ request[r] = NoRequest
  /\ request' = [request EXCEPT ![r] =
       [kind |-> p.kind, total |-> TotalEstimated(p.lines), status |-> FirstStatus(p.op),
        raised |-> FALSE, edits |-> 1]]
  /\ lines' = [lines EXCEPT ![r] = RowsOf(1, p.lines)]
  /\ Turn(c, NoPage)
  /\ UNCHANGED <<observed, item>>

NothingReplaced(c) == {}      \* seeded bug: the new lines are added to the old

\* deleteMany deletes the committed rows of the request, and no others.
Replaced(c) == IF page[c].op = "kind" THEN {} ELSE lines[page[c].r]

EditDelete(c) ==
  LET r == page[c].r IN
  /\ At(c, "begun") /\ page[c].op \notin Creations
  /\ Turn(c, [page[c] EXCEPT !.pc = "replacing", !.seen = Replaced(c)])
  /\ overlapped' = IF \E d \in Clients \ {c} : At(d, "replacing") /\ page[d].r = r
                   THEN overlapped \union {r} ELSE overlapped
  /\ UNCHANGED <<request, lines, kindAlone, item>>

Rewritten(row, p) ==
  [row EXCEPT !.kind = p.kind, !.status = "PENDING_VALIDATION", !.edits = row.edits + 1,
              !.total = IF p.op = "kind" THEN row.total ELSE TotalEstimated(p.lines)]

EditCommit(c) ==
  LET r == page[c].r
      p == page[c]
      e == request[r].edits + 1
  IN
  /\ At(c, "replacing") /\ e <= MaxEdits
  /\ request' = [request EXCEPT ![r] = Rewritten(request[r], p)]
  /\ lines' = [lines EXCEPT ![r] = (lines[r] \ p.seen) \union RowsOf(e, p.lines)]
  /\ kindAlone' = IF p.op = "kind" THEN kindAlone \union {r} ELSE kindAlone
  /\ Turn(c, NoPage)
  /\ UNCHANGED <<overlapped, item>>

\* The server stops, or the call is lost, before the commit.
Fail(c) ==
  /\ page[c] # NoPage /\ page[c].pc # "draft"
  /\ Refused(c)
  /\ UNCHANGED <<request, lines, observed, item>>

-----------------------------------------------------------------------------
(* What else happens to a request and to the catalogue.                    *)

Close(c, r) ==
  /\ page[c] = NoPage
  /\ request[r] # NoRequest /\ request[r].status # "CLOSED"
  /\ request' = [request EXCEPT ![r].status = "CLOSED"]
  /\ UNCHANGED <<lines, page, observed, item>>

Decide(r, s) ==
  /\ request[r] # NoRequest /\ request[r].status = "PENDING_VALIDATION"
  /\ request' = [request EXCEPT ![r].status = s]
  /\ UNCHANGED <<lines, page, observed, item>>

Fund(r) ==
  /\ request[r] # NoRequest /\ request[r].status = "OPEN"
  /\ request' = [request EXCEPT ![r].raised = TRUE]
  /\ UNCHANGED <<lines, page, observed, item>>

SetActive(i) ==
  /\ item' = [item EXCEPT ![i] = ~@]
  /\ UNCHANGED <<request, lines, page, observed>>

\* The draft on screen: its kind, and its lines.
EditorLines(c) == \E l \in Lines : AddItem(c, l) \/ RemoveItem(c, l)

RequestEditor(c) ==
  /\ page[c] # NoPage /\ page[c].op # "raise"
  /\ EditorLines(c) \/ \E k \in Kinds : SetKind(c, k)

\* The athlete's requests, with the dialog that edits one; and the page around
\* them, which sends a draft.
RequestList(c) == Cancel(c) \/ \E r \in Requests : StartEdit(c, r)

RequestsManager(c) ==
  \/ StartCreate(c, "create") \/ RequestList(c)
  \/ page[c] # NoPage /\ page[c].op # "raise" /\ Send(c)

\* The coordinator's page: a draft of its own, for an athlete of the village.
Raising(c) == page[c] # NoPage /\ page[c].op = "raise"

RaiseLines(c) == Raising(c) /\ EditorLines(c)

RaiseForm(c) ==
  \/ RaiseLines(c)
  \/ Raising(c) /\ \E k \in Kinds : SetKind(c, k)

RaiseRequest(c) ==
  \/ StartCreate(c, "raise") \/ RaiseForm(c)
  \/ Raising(c) /\ Send(c)

Form(c) == RequestEditor(c) \/ RequestsManager(c) \/ RaiseRequest(c)

Handle(c) ==
  \/ CreateCheck(c) \/ (\E r \in Requests : CreateCommit(c, r))
  \/ EditCheck(c) \/ EditDelete(c) \/ EditCommit(c) \/ Fail(c)

Next ==
  \/ \E c \in Clients : Form(c) \/ Handle(c)
  \/ \E c \in Clients, r \in Requests : Close(c, r) \/ \E k \in Kinds : SendKind(c, r, k)
  \/ \E r \in Requests : Fund(r) \/ \E s \in {"OPEN", "REJECTED"} : Decide(r, s)
  \/ \E i \in Items : SetActive(i)

Spec == Init /\ [][Next]_vars

-----------------------------------------------------------------------------
(* What a coordinator and a sponsor read is one edit, whole: all lines     *)
(* from it, the total their sum, and cash without catalogue links, however *)
(* edits from stale forms follow each other; unless two transactions of    *)
(* edits overlapped (athletes.ts:570-583), and for the links unless the    *)
(* kind was set by itself (athletes.ts:567).                               *)
ItemsOfOneEdit ==
  \A r \in Requests \ overlapped : request[r] # NoRequest =>
    /\ \A a, b \in lines[r] : a.edit = b.edit
    /\ lines[r] # {}
    /\ request[r].total = TotalEstimated(AsDraft(r))
    /\ r \notin kindAlone /\ request[r].kind = "CASH" => Linked(lines[r]) = {}

(* "Inactive counts as missing ... resolving one would resurrect it through*)
(* the back door": a request is never saved with a link to an item that    *)
(* had been retired when the handler looked, however old the draft, the    *)
(* list it was picked from or the saved line (catalogue.service.ts:38).    *)
RetiredNotLinked ==
  [][\A r \in Requests : lines'[r] # lines[r] =>
       \E c \in Clients :
         /\ page[c] # NoPage
         /\ {l.item : l \in Linked(lines'[r] \ lines[r])} \subseteq page[c].live]_vars
=============================================================================
