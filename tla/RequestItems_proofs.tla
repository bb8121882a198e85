------------------------ MODULE RequestItems_proofs ------------------------
(***************************************************************************)
(* What is proved of RequestItems for any requests, browsers, items and    *)
(* lines: its types, that a request holds the lines of one edit, and that  *)
(* no retired item is linked.                                              *)
(***************************************************************************)
EXTENDS RequestItems, TLAPS

Replacing(c, r) == At(c, "replacing") /\ page[c].r = r

Past(c) == page[c].pc \in {"begun", "replacing"}

\* What a page holds, by how far it has come.
PageState(c) == page[c] # NoPage =>
  /\ page[c].op \notin Creations => page[c].r \in Requests /\ request[page[c].r] # NoRequest
  /\ page[c].op = "kind" => page[c].lines = {} /\ page[c].pc # "draft"
  /\ page[c].op # "kind" /\ page[c].pc # "draft" => page[c].lines # {}
  /\ page[c].pc = "replacing" => page[c].op \notin Creations
  /\ Past(c) /\ page[c].kind = "CASH" => Linked(page[c].lines) = {}
  /\ Past(c) => {l.item : l \in Linked(page[c].lines)} \subseteq page[c].live
  /\ page[c].pc = "replacing" /\ page[c].r \notin overlapped => page[c].seen = Replaced(c)

\* The lines of a request are one edit's.
Whole(r) == request[r] # NoRequest =>
  /\ \A a, b \in lines[r] : a.edit = b.edit
  /\ lines[r] # {}
  /\ request[r].total = TotalEstimated(AsDraft(r))
  /\ r \notin kindAlone /\ request[r].kind = "CASH" => Linked(lines[r]) = {}

RequestState(r) == r \notin overlapped =>
  /\ \A c, d \in Clients : Replacing(c, r) /\ Replacing(d, r) => c = d
  /\ Whole(r)

IInv ==
  /\ TypeOK
  /\ \A c \in Clients : PageState(c)
  /\ \A r \in Requests : RequestState(r)

-----------------------------------------------------------------------------
(* Lines and rows.                                                         *)

\* A row of an edit is a line with the edit's number; unnumbered it is the line.
LEMMA RowsAreLines ==
    ASSUME NEW e \in 1..MaxEdits, NEW ls \in SUBSET Lines
    PROVE  /\ RowsOf(e, ls) \in SUBSET LineRows
           /\ {[item |-> row.item, paise |-> row.paise] : row \in RowsOf(e, ls)} = ls
           /\ \A a, b \in RowsOf(e, ls) : a.edit = b.edit
           /\ ls # {} => RowsOf(e, ls) # {}
           /\ {l.item : l \in Linked(RowsOf(e, ls))} = {l.item : l \in Linked(ls)}
           /\ Linked(ls) = {} => Linked(RowsOf(e, ls)) = {}
<1>1. \A l \in ls : l \in [item: Items \union {NoItem}, paise: Nat]
  BY LinesAssumption
<1>2. \A l \in ls : [item |-> l.item, paise |-> l.paise] = l
  BY <1>1
<1>3. RowsOf(e, ls) \in SUBSET LineRows
  BY DEF RowsOf, LineRows
<1> DEFINE R(l) == [edit |-> e, item |-> l.item, paise |-> l.paise]
           back(row) == [item |-> row.item, paise |-> row.paise]
<1>r. \A l \in ls : R(l).edit = e /\ R(l).item = l.item /\ R(l).paise = l.paise
  OBVIOUS
<1>d. RowsOf(e, ls) = {R(l) : l \in ls}
  BY DEF RowsOf
<1> HIDE DEF R
<1>b. \A l \in ls : back(R(l)) = l
  BY <1>2, <1>r
<1>4. {back(row) : row \in RowsOf(e, ls)} = ls
  <2> HIDE DEF back
  <2>1. {back(row) : row \in RowsOf(e, ls)} \subseteq ls
    BY <1>b, <1>d
  <2>2. \A l \in ls : l \in {back(row) : row \in RowsOf(e, ls)}
    BY <1>b, <1>d
  <2> QED BY <2>1, <2>2
<1>5. /\ \A a, b \in RowsOf(e, ls) : a.edit = b.edit
      /\ ls # {} => RowsOf(e, ls) # {}
  BY <1>r, <1>d
<1>l. \A l \in ls : R(l) \in Linked(RowsOf(e, ls)) <=> l \in Linked(ls)
  BY <1>r, <1>d DEF Linked
<1>m. /\ \A row \in Linked(RowsOf(e, ls)) : \E l \in Linked(ls) : row = R(l)
      /\ \A l \in Linked(ls) : l \in ls /\ R(l) \in Linked(RowsOf(e, ls))
  BY <1>d, <1>l DEF Linked
<1>6. {l.item : l \in Linked(RowsOf(e, ls))} = {l.item : l \in Linked(ls)}
  <2>1. \A row \in Linked(RowsOf(e, ls)) : \E l \in Linked(ls) : row.item = l.item
    BY <1>m, <1>r
  <2>2. \A l \in Linked(ls) : \E row \in Linked(RowsOf(e, ls)) : row.item = l.item
    BY <1>m, <1>r
  <2> QED BY <2>1, <2>2
<1>7. Linked(ls) = {} => Linked(RowsOf(e, ls)) = {}
  BY <1>m
<1> QED BY <1>3, <1>4, <1>5, <1>6, <1>7

\* The lines of a saved request make a draft.
LEMMA SavedDrafts ==
    ASSUME TypeOK, NEW r \in Requests
    PROVE  AsDraft(r) \in SUBSET Lines
<1> SUFFICES ASSUME NEW row \in lines[r]
             PROVE  [item |-> row.item, paise |-> row.paise] \in Lines
  BY DEF AsDraft
<1>1. PICK e \in 1..MaxEdits : row \in RowsOf(e, Lines)
  BY DEF TypeOK, LineRows
<1> QED BY <1>1, LinesAssumption DEF RowsOf

LEMMA Drafts ==
    ASSUME NEW op \in {"create", "raise", "edit", "kind"}, NEW r \in Requests \union {NoRequest},
           NEW k \in Kinds, NEW ls \in SUBSET Lines
    PROVE  /\ Draft(op, r, k, ls) \in Pages
           /\ Draft(op, r, k, ls).pc = "draft"
           /\ Draft(op, r, k, ls).op = op /\ Draft(op, r, k, ls).r = r
           /\ Draft(op, r, k, ls).kind = k /\ Draft(op, r, k, ls).lines = ls
BY DEF Draft, Pages

\* A page is typed and has its parts.
LEMMA Typed ==
    ASSUME TypeOK, NEW c \in Clients, page[c] # NoPage
    PROVE  /\ page[c] \in Pages
           /\ page[c].op \in {"create", "raise", "edit", "kind"}
           /\ page[c].r \in Requests \union {NoRequest} /\ page[c].kind \in Kinds
           /\ page[c].lines \in SUBSET Lines /\ page[c].seen \in SUBSET LineRows
           /\ page[c].pc \in {"draft", "sent", "begun", "replacing"}
BY DEF TypeOK, Pages

-----------------------------------------------------------------------------
(* A client's turn that writes nothing but its page.                       *)

\* What a page that is not yet replacing must satisfy.
Fit(p) ==
  /\ p \in Pages /\ p.pc # "replacing"
  /\ p.op \notin Creations => p.r \in Requests /\ request[p.r] # NoRequest
  /\ p.op = "kind" => p.lines = {} /\ p.pc # "draft"
  /\ p.op # "kind" /\ p.pc # "draft" => p.lines # {}
  /\ p.pc = "begun" /\ p.kind = "CASH" => Linked(p.lines) = {}
  /\ p.pc = "begun" => {l.item : l \in Linked(p.lines)} \subseteq p.live

LEMMA TurnHolds ==
    ASSUME IInv, NEW c \in Clients, NEW p, Turn(c, p), p = NoPage \/ Fit(p),
           UNCHANGED <<request, lines, observed>>, item' \in [Items -> BOOLEAN]
    PROVE  IInv'
<1>0. TypeOK /\ UNCHANGED <<request, lines, overlapped, kindAlone>>
  BY DEF IInv, observed
<1>1. /\ page' = [page EXCEPT ![c] = p] /\ page'[c] = p
      /\ \A d \in Clients \ {c} : page'[d] = page[d]
  BY <1>0 DEF TypeOK, Turn
<1>2. TypeOK'
  BY <1>0, <1>1 DEF TypeOK, Fit
<1>3. ASSUME NEW d \in Clients PROVE PageState(d)'
  <2>1. CASE d = c
    BY <1>0, <1>1, <2>1 DEF PageState, Past, Fit
  <2>2. CASE d # c
    BY <1>0, <1>1, <2>2 DEF PageState, Past, IInv, Replaced
  <2> QED BY <2>1, <2>2
<1>4. ASSUME NEW r \in Requests PROVE RequestState(r)'
  <2>1. \A d \in Clients : Replacing(d, r)' => Replacing(d, r)
    BY <1>1 DEF Replacing, At, Fit
  <2>2. Whole(r)' <=> Whole(r)
    BY <1>0 DEF Whole, AsDraft
  <2> QED BY <1>0, <2>1, <2>2 DEF RequestState, IInv
<1> QED BY <1>2, <1>3, <1>4 DEF IInv

LEMMA DraftFits ==
    ASSUME NEW op \in {"create", "raise", "edit"}, NEW r \in Requests \union {NoRequest},
           NEW k \in Kinds, NEW ls \in SUBSET Lines,
           op = "edit" => r \in Requests /\ request[r] # NoRequest
    PROVE  Fit(Draft(op, r, k, ls))
<1>1. Draft(op, r, k, ls).pc = "draft" /\ Draft(op, r, k, ls) \in Pages
      /\ Draft(op, r, k, ls).op = op /\ Draft(op, r, k, ls).r = r
  BY Drafts
<1> QED BY <1>1 DEF Fit, Creations

\* A refusal leaves a draft or nothing.
LEMMA RefusedFits ==
    ASSUME IInv, NEW c \in Clients, page[c] # NoPage, Refused(c)
    PROVE  \E p : Turn(c, p) /\ (p = NoPage \/ Fit(p))
<1>1. CASE page[c].op = "kind"
  BY <1>1 DEF Refused
<1>2. CASE page[c].op # "kind"
  <2> DEFINE d == Draft(page[c].op, page[c].r, page[c].kind, page[c].lines)
  <2>1. Turn(c, d)
    BY <1>2 DEF Refused
  <2>2. PageState(c)
    BY DEF IInv
  <2>3. Fit(d)
    BY <1>2, <2>2, Typed, DraftFits DEF IInv, PageState, Creations
  <2> QED BY <2>1, <2>3
<1> QED BY <1>1, <1>2

\* A body that passed the checks.
LEMMA PassFits ==
    ASSUME IInv, NEW c \in Clients, At(c, "sent"), Pass(c),
           page[c].op = "kind" \/ CatalogueLinks(page[c].kind, page[c].lines)
    PROVE  \E p : Turn(c, p) /\ Fit(p)
<1> DEFINE p == [page[c] EXCEPT !.pc = "begun", !.live = {i \in Items : item[i]}]
<1>1. PageState(c) /\ page[c] # NoPage
  BY DEF IInv, At
<1>2. /\ p \in Pages /\ p.pc = "begun" /\ p.op = page[c].op /\ p.r = page[c].r
      /\ p.kind = page[c].kind /\ p.lines = page[c].lines /\ p.live = {i \in Items : item[i]}
  <2>1. page[c] \in Pages
    BY <1>1, Typed DEF IInv
  <2> QED BY <2>1 DEF Pages
<1>3. Linked({}) = {}
  BY DEF Linked
<1>4. page[c].kind = "CASH" => Linked(page[c].lines) = {}
  BY <1>1, <1>3 DEF PageState, CatalogueLinks
<1>5. {l.item : l \in Linked(page[c].lines)} \subseteq {i \in Items : item[i]}
  <2>1. \A l \in Linked(page[c].lines) : l.item \in Items
    BY <1>1, Typed, LinesAssumption DEF IInv, Linked
  <2>2. \A l \in Linked(page[c].lines) : item[l.item]
    BY <1>1, <1>3 DEF PageState, CatalogueLinks
  <2> QED BY <2>1, <2>2
<1>6. Turn(c, p)
  BY DEF Pass
<1> HIDE DEF p
<1>7. Fit(p)
  BY <1>1, <1>2, <1>4, <1>5 DEF Fit, PageState, At
<1> QED BY <1>6, <1>7

LEMMA FormHolds == ASSUME IInv, NEW c \in Clients, Form(c) PROVE IInv'
<1>0. TypeOK /\ PageState(c) /\ UNCHANGED <<request, lines, observed>> /\ item' \in [Items -> BOOLEAN]
  BY DEF IInv, TypeOK, Form, RequestEditor, EditorLines, RequestList, RequestsManager,
      RaiseLines,
        RaiseForm, RaiseRequest, StartCreate, StartEdit, SetKind,
        AddItem, RemoveItem, Send, Cancel
<1> SUFFICES \E p : Turn(c, p) /\ (p = NoPage \/ Fit(p))
  BY <1>0, TurnHolds
<1>1. ASSUME NEW op \in Creations, StartCreate(c, op) PROVE \E p : Turn(c, p) /\ Fit(p)
  BY <1>1, DraftFits DEF StartCreate, Creations, Kinds
<1>2. ASSUME NEW r \in Requests, StartEdit(c, r) PROVE \E p : Turn(c, p) /\ Fit(p)
  <2>1. request[r].kind \in Kinds /\ request[r] # NoRequest
    BY <1>0, <1>2 DEF StartEdit, TypeOK, RequestRows
  <2>2. AsDraft(r) \in SUBSET Lines
    BY <1>0, SavedDrafts
  <2> QED BY <1>2, <2>1, <2>2, DraftFits DEF StartEdit
<1>3. ASSUME At(c, "draft") PROVE
        /\ page[c] \in Pages /\ page[c] # NoPage /\ page[c].pc = "draft" /\ page[c].op # "kind"
        /\ page[c].lines \in SUBSET Lines
        /\ page[c].op \notin Creations => page[c].r \in Requests /\ request[page[c].r] # NoRequest
  BY <1>0, <1>3, Typed DEF At, PageState
<1>4. ASSUME At(c, "draft"), NEW k \in Kinds, NEW ls \in SUBSET Lines
      PROVE  Fit([page[c] EXCEPT !.kind = k, !.lines = ls])
  <2> DEFINE p == [page[c] EXCEPT !.kind = k, !.lines = ls]
  <2>1. p \in Pages /\ p.pc = "draft" /\ p.op = page[c].op /\ p.r = page[c].r
    BY <1>3, <1>4 DEF Pages
  <2> HIDE DEF p
  <2>2. Fit(p)
    BY <1>3, <1>4, <2>1 DEF Fit
  <2> QED BY <2>2 DEF p
<1>5. ASSUME At(c, "draft"), NEW ls \in SUBSET Lines PROVE Fit([page[c] EXCEPT !.lines = ls])
  <2> DEFINE p == [page[c] EXCEPT !.lines = ls]
  <2>1. p \in Pages /\ p.pc = "draft" /\ p.op = page[c].op /\ p.r = page[c].r
    BY <1>3, <1>5 DEF Pages
  <2> HIDE DEF p
  <2>2. Fit(p)
    BY <1>3, <1>5, <2>1 DEF Fit
  <2> QED BY <2>2 DEF p
<1>6. ASSUME NEW k \in Kinds, SetKind(c, k) PROVE \E p : Turn(c, p) /\ Fit(p)
  <2>1. At(c, "draft")
    BY <1>6 DEF SetKind
  <2>2. Unlinked(page[c].lines) \in SUBSET Lines
    BY <1>3, <2>1, LinesAssumption DEF Unlinked
  <2>3. \E ls \in SUBSET Lines : Turn(c, [page[c] EXCEPT !.kind = k, !.lines = ls])
    BY <1>3, <1>6, <2>1, <2>2 DEF SetKind
  <2> QED BY <1>4, <2>1, <2>3
<1>7. ASSUME NEW l \in Lines, AddItem(c, l) \/ RemoveItem(c, l) PROVE \E p : Turn(c, p) /\ Fit(p)
  <2>1. At(c, "draft")
    BY <1>7 DEF AddItem, RemoveItem
  <2>2. page[c].lines \union {l} \in SUBSET Lines /\ page[c].lines \ {l} \in SUBSET Lines
    BY <1>3, <2>1
  <2>3. \E ls \in SUBSET Lines : Turn(c, [page[c] EXCEPT !.lines = ls])
    BY <1>7, <2>2 DEF AddItem, RemoveItem
  <2> QED BY <1>5, <2>1, <2>3
<1>8. ASSUME Send(c) PROVE \E p : Turn(c, p) /\ Fit(p)
  <2> DEFINE p == [page[c] EXCEPT !.pc = "sent"]
  <2>1. At(c, "draft") /\ page[c].lines # {} /\ Turn(c, p)
    BY <1>8 DEF Send
  <2>2. p \in Pages /\ p.pc = "sent" /\ p.op = page[c].op /\ p.r = page[c].r /\ p.lines = page[c].lines
    BY <1>3, <2>1 DEF Pages
  <2> HIDE DEF p
  <2>3. Fit(p)
    BY <1>3, <2>1, <2>2 DEF Fit
  <2> QED BY <2>1, <2>3
<1> QED BY <1>1, <1>2, <1>6, <1>7, <1>8
    DEF Form, RequestEditor, EditorLines, RequestList, RequestsManager, RaiseLines,
        RaiseForm, RaiseRequest, Cancel, Creations

\* The handlers' steps before they write.
LEMMA CheckHolds ==
    ASSUME IInv, NEW c \in Clients, CreateCheck(c) \/ EditCheck(c) \/ Fail(c)
    PROVE  IInv'
<1>0. TypeOK /\ UNCHANGED <<request, lines, observed>> /\ item' \in [Items -> BOOLEAN]
  BY DEF IInv, TypeOK, CreateCheck, EditCheck, Fail
<1> SUFFICES \E p : Turn(c, p) /\ (p = NoPage \/ Fit(p))
  BY <1>0, TurnHolds
<1>1. page[c] # NoPage
  BY DEF CreateCheck, EditCheck, Fail, At
<1>2. CASE Refused(c)
  BY <1>1, <1>2, RefusedFits
<1>3. CASE /\ At(c, "sent") /\ Pass(c)
           /\ page[c].op = "kind" \/ CatalogueLinks(page[c].kind, page[c].lines)
  BY <1>3, PassFits
<1> QED BY <1>2, <1>3 DEF CreateCheck, EditCheck, EditLinks, Fail

LEMMA SendKindHolds ==
    ASSUME IInv, NEW c \in Clients, NEW r \in Requests, NEW k \in Kinds, SendKind(c, r, k)
    PROVE  IInv'
<1> DEFINE d == Draft("kind", r, k, {})
           p == [d EXCEPT !.pc = "sent"]
<1>1. /\ d \in Pages /\ d.op = "kind" /\ d.r = r /\ d.lines = {}
  BY Drafts
<1> HIDE DEF d
<1>2. p \in Pages /\ p.op = "kind" /\ p.r = r /\ p.lines = {} /\ p.pc = "sent"
  BY <1>1 DEF Pages
<1>3. Turn(c, p) /\ request[r] # NoRequest /\ UNCHANGED <<request, lines, observed, item>>
  BY DEF SendKind, d
<1> HIDE DEF p
<1>4. Fit(p)
  BY <1>2, <1>3 DEF Fit
<1> QED BY <1>3, <1>4, TurnHolds DEF IInv, TypeOK

-----------------------------------------------------------------------------
(* The steps that write a request.                                         *)

\* A request that has just been given the lines of one edit.
LEMMA Written ==
    ASSUME TypeOK, NEW r \in Requests, NEW e \in 1..MaxEdits, NEW ls \in SUBSET Lines, ls # {},
           lines' = [lines EXCEPT ![r] = RowsOf(e, ls)],
           request'[r].total = TotalEstimated(ls),
           request'[r].kind = "CASH" => Linked(ls) = {}
    PROVE  Whole(r)'
<1>1. lines'[r] = RowsOf(e, ls)
  BY DEF TypeOK
<1>2. /\ \A a, b \in RowsOf(e, ls) : a.edit = b.edit
      /\ RowsOf(e, ls) # {}
      /\ {[item |-> row.item, paise |-> row.paise] : row \in RowsOf(e, ls)} = ls
      /\ Linked(ls) = {} => Linked(RowsOf(e, ls)) = {}
  BY RowsAreLines
<1>3. AsDraft(r)' = ls
  BY <1>1, <1>2 DEF AsDraft
<1>4. request'[r].total = TotalEstimated(AsDraft(r)')
  BY <1>3
<1> QED BY <1>1, <1>2, <1>4 DEF Whole

LEMMA CreateCommitHolds ==
    ASSUME IInv, NEW c \in Clients, NEW r \in Requests, CreateCommit(c, r)
    PROVE  IInv'
<1> DEFINE ls == page[c].lines
           row == [kind |-> page[c].kind, total |-> TotalEstimated(ls),
                   status |-> FirstStatus(page[c].op), raised |-> FALSE, edits |-> 1]
<1>0. TypeOK /\ PageState(c)
  BY DEF IInv
<1>1. /\ page[c] # NoPage /\ page[c].pc = "begun" /\ page[c].op \in Creations
      /\ request[r] = NoRequest /\ request' = [request EXCEPT ![r] = row]
      /\ lines' = [lines EXCEPT ![r] = RowsOf(1, ls)]
      /\ page' = [page EXCEPT ![c] = NoPage] /\ UNCHANGED <<overlapped, kindAlone, item>>
  BY DEF CreateCommit, At, Turn, observed
<1>2. /\ ls \in SUBSET Lines /\ ls # {} /\ (page[c].kind = "CASH" => Linked(ls) = {})
  BY <1>0, <1>1, Typed DEF PageState, Past, Creations
<1>3. 1 \in 1..MaxEdits
  BY LinesAssumption
<1>4. /\ row \in RequestRows /\ row.kind = page[c].kind /\ row.total = TotalEstimated(ls)
      /\ row # NoRequest
  <2>1. row \in RequestRows
    BY <1>0, <1>1, <1>2, <1>3, Typed DEF RequestRows, FirstStatus, Statuses
  <2> QED BY <2>1, NullsAssumption
<1>5. RowsOf(1, ls) \in SUBSET LineRows
  BY <1>2, <1>3, RowsAreLines
<1> HIDE DEF row
<1>6. /\ request'[r] = row /\ \A x \in Requests \ {r} : request'[x] = request[x]
      /\ \A x \in Requests \ {r} : lines'[x] = lines[x]
      /\ page'[c] = NoPage /\ \A d \in Clients \ {c} : page'[d] = page[d]
  BY <1>0, <1>1 DEF TypeOK
<1>7. TypeOK'
  BY <1>0, <1>1, <1>4, <1>5 DEF TypeOK
<1>8. ASSUME NEW d \in Clients PROVE PageState(d)'
  <2>1. CASE d # c
    <3>1. PageState(d) /\ page'[d] = page[d]
      BY <1>6, <2>1 DEF IInv
    <3>2. page[d] # NoPage /\ page[d].op \notin Creations => page[d].r # r
      BY <1>1, <3>1 DEF PageState
    <3>3. page[d] # NoPage /\ page[d].op \notin Creations =>
            /\ request'[page[d].r] = request[page[d].r]
            /\ Replaced(d)' = Replaced(d)
      BY <1>6, <3>1, <3>2 DEF PageState, Replaced
    <3> QED BY <1>1, <3>1, <3>3 DEF PageState, Past
  <2> QED BY <1>6, <2>1 DEF PageState
<1>9. ASSUME NEW x \in Requests PROVE RequestState(x)'
  <2>1. \A d \in Clients : Replacing(d, x)' => Replacing(d, x)
    BY <1>6 DEF Replacing, At
  <2>2. CASE x = r
    <3>1. Whole(r)'
      BY <1>0, <1>1, <1>2, <1>3, <1>4, <1>6, Written
    <3> QED BY <1>1, <2>1, <2>2, <3>1 DEF RequestState, IInv
  <2>3. CASE x # r
    <3>1. Whole(x)' <=> Whole(x)
      BY <1>1, <1>6, <2>3 DEF Whole, AsDraft
    <3> QED BY <1>1, <2>1, <3>1 DEF RequestState, IInv
  <2> QED BY <2>2, <2>3
<1> QED BY <1>7, <1>8, <1>9 DEF IInv

LEMMA EditDeleteHolds ==
    ASSUME IInv, NEW c \in Clients, EditDelete(c)
    PROVE  IInv'
<1> DEFINE p == [page[c] EXCEPT !.pc = "replacing", !.seen = Replaced(c)]
<1>0. TypeOK /\ PageState(c) /\ page[c] # NoPage /\ page[c] \in Pages
  BY Typed DEF IInv, EditDelete, At
<1>1. /\ page[c].pc = "begun" /\ page[c].op \notin Creations
      /\ page' = [page EXCEPT ![c] = p] /\ UNCHANGED <<request, lines, kindAlone, item>>
      /\ page[c].r \in Requests
  BY <1>0 DEF EditDelete, At, Turn, PageState
<1>2. /\ overlapped \subseteq overlapped' /\ overlapped' \subseteq overlapped \union {page[c].r}
      /\ page[c].r \notin overlapped' => \A d \in Clients \ {c} : ~Replacing(d, page[c].r)
  BY DEF EditDelete, Replacing
<1>3. /\ p \in Pages /\ p.pc = "replacing" /\ p.op = page[c].op /\ p.r = page[c].r
      /\ p.kind = page[c].kind /\ p.lines = page[c].lines /\ p.live = page[c].live
      /\ p.seen = Replaced(c)
  <2>1. Replaced(c) \in SUBSET LineRows
    BY <1>0, <1>1 DEF TypeOK, Replaced
  <2> HIDE DEF Replaced
  <2> QED BY <1>0, <2>1 DEF Pages
<1> HIDE DEF p
<1>4. page'[c] = p /\ \A d \in Clients \ {c} : page'[d] = page[d]
  BY <1>0, <1>1 DEF TypeOK
<1>5. TypeOK'
  BY <1>0, <1>1, <1>2, <1>3 DEF TypeOK
<1>6. ASSUME NEW d \in Clients PROVE PageState(d)'
  <2>1. CASE d # c
    <3>1. Replaced(d)' = Replaced(d) /\ PageState(d) /\ page'[d] = page[d]
      BY <1>1, <1>4, <2>1 DEF Replaced, IInv
    <3> QED BY <1>1, <1>2, <3>1 DEF PageState, Past
  <2>2. CASE d = c
    <3>1. Replaced(c)' = Replaced(c)
      BY <1>1, <1>3, <1>4 DEF Replaced
    <3> QED BY <1>0, <1>1, <1>3, <1>4, <2>2, <3>1 DEF PageState, Past
  <2> QED BY <2>1, <2>2
<1>7. ASSUME NEW x \in Requests, x \notin overlapped' PROVE RequestState(x)'
  <2>1. Whole(x)' <=> Whole(x)
    BY <1>1 DEF Whole, AsDraft
  <2>2. /\ \A d \in Clients \ {c} : Replacing(d, x)' => Replacing(d, x)
        /\ Replacing(c, x)' => x = page[c].r
    BY <1>3, <1>4 DEF Replacing, At
  <2>3. \A d, y \in Clients : Replacing(d, x)' /\ Replacing(y, x)' => d = y
    BY <1>2, <1>7, <2>2 DEF IInv, RequestState
  <2> QED BY <1>2, <1>7, <2>1, <2>3 DEF IInv, RequestState
<1> QED BY <1>5, <1>6, <1>7 DEF IInv, RequestState

LEMMA EditCommitHolds ==
    ASSUME IInv, NEW c \in Clients, EditCommit(c)
    PROVE  IInv'
<1>0. TypeOK /\ PageState(c) /\ page[c] # NoPage /\ page[c] \in Pages
  BY Typed DEF IInv, EditCommit, At
<1>1. PICK r \in Requests : r = page[c].r /\ request[r] # NoRequest
  BY <1>0 DEF EditCommit, At, PageState
<1> DEFINE ls == page[c].lines
           e == request[r].edits + 1
           row == Rewritten(request[r], page[c])
           rows == (lines[r] \ page[c].seen) \union RowsOf(e, ls)
<1>2. /\ page[c].pc = "replacing" /\ request' = [request EXCEPT ![r] = row]
      /\ lines' = [lines EXCEPT ![r] = rows] /\ page' = [page EXCEPT ![c] = NoPage]
      /\ kindAlone' = (IF page[c].op = "kind" THEN kindAlone \union {r} ELSE kindAlone)
      /\ UNCHANGED <<overlapped, item>> /\ e <= MaxEdits
  BY <1>0, <1>1 DEF EditCommit, At, Turn
<1>3. request[r] \in RequestRows
  BY <1>0, <1>1 DEF TypeOK
<1>4. e \in 1..MaxEdits
  BY <1>2, <1>3, LinesAssumption DEF RequestRows
<1>5. ls \in SUBSET Lines /\ page[c].kind \in Kinds
  BY <1>0, Typed
<1>6. /\ row \in RequestRows /\ row.kind = page[c].kind /\ row # NoRequest
      /\ row.total = IF page[c].op = "kind" THEN request[r].total ELSE TotalEstimated(ls)
  <2>1. TotalEstimated(ls) \in {TotalEstimated(z) : z \in SUBSET Lines}
    BY <1>5
  <2>2. row \in RequestRows
    BY <1>3, <1>4, <1>5, <2>1 DEF RequestRows, Statuses, Rewritten
  <2> QED BY <1>3, <2>2, NullsAssumption DEF RequestRows, Rewritten
<1>7. rows \in SUBSET LineRows
  BY <1>0, <1>4, <1>5, RowsAreLines DEF TypeOK
<1> HIDE DEF row, rows, e
<1>8. /\ request'[r] = row /\ lines'[r] = rows
      /\ \A x \in Requests \ {r} : request'[x] = request[x] /\ lines'[x] = lines[x]
      /\ page'[c] = NoPage /\ \A d \in Clients \ {c} : page'[d] = page[d]
  BY <1>0, <1>1, <1>2 DEF TypeOK
<1>9. TypeOK'
  BY <1>0, <1>1, <1>2, <1>6, <1>7 DEF TypeOK
<1>10. ASSUME NEW d \in Clients \ {c}, r \notin overlapped PROVE ~Replacing(d, r)
  BY <1>0, <1>1, <1>2, <1>10 DEF IInv, RequestState, Replacing, At
<1>11. ASSUME NEW d \in Clients PROVE PageState(d)'
  <2>1. CASE d # c
    <3>1. PageState(d) /\ page'[d] = page[d]
      BY <1>8, <2>1 DEF IInv
    <3>2. page[d] # NoPage /\ page[d].op \notin Creations => request'[page[d].r] # NoRequest
      BY <1>1, <1>6, <1>8, <3>1 DEF PageState
    <3>3. ASSUME page[d] # NoPage, page[d].pc = "replacing", page[d].r \notin overlapped
          PROVE  Replaced(d)' = Replaced(d)
      <4>1. page[d].r # r
        BY <1>10, <2>1, <3>3 DEF Replacing, At
      <4>2. page[d].r \in Requests
        BY <3>1, <3>3 DEF PageState
      <4> QED BY <1>8, <3>1, <4>1, <4>2 DEF Replaced
    <3> QED BY <1>2, <3>1, <3>2, <3>3 DEF PageState, Past
  <2> QED BY <1>8, <2>1 DEF PageState
<1>12. ASSUME NEW x \in Requests, x \notin overlapped PROVE RequestState(x)'
  <2>1. \A d \in Clients : Replacing(d, x)' => Replacing(d, x)
    BY <1>8 DEF Replacing, At
  <2>2. RequestState(x)
    BY DEF IInv
  <2>3. CASE x # r
    <3>1. Whole(x)' <=> Whole(x)
      BY <1>2, <1>8, <2>3 DEF Whole, AsDraft
    <3> QED BY <1>2, <1>12, <2>1, <2>2, <3>1 DEF RequestState
  <2>4. CASE x = r /\ page[c].op = "kind"
    <3>1. ls = {} /\ page[c].seen = {}
      BY <1>0, <1>1, <1>2, <1>12, <2>4 DEF PageState, Replaced
    <3>2. rows = lines[r]
      BY <3>1 DEF rows, RowsOf
    <3>3. AsDraft(r)' = AsDraft(r)
      BY <1>8, <3>2 DEF AsDraft
    <3>4. row.total = TotalEstimated(AsDraft(r)')
      BY <1>1, <1>6, <1>12, <2>2, <2>4, <3>3 DEF RequestState, Whole
    <3>5. Whole(r)'
      BY <1>1, <1>2, <1>8, <1>12, <2>2, <2>4, <3>2, <3>4 DEF RequestState, Whole
    <3> QED BY <1>12, <2>1, <2>2, <2>4, <3>5 DEF RequestState
  <2>5. CASE x = r /\ page[c].op # "kind"
    <3>1. ls # {} /\ page[c].seen = lines[r] /\ (page[c].kind = "CASH" => Linked(ls) = {})
      BY <1>0, <1>1, <1>2, <1>12, <2>5 DEF PageState, Replaced, Past
    <3>2. rows = RowsOf(e, ls)
      BY <3>1 DEF rows
    <3>3. lines' = [lines EXCEPT ![r] = RowsOf(e, ls)]
      BY <1>2, <3>2
    <3>4. request'[r].total = TotalEstimated(ls) /\ request'[r].kind = page[c].kind
      BY <1>6, <1>8, <2>5
    <3>5. Whole(r)'
      BY <1>0, <1>4, <1>5, <3>1, <3>3, <3>4, Written
    <3> QED BY <1>12, <2>1, <2>2, <2>5, <3>5 DEF RequestState
  <2> QED BY <2>3, <2>4, <2>5
<1> QED BY <1>2, <1>9, <1>11, <1>12 DEF IInv, RequestState

\* Closing, deciding and funding leave kind and total as they are.
LEMMA StatusHolds ==
    ASSUME IInv, NEW r \in Requests, request[r] # NoRequest, NEW row \in RequestRows,
           row.kind = request[r].kind, row.total = request[r].total,
           request' = [request EXCEPT ![r] = row], UNCHANGED <<lines, page, observed, item>>
    PROVE  IInv'
<1>0. TypeOK /\ UNCHANGED <<overlapped, kindAlone>>
  BY DEF IInv, observed
<1>1. /\ request'[r] = row /\ row # NoRequest
      /\ \A x \in Requests \ {r} : request'[x] = request[x]
  BY <1>0, NullsAssumption DEF TypeOK
<1>2. TypeOK'
  BY <1>0 DEF TypeOK
<1>3. ASSUME NEW d \in Clients PROVE PageState(d)'
  <2>1. Replaced(d)' = Replaced(d)
    BY DEF Replaced
  <2> QED BY <1>0, <1>1, <2>1 DEF IInv, PageState, Past
<1>4. ASSUME NEW x \in Requests PROVE RequestState(x)'
  <2>1. AsDraft(x)' = AsDraft(x)
    BY DEF AsDraft
  <2>2. Whole(x) => Whole(x)'
    BY <1>0, <1>1, <2>1 DEF Whole
  <2> QED BY <1>0, <2>2 DEF IInv, RequestState, Replacing, At
<1> QED BY <1>2, <1>3, <1>4 DEF IInv

LEMMA OthersHold ==
    ASSUME IInv, NEW r \in Requests,
           (\E c \in Clients : Close(c, r)) \/ Fund(r) \/ \E s \in {"OPEN", "REJECTED"} : Decide(r, s)
    PROVE  IInv'
<1>1. request[r] # NoRequest /\ request[r] \in RequestRows
  BY DEF IInv, TypeOK, Close, Fund, Decide
<1>2. \A s \in Statuses : /\ [request[r] EXCEPT !.status = s] \in RequestRows
                          /\ [request[r] EXCEPT !.status = s].kind = request[r].kind
                          /\ [request[r] EXCEPT !.status = s].total = request[r].total
  BY <1>1 DEF RequestRows
<1>3. /\ [request[r] EXCEPT !.raised = TRUE] \in RequestRows
      /\ [request[r] EXCEPT !.raised = TRUE].kind = request[r].kind
      /\ [request[r] EXCEPT !.raised = TRUE].total = request[r].total
  BY <1>1 DEF RequestRows
<1>4. \E row \in RequestRows :
        /\ row.kind = request[r].kind /\ row.total = request[r].total
        /\ request' = [request EXCEPT ![r] = row]
  BY <1>2, <1>3 DEF Close, Fund, Decide, Statuses
<1> QED BY <1>1, <1>4, StatusHolds DEF Close, Fund, Decide

LEMMA SetActiveHolds ==
    ASSUME IInv, NEW i \in Items, SetActive(i)
    PROVE  IInv'
<1>1. TypeOK /\ UNCHANGED <<request, lines, page, overlapped, kindAlone>>
  BY DEF IInv, SetActive, observed
<1>2. item' \in [Items -> BOOLEAN]
  BY <1>1 DEF SetActive, TypeOK
<1>3. TypeOK'
  BY <1>1, <1>2 DEF TypeOK
<1>4. /\ \A d \in Clients : PageState(d)' <=> PageState(d)
      /\ \A x \in Requests : RequestState(x)' <=> RequestState(x)
  <2>1. /\ \A d \in Clients : Replaced(d)' = Replaced(d)
        /\ \A x \in Requests : AsDraft(x)' = AsDraft(x)
    BY <1>1 DEF Replaced, AsDraft
  <2> QED BY <1>1, <2>1 DEF PageState, Past, RequestState, Replacing, At, Whole
<1> QED BY <1>3, <1>4 DEF IInv

LEMMA InitHolds == Init => IInv
<1> SUFFICES ASSUME Init PROVE IInv
  OBVIOUS
<1>1. TypeOK
  BY DEF Init, TypeOK
<1>2. \A c \in Clients : page[c] = NoPage
  BY DEF Init
<1>3. \A r \in Requests : request[r] = NoRequest
  BY DEF Init
<1> QED BY <1>1, <1>2, <1>3 DEF IInv, PageState, RequestState, Whole, Replacing, At

LEMMA StepHolds == IInv /\ [Next]_vars => IInv'
<1> SUFFICES ASSUME IInv, [Next]_vars PROVE IInv'
  OBVIOUS
<1>1. ASSUME NEW c \in Clients, Form(c) \/ Handle(c) PROVE IInv'
  BY <1>1, FormHolds, CheckHolds, CreateCommitHolds, EditDeleteHolds, EditCommitHolds DEF Handle
<1>2. ASSUME NEW c \in Clients, NEW r \in Requests, Close(c, r) \/ \E k \in Kinds : SendKind(c, r, k)
      PROVE  IInv'
  BY <1>2, OthersHold, SendKindHolds
<1>3. CASE UNCHANGED vars
  <2>1. UNCHANGED <<request, lines, page, overlapped, kindAlone, item>>
    BY <1>3 DEF vars
  <2>2. /\ \A d \in Clients : Replaced(d)' = Replaced(d)
        /\ \A x \in Requests : AsDraft(x)' = AsDraft(x)
    BY <2>1 DEF Replaced, AsDraft
  <2>3. TypeOK'
    BY <2>1 DEF IInv, TypeOK
  <2>4. /\ \A d \in Clients : PageState(d)' <=> PageState(d)
        /\ \A x \in Requests : RequestState(x)' <=> RequestState(x)
    BY <2>1, <2>2 DEF PageState, Past, RequestState, Replacing, At, Whole
  <2> QED BY <2>3, <2>4 DEF IInv
<1> QED BY <1>1, <1>2, <1>3, OthersHold, SetActiveHolds DEF Next

THEOREM Invariance == Spec => []IInv
BY InitHolds, StepHolds, PTL DEF Spec

-----------------------------------------------------------------------------
(* The theorems.                                                           *)

(* Every variable keeps its type; a total is the total of some lines.      *)
THEOREM TypeCorrect == Spec => []TypeOK
BY Invariance, PTL DEF IInv

(* What is saved of a request is one edit, whole, with its total           *)
(* (athletes.ts:570-583), unless two edits' transactions overlapped.       *)
THEOREM OneEdit == Spec => []ItemsOfOneEdit
<1>1. IInv => ItemsOfOneEdit
  BY DEF IInv, RequestState, Whole, ItemsOfOneEdit
<1> QED BY <1>1, Invariance, PTL

(* No line is saved with a link to an item that was retired when the       *)
(* handler looked (catalogue.service.ts:38).                               *)
THEOREM NoRetiredLink == Spec => RetiredNotLinked
<1> DEFINE Honest ==
      \A r \in Requests : lines'[r] # lines[r] =>
        \E c \in Clients :
          /\ page[c] # NoPage
          /\ {l.item : l \in Linked(lines'[r] \ lines[r])} \subseteq page[c].live
<1>1. IInv /\ [Next]_vars => [Honest]_vars
  <2> SUFFICES ASSUME IInv, Next, NEW r \in Requests, lines'[r] # lines[r]
               PROVE  \E c \in Clients :
                        /\ page[c] # NoPage
                        /\ {l.item : l \in Linked(lines'[r] \ lines[r])} \subseteq page[c].live
    OBVIOUS
  <2>0. TypeOK
    BY DEF IInv
  <2>1. PICK c \in Clients : (\E x \in Requests : CreateCommit(c, x)) \/ EditCommit(c)
    BY DEF Next, Form, RequestEditor, EditorLines, RequestList, RequestsManager, RaiseLines,
        RaiseForm, RaiseRequest, Handle, StartCreate, StartEdit, SetKind,
          AddItem, RemoveItem, Send, Cancel,
           CreateCheck, EditCheck, EditDelete, Fail, Close, SendKind, Fund, Decide, SetActive
  <2>2. page[c] # NoPage /\ Past(c) /\ PageState(c)
    BY <2>1 DEF CreateCommit, EditCommit, At, Past, IInv
  <2> DEFINE ls == page[c].lines
  <2>3. ls \in SUBSET Lines /\ {l.item : l \in Linked(ls)} \subseteq page[c].live
    BY <2>0, <2>2, Typed DEF PageState
  <2> HIDE DEF ls
  <2>4. \E e \in 1..MaxEdits : lines'[r] \ lines[r] \subseteq RowsOf(e, ls)
    <3>1. ASSUME NEW x \in Requests, CreateCommit(c, x)
          PROVE  lines'[r] \ lines[r] \subseteq RowsOf(1, ls)
      BY <2>0, <3>1 DEF CreateCommit, TypeOK, ls
    <3>2. 1 \in 1..MaxEdits
      BY LinesAssumption
    <3>3. ASSUME EditCommit(c)
          PROVE  \E e \in 1..MaxEdits : lines'[r] \ lines[r] \subseteq RowsOf(e, ls)
      <4> DEFINE e == request[page[c].r].edits + 1
      <4>1. page[c].r \in Requests /\ request[page[c].r] \in RequestRows
        BY <2>0, <2>2, <3>3 DEF EditCommit, At, PageState, TypeOK
      <4>2. e \in 1..MaxEdits
        BY <3>3, <4>1, LinesAssumption DEF EditCommit, RequestRows
      <4>3. lines' = [lines EXCEPT ![page[c].r] = (lines[page[c].r] \ page[c].seen) \union RowsOf(e, ls)]
        BY <3>3 DEF EditCommit, ls
      <4> HIDE DEF e
      <4>4. lines'[r] \ lines[r] \subseteq RowsOf(e, ls)
        BY <2>0, <4>1, <4>3 DEF TypeOK
      <4> QED BY <4>2, <4>4
    <3> QED BY <2>1, <3>1, <3>2, <3>3
  <2>5. PICK e \in 1..MaxEdits : lines'[r] \ lines[r] \subseteq RowsOf(e, ls)
    BY <2>4
  <2>6. {l.item : l \in Linked(RowsOf(e, ls))} = {l.item : l \in Linked(ls)}
    BY <2>3, RowsAreLines
  <2>7. {l.item : l \in Linked(lines'[r] \ lines[r])} \subseteq {l.item : l \in Linked(RowsOf(e, ls))}
    BY <2>5 DEF Linked
  <2> QED BY <2>2, <2>3, <2>6, <2>7
<1> QED BY <1>1, Invariance, PTL DEF Spec, RetiredNotLinked
=============================================================================
