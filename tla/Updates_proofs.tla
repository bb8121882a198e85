---------------------------- MODULE Updates_proofs ----------------------------
(***************************************************************************)
(* What is proved of Updates for any number of users, files, updates and   *)
(* sponsorships, with lost calls and crashes: its types, that an update    *)
(* reaches a sponsor once, that the e-mail is as the row says, and that    *)
(* attachments are the author's own.  The bell's liveness is left to TLC.  *)
(***************************************************************************)
EXTENDS Updates, TLAPS

LEMMA NotifyType ==
    ASSUME NoticesTypeOK, NEW n \in Notices, Notify(n)
    PROVE  NoticesTypeOK'
<1>1. CASE UNCHANGED noticeVars
  BY <1>1 DEF noticeVars, NoticesTypeOK
<1>2. CASE /\ row' = [row EXCEPT ![n] = [read |-> FALSE, emailedAt |-> FALSE]]
           /\ mail' = [mail EXCEPT ![n] = "queued"]
           /\ UNCHANGED <<inbox, disabled, bell, call>>
  <2>1. [read |-> FALSE, emailedAt |-> FALSE] \in Rows
    BY DEF Rows
  <2> QED BY <1>2, <2>1 DEF NoticesTypeOK
<1> QED BY <1>1, <1>2 DEF Notify

\* A row that is sent is there: MailState below.
LEMMA DeliverType ==
    ASSUME NoticesTypeOK, NEW n \in Notices, Deliver(n), mail[n] = "sent" => row[n] # NoRow
    PROVE  NoticesTypeOK'
<1>1. CASE DeliverRead(n) \/ DeliverFail(n)
  BY <1>1 DEF DeliverRead, DeliverFail, Progress, NoticesTypeOK
<1>2. CASE DeliverSend(n)
  BY <1>2 DEF DeliverSend, Progress, NoticesTypeOK
<1>3. CASE DeliverMark(n)
  <2>1. row[n] \in Rows
    BY <1>3 DEF DeliverMark, Progress, NoticesTypeOK
  <2> QED BY <1>3, <2>1 DEF DeliverMark, Progress, NoticesTypeOK, Rows
<1> QED BY <1>1, <1>2, <1>3 DEF Deliver

LEMMA SetCallType ==
    ASSUME NoticesTypeOK, NEW u \in Users, NEW k \in Calls, NEW c \in CallStates
    PROVE  [call EXCEPT ![u][k] = c] \in [Users -> [Calls -> CallStates]]
BY DEF NoticesTypeOK

LEMMA RingType ==
    ASSUME NoticesTypeOK, NEW u \in Users, Ring(u)
    PROVE  NoticesTypeOK'
<1> DEFINE CallsTyped == call' \in [Users -> [Calls -> CallStates]]
<1>0. /\ Asked("free", {}) \in CallStates
      /\ Asked("asked", {}) \in CallStates
      /\ Asked("answered", Unread(u)) \in CallStates
  BY DEF Asked, CallStates, Unread
<1>1. ASSUME NEW k \in Calls, Ask(u, k) \/ Answer(u, k) \/ Miss(u, k) PROVE NoticesTypeOK'
  <2>1. CallsTyped
    BY <1>0, <1>1, SetCallType DEF Ask, Answer, Miss, SetCall
  <2> HIDE DEF CallsTyped
  <2>2. UNCHANGED <<row, mail, inbox, disabled, bell>>
    BY <1>1 DEF Ask, Answer, Miss
  <2> QED BY <2>1, <2>2 DEF CallsTyped, NoticesTypeOK
<1>2. ASSUME NEW k \in Calls, Show(u, k) PROVE NoticesTypeOK'
  <2>1. CallsTyped
    BY <1>0, <1>2, SetCallType DEF Show, SetCall
  <2>2. call[u][k].unread \subseteq Notices
    BY DEF NoticesTypeOK, CallStates
  <2> QED BY <1>2, <2>1, <2>2 DEF Show, NoticesTypeOK
<1>3. ASSUME NEW ns \in SUBSET Notices, MarkRead(ns) PROVE  NoticesTypeOK'
  <2>1. ASSUME NEW n \in Notices, row[n] # NoRow PROVE [row[n] EXCEPT !.read = TRUE] \in Rows
    BY <2>1 DEF NoticesTypeOK, Rows
  <2>2. row' \in [Notices -> Rows \union {NoRow}]
    BY <1>3, <2>1 DEF MarkRead, NoticesTypeOK
  <2> QED BY <1>3, <2>2 DEF MarkRead, NoticesTypeOK
<1>4. ASSUME NEW n \in Notices, OpenNotification(u, n) PROVE NoticesTypeOK'
  BY <1>4, <1>3 DEF OpenNotification
<1>5. CASE MarkAllRead(u)
  BY <1>5, <1>3 DEF MarkAllRead, Unread
<1> QED BY <1>1, <1>2, <1>4, <1>5 DEF Ring

-----------------------------------------------------------------------------
(* The e-mail of a notice, by how far its delivery has come.               *)
MailState(n) ==
  /\ mail[n] = "none" <=> row[n] = NoRow
  /\ mail[n] \in {"none", "queued", "checked"} => inbox[n] = 0
  /\ mail[n] \in {"checked", "sent"} => Recipient(n) \notin disabled
  /\ mail[n] = "sent" => inbox[n] = 1
  /\ inbox[n] \in {0, 1}
  /\ inbox[n] = 1 => Recipient(n) \notin disabled
  /\ row[n] # NoRow => (row[n].emailedAt => inbox[n] = 1)

MailStates == \A n \in Notices : MailState(n)

\* Notify is called where there is no row yet.
LEMMA NotifyMail ==
    ASSUME NoticesTypeOK, MailStates, NEW n \in Notices, row[n] = NoRow, Notify(n)
    PROVE  MailStates'
<1> SUFFICES ASSUME NEW m \in Notices PROVE MailState(m)'
  BY DEF MailStates
<1>0. MailState(m) /\ MailState(n)
  BY DEF MailStates
<1>1. CASE UNCHANGED noticeVars
  BY <1>0, <1>1 DEF noticeVars, MailState
<1>2. CASE /\ row' = [row EXCEPT ![n] = [read |-> FALSE, emailedAt |-> FALSE]]
           /\ mail' = [mail EXCEPT ![n] = "queued"]
           /\ UNCHANGED <<inbox, disabled, bell, call>>
  <2>1. PICK r \in Rows : r = [read |-> FALSE, emailedAt |-> FALSE]
    BY DEF Rows
  <2>2. r # NoRow /\ r.emailedAt = FALSE
    BY <2>1, NullsAssumption
  <2>3. row'[n] = r /\ mail'[n] = "queued"
    BY <1>2, <2>1 DEF NoticesTypeOK
  <2>4. MailState(n)'
    BY <1>0, <1>2, <2>2, <2>3 DEF MailState
  <2>5. CASE m # n
    BY <1>0, <1>2, <2>5 DEF MailState, NoticesTypeOK
  <2> QED BY <2>4, <2>5
<1> QED BY <1>1, <1>2 DEF Notify

LEMMA DeliverMail ==
    ASSUME NoticesTypeOK, MailStates, NEW n \in Notices, Deliver(n)
    PROVE  MailStates' /\ \A m \in Notices : row[m] = NoRow => row'[m] = NoRow
<1>0. MailState(n)
  BY DEF MailStates
<1>1. CASE DeliverRead(n) \/ DeliverFail(n)
  BY <1>0, <1>1 DEF DeliverRead, DeliverFail, Progress, NoticesTypeOK, MailStates, MailState
<1>2. CASE DeliverSend(n)
  BY <1>0, <1>2 DEF DeliverSend, Progress, NoticesTypeOK, MailStates, MailState
<1>3. CASE DeliverMark(n)
  <2>1. row[n] \in Rows
    BY <1>0, <1>3 DEF DeliverMark, Progress, NoticesTypeOK, MailState
  <2>2. [row[n] EXCEPT !.emailedAt = TRUE] \in Rows
    BY <2>1 DEF Rows
  <2>3. /\ row' = [row EXCEPT ![n] = [row[n] EXCEPT !.emailedAt = TRUE]]
        /\ mail' = [mail EXCEPT ![n] = "over"]
        /\ UNCHANGED <<inbox, disabled>>
        /\ mail[n] = "sent"
    BY <1>3 DEF DeliverMark, Progress
  <2>4. /\ row'[n] # NoRow /\ mail'[n] = "over"
        /\ \A m \in Notices \ {n} : row'[m] = row[m] /\ mail'[m] = mail[m]
    BY <2>2, <2>3, NullsAssumption DEF NoticesTypeOK
  <2>5. MailState(n)'
    BY <1>0, <2>3, <2>4 DEF MailState
  <2>6. ASSUME NEW m \in Notices \ {n} PROVE MailState(m)'
    BY <2>3, <2>4 DEF MailState, MailStates
  <2> QED BY <1>0, <2>3, <2>4, <2>5, <2>6 DEF MailStates, MailState
<1> QED BY <1>1, <1>2, <1>3 DEF Deliver

LEMMA RingMail ==
    ASSUME NoticesTypeOK, MailStates, NEW u \in Users, Ring(u)
    PROVE  MailStates' /\ \A m \in Notices : row[m] = NoRow => row'[m] = NoRow
<1>1. CASE UNCHANGED <<row, mail, inbox, disabled>>
  BY <1>1 DEF MailStates, MailState
<1>2. ASSUME NEW ns \in SUBSET Notices, MarkRead(ns)
      PROVE  MailStates' /\ \A m \in Notices : row[m] = NoRow => row'[m] = NoRow
  <2> SUFFICES ASSUME NEW m \in Notices
               PROVE  MailState(m)' /\ (row[m] = NoRow => row'[m] = NoRow)
    BY DEF MailStates
  <2>1. MailState(m) /\ UNCHANGED <<mail, inbox, disabled>>
    BY <1>2 DEF MailStates, MarkRead
  <2>2. CASE row'[m] = row[m]
    BY <2>1, <2>2 DEF MailState
  <2>3. CASE row[m] # NoRow /\ row'[m] = [row[m] EXCEPT !.read = TRUE]
    <3>1. row[m] \in Rows
      BY <2>3 DEF NoticesTypeOK
    <3>2. row'[m] \in Rows /\ row'[m].emailedAt = row[m].emailedAt
      BY <2>3, <3>1 DEF Rows
    <3> QED BY <2>1, <2>3, <3>2, NullsAssumption DEF MailState
  <2> QED BY <1>2, <2>2, <2>3 DEF MarkRead, NoticesTypeOK
<1> QED BY <1>1, <1>2 DEF Ring, Ask, Answer, Show, Miss, OpenNotification, MarkAllRead, Unread

-----------------------------------------------------------------------------
(* How far the handler of an update has come in telling its sponsors.      *)
Untold(u) == \A s \in Sponsorships : row[<<u, s>>] = NoRow
Concerns(u, s) == update[u] \in {General, s} /\ AthleteOf(s) = AuthorOf(u)

ToldState(u) ==
  LET h == handler[u] IN
  /\ h.pc \in {"none", "received", "created"} => Untold(u)
  /\ h.pc \in {"received", "created"} =>
       h.about \in Abouts /\ (h.about # General => AthleteOf(h.about) = AuthorOf(u))
  /\ h.pc \in {"created", "telling"} => update[u] = h.about
  /\ h.pc = "telling" =>
       /\ \A s \in h.left : Concerns(u, s)
       /\ \A s \in Sponsorships : row[<<u, s>>] # NoRow => SponsorOf(s) \in h.told

HeardState(u) ==
  \A s \in Sponsorships : row[<<u, s>>] # NoRow =>
    /\ Concerns(u, s)
    /\ \A t \in Sponsorships \ {s} :
         SponsorOf(t) = SponsorOf(s) => row[<<u, t>>] = NoRow

(* What a request checked holds until it is served: nobody's upload        *)
(* becomes somebody else's, and no update goes away.                       *)
FileState ==
  /\ AttachmentsAreOwn
  /\ \A u \in Updates : handler[u].pc = "received" =>
       \A f \in handler[u].documents : UploaderOf(f) = AuthorOf(u)
  /\ form.pc \in {"put", "confirm"} => form.file \in Files

IInv ==
  /\ TypeOK /\ MailStates /\ FileState
  /\ \A u \in Updates : ToldState(u) /\ HeardState(u)

\* Steps that leave updates and handlers as they are and add no row.
LEMMA ToldUnchanged ==
    ASSUME IInv, UNCHANGED <<update, handler>>,
           \A n \in Notices : row[n] = NoRow => row'[n] = NoRow
    PROVE  \A u \in Updates : ToldState(u)' /\ HeardState(u)'
<1> SUFFICES ASSUME NEW u \in Updates PROVE ToldState(u)' /\ HeardState(u)'
  OBVIOUS
<1>1. ToldState(u) /\ HeardState(u)
  BY DEF IInv
<1>2. \A s \in Sponsorships : row[<<u, s>>] = NoRow => row'[<<u, s>>] = NoRow
  BY NoticesAssumption
<1> QED BY <1>1, <1>2 DEF ToldState, HeardState, Untold, Concerns

LEMMA FileUnchanged ==
    ASSUME FileState, UNCHANGED <<document, update, form, handler>>
    PROVE  FileState'
BY DEF FileState, AttachmentsAreOwn

\* Steps that leave the notifications as they are.
LEMMA NoticesUnchanged ==
    ASSUME TypeOK, MailStates, UNCHANGED noticeVars
    PROVE  /\ NoticesTypeOK' /\ MailStates'
           /\ \A n \in Notices : row[n] = NoRow => row'[n] = NoRow
BY DEF TypeOK, noticeVars, NoticesTypeOK, MailStates, MailState

-----------------------------------------------------------------------------
LEMMA InitHolds == Init => IInv
<1> SUFFICES ASSUME Init PROVE IInv
  OBVIOUS
<1>1. TypeOK
  <2>1. Asked("free", {}) \in CallStates
    BY DEF Asked, CallStates
  <2>2. NoticesTypeOK
    BY <2>1 DEF Init, NoticesInit, NoticesTypeOK
  <2>3. /\ Idle("none") \in Handlers /\ Idle("over") \in Handlers
        /\ Writing({}) \in Forms
    BY DEF Idle, Handler, Handlers, Writing, Form, Forms
  <2>4. /\ handler \in [Updates -> Handlers]
        /\ form \in Forms /\ stored \subseteq Files
    BY <2>3, EarlierAssumption DEF Init
  <2>5. /\ document \in [Files -> Updates \union {NoDocument, Loose}]
        /\ update \in [Updates -> Abouts \union {NoUpdate}]
    BY DEF Init, Abouts
  <2> QED BY <2>2, <2>4, <2>5 DEF TypeOK
<1>2. MailStates
  <2>1. ASSUME NEW n \in Notices PROVE row[n] = NoRow /\ mail[n] = "none" /\ inbox[n] = 0
    BY DEF Init, NoticesInit
  <2>2. ASSUME NEW n \in Notices PROVE MailState(n)
    <3>1. row[n] = NoRow /\ mail[n] = "none" /\ inbox[n] = 0
      BY <2>1
    <3> QED BY <3>1 DEF MailState
  <2> QED BY <2>2 DEF MailStates
<1>3. FileState
  <2>1. \A u \in Updates : handler[u].pc # "received"
    BY DEF Init, Idle, Handler
  <2>2. \A f \in Files : document[f] \notin Updates
    BY NullsAssumption DEF Init
  <2> QED BY <2>1, <2>2 DEF Init, FileState, AttachmentsAreOwn, Writing, Form
<1>4. ASSUME NEW u \in Updates PROVE ToldState(u) /\ HeardState(u)
  <2>1. handler[u].pc \in {"none", "over"}
    BY DEF Init, Idle, Handler
  <2>2. Untold(u)
    BY NoticesAssumption DEF Init, NoticesInit, Untold
  <2> QED BY <2>1, <2>2 DEF ToldState, HeardState, Untold
<1> QED BY <1>1, <1>2, <1>3, <1>4 DEF IInv

\* The form's steps: what they leave alone, and the documents they make.
LEMMA FormHolds ==
    ASSUME IInv, UNCHANGED <<update, handler>>, UNCHANGED noticeVars,
           form' \in Forms, form'.pc \in {"put", "confirm"} => form'.file \in Files,
           stored' \subseteq Files,
           document' \in [Files -> Updates \union {NoDocument, Loose}],
           \A f \in Files : document'[f] \in Updates =>
             \/ document'[f] = document[f]
             \/ update[document'[f]] # NoUpdate /\ AuthorOf(document'[f]) = UploaderOf(f)
    PROVE  IInv'
<1>1. NoticesTypeOK' /\ MailStates' /\ \A n \in Notices : row[n] = NoRow => row'[n] = NoRow
  BY NoticesUnchanged DEF IInv
<1>2. TypeOK'
  BY <1>1 DEF IInv, TypeOK
<1>3. FileState'
  BY DEF IInv, FileState, AttachmentsAreOwn
<1> QED BY <1>1, <1>2, <1>3, ToldUnchanged DEF IInv

LEMMA WritingType == ASSUME NEW docs \in SUBSET Files
                     PROVE  Writing(docs) \in Forms /\ Writing(docs).pc = "writing"
BY DEF Writing, Form, Forms

\* A request that comes in.
LEMMA ReceiveHolds ==
    ASSUME IInv, NEW u \in Updates, NEW about \in Abouts, NEW docs \in SUBSET Files,
           Receive(u, about, docs), form' \in Forms, form'.pc \notin {"put", "confirm"} \/ form' = form
    PROVE  IInv'
<1> DEFINE h == Handler("received", about, docs, {}, {})
<1>1. /\ h \in Handlers /\ h.pc = "received" /\ h.about = about /\ h.documents = docs
  BY DEF Handler, Handlers
<1>2. /\ handler' = [handler EXCEPT ![u] = h] /\ handler[u].pc = "none"
      /\ UNCHANGED <<stored, document, update>> /\ UNCHANGED noticeVars
      /\ about # General => AthleteOf(about) = AuthorOf(u)
      /\ \A f \in docs : UploaderOf(f) = AuthorOf(u)
  BY DEF Receive, OwnDocuments, tables
<1> HIDE DEF h
<1>3. /\ handler'[u] = h /\ \A v \in Updates \ {u} : handler'[v] = handler[v]
      /\ handler' \in [Updates -> Handlers]
  BY <1>1, <1>2 DEF IInv, TypeOK
<1>4. NoticesTypeOK' /\ MailStates' /\ UNCHANGED row
  BY <1>2, NoticesUnchanged DEF IInv, noticeVars
<1>5. TypeOK'
  BY <1>2, <1>3, <1>4 DEF IInv, TypeOK
<1>6. FileState'
  BY <1>1, <1>2, <1>3 DEF IInv, FileState, AttachmentsAreOwn
<1>7. ASSUME NEW v \in Updates PROVE ToldState(v)' /\ HeardState(v)'
  <2>1. ToldState(v) /\ HeardState(v)
    BY DEF IInv
  <2> QED BY <1>1, <1>2, <1>3, <1>4, <2>1 DEF ToldState, HeardState, Untold, Concerns
<1> QED BY <1>4, <1>5, <1>6, <1>7 DEF IInv

LEMMA WriteHolds == ASSUME IInv, Write PROVE IInv'
<1>0. form \in Forms /\ form.documents \subseteq Files /\ TypeOK
  BY DEF IInv, TypeOK, Forms
<1>1. ASSUME NEW f \in Files, Presign(f) PROVE IInv'
  <2>1. form' = Form("put", f, form.documents) /\ form' \in Forms /\ form'.file = f
    BY <1>0, <1>1 DEF Presign, Form, Forms
  <2>2. UNCHANGED <<stored, document, update, handler>> /\ UNCHANGED noticeVars
    BY <1>1 DEF Presign, tables
  <2> QED BY <1>0, <2>1, <2>2, FormHolds DEF TypeOK
<1>2. ASSUME NEW f \in Files, Confirm(f) PROVE IInv'
  <2>1. /\ document' = [document EXCEPT ![f] = Loose]
        /\ form' = Writing(form.documents \union {f})
        /\ UNCHANGED <<stored, update, handler>> /\ UNCHANGED noticeVars
    BY <1>2 DEF Confirm
  <2>2. form' \in Forms /\ form'.pc = "writing"
    BY <1>0, <2>1, WritingType
  <2>3. /\ document' \in [Files -> Updates \union {NoDocument, Loose}]
        /\ \A g \in Files : document'[g] \in Updates => document'[g] = document[g]
    BY <1>0, <2>1, NullsAssumption DEF TypeOK
  <2> QED BY <1>0, <2>1, <2>2, <2>3, FormHolds DEF TypeOK
<1>3. ASSUME NEW f \in Files, NEW u \in Updates, ConfirmAttached(f, u) PROVE IInv'
  <2>1. /\ document' = [document EXCEPT ![f] = u]
        /\ form' = Writing(form.documents)
        /\ UNCHANGED <<stored, update, handler>> /\ UNCHANGED noticeVars
        /\ update[u] # NoUpdate /\ AuthorOf(u) = UploaderOf(f)
    BY <1>3 DEF ConfirmAttached
  <2>2. form' \in Forms /\ form'.pc = "writing"
    BY <1>0, <2>1, WritingType
  <2>3. /\ document' \in [Files -> Updates \union {NoDocument, Loose}]
        /\ \A g \in Files : document'[g] = IF g = f THEN u ELSE document[g]
    BY <1>0, <2>1 DEF TypeOK
  <2> QED BY <1>0, <2>1, <2>2, <2>3, FormHolds DEF TypeOK
<1>4. CASE Put
  <2>1. form.file \in Files
    BY <1>4 DEF Put, IInv, FileState
  <2>2. /\ form' = Form("confirm", form.file, form.documents)
        /\ stored' = stored \union {form.file}
        /\ UNCHANGED <<document, update, handler>> /\ UNCHANGED noticeVars
    BY <1>4 DEF Put
  <2>3. form' \in Forms /\ form'.file \in Files
    BY <1>0, <2>1, <2>2 DEF Form, Forms
  <2> QED BY <1>0, <2>1, <2>2, <2>3, FormHolds DEF TypeOK
<1>5. CASE Posted \/ StartOver
  <2>1. /\ form' = Writing({})
        /\ UNCHANGED <<stored, document, update, handler>> /\ UNCHANGED noticeVars
    BY <1>5 DEF Posted, StartOver, tables
  <2>2. form' \in Forms /\ form'.pc = "writing"
    BY <2>1, WritingType
  <2> QED BY <1>0, <2>1, <2>2, FormHolds DEF TypeOK
<1>6. ASSUME NEW u \in Updates, NEW about \in Abouts, Post(u, about) PROVE IInv'
  <2>1. /\ form' = Form("posted", NoFile, form.documents)
        /\ Receive(u, about, form.documents)
    BY <1>6 DEF Post
  <2>2. form' \in Forms /\ form'.pc = "posted"
    BY <1>0, <2>1 DEF Form, Forms
  <2> QED BY <1>0, <2>1, <2>2, ReceiveHolds
<1>7. ASSUME NEW u \in Updates, NEW about \in Abouts, NEW docs \in SUBSET Files,
             PostDirectly(u, about, docs)
      PROVE  IInv'
  BY <1>0, <1>7, ReceiveHolds DEF PostDirectly
<1> QED BY <1>1, <1>2, <1>3, <1>4, <1>5, <1>6, <1>7 DEF Write

\* The handler's steps.
LEMMA ServeHolds == ASSUME IInv, NEW u \in Updates, Serve(u) PROVE IInv'
<1> USE DEF IInv
<1>0. ToldState(u) /\ HeardState(u) /\ handler[u] \in Handlers /\ handler \in [Updates -> Handlers]
  BY DEF TypeOK
<1>1. CASE Create(u)
  <2> DEFINE h == Handler("created", handler[u].about, {}, {}, {})
  <2>1. /\ handler' = [handler EXCEPT ![u] = h]
        /\ update' = [update EXCEPT ![u] = handler[u].about]
        /\ document' = [f \in Files |-> IF f \in handler[u].documents THEN u ELSE document[f]]
        /\ handler[u].pc = "received"
        /\ UNCHANGED noticeVars /\ UNCHANGED <<stored, form>>
    BY <1>1 DEF Create
  <2>2. NoticesTypeOK' /\ MailStates' /\ UNCHANGED row
    BY <2>1, NoticesUnchanged DEF noticeVars
  <2>3. h \in Handlers /\ h.pc = "created" /\ h.about = handler[u].about
    BY <1>0 DEF Handlers, Handler
  <2> HIDE DEF h
  <2>4. /\ handler'[u] = h /\ update'[u] = handler[u].about
        /\ \A v \in Updates \ {u} : handler'[v] = handler[v] /\ update'[v] = update[v]
        /\ handler' \in [Updates -> Handlers]
        /\ handler[u].about \in Abouts /\ handler[u].about # NoUpdate
    BY <1>0, <2>1, <2>3, NullsAssumption DEF TypeOK, ToldState
  <2>5. TypeOK'
    <3>1. document' \in [Files -> Updates \union {NoDocument, Loose}]
      BY <2>1 DEF TypeOK
    <3>2. update' \in [Updates -> Abouts \union {NoUpdate}]
      BY <2>1, <2>4 DEF TypeOK
    <3> QED BY <2>1, <2>2, <2>4, <3>1, <3>2 DEF TypeOK
  <2>6. FileState'
    <3>1. \A f \in handler[u].documents : UploaderOf(f) = AuthorOf(u)
      BY <2>1 DEF FileState
    <3>2. ASSUME NEW f \in Files, document'[f] \in Updates
          PROVE  update'[document'[f]] # NoUpdate /\ AuthorOf(document'[f]) = UploaderOf(f)
      <4>1. CASE f \in handler[u].documents
        BY <2>1, <2>4, <3>1, <4>1
      <4>2. CASE f \notin handler[u].documents
        BY <2>1, <2>4, <3>2, <4>2 DEF FileState, AttachmentsAreOwn
      <4> QED BY <4>1, <4>2
    <3> QED BY <2>1, <2>3, <2>4, <3>2 DEF FileState, AttachmentsAreOwn
  <2>7. ASSUME NEW v \in Updates PROVE ToldState(v)' /\ HeardState(v)'
    <3>1. ToldState(v) /\ HeardState(v)
      OBVIOUS
    <3>2. CASE v = u
      BY <1>0, <2>1, <2>2, <2>3, <2>4, <3>2 DEF ToldState, HeardState, Untold, Concerns
    <3>3. CASE v # u
      BY <2>1, <2>2, <2>4, <3>1, <3>3 DEF ToldState, HeardState, Untold, Concerns
    <3> QED BY <3>2, <3>3
  <2> QED BY <2>2, <2>5, <2>6, <2>7
<1>2. CASE ReadAudience(u)
  <2>0. PICK paid \in SUBSET Sponsorships :
          handler' = [handler EXCEPT ![u] =
            Handler("telling", handler[u].about, {}, Audience(u, handler[u].about, paid), {})]
    BY <1>2 DEF ReadAudience
  <2> DEFINE left == Audience(u, handler[u].about, paid)
             h == Handler("telling", handler[u].about, {}, left, {})
  <2>1. /\ handler' = [handler EXCEPT ![u] = h]
        /\ handler[u].pc = "created"
        /\ UNCHANGED noticeVars /\ UNCHANGED tables /\ UNCHANGED form
    BY <1>2, <2>0 DEF ReadAudience
  <2>2. NoticesTypeOK' /\ MailStates' /\ UNCHANGED row
    BY <2>1, NoticesUnchanged DEF noticeVars
  <2>3. left \subseteq Sponsorships /\ \A s \in left : Concerns(u, s)
    BY <1>0, <2>1 DEF Audience, ToldState, Concerns, Abouts
  <2> HIDE DEF left
  <2>4. /\ h \in Handlers /\ h.pc = "telling" /\ h.about = handler[u].about /\ h.left = left
    BY <1>0, <2>3 DEF Handlers, Handler
  <2> HIDE DEF h
  <2>5. /\ handler'[u] = h /\ \A v \in Updates \ {u} : handler'[v] = handler[v]
        /\ handler' \in [Updates -> Handlers]
    BY <1>0, <2>1, <2>4
  <2>6. TypeOK'
    BY <2>1, <2>2, <2>5 DEF TypeOK, tables
  <2>7. FileState'
    BY <2>1, <2>4, <2>5 DEF FileState, AttachmentsAreOwn, tables
  <2>8. ASSUME NEW v \in Updates PROVE ToldState(v)' /\ HeardState(v)'
    <3>1. ToldState(v) /\ HeardState(v)
      OBVIOUS
    <3>2. CASE v = u
      BY <1>0, <2>1, <2>2, <2>3, <2>4, <2>5, <3>2
        DEF ToldState, HeardState, Untold, Concerns, tables
    <3>3. CASE v # u
      BY <2>1, <2>2, <2>5, <3>1, <3>3 DEF ToldState, HeardState, Untold, Concerns, tables
    <3> QED BY <3>2, <3>3
  <2> QED BY <2>2, <2>6, <2>7, <2>8
<1>3. ASSUME NEW s \in Sponsorships, Tell(u, s) PROVE IInv'
  <2> DEFINE h == Handler("telling", handler[u].about, {}, handler[u].left \ {s},
                          handler[u].told \union {SponsorOf(s)})
  <2>1. /\ handler' = [handler EXCEPT ![u] = h]
        /\ handler[u].pc = "telling" /\ s \in handler[u].left
        /\ UNCHANGED tables /\ UNCHANGED form
        /\ UNCHANGED noticeVars \/ (Notify(<<u, s>>) /\ ~Heard(u, s))
    BY <1>3 DEF Tell
  <2>0. /\ h \in Handlers /\ h.pc = "telling" /\ h.about = handler[u].about
        /\ h.left = handler[u].left \ {s} /\ h.told = handler[u].told \union {SponsorOf(s)}
    BY <1>0, NullsAssumption DEF Handlers, Handler
  <2> HIDE DEF h
  <2>2. /\ handler'[u] \in Handlers /\ handler'[u].pc = "telling"
        /\ handler'[u].about = handler[u].about
        /\ handler'[u].left = handler[u].left \ {s}
        /\ handler'[u].told = handler[u].told \union {SponsorOf(s)}
        /\ \A v \in Updates \ {u} : handler'[v] = handler[v]
        /\ handler' \in [Updates -> Handlers]
    BY <1>0, <2>0, <2>1
  <2>3. ~Heard(u, s) => row[<<u, s>>] = NoRow /\ \A t \in Sponsorships :
          SponsorOf(t) = SponsorOf(s) => row[<<u, t>>] = NoRow
    BY <1>0, <2>1 DEF Heard, ToldState
  <2>4. /\ NoticesTypeOK' /\ MailStates'
        /\ \A v \in Updates, t \in Sponsorships :
             row[<<v, t>>] = NoRow /\ ~(v = u /\ t = s /\ ~Heard(u, s)) => row'[<<v, t>>] = NoRow
    <3>1. CASE UNCHANGED noticeVars
      BY <3>1, NoticesUnchanged, NoticesAssumption
    <3>2. CASE Notify(<<u, s>>) /\ ~Heard(u, s)
      <4>1. <<u, s>> \in Notices
        BY NoticesAssumption
      <4>2. NoticesTypeOK' /\ MailStates'
        BY <2>3, <3>2, <4>1, NotifyType, NotifyMail DEF TypeOK
      <4>3. \A n \in Notices \ {<<u, s>>} : row'[n] = row[n]
        BY <3>2, <4>1 DEF Notify, noticeVars, TypeOK, NoticesTypeOK
      <4> QED BY <3>2, <4>2, <4>3, NoticesAssumption
    <3> QED BY <2>1, <3>1, <3>2
  <2>5. TypeOK'
    BY <2>1, <2>2, <2>4 DEF TypeOK, tables
  <2>6. FileState'
    BY <2>1, <2>2 DEF FileState, AttachmentsAreOwn, tables
  <2>7. ASSUME NEW v \in Updates PROVE ToldState(v)' /\ HeardState(v)'
    <3>1. ToldState(v) /\ HeardState(v) /\ update'[v] = update[v]
      BY <2>1 DEF tables
    <3>2. CASE v # u
      BY <2>2, <2>4, <3>1, <3>2 DEF ToldState, HeardState, Untold, Concerns
    <3>3. CASE v = u
      <4>1. ToldState(u)'
        BY <2>1, <2>2, <2>4, <3>1, <3>3 DEF ToldState, Concerns
      <4>2. Concerns(u, s)
        BY <1>0, <2>1 DEF ToldState
      <4>3. HeardState(u)'
        BY <2>3, <2>4, <3>1, <3>3, <4>2 DEF HeardState, Concerns
      <4> QED BY <3>3, <4>1, <4>3
    <3> QED BY <3>2, <3>3
  <2> QED BY <2>4, <2>5, <2>6, <2>7
<1>4. CASE Finish(u)
  <2>1. /\ handler' = [handler EXCEPT ![u] = Idle("over")]
        /\ UNCHANGED noticeVars /\ UNCHANGED tables /\ UNCHANGED form
    BY <1>4 DEF Finish
  <2>2. Idle("over") \in Handlers /\ Idle("over").pc = "over"
    BY DEF Idle, Handler, Handlers
  <2>3. NoticesTypeOK' /\ MailStates' /\ UNCHANGED row
    BY <2>1, NoticesUnchanged DEF noticeVars
  <2>4. /\ handler'[u].pc = "over" /\ handler' \in [Updates -> Handlers]
        /\ \A v \in Updates \ {u} : handler'[v] = handler[v]
    BY <1>0, <2>1, <2>2
  <2>5. TypeOK'
    BY <2>1, <2>3, <2>4 DEF TypeOK, tables
  <2>6. FileState'
    BY <2>1, <2>4 DEF FileState, AttachmentsAreOwn, tables
  <2>7. ASSUME NEW v \in Updates PROVE ToldState(v)' /\ HeardState(v)'
    BY <1>0, <2>1, <2>3, <2>4, <2>7 DEF ToldState, HeardState, Untold, Concerns, tables
  <2> QED BY <2>3, <2>5, <2>6, <2>7
<1> QED BY <1>1, <1>2, <1>3, <1>4 DEF Serve

LEMMA StepHolds == IInv /\ [Next]_vars => IInv'
<1> SUFFICES ASSUME IInv, [Next]_vars PROVE IInv'
  OBVIOUS
<1>1. CASE Write
  BY <1>1, WriteHolds
<1>2. ASSUME NEW u \in Updates, Serve(u) PROVE IInv'
  BY <1>2, ServeHolds
<1>3. CASE Inform
  <2>1. NoticesTypeOK' /\ MailStates' /\ \A m \in Notices : row[m] = NoRow => row'[m] = NoRow
    <3>1. ASSUME NEW n \in Notices PROVE mail[n] = "sent" => row[n] # NoRow
      BY DEF IInv, MailStates, MailState
    <3> QED BY <1>3, <3>1, DeliverType, DeliverMail, RingType, RingMail DEF Inform, IInv, TypeOK
  <2>2. UNCHANGED <<stored, document, update, form, handler>>
    BY <1>3 DEF Inform, tables
  <2>3. TypeOK'
    BY <2>1, <2>2 DEF IInv, TypeOK
  <2> QED BY <2>1, <2>2, <2>3, ToldUnchanged, FileUnchanged DEF IInv
<1>4. CASE Crash
  <2>1. /\ UNCHANGED <<row, inbox, disabled, bell, stored, document, update>>
        /\ mail' = [n \in Notices |-> IF mail[n] = "none" THEN "none" ELSE "over"]
        /\ handler' = [u \in Updates |-> IF handler[u].pc = "none" THEN handler[u] ELSE Idle("over")]
        /\ form' = Writing({})
    BY <1>4 DEF Crash, tables
  <2>2. /\ Idle("over") \in Handlers /\ Idle("over").pc = "over"
        /\ Writing({}) \in Forms /\ Writing({}).pc = "writing" /\ Writing({}).documents = {}
        /\ Asked("free", {}) \in CallStates
    BY DEF Idle, Handler, Handlers, Writing, Form, Forms, Asked, CallStates
  <2>3. NoticesTypeOK'
    BY <1>4, <2>1, <2>2 DEF Crash, IInv, TypeOK, NoticesTypeOK
  <2>4. MailStates'
    BY <2>1 DEF IInv, MailStates, MailState
  <2>5. TypeOK'
    BY <2>1, <2>2, <2>3 DEF IInv, TypeOK
  <2>6. FileState'
    BY <2>1, <2>2 DEF IInv, FileState, AttachmentsAreOwn
  <2>7. ASSUME NEW u \in Updates PROVE ToldState(u)' /\ HeardState(u)'
    <3>1. /\ ToldState(u) /\ HeardState(u)
          /\ handler'[u] = IF handler[u].pc = "none" THEN handler[u] ELSE Idle("over")
      BY <2>1 DEF IInv
    <3> QED BY <2>1, <2>2, <3>1 DEF ToldState, HeardState, Untold, Concerns
  <2> QED BY <2>3, <2>4, <2>5, <2>6, <2>7 DEF IInv
<1>5. CASE UNCHANGED vars
  <2>1. NoticesTypeOK' /\ MailStates' /\ \A m \in Notices : row[m] = NoRow => row'[m] = NoRow
    BY <1>5, NoticesUnchanged DEF vars, IInv
  <2>2. TypeOK'
    BY <1>5, <2>1 DEF vars, tables, IInv, TypeOK
  <2> QED BY <1>5, <2>1, <2>2, ToldUnchanged, FileUnchanged DEF vars, tables, IInv
<1> QED BY <1>1, <1>2, <1>3, <1>4, <1>5 DEF Next

LEMMA Invariance == Spec => []IInv
BY InitHolds, StepHolds, PTL DEF Spec

-----------------------------------------------------------------------------
(* The theorems.                                                           *)

\* Rows, files, forms, handlers and bells keep their shape.
THEOREM TypeCorrect == Spec => []TypeOK
<1>1. IInv => TypeOK
  BY DEF IInv
<1> QED BY <1>1, Invariance, PTL

\* A sponsor hears of an update once and only of what concerns them (updates.ts:60-77).
THEOREM HeardAtMostOnce == Spec => []HeardOnce
<1>1. IInv => HeardOnce
  BY DEF IInv, HeardState, Concerns, HeardOnce
<1> QED BY <1>1, Invariance, PTL

\* The row never claims an e-mail that was not sent (notify.ts:42-62).
THEOREM MailHonest == Spec => []MailIsHonest
<1>1. IInv => MailIsHonest
  <2> SUFFICES ASSUME IInv, NEW n \in Notices
               PROVE  /\ row[n] # NoRow /\ row[n].emailedAt => inbox[n] = 1
                      /\ inbox[n] <= 1
                      /\ inbox[n] > 0 => row[n] # NoRow /\ Recipient(n) \notin disabled
    BY DEF MailIsHonest
  <2>1. MailState(n)
    BY DEF IInv, MailStates
  <2>2. inbox[n] = 1 => row[n] # NoRow
    BY <2>1 DEF MailState
  <2> QED BY <2>1, <2>2 DEF MailState
<1> QED BY <1>1, Invariance, PTL

\* Whoever attaches a document, and whichever way, has uploaded it
\* (uploads.ts:95-102, updates.ts:39-54).
THEOREM AttachmentsOwned == Spec => []AttachmentsAreOwn
<1>1. IInv => AttachmentsAreOwn
  BY DEF IInv, FileState
<1> QED BY <1>1, Invariance, PTL
=============================================================================
