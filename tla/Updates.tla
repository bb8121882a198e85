------------------------------- MODULE Updates -------------------------------
(***************************************************************************)
(* An athlete posts progress updates with files attached, and the sponsors *)
(* hear of them.  The form uploads each file in three calls (presign, PUT, *)
(* confirm), then posts; the server creates the update, then reads whom to *)
(* tell, then tells them one after the other.  When a call is lost the     *)
(* form stays and starts over, with new uploads, while the server may go   *)
(* on with what it received.  Other clients of the API attach what they    *)
(* like of their own: fresh uploads, or documents of an update that exists.*)
(***************************************************************************)
EXTENDS Notifications

CONSTANTS Updates, Files,     \* a file stands for the storage key of an upload
          Sponsorships,
          SponsorOf(_),       \* the user who sponsors
          AthleteOf(_),       \* the user who is sponsored
          AuthorOf(_),        \* the user who posts an update
          UploaderOf(_),      \* the user a storage key names
          Earlier, Uploaded,  \* updates and loose documents that exist already
          General, NoDocument, Loose, NoFile, NoUpdate

ASSUME NoticesAssumption ==
  /\ Notices = Updates \X Sponsorships
  /\ \A n \in Notices : Recipient(n) = SponsorOf(n[2])
ASSUME EarlierAssumption == Earlier \subseteq Updates /\ Uploaded \subseteq Files

VARIABLES stored,     \* files whose bytes arrived
          document,   \* Document rows by storage key: NoDocument, Loose, or its update
          update,     \* SponsorshipUpdate rows: NoUpdate, General, or the sponsorship linked
          form,       \* the athlete's form
          handler     \* the request that posts each update

tables == <<stored, document, update>>
vars == <<noticeVars, tables, form, handler>>

Form(pc, f, docs) == [pc |-> pc, file |-> f, documents |-> docs]
Writing(docs) == Form("writing", NoFile, docs)
Handler(pc, about, docs, left, told) ==
  [pc |-> pc, about |-> about, documents |-> docs, left |-> left, told |-> told]
Idle(pc) == Handler(pc, NoUpdate, {}, {}, {})

Abouts == Sponsorships \union {General}
Forms == [pc: {"writing", "put", "confirm", "posted"}, file: Files \union {NoFile},
          documents: SUBSET Files]
Handlers == [pc: {"none", "received", "created", "telling", "over"},
             about: Abouts \union {NoUpdate}, documents: SUBSET Files,
             left: SUBSET Sponsorships, told: SUBSET Users]

ASSUME NullsAssumption ==
  /\ NoRow \notin Rows
  /\ NoUpdate \notin Abouts
  /\ {NoDocument, Loose} \intersect Updates = {} /\ NoDocument # Loose
  /\ NoFile \notin Files
  /\ \A s \in Sponsorships : SponsorOf(s) \in Users

TypeOK ==
  /\ NoticesTypeOK
  /\ stored \subseteq Files
  /\ document \in [Files -> Updates \union {NoDocument, Loose}]
  /\ update \in [Updates -> Abouts \union {NoUpdate}]
  /\ form \in Forms
  /\ handler \in [Updates -> Handlers]

Init ==
  /\ NoticesInit
  /\ stored = Uploaded
  /\ update = [u \in Updates |-> IF u \in Earlier THEN General ELSE NoUpdate]
  /\ document = [f \in Files |-> IF f \in Uploaded THEN Loose ELSE NoDocument]
  /\ form = Writing({})
  /\ handler = [u \in Updates |-> Idle(IF u \in Earlier THEN "over" ELSE "none")]

-----------------------------------------------------------------------------
(* The form: uploadFile and postUpdate.                                    *)

\* Every key is new (randomUUID); one athlete fills the form.
Presign(f) ==
  /\ form.pc = "writing"
  /\ f \notin stored
  /\ \A g \in form.documents : UploaderOf(g) = UploaderOf(f)
  /\ form' = Form("put", f, form.documents)
  /\ UNCHANGED <<noticeVars, tables, handler>>

Put ==
  /\ form.pc = "put"
  /\ stored' = stored \union {form.file}
  /\ form' = Form("confirm", form.file, form.documents)
  /\ UNCHANGED <<noticeVars, document, update, handler>>

\* The storage key is unique among documents.  The form confirms what it has put;
\* the API's other clients may not wait for that.
MayConfirm(f) ==
  /\ form.pc \in {"put", "confirm"} /\ form.file = f
  /\ f \in stored /\ document[f] = NoDocument

Confirm(f) ==
  /\ MayConfirm(f)
  /\ document' = [document EXCEPT ![f] = Loose]
  /\ form' = Writing(form.documents \union {f})
  /\ UNCHANGED <<noticeVars, stored, update, handler>>

\* With attach.updateId the new document goes to an update of the uploader at once.
ConfirmAttached(f, u) ==
  /\ MayConfirm(f)
  /\ update[u] # NoUpdate /\ AuthorOf(u) = UploaderOf(f)
  /\ document' = [document EXCEPT ![f] = u]
  /\ form' = Writing(form.documents)
  /\ UNCHANGED <<noticeVars, stored, update, handler>>

AnyDocuments(u, docs) == \A f \in docs : document[f] # NoDocument    \* seeded bug: anybody's

\* Counted against the uploader's documents, attached already or not.
OwnDocuments(u, docs) ==
  \A f \in docs : document[f] # NoDocument /\ UploaderOf(f) = AuthorOf(u)

\* POST /updates refuses what is not the athlete's: documents, or a sponsorship.
Receive(u, about, docs) ==
  /\ handler[u].pc = "none"
  /\ about # General => AthleteOf(about) = AuthorOf(u)
  /\ OwnDocuments(u, docs)
  /\ handler' = [handler EXCEPT ![u] = Handler("received", about, docs, {}, {})]
  /\ UNCHANGED <<noticeVars, tables>>

\* The form links its update to the sponsorship it is on; a general one comes without a form.
Post(u, about) ==
  /\ form.pc = "writing"
  /\ form' = Form("posted", NoFile, form.documents)
  /\ Receive(u, about, form.documents)

PostDirectly(u, about, docs) == Receive(u, about, docs) /\ UNCHANGED form

Posted ==
  /\ form.pc = "posted"
  /\ \A u \in Updates : handler[u].pc \in {"none", "over"}
  /\ form' = Writing({})
  /\ UNCHANGED <<noticeVars, tables, handler>>

\* An error or a lost answer, at any call: the files are uploaded again.
StartOver ==
  /\ form # Writing({})
  /\ form' = Writing({})
  /\ UNCHANGED <<noticeVars, tables, handler>>

-----------------------------------------------------------------------------
(* POST /updates.                                                          *)

\* The row and the links to its documents are one statement; connect takes a
\* document away from the update it was attached to.
Create(u) ==
  LET h == handler[u] IN
  /\ h.pc = "received"
  /\ update' = [update EXCEPT ![u] = h.about]
  /\ document' = [f \in Files |-> IF f \in h.documents THEN u ELSE document[f]]
  /\ handler' = [handler EXCEPT ![u] = Handler("created", h.about, {}, {}, {})]
  /\ UNCHANGED <<noticeVars, stored, form>>

Audience(u, about, paid) ==
  IF about = General THEN {s \in paid : AthleteOf(s) = AuthorOf(u)} ELSE {about}

\* Payments come, and a late payment.failed takes one back (SponsorshipPayments):
\* any sponsorships may be PAID at the moment they are read.
ReadAudience(u) ==
  /\ handler[u].pc = "created"
  /\ \E paid \in SUBSET Sponsorships :
       LET about == handler[u].about
       IN  handler' = [handler EXCEPT ![u] =
             Handler("telling", about, {}, Audience(u, about, paid), {})]
  /\ UNCHANGED <<noticeVars, tables, form>>

NeverHeard(u, s) == FALSE     \* seeded bug: one row per sponsorship

\* One row per sponsor, however many of their sponsorships the query returns.
Heard(u, s) == SponsorOf(s) \in handler[u].told

Tell(u, s) ==
  LET h == handler[u] IN
  /\ h.pc = "telling" /\ s \in h.left
  /\ IF Heard(u, s) THEN UNCHANGED noticeVars ELSE Notify(<<u, s>>)
  /\ handler' = [handler EXCEPT ![u] =
       Handler("telling", h.about, {}, h.left \ {s}, h.told \union {SponsorOf(s)})]
  /\ UNCHANGED <<tables, form>>

Finish(u) ==
  /\ handler[u].pc = "telling" /\ handler[u].left = {}
  /\ handler' = [handler EXCEPT ![u] = Idle("over")]
  /\ UNCHANGED <<noticeVars, tables, form>>

\* The server stops: handlers and e-mails in flight are gone, bells and forms get no answer.
Crash ==
  /\ handler' = [u \in Updates |->
       IF handler[u].pc = "none" THEN handler[u] ELSE Idle("over")]
  /\ mail' = [n \in Notices |-> IF mail[n] = "none" THEN "none" ELSE "over"]
  /\ call' = [u \in Users |-> [k \in Calls |-> Asked("free", {})]]
  /\ form' = Writing({})
  /\ UNCHANGED <<row, inbox, disabled, bell, tables>>

Write ==
  \/ \E f \in Files : Presign(f) \/ Confirm(f) \/ \E u \in Updates : ConfirmAttached(f, u)
  \/ Put \/ Posted \/ StartOver
  \/ \E u \in Updates, about \in Abouts :
       Post(u, about) \/ \E docs \in SUBSET Files : PostDirectly(u, about, docs)

Serve(u) == Create(u) \/ ReadAudience(u) \/ (\E s \in Sponsorships : Tell(u, s)) \/ Finish(u)

Inform == /\ (\E n \in Notices : Deliver(n)) \/ (\E u \in Users : Ring(u))
          /\ UNCHANGED <<tables, form, handler>>

Next ==
  \/ Write
  \/ \E u \in Updates : Serve(u)
  \/ Inform
  \/ Crash

(* The bell polls for ever, and a call is answered if it is made again and *)
(* again; nothing is owed by athletes, by handlers or by the mail service. *)
Fairness ==
  \A u \in Users, k \in Calls :
    /\ WF_vars(Ask(u, k) /\ UNCHANGED <<tables, form, handler>>)
    /\ SF_vars(Answer(u, k) /\ UNCHANGED <<tables, form, handler>>)
    /\ SF_vars(Show(u, k) /\ UNCHANGED <<tables, form, handler>>)

Spec == Init /\ [][Next]_vars /\ Fairness

-----------------------------------------------------------------------------
(* An update reaches a sponsor once: a sponsor with several sponsorships   *)
(* is told of one of them.  It reaches only sponsors of its author, and a  *)
(* linked one nobody but the sponsor it is linked to, whatever is paid,    *)
(* lost or stopped meanwhile (updates.ts:60-77).                           *)
HeardOnce ==
  \A u \in Updates, s \in Sponsorships : row[<<u, s>>] # NoRow =>
    /\ update[u] \in {General, s}
    /\ AthleteOf(s) = AuthorOf(u)
    /\ \A t \in Sponsorships \ {s} :
         SponsorOf(t) = SponsorOf(s) => row[<<u, t>>] = NoRow

(* Whichever way a document came to an update, at its confirmation, with   *)
(* the update, or taken from an earlier one, the update exists and is by   *)
(* the athlete who uploaded it: nobody shows, or takes away, somebody      *)
(* else's file (uploads.ts:95-102, updates.ts:39-54).                      *)
AttachmentsAreOwn ==
  \A f \in Files : document[f] \in Updates =>
    update[document[f]] # NoUpdate /\ AuthorOf(document[f]) = UploaderOf(f)
=============================================================================
