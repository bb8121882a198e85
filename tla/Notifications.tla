---------------------------- MODULE Notifications ----------------------------
(***************************************************************************)
(* Notification rows, the e-mail that follows them, and the bell.  notify  *)
(* writes the row and starts the e-mail without waiting for it; the bell   *)
(* asks every 30 seconds and after each click, and shows whichever answer  *)
(* arrived last.                                                           *)
(***************************************************************************)
EXTENDS Naturals

CONSTANTS Notices,        \* the notifications that may be written
          Users,
          Recipient(_),   \* whom a notice is for
          Calls,          \* a bell's calls in flight
          NoRow

ASSUME RecipientsAssumption == \A n \in Notices : Recipient(n) \in Users

VARIABLES row,        \* Notification rows, or NoRow
          mail,       \* how far deliverEmail has come with each
          inbox,      \* how often the e-mail of each was sent
          disabled,   \* users whose account is not active
          bell,       \* the notices each user's bell shows as unread
          call        \* the bell's calls: free, asked, or the answer on its way

noticeVars == <<row, mail, inbox, disabled, bell, call>>

Rows       == [read: BOOLEAN, emailedAt: BOOLEAN]
CallStates == [pc: {"free", "asked", "answered"}, unread: SUBSET Notices]
Asked(pc, unread) == [pc |-> pc, unread |-> unread]

NoticesTypeOK ==
  /\ row \in [Notices -> Rows \union {NoRow}]
  /\ mail \in [Notices -> {"none", "queued", "checked", "sent", "over"}]
  /\ inbox \in [Notices -> Nat]
  /\ disabled \subseteq Users
  /\ bell \in [Users -> SUBSET Notices]
  /\ call \in [Users -> [Calls -> CallStates]]

NoticesInit ==
  /\ row = [n \in Notices |-> NoRow]
  /\ mail = [n \in Notices |-> "none"]
  /\ inbox = [n \in Notices |-> 0]
  /\ disabled \in SUBSET Users
  /\ bell = [u \in Users |-> {}]
  /\ call = [u \in Users |-> [k \in Calls |-> Asked("free", {})]]

-----------------------------------------------------------------------------
(* notify and deliverEmail.                                                *)

\* Never throws: the row is written, or logged as lost.
Notify(n) ==
  \/ /\ row' = [row EXCEPT ![n] = [read |-> FALSE, emailedAt |-> FALSE]]
     /\ mail' = [mail EXCEPT ![n] = "queued"]
     /\ UNCHANGED <<inbox, disabled, bell, call>>
  \/ UNCHANGED noticeVars

Progress(n, from, to) ==
  /\ mail[n] = from
  /\ mail' = [mail EXCEPT ![n] = to]

\* Seeded bug: disabled accounts are written to.
DeliverUnchecked(n) ==
  /\ Progress(n, "queued", "checked")
  /\ UNCHANGED <<row, inbox, disabled, bell, call>>

DeliverRead(n) ==
  /\ Progress(n, "queued", IF Recipient(n) \in disabled THEN "over" ELSE "checked")
  /\ UNCHANGED <<row, inbox, disabled, bell, call>>

DeliverSend(n) ==
  /\ Progress(n, "checked", "sent")
  /\ inbox' = [inbox EXCEPT ![n] = @ + 1]
  /\ UNCHANGED <<row, disabled, bell, call>>

DeliverMark(n) ==
  /\ Progress(n, "sent", "over")
  /\ row' = [row EXCEPT ![n].emailedAt = TRUE]
  /\ UNCHANGED <<inbox, disabled, bell, call>>

\* Whatever fails is logged, and nothing takes it up again.
DeliverFail(n) ==
  /\ mail[n] \in {"queued", "checked", "sent"}
  /\ mail' = [mail EXCEPT ![n] = "over"]
  /\ UNCHANGED <<row, inbox, disabled, bell, call>>

-----------------------------------------------------------------------------
(* The bell and its three routes.                                          *)

\* What the bell is told is unread: the list (30 at most) and the count, which the
\* code asks for side by side, taken as one read.
Unread(u) == {n \in Notices : Recipient(n) = u /\ row[n] # NoRow /\ ~row[n].read}

SetCall(u, k, pc, unread) == call' = [call EXCEPT ![u][k] = Asked(pc, unread)]

\* Seeded bug: a bell that shows something does not ask again.
AskWhenEmpty(u, k) ==
  /\ bell[u] = {}
  /\ call[u][k].pc = "free"
  /\ SetCall(u, k, "asked", {})
  /\ UNCHANGED <<row, mail, inbox, disabled, bell>>

Ask(u, k) ==
  /\ call[u][k].pc = "free"
  /\ SetCall(u, k, "asked", {})
  /\ UNCHANGED <<row, mail, inbox, disabled, bell>>

Answer(u, k) ==
  /\ call[u][k].pc = "asked"
  /\ SetCall(u, k, "answered", Unread(u))
  /\ UNCHANGED <<row, mail, inbox, disabled, bell>>

Show(u, k) ==
  /\ call[u][k].pc = "answered"
  /\ bell' = [bell EXCEPT ![u] = call[u][k].unread]
  /\ SetCall(u, k, "free", {})
  /\ UNCHANGED <<row, mail, inbox, disabled>>

Miss(u, k) ==
  /\ call[u][k].pc # "free"
  /\ SetCall(u, k, "free", {})
  /\ UNCHANGED <<row, mail, inbox, disabled, bell>>

MarkRead(ns) ==
  /\ row' = [n \in Notices |-> IF n \in ns /\ row[n] # NoRow
                               THEN [row[n] EXCEPT !.read = TRUE] ELSE row[n]]
  /\ UNCHANGED <<mail, inbox, disabled, bell, call>>

OpenNotification(u, n) == n \in bell[u] /\ MarkRead({n})

\* Marks what the server has, which may be more than the bell has shown.
MarkAllRead(u) == bell[u] # {} /\ MarkRead(Unread(u))

Deliver(n) == DeliverRead(n) \/ DeliverSend(n) \/ DeliverMark(n) \/ DeliverFail(n)

Ring(u) ==
  \/ \E k \in Calls : Ask(u, k) \/ Answer(u, k) \/ Show(u, k) \/ Miss(u, k)
  \/ \E n \in Notices : OpenNotification(u, n)
  \/ MarkAllRead(u)

-----------------------------------------------------------------------------
(* What the row says of the e-mail is so, and nobody gets it twice or after*)
(* their account was disabled, although nothing waits for the e-mail and   *)
(* the server may stop between sending and noting it (notify.ts:42-62).    *)
MailIsHonest ==
  \A n \in Notices :
    /\ row[n] # NoRow /\ row[n].emailedAt => inbox[n] = 1
    /\ inbox[n] <= 1
    /\ inbox[n] > 0 => row[n] # NoRow /\ Recipient(n) \notin disabled

(* The bell catches up: a notice that waits is shown as unread or has been *)
(* read, and one that was read, here or in another tab, stops counting,    *)
(* although answers overtake each other and nothing numbers them           *)
(* (notification-bell.tsx:25-43).                                          *)
BellCatchesUp ==
  \A n \in Notices :
    LET u == Recipient(n) IN
    /\ (n \in Unread(u)) ~> (n \in bell[u] \/ n \notin Unread(u))
    /\ (n \in bell[u] /\ n \notin Unread(u)) ~> (n \notin bell[u])
=============================================================================
