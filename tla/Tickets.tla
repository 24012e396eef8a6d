-------- MODULE Tickets --------
(***************************************************************************)
(* Refund tickets: the document, its twin at Zoho Desk and the money.      *)
(* Handlers read the ticket, pay, save what they read with their changes,  *)
(* and then tell Zoho; Zoho reports each change of a status by a webhook,  *)
(* in order.  Every call to Zoho needs the service's one access token.     *)
(* Left out: the contact at Zoho, and payout tickets (module Payouts).     *)
(***************************************************************************)
EXTENDS Handlers, Sequences

CONSTANTS Tickets, MaxRequests, MaxFailures, MaxLapses

VARIABLES
  ticket,    \* ticket[t]: the document, NoTicket before it is saved
  desk,      \* desk[t]: its status at Zoho, "none" before it is there
  hooks,     \* changes that Zoho has still to report
  paid,      \* paid[t]: refunds by each way
  comments,  \* comments[t]: notes added at Zoho
  token,     \* the access token: "valid", "expired", or "revoked", which only Zoho knows
  refreshes, \* requests for a new token under way
  requests,
  missed,    \* tickets that Zoho reported about before they were saved (history)
  failures, lapses

tvars == <<ticket, desk, hooks, paid, comments, token, refreshes, requests, missed, failures, lapses, work>>

----------------
NoTicket == [status |-> "none", processed |-> FALSE, notes |-> 0]
Ways == {"gateway", "wallet"}
\* Fault: a ticket in progress is left open at Zoho.
AtZohoOpen(s) == IF s \in {"open", "in_progress"} THEN "Open" ELSE "Closed"
\* zohoStatusMap, and the webhook's statusMapping
AtZoho(s) == CASE s = "open" -> "Open" [] s = "in_progress" -> "In Progress" [] OTHER -> "Closed"
Ours(z) == CASE z = "Closed" -> "closed" [] z \in {"In Progress", "On Hold"} -> "in_progress" [] OTHER -> "open"
Statuses == {"open", "in_progress", "resolved", "closed"}
ZohoStatuses == {"Open", "In Progress", "On Hold", "Closed"}

Init ==
  /\ ticket = [t \in Tickets |-> NoTicket] /\ desk = [t \in Tickets |-> "none"] /\ hooks = <<>>
  /\ paid = [t \in Tickets |-> [w \in Ways |-> 0]] /\ comments = [t \in Tickets |-> 0]
  /\ token = "valid" /\ refreshes = 0 /\ requests = 0 /\ missed = {} /\ failures = 0 /\ lapses = 0
  /\ NoHandler

Known(t) == ticket[t] # NoTicket

\* Requests.  A handler knows the ticket it read, the status it will save
\* ("" leaves it) and whether it saves the metadata, notes included.
Accept(r, h) ==
  /\ requests < MaxRequests /\ requests' = requests + 1 /\ Begin(r, h)
  /\ UNCHANGED <<ticket, desk, hooks, paid, comments, token, refreshes, missed, failures, lapses>>

Change(t, do, pc, to) == [pc |-> pc, t |-> t, do |-> do, to |-> to, read |-> ticket[t], meta |-> TRUE, again |-> FALSE]

CreateTicket(r, t) ==
  /\ desk[t] = "none" /\ \A q \in Slots : ~At(q, "idle") => work[q].t # t
  /\ Accept(r, Change(t, "create", "token", "open"))

\* Fault: whether the ticket is resolved is asked.
ProcessOpen(r, t, w) ==
  /\ Known(t) /\ ticket[t].status # "resolved" /\ Accept(r, Change(t, "refund", w, "resolved"))
\* A closed ticket is refunded too.
ProcessRefund(r, t, w) ==
  /\ Known(t) /\ ~ticket[t].processed /\ Accept(r, Change(t, "refund", w, "resolved"))

\* Whether the refund was processed is not asked.
RejectRefund(r, t) == Known(t) /\ Accept(r, Change(t, "reject", "save", "closed"))

\* Without a comment the metadata stays as it is.
UpdateTicketStatus(r, t, s, comment) ==
  Known(t) /\ Accept(r, [Change(t, "status", "save", s) EXCEPT !.meta = comment])

AddInternalNote(r, t) == Known(t) /\ Accept(r, Change(t, "note", "token", ""))

\* The wallet is credited by either way, by the gateway's after the gateway's own refund.
Pay(r) ==
  \E w \in Ways :
    /\ At(r, w) /\ paid' = [paid EXCEPT ![work[r].t][w] = @ + 1]
    /\ Goto(r, IF w = "gateway" THEN "wallet" ELSE "save")
    /\ UNCHANGED <<ticket, desk, hooks, comments, token, refreshes, requests, missed, failures, lapses>>

\* Fault: what is saved takes the place of the notes.
SavedBare(h) ==
  [status |-> IF h.to \in {"", h.read.status} THEN ticket[h.t].status ELSE h.to,
   processed |-> ticket[h.t].processed \/ h.do = "refund",
   notes |-> IF h.meta THEN IF h.do = "note" THEN 1 ELSE 0 ELSE ticket[h.t].notes]
\* What is set to what was read is not written.  A note is pushed into the very
\* list that was read, so a list that was there does not look changed.
Saved(h) ==
  [status |-> IF h.to \in {"", h.read.status} THEN ticket[h.t].status ELSE h.to,
   processed |-> ticket[h.t].processed \/ h.do = "refund",
   notes |-> IF ~h.meta \/ (h.do = "note" /\ h.read.notes > 0) THEN ticket[h.t].notes
             ELSE IF h.do = "note" THEN 1 ELSE h.read.notes]

Save(r) ==
  /\ At(r, "save") /\ ticket' = [ticket EXCEPT ![work[r].t] = Saved(work[r])]
  /\ IF work[r].do \in {"create", "note"} THEN Finish(r) ELSE Goto(r, "token")
  /\ UNCHANGED <<desk, hooks, paid, comments, token, refreshes, requests, missed, failures, lapses>>

\* Zoho's access token.  Nothing is awaited between the look at the token
\* and the request for another, so the others find it under way and wait.
Proceed(r) ==
  /\ Goto(r, IF token # "expired" THEN "call" ELSE "wait")
  /\ UNCHANGED <<ticket, desk, hooks, paid, comments, token, requests, missed, failures, lapses>>
\* Fault: each request that finds the token expired asks for another.
EnsureOwnToken(r) ==
  At(r, "token") /\ refreshes' = refreshes + (IF token = "expired" THEN 1 ELSE 0) /\ Proceed(r)
EnsureToken(r) ==
  At(r, "token") /\ refreshes' = (IF token = "expired" THEN 1 ELSE refreshes) /\ Proceed(r)

\* An answer wakes all who wait for it; without one they throw.
Refreshed(ok) ==
  /\ refreshes > 0 /\ refreshes' = refreshes - 1
  /\ token' = IF ok THEN "valid" ELSE token
  /\ work' = [r \in Slots |-> IF ~At(r, "wait") THEN work[r] ELSE IF ok THEN [work[r] EXCEPT !.pc = "call"] ELSE Idle]
  /\ (ok \/ failures < MaxFailures) /\ failures' = failures + (IF ok THEN 0 ELSE 1)
  /\ UNCHANGED <<ticket, desk, hooks, paid, comments, requests, missed, lapses>>

\* A token ends by its time, or earlier at Zoho.
Lapse ==
  /\ token = "valid" /\ lapses < MaxLapses /\ lapses' = lapses + 1 /\ token' \in {"expired", "revoked"}
  /\ UNCHANGED <<ticket, desk, hooks, paid, comments, refreshes, requests, missed, failures, work>>

Set(t, z) ==
  /\ desk' = [desk EXCEPT ![t] = z]
  /\ hooks' = IF desk[t] \in {z, "none"} THEN hooks ELSE Append(hooks, <<t, z>>)

Call(r) ==
  /\ At(r, "call") /\ token # "revoked"
  /\ LET h == work[r] IN
       /\ IF h.do = "note" THEN comments' = [comments EXCEPT ![h.t] = @ + 1] /\ UNCHANGED <<desk, hooks>>
          ELSE Set(h.t, AtZoho(h.to)) /\ UNCHANGED comments
       /\ IF h.do \in {"create", "note"} THEN Goto(r, "save") ELSE Finish(r)
  /\ UNCHANGED <<ticket, paid, token, refreshes, requests, missed, failures, lapses>>

\* The first 401 is answered by a new token, the second is thrown.
Refused(r) ==
  /\ At(r, "call") /\ token = "revoked" /\ ~work[r].again /\ token' = "expired"
  /\ work' = [work EXCEPT ![r].pc = "token", ![r].again = TRUE]
  /\ UNCHANGED <<ticket, desk, hooks, paid, comments, refreshes, requests, missed, failures, lapses>>

\* A call throws, or the save does; "Refund processing failed" is said also after the save.
Throws(r) ==
  /\ ~At(r, "idle") /\ ~At(r, "wait") /\ failures < MaxFailures /\ failures' = failures + 1 /\ Finish(r)
  /\ UNCHANGED <<ticket, desk, hooks, paid, comments, token, refreshes, requests, missed, lapses>>

(* Zoho: its agents, and the webhook. *)
Agent(t, z) ==
  /\ desk[t] \notin {"none", z} /\ requests < MaxRequests /\ requests' = requests + 1 /\ Set(t, z)
  /\ UNCHANGED <<ticket, paid, comments, token, refreshes, missed, failures, lapses, work>>

\* A ticket that is not there is no error.
HandleTicketUpdate ==
  /\ hooks # <<>> /\ hooks' = Tail(hooks)
  /\ LET t == Head(hooks)[1] IN
       IF Known(t) THEN ticket' = [ticket EXCEPT ![t].status = Ours(Head(hooks)[2])] /\ UNCHANGED missed
       ELSE missed' = missed \cup {t} /\ UNCHANGED ticket
  /\ UNCHANGED <<desk, paid, comments, token, refreshes, requests, failures, lapses, work>>

Next ==
  \/ \E r \in Slots, t \in Tickets :
       \/ CreateTicket(r, t) \/ RejectRefund(r, t) \/ AddInternalNote(r, t)
       \/ \E w \in Ways : ProcessRefund(r, t, w)
       \/ \E s \in Statuses, comment \in BOOLEAN : UpdateTicketStatus(r, t, s, comment)
  \/ \E r \in Slots : Pay(r) \/ Save(r) \/ EnsureToken(r) \/ Call(r) \/ Refused(r) \/ Throws(r)
  \/ \E ok \in BOOLEAN : Refreshed(ok)
  \/ Lapse \/ HandleTicketUpdate
  \/ \E t \in Tickets, z \in ZohoStatuses : Agent(t, z)

Spec == Init /\ [][Next]_tvars

----------------
TypeOK ==
  /\ ticket \in [Tickets -> [status : Statuses \cup {"none"}, processed : BOOLEAN, notes : Nat]]
  /\ desk \in [Tickets -> ZohoStatuses \cup {"none"}] /\ hooks \in Seq(Tickets \X ZohoStatuses)
  /\ paid \in [Tickets -> [Ways -> Nat]] /\ comments \in [Tickets -> Nat]
  /\ token \in {"valid", "expired", "revoked"} /\ refreshes \in Nat /\ DOMAIN work = Slots

\* A ticket says that its refund was processed only if the wallet was credited,
\* and one request at a time and without a failure no way pays twice, whatever
\* became of the status in between.
PaidOnce ==
  \A t \in Tickets :
    /\ ticket[t].processed => paid[t]["wallet"] > 0
    /\ (OneAtATime /\ failures = 0) => \A w \in Ways : paid[t][w] <= 1

\* However administrators, agents and webhooks overlap: when all is done and
\* nothing failed, ticket and Zoho have the same status.
DeskAgrees ==
  (Quiet /\ hooks = <<>> /\ failures = 0) =>
    \A t \in Tickets \ missed :
      Known(t) => (ticket[t].status = Ours(desk[t]) \/ (ticket[t].status = "resolved" /\ desk[t] = "Closed"))

\* One request at a time and without a failure, a ticket with notes at Zoho has
\* the first of them, and keeps it whatever is saved later; it has no other.
FirstNoteKept ==
  (OneAtATime /\ Quiet /\ failures = 0) =>
    \A t \in Tickets : ticket[t].notes = IF comments[t] = 0 THEN 0 ELSE 1

\* One request for a token is under way at a time, and while somebody waits
\* there is one.
RefreshedOnce == refreshes <= 1 /\ ((\E r \in Slots : At(r, "wait")) => refreshes > 0)
================
