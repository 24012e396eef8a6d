-------- MODULE Threads --------
(***************************************************************************)
(* The conversation thread of one user with one astrologer (OrdersService):*)
(* one order document that every chat and call between the two books on.   *)
(* A session is booked with a $push to the history and totals that were    *)
(* computed from the document read before; the astrologer is credited for  *)
(* it when it ends, and often a second time when it is booked.             *)
(***************************************************************************)
EXTENDS Handlers, Sequences, Functions

CONSTANTS
  Sessions,    \* chats and calls with a human astrologer
  Chats,       \* the sessions that are chats
  Cost,        \* Cost[s]: what session s was charged
  Full,        \* the gross income whose commission is 100
  MaxFailures,
  None

VARIABLES
  thread,    \* the order document
  stage,     \* stage[s]: "new", "open" or "ended"
  opened,    \* opened[s]: how often session s was opened (history variable)
  booked,    \* booked[s]: how often session s was booked (history variable)
  income,    \* credited to the astrologer for the sessions, gross
  failures

tvars == <<thread, stage, opened, booked, income, work, failures>>

----------------
NoThread == [status |-> "none", current |-> None, history |-> <<>>, count |-> 0, total |-> 0]

Sum(seq) == SumFunction([i \in DOMAIN seq |-> Cost[seq[i]]])
\* getConversationStats, getUserConversations: what the user is shown.
Shown == [sessions |-> thread.count, spent |-> thread.total]
Handler(pc, s) == [pc |-> pc, s |-> s, seen |-> thread]

\* save() writes a field only if it differs from the copy that was read.
Write(seen, new, old) == IF new = seen THEN old ELSE new

Init ==
  /\ thread = NoThread /\ stage = [s \in Sessions |-> "new"]
  /\ opened = [s \in Sessions |-> 0] /\ booked = [s \in Sessions |-> 0] /\ income = 0
  /\ NoHandler /\ failures = 0

(* A session is ordered, and begins. *)

\* The upsert of findOrCreateConversationThread is atomic ...
CreateOrder(r, s) ==
  /\ stage[s] = "new" /\ \A q \in Slots : ~(~At(q, "idle") /\ work[q].s = s)
  /\ thread' = IF thread.status = "none" THEN [thread EXCEPT !.status = "active"] ELSE thread
  /\ Begin(r, Handler("mark", s))
  /\ UNCHANGED <<stage, opened, booked, income, failures>>

\* ... and the new session becomes the current one.
Mark(r) ==
  /\ At(r, "mark") /\ Finish(r)
  /\ thread' = [thread EXCEPT !.current = work[r].s]
  /\ stage' = [stage EXCEPT ![work[r].s] = "open"]
  /\ opened' = [opened EXCEPT ![work[r].s] = @ + 1]
  /\ UNCHANGED <<booked, income, failures>>

\* Accepting and starting read the session ...  (Only of calls: of a chat any
\* number of ends may overlap anyway.  Bound: not of a reopened call.)
ReadSession(r, s) ==
  /\ s \notin Chats /\ stage[s] = "open" /\ opened[s] = 1 /\ Begin(r, Handler("start", s))
  /\ UNCHANGED <<thread, stage, opened, booked, income, failures>>

\* ... and their save, when it comes late, reopens one that ended meanwhile.
SaveSession(r) ==
  /\ At(r, "start") /\ Finish(r)
  /\ stage' = [stage EXCEPT ![work[r].s] = "open"]
  /\ opened' = [opened EXCEPT ![work[r].s] = IF stage[work[r].s] = "ended" THEN @ + 1 ELSE @]
  /\ UNCHANGED <<thread, booked, income, failures>>

UpdateOrderStatus(s) ==
  /\ stage[s] = "open" /\ thread' = [thread EXCEPT !.status = "active"]
  /\ UNCHANGED <<stage, opened, booked, income, work, failures>>

\* handleOrderTimeout, continueConsultation and the administrator's
\* cancelOrder look at the status they read, and change it.
ChangeStatus(r) ==
  /\ \/ thread.status = "waiting" /\ Begin(r, Handler("cancelled", None))
     \/ thread.status # "none" /\ Begin(r, Handler("waiting", None))
     \/ thread.status \in {"waiting", "active"} /\ Begin(r, Handler("cancelled", None))
     \/ thread.status # "none" /\ Begin(r, Handler("refunded", None))
  /\ UNCHANGED <<thread, stage, opened, booked, income, failures>>

SaveStatus(r) ==
  /\ work[r].pc \in {"cancelled", "waiting", "refunded"} /\ Finish(r)
  /\ thread' = [thread EXCEPT !.status = Write(work[r].seen.status, work[r].pc, @)]
  /\ UNCHANGED <<stage, opened, booked, income, failures>>

\* cancelOrder: the user gives the session up, or the astrologer rejects it.
CancelOrder(r, s) ==
  /\ stage[s] = "open" /\ stage' = [stage EXCEPT ![s] = "ended"]
  /\ Begin(r, Handler("clear", s))
  /\ UNCHANGED <<thread, opened, booked, income, failures>>

Clear(r) ==
  /\ At(r, "clear") /\ Finish(r)
  /\ thread' = [thread EXCEPT !.current = Write(work[r].seen.current, None, @)]
  /\ UNCHANGED <<stage, opened, booked, income, failures>>

\* A session ends: endSession of chats or calls, then completeSession.  A
\* session without activity is skipped, and not among Sessions.
\* Fault: a call too is only looked at.
EndLooking(r, s) ==
  /\ stage[s] = "open" /\ Begin(r, Handler("pay", s))
  /\ UNCHANGED <<thread, stage, opened, booked, income, failures>>
\* A call is marked as ended by the update that finds it; a chat is only
\* looked at.
EndSession(r, s) ==
  /\ stage[s] = "open"
  /\ stage' = IF s \in Chats THEN stage ELSE [stage EXCEPT ![s] = "ended"]
  /\ Begin(r, Handler("pay", s))
  /\ UNCHANGED <<thread, opened, booked, income, failures>>

\* A reopened call that an earlier end has paid is only marked.
EndPaid(s) ==
  /\ s \notin Chats /\ stage[s] = "open" /\ opened[s] > 1
  /\ stage' = [stage EXCEPT ![s] = "ended"]
  /\ UNCHANGED <<thread, opened, booked, income, work, failures>>

\* updateEarnings, for the handler in slot r; its error is logged.
Credit(r) ==
  \/ income' = income + Cost[work[r].s] /\ UNCHANGED failures
  \/ failures < MaxFailures /\ failures' = failures + 1 /\ UNCHANGED income

\* The astrologer is credited when the user has been charged; after an error
\* of either the session goes on to be saved and booked all the same.
Pay(r) ==
  /\ At(r, "pay") /\ Goto(r, "close") /\ Credit(r)
  /\ UNCHANGED <<thread, stage, opened, booked>>

\* Only of a chat does the save write the status.
SaveEnd(s) == stage' = IF s \in Chats THEN [stage EXCEPT ![s] = "ended"] ELSE stage

\* Fault: the commission is not looked at.
CloseAlways(r) ==
  /\ At(r, "close") /\ SaveEnd(work[r].s)
  /\ work' = [work EXCEPT ![r] = Handler("earn", work[r].s)]
  /\ UNCHANGED <<thread, opened, booked, income, failures>>
\* The session is saved, and completeSession reads the order.  It takes the
\* running sum of the astrologer's commissions, to which other threads and
\* gifts add, for a percentage: below 100 there seems to be something to earn.
Close(r) ==
  /\ At(r, "close") /\ SaveEnd(work[r].s)
  /\ \E pc \in {"earn", "book"} :
       /\ pc = "earn" => income < Full
       /\ work' = [work EXCEPT ![r] = Handler(pc, work[r].s)]
  /\ UNCHANGED <<thread, opened, booked, income, failures>>

\* completeSession credits the same session again.
Earn(r) ==
  /\ At(r, "earn") /\ Goto(r, "book") /\ Credit(r)
  /\ UNCHANGED <<thread, stage, opened, booked>>

Booked(seen, s) ==
  [seen EXCEPT !.total = @ + Cost[s], !.count = Len(seen.history) + 1]

CountBooking(s) == booked' = [booked EXCEPT ![s] = @ + 1]

\* Fault: the history is replaced by the copy with the session added.
BookCopy(r) ==
  /\ At(r, "book") /\ Finish(r) /\ CountBooking(work[r].s)
  /\ LET seen == work[r].seen  s == work[r].s  new == Booked(seen, s) IN
       thread' = [thread EXCEPT
         !.history = Append(seen.history, s), !.total = new.total, !.count = new.count,
         !.current = Write(seen.current, None, @), !.status = Write(seen.status, "active", @)]
  /\ UNCHANGED <<stage, opened, income, failures>>
\* Fault: the totals are left to a later count.
BookHistory(r) ==
  /\ At(r, "book") /\ Finish(r) /\ CountBooking(work[r].s)
  /\ thread' = [thread EXCEPT !.history = Append(@, work[r].s)]
  /\ UNCHANGED <<stage, opened, income, failures>>
Book(r) ==
  /\ At(r, "book") /\ Finish(r) /\ CountBooking(work[r].s)
  /\ LET seen == work[r].seen  s == work[r].s  new == Booked(seen, s) IN
       thread' = [thread EXCEPT
         !.history = Append(@, s), !.total = new.total, !.count = new.count,
         !.current = Write(seen.current, None, @), !.status = Write(seen.status, "active", @)]
  /\ UNCHANGED <<stage, opened, income, failures>>

\* The save fails, or the process stops.
Fails(r) ==
  /\ ~At(r, "idle") /\ failures < MaxFailures /\ failures' = failures + 1 /\ Finish(r)
  /\ UNCHANGED <<thread, stage, opened, booked, income>>

Next ==
  \E r \in Slots :
    \/ Mark(r) \/ SaveSession(r) \/ SaveStatus(r) \/ Clear(r) \/ ChangeStatus(r)
    \/ Pay(r) \/ Close(r) \/ Earn(r) \/ Book(r) \/ Fails(r)
    \/ \E s \in Sessions :
         CreateOrder(r, s) \/ UpdateOrderStatus(s) \/ CancelOrder(r, s)
         \/ ReadSession(r, s) \/ EndSession(r, s) \/ EndPaid(s)

Spec == Init /\ [][Next]_tvars

----------------
TypeOK ==
  /\ thread.status \in {"none", "active", "waiting", "cancelled", "refunded"}
  /\ thread.current \in Sessions \cup {None} /\ thread.history \in Seq(Sessions)
  /\ thread.count \in Nat /\ thread.total \in Nat /\ income \in Nat
  /\ stage \in [Sessions -> {"new", "open", "ended"}] /\ opened \in [Sessions -> Nat]
  /\ booked \in [Sessions -> Nat]
  /\ failures \in 0..MaxFailures

\* However handlers overlap and fail, the history has a session as often as
\* it was booked; a call is booked no more often than it was opened, and any
\* session at most once while handlers do not overlap.
HistoryKeepsAll ==
  \A s \in Sessions :
    /\ Cardinality({i \in DOMAIN thread.history : thread.history[i] = s}) = booked[s]
    /\ s \notin Chats => booked[s] <= opened[s]
    /\ OneAtATime => booked[s] <= 1

\* The totals the user is shown never exceed the history; they fall short
\* only if completions overlapped.
TotalsAgree ==
  /\ Shown.spent <= Sum(thread.history) /\ Shown.sessions <= Len(thread.history)
  /\ OneAtATime => Shown = [sessions |-> Len(thread.history), spent |-> Sum(thread.history)]

\* One handler after another, and none fails: the astrologer was credited for
\* all that the thread says the user spent, and for less than Full beyond it,
\* however many sessions were credited twice.
IncomeIsBooked ==
  OneAtATime /\ Quiet /\ failures = 0 => thread.total <= income /\ income - thread.total < Full
================
