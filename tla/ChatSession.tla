-------- MODULE ChatSession --------
(***************************************************************************)
(* A paid chat from request to bill.  The session document moves through   *)
(* initiated, waiting, active and a final status under handlers that read  *)
(* it, wait for the database and save what they changed: REST and socket   *)
(* handlers, timers kept in memory, and two crons that sweep what a lost   *)
(* timer left behind.  None of them locks the session.                     *)
(*                                                                         *)
(* Each handler holds a request slot with what it has read; its steps are  *)
(* its writes.  A save writes the fields the handler changed, so a late    *)
(* one puts its status over whatever was stored meanwhile.  Time is        *)
(* counted in seconds of the active session and looked at in Moments.      *)
(***************************************************************************)
EXTENDS Integers, FiniteSets, FiniteSetsExt

CONSTANTS
  Users, Astrologers, Sessions, Requests,
  UserOf, AstrologerOf,  \* functions of the session
  Continued,             \* sessions made by continueChat, the others by initiateChat
  Rate,                  \* ratePerMinute
  Opening,               \* balance of a user at first
  Recharges, Spends,     \* amounts recharged, and spent elsewhere
  MaxBalance,            \* bound on recharging
  Moments,               \* the seconds of a session that are looked at
  MaxFaults              \* bound on restarts and failing handlers

ASSUME ChatAssumption ==
  /\ UserOf \in [Sessions -> Users] /\ AstrologerOf \in [Sessions -> Astrologers]
  /\ Continued \subseteq Sessions
  /\ Rate \in Nat \ {0} /\ Opening \in Nat /\ MaxBalance \in Nat
  /\ Recharges \subseteq Nat \ {0} /\ Spends \subseteq Nat \ {0}
  /\ Moments \subseteq Nat /\ MaxFaults \in Nat

VARIABLES
  ses,      \* ses[s]: the session document
  elapsed,  \* elapsed[s]: seconds since startTime
  replied,  \* replied[s]: the astrologer has written a message
  old,      \* old[s]: requested more than five minutes ago
  timer,    \* timer[s]: what is armed for s in memory
  busy,     \* busy[a]: busyUntil lies in the future
  balance,  \* balance[u]
  topUp,    \* topUp[u]: a recharge is about to extend the user's chat
  req,      \* req[r]: the handler in slot r
  faults,
  charged,  \* charged[s]: paid from the user's wallet for s
  longest,  \* longest[s]: longest maxDurationSeconds s was given (history)
  shut,     \* shut[s]: s was cancelled or rejected (history)
  revenue,  \* revenue[a]: earnings.totalEarned
  platform  \* platform[a]: earnings.platformCommission

stored == <<ses, elapsed, replied, old>>
money == <<balance, topUp, charged, revenue, platform>>
vars == <<stored, timer, busy, req, faults, longest, shut, money>>

----------------
Pending == {"initiated", "waiting"}
Live == Pending \cup {"active"}
Closed == {"ended", "cancelled", "rejected"}

NoSession == [status |-> "none", max |-> 0, total |-> 0, paid |-> FALSE]
NoTimers == [request |-> FALSE, join |-> FALSE, autoEnd |-> -1, ticker |-> -1]
Idle == [pc |-> "idle"]

\* What a closing handler saves, and from which status.
Target == [reject |-> "rejected", cancel |-> "cancelled", timeout |-> "cancelled",
           noShow |-> "cancelled", hung |-> "cancelled"]

Kinds == {"initiate", "accept", "start", "extend", "end"} \cup DOMAIN Target

Start(r, kind, s, pc, n, seen) ==
  /\ req[r].pc = "idle"
  /\ req' = [req EXCEPT ![r] = [pc |-> pc, kind |-> kind, s |-> s,
                                n |-> n, ok |-> FALSE, seen |-> seen]]
At(r, pc, kinds) == req[r].pc = pc /\ req[r].kind \in kinds
Goto(r, pc) == req' = [req EXCEPT ![r].pc = pc]
Finish(r) == req' = [req EXCEPT ![r] = Idle]
SaveStatus(s, status) == ses' = [ses EXCEPT ![s].status = status]

NoRequestTimer(t) == [t EXCEPT !.request = FALSE, !.autoEnd = -1]

\* The longest chat a wallet pays for, in whole minutes, as seconds.
Affordable(u) == (balance[u] \div Rate) * 60

Lesser(a, b) == IF a < b THEN a ELSE b
Minutes(seconds) == (seconds + 59) \div 60   \* minutes begun

\* Fault: the time after the limit is billed too.
BillUncapped(s) == IF replied[s] THEN Rate * Minutes(elapsed[s]) ELSE 0
\* Fault: a chat the astrologer never answered is billed.
BillSilent(s) == Rate * Minutes(Lesser(elapsed[s], ses[s].max))
\* What a chat costs now: minutes begun, up to the limit, nothing if the
\* astrologer never wrote.
Bill(s) ==
  IF replied[s] THEN Rate * Minutes(Lesser(elapsed[s], ses[s].max)) ELSE 0

\* Fault: only the busy flag is looked at.
AstrologerFreeByFlag(s) == ~busy[AstrologerOf[s]]
\* isAvailableNow: not busy, and no request or chat of another user.
AstrologerFree(s) ==
  /\ ~busy[AstrologerOf[s]]
  /\ \A t \in Sessions : (AstrologerOf[t] = AstrologerOf[s] /\ UserOf[t] # UserOf[s])
                            => ses[t].status \notin Live

\* s is a session id not yet in use.
Fresh(s) == ses[s].status = "none" /\ \A r \in Requests : ~(req[r].pc # "idle" /\ req[r].s = s)

CanPayFive(s) == balance[UserOf[s]] >= 5 * Rate

----------------
Init ==
  /\ ses = [s \in Sessions |-> NoSession]
  /\ elapsed = [s \in Sessions |-> 0]
  /\ replied = [s \in Sessions |-> FALSE] /\ old = [s \in Sessions |-> FALSE]
  /\ timer = [s \in Sessions |-> NoTimers]
  /\ busy = [a \in Astrologers |-> FALSE]
  /\ balance = [u \in Users |-> Opening] /\ topUp = [u \in Users |-> FALSE]
  /\ req = [r \in Requests |-> Idle] /\ faults = 0
  /\ charged = [s \in Sessions |-> 0] /\ longest = [s \in Sessions |-> 0]
  /\ shut = [s \in Sessions |-> FALSE]
  /\ revenue = [a \in Astrologers |-> 0] /\ platform = [a \in Astrologers |-> 0]

(* A request. *)

\* initiateChat first cancels what the user left pending for five minutes.
Stale(u) == {t \in Sessions : UserOf[t] = u /\ old[t] /\ ses[t].status \in Pending}

\* Fault: the user's other chats are not looked at.
InitiateBeginTwice(r, s) ==
  /\ Fresh(s) /\ s \notin Continued /\ req[r].pc = "idle"
  /\ UNCHANGED <<ses, shut>>
  /\ AstrologerFree(s) /\ CanPayFive(s)
  /\ Start(r, "initiate", s, "read", 0, NoSession)
  /\ UNCHANGED <<elapsed, replied, old, timer, busy, faults, longest, money>>
\* Then it reads: no other chat of the user, a free astrologer, a wallet for
\* five minutes.
InitiateBegin(r, s) ==
  LET u == UserOf[s]
      Others == {t \in Sessions \ Stale(u) : UserOf[t] = u /\ ses[t].status \in Live}
  IN /\ Fresh(s) /\ s \notin Continued /\ req[r].pc = "idle"
     /\ ses' = [t \in Sessions |-> IF t \in Stale(u)
                                   THEN [ses[t] EXCEPT !.status = "cancelled"] ELSE ses[t]]
     /\ shut' = [t \in Sessions |-> shut[t] \/ t \in Stale(u)]
     /\ IF Others = {} /\ AstrologerFree(s) /\ CanPayFive(s)
        THEN Start(r, "initiate", s, "read", 0, NoSession)
        ELSE UNCHANGED req
     /\ UNCHANGED <<elapsed, replied, old, timer, busy, faults, longest, money>>

\* continueChat only looks at the wallet.
ContinueBegin(r, s) ==
  /\ Fresh(s) /\ s \in Continued /\ CanPayFive(s)
  /\ Start(r, "initiate", s, "read", 0, NoSession)
  /\ UNCHANGED <<stored, timer, busy, faults, longest, shut, money>>

\* The document is saved and its three-minute timer armed.
InitiateSave(r) ==
  /\ At(r, "read", {"initiate"})
  /\ SaveStatus(req[r].s, "initiated")
  /\ timer' = [timer EXCEPT ![req[r].s].request = TRUE]
  /\ IF req[r].s \in Continued THEN Finish(r) ELSE Goto(r, "saved")
  /\ UNCHANGED <<elapsed, replied, old, busy, faults, longest, shut, money>>

AcceptBegin(r, s) ==
  /\ ses[s].status = "initiated"
  /\ Start(r, "accept", s, "read", 0, NoSession)
  /\ timer' = [timer EXCEPT ![s] = NoRequestTimer(@)]
  /\ UNCHANGED <<stored, busy, faults, longest, shut, money>>

AcceptSave(r) ==
  /\ At(r, "read", {"accept"})
  /\ SaveStatus(req[r].s, "waiting") /\ Goto(r, "saved")
  /\ UNCHANGED <<elapsed, replied, old, timer, busy, faults, longest, shut, money>>

\* The astrologer is busy for the user's answer; after an acceptance the
\* user has 60 seconds to join.
HoldAstrologer(r) ==
  /\ At(r, "saved", {"initiate", "accept"})
  /\ busy' = [busy EXCEPT ![AstrologerOf[req[r].s]] = TRUE]
  /\ timer' = IF req[r].kind = "accept" THEN [timer EXCEPT ![req[r].s].join = TRUE]
                                        ELSE timer
  /\ Finish(r)
  /\ UNCHANGED <<stored, faults, longest, shut, money>>

\* join_session of the user stops the join timer.
JoinSession(s) ==
  /\ timer[s].join
  /\ timer' = [timer EXCEPT ![s].join = FALSE]
  /\ UNCHANGED <<stored, busy, req, faults, longest, shut, money>>

\* A request that comes to nothing: rejected, cancelled by the user, timed
\* out, not joined, or found by the cron after five minutes.
CloseBegin(r, s, kind) ==
  /\ ses[s].status \in Pending
  /\ Start(r, kind, s, "read", 0, NoSession)
  /\ UNCHANGED <<stored, busy, faults, longest, shut, money>>

RejectOrCancelBegin(r, s) ==
  /\ \E kind \in {"reject", "cancel"} : CloseBegin(r, s, kind)
  /\ timer' = [timer EXCEPT ![s] = NoRequestTimer(@)]

\* A timer fires; it does nothing on a session that moved on.
RequestTimeout(r, s) ==
  /\ timer[s].request
  /\ timer' = [timer EXCEPT ![s].request = FALSE]
  /\ IF ses[s].status \in Pending THEN CloseBegin(r, s, "timeout")
     ELSE UNCHANGED <<stored, busy, req, faults, longest, shut, money>>

JoinTimeout(r, s) ==
  /\ timer[s].join
  /\ timer' = [timer EXCEPT ![s].join = FALSE]
  /\ IF ses[s].status = "waiting" THEN CloseBegin(r, s, "noShow")
     ELSE UNCHANGED <<stored, busy, req, faults, longest, shut, money>>

\* Fault: the cron looks for unanswered requests only.
HungBeginInitiated(r, s) ==
  /\ old[s] /\ ses[s].status = "initiated"
  /\ CloseBegin(r, s, "hung") /\ UNCHANGED timer
\* cleanupChats, requests older than five minutes.
HungBegin(r, s) ==
  /\ old[s]
  /\ CloseBegin(r, s, "hung") /\ UNCHANGED timer

CloseSave(r) ==
  /\ At(r, "read", DOMAIN Target)
  /\ SaveStatus(req[r].s, Target[req[r].kind]) /\ Goto(r, "saved")
  /\ shut' = [shut EXCEPT ![req[r].s] = TRUE]
  /\ UNCHANGED <<elapsed, replied, old, timer, busy, faults, longest, money>>

\* setAvailable; cancelOrder does it again after a rejection or cancellation.
FreeAstrologer(r) ==
  /\ At(r, "saved", DOMAIN Target) \/ At(r, "freed", {"reject", "cancel"})
  /\ busy' = [busy EXCEPT ![AstrologerOf[req[r].s]] = FALSE]
  /\ IF At(r, "saved", {"reject", "cancel"}) THEN Goto(r, "freed") ELSE Finish(r)
  /\ UNCHANGED <<stored, timer, faults, longest, shut, money>>

(* The chat. *)

\* Fault: any session may be started.
StartBeginAny(r, s) ==
  /\ ses[s].status \in Live \cup Closed /\ Affordable(UserOf[s]) >= 60
  /\ Start(r, "start", s, "read", Affordable(UserOf[s]), NoSession)
  /\ busy' = [busy EXCEPT ![AstrologerOf[s]] = TRUE]
  /\ UNCHANGED <<stored, timer, faults, longest, shut, money>>
\* start_chat: the limit is what the wallet pays; the astrologer is made
\* busy before the session is saved.
StartBegin(r, s) ==
  /\ ses[s].status = "waiting" /\ Affordable(UserOf[s]) >= 60
  /\ Start(r, "start", s, "read", Affordable(UserOf[s]), NoSession)
  /\ busy' = [busy EXCEPT ![AstrologerOf[s]] = TRUE]
  /\ UNCHANGED <<stored, timer, faults, longest, shut, money>>

\* updateOrderStatus(active) follows; the order's status is not modelled.
StartSave(r) ==
  /\ At(r, "read", {"start"})
  /\ LET s == req[r].s IN
       /\ ses' = [ses EXCEPT ![s].status = "active", ![s].max = req[r].n]
       /\ elapsed' = [elapsed EXCEPT ![s] = 0]
       /\ longest' = [longest EXCEPT ![s] = IF @ < req[r].n THEN req[r].n ELSE @]
       /\ timer' = [timer EXCEPT ![s].join = FALSE]
  /\ Goto(r, "saved")
  /\ UNCHANGED <<replied, old, busy, faults, shut, money>>

\* The gateway starts its ticker.
StartTicker(r) ==
  /\ At(r, "saved", {"start"})
  /\ timer' = [timer EXCEPT ![req[r].s].ticker = req[r].n]
  /\ Finish(r)
  /\ UNCHANGED <<stored, busy, faults, longest, shut, money>>

\* The astrologer writes: in an active chat, or just after its end.
Reply(s) ==
  /\ ses[s].status \in {"active", "ended"} /\ ~replied[s]
  /\ replied' = [replied EXCEPT ![s] = TRUE]
  /\ UNCHANGED <<ses, elapsed, old, timer, busy, req, faults, longest, shut, money>>

\* A recharge extends the user's active chat to what the wallet now pays.
Recharge(u, n) ==
  /\ balance[u] + n <= MaxBalance
  /\ balance' = [balance EXCEPT ![u] = @ + n]
  /\ topUp' = [topUp EXCEPT ![u] = TRUE]
  /\ UNCHANGED <<stored, timer, busy, req, faults, longest, shut, charged, revenue, platform>>

ExtendBegin(r, s) ==
  /\ topUp[UserOf[s]] /\ ses[s].status = "active" /\ req[r].pc = "idle"
  /\ topUp' = [topUp EXCEPT ![UserOf[s]] = FALSE]
  /\ IF Affordable(UserOf[s]) > ses[s].max
     THEN Start(r, "extend", s, "read", Affordable(UserOf[s]), NoSession)
     ELSE UNCHANGED req
  /\ UNCHANGED <<stored, timer, busy, faults, longest, shut,
                 balance, charged, revenue, platform>>

\* The auto-end timer counts the whole new limit from now.
ExtendSave(r) ==
  /\ At(r, "read", {"extend"})
  /\ LET s == req[r].s  n == req[r].n IN
       /\ ses' = [ses EXCEPT ![s].max = n]
       /\ longest' = [longest EXCEPT ![s] = IF @ < n THEN n ELSE @]
       /\ timer' = [timer EXCEPT ![s].request = FALSE, ![s].autoEnd = elapsed[s] + n,
                                 ![s].ticker = IF @ >= 0 THEN n ELSE @]
       /\ busy' = [busy EXCEPT ![AstrologerOf[s]] = TRUE]
  /\ Finish(r)
  /\ UNCHANGED <<elapsed, replied, old, faults, shut, money>>

(* The end, and the bill. *)

\* endSession reads the session, and goes on unless it has ended; n = -1: not
\* active, no bill.
EndBegin(r, s) ==
  /\ ses[s].status \in (Live \cup Closed) \ {"ended"}
  /\ LET n == IF ses[s].status = "active" THEN Bill(s) ELSE -1
     IN Start(r, "end", s, IF n > 0 THEN "priced" ELSE "closing", n, ses[s])
  /\ UNCHANGED <<stored, busy, faults, longest, shut, money>>

\* It clears the service's timers before it waits for anything.
ClearTimers(s) == timer' = [timer EXCEPT ![s] = [NoRequestTimer(@) EXCEPT !.join = FALSE]]

\* end_chat, the REST route, an admin, or the cron that finds no message for
\* two minutes.
EndByRequest(r, s) == EndBegin(r, s) /\ ClearTimers(s)

\* The gateway's ticker or the service's timer reaches its limit.
EndByTicker(r, s) ==
  /\ timer[s].ticker >= 0 /\ elapsed[s] >= timer[s].ticker
  /\ EndBegin(r, s)
  /\ timer' = [timer EXCEPT ![s] = NoTimers]

EndByTimer(r, s) ==
  /\ timer[s].autoEnd >= 0 /\ elapsed[s] >= timer[s].autoEnd
  /\ EndBegin(r, s) /\ ClearTimers(s)

\* Fault: the cron trusts the ticker.
SweepWithTicker(r, s) ==
  /\ ses[s].status = "active" /\ elapsed[s] > ses[s].max + 15 /\ timer[s].ticker >= 0
  /\ EndBegin(r, s) /\ ClearTimers(s)
\* handleStaleSessions: active chats 15 seconds over their limit.
Sweep(r, s) ==
  /\ ses[s].status = "active" /\ elapsed[s] > ses[s].max + 15
  /\ EndBegin(r, s) /\ ClearTimers(s)

\* Fault: the balance is not looked at.
PayBlind(r) ==
  /\ At(r, "priced", {"end"})
  /\ balance' = [balance EXCEPT ![UserOf[req[r].s]] = @ - req[r].n]
  /\ charged' = [charged EXCEPT ![req[r].s] = @ + req[r].n]
  /\ Goto(r, "paid")
  /\ UNCHANGED <<stored, timer, busy, faults, longest, shut, topUp, revenue, platform>>
\* processSessionPayment; it may also fail on a write conflict.
Pay(r) ==
  /\ At(r, "priced", {"end"}) /\ balance[UserOf[req[r].s]] >= req[r].n
  /\ balance' = [balance EXCEPT ![UserOf[req[r].s]] = @ - req[r].n]
  /\ charged' = [charged EXCEPT ![req[r].s] = @ + req[r].n]
  /\ Goto(r, "paid")
  /\ UNCHANGED <<stored, timer, busy, faults, longest, shut, topUp, revenue, platform>>

\* updateEarnings with half of the bill as commission.
Earn(a, n) ==
  /\ revenue' = [revenue EXCEPT ![a] = @ + n]
  /\ platform' = [platform EXCEPT ![a] = @ + n \div 2]

Credit(r) ==
  /\ At(r, "paid", {"end"})
  /\ Earn(AstrologerOf[req[r].s], req[r].n)
  /\ req' = [req EXCEPT ![r].pc = "closing", ![r].ok = TRUE]
  /\ UNCHANGED <<stored, timer, busy, faults, longest, shut, balance, topUp, charged>>

\* Fault: isPaid is set although the payment failed.
UnpaidMarked(r) ==
  /\ req[r].pc \in {"priced", "paid"}
  /\ req' = [req EXCEPT ![r].pc = "closing", ![r].ok = TRUE]
  /\ UNCHANGED <<stored, timer, busy, faults, longest, shut, money>>
\* Payment or credit failed: the session is ended all the same, unpaid.
Unpaid(r) ==
  /\ req[r].pc \in {"priced", "paid"}
  /\ Goto(r, "closing")
  /\ UNCHANGED <<stored, timer, busy, faults, longest, shut, money>>

\* Fault: the status is not saved.
EndSaveOpen(r) ==
  /\ At(r, "closing", {"end"})
  /\ ses' = [ses EXCEPT ![req[r].s].total = IF req[r].n < 0 THEN @ ELSE req[r].n]
  /\ Goto(r, "ended")
  /\ UNCHANGED <<elapsed, replied, old, timer, busy, faults, longest, shut, money>>
\* save() writes a field only if it differs from what was read.
EndSave(r) ==
  /\ At(r, "closing", {"end"})
  /\ LET s == req[r].s  n == req[r].n  seen == req[r].seen IN
       ses' = [ses EXCEPT
         ![s].status = "ended",
         ![s].total = IF n < 0 \/ n = seen.total THEN @ ELSE n,
         ![s].paid = IF n <= 0 \/ req[r].ok = seen.paid THEN @ ELSE req[r].ok]
  /\ Goto(r, "ended")
  /\ UNCHANGED <<elapsed, replied, old, timer, busy, faults, longest, shut, money>>

\* setAvailable, then completeSession: a bill, paid or not, is booked in the
\* order, and earned once more while platformCommission, read as a
\* percentage, is below 100.
CompleteSession(r) ==
  /\ At(r, "ended", {"end"})
  /\ LET a == AstrologerOf[req[r].s]  n == req[r].n IN
       /\ busy' = [busy EXCEPT ![a] = FALSE]
       /\ IF n > 0 /\ platform[a] < 100 THEN Earn(a, n) ELSE UNCHANGED <<revenue, platform>>
  /\ Finish(r)
  /\ UNCHANGED <<stored, timer, faults, longest, shut, balance, topUp, charged>>

(* Time, other spending, and failures. *)
Wait(s) ==
  /\ ses[s].status = "active"
  /\ \E m \in Moments : m > elapsed[s] /\ elapsed' = [elapsed EXCEPT ![s] = m]
  /\ UNCHANGED <<ses, replied, old, timer, busy, req, faults, longest, shut, money>>

\* Five minutes after the request its timers have fired or were lost.
Ages(s) ==
  /\ ses[s].status \in Pending /\ ~old[s] /\ ~timer[s].request /\ ~timer[s].join
  /\ old' = [old EXCEPT ![s] = TRUE]
  /\ UNCHANGED <<ses, elapsed, replied, timer, busy, req, faults, longest, shut, money>>

\* busyUntil passes, or the astrologer toggles the online switch.
BusyLapses(a) ==
  /\ busy[a]
  /\ busy' = [busy EXCEPT ![a] = FALSE]
  /\ UNCHANGED <<stored, timer, req, faults, longest, shut, money>>

\* A gift, another session, a refund.
Spend(u, n) ==
  /\ n <= balance[u]
  /\ balance' = [balance EXCEPT ![u] = @ - n]
  /\ UNCHANGED <<stored, timer, busy, req, faults, longest, shut,
                 topUp, charged, revenue, platform>>

\* A database error outside the payment's try ends the handler.
HandlerFails(r) ==
  /\ req[r].pc \notin {"idle", "priced", "paid"} /\ faults < MaxFaults
  /\ faults' = faults + 1 /\ Finish(r)
  /\ UNCHANGED <<stored, timer, busy, longest, shut, money>>

\* The process stops: what is in memory is lost.
Restart ==
  /\ faults < MaxFaults /\ faults' = faults + 1
  /\ req' = [r \in Requests |-> Idle] /\ timer' = [s \in Sessions |-> NoTimers]
  /\ topUp' = [u \in Users |-> FALSE]
  /\ UNCHANGED <<stored, busy, longest, shut, balance, charged, revenue, platform>>

----------------
Begins(r, s) ==
  \/ InitiateBegin(r, s) \/ ContinueBegin(r, s) \/ AcceptBegin(r, s)
  \/ RejectOrCancelBegin(r, s) \/ RequestTimeout(r, s) \/ JoinTimeout(r, s)
  \/ StartBegin(r, s) \/ ExtendBegin(r, s)
  \/ EndByRequest(r, s) \/ EndByTicker(r, s) \/ EndByTimer(r, s)

Continues(r) ==
  \/ InitiateSave(r) \/ AcceptSave(r) \/ HoldAstrologer(r)
  \/ CloseSave(r) \/ FreeAstrologer(r)
  \/ StartSave(r) \/ StartTicker(r) \/ ExtendSave(r)
  \/ Pay(r) \/ Credit(r) \/ Unpaid(r) \/ EndSave(r) \/ CompleteSession(r)

Next ==
  \/ \E r \in Requests, s \in Sessions : Begins(r, s) \/ HungBegin(r, s) \/ Sweep(r, s)
  \/ \E r \in Requests : Continues(r) \/ HandlerFails(r)
  \/ \E s \in Sessions : JoinSession(s) \/ Reply(s) \/ Wait(s) \/ Ages(s)
  \/ \E a \in Astrologers : BusyLapses(a)
  \/ \E u \in Users : \/ \E n \in Recharges : Recharge(u, n)
                      \/ \E n \in Spends : Spend(u, n)
  \/ Restart

Spec == Init /\ [][Next]_vars

\* A handler goes on, time passes, the request timer fires, and each cron,
\* which runs every minute, gets to every session it finds again and again.
FairSpec ==
  /\ Spec
  /\ \A r \in Requests : WF_vars(Continues(r))
  /\ \A s \in Sessions :
       /\ WF_vars(Wait(s)) /\ WF_vars(Ages(s))
       /\ SF_vars(\E r \in Requests : RequestTimeout(r, s))
       /\ SF_vars(\E r \in Requests : JoinTimeout(r, s))
       /\ SF_vars(\E r \in Requests : HungBegin(r, s))
       /\ SF_vars(\E r \in Requests : Sweep(r, s))

----------------
Statuses == Live \cup Closed \cup {"none"}
Documents == [status : Statuses, max : Nat, total : Nat, paid : BOOLEAN]
Timers == [request : BOOLEAN, join : BOOLEAN, autoEnd : Nat \cup {-1}, ticker : Nat \cup {-1}]
Places == {"read", "saved", "freed", "priced", "paid", "closing", "ended"}
Handlers == [pc : Places, kind : Kinds, s : Sessions, n : Nat \cup {-1}, ok : BOOLEAN,
             seen : Documents]

TypeOK ==
  /\ ses \in [Sessions -> Documents] /\ elapsed \in [Sessions -> Moments \cup {0}]
  /\ replied \in [Sessions -> BOOLEAN] /\ old \in [Sessions -> BOOLEAN]
  /\ timer \in [Sessions -> Timers] /\ busy \in [Astrologers -> BOOLEAN]
  /\ balance \in [Users -> Nat] /\ topUp \in [Users -> BOOLEAN]
  /\ req \in [Requests -> Handlers \cup {Idle}]
  /\ faults \in 0..MaxFaults
  /\ charged \in [Sessions -> Nat] /\ longest \in [Sessions -> Nat]
  /\ shut \in [Sessions -> BOOLEAN]
  /\ revenue \in [Astrologers -> Nat] /\ platform \in [Astrologers -> Nat]

\* Whatever handlers meet, no money is taken for a chat in which the
\* astrologer never wrote (endSession's "AUTOMATIC REFUND CHECK").
SilentIsFree == \A s \in Sessions : charged[s] > 0 => replied[s]

\* A session that says it is paid was paid: isPaid survives no failed
\* payment, though saves of two endings may overwrite each other's fields.
PaidWasCharged == \A s \in Sessions : ses[s].paid => charged[s] > 0

\* One payment never exceeds the price of the longest time the session was
\* given, however late it is ended.
BillWithinLimit ==
  [][\A s \in Sessions : (charged'[s] - charged[s]) * 60 <= Rate * longest[s]]_vars

\* endSession caps the duration "to prevent overcharging": all that is paid
\* for a session is the price of the minutes used within the limit.
NeverOvercharged ==
  \A s \in Sessions : charged[s] <= Rate * Minutes(Lesser(elapsed[s], longest[s]))

\* A user told that the request was rejected, timed out or cancelled and that
\* "No amount has been charged" is not charged for it afterwards.
ChargeOpen == \A s \in Sessions : charged'[s] > charged[s] => ~shut[s]
ClosedStaysFree == [][ChargeOpen]_vars

\* "One User at a Time": an astrologer has open requests and chats with one
\* user only.
OneUserAtATime ==
  \A s, t \in Sessions :
    ses[s].status \in Live /\ ses[t].status \in Live /\ AstrologerOf[s] = AstrologerOf[t]
      => UserOf[s] = UserOf[t]

\* "PREVENT DOUBLE CHATS": a user has one open request or chat.
OneChatPerUser ==
  \A s, t \in Sessions :
    ses[s].status \in Live /\ ses[t].status \in Live /\ UserOf[s] = UserOf[t] => s = t

\* earnings.totalEarned is the "Total revenue generated": no more than users
\* paid the astrologer for.
RevenueWasCharged ==
  \A a \in Astrologers :
    revenue[a] <= MapThenSumSet(LAMBDA s : charged[s],
                                {s \in Sessions : AstrologerOf[s] = a})

\* A chat ends by itself, although a restart loses every timer.
ActiveEnds == \A s \in Sessions : ses[s].status = "active" ~> ses[s].status # "active"

\* A request does not stay open: it is answered, or given up for the user.
PendingSettles ==
  \A s \in Sessions : ses[s].status \in Pending ~> ses[s].status \notin Pending
================
