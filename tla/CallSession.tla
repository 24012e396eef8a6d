-------- MODULE CallSession --------
(***************************************************************************)
(* A paid call with a human astrologer from request to bill.  It differs   *)
(* from a chat where it matters most: endSession takes the session with    *)
(* one findOneAndUpdate that lets a single handler through, the gateway    *)
(* keeps a set of calls it is ending and its own count of seconds, and the *)
(* call opened when both sides have joined the Agora channel.              *)
(*                                                                         *)
(* As in ChatSession a handler holds a request slot with what it has read, *)
(* and its steps are its writes.  The astrologer's availability, which     *)
(* the handlers set as a chat's do, is left to ChatSession.                *)
(***************************************************************************)
EXTENDS Integers, FiniteSets

CONSTANTS
  Users, Sessions, Requests,
  UserOf,      \* function of the session
  Continued,   \* sessions made by continueCall: they get no request timer
  Rate,        \* ratePerMinute
  Opening,     \* balance of a user at first
  Recharges, Spends, MaxBalance,
  Moments,     \* the seconds of a call that are looked at
  MaxFaults    \* bound on reopened and failing handlers

ASSUME CallAssumption ==
  /\ UserOf \in [Sessions -> Users] /\ Continued \subseteq Sessions
  /\ Rate \in Nat \ {0} /\ Opening \in Nat /\ MaxBalance \in Nat
  /\ Recharges \subseteq Nat \ {0} /\ Spends \subseteq Nat \ {0}
  /\ Moments \subseteq Nat /\ MaxFaults \in Nat /\ IsFiniteSet(Requests)

VARIABLES
  ses,      \* ses[s]: the session document
  joined,   \* joined[s]: who has joined the Agora channel, as stored
  elapsed,  \* elapsed[s]: seconds since startTime
  old,      \* old[s]: requested more than five minutes ago
  timer,    \* timer[s]: what is armed for s in memory
  ending,   \* processingEndCall: the calls the gateway is ending
  balance,  \* balance[u]
  topUp,    \* topUp[u]: a recharge is about to extend the user's call
  req,      \* req[r]: the handler in slot r
  faults,
  charged,  \* charged[s]: paid from the user's wallet for s
  opened,   \* opened[s]: how often s became an open session (history)
  bills,    \* bills[s]: how many payments were taken for s (history)
  booked    \* booked[s]: added to the order's totalAmount for s

stored == <<ses, joined, elapsed, old>>
money == <<balance, topUp, charged, bills, booked>>
vars == <<stored, timer, ending, req, faults, opened, money>>

----------------
Pending == {"initiated", "waiting"}
Over == {"none", "ended", "cancelled"}   \* what endSession does not take
Statuses == Pending \cup Over \cup {"active", "rejected"}
Roles == {"user", "astrologer"}

\* begun: startTime is set.
NoSession == [status |-> "none", begun |-> FALSE, max |-> 0, paid |-> FALSE]
\* ticker: its limit, -1 if there is none; ticks: its secondsElapsed.
NoTimers == [request |-> FALSE, join |-> FALSE, autoEnd |-> -1, ticker |-> -1, ticks |-> 0]
Idle == [pc |-> "idle"]

Target == [reject |-> "rejected", cancel |-> "cancelled", timeout |-> "cancelled",
           hung |-> "cancelled"]
Kinds == {"accept", "join", "extend", "endCall", "end"} \cup DOMAIN Target

Begin(r, kind, s, pc, n, seen) ==
  /\ req[r].pc = "idle"
  /\ req' = [req EXCEPT ![r] = [pc |-> pc, kind |-> kind, s |-> s,
                                n |-> n, ok |-> FALSE, seen |-> seen]]
At(r, pc, kinds) == req[r].pc = pc /\ req[r].kind \in kinds
Goto(r, pc) == req' = [req EXCEPT ![r].pc = pc]
Finish(r) == req' = [req EXCEPT ![r] = Idle]
Reopens(s, status) ==
  opened' = [opened EXCEPT ![s] = IF ses[s].status \in Over /\ status \notin Over
                                  THEN @ + 1 ELSE @]
SaveStatus(s, status) == ses' = [ses EXCEPT ![s].status = status] /\ Reopens(s, status)

\* sessionTimers of the service holds the request or the auto-end timer.
NoServiceTimer(t) == [t EXCEPT !.request = FALSE, !.autoEnd = -1]
NoTicker(t) == [t EXCEPT !.ticker = -1, !.ticks = 0]

Lesser(a, b) == IF a < b THEN a ELSE b
Greater(a, b) == IF a < b THEN b ELSE a
Minutes(seconds) == (seconds + 59) \div 60   \* minutes begun
Affordable(u) == (balance[u] \div Rate) * 60

\* Fault: a call is billed beyond its limit.
PriceUncapped(seconds, max) == Rate * Greater(1, Minutes(seconds))
\* A connected call costs at least a minute and never more than its limit.
Price(seconds, max) == Rate * Greater(1, Minutes(Greater(1, Lesser(seconds, max))))

----------------
Init ==
  /\ ses = [s \in Sessions |-> NoSession]
  /\ joined = [s \in Sessions |-> {}]
  /\ elapsed = [s \in Sessions |-> 0] /\ old = [s \in Sessions |-> FALSE]
  /\ timer = [s \in Sessions |-> NoTimers] /\ ending = {}
  /\ balance = [u \in Users |-> Opening] /\ topUp = [u \in Users |-> FALSE]
  /\ req = [r \in Requests |-> Idle] /\ faults = 0
  /\ charged = [s \in Sessions |-> 0] /\ opened = [s \in Sessions |-> 0]
  /\ bills = [s \in Sessions |-> 0] /\ booked = [s \in Sessions |-> 0]

(* A request. *)

\* initiateCall and continueCall, with a wallet for five minutes.
InitiateCall(s) ==
  /\ ses[s].status = "none" /\ balance[UserOf[s]] >= 5 * Rate
  /\ SaveStatus(s, "initiated")
  /\ timer' = [timer EXCEPT ![s].request = s \notin Continued]
  /\ UNCHANGED <<joined, elapsed, old, ending, req, faults, money>>

AcceptBegin(r, s) ==
  /\ ses[s].status = "initiated"
  /\ Begin(r, "accept", s, "read", 0, {})
  /\ timer' = [timer EXCEPT ![s] = NoServiceTimer(@)]
  /\ UNCHANGED <<stored, ending, faults, opened, money>>

AcceptSave(r) ==
  /\ At(r, "read", {"accept"})
  /\ SaveStatus(req[r].s, "waiting") /\ Goto(r, "saved")
  /\ UNCHANGED <<joined, elapsed, old, timer, ending, faults, money>>

\* The user has 60 seconds to join.
AcceptTimer(r) ==
  /\ At(r, "saved", {"accept"})
  /\ timer' = [timer EXCEPT ![req[r].s].join = TRUE]
  /\ Finish(r)
  /\ UNCHANGED <<stored, ending, faults, opened, money>>

CloseBegin(r, s, kind) ==
  /\ ses[s].status \in Pending
  /\ Begin(r, kind, s, "read", 0, {})
  /\ UNCHANGED <<stored, ending, faults, opened, money>>

\* Only rejectCall clears the service's timer.
RejectBegin(r, s) ==
  /\ CloseBegin(r, s, "reject")
  /\ timer' = [timer EXCEPT ![s] = NoServiceTimer(@)]

CancelBegin(r, s) == CloseBegin(r, s, "cancel") /\ UNCHANGED timer

RequestTimeout(r, s) ==
  /\ timer[s].request
  /\ timer' = [timer EXCEPT ![s].request = FALSE]
  /\ IF ses[s].status \in Pending THEN CloseBegin(r, s, "timeout")
     ELSE UNCHANGED <<stored, ending, req, faults, opened, money>>

\* Fault: the cron looks for unanswered requests only.
HungBeginInitiated(r, s) ==
  /\ old[s] /\ ses[s].status = "initiated"
  /\ CloseBegin(r, s, "hung") /\ UNCHANGED timer
\* cleanupCalls, requests older than five minutes.
HungBegin(r, s) ==
  /\ old[s]
  /\ CloseBegin(r, s, "hung") /\ UNCHANGED timer

CloseSave(r) ==
  /\ At(r, "read", DOMAIN Target)
  /\ SaveStatus(req[r].s, Target[req[r].kind]) /\ Finish(r)
  /\ UNCHANGED <<joined, elapsed, old, timer, ending, faults, money>>

(* The call. *)

\* user_joined_agora, sent on each joining: "seen" is who has joined, as far
\* as the session that was read tells; n = 1 if it was active already.
JoinBegin(r, s, role) ==
  /\ ses[s].status \in {"waiting", "active"}
  /\ Begin(r, "join", s, "read", IF ses[s].status = "active" THEN 1 ELSE 0,
           joined[s] \cup {role})
  /\ UNCHANGED <<stored, timer, ending, faults, opened, money>>

\* save() writes the flag this handler set.
JoinSave(r) ==
  /\ At(r, "read", {"join"})
  /\ joined' = [joined EXCEPT ![req[r].s] = @ \cup req[r].seen]
  /\ IF req[r].seen = Roles /\ req[r].n = 0 THEN Goto(r, "joined") ELSE Finish(r)
  /\ UNCHANGED <<ses, elapsed, old, timer, ending, faults, opened, money>>

\* startCallInternal reads the session again.  A call that became active
\* gets a ticker if it has none; else the limit is what the wallet pays.
StartBegin(r) ==
  /\ At(r, "joined", {"join"})
  /\ LET s == req[r].s IN
       /\ IF ses[s].status = "waiting" /\ Affordable(UserOf[s]) >= 60
          THEN req' = [req EXCEPT ![r].pc = "starting", ![r].n = Affordable(UserOf[s])]
          ELSE Finish(r)
       /\ timer' = IF ses[s].status = "active" /\ timer[s].ticker < 0
                   THEN [timer EXCEPT ![s].ticker = ses[s].max, ![s].ticks = 0] ELSE timer
  /\ UNCHANGED <<stored, ending, faults, opened, money>>

StartSave(r) ==
  /\ At(r, "starting", {"join"})
  /\ LET s == req[r].s IN
       /\ ses' = [ses EXCEPT ![s].status = "active", ![s].begun = TRUE, ![s].max = req[r].n]
       /\ elapsed' = [elapsed EXCEPT ![s] = 0]
       /\ Reopens(s, "active")
       /\ timer' = [timer EXCEPT ![s].join = FALSE]
  /\ Goto(r, "armed")
  /\ UNCHANGED <<joined, old, ending, faults, money>>

\* The service's auto-end timer and, once the recording runs, the ticker.
StartTimers(r) ==
  /\ At(r, "armed", {"join"})
  /\ timer' = [timer EXCEPT ![req[r].s].autoEnd = elapsed[req[r].s] + req[r].n,
                            ![req[r].s].ticker = req[r].n, ![req[r].s].ticks = 0]
  /\ Finish(r)
  /\ UNCHANGED <<stored, ending, faults, opened, money>>

Recharge(u, n) ==
  /\ balance[u] + n <= MaxBalance
  /\ balance' = [balance EXCEPT ![u] = @ + n] /\ topUp' = [topUp EXCEPT ![u] = TRUE]
  /\ UNCHANGED <<stored, timer, ending, req, faults, opened, charged, bills, booked>>

ExtendBegin(r, s) ==
  /\ topUp[UserOf[s]] /\ ses[s].status = "active" /\ req[r].pc = "idle"
  /\ topUp' = [topUp EXCEPT ![UserOf[s]] = FALSE]
  /\ IF Affordable(UserOf[s]) > ses[s].max
     THEN Begin(r, "extend", s, "read", Affordable(UserOf[s]), {})
     ELSE UNCHANGED req
  /\ UNCHANGED <<stored, timer, ending, faults, opened, balance, charged, bills, booked>>

ExtendSave(r) ==
  /\ At(r, "read", {"extend"})
  /\ LET s == req[r].s  n == req[r].n IN
       /\ ses' = [ses EXCEPT ![s].max = n]
       /\ timer' = [timer EXCEPT ![s].request = FALSE, ![s].autoEnd = elapsed[s] + n,
                                 ![s].ticker = IF @ >= 0 THEN n ELSE @]
  /\ Finish(r)
  /\ UNCHANGED <<joined, elapsed, old, ending, faults, opened, money>>

(* The end, and the bill. *)

\* Fault: a session that has ended is taken again.
EndableAgain(s) == ses[s].status \notin {"none", "cancelled"}
\* The filter of endSession's findOneAndUpdate.
Endable(s) == ses[s].status \notin Over

\* Fault: the status that was just set decides whether there is a bill.
LockStatus(r, kind, s, seconds) ==
  /\ req[r].pc = "idle" /\ SaveStatus(s, "ended")
  /\ IF ses[s].paid THEN UNCHANGED req ELSE Begin(r, kind, s, "closing", -1, {})
\* The findOneAndUpdate of an endable session sets its status.  What was paid
\* is left; a call that had begun gets a price; n = -1: no bill.
Lock(r, kind, s, seconds) ==
  /\ req[r].pc = "idle" /\ SaveStatus(s, "ended")
  /\ IF ses[s].paid THEN UNCHANGED req
     ELSE IF ses[s].begun THEN Begin(r, kind, s, "priced", Price(seconds, ses[s].max), {})
     ELSE Begin(r, kind, s, "closing", -1, {})

\* endCallInternal bills the seconds of the ticker, none if it has no ticker.
GatewayEnd(r, s) ==
  /\ s \notin ending
  /\ IF Endable(s)
     THEN /\ Lock(r, "endCall", s, timer[s].ticks)
          /\ ending' = IF ses[s].paid THEN ending ELSE ending \cup {s}
          /\ timer' = [timer EXCEPT ![s] = NoServiceTimer(NoTicker(@))]
     ELSE /\ timer' = [timer EXCEPT ![s] = NoTicker(@)]
          /\ UNCHANGED <<ses, opened, ending, req>>
  /\ UNCHANGED <<joined, elapsed, old, faults, money>>

\* REST, the admin and cleanupCalls go to the service, past the gateway: an
\* offline party, or more than a minute over the limit.
DirectEnd(r, s) ==
  /\ Endable(s)
  /\ Lock(r, "end", s, elapsed[s])
  /\ timer' = [timer EXCEPT ![s] = NoServiceTimer(@)]
  /\ UNCHANGED <<joined, elapsed, old, ending, faults, money>>

EndByTicker(r, s) == timer[s].ticker >= 0 /\ timer[s].ticks >= timer[s].ticker /\ GatewayEnd(r, s)
EndByTimer(r, s) == timer[s].autoEnd >= 0 /\ elapsed[s] >= timer[s].autoEnd /\ GatewayEnd(r, s)

\* Fault: the cron relies on the ticker.
SweepWithTicker(r, s) ==
  /\ ses[s].status = "active" /\ elapsed[s] > ses[s].max + 15 /\ timer[s].ticker >= 0
  /\ GatewayEnd(r, s)
\* handleStaleSessions, 15 seconds after the limit.
Sweep(r, s) ==
  /\ ses[s].status = "active" /\ elapsed[s] > ses[s].max + 15
  /\ GatewayEnd(r, s)

\* The user did not join within 60 seconds.
JoinTimeout(r, s) ==
  /\ timer[s].join
  /\ IF ses[s].status = "waiting" /\ s \notin ending
     THEN /\ Lock(r, "endCall", s, timer[s].ticks)
          /\ ending' = IF ses[s].paid THEN ending ELSE ending \cup {s}
          /\ timer' = [timer EXCEPT ![s] = [NoServiceTimer(NoTicker(@)) EXCEPT !.join = FALSE]]
     ELSE /\ timer' = [timer EXCEPT ![s].join = FALSE]
          /\ UNCHANGED <<ses, opened, ending, req>>
  /\ UNCHANGED <<joined, elapsed, old, faults, money>>

\* Fault: the wallet is debited whatever it holds.
PayBlind(r) ==
  /\ At(r, "priced", {"end", "endCall"})
  /\ balance' = [balance EXCEPT ![UserOf[req[r].s]] = @ - req[r].n]
  /\ charged' = [charged EXCEPT ![req[r].s] = @ + req[r].n]
  /\ bills' = [bills EXCEPT ![req[r].s] = @ + 1]
  /\ Goto(r, "paid")
  /\ UNCHANGED <<stored, timer, ending, faults, opened, topUp, booked>>
\* processSessionPayment.
Pay(r) ==
  /\ At(r, "priced", {"end", "endCall"}) /\ balance[UserOf[req[r].s]] >= req[r].n
  /\ balance' = [balance EXCEPT ![UserOf[req[r].s]] = @ - req[r].n]
  /\ charged' = [charged EXCEPT ![req[r].s] = @ + req[r].n]
  /\ bills' = [bills EXCEPT ![req[r].s] = @ + 1]
  /\ Goto(r, "paid")
  /\ UNCHANGED <<stored, timer, ending, faults, opened, topUp, booked>>

\* updateEarnings.
Credit(r) ==
  /\ At(r, "paid", {"end", "endCall"})
  /\ req' = [req EXCEPT ![r].pc = "closing", ![r].ok = TRUE]
  /\ UNCHANGED <<stored, timer, ending, faults, opened, money>>

\* Fault: isPaid is set although the payment failed.
UnpaidMarked(r) ==
  /\ req[r].pc \in {"priced", "paid"}
  /\ req' = [req EXCEPT ![r].pc = "closing", ![r].ok = TRUE]
  /\ UNCHANGED <<stored, timer, ending, faults, opened, money>>
\* Payment or credit failed; the call stays ended, unpaid.
Unpaid(r) ==
  /\ req[r].pc \in {"priced", "paid"}
  /\ Goto(r, "closing")
  /\ UNCHANGED <<stored, timer, ending, faults, opened, money>>

\* The bill is saved, the status was; the gateway lets go of the call.
EndSave(r) ==
  /\ At(r, "closing", {"end", "endCall"})
  /\ ses' = [ses EXCEPT ![req[r].s].paid = @ \/ req[r].ok]
  /\ ending' = IF req[r].kind = "endCall" THEN ending \ {req[r].s} ELSE ending
  /\ Goto(r, "ended")
  /\ UNCHANGED <<joined, elapsed, old, timer, faults, opened, money>>

\* completeSession books the bill, paid or not.
CompleteSession(r) ==
  /\ At(r, "ended", {"end", "endCall"})
  /\ booked' = [booked EXCEPT ![req[r].s] = IF req[r].n > 0 THEN @ + req[r].n ELSE @]
  /\ Finish(r)
  /\ UNCHANGED <<stored, timer, ending, faults, opened, balance, topUp, charged, bills>>

(* Time, other spending, and failures. *)

\* The ticker counts the seconds too.  Arming the timers takes no minute.
Wait(s) ==
  /\ ses[s].status = "active"
  /\ \A r \in Requests : At(r, "armed", {"join"}) => req[r].s # s
  /\ \E m \in Moments :
       /\ m > elapsed[s] /\ elapsed' = [elapsed EXCEPT ![s] = m]
       /\ timer' = [timer EXCEPT ![s].ticks =
                      IF timer[s].ticker >= 0 THEN @ + m - elapsed[s] ELSE @]
  /\ UNCHANGED <<ses, joined, old, ending, req, faults, opened, money>>

\* Five minutes after the request its timers have fired or were lost.
Ages(s) ==
  /\ ses[s].status \in Pending /\ ~old[s] /\ ~timer[s].request /\ ~timer[s].join
  /\ old' = [old EXCEPT ![s] = TRUE]
  /\ UNCHANGED <<ses, joined, elapsed, timer, ending, req, faults, opened, money>>

\* A gift, another session.
Spend(u, n) ==
  /\ n <= balance[u]
  /\ balance' = [balance EXCEPT ![u] = @ - n]
  /\ UNCHANGED <<stored, timer, ending, req, faults, opened, topUp, charged, bills, booked>>

\* Fault: the failing handler keeps the call to itself.
HandlerFailsKeeps(r) ==
  /\ req[r].pc \notin {"idle", "priced", "paid"} /\ faults < MaxFaults
  /\ faults' = faults + 1 /\ Finish(r)
  /\ UNCHANGED <<stored, timer, ending, opened, money>>
\* A database error outside the payment's try; "finally" lets go of the call.
HandlerFails(r) ==
  /\ req[r].pc \notin {"idle", "priced", "paid"} /\ faults < MaxFaults
  /\ faults' = faults + 1 /\ Finish(r)
  /\ ending' = IF At(r, "closing", {"endCall"}) THEN ending \ {req[r].s} ELSE ending
  /\ UNCHANGED <<stored, timer, opened, money>>

\* The process stops: what is in memory is lost.
Restart ==
  /\ faults < MaxFaults /\ faults' = faults + 1
  /\ req' = [r \in Requests |-> Idle] /\ timer' = [s \in Sessions |-> NoTimers]
  /\ ending' = {} /\ topUp' = [u \in Users |-> FALSE]
  /\ UNCHANGED <<stored, opened, balance, charged, bills, booked>>

----------------
Begins(r, s) ==
  \/ AcceptBegin(r, s) \/ RejectBegin(r, s) \/ CancelBegin(r, s) \/ RequestTimeout(r, s)
  \/ \E role \in Roles : JoinBegin(r, s, role)
  \/ JoinTimeout(r, s) \/ ExtendBegin(r, s)
  \/ GatewayEnd(r, s) \/ DirectEnd(r, s) \/ EndByTicker(r, s) \/ EndByTimer(r, s)

Continues(r) ==
  \/ AcceptSave(r) \/ AcceptTimer(r) \/ CloseSave(r)
  \/ JoinSave(r) \/ StartBegin(r) \/ StartSave(r) \/ StartTimers(r) \/ ExtendSave(r)
  \/ Pay(r) \/ Credit(r) \/ Unpaid(r) \/ EndSave(r) \/ CompleteSession(r)

Next ==
  \/ \E r \in Requests, s \in Sessions : Begins(r, s) \/ HungBegin(r, s) \/ Sweep(r, s)
  \/ \E r \in Requests : Continues(r) \/ HandlerFails(r)
  \/ \E s \in Sessions : InitiateCall(s) \/ Wait(s) \/ Ages(s)
  \/ \E u \in Users : \/ \E n \in Recharges : Recharge(u, n)
                      \/ \E n \in Spends : Spend(u, n)
  \/ Restart

Spec == Init /\ [][Next]_vars

----------------
Documents == [status : Statuses, begun : BOOLEAN, max : Nat, paid : BOOLEAN]
Timers == [request : BOOLEAN, join : BOOLEAN, autoEnd : Nat \cup {-1},
           ticker : Nat \cup {-1}, ticks : Nat]
Places == {"read", "saved", "joined", "starting", "armed", "priced", "paid", "closing", "ended"}
Handlers == [pc : Places, kind : Kinds, s : Sessions, n : Nat \cup {-1}, ok : BOOLEAN,
             seen : SUBSET Roles]

TypeOK ==
  /\ ses \in [Sessions -> Documents] /\ joined \in [Sessions -> SUBSET Roles]
  /\ elapsed \in [Sessions -> Moments \cup {0}] /\ old \in [Sessions -> BOOLEAN]
  /\ timer \in [Sessions -> Timers] /\ ending \in SUBSET Sessions
  /\ balance \in [Users -> Nat] /\ topUp \in [Users -> BOOLEAN]
  /\ req \in [Requests -> Handlers \cup {Idle}]
  /\ faults \in 0..MaxFaults
  /\ opened \in [Sessions -> Nat] /\ bills \in [Sessions -> Nat]
  /\ charged \in [Sessions -> Nat] /\ booked \in [Sessions -> Nat]

\* The atomic lock of endSession: however many handlers end a call, it is
\* billed at most once for each time it was open.
OneBillPerOpening == \A s \in Sessions : bills[s] <= opened[s]

\* A call that says it is paid was paid.
PaidWasCharged == \A s \in Sessions : ses[s].paid => charged[s] > 0

\* Every call the gateway is ending has exactly one handler that will let go
\* of it: processingEndCall never blocks a call for good.
Ends(r, s) == req[r].pc \in {"priced", "paid", "closing"} /\ req[r].kind = "endCall" /\ req[r].s = s
EndingIsHandled ==
  \A s \in ending : \E r \in Requests : Ends(r, s) /\ \A q \in Requests : Ends(q, s) => q = r

Handles(r, s) == req[r].pc # "idle" /\ req[r].s = s
InHand(s) == \E r \in Requests : Handles(r, s)

\* endSession sets the status before it computes the bill, and must not take
\* the status it set for one without a bill: a call that was connected and
\* has ended is booked once its handlers are through.
EndedIsBilled ==
  \A s \in Sessions :
    ses[s].status = "ended" /\ ses[s].begun /\ ~InHand(s) /\ faults = 0 => booked[s] > 0

\* endSession caps the duration "to prevent overcharging", and its lock is
\* there for one handler to bill: all that is paid for a call is the price of
\* its minutes within the limit, nothing if it was never connected.
NeverOvercharged ==
  \A s \in Sessions :
    charged[s] <= IF ses[s].begun
                  THEN Rate * Greater(1, Minutes(Lesser(elapsed[s], ses[s].max))) ELSE 0

\* user_joined_agora: a call whose two parties have joined, and which the user
\* can pay, is started, or a handler is still at it.
JoinedCallStarts ==
  \A s \in Sessions :
    joined[s] = Roles /\ ses[s].status = "waiting" /\ Affordable(UserOf[s]) >= 60 => InHand(s)
================
