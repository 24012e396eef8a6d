-------- MODULE Payouts --------
(***************************************************************************)
(* What one astrologer has earned, is fined and may withdraw.  The         *)
(* astrologer document keeps six running amounts, the payout requests are  *)
(* documents of their own, and no handler uses a transaction: a request    *)
(* saves the payout and then locks its amount, a completion saves the      *)
(* payout and then sets what it computed from the astrologer read before,  *)
(* a penalty and getPayoutStats recompute the amounts from what they read. *)
(*                                                                         *)
(* Each handler holds a slot with what it has read; its steps are its      *)
(* reads and writes.  No handler touches two astrologers, so the module    *)
(* keeps one.                                                              *)
(***************************************************************************)
EXTENDS Integers, FiniteSets, FiniteSetsExt

CONSTANTS
  Requests,   \* slots
  Ids,        \* payout requests
  Amounts,    \* what may be requested, at least the minimum
  Penalties,
  Fine,       \* function of the penalty
  Incomes,    \* bills and gifts: [gross, net]
  MaxEarned,  \* bound on totalEarned
  MaxTickets, \* bound on approvals by support ticket
  MaxFaults   \* bound on handlers cut short

VARIABLES
  earnings,  \* the astrologer's running amounts
  penalty,   \* penalty[x]: "none" before it is applied
  payout,    \* payout[p]: the payout request document
  req,       \* req[r]: the handler in slot r
  tickets,   \* tickets that approved a payout
  faults,
  torn,      \* a handler stopped between its two writes, or wrote over an
             \* earning it had not read, and no recount since (history)
  reopened   \* payouts a ticket approved when they were closed (history)

vars == <<earnings, penalty, payout, req, tickets, faults, torn, reopened>>

----------------
Open == {"pending", "approved", "processing"}
Closed == {"completed", "rejected"}

NoEarnings == [totalEarned |-> 0, netEarnings |-> 0, totalPenalties |-> 0,
               withdrawableAmount |-> 0, totalWithdrawn |-> 0, pendingWithdrawal |-> 0]
NoPayout == [status |-> "none", amount |-> 0]
Idle == [pc |-> "idle"]

\* What an administrator makes of a payout, and from which status.
From == [approve |-> {"pending"}, process |-> {"approved"},
         reject |-> {"pending", "approved"}, complete |-> Open]
To == [approve |-> "approved", process |-> "processing",
       reject |-> "rejected", complete |-> "completed"]

With(status) == {p \in Ids : payout[p].status \in status}
Total(status) ==
  SumFunctionOnSet([p \in Ids |-> IF p \in With(status) THEN payout[p].amount ELSE 0], Ids)
Applied(pen) ==
  SumFunctionOnSet([x \in Penalties |-> IF pen[x] = "applied" THEN Fine[x] ELSE 0], Penalties)

\* Withdrawable = Net Earnings - Penalties - Withdrawn - Pending, not below 0.
Left(e) == Max({0, e.netEarnings - e.totalPenalties - e.totalWithdrawn - e.pendingWithdrawal})

\* The platform's share is half.
CommissionRate == 50
Net(gross) == gross - (gross * CommissionRate) \div 100

Start(r, pc, kind, item, n) ==
  /\ req[r].pc = "idle"
  /\ req' = [req EXCEPT ![r] = [pc |-> pc, kind |-> kind, item |-> item, n |-> n,
                                seen |-> earnings, pen |-> penalty]]
At(r, pc, kinds) == req[r].pc = pc /\ req[r].kind \in kinds
Goto(r, pc) == req' = [req EXCEPT ![r].pc = pc]
Finish(r) == req' = [req EXCEPT ![r] = Idle]

\* Something was earned since handler r read the astrologer.
Missed(r) == earnings.totalEarned # req[r].seen.totalEarned

----------------
Init ==
  /\ earnings = NoEarnings
  /\ penalty = [x \in Penalties |-> "none"]
  /\ payout = [p \in Ids |-> NoPayout]
  /\ req = [r \in Requests |-> Idle]
  /\ tickets = 0 /\ faults = 0 /\ torn = FALSE /\ reopened = {}

\* updateEarnings and recordGiftEarning: one $inc.
UpdateEarnings(i) ==
  /\ earnings.totalEarned + i.gross <= MaxEarned
  /\ earnings' = [earnings EXCEPT !.totalEarned = @ + i.gross, !.netEarnings = @ + i.net,
                                  !.withdrawableAmount = @ + i.net]
  /\ UNCHANGED <<penalty, payout, req, tickets, faults, torn, reopened>>

(* requestPayout. *)

\* Fault: the balance is not looked at.
RequestBeginUnchecked(r, p, a) ==
  /\ payout[p].status = "none" /\ \A q \in Requests : ~(req[q].pc # "idle" /\ req[q].item = p)
  /\ Start(r, "read", "request", p, a)
  /\ UNCHANGED <<earnings, penalty, payout, tickets, faults, torn, reopened>>
\* The astrologer is read; what cannot be withdrawn is refused.
RequestBegin(r, p, a) ==
  /\ payout[p].status = "none" /\ \A q \in Requests : ~(req[q].pc # "idle" /\ req[q].item = p)
  /\ a <= earnings.withdrawableAmount
  /\ Start(r, "read", "request", p, a)
  /\ UNCHANGED <<earnings, penalty, payout, tickets, faults, torn, reopened>>

\* Fault: what was paid already is forgotten.
CapCheckForgetful(r) ==
  /\ At(r, "read", {"request"})
  /\ IF 2 * req[r].n <= req[r].seen.totalEarned THEN Goto(r, "capped") ELSE Finish(r)
  /\ UNCHANGED <<earnings, penalty, payout, tickets, faults, torn, reopened>>
\* The 50% rule: half of what was earned, less what was paid.
CapCheck(r) ==
  /\ At(r, "read", {"request"})
  /\ IF 2 * (Total({"completed"}) + req[r].n) <= req[r].seen.totalEarned
     THEN Goto(r, "capped") ELSE Finish(r)
  /\ UNCHANGED <<earnings, penalty, payout, tickets, faults, torn, reopened>>

\* Fault: an approved or processing payout is not looked for.
OpenCheckPending(r) ==
  /\ At(r, "capped", {"request"})
  /\ IF With({"pending"}) = {} THEN Goto(r, "clear") ELSE Finish(r)
  /\ UNCHANGED <<earnings, penalty, payout, tickets, faults, torn, reopened>>
\* No other request may be open.
OpenCheck(r) ==
  /\ At(r, "capped", {"request"})
  /\ IF With(Open) = {} THEN Goto(r, "clear") ELSE Finish(r)
  /\ UNCHANGED <<earnings, penalty, payout, tickets, faults, torn, reopened>>

RequestSave(r) ==
  /\ At(r, "clear", {"request"})
  /\ payout' = [payout EXCEPT ![req[r].item] = [status |-> "pending", amount |-> req[r].n]]
  /\ Goto(r, "saved")
  /\ UNCHANGED <<earnings, penalty, tickets, faults, torn, reopened>>

LockAmount(r) ==
  /\ At(r, "saved", {"request"})
  /\ earnings' = [earnings EXCEPT !.pendingWithdrawal = @ + req[r].n,
                                  !.withdrawableAmount = @ - req[r].n]
  /\ Finish(r)
  /\ UNCHANGED <<penalty, payout, tickets, faults, torn, reopened>>

(* approvePayout, processPayout, rejectPayout, completePayout. *)
HandleBegin(r, p) ==
  /\ \E kind \in DOMAIN From :
       /\ payout[p].status \in From[kind]
       /\ Start(r, IF kind = "complete" THEN "found" ELSE "read", kind, p, payout[p].amount)
  /\ UNCHANGED <<earnings, penalty, payout, tickets, faults, torn, reopened>>

\* completePayout reads the astrologer: the amount must be locked, or, for a
\* request that was not locked properly, be there at all.
CompleteCheck(r) ==
  /\ At(r, "found", {"complete"})
  /\ req' = [req EXCEPT ![r] =
       IF earnings.pendingWithdrawal >= @.n
          \/ earnings.pendingWithdrawal + earnings.withdrawableAmount >= @.n
       THEN [@ EXCEPT !.pc = "read", !.seen = earnings] ELSE Idle]
  /\ UNCHANGED <<earnings, penalty, payout, tickets, faults, torn, reopened>>

HandleSave(r) ==
  /\ At(r, "read", DOMAIN To)
  /\ payout' = [payout EXCEPT ![req[r].item].status = To[req[r].kind]]
  /\ IF req[r].kind \in {"reject", "complete"} THEN Goto(r, "saved") ELSE Finish(r)
  /\ UNCHANGED <<earnings, penalty, tickets, faults, torn, reopened>>

ReleaseAmount(r) ==
  /\ At(r, "saved", {"reject"})
  /\ earnings' = [earnings EXCEPT !.pendingWithdrawal = @ - req[r].n,
                                  !.withdrawableAmount = @ + req[r].n]
  /\ Finish(r)
  /\ UNCHANGED <<penalty, payout, tickets, faults, torn, reopened>>

\* Fault: the locked amount is deducted once more.
DeductTwice(r) ==
  /\ At(r, "saved", {"complete"})
  /\ LET e == req[r].seen IN
       earnings' = [earnings EXCEPT
         !.totalWithdrawn = e.totalWithdrawn + req[r].n,
         !.pendingWithdrawal = Max({0, e.pendingWithdrawal - req[r].n}),
         !.withdrawableAmount = Max({0, e.withdrawableAmount - req[r].n})]
  /\ torn' = (torn \/ Missed(r))
  /\ Finish(r)
  /\ UNCHANGED <<penalty, payout, tickets, faults, reopened>>
\* A $set of what was read, the withdrawable amount as it was included.
Deduct(r) ==
  /\ At(r, "saved", {"complete"})
  /\ LET e == req[r].seen IN
       earnings' = [earnings EXCEPT
         !.totalWithdrawn = e.totalWithdrawn + req[r].n,
         !.pendingWithdrawal = Max({0, e.pendingWithdrawal - req[r].n}),
         !.withdrawableAmount = e.withdrawableAmount]
  /\ torn' = (torn \/ Missed(r))
  /\ Finish(r)
  /\ UNCHANGED <<penalty, payout, tickets, faults, reopened>>

\* A support ticket approves its payout, whatever the payout's status.
ApproveByTicket(p) ==
  /\ payout[p].status \in Open \cup Closed /\ tickets < MaxTickets
  /\ payout' = [payout EXCEPT ![p].status = "approved"]
  /\ tickets' = tickets + 1
  /\ reopened' = IF payout[p].status \in Closed THEN reopened \cup {p} ELSE reopened
  /\ UNCHANGED <<earnings, penalty, req, faults, torn>>

(* Penalties, and the recount. *)

\* applyPenalty and waivePenalty read the astrologer.  A penalty that was
\* waived may be waived again.
PenaltyBegin(r, x) ==
  /\ \/ /\ penalty[x] = "none" /\ \A q \in Requests : ~(req[q].pc # "idle" /\ req[q].item = x)
        /\ Start(r, "read", "apply", x, 0)
     \/ penalty[x] \in {"applied", "waived"} /\ Start(r, "read", "waive", x, 0)
  /\ UNCHANGED <<earnings, penalty, payout, tickets, faults, torn, reopened>>

\* The amounts are those of the astrologer read, and save() writes the ones
\* that changed.  The save of a waiver fails if a penalty was pushed since.
PenaltySave(r) ==
  /\ At(r, "read", {"apply", "waive"})
  /\ LET x == req[r].item  seen == req[r].seen
         status == IF req[r].kind = "apply" THEN "applied" ELSE "waived"
         fined == [seen EXCEPT !.totalPenalties = Applied([req[r].pen EXCEPT ![x] = status])]
         pushed == \E y \in Penalties : req[r].pen[y] = "none" /\ penalty[y] # "none"
     IN IF req[r].kind = "waive" /\ pushed
        THEN UNCHANGED <<earnings, penalty, torn>>
        ELSE /\ penalty' = [penalty EXCEPT ![x] = status]
             /\ earnings' = [earnings EXCEPT
                  !.totalPenalties = IF fined.totalPenalties = seen.totalPenalties
                                     THEN @ ELSE fined.totalPenalties,
                  !.withdrawableAmount = IF Left(fined) = seen.withdrawableAmount
                                         THEN @ ELSE Left(fined)]
             /\ torn' = (torn \/ (Missed(r) /\ Left(fined) # seen.withdrawableAmount))
  /\ Finish(r)
  /\ UNCHANGED <<payout, tickets, faults, reopened>>

\* getPayoutStats reads the astrologer, sums the payouts, and sets what it
\* counted.
StatsBegin(r) ==
  /\ Start(r, "read", "stats", "all", 0)
  /\ UNCHANGED <<earnings, penalty, payout, tickets, faults, torn, reopened>>

StatsSum(r) ==
  /\ At(r, "read", {"stats"})
  /\ req' = [req EXCEPT ![r].pc = "summed",
       ![r].seen = [@ EXCEPT !.netEarnings = Net(req[r].seen.totalEarned),
                             !.totalPenalties = Applied(req[r].pen),
                             !.totalWithdrawn = Total({"completed"}),
                             !.pendingWithdrawal = Total(Open)]]
  /\ UNCHANGED <<earnings, penalty, payout, tickets, faults, torn, reopened>>

StatsSave(r) ==
  /\ At(r, "summed", {"stats"})
  /\ LET e == req[r].seen IN
       earnings' = [e EXCEPT !.totalEarned = earnings.totalEarned,
                             !.withdrawableAmount = Left(e)]
  /\ torn' = Missed(r)
  /\ Finish(r)
  /\ UNCHANGED <<penalty, payout, tickets, faults, reopened>>

\* A handler stops: a database error, or the process.
HandlerFails(r) ==
  /\ req[r].pc # "idle" /\ faults < MaxFaults
  /\ faults' = faults + 1
  /\ torn' = (torn \/ req[r].pc = "saved")
  /\ Finish(r)
  /\ UNCHANGED <<earnings, penalty, payout, tickets, reopened>>

----------------
Begins(r) ==
  \/ \E p \in Ids : HandleBegin(r, p) \/ \E a \in Amounts : RequestBegin(r, p, a)
  \/ \E x \in Penalties : PenaltyBegin(r, x)
  \/ StatsBegin(r)

Continues(r) ==
  \/ CapCheck(r) \/ OpenCheck(r) \/ RequestSave(r) \/ LockAmount(r)
  \/ CompleteCheck(r) \/ HandleSave(r) \/ ReleaseAmount(r) \/ Deduct(r)
  \/ PenaltySave(r) \/ StatsSum(r) \/ StatsSave(r)

Next ==
  \/ \E r \in Requests : Begins(r) \/ Continues(r) \/ HandlerFails(r)
  \/ \E i \in Incomes : UpdateEarnings(i)
  \/ \E p \in Ids : ApproveByTicket(p)

Spec == Init /\ [][Next]_vars

----------------
Earnings == [totalEarned : Nat, netEarnings : Nat, totalPenalties : Nat,
             withdrawableAmount : Nat, totalWithdrawn : Nat, pendingWithdrawal : Int]
PenaltyStates == [Penalties -> {"none", "applied", "waived"}]

TypeOK ==
  /\ earnings \in Earnings
  /\ penalty \in PenaltyStates
  /\ payout \in [Ids -> [status : Open \cup Closed \cup {"none"}, amount : Amounts \cup {0}]]
  /\ req \in [Requests -> {Idle} \cup
       [pc : {"read", "capped", "clear", "found", "saved", "summed"},
        kind : DOMAIN To \cup {"request", "apply", "waive", "stats"},
        item : Ids \cup Penalties \cup {"all"}, n : Nat,
        seen : Earnings, pen : PenaltyStates]]
  /\ tickets \in 0..MaxTickets /\ faults \in 0..MaxFaults
  /\ torn \in BOOLEAN /\ reopened \in SUBSET Ids

\* "You already have a pending payout request": while no ticket reopens a
\* closed payout, one payout is open at a time.
OneOpenPayout == reopened = {} => Cardinality(With(Open)) <= 1

\* "Enforce 50% payout cap over total earnings": what is paid and what is
\* still to be paid stay within half of what was earned, although earnings
\* shared otherwise make more than that withdrawable, and whichever handler
\* is cut short.
PaidWithinCap ==
  reopened = {} => 2 * Total(Open \cup {"completed"}) <= earnings.totalEarned

\* Between handlers the astrologer's amounts agree with the payouts and the
\* penalties, unless a handler was cut between its two writes and nothing was
\* recounted since.  What may be withdrawn is not more than the net earnings
\* have left, and not less than the formula in getPayoutStats gives: a fine
\* beyond that is forgotten by the next earning.
BooksAgree ==
  reopened = {} /\ ~torn /\ (\A r \in Requests : req[r].pc = "idle") =>
    /\ earnings.totalWithdrawn = Total({"completed"})
    /\ earnings.pendingWithdrawal = Total(Open)
    /\ earnings.totalPenalties = Applied(penalty)
    /\ Left(earnings) <= earnings.withdrawableAmount
    /\ earnings.withdrawableAmount + earnings.totalWithdrawn + earnings.pendingWithdrawal
         <= earnings.netEarnings
================
