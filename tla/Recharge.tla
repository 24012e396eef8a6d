-------- MODULE Recharge --------
(***************************************************************************)
(* Buying wallet money.  A Razorpay recharge is a pending transaction row  *)
(* that the app or the payment.captured webhook verifies, and an admin may *)
(* refund; an Apple purchase is verified from its receipt and taken back   *)
(* on Apple's refund notification.  All four handlers run in a MongoDB     *)
(* transaction and talk to the payment gateway in the middle of it.        *)
(*                                                                         *)
(* A transaction works on the documents as they were at its start: "stale" *)
(* says which of them another commit has changed since, and a commit that  *)
(* writes a stale document is refused.  While a document is not stale what *)
(* was read of it is what is stored, so the commits below use the state.   *)
(***************************************************************************)
EXTENDS Integers, FiniteSets, FiniteSetsExt

CONSTANTS
  Users, Requests,
  Orders,        \* Razorpay recharges
  Purchases,     \* Apple purchases
  Owner, Price,  \* functions of the recharge
  Pack,          \* Pack[a]: bonus of the active recharge pack of amount a, 0 if none
  Welcome,       \* welcomeBonusAmount of the system settings
  Spends         \* amounts a session may cost

Recharges == Orders \cup Purchases

ASSUME RechargeAssumption ==
  /\ IsFiniteSet(Orders) /\ IsFiniteSet(Purchases) /\ Orders \cap Purchases = {}
  /\ Owner \in [Recharges -> Users]
  /\ Price \in [Recharges -> Nat \ {0}]
  /\ Pack \in [{Price[t] : t \in Recharges} -> Nat]
  /\ Welcome \in Nat \ {0} /\ Spends \subseteq Nat \ {0}

VARIABLES
  wallet,     \* wallet[u]: [cash, bonus]
  cashSpent,  \* cashSpent[u]: cash paid for sessions (history)
  row,        \* row[t]: the transaction row of recharge t
  gate,       \* gate[t]: the payment at Razorpay or Apple
  taken,      \* taken[p]: amount of the refund row of an Apple purchase, -1: none
  forgiven,   \* forgiven[u]: what such rows state and the wallet did not have (history)
  req         \* req[r]: the request in slot r

vars == <<wallet, cashSpent, row, gate, taken, forgiven, req>>

----------------
Lesser(a, b) == IF a < b THEN a ELSE b
NotBelowZero(n) == IF n < 0 THEN 0 ELSE n

Rows == [status : {"none", "pending", "completed", "failed", "refunded"},
         paid : BOOLEAN,      \* a payment id was recorded
         credit : Nat,        \* balanceAfter - balanceBefore
         first : BOOLEAN,     \* its bonus was that of a first recharge
         bonus : Nat,         \* its pack or flat bonus
         welcome : Nat]       \* its welcome bonus

Idle == [pc |-> "idle"]
Running == [pc : {"begun", "priced", "repaid"},
            kind : {"verify", "apple", "refund", "appleRefund"},
            t : Recharges, outcome : {"completed", "failed"},
            first : BOOLEAN, stale : SUBSET {"user", "row"}]

Of(u) == {t \in Recharges : Owner[t] = u}
FirstRecharge(u) == \A t \in Of(u) : row[t].status # "completed"

\* A first recharge earns its pack's bonus, a later one a flat 10%.
BonusFor(a, first) == IF first THEN Pack[a] ELSE (a * 10) \div 100

\* Fault: a claimed welcome bonus is forgotten.
EligibleForgetful(u) ==
  /\ FirstRecharge(u)
  /\ cashSpent[u] = 0
\* isEligibleForWelcomeBonus: never claimed, nothing recharged, nothing spent.
Eligible(u) ==
  /\ \A t \in Of(u) : row[t].welcome = 0
  /\ FirstRecharge(u)
  /\ cashSpent[u] = 0

\* Only a recharge of exactly 1 earns it; with Razorpay the total credit is
\* the welcome amount, with Apple it comes on top.
WelcomeFor(t) ==
  IF Eligible(Owner[t]) /\ Price[t] = 1
  THEN IF t \in Orders THEN Welcome - Price[t] ELSE Welcome
  ELSE 0

\* The slot of r moves to c; the others learn what r overwrote.
Move(r, c, written) ==
  LET t == req[r].t
      Overwritten(s) == {d \in written :
        (d = "user" /\ Owner[req[s].t] = Owner[t]) \/ (d = "row" /\ req[s].t = t)}
  IN req' = [s \in Requests |->
       IF s = r THEN c
       ELSE IF req[s].pc = "idle" THEN req[s]
       ELSE [req[s] EXCEPT !.stale = @ \cup Overwritten(s)]]

Start(r, kind, t, outcome, pc) ==
  /\ req[r].pc = "idle"
  /\ req' = [req EXCEPT ![r] = [pc |-> pc, kind |-> kind, t |-> t,
                                outcome |-> outcome, first |-> FALSE, stale |-> {}]]

Busy(r, kind, pc) == req[r].pc = pc /\ req[r].kind = kind

----------------
Init ==
  /\ wallet = [u \in Users |-> [cash |-> 0, bonus |-> 0]]
  /\ cashSpent = [u \in Users |-> 0]
  /\ row = [t \in Recharges |-> [status |-> "none", paid |-> FALSE, credit |-> 0,
                                 first |-> FALSE, bonus |-> 0, welcome |-> 0]]
  /\ gate = [t \in Recharges |-> "open"]
  /\ taken = [p \in Purchases |-> -1] /\ forgiven = [u \in Users |-> 0]
  /\ req = [r \in Requests |-> Idle]

\* The pending row is saved, then the Razorpay order is made.
CreateRechargeTransaction(t) ==
  /\ t \in Orders /\ row[t].status = "none"
  /\ row' = [row EXCEPT ![t].status = "pending"]
  /\ UNCHANGED <<wallet, cashSpent, gate, taken, forgiven, req>>

\* The customer pays: for an order also after the app reported a failure.
Capture(t) ==
  /\ gate[t] = "open"
  /\ t \in Orders => row[t].status # "none"
  /\ gate' = [gate EXCEPT ![t] = "captured"]
  /\ UNCHANGED <<wallet, cashSpent, row, taken, forgiven, req>>

\* Apple pays a customer back.
AppleRefunds(p) ==
  /\ p \in Purchases /\ gate[p] = "captured"
  /\ gate' = [gate EXCEPT ![p] = "refunded"]
  /\ UNCHANGED <<wallet, cashSpent, row, taken, forgiven, req>>

\* verifyPayment: only a pending row, and "completed" only if Razorpay says
\* the payment is captured.
VerifyBegin(r, t, outcome) ==
  /\ t \in Orders /\ row[t].status = "pending"
  /\ IF outcome = "completed" THEN gate[t] = "captured" ELSE gate[t] = "open"
  /\ Start(r, "verify", t, outcome, "begun")
  /\ UNCHANGED <<wallet, cashSpent, row, gate, taken, forgiven>>

\* Fault: the webhook acts on another event than payment.captured.
WebhookTooEarly(r, t) == gate[t] = "open" /\ VerifyBegin(r, t, "completed")
\* The app reports either outcome, the webhook a captured payment.
Webhook(r, t) == VerifyBegin(r, t, "completed")
ClientVerify(r, t) == \E outcome \in {"completed", "failed"} : VerifyBegin(r, t, outcome)

\* verifyApplePayment: a purchase that has a row already is answered as processed.
AppleBegin(r, p) ==
  /\ p \in Purchases /\ gate[p] = "captured" /\ row[p].status = "none"
  /\ Start(r, "apple", p, "completed", "begun")
  /\ UNCHANGED <<wallet, cashSpent, row, gate, taken, forgiven>>

\* calculateBonusForAmount counts completed recharges outside the transaction.
PriceBonus(r) ==
  /\ \/ Busy(r, "verify", "begun") /\ req[r].outcome = "completed"
     \/ Busy(r, "apple", "begun")
  /\ req' = [req EXCEPT ![r].pc = "priced", ![r].first = FirstRecharge(Owner[req[r].t])]
  /\ UNCHANGED <<wallet, cashSpent, row, gate, taken, forgiven>>

\* Cash, bonus and row are written together.
Credit(r) ==
  LET t == req[r].t  b == BonusFor(Price[t], req[r].first)  w == WelcomeFor(t) IN
  /\ wallet' = [wallet EXCEPT ![Owner[t]] =
       [cash |-> @.cash + Price[t], bonus |-> @.bonus + b + w]]
  /\ row' = [row EXCEPT ![t] =
       [status |-> "completed", paid |-> TRUE, credit |-> Price[t],
        first |-> req[r].first, bonus |-> b, welcome |-> w]]
  /\ Move(r, Idle, {"user", "row"})
  /\ UNCHANGED <<cashSpent, gate, taken, forgiven>>

\* Fault: the documents are read without the session.
CommitCreditUnchecked(r) == req[r].pc = "priced" /\ Credit(r)
CommitCredit(r) == req[r].pc = "priced" /\ req[r].stale = {} /\ Credit(r)

\* A failed verification changes the row only: the user document is saved unchanged.
CommitFailed(r) ==
  LET t == req[r].t IN
  /\ Busy(r, "verify", "begun") /\ req[r].outcome = "failed" /\ "row" \notin req[r].stale
  /\ row' = [row EXCEPT ![t].status = "failed", ![t].paid = TRUE]
  /\ Move(r, Idle, {"row"})
  /\ UNCHANGED <<wallet, cashSpent, gate, taken, forgiven>>

----------------
\* Fault: the gateway is believed to have refunded already.
RefundBeginAsSync(r, t) ==
  /\ t \in Orders /\ row[t].status # "refunded" /\ row[t].paid
  /\ gate[t] # "open"
  /\ Start(r, "refund", t, "completed", "repaid")
  /\ UNCHANGED <<wallet, cashSpent, row, gate, taken, forgiven>>
\* refundRazorpayTransaction: any recharge with a payment id that is not
\* refunded; if the gateway has refunded it already only the wallet follows.
RefundBegin(r, t) ==
  /\ t \in Orders /\ row[t].status # "refunded" /\ row[t].paid
  /\ gate[t] # "open"
  /\ Start(r, "refund", t, "completed", IF gate[t] = "refunded" THEN "repaid" ELSE "begun")
  /\ UNCHANGED <<wallet, cashSpent, row, gate, taken, forgiven>>

\* The gateway pays back, in the middle of the transaction; a second refund
\* of the payment is an error.
RefundApi(r) ==
  LET t == req[r].t IN
  /\ Busy(r, "refund", "begun")
  /\ gate' = [gate EXCEPT ![t] = "refunded"]
  /\ IF gate[t] = "captured"
     THEN req' = [req EXCEPT ![r].pc = "repaid"]
     ELSE Move(r, Idle, {})
  /\ UNCHANGED <<wallet, cashSpent, row, taken, forgiven>>

\* Cash and the linked bonus are taken back.
TakeBack(r) ==
  LET t == req[r].t IN
  /\ wallet' = [wallet EXCEPT ![Owner[t]] =
       [cash |-> @.cash - Price[t], bonus |-> NotBelowZero(@.bonus - row[t].bonus)]]
  /\ row' = [row EXCEPT ![t].status = "refunded"]
  /\ Move(r, Idle, {"user", "row"})

\* Fault: the schema has no min: 0.
CommitRefundInDebt(r) ==
  /\ Busy(r, "refund", "repaid") /\ req[r].stale = {}
  /\ TakeBack(r)
  /\ UNCHANGED <<cashSpent, gate, taken, forgiven>>
\* The schema's min: 0 rejects a negative cashBalance, which aborts the transaction.
CommitRefund(r) ==
  /\ Busy(r, "refund", "repaid") /\ req[r].stale = {}
  /\ IF wallet[Owner[req[r].t]].cash >= Price[req[r].t]
     THEN TakeBack(r)
     ELSE Move(r, Idle, {}) /\ UNCHANGED <<wallet, row>>
  /\ UNCHANGED <<cashSpent, gate, taken, forgiven>>

\* processAppleRefund: a purchase that has no row, or a refund row, is left alone.
AppleRefundBegin(r, p) ==
  /\ p \in Purchases /\ gate[p] = "refunded"
  /\ row[p].status = "completed" /\ taken[p] = -1
  /\ Start(r, "appleRefund", p, "completed", "begun")
  /\ UNCHANGED <<wallet, cashSpent, row, gate, taken, forgiven>>

\* As much cash as there is, up to the price; the refund row states the whole
\* price, and the purchase stays completed.
CommitAppleRefund(r) ==
  LET p == req[r].t  u == Owner[p]  cash == wallet[u].cash  rest == NotBelowZero(cash - Price[p]) IN
  /\ Busy(r, "appleRefund", "begun") /\ req[r].stale = {}
  /\ wallet' = [wallet EXCEPT ![u].cash = rest]
  /\ taken' = [taken EXCEPT ![p] = Price[p]]
  /\ forgiven' = [forgiven EXCEPT ![u] = @ + Price[p] - (cash - rest)]
  /\ Move(r, Idle, {"user"})
  /\ UNCHANGED <<cashSpent, row, gate>>

\* A write conflict aborts.  The app and Razorpay learn of it; Apple is
\* answered 200 and may send its notification again or not.
Abort(r) ==
  /\ req[r].pc # "idle" /\ req[r].stale # {}
  /\ Move(r, Idle, {})
  /\ UNCHANGED <<wallet, cashSpent, row, gate, taken, forgiven>>

\* A session is paid, bonus first: another handler's transaction on the wallet.
Spend(u, a) ==
  LET fromBonus == Lesser(wallet[u].bonus, a) IN
  /\ wallet[u].cash + wallet[u].bonus >= a
  /\ wallet' = [wallet EXCEPT ![u] =
       [cash |-> @.cash - (a - fromBonus), bonus |-> @.bonus - fromBonus]]
  /\ cashSpent' = [cashSpent EXCEPT ![u] = @ + (a - fromBonus)]
  /\ req' = [s \in Requests |->
       IF req[s].pc # "idle" /\ Owner[req[s].t] = u
       THEN [req[s] EXCEPT !.stale = @ \cup {"user"}] ELSE req[s]]
  /\ UNCHANGED <<row, gate, taken, forgiven>>

Crash ==
  /\ \E r \in Requests : req[r].pc # "idle"
  /\ req' = [r \in Requests |-> Idle]
  /\ UNCHANGED <<wallet, cashSpent, row, gate, taken, forgiven>>

Next ==
  \/ \E t \in Recharges :
       \/ CreateRechargeTransaction(t) \/ Capture(t) \/ AppleRefunds(t)
       \/ \E r \in Requests :
            \/ Webhook(r, t) \/ ClientVerify(r, t) \/ AppleBegin(r, t)
            \/ RefundBegin(r, t) \/ AppleRefundBegin(r, t)
  \/ \E r \in Requests :
       \/ PriceBonus(r) \/ CommitCredit(r) \/ CommitFailed(r)
       \/ RefundApi(r) \/ CommitRefund(r) \/ CommitAppleRefund(r) \/ Abort(r)
  \/ \E u \in Users, a \in Spends : Spend(u, a)
  \/ Crash

Spec == Init /\ [][Next]_vars

\* The webhook answers 400 when verification throws and Razorpay delivers
\* the event again; a running request comes to its end.
FairSpec ==
  /\ Spec
  /\ \A t \in Orders : SF_vars(\E r \in Requests : Webhook(r, t))
  /\ \A r \in Requests :
       /\ SF_vars(PriceBonus(r)) /\ SF_vars(CommitCredit(r))
       /\ WF_vars(CommitFailed(r) \/ RefundApi(r) \/ CommitRefund(r)
                  \/ CommitAppleRefund(r) \/ Abort(r))

----------------
\* The type invariant.
TypeOK ==
  /\ wallet \in [Users -> [cash : Nat, bonus : Nat]]
  /\ cashSpent \in [Users -> Nat]
  /\ row \in [Recharges -> Rows]
  /\ gate \in [Recharges -> {"open", "captured", "refunded"}]
  /\ taken \in [Purchases -> Nat \cup {-1}] /\ forgiven \in [Users -> Nat]
  /\ req \in [Requests -> Running \cup {Idle}]

\* The cash each recharge has brought its owner, according to its rows.
Net == [t \in Recharges |->
  row[t].credit - (IF t \in Orders THEN IF row[t].status = "refunded" THEN Price[t] ELSE 0
                   ELSE NotBelowZero(taken[t]))]

\* Cash in the wallet is what the rows credited, less what they took back,
\* less what was spent: no recharge is credited or taken back twice, by the
\* app and the webhook, by two admins, or by a notification delivered again.
\* Only Apple's refund rows state more than was taken, when the money was gone.
CashAccounted ==
  \A u \in Users :
    wallet[u].cash = SumFunctionOnSet(Net, Of(u)) - cashSpent[u] + forgiven[u]

\* Of the recharges a user keeps only one got a first recharge's bonus.
FirstBonusOnce ==
  \A u \in Users : Cardinality({t \in Of(u) : row[t].status = "completed" /\ row[t].first}) <= 1

\* The welcome bonus is granted once, also after the recharge that earned it
\* was refunded.
WelcomeOnce == \A u \in Users : Cardinality({t \in Of(u) : row[t].welcome > 0}) <= 1

\* Rows and gateway agree: no recharge is credited that was not captured,
\* none is taken back that the gateway did not refund, however app, webhook,
\* admins and restarts interleave.
GatewayAgrees ==
  \A t \in Recharges :
    /\ row[t].status = "completed" => gate[t] # "open"
    /\ row[t].status = "refunded" => gate[t] = "refunded"

\* A captured payment whose recharge is pending does not stay that way.
CapturedIsSettled ==
  \A t \in Orders :
    gate[t] = "captured" /\ row[t].status = "pending" ~> row[t].status # "pending"
================
