-------- MODULE PaymentProofs --------
(***************************************************************************)
(* Theorems about Recharge for every number of users, recharges and        *)
(* requests.  The inductive invariant adds to the types what a running     *)
(* request knows of the gateway, and that a request which found no         *)
(* completed recharge is right about it until it is marked stale.  For the *)
(* cash accounts, a sum over recharges, it also says that what a request   *)
(* read of its own row still holds unless it is marked stale.              *)
(* The second part is about Payouts, for any number of payouts, penalties  *)
(* and incomes, while an astrologer's handlers run one after the other;    *)
(* the third about Gifts, however they overlap; the fourth about Profile,  *)
(* which saves an astrologer's earnings with a commission rate.  The fifth *)
(* to eighth are about accounts: Login (codes, deletion), BankAccounts,    *)
(* Admins and Tokens.                                                      *)
(***************************************************************************)
EXTENDS Recharge, Sequences, SumTheorems

Active(r) == req[r].pc # "idle"

\* What a running request has checked of its payment still holds.
Checked ==
  \A r \in Requests : Active(r) =>
    /\ req[r].kind \in {"verify", "apple"} /\ req[r].outcome = "completed"
         => gate[req[r].t] # "open"
    /\ req[r].pc = "priced" => req[r].kind \in {"verify", "apple"} /\ req[r].outcome = "completed"
    /\ req[r].kind = "apple" => req[r].outcome = "completed"
    /\ req[r].kind = "refund" => req[r].t \in Orders
    /\ req[r].kind = "appleRefund" => req[r].t \in Purchases
    /\ req[r].pc = "repaid" => req[r].kind = "refund" /\ gate[req[r].t] = "refunded"

\* A request that priced a first recharge is right until marked stale.
FreshFirst ==
  \A r \in Requests : req[r].pc = "priced" /\ req[r].first /\ "user" \notin req[r].stale
    => FirstRecharge(Owner[req[r].t])

\* The two bonus properties, without counting.
OneFirst ==
  \A t1, t2 \in Recharges :
    /\ Owner[t1] = Owner[t2]
    /\ row[t1].status = "completed" /\ row[t1].first
    /\ row[t2].status = "completed" /\ row[t2].first
    => t1 = t2
OneWelcome ==
  \A t1, t2 \in Recharges :
    Owner[t1] = Owner[t2] /\ row[t1].welcome > 0 /\ row[t2].welcome > 0 => t1 = t2

RInv == TypeOK /\ Checked /\ GatewayAgrees
BonusInv == RInv /\ FreshFirst /\ OneFirst /\ OneWelcome

----------------
(* Slots.                                                                  *)

LEMMA ActiveIsRunning ==
  ASSUME TypeOK, NEW r \in Requests, Active(r)
  PROVE  req[r] \in Running
  BY DEF TypeOK, Active, Idle

\* What Move does to the slots.
LEMMA MoveEffect ==
  ASSUME TypeOK, NEW r \in Requests, Active(r), NEW c \in Running \cup {Idle},
         NEW written \in SUBSET {"user", "row"}, Move(r, c, written)
  PROVE  /\ req' \in [Requests -> Running \cup {Idle}]
         /\ req'[r] = c
         /\ \A s \in Requests \ {r} :
              /\ ~Active(s) => req'[s] = req[s]
              /\ Active(s) =>
                   /\ req'[s] = [req[s] EXCEPT !.stale = req'[s].stale]
                   /\ req[s].stale \subseteq req'[s].stale
                   /\ "user" \in written /\ Owner[req[s].t] = Owner[req[r].t]
                        => "user" \in req'[s].stale
                   /\ "row" \in written /\ req[s].t = req[r].t => "row" \in req'[s].stale
<1> DEFINE Grown(s) == req[s].stale \cup {d \in written :
             (d = "user" /\ Owner[req[s].t] = Owner[req[r].t]) \/ (d = "row" /\ req[s].t = req[r].t)}
<1>1. req' = [s \in Requests |-> IF s = r THEN c
                ELSE IF req[s].pc = "idle" THEN req[s]
                ELSE [req[s] EXCEPT !.stale = Grown(s)]]
  BY DEF Move
<1>2. ASSUME NEW s \in Requests \ {r}, Active(s)
      PROVE  /\ req'[s] = [req[s] EXCEPT !.stale = Grown(s)]
             /\ req'[s] \in Running
             /\ req'[s].stale = Grown(s)
  <2>1. req[s] \in Running
    BY <1>2, ActiveIsRunning
  <2>2. req'[s] = [req[s] EXCEPT !.stale = Grown(s)]
    BY <1>1, <1>2 DEF Active
  <2>3. Grown(s) \in SUBSET {"user", "row"}
    BY <2>1 DEF Running
  <2> QED BY <2>1, <2>2, <2>3 DEF Running
<1>3. \A s \in Requests : ~Active(s) => req[s] \in Running \cup {Idle}
  BY DEF TypeOK
<1>4. ASSUME NEW s \in Requests
      PROVE  req'[s] \in Running \cup {Idle}
  BY <1>1, <1>2, <1>3 DEF Active
<1>5. req' \in [Requests -> Running \cup {Idle}]
  BY <1>1, <1>4
<1> QED BY <1>1, <1>2, <1>5 DEF Active

\* What the start of a request does to the slots.
LEMMA StartEffect ==
  ASSUME TypeOK, NEW r \in Requests, NEW t \in Recharges,
         NEW kind \in {"verify", "apple", "refund", "appleRefund"},
         NEW outcome \in {"completed", "failed"}, NEW pc \in {"begun", "repaid"},
         Start(r, kind, t, outcome, pc)
  PROVE  /\ req' \in [Requests -> Running \cup {Idle}]
         /\ req'[r] = [pc |-> pc, kind |-> kind, t |-> t, outcome |-> outcome,
                       first |-> FALSE, stale |-> {}]
         /\ \A s \in Requests \ {r} : req'[s] = req[s]
  BY DEF TypeOK, Start, Running

\* Payments only move forward.
LEMMA GateForward ==
  ASSUME TypeOK, [Next]_vars, NEW t \in Recharges
  PROVE  /\ gate[t] # "open" => gate'[t] # "open"
         /\ gate[t] = "refunded" => gate'[t] = "refunded"
<1>1. CASE \E c \in Recharges : Capture(c)
  BY <1>1 DEF TypeOK, Capture
<1>2. CASE \E p \in Recharges : AppleRefunds(p)
  BY <1>2 DEF TypeOK, AppleRefunds
<1>3. CASE \E r \in Requests : RefundApi(r)
  BY <1>3 DEF TypeOK, RefundApi
<1> QED
  BY <1>1, <1>2, <1>3 DEF Next, vars, CreateRechargeTransaction, Webhook, ClientVerify,
     VerifyBegin, AppleBegin, RefundBegin, AppleRefundBegin, PriceBonus, CommitCredit, Credit,
     CommitFailed, CommitRefund, TakeBack, CommitAppleRefund, Abort, Spend, Crash

----------------
(* The type invariant.                                                     *)

LEMMA InitType == Init => TypeOK
  BY RechargeAssumption DEF Init, TypeOK, Rows, Idle

\* What a verified recharge adds.
LEMMA BonusType ==
  ASSUME TypeOK, NEW t \in Recharges, NEW first \in BOOLEAN
  PROVE  BonusFor(Price[t], first) \in Nat /\ WelcomeFor(t) \in Nat
<1>1. Price[t] \in Nat \ {0} /\ Pack[Price[t]] \in Nat
  BY RechargeAssumption
<1>2. (Price[t] * 10) \div 100 \in Nat
  BY <1>1
<1>3. BonusFor(Price[t], first) \in Nat
  BY <1>1, <1>2 DEF BonusFor
<1>4. WelcomeFor(t) \in Nat
  BY <1>1, RechargeAssumption DEF WelcomeFor
<1> QED BY <1>3, <1>4

\* Crediting a recharge keeps the types.
LEMMA CreditType ==
  ASSUME TypeOK, NEW r \in Requests, CommitCredit(r)
  PROVE  TypeOK'
<1> DEFINE t == req[r].t
           b == BonusFor(Price[t], req[r].first)
           w == WelcomeFor(t)
<1>1. req[r] \in Running
  BY ActiveIsRunning DEF CommitCredit, Active
<1>2. t \in Recharges /\ Price[t] \in Nat /\ Owner[t] \in Users /\ req[r].first \in BOOLEAN
  BY <1>1, RechargeAssumption DEF Running
<1>3. b \in Nat /\ w \in Nat
  BY <1>2, BonusType
<1>4. req' \in [Requests -> Running \cup {Idle}]
  BY <1>1, MoveEffect DEF CommitCredit, Credit, Active
<1> HIDE DEF t, b, w
<1>5. wallet' = [wallet EXCEPT ![Owner[t]] =
         [cash |-> wallet[Owner[t]].cash + Price[t], bonus |-> wallet[Owner[t]].bonus + b + w]]
  BY DEF CommitCredit, Credit, t, b, w
<1>6. wallet' \in [Users -> [cash : Nat, bonus : Nat]]
  <2>1. wallet[Owner[t]].cash + Price[t] \in Nat /\ wallet[Owner[t]].bonus + b + w \in Nat
    BY <1>2, <1>3 DEF TypeOK
  <2> QED BY <1>2, <1>5, <2>1 DEF TypeOK
<1>7. row' = [row EXCEPT ![t] = [status |-> "completed", paid |-> TRUE, credit |-> Price[t],
                                 first |-> req[r].first, bonus |-> b, welcome |-> w]]
  BY DEF CommitCredit, Credit, t, b, w
<1>8. row' \in [Recharges -> Rows]
  BY <1>2, <1>3, <1>7 DEF TypeOK, Rows
<1> QED BY <1>4, <1>6, <1>8 DEF TypeOK, CommitCredit, Credit

\* Taking a recharge back keeps the types: the schema lets no debt through.
LEMMA RefundType ==
  ASSUME TypeOK, NEW r \in Requests, CommitRefund(r)
  PROVE  TypeOK'
<1> DEFINE t == req[r].t
           u == Owner[t]
<1>1. req[r] \in Running /\ Active(r)
  BY ActiveIsRunning DEF CommitRefund, Busy, Active
<1>2. t \in Recharges /\ Price[t] \in Nat /\ u \in Users
  BY <1>1, RechargeAssumption DEF Running
<1>3. req' \in [Requests -> Running \cup {Idle}]
  BY <1>1, MoveEffect DEF CommitRefund, TakeBack
<1>4. CASE wallet[u].cash >= Price[t]
  <2>1. wallet[u].cash - Price[t] \in Nat /\ NotBelowZero(wallet[u].bonus - row[t].bonus) \in Nat
    BY <1>2, <1>4 DEF TypeOK, Rows, NotBelowZero
  <2>2. wallet' = [wallet EXCEPT ![u] = [cash |-> wallet[u].cash - Price[t],
                     bonus |-> NotBelowZero(wallet[u].bonus - row[t].bonus)]]
    BY <1>4 DEF CommitRefund, TakeBack
  <2>3. wallet' \in [Users -> [cash : Nat, bonus : Nat]]
    BY <1>2, <2>1, <2>2 DEF TypeOK
  <2>4. [row[t] EXCEPT !.status = "refunded"] \in Rows
    <3>1. row[t] \in Rows
      BY <1>2 DEF TypeOK
    <3>2. \A x \in Rows : [x EXCEPT !.status = "refunded"] \in Rows
      BY DEF Rows
    <3> QED BY <3>1, <3>2
  <2>5. row' = [row EXCEPT ![t] = [row[t] EXCEPT !.status = "refunded"]]
    BY <1>4 DEF CommitRefund, TakeBack
  <2>6. row' \in [Recharges -> Rows]
    BY <1>2, <2>4, <2>5 DEF TypeOK
  <2> QED BY <1>3, <2>3, <2>6 DEF TypeOK, CommitRefund
<1>5. CASE ~(wallet[u].cash >= Price[t])
  BY <1>3, <1>5 DEF TypeOK, CommitRefund
<1> QED BY <1>4, <1>5

\* An Apple refund takes no more cash than there is.
LEMMA AppleRefundType ==
  ASSUME TypeOK, Checked, NEW r \in Requests, CommitAppleRefund(r)
  PROVE  TypeOK'
<1> DEFINE p == req[r].t
           cash == wallet[Owner[p]].cash
           rest == NotBelowZero(cash - Price[p])
<1>1. req[r] \in Running /\ Active(r)
  BY ActiveIsRunning DEF CommitAppleRefund, Busy, Active
<1>2. p \in Purchases
  BY <1>1 DEF Checked, CommitAppleRefund, Busy
<1>3. Price[p] \in Nat /\ Owner[p] \in Users
  BY <1>2, RechargeAssumption DEF Recharges
<1>4. req' \in [Requests -> Running \cup {Idle}]
  BY <1>1, MoveEffect DEF CommitAppleRefund
<1>5. cash \in Nat
  BY <1>3 DEF TypeOK
<1>6. rest \in Nat /\ Price[p] - (cash - rest) \in Nat
  BY <1>3, <1>5 DEF NotBelowZero
<1>7. /\ wallet' = [wallet EXCEPT ![Owner[p]].cash = rest] /\ taken' = [taken EXCEPT ![p] = Price[p]]
      /\ forgiven' = [forgiven EXCEPT ![Owner[p]] = forgiven[Owner[p]] + Price[p] - (cash - rest)]
  BY DEF CommitAppleRefund
<1> HIDE DEF cash, rest
<1>8. wallet' \in [Users -> [cash : Nat, bonus : Nat]]
  BY <1>3, <1>6, <1>7 DEF TypeOK
<1>9. taken' \in [Purchases -> Nat \cup {-1}]
  BY <1>2, <1>3, <1>7 DEF TypeOK
<1>10. forgiven' \in [Users -> Nat]
  <2>1. forgiven[Owner[p]] + Price[p] - (cash - rest) \in Nat
    BY <1>3, <1>5, <1>6 DEF TypeOK, cash
  <2> QED BY <1>7, <2>1 DEF TypeOK
<1> QED BY <1>4, <1>8, <1>9, <1>10 DEF TypeOK, CommitAppleRefund

\* Paying for a session leaves neither part below zero.
LEMMA SpendType ==
  ASSUME TypeOK, NEW u \in Users, NEW a \in Spends, Spend(u, a)
  PROVE  TypeOK'
<1> DEFINE b == Lesser(wallet[u].bonus, a)
<1>1. wallet[u].cash \in Nat /\ wallet[u].bonus \in Nat /\ a \in Nat
  BY RechargeAssumption DEF TypeOK
<1>2. b \in Nat /\ wallet[u].bonus - b \in Nat /\ a - b \in Nat /\ wallet[u].cash - (a - b) \in Nat
  BY <1>1 DEF Lesser, Spend
<1>3. /\ wallet' = [wallet EXCEPT ![u] =
             [cash |-> wallet[u].cash - (a - b), bonus |-> wallet[u].bonus - b]]
      /\ cashSpent' = [cashSpent EXCEPT ![u] = cashSpent[u] + (a - b)]
  BY DEF Spend
<1> HIDE DEF b
<1>4. wallet' \in [Users -> [cash : Nat, bonus : Nat]]
  BY <1>1, <1>2, <1>3 DEF TypeOK
<1>5. cashSpent' \in [Users -> Nat]
  BY <1>2, <1>3 DEF TypeOK
<1>6. req' \in [Requests -> Running \cup {Idle}]
  <2>1. ASSUME NEW s \in Requests
        PROVE  (IF req[s].pc # "idle" /\ Owner[req[s].t] = u
                THEN [req[s] EXCEPT !.stale = req[s].stale \cup {"user"}] ELSE req[s])
               \in Running \cup {Idle}
    <3>1. CASE req[s] \in Running
      BY <3>1 DEF Running
    <3>2. CASE req[s] = Idle
      BY <3>2 DEF Idle
    <3> QED BY <3>1, <3>2 DEF TypeOK
  <2> QED BY <2>1 DEF Spend
<1> QED BY <1>4, <1>5, <1>6 DEF TypeOK, Spend

LEMMA FailedRow ==
  ASSUME NEW w \in Rows
  PROVE  [w EXCEPT !.status = "failed", !.paid = TRUE] \in Rows
  BY DEF Rows

LEMMA NextType == TypeOK /\ Checked /\ [Next]_vars => TypeOK'
<1> SUFFICES ASSUME TypeOK, Checked, [Next]_vars
             PROVE  TypeOK'
  OBVIOUS
<1>1. ASSUME NEW t \in Recharges,
             CreateRechargeTransaction(t) \/ Capture(t) \/ AppleRefunds(t)
      PROVE  TypeOK'
  <2>1. CASE CreateRechargeTransaction(t)
    <3>1. [row[t] EXCEPT !.status = "pending"] \in Rows
      BY DEF TypeOK, Rows
    <3> QED BY <2>1, <3>1 DEF TypeOK, CreateRechargeTransaction
  <2>2. CASE Capture(t)
    BY <2>2 DEF TypeOK, Capture
  <2>3. CASE AppleRefunds(t)
    BY <2>3 DEF TypeOK, AppleRefunds
  <2> QED BY <1>1, <2>1, <2>2, <2>3
<1>2. ASSUME NEW t \in Recharges, NEW r \in Requests,
             \/ Webhook(r, t) \/ ClientVerify(r, t) \/ AppleBegin(r, t)
             \/ RefundBegin(r, t) \/ AppleRefundBegin(r, t)
      PROVE  TypeOK'
  <2>1. req' \in [Requests -> Running \cup {Idle}]
    BY <1>2, StartEffect DEF Webhook, ClientVerify, VerifyBegin, AppleBegin, RefundBegin,
       AppleRefundBegin
  <2> QED
    BY <1>2, <2>1 DEF TypeOK, Webhook, ClientVerify, VerifyBegin, AppleBegin, RefundBegin,
       AppleRefundBegin
<1>3. ASSUME NEW r \in Requests, PriceBonus(r)
      PROVE  TypeOK'
  <2>1. req[r] \in Running
    BY <1>3, ActiveIsRunning DEF PriceBonus, Busy, Active
  <2>2. [req[r] EXCEPT !.pc = "priced", !.first = FirstRecharge(Owner[req[r].t])] \in Running
    BY <2>1 DEF Running, FirstRecharge
  <2> QED BY <1>3, <2>2 DEF TypeOK, PriceBonus
<1>4. ASSUME NEW r \in Requests, CommitFailed(r)
      PROVE  TypeOK'
  <2>1. req' \in [Requests -> Running \cup {Idle}]
    BY <1>4, MoveEffect DEF CommitFailed, Busy, Active
  <2>2. req[r].t \in Recharges
    BY <1>4, ActiveIsRunning DEF CommitFailed, Busy, Active, Running
  <2>3. [row[req[r].t] EXCEPT !.status = "failed", !.paid = TRUE] \in Rows
    BY <2>2, FailedRow DEF TypeOK
  <2>4. row' \in [Recharges -> Rows]
    BY <1>4, <2>3 DEF TypeOK, CommitFailed
  <2> QED BY <1>4, <2>1, <2>4 DEF TypeOK, CommitFailed
<1>5. ASSUME NEW r \in Requests, RefundApi(r)
      PROVE  TypeOK'
  <2>1. req[r] \in Running /\ Active(r)
    BY <1>5, ActiveIsRunning DEF RefundApi, Busy, Active
  <2>2. [req[r] EXCEPT !.pc = "repaid"] \in Running
    BY <2>1 DEF Running
  <2>3. req' \in [Requests -> Running \cup {Idle}]
    BY <1>5, <2>1, <2>2, MoveEffect DEF RefundApi, TypeOK
  <2> QED BY <1>5, <2>3 DEF TypeOK, RefundApi
<1>6. ASSUME NEW r \in Requests, Abort(r)
      PROVE  TypeOK'
  <2>1. req' \in [Requests -> Running \cup {Idle}]
    BY <1>6, MoveEffect DEF Abort, Active
  <2> QED BY <1>6, <2>1 DEF TypeOK, Abort
<1>7. ASSUME Crash
      PROVE  TypeOK'
  BY <1>7 DEF TypeOK, Crash
<1>8. CASE UNCHANGED vars
  BY <1>8 DEF TypeOK, vars
<1> QED
  BY <1>1, <1>2, <1>3, <1>4, <1>5, <1>6, <1>7, <1>8, CreditType, RefundType, AppleRefundType,
     SpendType DEF Next

----------------
(* What running requests know of their payments.                           *)

Started(s, t) ==
  Webhook(s, t) \/ ClientVerify(s, t) \/ AppleBegin(s, t) \/ RefundBegin(s, t) \/ AppleRefundBegin(s, t)

\* What a step does to one slot: nothing, freeing it, growing its stale set,
\* a new request that passed its checks, or the step in the middle.
LEMMA SlotStep ==
  ASSUME TypeOK, Checked, [Next]_vars, NEW s \in Requests
  PROVE  \/ req'[s].pc = "idle"
         \/ Active(s) /\ req'[s] = [req[s] EXCEPT !.stale = req'[s].stale]
                      /\ req[s].stale \subseteq req'[s].stale
         \/ \E t \in Orders, outcome \in {"completed", "failed"} :
              /\ req'[s] = [pc |-> "begun", kind |-> "verify", t |-> t, outcome |-> outcome,
                            first |-> FALSE, stale |-> {}]
              /\ outcome = "completed" => gate[t] # "open"
              /\ Started(s, t)
         \/ \E t \in Purchases, kind \in {"apple", "appleRefund"} :
              /\ req'[s] = [pc |-> "begun", kind |-> kind, t |-> t, outcome |-> "completed",
                            first |-> FALSE, stale |-> {}]
              /\ gate[t] # "open"
              /\ Started(s, t)
         \/ \E t \in Orders, pc \in {"begun", "repaid"} :
              /\ req'[s] = [pc |-> pc, kind |-> "refund", t |-> t, outcome |-> "completed",
                            first |-> FALSE, stale |-> {}]
              /\ pc = "repaid" => gate[t] = "refunded"
              /\ Started(s, t)
         \/ PriceBonus(s)
         \/ RefundApi(s) /\ req'[s] = [req[s] EXCEPT !.pc = "repaid"]
<1>1. CASE \E t \in Recharges : CreateRechargeTransaction(t) \/ Capture(t) \/ AppleRefunds(t)
  <2>1. req' = req
    BY <1>1 DEF CreateRechargeTransaction, Capture, AppleRefunds
  <2> QED BY <2>1, ActiveIsRunning DEF Active, Running
<1>2. ASSUME NEW t \in Recharges, NEW r \in Requests,
             \/ Webhook(r, t) \/ ClientVerify(r, t) \/ AppleBegin(r, t)
             \/ RefundBegin(r, t) \/ AppleRefundBegin(r, t),
             s # r
      PROVE  req'[s] = req[s]
  BY <1>2 DEF Webhook, ClientVerify, VerifyBegin, AppleBegin, RefundBegin, AppleRefundBegin, Start, TypeOK
<1>3. ASSUME NEW t \in Recharges, Webhook(s, t) \/ ClientVerify(s, t)
      PROVE  t \in Orders /\ \E outcome \in {"completed", "failed"} :
              /\ req'[s] = [pc |-> "begun", kind |-> "verify", t |-> t, outcome |-> outcome,
                            first |-> FALSE, stale |-> {}]
              /\ outcome = "completed" => gate[t] # "open"
              /\ Started(s, t)
  BY <1>3, StartEffect DEF Started, Webhook, ClientVerify, VerifyBegin
<1>4. ASSUME NEW t \in Recharges, AppleBegin(s, t) \/ AppleRefundBegin(s, t)
      PROVE  t \in Purchases /\ gate[t] # "open" /\ \E kind \in {"apple", "appleRefund"} :
              /\ req'[s] = [pc |-> "begun", kind |-> kind, t |-> t, outcome |-> "completed",
                            first |-> FALSE, stale |-> {}]
              /\ Started(s, t)
  BY <1>4, StartEffect DEF Started, AppleBegin, AppleRefundBegin
<1>5. ASSUME NEW t \in Recharges, RefundBegin(s, t)
      PROVE  t \in Orders /\ \E pc \in {"begun", "repaid"} :
              /\ req'[s] = [pc |-> pc, kind |-> "refund", t |-> t, outcome |-> "completed",
                            first |-> FALSE, stale |-> {}]
              /\ pc = "repaid" => gate[t] = "refunded"
              /\ Started(s, t)
  BY <1>5, StartEffect DEF Started, RefundBegin
<1>6. ASSUME NEW r \in Requests,
             \/ CommitCredit(r) \/ CommitFailed(r) \/ CommitRefund(r)
             \/ CommitAppleRefund(r) \/ Abort(r)
      PROVE  IF s = r THEN req'[s].pc = "idle"
             ELSE \/ req'[s] = req[s]
                  \/ Active(s) /\ req'[s] = [req[s] EXCEPT !.stale = req'[s].stale]
                               /\ req[s].stale \subseteq req'[s].stale
  <2>1. Active(r)
    BY <1>6 DEF CommitCredit, CommitFailed, CommitRefund, CommitAppleRefund, Abort, Busy, Active
  <2>2. PICK written \in SUBSET {"user", "row"} : Move(r, Idle, written)
    BY <1>6 DEF CommitCredit, Credit, CommitFailed, CommitRefund, TakeBack, CommitAppleRefund, Abort
  <2> QED BY <2>1, <2>2, MoveEffect DEF Idle
<1>7. ASSUME NEW r \in Requests, PriceBonus(r), s # r
      PROVE  req'[s] = req[s]
  BY <1>7 DEF PriceBonus, TypeOK
<1>8. ASSUME NEW r \in Requests, RefundApi(r)
      PROVE  IF s = r THEN req'[s].pc = "idle" \/ req'[s] = [req[s] EXCEPT !.pc = "repaid"]
             ELSE \/ req'[s] = req[s]
                  \/ Active(s) /\ req'[s] = [req[s] EXCEPT !.stale = req'[s].stale]
                               /\ req[s].stale \subseteq req'[s].stale
  <2>1. Active(r)
    BY <1>8 DEF RefundApi, Busy, Active
  <2>2. CASE gate[req[r].t] = "captured"
    BY <1>8, <2>2 DEF RefundApi, TypeOK
  <2>3. CASE gate[req[r].t] # "captured"
    BY <1>8, <2>1, <2>3, MoveEffect DEF RefundApi, Idle
  <2> QED BY <2>2, <2>3
<1>9. ASSUME NEW u \in Users, NEW a \in Spends, Spend(u, a)
      PROVE  \/ req'[s] = req[s]
             \/ Active(s) /\ req'[s] = [req[s] EXCEPT !.stale = req'[s].stale]
                          /\ req[s].stale \subseteq req'[s].stale
  <2>1. CASE Active(s) /\ Owner[req[s].t] = u
    <3>1. req[s] \in Running
      BY <2>1, ActiveIsRunning
    <3>2. req'[s] = [req[s] EXCEPT !.stale = req[s].stale \cup {"user"}]
      BY <1>9, <2>1 DEF Spend, Active
    <3> QED BY <2>1, <3>1, <3>2 DEF Running
  <2>2. CASE ~(Active(s) /\ Owner[req[s].t] = u)
    BY <1>9, <2>2 DEF Spend, Active
  <2> QED BY <2>1, <2>2
<1>10. CASE Crash
  BY <1>10 DEF Crash, Idle
<1>11. CASE req'[s] = req[s]
  BY <1>11, ActiveIsRunning DEF Active, Running
<1> QED BY <1>1, <1>2, <1>3, <1>4, <1>5, <1>6, <1>7, <1>8, <1>9, <1>10, <1>11 DEF Next, vars

LEMMA NextChecked == TypeOK /\ Checked /\ [Next]_vars => Checked'
<1> SUFFICES ASSUME TypeOK, Checked, [Next]_vars, NEW s \in Requests, Active(s)'
             PROVE  /\ req'[s].kind \in {"verify", "apple"} /\ req'[s].outcome = "completed"
                         => gate'[req'[s].t] # "open"
                    /\ req'[s].pc = "priced"
                         => req'[s].kind \in {"verify", "apple"} /\ req'[s].outcome = "completed"
                    /\ req'[s].kind = "apple" => req'[s].outcome = "completed"
                    /\ req'[s].kind = "refund" => req'[s].t \in Orders
                    /\ req'[s].kind = "appleRefund" => req'[s].t \in Purchases
                    /\ req'[s].pc = "repaid" => req'[s].kind = "refund" /\ gate'[req'[s].t] = "refunded"
  BY DEF Checked
<1>1. \A t \in Recharges : /\ gate[t] # "open" => gate'[t] # "open"
                           /\ gate[t] = "refunded" => gate'[t] = "refunded"
  BY GateForward
<1>2. \A t \in Orders \cup Purchases : t \in Recharges
  BY DEF Recharges
<1>3. CASE Active(s) /\ req'[s] = [req[s] EXCEPT !.stale = req'[s].stale]
  <2>1. req[s] \in Running
    BY <1>3, ActiveIsRunning
  <2>2. /\ req'[s].kind = req[s].kind /\ req'[s].t = req[s].t
        /\ req'[s].outcome = req[s].outcome /\ req'[s].pc = req[s].pc
        /\ req[s].t \in Recharges
    BY <1>3, <2>1 DEF Running
  <2> QED BY <1>1, <1>3, <2>2 DEF Checked
<1>4. CASE PriceBonus(s)
  <2>1. req[s] \in Running /\ Active(s)
    BY <1>4, ActiveIsRunning DEF PriceBonus, Busy, Active
  <2>2. /\ req'[s].kind = req[s].kind /\ req'[s].t = req[s].t
        /\ req'[s].outcome = req[s].outcome /\ req'[s].pc = "priced"
        /\ req[s].t \in Recharges
    BY <1>4, <2>1 DEF PriceBonus, TypeOK, Running
  <2>3. req[s].kind = "apple" => req[s].outcome = "completed"
    BY <2>1, <1>4 DEF PriceBonus, Busy, Checked
  <2> QED BY <1>1, <1>4, <2>1, <2>2, <2>3 DEF Checked, PriceBonus, Busy
<1>5. CASE RefundApi(s) /\ req'[s] = [req[s] EXCEPT !.pc = "repaid"]
  <2>1. req[s] \in Running /\ Active(s) /\ req[s].kind = "refund"
    BY <1>5, ActiveIsRunning DEF RefundApi, Busy, Active
  <2>2. /\ req'[s].kind = "refund" /\ req'[s].t = req[s].t /\ req'[s].pc = "repaid"
        /\ req[s].t \in Recharges
    BY <1>5, <2>1 DEF Running
  <2>3. gate'[req[s].t] = "refunded"
    BY <1>5, <2>2 DEF RefundApi, TypeOK
  <2> QED BY <2>1, <2>2, <2>3 DEF Checked
<1>6. ASSUME NEW t \in Orders, NEW outcome \in {"completed", "failed"},
             req'[s] = [pc |-> "begun", kind |-> "verify", t |-> t, outcome |-> outcome,
                        first |-> FALSE, stale |-> {}],
             outcome = "completed" => gate[t] # "open"
      PROVE  outcome = "completed" => gate'[t] # "open"
  BY <1>1, <1>2, <1>6
<1>8. ASSUME NEW t \in Orders, NEW pc \in {"begun", "repaid"},
             req'[s] = [pc |-> pc, kind |-> "refund", t |-> t, outcome |-> "completed",
                        first |-> FALSE, stale |-> {}],
             pc = "repaid" => gate[t] = "refunded"
      PROVE  pc = "repaid" => gate'[t] = "refunded"
  BY <1>1, <1>2, <1>8
<1>9. CASE \E t \in Orders, outcome \in {"completed", "failed"} :
              /\ req'[s] = [pc |-> "begun", kind |-> "verify", t |-> t, outcome |-> outcome,
                            first |-> FALSE, stale |-> {}]
              /\ outcome = "completed" => gate[t] # "open"
  BY <1>6, <1>9
<1>10. CASE \E t \in Purchases, kind \in {"apple", "appleRefund"} :
              /\ req'[s] = [pc |-> "begun", kind |-> kind, t |-> t, outcome |-> "completed",
                            first |-> FALSE, stale |-> {}]
              /\ gate[t] # "open"
  <2>1. PICK t \in Purchases, kind \in {"apple", "appleRefund"} :
              /\ req'[s] = [pc |-> "begun", kind |-> kind, t |-> t, outcome |-> "completed",
                            first |-> FALSE, stale |-> {}]
              /\ gate[t] # "open"
    BY <1>10
  <2>2. gate'[t] # "open"
    BY <1>1, <1>2, <2>1
  <2> QED BY <2>1, <2>2
<1>11. CASE \E t \in Orders, pc \in {"begun", "repaid"} :
              /\ req'[s] = [pc |-> pc, kind |-> "refund", t |-> t, outcome |-> "completed",
                            first |-> FALSE, stale |-> {}]
              /\ pc = "repaid" => gate[t] = "refunded"
  BY <1>8, <1>11
<1> QED BY <1>3, <1>4, <1>5, <1>9, <1>10, <1>11, SlotStep DEF Active

----------------
(* Rows, gateway and bonuses.                                              *)

\* What a step does to one row.
LEMMA RowStep ==
  ASSUME TypeOK, Checked, [Next]_vars, NEW t \in Recharges
  PROVE  \/ row'[t] = row[t]
         \/ row[t].status = "none" /\ row'[t] = [row[t] EXCEPT !.status = "pending"]
         \/ row'[t] = [row[t] EXCEPT !.status = "failed", !.paid = TRUE]
         \/ row'[t] = [row[t] EXCEPT !.status = "refunded"] /\ gate[t] = "refunded"
         \/ \E r \in Requests :
              /\ CommitCredit(r) /\ t = req[r].t
              /\ row'[t] = [status |-> "completed", paid |-> TRUE, credit |-> Price[t],
                            first |-> req[r].first, bonus |-> BonusFor(Price[t], req[r].first),
                            welcome |-> WelcomeFor(t)]
<1>1. ASSUME NEW c \in Recharges, CreateRechargeTransaction(c)
      PROVE  \/ row'[t] = row[t]
             \/ row[t].status = "none" /\ row'[t] = [row[t] EXCEPT !.status = "pending"]
  BY <1>1 DEF CreateRechargeTransaction, TypeOK
<1>2. ASSUME NEW r \in Requests, CommitFailed(r)
      PROVE  \/ row'[t] = row[t]
             \/ row'[t] = [row[t] EXCEPT !.status = "failed", !.paid = TRUE]
  BY <1>2 DEF CommitFailed, TypeOK
<1>3. ASSUME NEW r \in Requests, CommitRefund(r)
      PROVE  \/ row'[t] = row[t]
             \/ row'[t] = [row[t] EXCEPT !.status = "refunded"] /\ gate[t] = "refunded"
  <2>1. gate[req[r].t] = "refunded"
    BY <1>3 DEF CommitRefund, Busy, Checked, Active
  <2> QED BY <1>3, <2>1 DEF CommitRefund, TakeBack, TypeOK
<1>4. ASSUME NEW r \in Requests, CommitCredit(r)
      PROVE  \/ row'[t] = row[t]
             \/ /\ t = req[r].t
                /\ row'[t] = [status |-> "completed", paid |-> TRUE, credit |-> Price[t],
                              first |-> req[r].first, bonus |-> BonusFor(Price[t], req[r].first),
                              welcome |-> WelcomeFor(t)]
  BY <1>4 DEF CommitCredit, Credit, TypeOK
<1>5. CASE UNCHANGED row
  BY <1>5
<1> QED
  BY <1>1, <1>2, <1>3, <1>4, <1>5 DEF Next, vars, Capture, AppleRefunds, Webhook, ClientVerify,
     VerifyBegin, AppleBegin, RefundBegin, AppleRefundBegin, PriceBonus, RefundApi,
     CommitAppleRefund, Abort, Spend, Crash

LEMMA NextGateway == RInv /\ [Next]_vars => GatewayAgrees'
<1> SUFFICES ASSUME RInv, [Next]_vars, NEW t \in Recharges
             PROVE  /\ row'[t].status = "completed" => gate'[t] # "open"
                    /\ row'[t].status = "refunded" => gate'[t] = "refunded"
  BY DEF GatewayAgrees
<1>1. /\ gate[t] # "open" => gate'[t] # "open"
      /\ gate[t] = "refunded" => gate'[t] = "refunded"
  BY GateForward DEF RInv
<1>2. row[t] \in Rows
  BY DEF RInv, TypeOK
<1>3. ASSUME NEW r \in Requests, CommitCredit(r), t = req[r].t
      PROVE  gate[t] # "open"
  BY <1>3 DEF RInv, Checked, CommitCredit, Active
<1>4. CASE row'[t] = row[t]
  BY <1>1, <1>4 DEF RInv, GatewayAgrees
<1>5. CASE \/ row'[t] = [row[t] EXCEPT !.status = "pending"]
           \/ row'[t] = [row[t] EXCEPT !.status = "failed", !.paid = TRUE]
  <2>1. row'[t].status \in {"pending", "failed"}
    BY <1>2, <1>5 DEF Rows
  <2> QED BY <2>1
<1>6. CASE row'[t] = [row[t] EXCEPT !.status = "refunded"] /\ gate[t] = "refunded"
  <2>1. row'[t].status = "refunded"
    BY <1>2, <1>6 DEF Rows
  <2> QED BY <1>1, <1>6, <2>1
<1>7. CASE \E r \in Requests :
              /\ CommitCredit(r) /\ t = req[r].t
              /\ row'[t] = [status |-> "completed", paid |-> TRUE, credit |-> Price[t],
                            first |-> req[r].first, bonus |-> BonusFor(Price[t], req[r].first),
                            welcome |-> WelcomeFor(t)]
  <2>1. row'[t].status = "completed"
    BY <1>7
  <2> QED BY <1>1, <1>3, <1>7, <2>1
<1> QED BY <1>4, <1>5, <1>6, <1>7, RowStep DEF RInv

LEMMA InitInv == Init => BonusInv
<1> SUFFICES ASSUME Init
             PROVE  BonusInv
  OBVIOUS
<1>1. TypeOK
  BY InitType
<1>2. Checked /\ GatewayAgrees /\ FreshFirst /\ OneFirst /\ OneWelcome
  BY DEF Init, Checked, Active, Idle, GatewayAgrees, FreshFirst, OneFirst, OneWelcome
<1> QED BY <1>1, <1>2 DEF BonusInv, RInv

LEMMA NextInv == RInv /\ [Next]_vars => RInv'
  BY NextType, NextChecked, NextGateway DEF RInv

\* Every value stays in its range; no wallet goes into debt.
THEOREM RechargeTypeOK == Spec => []TypeOK
<1>1. Init => RInv
  BY InitInv DEF BonusInv
<1>2. RInv => TypeOK
  BY DEF RInv
<1> QED BY <1>1, <1>2, NextInv, PTL DEF Spec

\* No recharge is credited without a captured payment, none taken back
\* without a refund at the gateway.
THEOREM RechargeGateway == Spec => []GatewayAgrees
<1>1. Init => RInv
  BY InitInv DEF BonusInv
<1>2. RInv => GatewayAgrees
  BY DEF RInv
<1> QED BY <1>1, <1>2, NextInv, PTL DEF Spec

----------------
(* Bonuses are granted once.                                               *)

LEMMA StatusStep ==
  ASSUME RInv, [Next]_vars, NEW t \in Recharges
  PROVE  \/ row'[t].status = row[t].status /\ row'[t].first = row[t].first
                                          /\ row'[t].welcome = row[t].welcome
         \/ row'[t].status # "completed" /\ row'[t].welcome = row[t].welcome
         \/ \E r \in Requests : CommitCredit(r) /\ t = req[r].t
                               /\ row'[t].first = req[r].first /\ row'[t].welcome = WelcomeFor(t)
<1>1. row[t] \in Rows
  BY DEF RInv, TypeOK
<1>2. CASE \/ row'[t] = [row[t] EXCEPT !.status = "pending"]
           \/ row'[t] = [row[t] EXCEPT !.status = "failed", !.paid = TRUE]
           \/ row'[t] = [row[t] EXCEPT !.status = "refunded"]
  BY <1>1, <1>2 DEF Rows
<1>3. CASE \E r \in Requests :
              /\ CommitCredit(r) /\ t = req[r].t
              /\ row'[t] = [status |-> "completed", paid |-> TRUE, credit |-> Price[t],
                            first |-> req[r].first, bonus |-> BonusFor(Price[t], req[r].first),
                            welcome |-> WelcomeFor(t)]
  <2>1. PICK r \in Requests : CommitCredit(r) /\ t = req[r].t
              /\ row'[t] = [status |-> "completed", paid |-> TRUE, credit |-> Price[t],
                            first |-> req[r].first, bonus |-> BonusFor(Price[t], req[r].first),
                            welcome |-> WelcomeFor(t)]
    BY <1>3
  <2>2. row'[t].first = req[r].first /\ row'[t].welcome = WelcomeFor(t)
    BY <2>1
  <2> QED BY <2>1, <2>2
<1>4. CASE row'[t] = row[t]
  BY <1>4
<1> QED BY <1>2, <1>3, <1>4, RowStep DEF RInv

\* A commit of a credit leaves the other rows alone and marks the requests of
\* the same user stale.
LEMMA CreditEffect ==
  ASSUME TypeOK, NEW r \in Requests, CommitCredit(r)
  PROVE  /\ req[r].t \in Recharges
         /\ \A t \in Recharges : t # req[r].t => row'[t] = row[t]
         /\ req'[r].pc = "idle"
         /\ \A s \in Requests \ {r} :
              Active(s) /\ Owner[req[s].t] = Owner[req[r].t] => "user" \in req'[s].stale
<1>1. Active(r) /\ req[r] \in Running
  BY ActiveIsRunning DEF CommitCredit, Active
<1>2. Move(r, Idle, {"user", "row"})
  BY DEF CommitCredit, Credit
<1>3. Idle \in Running \cup {Idle} /\ {"user", "row"} \in SUBSET {"user", "row"}
  OBVIOUS
<1>4. /\ req'[r] = Idle
      /\ \A s \in Requests \ {r} :
           Active(s) /\ Owner[req[s].t] = Owner[req[r].t] => "user" \in req'[s].stale
  BY <1>1, <1>2, <1>3, MoveEffect
<1>5. \A t \in Recharges : t # req[r].t => row'[t] = row[t]
  BY DEF CommitCredit, Credit, TypeOK
<1> QED BY <1>1, <1>4, <1>5 DEF Running, Idle

LEMMA NextFreshFirst == BonusInv /\ [Next]_vars => FreshFirst'
<1> SUFFICES ASSUME BonusInv, [Next]_vars, NEW s \in Requests,
                    req'[s].pc = "priced", req'[s].first, "user" \notin req'[s].stale,
                    NEW t \in Recharges, Owner[t] = Owner[req'[s].t]
             PROVE  row'[t].status # "completed"
  BY DEF FreshFirst, FirstRecharge, Of
<1> USE DEF BonusInv, RInv
<1>1. \/ /\ Active(s) /\ req'[s] = [req[s] EXCEPT !.stale = req'[s].stale]
         /\ req[s].stale \subseteq req'[s].stale
      \/ PriceBonus(s)
  <2>1. RefundApi(s) /\ req'[s] = [req[s] EXCEPT !.pc = "repaid"] => req'[s].pc = "repaid"
    BY ActiveIsRunning DEF RefundApi, Busy, Active, Running
  <2>2. ASSUME NEW pc, NEW kind, NEW o, NEW outcome,
               req'[s] = [pc |-> pc, kind |-> kind, t |-> o, outcome |-> outcome,
                          first |-> FALSE, stale |-> {}]
        PROVE  FALSE
    <3>1. req'[s].first = FALSE
      BY <2>2
    <3> QED BY <3>1
  <2>3. CASE \E o \in Orders, outcome \in {"completed", "failed"} :
              /\ req'[s] = [pc |-> "begun", kind |-> "verify", t |-> o, outcome |-> outcome,
                            first |-> FALSE, stale |-> {}]
              /\ outcome = "completed" => gate[o] # "open"
    <3>1. PICK o \in Orders, outcome \in {"completed", "failed"} :
              req'[s] = [pc |-> "begun", kind |-> "verify", t |-> o, outcome |-> outcome,
                         first |-> FALSE, stale |-> {}]
      BY <2>3
    <3> QED BY <2>2, <3>1
  <2>4. CASE \E o \in Purchases, kind \in {"apple", "appleRefund"} :
              /\ req'[s] = [pc |-> "begun", kind |-> kind, t |-> o, outcome |-> "completed",
                            first |-> FALSE, stale |-> {}]
              /\ gate[o] # "open"
    <3>1. PICK o \in Purchases, kind \in {"apple", "appleRefund"} :
              req'[s] = [pc |-> "begun", kind |-> kind, t |-> o, outcome |-> "completed",
                         first |-> FALSE, stale |-> {}]
      BY <2>4
    <3> QED BY <2>2, <3>1
  <2>5. CASE \E o \in Orders, pc \in {"begun", "repaid"} :
              /\ req'[s] = [pc |-> pc, kind |-> "refund", t |-> o, outcome |-> "completed",
                            first |-> FALSE, stale |-> {}]
              /\ pc = "repaid" => gate[o] = "refunded"
    <3>1. PICK o \in Orders, pc \in {"begun", "repaid"} :
              req'[s] = [pc |-> pc, kind |-> "refund", t |-> o, outcome |-> "completed",
                         first |-> FALSE, stale |-> {}]
      BY <2>5
    <3> QED BY <2>2, <3>1
  <2> QED BY <2>1, <2>3, <2>4, <2>5, SlotStep
<1>2. row[t].status # "completed" /\ req'[s].t = req[s].t /\ Active(s)
  <2>1. CASE PriceBonus(s)
    <3>1. req[s] \in Running /\ Active(s)
      BY <2>1, ActiveIsRunning DEF PriceBonus, Busy, Active
    <3>2. req'[s].t = req[s].t /\ req'[s].first = FirstRecharge(Owner[req[s].t])
      BY <2>1, <3>1 DEF PriceBonus, TypeOK, Running
    <3> QED BY <3>1, <3>2 DEF FirstRecharge, Of
  <2>2. CASE /\ Active(s) /\ req'[s] = [req[s] EXCEPT !.stale = req'[s].stale]
             /\ req[s].stale \subseteq req'[s].stale
    <3>1. req[s] \in Running
      BY <2>2, ActiveIsRunning
    <3>2. /\ req[s].pc = "priced" /\ req[s].first /\ "user" \notin req[s].stale
          /\ req'[s].t = req[s].t
      BY <2>2, <3>1 DEF Running
    <3>3. FirstRecharge(Owner[req[s].t])
      BY <3>2 DEF FreshFirst
    <3> QED BY <2>2, <3>2, <3>3 DEF FirstRecharge, Of
  <2> QED BY <1>1, <2>1, <2>2
<1>3. ASSUME NEW r \in Requests, CommitCredit(r), t = req[r].t
      PROVE  FALSE
  <2>1. r # s
    BY <1>3, CreditEffect
  <2> QED BY <1>2, <1>3, <2>1, CreditEffect
<1> QED BY <1>2, <1>3, StatusStep

LEMMA NextOneFirst == BonusInv /\ [Next]_vars => OneFirst'
<1> SUFFICES ASSUME BonusInv, [Next]_vars, NEW t1 \in Recharges, NEW t2 \in Recharges,
                    Owner[t1] = Owner[t2],
                    row'[t1].status = "completed", row'[t1].first,
                    row'[t2].status = "completed", row'[t2].first,
                    t1 # t2
             PROVE  FALSE
  BY DEF OneFirst
<1> USE DEF BonusInv, RInv
<1>1. ASSUME NEW r \in Requests, CommitCredit(r), NEW a \in Recharges, NEW b \in Recharges,
             a = req[r].t, row'[a].first = req[r].first, row'[a].first, b # a,
             Owner[a] = Owner[b], row'[b].status = "completed"
      PROVE  FALSE
  <2>1. FirstRecharge(Owner[a])
    BY <1>1 DEF FreshFirst, CommitCredit
  <2>2. row'[b] = row[b]
    BY <1>1, CreditEffect
  <2> QED BY <1>1, <2>1, <2>2 DEF FirstRecharge, Of
<1> QED BY <1>1, StatusStep DEF OneFirst

LEMMA NextOneWelcome == BonusInv /\ [Next]_vars => OneWelcome'
<1> SUFFICES ASSUME BonusInv, [Next]_vars, NEW t1 \in Recharges, NEW t2 \in Recharges,
                    Owner[t1] = Owner[t2], row'[t1].welcome > 0, row'[t2].welcome > 0, t1 # t2
             PROVE  FALSE
  BY DEF OneWelcome
<1> USE DEF BonusInv, RInv
<1>1. ASSUME NEW r \in Requests, CommitCredit(r), NEW a \in Recharges, NEW b \in Recharges,
             a = req[r].t, row'[a].welcome = WelcomeFor(a), row'[a].welcome > 0, b # a,
             Owner[a] = Owner[b], row'[b].welcome > 0
      PROVE  FALSE
  <2>1. Eligible(Owner[a])
    BY <1>1 DEF WelcomeFor
  <2>2. row'[b] = row[b]
    BY <1>1, CreditEffect
  <2> QED BY <1>1, <2>1, <2>2 DEF Eligible, Of
<1> QED BY <1>1, StatusStep DEF OneWelcome

LEMMA NextBonusInv == BonusInv /\ [Next]_vars => BonusInv'
  BY NextInv, NextFreshFirst, NextOneFirst, NextOneWelcome DEF BonusInv

\* A set without two different members has at most one.
LEMMA AtMostOne ==
  ASSUME NEW S, \A a, b \in S : a = b
  PROVE  Cardinality(S) <= 1
<1>1. CASE S = {}
  BY <1>1, FS_EmptySet
<1>2. CASE S # {}
  <2>1. PICK a : S = {a}
    BY <1>2
  <2> QED BY <2>1, FS_Singleton
<1> QED BY <1>1, <1>2

\* Whatever a user's requests do at once, at most one recharge the user keeps
\* has the bonus of a first recharge.
THEOREM RechargeFirstBonus == Spec => []FirstBonusOnce
<1>1. BonusInv => FirstBonusOnce
  <2> SUFFICES ASSUME BonusInv, NEW u \in Users
               PROVE  Cardinality({t \in Of(u) : row[t].status = "completed" /\ row[t].first}) <= 1
    BY DEF FirstBonusOnce
  <2> DEFINE F == {t \in Of(u) : row[t].status = "completed" /\ row[t].first}
  <2>1. \A a, b \in F : a = b
    BY DEF BonusInv, OneFirst, Of
  <2> QED BY <2>1, AtMostOne
<1> QED BY <1>1, InitInv, NextBonusInv, PTL DEF Spec

\* At most one recharge of a user ever had the welcome bonus, a refunded one
\* included.
THEOREM RechargeWelcome == Spec => []WelcomeOnce
<1>1. BonusInv => WelcomeOnce
  <2> SUFFICES ASSUME BonusInv, NEW u \in Users
               PROVE  Cardinality({t \in Of(u) : row[t].welcome > 0}) <= 1
    BY DEF WelcomeOnce
  <2> DEFINE W == {t \in Of(u) : row[t].welcome > 0}
  <2>1. \A a, b \in W : a = b
    BY DEF BonusInv, OneWelcome, Of
  <2> QED BY <2>1, AtMostOne
<1> QED BY <1>1, InitInv, NextBonusInv, PTL DEF Spec

----------------
(* Every rupee of cash.                                                    *)

\* What a running request has read of its row still holds, unless another
\* commit marked it stale.
FreshRow(r) ==
  /\ req[r].kind = "verify" =>
       req[r].t \in Orders /\ ("row" \notin req[r].stale => row[req[r].t].status = "pending")
  /\ req[r].kind = "apple" =>
       req[r].t \in Purchases /\ ("row" \notin req[r].stale => row[req[r].t].status = "none")
  /\ req[r].kind = "refund" /\ "row" \notin req[r].stale => row[req[r].t].status # "refunded"
  /\ req[r].kind = "appleRefund" =>
       row[req[r].t].status = "completed" /\ ("user" \notin req[r].stale => taken[req[r].t] = -1)
Fresh == \A r \in Requests : Active(r) => FreshRow(r)

\* Nothing is credited before it is completed, nor taken back from Apple
\* purchases that were not credited.
Uncredited ==
  /\ \A t \in Recharges : row[t].status \in {"none", "pending"} => row[t].credit = 0
  /\ \A p \in Purchases : \/ row[p].status = "none" /\ taken[p] = -1
                          \/ row[p].status = "completed"

CashInv == RInv /\ Fresh /\ Uncredited /\ CashAccounted

Kept(s) ==
  /\ Active(s) /\ req[s].stale \subseteq req'[s].stale
  /\ req'[s].kind = req[s].kind /\ req'[s].t = req[s].t

\* A request that runs after a step ran before it, or has just started.
LEMMA SlotSource ==
  ASSUME TypeOK, Checked, [Next]_vars, NEW s \in Requests, Active(s)'
  PROVE  Kept(s) \/ \E t \in Recharges : Started(s, t)
<1>1. CASE Active(s) /\ req'[s] = [req[s] EXCEPT !.stale = req'[s].stale]
                     /\ req[s].stale \subseteq req'[s].stale
  BY <1>1, ActiveIsRunning DEF Kept, Running
<1>2. CASE PriceBonus(s)
  <2>1. req[s] \in Running /\ Active(s)
    BY <1>2, ActiveIsRunning DEF PriceBonus, Busy, Active
  <2> QED BY <1>2, <2>1 DEF Kept, PriceBonus, TypeOK, Running
<1>3. CASE RefundApi(s) /\ req'[s] = [req[s] EXCEPT !.pc = "repaid"]
  <2>1. req[s] \in Running /\ Active(s)
    BY <1>3, ActiveIsRunning DEF RefundApi, Busy, Active
  <2> QED BY <1>3, <2>1 DEF Kept, Running
<1>4. \A t : t \in Orders \/ t \in Purchases => t \in Recharges
  BY DEF Recharges
<1> QED BY <1>1, <1>2, <1>3, <1>4, SlotStep DEF Active

\* The recharge of a running request.
LEMMA Recharging ==
  ASSUME TypeOK, NEW r \in Requests, Active(r)
  PROVE  req[r].t \in Recharges /\ Owner[req[r].t] \in Users /\ Price[req[r].t] \in Nat
  BY ActiveIsRunning, RechargeAssumption DEF Running

\* A commit that writes a row marks the other requests of the row.
LEMMA CommitMarks ==
  ASSUME TypeOK, NEW r \in Requests, NEW s \in Requests \ {r}, Active(s),
         CommitCredit(r) \/ CommitFailed(r) \/ CommitRefund(r)
  PROVE  /\ taken' = taken
         /\ \/ row'[req[s].t] = row[req[s].t]
            \/ req[s].t = req[r].t /\ "row" \in req'[s].stale
<1>1. Active(r)
  BY DEF CommitCredit, CommitFailed, CommitRefund, Busy, Active
<1>2. req[r].t \in Recharges /\ req[s].t \in Recharges
  BY <1>1, Recharging
<1>3. taken' = taken
  BY DEF CommitCredit, Credit, CommitFailed, CommitRefund
<1>4. CASE row' = row
  BY <1>3, <1>4
<1>5. CASE \E w : row' = [row EXCEPT ![req[r].t] = w]
           /\ \E written \in SUBSET {"user", "row"} : "row" \in written /\ Move(r, Idle, written)
  <2>1. req[s].t = req[r].t => "row" \in req'[s].stale
    BY <1>1, <1>5, MoveEffect
  <2> QED BY <1>2, <1>3, <1>5, <2>1 DEF TypeOK
<1>6. CASE CommitCredit(r)
  BY <1>5, <1>6 DEF CommitCredit, Credit
<1>7. CASE CommitFailed(r)
  BY <1>5, <1>7 DEF CommitFailed
<1>8. CASE CommitRefund(r)
  BY <1>4, <1>5, <1>8 DEF CommitRefund, TakeBack
<1> QED BY <1>6, <1>7, <1>8

\* Purchases are not orders.
LEMMA KindsApart ==
  ASSUME TypeOK, Checked, Fresh, NEW r \in Requests, Active(r)
  PROVE  /\ req[r].kind \in {"verify", "refund"} => req[r].t \in Orders /\ req[r].t \notin Purchases
         /\ req[r].kind \in {"apple", "appleRefund"}
              => req[r].t \in Purchases /\ req[r].t \notin Orders
  BY RechargeAssumption DEF Checked, Fresh, FreshRow

\* The rest of a step leaves rows alone.
LEMMA RowsKept ==
  ASSUME [Next]_vars
  PROVE  \/ \E t \in Recharges : CreateRechargeTransaction(t)
         \/ \E r \in Requests : CommitCredit(r) \/ CommitFailed(r) \/ CommitRefund(r)
         \/ \E r \in Requests : CommitAppleRefund(r)
         \/ row' = row /\ taken' = taken
  BY DEF Next, vars, Capture, AppleRefunds, Webhook, ClientVerify, VerifyBegin, AppleBegin,
     RefundBegin, AppleRefundBegin, PriceBonus, RefundApi, Abort, Spend, Crash

LEMMA StartFields ==
  ASSUME TypeOK, NEW s \in Requests, NEW t, NEW kind, NEW outcome, NEW pc,
         Start(s, kind, t, outcome, pc)
  PROVE  req'[s].kind = kind /\ req'[s].t = t /\ req'[s].stale = {}
<1>1. req'[s] = [pc |-> pc, kind |-> kind, t |-> t, outcome |-> outcome, first |-> FALSE, stale |-> {}]
  BY DEF Start, TypeOK
<1> QED BY <1>1

LEMMA StartedFresh ==
  ASSUME TypeOK, NEW s \in Requests, NEW t \in Recharges, Started(s, t)
  PROVE  FreshRow(s)'
<1>1. row' = row /\ taken' = taken
  BY DEF Started, Webhook, ClientVerify, VerifyBegin, AppleBegin, RefundBegin, AppleRefundBegin
<1>2. CASE Webhook(s, t) \/ ClientVerify(s, t)
  <2>1. t \in Orders /\ row[t].status = "pending"
    BY <1>2 DEF Webhook, ClientVerify, VerifyBegin
  <2>2. req'[s].kind = "verify" /\ req'[s].t = t
    BY <1>2, StartFields DEF Webhook, ClientVerify, VerifyBegin
  <2> QED BY <1>1, <2>1, <2>2 DEF FreshRow
<1>3. CASE AppleBegin(s, t)
  <2>1. t \in Purchases /\ row[t].status = "none"
    BY <1>3 DEF AppleBegin
  <2>2. req'[s].kind = "apple" /\ req'[s].t = t
    BY <1>3, StartFields DEF AppleBegin
  <2> QED BY <1>1, <2>1, <2>2 DEF FreshRow
<1>4. CASE RefundBegin(s, t)
  <2>1. t \in Orders /\ row[t].status # "refunded"
    BY <1>4 DEF RefundBegin
  <2>2. req'[s].kind = "refund" /\ req'[s].t = t
    BY <1>4, StartFields DEF RefundBegin
  <2> QED BY <1>1, <2>1, <2>2 DEF FreshRow
<1>5. CASE AppleRefundBegin(s, t)
  <2>1. row[t].status = "completed" /\ taken[t] = -1
    BY <1>5 DEF AppleRefundBegin
  <2>2. req'[s].kind = "appleRefund" /\ req'[s].t = t
    BY <1>5, StartFields DEF AppleRefundBegin
  <2> QED BY <1>1, <2>1, <2>2 DEF FreshRow
<1> QED BY <1>2, <1>3, <1>4, <1>5 DEF Started

LEMMA NextFresh == RInv /\ Fresh /\ [Next]_vars => Fresh'
<1> SUFFICES ASSUME RInv, Fresh, [Next]_vars, NEW s \in Requests, Active(s)'
             PROVE  FreshRow(s)'
  BY DEF Fresh
<1> USE DEF RInv
<1>1. CASE \E t \in Recharges : Started(s, t)
  BY <1>1, StartedFresh
<1>2. CASE Kept(s)
  <2> DEFINE t == req[s].t
  <2>1. FreshRow(s) /\ t \in Recharges /\ Active(s)
    BY <1>2, Recharging DEF Fresh, Kept
  <2>2. ASSUME NEW r \in Requests,
               CommitCredit(r) \/ CommitFailed(r) \/ CommitRefund(r) \/ CommitAppleRefund(r)
        PROVE  r # s /\ Active(r)
    <3>1. Active(r)
      BY <2>2 DEF CommitCredit, CommitFailed, CommitRefund, CommitAppleRefund, Busy, Active
    <3>2. PICK written \in SUBSET {"user", "row"} : Move(r, Idle, written)
      BY <2>2 DEF CommitCredit, Credit, CommitFailed, CommitRefund, TakeBack, CommitAppleRefund
    <3>3. req'[r] = Idle
      BY <3>1, <3>2, MoveEffect
    <3> QED BY <3>1, <3>3 DEF Active, Idle
  <2>3. ASSUME NEW c \in Recharges, CreateRechargeTransaction(c)
        PROVE  FreshRow(s)'
    <3>1. taken' = taken /\ req' = req /\ c \in Orders
      BY <2>3 DEF CreateRechargeTransaction
    <3>2. CASE t # c
      <4>1. row'[t] = row[t]
        BY <2>1, <2>3, <3>2 DEF CreateRechargeTransaction, TypeOK
      <4> QED BY <2>1, <3>1, <4>1 DEF FreshRow
    <3>3. CASE t = c
      <4>1. row[t].status = "none" /\ row'[t].status = "pending"
        BY <2>1, <2>3, <3>3 DEF CreateRechargeTransaction, TypeOK, Rows
      <4>2. t \notin Purchases
        BY <3>1, <3>3, RechargeAssumption
      <4> QED BY <2>1, <3>1, <4>1, <4>2 DEF FreshRow
    <3> QED BY <3>2, <3>3
  <2>4. ASSUME NEW r \in Requests, CommitCredit(r) \/ CommitFailed(r) \/ CommitRefund(r)
        PROVE  FreshRow(s)'
    <3>1. r # s /\ Active(r)
      BY <2>2, <2>4
    <3>2. taken' = taken /\ (row'[t] = row[t] \/ (t = req[r].t /\ "row" \in req'[s].stale))
      BY <2>1, <2>4, <3>1, CommitMarks
    <3>3. CASE row'[t] = row[t]
      BY <1>2, <2>1, <3>2, <3>3 DEF FreshRow, Kept
    <3>4. CASE t = req[r].t /\ "row" \in req'[s].stale
      <4>1. ASSUME req[s].kind = "appleRefund"
            PROVE  row'[t].status = "completed"
        <5>1. t \in Purchases /\ t \notin Orders
          BY <2>1, <4>1, KindsApart
        <5>2. req[r].kind \notin {"verify", "refund"}
          BY <3>1, <3>4, <5>1, KindsApart
        <5>3. CommitCredit(r)
          BY <2>4, <5>2 DEF CommitFailed, CommitRefund, Busy
        <5> QED BY <2>1, <3>4, <5>3 DEF CommitCredit, Credit, TypeOK
      <4> QED BY <1>2, <2>1, <3>2, <3>4, <4>1 DEF FreshRow, Kept
    <3> QED BY <3>2, <3>3, <3>4
  <2>5. ASSUME NEW r \in Requests, CommitAppleRefund(r)
        PROVE  FreshRow(s)'
    <3>1. r # s /\ Active(r)
      BY <2>2, <2>5
    <3>2. row' = row /\ Move(r, Idle, {"user"})
      BY <2>5 DEF CommitAppleRefund
    <3>3. {"user"} \in SUBSET {"user", "row"} /\ Idle \in Running \cup {Idle}
      OBVIOUS
    <3>4. Owner[t] = Owner[req[r].t] => "user" \in req'[s].stale
      BY <2>1, <3>1, <3>2, <3>3, MoveEffect
    <3>5. t # req[r].t /\ t \in Purchases => taken'[t] = taken[t]
      BY <2>5 DEF CommitAppleRefund, TypeOK
    <3>6. req[s].kind = "appleRefund" => t \in Purchases
      BY <2>1 DEF Checked
    <3> QED BY <1>2, <2>1, <3>2, <3>4, <3>5, <3>6 DEF FreshRow, Kept
  <2>6. CASE row' = row /\ taken' = taken
    BY <1>2, <2>1, <2>6 DEF FreshRow, Kept
  <2> QED BY <2>3, <2>4, <2>5, <2>6, RowsKept
<1> QED BY <1>1, <1>2, SlotSource

LEMMA NextUncredited == RInv /\ Fresh /\ Uncredited /\ [Next]_vars => Uncredited'
<1> SUFFICES ASSUME RInv, Fresh, Uncredited, [Next]_vars
             PROVE  Uncredited'
  OBVIOUS
<1> USE DEF RInv
<1>1. ASSUME NEW t \in Recharges
      PROVE  row'[t].status \in {"none", "pending"} => row'[t].credit = 0
  <2>1. row[t] \in Rows
    BY DEF TypeOK
  <2>2. CASE \/ row'[t] = [row[t] EXCEPT !.status = "failed", !.paid = TRUE]
             \/ row'[t] = [row[t] EXCEPT !.status = "refunded"]
    <3>1. row'[t].status \in {"failed", "refunded"}
      BY <2>1, <2>2 DEF Rows
    <3> QED BY <3>1
  <2>3. CASE row[t].status = "none" /\ row'[t] = [row[t] EXCEPT !.status = "pending"]
    BY <2>1, <2>3 DEF Uncredited, Rows
  <2>4. CASE row'[t] = row[t]
    BY <2>4 DEF Uncredited
  <2>5. CASE \E r \in Requests :
              /\ CommitCredit(r) /\ t = req[r].t
              /\ row'[t] = [status |-> "completed", paid |-> TRUE, credit |-> Price[t],
                            first |-> req[r].first, bonus |-> BonusFor(Price[t], req[r].first),
                            welcome |-> WelcomeFor(t)]
    <3>1. row'[t].status = "completed"
      BY <2>5
    <3> QED BY <3>1
  <2> QED BY <2>2, <2>3, <2>4, <2>5, RowStep
<1>2. ASSUME NEW p \in Purchases
      PROVE  \/ row'[p].status = "none" /\ taken'[p] = -1
             \/ row'[p].status = "completed"
  <2>1. p \in Recharges /\ p \notin Orders
    BY RechargeAssumption DEF Recharges
  <2>2. ASSUME NEW c \in Recharges, CreateRechargeTransaction(c)
        PROVE  row'[p] = row[p] /\ taken' = taken
    BY <2>1, <2>2 DEF CreateRechargeTransaction, TypeOK
  <2>3. ASSUME NEW r \in Requests, CommitFailed(r) \/ CommitRefund(r)
        PROVE  row'[p] = row[p] /\ taken' = taken
    <3>1. Active(r) /\ req[r].kind \in {"verify", "refund"}
      BY <2>3 DEF CommitFailed, CommitRefund, Busy, Active
    <3>2. req[r].t # p /\ req[r].t \in Recharges
      BY <2>1, <3>1, KindsApart, Recharging
    <3> QED BY <2>1, <2>3, <3>2 DEF CommitFailed, CommitRefund, TakeBack, TypeOK
  <2>4. ASSUME NEW r \in Requests, CommitCredit(r)
        PROVE  taken' = taken /\ (row'[p] = row[p] \/ row'[p].status = "completed")
    <3>1. req[r].t \in Recharges /\ \A t \in Recharges : t # req[r].t => row'[t] = row[t]
      BY <2>4, CreditEffect
    <3>2. row'[req[r].t].status = "completed"
      BY <2>4, <3>1 DEF CommitCredit, Credit, TypeOK
    <3> QED BY <2>1, <2>4, <3>1, <3>2 DEF CommitCredit, Credit
  <2>5. ASSUME NEW r \in Requests, CommitAppleRefund(r)
        PROVE  row' = row /\ (taken'[p] = taken[p] \/ row[p].status = "completed")
    <3>1. Active(r) /\ req[r].kind = "appleRefund"
      BY <2>5 DEF CommitAppleRefund, Busy, Active
    <3>2. row[req[r].t].status = "completed"
      BY <3>1 DEF Fresh, FreshRow
    <3> QED BY <2>5, <3>2 DEF CommitAppleRefund, TypeOK
  <2> QED BY <2>2, <2>3, <2>4, <2>5, RowsKept DEF Uncredited
<1> QED BY <1>1, <1>2 DEF Uncredited

LEMMA NetType ==
  ASSUME NEW t \in Recharges, row[t].credit \in Nat, t \in Purchases => taken[t] \in Nat \cup {-1}
  PROVE  Net[t] \in Int
  BY RechargeAssumption DEF Net, NotBelowZero, Recharges

LEMMA FiniteOf == ASSUME NEW u PROVE IsFiniteSet(Of(u))
<1>1. IsFiniteSet(Recharges)
  BY RechargeAssumption, FS_Union DEF Recharges
<1> QED BY <1>1, FS_Subset DEF Of

\* A step that changes the net value of one recharge by d, what is forgiven
\* its owner by e, and the owner's cash by both, keeps the accounts.
LEMMA OneRecharge ==
  ASSUME TypeOK, TypeOK', CashAccounted, NEW c \in Recharges, NEW d \in Int, NEW e \in Int,
         Net'[c] = Net[c] + d,
         \A t \in Recharges \ {c} : Net'[t] = Net[t],
         \A u \in Users :
           /\ wallet'[u].cash = IF u = Owner[c] THEN wallet[u].cash + d + e ELSE wallet[u].cash
           /\ forgiven'[u] = IF u = Owner[c] THEN forgiven[u] + e ELSE forgiven[u],
         cashSpent' = cashSpent
  PROVE  CashAccounted'
<1> SUFFICES ASSUME NEW u \in Users
             PROVE  wallet'[u].cash = SumFunctionOnSet(Net', Of(u)) - cashSpent'[u] + forgiven'[u]
  BY DEF CashAccounted, Of
<1>1. IntegerOn(Net, Of(u)) /\ IntegerOn(Net', Of(u))
  <2>1. \A t \in Recharges : Net[t] \in Int
    BY NetType DEF TypeOK, Rows
  <2>2. \A t \in Recharges : Net'[t] \in Int
    BY <2>1
  <2> QED BY <2>1, <2>2 DEF IntegerOn, Of
<1>2. wallet[u].cash = SumFunctionOnSet(Net, Of(u)) - cashSpent[u] + forgiven[u]
  BY DEF CashAccounted
<1>3. IsFiniteSet(Of(u))
  BY FiniteOf
<1>4. SumFunctionOnSet(Net, Of(u)) \in Int /\ cashSpent[u] \in Int /\ forgiven[u] \in Int
  BY <1>1, <1>3, SumSplit DEF TypeOK
<1>5. CASE u = Owner[c]
  <2>1. c \in Of(u) /\ \A t \in Of(u) \ {c} : Net[t] = Net'[t]
    BY <1>5 DEF Of
  <2>2. SumFunctionOnSet(Net', Of(u)) = SumFunctionOnSet(Net, Of(u)) + Net'[c] - Net[c]
    BY <1>1, <1>3, <2>1, SumChange
  <2>3. Net[c] \in Int
    BY <1>1, <2>1 DEF IntegerOn
  <2> QED BY <1>2, <1>4, <1>5, <2>2, <2>3
<1>6. CASE u # Owner[c]
  <2>1. \A t \in Of(u) : Net[t] = Net'[t]
    BY <1>6 DEF Of
  <2>2. SumFunctionOnSet(Net', Of(u)) = SumFunctionOnSet(Net, Of(u))
    BY <1>3, <2>1, SumSame
  <2> QED BY <1>2, <1>6, <2>2
<1> QED BY <1>5, <1>6

\* A step that changes no recharge and moves d of a user's cash into a session.
LEMMA NoRecharge ==
  ASSUME TypeOK, CashAccounted, NEW d \in [Users -> Int],
         \A t \in Recharges : Net'[t] = Net[t],
         \A u \in Users : /\ wallet'[u].cash = wallet[u].cash - d[u]
                          /\ cashSpent'[u] = cashSpent[u] + d[u]
                          /\ forgiven'[u] = forgiven[u]
  PROVE  CashAccounted'
<1> SUFFICES ASSUME NEW u \in Users
             PROVE  wallet'[u].cash = SumFunctionOnSet(Net', Of(u)) - cashSpent'[u] + forgiven'[u]
  BY DEF CashAccounted, Of
<1>1. IntegerOn(Net, Of(u))
  BY NetType DEF TypeOK, Rows, IntegerOn, Of
<1>2. IsFiniteSet(Of(u)) /\ \A t \in Of(u) : Net[t] = Net'[t]
  BY FiniteOf DEF Of
<1>3. SumFunctionOnSet(Net', Of(u)) = SumFunctionOnSet(Net, Of(u))
  BY <1>2, SumSame
<1>4. SumFunctionOnSet(Net, Of(u)) \in Int /\ cashSpent[u] \in Int /\ forgiven[u] \in Int
  BY <1>1, <1>2, SumSplit DEF TypeOK
<1> QED BY <1>3, <1>4 DEF CashAccounted

\* The net value of a recharge depends on three things.
LEMMA SameNet ==
  ASSUME NEW t \in Recharges, row'[t].credit = row[t].credit,
         row'[t].status = "refunded" <=> row[t].status = "refunded", taken'[t] = taken[t]
  PROVE  Net'[t] = Net[t]
  BY DEF Net

LEMMA CreditCash ==
  ASSUME CashInv, TypeOK', NEW r \in Requests, CommitCredit(r)
  PROVE  CashAccounted'
<1> USE DEF CashInv, RInv
<1> DEFINE c == req[r].t
<1>1. Active(r) /\ FreshRow(r) /\ req[r].kind \in {"verify", "apple"}
  BY DEF CommitCredit, Active, Checked, Fresh
<1>2. c \in Recharges /\ Owner[c] \in Users /\ Price[c] \in Nat
  BY <1>1, Recharging
<1>3. row[c].credit = 0 /\ row[c].status # "refunded"
      /\ (c \in Purchases => taken[c] = -1)
  BY <1>1, <1>2, KindsApart DEF CommitCredit, FreshRow, Uncredited
<1>4. row'[c].credit = Price[c] /\ row'[c].status = "completed" /\ taken' = taken
  BY <1>2 DEF CommitCredit, Credit, TypeOK
<1>5. Net'[c] = Net[c] + Price[c]
  BY <1>2, <1>3, <1>4 DEF Net, NotBelowZero, Recharges
<1>6. ASSUME NEW t \in Recharges \ {c}
      PROVE  Net'[t] = Net[t]
  <2>1. row'[t] = row[t]
    BY CreditEffect
  <2> QED BY <1>4, <2>1, SameNet
<1>7. ASSUME NEW u \in Users
      PROVE  /\ wallet'[u].cash = IF u = Owner[c] THEN wallet[u].cash + Price[c] + 0 ELSE wallet[u].cash
             /\ forgiven'[u] = IF u = Owner[c] THEN forgiven[u] + 0 ELSE forgiven[u]
  BY <1>2 DEF CommitCredit, Credit, TypeOK
<1>8. cashSpent' = cashSpent
  BY DEF CommitCredit, Credit
<1> QED BY <1>2, <1>5, <1>6, <1>7, <1>8, OneRecharge

LEMMA RefundCash ==
  ASSUME CashInv, TypeOK', NEW r \in Requests, CommitRefund(r),
         wallet[Owner[req[r].t]].cash >= Price[req[r].t]
  PROVE  CashAccounted'
<1> USE DEF CashInv, RInv
<1> DEFINE c == req[r].t
<1>1. Active(r) /\ FreshRow(r) /\ req[r].kind = "refund" /\ TakeBack(r)
  BY DEF CommitRefund, Busy, Active, Fresh
<1>2. c \in Orders /\ c \in Recharges /\ Owner[c] \in Users /\ Price[c] \in Nat
  BY <1>1, Recharging DEF Checked
<1>3. row[c].status # "refunded" /\ row[c] \in Rows
  BY <1>1, <1>2 DEF CommitRefund, FreshRow, TypeOK
<1>4. row'[c] = [row[c] EXCEPT !.status = "refunded"] /\ taken' = taken
      /\ \A t \in Recharges \ {c} : row'[t] = row[t]
  BY <1>1, <1>2 DEF CommitRefund, TakeBack, TypeOK
<1>5. row'[c].credit = row[c].credit /\ row'[c].status = "refunded" /\ row[c].credit \in Nat
  BY <1>3, <1>4 DEF Rows
<1>6. Net'[c] = Net[c] + (-Price[c])
  BY <1>2, <1>3, <1>5 DEF Net
<1>7. \A t \in Recharges \ {c} : Net'[t] = Net[t]
  BY <1>4, SameNet
<1>8. \A u \in Users :
        /\ wallet'[u].cash = IF u = Owner[c] THEN wallet[u].cash + (-Price[c]) + 0 ELSE wallet[u].cash
        /\ forgiven'[u] = IF u = Owner[c] THEN forgiven[u] + 0 ELSE forgiven[u]
  BY <1>1, <1>2 DEF CommitRefund, TakeBack, TypeOK
<1>9. cashSpent' = cashSpent /\ -Price[c] \in Int
  BY <1>2 DEF CommitRefund
<1> QED BY <1>2, <1>6, <1>7, <1>8, <1>9, OneRecharge

LEMMA AppleRefundCash ==
  ASSUME CashInv, TypeOK', NEW r \in Requests, CommitAppleRefund(r)
  PROVE  CashAccounted'
<1> USE DEF CashInv, RInv
<1> DEFINE c == req[r].t
           cash == wallet[Owner[c]].cash
           rest == NotBelowZero(cash - Price[c])
<1>1. Active(r) /\ FreshRow(r) /\ req[r].kind = "appleRefund"
  BY DEF CommitAppleRefund, Busy, Active, Fresh
<1>2. c \in Purchases /\ c \notin Orders /\ c \in Recharges /\ Owner[c] \in Users /\ Price[c] \in Nat
  BY <1>1, Recharging, KindsApart
<1>3. taken[c] = -1 /\ row' = row
  BY <1>1 DEF CommitAppleRefund, FreshRow
<1> DEFINE e == Price[c] - (cash - rest)
<1>4. cash \in Nat /\ rest \in Nat
  <2>1. cash \in Nat
    BY <1>2 DEF TypeOK
  <2> QED BY <1>2, <2>1 DEF NotBelowZero
<1>5. /\ wallet' = [wallet EXCEPT ![Owner[c]].cash = rest] /\ taken' = [taken EXCEPT ![c] = Price[c]]
      /\ forgiven' = [forgiven EXCEPT ![Owner[c]] = forgiven[Owner[c]] + Price[c] - (cash - rest)]
      /\ cashSpent' = cashSpent
  BY DEF CommitAppleRefund
<1> HIDE DEF cash, rest
<1>6. taken'[c] = Price[c] /\ \A t \in Recharges \ {c} : taken'[t] = taken[t]
  BY <1>2, <1>5 DEF TypeOK
<1>7. Net'[c] = Net[c] + (-Price[c])
  <2>1. row[c].credit \in Nat
    BY <1>2 DEF TypeOK, Rows
  <2>2. Net[c] = row[c].credit - 0
    BY <1>2, <1>3 DEF Net, NotBelowZero
  <2>3. Net'[c] = row[c].credit - Price[c]
    BY <1>2, <1>3, <1>6 DEF Net, NotBelowZero
  <2> QED BY <1>2, <2>1, <2>2, <2>3
<1>8. \A t \in Recharges \ {c} : Net'[t] = Net[t]
  BY <1>3, <1>6, SameNet
<1>9. \A u \in Users : forgiven[u] \in Nat
  BY DEF TypeOK
<1>10. rest = cash + (-Price[c]) + e /\ e \in Int /\ -Price[c] \in Int
       /\ forgiven[Owner[c]] + Price[c] - (cash - rest) = forgiven[Owner[c]] + e
  BY <1>2, <1>4, <1>9
<1> HIDE DEF e
<1>11. \A u \in Users :
        /\ wallet'[u].cash = IF u = Owner[c] THEN wallet[u].cash + (-Price[c]) + e ELSE wallet[u].cash
        /\ forgiven'[u] = IF u = Owner[c] THEN forgiven[u] + e ELSE forgiven[u]
  <2>1. wallet'[Owner[c]].cash = rest /\ \A u \in Users \ {Owner[c]} : wallet'[u].cash = wallet[u].cash
    BY <1>2, <1>5 DEF TypeOK
  <2>2. forgiven'[Owner[c]] = forgiven[Owner[c]] + e
        /\ \A u \in Users \ {Owner[c]} : forgiven'[u] = forgiven[u]
    BY <1>2, <1>5, <1>10 DEF TypeOK
  <2> QED BY <1>10, <2>1, <2>2 DEF cash
<1> QED BY <1>2, <1>5, <1>7, <1>8, <1>10, <1>11, OneRecharge

LEMMA SpendCash ==
  ASSUME CashInv, NEW v \in Users, NEW a \in Spends, Spend(v, a)
  PROVE  CashAccounted'
<1> USE DEF CashInv, RInv
<1> DEFINE x == a - Lesser(wallet[v].bonus, a)
           d == [u \in Users |-> IF u = v THEN x ELSE 0]
<1>1. x \in Int
  BY RechargeAssumption DEF TypeOK, Lesser
<1>2. /\ wallet'[v].cash = wallet[v].cash - x
      /\ \A u \in Users \ {v} : wallet'[u] = wallet[u]
      /\ cashSpent' = [cashSpent EXCEPT ![v] = cashSpent[v] + x]
      /\ row' = row /\ taken' = taken /\ forgiven' = forgiven
  BY DEF Spend, TypeOK
<1>3. \A t \in Recharges : Net'[t] = Net[t]
  BY <1>2, SameNet
<1> HIDE DEF x
<1>4. d \in [Users -> Int]
  BY <1>1
<1>5. \A u \in Users : wallet[u].cash \in Int /\ cashSpent[u] \in Int
  BY DEF TypeOK
<1>6. ASSUME NEW u \in Users
      PROVE  /\ wallet'[u].cash = wallet[u].cash - d[u] /\ cashSpent'[u] = cashSpent[u] + d[u]
             /\ forgiven'[u] = forgiven[u]
  BY <1>1, <1>2, <1>5 DEF TypeOK
<1> HIDE DEF d
<1> QED BY <1>3, <1>4, <1>6, NoRecharge

LEMMA NextCash == CashInv /\ TypeOK' /\ [Next]_vars => CashAccounted'
<1> SUFFICES ASSUME CashInv, TypeOK', [Next]_vars
             PROVE  CashAccounted'
  OBVIOUS
<1> USE DEF CashInv, RInv
<1>1. ASSUME \A t \in Recharges : Net'[t] = Net[t], wallet' = wallet, cashSpent' = cashSpent,
             forgiven' = forgiven
      PROVE  CashAccounted'
  <2> DEFINE d == [u \in Users |-> 0]
  <2>1. \A u \in Users : wallet[u].cash \in Int /\ cashSpent[u] \in Int
    BY DEF TypeOK
  <2>2. d \in [Users -> Int] /\ \A u \in Users : /\ wallet'[u].cash = wallet[u].cash - d[u]
                                                 /\ cashSpent'[u] = cashSpent[u] + d[u]
    BY <1>1, <2>1
  <2> HIDE DEF d
  <2> QED BY <1>1, <2>2, NoRecharge
<1>2. ASSUME NEW c \in Recharges, CreateRechargeTransaction(c)
      PROVE  CashAccounted'
  <2>1. /\ wallet' = wallet /\ cashSpent' = cashSpent /\ taken' = taken /\ forgiven' = forgiven
        /\ row' = [row EXCEPT ![c].status = "pending"] /\ row[c].status = "none" /\ row[c] \in Rows
    BY <1>2 DEF CreateRechargeTransaction, TypeOK
  <2>2. row'[c].credit = row[c].credit /\ row'[c].status = "pending"
    BY <2>1 DEF TypeOK, Rows
  <2>3. \A t \in Recharges \ {c} : row'[t] = row[t]
    BY <2>1 DEF TypeOK
  <2> QED BY <1>1, <2>1, <2>2, <2>3, SameNet
<1>3. ASSUME NEW r \in Requests, CommitFailed(r)
      PROVE  CashAccounted'
  <2> DEFINE c == req[r].t
  <2>1. Active(r) /\ FreshRow(r)
    BY <1>3 DEF CommitFailed, Busy, Active, Fresh
  <2>2. c \in Recharges /\ row[c].status = "pending" /\ row[c] \in Rows
    BY <1>3, <2>1, Recharging DEF CommitFailed, Busy, FreshRow, TypeOK
  <2>3. /\ wallet' = wallet /\ cashSpent' = cashSpent /\ taken' = taken /\ forgiven' = forgiven
        /\ row'[c] = [row[c] EXCEPT !.status = "failed", !.paid = TRUE]
        /\ \A t \in Recharges \ {c} : row'[t] = row[t]
    BY <1>3, <2>2 DEF CommitFailed, TypeOK
  <2>4. row'[c].credit = row[c].credit /\ row'[c].status = "failed"
    BY <2>2, <2>3 DEF Rows
  <2> QED BY <1>1, <2>2, <2>3, <2>4, SameNet
<1>4. ASSUME NEW r \in Requests, CommitRefund(r)
      PROVE  CashAccounted'
  <2>1. CASE wallet[Owner[req[r].t]].cash >= Price[req[r].t]
    BY <1>4, <2>1, RefundCash
  <2>2. CASE ~(wallet[Owner[req[r].t]].cash >= Price[req[r].t])
    <3>1. wallet' = wallet /\ cashSpent' = cashSpent /\ taken' = taken /\ forgiven' = forgiven /\ row' = row
      BY <1>4, <2>2 DEF CommitRefund
    <3> QED BY <1>1, <3>1, SameNet
  <2> QED BY <2>1, <2>2
<1>5. CASE wallet' = wallet /\ cashSpent' = cashSpent /\ taken' = taken /\ forgiven' = forgiven /\ row' = row
  BY <1>1, <1>5, SameNet
<1> QED
  BY <1>2, <1>3, <1>4, <1>5, CreditCash, AppleRefundCash, SpendCash
     DEF Next, vars, Capture, AppleRefunds, Webhook, ClientVerify, VerifyBegin, AppleBegin,
         RefundBegin, AppleRefundBegin, PriceBonus, RefundApi, Abort, Crash

LEMMA InitCash == Init => CashInv
<1> SUFFICES ASSUME Init
             PROVE  CashInv
  OBVIOUS
<1>1. RInv
  BY InitInv DEF BonusInv
<1>2. Fresh /\ Uncredited
  BY RechargeAssumption DEF Init, Fresh, Active, Idle, Uncredited, Recharges
<1>3. ASSUME NEW u \in Users
      PROVE  wallet[u].cash = SumFunctionOnSet(Net, Of(u)) - cashSpent[u] + forgiven[u]
  <2>1. \A t \in Of(u) : Net[t] = 0
    BY DEF Init, Net, NotBelowZero, Of, Recharges
  <2>2. SumFunctionOnSet(Net, Of(u)) = 0
    BY <2>1, FiniteOf, SumZero
  <2> QED BY <2>2 DEF Init
<1> QED BY <1>1, <1>2, <1>3 DEF CashInv, CashAccounted

\* Whatever app, webhook, admins, Apple, sessions and restarts do at once, a
\* wallet's cash is what the rows credited less what they took back and what
\* was spent, and what an Apple refund could not take.
THEOREM RechargeCash == Spec => []CashAccounted
<1>1. CashInv => CashAccounted
  BY DEF CashInv
<1>2. CashInv /\ [Next]_vars => CashInv'
  BY NextInv, NextFresh, NextUncredited, NextCash DEF CashInv, RInv
<1> QED BY <1>1, <1>2, InitCash, PTL DEF Spec

----------------
CONSTANTS PayoutSlots, Ids, Amounts, Penalties, Fine, Incomes, MaxEarned, MaxTickets, MaxFaults
VARIABLES earnings, penalty, payout, handler, tickets, faults, torn, reopened

\* What one astrologer may withdraw.
P == INSTANCE Payouts WITH Requests <- PayoutSlots, req <- handler

\* Amounts are natural, an income of nothing brings nothing; payouts and penalties are finitely many.
PayoutBounds ==
  /\ IsFiniteSet(Ids) /\ IsFiniteSet(Penalties)
  /\ Amounts \subseteq Nat /\ Fine \in [Penalties -> Nat]
  /\ \A i \in Incomes : i.gross \in Nat /\ i.net \in Nat /\ (i.gross = 0 => i.net = 0)
  /\ MaxTickets \in Nat /\ MaxFaults \in Nat
\* One request after the other.
OneSlot == \E r : PayoutSlots = {r}

Works == [pc : {"read", "capped", "clear", "found", "saved", "summed"},
          kind : DOMAIN P!To \cup {"request", "apply", "waive", "stats"},
          item : Ids \cup Penalties \cup {"all"}, n : Nat,
          seen : P!Earnings, pen : P!PenaltyStates]
Documents == [status : P!Open \cup P!Closed \cup {"none"}, amount : Amounts \cup {0}]
Types ==
  /\ earnings \in P!Earnings /\ penalty \in P!PenaltyStates
  /\ payout \in [Ids -> Documents]
  /\ handler \in [PayoutSlots -> {P!Idle} \cup Works]
  /\ tickets \in 0..MaxTickets /\ faults \in 0..MaxFaults
  /\ torn \in BOOLEAN /\ reopened \in SUBSET Ids

\* While a handler runs, only incomes change the astrologer.
Since(h) ==
  /\ h.seen.totalEarned <= earnings.totalEarned
  /\ h.pc # "summed" =>
       /\ earnings.netEarnings - h.seen.netEarnings
            = earnings.withdrawableAmount - h.seen.withdrawableAmount
       /\ earnings.withdrawableAmount >= h.seen.withdrawableAmount
       /\ earnings.totalPenalties = h.seen.totalPenalties
       /\ earnings.totalWithdrawn = h.seen.totalWithdrawn
       /\ earnings.pendingWithdrawal = h.seen.pendingWithdrawal
       /\ earnings.totalEarned = h.seen.totalEarned
            => earnings.withdrawableAmount = h.seen.withdrawableAmount

\* What a handler knows of its payout or of the penalties.
Knows(h) ==
  /\ h.kind = "request" =>
       /\ h.pc \in {"read", "capped", "clear", "saved"} /\ h.item \in Ids
       /\ h.n \in Amounts /\ h.n <= earnings.withdrawableAmount
       /\ h.pc # "saved" => payout[h.item].status = "none"
  /\ h.kind \in DOMAIN P!To =>
       /\ h.pc \in {"found", "read", "saved"} /\ h.item \in Ids
       /\ h.n = payout[h.item].amount
       /\ h.pc # "saved" => payout[h.item].status \in P!Open
       /\ h.pc = "saved" => h.kind \in {"reject", "complete"}
  /\ h.kind \in {"apply", "waive"} => h.pc = "read" /\ h.item \in Penalties /\ h.pen = penalty
  /\ h.kind = "stats" => h.pc \in {"read", "summed"} /\ h.pen = penalty

Held == \A r \in PayoutSlots : handler[r].pc # "idle" => Since(handler[r]) /\ Knows(handler[r])

\* The cap, and the payout that is open.
Room(n) == 2 * (P!Total({"completed"}) + n) <= earnings.totalEarned
Capped ==
  reopened = {} =>
    /\ \A p, q \in P!With(P!Open) : p = q
    /\ 2 * P!Total(P!Open \cup {"completed"}) <= earnings.totalEarned
    /\ \A r \in PayoutSlots : handler[r].pc \in {"capped", "clear"} => Room(handler[r].n)
    /\ \A r \in PayoutSlots : handler[r].pc = "clear" => P!With(P!Open) = {}

\* What a handler between its two writes has yet to lock, release or deduct.
Owed(h, kinds) == IF h.pc = "saved" /\ h.kind \in kinds THEN h.n ELSE 0
Booked(e) ==
  /\ P!Left(e) <= e.withdrawableAmount
  /\ e.withdrawableAmount + e.totalWithdrawn + e.pendingWithdrawal <= e.netEarnings
Books ==
  reopened = {} /\ ~torn =>
    /\ earnings.totalPenalties = P!Applied(penalty)
    /\ Booked(earnings)
    /\ \A r \in PayoutSlots :
         /\ earnings.totalWithdrawn = P!Total({"completed"}) - Owed(handler[r], {"complete"})
         /\ earnings.pendingWithdrawal =
              P!Total(P!Open) + Owed(handler[r], {"reject", "complete"}) - Owed(handler[r],
                  {"request"})
Counted ==
  \A r \in PayoutSlots : handler[r].pc = "summed" =>
    /\ handler[r].seen.netEarnings = P!Net(handler[r].seen.totalEarned)
    /\ handler[r].seen.totalPenalties = P!Applied(penalty)
    /\ reopened = {} => /\ handler[r].seen.totalWithdrawn = P!Total({"completed"})
                        /\ handler[r].seen.pendingWithdrawal = P!Total(P!Open)
Base == Types /\ Held
PInv == Base /\ Capped /\ Books /\ Counted
Given == PayoutBounds /\ OneSlot

\* Sums and sizes are the same in the instance.
LEMMA SameSum == ASSUME NEW f, NEW S PROVE P!SumFunctionOnSet(f, S) = SumFunctionOnSet(f, S)
BY DEF P!SumFunctionOnSet, SumFunctionOnSet, P!FoldFunctionOnSet, FoldFunctionOnSet,
       P!MapThenFoldSet, MapThenFoldSet
LEMMA SameSize == ASSUME NEW S PROVE P!Cardinality(S) = Cardinality(S)
BY DEF P!Cardinality, Cardinality

\* The larger of 0 and n.
LEMMA MaxIs == ASSUME NEW n \in Int PROVE P!Max({0, n}) = IF n < 0 THEN 0 ELSE n
<1> DEFINE m == IF n < 0 THEN 0 ELSE n
<1>1. m \in {0, n} /\ \A y \in {0, n} : m >= y
  OBVIOUS
<1>2. \A x \in {0, n} : (\A y \in {0, n} : x >= y) => x = m
  OBVIOUS
<1>3. QED BY <1>1, <1>2 DEF P!Max

\* What payout document d adds to a total over status.
Worth(d, status) == IF d.status \in status THEN d.amount ELSE 0

\* What may be requested is a number.
LEMMA AmountNat == ASSUME Given, NEW n \in Amounts \cup {0} PROVE n \in Nat
BY DEF Given, PayoutBounds

\* A payout's amount is natural, and so is what it adds to a total.
LEMMA WorthNat ==
  ASSUME Given, NEW d \in Documents, NEW status
  PROVE  d.amount \in Nat /\ Worth(d, status) \in Nat
<1>1. d.amount \in Amounts \cup {0}
  BY DEF Documents
<1>2. d.amount \in Nat
  BY <1>1, AmountNat
<1>3. QED BY <1>2 DEF Worth

\* A total is a sum over all payouts of what each is worth, before and after.
LEMMA TotalIs ==
  ASSUME NEW status
  PROVE  /\ P!Total(status) = SumFunctionOnSet([p \in Ids |-> Worth(payout[p], status)], Ids)
         /\ P!Total(status)' = SumFunctionOnSet([p \in Ids |-> Worth(payout'[p], status)], Ids)
<1>1. [p \in Ids |-> IF p \in P!With(status) THEN payout[p].amount ELSE 0]
        = [p \in Ids |-> Worth(payout[p], status)]
  BY DEF P!With, Worth
<1>2. [p \in Ids |-> IF p \in P!With(status)' THEN payout'[p].amount ELSE 0]
        = [p \in Ids |-> Worth(payout'[p], status)]
  BY DEF P!With, Worth
<1>3. QED BY <1>1, <1>2, SameSum DEF P!Total

\* A total is not negative.
LEMMA TotalNat ==
  ASSUME Given, Types, NEW status PROVE P!Total(status) \in Nat
<1> DEFINE f == [p \in Ids |-> Worth(payout[p], status)]
<1>1. IsFiniteSet(Ids) /\ \A p \in Ids : f[p] \in Nat
  BY WorthNat DEF Given, PayoutBounds, Types
<1> HIDE DEF f
<1>2. SumFunctionOnSet(f, Ids) \in Nat
  BY <1>1, SumNat
<1>3. QED BY <1>2, TotalIs DEF f

\* One payout changes a total by what it is worth.
LEMMA TotalChange ==
  ASSUME Given, Types, Types', NEW status, NEW p \in Ids,
         \A q \in Ids \ {p} : payout'[q] = payout[q]
  PROVE  P!Total(status)' = P!Total(status) + Worth(payout'[p], status) - Worth(payout[p], status)
<1> DEFINE f == [q \in Ids |-> Worth(payout[q], status)]
           h == [q \in Ids |-> Worth(payout'[q], status)]
<1>1. \A q \in Ids : Worth(payout[q], status) \in Nat /\ Worth(payout'[q], status) \in Nat
  BY WorthNat DEF Types
<1>2. IsFiniteSet(Ids) /\ IntegerOn(f, Ids) /\ IntegerOn(h, Ids) /\ \A q \in Ids \ {p} : f[q] = h[q]
  BY <1>1 DEF Given, PayoutBounds, IntegerOn
<1>3. f[p] = Worth(payout[p], status) /\ h[p] = Worth(payout'[p], status)
  OBVIOUS
<1> HIDE DEF f, h
<1>4. SumFunctionOnSet(h, Ids) = SumFunctionOnSet(f, Ids) + h[p] - f[p]
  BY <1>2, SumChange
<1>5. QED BY <1>3, <1>4, TotalIs DEF f, h

\* What is open and what was paid together.
LEMMA TotalAdd ==
  ASSUME Given, Types
  PROVE  P!Total(P!Open \cup {"completed"}) = P!Total(P!Open) + P!Total({"completed"})
<1> DEFINE f == [q \in Ids |-> Worth(payout[q], P!Open)]
           g == [q \in Ids |-> Worth(payout[q], {"completed"})]
           h == [q \in Ids |-> Worth(payout[q], P!Open \cup {"completed"})]
<1>1. IsFiniteSet(Ids) /\ IntegerOn(f, Ids) /\ IntegerOn(g, Ids)
  BY WorthNat DEF Given, PayoutBounds, Types, IntegerOn
<1>2. \A q \in Ids : h[q] = f[q] + g[q]
  <2> SUFFICES ASSUME NEW q \in Ids PROVE h[q] = f[q] + g[q]
    OBVIOUS
  <2>1. payout[q].amount \in Nat
    BY WorthNat DEF Types
  <2>2. QED BY <2>1 DEF Worth, P!Open
<1> HIDE DEF f, g, h
<1>3. SumFunctionOnSet(h, Ids) = SumFunctionOnSet(f, Ids) + SumFunctionOnSet(g, Ids)
  BY <1>1, <1>2, SumAdd
<1>4. QED BY <1>3, TotalIs DEF f, g, h

\* A step that leaves the payouts alone changes no total.
LEMMA SameTotal == ASSUME UNCHANGED payout, NEW status PROVE P!Total(status)' = P!Total(status)
BY TotalIs

\* So is the sum of the fines.
LEMMA AppliedNat ==
  ASSUME Given, NEW pen \in P!PenaltyStates PROVE P!Applied(pen) \in Nat
<1> DEFINE f == [x \in Penalties |-> IF pen[x] = "applied" THEN Fine[x] ELSE 0]
<1>1. IsFiniteSet(Penalties) /\ \A x \in Penalties : f[x] \in Nat
  BY DEF Given, PayoutBounds
<1> HIDE DEF f
<1>2. SumFunctionOnSet(f, Penalties) \in Nat
  BY <1>1, SumNat
<1>3. QED BY <1>2, SameSum DEF f, P!Applied

\* What the formula leaves, as a number.
LEMMA LeftIs ==
  ASSUME NEW e \in P!Earnings
  PROVE  /\ P!Left(e) \in Nat
         /\ LET n == e.netEarnings - e.totalPenalties - e.totalWithdrawn - e.pendingWithdrawal IN
              P!Left(e) = IF n < 0 THEN 0 ELSE n
<1> DEFINE n == e.netEarnings - e.totalPenalties - e.totalWithdrawn - e.pendingWithdrawal
<1>1. n \in Int
  BY DEF P!Earnings
<1> HIDE DEF n
<1>2. P!Max({0, n}) = IF n < 0 THEN 0 ELSE n
  BY <1>1, MaxIs
<1>3. QED BY <1>1, <1>2 DEF P!Left, n

\* The commission leaves at least half.
LEMMA NetIs == ASSUME NEW g \in Nat PROVE P!Net(g) \in Nat /\ g <= 2 * P!Net(g)
BY DEF P!Net, P!CommissionRate

----------------
(* The astrologer's amounts, written one way or another.                   *)
Fields(f, te, ne, tp, w, tw, pw) ==
  /\ f \in P!Earnings /\ f.totalEarned = te /\ f.netEarnings = ne /\ f.totalPenalties = tp
  /\ f.withdrawableAmount = w /\ f.totalWithdrawn = tw /\ f.pendingWithdrawal = pw
Moved(e, w, pw) == [e EXCEPT !.pendingWithdrawal = pw, !.withdrawableAmount = w]
Paid(e, w, tw, pw) ==
  [e EXCEPT !.totalWithdrawn = tw, !.pendingWithdrawal = pw, !.withdrawableAmount = w]
Earned(e, te, ne, w) ==
  [e EXCEPT !.totalEarned = te, !.netEarnings = ne, !.withdrawableAmount = w]
Fined(e, tp, w) == [e EXCEPT !.totalPenalties = tp, !.withdrawableAmount = w]
Recount(e, ne, tp, tw, pw) ==
  [e EXCEPT !.netEarnings = ne, !.totalPenalties = tp, !.totalWithdrawn = tw,
      !.pendingWithdrawal = pw]
Written(e, te, w) == [e EXCEPT !.totalEarned = te, !.withdrawableAmount = w]

\* The six amounts are numbers.
LEMMA FieldTypes ==
  ASSUME NEW e \in P!Earnings
  PROVE  /\ e.totalEarned \in Nat /\ e.netEarnings \in Nat /\ e.totalPenalties \in Nat
         /\ e.withdrawableAmount \in Nat /\ e.totalWithdrawn \in Nat /\ e.pendingWithdrawal \in Int
BY DEF P!Earnings
\* What each way of writing does to each amount.
LEMMA MovedFields ==
  ASSUME NEW e \in P!Earnings, NEW w \in Nat, NEW pw \in Int
  PROVE  Fields(Moved(e, w, pw), e.totalEarned, e.netEarnings, e.totalPenalties, w,
           e.totalWithdrawn, pw)
BY DEF P!Earnings, Moved, Fields
LEMMA PaidFields ==
  ASSUME NEW e \in P!Earnings, NEW w \in Nat, NEW tw \in Nat, NEW pw \in Int
  PROVE  Fields(Paid(e, w, tw, pw), e.totalEarned, e.netEarnings, e.totalPenalties, w, tw, pw)
BY DEF P!Earnings, Paid, Fields
LEMMA EarnedFields ==
  ASSUME NEW e \in P!Earnings, NEW te \in Nat, NEW ne \in Nat, NEW w \in Nat
  PROVE  Fields(Earned(e, te, ne, w), te, ne, e.totalPenalties, w, e.totalWithdrawn,
           e.pendingWithdrawal)
BY DEF P!Earnings, Earned, Fields
LEMMA FinedFields ==
  ASSUME NEW e \in P!Earnings, NEW tp \in Nat, NEW w \in Nat
  PROVE  Fields(Fined(e, tp, w), e.totalEarned, e.netEarnings, tp, w, e.totalWithdrawn,
           e.pendingWithdrawal)
BY DEF P!Earnings, Fined, Fields
LEMMA RecountFields ==
  ASSUME NEW e \in P!Earnings, NEW ne \in Nat, NEW tp \in Nat, NEW tw \in Nat, NEW pw \in Int
  PROVE  Fields(Recount(e, ne, tp, tw, pw), e.totalEarned, ne, tp, e.withdrawableAmount, tw, pw)
BY DEF P!Earnings, Recount, Fields
LEMMA WrittenFields ==
  ASSUME NEW e \in P!Earnings, NEW te \in Nat, NEW w \in Nat
  PROVE  Fields(Written(e, te, w), te, e.netEarnings, e.totalPenalties, w, e.totalWithdrawn,
           e.pendingWithdrawal)
BY DEF P!Earnings, Written, Fields

\* A slot at work holds what it was given.
LEMMA Working ==
  ASSUME Base, NEW r \in PayoutSlots, handler[r].pc # "idle"
  PROVE  /\ handler[r] \in Works /\ handler[r].n \in Nat /\ handler[r].seen \in P!Earnings
         /\ handler[r].pen \in P!PenaltyStates /\ Since(handler[r]) /\ Knows(handler[r])
BY DEF Base, Types, Held, P!Idle, Works

\* What each handler does to the amounts.
LEMMA LockEffect ==
  ASSUME Given, Base, NEW r \in PayoutSlots, P!LockAmount(r)
  PROVE  /\ handler[r] \in Works /\ handler[r].n \in Nat /\ handler[r].item \in Ids
         /\ handler[r].n <= earnings.withdrawableAmount
         /\ Fields(earnings', earnings.totalEarned, earnings.netEarnings, earnings.totalPenalties,
                   earnings.withdrawableAmount - handler[r].n, earnings.totalWithdrawn,
                   earnings.pendingWithdrawal + handler[r].n)
<1>1. handler[r].pc = "saved" /\ handler[r].kind = "request"
  BY DEF P!LockAmount, P!At
<1>2. handler[r] \in Works /\ handler[r].n \in Nat /\ handler[r].item \in Ids
        /\ handler[r].n <= earnings.withdrawableAmount
  BY <1>1, Working DEF Knows
<1>3. earnings \in P!Earnings /\ earnings.pendingWithdrawal + handler[r].n \in Int
        /\ earnings.withdrawableAmount - handler[r].n \in Nat
  BY <1>2, FieldTypes DEF Base, Types
<1>4. earnings' = Moved(earnings, earnings.withdrawableAmount - handler[r].n,
                        earnings.pendingWithdrawal + handler[r].n)
  BY Zenon DEF P!LockAmount, Moved
<1>5. QED BY <1>2, <1>3, <1>4, MovedFields

LEMMA ReleaseEffect ==
  ASSUME Given, Base, NEW r \in PayoutSlots, P!ReleaseAmount(r)
  PROVE  /\ handler[r] \in Works /\ handler[r].n \in Nat
         /\ Fields(earnings', earnings.totalEarned, earnings.netEarnings, earnings.totalPenalties,
                   earnings.withdrawableAmount + handler[r].n, earnings.totalWithdrawn,
                   earnings.pendingWithdrawal - handler[r].n)
<1>1. handler[r] \in Works /\ handler[r].n \in Nat
  BY Working DEF P!ReleaseAmount, P!At
<1>3. earnings \in P!Earnings /\ earnings.pendingWithdrawal - handler[r].n \in Int
        /\ earnings.withdrawableAmount + handler[r].n \in Nat
  BY <1>1, FieldTypes DEF Base, Types
<1>4. earnings' = Moved(earnings, earnings.withdrawableAmount + handler[r].n,
                        earnings.pendingWithdrawal - handler[r].n)
  BY Zenon DEF P!ReleaseAmount, Moved
<1>5. QED BY <1>1, <1>3, <1>4, MovedFields

LEMMA DeductEffect ==
  ASSUME Given, Base, NEW r \in PayoutSlots, P!Deduct(r)
  PROVE  LET e == handler[r].seen  n == handler[r].n IN
         /\ handler[r] \in Works /\ n \in Nat /\ e \in P!Earnings
         /\ \E pw \in Nat :
              /\ pw = IF e.pendingWithdrawal < n THEN 0 ELSE e.pendingWithdrawal - n
              /\ Fields(earnings', earnings.totalEarned, earnings.netEarnings,
                   earnings.totalPenalties,
                        e.withdrawableAmount, e.totalWithdrawn + n, pw)
<1>1. handler[r] \in Works /\ handler[r].n \in Nat /\ handler[r].seen \in P!Earnings
  BY Working DEF P!Deduct, P!At
<1> DEFINE e == handler[r].seen
           n == handler[r].n
           pw == P!Max({0, e.pendingWithdrawal - n})
<1>2. e.pendingWithdrawal - n \in Int
  BY <1>1, FieldTypes
<1>3. pw \in Nat /\ pw = IF e.pendingWithdrawal < n THEN 0 ELSE e.pendingWithdrawal - n
  BY <1>1, <1>2, FieldTypes, MaxIs
<1>4. earnings \in P!Earnings /\ e.withdrawableAmount \in Nat /\ e.totalWithdrawn + n \in Nat
  BY <1>1, FieldTypes DEF Base, Types
<1>5. earnings' = Paid(earnings, e.withdrawableAmount, e.totalWithdrawn + n, pw)
  BY Zenon DEF P!Deduct, Paid
<1>6. Fields(earnings', earnings.totalEarned, earnings.netEarnings, earnings.totalPenalties,
                        e.withdrawableAmount, e.totalWithdrawn + n, pw)
  BY <1>3, <1>4, <1>5, PaidFields
<1> HIDE DEF pw
<1>7. QED BY <1>1, <1>3, <1>6

LEMMA EarnEffect ==
  ASSUME Given, Base, NEW i \in Incomes, P!UpdateEarnings(i)
  PROVE  /\ i.gross \in Nat /\ i.net \in Nat /\ (i.gross = 0 => i.net = 0)
         /\ Fields(earnings', earnings.totalEarned + i.gross, earnings.netEarnings + i.net,
                   earnings.totalPenalties, earnings.withdrawableAmount + i.net,
                   earnings.totalWithdrawn, earnings.pendingWithdrawal)
<1>1. i.gross \in Nat /\ i.net \in Nat /\ (i.gross = 0 => i.net = 0)
  BY DEF Given, PayoutBounds
<1>2. earnings \in P!Earnings /\ earnings.totalEarned + i.gross \in Nat
        /\ earnings.netEarnings + i.net \in Nat /\ earnings.withdrawableAmount + i.net \in Nat
  BY <1>1, FieldTypes DEF Base, Types
<1>3. earnings' = Earned(earnings, earnings.totalEarned + i.gross, earnings.netEarnings + i.net,
                         earnings.withdrawableAmount + i.net)
  BY Zenon DEF P!UpdateEarnings, Earned
<1>4. QED BY <1>1, <1>2, <1>3, EarnedFields

LEMMA SumEffect ==
  ASSUME Given, Base, NEW r \in PayoutSlots, P!StatsSum(r)
  PROVE  /\ handler[r] \in Works /\ handler[r].seen \in P!Earnings /\ handler[r].pen = penalty
         /\ handler' = [handler EXCEPT ![r] = handler'[r]]
         /\ handler'[r] \in Works /\ handler'[r].pc = "summed" /\ handler'[r].kind = "stats"
         /\ handler'[r].item = handler[r].item /\ handler'[r].n = handler[r].n
              /\ handler'[r].pen = penalty
         /\ Fields(handler'[r].seen, handler[r].seen.totalEarned,
              P!Net(handler[r].seen.totalEarned), P!Applied(penalty),
                   handler[r].seen.withdrawableAmount, P!Total({"completed"}), P!Total(P!Open))
<1>1. /\ handler[r].seen \in P!Earnings /\ handler[r].pen \in P!PenaltyStates
          /\ handler[r] \in Works
      /\ handler[r].pen = penalty /\ handler[r].kind = "stats"
  BY Working DEF P!StatsSum, P!At, Knows
<1>2. /\ P!Net(handler[r].seen.totalEarned) \in Nat /\ P!Applied(handler[r].pen) \in Nat
      /\ P!Total({"completed"}) \in Nat /\ P!Total(P!Open) \in Nat
  BY <1>1, FieldTypes, NetIs, AppliedNat, TotalNat DEF Base
<1> DEFINE new == Recount(handler[r].seen, P!Net(handler[r].seen.totalEarned),
      P!Applied(handler[r].pen),
                          P!Total({"completed"}), P!Total(P!Open))
<1>3. Fields(new, handler[r].seen.totalEarned, P!Net(handler[r].seen.totalEarned),
        P!Applied(penalty),
             handler[r].seen.withdrawableAmount, P!Total({"completed"}), P!Total(P!Open))
  BY <1>1, <1>2, RecountFields
<1>4. handler' = [handler EXCEPT ![r].pc = "summed", ![r].seen = new]
  BY Zenon DEF P!StatsSum, Recount
<1> HIDE DEF new
<1>5. new \in P!Earnings
  BY <1>3 DEF Fields
<1>6. handler'[r] = [handler[r] EXCEPT !.pc = "summed", !.seen = new]
        /\ handler' = [handler EXCEPT ![r] = handler'[r]]
  BY <1>4 DEF Base, Types
<1>7. QED BY <1>1, <1>3, <1>5, <1>6 DEF Works

LEMMA SaveEffect ==
  ASSUME Given, Base, NEW r \in PayoutSlots, P!StatsSave(r)
  PROVE  LET e == handler[r].seen IN
         /\ handler[r] \in Works /\ e \in P!Earnings /\ handler[r].pc = "summed"
         /\ Fields(earnings', earnings.totalEarned, e.netEarnings, e.totalPenalties, P!Left(e),
                   e.totalWithdrawn, e.pendingWithdrawal)
<1>1. handler[r].seen \in P!Earnings /\ handler[r] \in Works /\ handler[r].pc = "summed"
  BY Working DEF P!StatsSave, P!At
<1>2. P!Left(handler[r].seen) \in Nat /\ earnings.totalEarned \in Nat
  BY <1>1, LeftIs, FieldTypes DEF Base, Types
<1>3. earnings' = Written(handler[r].seen, earnings.totalEarned, P!Left(handler[r].seen))
  BY Zenon DEF P!StatsSave, Written
<1>4. QED BY <1>1, <1>2, <1>3, WrittenFields

\* What a handler of penalty x makes of what it read.
LEMMA PenaltyEffect ==
  ASSUME Given, Base, NEW r \in PayoutSlots, P!PenaltySave(r)
  PROVE  /\ handler[r] \in Works /\ handler[r].seen \in P!Earnings
         /\ handler' = [handler EXCEPT ![r] = P!Idle] /\ UNCHANGED <<payout, tickets, faults,
              reopened>>
         /\ \/ UNCHANGED <<earnings, penalty, torn>>
            \/ \E l \in Nat : \E tp \in Nat : \E w \in Nat :
                 /\ penalty' \in P!PenaltyStates
                 /\ tp = P!Applied(penalty')
                 /\ l = LET n == handler[r].seen.netEarnings - tp - handler[r].seen.totalWithdrawn
                                   - handler[r].seen.pendingWithdrawal
                        IN IF n < 0 THEN 0 ELSE n
                 /\ w = IF l = handler[r].seen.withdrawableAmount THEN earnings.withdrawableAmount
                      ELSE l
                 /\ Fields(earnings', earnings.totalEarned, earnings.netEarnings, tp, w,
                           earnings.totalWithdrawn, earnings.pendingWithdrawal)
                 /\ torn' = (torn \/ (P!Missed(r) /\ l # handler[r].seen.withdrawableAmount))
<1>1. /\ handler[r].pc = "read" /\ handler[r].kind \in {"apply", "waive"}
      /\ handler' = [handler EXCEPT ![r] = P!Idle] /\ UNCHANGED <<payout, tickets, faults,
           reopened>>
  BY Zenon DEF P!PenaltySave, P!At, P!Finish
<1>2. /\ handler[r] \in Works /\ handler[r].seen \in P!Earnings /\ handler[r].item \in Penalties
          /\ handler[r].pen = penalty
      /\ penalty \in P!PenaltyStates /\ earnings.totalPenalties = handler[r].seen.totalPenalties
  BY <1>1, Working DEF Knows, Since
<1> DEFINE x == handler[r].item
           seen == handler[r].seen
           status == IF handler[r].kind = "apply" THEN "applied" ELSE "waived"
           pen == [handler[r].pen EXCEPT ![x] = status]
           fined == [seen EXCEPT !.totalPenalties = P!Applied(pen)]
           w == IF P!Left(fined) = seen.withdrawableAmount THEN earnings.withdrawableAmount
               ELSE P!Left(fined)
           written == /\ penalty' = [penalty EXCEPT ![x] = status]
                      /\ earnings' = [earnings EXCEPT
                           !.totalPenalties = IF fined.totalPenalties = seen.totalPenalties
                                              THEN @ ELSE fined.totalPenalties,
                           !.withdrawableAmount = IF P!Left(fined) = seen.withdrawableAmount
                                                  THEN @ ELSE P!Left(fined)]
                      /\ torn' = (torn \/ (P!Missed(r) /\ P!Left(fined) # seen.withdrawableAmount))
<1>3. UNCHANGED <<earnings, penalty, torn>> \/ written
  BY Zenon DEF P!PenaltySave
<1>4. CASE UNCHANGED <<earnings, penalty, torn>>
  BY <1>1, <1>2, <1>4
<1>5. CASE written
  <2>1. pen \in P!PenaltyStates /\ penalty' = pen
    BY <1>2, <1>5 DEF P!PenaltyStates
  <2>2. P!Applied(pen) \in Nat
    BY <2>1, AppliedNat
  <2>3. Fields(fined, seen.totalEarned, seen.netEarnings, P!Applied(pen), seen.withdrawableAmount,
               seen.totalWithdrawn, seen.pendingWithdrawal)
    BY <1>2, <2>2 DEF P!Earnings, Fields
  <2> HIDE DEF fined
  <2>4. /\ P!Left(fined) \in Nat
        /\ P!Left(fined) = LET n == seen.netEarnings - P!Applied(pen) - seen.totalWithdrawn
                                    - seen.pendingWithdrawal
                         IN IF n < 0 THEN 0 ELSE n
    BY <2>3, LeftIs DEF Fields
  <2>5. earnings \in P!Earnings /\ w \in Nat
    BY <2>4, FieldTypes DEF Base, Types
  <2>6. earnings' = Fined(earnings, IF fined.totalPenalties = seen.totalPenalties
                                    THEN earnings.totalPenalties ELSE fined.totalPenalties, w)
    BY <1>5, Zenon DEF Fined
  <2>7. earnings' = Fined(earnings, P!Applied(pen), w)
    BY <1>2, <2>3, <2>6 DEF Fields
  <2>8. Fields(earnings', earnings.totalEarned, earnings.netEarnings, P!Applied(pen), w,
               earnings.totalWithdrawn, earnings.pendingWithdrawal)
    BY <2>2, <2>5, <2>7, FinedFields
  <2>9. torn' = (torn \/ (P!Missed(r) /\ P!Left(fined) # seen.withdrawableAmount))
    BY <1>5
  <2>10. P!Applied(penalty') = P!Applied(pen)
    BY <2>1
  <2> DEFINE l == P!Left(fined)
             tp == P!Applied(pen)
  <2>11. l \in Nat /\ tp \in Nat /\ w \in Nat
    BY <2>2, <2>4, <2>5
  <2>12. w = IF l = seen.withdrawableAmount THEN earnings.withdrawableAmount ELSE l
    OBVIOUS
  <2> HIDE DEF l, tp, w, pen
  <2>13. QED BY <1>1, <1>2, <2>1, <2>4, <2>8, <2>9, <2>10, <2>11, <2>12 DEF l, tp
<1>6. QED BY <1>3, <1>4, <1>5

----------------
(* The types.                                                              *)
\* Every step keeps the types.
LEMMA TypesStep ==
  ASSUME Given, Base, [P!Next]_(P!vars) PROVE Types'
<1> SUFFICES ASSUME P!Next PROVE Types'
  BY DEF Base, Types, P!vars
<1>0. Types
  BY DEF Base
<1>1. ASSUME NEW r \in PayoutSlots, NEW p \in Ids, NEW a \in Amounts, P!RequestBegin(r, p, a)
        PROVE Types'
  <2>1. a \in Nat
    BY AmountNat
  <2>2. QED BY <1>0, <1>1, <2>1 DEF P!RequestBegin, P!Start, Works, Types
<1>2. ASSUME NEW r \in PayoutSlots, NEW p \in Ids, P!HandleBegin(r, p) PROVE Types'
  <2>1. payout[p].amount \in Nat
    BY <1>0, WorthNat DEF Types
  <2>2. QED BY <1>0, <1>2, <2>1 DEF P!HandleBegin, P!Start, Works, P!From, P!To, Types
<1>3. ASSUME NEW r \in PayoutSlots, NEW x \in Penalties, P!PenaltyBegin(r, x) PROVE Types'
  BY <1>0, <1>3 DEF P!PenaltyBegin, P!Start, Works, Types
<1>4. ASSUME NEW r \in PayoutSlots, P!StatsBegin(r) PROVE Types'
  BY <1>0, <1>4 DEF P!StatsBegin, P!Start, Works, Types
<1>5. ASSUME NEW r \in PayoutSlots, P!CapCheck(r) PROVE Types'
  BY <1>0, <1>5 DEF P!CapCheck, P!At, P!Goto, P!Finish, Works, P!Idle, Types
<1>6. ASSUME NEW r \in PayoutSlots, P!OpenCheck(r) PROVE Types'
  BY <1>0, <1>6 DEF P!OpenCheck, P!At, P!Goto, P!Finish, Works, P!Idle, Types
<1>7. ASSUME NEW r \in PayoutSlots, P!RequestSave(r) PROVE Types'
  <2>1. handler[r].n \in Amounts /\ handler[r].item \in Ids /\ handler[r] \in Works
    BY <1>7, Working DEF P!RequestSave, P!At, Knows
  <2>2. [status |-> "pending", amount |-> handler[r].n] \in Documents
    BY <2>1 DEF Documents, P!Open
  <2>3. [handler[r] EXCEPT !.pc = "saved"] \in Works
    BY <2>1 DEF Works
  <2>4. QED BY <1>0, <1>7, <2>1, <2>2, <2>3 DEF P!RequestSave, P!At, P!Goto, Types
<1>8. ASSUME NEW r \in PayoutSlots, P!LockAmount(r) PROVE Types'
  BY <1>0, <1>8, LockEffect DEF P!LockAmount, P!Finish, Fields, Types
<1>9. ASSUME NEW r \in PayoutSlots, P!CompleteCheck(r) PROVE Types'
  <2>1. handler[r] \in Works /\ earnings \in P!Earnings
    BY <1>9, Working DEF P!CompleteCheck, P!At, Base, Types
  <2>2. [handler[r] EXCEPT !.pc = "read", !.seen = earnings] \in Works
    BY <2>1 DEF Works
  <2>3. handler' \in [PayoutSlots -> {P!Idle} \cup Works]
    BY <1>0, <1>9, <2>2 DEF P!CompleteCheck, Types
  <2>4. QED BY <1>0, <1>9, <2>3 DEF P!CompleteCheck, Types
<1>10. ASSUME NEW r \in PayoutSlots, P!HandleSave(r) PROVE Types'
  <2>1. handler[r].item \in Ids /\ P!To[handler[r].kind] \in P!Open \cup P!Closed
          /\ handler[r] \in Works
    BY <1>10, Working DEF P!HandleSave, P!At, Knows, P!To, P!Open, P!Closed
  <2>2. [payout[handler[r].item] EXCEPT !.status = P!To[handler[r].kind]] \in Documents
    BY <1>0, <2>1 DEF Documents, Types
  <2>3. [handler[r] EXCEPT !.pc = "saved"] \in Works
    BY <2>1 DEF Works
  <2>4. payout' \in [Ids -> Documents]
    BY <1>0, <1>10, <2>1, <2>2 DEF P!HandleSave, Types
  <2>5. QED BY <1>0, <1>10, <2>3, <2>4 DEF P!HandleSave, P!Goto, P!Finish, Types
<1>11. ASSUME NEW r \in PayoutSlots, P!ReleaseAmount(r) PROVE Types'
  BY <1>0, <1>11, ReleaseEffect DEF P!ReleaseAmount, P!Finish, Fields, Types
<1>12. ASSUME NEW r \in PayoutSlots, P!Deduct(r) PROVE Types'
  <2>1. earnings' \in P!Earnings
    BY <1>12, DeductEffect DEF Fields
  <2>2. torn' \in BOOLEAN /\ handler' \in [PayoutSlots -> {P!Idle} \cup Works]
    BY <1>0, <1>12 DEF P!Deduct, P!Missed, P!Finish, Types
  <2>3. QED BY <1>0, <1>12, <2>1, <2>2 DEF P!Deduct, Types
<1>13. ASSUME NEW r \in PayoutSlots, P!PenaltySave(r) PROVE Types'
  <2>1. earnings' \in P!Earnings /\ penalty' \in P!PenaltyStates /\ torn' \in BOOLEAN
    BY <1>0, <1>13, PenaltyEffect DEF Fields, P!Missed, Types
  <2>2. QED BY <1>0, <1>13, <2>1, PenaltyEffect DEF Types
<1>14. ASSUME NEW r \in PayoutSlots, P!StatsSum(r) PROVE Types'
  <2>1. handler' \in [PayoutSlots -> {P!Idle} \cup Works]
    BY <1>0, <1>14, SumEffect DEF Types
  <2>2. QED BY <1>0, <1>14, <2>1 DEF P!StatsSum, Types
<1>15. ASSUME NEW r \in PayoutSlots, P!StatsSave(r) PROVE Types'
  <2>1. earnings' \in P!Earnings
    BY <1>15, SaveEffect DEF Fields
  <2>2. torn' \in BOOLEAN /\ handler' \in [PayoutSlots -> {P!Idle} \cup Works]
    BY <1>0, <1>15 DEF P!StatsSave, P!Missed, P!Finish, Types
  <2>3. QED BY <1>0, <1>15, <2>1, <2>2 DEF P!StatsSave, Types
<1>16. ASSUME NEW r \in PayoutSlots, P!HandlerFails(r) PROVE Types'
  BY <1>0, <1>16 DEF P!HandlerFails, P!Finish, Given, PayoutBounds, Types
<1>17. ASSUME NEW i \in Incomes, P!UpdateEarnings(i) PROVE Types'
  <2>1. earnings' \in P!Earnings
    BY <1>17, EarnEffect DEF Fields
  <2>2. QED BY <1>0, <1>17, <2>1 DEF P!UpdateEarnings, Types
<1>18. ASSUME NEW p \in Ids, P!ApproveByTicket(p) PROVE Types'
  <2>1. [payout[p] EXCEPT !.status = "approved"] \in Documents
    BY <1>0 DEF Documents, P!Open, Types
  <2>2. QED BY <1>0, <1>18, <2>1 DEF P!ApproveByTicket, Given, PayoutBounds, Types
<1>19. QED
  BY <1>1, <1>2, <1>3, <1>4, <1>5, <1>6, <1>7, <1>8, <1>9, <1>10, <1>11, <1>12, <1>13, <1>14,
     <1>15, <1>16, <1>17, <1>18 DEF P!Next, P!Begins, P!Continues

----------------
(* What the handler knows.                                                 *)
\* A handler starts with what is stored.
LEMMA StartHeld ==
  ASSUME Given, Base, NEW r \in PayoutSlots, NEW pc, NEW kind, NEW item, NEW n,
         P!Start(r, pc, kind, item, n), UNCHANGED <<earnings, penalty, payout>>
  PROVE  /\ handler'[r].pc = pc /\ handler'[r].kind = kind /\ handler'[r].item = item
              /\ handler'[r].n = n
         /\ handler'[r].seen = earnings /\ handler'[r].pen = penalty
         /\ Since(handler[r])'
<1>1. handler'[r] = [pc |-> pc, kind |-> kind, item |-> item, n |-> n, seen |-> earnings,
        pen |-> penalty]
  BY DEF P!Start, Base, Types
<1>2. handler'[r].seen = earnings /\ earnings' = earnings
  BY <1>1
<1>3. earnings \in P!Earnings
  BY DEF Base, Types
<1>4. QED BY <1>1, <1>2, <1>3, FieldTypes DEF Since

\* A handler that moves on keeps what it has read.
LEMMA GotoHeld ==
  ASSUME Given, Base, NEW r \in PayoutSlots, NEW pc, P!Goto(r, pc), handler[r].pc # "idle",
           handler[r].pc # "summed",
         pc # "summed", UNCHANGED <<earnings, penalty>>
  PROVE  /\ handler'[r].pc = pc /\ handler'[r].kind = handler[r].kind
              /\ handler'[r].item = handler[r].item
         /\ handler'[r].n = handler[r].n /\ handler'[r].seen = handler[r].seen
              /\ handler'[r].pen = handler[r].pen
         /\ Since(handler[r])'
<1>1. handler[r] \in Works /\ Since(handler[r])
  BY Working
<1>2. handler'[r] = [handler[r] EXCEPT !.pc = pc]
  BY DEF P!Goto, Base, Types
<1>3. /\ handler'[r].pc = pc /\ handler'[r].kind = handler[r].kind
          /\ handler'[r].item = handler[r].item
      /\ handler'[r].n = handler[r].n /\ handler'[r].seen = handler[r].seen
           /\ handler'[r].pen = handler[r].pen
  BY <1>1, <1>2 DEF Works
<1>4. QED BY <1>1, <1>3 DEF Since

\* Every step keeps what the handler knows.
LEMMA HeldStep ==
  ASSUME Given, Base, [P!Next]_(P!vars) PROVE Held'
<1>0. Types /\ Held /\ OneSlot
  BY DEF Base, Given
<1>a. CASE UNCHANGED P!vars
  BY <1>0, <1>a DEF Held, Since, Knows, P!vars
<1> SUFFICES ASSUME P!Next, NEW r \in PayoutSlots, handler'[r].pc # "idle"
        PROVE (Since(handler[r]) /\ Knows(handler[r]))'
  BY <1>a DEF Held
<1>b. \A q \in PayoutSlots : q = r
  BY <1>0 DEF OneSlot
<1>c. P!Finish(r) => FALSE
  BY <1>0 DEF P!Finish, P!Idle, Types
<1>1. ASSUME NEW p \in Ids, NEW a \in Amounts, P!RequestBegin(r, p, a)
        PROVE (Since(handler[r]) /\ Knows(handler[r]))'
  <2>1. /\ P!Start(r, "read", "request", p, a) /\ UNCHANGED <<earnings, penalty, payout>>
        /\ payout[p].status = "none" /\ a <= earnings.withdrawableAmount
    BY <1>1 DEF P!RequestBegin
  <2>2. handler'[r].pc = "read" /\ handler'[r].kind = "request" /\ handler'[r].item = p
          /\ handler'[r].n = a /\ Since(handler[r])'
    BY <2>1, StartHeld
  <2>3. QED BY <2>1, <2>2 DEF Knows, P!To
<1>2. ASSUME NEW p \in Ids, P!HandleBegin(r, p) PROVE (Since(handler[r]) /\ Knows(handler[r]))'
  <2>1. PICK kind \in DOMAIN P!From :
          /\ payout[p].status \in P!From[kind]
          /\ P!Start(r, IF kind = "complete" THEN "found" ELSE "read", kind, p, payout[p].amount)
    BY <1>2 DEF P!HandleBegin
  <2>2. payout[p].status \in P!Open /\ kind \in {"approve", "process", "reject", "complete"}
    BY <2>1 DEF P!From, P!Open
  <2>3. UNCHANGED <<earnings, penalty, payout>>
    BY <1>2 DEF P!HandleBegin
  <2>4. handler'[r].pc \in {"found", "read"} /\ handler'[r].kind = kind /\ handler'[r].item = p
          /\ handler'[r].n = payout[p].amount /\ Since(handler[r])'
    BY <2>1, <2>3, StartHeld
  <2>5. QED BY <2>2, <2>3, <2>4 DEF Knows, P!To
<1>3. ASSUME NEW x \in Penalties, P!PenaltyBegin(r, x)
        PROVE (Since(handler[r]) /\ Knows(handler[r]))'
  <2>1. PICK kind \in {"apply", "waive"} : P!Start(r, "read", kind, x, 0)
    BY <1>3 DEF P!PenaltyBegin
  <2>2. UNCHANGED <<earnings, penalty, payout>>
    BY <1>3 DEF P!PenaltyBegin
  <2>3. handler'[r].pc = "read" /\ handler'[r].kind = kind /\ handler'[r].item = x
          /\ handler'[r].pen = penalty /\ Since(handler[r])'
    BY <2>1, <2>2, StartHeld
  <2>4. QED BY <2>2, <2>3 DEF Knows, P!To
<1>4. ASSUME P!StatsBegin(r) PROVE (Since(handler[r]) /\ Knows(handler[r]))'
  <2>1. P!Start(r, "read", "stats", "all", 0) /\ UNCHANGED <<earnings, penalty, payout>>
    BY <1>4 DEF P!StatsBegin
  <2>2. handler'[r].pc = "read" /\ handler'[r].kind = "stats" /\ handler'[r].pen = penalty
          /\ Since(handler[r])'
    BY <2>1, StartHeld
  <2>3. QED BY <2>1, <2>2 DEF Knows, P!To
<1>5. ASSUME P!CapCheck(r) PROVE (Since(handler[r]) /\ Knows(handler[r]))'
  BY <1>c, <1>5, GotoHeld, Working DEF P!CapCheck, P!At, Knows, P!To
<1>6. ASSUME P!OpenCheck(r) PROVE (Since(handler[r]) /\ Knows(handler[r]))'
  BY <1>c, <1>6, GotoHeld, Working DEF P!OpenCheck, P!At, Knows, P!To
<1>7. ASSUME P!RequestSave(r) PROVE (Since(handler[r]) /\ Knows(handler[r]))'
  BY <1>7, GotoHeld, Working DEF P!RequestSave, P!At, Knows, P!To
<1>8. ASSUME P!LockAmount(r) PROVE FALSE
  BY <1>c, <1>8 DEF P!LockAmount
<1>9. ASSUME P!CompleteCheck(r) PROVE (Since(handler[r]) /\ Knows(handler[r]))'
  <2>1. handler[r] \in Works /\ handler[r].kind = "complete" /\ handler[r].pc = "found"
          /\ Knows(handler[r]) /\ earnings \in P!Earnings
    BY <1>0, <1>9, Working DEF P!CompleteCheck, P!At, Types
  <2>2. handler'[r] = [handler[r] EXCEPT !.pc = "read", !.seen = earnings]
          /\ UNCHANGED <<earnings, payout, penalty>>
    BY <1>0, <1>9 DEF P!CompleteCheck, P!Idle, Types
  <2>3. /\ handler'[r].pc = "read" /\ handler'[r].kind = "complete"
            /\ handler'[r].item = handler[r].item
        /\ handler'[r].n = handler[r].n /\ handler'[r].seen = earnings
    BY <2>1, <2>2 DEF Works
  <2>4. Since(handler[r])'
    BY <2>1, <2>2, <2>3, FieldTypes DEF Since
  <2>5. QED BY <2>1, <2>2, <2>3, <2>4 DEF Knows, P!To
<1>10. ASSUME P!HandleSave(r) PROVE (Since(handler[r]) /\ Knows(handler[r]))'
  <2>1. P!Goto(r, "saved") /\ handler[r].kind \in {"reject", "complete"} /\ handler[r].pc = "read"
          /\ UNCHANGED <<earnings, penalty>>
    BY <1>c, <1>10 DEF P!HandleSave, P!At
  <2>2. handler[r].item \in Ids /\ handler[r].n = payout[handler[r].item].amount
          /\ payout[handler[r].item] \in Documents
    BY <1>0, <2>1, Working DEF Knows, P!To, Types
  <2>3. payout'[handler[r].item].amount = handler[r].n
    BY <1>0, <1>10, <2>2 DEF P!HandleSave, Types, Documents
  <2>4. handler'[r].pc = "saved" /\ handler'[r].kind = handler[r].kind
          /\ handler'[r].item = handler[r].item /\ handler'[r].n = handler[r].n
          /\ Since(handler[r])'
    BY <2>1, GotoHeld
  <2>5. QED BY <2>1, <2>2, <2>3, <2>4 DEF Knows, P!To
<1>11. ASSUME P!ReleaseAmount(r) \/ P!Deduct(r) \/ P!StatsSave(r) \/ P!PenaltySave(r)
        \/ P!HandlerFails(r) PROVE FALSE
  BY <1>c, <1>11 DEF P!ReleaseAmount, P!Deduct, P!StatsSave, P!PenaltySave, P!HandlerFails
<1>14. ASSUME P!StatsSum(r) PROVE (Since(handler[r]) /\ Knows(handler[r]))'
  <2>1. Since(handler[r]) /\ UNCHANGED <<earnings, penalty, payout>>
    BY <1>14, Working DEF P!StatsSum, P!At
  <2>2. QED BY <1>14, <2>1, SumEffect DEF Fields, Since, Knows, P!To
<1>17. ASSUME NEW i \in Incomes, P!UpdateEarnings(i) PROVE (Since(handler[r]) /\ Knows(handler[r]))'
  <2>1. UNCHANGED <<handler, penalty, payout>> /\ earnings \in P!Earnings
    BY <1>0, <1>17 DEF P!UpdateEarnings, Types
  <2>2. handler[r].pc # "idle" /\ handler[r].seen \in P!Earnings /\ handler[r].n \in Nat
          /\ Since(handler[r]) /\ Knows(handler[r])
    BY <2>1, Working
  <2>3. /\ i.gross \in Nat /\ i.net \in Nat /\ (i.gross = 0 => i.net = 0)
        /\ earnings'.totalEarned = earnings.totalEarned + i.gross
        /\ earnings'.netEarnings = earnings.netEarnings + i.net
        /\ earnings'.totalPenalties = earnings.totalPenalties
        /\ earnings'.withdrawableAmount = earnings.withdrawableAmount + i.net
        /\ earnings'.totalWithdrawn = earnings.totalWithdrawn
        /\ earnings'.pendingWithdrawal = earnings.pendingWithdrawal
    BY <1>17, EarnEffect DEF Fields
  <2>4. Since(handler[r])'
    BY <2>1, <2>2, <2>3, FieldTypes DEF Since
  <2>5. Knows(handler[r])'
    BY <2>1, <2>2, <2>3, FieldTypes DEF Knows
  <2>6. QED BY <2>4, <2>5
<1>18. ASSUME NEW p \in Ids, P!ApproveByTicket(p) PROVE (Since(handler[r]) /\ Knows(handler[r]))'
  <2>1. UNCHANGED <<handler, penalty, earnings>> /\ payout[p] \in Documents
    BY <1>0, <1>18 DEF P!ApproveByTicket, Types
  <2>2. handler[r].pc # "idle" /\ Since(handler[r]) /\ Knows(handler[r])
    BY <2>1, Working
  <2>3. /\ payout[p].status # "none" /\ payout'[p].status = "approved"
            /\ payout'[p].amount = payout[p].amount
        /\ \A q \in Ids : q # p => payout'[q] = payout[q]
    BY <1>0, <1>18, <2>1 DEF P!ApproveByTicket, Types, Documents, P!Open, P!Closed
  <2>4. Since(handler[r])'
    BY <2>1, <2>2 DEF Since
  <2>5. Knows(handler[r])'
    BY <2>1, <2>2, <2>3 DEF Knows, P!Open
  <2>6. QED BY <2>4, <2>5
<1>19. QED
  BY <1>b, <1>1, <1>2, <1>3, <1>4, <1>5, <1>6, <1>7, <1>8, <1>9, <1>10, <1>11, <1>14, <1>17, <1>18
     DEF P!Next, P!Begins, P!Continues

----------------
(* The cap.                                                                *)
Now(d, s) == [d EXCEPT !.status = s]
\* Only the status of a payout is set.
LEMMA StatusSet ==
  ASSUME NEW d \in Documents, NEW s
  PROVE  Now(d, s).status = s /\ Now(d, s).amount = d.amount
BY DEF Documents, Now

\* Nothing is worth nothing.
LEMMA TotalNone ==
  ASSUME Given, Types, NEW status, P!With(status) = {} PROVE P!Total(status) = 0
<1> DEFINE f == [p \in Ids |-> Worth(payout[p], status)]
<1>1. IsFiniteSet(Ids) /\ \A p \in Ids : f[p] = 0
  BY DEF Given, PayoutBounds, P!With, Worth
<1> HIDE DEF f
<1>2. SumFunctionOnSet(f, Ids) = 0
  BY <1>1, SumZero
<1>3. QED BY <1>2, TotalIs DEF f

\* The payouts are as they were, and the amounts earned not less.
LEMMA CapKept ==
  ASSUME Given, Base, Capped, UNCHANGED <<payout, reopened>>,
         earnings'.totalEarned \in Nat, earnings.totalEarned <= earnings'.totalEarned,
         \A r \in PayoutSlots : handler'[r].pc \in {"capped", "clear"} =>
           /\ handler'[r].n \in Nat
           /\ \/ handler[r].pc \in {"capped", "clear"} /\ handler'[r].n = handler[r].n
              \/ Room(handler'[r].n)
           /\ handler'[r].pc = "clear" => handler[r].pc = "clear" \/ P!With(P!Open) = {}
  PROVE  Capped'
<1> SUFFICES ASSUME reopened = {} PROVE
      /\ \A p, q \in P!With(P!Open)' : p = q
      /\ 2 * P!Total(P!Open \cup {"completed"})' <= earnings'.totalEarned
      /\ \A r \in PayoutSlots : handler'[r].pc \in {"capped", "clear"} => Room(handler[r].n)'
      /\ \A r \in PayoutSlots : handler'[r].pc = "clear" => P!With(P!Open)' = {}
  BY DEF Capped
<1>1. P!With(P!Open)' = P!With(P!Open) /\ \A status : P!Total(status)' = P!Total(status)
  BY SameTotal DEF P!With
<1>2. earnings.totalEarned \in Nat /\ P!Total(P!Open \cup {"completed"}) \in Nat
        /\ P!Total({"completed"}) \in Nat
  BY TotalNat, FieldTypes DEF Base, Types
<1>3. \A p, q \in P!With(P!Open)' : p = q
  BY <1>1 DEF Capped
<1>4. 2 * P!Total(P!Open \cup {"completed"})' <= earnings'.totalEarned
  BY <1>1, <1>2 DEF Capped
<1>5. ASSUME NEW r \in PayoutSlots, handler'[r].pc \in {"capped", "clear"} PROVE Room(handler[r].n)'
  <2>1. Room(handler'[r].n) /\ handler'[r].n \in Nat
    BY <1>5 DEF Capped
  <2>2. QED BY <1>1, <1>2, <2>1 DEF Room
<1>6. ASSUME NEW r \in PayoutSlots, handler'[r].pc = "clear" PROVE P!With(P!Open)' = {}
  BY <1>1, <1>6 DEF Capped
<1>7. QED BY <1>3, <1>4, <1>5, <1>6

\* What leaves the payouts alone and does not check the cap.
LEMMA Elsewhere ==
  ASSUME Given, Base, NEW r \in PayoutSlots,
         \/ \E p \in Ids : P!HandleBegin(r, p) \/ \E a \in Amounts : P!RequestBegin(r, p, a)
         \/ \E x \in Penalties : P!PenaltyBegin(r, x)
         \/ P!StatsBegin(r) \/ P!LockAmount(r) \/ P!CompleteCheck(r) \/ P!ReleaseAmount(r)
              \/ P!Deduct(r)
         \/ P!PenaltySave(r) \/ P!StatsSum(r) \/ P!StatsSave(r) \/ P!HandlerFails(r)
  PROVE  /\ UNCHANGED <<payout, reopened>> /\ earnings'.totalEarned = earnings.totalEarned
         /\ handler'[r].pc \notin {"capped", "clear"}
<1>0. Types
  BY DEF Base
<1>a. ASSUME P!Finish(r) PROVE handler'[r].pc = "idle"
  BY <1>0, <1>a DEF P!Finish, P!Idle, Types
<1>b. ASSUME NEW pc, NEW kind, NEW item, NEW n, P!Start(r, pc, kind, item, n)
        PROVE handler'[r].pc = pc
  BY <1>0, <1>b DEF P!Start, Types
<1>1. CASE \E p \in Ids : P!HandleBegin(r, p) \/ \E a \in Amounts : P!RequestBegin(r, p, a)
  BY <1>1, <1>b DEF P!HandleBegin, P!RequestBegin
<1>2. CASE (\E x \in Penalties : P!PenaltyBegin(r, x)) \/ P!StatsBegin(r)
  BY <1>2, <1>b DEF P!PenaltyBegin, P!StatsBegin
<1>3. CASE P!LockAmount(r)
  BY <1>3, <1>a, LockEffect DEF P!LockAmount, Fields
<1>4. CASE P!CompleteCheck(r)
  <2>1. UNCHANGED <<payout, reopened, earnings>> /\ handler[r] \in Works
    BY <1>4, Working DEF P!CompleteCheck, P!At
  <2>2. handler'[r].pc \in {"read", "idle"}
    BY <1>0, <1>4, <2>1 DEF P!CompleteCheck, P!Idle, Types, Works
  <2>3. QED BY <2>1, <2>2
<1>5. CASE P!ReleaseAmount(r)
  BY <1>5, <1>a, ReleaseEffect DEF P!ReleaseAmount, Fields
<1>6. CASE P!Deduct(r)
  BY <1>6, <1>a, DeductEffect DEF P!Deduct, Fields
<1>7. CASE P!PenaltySave(r)
  BY <1>0, <1>7, PenaltyEffect DEF Fields, P!Idle, Types
<1>8. CASE P!StatsSum(r)
  BY <1>8, SumEffect DEF P!StatsSum
<1>9. CASE P!StatsSave(r)
  BY <1>9, <1>a, SaveEffect DEF P!StatsSave, Fields
<1>10. CASE P!HandlerFails(r)
  BY <1>10, <1>a DEF P!HandlerFails
<1>11. QED BY <1>1, <1>2, <1>3, <1>4, <1>5, <1>6, <1>7, <1>8, <1>9, <1>10

\* Every step keeps the cap.
LEMMA CappedStep ==
  ASSUME Given, Base, Capped, [P!Next]_(P!vars) PROVE Capped'
<1>0. Types /\ Types' /\ earnings.totalEarned \in Nat /\ earnings'.totalEarned \in Nat
  BY TypesStep, FieldTypes DEF Base, Types
<1>a. CASE UNCHANGED P!vars
  <2>1. UNCHANGED <<payout, reopened, earnings, handler>>
    BY <1>a DEF P!vars
  <2>2. \A r \in PayoutSlots : handler'[r].pc \in {"capped", "clear"} => handler'[r].n \in Nat
    BY <2>1, Working
  <2>3. QED BY <1>0, <2>1, <2>2, CapKept
<1>b. PICK r : PayoutSlots = {r}
  BY DEF Given, OneSlot
<1>1. CASE \/ \E p \in Ids : P!HandleBegin(r, p) \/ \E a \in Amounts : P!RequestBegin(r, p, a)
           \/ \E x \in Penalties : P!PenaltyBegin(r, x)
           \/ P!StatsBegin(r) \/ P!LockAmount(r) \/ P!CompleteCheck(r) \/ P!ReleaseAmount(r)
                \/ P!Deduct(r)
           \/ P!PenaltySave(r) \/ P!StatsSum(r) \/ P!StatsSave(r) \/ P!HandlerFails(r)
  <2>1. /\ UNCHANGED <<payout, reopened>> /\ earnings'.totalEarned = earnings.totalEarned
        /\ handler'[r].pc \notin {"capped", "clear"}
    BY <1>b, <1>1, Elsewhere
  <2>2. QED BY <1>0, <1>b, <2>1, CapKept
<1>2. CASE P!CapCheck(r)
  <2>1. handler[r].pc = "read" /\ handler[r].n \in Nat /\ handler[r].seen \in P!Earnings
          /\ Since(handler[r]) /\ handler[r] \in Works
    BY <1>b, <1>2, Working DEF P!CapCheck, P!At
  <2>2. CASE P!Goto(r, "capped") /\ 2 * (P!Total({"completed"})
          + handler[r].n) <= handler[r].seen.totalEarned
    <3>1. handler'[r].pc = "capped" /\ handler'[r].n = handler[r].n
      BY <1>0, <1>b, <2>1, <2>2 DEF P!Goto, Types, Works
    <3>2. Room(handler[r].n)
      BY <1>0, <2>1, <2>2, TotalNat, FieldTypes DEF Room, Since
    <3>3. UNCHANGED <<payout, reopened, earnings>>
      BY <1>2 DEF P!CapCheck
    <3>4. QED BY <1>0, <1>b, <2>1, <3>1, <3>2, <3>3, CapKept
  <2>3. CASE P!Finish(r)
    <3>1. handler'[r].pc = "idle"
      BY <1>0, <1>b, <2>3 DEF P!Finish, P!Idle, Types
    <3>2. UNCHANGED <<payout, reopened, earnings>>
      BY <1>2 DEF P!CapCheck
    <3>3. QED BY <1>0, <1>b, <3>1, <3>2, CapKept
  <2>4. QED BY <1>2, <2>2, <2>3 DEF P!CapCheck
<1>3. CASE P!OpenCheck(r)
  <2>1. handler[r].pc = "capped" /\ handler[r].n \in Nat /\ handler[r] \in Works
          /\ UNCHANGED <<payout, reopened, earnings>>
    BY <1>b, <1>3, Working DEF P!OpenCheck, P!At
  <2>2. CASE P!Goto(r, "clear") /\ P!With(P!Open) = {}
    <3>1. handler'[r].pc = "clear" /\ handler'[r].n = handler[r].n
      BY <1>0, <1>b, <2>1, <2>2 DEF P!Goto, Types, Works
    <3>2. QED BY <1>0, <1>b, <2>1, <2>2, <3>1, CapKept
  <2>3. CASE P!Finish(r)
    <3>1. handler'[r].pc = "idle"
      BY <1>0, <1>b, <2>3 DEF P!Finish, P!Idle, Types
    <3>2. QED BY <1>0, <1>b, <2>1, <3>1, CapKept
  <2>4. QED BY <1>3, <2>2, <2>3 DEF P!OpenCheck
<1>4. CASE P!RequestSave(r)
  <2>1. /\ handler[r].pc = "clear" /\ handler[r].n \in Nat /\ handler[r].item \in Ids
            /\ payout[handler[r].item].status = "none"
        /\ UNCHANGED <<earnings, reopened>> /\ P!Goto(r, "saved")
    BY <1>b, <1>4, Working DEF P!RequestSave, P!At, Knows
  <2> DEFINE p == handler[r].item
  <2>2. /\ payout'[p].status = "pending" /\ payout'[p].amount = handler[r].n
        /\ \A q \in Ids \ {p} : payout'[q] = payout[q]
    BY <1>0, <1>4, <2>1 DEF P!RequestSave, Types
  <2>3. handler'[r].pc = "saved"
    BY <1>0, <1>b, <2>1 DEF P!Goto, Types
  <2> SUFFICES ASSUME reopened = {} PROVE
        (\A p1, p2 \in P!With(P!Open)' : p1 = p2) /\ 2 * P!Total(P!Open \cup {"completed"})'
            <= earnings'.totalEarned
    BY <1>b, <2>1, <2>3 DEF Capped
  <2>4. P!With(P!Open) = {} /\ Room(handler[r].n)
    BY <1>b, <2>1 DEF Capped
  <2>5. P!With(P!Open)' = {p}
    BY <2>1, <2>2, <2>4 DEF P!With, P!Open
  <2>6. Worth(payout'[p], P!Open \cup {"completed"}) = handler[r].n
          /\ Worth(payout[p], P!Open \cup {"completed"}) = 0
    BY <2>1, <2>2 DEF Worth, P!Open
  <2>7. P!Total(P!Open \cup {"completed"})' = P!Total(P!Open \cup {"completed"}) + handler[r].n - 0
    BY <1>0, <2>1, <2>2, <2>6, TotalChange
  <2>8. P!Total(P!Open \cup {"completed"}) = P!Total({"completed"})
    BY <1>0, <2>4, TotalAdd, TotalNone, TotalNat
  <2>9. QED BY <1>0, <2>1, <2>4, <2>5, <2>7, <2>8, TotalNat DEF Room
<1>5. CASE P!HandleSave(r)
  <2>1. /\ handler[r].pc = "read" /\ handler[r].kind \in DOMAIN P!To /\ handler[r].item \in Ids
        /\ payout[handler[r].item].status \in P!Open /\ UNCHANGED <<earnings, reopened>>
             /\ handler[r] \in Works
        /\ P!Goto(r, "saved") \/ P!Finish(r)
    BY <1>b, <1>5, Working DEF P!HandleSave, P!At, Knows, P!To
  <2> DEFINE p == handler[r].item
  <2>2. /\ payout'[p] = [payout[p] EXCEPT !.status = P!To[handler[r].kind]]
        /\ \A q \in Ids \ {p} : payout'[q] = payout[q]
    BY <1>0, <1>5, <2>1 DEF P!HandleSave, Types
  <2>3. payout[p] \in Documents /\ payout'[p].status \in P!Open \cup P!Closed
          /\ payout'[p].amount = payout[p].amount
    <3>1. payout[p] \in Documents /\ P!To[handler[r].kind] \in P!Open \cup P!Closed
      BY <1>0, <2>1 DEF Types, P!To, P!Open, P!Closed
    <3>2. payout'[p].status = P!To[handler[r].kind] /\ payout'[p].amount = payout[p].amount
      <4>1. payout'[p] = Now(payout[p], P!To[handler[r].kind])
        BY <2>2 DEF Now
      <4>2. QED BY <3>1, <4>1, StatusSet
    <3>3. QED BY <3>1, <3>2
  <2>4. handler'[r].pc \in {"saved", "idle"}
    <3>1. CASE P!Goto(r, "saved")
      BY <1>0, <1>b, <2>1, <3>1 DEF P!Goto, Types, Works
    <3>2. CASE P!Finish(r)
      BY <1>0, <1>b, <3>2 DEF P!Finish, P!Idle, Types
    <3>3. QED BY <2>1, <3>1, <3>2
  <2> SUFFICES ASSUME reopened = {} PROVE
        (\A p1, p2 \in P!With(P!Open)' : p1 = p2) /\ 2 * P!Total(P!Open \cup {"completed"})'
            <= earnings'.totalEarned
    BY <1>b, <2>1, <2>4 DEF Capped
  <2>5. P!With(P!Open)' \subseteq P!With(P!Open)
    BY <2>1, <2>2 DEF P!With
  <2>6. /\ Worth(payout[p], P!Open \cup {"completed"}) = payout[p].amount
        /\ Worth(payout'[p], P!Open \cup {"completed"}) \in {0, payout[p].amount}
        /\ payout[p].amount \in Nat
    BY <2>1, <2>3, WorthNat DEF Worth
  <2>7. P!Total(P!Open \cup {"completed"})' = P!Total(P!Open \cup {"completed"})
          + Worth(payout'[p], P!Open \cup {"completed"}) - Worth(payout[p],
              P!Open \cup {"completed"})
    BY <1>0, <2>1, <2>2, TotalChange
  <2>8. P!Total(P!Open \cup {"completed"})' <= P!Total(P!Open \cup {"completed"})
    BY <1>0, <2>6, <2>7, TotalNat
  <2>9. P!Total(P!Open \cup {"completed"}) \in Nat /\ P!Total(P!Open \cup {"completed"})' \in Int
    <3>1. P!Total(P!Open \cup {"completed"}) \in Nat
      BY <1>0, TotalNat
    <3>2. QED BY <2>6, <2>7, <3>1
  <2>10. QED BY <1>0, <2>1, <2>5, <2>8, <2>9 DEF Capped
<1>6. CASE \E i \in Incomes : P!UpdateEarnings(i)
  <2>1. PICK i \in Incomes : P!UpdateEarnings(i)
    BY <1>6
  <2>2. UNCHANGED <<payout, reopened, handler>> /\ i.gross \in Nat
          /\ earnings'.totalEarned = earnings.totalEarned + i.gross
    BY <2>1, EarnEffect DEF P!UpdateEarnings, Fields
  <2>3. \A q \in PayoutSlots : handler'[q].pc \in {"capped", "clear"} => handler'[q].n \in Nat
    BY <2>2, Working
  <2>4. QED BY <1>0, <2>2, <2>3, CapKept
<1>7. CASE \E p \in Ids : P!ApproveByTicket(p)
  <2>1. PICK p \in Ids : P!ApproveByTicket(p)
    BY <1>7
  <2> SUFFICES ASSUME reopened' = {} PROVE Capped'
    BY DEF Capped
  <2>2. payout[p].status \in P!Open /\ reopened = {} /\ UNCHANGED <<earnings, handler>>
    BY <2>1 DEF P!ApproveByTicket
  <2>3. /\ payout'[p] = [payout[p] EXCEPT !.status = "approved"] /\ payout[p] \in Documents
        /\ \A q \in Ids \ {p} : payout'[q] = payout[q]
    BY <1>0, <2>1 DEF P!ApproveByTicket, Types
  <2>4. payout'[p].status = "approved" /\ payout'[p].amount = payout[p].amount
    BY <2>3 DEF Documents
  <2>5. P!With(P!Open)' = P!With(P!Open) /\ p \in P!With(P!Open)
    BY <2>2, <2>3, <2>4 DEF P!With, P!Open
  <2>6. \A status \in {P!Open \cup {"completed"}, {"completed"}} : P!Total(status)'
          = P!Total(status)
    <3> SUFFICES ASSUME NEW status \in {P!Open \cup {"completed"}, {"completed"}}
            PROVE P!Total(status)' = P!Total(status)
      OBVIOUS
    <3>1. Worth(payout'[p], status) = Worth(payout[p], status) /\ Worth(payout[p], status) \in Nat
      BY <2>2, <2>3, <2>4, WorthNat DEF Worth, P!Open
    <3>2. P!Total(status)' = P!Total(status) + Worth(payout'[p], status) - Worth(payout[p], status)
      BY <1>0, <2>3, TotalChange
    <3>3. QED BY <1>0, <3>1, <3>2, TotalNat
  <2>7. QED BY <2>2, <2>5, <2>6 DEF Capped, Room
<1>8. QED BY <1>a, <1>b, <1>1, <1>2, <1>3, <1>4, <1>5, <1>6, <1>7 DEF P!Next, P!Begins, P!Continues

----------------
(* The books.                                                              *)

\* A ticket that reopens nothing changes no total.
LEMMA TicketEffect ==
  ASSUME Given, Base, Types', NEW p \in Ids, P!ApproveByTicket(p), reopened' = {}
  PROVE  /\ reopened = {} /\ UNCHANGED <<earnings, penalty, handler, torn>>
         /\ \A status \in {P!Open, {"completed"}} : P!Total(status)' = P!Total(status)
<1>0. Types
  BY DEF Base
<1>1. payout[p].status \in P!Open /\ reopened = {} /\ UNCHANGED <<earnings, penalty, handler, torn>>
  BY DEF P!ApproveByTicket
<1>2. /\ payout'[p] = [payout[p] EXCEPT !.status = "approved"] /\ payout[p] \in Documents
      /\ \A q \in Ids \ {p} : payout'[q] = payout[q]
  BY <1>0 DEF P!ApproveByTicket, Types
<1>3. payout'[p].status = "approved" /\ payout'[p].amount = payout[p].amount
  BY <1>2 DEF Documents
<1>4. ASSUME NEW status \in {P!Open, {"completed"}} PROVE P!Total(status)' = P!Total(status)
  <2>1. Worth(payout'[p], status) = Worth(payout[p], status) /\ Worth(payout[p], status) \in Nat
    BY <1>1, <1>2, <1>3, WorthNat DEF Worth, P!Open
  <2>2. P!Total(status)' = P!Total(status) + Worth(payout'[p], status) - Worth(payout[p], status)
    BY <1>0, <1>2, TotalChange
  <2>3. QED BY <1>0, <2>1, <2>2, TotalNat
<1>5. QED BY <1>1, <1>4

\* Every step keeps what a recount has counted.
LEMMA CountedStep ==
  ASSUME Given, Base, Counted, [P!Next]_(P!vars) PROVE Counted'
<1>0. Types /\ Types'
  BY TypesStep DEF Base
<1>a. CASE UNCHANGED P!vars
  <2>1. UNCHANGED <<payout, reopened, penalty, handler>>
    BY <1>a DEF P!vars
  <2>2. QED BY <2>1, SameTotal DEF Counted
<1>b. PICK r : PayoutSlots = {r}
  BY DEF Given, OneSlot
<1> SUFFICES ASSUME P!Next, handler'[r].pc = "summed"
             PROVE  /\ handler'[r].seen.netEarnings = P!Net(handler'[r].seen.totalEarned)
                    /\ handler'[r].seen.totalPenalties = P!Applied(penalty')
                    /\ reopened' = {} => /\ handler'[r].seen.totalWithdrawn
                         = P!Total({"completed"})'
                                         /\ handler'[r].seen.pendingWithdrawal = P!Total(P!Open)'
  BY <1>a, <1>b DEF Counted
<1>c. ASSUME P!Finish(r) PROVE FALSE
  BY <1>0, <1>b, <1>c DEF P!Finish, P!Idle, Types
<1>d. ASSUME NEW pc, P!Goto(r, pc), pc # "summed" PROVE FALSE
  BY <1>0, <1>b, <1>d DEF P!Goto, P!Idle, Types
<1>e. ASSUME NEW pc, NEW kind, NEW item, NEW n, P!Start(r, pc, kind, item, n) PROVE pc = "summed"
  BY <1>0, <1>b, <1>e DEF P!Start, Types
<1>1. ASSUME P!Begins(r) PROVE FALSE
  BY <1>1, <1>e DEF P!Begins, P!HandleBegin, P!RequestBegin, P!PenaltyBegin, P!StatsBegin
<1>2. ASSUME \/ P!CapCheck(r) \/ P!OpenCheck(r) \/ P!RequestSave(r) \/ P!LockAmount(r)
                 \/ P!HandleSave(r)
             \/ P!ReleaseAmount(r) \/ P!Deduct(r) \/ P!PenaltySave(r) \/ P!StatsSave(r)
                  \/ P!HandlerFails(r)
      PROVE  FALSE
  BY <1>2, <1>c, <1>d DEF P!CapCheck, P!OpenCheck, P!RequestSave, P!LockAmount, P!HandleSave,
       P!ReleaseAmount,
       P!Deduct, P!PenaltySave, P!StatsSave, P!HandlerFails
<1>3. ASSUME P!CompleteCheck(r) PROVE FALSE
  <2>1. handler[r] \in Works
    BY <1>b, <1>3, Working DEF P!CompleteCheck, P!At
  <2>2. handler'[r].pc \in {"read", "idle"}
    BY <1>0, <1>b, <1>3, <2>1 DEF P!CompleteCheck, P!Idle, Types, Works
  <2>3. QED BY <2>2
<1>4. CASE P!StatsSum(r)
  <2>1. UNCHANGED <<payout, penalty>>
    BY <1>4 DEF P!StatsSum
  <2>2. QED BY <1>b, <1>4, <2>1, SumEffect, SameTotal DEF Fields
<1>5. CASE \E i \in Incomes : P!UpdateEarnings(i)
  <2>1. UNCHANGED <<payout, reopened, penalty, handler>>
    BY <1>5 DEF P!UpdateEarnings
  <2>2. QED BY <1>b, <2>1, SameTotal DEF Counted
<1>6. CASE \E p \in Ids : P!ApproveByTicket(p)
  <2>1. PICK p \in Ids : P!ApproveByTicket(p)
    BY <1>6
  <2>2. UNCHANGED <<penalty, handler>>
    BY <2>1 DEF P!ApproveByTicket
  <2>3. reopened' = {} => reopened = {} /\ P!Total({"completed"})' = P!Total({"completed"})
          /\ P!Total(P!Open)' = P!Total(P!Open)
    BY <1>0, <2>1, TicketEffect
  <2>4. QED BY <1>b, <2>2, <2>3 DEF Counted
<1>7. QED BY <1>b, <1>1, <1>2, <1>3, <1>4, <1>5, <1>6 DEF P!Next, P!Continues

\* The books of one slot, as numbers.
Even(e, pen, h, paid, open) ==
  /\ e.totalPenalties = P!Applied(pen)
  /\ Booked(e)
  /\ e.totalWithdrawn = paid - Owed(h, {"complete"})
  /\ e.pendingWithdrawal = open + Owed(h, {"reject", "complete"}) - Owed(h, {"request"})

\* The books are those of the one slot, before a step and after it.
LEMMA BooksIs ==
  ASSUME NEW r, PayoutSlots = {r}
  PROVE  /\ Books <=> (reopened = {} /\ ~torn
                         => Even(earnings, penalty, handler[r], P!Total({"completed"}),
                             P!Total(P!Open)))
         /\ Books' <=> (reopened' = {} /\ ~torn'
                         => Even(earnings', penalty', handler'[r], P!Total({"completed"})',
                             P!Total(P!Open)'))
<1>1. Books <=> (reopened = {} /\ ~torn
                         => Even(earnings, penalty, handler[r], P!Total({"completed"}),
                             P!Total(P!Open)))
  BY DEF Books, Even
<1>2. Books' <=> (reopened' = {} /\ ~torn'
                         => Even(earnings', penalty', handler'[r], P!Total({"completed"})',
                             P!Total(P!Open)'))
  BY DEF Books, Even
<1>3. QED BY <1>1, <1>2

\* The amounts as numbers: what is left, and that it is not more than kept.
LEMMA BookedIs ==
  ASSUME NEW e \in P!Earnings
  PROVE  Booked(e) <=>
           /\ e.netEarnings - e.totalPenalties - e.totalWithdrawn
                - e.pendingWithdrawal <= e.withdrawableAmount
           /\ e.withdrawableAmount + e.totalWithdrawn + e.pendingWithdrawal <= e.netEarnings
<1>1. /\ e.totalEarned \in Nat /\ e.netEarnings \in Nat /\ e.totalPenalties \in Nat
      /\ e.withdrawableAmount \in Nat /\ e.totalWithdrawn \in Nat /\ e.pendingWithdrawal \in Int
  BY FieldTypes
<1>2. QED BY <1>1, LeftIs DEF Booked

\* Every step keeps the books.
LEMMA BooksStep ==
  ASSUME Given, PInv, [P!Next]_(P!vars) PROVE Books'
<1>0. Types /\ Types' /\ Base /\ Held /\ earnings \in P!Earnings /\ earnings' \in P!Earnings
  BY TypesStep DEF PInv, Base, Types
<1>t. /\ P!Total({"completed"}) \in Nat /\ P!Total(P!Open) \in Nat
      /\ UNCHANGED payout => P!Total({"completed"})' = P!Total({"completed"})
           /\ P!Total(P!Open)' = P!Total(P!Open)
  BY <1>0, TotalNat, SameTotal
<1>f. /\ earnings.totalEarned \in Nat /\ earnings.netEarnings \in Nat
          /\ earnings.totalPenalties \in Nat
      /\ earnings.withdrawableAmount \in Nat /\ earnings.totalWithdrawn \in Nat
           /\ earnings.pendingWithdrawal \in Int
  BY <1>0, FieldTypes
<1>b. PICK r : PayoutSlots = {r}
  BY DEF Given, OneSlot
<1> SUFFICES ASSUME reopened' = {}, ~torn'
             PROVE  Even(earnings', penalty', handler'[r], P!Total({"completed"})',
                      P!Total(P!Open)')
  BY <1>b, BooksIs
<1>e. reopened = {} /\ ~torn => Even(earnings, penalty, handler[r], P!Total({"completed"}),
        P!Total(P!Open))
  BY <1>b, BooksIs DEF PInv
<1>c. ASSUME P!Finish(r) PROVE handler'[r].pc = "idle"
  BY <1>0, <1>b, <1>c DEF P!Finish, P!Idle, Types
\* Nothing of the books changes, and nothing is owed before or after.
<1>s. ASSUME UNCHANGED <<earnings, penalty, payout, reopened, torn>>,
             handler[r].pc # "saved", handler'[r].pc # "saved"
      PROVE  Even(earnings', penalty', handler'[r], P!Total({"completed"})', P!Total(P!Open)')
  <2>1. Even(earnings, penalty, handler[r], P!Total({"completed"}), P!Total(P!Open))
    BY <1>e, <1>s
  <2>2. \A kinds : Owed(handler[r], kinds) = 0 /\ Owed(handler'[r], kinds) = 0
    BY <1>s DEF Owed
  <2>3. QED BY <1>t, <1>s, <2>1, <2>2 DEF Even
<1>1. CASE UNCHANGED P!vars
  <2>1. UNCHANGED <<earnings, penalty, payout, reopened, torn, handler>>
    BY <1>1 DEF P!vars
  <2>2. QED BY <1>e, <1>t, <2>1
<1>2. CASE P!Begins(r)
  <2>1. handler[r].pc = "idle" /\ handler'[r].pc \in {"read", "found"}
    BY <1>0, <1>b, <1>2 DEF P!Begins, P!HandleBegin, P!RequestBegin, P!PenaltyBegin, P!StatsBegin,
         P!Start, Types
  <2>2. UNCHANGED <<earnings, penalty, payout, reopened, torn>>
    BY <1>2 DEF P!Begins, P!HandleBegin, P!RequestBegin, P!PenaltyBegin, P!StatsBegin
  <2>3. QED BY <1>s, <2>1, <2>2
<1>3. CASE P!CapCheck(r) \/ P!OpenCheck(r)
  <2>1. /\ UNCHANGED <<earnings, penalty, payout, reopened, torn>>
            /\ handler[r].pc \in {"read", "capped"}
        /\ P!Goto(r, "capped") \/ P!Goto(r, "clear") \/ P!Finish(r)
    BY <1>3 DEF P!CapCheck, P!OpenCheck, P!At
  <2>2. handler[r] \in Works
    BY <1>0, <1>b, <2>1, Working
  <2>3. ASSUME NEW pc, P!Goto(r, pc) PROVE handler'[r].pc = pc
    BY <1>0, <1>b, <2>2, <2>3 DEF P!Goto, Types, Works
  <2>4. handler'[r].pc # "saved"
    BY <1>c, <2>1, <2>3
  <2>5. QED BY <1>s, <2>1, <2>4
<1>4. CASE P!CompleteCheck(r)
  <2>1. handler[r] \in Works /\ UNCHANGED <<earnings, penalty, payout, reopened, torn>>
          /\ handler[r].pc = "found"
    BY <1>0, <1>b, <1>4, Working DEF P!CompleteCheck, P!At
  <2>2. handler'[r].pc \in {"read", "idle"}
    BY <1>0, <1>b, <1>4, <2>1 DEF P!CompleteCheck, P!Idle, Types, Works
  <2>3. QED BY <1>s, <2>1, <2>2
<1>5. CASE P!StatsSum(r)
  <2>1. UNCHANGED <<earnings, penalty, payout, reopened, torn>> /\ handler[r].pc = "read"
    BY <1>5 DEF P!StatsSum, P!At
  <2>2. handler'[r].pc = "summed"
    BY <1>0, <1>b, <1>5, SumEffect
  <2>3. QED BY <1>s, <2>1, <2>2
<1>6. CASE P!HandlerFails(r)
  <2>1. UNCHANGED <<earnings, penalty, payout, reopened, torn>> /\ handler[r].pc # "saved"
          /\ handler'[r].pc = "idle"
    BY <1>6, <1>c, <1>0 DEF P!HandlerFails, Types
  <2>2. QED BY <1>s, <2>1
<1>7. CASE P!RequestSave(r)
  <2>1. /\ handler[r].pc = "clear" /\ handler[r].kind = "request" /\ handler[r].n \in Nat
            /\ handler[r].item \in Ids
        /\ payout[handler[r].item].status = "none" /\ handler[r] \in Works
        /\ UNCHANGED <<earnings, penalty, reopened, torn>> /\ P!Goto(r, "saved")
    BY <1>0, <1>b, <1>7, Working DEF P!RequestSave, P!At, Knows
  <2> DEFINE p == handler[r].item
  <2>2. /\ payout'[p].status = "pending" /\ payout'[p].amount = handler[r].n
        /\ \A q \in Ids \ {p} : payout'[q] = payout[q]
    BY <1>0, <1>7, <2>1 DEF P!RequestSave, Types
  <2>3. handler'[r].pc = "saved" /\ handler'[r].kind = "request" /\ handler'[r].n = handler[r].n
    BY <1>0, <1>b, <2>1 DEF P!Goto, Types, Works
  <2>4. /\ Worth(payout'[p], P!Open) = handler[r].n /\ Worth(payout[p], P!Open) = 0
        /\ Worth(payout'[p], {"completed"}) = 0 /\ Worth(payout[p], {"completed"}) = 0
    BY <2>1, <2>2 DEF Worth, P!Open
  <2>5. /\ P!Total(P!Open)' = P!Total(P!Open) + handler[r].n - 0
        /\ P!Total({"completed"})' = P!Total({"completed"}) + 0 - 0
    BY <1>0, <2>1, <2>2, <2>4, TotalChange
  <2>6. /\ Owed(handler[r], {"complete"}) = 0 /\ Owed(handler[r], {"reject", "complete"}) = 0
            /\ Owed(handler[r], {"request"}) = 0
        /\ Owed(handler'[r], {"complete"}) = 0 /\ Owed(handler'[r], {"reject", "complete"}) = 0
             /\ Owed(handler'[r], {"request"}) = handler[r].n
    BY <2>1, <2>3 DEF Owed
  <2>7. Even(earnings, penalty, handler[r], P!Total({"completed"}), P!Total(P!Open))
    BY <1>e, <2>1
  <2>8. QED BY <1>t, <1>f, <2>1, <2>5, <2>6, <2>7 DEF Even
<1>8. CASE P!LockAmount(r)
  <2>1. /\ handler[r].pc = "saved" /\ handler[r].kind = "request"
        /\ UNCHANGED <<penalty, payout, reopened, torn>> /\ handler'[r].pc = "idle"
    BY <1>8, <1>c DEF P!LockAmount, P!At
  <2>2. /\ handler[r].n \in Nat /\ handler[r].n <= earnings.withdrawableAmount
        /\ Fields(earnings', earnings.totalEarned, earnings.netEarnings, earnings.totalPenalties,
                   earnings.withdrawableAmount - handler[r].n, earnings.totalWithdrawn,
                   earnings.pendingWithdrawal + handler[r].n)
    BY <1>0, <1>b, <1>8, LockEffect
  <2>3. /\ Owed(handler[r], {"complete"}) = 0 /\ Owed(handler[r], {"reject", "complete"}) = 0
            /\ Owed(handler[r], {"request"}) = handler[r].n
        /\ Owed(handler'[r], {"complete"}) = 0 /\ Owed(handler'[r], {"reject", "complete"}) = 0
             /\ Owed(handler'[r], {"request"}) = 0
    BY <2>1 DEF Owed
  <2>4. Even(earnings, penalty, handler[r], P!Total({"completed"}), P!Total(P!Open))
    BY <1>e, <2>1
  <2>5. Booked(earnings')
    BY <1>0, <1>f, <2>2, <2>4, BookedIs DEF Even, Fields
  <2>6. QED BY <1>t, <1>f, <2>1, <2>2, <2>3, <2>4, <2>5 DEF Even, Fields
<1>9. CASE P!HandleSave(r)
  <2>1. /\ handler[r].pc = "read" /\ handler[r].kind \in DOMAIN P!To /\ handler[r].item \in Ids
        /\ payout[handler[r].item].status \in P!Open /\ UNCHANGED <<earnings, penalty, reopened,
             torn>>
        /\ handler[r].n = payout[handler[r].item].amount /\ handler[r] \in Works
             /\ handler[r].n \in Nat
        /\ IF handler[r].kind \in {"reject", "complete"} THEN P!Goto(r, "saved") ELSE P!Finish(r)
    BY <1>0, <1>b, <1>9, Working DEF P!HandleSave, P!At, Knows, P!To
  <2> DEFINE p == handler[r].item
             k == handler[r].kind
  <2>2. /\ payout'[p] = [payout[p] EXCEPT !.status = P!To[k]] /\ payout[p] \in Documents
        /\ \A q \in Ids \ {p} : payout'[q] = payout[q]
    BY <1>0, <1>9, <2>1 DEF P!HandleSave, Types
  <2>3. payout'[p].status = P!To[k] /\ payout'[p].amount = handler[r].n
    BY <2>1, <2>2 DEF Documents
  <2>4. /\ P!Total(P!Open)' = P!Total(P!Open) + Worth(payout'[p], P!Open) - Worth(payout[p], P!Open)
        /\ P!Total({"completed"})' = P!Total({"completed"}) + Worth(payout'[p],
             {"completed"}) - Worth(payout[p], {"completed"})
    BY <1>0, <2>1, <2>2, TotalChange
  <2>5. Worth(payout[p], P!Open) = handler[r].n /\ Worth(payout[p], {"completed"}) = 0
    BY <2>1 DEF Worth, P!Open
  <2>6. /\ Worth(payout'[p], P!Open) = IF k \in {"approve", "process"} THEN handler[r].n ELSE 0
        /\ Worth(payout'[p], {"completed"}) = IF k = "complete" THEN handler[r].n ELSE 0
    BY <2>1, <2>3 DEF Worth, P!Open, P!To
  <2>7. IF k \in {"reject", "complete"}
        THEN handler'[r].pc = "saved" /\ handler'[r].kind = k /\ handler'[r].n = handler[r].n
        ELSE handler'[r].pc = "idle"
    BY <1>0, <1>b, <1>c, <2>1 DEF P!Goto, Types, Works
  <2>8. /\ Owed(handler[r], {"complete"}) = 0 /\ Owed(handler[r], {"reject", "complete"}) = 0
            /\ Owed(handler[r], {"request"}) = 0
        /\ Owed(handler'[r], {"complete"}) = IF k = "complete" THEN handler[r].n ELSE 0
        /\ Owed(handler'[r], {"reject", "complete"}) = IF k \in {"reject", "complete"}
             THEN handler[r].n ELSE 0
        /\ Owed(handler'[r], {"request"}) = 0
    BY <2>1, <2>7 DEF Owed
  <2>9. Even(earnings, penalty, handler[r], P!Total({"completed"}), P!Total(P!Open))
    BY <1>e, <2>1
  <2>10. k \in {"approve", "process", "reject", "complete"}
    BY <2>1 DEF P!To
  <2>11. /\ P!Total(P!Open)' = P!Total(P!Open) - Owed(handler'[r], {"reject", "complete"})
         /\ P!Total({"completed"})' = P!Total({"completed"}) + Owed(handler'[r], {"complete"})
    BY <1>t, <2>1, <2>4, <2>5, <2>6, <2>8, <2>10
  <2> HIDE DEF k
  <2>12. QED BY <1>t, <1>f, <2>1, <2>8, <2>9, <2>11 DEF Even
<1>10. CASE P!ReleaseAmount(r)
  <2>1. /\ handler[r].pc = "saved" /\ handler[r].kind = "reject"
        /\ UNCHANGED <<penalty, payout, reopened, torn>> /\ handler'[r].pc = "idle"
    BY <1>10, <1>c DEF P!ReleaseAmount, P!At
  <2>2. /\ handler[r].n \in Nat
        /\ Fields(earnings', earnings.totalEarned, earnings.netEarnings, earnings.totalPenalties,
                   earnings.withdrawableAmount + handler[r].n, earnings.totalWithdrawn,
                   earnings.pendingWithdrawal - handler[r].n)
    BY <1>0, <1>b, <1>10, ReleaseEffect
  <2>3. /\ Owed(handler[r], {"complete"}) = 0 /\ Owed(handler[r], {"reject",
            "complete"}) = handler[r].n /\ Owed(handler[r], {"request"}) = 0
        /\ Owed(handler'[r], {"complete"}) = 0 /\ Owed(handler'[r], {"reject", "complete"}) = 0
             /\ Owed(handler'[r], {"request"}) = 0
    BY <2>1 DEF Owed
  <2>4. Even(earnings, penalty, handler[r], P!Total({"completed"}), P!Total(P!Open))
    BY <1>e, <2>1
  <2>5. Booked(earnings')
    BY <1>0, <1>f, <2>2, <2>4, BookedIs DEF Even, Fields
  <2>6. QED BY <1>t, <1>f, <2>1, <2>2, <2>3, <2>4, <2>5 DEF Even, Fields
<1>11. CASE P!Deduct(r)
  <2> DEFINE e == handler[r].seen
  <2>1. /\ handler[r].pc = "saved" /\ handler[r].kind = "complete" /\ ~torn /\ ~P!Missed(r)
        /\ UNCHANGED <<penalty, payout, reopened>> /\ handler'[r].pc = "idle"
    BY <1>11, <1>c DEF P!Deduct, P!At
  <2>2. /\ earnings.withdrawableAmount = e.withdrawableAmount
            /\ earnings.totalWithdrawn = e.totalWithdrawn
        /\ earnings.pendingWithdrawal = e.pendingWithdrawal
    BY <1>0, <1>b, <2>1, Working DEF Since, P!Missed
  <2>3. handler[r].n \in Nat
    BY <1>0, <1>b, <1>11, DeductEffect
  <2>4. PICK pw \in Nat :
           /\ pw = IF e.pendingWithdrawal < handler[r].n THEN 0
                ELSE e.pendingWithdrawal - handler[r].n
           /\ Fields(earnings', earnings.totalEarned, earnings.netEarnings, earnings.totalPenalties,
                     e.withdrawableAmount, e.totalWithdrawn + handler[r].n, pw)
    BY <1>0, <1>b, <1>11, DeductEffect
  <2>5. /\ Owed(handler[r], {"complete"}) = handler[r].n
            /\ Owed(handler[r], {"reject", "complete"}) = handler[r].n
            /\ Owed(handler[r], {"request"}) = 0
        /\ Owed(handler'[r], {"complete"}) = 0 /\ Owed(handler'[r], {"reject", "complete"}) = 0
             /\ Owed(handler'[r], {"request"}) = 0
    BY <2>1 DEF Owed
  <2>6. Even(earnings, penalty, handler[r], P!Total({"completed"}), P!Total(P!Open))
    BY <1>e, <2>1
  <2>7. pw = P!Total(P!Open) /\ earnings.pendingWithdrawal = pw + handler[r].n
    BY <1>t, <2>2, <2>3, <2>4, <2>5, <2>6 DEF Even
  <2>8. Booked(earnings')
    BY <1>0, <1>f, <2>2, <2>3, <2>4, <2>6, <2>7, BookedIs DEF Even, Fields
  <2>9. QED BY <1>t, <1>f, <2>1, <2>2, <2>3, <2>4, <2>5, <2>6, <2>7, <2>8 DEF Even, Fields
<1>12. CASE P!PenaltySave(r)
  <2>1. /\ handler[r].pc = "read" /\ handler[r].kind \in {"apply", "waive"}
            /\ handler'[r].pc = "idle" /\ Since(handler[r])
        /\ handler[r].seen \in P!Earnings /\ UNCHANGED <<payout, reopened>>
    BY <1>0, <1>b, <1>12, <1>c, Working, PenaltyEffect DEF P!PenaltySave, P!At
  <2>2. CASE UNCHANGED <<earnings, penalty, torn>>
    BY <1>s, <2>1, <2>2
  <2>3. CASE \E l \in Nat : \E tp \in Nat : \E w \in Nat :
                 /\ penalty' \in P!PenaltyStates
                 /\ tp = P!Applied(penalty')
                 /\ l = LET n == handler[r].seen.netEarnings - tp - handler[r].seen.totalWithdrawn
                                   - handler[r].seen.pendingWithdrawal
                        IN IF n < 0 THEN 0 ELSE n
                 /\ w = IF l = handler[r].seen.withdrawableAmount THEN earnings.withdrawableAmount
                      ELSE l
                 /\ Fields(earnings', earnings.totalEarned, earnings.netEarnings, tp, w,
                           earnings.totalWithdrawn, earnings.pendingWithdrawal)
                 /\ torn' = (torn \/ (P!Missed(r) /\ l # handler[r].seen.withdrawableAmount))
    <3>1. PICK l \in Nat : \E tp \in Nat : \E w \in Nat :
                 /\ penalty' \in P!PenaltyStates
                 /\ tp = P!Applied(penalty')
                 /\ l = LET n == handler[r].seen.netEarnings - tp - handler[r].seen.totalWithdrawn
                                   - handler[r].seen.pendingWithdrawal
                        IN IF n < 0 THEN 0 ELSE n
                 /\ w = IF l = handler[r].seen.withdrawableAmount THEN earnings.withdrawableAmount
                      ELSE l
                 /\ Fields(earnings', earnings.totalEarned, earnings.netEarnings, tp, w,
                           earnings.totalWithdrawn, earnings.pendingWithdrawal)
                 /\ torn' = (torn \/ (P!Missed(r) /\ l # handler[r].seen.withdrawableAmount))
      BY <2>3
    <3>2. PICK tp \in Nat : \E w \in Nat :
                 /\ penalty' \in P!PenaltyStates
                 /\ tp = P!Applied(penalty')
                 /\ l = LET n == handler[r].seen.netEarnings - tp - handler[r].seen.totalWithdrawn
                                   - handler[r].seen.pendingWithdrawal
                        IN IF n < 0 THEN 0 ELSE n
                 /\ w = IF l = handler[r].seen.withdrawableAmount THEN earnings.withdrawableAmount
                      ELSE l
                 /\ Fields(earnings', earnings.totalEarned, earnings.netEarnings, tp, w,
                           earnings.totalWithdrawn, earnings.pendingWithdrawal)
                 /\ torn' = (torn \/ (P!Missed(r) /\ l # handler[r].seen.withdrawableAmount))
      BY <3>1
    <3>3. PICK w \in Nat :
                 /\ tp = P!Applied(penalty')
                 /\ l = LET n == handler[r].seen.netEarnings - tp - handler[r].seen.totalWithdrawn
                                   - handler[r].seen.pendingWithdrawal
                        IN IF n < 0 THEN 0 ELSE n
                 /\ w = IF l = handler[r].seen.withdrawableAmount THEN earnings.withdrawableAmount
                      ELSE l
                 /\ Fields(earnings', earnings.totalEarned, earnings.netEarnings, tp, w,
                           earnings.totalWithdrawn, earnings.pendingWithdrawal)
                 /\ torn' = (torn \/ (P!Missed(r) /\ l # handler[r].seen.withdrawableAmount))
      BY <3>2
    <3>4. ~torn /\ (P!Missed(r) => l = handler[r].seen.withdrawableAmount)
      BY <3>3
    <3>5. Even(earnings, penalty, handler[r], P!Total({"completed"}), P!Total(P!Open))
      BY <1>e, <2>1, <3>4
    <3>6. \A kinds : Owed(handler[r], kinds) = 0 /\ Owed(handler'[r], kinds) = 0
      BY <2>1 DEF Owed
    <3> DEFINE s == handler[r].seen
    <3>7. /\ s.netEarnings \in Nat /\ s.withdrawableAmount \in Nat
              /\ s.totalWithdrawn = earnings.totalWithdrawn
          /\ s.pendingWithdrawal = earnings.pendingWithdrawal
          /\ earnings.netEarnings - s.netEarnings = earnings.withdrawableAmount
               - s.withdrawableAmount
          /\ earnings.withdrawableAmount >= s.withdrawableAmount
          /\ ~P!Missed(r) => earnings.withdrawableAmount = s.withdrawableAmount
      BY <2>1, FieldTypes DEF Since, P!Missed
    <3>8. /\ earnings.withdrawableAmount + earnings.totalWithdrawn
              + earnings.pendingWithdrawal <= earnings.netEarnings
      BY <1>0, <3>5, BookedIs DEF Even
    <3>9. /\ earnings.netEarnings - tp - earnings.totalWithdrawn - earnings.pendingWithdrawal <= w
          /\ w + earnings.totalWithdrawn + earnings.pendingWithdrawal <= earnings.netEarnings
      BY <1>f, <3>3, <3>4, <3>7, <3>8
    <3>10. Booked(earnings')
      BY <1>0, <3>3, <3>9, BookedIs DEF Fields
    <3>11. QED BY <1>t, <1>f, <2>1, <3>3, <3>5, <3>6, <3>10 DEF Even, Fields
  <2>4. QED BY <1>0, <1>b, <1>12, <2>2, <2>3, PenaltyEffect
<1>13. CASE P!StatsSave(r)
  <2> DEFINE e == handler[r].seen
  <2>1. /\ handler'[r].pc = "idle" /\ UNCHANGED <<penalty, payout, reopened>> /\ ~P!Missed(r)
    BY <1>13, <1>c DEF P!StatsSave
  <2>2. /\ e \in P!Earnings /\ handler[r].pc = "summed"
        /\ Fields(earnings', earnings.totalEarned, e.netEarnings, e.totalPenalties, P!Left(e),
                  e.totalWithdrawn, e.pendingWithdrawal)
    BY <1>0, <1>b, <1>13, SaveEffect
  <2>3. /\ e.netEarnings = P!Net(e.totalEarned) /\ e.totalPenalties = P!Applied(penalty)
        /\ e.totalWithdrawn = P!Total({"completed"}) /\ e.pendingWithdrawal = P!Total(P!Open)
        /\ e.totalEarned = earnings.totalEarned
    BY <1>b, <2>1, <2>2 DEF PInv, Counted, P!Missed
  <2>4. 2 * (P!Total(P!Open) + P!Total({"completed"})) <= earnings.totalEarned
    BY <1>0, <2>1, TotalAdd DEF PInv, Capped
  <2>5. P!Total(P!Open) + P!Total({"completed"}) <= e.netEarnings
    BY <1>f, <1>t, <2>3, <2>4, NetIs
  <2>6. /\ e.netEarnings \in Nat /\ e.totalPenalties \in Nat /\ P!Left(e) \in Nat
        /\ P!Left(e) = LET n == e.netEarnings - e.totalPenalties - e.totalWithdrawn
             - e.pendingWithdrawal
                     IN IF n < 0 THEN 0 ELSE n
    BY <2>2, FieldTypes, LeftIs
  <2>7. /\ e.netEarnings - e.totalPenalties - e.totalWithdrawn - e.pendingWithdrawal <= P!Left(e)
        /\ P!Left(e) + e.totalWithdrawn + e.pendingWithdrawal <= e.netEarnings
    BY <1>t, <2>3, <2>5, <2>6
  <2>8. Booked(earnings')
    BY <1>0, <2>2, <2>7, BookedIs DEF Fields
  <2>9. \A kinds : Owed(handler'[r], kinds) = 0
    BY <2>1 DEF Owed
  <2>10. QED BY <1>t, <2>1, <2>2, <2>3, <2>8, <2>9 DEF Even, Fields
<1>14. CASE \E i \in Incomes : P!UpdateEarnings(i)
  <2>1. PICK i \in Incomes : P!UpdateEarnings(i)
    BY <1>14
  <2>2. UNCHANGED <<penalty, payout, handler, torn, reopened>>
    BY <2>1 DEF P!UpdateEarnings
  <2>3. /\ i.gross \in Nat /\ i.net \in Nat /\ (i.gross = 0 => i.net = 0)
        /\ Fields(earnings', earnings.totalEarned + i.gross, earnings.netEarnings + i.net,
                   earnings.totalPenalties, earnings.withdrawableAmount + i.net,
                   earnings.totalWithdrawn, earnings.pendingWithdrawal)
    BY <1>0, <2>1, EarnEffect
  <2>4. Even(earnings, penalty, handler[r], P!Total({"completed"}), P!Total(P!Open))
    BY <1>e, <2>2
  <2>5. Booked(earnings')
    BY <1>0, <1>f, <2>3, <2>4, BookedIs DEF Even, Fields
  <2>6. QED BY <1>t, <2>2, <2>3, <2>4, <2>5 DEF Even, Fields
<1>15. CASE \E p \in Ids : P!ApproveByTicket(p)
  <2>1. /\ reopened = {} /\ UNCHANGED <<earnings, penalty, handler, torn>>
        /\ P!Total(P!Open)' = P!Total(P!Open) /\ P!Total({"completed"})' = P!Total({"completed"})
    BY <1>0, <1>15, TicketEffect
  <2>2. QED BY <1>e, <2>1
<1>16. QED
  BY <1>b, <1>1, <1>2, <1>3, <1>4, <1>5, <1>6, <1>7, <1>8, <1>9, <1>10, <1>11, <1>12, <1>13, <1>14,
       <1>15
     DEF P!Next, P!Continues

----------------
\* The invariant holds at the start, is kept by every step, and shows the
\* four properties.
LEMMA PayoutStarts == ASSUME Given, P!Init PROVE PInv
<1>a. P!NoEarnings \in P!Earnings
  BY DEF P!NoEarnings, P!Earnings
<1>b. P!Idle.pc = "idle"
  BY DEF P!Idle
<1>1. P!NoEarnings \in P!Earnings /\ P!Idle.pc = "idle" /\ 0 \in Amounts \cup {0}
  BY <1>a, <1>b
<1>2. Types
  <2>1. earnings \in P!Earnings /\ penalty \in P!PenaltyStates
    BY <1>1 DEF P!Init, P!PenaltyStates
  <2>2. payout \in [Ids -> Documents]
    BY DEF P!Init, Documents, P!NoPayout
  <2>3. handler \in [PayoutSlots -> {P!Idle} \cup Works]
    BY DEF P!Init
  <2>4. tickets \in 0..MaxTickets /\ faults \in 0..MaxFaults
    BY DEF P!Init, Given, PayoutBounds
  <2>5. QED BY <2>1, <2>2, <2>3, <2>4 DEF P!Init, Types
<1>3. Held /\ Counted
  BY <1>1 DEF P!Init, Held, Counted
<1>4. \A status : "none" \notin status => P!With(status) = {}
  BY DEF P!Init, P!With, P!NoPayout
<1>5. P!With(P!Open) = {} /\ P!With({"completed"}) = {} /\ P!With(P!Open \cup {"completed"}) = {}
  BY <1>4 DEF P!Open
<1>6. P!Total(P!Open) = 0 /\ P!Total({"completed"}) = 0 /\ P!Total(P!Open \cup {"completed"}) = 0
  BY <1>2, <1>5, TotalNone
<1>7. Capped
  BY <1>1, <1>5, <1>6 DEF P!Init, Capped, P!NoEarnings
<1>8. P!Applied(penalty) = 0
  <2> DEFINE f == [x \in Penalties |-> IF penalty[x] = "applied" THEN Fine[x] ELSE 0]
  <2>1. IsFiniteSet(Penalties) /\ \A x \in Penalties : f[x] = 0
    BY DEF Given, PayoutBounds, P!Init
  <2> HIDE DEF f
  <2>2. SumFunctionOnSet(f, Penalties) = 0
    BY <2>1, SumZero
  <2>3. QED BY <2>2, SameSum DEF f, P!Applied
<1>9. Booked(earnings)
  BY <1>1, BookedIs DEF P!Init, P!NoEarnings
<1>10. \A r \in PayoutSlots : \A kinds : Owed(handler[r], kinds) = 0
  BY <1>1 DEF P!Init, Owed
<1>11. Books
  BY <1>6, <1>8, <1>9, <1>10 DEF Books, P!Init, P!NoEarnings
<1>12. QED BY <1>2, <1>3, <1>7, <1>11 DEF PInv, Base

LEMMA PayoutStep == ASSUME Given, PInv, [P!Next]_(P!vars) PROVE PInv'
<1>1. Types'
  BY TypesStep DEF PInv
<1>2. Held'
  BY HeldStep DEF PInv
<1>3. Capped'
  BY CappedStep DEF PInv
<1>4. Counted'
  BY CountedStep DEF PInv
<1>5. Books'
  BY BooksStep DEF PInv
<1>6. QED BY <1>1, <1>2, <1>3, <1>4, <1>5 DEF PInv, Base

LEMMA PayoutAlways == ASSUME Given PROVE P!Spec => []PInv
<1>1. P!Init => PInv
  BY PayoutStarts
<1>2. PInv /\ [P!Next]_(P!vars) => PInv'
  BY PayoutStep
<1>3. QED BY <1>1, <1>2, PTL DEF P!Spec

LEMMA PayoutShows == ASSUME Given, PInv
    PROVE P!TypeOK /\ P!OneOpenPayout /\ P!PaidWithinCap /\ P!BooksAgree
<1>0. Types
  BY DEF PInv, Base
<1>1. P!TypeOK
  BY <1>0 DEF P!TypeOK, Types, Documents, Works
<1>2. P!OneOpenPayout
  <2> SUFFICES ASSUME reopened = {} PROVE Cardinality(P!With(P!Open)) <= 1
    BY SameSize DEF P!OneOpenPayout
  <2>1. \A p, q \in P!With(P!Open) : p = q
    BY DEF PInv, Capped
  <2>2. CASE P!With(P!Open) = {}
    BY <2>2, FS_EmptySet
  <2>3. CASE P!With(P!Open) # {}
    <3>1. PICK p : P!With(P!Open) = {p}
      BY <2>1, <2>3
    <3>2. Cardinality({p}) = 1
      BY FS_Singleton
    <3>3. QED BY <3>1, <3>2
  <2>4. QED BY <2>2, <2>3
<1>3. P!PaidWithinCap
  BY DEF PInv, Capped, P!PaidWithinCap
<1>4. P!BooksAgree
  <2> SUFFICES ASSUME reopened = {}, ~torn, \A r \in PayoutSlots : handler[r].pc = "idle"
               PROVE  /\ earnings.totalWithdrawn = P!Total({"completed"})
                      /\ earnings.pendingWithdrawal = P!Total(P!Open)
                      /\ earnings.totalPenalties = P!Applied(penalty)
                      /\ P!Left(earnings) <= earnings.withdrawableAmount
                      /\ earnings.withdrawableAmount + earnings.totalWithdrawn
                           + earnings.pendingWithdrawal
                           <= earnings.netEarnings
    BY DEF P!BooksAgree
  <2>1. PICK r : PayoutSlots = {r}
    BY DEF Given, OneSlot
  <2>2. \A kinds : Owed(handler[r], kinds) = 0
    BY <2>1 DEF Owed
  <2>3. P!Total({"completed"}) \in Nat /\ P!Total(P!Open) \in Nat
    BY <1>0, TotalNat
  <2>4. QED BY <2>1, <2>2, <2>3 DEF PInv, Books, Booked
<1>5. QED BY <1>1, <1>2, <1>3, <1>4

\* Every amount stays in its range; what may be withdrawn and what was
\* withdrawn never fall below zero.
THEOREM PayoutTypeOK == ASSUME PayoutBounds, OneSlot PROVE P!Spec => []P!TypeOK
<1>1. Given
  BY DEF Given
<1>2. PInv => P!TypeOK
  BY <1>1, PayoutShows
<1>3. QED BY <1>1, <1>2, PayoutAlways, PTL

\* Unless a support ticket reopened a closed payout, one payout is open at a
\* time, wherever the handler of each was cut short.
THEOREM PayoutOneOpen == ASSUME PayoutBounds, OneSlot PROVE P!Spec => []P!OneOpenPayout
<1>1. Given
  BY DEF Given
<1>2. PInv => P!OneOpenPayout
  BY <1>1, PayoutShows
<1>3. QED BY <1>1, <1>2, PayoutAlways, PTL

\* "Enforce 50% payout cap over total earnings": what was paid and what is
\* still to be paid stay within half of what was earned.
THEOREM PayoutWithinCap == ASSUME PayoutBounds, OneSlot PROVE P!Spec => []P!PaidWithinCap
<1>1. Given
  BY DEF Given
<1>2. PInv => P!PaidWithinCap
  BY <1>1, PayoutShows
<1>3. QED BY <1>1, <1>2, PayoutAlways, PTL

\* Between handlers the astrologer's running amounts agree with the payouts
\* and the penalties, unless one was cut between its two writes or wrote over
\* an earning it had not read, and nothing was recounted since.
THEOREM PayoutBooks == ASSUME PayoutBounds, OneSlot PROVE P!Spec => []P!BooksAgree
<1>1. Given
  BY DEF Given
<1>2. PInv => P!BooksAgree
  BY <1>1, PayoutShows
<1>3. QED BY <1>1, <1>2, PayoutAlways, PTL

----------------
(* Third part: what a gift takes and what it counts.                       *)

CONSTANTS Slots, Rate, Cash, Bonus, Top, MaxGifts, MaxTopUps, MaxFailures
VARIABLES cash, bonus, rows, earned, gifts, revenue, live, topUps, failures, work

G == INSTANCE Gifts

\* Amounts are natural, the commission is a percentage, handlers finitely many.
GiftBounds ==
  /\ Amounts \subseteq Nat /\ Rate \in 0..100 /\ Cash \in Nat /\ Bonus \in Nat /\ Top \in Nat
  /\ MaxTopUps \in Nat /\ MaxFailures \in Nat /\ IsFiniteSet(Slots)

\* A handler until it has read the user, and from there.
Giving == [pc : {"stream", "user"}, amount : Amounts, onStream : BOOLEAN]
Paying == [pc : {"charge", "earn", "count"}, amount : Amounts, onStream : BOOLEAN, cash : Nat, bonus : Nat]
GiftRows == [id : Nat, amount : Amounts, net : Int, onStream : BOOLEAN]

\* Both balances that a gift is charged to cover it.
GiftTypes ==
  /\ cash \in Nat /\ bonus \in Nat /\ earned \in Int /\ gifts \in Int /\ revenue \in Int
  /\ topUps \in Nat /\ failures \in Nat /\ live \in BOOLEAN
  /\ rows \in SUBSET GiftRows /\ IsFiniteSet(rows) /\ \A x \in rows : x.id < Cardinality(rows)
  /\ work \in [Slots -> Giving \cup Paying \cup {G!Idle}]
  /\ \A r \in Slots : work[r].pc = "charge" => work[r].amount <= work[r].cash + work[r].bonus

\* What the rows of S say was given, and what they say was earned.
GiftOf(S) == [x \in S |-> x.amount]
NetOf(S) == [x \in S |-> x.net]
GivenBy(S) == SumFunctionOnSet(GiftOf(S), S)
NetBy(S) == SumFunctionOnSet(NetOf(S), S)
Streamed == {x \in rows : x.onStream}

\* What a handler has charged and not yet earned, or counted on the stream.
ToStream(h) == h.pc \in {"earn", "count"} /\ h.onStream = TRUE
Unearned(h) == IF h.pc = "earn" THEN G!Net(h.amount) ELSE 0
Untold(h) == IF ToStream(h) THEN 1 ELSE 0
Uncounted(h) == IF ToStream(h) THEN h.amount ELSE 0
ToEarn == SumFunctionOnSet([r \in Slots |-> Unearned(work[r])], Slots)
ToTell == SumFunctionOnSet([r \in Slots |-> Untold(work[r])], Slots)
ToCount == SumFunctionOnSet([r \in Slots |-> Uncounted(work[r])], Slots)

\* Only gifts on the stream are counted there; until a request fails, what is counted and what is on its way is what was given.
Telling == \A r \in Slots : work[r].pc = "count" => work[r].onStream = TRUE
OnItsWay ==
  failures = 0 =>
    /\ earned + ToEarn = NetBy(rows)
    /\ gifts + ToTell = Cardinality(Streamed)
    /\ revenue + ToCount = GivenBy(Streamed)

\* One request at a time: what was read of the wallet is current.
OneGiver == \A q, r \in Slots : q = r
Taken ==
  /\ cash + bonus + GivenBy(rows) = Cash + Bonus + Top * topUps
  /\ bonus = IF GivenBy(rows) >= Bonus THEN 0 ELSE Bonus - GivenBy(rows)
  /\ \A r \in Slots : work[r].pc = "charge" => work[r].cash = cash /\ work[r].bonus = bonus

GiftInv == GiftTypes /\ Telling /\ OnItsWay /\ (OneGiver /\ Slots # {} => Taken)

----------------
(* Sums over the rows of the gifts.                                        *)

LEMMA GiftCount == ASSUME NEW S PROVE G!Cardinality(S) = Cardinality(S)
BY DEF G!Cardinality, Cardinality

\* The sum that the library makes of an expression is that of a function.
LEMMA GivenSum == ASSUME NEW S, IsFiniteSet(S) PROVE G!MapThenSumSet(LAMBDA x : x.amount, S) = GivenBy(S)
<1> DEFINE Chosen(g) == g = [T \in SUBSET S |-> IF T = {} THEN 0 ELSE Picked(T).amount + g[T \ {Picked(T)}]]
<1>1. G!MapThenSumSet(LAMBDA x : x.amount, S) = (CHOOSE g : Chosen(g))[S]
  BY DEF G!MapThenSumSet, G!MapThenFoldSet, MapThenSumSet, MapThenFoldSet, Picked
<1>2. \A g : Chosen(g) <=> Sums(GiftOf(S), S, g)
  <2>1. \A T \in SUBSET S : T # {} => GiftOf(S)[Picked(T)] = Picked(T).amount
    BY PickedIn DEF GiftOf
  <2>2. QED BY <2>1 DEF Sums
<1>3. PICK g : Sums(GiftOf(S), S, g)
  BY SumsExist
<1> HIDE DEF Chosen
<1>4. Chosen(CHOOSE h : Chosen(h))
  BY <1>2, <1>3
<1>5. QED BY <1>1, <1>2, <1>4, FoldSums DEF GivenBy

LEMMA NetSum == ASSUME NEW S, IsFiniteSet(S) PROVE G!MapThenSumSet(LAMBDA x : x.net, S) = NetBy(S)
<1> DEFINE Chosen(g) == g = [T \in SUBSET S |-> IF T = {} THEN 0 ELSE Picked(T).net + g[T \ {Picked(T)}]]
<1>1. G!MapThenSumSet(LAMBDA x : x.net, S) = (CHOOSE g : Chosen(g))[S]
  BY DEF G!MapThenSumSet, G!MapThenFoldSet, MapThenSumSet, MapThenFoldSet, Picked
<1>2. \A g : Chosen(g) <=> Sums(NetOf(S), S, g)
  <2>1. \A T \in SUBSET S : T # {} => NetOf(S)[Picked(T)] = Picked(T).net
    BY PickedIn DEF NetOf
  <2>2. QED BY <2>1 DEF Sums
<1>3. PICK g : Sums(NetOf(S), S, g)
  BY SumsExist
<1> HIDE DEF Chosen
<1>4. Chosen(CHOOSE h : Chosen(h))
  BY <1>2, <1>3
<1>5. QED BY <1>1, <1>2, <1>4, FoldSums DEF NetBy

\* What one more term adds to a sum.
LEMMA SumGrows ==
  ASSUME NEW S, IsFiniteSet(S), NEW x, x \notin S, NEW f, NEW g,
         IntegerOn(g, S \cup {x}), \A s \in S : f[s] = g[s]
  PROVE  SumFunctionOnSet(g, S \cup {x}) = SumFunctionOnSet(f, S) + g[x] /\ SumFunctionOnSet(f, S) \in Int
<1>1. IsFiniteSet(S \cup {x})
  BY FS_AddElement
<1>2. SumFunctionOnSet(g, S \cup {x}) = g[x] + SumFunctionOnSet(g, (S \cup {x}) \ {x})
  BY <1>1, SumSplit
<1>3. (S \cup {x}) \ {x} = S
  OBVIOUS
<1>4. SumFunctionOnSet(g, S) = SumFunctionOnSet(f, S)
  BY SumSame
<1>5. SumFunctionOnSet(f, S) \in Int /\ g[x] \in Int
  BY SumSplit DEF IntegerOn
<1>6. SumFunctionOnSet(g, S \cup {x}) = g[x] + SumFunctionOnSet(f, S)
  BY <1>2, <1>3, <1>4
<1>7. \A a, b, c \in Int : c = a + b => c = b + a
  OBVIOUS
<1>8. SumFunctionOnSet(g, S \cup {x}) \in Int
  BY <1>1, SumSplit
<1>9. QED BY <1>5, <1>6, <1>7, <1>8

LEMMA GiftNat == ASSUME GiftBounds PROVE \A a \in Amounts : a \in Nat /\ a \in Int
BY DEF GiftBounds

\* What one more row adds.
LEMMA RowGives ==
  ASSUME GiftBounds, NEW S \in SUBSET GiftRows, IsFiniteSet(S), NEW x \in GiftRows, x \notin S
  PROVE  /\ GivenBy(S \cup {x}) = GivenBy(S) + x.amount /\ NetBy(S \cup {x}) = NetBy(S) + x.net
         /\ GivenBy(S) \in Int /\ NetBy(S) \in Int
<1>1. IntegerOn(GiftOf(S \cup {x}), S \cup {x}) /\ IntegerOn(NetOf(S \cup {x}), S \cup {x})
  <2>0. ASSUME NEW y \in S \cup {x} PROVE y.amount \in Amounts /\ y.net \in Int
    <3>1. y \in GiftRows
      OBVIOUS
    <3>2. QED BY <3>1 DEF GiftRows
  <2>1. \A y \in S \cup {x} : y.amount \in Int /\ y.net \in Int
    BY <2>0, GiftNat
  <2>2. QED BY <2>1 DEF IntegerOn, GiftOf, NetOf
<1>2. /\ \A s \in S : GiftOf(S)[s] = GiftOf(S \cup {x})[s] /\ NetOf(S)[s] = NetOf(S \cup {x})[s]
      /\ GiftOf(S \cup {x})[x] = x.amount /\ NetOf(S \cup {x})[x] = x.net
  BY DEF GiftOf, NetOf
<1>3. /\ GivenBy(S \cup {x}) = GivenBy(S) + GiftOf(S \cup {x})[x] /\ GivenBy(S) \in Int
  BY <1>1, <1>2, SumGrows DEF GivenBy
<1>4. /\ NetBy(S \cup {x}) = NetBy(S) + NetOf(S \cup {x})[x] /\ NetBy(S) \in Int
  BY <1>1, <1>2, SumGrows DEF NetBy
<1>5. QED BY <1>2, <1>3, <1>4

LEMMA GivenNat ==
  ASSUME GiftBounds, NEW S \in SUBSET GiftRows, IsFiniteSet(S)
  PROVE  GivenBy(S) \in Nat /\ NetBy(S) \in Int
<1>1. \A s \in S : GiftOf(S)[s] \in Nat
  BY DEF GiftOf, GiftRows, GiftBounds
<1>2. IntegerOn(NetOf(S), S)
  BY DEF NetOf, IntegerOn, GiftRows
<1>3. QED BY <1>1, <1>2, SumNat, SumSplit DEF GivenBy, NetBy

----------------
(* What the steps do to a slot and to what is on its way.                  *)

PutIn(r, k) == work' = [work EXCEPT ![r] = k]
GiftHandlers == Giving \cup Paying \cup {G!Idle}

LEMMA NetIsInt == ASSUME GiftBounds, NEW a \in Amounts PROVE G!Net(a) \in Int
<1>1. a \in Int /\ Rate \in Int
  BY DEF GiftBounds
<1>2. (a * Rate) \in Int
  BY <1>1
<1>3. ((a * Rate) \div 100) \in Int
  BY <1>2
<1>4. QED BY <1>1, <1>3 DEF G!Net, G!Commission

LEMMA GiftTerms ==
  ASSUME GiftBounds, NEW h \in GiftHandlers
  PROVE  Unearned(h) \in Int /\ Untold(h) \in Int /\ Uncounted(h) \in Int
<1>1. h.pc \in {"earn", "count"} => h.amount \in Amounts
  BY DEF GiftHandlers, Giving, Paying, G!Idle
<1>2. \A a \in Amounts : a \in Int /\ G!Net(a) \in Int
  BY NetIsInt DEF GiftBounds
<1>3. Unearned(h) \in Int
  BY <1>1, <1>2 DEF Unearned
<1>4. Untold(h) \in Int /\ Uncounted(h) \in Int
  BY <1>1, <1>2 DEF Untold, Uncounted, ToStream
<1>5. QED BY <1>3, <1>4

LEMMA GiftMoves ==
  ASSUME GiftBounds, GiftTypes, NEW r \in Slots, NEW k \in GiftHandlers, PutIn(r, k)
  PROVE  /\ ToEarn' = ToEarn + Unearned(k) - Unearned(work[r])
         /\ ToTell' = ToTell + Untold(k) - Untold(work[r])
         /\ ToCount' = ToCount + Uncounted(k) - Uncounted(work[r])
<1> DEFINE E == [q \in Slots |-> Unearned(work[q])]
           E1 == [q \in Slots |-> Unearned(work'[q])]
           S == [q \in Slots |-> Untold(work[q])]
           S1 == [q \in Slots |-> Untold(work'[q])]
           M == [q \in Slots |-> Uncounted(work[q])]
           M1 == [q \in Slots |-> Uncounted(work'[q])]
<1>1. /\ work'[r] = k /\ \A q \in Slots \ {r} : work'[q] = work[q]
      /\ \A q \in Slots : work[q] \in GiftHandlers /\ work'[q] \in GiftHandlers
  BY DEF GiftTypes, PutIn, GiftHandlers
<1>2. /\ \A q \in Slots \ {r} : E[q] = E1[q] /\ S[q] = S1[q] /\ M[q] = M1[q]
      /\ E1[r] = Unearned(k) /\ S1[r] = Untold(k) /\ M1[r] = Uncounted(k)
      /\ E[r] = Unearned(work[r]) /\ S[r] = Untold(work[r]) /\ M[r] = Uncounted(work[r])
  BY <1>1
<1>3. /\ IntegerOn(E, Slots) /\ IntegerOn(S, Slots) /\ IntegerOn(M, Slots)
      /\ IntegerOn(E1, Slots) /\ IntegerOn(S1, Slots) /\ IntegerOn(M1, Slots)
  BY <1>1, GiftTerms DEF IntegerOn
<1>4. /\ ToEarn = SumFunctionOnSet(E, Slots) /\ ToTell = SumFunctionOnSet(S, Slots)
      /\ ToCount = SumFunctionOnSet(M, Slots)
      /\ ToEarn' = SumFunctionOnSet(E1, Slots) /\ ToTell' = SumFunctionOnSet(S1, Slots)
      /\ ToCount' = SumFunctionOnSet(M1, Slots)
  BY DEF ToEarn, ToTell, ToCount
<1> HIDE DEF E, E1, S, S1, M, M1
<1>5. SumFunctionOnSet(E1, Slots) = SumFunctionOnSet(E, Slots) + E1[r] - E[r]
  BY <1>2, <1>3, SumChange DEF GiftBounds
<1>6. SumFunctionOnSet(S1, Slots) = SumFunctionOnSet(S, Slots) + S1[r] - S[r]
  BY <1>2, <1>3, SumChange DEF GiftBounds
<1>7. SumFunctionOnSet(M1, Slots) = SumFunctionOnSet(M, Slots) + M1[r] - M[r]
  BY <1>2, <1>3, SumChange DEF GiftBounds
<1>8. QED BY <1>2, <1>4, <1>5, <1>6, <1>7

LEMMA GiftSums ==
  ASSUME GiftBounds, GiftTypes
  PROVE  ToEarn \in Int /\ ToTell \in Int /\ ToCount \in Int
<1>1. \A q \in Slots : work[q] \in GiftHandlers
  BY DEF GiftTypes, GiftHandlers
<1>2. /\ IntegerOn([q \in Slots |-> Unearned(work[q])], Slots)
      /\ IntegerOn([q \in Slots |-> Untold(work[q])], Slots)
      /\ IntegerOn([q \in Slots |-> Uncounted(work[q])], Slots)
  BY <1>1, GiftTerms DEF IntegerOn
<1>3. QED BY <1>2, SumSplit DEF ToEarn, ToTell, ToCount, GiftBounds

\* Each step puts one record in its slot.
GiftStep(r, k) == k \in GiftHandlers /\ PutIn(r, k)
LEMMA GiftPuts ==
  ASSUME GiftBounds, GiftTypes, NEW r \in Slots
  PROVE  /\ \A a \in Amounts, s \in BOOLEAN :
              G!SendGift(r, a, s) => \E k : GiftStep(r, k) /\ k.pc \in {"stream", "user"}
         /\ G!FindStream(r) => \E k : GiftStep(r, k) /\ k.pc \in {"user", "idle"}
         /\ G!FindUser(r) => \E k : /\ GiftStep(r, k) /\ k.pc \in {"charge", "idle"}
                                    /\ k.pc = "charge" => /\ k.amount <= k.cash + k.bonus
                                                          /\ k.cash = cash /\ k.bonus = bonus
         /\ G!Charge(r) => \E k : /\ GiftStep(r, k) /\ k.pc = "earn"
                                  /\ k.amount = work[r].amount /\ k.onStream = work[r].onStream
         /\ G!RecordGiftEarning(r) =>
              IF work[r].onStream = TRUE
              THEN \E k : /\ GiftStep(r, k) /\ k.pc = "count"
                          /\ k.amount = work[r].amount /\ k.onStream = work[r].onStream
              ELSE GiftStep(r, G!Idle)
         /\ G!CountOnStream(r) \/ G!GiftThrows(r) => GiftStep(r, G!Idle)
<1>0. G!Idle \in GiftHandlers /\ G!Idle.pc = "idle" /\ (G!Finish(r) => PutIn(r, G!Idle))
  BY DEF GiftHandlers, G!Idle, G!Finish, PutIn
<1>1. work[r] \in GiftHandlers /\ work \in [Slots -> GiftHandlers]
  BY DEF GiftTypes, GiftHandlers
<1>2. ASSUME NEW a \in Amounts, NEW s \in BOOLEAN, G!SendGift(r, a, s)
      PROVE  \E k : GiftStep(r, k) /\ k.pc \in {"stream", "user"}
  <2>1. PICK pc \in {"stream", "user"} : work' = [work EXCEPT ![r] = [pc |-> pc, amount |-> a, onStream |-> s]]
    BY <1>2 DEF G!SendGift, G!Begin
  <2>2. PICK k : k = [pc |-> pc, amount |-> a, onStream |-> s]
    OBVIOUS
  <2>3. k \in GiftHandlers /\ k.pc = pc
    BY <2>2 DEF GiftHandlers, Giving
  <2>4. PutIn(r, k)
    BY <2>1, <2>2 DEF PutIn
  <2>5. QED BY <2>3, <2>4 DEF GiftStep
<1>3. ASSUME G!FindStream(r) PROVE \E k : GiftStep(r, k) /\ k.pc \in {"user", "idle"}
  <2>1. work[r].pc = "stream" /\ (G!Goto(r, "user") \/ PutIn(r, G!Idle))
    BY <1>0, <1>3 DEF G!FindStream, G!At
  <2>2. CASE G!Goto(r, "user")
    <3>1. PICK k : k = [work[r] EXCEPT !.pc = "user"]
      OBVIOUS
    <3>2. work[r] \in Giving
      BY <1>1, <2>1 DEF GiftHandlers, Paying, G!Idle
    <3>3. k \in GiftHandlers /\ k.pc = "user"
      BY <3>1, <3>2 DEF GiftHandlers, Giving
    <3>4. PutIn(r, k)
      BY <1>1, <2>2, <3>1, Zenon DEF PutIn, G!Goto
    <3>5. QED BY <3>3, <3>4 DEF GiftStep
  <2>3. QED BY <1>0, <2>1, <2>2 DEF GiftStep
<1>4. ASSUME G!FindUser(r)
      PROVE  \E k : /\ GiftStep(r, k) /\ k.pc \in {"charge", "idle"}
                    /\ k.pc = "charge" => /\ k.amount <= k.cash + k.bonus
                                          /\ k.cash = cash /\ k.bonus = bonus
  <2>1. work[r].pc = "user" /\ work[r].amount \in Amounts /\ work[r].onStream \in BOOLEAN
    BY <1>1, <1>4 DEF G!FindUser, G!At, GiftHandlers, Giving, Paying, G!Idle
  <2>2. CASE cash + bonus < work[r].amount
    <3>1. PutIn(r, G!Idle)
      BY <1>0, <1>4, <2>2 DEF G!FindUser
    <3>2. QED BY <1>0, <3>1 DEF GiftStep
  <2>3. CASE ~(cash + bonus < work[r].amount)
    <3>1. PICK a, s, k : /\ a = work[r].amount /\ s = work[r].onStream
                         /\ k = [pc |-> "charge", amount |-> a, onStream |-> s, cash |-> cash, bonus |-> bonus]
      OBVIOUS
    <3>2. PutIn(r, k)
      BY <1>1, <1>4, <2>3, <3>1 DEF G!FindUser, PutIn
    <3>3. /\ k \in GiftHandlers /\ k.pc = "charge" /\ k.amount = a /\ k.cash = cash /\ k.bonus = bonus
      BY <2>1, <3>1 DEF GiftHandlers, Paying, GiftTypes
    <3>4. a <= cash + bonus
      <4>1. a \in Int
        BY <2>1, <3>1, GiftNat
      <4>0. cash \in Int /\ bonus \in Int
        BY DEF GiftTypes
      <4>2. ~(cash + bonus < a)
        BY <2>3, <3>1
      <4>3. QED BY <4>0, <4>1, <4>2
    <3>5. QED BY <3>2, <3>3, <3>4 DEF GiftStep
  <2>4. QED BY <2>2, <2>3
<1>5. ASSUME NEW pc \in {"earn", "count"}, G!Goto(r, pc), work[r].pc \in {"charge", "earn"}
      PROVE  \E k : /\ GiftStep(r, k) /\ k.pc = pc
                    /\ k.amount = work[r].amount /\ k.onStream = work[r].onStream
  <2>1. PICK k : k = [work[r] EXCEPT !.pc = pc]
    OBVIOUS
  <2>2. work[r] \in Paying
    BY <1>1, <1>5 DEF GiftHandlers, Giving, G!Idle
  <2>3. k \in GiftHandlers /\ k.pc = pc /\ k.amount = work[r].amount /\ k.onStream = work[r].onStream
    BY <2>1, <2>2 DEF GiftHandlers, Paying
  <2>4. PutIn(r, k)
    BY <1>1, <1>5, <2>1, Zenon DEF PutIn, G!Goto
  <2>5. QED BY <2>3, <2>4 DEF GiftStep
<1>6. ASSUME G!RecordGiftEarning(r)
      PROVE IF work[r].onStream = TRUE
            THEN \E k : /\ GiftStep(r, k) /\ k.pc = "count"
                        /\ k.amount = work[r].amount /\ k.onStream = work[r].onStream
            ELSE GiftStep(r, G!Idle)
  <2>1. work[r].pc = "earn" /\ work[r].onStream \in BOOLEAN
    BY <1>1, <1>6 DEF G!RecordGiftEarning, G!At, GiftHandlers, Giving, Paying, G!Idle
  <2>2. IF work[r].onStream = TRUE THEN G!Goto(r, "count") ELSE G!Finish(r)
    BY <1>6, <2>1 DEF G!RecordGiftEarning
  <2>3. QED BY <1>0, <1>5, <2>1, <2>2 DEF GiftStep
<1>7. G!Charge(r) => work[r].pc = "charge" /\ G!Goto(r, "earn")
  BY DEF G!Charge, G!At
<1>8. G!CountOnStream(r) \/ G!GiftThrows(r) => GiftStep(r, G!Idle)
  BY <1>0 DEF G!CountOnStream, G!GiftThrows, GiftStep
<1>9. QED BY <1>2, <1>3, <1>4, <1>5, <1>6, <1>7, <1>8

\* The row that a charge writes.
LEMMA GiftRow ==
  ASSUME GiftBounds, GiftTypes, NEW r \in Slots, G!Charge(r)
  PROVE  /\ Cardinality(rows) \in Nat
         /\ \E x \in GiftRows :
              /\ x \notin rows /\ rows' = rows \cup {x} /\ x.id = Cardinality(rows)
              /\ x.amount = work[r].amount /\ x.net = G!Net(work[r].amount)
              /\ x.onStream = work[r].onStream
<1>1. PICK a, s, n, c : a = work[r].amount /\ s = work[r].onStream /\ n = G!Net(a) /\ c = Cardinality(rows)
  OBVIOUS
<1>2. work[r].pc = "charge"
  BY DEF G!Charge, G!At
<1>3. a \in Amounts /\ s \in BOOLEAN
  BY <1>1, <1>2 DEF GiftTypes, Giving, Paying, G!Idle
<1>4. n \in Int /\ c \in Nat
  BY <1>1, <1>3, NetIsInt, FS_CardinalityType DEF GiftTypes
<1>5. PICK x : x = [id |-> c, amount |-> a, net |-> n, onStream |-> s]
  OBVIOUS
<1>6. x \in GiftRows /\ x.id = c /\ x.amount = a /\ x.net = n /\ x.onStream = s
  BY <1>3, <1>4, <1>5 DEF GiftRows
<1>7. rows' = rows \cup {x}
  BY <1>1, <1>5, GiftCount DEF G!Charge
<1>8. x \notin rows
  BY <1>1, <1>4, <1>6 DEF GiftTypes
<1>9. QED BY <1>1, <1>4, <1>6, <1>7, <1>8

\* What a charge leaves in the wallet.
LEMMA GiftDebit ==
  ASSUME GiftBounds, GiftTypes, NEW r \in Slots, G!Charge(r)
  PROVE  LET a == work[r].amount c == work[r].cash b == work[r].bonus IN
         /\ a \in Nat /\ c \in Nat /\ b \in Nat /\ a <= c + b
         /\ cash' \in Nat /\ bonus' \in Nat
         /\ (c = cash /\ b = bonus) => IF b >= a THEN cash' = c /\ bonus' = b - a
                                       ELSE cash' = c - (a - b) /\ bonus' = 0
<1>1. work[r].pc = "charge"
  BY DEF G!Charge, G!At
<1>2. work[r].amount \in Amounts /\ work[r].cash \in Nat /\ work[r].bonus \in Nat
  BY <1>1 DEF GiftTypes, Giving, Paying, G!Idle
<1>3. PICK a, c, b : a = work[r].amount /\ c = work[r].cash /\ b = work[r].bonus
  OBVIOUS
<1>4. a \in Nat /\ c \in Nat /\ b \in Nat /\ a <= c + b
  BY <1>1, <1>2, <1>3, GiftNat DEF GiftTypes
<1>5. G!ApplyDebit(work[r]) = IF b >= a THEN [cash |-> c, bonus |-> b - a] ELSE [cash |-> c - (a - b), bonus |-> 0]
  BY <1>3 DEF G!ApplyDebit
<1>6. CASE b >= a
  <2>1. G!ApplyDebit(work[r]).cash = c /\ G!ApplyDebit(work[r]).bonus = b - a
    BY <1>5, <1>6
  <2>2. /\ cash' = IF c = c THEN cash ELSE c
        /\ bonus' = IF b - a = b THEN bonus ELSE b - a
    BY <1>3, <2>1 DEF G!Charge
  <2>3. b - a \in Nat
    BY <1>4, <1>6
  <2>4. QED BY <1>3, <1>4, <1>6, <2>2, <2>3 DEF GiftTypes
<1>7. CASE ~(b >= a)
  <2>1. G!ApplyDebit(work[r]).cash = c - (a - b) /\ G!ApplyDebit(work[r]).bonus = 0
    BY <1>5, <1>7
  <2>2. /\ cash' = IF c - (a - b) = c THEN cash ELSE c - (a - b)
        /\ bonus' = IF 0 = b THEN bonus ELSE 0
    BY <1>3, <2>1 DEF G!Charge
  <2>3. c - (a - b) \in Nat
    BY <1>4, <1>7
  <2>4. QED BY <1>3, <1>4, <1>7, <2>2, <2>3 DEF GiftTypes
<1>8. QED BY <1>6, <1>7

LEMMA GiftWork ==
  ASSUME GiftTypes, NEW r \in Slots, NEW k, GiftStep(r, k),
         k.pc = "charge" => k.amount <= k.cash + k.bonus
  PROVE  /\ work' \in [Slots -> Giving \cup Paying \cup {G!Idle}]
         /\ \A q \in Slots : work'[q].pc = "charge" => work'[q].amount <= work'[q].cash + work'[q].bonus
<1>1. work'[r] = k /\ \A q \in Slots \ {r} : work'[q] = work[q]
  BY DEF GiftTypes, GiftStep, PutIn
<1>2. \A q \in Slots : work'[q].pc = "charge" => work'[q].amount <= work'[q].cash + work'[q].bonus
  BY <1>1 DEF GiftTypes
<1>3. QED BY <1>2 DEF GiftTypes, GiftStep, PutIn, GiftHandlers

LEMMA GiftTypesNext == GiftBounds /\ GiftTypes /\ [G!Next]_(G!gvars) => GiftTypes'
<1> SUFFICES ASSUME GiftBounds, GiftTypes, [G!Next]_(G!gvars) PROVE GiftTypes'
  OBVIOUS
<1>0. G!Idle.pc = "idle"
  BY DEF G!Idle
<1>1. CASE UNCHANGED G!gvars
  BY <1>1 DEF G!gvars, GiftTypes
<1>2. ASSUME NEW r \in Slots, NEW a \in Amounts, NEW s \in BOOLEAN, G!SendGift(r, a, s) PROVE GiftTypes'
  <2>1. PICK k : GiftStep(r, k) /\ k.pc # "charge"
    BY <1>2, GiftPuts
  <2>2. QED BY <1>2, <2>1, GiftWork DEF G!SendGift, GiftTypes
<1>3. ASSUME NEW r \in Slots, G!FindStream(r) PROVE GiftTypes'
  <2>1. PICK k : GiftStep(r, k) /\ k.pc # "charge"
    BY <1>3, GiftPuts
  <2>2. QED BY <1>3, <2>1, GiftWork DEF G!FindStream, GiftTypes
<1>4. ASSUME NEW r \in Slots, G!FindUser(r) PROVE GiftTypes'
  <2>1. PICK k : GiftStep(r, k) /\ (k.pc = "charge" => k.amount <= k.cash + k.bonus)
    BY <1>4, GiftPuts
  <2>2. QED BY <1>4, <2>1, GiftWork DEF G!FindUser, GiftTypes
<1>5. ASSUME NEW r \in Slots, G!Charge(r) PROVE GiftTypes'
  <2>1. PICK k : GiftStep(r, k) /\ k.pc = "earn"
    BY <1>5, GiftPuts
  <2>2. PICK x \in GiftRows : x \notin rows /\ rows' = rows \cup {x} /\ x.id = Cardinality(rows)
    BY <1>5, GiftRow
  <2>3. Cardinality(rows') = Cardinality(rows) + 1 /\ IsFiniteSet(rows') /\ Cardinality(rows) \in Nat
    BY <2>2, FS_AddElement, FS_CardinalityType DEF GiftTypes
  <2>4. rows' \in SUBSET GiftRows /\ \A y \in rows' : y.id < Cardinality(rows')
    <3>1. \A y \in rows : y.id \in Nat /\ y.id < Cardinality(rows)
      BY DEF GiftTypes, GiftRows
    <3>2. QED BY <2>2, <2>3, <3>1 DEF GiftTypes
  <2>5. cash' \in Nat /\ bonus' \in Nat
    BY <1>5, GiftDebit
  <2>6. QED BY <1>5, <2>1, <2>3, <2>4, <2>5, GiftWork DEF G!Charge, GiftTypes
<1>6. ASSUME NEW r \in Slots, G!RecordGiftEarning(r) PROVE GiftTypes'
  <2>1. PICK k : GiftStep(r, k) /\ k.pc # "charge"
    BY <1>0, <1>6, GiftPuts
  <2>2. work[r].pc = "earn"
    BY <1>6 DEF G!RecordGiftEarning, G!At
  <2>3. G!Net(work[r].amount) \in Int
    BY <2>2, NetIsInt DEF GiftTypes, Giving, Paying, G!Idle
  <2>4. earned' \in Int
    BY <1>6, <2>3 DEF G!RecordGiftEarning, GiftTypes
  <2>5. QED BY <1>6, <2>1, <2>4, GiftWork DEF G!RecordGiftEarning, GiftTypes
<1>7. ASSUME NEW r \in Slots, G!CountOnStream(r) PROVE GiftTypes'
  <2>1. GiftStep(r, G!Idle)
    BY <1>7, GiftPuts
  <2>2. work[r].pc = "count"
    BY <1>7 DEF G!CountOnStream, G!At
  <2>3. work[r].amount \in Int
    BY <2>2, GiftNat DEF GiftTypes, Giving, Paying, G!Idle
  <2>4. revenue' \in Int /\ gifts' \in Int
    BY <1>7, <2>3 DEF G!CountOnStream, GiftTypes
  <2>5. QED BY <1>0, <1>7, <2>1, <2>4, GiftWork DEF G!CountOnStream, GiftTypes
<1>8. ASSUME NEW r \in Slots, G!GiftThrows(r) PROVE GiftTypes'
  <2>1. GiftStep(r, G!Idle)
    BY <1>8, GiftPuts
  <2>2. QED BY <1>0, <1>8, <2>1, GiftWork DEF G!GiftThrows, GiftTypes
<1>9. ASSUME NEW r \in Slots, G!TopUp(r) PROVE GiftTypes'
  BY <1>9 DEF G!TopUp, GiftTypes, GiftBounds
<1>10. CASE G!EndStream
  BY <1>10 DEF G!EndStream, GiftTypes
<1>11. QED BY <1>1, <1>2, <1>3, <1>4, <1>5, <1>6, <1>7, <1>8, <1>9, <1>10 DEF G!Next

----------------
(* What is counted.                                                        *)

LEMMA TellingNext == GiftBounds /\ GiftTypes /\ Telling /\ [G!Next]_(G!gvars) => Telling'
<1> SUFFICES ASSUME GiftBounds, GiftTypes, Telling, [G!Next]_(G!gvars) PROVE Telling'
  OBVIOUS
<1>0. G!Idle.pc = "idle"
  BY DEF G!Idle
<1>1. CASE work' = work
  BY <1>1 DEF Telling
<1>2. ASSUME NEW r \in Slots, NEW k, GiftStep(r, k), k.pc = "count" => k.onStream = TRUE PROVE Telling'
  <2>1. work'[r] = k /\ \A q \in Slots \ {r} : work'[q] = work[q]
    BY <1>2 DEF GiftTypes, GiftStep, PutIn
  <2>2. QED BY <1>2, <2>1 DEF Telling
<1>3. ASSUME NEW r \in Slots,
             \/ \E a \in Amounts, s \in BOOLEAN : G!SendGift(r, a, s)
             \/ G!FindStream(r) \/ G!FindUser(r) \/ G!Charge(r) \/ G!RecordGiftEarning(r)
             \/ G!CountOnStream(r) \/ G!GiftThrows(r)
      PROVE  Telling'
  <2>1. PICK k : GiftStep(r, k) /\ (k.pc = "count" => k.onStream = TRUE)
    <3>1. CASE G!RecordGiftEarning(r)
      BY <1>0, <3>1, GiftPuts
    <3>2. CASE \E a \in Amounts, s \in BOOLEAN : G!SendGift(r, a, s)
      BY <3>2, GiftPuts
    <3>3. CASE G!FindStream(r) \/ G!FindUser(r) \/ G!Charge(r) \/ G!CountOnStream(r) \/ G!GiftThrows(r)
      BY <1>0, <3>3, GiftPuts
    <3>4. QED BY <1>3, <3>1, <3>2, <3>3
  <2>2. QED BY <2>1, <1>2
<1>4. (\E r \in Slots : G!TopUp(r)) \/ G!EndStream \/ UNCHANGED G!gvars => work' = work
  BY DEF G!TopUp, G!EndStream, G!gvars
<1>5. QED BY <1>1, <1>3, <1>4 DEF G!Next

\* A step of a handler that neither gives nor counts.
LEMMA WayKept ==
  ASSUME GiftBounds, GiftTypes, OnItsWay, NEW r \in Slots, NEW k, GiftStep(r, k),
         k.pc \notin {"earn", "count"}, work[r].pc \notin {"earn", "count"},
         rows' = rows, earned' = earned, gifts' = gifts, revenue' = revenue, failures' = failures
  PROVE  OnItsWay'
<1>1. ToEarn' = ToEarn + Unearned(k) - Unearned(work[r]) /\ ToTell' = ToTell + Untold(k) - Untold(work[r])
      /\ ToCount' = ToCount + Uncounted(k) - Uncounted(work[r])
  BY GiftMoves DEF GiftStep
<1>2. /\ Unearned(k) = 0 /\ Untold(k) = 0 /\ Uncounted(k) = 0
      /\ Unearned(work[r]) = 0 /\ Untold(work[r]) = 0 /\ Uncounted(work[r]) = 0
  BY DEF Unearned, Untold, Uncounted, ToStream
<1>3. ToEarn' = ToEarn /\ ToTell' = ToTell /\ ToCount' = ToCount
  BY <1>1, <1>2, GiftSums
<1>4. NetBy(rows)' = NetBy(rows) /\ Streamed' = Streamed /\ GivenBy(Streamed)' = GivenBy(Streamed)
  BY DEF NetBy, NetOf, GivenBy, GiftOf, Streamed
<1>5. QED BY <1>3, <1>4 DEF OnItsWay

LEMMA WayCharged ==
  ASSUME GiftBounds, GiftTypes, OnItsWay, NEW r \in Slots, G!Charge(r)
  PROVE  OnItsWay'
<1>1. PICK k : /\ GiftStep(r, k) /\ k.pc = "earn"
               /\ k.amount = work[r].amount /\ k.onStream = work[r].onStream
  BY GiftPuts
<1>2. PICK x \in GiftRows : /\ x \notin rows /\ rows' = rows \cup {x}
                            /\ x.amount = work[r].amount /\ x.net = G!Net(work[r].amount)
                            /\ x.onStream = work[r].onStream
  BY GiftRow
<1>3. work[r].pc = "charge" /\ earned' = earned /\ gifts' = gifts /\ revenue' = revenue /\ failures' = failures
  BY DEF G!Charge, G!At
<1>4. /\ Unearned(work[r]) = 0 /\ Untold(work[r]) = 0 /\ Uncounted(work[r]) = 0
      /\ Unearned(k) = x.net /\ Untold(k) = (IF x.onStream = TRUE THEN 1 ELSE 0)
      /\ Uncounted(k) = IF x.onStream = TRUE THEN x.amount ELSE 0
  BY <1>1, <1>2, <1>3 DEF Unearned, Untold, Uncounted, ToStream
<1>5. /\ ToEarn' = ToEarn + Unearned(k) - Unearned(work[r])
      /\ ToTell' = ToTell + Untold(k) - Untold(work[r])
      /\ ToCount' = ToCount + Uncounted(k) - Uncounted(work[r])
  BY <1>1, GiftMoves DEF GiftStep
<1>6. x.net \in Int /\ x.amount \in Int /\ x.onStream \in BOOLEAN
  BY GiftNat DEF GiftRows
<1>7. /\ ToEarn' = ToEarn + x.net
      /\ ToTell' = ToTell + (IF x.onStream = TRUE THEN 1 ELSE 0)
      /\ ToCount' = ToCount + (IF x.onStream = TRUE THEN x.amount ELSE 0)
  BY <1>4, <1>5, <1>6, GiftSums
<1>8. rows \in SUBSET GiftRows /\ IsFiniteSet(rows) /\ Streamed \in SUBSET GiftRows /\ IsFiniteSet(Streamed)
      /\ x \notin Streamed
  BY <1>2, FS_Subset DEF GiftTypes, Streamed
<1>9. NetBy(rows)' = NetBy(rows) + x.net
  <2>1. NetBy(rows)' = NetBy(rows')
    BY DEF NetBy, NetOf
  <2>2. QED BY <1>2, <1>8, <2>1, RowGives
<1>10. /\ Cardinality(Streamed)' = Cardinality(Streamed) + (IF x.onStream = TRUE THEN 1 ELSE 0)
       /\ GivenBy(Streamed)' = GivenBy(Streamed) + (IF x.onStream = TRUE THEN x.amount ELSE 0)
  <2>1. GivenBy(Streamed)' = GivenBy(Streamed')
    BY DEF GivenBy, GiftOf
  <2>2. CASE x.onStream = TRUE
    <3>1. Streamed' = Streamed \cup {x}
      BY <1>2, <2>2 DEF Streamed
    <3>2. QED BY <1>8, <2>1, <2>2, <3>1, RowGives, FS_AddElement
  <2>3. CASE x.onStream = FALSE
    <3>1. Streamed' = Streamed
      BY <1>2, <2>3 DEF Streamed
    <3>2. GivenBy(Streamed) \in Int /\ Cardinality(Streamed) \in Int
      BY <1>8, GivenNat, FS_CardinalityType
    <3>3. QED BY <2>1, <2>3, <3>1, <3>2
  <2>4. QED BY <1>6, <2>2, <2>3
<1>11. NetBy(rows) \in Int /\ GivenBy(Streamed) \in Int /\ Cardinality(Streamed) \in Int
       /\ earned \in Int /\ gifts \in Int /\ revenue \in Int
  BY <1>8, GivenNat, FS_CardinalityType DEF GiftTypes
<1>12. \A a, b, c, d \in Int : a + b = c => a + (b + d) = c + d
  OBVIOUS
<1>13. (IF x.onStream = TRUE THEN 1 ELSE 0) \in Int /\ (IF x.onStream = TRUE THEN x.amount ELSE 0) \in Int
  BY <1>6
<1>14. QED BY <1>3, <1>6, <1>7, <1>9, <1>10, <1>11, <1>12, <1>13, GiftSums DEF OnItsWay

LEMMA WayEarned ==
  ASSUME GiftBounds, GiftTypes, OnItsWay, NEW r \in Slots, G!RecordGiftEarning(r)
  PROVE  OnItsWay'
<1>1. /\ work[r].pc = "earn" /\ earned' = earned + G!Net(work[r].amount)
      /\ rows' = rows /\ gifts' = gifts /\ revenue' = revenue /\ failures' = failures
  BY DEF G!RecordGiftEarning, G!At
<1>2. PICK k : /\ GiftStep(r, k) /\ Unearned(k) = 0 /\ Untold(k) = Untold(work[r])
               /\ Uncounted(k) = Uncounted(work[r])
  <2>1. CASE work[r].onStream = TRUE
    <3>1. PICK k : /\ GiftStep(r, k) /\ k.pc = "count"
                   /\ k.amount = work[r].amount /\ k.onStream = work[r].onStream
      BY <2>1, GiftPuts
    <3>2. QED BY <1>1, <2>1, <3>1 DEF Unearned, Untold, Uncounted, ToStream
  <2>2. CASE work[r].onStream # TRUE
    <3>1. GiftStep(r, G!Idle) /\ G!Idle.pc = "idle"
      BY <2>2, GiftPuts DEF G!Idle
    <3>2. QED BY <1>1, <2>2, <3>1 DEF Unearned, Untold, Uncounted, ToStream
  <2>3. QED BY <2>1, <2>2
<1>3. Unearned(work[r]) = G!Net(work[r].amount)
  BY <1>1 DEF Unearned
<1>4. /\ ToEarn' = ToEarn + Unearned(k) - Unearned(work[r])
      /\ ToTell' = ToTell + Untold(k) - Untold(work[r])
      /\ ToCount' = ToCount + Uncounted(k) - Uncounted(work[r])
  BY <1>2, GiftMoves DEF GiftStep
<1>5. Unearned(work[r]) \in Int /\ Untold(work[r]) \in Int /\ Uncounted(work[r]) \in Int /\ earned \in Int
  BY GiftTerms DEF GiftTypes, GiftHandlers
<1>6. PICK n \in Int : n = Unearned(work[r])
  BY <1>5
<1>7. ToEarn' = ToEarn - n /\ earned' = earned + n /\ ToTell' = ToTell /\ ToCount' = ToCount
  BY <1>1, <1>2, <1>3, <1>4, <1>5, <1>6, GiftSums
<1>8. NetBy(rows)' = NetBy(rows) /\ Streamed' = Streamed /\ GivenBy(Streamed)' = GivenBy(Streamed)
  BY <1>1 DEF NetBy, NetOf, GivenBy, GiftOf, Streamed
<1>9. earned' + ToEarn' = earned + ToEarn
  BY <1>5, <1>6, <1>7, GiftSums
<1>10. QED BY <1>1, <1>7, <1>8, <1>9 DEF OnItsWay

LEMMA WayCounted ==
  ASSUME GiftBounds, GiftTypes, Telling, OnItsWay, NEW r \in Slots, G!CountOnStream(r)
  PROVE  OnItsWay'
<1>1. /\ work[r].pc = "count" /\ gifts' = gifts + 1 /\ revenue' = revenue + work[r].amount
      /\ rows' = rows /\ earned' = earned /\ failures' = failures
  BY DEF G!CountOnStream, G!At
<1>2. GiftStep(r, G!Idle) /\ G!Idle.pc = "idle"
  BY GiftPuts DEF G!Idle
<1>3. /\ Unearned(work[r]) = 0 /\ Untold(work[r]) = 1 /\ Uncounted(work[r]) = work[r].amount
      /\ Unearned(G!Idle) = 0 /\ Untold(G!Idle) = 0 /\ Uncounted(G!Idle) = 0
  BY <1>1, <1>2 DEF Unearned, Untold, Uncounted, ToStream, Telling
<1>4. /\ ToEarn' = ToEarn + Unearned(G!Idle) - Unearned(work[r])
      /\ ToTell' = ToTell + Untold(G!Idle) - Untold(work[r])
      /\ ToCount' = ToCount + Uncounted(G!Idle) - Uncounted(work[r])
  BY <1>2, GiftMoves DEF GiftStep
<1>5. Uncounted(work[r]) \in Int /\ revenue \in Int /\ gifts \in Int
  BY GiftTerms DEF GiftTypes, GiftHandlers
<1>6. PICK n \in Int : n = work[r].amount
  BY <1>3, <1>5
<1>7. /\ ToEarn' = ToEarn /\ ToTell' = ToTell - 1 /\ ToCount' = ToCount - n
      /\ revenue' = revenue + n
  BY <1>1, <1>3, <1>4, <1>6, GiftSums
<1>8. NetBy(rows)' = NetBy(rows) /\ Streamed' = Streamed /\ GivenBy(Streamed)' = GivenBy(Streamed)
  BY <1>1 DEF NetBy, NetOf, GivenBy, GiftOf, Streamed
<1>9. gifts' + ToTell' = gifts + ToTell /\ revenue' + ToCount' = revenue + ToCount
  <2>1. \A a, b, c \in Int : (a + c) + (b - c) = a + b
    OBVIOUS
  <2>2. gifts' + ToTell' = (gifts + 1) + (ToTell - 1) /\ revenue' + ToCount' = (revenue + n) + (ToCount - n)
    BY <1>1, <1>7
  <2>3. QED BY <1>5, <2>1, <2>2, GiftSums
<1>10. QED BY <1>1, <1>7, <1>8, <1>9 DEF OnItsWay

LEMMA WayNext == GiftBounds /\ GiftTypes /\ Telling /\ OnItsWay /\ [G!Next]_(G!gvars) => OnItsWay'
<1> SUFFICES ASSUME GiftBounds, GiftTypes, Telling, OnItsWay, [G!Next]_(G!gvars) PROVE OnItsWay'
  OBVIOUS
<1>1. (\E r \in Slots : G!TopUp(r)) \/ G!EndStream \/ UNCHANGED G!gvars
      => /\ work' = work /\ rows' = rows /\ earned' = earned /\ gifts' = gifts
         /\ revenue' = revenue /\ failures' = failures
  BY DEF G!TopUp, G!EndStream, G!gvars
<1>2. ASSUME work' = work, rows' = rows, earned' = earned, gifts' = gifts,
             revenue' = revenue, failures' = failures
      PROVE  OnItsWay'
  BY <1>2 DEF OnItsWay, ToEarn, ToTell, ToCount, NetBy, NetOf, GivenBy, GiftOf, Streamed
<1>3. ASSUME NEW r \in Slots, NEW a \in Amounts, NEW s \in BOOLEAN, G!SendGift(r, a, s) PROVE OnItsWay'
  <2>1. PICK k : GiftStep(r, k) /\ k.pc \in {"stream", "user"}
    BY <1>3, GiftPuts
  <2>2. QED BY <1>3, <2>1, WayKept DEF G!SendGift, G!Begin, G!At
<1>4. ASSUME NEW r \in Slots, G!FindStream(r) PROVE OnItsWay'
  <2>1. PICK k : GiftStep(r, k) /\ k.pc \in {"idle", "user"}
    BY <1>4, GiftPuts
  <2>2. QED BY <1>4, <2>1, WayKept DEF G!FindStream, G!At
<1>5. ASSUME NEW r \in Slots, G!FindUser(r) PROVE OnItsWay'
  <2>1. PICK k : GiftStep(r, k) /\ k.pc \in {"idle", "charge"}
    BY <1>5, GiftPuts
  <2>2. QED BY <1>5, <2>1, WayKept DEF G!FindUser, G!At
<1>6. ASSUME NEW r \in Slots, G!GiftThrows(r) PROVE OnItsWay'
  <2>1. failures' # 0
    BY <1>6 DEF G!GiftThrows, GiftTypes
  <2>2. QED BY <2>1 DEF OnItsWay
<1>7. QED BY <1>1, <1>2, <1>3, <1>4, <1>5, <1>6, WayCharged, WayEarned, WayCounted DEF G!Next

----------------
(* What is taken.                                                          *)

\* A step that neither charges nor recharges.
LEMMA TakenKept ==
  ASSUME GiftTypes, OneGiver, Taken, NEW r \in Slots, NEW k, GiftStep(r, k),
         k.pc = "charge" => k.cash = cash /\ k.bonus = bonus,
         rows' = rows, cash' = cash, bonus' = bonus, topUps' = topUps
  PROVE  Taken'
<1>1. \A q \in Slots : q = r
  BY DEF OneGiver
<1>2. work'[r] = k
  BY DEF GiftTypes, GiftStep, PutIn
<1>3. GivenBy(rows)' = GivenBy(rows)
  BY DEF GivenBy, GiftOf
<1>4. \A q \in Slots : work'[q].pc = "charge" => work'[q].cash = cash' /\ work'[q].bonus = bonus'
  BY <1>1, <1>2
<1>5. QED BY <1>3, <1>4 DEF Taken

LEMMA TakenCharged ==
  ASSUME GiftBounds, GiftTypes, OneGiver, Taken, NEW r \in Slots, G!Charge(r)
  PROVE  Taken'
<1>1. PICK k : GiftStep(r, k) /\ k.pc = "earn"
  BY GiftPuts
<1>2. \A q \in Slots : work'[q].pc # "charge"
  <2>1. \A q \in Slots : q = r
    BY DEF OneGiver
  <2>2. work'[r] = k
    BY <1>1 DEF GiftTypes, GiftStep, PutIn
  <2>3. QED BY <1>1, <2>1, <2>2
<1>3. PICK x \in GiftRows : x \notin rows /\ rows' = rows \cup {x} /\ x.amount = work[r].amount
  BY GiftRow
<1>4. work[r].pc = "charge" /\ topUps' = topUps
  BY DEF G!Charge, G!At
<1>5. work[r].cash = cash /\ work[r].bonus = bonus
  BY <1>4 DEF Taken
<1>6. PICK a : a = work[r].amount
  OBVIOUS
<1>7. /\ a \in Nat /\ cash \in Nat /\ bonus \in Nat /\ a <= cash + bonus
      /\ IF bonus >= a THEN cash' = cash /\ bonus' = bonus - a
         ELSE cash' = cash - (a - bonus) /\ bonus' = 0
  BY <1>5, <1>6, GiftDebit
<1>8. GivenBy(rows)' = GivenBy(rows) + a /\ GivenBy(rows) \in Nat
  <2>1. GivenBy(rows)' = GivenBy(rows')
    BY DEF GivenBy, GiftOf
  <2>2. rows \in SUBSET GiftRows /\ IsFiniteSet(rows)
    BY DEF GiftTypes
  <2>3. QED BY <1>3, <1>6, <2>1, <2>2, RowGives, GivenNat
<1>9. PICK g \in Nat : g = GivenBy(rows)
  BY <1>8
<1>10. PICK t : t = Cash + Bonus + Top * topUps
  OBVIOUS
<1>11. cash + bonus + g = t /\ bonus = IF g >= Bonus THEN 0 ELSE Bonus - g
  BY <1>9, <1>10 DEF Taken
<1>12. Bonus \in Nat
  BY DEF GiftBounds
<1>13. cash' + bonus' + (g + a) = t
  <2>1. CASE bonus >= a
    BY <1>7, <1>11, <2>1
  <2>2. CASE ~(bonus >= a)
    BY <1>7, <1>11, <2>2
  <2>3. QED BY <2>1, <2>2
<1>14. bonus' = IF g + a >= Bonus THEN 0 ELSE Bonus - (g + a)
  <2>1. CASE bonus >= a
    BY <1>7, <1>11, <1>12, <2>1
  <2>2. CASE ~(bonus >= a)
    BY <1>7, <1>11, <1>12, <2>2
  <2>3. QED BY <2>1, <2>2
<1>15. QED BY <1>2, <1>4, <1>8, <1>9, <1>10, <1>13, <1>14 DEF Taken

LEMMA TakenNext == GiftBounds /\ GiftTypes /\ OneGiver /\ Taken /\ [G!Next]_(G!gvars) => Taken'
<1> SUFFICES ASSUME GiftBounds, GiftTypes, OneGiver, Taken, [G!Next]_(G!gvars) PROVE Taken'
  OBVIOUS
<1>0. G!Idle.pc = "idle"
  BY DEF G!Idle
<1>1. CASE G!EndStream \/ UNCHANGED G!gvars
  <2>1. rows' = rows /\ work' = work /\ cash' = cash /\ bonus' = bonus /\ topUps' = topUps
    BY <1>1 DEF G!EndStream, G!gvars
  <2>2. GivenBy(rows)' = GivenBy(rows)
    BY <2>1 DEF GivenBy, GiftOf
  <2>3. QED BY <2>1, <2>2 DEF Taken
<1>2. ASSUME NEW r \in Slots,
             \/ \E a \in Amounts, s \in BOOLEAN : G!SendGift(r, a, s)
             \/ G!FindStream(r) \/ G!FindUser(r) \/ G!RecordGiftEarning(r)
             \/ G!CountOnStream(r) \/ G!GiftThrows(r)
      PROVE  Taken'
  <2>1. PICK k : GiftStep(r, k) /\ (k.pc = "charge" => k.cash = cash /\ k.bonus = bonus)
    <3>1. CASE G!RecordGiftEarning(r)
      BY <1>0, <3>1, GiftPuts
    <3>2. CASE \E a \in Amounts, s \in BOOLEAN : G!SendGift(r, a, s)
      BY <3>2, GiftPuts
    <3>3. CASE G!FindStream(r) \/ G!FindUser(r) \/ G!CountOnStream(r) \/ G!GiftThrows(r)
      BY <1>0, <3>3, GiftPuts
    <3>4. QED BY <1>2, <3>1, <3>2, <3>3
  <2>2. rows' = rows /\ cash' = cash /\ bonus' = bonus /\ topUps' = topUps
    BY <1>2 DEF G!SendGift, G!FindStream, G!FindUser, G!RecordGiftEarning, G!CountOnStream, G!GiftThrows
  <2>3. QED BY <2>1, <2>2, TakenKept
<1>3. ASSUME NEW r \in Slots, G!TopUp(r) PROVE Taken'
  <2>1. /\ rows' = rows /\ work' = work /\ cash' = cash + Top /\ bonus' = bonus
        /\ topUps' = topUps + 1 /\ work[r].pc = "idle"
    BY <1>3 DEF G!TopUp, G!At
  <2>2. \A q \in Slots : work'[q].pc # "charge"
    BY <2>1 DEF OneGiver
  <2>3. GivenBy(rows)' = GivenBy(rows)
    BY <2>1 DEF GivenBy, GiftOf
  <2>4. \A a, b \in Nat : a * (b + 1) = a * b + a /\ a * b \in Nat
    OBVIOUS
  <2>5. Top \in Nat /\ topUps \in Nat /\ cash \in Nat /\ bonus \in Nat /\ Cash \in Nat /\ Bonus \in Nat
    BY DEF GiftTypes, GiftBounds
  <2>6. GivenBy(rows) \in Nat
    BY GivenNat DEF GiftTypes
  <2>7. PICK t, u \in Nat : t = Top * topUps /\ u = Top * topUps' /\ u = t + Top
    BY <2>1, <2>4, <2>5
  <2>8. cash + bonus + GivenBy(rows) = Cash + Bonus + t
    BY <2>7 DEF Taken
  <2>9. cash' + bonus' + GivenBy(rows) = Cash + Bonus + u
    BY <2>1, <2>5, <2>6, <2>7, <2>8
  <2>10. QED BY <2>1, <2>2, <2>3, <2>7, <2>9 DEF Taken
<1>4. QED BY <1>1, <1>2, <1>3, TakenCharged DEF G!Next

----------------
(* The theorems.                                                           *)

LEMMA GiftInit == GiftBounds /\ G!Init => GiftInv
<1> SUFFICES ASSUME GiftBounds, G!Init PROVE GiftInv
  OBVIOUS
<1>1. rows = {} /\ IsFiniteSet(rows) /\ Streamed = {} /\ Cardinality({}) = 0
  BY FS_EmptySet DEF G!Init, Streamed
<1>2. \A r \in Slots : work[r] = G!Idle /\ work[r].pc = "idle"
  BY DEF G!Init, G!NoHandler, G!Idle
<1>3. work \in [Slots -> Giving \cup Paying \cup {G!Idle}]
  BY DEF G!Init, G!NoHandler
<1>4. GiftTypes
  BY <1>1, <1>2, <1>3 DEF G!Init, GiftTypes, GiftBounds
<1>5. GivenBy({}) = 0 /\ NetBy({}) = 0
  BY SumEmpty DEF GivenBy, NetBy
<1>6. \A r \in Slots : Unearned(work[r]) = 0 /\ Untold(work[r]) = 0 /\ Uncounted(work[r]) = 0
  BY <1>2 DEF Unearned, Untold, Uncounted, ToStream
<1>7. ToEarn = 0 /\ ToTell = 0 /\ ToCount = 0
  BY <1>6, SumZero DEF ToEarn, ToTell, ToCount, GiftBounds
<1>8. Telling /\ OnItsWay
  BY <1>1, <1>2, <1>5, <1>7 DEF G!Init, Telling, OnItsWay
<1>9. Taken
  <2>1. cash = Cash /\ bonus = Bonus /\ topUps = 0 /\ GivenBy(rows) = 0
    BY <1>1, <1>5 DEF G!Init
  <2>2. Cash \in Nat /\ Bonus \in Nat /\ Top \in Nat
    BY DEF GiftBounds
  <2>3. Top * 0 = 0
    BY <2>2
  <2>4. QED BY <1>2, <2>1, <2>2, <2>3 DEF Taken
<1>10. QED BY <1>4, <1>8, <1>9 DEF GiftInv

LEMMA GiftInvariance == ASSUME GiftBounds PROVE G!Spec => []GiftInv
<1>1. GiftInv /\ [G!Next]_(G!gvars) => GiftInv'
  BY GiftTypesNext, TellingNext, WayNext, TakenNext DEF GiftInv, OneGiver
<1>2. G!Init => GiftInv
  BY GiftInit
<1>3. QED BY <1>1, <1>2, PTL DEF G!Spec

\* sendGift: one request at a time, the wallet has lost exactly the gifts that
\* have a row, of its bonus before its cash, whatever fails and is recharged.
THEOREM GiftIsTaken == ASSUME GiftBounds PROVE G!Spec => []G!GiftsAreTaken
<1>1. ASSUME GiftInv PROVE G!GiftsAreTaken
  <2> SUFFICES ASSUME G!OneAtATime
               PROVE  /\ cash + bonus + G!Given = Cash + Bonus + Top * topUps
                      /\ bonus = IF G!Given >= Bonus THEN 0 ELSE Bonus - G!Given
    BY DEF G!GiftsAreTaken
  <2>1. Cardinality(Slots) = 1
    <3>1. DOMAIN work = Slots
      BY <1>1 DEF GiftInv, GiftTypes
    <3>2. QED BY <3>1, GiftCount DEF G!OneAtATime
  <2>2. PICK r : Slots = {r}
    BY <2>1, FS_Singleton DEF GiftBounds
  <2>3. Taken
    BY <1>1, <2>2 DEF GiftInv, OneGiver
  <2>4. QED BY <1>1, <2>3, GivenSum DEF Taken, GiftInv, GiftTypes, G!Given
<1>2. QED BY <1>1, GiftInvariance, PTL

\* sendGift: however gifts overlap, the astrologer has earned the net amount
\* of every row and the stream counts those that were given on it, when all
\* requests have ended and none failed.
THEOREM GiftIsCounted == ASSUME GiftBounds PROVE G!Spec => []G!GiftsAreCounted
<1>1. ASSUME GiftInv PROVE G!GiftsAreCounted
  <2> SUFFICES ASSUME G!Quiet, failures = 0
               PROVE  /\ earned = G!MapThenSumSet(LAMBDA x : x.net, rows)
                      /\ gifts = G!Cardinality(Streamed)
                      /\ revenue = G!MapThenSumSet(LAMBDA x : x.amount, Streamed)
    BY DEF G!GiftsAreCounted, Streamed
  <2>1. IsFiniteSet(rows) /\ IsFiniteSet(Streamed)
    BY <1>1, FS_Subset DEF GiftInv, GiftTypes, Streamed
  <2>2. \A r \in Slots : Unearned(work[r]) = 0 /\ Untold(work[r]) = 0 /\ Uncounted(work[r]) = 0
    BY DEF G!Quiet, G!At, Unearned, Untold, Uncounted, ToStream
  <2>3. ToEarn = 0 /\ ToTell = 0 /\ ToCount = 0
    BY <2>2, SumZero DEF ToEarn, ToTell, ToCount, GiftBounds
  <2>4. earned = NetBy(rows) /\ gifts = Cardinality(Streamed) /\ revenue = GivenBy(Streamed)
    <3>1. earned \in Int /\ gifts \in Int /\ revenue \in Int
      BY <1>1 DEF GiftInv, GiftTypes
    <3>2. earned + 0 = NetBy(rows) /\ gifts + 0 = Cardinality(Streamed) /\ revenue + 0 = GivenBy(Streamed)
      BY <1>1, <2>3 DEF GiftInv, OnItsWay
    <3>3. QED BY <3>1, <3>2
  <2>5. QED BY <2>1, <2>4, GivenSum, NetSum, GiftCount
<1>2. QED BY <1>1, GiftInvariance, PTL

----------------
(* Fourth part: an astrologer's document in Profile.                       *)

CONSTANTS Astrologers, Places, MaxCredits
VARIABLES enabled, online, available, rate, credited, overlapped, place

Prof == INSTANCE Profile

\* What a commission rate is saved with is what was credited, until a bill
\* comes between.
EarningsCurrent ==
  /\ DOMAIN work = Slots /\ overlapped \in BOOLEAN
  /\ overlapped = FALSE =>
       earned = credited /\ \A r \in Slots : work[r].pc = "rate" => work[r].earned = credited

\* One request after another: a place that is about to be taken is free.
OneClerk == \A q, r \in Slots : q = r
PlacesFree ==
  /\ place \in [Astrologers -> Places \cup {0}] /\ DOMAIN work = Slots
  /\ \A r \in Slots : work[r].pc = "place" => work[r].a \in Astrologers /\ work[r].n \in Places \cup {0}
  /\ OneClerk =>
       /\ \A a, b \in Astrologers : a # b /\ place[a] = place[b] => place[a] = 0
       /\ \A r \in Slots : work[r].pc = "place" /\ work[r].n # 0 =>
            \A b \in Astrologers \ {work[r].a} : place[b] # work[r].n

\* What the steps of a clerk leave in a slot.
LEMMA ClerkSlots ==
  ASSUME DOMAIN work = Slots, NEW r \in Slots
  PROVE  /\ \A h : Prof!Begin(r, h) => DOMAIN work' = Slots /\ work[r].pc = "idle" /\ work'[r] = h
                                       /\ \A q \in Slots : q # r => work'[q] = work[q]
         /\ Prof!Finish(r) => DOMAIN work' = Slots /\ work'[r].pc = "idle"
                              /\ \A q \in Slots : q # r => work'[q] = work[q]
<1>1. \A h : [work EXCEPT ![r] = h][r] = h /\ DOMAIN [work EXCEPT ![r] = h] = Slots
             /\ \A q \in Slots : q # r => [work EXCEPT ![r] = h][q] = work[q]
  OBVIOUS
<1>2. QED BY <1>1 DEF Prof!Begin, Prof!Finish, Prof!At, Prof!Idle

\* The requests that touch neither the earnings nor the places.
LEMMA ClerkOthers ==
  ASSUME DOMAIN work = Slots, NEW r \in Slots, Prof!AstrologerRequests(r) \/ Prof!SaveAvailable(r)
                                 \/ \E s \in Prof!Services, on \in BOOLEAN : Prof!ToggleFeatures(s, on)
  PROVE  /\ earned' = earned /\ credited' = credited /\ overlapped' = overlapped /\ place' = place
         /\ DOMAIN work' = Slots
         /\ \A q \in Slots : work'[q] = work[q] \/ work'[q].pc \in {"idle", "available"}
<1>1. CASE Prof!BecomeAvailable(r)
  <2>1. PICK h : h = [pc |-> "available"]
    OBVIOUS
  <2>2. Prof!Begin(r, h) /\ h.pc = "available"
    BY <1>1, <2>1 DEF Prof!BecomeAvailable
  <2>3. QED BY <1>1, <2>2, ClerkSlots DEF Prof!BecomeAvailable
<1>2. CASE Prof!SaveAvailable(r)
  BY <1>2, ClerkSlots DEF Prof!SaveAvailable
<1>3. CASE ~Prof!BecomeAvailable(r) /\ ~Prof!SaveAvailable(r)
  <2>1. earned' = earned /\ credited' = credited /\ overlapped' = overlapped /\ place' = place /\ work' = work
    BY <1>3 DEF Prof!AstrologerRequests, Prof!UpdatePricing, Prof!BecomeUnavailable, Prof!ToggleOnlineStatus,
                Prof!UpdateProfile, Prof!UpdateAvailability, Prof!ToggleFeatures
  <2>2. QED BY <2>1
<1>4. QED BY <1>1, <1>2, <1>3

\* What a credit, a rate or a place does.
LEMMA ClerkSteps ==
  ASSUME Prof!Next
  PROVE  \/ Prof!CreditEarnings
         \/ \E r \in Slots :
              \/ Prof!AstrologerRequests(r) \/ Prof!SaveAvailable(r)
                 \/ \E s \in Prof!Services, on \in BOOLEAN : Prof!ToggleFeatures(s, on)
              \/ \E new \in Prof!Rates : Prof!UpdateCommissionRate(r, new)
              \/ \E a \in Astrologers, n \in Places \cup {0} : Prof!UpdateDisplayOrder(r, a, n)
              \/ Prof!SaveRate(r) \/ Prof!SavePlace(r)
BY DEF Prof!Next, Prof!AdminRequests

LEMMA EarningsNext == EarningsCurrent /\ [Prof!Next]_(Prof!pvars) => EarningsCurrent'
<1> SUFFICES ASSUME EarningsCurrent, [Prof!Next]_(Prof!pvars) PROVE EarningsCurrent'
  OBVIOUS
<1>0. DOMAIN work = Slots
  BY DEF EarningsCurrent
<1>1. CASE UNCHANGED Prof!pvars
  BY <1>1 DEF Prof!pvars, EarningsCurrent
<1>2. CASE Prof!CreditEarnings
  <2>1. work' = work /\ earned' = earned + 1 /\ credited' = credited + 1
    BY <1>2 DEF Prof!CreditEarnings
  <2>2. overlapped' \in BOOLEAN
    BY <1>2 DEF Prof!CreditEarnings
  <2>3. overlapped' = FALSE => overlapped = FALSE /\ \A r \in Slots : work[r].pc # "rate"
    BY <1>2 DEF Prof!CreditEarnings, Prof!At, EarningsCurrent
  <2>4. ASSUME overlapped' = FALSE
        PROVE  earned' = credited' /\ \A r \in Slots : work'[r].pc = "rate" => work'[r].earned = credited'
    <3>1. earned = credited /\ \A r \in Slots : work'[r].pc # "rate"
      BY <2>1, <2>3, <2>4 DEF EarningsCurrent
    <3>2. QED BY <2>1, <3>1
  <2>5. QED BY <1>0, <2>1, <2>2, <2>4 DEF EarningsCurrent
<1>3. ASSUME NEW r \in Slots, Prof!AstrologerRequests(r) \/ Prof!SaveAvailable(r)
                                \/ \E s \in Prof!Services, on \in BOOLEAN : Prof!ToggleFeatures(s, on)
      PROVE  EarningsCurrent'
  <2>1. /\ earned' = earned /\ credited' = credited /\ overlapped' = overlapped /\ DOMAIN work' = Slots
        /\ \A q \in Slots : work'[q] = work[q] \/ work'[q].pc # "rate"
    BY <1>0, <1>3, ClerkOthers
  <2>2. QED BY <2>1 DEF EarningsCurrent
<1>4. ASSUME NEW r \in Slots, NEW new \in Prof!Rates, Prof!UpdateCommissionRate(r, new) PROVE EarningsCurrent'
  <2>1. PICK h : h = [pc |-> "rate", earned |-> earned, rate |-> new]
    OBVIOUS
  <2>2. Prof!Begin(r, h) /\ h.earned = earned
    BY <1>4, <2>1 DEF Prof!UpdateCommissionRate
  <2>3. /\ DOMAIN work' = Slots /\ work'[r] = h /\ \A q \in Slots : q # r => work'[q] = work[q]
        /\ earned' = earned /\ credited' = credited /\ overlapped' = overlapped
    BY <1>0, <1>4, <2>2, ClerkSlots DEF Prof!UpdateCommissionRate
  <2>4. QED BY <2>2, <2>3 DEF EarningsCurrent
<1>5. ASSUME NEW r \in Slots, NEW a \in Astrologers, NEW n \in Places \cup {0}, Prof!UpdateDisplayOrder(r, a, n)
      PROVE EarningsCurrent'
  <2>1. PICK h : h = [pc |-> "place", a |-> a, n |-> n]
    OBVIOUS
  <2>2. Prof!Begin(r, h) /\ h.pc = "place"
    BY <1>5, <2>1 DEF Prof!UpdateDisplayOrder
  <2>3. /\ DOMAIN work' = Slots /\ work'[r] = h /\ \A q \in Slots : q # r => work'[q] = work[q]
        /\ earned' = earned /\ credited' = credited /\ overlapped' = overlapped
    BY <1>0, <1>5, <2>2, ClerkSlots DEF Prof!UpdateDisplayOrder
  <2>4. QED BY <2>2, <2>3 DEF EarningsCurrent
<1>6. ASSUME NEW r \in Slots, Prof!SaveRate(r) PROVE EarningsCurrent'
  <2>1. /\ DOMAIN work' = Slots /\ work'[r].pc = "idle" /\ \A q \in Slots : q # r => work'[q] = work[q]
        /\ earned' = work[r].earned /\ credited' = credited /\ overlapped' = overlapped /\ work[r].pc = "rate"
    BY <1>0, <1>6, ClerkSlots DEF Prof!SaveRate, Prof!At
  <2>2. QED BY <2>1 DEF EarningsCurrent
<1>7. ASSUME NEW r \in Slots, Prof!SavePlace(r) PROVE EarningsCurrent'
  <2>1. /\ DOMAIN work' = Slots /\ work'[r].pc = "idle" /\ \A q \in Slots : q # r => work'[q] = work[q]
        /\ earned' = earned /\ credited' = credited /\ overlapped' = overlapped
    BY <1>0, <1>7, ClerkSlots DEF Prof!SavePlace
  <2>2. QED BY <2>1 DEF EarningsCurrent
<1>8. QED BY <1>1, <1>2, <1>3, <1>4, <1>5, <1>6, <1>7, ClerkSteps

\* updateCommissionRate saves the earnings it read: until a bill comes between
\* the two, what settled bills have credited is in the earnings.
THEOREM ProfileEarningsKept == Prof!Spec => []Prof!EarningsKept
<1>1. Prof!Init => EarningsCurrent
  <2> SUFFICES ASSUME Prof!Init PROVE EarningsCurrent
    OBVIOUS
  <2>1. DOMAIN work = Slots /\ \A r \in Slots : work[r].pc = "idle"
    BY DEF Prof!Init, Prof!NoHandler, Prof!Idle
  <2>2. overlapped = FALSE /\ earned = credited
    BY DEF Prof!Init
  <2>3. QED BY <2>1, <2>2 DEF EarningsCurrent
<1>2. EarningsCurrent => Prof!EarningsKept
  BY DEF EarningsCurrent, Prof!EarningsKept
<1>3. QED BY <1>1, <1>2, EarningsNext, PTL DEF Prof!Spec

LEMMA PlacesNext == PlacesFree /\ [Prof!Next]_(Prof!pvars) => PlacesFree'
<1> SUFFICES ASSUME PlacesFree, [Prof!Next]_(Prof!pvars) PROVE PlacesFree'
  OBVIOUS
<1>0. DOMAIN work = Slots
  BY DEF PlacesFree
<1>1. ASSUME place' = place, DOMAIN work' = Slots,
             \A q \in Slots : work'[q] = work[q] \/ work'[q].pc # "place"
      PROVE  PlacesFree'
  BY <1>1 DEF PlacesFree, OneClerk
<1>2. Prof!CreditEarnings \/ UNCHANGED Prof!pvars => place' = place /\ work' = work
  BY DEF Prof!CreditEarnings, Prof!pvars
<1>3. ASSUME NEW r \in Slots, Prof!AstrologerRequests(r) \/ Prof!SaveAvailable(r)
                                \/ \E s \in Prof!Services, on \in BOOLEAN : Prof!ToggleFeatures(s, on)
      PROVE  PlacesFree'
  <2>1. /\ place' = place /\ DOMAIN work' = Slots
        /\ \A q \in Slots : work'[q] = work[q] \/ work'[q].pc # "place"
    BY <1>0, <1>3, ClerkOthers
  <2>2. QED BY <1>1, <2>1
<1>4. ASSUME NEW r \in Slots, NEW new \in Prof!Rates, Prof!UpdateCommissionRate(r, new) PROVE PlacesFree'
  <2>1. PICK h : h = [pc |-> "rate", earned |-> earned, rate |-> new]
    OBVIOUS
  <2>2. Prof!Begin(r, h) /\ h.pc = "rate"
    BY <1>4, <2>1 DEF Prof!UpdateCommissionRate
  <2>3. QED BY <1>0, <1>1, <1>4, <2>2, ClerkSlots DEF Prof!UpdateCommissionRate
<1>5. ASSUME NEW r \in Slots, NEW a \in Astrologers, NEW n \in Places \cup {0}, Prof!UpdateDisplayOrder(r, a, n)
      PROVE PlacesFree'
  <2>1. PICK h : h = [pc |-> "place", a |-> a, n |-> n]
    OBVIOUS
  <2>2. Prof!Begin(r, h) /\ h.a = a /\ h.n = n /\ place' = place
    BY <1>5, <2>1 DEF Prof!UpdateDisplayOrder
  <2>3. /\ DOMAIN work' = Slots /\ work'[r] = h /\ \A q \in Slots : q # r => work'[q] = work[q]
    BY <1>0, <2>2, ClerkSlots
  <2>4. n # 0 => \A b \in Astrologers \ {a} : place[b] # n
    BY <1>5 DEF Prof!UpdateDisplayOrder, Prof!Occupied
  <2>5. QED BY <2>2, <2>3, <2>4 DEF PlacesFree, OneClerk
<1>6. ASSUME NEW r \in Slots, Prof!SaveRate(r) PROVE PlacesFree'
  <2>1. /\ place' = place /\ DOMAIN work' = Slots
        /\ \A q \in Slots : work'[q] = work[q] \/ work'[q].pc # "place"
    BY <1>0, <1>6, ClerkSlots DEF Prof!SaveRate
  <2>2. QED BY <1>1, <2>1
<1>7. ASSUME NEW r \in Slots, Prof!SavePlace(r) PROVE PlacesFree'
  <2>1. /\ DOMAIN work' = Slots /\ work'[r].pc = "idle" /\ \A q \in Slots : q # r => work'[q] = work[q]
    BY <1>0, <1>7, ClerkSlots DEF Prof!SavePlace
  <2>2. PICK a, n : a = work[r].a /\ n = work[r].n
    OBVIOUS
  <2>3. place' = [place EXCEPT ![a] = n] /\ work[r].pc = "place" /\ a \in Astrologers /\ n \in Places \cup {0}
    BY <1>7, <2>2 DEF Prof!SavePlace, Prof!At, PlacesFree
  <2>4. place' \in [Astrologers -> Places \cup {0}]
    BY <2>3 DEF PlacesFree
  <2>5. OneClerk => \A b, c \in Astrologers : b # c /\ place'[b] = place'[c] => place'[b] = 0
    BY <2>2, <2>3 DEF PlacesFree
  <2>6. OneClerk => \A q \in Slots : work'[q].pc = "idle"
    BY <2>1 DEF OneClerk
  <2>7. QED BY <2>1, <2>4, <2>5, <2>6 DEF PlacesFree, OneClerk
<1>8. QED BY <1>1, <1>2, <1>3, <1>4, <1>5, <1>6, <1>7, <1>0, ClerkSteps

\* updateDisplayOrder: one request at a time, no two astrologers hold one place
\* of the listing.
THEOREM ProfilePlacesDistinct == ASSUME IsFiniteSet(Slots) PROVE Prof!Spec => []Prof!PlacesDistinct
<1>1. Prof!Init => PlacesFree
  BY DEF Prof!Init, Prof!NoHandler, Prof!Idle, PlacesFree
<1>2. ASSUME PlacesFree PROVE Prof!PlacesDistinct
  <2> SUFFICES ASSUME Prof!OneAtATime
               PROVE  \A a, b \in Astrologers : a # b /\ place[a] = place[b] => place[a] = 0
    BY DEF Prof!PlacesDistinct
  <2>1. Cardinality(Slots) = 1
    BY <1>2 DEF PlacesFree, Prof!OneAtATime, Prof!Cardinality, Cardinality
  <2>2. PICK r : Slots = {r}
    BY <2>1, FS_Singleton
  <2>3. OneClerk
    BY <2>2 DEF OneClerk
  <2>4. QED BY <1>2, <2>3 DEF PlacesFree
<1>3. QED BY <1>1, <1>2, PlacesNext, PTL DEF Prof!Spec

----------------
(* Fifth part: codes, and the life of an account, in Login.                *)

CONSTANTS Role, MaxAccounts, MaxSends, MaxTime, MaxDeletions
VARIABLES code, timers, requests, now, sent, account, deletions, entries, served, kept

L == INSTANCE Login

LoginBounds == MaxSends \in Nat /\ MaxTime \in Nat

Codes == [id : Nat, tries : Nat, expires : Nat]
Tallies == [ok : Nat, wrong : Nat, alone : BOOLEAN]

CodeTypes ==
  /\ code \in Codes /\ timers \subseteq Nat /\ now \in Nat /\ sent \in Nat /\ sent <= MaxSends
  /\ entries \in [1..MaxSends -> Tallies] /\ failures \in Nat
\* The code that is stored is one that was sent, and counts the wrong entries.
Stored ==
  /\ code.id = 0 => code = L!NoCode
  /\ code.id # 0 =>
                 /\ code.id <= sent /\ code.tries <= 3
                 /\ entries[code.id].ok = 0 /\ entries[code.id].wrong = code.tries
\* No timer is late; that of a code sent while none ran is the only one.
Timed ==
  /\ \A t \in timers : now <= t
  /\ sent > 0 /\ entries[sent].alone = TRUE /\ code.id = sent => timers \subseteq {code.expires}
Tallied ==
  \A c \in 1..MaxSends : /\ entries[c].ok <= 1 /\ entries[c].wrong <= 3
                         /\ c > sent => entries[c].ok = 0 /\ entries[c].wrong = 0
Lasting ==
  sent > 0 /\ entries[sent].alone = TRUE /\ timers # {} /\ failures = 0 /\ entries[sent].ok = 0 /\ entries[sent].wrong < 3
    => code.id = sent

CodeInv == CodeTypes /\ Stored /\ Timed /\ Tallied /\ Lasting

LEMMA CodeOf ==
  ASSUME LoginBounds, CodeTypes
  PROVE  /\ code.id \in Nat /\ code.tries \in Nat /\ code.expires \in Nat
         /\ code = L!NoCode => code.id = 0
         /\ L!NoCode \in Codes /\ L!NoCode.id = 0
         /\ sent \in 0..MaxSends
         /\ \A c \in 1..MaxSends : entries[c].ok \in Nat /\ entries[c].wrong \in Nat /\ entries[c].alone \in BOOLEAN
<1>1. code.id \in Nat /\ code.tries \in Nat /\ code.expires \in Nat
  BY DEF CodeTypes, Codes
<1>2. L!NoCode \in Codes /\ L!NoCode.id = 0
  BY DEF L!NoCode, Codes
<1>3. \A c \in 1..MaxSends : entries[c].ok \in Nat /\ entries[c].wrong \in Nat /\ entries[c].alone \in BOOLEAN
  BY DEF CodeTypes, Tallies
<1>4. sent \in 0..MaxSends
  BY DEF CodeTypes, LoginBounds
<1> QED BY <1>1, <1>2, <1>3, <1>4

LEMMA StoredWasSent ==
  ASSUME LoginBounds, CodeInv, code.id # 0
  PROVE  /\ code.id \in 1..MaxSends /\ code.id \in Nat /\ sent \in Nat /\ code.id <= sent
         /\ entries[code.id] \in Tallies /\ entries[code.id].wrong = code.tries /\ entries[code.id].ok = 0
<1>1. code.id \in Nat /\ sent \in Nat /\ sent <= MaxSends /\ MaxSends \in Nat /\ code.id <= sent
      /\ entries[code.id].ok = 0 /\ entries[code.id].wrong = code.tries
  BY CodeOf DEF CodeInv, CodeTypes, Stored, LoginBounds
<1>2. code.id \in 1..MaxSends
  BY <1>1
<1>3. entries[code.id] \in Tallies
  BY <1>2 DEF CodeInv, CodeTypes
<1> QED BY <1>1, <1>2, <1>3

\* A step that changes neither what was sent nor what was entered.
LEMMA CodeForgotten ==
  ASSUME LoginBounds, CodeInv, sent' = sent, entries' = entries, failures' \in Nat, failures' = 0 => failures = 0,
         code' = code \/ code' = L!NoCode, timers' \subseteq timers, now' \in Nat, \A t \in timers' : now' <= t,
         code' = L!NoCode /\ sent > 0 /\ entries[sent].alone = TRUE /\ timers' # {} /\ failures' = 0
           /\ entries[sent].ok = 0 /\ entries[sent].wrong < 3 => code.id # sent
  PROVE  CodeInv'
<1>1. code' \in Codes /\ (code' = code \/ code'.id = 0)
  BY CodeOf DEF CodeInv, CodeTypes
<1>2. CodeTypes'
  BY <1>1 DEF CodeInv, CodeTypes
<1>3. Stored'
  BY <1>1 DEF CodeInv, Stored
<1>4. Timed'
  <2>1. ASSUME sent' > 0, entries'[sent'].alone = TRUE, code'.id = sent' PROVE timers' \subseteq {code'.expires}
    <3>1. code'.id # 0
      BY <2>1
    <3>2. code' = code
      BY <1>1, <3>1
    <3> QED BY <2>1, <3>2 DEF CodeInv, Timed
  <2> QED BY <2>1 DEF Timed
<1>5. Tallied'
  BY DEF CodeInv, Tallied
<1>6. Lasting'
  <2> SUFFICES ASSUME sent > 0, entries[sent].alone = TRUE, timers' # {}, failures' = 0, entries[sent].ok = 0,
                      entries[sent].wrong < 3
               PROVE  code'.id = sent
    BY DEF Lasting
  <2>1. code.id = sent
    BY DEF CodeInv, Lasting
  <2>2. code' # L!NoCode
    BY <2>1
  <2> QED BY <2>1, <2>2
<1> QED BY <1>2, <1>3, <1>4, <1>5, <1>6 DEF CodeInv

LEMMA CodeSent == ASSUME LoginBounds, CodeInv, L!SendOtp PROVE CodeInv'
<1>1. /\ sent' = sent + 1 /\ sent < MaxSends /\ timers' = timers \cup {now + 2} /\ now' = now /\ failures' = failures
      /\ code' = [id |-> sent + 1, tries |-> 0, expires |-> now + 2]
      /\ entries' = [entries EXCEPT ![sent + 1].alone = timers = {}]
  BY DEF L!SendOtp
<1>2. sent \in Nat /\ now \in Nat /\ sent + 1 \in 1..MaxSends /\ sent + 1 \in Nat /\ now + 2 \in Nat
  BY <1>1 DEF CodeInv, CodeTypes, LoginBounds
<1>3. code' \in Codes /\ code'.id = sent + 1 /\ code'.tries = 0 /\ code'.expires = now + 2
  BY <1>1, <1>2, Zenon DEF Codes
<1>4. PICK n : n = sent + 1
  OBVIOUS
<1> DEFINE e == [entries[n] EXCEPT !.alone = timers = {}]
<1>5. entries[n] \in Tallies /\ n \in 1..MaxSends
  BY <1>2, <1>4 DEF CodeInv, CodeTypes
<1>6. e \in Tallies /\ e.ok = entries[n].ok /\ e.wrong = entries[n].wrong /\ e.alone = (timers = {})
  BY <1>5, Zenon DEF Tallies
<1>7. entries' = [entries EXCEPT ![n] = e]
  BY <1>1, <1>4, Zenon
<1> HIDE DEF e
<1>8. entries' \in [1..MaxSends -> Tallies] /\ entries'[n] = e /\ \A c \in 1..MaxSends : c # n => entries'[c] = entries[c]
  BY <1>5, <1>6, <1>7 DEF CodeInv, CodeTypes
<1>9. entries[n].ok = 0 /\ entries[n].wrong = 0
  BY <1>2, <1>4, <1>5 DEF CodeInv, Tallied
<1>10. CodeTypes'
  BY <1>1, <1>2, <1>3, <1>8 DEF CodeInv, CodeTypes
<1>11. Stored'
  BY <1>1, <1>2, <1>3, <1>4, <1>6, <1>8, <1>9 DEF Stored
<1>12. Timed'
  <2>1. \A t \in timers' : now' <= t
    BY <1>1, <1>2 DEF CodeInv, Timed
  <2>2. entries'[n].alone = TRUE => timers' \subseteq {now + 2}
    BY <1>1, <1>6, <1>8
  <2> QED BY <2>1, <2>2, <1>1, <1>3, <1>4 DEF Timed
<1>13. Tallied'
  <2> SUFFICES ASSUME NEW c \in 1..MaxSends
               PROVE  /\ entries'[c].ok <= 1 /\ entries'[c].wrong <= 3
                      /\ c > n => entries'[c].ok = 0 /\ entries'[c].wrong = 0
    BY <1>1, <1>4 DEF Tallied
  <2>1. CASE c = n
    BY <2>1, <1>2, <1>4, <1>6, <1>8, <1>9
  <2>2. CASE c # n
    <3>1. entries'[c] = entries[c]
      BY <2>2, <1>8
    <3> QED BY <3>1, <1>2, <1>4 DEF CodeInv, Tallied
  <2> QED BY <2>1, <2>2
<1>14. Lasting'
  BY <1>1, <1>3 DEF Lasting
<1> QED BY <1>10, <1>11, <1>12, <1>13, <1>14 DEF CodeInv

\* An entry of the code that is stored.
LEMMA CodeEntered ==
  ASSUME LoginBounds, CodeInv, code.id # 0, NEW e \in Tallies, e.alone = entries[code.id].alone,
         entries' = [entries EXCEPT ![code.id] = e], UNCHANGED <<sent, failures, timers, now>>, code' \in Codes,
         \/ code' = L!NoCode /\ e.ok = 1 /\ e.wrong = code.tries
         \/ /\ code'.id = code.id /\ code'.expires = code.expires /\ code'.tries <= 3
            /\ e.ok = 0 /\ e.wrong = code'.tries
  PROVE  CodeInv'
<1>1. PICK n : n = code.id
  OBVIOUS
<1>2. n \in 1..MaxSends /\ n \in Nat /\ sent \in Nat /\ n <= sent
  BY <1>1, StoredWasSent
<1>21. code'.id = 0 => code' = L!NoCode
  BY <1>1, <1>2
<1>22. L!NoCode.id = 0
  BY CodeOf DEF CodeInv
<1>3. entries' \in [1..MaxSends -> Tallies] /\ entries'[n] = e /\ \A c \in 1..MaxSends : c # n => entries'[c] = entries[c]
  BY <1>1, <1>2 DEF CodeInv, CodeTypes
<1>4. CodeTypes'
  BY <1>3 DEF CodeInv, CodeTypes
<1>5. Stored'
  BY <1>1, <1>2, <1>21, <1>22, <1>3 DEF Stored
<1>6. \A c \in 1..MaxSends : entries'[c].alone = entries[c].alone
  BY <1>1, <1>3
<1>7. sent > 0 => sent \in 1..MaxSends
  BY CodeOf DEF CodeInv
<1>8. Timed'
  <2>1. ASSUME sent > 0, entries'[sent].alone = TRUE, code'.id = sent PROVE timers \subseteq {code'.expires}
    <3>1. code'.id # 0
      BY <2>1
    <3>2. code'.id = code.id /\ code'.expires = code.expires
      BY <3>1, <1>22
    <3>3. entries[sent].alone = TRUE
      BY <2>1, <1>6, <1>7
    <3> QED BY <2>1, <3>2, <3>3 DEF CodeInv, Timed
  <2> QED BY <2>1 DEF CodeInv, Timed
<1>9. Tallied'
  <2>1. e.ok <= 1 /\ e.wrong <= 3
    BY CodeOf DEF CodeInv, Stored
  <2>2. ~(n > sent)
    BY <1>2
  <2> QED BY <2>1, <2>2, <1>3 DEF CodeInv, Tallied
<1>10. Lasting'
  <2> SUFFICES ASSUME sent > 0, entries'[sent].alone = TRUE, timers # {}, failures = 0, entries'[sent].ok = 0,
                      entries'[sent].wrong < 3
               PROVE  code'.id = sent
    BY DEF Lasting
  <2>1. CASE n = sent
    BY <2>1, <1>1, <1>3
  <2>2. CASE n # sent
    <3>1. entries'[sent] = entries[sent]
      BY <2>2, <1>3, <1>7
    <3>2. code.id = sent
      BY <3>1 DEF CodeInv, Lasting
    <3> QED BY <2>2, <3>2, <1>1
  <2> QED BY <2>1, <2>2
<1> QED BY <1>4, <1>5, <1>8, <1>9, <1>10 DEF CodeInv

LEMMA CodeWrong == ASSUME LoginBounds, CodeInv, L!EnterWrong PROVE CodeInv'
<1>0. UNCHANGED <<sent, failures, timers, now>> /\ code.id \in Nat /\ code.tries \in Nat /\ code.expires \in Nat
  BY CodeOf DEF L!EnterWrong, CodeInv
<1>1. CASE now > code.expires \/ code.tries >= 3
  <2>1. code' = L!NoCode /\ entries' = entries
    BY <1>1 DEF L!EnterWrong
  <2>2. ASSUME sent > 0, entries[sent].alone = TRUE, timers # {}, entries[sent].ok = 0, entries[sent].wrong < 3,
               code.id = sent
        PROVE  FALSE
    <3>1. PICK t \in timers : t = code.expires /\ now <= t
      BY <2>2 DEF CodeInv, Timed
    <3>2. code.tries < 3
      BY <2>2, <1>0 DEF CodeInv, Stored
    <3>3. now \in Nat
      BY DEF CodeInv, CodeTypes
    <3> QED BY <1>0, <1>1, <3>1, <3>2, <3>3
  <2>3. now' \in Nat /\ \A t \in timers' : now' <= t
    BY <1>0 DEF CodeInv, CodeTypes, Timed
  <2>4. failures' \in Nat
    BY <1>0 DEF CodeInv, CodeTypes
  <2> QED BY <1>0, <2>1, <2>2, <2>3, <2>4, CodeForgotten
<1>2. CASE ~(now > code.expires \/ code.tries >= 3)
  <2>1. /\ code' = [code EXCEPT !.tries = @ + 1] /\ code.tries < 3 /\ code # L!NoCode
        /\ entries' = [entries EXCEPT ![code.id].wrong = @ + 1]
    BY <1>0, <1>2 DEF L!EnterWrong, L!Wrong
  <2>2. code.id # 0
    BY <2>1 DEF CodeInv, Stored
  <2> DEFINE e == [entries[code.id] EXCEPT !.wrong = @ + 1]
             d == [code EXCEPT !.tries = @ + 1]
  <2>3. entries[code.id] \in Tallies /\ entries[code.id].wrong = code.tries /\ entries[code.id].ok = 0 /\ code \in Codes
    BY <2>2, StoredWasSent DEF CodeInv, CodeTypes
  <2>4. code.tries + 1 \in Nat /\ code.tries + 1 <= 3
    BY <1>0, <2>1
  <2>5. entries[code.id].wrong + 1 \in Nat
    BY <2>3, <2>4
  <2>6. e \in Tallies /\ e.ok = 0 /\ e.wrong = code.tries + 1 /\ e.alone = entries[code.id].alone
    BY <2>3, <2>5, Zenon DEF Tallies
  <2>7. d \in Codes /\ d.id = code.id /\ d.expires = code.expires /\ d.tries = code.tries + 1
    BY <2>3, <2>4, Zenon DEF Codes
  <2>8. entries' = [entries EXCEPT ![code.id] = e] /\ code' = d
    BY <2>1, Zenon
  <2> HIDE DEF e, d
  <2> QED BY <1>0, <2>2, <2>4, <2>6, <2>7, <2>8, CodeEntered
<1> QED BY <1>1, <1>2

LEMMA CodeRight == ASSUME LoginBounds, CodeInv, NEW r \in Slots, L!EnterCode(r) PROVE CodeInv'
<1>0. UNCHANGED <<sent, failures, timers, now>> /\ code' = L!NoCode /\ code # L!NoCode
  BY DEF L!EnterCode
<1>1. entries' = [entries EXCEPT ![code.id].ok = @ + 1]
  BY DEF L!EnterCode
<1>2. code.id # 0
  BY <1>0 DEF CodeInv, Stored
<1> DEFINE e == [entries[code.id] EXCEPT !.ok = @ + 1]
<1>3. entries[code.id] \in Tallies /\ entries[code.id].wrong = code.tries /\ entries[code.id].ok = 0
  BY <1>2, StoredWasSent
<1>4. 0 + 1 \in Nat /\ 0 + 1 = 1
  OBVIOUS
<1>5. e \in Tallies /\ e.ok = 0 + 1 /\ e.wrong = code.tries /\ e.alone = entries[code.id].alone
  BY <1>3, <1>4, Zenon DEF Tallies
<1>6. entries' = [entries EXCEPT ![code.id] = e]
  BY <1>1, Zenon
<1> HIDE DEF e
<1>7. code' \in Codes
  BY <1>0, CodeOf DEF CodeInv
<1> QED BY <1>0, <1>2, <1>4, <1>5, <1>6, <1>7, CodeEntered

\* What touches neither the code nor its timers.
Untimed == UNCHANGED <<code, timers, now, sent, entries, failures>>
LEMMA CodeApart ==
  ASSUME NEW r \in Slots,
         \/ L!Truecaller(r) \/ L!AdminRequests(r) \/ L!Lookup(r) \/ L!Create(r) \/ L!Activate(r) \/ L!FindDue(r)
         \/ \E i \in L!Accounts : L!DeleteAccount(r, i) \/ L!Erase(r, i)
  PROVE  Untimed
<1>1. CASE L!AdminRequests(r)
  <2>1. PICK i \in L!Accounts : \/ L!DeleteUser(r, i) \/ L!DeleteAstrologer(r, i) \/ L!RestoreUser(r, i)
                                \/ \E st \in L!Statuses : L!SetStatus(r, i, st)
    BY <1>1 DEF L!AdminRequests
  <2>2. CASE L!DeleteUser(r, i) \/ L!DeleteAstrologer(r, i)
    BY <2>2 DEF L!DeleteUser, L!DeleteAstrologer, L!Deletion, Untimed
  <2>3. CASE L!RestoreUser(r, i) \/ \E st \in L!Statuses : L!SetStatus(r, i, st)
    BY <2>3 DEF L!RestoreUser, L!SetStatus, Untimed
  <2> QED BY <2>1, <2>2, <2>3
<1>2. CASE \E i \in L!Accounts : L!DeleteAccount(r, i)
  BY <1>2 DEF L!DeleteAccount, L!Deletion, Untimed
<1>3. CASE \/ L!Truecaller(r) \/ L!Lookup(r) \/ L!Create(r) \/ L!Activate(r) \/ L!FindDue(r)
          \/ \E i \in L!Accounts : L!Erase(r, i)
  BY <1>3 DEF L!Truecaller, L!Lookup, L!Create, L!Activate, L!FindDue, L!Erase, Untimed
<1> QED BY <1>1, <1>2, <1>3

LEMMA CodeInit == ASSUME LoginBounds PROVE L!Init => CodeInv
<1> SUFFICES ASSUME L!Init PROVE CodeInv
  OBVIOUS
<1>1. /\ code = L!NoCode /\ timers = {} /\ now = 0 /\ sent = 0 /\ failures = 0
      /\ entries = [c \in 1..MaxSends |-> [ok |-> 0, wrong |-> 0, alone |-> FALSE]]
  BY DEF L!Init
<1>2. \A c \in 1..MaxSends : entries[c] \in Tallies /\ entries[c].ok = 0 /\ entries[c].wrong = 0
  BY <1>1 DEF Tallies
<1>3. code \in Codes /\ code.id = 0
  BY <1>1 DEF L!NoCode, Codes
<1>4. CodeTypes
  BY <1>1, <1>2, <1>3 DEF CodeTypes, LoginBounds
<1> QED BY <1>1, <1>2, <1>3, <1>4 DEF CodeInv, Stored, Timed, Tallied, Lasting

LEMMA CodeNext == ASSUME LoginBounds, CodeInv, [L!Next]_(L!lvars) PROVE CodeInv'
<1>0. /\ now \in Nat /\ failures \in Nat /\ timers \subseteq Nat /\ code.id \in Nat
      /\ \A t \in timers : now <= t
  BY CodeOf DEF CodeInv, CodeTypes, Timed
<1>1. CASE L!AutoCleanup
  <2>1. /\ now \in timers /\ timers' = timers \ {now} /\ code' = L!NoCode /\ UNCHANGED <<now, sent, entries, failures>>
    BY <1>1 DEF L!AutoCleanup
  <2>2. ASSUME sent > 0, entries[sent].alone = TRUE, timers' # {}, code.id = sent PROVE FALSE
    <3>1. timers \subseteq {code.expires}
      BY <2>2 DEF CodeInv, Timed
    <3> QED BY <2>1, <2>2, <3>1
  <2> QED BY <1>0, <2>1, <2>2, CodeForgotten
<1>2. CASE L!Tick
  <2>1. now \notin timers /\ now' = now + 1 /\ UNCHANGED <<code, timers, sent, entries, failures>>
    BY <1>2 DEF L!Tick
  <2>2. \A t \in timers : now' <= t
    BY <1>0, <2>1
  <2>3. CodeTypes'
    BY <2>1 DEF CodeInv, CodeTypes
  <2> QED BY <2>1, <2>2, <2>3 DEF CodeInv, Stored, Timed, Tallied, Lasting
<1>3. CASE L!Restart
  <2>1. code' = L!NoCode /\ timers' = {} /\ failures' = failures + 1 /\ UNCHANGED <<now, sent, entries>>
    BY <1>3 DEF L!Restart
  <2> QED BY <1>0, <2>1, CodeForgotten
<1>4. CASE Untimed
  BY <1>4 DEF Untimed, CodeInv, CodeTypes, Stored, Timed, Tallied, Lasting
<1>5. CASE L!HourPasses \/ L!TwoDaysPass
  BY <1>4, <1>5 DEF L!HourPasses, L!TwoDaysPass, Untimed
<1>6. ASSUME NEW r \in Slots,
             \/ L!LoginRequests(r) \/ L!AdminRequests(r) \/ L!Lookup(r) \/ L!Create(r) \/ L!Activate(r) \/ L!FindDue(r)
             \/ \E i \in L!Accounts : L!DeleteAccount(r, i) \/ L!Erase(r, i)
      PROVE  CodeInv'
  <2>1. CASE L!SendOtp
    BY <2>1, CodeSent
  <2>2. CASE L!EnterWrong
    BY <2>2, CodeWrong
  <2>3. CASE L!EnterCode(r)
    BY <2>3, CodeRight
  <2>4. CASE ~L!SendOtp /\ ~L!EnterWrong /\ ~L!EnterCode(r)
    BY <1>4, <1>6, <2>4, CodeApart DEF L!LoginRequests
  <2> QED BY <2>1, <2>2, <2>3, <2>4
<1>7. CASE UNCHANGED L!lvars
  BY <1>4, <1>7 DEF L!lvars, Untimed
<1> QED BY <1>1, <1>2, <1>3, <1>5, <1>6, <1>7 DEF L!Next

LEMMA CodeInvariance == ASSUME LoginBounds PROVE L!Spec => []CodeInv
<1>1. L!Init => CodeInv
  BY CodeInit
<1>2. CodeInv /\ [L!Next]_(L!lvars) => CodeInv'
  BY CodeNext
<1> QED BY <1>1, <1>2, PTL DEF L!Spec

\* A code logs in once, and not after three wrong entries, whatever requests,
\* timers and restarts come between.
THEOREM LoginCodeOnce == ASSUME LoginBounds PROVE L!Spec => []L!CodeUsedOnce
<1>1. CodeInv => L!CodeUsedOnce
  BY DEF CodeInv, Tallied, L!CodeUsedOnce
<1> QED BY <1>1, CodeInvariance, PTL

\* A code that was sent while no timer of an older one ran is there until it is
\* used, tried out or replaced, or its own timer has run, or the process was
\* started anew: no step of another request or timer takes it.
THEOREM LoginCodeLasts == ASSUME LoginBounds PROVE L!Spec => []L!CodeLasts
<1>1. CodeInv => L!CodeLasts
  <2> SUFFICES ASSUME CodeInv, sent > 0, entries[sent].alone, timers # {}, failures = 0, entries[sent].ok = 0,
                      entries[sent].wrong < 3
               PROVE  code.id = sent
    BY DEF L!CodeLasts
  <2>1. sent \in 1..MaxSends
    BY CodeOf DEF CodeInv
  <2>2. entries[sent].alone \in BOOLEAN
    BY <2>1, CodeOf DEF CodeInv
  <2>3. entries[sent].alone = TRUE
    BY <2>2, Zenon
  <2> QED BY <2>3 DEF CodeInv, Lasting
<1> QED BY <1>1, CodeInvariance, PTL

----------------

\* The life of an account.
Dues == {"unset", "ahead", "past"}
Lives == [status : {"none", "active", "inactive", "suspended", "blocked", "deleted"}, due : Dues,
          phone : BOOLEAN, erased : BOOLEAN]
Erasers == [pc : {"erase"}, todo : SUBSET L!Accounts]
Lookers == [pc : {"lookup"}, by : {"otp", "truecaller"}]
LifeTypes ==
  /\ account \in [L!Accounts -> Lives] /\ DOMAIN work = Slots
  /\ \A r \in Slots : /\ work[r].pc = "activate" => work[r].i \in L!Accounts
                      /\ work[r].pc = "erase" => work[r] \in Erasers
                      /\ work[r].pc = "lookup" => work[r] \in Lookers
\* Whose date is kept, and whose two days are over.
Dated ==
  \A i \in L!Accounts : /\ account[i].due # "unset" /\ account[i].status # "deleted" => i \in kept
                        /\ account[i].due = "past" => i \in served \cup kept
\* One request at a time: what a login has read is current and was not refused;
\* what the cron is about to erase is due.
Read ==
  \A r \in Slots : work[r].pc = "activate" => account[work[r].i].status # "suspended"
Awaiting ==
  \A r \in Slots : work[r].pc = "erase" =>
    \A i \in work[r].todo : account[i].status = "deleted" /\ account[i].due = "past"

LifeInv == LifeTypes /\ Dated /\ (OneClerk => Read /\ Awaiting)

LEMMA LoginSlots ==
  ASSUME DOMAIN work = Slots, NEW r \in Slots
  PROVE  /\ \A h : L!Begin(r, h) => DOMAIN work' = Slots /\ work[r].pc = "idle" /\ work'[r] = h
                                    /\ \A q \in Slots : q # r => work'[q] = work[q]
         /\ \A h : work' = [work EXCEPT ![r] = h] => DOMAIN work' = Slots /\ work'[r] = h
                                    /\ \A q \in Slots : q # r => work'[q] = work[q]
         /\ L!Finish(r) => DOMAIN work' = Slots /\ work'[r].pc = "idle"
                           /\ \A q \in Slots : q # r => work'[q] = work[q]
<1>1. \A h : [work EXCEPT ![r] = h][r] = h /\ DOMAIN [work EXCEPT ![r] = h] = Slots
             /\ \A q \in Slots : q # r => [work EXCEPT ![r] = h][q] = work[q]
  OBVIOUS
<1>2. QED BY <1>1 DEF L!Begin, L!Finish, L!At, L!Idle

\* A step of one slot that leaves the accounts alone.
LEMMA LifeSlot ==
  ASSUME LifeInv, NEW r \in Slots, UNCHANGED <<account, served, kept>>, DOMAIN work' = Slots,
         \A q \in Slots : q # r => work'[q] = work[q],
         work'[r].pc = "activate" => work'[r].i \in L!Accounts /\ account[work'[r].i].status # "suspended",
         work'[r].pc = "lookup" => work'[r] \in Lookers,
         work'[r].pc = "erase" => /\ work'[r] \in Erasers
                                  /\ \A i \in work'[r].todo : account[i].status = "deleted" /\ account[i].due = "past"
  PROVE  LifeInv'
<1>1. LifeTypes' /\ Dated'
  BY DEF LifeInv, LifeTypes, Dated
<1>2. ASSUME OneClerk PROVE Read' /\ Awaiting'
  <2>1. \A q \in Slots : q = r
    BY <1>2 DEF OneClerk
  <2> QED BY <2>1 DEF Read, Awaiting
<1>3. OneClerk' <=> OneClerk
  BY DEF OneClerk
<1> QED BY <1>1, <1>2, <1>3 DEF LifeInv

\* A step on one account, while the slots are idle or end in one that is.
LEMMA LifeOne ==
  ASSUME LifeInv, NEW i \in L!Accounts, NEW a \in Lives, account' = [account EXCEPT ![i] = a], DOMAIN work' = Slots,
         \A q \in Slots : work'[q] = work[q] \/ work'[q].pc = "idle",
         OneClerk => \A q \in Slots : work'[q].pc = "idle",
         kept \subseteq kept', served \ {i} \subseteq served',
         a.due # "unset" /\ a.status # "deleted" => i \in kept',
         a.due = "past" => i \in served' \cup kept'
  PROVE  LifeInv'
<1>1. account' \in [L!Accounts -> Lives] /\ account'[i] = a /\ \A j \in L!Accounts : j # i => account'[j] = account[j]
  BY DEF LifeInv, LifeTypes
<1>2. LifeTypes'
  BY <1>1 DEF LifeInv, LifeTypes
<1>3. Dated'
  BY <1>1 DEF LifeInv, Dated
<1>4. ASSUME OneClerk PROVE Read' /\ Awaiting'
  BY <1>4 DEF Read, Awaiting
<1>5. OneClerk' <=> OneClerk
  BY DEF OneClerk
<1> QED BY <1>2, <1>3, <1>4, <1>5 DEF LifeInv

LEMMA LifeOf ==
  ASSUME LifeTypes, NEW i \in L!Accounts
  PROVE  /\ account[i] \in Lives /\ account[i].due \in Dues
         /\ account[i].status \in {"none", "active", "inactive", "suspended", "blocked", "deleted"}
         /\ account[i].phone \in BOOLEAN /\ account[i].erased \in BOOLEAN
         /\ L!NewAccount \in Lives /\ L!NewAccount.due = "unset" /\ L!NewAccount.erased = FALSE
         /\ L!NoAccount \in Lives /\ L!NoAccount.due = "unset"
<1>1. account[i] \in Lives
  BY DEF LifeTypes
<1>2. L!NoAccount \in Lives /\ L!NoAccount.due = "unset" /\ L!NoAccount.erased = FALSE
  BY DEF Lives, Dues, L!NoAccount
<1> DEFINE n == [L!NoAccount EXCEPT !.status = "active", !.phone = TRUE]
<1>3. n \in Lives /\ n.due = "unset" /\ n.erased = FALSE
  BY <1>2, Zenon DEF Lives
<1>4. L!NewAccount = n
  BY Zenon DEF L!NewAccount
<1> QED BY <1>1, <1>2, <1>3, <1>4 DEF Lives

LEMMA LifeCreate == ASSUME LifeInv, NEW r \in Slots, L!Create(r) PROVE LifeInv'
<1>0. DOMAIN work = Slots /\ L!Finish(r) /\ UNCHANGED <<served, kept>>
  BY DEF LifeInv, LifeTypes, L!Create
<1>1. DOMAIN work' = Slots /\ work'[r].pc = "idle" /\ \A q \in Slots : q # r => work'[q] = work[q]
  BY <1>0, LoginSlots
<1>2. CASE account' = account
  BY <1>0, <1>1, <1>2, LifeSlot
<1>3. CASE \E i \in L!Accounts : account' = [account EXCEPT ![i] = L!NewAccount]
  <2>1. PICK i \in L!Accounts : account' = [account EXCEPT ![i] = L!NewAccount]
    BY <1>3
  <2>2. L!NewAccount \in Lives /\ L!NewAccount.due = "unset"
    BY LifeOf DEF LifeInv
  <2>3. OneClerk => \A q \in Slots : work'[q].pc = "idle"
    BY <1>1 DEF OneClerk
  <2>4. "unset" # "past"
    OBVIOUS
  <2> QED BY <1>0, <1>1, <2>1, <2>2, <2>3, <2>4, LifeOne
<1> QED BY <1>2, <1>3 DEF L!Create

\* What a login makes of an account.
LEMMA LifeActivated ==
  ASSUME NEW h, NEW a \in Lives
  PROVE  /\ L!Activated(h, a) \in Lives
         /\ L!Activated(h, a).status \in {a.status, "active"}
         /\ L!Activated(h, a).due \in {a.due, "unset"}
         /\ L!Activated(h, a).erased = a.erased
<1>0. a.status \in {"none", "active", "inactive", "suspended", "blocked", "deleted"} /\ a.due \in Dues
  BY DEF Lives
<1> DEFINE u == [a EXCEPT !.status = "active"]
<1>1. u \in Lives /\ u.status = "active" /\ u.due = a.due /\ u.erased = a.erased
  BY Zenon DEF Lives
<1>2. ASSUME NEW s, s \in {a.status, "active"}, NEW d, d \in {a.due, "unset"}
      PROVE  LET v == [a EXCEPT !.status = s, !.due = d] IN
               v \in Lives /\ v.status = s /\ v.due = d /\ v.erased = a.erased
  <2>1. s \in {"none", "active", "inactive", "suspended", "blocked", "deleted"} /\ d \in Dues
    BY <1>0, <1>2 DEF Dues
  <2> DEFINE v == [a EXCEPT !.status = s, !.due = d]
  <2>2. v \in Lives /\ v.status = s /\ v.due = d /\ v.erased = a.erased
    BY <2>1, Zenon DEF Lives
  <2> QED BY <2>2
<1>3. PICK s : s = IF h.seen.status \in {"deleted", "inactive"} THEN "active" ELSE a.status
  OBVIOUS
<1>4. PICK d : d = IF h.seen.status = "deleted" THEN L!Write(h.seen.due, "unset", a.due) ELSE a.due
  OBVIOUS
<1>5. s \in {a.status, "active"} /\ d \in {a.due, "unset"}
  BY <1>3, <1>4 DEF L!Write
<1> DEFINE v == [a EXCEPT !.status = s, !.due = d]
<1>6. v \in Lives /\ v.status = s /\ v.due = d /\ v.erased = a.erased
  BY <1>2, <1>5, Zenon
<1>7. L!Saved(h.seen, a) = v
  BY <1>3, <1>4, Zenon DEF L!Saved
<1>8. L!UpdatedByCode(a) = u
  BY Zenon DEF L!UpdatedByCode
<1> HIDE DEF u, v
<1>9. L!Activated(h, a) = u \/ L!Activated(h, a) = v
  BY <1>7, <1>8 DEF L!Activated
<1> QED BY <1>1, <1>5, <1>6, <1>9

LEMMA LifeActivate == ASSUME LifeInv, NEW r \in Slots, L!Activate(r) PROVE LifeInv'
<1>0. DOMAIN work = Slots /\ L!Finish(r) /\ UNCHANGED <<served>> /\ work[r].pc = "activate" /\ work[r].i \in L!Accounts
  BY DEF LifeInv, LifeTypes, L!Activate, L!At
<1>1. DOMAIN work' = Slots /\ work'[r].pc = "idle" /\ \A q \in Slots : q # r => work'[q] = work[q]
  BY <1>0, LoginSlots
<1>2. PICK i \in L!Accounts : i = work[r].i
  BY <1>0
<1>3. PICK a : a = IF L!Exists(i) THEN L!Activated(work[r], account[i]) ELSE account[i]
  OBVIOUS
<1>4. account' = [account EXCEPT ![i] = a]
  BY <1>2, <1>3, Zenon DEF L!Activate
<1>5. a \in Lives /\ a.status \in {account[i].status, "active"} /\ a.due \in {account[i].due, "unset"}
  BY <1>3, LifeOf, LifeActivated DEF LifeInv
<1>6. account'[i] = a
  BY <1>4 DEF LifeInv, LifeTypes
<1>7. kept' = IF a.status = "active" /\ a.due # "unset" THEN kept \cup {i} ELSE kept
  BY <1>2, <1>6 DEF L!Activate
<1>8. a.due # "unset" /\ a.status # "deleted" => i \in kept'
  BY <1>5, <1>7 DEF LifeInv, Dated
<1>9. a.due = "past" => i \in served' \cup kept'
  BY <1>0, <1>5, <1>7 DEF LifeInv, Dated
<1>10. OneClerk => \A q \in Slots : work'[q].pc = "idle"
  BY <1>1 DEF OneClerk
<1>11. kept \subseteq kept' /\ served \ {i} \subseteq served'
  BY <1>0, <1>7
<1> QED BY <1>1, <1>4, <1>5, <1>8, <1>9, <1>10, <1>11, LifeOne

\* Deletions, and what an administrator sets.
LEMMA LifeSet ==
  ASSUME LifeInv, NEW r \in Slots, NEW i \in L!Accounts,
         \/ L!AdminRequests(r) \/ L!DeleteAccount(r, i)
  PROVE  LifeInv' /\ \A j \in L!Accounts : account'[j].erased = account[j].erased
<1>1. ASSUME NEW k \in L!Accounts, NEW a \in Lives, L!Deletion(r, k, a), a.status = "deleted", a.erased = account[k].erased,
             a.due = account[k].due \/ a.due = "ahead"
      PROVE  LifeInv' /\ \A j \in L!Accounts : account'[j].erased = account[j].erased
  <2>1. /\ account' = [account EXCEPT ![k] = a] /\ work' = work /\ kept' = kept /\ work[r].pc = "idle"
        /\ served' = IF account[k].status = "deleted" THEN served ELSE served \ {k}
    BY <1>1 DEF L!Deletion, L!At
  <2>2. a.due = "past" => k \in served' \cup kept'
    BY <1>1, <2>1 DEF LifeInv, Dated
  <2>3. OneClerk => \A q \in Slots : work'[q].pc = "idle"
    BY <2>1 DEF OneClerk
  <2>4. DOMAIN work' = Slots /\ kept \subseteq kept' /\ served \ {k} \subseteq served'
    BY <2>1 DEF LifeInv, LifeTypes
  <2>5. LifeInv'
    BY <1>1, <2>1, <2>2, <2>3, <2>4, LifeOne
  <2>6. \A j \in L!Accounts : account'[j] = IF j = k THEN a ELSE account[j]
    BY <2>1 DEF LifeInv, LifeTypes
  <2> QED BY <1>1, <2>5, <2>6
<1>2. ASSUME NEW k \in L!Accounts PROVE
        LET d == [account[k] EXCEPT !.status = "deleted"]
            e == [account[k] EXCEPT !.status = "deleted", !.due = "ahead"]
        IN /\ d \in Lives /\ d.status = "deleted" /\ d.due = account[k].due /\ d.erased = account[k].erased
           /\ e \in Lives /\ e.status = "deleted" /\ e.due = "ahead" /\ e.erased = account[k].erased
  <2>1. account[k] \in Lives /\ "ahead" \in Dues
    BY LifeOf DEF LifeInv, Dues
  <2> DEFINE d == [account[k] EXCEPT !.status = "deleted"]
             e == [account[k] EXCEPT !.status = "deleted", !.due = "ahead"]
  <2>2. d \in Lives /\ d.status = "deleted" /\ d.due = account[k].due /\ d.erased = account[k].erased
    BY <2>1, Zenon DEF Lives
  <2>3. e \in Lives /\ e.status = "deleted" /\ e.due = "ahead" /\ e.erased = account[k].erased
    BY <2>1, Zenon DEF Lives
  <2> QED BY <2>2, <2>3
<1>3. ASSUME NEW k \in L!Accounts, L!DeleteAccount(r, k) \/ L!DeleteUser(r, k) \/ L!DeleteAstrologer(r, k)
      PROVE  LifeInv' /\ \A j \in L!Accounts : account'[j].erased = account[j].erased
  <2> DEFINE d == [account[k] EXCEPT !.status = "deleted"]
             e == [account[k] EXCEPT !.status = "deleted", !.due = "ahead"]
  <2>1. L!Deletion(r, k, d) \/ L!Deletion(r, k, e)
    BY <1>3, Zenon DEF L!DeleteAccount, L!DeleteUser, L!DeleteAstrologer
  <2>2. d \in Lives /\ d.status = "deleted" /\ d.due = account[k].due /\ d.erased = account[k].erased
    BY <1>2, Zenon
  <2>3. e \in Lives /\ e.status = "deleted" /\ e.due = "ahead" /\ e.erased = account[k].erased
    BY <1>2, Zenon
  <2> HIDE DEF d, e
  <2> QED BY <1>1, <2>1, <2>2, <2>3
<1>4. ASSUME NEW k \in L!Accounts, NEW st \in L!Statuses, L!SetStatus(r, k, st)
      PROVE  LifeInv' /\ \A j \in L!Accounts : account'[j].erased = account[j].erased
  <2> DEFINE a == [account[k] EXCEPT !.status = st]
  <2>1. /\ account' = [account EXCEPT ![k] = a] /\ work' = work /\ served' = served /\ work[r].pc = "idle"
        /\ kept' = IF account[k].due # "unset" THEN kept \cup {k} ELSE kept
    BY <1>4, Zenon DEF L!SetStatus, L!At
  <2>2. account[k] \in Lives /\ st \in {"none", "active", "inactive", "suspended", "blocked", "deleted"}
    BY LifeOf DEF LifeInv, L!Statuses
  <2>3. a \in Lives /\ a.due = account[k].due /\ a.erased = account[k].erased
    BY <2>2, Zenon DEF Lives
  <2> HIDE DEF a
  <2>4. a.due = "past" => k \in served' \cup kept'
    BY <2>1, <2>3 DEF LifeInv, Dated
  <2>5. OneClerk => \A q \in Slots : work'[q].pc = "idle"
    BY <2>1 DEF OneClerk
  <2>6. DOMAIN work' = Slots /\ kept \subseteq kept' /\ served \ {k} \subseteq served' /\ (a.due # "unset" => k \in kept')
    BY <2>1, <2>3 DEF LifeInv, LifeTypes
  <2>7. LifeInv'
    BY <2>1, <2>3, <2>4, <2>5, <2>6, LifeOne
  <2>8. \A j \in L!Accounts : account'[j] = IF j = k THEN a ELSE account[j]
    BY <2>1 DEF LifeInv, LifeTypes
  <2> QED BY <2>3, <2>7, <2>8
<1>5. ASSUME NEW k \in L!Accounts, L!RestoreUser(r, k)
      PROVE  \E st \in L!Statuses : L!SetStatus(r, k, st)
  BY <1>5 DEF L!RestoreUser, L!Statuses
<1> QED BY <1>3, <1>4, <1>5 DEF L!AdminRequests

LEMMA LifeErased == L!Erased \in Lives /\ L!Erased.due = "unset" /\ L!Erased.status \in {"deleted", "none"}
BY DEF L!Erased, Lives, Dues

LEMMA LifeErase ==
  ASSUME LifeInv, NEW r \in Slots, NEW i \in L!Accounts, L!Erase(r, i)
  PROVE  LifeInv'
<1>0. /\ work[r].pc = "erase" /\ i \in work[r].todo /\ account' = [account EXCEPT ![i] = L!Erased]
      /\ UNCHANGED <<served, kept>> /\ DOMAIN work = Slots
  BY DEF L!Erase, L!At, LifeInv, LifeTypes
<1>01. work[r] \in Erasers
  BY <1>0 DEF LifeInv, LifeTypes
<1>02. work[r].todo \ {i} \in SUBSET L!Accounts
  BY <1>01 DEF Erasers
<1> DEFINE e == [work[r] EXCEPT !.todo = @ \ {i}]
<1>03. e \in Erasers /\ e.todo = work[r].todo \ {i}
  BY <1>01, <1>02, Zenon DEF Erasers
<1>1. PICK h : h = IF work[r].todo = {i} THEN L!Idle ELSE e
  OBVIOUS
<1>2. work' = [work EXCEPT ![r] = h]
  <2>1. CASE work[r].todo = {i}
    BY <1>1, <2>1 DEF L!Erase, L!Finish
  <2>2. CASE work[r].todo # {i}
    <3>1. h = e
      BY <1>1, <2>2
    <3>2. work' = [work EXCEPT ![r].todo = @ \ {i}]
      BY <2>2 DEF L!Erase
    <3>3. work' = [work EXCEPT ![r] = e]
      BY <3>2, Zenon
    <3> QED BY <3>1, <3>3
  <2> QED BY <2>1, <2>2
<1>3. DOMAIN work' = Slots /\ work'[r] = h /\ \A q \in Slots : q # r => work'[q] = work[q]
  BY <1>0, <1>2, LoginSlots
<1> HIDE DEF e
<1>4. h.pc # "activate" /\ h.pc # "lookup" /\ (h.pc = "erase" => h \in Erasers /\ h.todo = work[r].todo \ {i})
  <2>1. CASE work[r].todo = {i}
    <3>1. h.pc = "idle"
      BY <1>1, <2>1 DEF L!Idle
    <3> QED BY <3>1
  <2>2. CASE work[r].todo # {i}
    <3>1. h = e /\ e.pc = "erase"
      BY <1>1, <1>03, <2>2 DEF Erasers
    <3> QED BY <1>03, <3>1
  <2> QED BY <2>1, <2>2
<1>5. account' \in [L!Accounts -> Lives] /\ account'[i] = L!Erased /\ \A j \in L!Accounts : j # i => account'[j] = account[j]
  BY <1>0, LifeErased DEF LifeInv, LifeTypes
<1>6. LifeTypes'
  BY <1>3, <1>4, <1>5 DEF LifeInv, LifeTypes
<1>7. Dated'
  BY <1>0, <1>5, LifeErased DEF LifeInv, Dated
<1>8. ASSUME OneClerk PROVE Read' /\ Awaiting'
  <2>1. \A q \in Slots : q = r
    BY <1>8 DEF OneClerk
  <2>2. Read'
    BY <2>1, <1>3, <1>4 DEF Read
  <2>3. ASSUME h.pc = "erase", NEW j \in h.todo PROVE account'[j].status = "deleted" /\ account'[j].due = "past"
    <3>1. j \in work[r].todo /\ j # i /\ j \in L!Accounts
      BY <1>01, <1>4, <2>3 DEF Erasers
    <3>2. account[j].status = "deleted" /\ account[j].due = "past"
      BY <1>0, <1>8, <3>1 DEF LifeInv, Awaiting
    <3> QED BY <1>5, <3>1, <3>2
  <2>4. Awaiting'
    BY <2>1, <2>3, <1>3 DEF Awaiting
  <2> QED BY <2>2, <2>4
<1>9. OneClerk' <=> OneClerk
  BY DEF OneClerk
<1> QED BY <1>6, <1>7, <1>8, <1>9 DEF LifeInv

LEMMA LifePasses ==
  ASSUME LifeInv, L!TwoDaysPass
  PROVE  LifeInv' /\ \A i \in L!Accounts : account'[i].erased = account[i].erased
<1>0. /\ kept' = kept /\ work' = work /\ \A r \in Slots : work[r].pc = "idle"
      /\ served' = served \cup {i \in L!Accounts : account[i].status = "deleted"}
  BY DEF L!TwoDaysPass, L!Quiet, L!At
<1>1. ASSUME NEW i \in L!Accounts
      PROVE  /\ account'[i] \in Lives /\ account'[i].status = account[i].status
             /\ account'[i].erased = account[i].erased
             /\ account'[i].due = IF account[i].due = "ahead" THEN "past" ELSE account[i].due
  <2>1. PICK d : d = IF account[i].due = "ahead" THEN "past" ELSE account[i].due
    OBVIOUS
  <2>2. d \in Dues /\ account[i] \in Lives
    BY <2>1, LifeOf DEF LifeInv, Dues
  <2> DEFINE a == [account[i] EXCEPT !.due = d]
  <2>3. a \in Lives /\ a.status = account[i].status /\ a.erased = account[i].erased /\ a.due = d
    BY <2>2, Zenon DEF Lives
  <2>4. account'[i] = a
    BY <2>1, Zenon DEF L!TwoDaysPass
  <2> HIDE DEF a
  <2> QED BY <2>1, <2>3, <2>4
<1>2. account' \in [L!Accounts -> Lives]
  <2>1. account' = [i \in L!Accounts |-> account'[i]]
    BY DEF L!TwoDaysPass
  <2> QED BY <1>1, <2>1
<1>3. LifeTypes'
  BY <1>0, <1>2 DEF LifeInv, LifeTypes
<1>4. Dated'
  <2> SUFFICES ASSUME NEW i \in L!Accounts
               PROVE  /\ account'[i].due # "unset" /\ account'[i].status # "deleted" => i \in kept'
                      /\ account'[i].due = "past" => i \in served' \cup kept'
    BY DEF Dated
  <2>1. account'[i].due # "unset" => account[i].due # "unset"
    BY <1>1
  <2>2. account[i].due # "unset" /\ account[i].status # "deleted" => i \in kept
    BY DEF LifeInv, Dated
  <2>3. account[i].status = "deleted" => i \in served'
    BY <1>0
  <2>4. account'[i].due = "past" => account'[i].due # "unset"
    OBVIOUS
  <2> QED BY <1>0, <1>1, <2>1, <2>2, <2>3, <2>4
<1>5. Read' /\ Awaiting'
  BY <1>0 DEF Read, Awaiting
<1> QED BY <1>1, <1>3, <1>4, <1>5 DEF LifeInv

LEMMA LifeLookup == ASSUME LifeInv, NEW r \in Slots, L!Lookup(r) PROVE LifeInv'
<1>0. DOMAIN work = Slots /\ UNCHANGED <<account, served, kept>>
  BY DEF LifeInv, LifeTypes, L!Lookup
<1>1. CASE L!Finish(r)
  <2>1. DOMAIN work' = Slots /\ work'[r].pc = "idle" /\ \A q \in Slots : q # r => work'[q] = work[q]
    BY <1>0, <1>1, LoginSlots
  <2> QED BY <1>0, <2>1, LifeSlot
<1>2. CASE L!Goto(r, "create")
  <2> DEFINE g == [work[r] EXCEPT !.pc = "create"]
  <2>1. work' = [work EXCEPT ![r] = g]
    BY <1>2, Zenon DEF L!Goto
  <2>2. work[r] \in Lookers
    BY DEF L!Lookup, L!At, LifeInv, LifeTypes
  <2>6. g.pc = "create"
    BY <2>2, Zenon DEF Lookers
  <2> HIDE DEF g
  <2>7. DOMAIN work' = Slots /\ work'[r] = g /\ \A q \in Slots : q # r => work'[q] = work[q]
    BY <1>0, <2>1, LoginSlots
  <2> QED BY <1>0, <2>6, <2>7, LifeSlot
<1>3. CASE ~L!Finish(r) /\ ~L!Goto(r, "create")
  <2>1. PICK i \in L!Owner : /\ ~L!Refused(account[i])
          /\ work' = [work EXCEPT ![r] = [pc |-> "activate", by |-> work[r].by, i |-> i, seen |-> account[i]]]
    BY <1>3 DEF L!Lookup
  <2>2. i \in L!Accounts /\ account[i].status # "suspended"
    BY <2>1 DEF L!Owner, L!Refused
  <2>3. PICK h : h = [pc |-> "activate", by |-> work[r].by, i |-> i, seen |-> account[i]]
    OBVIOUS
  <2>4. h.pc = "activate" /\ h.i = i
    BY <2>3
  <2>5. DOMAIN work' = Slots /\ work'[r] = h /\ \A q \in Slots : q # r => work'[q] = work[q]
    BY <1>0, <2>1, <2>3, LoginSlots
  <2> QED BY <1>0, <2>2, <2>4, <2>5, LifeSlot
<1> QED BY <1>1, <1>2, <1>3

LEMMA LifeFindDue == ASSUME LifeInv, NEW r \in Slots, L!FindDue(r) PROVE LifeInv'
<1>0. DOMAIN work = Slots /\ UNCHANGED <<account, served, kept>>
  BY DEF LifeInv, LifeTypes, L!FindDue
<1>1. PICK found : found = {i \in L!Accounts : account[i].status = "deleted" /\ account[i].due = "past"}
  OBVIOUS
<1>2. PICK h : h = [pc |-> "erase", todo |-> found]
  OBVIOUS
<1>3. L!Begin(r, h) /\ h.pc = "erase" /\ h.todo = found
  BY <1>1, <1>2 DEF L!FindDue
<1>31. h \in Erasers
  BY <1>1, <1>2 DEF Erasers
<1>4. DOMAIN work' = Slots /\ work'[r] = h /\ \A q \in Slots : q # r => work'[q] = work[q]
  BY <1>0, <1>3, LoginSlots
<1> QED BY <1>0, <1>1, <1>3, <1>31, <1>4, LifeSlot

LEMMA LifeLogin == ASSUME LifeInv, NEW r \in Slots, L!EnterCode(r) \/ L!Truecaller(r) PROVE LifeInv'
<1>0. DOMAIN work = Slots /\ UNCHANGED <<account, served, kept>>
  BY DEF LifeInv, LifeTypes, L!EnterCode, L!Truecaller
<1>1. PICK by \in {"otp", "truecaller"} : L!Begin(r, [pc |-> "lookup", by |-> by])
  BY DEF L!EnterCode, L!Truecaller
<1>2. PICK h : h = [pc |-> "lookup", by |-> by]
  OBVIOUS
<1>3. L!Begin(r, h) /\ h.pc = "lookup" /\ h \in Lookers
  BY <1>1, <1>2 DEF Lookers
<1>4. DOMAIN work' = Slots /\ work'[r] = h /\ \A q \in Slots : q # r => work'[q] = work[q]
  BY <1>0, <1>3, LoginSlots
<1> QED BY <1>0, <1>3, <1>4, LifeSlot

LEMMA LifeStill ==
  ASSUME LifeInv, UNCHANGED <<account, served, kept>>, work' = work \/ work' = [r \in Slots |-> L!Idle]
  PROVE  LifeInv'
<1>1. DOMAIN work' = Slots /\ \A r \in Slots : work'[r] = work[r] \/ work'[r].pc = "idle"
  BY DEF LifeInv, LifeTypes, L!Idle
<1>2. LifeTypes'
  BY <1>1 DEF LifeInv, LifeTypes
<1> QED BY <1>1, <1>2 DEF LifeInv, Dated, Read, Awaiting, OneClerk

\* What a step of Login may be.
LEMMA LifeSteps ==
  ASSUME [L!Next]_(L!lvars)
  PROVE  \/ L!TwoDaysPass
         \/ UNCHANGED <<account, served, kept>> /\ (work' = work \/ work' = [r \in Slots |-> L!Idle])
         \/ \E r \in Slots :
              \/ L!EnterCode(r) \/ L!Truecaller(r) \/ L!Lookup(r) \/ L!Create(r) \/ L!Activate(r) \/ L!FindDue(r)
              \/ L!AdminRequests(r)
              \/ \E i \in L!Accounts : L!DeleteAccount(r, i) \/ L!Erase(r, i)
<1>1. L!AutoCleanup \/ L!Tick \/ L!HourPasses \/ L!Restart \/ L!SendOtp \/ L!EnterWrong \/ UNCHANGED L!lvars
        => UNCHANGED <<account, served, kept>> /\ (work' = work \/ work' = [r \in Slots |-> L!Idle])
  BY DEF L!AutoCleanup, L!Tick, L!HourPasses, L!Restart, L!SendOtp, L!EnterWrong, L!lvars
<1> QED BY <1>1 DEF L!Next, L!LoginRequests

LEMMA LifeNext == LifeInv /\ [L!Next]_(L!lvars) => LifeInv'
<1> SUFFICES ASSUME LifeInv, [L!Next]_(L!lvars) PROVE LifeInv'
  OBVIOUS
<1>1. CASE L!TwoDaysPass
  BY <1>1, LifePasses
<1>2. CASE UNCHANGED <<account, served, kept>> /\ (work' = work \/ work' = [r \in Slots |-> L!Idle])
  BY <1>2, LifeStill
<1>3. ASSUME NEW r \in Slots,
              \/ L!EnterCode(r) \/ L!Truecaller(r) \/ L!Lookup(r) \/ L!Create(r) \/ L!Activate(r) \/ L!FindDue(r)
      PROVE  LifeInv'
  BY <1>3, LifeLogin, LifeLookup, LifeCreate, LifeActivate, LifeFindDue
<1>4. ASSUME NEW r \in Slots, L!AdminRequests(r) PROVE LifeInv'
  <2>1. PICK i \in L!Accounts : TRUE
    BY <1>4 DEF L!AdminRequests
  <2> QED BY <1>4, <2>1, LifeSet
<1>5. ASSUME NEW r \in Slots, NEW i \in L!Accounts, L!DeleteAccount(r, i) \/ L!Erase(r, i) PROVE LifeInv'
  BY <1>5, LifeSet, LifeErase
<1> QED BY <1>1, <1>2, <1>3, <1>4, <1>5, LifeSteps

LEMMA LifeInit == L!Init => LifeInv
<1> SUFFICES ASSUME L!Init PROVE LifeInv
  OBVIOUS
<1>1. /\ account = [i \in L!Accounts |-> IF i = 1 /\ Role = "astrologer" THEN L!NewAccount ELSE L!NoAccount]
      /\ work = [r \in Slots |-> L!Idle]
  BY DEF L!Init, L!NoHandler
<1>2. L!NoAccount \in Lives /\ L!NoAccount.due = "unset"
  BY DEF Lives, Dues, L!NoAccount
<1> DEFINE n == [L!NoAccount EXCEPT !.status = "active", !.phone = TRUE]
<1>3. n \in Lives /\ n.due = "unset"
  BY <1>2, Zenon DEF Lives
<1>4. L!NewAccount = n
  BY Zenon DEF L!NewAccount
<1>5. L!NewAccount \in Lives /\ L!NewAccount.due = "unset"
  BY <1>3, <1>4
<1>6. \A r \in Slots : work[r].pc = "idle"
  BY <1>1 DEF L!Idle
<1>7. LifeTypes
  BY <1>1, <1>2, <1>5, <1>6 DEF LifeTypes
<1>8. \A i \in L!Accounts : account[i].due = "unset"
  BY <1>1, <1>2, <1>5
<1> QED BY <1>6, <1>7, <1>8 DEF LifeInv, Dated, Read, Awaiting

LEMMA LifeInvariance == L!Spec => []LifeInv
<1>1. L!Init => LifeInv
  BY LifeInit
<1>2. LifeInv /\ [L!Next]_(L!lvars) => LifeInv'
  BY LifeNext
<1> QED BY <1>1, <1>2, PTL DEF L!Spec

LEMMA LoginAlone == ASSUME IsFiniteSet(Slots), LifeInv, L!OneAtATime PROVE OneClerk
<1>1. L!Cardinality(Slots) = Cardinality(Slots)
  BY DEF L!Cardinality, Cardinality
<1>2. DOMAIN work = Slots /\ Cardinality(Slots) = 1
  BY <1>1 DEF LifeInv, LifeTypes, L!OneAtATime
<1>3. PICK x : Slots = {x}
  BY <1>2, FS_Singleton
<1> QED BY <1>3 DEF OneClerk

\* An account becomes erased by the cron alone, one request at a time one that
\* is deleted and whose date is past.
LEMMA LifeEnds ==
  ASSUME IsFiniteSet(Slots), LifeInv, [L!Next]_(L!lvars), NEW i \in L!Accounts, L!Erases(i)
  PROVE  account[i].status = "deleted" /\ account[i].due = "past"
<1>0. OneClerk /\ account[i].erased # account'[i].erased
  BY LoginAlone DEF L!Erases
<1>1. ~UNCHANGED <<account, served, kept>>
  BY <1>0
<1>2. ~L!TwoDaysPass
  BY <1>0, LifePasses
<1>3. ASSUME NEW r \in Slots, L!EnterCode(r) \/ L!Truecaller(r) \/ L!Lookup(r) \/ L!FindDue(r) PROVE FALSE
  BY <1>0, <1>3 DEF L!EnterCode, L!Truecaller, L!Lookup, L!FindDue
<1>4. ASSUME NEW r \in Slots, L!AdminRequests(r) \/ L!DeleteAccount(r, i) PROVE FALSE
  BY <1>0, <1>4, LifeSet
<1>5. ASSUME NEW r \in Slots, NEW k \in L!Accounts, L!DeleteAccount(r, k) PROVE FALSE
  BY <1>0, <1>5, LifeSet
<1>6. ASSUME NEW r \in Slots, L!Create(r) PROVE FALSE
  <2>1. PICK k \in L!Accounts : account' = [account EXCEPT ![k] = L!NewAccount]
    BY <1>0, <1>6 DEF L!Create
  <2>2. account'[i] = account[i] \/ account'[i].erased = FALSE
    BY <2>1, LifeOf DEF LifeInv, LifeTypes
  <2> QED BY <1>0, <2>2 DEF L!Erases
<1>7. ASSUME NEW r \in Slots, L!Activate(r) PROVE FALSE
  <2>1. work[r].i \in L!Accounts
    BY <1>7 DEF L!Activate, L!At, LifeInv, LifeTypes
  <2>2. PICK k \in L!Accounts : k = work[r].i
    BY <2>1
  <2>3. PICK a : a = IF L!Exists(k) THEN L!Activated(work[r], account[k]) ELSE account[k]
    OBVIOUS
  <2>4. account' = [account EXCEPT ![k] = a]
    BY <1>7, <2>2, <2>3, Zenon DEF L!Activate
  <2>41. account[k] \in Lives
    BY LifeOf DEF LifeInv
  <2>42. L!Activated(work[r], account[k]).erased = account[k].erased
    BY <2>41, LifeActivated
  <2>5. a.erased = account[k].erased
    BY <2>3, <2>42
  <2>6. account'[i].erased = account[i].erased
    BY <2>4, <2>5 DEF LifeInv, LifeTypes
  <2> QED BY <1>0, <2>6
<1>8. ASSUME NEW r \in Slots, NEW k \in L!Accounts, L!Erase(r, k)
      PROVE  account[i].status = "deleted" /\ account[i].due = "past"
  <2>1. work[r].pc = "erase" /\ k \in work[r].todo /\ account' = [account EXCEPT ![k] = L!Erased]
    BY <1>8 DEF L!Erase, L!At
  <2>2. k = i
    BY <1>0, <2>1 DEF LifeInv, LifeTypes
  <2> QED BY <1>0, <2>1, <2>2 DEF LifeInv, Awaiting
<1> QED BY <1>1, <1>2, <1>3, <1>4, <1>5, <1>6, <1>7, <1>8, LifeSteps

\* "It will be permanently removed in 48 hours": one request at a time, the cron
\* erases an account only if it was deleted two days ago, or if its date was
\* kept when it was restored.
THEOREM LoginErasedAfterGrace == ASSUME IsFiniteSet(Slots) PROVE L!Spec => L!ErasedAfterGrace
<1>1. LifeInv /\ [L!Next]_(L!lvars) => [L!EraseServed]_(L!lvars)
  <2> SUFFICES ASSUME LifeInv, [L!Next]_(L!lvars), NEW i \in L!Accounts, L!Erases(i) PROVE i \in served \cup kept
    BY DEF L!EraseServed
  <2> QED BY LifeEnds DEF LifeInv, Dated
<1> QED BY <1>1, LifeInvariance, PTL DEF L!Spec, L!ErasedAfterGrace

\* One request at a time: an account that was restored is not erased, whatever
\* its date says.
THEOREM LoginRestoredStays == ASSUME IsFiniteSet(Slots) PROVE L!Spec => L!RestoredIsNotErased
<1>1. LifeInv /\ [L!Next]_(L!lvars) => [L!EraseDeleted]_(L!lvars)
  <2> SUFFICES ASSUME LifeInv, [L!Next]_(L!lvars), NEW i \in L!Accounts, L!Erases(i) PROVE account[i].status = "deleted"
    BY DEF L!EraseDeleted
  <2> QED BY LifeEnds
<1> QED BY <1>1, LifeInvariance, PTL DEF L!Spec, L!RestoredIsNotErased

\* One login at a time: no login makes active an account that an administrator
\* suspended.
THEOREM LoginSuspendedStays == ASSUME IsFiniteSet(Slots) PROVE L!Spec => L!SuspendedStays
<1>1. LifeInv /\ [L!Next]_(L!lvars) => [L!KeepSuspended]_(L!lvars)
  <2> SUFFICES ASSUME LifeInv, NEW r \in Slots, L!OneAtATime, work[r].pc = "activate",
                      account[work[r].i].status = "suspended"
               PROVE  FALSE
    BY DEF L!KeepSuspended, L!At
  <2> QED BY LoginAlone DEF LifeInv, Read
<1> QED BY <1>1, LifeInvariance, PTL DEF L!Spec, L!SuspendedStays

----------------
(* Sixth part: an astrologer's bank accounts in BankAccounts.              *)

CONSTANTS Numbers, MaxRequests, MaxRestarts
VARIABLES vector, bare, restarts

Acc == INSTANCE BankAccounts

BankRows == [secret : [number : Numbers, vector : Nat], primary : BOOLEAN, active : BOOLEAN]
BankTypes ==
  /\ account \in Seq(BankRows) /\ vector \in Nat /\ restarts \in Nat /\ bare \in BOOLEAN /\ DOMAIN work = Slots
  /\ \A r \in Slots :
       /\ work[r].pc = "count" => work[r] \in [pc : {"count"}, n : Numbers]
       /\ work[r].pc = "insert" => work[r] \in [pc : {"insert"}, n : Numbers, primary : BOOLEAN]
       /\ work[r].pc \in {"clear", "mark"} => work[r] \in [pc : {"clear", "mark"}, k : Nat] /\ work[r].k \in DOMAIN account
       /\ work[r].pc \in {"others", "remove"} => work[r] \in [pc : {"others", "remove"}, k : Nat] /\ work[r].k \in DOMAIN account

\* Which active accounts are primary.
Marked(k) == account[k].active = TRUE /\ account[k].primary = TRUE
\* One request at a time: no account is primary beside another, and one is,
\* unless the handler at work has taken the mark and not set it yet.
OneMarked ==
  /\ \A j, k \in DOMAIN account : Marked(j) /\ Marked(k) => j = k
  /\ \A r \in Slots :
       /\ bare = FALSE /\ work[r].pc # "mark" => \A k \in DOMAIN account : account[k].active = TRUE =>
            \E j \in DOMAIN account : Marked(j)
       /\ work[r].pc = "insert" =>
            (work[r].primary = TRUE <=> \A k \in DOMAIN account : account[k].active = FALSE)
       /\ work[r].pc = "mark" => \A k \in DOMAIN account : account[k].primary = FALSE
       /\ work[r].pc = "others" => account[work[r].k].active = TRUE
       /\ work[r].pc = "remove" /\ Marked(work[r].k) =>
            \A k \in DOMAIN account : account[k].active = TRUE => k = work[r].k
\* ... and while the process runs on, the number that is about to be stored is
\* not there.
Unlisted ==
  restarts = 0 =>
    /\ vector = 0 /\ \A k \in DOMAIN account : account[k].secret.vector = 0
    /\ \A j, k \in DOMAIN account :
         account[j].active = TRUE /\ account[k].active = TRUE /\ account[j].secret.number = account[k].secret.number => j = k
    /\ \A r \in Slots : work[r].pc \in {"count", "insert"} =>
         \A k \in DOMAIN account : account[k].active = TRUE => account[k].secret.number # work[r].n

BankInv == BankTypes /\ (OneClerk => OneMarked /\ Unlisted)

LEMMA BankSlots ==
  ASSUME DOMAIN work = Slots, NEW r \in Slots
  PROVE  /\ \A h : Acc!Begin(r, h) => DOMAIN work' = Slots /\ work[r].pc = "idle" /\ work'[r] = h
                                    /\ \A q \in Slots : q # r => work'[q] = work[q]
         /\ \A h : work' = [work EXCEPT ![r] = h] => DOMAIN work' = Slots /\ work'[r] = h
                                    /\ \A q \in Slots : q # r => work'[q] = work[q]
         /\ Acc!Finish(r) => DOMAIN work' = Slots /\ work'[r].pc = "idle"
                           /\ \A q \in Slots : q # r => work'[q] = work[q]
<1>1. \A h : [work EXCEPT ![r] = h][r] = h /\ DOMAIN [work EXCEPT ![r] = h] = Slots
             /\ \A q \in Slots : q # r => [work EXCEPT ![r] = h][q] = work[q]
  OBVIOUS
<1>2. QED BY <1>1 DEF Acc!Begin, Acc!Finish, Acc!At, Acc!Idle

\* A step of one slot that leaves the accounts alone.
LEMMA BankSlot ==
  ASSUME BankInv, NEW r \in Slots, UNCHANGED <<account, vector, restarts>>, bare' \in BOOLEAN, DOMAIN work' = Slots,
         bare' = bare \/ bare' = TRUE, work[r].pc = "mark" => bare' = TRUE,
         \A q \in Slots : q # r => work'[q] = work[q],
         work'[r].pc # "mark",
         work'[r].pc = "count" => work'[r] \in [pc : {"count"}, n : Numbers],
         work'[r].pc = "insert" => work'[r] \in [pc : {"insert"}, n : Numbers, primary : BOOLEAN],
         work'[r].pc \in {"clear", "others", "remove"} =>
           work'[r] \in [pc : {"clear", "others", "remove"}, k : Nat] /\ work'[r].k \in DOMAIN account,
         work'[r].pc = "insert" =>
           (work'[r].primary = TRUE <=> \A k \in DOMAIN account : account[k].active = FALSE),
         work'[r].pc = "others" => account[work'[r].k].active = TRUE,
         OneClerk /\ work'[r].pc = "remove" /\ Marked(work'[r].k) =>
            \A k \in DOMAIN account : account[k].active = TRUE => k = work'[r].k,
         OneClerk /\ restarts = 0 /\ work'[r].pc \in {"count", "insert"} =>
           \A k \in DOMAIN account : account[k].active = TRUE => account[k].secret.number # work'[r].n
  PROVE  BankInv'
<1>1. \A q \in Slots :
       /\ work'[q].pc = "count" => work'[q] \in [pc : {"count"}, n : Numbers]
       /\ work'[q].pc = "insert" => work'[q] \in [pc : {"insert"}, n : Numbers, primary : BOOLEAN]
       /\ work'[q].pc \in {"clear", "mark"} => work'[q] \in [pc : {"clear", "mark"}, k : Nat] /\ work'[q].k \in DOMAIN account
       /\ work'[q].pc \in {"others", "remove"} => work'[q] \in [pc : {"others", "remove"}, k : Nat] /\ work'[q].k \in DOMAIN account
  <2> SUFFICES ASSUME NEW q \in Slots
               PROVE
                 /\ work'[q].pc = "count" => work'[q] \in [pc : {"count"}, n : Numbers]
                 /\ work'[q].pc = "insert" => work'[q] \in [pc : {"insert"}, n : Numbers, primary : BOOLEAN]
                 /\ work'[q].pc \in {"clear", "mark"} =>
                      work'[q] \in [pc : {"clear", "mark"}, k : Nat] /\ work'[q].k \in DOMAIN account
                 /\ work'[q].pc \in {"others", "remove"} =>
                      work'[q] \in [pc : {"others", "remove"}, k : Nat] /\ work'[q].k \in DOMAIN account
    OBVIOUS
  <2>1. CASE q # r
    BY <2>1 DEF BankInv, BankTypes
  <2>2. CASE q = r
    BY <2>2
  <2> QED BY <2>1, <2>2
<1>2. BankTypes'
  BY <1>1 DEF BankInv, BankTypes
<1>3. ASSUME OneClerk PROVE OneMarked' /\ Unlisted'
  <2>0. \A q \in Slots : q = r
    BY <1>3 DEF OneClerk
  <2>1. OneMarked /\ Unlisted
    BY <1>3 DEF BankInv
  <2>2. \A k : Marked(k)' <=> Marked(k)
    BY DEF Marked
  <2>3. bare' = FALSE => bare = FALSE /\ work[r].pc # "mark"
    OBVIOUS
  <2>4. OneMarked'
    BY <1>3, <2>0, <2>1, <2>2, <2>3 DEF OneMarked
  <2>5. Unlisted'
    BY <1>3, <2>0, <2>1 DEF Unlisted
  <2> QED BY <2>4, <2>5
<1>4. OneClerk' <=> OneClerk
  BY DEF OneClerk
<1> QED BY <1>2, <1>3, <1>4 DEF BankInv

LEMMA BankRow ==
  ASSUME BankTypes, NEW k \in DOMAIN account
  PROVE  /\ account[k] \in BankRows /\ account[k].active \in BOOLEAN /\ account[k].primary \in BOOLEAN
         /\ account[k].secret \in [number : Numbers, vector : Nat] /\ k \in Nat /\ k \in 1..Len(account)
<1>1. account[k] \in BankRows /\ k \in 1..Len(account) /\ Len(account) \in Nat
  BY DEF BankTypes
<1> QED BY <1>1 DEF BankRows

LEMMA BankAdd == ASSUME BankInv, NEW r \in Slots, NEW n \in Numbers, Acc!AddBankAccount(r, n) PROVE BankInv'
<1>1. PICK h : h = [pc |-> "count", n |-> n]
  OBVIOUS
<1>2. Acc!Accept(r, h) /\ h.pc = "count" /\ h.n = n /\ h \in [pc : {"count"}, n : Numbers]
  BY <1>1 DEF Acc!AddBankAccount
<1>3. /\ UNCHANGED <<account, vector, restarts, bare>> /\ bare \in BOOLEAN
      /\ DOMAIN work' = Slots /\ work[r].pc = "idle" /\ work'[r] = h /\ \A q \in Slots : q # r => work'[q] = work[q]
  BY <1>2, BankSlots DEF Acc!Accept, BankInv, BankTypes
<1>4. ASSUME OneClerk, restarts = 0, NEW k \in DOMAIN account, account[k].active = TRUE
      PROVE  account[k].secret.number # n
  <2>1. account[k].secret \in [number : Numbers, vector : Nat] /\ account[k].secret.vector = 0 /\ vector = 0
    BY <1>4, BankRow DEF BankInv, Unlisted
  <2>2. account[k].secret # [number |-> n, vector |-> 0]
    BY <1>4, <2>1 DEF Acc!AddBankAccount, Acc!Active, Acc!Ids, Acc!Encrypt
  <2>3. account[k].secret = [number |-> account[k].secret.number, vector |-> account[k].secret.vector]
    BY <2>1
  <2> QED BY <2>1, <2>2, <2>3
<1> QED BY <1>2, <1>3, <1>4, BankSlot

LEMMA BankCount == ASSUME BankInv, NEW r \in Slots, Acc!CountAccounts(r) PROVE BankInv'
<1>1. PICK h : h = [pc |-> "insert", n |-> work[r].n, primary |-> Acc!Active = {}]
  OBVIOUS
<1>2. /\ work' = [work EXCEPT ![r] = h] /\ UNCHANGED <<account, vector, bare, restarts>> /\ work[r].pc = "count"
      /\ bare \in BOOLEAN /\ DOMAIN work = Slots
  BY <1>1 DEF Acc!CountAccounts, Acc!At, BankInv, BankTypes
<1>3. DOMAIN work' = Slots /\ work'[r] = h /\ \A q \in Slots : q # r => work'[q] = work[q]
  BY <1>2, BankSlots
<1>4. work[r].n \in Numbers
  BY <1>2 DEF BankInv, BankTypes
<1>5. h.pc = "insert" /\ h.n = work[r].n /\ h.primary = (Acc!Active = {})
  BY <1>1
<1>6. h \in [pc : {"insert"}, n : Numbers, primary : BOOLEAN]
  BY <1>1, <1>4
<1>7. h.primary = TRUE <=> \A k \in DOMAIN account : account[k].active = FALSE
  <2>1. \A k \in DOMAIN account : account[k].active \in BOOLEAN
    BY BankRow DEF BankInv
  <2>2. Acc!Active = {} <=> \A k \in DOMAIN account : account[k].active = FALSE
    BY <2>1 DEF Acc!Active, Acc!Ids
  <2> QED BY <1>5, <2>2
<1>8. ASSUME OneClerk, restarts = 0
      PROVE  \A k \in DOMAIN account : account[k].active = TRUE => account[k].secret.number # h.n
  BY <1>2, <1>5, <1>8 DEF BankInv, Unlisted
<1> QED BY <1>2, <1>3, <1>5, <1>6, <1>7, <1>8, BankSlot

LEMMA BankAsk ==
  ASSUME BankInv, NEW r \in Slots, NEW k \in 1..MaxAccounts, Acc!SetPrimaryAccount(r, k) \/ Acc!DeleteBankAccount(r, k)
  PROVE  BankInv'
<1>1. PICK h \in [pc : {"clear", "others", "remove"}, k : Nat] :
         /\ Acc!Accept(r, h) /\ h.k = k /\ k \in DOMAIN account
         /\ h.pc = "others" => account[k].active
         /\ h.pc = "remove" => ~account[k].primary
  <2>1. CASE Acc!SetPrimaryAccount(r, k)
    <3>1. PICK h : h = [pc |-> "clear", k |-> k]
      OBVIOUS
    <3> QED BY <2>1, <3>1 DEF Acc!SetPrimaryAccount, Acc!Ids
  <2>2. CASE Acc!DeleteBankAccount(r, k)
    <3>1. PICK h : h = [pc |-> IF account[k].primary THEN "others" ELSE "remove", k |-> k]
      OBVIOUS
    <3>2. Acc!Accept(r, h) /\ k \in Acc!Active
      BY <2>2, <3>1 DEF Acc!DeleteBankAccount
    <3> QED BY <3>1, <3>2 DEF Acc!Active, Acc!Ids
  <2> QED BY <2>1, <2>2
<1>2. /\ UNCHANGED <<account, vector, restarts, bare>> /\ bare \in BOOLEAN
      /\ DOMAIN work' = Slots /\ work[r].pc = "idle" /\ work'[r] = h /\ \A q \in Slots : q # r => work'[q] = work[q]
  BY <1>1, BankSlots DEF Acc!Accept, BankInv, BankTypes
<1>3. account[k].active \in BOOLEAN /\ account[k].primary \in BOOLEAN
  BY <1>1, BankRow DEF BankInv
<1>4. h.pc = "others" => account[h.k].active = TRUE
  BY <1>1, <1>3, Zenon
<1>5. h.pc = "remove" => ~Marked(h.k)
  BY <1>1, <1>3 DEF Marked
<1>6. h.pc \in {"clear", "others", "remove"} /\ h.k \in DOMAIN account
  BY <1>1
<1> QED BY <1>2, <1>4, <1>5, <1>6, BankSlot

\* What the handler that deletes goes on with, when there are no others.
LEMMA BankOthers == ASSUME BankInv, NEW r \in Slots, Acc!CountOthers(r) PROVE BankInv'
<1>0. work[r].pc = "others" /\ UNCHANGED <<account, vector, restarts, bare>> /\ bare \in BOOLEAN /\ DOMAIN work = Slots
  BY DEF Acc!CountOthers, Acc!At, BankInv, BankTypes
<1>1. work[r] \in [pc : {"others", "remove"}, k : Nat] /\ work[r].k \in DOMAIN account
  BY <1>0 DEF BankInv, BankTypes
<1>2. CASE Acc!Active \ {work[r].k} = {}
  <2> DEFINE h == [work[r] EXCEPT !.pc = "remove"]
  <2>1. h \in [pc : {"others", "remove"}, k : Nat] /\ h.pc = "remove" /\ h.k = work[r].k
    BY <1>1, Zenon
  <2>2. work' = [work EXCEPT ![r] = h]
    BY <1>2, Zenon DEF Acc!CountOthers, Acc!Goto
  <2> HIDE DEF h
  <2>3. DOMAIN work' = Slots /\ work'[r] = h /\ \A q \in Slots : q # r => work'[q] = work[q]
    BY <1>0, <2>2, BankSlots
  <2>4. \A k \in DOMAIN account : account[k].active = TRUE => k = h.k
    BY <1>2, <2>1 DEF Acc!Active, Acc!Ids
  <2>5. h \in [pc : {"clear", "others", "remove"}, k : Nat]
    BY <2>1
  <2> QED BY <1>0, <1>1, <2>1, <2>3, <2>4, <2>5, BankSlot
<1>3. CASE Acc!Active \ {work[r].k} # {}
  <2>1. DOMAIN work' = Slots /\ work'[r].pc = "idle" /\ \A q \in Slots : q # r => work'[q] = work[q]
    BY <1>0, <1>3, BankSlots DEF Acc!CountOthers
  <2> QED BY <1>0, <2>1, BankSlot
<1> QED BY <1>2, <1>3

LEMMA BankThrows == ASSUME BankInv, NEW r \in Slots, Acc!Throws(r) PROVE BankInv'
<1>1. DOMAIN work' = Slots /\ work'[r].pc = "idle" /\ \A q \in Slots : q # r => work'[q] = work[q]
  BY BankSlots DEF Acc!Throws, BankInv, BankTypes
<1>2. UNCHANGED <<account, vector, restarts>> /\ bare' = (bare \/ work[r].pc = "mark") /\ bare \in BOOLEAN
  BY DEF Acc!Throws, Acc!At, BankInv, BankTypes
<1>3. bare' \in BOOLEAN /\ (bare' = bare \/ bare' = TRUE) /\ (work[r].pc = "mark" => bare' = TRUE)
  BY <1>2
<1> QED BY <1>1, <1>2, <1>3, BankSlot

\* The first account is primary, any other is not.
LEMMA BankInsert == ASSUME BankInv, NEW r \in Slots, Acc!Insert(r) PROVE BankInv'
<1>0. /\ work[r].pc = "insert" /\ Acc!Finish(r) /\ UNCHANGED <<vector, restarts>> /\ DOMAIN work = Slots
      /\ bare' = (bare /\ ~work[r].primary) /\ bare \in BOOLEAN
      /\ account \in Seq(BankRows) /\ vector \in Nat
  BY DEF Acc!Insert, Acc!At, BankInv, BankTypes
<1>1. work[r].n \in Numbers /\ work[r].primary \in BOOLEAN
  BY <1>0 DEF BankInv, BankTypes
<1>2. PICK s : s = Acc!Encrypt(work[r].n)
  OBVIOUS
<1>3. s \in [number : Numbers, vector : Nat] /\ s.number = work[r].n /\ s.vector = vector
  BY <1>0, <1>1, <1>2 DEF Acc!Encrypt
<1>4. PICK a : a = [secret |-> s, primary |-> work[r].primary, active |-> TRUE]
  OBVIOUS
<1>5. a \in BankRows /\ a.secret = s /\ a.primary = work[r].primary /\ a.active = TRUE
  BY <1>1, <1>3, <1>4 DEF BankRows
<1>6. account' = Append(account, a)
  BY <1>2, <1>4 DEF Acc!Insert
<1>7. PICK n \in Nat : n = Len(account) + 1
  BY <1>0
<1>8. /\ account' \in Seq(BankRows) /\ DOMAIN account' = DOMAIN account \cup {n} /\ n \notin DOMAIN account
      /\ account'[n] = a /\ \A k \in DOMAIN account : account'[k] = account[k]
  BY <1>0, <1>5, <1>6, <1>7
<1>9. DOMAIN work' = Slots /\ work'[r].pc = "idle" /\ \A q \in Slots : q # r => work'[q] = work[q]
  BY <1>0, BankSlots
<1>10. BankTypes'
  <2>1. bare' \in BOOLEAN
    BY <1>0
  <2>2. ASSUME NEW q \in Slots
        PROVE
           /\ work'[q].pc = "count" => work'[q] \in [pc : {"count"}, n : Numbers]
           /\ work'[q].pc = "insert" => work'[q] \in [pc : {"insert"}, n : Numbers, primary : BOOLEAN]
           /\ work'[q].pc \in {"clear", "mark"} =>
                work'[q] \in [pc : {"clear", "mark"}, k : Nat] /\ work'[q].k \in DOMAIN account'
           /\ work'[q].pc \in {"others", "remove"} =>
                work'[q] \in [pc : {"others", "remove"}, k : Nat] /\ work'[q].k \in DOMAIN account'
    <3>1. CASE q = r
      BY <1>9, <3>1
    <3>2. CASE q # r
      BY <1>8, <1>9, <3>2 DEF BankInv, BankTypes
    <3> QED BY <3>1, <3>2
  <2> QED BY <1>0, <1>8, <1>9, <2>1, <2>2 DEF BankInv, BankTypes
<1>11. ASSUME OneClerk PROVE OneMarked' /\ Unlisted'
  <2>0. \A q \in Slots : q = r
    BY <1>11 DEF OneClerk
  <2>1. OneMarked /\ Unlisted
    BY <1>11 DEF BankInv
  <2>2. \A k \in DOMAIN account : Marked(k)' <=> Marked(k)
    BY <1>8 DEF Marked
  <2>3. Marked(n)' <=> work[r].primary = TRUE
    BY <1>5, <1>8 DEF Marked
  <2>4. work[r].primary = TRUE => \A k \in DOMAIN account : account[k].active = FALSE
    BY <1>0, <2>1 DEF OneMarked
  <2>5. work[r].primary = TRUE => \A k \in DOMAIN account : ~Marked(k)
    BY <2>4 DEF Marked
  <2>6. ASSUME NEW j \in DOMAIN account', NEW k \in DOMAIN account', Marked(j)', Marked(k)' PROVE j = k
    <3>1. j \in DOMAIN account \/ j = n
      BY <1>8
    <3>2. k \in DOMAIN account \/ k = n
      BY <1>8
    <3>3. CASE j \in DOMAIN account /\ k \in DOMAIN account
      BY <2>1, <2>2, <2>6, <3>3 DEF OneMarked
    <3>4. CASE j = n \/ k = n
      <4>1. work[r].primary = TRUE
        BY <2>3, <2>6, <3>4
      <4>2. j \notin DOMAIN account /\ k \notin DOMAIN account
        BY <2>2, <2>5, <2>6, <4>1
      <4> QED BY <3>1, <3>2, <4>2
    <3> QED BY <3>1, <3>2, <3>3, <3>4
  <2>7. ASSUME bare' = FALSE PROVE \E j \in DOMAIN account' : Marked(j)'
    <3>1. CASE work[r].primary = TRUE
      BY <1>8, <2>3, <3>1
    <3>2. CASE work[r].primary = FALSE
      <4>1. bare = FALSE
        BY <1>0, <2>7, <3>2
      <4>2. PICK k \in DOMAIN account : account[k].active = TRUE
        <5>1. ~(\A k \in DOMAIN account : account[k].active = FALSE)
          BY <1>0, <2>1, <3>2 DEF OneMarked
        <5> QED BY <5>1, BankRow DEF BankInv
      <4>3. PICK j \in DOMAIN account : Marked(j)
        BY <1>0, <2>1, <4>1, <4>2 DEF OneMarked
      <4> QED BY <1>8, <2>2, <4>3
    <3> QED BY <1>1, <3>1, <3>2
  <2>8. OneMarked'
    BY <2>0, <1>9, <2>6, <2>7 DEF OneMarked
  <2>9. ASSUME restarts = 0 PROVE Unlisted'
    <3>1. vector = 0 /\ s.vector = 0 /\ a.secret.vector = 0 /\ a.secret.number = work[r].n
      BY <1>3, <1>5, <2>1, <2>9 DEF Unlisted
    <3>2. \A k \in DOMAIN account' : account'[k].secret.vector = 0
      BY <1>8, <2>1, <2>9, <3>1 DEF Unlisted
    <3>3. \A k \in DOMAIN account : account[k].active = TRUE => account[k].secret.number # work[r].n
      BY <1>0, <2>1, <2>9 DEF Unlisted
    <3>4. ASSUME NEW j \in DOMAIN account', NEW k \in DOMAIN account', account'[j].active = TRUE, account'[k].active = TRUE,
                 account'[j].secret.number = account'[k].secret.number
          PROVE  j = k
      <4>1. (j \in DOMAIN account \/ j = n) /\ (k \in DOMAIN account \/ k = n)
        BY <1>8
      <4>2. CASE j \in DOMAIN account /\ k \in DOMAIN account
        BY <1>8, <2>1, <2>9, <3>4, <4>2 DEF Unlisted
      <4>3. CASE j \in DOMAIN account /\ k = n
        BY <1>8, <3>1, <3>3, <3>4, <4>3
      <4>4. CASE j = n /\ k \in DOMAIN account
        BY <1>8, <3>1, <3>3, <3>4, <4>4
      <4> QED BY <4>1, <4>2, <4>3, <4>4
    <3> QED BY <1>0, <1>9, <2>0, <3>1, <3>2, <3>4 DEF Unlisted
  <2>10. restarts' = restarts
    BY <1>0
  <2>11. restarts # 0 => Unlisted'
    BY <2>10 DEF Unlisted
  <2> QED BY <2>8, <2>9, <2>11
<1>12. OneClerk' <=> OneClerk
  BY DEF OneClerk
<1> QED BY <1>10, <1>11, <1>12 DEF BankInv

\* Clearing, marking and removing: the same accounts with other marks.
Remarked(pc) ==
  /\ \A j, k \in DOMAIN account : Marked(j)' /\ Marked(k)' => j = k
  /\ bare' = FALSE /\ pc # "mark" =>
       \A k \in DOMAIN account : account'[k].active = TRUE => \E j \in DOMAIN account : Marked(j)'
  /\ pc = "mark" => \A k \in DOMAIN account : account'[k].primary = FALSE
LEMMA BankRemark ==
  ASSUME BankInv, NEW r \in Slots, UNCHANGED <<vector, restarts>>, bare' \in BOOLEAN, DOMAIN work' = Slots,
         \A q \in Slots : q # r => work'[q] = work[q],
         work'[r].pc = "idle" \/ (work'[r] \in [pc : {"mark"}, k : Nat] /\ work'[r].k \in DOMAIN account),
         account' \in Seq(BankRows), DOMAIN account' = DOMAIN account,
         \A k \in DOMAIN account : account'[k].secret = account[k].secret,
         \A k \in DOMAIN account : account'[k].active = TRUE => account[k].active = TRUE,
         OneClerk => Remarked(work'[r].pc)
  PROVE  BankInv'
<1>1. BankTypes'
  <2>2. ASSUME NEW q \in Slots
        PROVE
           /\ work'[q].pc = "count" => work'[q] \in [pc : {"count"}, n : Numbers]
           /\ work'[q].pc = "insert" => work'[q] \in [pc : {"insert"}, n : Numbers, primary : BOOLEAN]
           /\ work'[q].pc \in {"clear", "mark"} =>
                work'[q] \in [pc : {"clear", "mark"}, k : Nat] /\ work'[q].k \in DOMAIN account'
           /\ work'[q].pc \in {"others", "remove"} =>
                work'[q] \in [pc : {"others", "remove"}, k : Nat] /\ work'[q].k \in DOMAIN account'
    <3>1. CASE q = r
      BY <3>1
    <3>2. CASE q # r
      BY <3>2 DEF BankInv, BankTypes
    <3> QED BY <3>1, <3>2
  <2> QED BY <2>2 DEF BankInv, BankTypes
<1>2. ASSUME OneClerk PROVE OneMarked' /\ Unlisted'
  <2>0. \A q \in Slots : q = r
    BY <1>2 DEF OneClerk
  <2>1. Unlisted /\ work'[r].pc \in {"idle", "mark"}
    BY <1>2 DEF BankInv
  <2>2. OneMarked'
    BY <1>2, <2>0, <2>1 DEF OneMarked, Remarked
  <2>3. Unlisted'
    BY <2>0, <2>1 DEF Unlisted
  <2> QED BY <2>2, <2>3
<1>3. OneClerk' <=> OneClerk
  BY DEF OneClerk
<1> QED BY <1>1, <1>2, <1>3 DEF BankInv

LEMMA BankClear == ASSUME BankInv, NEW r \in Slots, Acc!Clear(r) PROVE BankInv'
<1>0. /\ work[r].pc = "clear" /\ UNCHANGED <<vector, restarts, bare>> /\ DOMAIN work = Slots /\ bare \in BOOLEAN
      /\ work[r] \in [pc : {"clear", "mark"}, k : Nat] /\ work[r].k \in DOMAIN account
      /\ work' = [work EXCEPT ![r].pc = "mark"]
      /\ account' = [a \in DOMAIN account |-> [account[a] EXCEPT !.primary = FALSE]]
  BY DEF Acc!Clear, Acc!At, Acc!Goto, Acc!Ids, BankInv, BankTypes
<1> DEFINE h == [work[r] EXCEPT !.pc = "mark"]
<1>1. h \in [pc : {"mark"}, k : Nat] /\ h.k = work[r].k /\ h.pc = "mark"
  BY <1>0, Zenon
<1>2. work' = [work EXCEPT ![r] = h]
  BY <1>0, Zenon
<1> HIDE DEF h
<1>3. DOMAIN work' = Slots /\ work'[r] = h /\ \A q \in Slots : q # r => work'[q] = work[q]
  BY <1>0, <1>2, BankSlots
<1>4. ASSUME NEW k \in DOMAIN account
      PROVE  /\ account'[k] \in BankRows /\ account'[k].secret = account[k].secret
             /\ account'[k].active = account[k].active /\ account'[k].primary = FALSE
  <2> DEFINE a == [account[k] EXCEPT !.primary = FALSE]
  <2>1. account[k] \in BankRows
    BY BankRow DEF BankInv
  <2>2. a \in BankRows /\ a.secret = account[k].secret /\ a.active = account[k].active /\ a.primary = FALSE
    BY <2>1, Zenon DEF BankRows
  <2>3. account'[k] = a
    BY <1>0, Zenon
  <2> HIDE DEF a
  <2> QED BY <2>2, <2>3
<1>5. DOMAIN account' = DOMAIN account /\ account' = [k \in DOMAIN account |-> account'[k]]
  BY <1>0
<1>6. account' \in Seq(BankRows)
  <2>1. PICK n \in Nat : DOMAIN account = 1..n
    BY DEF BankInv, BankTypes
  <2>2. account' \in [1..n -> BankRows]
    BY <1>4, <1>5, <2>1
  <2> QED BY <2>2
<1>7. \A k \in DOMAIN account : ~Marked(k)'
  BY <1>4 DEF Marked
<1>8. Remarked(work'[r].pc)
  BY <1>1, <1>3, <1>4, <1>7 DEF Remarked
<1>9. bare' \in BOOLEAN /\ vector' = vector /\ restarts' = restarts
  BY <1>0
<1>10. work'[r] \in [pc : {"mark"}, k : Nat] /\ work'[r].k \in DOMAIN account
  BY <1>0, <1>1, <1>3
<1> QED BY <1>3, <1>4, <1>5, <1>6, <1>8, <1>9, <1>10, BankRemark

LEMMA BankMark == ASSUME BankInv, NEW r \in Slots, Acc!Mark(r) PROVE BankInv'
<1>0. /\ work[r].pc = "mark" /\ UNCHANGED <<vector, restarts>> /\ DOMAIN work = Slots
      /\ work[r].k \in DOMAIN account /\ account \in Seq(BankRows)
  BY DEF Acc!Mark, Acc!At, BankInv, BankTypes
<1>1. PICK k \in DOMAIN account : k = work[r].k
  BY <1>0
<1> DEFINE a == [account[k] EXCEPT !.primary = @ \/ account[k].active]
<1>2. account' = [account EXCEPT ![k] = a] /\ bare' = ~account[k].active
  BY <1>1, Zenon DEF Acc!Mark
<1>3. account[k] \in BankRows /\ account[k].active \in BOOLEAN /\ account[k].primary \in BOOLEAN
  BY BankRow DEF BankInv
<1>4. a \in BankRows /\ a.secret = account[k].secret /\ a.active = account[k].active
      /\ a.primary = (account[k].primary \/ account[k].active)
  BY <1>3, Zenon DEF BankRows
<1> HIDE DEF a
<1>5. DOMAIN work' = Slots /\ work'[r].pc = "idle" /\ \A q \in Slots : q # r => work'[q] = work[q]
  BY <1>0, BankSlots DEF Acc!Mark
<1>6. /\ account' \in Seq(BankRows) /\ DOMAIN account' = DOMAIN account
      /\ account'[k] = a /\ \A j \in DOMAIN account : j # k => account'[j] = account[j]
  BY <1>0, <1>2, <1>4
<1>7. ASSUME OneClerk
      PROVE  /\ \A i, j \in DOMAIN account : Marked(i)' /\ Marked(j)' => i = j
             /\ bare' = FALSE => Marked(k)'
  <2>1. \A j \in DOMAIN account : account[j].primary = FALSE
    BY <1>0, <1>7 DEF BankInv, OneMarked
  <2>2. \A j \in DOMAIN account : j # k => ~Marked(j)'
    BY <1>6, <2>1 DEF Marked
  <2>3. bare' = FALSE => account[k].active = TRUE
    BY <1>2, <1>3
  <2>4. account[k].active = TRUE => a.active = TRUE /\ a.primary = TRUE
    BY <1>4
  <2> QED BY <1>6, <2>2, <2>3, <2>4 DEF Marked
<1>8. bare' \in BOOLEAN
  BY <1>2
<1>9. \A j \in DOMAIN account : account'[j].secret = account[j].secret /\ account'[j].active = account[j].active
  BY <1>4, <1>6
<1>10. OneClerk => Remarked(work'[r].pc)
  BY <1>5, <1>7 DEF Remarked
<1>11. vector' = vector /\ restarts' = restarts
  BY <1>0
<1> QED BY <1>5, <1>6, <1>8, <1>9, <1>10, <1>11, BankRemark

LEMMA BankRemove == ASSUME BankInv, NEW r \in Slots, Acc!Remove(r) PROVE BankInv'
<1>0. /\ work[r].pc = "remove" /\ UNCHANGED <<vector, restarts, bare>> /\ DOMAIN work = Slots /\ bare \in BOOLEAN
      /\ work[r].k \in DOMAIN account /\ account \in Seq(BankRows)
  BY DEF Acc!Remove, Acc!At, BankInv, BankTypes
<1>1. PICK k \in DOMAIN account : k = work[r].k
  BY <1>0
<1> DEFINE a == [account[k] EXCEPT !.active = FALSE]
<1>2. account' = [account EXCEPT ![k] = a]
  BY <1>1, Zenon DEF Acc!Remove
<1>3. account[k] \in BankRows
  BY BankRow DEF BankInv
<1>4. a \in BankRows /\ a.secret = account[k].secret /\ a.active = FALSE
  BY <1>3, Zenon DEF BankRows
<1> HIDE DEF a
<1>5. DOMAIN work' = Slots /\ work'[r].pc = "idle" /\ \A q \in Slots : q # r => work'[q] = work[q]
  BY <1>0, BankSlots DEF Acc!Remove
<1>6. /\ account' \in Seq(BankRows) /\ DOMAIN account' = DOMAIN account
      /\ account'[k] = a /\ \A j \in DOMAIN account : j # k => account'[j] = account[j]
  BY <1>0, <1>2, <1>4
<1>7. ASSUME OneClerk
      PROVE  /\ \A i, j \in DOMAIN account : Marked(i)' /\ Marked(j)' => i = j
             /\ bare' = FALSE => \A i \in DOMAIN account : account'[i].active = TRUE => \E j \in DOMAIN account : Marked(j)'
  <2>0. OneMarked
    BY <1>7 DEF BankInv
  <2>1. ~Marked(k)' /\ \A j \in DOMAIN account : j # k => (Marked(j)' <=> Marked(j))
    BY <1>4, <1>6 DEF Marked
  <2>2. ASSUME bare' = FALSE, NEW i \in DOMAIN account, account'[i].active = TRUE
        PROVE  \E j \in DOMAIN account : Marked(j)'
    <3>1. i # k /\ account[i].active = TRUE
      BY <1>4, <1>6, <2>2
    <3>2. ~Marked(k)
      BY <1>0, <1>1, <2>0, <3>1 DEF OneMarked
    <3>3. PICK j \in DOMAIN account : Marked(j)
      BY <1>0, <2>0, <2>2, <3>1 DEF OneMarked
    <3> QED BY <2>1, <3>2, <3>3
  <2>3. \A i, j \in DOMAIN account : Marked(i)' /\ Marked(j)' => i = j
    BY <2>0, <2>1 DEF OneMarked
  <2> QED BY <2>2, <2>3
<1>9. \A j \in DOMAIN account : account'[j].secret = account[j].secret /\ (account'[j].active = TRUE => account[j].active = TRUE)
  BY <1>4, <1>6
<1>10. OneClerk => Remarked(work'[r].pc)
  BY <1>5, <1>7 DEF Remarked
<1>11. bare' \in BOOLEAN /\ vector' = vector /\ restarts' = restarts
  BY <1>0
<1> QED BY <1>5, <1>6, <1>9, <1>10, <1>11, BankRemark

LEMMA BankRestart == ASSUME BankInv, Acc!Restart PROVE BankInv'
<1>0. /\ account' = account /\ restarts' = restarts + 1 /\ vector' = vector + 1 /\ work' = [r \in Slots |-> Acc!Idle]
      /\ bare' = (bare \/ \E r \in Slots : work[r].pc = "mark") /\ bare \in BOOLEAN /\ restarts \in Nat /\ vector \in Nat
  BY DEF Acc!Restart, Acc!At, BankInv, BankTypes
<1>1. DOMAIN work' = Slots /\ \A r \in Slots : work'[r].pc = "idle"
  BY <1>0 DEF Acc!Idle
<1>2. bare' \in BOOLEAN /\ (bare' = FALSE => bare = FALSE /\ \A r \in Slots : work[r].pc # "mark")
  BY <1>0
<1>3. BankTypes'
  BY <1>0, <1>1, <1>2 DEF BankInv, BankTypes
<1>4. ASSUME OneClerk PROVE OneMarked' /\ Unlisted'
  <2>1. restarts' # 0
    BY <1>0
  <2>2. \A k : Marked(k)' <=> Marked(k)
    BY <1>0 DEF Marked
  <2>3. OneMarked
    BY <1>4 DEF BankInv
  <2>4. OneMarked'
    BY <1>0, <1>1, <1>2, <2>2, <2>3 DEF OneMarked
  <2> QED BY <2>1, <2>4 DEF Unlisted
<1>5. OneClerk' <=> OneClerk
  BY DEF OneClerk
<1> QED BY <1>3, <1>4, <1>5 DEF BankInv

LEMMA BankNext == BankInv /\ [Acc!Next]_(Acc!bvars) => BankInv'
<1> SUFFICES ASSUME BankInv, [Acc!Next]_(Acc!bvars) PROVE BankInv'
  OBVIOUS
<1>1. CASE UNCHANGED Acc!bvars
  BY <1>1 DEF Acc!bvars, BankInv, BankTypes, OneMarked, Marked, Unlisted, OneClerk
<1>2. CASE Acc!Next
  BY <1>2, BankAdd, BankAsk, BankCount, BankInsert, BankClear, BankMark, BankOthers, BankRemove, BankThrows, BankRestart
     DEF Acc!Next
<1> QED BY <1>1, <1>2

LEMMA BankInit == Acc!Init => BankInv
<1> SUFFICES ASSUME Acc!Init PROVE BankInv
  OBVIOUS
<1>1. account = <<>> /\ vector = 0 /\ bare = FALSE /\ restarts = 0 /\ work = [r \in Slots |-> Acc!Idle]
  BY DEF Acc!Init, Acc!NoHandler
<1>2. \A r \in Slots : work[r].pc = "idle"
  BY <1>1 DEF Acc!Idle
<1>3. account \in Seq(BankRows) /\ DOMAIN account = {}
  BY <1>1
<1> QED BY <1>1, <1>2, <1>3 DEF BankInv, BankTypes, OneMarked, Unlisted

LEMMA BankInvariance == Acc!Spec => []BankInv
<1>1. Acc!Init => BankInv
  BY BankInit
<1>2. BankInv /\ [Acc!Next]_(Acc!bvars) => BankInv'
  BY BankNext
<1> QED BY <1>1, <1>2, PTL DEF Acc!Spec

LEMMA BankAlone == ASSUME IsFiniteSet(Slots), BankInv, Acc!OneAtATime PROVE OneClerk /\ Slots # {}
<1>1. Acc!Cardinality(Slots) = Cardinality(Slots)
  BY DEF Acc!Cardinality, Cardinality
<1>2. DOMAIN work = Slots /\ Cardinality(Slots) = 1
  BY <1>1 DEF BankInv, BankTypes, Acc!OneAtATime
<1>3. PICK x : Slots = {x}
  BY <1>2, FS_Singleton
<1> QED BY <1>3 DEF OneClerk

\* One request at a time, any failures and restarts: one of an astrologer's
\* accounts is primary, unless a request to mark another found it deleted or was
\* cut off between taking the mark and setting it.
THEOREM BankOnePrimary == ASSUME IsFiniteSet(Slots) PROVE Acc!Spec => []Acc!OnePrimary
<1>1. BankInv => Acc!OnePrimary
  <2> SUFFICES ASSUME BankInv, Acc!OneAtATime, Acc!Quiet, Acc!Active # {}, ~bare
               PROVE  Acc!Cardinality({k \in Acc!Active : account[k].primary}) = 1
    BY DEF Acc!OnePrimary
  <2>1. OneMarked /\ Slots # {} /\ bare = FALSE
    BY BankAlone DEF BankInv, BankTypes
  <2>2. PICK r \in Slots : work[r].pc = "idle"
    BY <2>1 DEF Acc!Quiet, Acc!At
  <2>3. \A k \in DOMAIN account : (k \in Acc!Active <=> account[k].active = TRUE)
    BY BankRow DEF Acc!Active, Acc!Ids, BankInv
  <2>4. PICK j \in DOMAIN account : Marked(j)
    BY <2>1, <2>2, <2>3 DEF OneMarked, Acc!Active, Acc!Ids
  <2>5. PICK C : C = {k \in Acc!Active : account[k].primary}
    OBVIOUS
  <2>6. \A k : k \in C <=> k \in DOMAIN account /\ Marked(k)
    BY <2>3, <2>5, BankRow DEF Marked, Acc!Active, Acc!Ids, BankInv
  <2>7. C = {j}
    BY <2>1, <2>4, <2>6 DEF OneMarked
  <2>8. Cardinality(C) = 1
    BY <2>7, FS_Singleton
  <2>9. Acc!Cardinality(C) = Cardinality(C)
    BY DEF Acc!Cardinality, Cardinality
  <2> QED BY <2>5, <2>8, <2>9
<1> QED BY <1>1, BankInvariance, PTL

\* "This bank account is already added": one request at a time, no number is in
\* the list twice, as long as the process that drew the vector runs.
THEOREM BankNumberOnce == ASSUME IsFiniteSet(Slots) PROVE Acc!Spec => []Acc!NumberOnce
<1>1. BankInv => Acc!NumberOnce
  <2> SUFFICES ASSUME BankInv, Acc!OneAtATime, restarts = 0, NEW j \in Acc!Active, NEW k \in Acc!Active,
                      account[j].secret.number = account[k].secret.number
               PROVE  j = k
    BY DEF Acc!NumberOnce
  <2>1. j \in DOMAIN account /\ account[j].active = TRUE /\ k \in DOMAIN account /\ account[k].active = TRUE
    BY BankRow DEF Acc!Active, Acc!Ids, BankInv
  <2> QED BY <2>1, BankAlone DEF BankInv, Unlisted
<1> QED BY <1>1, BankInvariance, PTL

----------------
(* Seventh part: administrators' accounts in Admins.                       *)

CONSTANTS Emails, First
VARIABLES admin, decided, wrong, refused

Adm == INSTANCE Admins

AdminRows == [status : {"none", "active", "inactive", "suspended", "locked"}, failed : Nat, until : Nat,
              id : Nat, role : {"super_admin", "support", "none"}, super : BOOLEAN]
Decisions == {"active", "inactive", "suspended"}
Present(e) == admin[e].status # "none"
AdminTypes ==
  /\ admin \in [Emails -> AdminRows] /\ \A e \in Emails : admin[e] = Adm!NoAdmin \/ Present(e)
  /\ now \in Nat /\ wrong \in [Emails -> Nat] /\ decided \in [Emails -> Decisions]
  /\ refused \in Nat /\ deletions \in Nat /\ DOMAIN work = Slots
  /\ \A r \in Slots :
       /\ work[r].pc = "compare" =>
            work[r] \in [pc : {"compare"}, e : Emails, right : BOOLEAN, read : AdminRows] /\ work[r].read.status # "none"
       /\ work[r].pc = "insert" =>
            /\ work[r] \in [pc : {"insert"}, e : Emails, new : AdminRows]
            /\ work[r].new.status = "active" /\ work[r].new.failed = 0 /\ work[r].new.until = 0
\* Whatever overlaps, the first account is there and is a super admin's.
FirstHere == First \in Emails => Present(First) /\ admin[First].super = TRUE
\* One request at a time: the wrong passwords are those the account counts, and
\* a login compares with the account as it is.
WrongCounted(e) ==
  /\ admin[e].failed = wrong[e]
  /\ admin[e].failed >= 5 => admin[e].until > 0
  /\ admin[e].status = "locked" => admin[e].failed >= 5
  /\ decided[e] # "active" => admin[e].status = decided[e]
LockEarned ==
  /\ \A e \in Emails : Present(e) => WrongCounted(e)
  /\ \A r \in Slots : work[r].pc = "compare" =>
       /\ admin[work[r].e] = work[r].read /\ work[r].read.status \in {"active", "locked"}
       /\ work[r].read.status = "locked" => 0 < work[r].read.until /\ work[r].read.until <= now
\* ... and while none is deleted, the ids are counted up.
Numbered ==
  /\ refused = 0 /\ \A e \in Emails : admin[e].id <= Cardinality(Adm!Everyone)
  /\ \A r \in Slots : work[r].pc = "insert" => ~Present(work[r].e) /\ work[r].new.id = Cardinality(Adm!Everyone) + 1

AdminInv ==
  /\ AdminTypes /\ FirstHere /\ (OneClerk => LockEarned)
  /\ OneClerk /\ deletions = 0 /\ IsFiniteSet(Emails) => Numbered

LEMMA AdminEveryone ==
  ASSUME AdminTypes
  PROVE  /\ \A e \in Emails : Adm!There(e) <=> Present(e)
         /\ Adm!Everyone = {e \in Emails : Present(e)}
<1>1. Adm!NoAdmin.status = "none"
  BY DEF Adm!NoAdmin
<1>2. \A e \in Emails : Adm!There(e) <=> Present(e)
  BY <1>1 DEF Adm!There, Present, AdminTypes
<1> QED BY <1>2 DEF Adm!Everyone

LEMMA AdminNobody ==
  /\ Adm!NoAdmin \in AdminRows /\ Adm!NoAdmin.status = "none" /\ Adm!NoAdmin.id = 0
  /\ DOMAIN Adm!NoAdmin = {"status", "failed", "until", "id", "role", "super"}
BY DEF Adm!NoAdmin, AdminRows

\* What the password leaves of the account that was read.
Left(a, right) == IF right THEN Adm!Right(Adm!Unlock(a)) ELSE Adm!Wrong(Adm!Unlock(a))

LEMMA AdminUnlock ==
  ASSUME now \in Nat, NEW a \in AdminRows
  PROVE  /\ Adm!Unlock(a) \in AdminRows /\ Adm!Unlock(a).id = a.id /\ Adm!Unlock(a).super = a.super
         /\ Adm!Unlock(a).role = a.role
         /\ a.status # "none" => Adm!Unlock(a).status # "none"
         /\ a.status # "locked" => Adm!Unlock(a) = a
         /\ a.status = "locked" /\ 0 < a.until /\ a.until <= now =>
              Adm!Unlock(a).status = "active" /\ Adm!Unlock(a).failed = 0 /\ Adm!Unlock(a).until = 0
         /\ Adm!Unlock(a).status = "active" => a.status = "active" \/ (a.status = "locked" /\ 0 < a.until /\ a.until <= now)
<1> DEFINE b == [a EXCEPT !.status = "active", !.until = 0, !.failed = 0]
<1>1. b \in AdminRows /\ b.status = "active" /\ b.failed = 0 /\ b.until = 0 /\ b.id = a.id /\ b.super = a.super /\ b.role = a.role
  BY DEF AdminRows
<1>2. Adm!Unlock(a) = IF a.status = "locked" /\ Adm!Expired(a) THEN b ELSE a
  BY DEF Adm!Unlock
<1> HIDE DEF b
<1>3. Adm!Expired(a) <=> 0 < a.until /\ a.until <= now
  BY DEF AdminRows, Adm!Expired
<1>4. CASE a.status = "locked" /\ Adm!Expired(a)
  BY <1>1, <1>2, <1>3, <1>4
<1>5. CASE ~(a.status = "locked" /\ Adm!Expired(a))
  BY <1>2, <1>3, <1>5
<1> QED BY <1>4, <1>5

LEMMA AdminWrong ==
  ASSUME now \in Nat, NEW a \in AdminRows
  PROVE  /\ Adm!Wrong(a) \in AdminRows /\ Adm!Wrong(a).id = a.id /\ Adm!Wrong(a).super = a.super
         /\ Adm!Wrong(a).role = a.role /\ Adm!Wrong(a).failed = a.failed + 1
         /\ a.failed < 4 => Adm!Wrong(a).status = a.status /\ Adm!Wrong(a).until = a.until
         /\ ~(a.failed < 4) => Adm!Wrong(a).status = "locked" /\ Adm!Wrong(a).until = now + 1
<1>1. a.failed \in Nat /\ a.failed + 1 \in Nat /\ now + 1 \in Nat
  BY DEF AdminRows
<1> DEFINE n == a.failed + 1
           m == now + 1
           b == [a EXCEPT !.failed = n]
           c == [a EXCEPT !.failed = n, !.status = "locked", !.until = m]
<1>2. Adm!Wrong(a) = IF a.failed < 4 THEN b ELSE c
  BY Zenon DEF Adm!Wrong
<1> HIDE DEF n, m
<1>3. n \in Nat /\ m \in Nat
  BY <1>1 DEF n, m
<1>4. b \in AdminRows /\ b.status = a.status /\ b.failed = n /\ b.until = a.until /\ b.id = a.id /\ b.super = a.super /\ b.role = a.role
  BY <1>3, Zenon DEF AdminRows
<1>5. c \in AdminRows /\ c.status = "locked" /\ c.failed = n /\ c.until = m /\ c.id = a.id /\ c.super = a.super /\ c.role = a.role
  BY <1>3, Zenon DEF AdminRows
<1> HIDE DEF b, c
<1>6. n = a.failed + 1 /\ m = now + 1
  BY DEF n, m
<1> QED BY <1>2, <1>4, <1>5, <1>6

LEMMA AdminRight ==
  ASSUME now \in Nat, NEW a \in AdminRows
  PROVE  /\ Adm!Right(a) \in AdminRows /\ Adm!Right(a).id = a.id /\ Adm!Right(a).super = a.super
         /\ Adm!Right(a).role = a.role /\ Adm!Right(a).failed = 0 /\ Adm!Right(a).status = a.status
<1> DEFINE u == IF Adm!Expired(a) THEN 0 ELSE a.until
           b == [a EXCEPT !.failed = 0, !.until = u]
<1>1. u \in Nat
  BY DEF AdminRows
<1>2. Adm!Right(a) = b
  BY Zenon DEF Adm!Right
<1> HIDE DEF u
<1>3. b \in AdminRows /\ b.status = a.status /\ b.failed = 0 /\ b.id = a.id /\ b.super = a.super /\ b.role = a.role
  BY <1>1, Zenon DEF AdminRows
<1> HIDE DEF b
<1> QED BY <1>2, <1>3

\* What is saved has every field from one of the two.
LEMMA AdminMerged ==
  ASSUME AdminTypes, NEW e \in Emails, NEW read \in AdminRows, NEW new \in AdminRows
  PROVE  /\ Adm!Merged(e, read, new) \in AdminRows
         /\ Adm!Merged(e, read, new).id = (IF new.id = read.id THEN admin[e].id ELSE new.id)
         /\ Adm!Merged(e, read, new).super = (IF new.super = read.super THEN admin[e].super ELSE new.super)
         /\ Adm!Merged(e, read, new).status = (IF new.status = read.status THEN admin[e].status ELSE new.status)
         /\ admin[e] = read => Adm!Merged(e, read, new) = new
<1> DEFINE F == {"status", "failed", "until", "id", "role", "super"}
           m == [f \in F |-> IF new[f] = read[f] THEN admin[e][f] ELSE new[f]]
<1>1. Adm!Merged(e, read, new) = m
  BY AdminNobody DEF Adm!Merged
<1>2. admin[e] \in AdminRows
  BY DEF AdminTypes
<1>3. /\ m["status"] = (IF new.status = read.status THEN admin[e].status ELSE new.status)
      /\ m["failed"] = (IF new.failed = read.failed THEN admin[e].failed ELSE new.failed)
      /\ m["until"] = (IF new.until = read.until THEN admin[e].until ELSE new.until)
      /\ m["id"] = (IF new.id = read.id THEN admin[e].id ELSE new.id)
      /\ m["role"] = (IF new.role = read.role THEN admin[e].role ELSE new.role)
      /\ m["super"] = (IF new.super = read.super THEN admin[e].super ELSE new.super)
  OBVIOUS
<1>4. /\ m["status"] \in {"none", "active", "inactive", "suspended", "locked"} /\ m["failed"] \in Nat /\ m["until"] \in Nat
      /\ m["id"] \in Nat /\ m["role"] \in {"super_admin", "support", "none"} /\ m["super"] \in BOOLEAN
  BY <1>2, <1>3 DEF AdminRows
<1>5. m = [status |-> m["status"], failed |-> m["failed"], until |-> m["until"], id |-> m["id"], role |-> m["role"],
           super |-> m["super"]]
  OBVIOUS
<1>6. m \in AdminRows
  BY <1>4, <1>5 DEF AdminRows
<1>7. ASSUME admin[e] = read PROVE m = new
  <2>1. \A f \in F : m[f] = new[f]
    BY <1>7
  <2>2. new = [f \in F |-> new[f]]
    BY DEF AdminRows
  <2> QED BY <2>1, <2>2
<1> QED BY <1>1, <1>3, <1>6, <1>7

LEMMA AdminSlots ==
  ASSUME NEW r \in Slots, NEW h, DOMAIN work = Slots
  PROVE  /\ Adm!Finish(r) => DOMAIN work' = Slots /\ work'[r].pc = "idle" /\ \A q \in Slots : q # r => work'[q] = work[q]
         /\ Adm!Begin(r, h) => /\ DOMAIN work' = Slots /\ work[r].pc = "idle" /\ work'[r] = h
                               /\ \A q \in Slots : q # r => work'[q] = work[q]
<1>1. Adm!Idle.pc = "idle"
  BY DEF Adm!Idle
<1>2. ASSUME NEW x PROVE work' = [work EXCEPT ![r] = x] =>
        DOMAIN work' = Slots /\ work'[r] = x /\ \A q \in Slots : q # r => work'[q] = work[q]
  OBVIOUS
<1> QED BY <1>1, <1>2 DEF Adm!Finish, Adm!Begin, Adm!At

\* A change of one account's fields by another administrator.
LEMMA AdminChanged ==
  ASSUME AdminInv, NEW e \in Emails, NEW a \in AdminRows, Present(e), a.status # "none", a.id = admin[e].id,
         a.super = admin[e].super, admin' = [admin EXCEPT ![e] = a], decided' \in [Emails -> Decisions],
         UNCHANGED <<now, wrong, refused, deletions>>, work' = work, NEW r \in Slots, work[r].pc = "idle",
         \A x \in Emails : x # e => decided'[x] = decided[x],
         OneClerk => (WrongCounted(e) => WrongCounted(e)')
  PROVE  AdminInv'
<1>0. admin \in [Emails -> AdminRows]
  BY DEF AdminInv, AdminTypes
<1>1. /\ admin' \in [Emails -> AdminRows] /\ admin'[e] = a /\ \A x \in Emails : x # e => admin'[x] = admin[x]
  BY <1>0
<1>2. /\ \A x \in Emails : Present(x)' <=> Present(x)
      /\ \A x \in Emails : admin'[x].id = admin[x].id /\ admin'[x].super = admin[x].super
  BY <1>1 DEF Present
<1>3. AdminTypes'
  BY <1>1, <1>2 DEF AdminInv, AdminTypes, Present
<1>4. Adm!Everyone' = Adm!Everyone
  <2>1. admin[e] # Adm!NoAdmin /\ a # Adm!NoAdmin
    BY AdminNobody DEF Present
  <2> QED BY <1>1, <2>1 DEF Adm!Everyone, Adm!There
<1>5. FirstHere'
  BY <1>2 DEF AdminInv, FirstHere
<1>6. ASSUME OneClerk, LockEarned PROVE LockEarned'
  <2>1. \A q \in Slots : work'[q].pc = "idle"
    BY <1>6 DEF OneClerk
  <2>2. \A x \in Emails : x # e => (WrongCounted(x)' <=> WrongCounted(x))
    BY <1>1 DEF WrongCounted
  <2>3. \A x \in Emails : Present(x)' => WrongCounted(x)'
    BY <1>2, <1>6, <2>2 DEF LockEarned
  <2> QED BY <2>1, <2>3 DEF LockEarned
<1>7. OneClerk /\ Numbered => Numbered'
  <2> SUFFICES ASSUME OneClerk, Numbered PROVE Numbered'
    OBVIOUS
  <2>1. \A q \in Slots : work'[q].pc = "idle"
    BY DEF OneClerk
  <2> QED BY <1>2, <1>4, <2>1 DEF Numbered
<1>8. OneClerk' <=> OneClerk
  BY DEF OneClerk
<1> QED BY <1>3, <1>5, <1>6, <1>7, <1>8 DEF AdminInv

LEMMA AdminUpdate ==
  ASSUME AdminInv, NEW r \in Slots, NEW by \in Emails, NEW e \in Emails, NEW role \in Adm!Roles, Adm!UpdateAdmin(r, by, e, role)
  PROVE  AdminInv'
<1> DEFINE a == [admin[e] EXCEPT !.role = role]
<1>1. /\ admin' = [admin EXCEPT ![e] = a] /\ decided' = decided /\ decided \in [Emails -> Decisions] /\ work[r].pc = "idle"
      /\ UNCHANGED <<now, wrong, refused, deletions>> /\ work' = work /\ Present(e)
  BY AdminEveryone, Zenon DEF Adm!UpdateAdmin, Adm!Request, Adm!At, AdminInv, AdminTypes
<1>2. admin[e] \in AdminRows
  BY DEF AdminInv, AdminTypes
<1>3. role \in {"super_admin", "support", "none"}
  BY DEF Adm!Roles
<1>4. /\ a \in AdminRows /\ a.status = admin[e].status /\ a.failed = admin[e].failed /\ a.until = admin[e].until
      /\ a.id = admin[e].id /\ a.super = admin[e].super
  BY <1>2, <1>3, Zenon DEF AdminRows
<1> HIDE DEF a
<1>5. WrongCounted(e) => WrongCounted(e)'
  <2>1. admin'[e] = a
    BY <1>1 DEF AdminInv, AdminTypes
  <2> QED BY <1>1, <1>4, <2>1 DEF WrongCounted
<1>6. a.status # "none"
  BY <1>1, <1>4 DEF Present
<1> QED BY <1>1, <1>4, <1>5, <1>6, AdminChanged

LEMMA AdminDecide ==
  ASSUME AdminInv, NEW r \in Slots, NEW by \in Emails, NEW e \in Emails, NEW status \in Decisions,
         Adm!UpdateAdminStatus(r, by, e, status)
  PROVE  AdminInv'
<1> DEFINE a == [admin[e] EXCEPT !.status = status]
<1>1. /\ admin' = [admin EXCEPT ![e] = a] /\ decided' = [decided EXCEPT ![e] = status]
      /\ decided \in [Emails -> Decisions] /\ work[r].pc = "idle"
      /\ UNCHANGED <<now, wrong, refused, deletions>> /\ work' = work /\ Present(e)
  BY AdminEveryone, Zenon DEF Adm!UpdateAdminStatus, Adm!Request, Adm!At, AdminInv, AdminTypes
<1>2. admin[e] \in AdminRows
  BY DEF AdminInv, AdminTypes
<1>3. status \in {"none", "active", "inactive", "suspended", "locked"} /\ status # "none" /\ status # "locked"
  BY DEF Decisions
<1>4. /\ a \in AdminRows /\ a.status = status /\ a.failed = admin[e].failed /\ a.until = admin[e].until
      /\ a.id = admin[e].id /\ a.super = admin[e].super
  BY <1>2, <1>3, Zenon DEF AdminRows
<1> HIDE DEF a
<1>5. decided' \in [Emails -> Decisions] /\ decided'[e] = status /\ \A x \in Emails : x # e => decided'[x] = decided[x]
  BY <1>1
<1>6. WrongCounted(e) => WrongCounted(e)'
  <2>1. admin'[e] = a
    BY <1>1 DEF AdminInv, AdminTypes
  <2> QED BY <1>1, <1>3, <1>4, <1>5, <2>1 DEF WrongCounted
<1> QED BY <1>1, <1>3, <1>4, <1>5, <1>6, AdminChanged

\* Requests that leave the accounts alone.
LEMMA AdminSame ==
  ASSUME AdminInv, UNCHANGED <<admin, decided, wrong, refused, deletions>>, now' \in Nat, now <= now',
         DOMAIN work' = Slots, NEW r \in Slots, \A q \in Slots : q # r => work'[q] = work[q],
         \/ work'[r] = work[r]
         \/ /\ work'[r] \in [pc : {"compare"}, e : Emails, right : BOOLEAN, read : AdminRows]
            /\ work'[r].read = admin[work'[r].e] /\ work'[r].read.status # "none" /\ work'[r].read.status \in {"active", "locked"}
            /\ work'[r].read.status = "locked" => 0 < work'[r].read.until /\ work'[r].read.until <= now
         \/ /\ work'[r] \in [pc : {"insert"}, e : Emails, new : AdminRows]
            /\ work'[r].new.status = "active" /\ work'[r].new.failed = 0 /\ work'[r].new.until = 0
            /\ ~Present(work'[r].e) /\ work'[r].new.id = Cardinality(Adm!Everyone) + 1
  PROVE  AdminInv'
<1>1. AdminTypes'
  <2>1. ASSUME NEW q \in Slots
        PROVE
           /\ work'[q].pc = "compare" =>
                work'[q] \in [pc : {"compare"}, e : Emails, right : BOOLEAN, read : AdminRows] /\ work'[q].read.status # "none"
           /\ work'[q].pc = "insert" =>
                /\ work'[q] \in [pc : {"insert"}, e : Emails, new : AdminRows]
                /\ work'[q].new.status = "active" /\ work'[q].new.failed = 0 /\ work'[q].new.until = 0
    <3>1. CASE work'[q] = work[q]
      BY <3>1 DEF AdminInv, AdminTypes
    <3>2. CASE q = r /\ work'[r] # work[r]
      BY <3>2
    <3> QED BY <3>1, <3>2
  <2>2. \A e \in Emails : Present(e)' <=> Present(e)
    BY DEF Present
  <2> QED BY <2>1, <2>2 DEF AdminInv, AdminTypes
<1>2. FirstHere'
  BY DEF AdminInv, FirstHere, Present
<1>3. \A q \in Slots : work[q].pc = "compare" => work[q].read.until \in Nat
  BY DEF AdminInv, AdminTypes, AdminRows
<1>4. ASSUME OneClerk, LockEarned PROVE LockEarned'
  <2>1. \A x \in Emails : (Present(x)' <=> Present(x)) /\ (WrongCounted(x)' <=> WrongCounted(x))
    BY DEF Present, WrongCounted
  <2>2. \A q \in Slots : q = r
    BY <1>4 DEF OneClerk
  <2>3. ASSUME work'[r].pc = "compare"
        PROVE  /\ admin'[work'[r].e] = work'[r].read /\ work'[r].read.status \in {"active", "locked"}
               /\ work'[r].read.status = "locked" => 0 < work'[r].read.until /\ work'[r].read.until <= now'
    <3>1. now \in Nat
      BY DEF AdminInv, AdminTypes
    <3>2. CASE work'[r] = work[r]
      <4>1. admin[work[r].e] = work[r].read /\ work[r].read.status \in {"active", "locked"} /\ work[r].read.until \in Nat
            /\ (work[r].read.status = "locked" => 0 < work[r].read.until /\ work[r].read.until <= now)
        BY <1>3, <1>4, <2>3, <3>2 DEF LockEarned
      <4> QED BY <3>1, <3>2, <4>1
    <3>3. CASE work'[r] # work[r]
      <4>1. work'[r].read \in AdminRows /\ work'[r].read.until \in Nat
        BY <2>3, <3>3 DEF AdminRows
      <4> QED BY <2>3, <3>1, <3>3, <4>1
    <3> QED BY <3>2, <3>3
  <2> QED BY <1>4, <2>1, <2>2, <2>3 DEF LockEarned
<1>5. ASSUME OneClerk, Numbered PROVE Numbered'
  <2>1. \A q \in Slots : q = r
    BY <1>5 DEF OneClerk
  <2>2. Adm!Everyone' = Adm!Everyone
    BY DEF Adm!Everyone, Adm!There
  <2>3. work'[r].pc = "insert" => ~(admin'[work'[r].e].status # "none") /\ work'[r].new.id = Cardinality(Adm!Everyone) + 1
    BY <1>5 DEF Numbered, Present
  <2> QED BY <1>5, <2>1, <2>2, <2>3 DEF Numbered, Present
<1>6. OneClerk' <=> OneClerk
  BY DEF OneClerk
<1> QED BY <1>1, <1>2, <1>4, <1>5, <1>6 DEF AdminInv

LEMMA AdminTick == ASSUME AdminInv, Adm!Tick PROVE AdminInv'
<1>1. UNCHANGED <<admin, decided, wrong, refused, deletions, work>> /\ now' \in Nat /\ now <= now' /\ DOMAIN work' = Slots
  BY DEF Adm!Tick, AdminInv, AdminTypes
<1>2. CASE Slots = {}
  BY <1>1, <1>2 DEF AdminInv, AdminTypes, FirstHere, LockEarned, WrongCounted, Numbered, Present, OneClerk, Adm!Everyone, Adm!There
<1>3. ASSUME NEW r \in Slots PROVE AdminInv'
  BY <1>1, AdminSame
<1> QED BY <1>2, <1>3

LEMMA AdminLogin ==
  ASSUME AdminInv, NEW r \in Slots, NEW e \in Emails, NEW right \in BOOLEAN, Adm!Login(r, e, right)
  PROVE  AdminInv'
<1>1. PICK h : h = [pc |-> "compare", e |-> e, right |-> right, read |-> admin[e]]
  OBVIOUS
<1>2. /\ Adm!Begin(r, h) /\ UNCHANGED <<admin, decided, wrong, refused, deletions, now>> /\ DOMAIN work = Slots
      /\ now \in Nat /\ Present(e) /\ admin[e] \in AdminRows /\ Adm!Unlock(admin[e]).status = "active"
  BY <1>1, AdminEveryone DEF Adm!Login, AdminInv, AdminTypes
<1>3. DOMAIN work' = Slots /\ work'[r] = h /\ \A q \in Slots : q # r => work'[q] = work[q]
  BY <1>2, AdminSlots
<1>4. h \in [pc : {"compare"}, e : Emails, right : BOOLEAN, read : AdminRows] /\ h.read = admin[e] /\ h.e = e
  BY <1>1, <1>2
<1>5. /\ admin[e].status \in {"active", "locked"} /\ admin[e].status # "none"
      /\ admin[e].status = "locked" => 0 < admin[e].until /\ admin[e].until <= now
  BY <1>2, AdminUnlock DEF Present
<1> QED BY <1>2, <1>3, <1>4, <1>5, AdminSame

LEMMA AdminCreate ==
  ASSUME AdminInv, NEW r \in Slots, NEW by \in Emails, NEW e \in Emails, NEW role \in Adm!Roles, Adm!CreateAdmin(r, by, e, role),
         IsFiniteSet(Emails)
  PROVE  AdminInv'
<1>1. PICK n : n = Cardinality(Adm!Everyone) + 1
  OBVIOUS
<1>2. Adm!NextId = n
  BY <1>1 DEF Adm!NextId, Adm!Cardinality, Cardinality
<1>3. n \in Nat
  <2>1. Adm!Everyone \subseteq Emails
    BY DEF Adm!Everyone
  <2>2. Cardinality(Adm!Everyone) \in Nat
    BY <2>1, FS_Subset, FS_CardinalityType
  <2> QED BY <1>1, <2>2
<1>4. PICK a : a = Adm!New(n, role)
  OBVIOUS
<1>5. a \in AdminRows /\ a.status = "active" /\ a.failed = 0 /\ a.until = 0 /\ a.id = n
  BY <1>3, <1>4 DEF Adm!New, Adm!Roles, AdminRows
<1>6. PICK h : h = [pc |-> "insert", e |-> e, new |-> a]
  OBVIOUS
<1>7. /\ Adm!Begin(r, h) /\ UNCHANGED <<admin, decided, wrong, refused, deletions, now>> /\ DOMAIN work = Slots
      /\ now \in Nat /\ ~Present(e)
  BY <1>2, <1>4, <1>6, AdminEveryone DEF Adm!CreateAdmin, AdminInv, AdminTypes
<1>8. DOMAIN work' = Slots /\ work'[r] = h /\ \A q \in Slots : q # r => work'[q] = work[q]
  BY <1>7, AdminSlots
<1>9. h \in [pc : {"insert"}, e : Emails, new : AdminRows] /\ h.new = a /\ h.e = e
  BY <1>5, <1>6
<1>10. now <= now' /\ now' \in Nat
  BY <1>7
<1> QED BY <1>1, <1>5, <1>7, <1>8, <1>9, <1>10, AdminSame

LEMMA AdminLeft ==
  ASSUME now \in Nat, NEW a \in AdminRows, a.status # "none", NEW right \in BOOLEAN
  PROVE  /\ Left(a, right) \in AdminRows /\ Left(a, right).id = a.id /\ Left(a, right).super = a.super
         /\ Left(a, right).status # "none"
         /\ a.status = "active" \/ (a.status = "locked" /\ 0 < a.until /\ a.until <= now) =>
              /\ Left(a, right).failed = (IF right THEN 0 ELSE IF a.status = "locked" THEN 1 ELSE a.failed + 1)
              /\ Left(a, right).failed >= 5 => Left(a, right).until > 0
              /\ Left(a, right).status = "locked" => Left(a, right).failed >= 5
<1>1. PICK u : u = Adm!Unlock(a)
  OBVIOUS
<1>2. /\ u \in AdminRows /\ u.id = a.id /\ u.super = a.super /\ u.status # "none"
      /\ a.status = "active" => u = a
      /\ a.status = "locked" /\ 0 < a.until /\ a.until <= now => u.status = "active" /\ u.failed = 0
  BY <1>1, AdminUnlock
<1>3. u.failed \in Nat /\ a.failed \in Nat
  BY <1>2 DEF AdminRows
<1>4. CASE right
  <2>1. PICK b : b = Adm!Right(u)
    OBVIOUS
  <2>2. b \in AdminRows /\ b.id = u.id /\ b.super = u.super /\ b.failed = 0 /\ b.status = u.status
    BY <1>2, <2>1, AdminRight
  <2>3. Left(a, right) = b
    BY <1>1, <1>4, <2>1 DEF Left
  <2>4. a.status = "active" \/ (a.status = "locked" /\ 0 < a.until /\ a.until <= now) => b.status = "active"
    BY <1>2, <2>2
  <2>5. b.failed = 0 /\ ~(b.failed >= 5)
    BY <2>2
  <2>6. b \in AdminRows /\ b.id = a.id /\ b.super = a.super /\ b.status # "none"
    BY <1>2, <2>2
  <2> QED BY <1>4, <2>3, <2>4, <2>5, <2>6
<1>5. CASE ~right
  <2>1. PICK b : b = Adm!Wrong(u)
    OBVIOUS
  <2>2. /\ b \in AdminRows /\ b.id = u.id /\ b.super = u.super /\ b.failed = u.failed + 1
        /\ u.failed < 4 => b.status = u.status
        /\ ~(u.failed < 4) => b.status = "locked" /\ b.until = now + 1
    BY <1>2, <2>1, AdminWrong
  <2>3. Left(a, right) = b
    BY <1>1, <1>5, <2>1 DEF Left
  <2>4. b.status # "none"
    BY <1>2, <2>2
  <2>5. ASSUME a.status = "active" \/ (a.status = "locked" /\ 0 < a.until /\ a.until <= now)
        PROVE  u.status = "active" /\ u.failed = IF a.status = "locked" THEN 0 ELSE a.failed
    BY <1>2, <2>5
  <2> QED BY <1>2, <1>3, <1>5, <2>2, <2>3, <2>4, <2>5
<1> QED BY <1>4, <1>5

\* The answer to a login is saved over the account as it is by then.
LEMMA AdminCompare == ASSUME AdminInv, NEW r \in Slots, Adm!Compare(r) PROVE AdminInv'
<1>1. PICK h : h = work[r]
  OBVIOUS
<1>2. /\ h \in [pc : {"compare"}, e : Emails, right : BOOLEAN, read : AdminRows] /\ h.read.status # "none"
      /\ work[r].pc = "compare" /\ DOMAIN work = Slots
  BY <1>1 DEF Adm!Compare, Adm!At, AdminInv, AdminTypes
<1>3. PICK e \in Emails : e = h.e
  BY <1>2
<1>4. PICK read \in AdminRows : read = h.read
  BY <1>2
<1>5. PICK new : new = Left(read, h.right)
  OBVIOUS
<1>6. now \in Nat /\ admin \in [Emails -> AdminRows] /\ h.right \in BOOLEAN /\ read.status # "none" /\ wrong \in [Emails -> Nat]
  BY <1>2, <1>4 DEF AdminInv, AdminTypes
<1>7. /\ new \in AdminRows /\ new.id = read.id /\ new.super = read.super /\ new.status # "none"
      /\ read.status = "active" \/ (read.status = "locked" /\ 0 < read.until /\ read.until <= now) =>
           /\ new.failed = (IF h.right THEN 0 ELSE IF read.status = "locked" THEN 1 ELSE read.failed + 1)
           /\ new.failed >= 5 => new.until > 0
           /\ new.status = "locked" => new.failed >= 5
  BY <1>5, <1>6, AdminLeft
<1>8. PICK m : m = Adm!Merged(e, read, new)
  OBVIOUS
<1>9. /\ m \in AdminRows /\ m.id = admin[e].id /\ m.super = admin[e].super
      /\ m.status = (IF new.status = read.status THEN admin[e].status ELSE new.status)
      /\ admin[e] = read => m = new
  BY <1>7, <1>8, AdminMerged DEF AdminInv
<1>10. PICK w \in Nat : w = IF h.right THEN 0 ELSE IF read.status = "locked" THEN 1 ELSE wrong[e] + 1
  BY <1>6
<1>11. /\ admin' = IF ~Adm!There(e) \/ admin[e].id # read.id THEN admin ELSE [admin EXCEPT ![e] = m]
       /\ wrong' = [wrong EXCEPT ![e] = w]
       /\ UNCHANGED <<now, decided, refused, deletions>> /\ Adm!Finish(r)
  BY <1>1, <1>3, <1>4, <1>5, <1>8, <1>10 DEF Adm!Compare, Left
<1>12. DOMAIN work' = Slots /\ work'[r].pc = "idle" /\ \A q \in Slots : q # r => work'[q] = work[q]
  BY <1>2, <1>11, AdminSlots
<1>13. wrong' \in [Emails -> Nat] /\ wrong'[e] = w /\ \A x \in Emails : x # e => wrong'[x] = wrong[x]
  BY <1>6, <1>11
<1>14. /\ admin' \in [Emails -> AdminRows] /\ \A x \in Emails : x # e => admin'[x] = admin[x]
       /\ admin'[e] = admin[e] \/ (admin'[e] = m /\ Present(e) /\ admin[e].id = read.id)
       /\ admin[e] = read => admin'[e] = new
  <2>1. Adm!There(e) <=> Present(e)
    BY AdminEveryone DEF AdminInv
  <2>2. admin[e] = read => Present(e)
    BY <1>6 DEF Present
  <2>3. CASE ~Adm!There(e) \/ admin[e].id # read.id
    BY <1>6, <1>11, <2>1, <2>2, <2>3
  <2>4. CASE Adm!There(e) /\ admin[e].id = read.id
    BY <1>6, <1>9, <1>11, <2>1, <2>4
  <2> QED BY <2>3, <2>4
<1>15. admin'[e].id = admin[e].id /\ admin'[e].super = admin[e].super /\ (Present(e)' <=> Present(e))
  BY <1>7, <1>9, <1>14 DEF Present
<1>16. \A x \in Emails : (Present(x)' <=> Present(x)) /\ admin'[x].id = admin[x].id /\ admin'[x].super = admin[x].super
  BY <1>14, <1>15 DEF Present
<1>17. Adm!Everyone' = Adm!Everyone
  <2>1. Adm!NoAdmin.status = "none"
    BY AdminNobody
  <2>2. \A x \in Emails : admin'[x] = Adm!NoAdmin \/ Present(x)'
    BY <1>14, <1>16 DEF AdminInv, AdminTypes, Present
  <2>3. \A x \in Emails : Adm!There(x)' <=> Adm!There(x)
    BY <1>16, <2>1, <2>2 DEF Adm!There, Present, AdminInv, AdminTypes
  <2> QED BY <2>3 DEF Adm!Everyone
<1>18. AdminTypes'
  <2>1. \A x \in Emails : admin'[x] = Adm!NoAdmin \/ Present(x)'
    BY <1>14, <1>16 DEF AdminInv, AdminTypes, Present
  <2> QED BY <1>11, <1>12, <1>13, <1>14, <2>1 DEF AdminInv, AdminTypes
<1>19. FirstHere'
  BY <1>16 DEF AdminInv, FirstHere
<1>20. ASSUME OneClerk, LockEarned PROVE LockEarned'
  <2>1. \A q \in Slots : work'[q].pc = "idle"
    BY <1>12, <1>20 DEF OneClerk
  <2>2. /\ admin[e] = read /\ read.status \in {"active", "locked"}
        /\ read.status = "locked" => 0 < read.until /\ read.until <= now
    BY <1>1, <1>2, <1>3, <1>4, <1>20 DEF LockEarned
  <2>3. WrongCounted(e)
    BY <1>6, <1>20, <2>2 DEF LockEarned, Present
  <2>4. decided[e] = "active"
    <3>1. decided[e] \in Decisions
      BY DEF AdminInv, AdminTypes
    <3> QED BY <2>2, <2>3, <3>1 DEF WrongCounted, Decisions
  <2>5. admin'[e] = new /\ new.failed = w
    <3>0. admin[e].failed = wrong[e]
      BY <2>3 DEF WrongCounted
    <3>1. read.failed = wrong[e] /\ admin'[e] = new
      BY <1>14, <2>2, <3>0
    <3>2. new.failed = (IF h.right THEN 0 ELSE IF read.status = "locked" THEN 1 ELSE read.failed + 1)
      BY <1>7, <2>2
    <3> QED BY <1>10, <3>1, <3>2
  <2>6. WrongCounted(e)'
    BY <1>7, <1>11, <1>13, <2>2, <2>4, <2>5 DEF WrongCounted
  <2>7. \A x \in Emails : x # e => (WrongCounted(x)' <=> WrongCounted(x))
    BY <1>11, <1>13, <1>14 DEF WrongCounted
  <2>8. \A x \in Emails : Present(x)' => WrongCounted(x)'
    BY <1>16, <1>20, <2>6, <2>7 DEF LockEarned
  <2> QED BY <2>1, <2>8 DEF LockEarned
<1>21. ASSUME OneClerk, Numbered PROVE Numbered'
  <2>1. \A q \in Slots : work'[q].pc = "idle"
    BY <1>12, <1>21 DEF OneClerk
  <2> QED BY <1>11, <1>16, <1>17, <1>21, <2>1 DEF Numbered
<1>22. (OneClerk' <=> OneClerk) /\ deletions' = deletions
  BY <1>11 DEF OneClerk
<1> QED BY <1>18, <1>19, <1>20, <1>21, <1>22 DEF AdminInv

LEMMA AdminInsert == ASSUME AdminInv, NEW r \in Slots, Adm!Insert(r), IsFiniteSet(Emails) PROVE AdminInv'
<1>1. PICK h : h = work[r]
  OBVIOUS
<1>2. /\ h \in [pc : {"insert"}, e : Emails, new : AdminRows] /\ work[r].pc = "insert" /\ DOMAIN work = Slots
      /\ h.new.status = "active" /\ h.new.failed = 0 /\ h.new.until = 0
  BY <1>1 DEF Adm!Insert, Adm!At, AdminInv, AdminTypes
<1>3. PICK e \in Emails : e = h.e
  BY <1>2
<1>4. PICK new \in AdminRows : new = h.new
  BY <1>2
<1>5. new.status = "active" /\ new.failed = 0 /\ new.until = 0
  BY <1>2, <1>4
<1>6. PICK used \in BOOLEAN : used = (Adm!There(e) \/ \E x \in Emails : admin[x].id = new.id)
  OBVIOUS
<1>7. /\ admin' = (IF used THEN admin ELSE [admin EXCEPT ![e] = new])
      /\ decided' = (IF used THEN decided ELSE [decided EXCEPT ![e] = "active"])
      /\ wrong' = (IF used THEN wrong ELSE [wrong EXCEPT ![e] = 0])
      /\ refused' = refused + (IF used THEN 1 ELSE 0)
      /\ UNCHANGED <<now, deletions>> /\ Adm!Finish(r)
  BY <1>1, <1>3, <1>4, <1>6 DEF Adm!Insert
<1>8. DOMAIN work' = Slots /\ work'[r].pc = "idle" /\ \A q \in Slots : q # r => work'[q] = work[q]
  BY <1>2, <1>7, AdminSlots
<1>9. /\ admin \in [Emails -> AdminRows] /\ decided \in [Emails -> Decisions] /\ wrong \in [Emails -> Nat] /\ refused \in Nat
      /\ "active" \in Decisions
  BY DEF AdminInv, AdminTypes, Decisions
<1>10. CASE used
  <2>1. UNCHANGED <<admin, decided, wrong, now, deletions>> /\ refused' = refused + 1
    BY <1>7, <1>10
  <2>2. AdminTypes'
    BY <1>8, <1>9, <2>1 DEF AdminInv, AdminTypes, Present
  <2>3. FirstHere'
    BY <2>1 DEF AdminInv, FirstHere, Present
  <2>4. ASSUME OneClerk, LockEarned PROVE LockEarned'
    <3>1. \A q \in Slots : work'[q].pc = "idle"
      BY <1>8, <2>4 DEF OneClerk
    <3> QED BY <2>1, <2>4, <3>1 DEF LockEarned, Present, WrongCounted
  <2>5. ASSUME Numbered PROVE FALSE
    <3>1. ~Present(e) /\ new.id = Cardinality(Adm!Everyone) + 1
      BY <1>1, <1>2, <1>3, <1>4, <2>5 DEF Numbered
    <3>2. Cardinality(Adm!Everyone) \in Nat
      <4>1. Adm!Everyone \subseteq Emails
        BY DEF Adm!Everyone
      <4> QED BY <4>1, FS_Subset, FS_CardinalityType
    <3>3. ~Adm!There(e)
      BY <3>1, AdminEveryone DEF AdminInv
    <3>4. PICK x \in Emails : admin[x].id = new.id
      BY <1>6, <1>10, <3>3
    <3>5. admin[x].id <= Cardinality(Adm!Everyone)
      BY <2>5 DEF Numbered
    <3> QED BY <3>1, <3>2, <3>4, <3>5
  <2>6. (OneClerk' <=> OneClerk) /\ deletions' = deletions
    BY <2>1 DEF OneClerk
  <2> QED BY <2>2, <2>3, <2>4, <2>5, <2>6 DEF AdminInv
<1>11. CASE ~used
  <2>1. /\ admin' = [admin EXCEPT ![e] = new] /\ decided' = [decided EXCEPT ![e] = "active"] /\ wrong' = [wrong EXCEPT ![e] = 0]
        /\ refused' = refused /\ UNCHANGED <<now, deletions>>
    BY <1>7, <1>9, <1>11
  <2>2. /\ admin' \in [Emails -> AdminRows] /\ admin'[e] = new /\ \A x \in Emails : x # e => admin'[x] = admin[x]
        /\ decided' \in [Emails -> Decisions] /\ decided'[e] = "active" /\ \A x \in Emails : x # e => decided'[x] = decided[x]
        /\ wrong' \in [Emails -> Nat] /\ wrong'[e] = 0 /\ \A x \in Emails : x # e => wrong'[x] = wrong[x]
    BY <1>9, <2>1
  <2>3. ~Present(e) /\ Present(e)' /\ \A x \in Emails : x # e => (Present(x)' <=> Present(x))
    BY <1>5, <1>6, <1>11, <2>2, AdminEveryone DEF AdminInv, Present
  <2>4. AdminTypes'
    <3>1. \A x \in Emails : admin'[x] = Adm!NoAdmin \/ Present(x)'
      BY <2>2, <2>3 DEF AdminInv, AdminTypes
    <3> QED BY <1>8, <1>9, <2>1, <2>2, <3>1 DEF AdminInv, AdminTypes
  <2>5. FirstHere'
    BY <2>2, <2>3 DEF AdminInv, FirstHere
  <2>6. ASSUME OneClerk, LockEarned PROVE LockEarned'
    <3>1. \A q \in Slots : work'[q].pc = "idle"
      BY <1>8, <2>6 DEF OneClerk
    <3>2. WrongCounted(e)'
      BY <1>5, <2>2 DEF WrongCounted
    <3>3. \A x \in Emails : x # e => (WrongCounted(x)' <=> WrongCounted(x))
      BY <2>2 DEF WrongCounted
    <3>4. \A x \in Emails : Present(x)' => WrongCounted(x)'
      BY <2>3, <2>6, <3>2, <3>3 DEF LockEarned
    <3> QED BY <3>1, <3>4 DEF LockEarned
  <2>7. ASSUME OneClerk, Numbered PROVE Numbered'
    <3>1. \A q \in Slots : work'[q].pc = "idle"
      BY <1>8, <2>7 DEF OneClerk
    <3>2. PICK S : S = Adm!Everyone
      OBVIOUS
    <3>3. S = {x \in Emails : Present(x)} /\ IsFiniteSet(S) /\ e \notin S
      BY <2>3, <3>2, AdminEveryone, FS_Subset DEF AdminInv
    <3>4. Adm!Everyone' = S \cup {e}
      <4>1. Adm!NoAdmin.status = "none"
        BY AdminNobody
      <4>2. \A x \in Emails : admin'[x] = Adm!NoAdmin \/ Present(x)'
        BY <2>4 DEF AdminTypes
      <4>3. \A x \in Emails : Adm!There(x)' <=> Present(x)'
        BY <4>1, <4>2 DEF Adm!There, Present
      <4>4. Adm!Everyone' = {x \in Emails : Present(x)'}
        BY <4>3 DEF Adm!Everyone
      <4> QED BY <2>3, <3>3, <4>4
    <3>5. Cardinality(S) \in Nat /\ Cardinality(S \cup {e}) = Cardinality(S) + 1
      BY <3>3, FS_CardinalityType, FS_AddElement
    <3>6. new.id = Cardinality(S) + 1
      BY <1>1, <1>2, <1>4, <2>7, <3>2 DEF Numbered
    <3>7. \A x \in Emails : admin[x].id <= Cardinality(S) /\ admin[x].id \in Nat
      BY <1>9, <2>7, <3>2 DEF Numbered, AdminRows
    <3>8. PICK c \in Nat : c = Cardinality(S)
      BY <3>5
    <3>9. \A x \in Emails : admin'[x].id <= c + 1
      <4> TAKE x \in Emails
      <4>1. CASE x = e
        BY <2>2, <3>6, <3>8, <4>1
      <4>2. CASE x # e
        BY <2>2, <3>7, <3>8, <4>2
      <4> QED BY <4>1, <4>2
    <3> QED BY <2>1, <2>7, <3>1, <3>4, <3>5, <3>8, <3>9 DEF Numbered
  <2>8. (OneClerk' <=> OneClerk) /\ deletions' = deletions
    BY <2>1 DEF OneClerk
  <2> QED BY <2>4, <2>5, <2>6, <2>7, <2>8 DEF AdminInv
<1> QED BY <1>10, <1>11

LEMMA AdminDelete ==
  ASSUME AdminInv, NEW r \in Slots, NEW by \in Emails, NEW e \in Emails, Adm!DeleteAdmin(r, by, e)
  PROVE  AdminInv'
<1>1. /\ admin' = [admin EXCEPT ![e] = Adm!NoAdmin] /\ deletions' = deletions + 1 /\ work[r].pc = "idle" /\ work' = work
      /\ UNCHANGED <<now, decided, wrong, refused>> /\ admin[e].super # TRUE
  BY DEF Adm!DeleteAdmin, Adm!Request, Adm!At
<1>2. admin \in [Emails -> AdminRows] /\ deletions \in Nat
  BY DEF AdminInv, AdminTypes
<1>3. /\ admin' \in [Emails -> AdminRows] /\ admin'[e] = Adm!NoAdmin /\ ~Present(e)'
      /\ \A x \in Emails : x # e => admin'[x] = admin[x]
  BY <1>1, <1>2, AdminNobody DEF Present
<1>4. AdminTypes'
  BY <1>1, <1>2, <1>3 DEF AdminInv, AdminTypes, Present
<1>5. FirstHere'
  BY <1>1, <1>3 DEF AdminInv, FirstHere, Present
<1>6. ASSUME OneClerk, LockEarned PROVE LockEarned'
  <2>1. \A q \in Slots : work'[q].pc = "idle"
    BY <1>1, <1>6 DEF OneClerk
  <2>2. \A x \in Emails : x # e => (WrongCounted(x)' <=> WrongCounted(x)) /\ (Present(x)' <=> Present(x))
    BY <1>1, <1>3 DEF WrongCounted, Present
  <2>3. \A x \in Emails : Present(x)' => WrongCounted(x)'
    BY <1>3, <1>6, <2>2 DEF LockEarned
  <2> QED BY <2>1, <2>3 DEF LockEarned
<1>7. deletions' # 0
  BY <1>1, <1>2
<1>8. OneClerk' <=> OneClerk
  BY DEF OneClerk
<1> QED BY <1>4, <1>5, <1>6, <1>7, <1>8 DEF AdminInv

LEMMA AdminNext == ASSUME IsFiniteSet(Emails) PROVE AdminInv /\ [Adm!Next]_(Adm!avars) => AdminInv'
<1> SUFFICES ASSUME AdminInv, [Adm!Next]_(Adm!avars) PROVE AdminInv'
  OBVIOUS
<1>1. CASE UNCHANGED Adm!avars
  BY <1>1 DEF Adm!avars, AdminInv, AdminTypes, FirstHere, LockEarned, WrongCounted, Numbered, Present, OneClerk, Adm!Everyone, Adm!There
<1>2. CASE Adm!Tick
  BY <1>2, AdminTick
<1>3. CASE \E r \in Slots : Adm!Compare(r) \/ Adm!Insert(r)
  BY <1>3, AdminCompare, AdminInsert
<1>4. CASE \E r \in Slots, e \in Emails, right \in BOOLEAN : Adm!Login(r, e, right)
  BY <1>4, AdminLogin
<1>5. CASE \E r \in Slots, by, e \in Emails, role \in Adm!Roles : Adm!CreateAdmin(r, by, e, role)
  BY <1>5, AdminCreate
<1>6. CASE \E r \in Slots, by, e \in Emails :
             \/ \E role \in Adm!Roles : Adm!UpdateAdmin(r, by, e, role)
             \/ \E status \in {"active", "inactive", "suspended"} : Adm!UpdateAdminStatus(r, by, e, status)
             \/ Adm!DeleteAdmin(r, by, e)
  BY <1>6, AdminUpdate, AdminDecide, AdminDelete DEF Decisions
<1> QED BY <1>1, <1>2, <1>3, <1>4, <1>5, <1>6 DEF Adm!Next

LEMMA AdminInit == ASSUME IsFiniteSet(Emails) PROVE Adm!Init => AdminInv
<1> SUFFICES ASSUME Adm!Init PROVE AdminInv
  OBVIOUS
<1>1. /\ admin = [e \in Emails |-> IF e = First THEN Adm!New(1, "super_admin") ELSE Adm!NoAdmin] /\ now = 1
      /\ decided = [e \in Emails |-> "active"] /\ wrong = [e \in Emails |-> 0] /\ refused = 0 /\ deletions = 0
      /\ work = [r \in Slots |-> Adm!Idle]
  BY DEF Adm!Init, Adm!NoHandler
<1>2. PICK a : a = Adm!New(1, "super_admin")
  OBVIOUS
<1>3. a \in AdminRows /\ a.status = "active" /\ a.failed = 0 /\ a.until = 0 /\ a.id = 1 /\ a.super = TRUE
  BY <1>2 DEF Adm!New, AdminRows
<1>4. /\ admin \in [Emails -> AdminRows] /\ \A e \in Emails : e = First => admin[e] = a
      /\ \A e \in Emails : e # First => admin[e] = Adm!NoAdmin
  BY <1>1, <1>2, <1>3, AdminNobody
<1>5. DOMAIN work = Slots /\ \A r \in Slots : work[r].pc = "idle"
  BY <1>1 DEF Adm!Idle
<1>6. \A e \in Emails : (Present(e) <=> e = First)
  BY <1>3, <1>4, AdminNobody DEF Present
<1>7. AdminTypes
  <2>1. decided \in [Emails -> Decisions] /\ wrong \in [Emails -> Nat] /\ now \in Nat /\ refused \in Nat /\ deletions \in Nat
    BY <1>1 DEF Decisions
  <2>2. \A e \in Emails : admin[e] = Adm!NoAdmin \/ Present(e)
    BY <1>4, <1>6
  <2> QED BY <1>4, <1>5, <2>1, <2>2 DEF AdminTypes
<1>8. FirstHere
  BY <1>3, <1>4, <1>6 DEF FirstHere
<1>9. LockEarned
  <2>1. ASSUME NEW e \in Emails, Present(e) PROVE WrongCounted(e)
    BY <1>1, <1>3, <1>4, <1>6, <2>1 DEF WrongCounted
  <2> QED BY <1>5, <2>1 DEF LockEarned
<1>10. Numbered
  <2>1. PICK S : S = Adm!Everyone
    OBVIOUS
  <2>2. S = {e \in Emails : e = First} /\ IsFiniteSet(S)
    BY <1>6, <1>7, <2>1, AdminEveryone, FS_Subset
  <2>3. PICK c \in Nat : c = Cardinality(S)
    BY <2>2, FS_CardinalityType
  <2>4. ASSUME NEW e \in Emails PROVE admin[e].id <= c
    <3>1. CASE e = First
      <4>1. c # 0
        BY <2>2, <2>3, <3>1, FS_EmptySet
      <4> QED BY <1>3, <1>4, <3>1, <4>1
    <3>2. CASE e # First
      BY <1>4, <3>2, AdminNobody
    <3> QED BY <3>1, <3>2
  <2> QED BY <1>1, <1>5, <2>1, <2>3, <2>4 DEF Numbered
<1> QED BY <1>7, <1>8, <1>9, <1>10 DEF AdminInv

LEMMA AdminInvariance == ASSUME IsFiniteSet(Emails) PROVE Adm!Spec => []AdminInv
<1>1. Adm!Init => AdminInv
  BY AdminInit
<1>2. AdminInv /\ [Adm!Next]_(Adm!avars) => AdminInv'
  BY AdminNext
<1> QED BY <1>1, <1>2, PTL DEF Adm!Spec

LEMMA AdminAlone == ASSUME IsFiniteSet(Slots), AdminInv, Adm!OneAtATime PROVE OneClerk
<1>1. Adm!Cardinality(Slots) = Cardinality(Slots)
  BY DEF Adm!Cardinality, Cardinality
<1>2. DOMAIN work = Slots /\ Cardinality(Slots) = 1
  BY <1>1 DEF AdminInv, AdminTypes, Adm!OneAtATime
<1>3. PICK x : Slots = {x}
  BY <1>2, FS_Singleton
<1> QED BY <1>3 DEF OneClerk

\* "Prevent deleting super admins": any requests overlap, roles are changed
\* meanwhile, and the account that was there from the beginning is kept.
THEOREM AdminFirstIsKept == ASSUME IsFiniteSet(Emails), First \in Emails PROVE Adm!Spec => []Adm!FirstIsKept
<1>1. AdminInv => Adm!FirstIsKept
  BY AdminEveryone DEF AdminInv, FirstHere, Adm!FirstIsKept
<1> QED BY <1>1, AdminInvariance, PTL

\* "Lock account after 5 failed attempts": one login at a time, an account is
\* locked after five wrong passwords in a row and not before them, over any
\* locks that expired and any changes by other administrators.
THEOREM AdminLockIsEarned ==
  ASSUME IsFiniteSet(Emails), IsFiniteSet(Slots) PROVE Adm!Spec => []Adm!LockIsEarned
<1>1. AdminInv => Adm!LockIsEarned
  <2> SUFFICES ASSUME AdminInv, Adm!OneAtATime, NEW e \in Adm!Everyone
               PROVE  /\ admin[e].status = "locked" => wrong[e] >= 5
                      /\ wrong[e] >= 5 => admin[e].until > 0
    BY DEF Adm!LockIsEarned
  <2>1. e \in Emails /\ Present(e)
    BY AdminEveryone DEF AdminInv
  <2>2. WrongCounted(e)
    BY <2>1, AdminAlone DEF AdminInv, LockEarned
  <2>3. admin[e].failed = wrong[e]
    BY <2>2 DEF WrongCounted
  <2> QED BY <2>2, <2>3 DEF WrongCounted
<1> QED BY <1>1, AdminInvariance, PTL

\* One request at a time: no lock that expires and no login brings back whom an
\* administrator suspended or made inactive.
THEOREM AdminSuspendedStaysOut ==
  ASSUME IsFiniteSet(Emails), IsFiniteSet(Slots) PROVE Adm!Spec => []Adm!SuspendedStaysOut
<1>1. AdminInv => Adm!SuspendedStaysOut
  BY AdminEveryone, AdminAlone DEF AdminInv, LockEarned, WrongCounted, Adm!SuspendedStaysOut
<1> QED BY <1>1, AdminInvariance, PTL

\* One request at a time and until an account is deleted, the number of accounts
\* and one is an id that no account has.
THEOREM AdminIdIsFree == ASSUME IsFiniteSet(Emails), IsFiniteSet(Slots) PROVE Adm!Spec => []Adm!IdIsFree
<1>1. AdminInv => Adm!IdIsFree
  BY AdminAlone DEF AdminInv, Numbered, Adm!IdIsFree
<1> QED BY <1>1, AdminInvariance, PTL

----------------
(* Eighth part: what a login leaves behind, in Tokens.                     *)

CONSTANTS Devices, None, NameOf, Access, Refreshing, MaxNumbers, MaxLogins
VARIABLES issued, devices, throttled, lastActive, logins, rewritten, gone

Tok == INSTANCE Tokens

Hashes == Nat \X {"otp", "truecaller"}
\* A token, or the answer of a login that is about to be given, was made for a
\* number the account has or had; and as long as no login by code replaced
\* Truecaller's hash, for the hash the account has if it has that number.
Fits(n, h) ==
  /\ h \in Hashes /\ h[1] = n /\ n <= account.number
  /\ Role = "user" /\ rewritten = FALSE /\ n = account.number => h = account.hash
TokenInv ==
  /\ account \in [status : {"active", "inactive", "suspended"}, number : Nat, hash : Hashes]
  /\ account.hash[1] = account.number /\ rewritten \in BOOLEAN /\ DOMAIN work = Slots
  /\ \A t \in issued : Fits(t.number, t.hash)
  /\ \A r \in Slots : work[r].pc = "login" => Fits(work[r].number, work[r].hash)
  /\ \A r \in Slots : work[r].pc = "logout" => work[r] \in [pc : {"logout"}, d : {work[r].d}, seen : {work[r].seen}]
  /\ lastActive = served /\ throttled \in BOOLEAN
  /\ throttled = TRUE => served = now

LEMMA TokenPair ==
  ASSUME NEW n, NEW h, NEW t \in Tok!Pair(n, h) PROVE t.number = n /\ t.hash = h
BY DEF Tok!Pair

LEMMA TokenHash ==
  ASSUME NEW n \in Nat, NEW by \in Tok!Methods PROVE Tok!Hash(n, by) \in Hashes /\ Tok!Hash(n, by)[1] = n
BY DEF Tok!Hash, Tok!Methods, Hashes

LEMMA TokenSlots ==
  ASSUME NEW r \in Slots, DOMAIN work = Slots
  PROVE  /\ Tok!Finish(r) => DOMAIN work' = Slots /\ work'[r].pc = "idle" /\ \A q \in Slots : q # r => work'[q] = work[q]
         /\ \A h : Tok!Begin(r, h) => /\ DOMAIN work' = Slots /\ work'[r] = h
                                      /\ \A q \in Slots : q # r => work'[q] = work[q]
<1>1. Tok!Idle.pc = "idle"
  BY DEF Tok!Idle
<1>2. \A x : work' = [work EXCEPT ![r] = x] =>
        DOMAIN work' = Slots /\ work'[r] = x /\ \A q \in Slots : q # r => work'[q] = work[q]
  OBVIOUS
<1> QED BY <1>1, <1>2 DEF Tok!Finish, Tok!Begin

\* Requests that leave account and clock alone and hand out tokens that fit.
LEMMA TokenIssued ==
  ASSUME TokenInv, UNCHANGED <<account, rewritten, lastActive, served, throttled, now>>, DOMAIN work' = Slots,
         \A t \in issued' : Fits(t.number, t.hash),
         \A r \in Slots : work'[r].pc = "login" => work'[r] = work[r],
         \A r \in Slots : work'[r].pc = "logout" =>
           work'[r] = work[r] \/ work'[r] \in [pc : {"logout"}, d : {work'[r].d}, seen : {work'[r].seen}]
  PROVE  TokenInv'
<1>1. \A n, h : Fits(n, h)' <=> Fits(n, h)
  BY DEF Fits
<1>2. \A t \in issued' : Fits(t.number, t.hash)'
  BY DEF Fits
<1>3. ASSUME NEW r \in Slots, work'[r].pc = "login" PROVE Fits(work[r].number, work[r].hash)
  BY <1>3 DEF TokenInv
<1>4. \A r \in Slots : work'[r].pc = "logout" => work'[r] \in [pc : {"logout"}, d : {work'[r].d}, seen : {work'[r].seen}]
  BY DEF TokenInv
<1> QED BY <1>2, <1>3, <1>4 DEF TokenInv, Fits

LEMMA TokenSaveLogin == ASSUME TokenInv, NEW r \in Slots, Tok!SaveLogin(r) \/ Tok!LoginThrows(r) PROVE TokenInv'
<1>1. /\ work[r].pc = "login" /\ Tok!Finish(r) /\ UNCHANGED <<account, rewritten, lastActive, served, throttled, now>>
      /\ issued' \subseteq issued \cup Tok!Pair(work[r].number, work[r].hash) /\ DOMAIN work = Slots
  BY DEF Tok!SaveLogin, Tok!LoginThrows, Tok!At, TokenInv
<1>2. DOMAIN work' = Slots /\ work'[r].pc = "idle" /\ \A q \in Slots : q # r => work'[q] = work[q]
  BY <1>1, TokenSlots
<1>3. Fits(work[r].number, work[r].hash) /\ \A t \in issued : Fits(t.number, t.hash)
  BY <1>1 DEF TokenInv
<1>4. ASSUME NEW t \in issued' PROVE Fits(t.number, t.hash)
  <2>1. CASE t \in issued
    BY <1>3, <2>1
  <2>2. CASE t \in Tok!Pair(work[r].number, work[r].hash)
    <3>1. t.number = work[r].number /\ t.hash = work[r].hash
      BY <2>2, TokenPair
    <3> QED BY <1>3, <3>1
  <2> QED BY <1>1, <2>1, <2>2
<1> QED BY <1>1, <1>2, <1>4, TokenIssued

LEMMA TokenRefresh == ASSUME TokenInv, NEW t \in issued, Tok!RefreshToken(t) PROVE TokenInv'
<1>1. /\ work' = work /\ UNCHANGED <<account, rewritten, lastActive, served, throttled, now>>
      /\ issued' = issued \cup Tok!Pair(t.number, t.hash) /\ DOMAIN work = Slots
  BY DEF Tok!RefreshToken, Tok!Refreshed, TokenInv
<1>2. \A x \in issued : Fits(x.number, x.hash)
  BY DEF TokenInv
<1>3. ASSUME NEW x \in Tok!Pair(t.number, t.hash) PROVE Fits(x.number, x.hash)
  <2>1. x.number = t.number /\ x.hash = t.hash
    BY <1>3, TokenPair
  <2> QED BY <1>2, <2>1
<1>4. \A x \in issued' : Fits(x.number, x.hash)
  BY <1>1, <1>2, <1>3
<1> QED BY <1>1, <1>4, TokenIssued

\* Whatever touches neither tokens nor account.
LEMMA TokenOther ==
  ASSUME TokenInv, NEW r \in Slots, NEW d, NEW t,
         Tok!Logout(r, d) \/ Tok!SaveLogout(r) \/ Tok!SaveOffline(r) \/ Tok!LogoutThrows(r) \/ Tok!GoOnline(t)
  PROVE  TokenInv'
<1>0. DOMAIN work = Slots
  BY DEF TokenInv
<1>1. UNCHANGED <<account, rewritten, lastActive, served, throttled, now, issued>>
  BY DEF Tok!Logout, Tok!SaveLogout, Tok!SaveOffline, Tok!LogoutThrows, Tok!GoOnline
<1>2. CASE Tok!Logout(r, d)
  <2>1. PICK h : h = [pc |-> IF devices = <<>> THEN "offline" ELSE "logout", d |-> d, seen |-> devices]
    OBVIOUS
  <2>2. Tok!Begin(r, h) /\ h.pc \in {"offline", "logout"}
    BY <1>2, <2>1 DEF Tok!Logout
  <2>3. DOMAIN work' = Slots /\ work'[r] = h /\ \A q \in Slots : q # r => work'[q] = work[q]
    BY <1>0, <2>2, TokenSlots
  <2>4. h.pc = "logout" => h \in [pc : {"logout"}, d : {h.d}, seen : {h.seen}]
    BY <2>1
  <2>5. \A t1 \in issued : Fits(t1.number, t1.hash)
    BY DEF TokenInv
  <2> QED BY <1>1, <2>2, <2>3, <2>4, <2>5, TokenIssued
<1>3. CASE Tok!SaveLogout(r)
  <2>1. work' = [work EXCEPT ![r] = [work[r] EXCEPT !.pc = "offline"]] /\ work[r].pc = "logout"
    BY <1>3, Zenon DEF Tok!SaveLogout, Tok!Goto, Tok!At
  <2> DEFINE h == [work[r] EXCEPT !.pc = "offline"]
  <2>2. work[r] \in [pc : {"logout"}, d : {work[r].d}, seen : {work[r].seen}]
    BY <2>1 DEF TokenInv
  <2>3. h.pc = "offline"
    BY <2>2, Zenon
  <2> HIDE DEF h
  <2>4. DOMAIN work' = Slots /\ work'[r] = h /\ \A q \in Slots : q # r => work'[q] = work[q]
    BY <1>0, <2>1 DEF h
  <2>5. \A t1 \in issued : Fits(t1.number, t1.hash)
    BY DEF TokenInv
  <2> QED BY <1>1, <2>3, <2>4, <2>5, TokenIssued
<1>4. CASE Tok!SaveOffline(r) \/ Tok!LogoutThrows(r)
  <2>1. Tok!Finish(r)
    BY <1>4 DEF Tok!SaveOffline, Tok!LogoutThrows
  <2>2. DOMAIN work' = Slots /\ work'[r].pc = "idle" /\ \A q \in Slots : q # r => work'[q] = work[q]
    BY <1>0, <2>1, TokenSlots
  <2> QED BY <1>1, <2>2, TokenIssued DEF TokenInv
<1>5. CASE Tok!GoOnline(t)
  <2>1. work' = work
    BY <1>5 DEF Tok!GoOnline
  <2> QED BY <1>0, <1>1, <2>1, TokenIssued DEF TokenInv
<1> QED BY <1>2, <1>3, <1>4, <1>5

\* A login, a change of number and of status: the account changes.
LEMMA TokenAccount ==
  ASSUME TokenInv, NEW a \in [status : {"active", "inactive", "suspended"}, number : Nat, hash : Hashes], account' = a,
         a.hash[1] = a.number, account.number <= a.number,
         rewritten' \in BOOLEAN, rewritten' = FALSE => rewritten = FALSE,
         Role = "user" /\ rewritten' = FALSE => a.number # account.number \/ a.hash = account.hash,
         UNCHANGED <<lastActive, served, throttled, now>>, DOMAIN work' = Slots,
         \A t \in issued' : t \in issued \/ (t.number = a.number /\ t.hash = a.hash),
         \A r \in Slots : work'[r] = work[r] \/ (work'[r].pc = "login" /\ work'[r].number = a.number /\ work'[r].hash = a.hash)
  PROVE  TokenInv'
<1>1. account.number \in Nat /\ a.number \in Nat /\ a.hash \in Hashes
  BY DEF TokenInv
<1> DEFINE Good(n, h) == /\ h \in Hashes /\ h[1] = n /\ n <= a.number
                         /\ Role = "user" /\ rewritten' = FALSE /\ n = a.number => h = a.hash
<1>2. ASSUME NEW n, NEW h, Fits(n, h) PROVE Good(n, h)
  <2>1. h \in Hashes /\ h[1] = n /\ n <= account.number /\ n \in Nat
    BY <1>2 DEF Fits, Hashes
  <2>2. n <= a.number
    BY <1>1, <2>1
  <2>3. n = a.number => a.number = account.number
    BY <1>1, <2>1
  <2> QED BY <1>2, <2>1, <2>2, <2>3 DEF Fits
<1> HIDE DEF Good
<1>3. /\ a.hash \in Hashes /\ a.hash[1] = a.number /\ a.number <= a.number
  BY <1>1
<1>4. \A t \in issued' : Fits(t.number, t.hash)'
  <2> TAKE t \in issued'
  <2>1. CASE t \in issued
    <3>1. PICK n, h : n = t.number /\ h = t.hash
      OBVIOUS
    <3>2. Fits(n, h)
      BY <2>1, <3>1 DEF TokenInv
    <3>3. Good(n, h)
      BY <1>2, <3>2
    <3> QED BY <3>1, <3>3 DEF Fits, Good
  <2>2. CASE t.number = a.number /\ t.hash = a.hash
    BY <1>3, <2>2 DEF Fits
  <2> QED BY <2>1, <2>2
<1>5. ASSUME NEW r \in Slots, work'[r].pc = "login"
      PROVE  /\ work'[r].hash \in Hashes /\ work'[r].hash[1] = work'[r].number /\ work'[r].number <= a.number
             /\ Role = "user" /\ rewritten' = FALSE /\ work'[r].number = a.number => work'[r].hash = a.hash
  <2>1. CASE work'[r] = work[r]
    <3>1. PICK n, h : n = work'[r].number /\ h = work'[r].hash
      OBVIOUS
    <3>2. Fits(n, h)
      BY <1>5, <2>1, <3>1 DEF TokenInv
    <3>3. Good(n, h)
      BY <1>2, <3>2
    <3> QED BY <3>1, <3>3 DEF Good
  <2>2. CASE work'[r].number = a.number /\ work'[r].hash = a.hash
    BY <1>3, <2>2
  <2> QED BY <2>1, <2>2
<1>6. \A r \in Slots : work'[r].pc = "logout" => work'[r] \in [pc : {"logout"}, d : {work'[r].d}, seen : {work'[r].seen}]
  BY DEF TokenInv
<1> QED BY <1>4, <1>5, <1>6 DEF TokenInv, Fits

LEMMA TokenLogin ==
  ASSUME TokenInv, NEW r \in Slots, NEW by \in Tok!Methods, NEW d, Tok!Login(r, by, d) PROVE TokenInv'
<1>0. /\ account \in [status : {"active", "inactive", "suspended"}, number : Nat, hash : Hashes] /\ account.hash[1] = account.number
      /\ rewritten \in BOOLEAN /\ DOMAIN work = Slots
  BY DEF TokenInv
<1>1. PICK h \in Hashes : h = IF Role = "user" /\ by = "otp" THEN Tok!Hash(account.number, by) ELSE account.hash
  BY <1>0, TokenHash
<1>2. h[1] = account.number
  BY <1>0, <1>1, TokenHash
<1> DEFINE a == [account EXCEPT !.status = "active", !.hash = h]
<1>3. account' = a
  BY <1>1, Zenon DEF Tok!Login, Tok!SignedIn
<1>4. a \in [status : {"active", "inactive", "suspended"}, number : Nat, hash : Hashes] /\ a.number = account.number /\ a.hash = h
  BY <1>0, Zenon
<1> HIDE DEF a
<1>5. PICK w : w = [pc |-> "login", number |-> account.number, hash |-> account'.hash, d |-> d, seen |-> devices]
  OBVIOUS
<1>6. Tok!Begin(r, w) /\ w.pc = "login" /\ w.number = a.number /\ w.hash = a.hash
  BY <1>3, <1>4, <1>5 DEF Tok!Login
<1>7. DOMAIN work' = Slots /\ work'[r] = w /\ \A q \in Slots : q # r => work'[q] = work[q]
  BY <1>0, <1>6, TokenSlots
<1>8. /\ rewritten' = (rewritten \/ (Role = "user" /\ by = "otp" /\ account.hash = Tok!Hash(account.number, "truecaller")))
      /\ UNCHANGED <<issued, lastActive, served, throttled, now>>
  BY DEF Tok!Login
<1>9. ASSUME Role = "user", by = "otp", account.hash # Tok!Hash(account.number, "truecaller") PROVE h = account.hash
  <2>1. PICK m \in {"otp", "truecaller"}, n \in Nat : account.hash = <<n, m>>
    BY <1>0 DEF Hashes
  <2>2. account.hash = <<account.number, m>>
    BY <1>0, <2>1
  <2> QED BY <1>1, <1>9, <2>2 DEF Tok!Hash
<1>10. /\ rewritten' \in BOOLEAN /\ (rewritten' = FALSE => rewritten = FALSE)
       /\ Role = "user" /\ rewritten' = FALSE => a.hash = account.hash
  BY <1>0, <1>1, <1>4, <1>8, <1>9
<1>11. a.hash[1] = a.number /\ account.number <= a.number
  BY <1>0, <1>2, <1>4
<1> QED BY <1>3, <1>4, <1>6, <1>7, <1>8, <1>10, <1>11, TokenAccount

LEMMA TokenChange == ASSUME TokenInv, NEW t, Tok!ChangePhone(t) PROVE TokenInv'
<1>0. /\ account \in [status : {"active", "inactive", "suspended"}, number : Nat, hash : Hashes] /\ account.hash[1] = account.number
      /\ DOMAIN work = Slots /\ rewritten \in BOOLEAN
  BY DEF TokenInv
<1>1. PICK n \in Nat : n = account.number + 1
  BY <1>0
<1>2. PICK h \in Hashes : h = Tok!Hash(n, "otp") /\ h[1] = n
  BY TokenHash DEF Tok!Methods
<1> DEFINE a == [account EXCEPT !.number = n, !.hash = h]
<1>3. account' = [account EXCEPT !.number = account.number + 1, !.hash = Tok!Hash(account.number + 1, "otp")]
  BY Zenon DEF Tok!ChangePhone
<1>4. account' = a
  BY <1>1, <1>2, <1>3
<1>5. a \in [status : {"active", "inactive", "suspended"}, number : Nat, hash : Hashes] /\ a.number = n /\ a.hash = h
  BY <1>0, Zenon
<1> HIDE DEF a
<1>6. /\ issued' = issued \cup Tok!Pair(a.number, a.hash) /\ work' = work
      /\ UNCHANGED <<lastActive, served, throttled, now, rewritten>>
  BY <1>4 DEF Tok!ChangePhone
<1>7. \A x \in issued' : x \in issued \/ (x.number = a.number /\ x.hash = a.hash)
  BY <1>6, TokenPair
<1>8. account.number <= a.number /\ a.number # account.number /\ a.hash[1] = a.number
  BY <1>0, <1>1, <1>2, <1>5
<1> QED BY <1>0, <1>4, <1>5, <1>6, <1>7, <1>8, TokenAccount

LEMMA TokenStatus ==
  ASSUME TokenInv, NEW st \in {"active", "inactive", "suspended"}, Tok!SetStatus(st) PROVE TokenInv'
<1>0. /\ account \in [status : {"active", "inactive", "suspended"}, number : Nat, hash : Hashes] /\ account.hash[1] = account.number
      /\ DOMAIN work = Slots /\ rewritten \in BOOLEAN
  BY DEF TokenInv
<1> DEFINE a == [account EXCEPT !.status = st]
<1>1. account' = a
  BY Zenon DEF Tok!SetStatus
<1>2. a \in [status : {"active", "inactive", "suspended"}, number : Nat, hash : Hashes] /\ a.number = account.number /\ a.hash = account.hash
  BY <1>0, Zenon
<1> HIDE DEF a
<1>3. UNCHANGED <<lastActive, served, throttled, now, rewritten, issued, work>>
  BY DEF Tok!SetStatus
<1>4. account.number <= a.number
  BY <1>0, <1>2
<1> QED BY <1>0, <1>1, <1>2, <1>3, <1>4, TokenAccount

LEMMA TokenDay == ASSUME TokenInv, Tok!Day PROVE TokenInv'
<1>1. /\ throttled' = FALSE /\ issued' \subseteq issued /\ UNCHANGED <<account, rewritten, lastActive, served, work>>
  BY DEF Tok!Day
<1> QED BY <1>1 DEF TokenInv, Fits

LEMMA TokenRequest == ASSUME TokenInv, NEW t, Tok!Authenticate(t) PROVE TokenInv'
<1>1. /\ ~(throttled = TRUE /\ served = now) /\ throttled' = TRUE /\ served' = now
      /\ lastActive' = (IF throttled THEN lastActive ELSE now) /\ UNCHANGED <<account, rewritten, issued, work, now>>
  BY DEF Tok!Authenticate
<1>2. throttled = FALSE
  BY <1>1 DEF TokenInv
<1>3. lastActive' = now
  BY <1>1, <1>2
<1> QED BY <1>1, <1>3 DEF TokenInv, Fits

LEMMA TokenNext == TokenInv /\ [Tok!Next]_(Tok!tvars) => TokenInv'
<1> SUFFICES ASSUME TokenInv, [Tok!Next]_(Tok!tvars) PROVE TokenInv'
  OBVIOUS
<1>1. CASE UNCHANGED Tok!tvars
  BY <1>1 DEF Tok!tvars, TokenInv, Fits
<1>2. CASE Tok!Day
  BY <1>2, TokenDay
<1>3. CASE \E st \in {"active", "inactive", "suspended"} : Tok!SetStatus(st)
  BY <1>3, TokenStatus
<1>4. CASE \E t \in issued : Tok!TokenRequests(t)
  <2>1. PICK t \in issued : Tok!RefreshToken(t) \/ Tok!Authenticate(t) \/ Tok!ChangePhone(t) \/ Tok!GoOnline(t)
    BY <1>4 DEF Tok!TokenRequests
  <2>2. CASE Tok!GoOnline(t)
    <3>1. UNCHANGED <<account, rewritten, lastActive, served, throttled, now, issued, work>>
      BY <2>2 DEF Tok!GoOnline
    <3> QED BY <3>1 DEF TokenInv, Fits
  <2> QED BY <2>1, <2>2, TokenRefresh, TokenRequest, TokenChange
<1>5. CASE \E r \in Slots :
             \/ \E d \in Devices \cup {None} : Tok!Logout(r, d) \/ \E by \in Tok!Methods : Tok!Login(r, by, d)
             \/ Tok!SaveLogin(r) \/ Tok!LoginThrows(r) \/ Tok!SaveLogout(r) \/ Tok!SaveOffline(r) \/ Tok!LogoutThrows(r)
  BY <1>5, TokenOther, TokenLogin, TokenSaveLogin
<1> QED BY <1>1, <1>2, <1>3, <1>4, <1>5 DEF Tok!Next

LEMMA TokenInit == Tok!Init => TokenInv
<1> SUFFICES ASSUME Tok!Init PROVE TokenInv
  OBVIOUS
<1>1. PICK by \in Tok!Methods : account = [status |-> "active", number |-> 1, hash |-> Tok!Hash(1, by)]
  BY DEF Tok!Init
<1>2. /\ issued = {} /\ now = 0 /\ throttled = FALSE /\ lastActive = 0 /\ served = 0 /\ rewritten = FALSE
      /\ work = [r \in Slots |-> Tok!Idle]
  BY DEF Tok!Init, Tok!NoHandler
<1>3. DOMAIN work = Slots /\ \A r \in Slots : work[r].pc = "idle"
  BY <1>2 DEF Tok!Idle
<1>4. Tok!Hash(1, by) \in Hashes /\ Tok!Hash(1, by)[1] = 1
  BY TokenHash
<1> QED BY <1>1, <1>2, <1>3, <1>4 DEF TokenInv

LEMMA TokenInvariance == Tok!Spec => []TokenInv
<1>1. Tok!Init => TokenInv
  BY TokenInit
<1>2. TokenInv /\ [Tok!Next]_(Tok!tvars) => TokenInv'
  BY TokenNext
<1> QED BY <1>1, <1>2, PTL DEF Tok!Spec

\* "Phone hash validation": through any refreshed pairs and any number of changes
\* of the number, a token that lets a user in was made for the number the account has.
THEOREM TokenNumberIsFresh == Tok!Spec => []Tok!NumberIsFresh
<1>1. TokenInv => Tok!NumberIsFresh
  BY DEF TokenInv, Fits, Tok!NumberIsFresh, Tok!Accepts
<1> QED BY <1>1, TokenInvariance, PTL

\* A user who has neither changed the number nor been suspended, and whose hash no
\* login by code replaced, is let in until the token expires.
THEOREM TokenLastsItsTime == Tok!Spec => []Tok!TokensLast
<1>1. TokenInv => Tok!TokensLast
  <2> SUFFICES ASSUME TokenInv, NEW t \in issued, t.kind = "access", account.status = "active",
                      Role = "user" => t.number = account.number /\ ~rewritten
               PROVE  Tok!Accepts(t)
    BY DEF Tok!TokensLast
  <2>1. Fits(t.number, t.hash) /\ rewritten \in BOOLEAN
    BY DEF TokenInv
  <2> QED BY <2>1 DEF Fits, Tok!Accepts
<1> QED BY <1>1, TokenInvariance, PTL

\* However requests are throttled, the account tells the day of the last one.
THEOREM TokenActiveIsRecorded == Tok!Spec => []Tok!ActiveIsRecorded
<1>1. TokenInv => Tok!ActiveIsRecorded
  BY DEF TokenInv, Tok!ActiveIsRecorded
<1> QED
  BY <1>1, TokenInvariance, PTL
================
