-------- MODULE Wallet --------
(***************************************************************************)
(* The user wallet: users.wallet in MongoDB, the rows of WalletTransaction *)
(* that record every movement of it, gift cards, and the bank refund       *)
(* requests an admin pays out.  Every handler that moves money reads the   *)
(* user document, computes a new wallet, and writes the wallet and a row.  *)
(* They differ in where the read happens and in whether the two writes are *)
(* one MongoDB transaction:                                                *)
(*                                                                         *)
(*   Transactional  reads and writes inside one transaction: a commit that *)
(*                  would overwrite a document changed since the snapshot  *)
(*                  fails with a write conflict and is not retried         *)
(*   StaleRead      reads outside, writes wallet and row in a transaction  *)
(*                  that starts with the write: nothing detects a change   *)
(*                  made in between                                        *)
(*   RowFirst       no transaction: saves the row, then the user           *)
(*   UserFirst      no transaction: saves the user, then the row           *)
(*                                                                         *)
(* One process runs many requests; a request is interleaved with others at *)
(* every await.  A restart loses the requests that are running.            *)
(***************************************************************************)
EXTENDS Integers, FiniteSets

CONSTANTS
  Users, Requests, Cards, Refunds,
  Handlers,        \* the handlers an instance exercises
  Amounts,         \* amounts a request may carry
  MaxRedemptions,  \* maxRedemptions of every gift card
  CardAmount,      \* amount of every gift card
  Opening,         \* set of wallets a user may start with: [cash, bonus]
  MaxCalls,        \* bound: calls started in a behaviour
  NoItem           \* the item of a call about no card and no refund request

Transactional ==
  {"deductFromWallet", "processSessionPayment", "refundToWallet",
   "creditToWallet", "redeemGiftCard", "addUserBonus", "deductUserBonus"}
StaleRead == {"sendGift", "processWalletRefund"}
RowFirst  == {"deductFromUser", "deductForMatrimonyChat"}
UserFirst == {"adjustWalletUp", "adjustWalletDown", "settleAiSession"}

ASSUME WalletAssumption ==
  /\ IsFiniteSet(Requests)
  /\ Handlers \subseteq Transactional \cup StaleRead \cup RowFirst \cup UserFirst
  /\ Amounts \subseteq Nat \ {0}
  /\ MaxRedemptions \in Nat /\ CardAmount \in Nat \ {0} /\ MaxCalls \in Nat
  /\ Opening \subseteq [cash : Nat, bonus : Nat]
  /\ NoItem \notin Cards \cup Refunds

VARIABLES
  wallet,      \* wallet[u]: the stored cashBalance, bonusBalance and balance
  booked,      \* booked[u]: signed total of u's completed rows
  redeemed,    \* redeemed[c]: redemptionsCount of the gift card
  refund,      \* refund[q]: status of the wallet refund request
  req,         \* req[r]: the request running in slot r
  calls,       \* calls started so far
  torn         \* torn[u]: a wallet write of u was lost or left without its row (history)

vars == <<wallet, booked, redeemed, refund, req, calls, torn>>

----------------
(* What a handler does to the wallet it read.                              *)

Lesser(a, b) == IF a < b THEN a ELSE b
Total(w) == w.cash + w.bonus
Balanced(c, b) == [cash |-> c, bonus |-> b, balance |-> c + b]

\* Fault: the total kept beside the two parts is not recomputed.
applyDebitStaleTotal(w, a) ==
  LET b == Lesser(w.bonus, a) IN
  [cash |-> w.cash - (a - b), bonus |-> w.bonus - b, balance |-> w.balance]
\* Bonus money is spent before cash.
applyDebit(w, a) ==
  LET b == Lesser(w.bonus, a) IN Balanced(w.cash - (a - b), w.bonus - b)

CreditBonus(w, a) == Balanced(w.cash, w.bonus + a)
TakeBonus(w, a)   == Balanced(w.cash, w.bonus - a)
Withdraw(w, a)    == Balanced(w.cash - a, w.bonus)

\* The admin adjustment moves the balance field itself, and cash before bonus.
AdjustUp(w, a) == [cash |-> w.cash + a, bonus |-> w.bonus, balance |-> w.balance + a]
AdjustDown(w, a) ==
  LET c == Lesser(w.cash, a) IN
  [cash |-> w.cash - c, bonus |-> w.bonus - Lesser(w.bonus, a - c),
   balance |-> w.balance - a]

\* An AI session costs at most the balance read, cash before bonus.
AiCost(w, a) == Lesser(a, w.balance)
SettleAi(w, a) ==
  LET c == Lesser(w.cash, AiCost(w, a))
      rest == AiCost(w, a) - c
  IN  Balanced(w.cash - c, w.bonus - Lesser(w.bonus, rest))

Debits == {"deductFromWallet", "processSessionPayment", "sendGift",
           "deductFromUser", "deductForMatrimonyChat"}
BonusCredits == {"refundToWallet", "creditToWallet", "redeemGiftCard", "addUserBonus"}

\* Fault: the balance check counts money that is not there.
AllowedOverdraft(h, w, a) ==
  /\ h \in Debits => Total(w) + 1 >= a
  /\ h = "deductUserBonus" => w.bonus >= a
  /\ h = "processWalletRefund" => w.cash >= a
  /\ h = "adjustWalletDown" => w.balance >= a
  /\ h = "settleAiSession" => AiCost(w, a) > 0
\* The checks a handler makes on the wallet it read before it writes anything.
Allowed(h, w, a) ==
  /\ h \in Debits => Total(w) >= a
  /\ h = "deductUserBonus" => w.bonus >= a
  /\ h = "processWalletRefund" => w.cash >= a
  /\ h = "adjustWalletDown" => w.balance >= a
  /\ h = "settleAiSession" => AiCost(w, a) > 0

NewWallet(h, w, a) ==
  CASE h \in Debits              -> applyDebit(w, a)
    [] h \in BonusCredits        -> CreditBonus(w, a)
    [] h = "deductUserBonus"     -> TakeBonus(w, a)
    [] h = "processWalletRefund" -> Withdraw(w, a)
    [] h = "adjustWalletUp"      -> AdjustUp(w, a)
    [] h = "adjustWalletDown"    -> AdjustDown(w, a)
    [] h = "settleAiSession"     -> SettleAi(w, a)

\* What the row of a call adds to the booked total: the signed amount.
RowAmount(h, w, a) ==
  CASE h \in BonusCredits \cup {"adjustWalletUp"} -> a
    [] h = "settleAiSession" -> -AiCost(w, a)
    [] OTHER -> -a

----------------
(* Documents and requests.                                                 *)

Wallets == [cash : Nat, bonus : Nat, balance : Int]

Idle == [pc |-> "idle"]
Running == [pc : {"read", "rowSaved", "userSaved"},
            handler : Handlers, user : Users, amount : Nat \ {0},
            item : Cards \cup Refunds \cup {NoItem},
            seen : Wallets,          \* the wallet as it was read
            stale : SUBSET {"user", "item"}]  \* what others changed since then

\* save() writes only the paths that differ from what was loaded.
Saved(cur, old, new) ==
  [f \in {"cash", "bonus", "balance"} |-> IF new[f] # old[f] THEN new[f] ELSE cur[f]]

NewOf(c) == NewWallet(c.handler, c.seen, c.amount)
RowOf(c) == RowAmount(c.handler, c.seen, c.amount)

\* r's slot moves to c; the other running requests learn what r overwrote.
Move(r, c, userWritten, itemWritten) ==
  req' = [s \in Requests |->
    IF s = r THEN c
    ELSE IF req[s].pc = "idle" THEN req[s]
    ELSE [req[s] EXCEPT !.stale = @
            \cup (IF userWritten /\ req[s].user = req[r].user THEN {"user"} ELSE {})
            \cup (IF itemWritten /\ req[s].item = req[r].item THEN {"item"} ELSE {})]]

WriteWallet(r) ==
  LET c == req[r] IN wallet' = [wallet EXCEPT ![c.user] = Saved(@, c.seen, NewOf(c))]
WriteRow(r) ==
  LET c == req[r] IN booked' = [booked EXCEPT ![c.user] = @ + RowOf(c)]
\* Overwriting a wallet somebody changed after it was read loses their change.
MarkLost(r) ==
  torn' = [torn EXCEPT ![req[r].user] = @ \/ "user" \in req[r].stale]

----------------
Init ==
  /\ \E o \in [Users -> Opening] :
       /\ wallet = [u \in Users |-> Balanced(o[u].cash, o[u].bonus)]
       /\ booked = [u \in Users |-> o[u].cash + o[u].bonus]
  /\ redeemed = [c \in Cards |-> 0]
  /\ refund = [q \in Refunds |-> "pending"]
  /\ req = [r \in Requests |-> Idle]
  /\ calls = 0
  /\ torn = [u \in Users |-> FALSE]

\* Fault: the redemption limit is off by one.
CarriesOneMore(h, a, x) ==
  CASE h = "redeemGiftCard" ->
         x \in Cards /\ a = CardAmount /\ redeemed[x] <= MaxRedemptions
    [] h = "processWalletRefund" ->
         x \in Refunds /\ a \in Amounts /\ refund[x] = "pending"
    [] OTHER -> x = NoItem /\ a \in Amounts
\* The item and amount a call may carry, with the checks made on the item.
Carries(h, a, x) ==
  CASE h = "redeemGiftCard" ->
         x \in Cards /\ a = CardAmount /\ redeemed[x] < MaxRedemptions
    [] h = "processWalletRefund" ->
         x \in Refunds /\ a \in Amounts /\ refund[x] = "pending"
    [] OTHER -> x = NoItem /\ a \in Amounts

\* A handler loads what it needs and passes its checks; a call that fails
\* them returns without a change.
ReadUser(r, h, u, a, x) ==
  /\ h \in Handlers
  /\ req[r].pc = "idle" /\ calls < MaxCalls
  /\ Carries(h, a, x)
  /\ Allowed(h, wallet[u], a)
  /\ req' = [req EXCEPT ![r] =
       [pc |-> "read", handler |-> h, user |-> u, amount |-> a, item |-> x,
        seen |-> wallet[u], stale |-> {}]]
  /\ calls' = calls + 1
  /\ UNCHANGED <<wallet, booked, redeemed, refund, torn>>

\* The calls, by handler.
DeductFromWallet(r, u, a)      == ReadUser(r, "deductFromWallet", u, a, NoItem)
ProcessSessionPayment(r, u, a) == ReadUser(r, "processSessionPayment", u, a, NoItem)
RefundToWallet(r, u, a)        == ReadUser(r, "refundToWallet", u, a, NoItem)
CreditToWallet(r, u, a)        == ReadUser(r, "creditToWallet", u, a, NoItem)
AddUserBonus(r, u, a)          == ReadUser(r, "addUserBonus", u, a, NoItem)
DeductUserBonus(r, u, a)       == ReadUser(r, "deductUserBonus", u, a, NoItem)
SendGift(r, u, a)              == ReadUser(r, "sendGift", u, a, NoItem)
DeductFromUser(r, u, a)        == ReadUser(r, "deductFromUser", u, a, NoItem)
DeductForMatrimonyChat(r, u, a) == ReadUser(r, "deductForMatrimonyChat", u, a, NoItem)
AdjustWalletUp(r, u, a)        == ReadUser(r, "adjustWalletUp", u, a, NoItem)
AdjustWalletDown(r, u, a)      == ReadUser(r, "adjustWalletDown", u, a, NoItem)
SettleAiSession(r, u, a)       == ReadUser(r, "settleAiSession", u, a, NoItem)
RedeemGiftCard(r, u, c)        == ReadUser(r, "redeemGiftCard", u, CardAmount, c)
ProcessWalletRefund(r, u, a, q) == ReadUser(r, "processWalletRefund", u, a, q)

Call(r) ==
  \E u \in Users :
    \/ \E a \in Amounts :
         \/ DeductFromWallet(r, u, a) \/ ProcessSessionPayment(r, u, a)
         \/ RefundToWallet(r, u, a) \/ CreditToWallet(r, u, a)
         \/ AddUserBonus(r, u, a) \/ DeductUserBonus(r, u, a)
         \/ SendGift(r, u, a) \/ DeductFromUser(r, u, a)
         \/ DeductForMatrimonyChat(r, u, a) \/ SettleAiSession(r, u, a)
         \/ AdjustWalletUp(r, u, a) \/ AdjustWalletDown(r, u, a)
         \/ \E q \in Refunds : ProcessWalletRefund(r, u, a, q)
    \/ \E c \in Cards : RedeemGiftCard(r, u, c)

\* Fault: the documents are read without the session, so nothing conflicts.
CommitUnchecked(r) ==
  /\ req[r].pc = "read" /\ req[r].handler \in Transactional
  /\ WriteWallet(r) /\ WriteRow(r) /\ MarkLost(r)
  /\ redeemed' = IF req[r].handler = "redeemGiftCard"
                 THEN [redeemed EXCEPT ![req[r].item] = @ + 1] ELSE redeemed
  /\ Move(r, Idle, TRUE, req[r].item # NoItem)
  /\ UNCHANGED <<refund, calls>>
\* A transaction commits wallet, row and gift card at once, unless one of
\* them was changed after its snapshot.
Commit(r) ==
  /\ req[r].pc = "read" /\ req[r].handler \in Transactional
  /\ req[r].stale = {}
  /\ WriteWallet(r) /\ WriteRow(r) /\ MarkLost(r)
  /\ redeemed' = IF req[r].handler = "redeemGiftCard"
                 THEN [redeemed EXCEPT ![req[r].item] = @ + 1] ELSE redeemed
  /\ Move(r, Idle, TRUE, req[r].item # NoItem)
  /\ UNCHANGED <<refund, calls>>

\* abortTransaction: a write conflict or a failed commit leaves no trace.
Abort(r) ==
  /\ req[r].pc = "read" /\ req[r].handler \in Transactional
  /\ Move(r, Idle, FALSE, FALSE)
  /\ UNCHANGED <<wallet, booked, redeemed, refund, calls, torn>>

\* The transaction of a handler that read outside it commits what it computed.
CommitStale(r) ==
  /\ req[r].pc = "read" /\ req[r].handler \in StaleRead
  /\ WriteWallet(r) /\ WriteRow(r) /\ MarkLost(r)
  /\ IF req[r].handler = "processWalletRefund"
     THEN refund' = [refund EXCEPT ![req[r].item] = "processed"]
     ELSE UNCHANGED refund
  /\ Move(r, Idle, TRUE, req[r].item # NoItem)
  /\ UNCHANGED <<redeemed, calls>>

SaveRow(r) ==
  /\ req[r].pc = "read" /\ req[r].handler \in RowFirst
  /\ WriteRow(r)
  /\ Move(r, [req[r] EXCEPT !.pc = "rowSaved"], FALSE, FALSE)
  /\ UNCHANGED <<wallet, redeemed, refund, calls, torn>>

SaveUserAfterRow(r) ==
  /\ req[r].pc = "rowSaved"
  /\ WriteWallet(r) /\ MarkLost(r)
  /\ Move(r, Idle, TRUE, FALSE)
  /\ UNCHANGED <<booked, redeemed, refund, calls>>

SaveUser(r) ==
  /\ req[r].pc = "read" /\ req[r].handler \in UserFirst
  /\ WriteWallet(r) /\ MarkLost(r)
  /\ Move(r, [req[r] EXCEPT !.pc = "userSaved"], TRUE, FALSE)
  /\ UNCHANGED <<booked, redeemed, refund, calls>>

\* The row of an admin deduction has type admin_debit, which the schema's
\* enum does not list: its save is rejected.
SaveRowAfterUser(r) ==
  /\ req[r].pc = "userSaved"
  /\ IF req[r].handler = "adjustWalletDown"
     THEN torn' = [torn EXCEPT ![req[r].user] = TRUE] /\ UNCHANGED booked
     ELSE WriteRow(r) /\ UNCHANGED torn
  /\ Move(r, Idle, FALSE, FALSE)
  /\ UNCHANGED <<wallet, redeemed, refund, calls>>

\* The process stops: transactions abort, half-done calls stay half done.
Crash ==
  /\ \E r \in Requests : req[r].pc # "idle"
  /\ req' = [r \in Requests |-> Idle]
  /\ torn' = [u \in Users |-> torn[u] \/
       \E r \in Requests : req[r].pc \in {"rowSaved", "userSaved"} /\ req[r].user = u]
  /\ UNCHANGED <<wallet, booked, redeemed, refund, calls>>

Next ==
  \/ \E r \in Requests :
       \/ Call(r)
       \/ Commit(r) \/ Abort(r) \/ CommitStale(r)
       \/ SaveRow(r) \/ SaveUserAfterRow(r)
       \/ SaveUser(r) \/ SaveRowAfterUser(r)
  \/ Crash

Spec == Init /\ [][Next]_vars

----------------
\* The type invariant.
TypeOK ==
  /\ wallet \in [Users -> Wallets]
  /\ booked \in [Users -> Int]
  /\ redeemed \in [Cards -> Nat]
  /\ refund \in [Refunds -> {"pending", "processed"}]
  /\ req \in [Requests -> Running \cup {Idle}]
  /\ calls \in 0 .. MaxCalls
  /\ torn \in [Users -> BOOLEAN]

\* Half-done calls on u: a row without its wallet write, or the reverse.
HalfDone(u) ==
  {r \in Requests : req[r].pc \in {"rowSaved", "userSaved"} /\ req[r].user = u}

\* The rows of a user add up to the wallet, in its three stored fields,
\* whenever no call is between its two writes: a handler outside a
\* transaction overwriting a change, a crash between its two writes and a
\* rejected row are the only ways the code has to part them.
LedgerAgrees ==
  \A u \in Users : ~torn[u] /\ HalfDone(u) = {} =>
    /\ wallet[u].balance = Total(wallet[u])
    /\ booked[u] = Total(wallet[u])

\* The account the wallet promises, seen through the stored documents.
A == INSTANCE Account WITH
       funds <- [u \in Users |-> [cash |-> wallet[u].cash, bonus |-> wallet[u].bonus]],
       statement <- booked

\* Handlers that stay inside transactions implement the account.
ImplementsAccount == A!Spec

\* A gift card is never redeemed more often than it allows, by any mix of
\* users redeeming it at once.
CardWithinLimit == \A c \in Cards : redeemed[c] <= MaxRedemptions

\* The rows of a user add up to the wallet whenever nothing is running.  It
\* is what the transaction history is for; it holds of the transactional
\* handlers and fails with any other.
WalletMatchesLedger ==
  (\A r \in Requests : req[r].pc = "idle") =>
    \A u \in Users : booked[u] = Total(wallet[u])
================
