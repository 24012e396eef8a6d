-------- MODULE WalletProofs --------
(***************************************************************************)
(* Theorems about Wallet for every number of users, requests, gift cards   *)
(* and calls.  The inductive invariant adds to the types what a running    *)
(* request knows: the checks it passed hold of the wallet it read, and     *)
(* what it read is current as long as nobody marked it stale.  For the     *)
(* ledger it also counts the rows half-done calls have yet to write, or    *)
(* wrote too early.                                                        *)
(*                                                                         *)
(* Then about what users pay for or ask back outside sessions: Bookings    *)
(* (instance K), Tickets (instance T), Remedies (instance Y), Matrimony    *)
(* (instance M), and about Reviews (instance Rev).                         *)
(***************************************************************************)
EXTENDS Wallet, SumTheorems, Sequences

Active(r) == req[r].pc # "idle"

\* A running request passed its checks on what it read.
Checked ==
  \A r \in Requests : Active(r) =>
    /\ Allowed(req[r].handler, req[r].seen, req[r].amount)
    /\ req[r].handler = "redeemGiftCard" =>
         req[r].item \in Cards /\ req[r].amount = CardAmount
    /\ req[r].handler # "redeemGiftCard" => req[r].amount \in Amounts
    /\ req[r].handler = "processWalletRefund" => req[r].item \in Refunds

\* What a running request read is current unless marked stale.
Fresh ==
  \A r \in Requests : req[r].pc = "read" =>
    /\ "user" \notin req[r].stale => req[r].seen = wallet[req[r].user]
    /\ req[r].handler = "redeemGiftCard" /\ "item" \notin req[r].stale
         => redeemed[req[r].item] < MaxRedemptions

WInv == TypeOK /\ Checked

----------------
(* What the handlers compute.                                              *)

LEMMA DebitType ==
  ASSUME NEW w \in Wallets, NEW a \in Nat \ {0}, Total(w) >= a
  PROVE  /\ applyDebit(w, a) \in Wallets
         /\ Total(applyDebit(w, a)) = Total(w) - a
  BY SMT DEF applyDebit, Balanced, Lesser, Total, Wallets

LEMMA CreditType ==
  ASSUME NEW w \in Wallets, NEW a \in Nat \ {0}
  PROVE  /\ CreditBonus(w, a) \in Wallets
         /\ Total(CreditBonus(w, a)) = Total(w) + a
  BY SMT DEF CreditBonus, Balanced, Total, Wallets

LEMMA TakeBonusType ==
  ASSUME NEW w \in Wallets, NEW a \in Nat \ {0}, w.bonus >= a
  PROVE  /\ TakeBonus(w, a) \in Wallets
         /\ Total(TakeBonus(w, a)) = Total(w) - a
  BY SMT DEF TakeBonus, Balanced, Total, Wallets

LEMMA WithdrawType ==
  ASSUME NEW w \in Wallets, NEW a \in Nat \ {0}, w.cash >= a
  PROVE  Withdraw(w, a) \in Wallets
  BY SMT DEF Withdraw, Balanced, Wallets

LEMMA AdjustType ==
  ASSUME NEW w \in Wallets, NEW a \in Nat \ {0}
  PROVE  AdjustUp(w, a) \in Wallets /\ AdjustDown(w, a) \in Wallets
  BY SMT DEF AdjustUp, AdjustDown, Lesser, Wallets

LEMMA SettleType ==
  ASSUME NEW w \in Wallets, NEW a \in Nat \ {0}, AiCost(w, a) > 0
  PROVE  SettleAi(w, a) \in Wallets
  BY SMT DEF SettleAi, AiCost, Balanced, Lesser, Wallets

\* A handler that passed its checks computes a wallet without debt.
LEMMA NewWalletType ==
  ASSUME NEW h \in Handlers, NEW w \in Wallets, NEW a \in Nat \ {0}, Allowed(h, w, a)
  PROVE  NewWallet(h, w, a) \in Wallets
<1>1. CASE h \in Debits
  BY <1>1, DebitType DEF NewWallet, Allowed, Debits, BonusCredits
<1>2. CASE h \in BonusCredits
  BY <1>2, CreditType DEF NewWallet, Debits, BonusCredits
<1>3. CASE h = "deductUserBonus"
  BY <1>3, TakeBonusType DEF NewWallet, Allowed, Debits, BonusCredits
<1>4. CASE h = "processWalletRefund"
  BY <1>4, WithdrawType DEF NewWallet, Allowed, Debits, BonusCredits
<1>5. CASE h \in {"adjustWalletUp", "adjustWalletDown"}
  BY <1>5, AdjustType DEF NewWallet, Debits, BonusCredits
<1>6. CASE h = "settleAiSession"
  BY <1>6, SettleType DEF NewWallet, Allowed, Debits, BonusCredits
<1> QED
  BY <1>1, <1>2, <1>3, <1>4, <1>5, <1>6, WalletAssumption
     DEF Transactional, StaleRead, RowFirst, UserFirst, Debits, BonusCredits

LEMMA RowAmountType ==
  ASSUME NEW h \in Handlers, NEW w \in Wallets, NEW a \in Nat \ {0}
  PROVE  RowAmount(h, w, a) \in Int
  BY SMT DEF RowAmount, AiCost, Lesser, Wallets

LEMMA SavedType ==
  ASSUME NEW cur \in Wallets, NEW old \in Wallets, NEW new \in Wallets
  PROVE  Saved(cur, old, new) \in Wallets
  BY DEF Saved, Wallets

\* Nothing changed since the read: save() writes exactly what was computed.
LEMMA SavedFresh ==
  ASSUME NEW old \in Wallets, NEW new \in Wallets
  PROVE  Saved(old, old, new) = new
  BY DEF Saved, Wallets

----------------
(* Slots and documents.                                                    *)

LEMMA ActiveIsRunning ==
  ASSUME TypeOK, NEW r \in Requests, Active(r)
  PROVE  req[r] \in Running
  BY DEF TypeOK, Active, Idle

\* What Move does to the slots.
LEMMA MoveEffect ==
  ASSUME TypeOK, NEW r \in Requests, NEW c \in Running \cup {Idle},
         NEW uw \in BOOLEAN, NEW iw \in BOOLEAN, Move(r, c, uw, iw)
  PROVE  /\ req' \in [Requests -> Running \cup {Idle}]
         /\ req'[r] = c
         /\ \A s \in Requests \ {r} :
              /\ Active(s)' <=> Active(s)
              /\ Active(s) =>
                   req'[s] = [req[s] EXCEPT !.stale = req'[s].stale]
              /\ Active(s) => req[s].stale \subseteq req'[s].stale
              /\ Active(s) /\ uw /\ req[s].user = req[r].user => "user" \in req'[s].stale
              /\ Active(s) /\ iw /\ req[s].item = req[r].item => "item" \in req'[s].stale
<1> DEFINE Grown(s) == req[s].stale
            \cup (IF uw /\ req[s].user = req[r].user THEN {"user"} ELSE {})
            \cup (IF iw /\ req[s].item = req[r].item THEN {"item"} ELSE {})
<1>1. req'[r] = c
  BY DEF Move
<1>2. ASSUME NEW s \in Requests \ {r}, Active(s)
      PROVE  /\ req'[s] = [req[s] EXCEPT !.stale = Grown(s)]
             /\ req'[s] \in Running
             /\ req'[s].stale = Grown(s)
             /\ req'[s].pc = req[s].pc
  <2>1. req[s] \in Running
    BY <1>2, ActiveIsRunning
  <2>2. req'[s] = [req[s] EXCEPT !.stale = Grown(s)]
    BY <1>2 DEF Move, Active
  <2>3. Grown(s) \in SUBSET {"user", "item"}
    BY <2>1 DEF Running
  <2> QED BY <2>1, <2>2, <2>3 DEF Running
<1>3. ASSUME NEW s \in Requests \ {r}, ~Active(s)
      PROVE  req'[s] = req[s] /\ req[s] \in Running \cup {Idle}
  BY <1>3 DEF Move, Active, TypeOK
<1>4. req' \in [Requests -> Running \cup {Idle}]
  <2>1. \A s \in Requests : req'[s] \in Running \cup {Idle}
    BY <1>1, <1>2, <1>3
  <2>2. req' = [s \in Requests |-> req'[s]]
    BY DEF Move
  <2> QED BY <2>1, <2>2
<1>5. ASSUME NEW s \in Requests \ {r}
      PROVE Active(s)' <=> Active(s)
  BY <1>2, <1>3 DEF Active
<1> QED BY <1>1, <1>2, <1>4, <1>5

\* The wallet a running request writes is well typed.
LEMMA WriteWalletType ==
  ASSUME TypeOK, Checked, NEW r \in Requests, Active(r), WriteWallet(r)
  PROVE  /\ wallet' \in [Users -> Wallets]
         /\ NewOf(req[r]) \in Wallets
<1>1. req[r] \in Running
  BY ActiveIsRunning
<1>2. NewOf(req[r]) \in Wallets
  BY <1>1, NewWalletType DEF NewOf, Checked, Running
<1>3. Saved(wallet[req[r].user], req[r].seen, NewOf(req[r])) \in Wallets
  BY <1>1, <1>2, SavedType DEF TypeOK, Running
<1> QED BY <1>1, <1>2, <1>3 DEF WriteWallet, TypeOK

LEMMA WriteRowType ==
  ASSUME TypeOK, NEW r \in Requests, Active(r), WriteRow(r)
  PROVE  booked' \in [Users -> Int]
<1>1. req[r] \in Running
  BY ActiveIsRunning
<1>2. RowOf(req[r]) \in Int
  BY <1>1, RowAmountType DEF RowOf, Running
<1>3. booked[req[r].user] + RowOf(req[r]) \in Int
  BY <1>1, <1>2 DEF TypeOK, Running
<1>4. booked' = [booked EXCEPT ![req[r].user] = booked[req[r].user] + RowOf(req[r])]
  BY DEF WriteRow
<1> QED BY <1>1, <1>3, <1>4 DEF TypeOK

LEMMA MarkLostType ==
  ASSUME TypeOK, NEW r \in Requests, MarkLost(r)
  PROVE  torn' \in [Users -> BOOLEAN]
  BY DEF MarkLost, TypeOK

----------------
(* The inductive invariant.                                                *)

\* A slot that only grows staler keeps what it checked.
LEMMA MoveKeepsChecked ==
  ASSUME TypeOK, Checked, NEW r \in Requests, NEW c \in Running \cup {Idle},
         NEW uw \in BOOLEAN, NEW iw \in BOOLEAN, Move(r, c, uw, iw),
         c = Idle \/ (Active(r) /\ \E pc \in {"rowSaved", "userSaved"} :
                                     c = [req[r] EXCEPT !.pc = pc])
  PROVE  Checked'
<1> SUFFICES ASSUME NEW s \in Requests, Active(s)'
             PROVE /\ Allowed(req'[s].handler, req'[s].seen, req'[s].amount)
                   /\ req'[s].handler = "redeemGiftCard" =>
                        req'[s].item \in Cards /\ req'[s].amount = CardAmount
                   /\ req'[s].handler # "redeemGiftCard" => req'[s].amount \in Amounts
                   /\ req'[s].handler = "processWalletRefund" => req'[s].item \in Refunds
  BY DEF Checked, Allowed, AiCost, Lesser, Total
<1>1. /\ Active(s)
      /\ req'[s].handler = req[s].handler
      /\ req'[s].seen = req[s].seen
      /\ req'[s].amount = req[s].amount
      /\ req'[s].item = req[s].item
  <2>1. CASE s = r
    <3>1. req'[r] = c
      BY MoveEffect
    <3>2. c # Idle
      BY <2>1, <3>1 DEF Active, Idle
    <3>3. req[r] \in Running
      BY <3>2, ActiveIsRunning
    <3> QED BY <2>1, <3>1, <3>2, <3>3 DEF Running
  <2>2. CASE s # r
    <3>1. Active(s) /\ req'[s] = [req[s] EXCEPT !.stale = req'[s].stale]
      BY <2>2, MoveEffect
    <3>2. req[s] \in Running
      BY <3>1, ActiveIsRunning
    <3> QED BY <3>1, <3>2 DEF Running
  <2> QED BY <2>1, <2>2
<1> QED BY <1>1 DEF Checked

LEMMA InitInv == Init => WInv
<1> SUFFICES ASSUME Init PROVE WInv
  OBVIOUS
<1>1. PICK o \in [Users -> Opening] :
        /\ wallet = [u \in Users |-> Balanced(o[u].cash, o[u].bonus)]
        /\ booked = [u \in Users |-> o[u].cash + o[u].bonus]
  BY DEF Init
<1>2. \A u \in Users : o[u] \in [cash : Nat, bonus : Nat]
  BY WalletAssumption
<1>3. wallet \in [Users -> Wallets] /\ booked \in [Users -> Int]
  BY <1>1, <1>2 DEF Balanced, Wallets
<1>4. TypeOK
  BY <1>3, WalletAssumption DEF Init, TypeOK, Idle
<1>5. Checked
  BY DEF Init, Checked, Active, Idle
<1> QED BY <1>4, <1>5 DEF WInv

LEMMA ReadUserInv ==
  ASSUME WInv, NEW r \in Requests, NEW h \in Handlers, NEW u \in Users,
         NEW a \in Amounts \cup {CardAmount},
         NEW x \in Cards \cup Refunds \cup {NoItem}, ReadUser(r, h, u, a, x)
  PROVE  WInv'
<1> DEFINE c == [pc |-> "read", handler |-> h, user |-> u, amount |-> a, item |-> x,
                 seen |-> wallet[u], stale |-> {}]
<1>1. a \in Nat \ {0}
  BY WalletAssumption
<1>2. c \in Running
  BY <1>1 DEF WInv, TypeOK, Running
<1>3. req' = [req EXCEPT ![r] = c]
  BY DEF ReadUser
<1>4. TypeOK'
  <2>1. req' \in [Requests -> Running \cup {Idle}]
    BY <1>2, <1>3 DEF WInv, TypeOK
  <2>2. calls' \in 0 .. MaxCalls
    BY WalletAssumption DEF ReadUser, WInv, TypeOK
  <2> QED BY <2>1, <2>2 DEF ReadUser, WInv, TypeOK
<1>5. Checked'
  <2> SUFFICES ASSUME NEW s \in Requests, Active(s)'
               PROVE /\ Allowed(req'[s].handler, req'[s].seen, req'[s].amount)
                     /\ req'[s].handler = "redeemGiftCard" =>
                          req'[s].item \in Cards /\ req'[s].amount = CardAmount
                     /\ req'[s].handler # "redeemGiftCard" => req'[s].amount \in Amounts
                     /\ req'[s].handler = "processWalletRefund" => req'[s].item \in Refunds
    BY DEF Checked, Allowed, AiCost, Lesser, Total
  <2>1. CASE s = r
    <3>1. req'[s] = c
      BY <1>3, <2>1 DEF WInv, TypeOK
    <3>2. Carries(h, a, x) /\ Allowed(h, wallet[u], a)
      BY DEF ReadUser
    <3> HIDE DEF c
    <3>3. c.handler = h /\ c.seen = wallet[u] /\ c.amount = a /\ c.item = x
      BY DEF c
    <3> QED BY <3>1, <3>2, <3>3 DEF Carries
  <2>2. CASE s # r
    BY <1>3, <2>2 DEF WInv, TypeOK, Checked, Active
  <2> QED BY <2>1, <2>2
<1> QED BY <1>4, <1>5 DEF WInv

\* A step that writes documents and moves the slot keeps the invariant.
LEMMA WriteInv ==
  ASSUME WInv, NEW r \in Requests, Active(r),
         Commit(r) \/ Abort(r) \/ CommitStale(r) \/ SaveRow(r)
           \/ SaveUserAfterRow(r) \/ SaveUser(r) \/ SaveRowAfterUser(r)
  PROVE  WInv'
<1> DEFINE Half(pc) == [req[r] EXCEPT !.pc = pc]
<1>1. req[r] \in Running
  BY ActiveIsRunning DEF WInv
<1>2. Half("rowSaved") \in Running /\ Half("userSaved") \in Running
  BY <1>1 DEF Running
<1>3. PICK c \in {Idle, Half("rowSaved"), Half("userSaved")},
           uw \in BOOLEAN, iw \in BOOLEAN : Move(r, c, uw, iw)
  BY DEF Commit, Abort, CommitStale, SaveRow, SaveUserAfterRow, SaveUser, SaveRowAfterUser
<1>4. Checked'
  BY <1>2, <1>3, MoveKeepsChecked DEF WInv
<1>5. req' \in [Requests -> Running \cup {Idle}]
  BY <1>2, <1>3, MoveEffect DEF WInv
<1>6. wallet' \in [Users -> Wallets]
  <2>1. WriteWallet(r) \/ UNCHANGED wallet
    BY DEF Commit, Abort, CommitStale, SaveRow, SaveUserAfterRow, SaveUser, SaveRowAfterUser
  <2> QED BY <2>1, WriteWalletType DEF WInv, TypeOK
<1>7. booked' \in [Users -> Int]
  <2>1. WriteRow(r) \/ UNCHANGED booked
    BY DEF Commit, Abort, CommitStale, SaveRow, SaveUserAfterRow, SaveUser, SaveRowAfterUser
  <2> QED BY <2>1, WriteRowType DEF WInv, TypeOK
<1>8. torn' \in [Users -> BOOLEAN]
  <2>1. \/ MarkLost(r) \/ UNCHANGED torn
        \/ torn' = [torn EXCEPT ![req[r].user] = TRUE]
    BY DEF Commit, Abort, CommitStale, SaveRow, SaveUserAfterRow, SaveUser, SaveRowAfterUser
  <2> QED BY <2>1, MarkLostType DEF WInv, TypeOK
<1>9. redeemed' \in [Cards -> Nat]
  <2>1. \/ UNCHANGED redeemed
        \/ redeemed' = [redeemed EXCEPT ![req[r].item] = redeemed[req[r].item] + 1]
    BY DEF Commit, Abort, CommitStale, SaveRow, SaveUserAfterRow, SaveUser, SaveRowAfterUser
  <2> QED BY <2>1 DEF WInv, TypeOK
<1>10. refund' \in [Refunds -> {"pending", "processed"}]
  <2>1. \/ UNCHANGED refund
        \/ refund' = [refund EXCEPT ![req[r].item] = "processed"]
    BY DEF Commit, Abort, CommitStale, SaveRow, SaveUserAfterRow, SaveUser, SaveRowAfterUser
  <2> QED BY <2>1 DEF WInv, TypeOK
<1>11. UNCHANGED calls
  BY DEF Commit, Abort, CommitStale, SaveRow, SaveUserAfterRow, SaveUser, SaveRowAfterUser
<1> QED BY <1>4, <1>5, <1>6, <1>7, <1>8, <1>9, <1>10, <1>11 DEF WInv, TypeOK

LEMMA CrashInv == WInv /\ Crash => WInv'
<1> SUFFICES ASSUME WInv, Crash PROVE WInv'
  OBVIOUS
<1>1. TypeOK'
  BY DEF Crash, WInv, TypeOK
<1>2. Checked'
  BY DEF Crash, Checked, Active, Idle
<1> QED BY <1>1, <1>2 DEF WInv

LEMMA CallReads ==
  ASSUME NEW r \in Requests, Call(r)
  PROVE  \E h \in Handlers, u \in Users, a \in Amounts \cup {CardAmount},
            x \in Cards \cup Refunds \cup {NoItem} : ReadUser(r, h, u, a, x)
<1>1. \A h, u, a, x : ReadUser(r, h, u, a, x) => h \in Handlers
  BY DEF ReadUser
<1> QED
  BY <1>1 DEF Call, DeductFromWallet, ProcessSessionPayment, RefundToWallet,
    CreditToWallet, AddUserBonus, DeductUserBonus, SendGift, DeductFromUser,
    DeductForMatrimonyChat, AdjustWalletUp, AdjustWalletDown, SettleAiSession,
    RedeemGiftCard, ProcessWalletRefund

LEMMA NextInv == WInv /\ [Next]_vars => WInv'
<1> SUFFICES ASSUME WInv, [Next]_vars PROVE WInv'
  OBVIOUS
<1>1. ASSUME NEW r \in Requests, NEW h \in Handlers, NEW u \in Users,
             NEW a \in Amounts \cup {CardAmount},
             NEW x \in Cards \cup Refunds \cup {NoItem}, ReadUser(r, h, u, a, x)
      PROVE  WInv'
  BY <1>1, ReadUserInv
<1>2. ASSUME NEW r \in Requests,
             Commit(r) \/ Abort(r) \/ CommitStale(r) \/ SaveRow(r)
               \/ SaveUserAfterRow(r) \/ SaveUser(r) \/ SaveRowAfterUser(r)
      PROVE  WInv'
  <2>1. Active(r)
    BY <1>2 DEF Commit, Abort, CommitStale, SaveRow, SaveUserAfterRow, SaveUser,
                SaveRowAfterUser, Active
  <2> QED BY <1>2, <2>1, WriteInv
<1>3. CASE Crash
  BY <1>3, CrashInv
<1>4. CASE UNCHANGED vars
  BY <1>4 DEF vars, WInv, TypeOK, Checked, Active, Allowed, AiCost, Lesser, Total
<1> QED BY <1>1, <1>2, <1>3, <1>4, CallReads DEF Next

\* Every value the wallet, its rows and the running requests take is in its
\* range: in particular no handler, however it is interleaved, drives the
\* cash or the bonus of a user below zero.
THEOREM WalletTypeOK == Spec => []TypeOK
<1>1. WInv => TypeOK
  BY DEF WInv
<1> QED BY <1>1, InitInv, NextInv, PTL DEF Spec

----------------
(* Gift cards.                                                             *)

\* Every call of a writing step, seen from the other slots.
LEMMA OthersKeepFresh ==
  ASSUME WInv, Fresh, NEW r \in Requests, NEW c \in Running \cup {Idle},
         NEW uw \in BOOLEAN, NEW iw \in BOOLEAN, Move(r, c, uw, iw),
         \A u \in Users : wallet'[u] # wallet[u] => uw /\ u = req[r].user,
         \A x \in Cards : redeemed'[x] # redeemed[x] => iw /\ x = req[r].item,
         NEW s \in Requests \ {r}, req'[s].pc = "read"
  PROVE  /\ "user" \notin req'[s].stale => req'[s].seen = wallet'[req'[s].user]
         /\ req'[s].handler = "redeemGiftCard" /\ "item" \notin req'[s].stale
              => redeemed'[req'[s].item] < MaxRedemptions
<1>1. TypeOK
  BY DEF WInv
<1>2. /\ Active(s)' <=> Active(s)
      /\ Active(s) => req'[s] = [req[s] EXCEPT !.stale = req'[s].stale]
      /\ Active(s) => req[s].stale \subseteq req'[s].stale
      /\ Active(s) /\ uw /\ req[s].user = req[r].user => "user" \in req'[s].stale
      /\ Active(s) /\ iw /\ req[s].item = req[r].item => "item" \in req'[s].stale
  BY <1>1, MoveEffect
<1>3. Active(s)
  BY <1>2 DEF Active
<1>4. req[s] \in Running
  BY <1>3, ActiveIsRunning DEF WInv
<1>5. /\ req'[s].pc = req[s].pc /\ req'[s].user = req[s].user
      /\ req'[s].seen = req[s].seen /\ req'[s].item = req[s].item
      /\ req'[s].handler = req[s].handler
      /\ req[s].stale \subseteq req'[s].stale
      /\ uw /\ req[s].user = req[r].user => "user" \in req'[s].stale
      /\ iw /\ req[s].item = req[r].item => "item" \in req'[s].stale
  BY <1>2, <1>3, <1>4 DEF Running
<1>6. ASSUME "user" \notin req'[s].stale
      PROVE  req'[s].seen = wallet'[req'[s].user]
  BY <1>4, <1>5, <1>6 DEF Fresh, Running
<1>7. ASSUME req'[s].handler = "redeemGiftCard", "item" \notin req'[s].stale
      PROVE  redeemed'[req'[s].item] < MaxRedemptions
  <2>1. req[s].item \in Cards
    BY <1>3, <1>5, <1>7 DEF WInv, Checked
  <2> QED BY <1>5, <1>7, <2>1 DEF Fresh
<1> QED BY <1>6, <1>7

CardInv == WInv /\ Fresh /\ CardWithinLimit

LEMMA CardStep ==
  ASSUME CardInv, NEW r \in Requests, Active(r),
         Commit(r) \/ Abort(r) \/ CommitStale(r) \/ SaveRow(r)
           \/ SaveUserAfterRow(r) \/ SaveUser(r) \/ SaveRowAfterUser(r)
  PROVE  Fresh' /\ CardWithinLimit'
<1> DEFINE Half(pc) == [req[r] EXCEPT !.pc = pc]
<1> USE DEF CardInv
<1>1. req[r] \in Running
  BY ActiveIsRunning DEF WInv
<1>2. Half("rowSaved") \in Running /\ Half("userSaved") \in Running
  BY <1>1 DEF Running
<1>3. PICK c \in {Idle, Half("rowSaved"), Half("userSaved")},
           uw \in BOOLEAN, iw \in BOOLEAN :
        /\ Move(r, c, uw, iw)
        /\ (WriteWallet(r) /\ uw) \/ UNCHANGED wallet
        /\ \/ UNCHANGED redeemed
           \/ /\ iw /\ req[r].handler = "redeemGiftCard" /\ req[r].pc = "read"
              /\ "item" \notin req[r].stale
              /\ redeemed' = [redeemed EXCEPT ![req[r].item] = redeemed[req[r].item] + 1]
  <2>1. CASE Commit(r)
    <3>1. req[r].handler = "redeemGiftCard" => req[r].item # NoItem
      BY WalletAssumption DEF WInv, Checked
    <3> QED BY <2>1, <3>1 DEF Commit
  <2> QED BY <2>1 DEF Abort, CommitStale, SaveRow, SaveUserAfterRow, SaveUser, SaveRowAfterUser
<1>4. \A u \in Users : wallet'[u] # wallet[u] => uw /\ u = req[r].user
  BY <1>3 DEF WriteWallet, WInv, TypeOK
<1>5. \A x \in Cards : redeemed'[x] # redeemed[x] => iw /\ x = req[r].item
  BY <1>3 DEF WInv, TypeOK
<1>6. req'[r] = c /\ c \in Running \cup {Idle}
  BY <1>2, <1>3, MoveEffect DEF WInv
<1>7. c.pc # "read"
  BY <1>1, <1>2, <1>3 DEF Idle, Running
<1>8. Fresh'
  BY <1>3, <1>4, <1>5, <1>6, <1>7, OthersKeepFresh DEF Fresh
<1>9. CardWithinLimit'
  <2>1. ASSUME NEW x \in Cards, redeemed'[x] # redeemed[x]
        PROVE  redeemed'[x] <= MaxRedemptions
    <3>1. /\ x = req[r].item
          /\ redeemed'[x] = redeemed[x] + 1
          /\ redeemed[x] < MaxRedemptions
      BY <1>3, <1>5, <2>1 DEF WInv, TypeOK, Fresh
    <3> QED BY <3>1, WalletAssumption DEF WInv, TypeOK
  <2> QED BY <2>1 DEF CardWithinLimit
<1> QED BY <1>8, <1>9

LEMMA CardNext == CardInv /\ [Next]_vars => CardInv'
<1> SUFFICES ASSUME CardInv, [Next]_vars PROVE Fresh' /\ CardWithinLimit'
  BY NextInv DEF CardInv
<1> USE DEF CardInv
<1>1. ASSUME NEW r \in Requests, NEW h \in Handlers, NEW u \in Users,
             NEW a \in Amounts \cup {CardAmount},
             NEW x \in Cards \cup Refunds \cup {NoItem}, ReadUser(r, h, u, a, x)
      PROVE  Fresh' /\ CardWithinLimit'
  <2> DEFINE c == [pc |-> "read", handler |-> h, user |-> u, amount |-> a, item |-> x,
                   seen |-> wallet[u], stale |-> {}]
  <2>1. /\ req' = [req EXCEPT ![r] = c] /\ UNCHANGED <<wallet, redeemed>>
        /\ Carries(h, a, x)
    BY <1>1 DEF ReadUser
  <2>2. ASSUME NEW s \in Requests, s # r PROVE req'[s] = req[s]
    BY <2>1, <2>2 DEF WInv, TypeOK
  <2>3. req'[r] = c
    BY <2>1 DEF WInv, TypeOK
  <2>4. c.handler = "redeemGiftCard" => redeemed[c.item] < MaxRedemptions
    BY <2>1 DEF Carries
  <2>5. Fresh'
    BY <2>1, <2>2, <2>3, <2>4 DEF Fresh
  <2>6. CardWithinLimit'
    BY <2>1 DEF CardWithinLimit
  <2> QED BY <2>5, <2>6
<1>2. ASSUME NEW r \in Requests,
             Commit(r) \/ Abort(r) \/ CommitStale(r) \/ SaveRow(r)
               \/ SaveUserAfterRow(r) \/ SaveUser(r) \/ SaveRowAfterUser(r)
      PROVE  Fresh' /\ CardWithinLimit'
  <2>1. Active(r)
    BY <1>2 DEF Commit, Abort, CommitStale, SaveRow, SaveUserAfterRow, SaveUser,
                SaveRowAfterUser, Active
  <2> QED BY <1>2, <2>1, CardStep
<1>3. CASE Crash
  BY <1>3 DEF Crash, Fresh, CardWithinLimit, Idle
<1>4. CASE UNCHANGED vars
  BY <1>4 DEF vars, Fresh, CardWithinLimit
<1> QED BY <1>1, <1>2, <1>3, <1>4, CallReads DEF Next

\* No gift card is redeemed more often than it allows, whatever the number
\* of requests redeeming it at once, including every other wallet handler.
THEOREM GiftCardLimit == Spec => []CardWithinLimit
<1>1. Init => CardInv
  <2>1. Init => Fresh
    BY DEF Init, Fresh, Idle
  <2>2. Init => CardWithinLimit
    BY WalletAssumption DEF Init, CardWithinLimit
  <2> QED BY <2>1, <2>2, InitInv DEF CardInv
<1>2. CardInv => CardWithinLimit
  BY DEF CardInv
<1> QED BY <1>1, <1>2, CardNext, PTL DEF Spec

----------------
(* The ledger, with every handler.                                         *)

\* What a request that has yet to write the wallet read of it is current
\* unless marked stale, also after it saved its row.
Current(r) ==
  req[r].pc \in {"read", "rowSaved"} /\ "user" \notin req[r].stale
    => req[r].seen = wallet[req[r].user]

\* What half-done requests have booked too early, or have yet to book.
Owed(u) == [r \in Requests |->
  IF req[r].pc = "rowSaved" /\ req[r].user = u THEN RowOf(req[r])
  ELSE IF req[r].pc = "userSaved" /\ req[r].user = u THEN -RowOf(req[r])
  ELSE 0]

Ledger(u) ==
  /\ wallet[u].balance = Total(wallet[u])
  /\ booked[u] = Total(wallet[u]) + SumFunctionOnSet(Owed(u), Requests)

LedgerInv ==
  /\ WInv
  /\ \A r \in Requests : Current(r)
  /\ \A u \in Users : ~torn[u] => Ledger(u)

\* What any handler adds to a wallet whose total is right is what its row says.
LEMMA RowIsChange ==
  ASSUME NEW h \in Handlers, NEW w \in Wallets, NEW a \in Nat \ {0}, Allowed(h, w, a),
         w.balance = Total(w)
  PROVE  /\ Total(NewWallet(h, w, a)) = Total(w) + RowAmount(h, w, a)
         /\ NewWallet(h, w, a).balance = Total(NewWallet(h, w, a))
<1>1. CASE h \in Debits
  <2>1. NewWallet(h, w, a) = applyDebit(w, a) /\ RowAmount(h, w, a) = -a
    BY <1>1 DEF NewWallet, RowAmount, Debits, BonusCredits
  <2>2. Total(w) >= a /\ Total(w) \in Int
    BY <1>1 DEF Allowed, Total, Wallets
  <2>3. applyDebit(w, a).balance = Total(applyDebit(w, a))
    BY DEF applyDebit, Balanced, Total
  <2> QED BY <2>1, <2>2, <2>3, DebitType
<1>2. CASE h \in BonusCredits
  <2>1. NewWallet(h, w, a) = CreditBonus(w, a) /\ RowAmount(h, w, a) = a
    BY <1>2 DEF NewWallet, RowAmount, Debits, BonusCredits
  <2>2. CreditBonus(w, a).balance = Total(CreditBonus(w, a))
    BY DEF CreditBonus, Balanced, Total
  <2> QED BY <2>1, <2>2, CreditType
<1>3. CASE h = "deductUserBonus"
  <2>1. NewWallet(h, w, a) = TakeBonus(w, a) /\ RowAmount(h, w, a) = -a
    BY <1>3 DEF NewWallet, RowAmount, Debits, BonusCredits
  <2>2. TakeBonus(w, a).balance = Total(TakeBonus(w, a))
    BY DEF TakeBonus, Balanced, Total
  <2>3. w.bonus >= a /\ Total(w) \in Int
    BY <1>3 DEF Allowed, Total, Wallets
  <2> QED BY <2>1, <2>2, <2>3, TakeBonusType
<1>4. CASE h = "processWalletRefund"
  <2>1. NewWallet(h, w, a) = Withdraw(w, a) /\ RowAmount(h, w, a) = -a
    BY <1>4 DEF NewWallet, RowAmount, Debits, BonusCredits
  <2> QED BY <2>1 DEF Withdraw, Balanced, Total, Wallets
<1>5. CASE h = "adjustWalletUp"
  <2>1. NewWallet(h, w, a) = AdjustUp(w, a) /\ RowAmount(h, w, a) = a
    BY <1>5 DEF NewWallet, RowAmount, Debits, BonusCredits
  <2> QED BY <2>1 DEF AdjustUp, Total, Wallets
<1>6. CASE h = "adjustWalletDown"
  <2>1. NewWallet(h, w, a) = AdjustDown(w, a) /\ RowAmount(h, w, a) = -a
    BY <1>6 DEF NewWallet, RowAmount, Debits, BonusCredits
  <2>2. w.balance >= a
    BY <1>6 DEF Allowed
  <2> QED BY <2>1, <2>2 DEF AdjustDown, Lesser, Total, Wallets
<1>7. CASE h = "settleAiSession"
  <2>1. NewWallet(h, w, a) = SettleAi(w, a) /\ RowAmount(h, w, a) = -AiCost(w, a)
    BY <1>7 DEF NewWallet, RowAmount, Debits, BonusCredits
  <2>2. AiCost(w, a) > 0
    BY <1>7 DEF Allowed
  <2> QED BY <2>1, <2>2 DEF SettleAi, AiCost, Balanced, Lesser, Total, Wallets
<1> QED
  BY <1>1, <1>2, <1>3, <1>4, <1>5, <1>6, <1>7, WalletAssumption
     DEF Transactional, StaleRead, RowFirst, UserFirst, Debits, BonusCredits

\* A write that loses nobody's change adds the row's amount to the wallet.
LEMMA WriteEffect ==
  ASSUME LedgerInv, NEW r \in Requests, req[r].pc \in {"read", "rowSaved"},
         WriteWallet(r), MarkLost(r), ~torn'[req[r].user]
  PROVE  LET u == req[r].user IN
         /\ ~torn[u]
         /\ Total(wallet'[u]) = Total(wallet[u]) + RowOf(req[r])
         /\ wallet'[u].balance = Total(wallet'[u])
<1> DEFINE c == req[r]
<1> USE DEF LedgerInv, WInv
<1>1. c \in Running /\ Active(r)
  BY ActiveIsRunning DEF Active
<1>2. c.user \in Users /\ wallet[c.user] \in Wallets /\ c.handler \in Handlers
      /\ c.amount \in Nat \ {0} /\ c.seen \in Wallets
  BY <1>1 DEF Running, TypeOK
<1>3. ~torn[c.user] /\ "user" \notin c.stale
  BY <1>2 DEF MarkLost, TypeOK
<1>4. c.seen = wallet[c.user] /\ wallet[c.user].balance = Total(wallet[c.user])
  BY <1>2, <1>3 DEF Current, Ledger
<1>5. Allowed(c.handler, c.seen, c.amount)
  BY <1>1 DEF Checked
<1>6. NewOf(c) \in Wallets
  BY <1>1, WriteWalletType
<1>7. wallet'[c.user] = NewOf(c)
  <2>1. Saved(wallet[c.user], c.seen, NewOf(c)) = NewOf(c)
    BY <1>2, <1>4, <1>6, SavedFresh
  <2> QED BY <1>2, <2>1 DEF WriteWallet, TypeOK
<1>8. /\ Total(NewOf(c)) = Total(c.seen) + RowOf(c)
      /\ NewOf(c).balance = Total(NewOf(c))
  BY <1>2, <1>4, <1>5, RowIsChange DEF NewOf, RowOf
<1> HIDE DEF c
<1>9. /\ ~torn[c.user]
      /\ Total(wallet'[c.user]) = Total(wallet[c.user]) + RowOf(c)
      /\ wallet'[c.user].balance = Total(wallet'[c.user])
  BY <1>3, <1>4, <1>7, <1>8
<1> QED BY <1>9 DEF c

\* A slot that only grows staler owes what it owed.
LEMMA OthersOwe ==
  ASSUME TypeOK, NEW r \in Requests, NEW c \in Running \cup {Idle},
         NEW uw \in BOOLEAN, NEW iw \in BOOLEAN, Move(r, c, uw, iw),
         NEW s \in Requests \ {r}, NEW u
  PROVE  Owed(u)'[s] = Owed(u)[s]
<1>1. CASE Active(s)
  <2>1. req[s] \in Running /\ req'[s] = [req[s] EXCEPT !.stale = req'[s].stale]
    BY <1>1, MoveEffect, ActiveIsRunning
  <2>2. /\ req'[s].pc = req[s].pc /\ req'[s].user = req[s].user
        /\ req'[s].handler = req[s].handler /\ req'[s].seen = req[s].seen
        /\ req'[s].amount = req[s].amount
    BY <2>1 DEF Running
  <2>3. RowOf(req'[s]) = RowOf(req[s])
    BY <2>2 DEF RowOf
  <2> QED BY <2>2, <2>3 DEF Owed
<1>2. CASE ~Active(s)
  <2>1. req'[s] = req[s]
    BY <1>2 DEF Move, Active
  <2> QED BY <2>1 DEF Owed
<1> QED BY <1>1, <1>2

LEMMA OwedType ==
  ASSUME TypeOK, NEW u
  PROVE  IntegerOn(Owed(u), Requests)
<1> SUFFICES ASSUME NEW r \in Requests
             PROVE  Owed(u)[r] \in Int
  BY DEF IntegerOn
<1>1. Active(r) => RowOf(req[r]) \in Int
  BY ActiveIsRunning, RowAmountType DEF RowOf, Running
<1>2. Active(r) => -RowOf(req[r]) \in Int
  BY <1>1
<1> QED BY <1>1, <1>2 DEF Owed, Active

\* The same of the next state.
LEMMA OwedTypeNext ==
  ASSUME TypeOK', NEW u
  PROVE  IntegerOn(Owed(u)', Requests)
<1> SUFFICES ASSUME NEW r \in Requests
             PROVE  Owed(u)'[r] \in Int
  BY DEF IntegerOn
<1>1. req'[r].pc # "idle" => RowOf(req'[r]) \in Int
  BY RowAmountType DEF TypeOK, RowOf, Running, Idle
<1>2. req'[r].pc # "idle" => -RowOf(req'[r]) \in Int
  BY <1>1
<1> QED BY <1>1, <1>2 DEF Owed

\* The ledger of u still agrees if what a step adds to rows, wallet and debts
\* of one request balances.
LEMMA LedgerStep ==
  ASSUME TypeOK, TypeOK', NEW u \in Users, Ledger(u), NEW r \in Requests,
         \A s \in Requests \ {r} : Owed(u)'[s] = Owed(u)[s],
         wallet'[u].balance = Total(wallet'[u]),
         booked'[u] - Total(wallet'[u]) - Owed(u)'[r] = booked[u] - Total(wallet[u]) - Owed(u)[r]
  PROVE  Ledger(u)'
<1>1. IntegerOn(Owed(u), Requests) /\ IntegerOn(Owed(u)', Requests) /\ IsFiniteSet(Requests)
  BY OwedType, OwedTypeNext, WalletAssumption
<1>2. SumFunctionOnSet(Owed(u)', Requests) =
        SumFunctionOnSet(Owed(u), Requests) + Owed(u)'[r] - Owed(u)[r]
  <2> DEFINE f == Owed(u)
             g == Owed(u)'
  <2>1. \A s \in Requests \ {r} : f[s] = g[s]
    OBVIOUS
  <2> HIDE DEF f, g
  <2>2. IntegerOn(f, Requests) /\ IntegerOn(g, Requests)
    BY <1>1 DEF f, g
  <2>3. SumFunctionOnSet(g, Requests) = SumFunctionOnSet(f, Requests) + g[r] - f[r]
    BY <1>1, <2>1, <2>2, SumChange
  <2> QED BY <2>3 DEF f, g
<1>3. Owed(u)[r] \in Int /\ Owed(u)'[r] \in Int
  BY <1>1 DEF IntegerOn
<1>4. SumFunctionOnSet(Owed(u), Requests) \in Int
  BY <1>1, SumSplit
<1>5. Total(wallet[u]) \in Int /\ Total(wallet'[u]) \in Int /\ booked[u] \in Int /\ booked'[u] \in Int
  BY DEF TypeOK, Total, Wallets
<1>6. booked'[u] = Total(wallet'[u]) + SumFunctionOnSet(Owed(u)', Requests)
  BY <1>2, <1>3, <1>4, <1>5 DEF Ledger
<1> QED BY <1>6 DEF Ledger, Total

\* The requests beside r stay current when r moves.
LEMMA OthersStayCurrent ==
  ASSUME LedgerInv, NEW r \in Requests, NEW c \in Running \cup {Idle},
         NEW uw \in BOOLEAN, NEW iw \in BOOLEAN, Move(r, c, uw, iw),
         \A u \in Users : wallet'[u] # wallet[u] => uw /\ u = req[r].user,
         NEW s \in Requests \ {r}
  PROVE  Current(s)'
<1> USE DEF LedgerInv, WInv
<1>1. CASE Active(s)
  <2>1. /\ req[s] \in Running /\ req'[s] = [req[s] EXCEPT !.stale = req'[s].stale]
        /\ req[s].stale \subseteq req'[s].stale
        /\ uw /\ req[s].user = req[r].user => "user" \in req'[s].stale
    BY <1>1, MoveEffect, ActiveIsRunning
  <2>2. /\ req'[s].pc = req[s].pc /\ req'[s].user = req[s].user /\ req'[s].seen = req[s].seen
        /\ req[s].user \in Users
    BY <2>1 DEF Running
  <2> QED BY <2>1, <2>2 DEF Current
<1>2. CASE ~Active(s)
  <2>1. req'[s].pc = "idle"
    BY <1>2 DEF Move, Active
  <2> QED BY <2>1 DEF Current
<1> QED BY <1>1, <1>2

\* A writing step keeps wallet, rows and debts in balance.
LEMMA WriteStep ==
  ASSUME LedgerInv, NEW r \in Requests, Active(r),
         Commit(r) \/ Abort(r) \/ CommitStale(r) \/ SaveRow(r)
           \/ SaveUserAfterRow(r) \/ SaveUser(r) \/ SaveRowAfterUser(r)
  PROVE  (\A s \in Requests : Current(s)') /\ (\A u \in Users : ~torn'[u] => Ledger(u)')
<1> DEFINE c == req[r]
           Half(pc) == [req[r] EXCEPT !.pc = pc]
<1> USE DEF LedgerInv, WInv
<1>1. c \in Running /\ c.user \in Users /\ RowOf(c) \in Int
  BY ActiveIsRunning, RowAmountType DEF Running, RowOf
<1>2. /\ Half("rowSaved") \in Running /\ Half("userSaved") \in Running
      /\ \A pc \in {"rowSaved", "userSaved"} :
           /\ Half(pc).pc = pc /\ Half(pc).user = c.user /\ Half(pc).seen = c.seen
           /\ Half(pc).stale = c.stale /\ RowOf(Half(pc)) = RowOf(c)
  BY <1>1 DEF Running, RowOf
<1>3. TypeOK'
  BY WriteInv
\* How each action moves the slot, and whether it writes wallet and row.
<1>4. PICK n \in {Idle, Half("rowSaved"), Half("userSaved")},
           uw \in BOOLEAN, iw \in BOOLEAN, paid \in BOOLEAN, rowed \in BOOLEAN :
        /\ Move(r, n, uw, iw)
        /\ IF paid THEN uw /\ WriteWallet(r) /\ MarkLost(r)
           ELSE UNCHANGED wallet /\ (UNCHANGED torn \/ torn' = [torn EXCEPT ![c.user] = TRUE])
        /\ IF rowed THEN WriteRow(r) ELSE UNCHANGED booked
        /\ \/ c.pc = "read" /\ n = Idle /\ paid = rowed
           \/ c.pc = "read" /\ n = Half("rowSaved") /\ ~paid /\ rowed
           \/ c.pc = "rowSaved" /\ n = Idle /\ paid /\ ~rowed
           \/ c.pc = "read" /\ n = Half("userSaved") /\ paid /\ ~rowed
           \/ /\ c.pc = "userSaved" /\ n = Idle /\ ~paid
              /\ rowed \/ torn' = [torn EXCEPT ![c.user] = TRUE]
  <2>1. CASE Commit(r)
    BY <2>1 DEF Commit
  <2>2. CASE CommitStale(r)
    BY <2>2 DEF CommitStale
  <2>3. CASE Abort(r)
    BY <2>3 DEF Abort
  <2>4. CASE SaveRow(r)
    BY <2>4 DEF SaveRow
  <2>5. CASE SaveUserAfterRow(r)
    BY <2>5 DEF SaveUserAfterRow
  <2>6. CASE SaveUser(r)
    BY <2>6 DEF SaveUser
  <2>7. CASE SaveRowAfterUser(r)
    BY <2>7 DEF SaveRowAfterUser
  <2> QED BY <2>1, <2>2, <2>3, <2>4, <2>5, <2>6, <2>7
<1>5. /\ req'[r] = n /\ n \in Running \cup {Idle}
      /\ n = Idle => n.pc = "idle"
      /\ \A pc \in {"rowSaved", "userSaved"} : n = Half(pc) =>
           n.pc = pc /\ n.user = c.user /\ n.seen = c.seen /\ n.stale = c.stale
      /\ Half("rowSaved") # Half("userSaved") /\ Idle # Half("rowSaved") /\ Idle # Half("userSaved")
  <2> HIDE DEF Half
  <2>1. req'[r] = n /\ n \in Running \cup {Idle}
    BY <1>2, <1>4, MoveEffect
  <2>2. Idle.pc = "idle" /\ Half("rowSaved").pc = "rowSaved" /\ Half("userSaved").pc = "userSaved"
    BY <1>2 DEF Idle
  <2> QED BY <1>2, <2>1, <2>2
<1> HIDE DEF Half
<1>6. \A u \in Users : wallet'[u] # wallet[u] => uw /\ u = c.user
  BY <1>4 DEF WriteWallet, TypeOK
<1>7. ASSUME NEW s \in Requests
      PROVE  Current(s)'
  <2>1. CASE s # r
    BY <1>4, <1>5, <1>6, <2>1, OthersStayCurrent
  <2>2. CASE s = r
    <3>1. CASE n = Half("rowSaved")
      <4>1. c.pc = "read" /\ UNCHANGED wallet
        BY <1>4, <1>5, <3>1
      <4>2. n.user = c.user /\ n.seen = c.seen /\ n.stale = c.stale
        BY <1>5, <3>1
      <4>3. Current(r)
        OBVIOUS
      <4> QED BY <1>5, <2>2, <4>1, <4>2, <4>3 DEF Current
    <3>2. CASE n \in {Idle, Half("userSaved")}
      <4>1. n.pc \in {"idle", "userSaved"}
        BY <1>5, <3>2
      <4> QED BY <1>5, <2>2, <4>1 DEF Current
    <3> QED BY <1>4, <3>1, <3>2
  <2> QED BY <2>1, <2>2
<1>8. ASSUME NEW u \in Users, ~torn'[u]
      PROVE  Ledger(u)'
  <2>1. \A s \in Requests \ {r} : Owed(u)'[s] = Owed(u)[s]
    BY <1>4, <1>5, OthersOwe
  <2>2. CASE u # c.user
    <3>1. /\ wallet'[u] = wallet[u] /\ booked'[u] = booked[u] /\ torn'[u] = torn[u]
      BY <1>1, <1>4, <1>6, <2>2 DEF WriteRow, MarkLost, TypeOK
    <3>2. Owed(u)[r] = 0
      BY <2>2 DEF Owed
    <3>3. Owed(u)'[r] = 0
      <4>1. n.pc = "idle" \/ n.user # u
        BY <1>4, <1>5, <2>2
      <4> QED BY <1>5, <4>1 DEF Owed
    <3>4. Ledger(u) /\ Total(wallet'[u]) = Total(wallet[u])
      BY <1>8, <3>1
    <3>5. wallet'[u].balance = Total(wallet'[u])
      BY <3>1, <3>4 DEF Ledger
    <3> QED BY <1>3, <2>1, <3>1, <3>2, <3>3, <3>4, <3>5, LedgerStep
  <2>3. CASE u = c.user
    <3> DEFINE before == Owed(u)[r]
               after == Owed(u)'[r]
    <3>1. before = (IF c.pc = "rowSaved" THEN RowOf(c)
                    ELSE IF c.pc = "userSaved" THEN -RowOf(c) ELSE 0)
      BY <2>3 DEF Owed
    <3>2. after = (IF n = Half("rowSaved") THEN RowOf(c)
                   ELSE IF n = Half("userSaved") THEN -RowOf(c) ELSE 0)
      <4>1. CASE n = Idle
        <5>1. n # Half("rowSaved") /\ n # Half("userSaved") /\ n.pc = "idle"
          BY <1>5, <4>1
        <5> QED BY <1>5, <5>1 DEF Owed
      <4>2. CASE n = Half("rowSaved")
        BY <1>2, <1>5, <2>3, <4>2 DEF Owed
      <4>3. CASE n = Half("userSaved")
        BY <1>2, <1>5, <2>3, <4>3 DEF Owed
      <4> QED BY <1>4, <4>1, <4>2, <4>3
    <3> HIDE DEF before, after
    <3>3. booked'[u] = IF rowed THEN booked[u] + RowOf(c) ELSE booked[u]
      BY <1>1, <1>4, <2>3 DEF WriteRow, TypeOK
    <3>4. torn' # [torn EXCEPT ![c.user] = TRUE]
      BY <1>1, <1>8, <2>3 DEF TypeOK
    <3>6. /\ ~torn[u]
          /\ Total(wallet'[u]) = IF paid THEN Total(wallet[u]) + RowOf(c) ELSE Total(wallet[u])
          /\ wallet'[u].balance = Total(wallet'[u])
      <4>1. CASE paid
        <5>1. c.pc \in {"read", "rowSaved"} /\ WriteWallet(r) /\ MarkLost(r)
          BY <1>4, <4>1
        <5> QED BY <1>8, <2>3, <4>1, <5>1, WriteEffect
      <4>2. CASE ~paid
        <5>1. UNCHANGED wallet /\ UNCHANGED torn
          BY <1>4, <3>4, <4>2
        <5>2. ~torn[u] /\ wallet[u].balance = Total(wallet[u])
          BY <1>8, <5>1 DEF Ledger
        <5> QED BY <4>2, <5>1, <5>2
      <4> QED BY <4>1, <4>2
    <3>7. Total(wallet[u]) \in Int /\ booked[u] \in Int
      BY DEF TypeOK, Total, Wallets
    <3>8. booked'[u] - Total(wallet'[u]) - after = booked[u] - Total(wallet[u]) - before
      <4>1. Half("rowSaved") # Half("userSaved") /\ Idle # Half("rowSaved") /\ Idle # Half("userSaved")
        BY <1>5
      <4>2. CASE c.pc = "read" /\ n = Idle /\ paid = rowed
        BY <1>1, <3>1, <3>2, <3>3, <3>6, <3>7, <4>1, <4>2
      <4>3. CASE c.pc = "read" /\ n = Half("rowSaved") /\ ~paid /\ rowed
        BY <1>1, <3>1, <3>2, <3>3, <3>6, <3>7, <4>1, <4>3
      <4>4. CASE c.pc = "rowSaved" /\ n = Idle /\ paid /\ ~rowed
        BY <1>1, <3>1, <3>2, <3>3, <3>6, <3>7, <4>1, <4>4
      <4>5. CASE c.pc = "read" /\ n = Half("userSaved") /\ paid /\ ~rowed
        BY <1>1, <3>1, <3>2, <3>3, <3>6, <3>7, <4>1, <4>5
      <4>6. CASE c.pc = "userSaved" /\ n = Idle /\ ~paid /\ rowed
        BY <1>1, <3>1, <3>2, <3>3, <3>6, <3>7, <4>1, <4>6
      <4> QED BY <1>4, <3>4, <4>2, <4>3, <4>4, <4>5, <4>6
    <3>9. Ledger(u)
      BY <3>6
    <3> QED BY <1>3, <2>1, <3>6, <3>8, <3>9, LedgerStep DEF before, after
  <2> QED BY <2>2, <2>3
<1> QED BY <1>7, <1>8

\* A step that writes neither wallet nor row of u, and leaves every debt as it is.
LEMMA LedgerKept ==
  ASSUME NEW u \in Users, Ledger(u), wallet'[u] = wallet[u], booked'[u] = booked[u],
         \A s \in Requests : Owed(u)'[s] = Owed(u)[s]
  PROVE  Ledger(u)'
<1> DEFINE f == Owed(u)
           g == Owed(u)'
<1>1. \A s \in Requests : f[s] = g[s]
  OBVIOUS
<1> HIDE DEF f, g
<1>2. SumFunctionOnSet(f, Requests) = SumFunctionOnSet(g, Requests)
  BY <1>1, WalletAssumption, SumSame
<1>3. booked'[u] = Total(wallet'[u]) + SumFunctionOnSet(Owed(u)', Requests)
  BY <1>2 DEF Ledger, f, g
<1> QED BY <1>3 DEF Ledger, Total

LEMMA LedgerNext == LedgerInv /\ [Next]_vars => LedgerInv'
<1> SUFFICES ASSUME LedgerInv, [Next]_vars
             PROVE  (\A s \in Requests : Current(s)') /\ (\A u \in Users : ~torn'[u] => Ledger(u)')
  BY NextInv DEF LedgerInv
<1> USE DEF LedgerInv, WInv
<1>1. ASSUME NEW r \in Requests, NEW h \in Handlers, NEW v \in Users,
             NEW a \in Amounts \cup {CardAmount},
             NEW x \in Cards \cup Refunds \cup {NoItem}, ReadUser(r, h, v, a, x)
      PROVE  (\A s \in Requests : Current(s)') /\ (\A u \in Users : ~torn'[u] => Ledger(u)')
  <2> DEFINE c == [pc |-> "read", handler |-> h, user |-> v, amount |-> a, item |-> x,
                   seen |-> wallet[v], stale |-> {}]
  <2>1. /\ req' = [req EXCEPT ![r] = c] /\ UNCHANGED <<wallet, booked, torn>>
        /\ req[r].pc = "idle"
    BY <1>1 DEF ReadUser
  <2>2. ASSUME NEW s \in Requests, s # r PROVE req'[s] = req[s]
    BY <2>1, <2>2 DEF TypeOK
  <2>3. req'[r] = c /\ c.pc = "read" /\ c.user = v /\ c.seen = wallet[v]
    BY <2>1 DEF TypeOK
  <2> HIDE DEF c
  <2>4. \A s \in Requests : Current(s)'
    BY <2>1, <2>2, <2>3 DEF Current
  <2>5. \A u \in Users, s \in Requests : Owed(u)'[s] = Owed(u)[s]
    BY <2>1, <2>2, <2>3 DEF Owed
  <2> QED BY <2>1, <2>4, <2>5, LedgerKept
<1>2. ASSUME NEW r \in Requests,
             Commit(r) \/ Abort(r) \/ CommitStale(r) \/ SaveRow(r)
               \/ SaveUserAfterRow(r) \/ SaveUser(r) \/ SaveRowAfterUser(r)
      PROVE  (\A s \in Requests : Current(s)') /\ (\A u \in Users : ~torn'[u] => Ledger(u)')
  <2>1. Active(r)
    BY <1>2 DEF Commit, Abort, CommitStale, SaveRow, SaveUserAfterRow, SaveUser,
                SaveRowAfterUser, Active
  <2> QED BY <1>2, <2>1, WriteStep
<1>3. CASE Crash
  <2>1. \A s \in Requests : req'[s] = Idle /\ req'[s].pc = "idle"
    BY <1>3 DEF Crash, Idle
  <2>2. \A s \in Requests : Current(s)'
    BY <2>1 DEF Current
  <2>3. ASSUME NEW u \in Users, ~torn'[u]
        PROVE  Ledger(u)'
    <3>1. /\ ~torn[u] /\ UNCHANGED <<wallet, booked>>
          /\ \A s \in Requests : ~(req[s].pc \in {"rowSaved", "userSaved"} /\ req[s].user = u)
      BY <1>3, <2>3 DEF Crash
    <3>2. \A s \in Requests : Owed(u)'[s] = Owed(u)[s]
      BY <2>1, <3>1 DEF Owed
    <3> QED BY <3>1, <3>2, LedgerKept
  <2> QED BY <2>2, <2>3
<1>4. CASE UNCHANGED vars
  BY <1>4 DEF vars, Current, Ledger, Owed, Total, RowOf, RowAmount, AiCost, Lesser
<1> QED BY <1>1, <1>2, <1>3, <1>4, CallReads DEF Next

LEMMA LedgerInit == Init => LedgerInv
<1> SUFFICES ASSUME Init PROVE LedgerInv
  OBVIOUS
<1>1. PICK o \in [Users -> Opening] :
        /\ wallet = [u \in Users |-> Balanced(o[u].cash, o[u].bonus)]
        /\ booked = [u \in Users |-> o[u].cash + o[u].bonus]
  BY DEF Init
<1>2. \A r \in Requests : req[r].pc = "idle"
  BY DEF Init, Idle
<1>3. ASSUME NEW u \in Users
      PROVE  Ledger(u)
  <2>1. o[u].cash \in Int /\ o[u].bonus \in Int
    BY WalletAssumption
  <2>2. \A r \in Requests : Owed(u)[r] = 0
    BY <1>2 DEF Owed
  <2>3. SumFunctionOnSet(Owed(u), Requests) = 0
    BY <2>2, WalletAssumption, SumZero
  <2> QED BY <1>1, <2>1, <2>3 DEF Ledger, Balanced, Total
<1> QED BY <1>2, <1>3, InitInv DEF LedgerInv, Current

\* With every handler and any interleaving: the rows of a user add up to the
\* wallet whenever no call on it is half done, unless a handler outside a
\* transaction lost a change, a restart came between two writes, or a row was
\* rejected.
THEOREM LedgerOfEveryHandler == Spec => []LedgerAgrees
<1>1. LedgerInv => LedgerAgrees
  <2> SUFFICES ASSUME LedgerInv, NEW u \in Users, ~torn[u], HalfDone(u) = {}
               PROVE  wallet[u].balance = Total(wallet[u]) /\ booked[u] = Total(wallet[u])
    BY DEF LedgerAgrees
  <2>1. \A r \in Requests : Owed(u)[r] = 0
    BY DEF HalfDone, Owed
  <2>2. SumFunctionOnSet(Owed(u), Requests) = 0
    BY <2>1, WalletAssumption, SumZero
  <2>3. Total(wallet[u]) \in Int
    BY DEF LedgerInv, WInv, TypeOK, Wallets, Total
  <2> QED BY <2>2, <2>3 DEF LedgerInv, Ledger
<1> QED BY <1>1, LedgerInit, LedgerNext, PTL DEF Spec

----------------
(* The transactional handlers.                                             *)

Books == \A u \in Users : /\ wallet[u].balance = Total(wallet[u])
                          /\ booked[u] = Total(wallet[u])
InTransactions == \A r \in Requests : req[r].pc \in {"idle", "read"}
TxInv == CardInv /\ Books /\ InTransactions

\* What a transactional handler adds to the wallet is what its row says.
LEMMA RowMatchesWallet ==
  ASSUME NEW h \in Transactional, NEW w \in Wallets, NEW a \in Nat \ {0}, Allowed(h, w, a)
  PROVE  /\ Total(NewWallet(h, w, a)) = Total(w) + RowAmount(h, w, a)
         /\ NewWallet(h, w, a).balance = Total(NewWallet(h, w, a))
<1>1. CASE h \in {"deductFromWallet", "processSessionPayment"}
  <2>1. NewWallet(h, w, a) = applyDebit(w, a) /\ RowAmount(h, w, a) = -a
    BY <1>1 DEF NewWallet, RowAmount, Debits, BonusCredits
  <2>2. Total(w) >= a
    BY <1>1 DEF Allowed, Debits
  <2>3. applyDebit(w, a).balance = Total(applyDebit(w, a))
    BY DEF applyDebit, Balanced, Total
  <2>4. Total(w) \in Int
    BY DEF Total, Wallets
  <2> QED BY <2>1, <2>2, <2>3, <2>4, DebitType
<1>2. CASE h \in BonusCredits
  <2>1. NewWallet(h, w, a) = CreditBonus(w, a) /\ RowAmount(h, w, a) = a
    BY <1>2 DEF NewWallet, RowAmount, Debits, BonusCredits
  <2>2. CreditBonus(w, a).balance = Total(CreditBonus(w, a))
    BY DEF CreditBonus, Balanced, Total
  <2> QED BY <2>1, <2>2, CreditType
<1>3. CASE h = "deductUserBonus"
  <2>1. NewWallet(h, w, a) = TakeBonus(w, a) /\ RowAmount(h, w, a) = -a
    BY <1>3 DEF NewWallet, RowAmount, Debits, BonusCredits
  <2>2. TakeBonus(w, a).balance = Total(TakeBonus(w, a))
    BY DEF TakeBonus, Balanced, Total
  <2>3. w.bonus >= a /\ Total(w) \in Int
    BY <1>3 DEF Allowed, Total, Wallets
  <2> QED BY <2>1, <2>2, <2>3, TakeBonusType
<1> QED BY <1>1, <1>2, <1>3 DEF Transactional, BonusCredits

\* A commit writes the wallet and the row it computed on the current wallet.
LEMMA CommitEffect ==
  ASSUME TxInv, NEW r \in Requests, Commit(r)
  PROVE  LET c == req[r] IN
         /\ c \in Running /\ c.handler \in Transactional
         /\ c.seen = wallet[c.user] /\ Allowed(c.handler, wallet[c.user], c.amount)
         /\ wallet' = [wallet EXCEPT ![c.user] = NewWallet(c.handler, wallet[c.user], c.amount)]
         /\ NewWallet(c.handler, wallet[c.user], c.amount) \in Wallets
         /\ booked' = [booked EXCEPT ![c.user] =
                          booked[c.user] + RowAmount(c.handler, wallet[c.user], c.amount)]
<1> DEFINE c == req[r]
<1>1. Active(r) /\ c.pc = "read" /\ c.handler \in Transactional /\ c.stale = {}
  BY DEF Commit, Active
<1>2. c \in Running
  BY <1>1, ActiveIsRunning DEF TxInv, CardInv, WInv
<1>3. c.seen = wallet[c.user]
  BY <1>1 DEF TxInv, CardInv, Fresh
<1>4. Allowed(c.handler, wallet[c.user], c.amount)
  BY <1>1, <1>3 DEF TxInv, CardInv, WInv, Checked
<1>5. WriteWallet(r) /\ WriteRow(r)
  BY DEF Commit
<1>6. NewOf(c) \in Wallets /\ NewOf(c) = NewWallet(c.handler, wallet[c.user], c.amount)
  BY <1>1, <1>3, <1>5, WriteWalletType DEF TxInv, CardInv, WInv, NewOf
<1>7. Saved(wallet[c.user], c.seen, NewOf(c)) = NewOf(c)
  BY <1>2, <1>3, <1>6, SavedFresh DEF Running
<1>8. wallet' = [wallet EXCEPT ![c.user] = NewOf(c)]
  BY <1>5, <1>7 DEF WriteWallet
<1>9. booked' = [booked EXCEPT ![c.user] =
                   booked[c.user] + RowAmount(c.handler, wallet[c.user], c.amount)]
  BY <1>3, <1>5 DEF WriteRow, RowOf
<1> QED BY <1>1, <1>2, <1>3, <1>4, <1>6, <1>8, <1>9

LEMMA TxNext ==
  ASSUME Handlers \subseteq Transactional, TxInv, [Next]_vars
  PROVE  TxInv'
<1>1. CardInv'
  BY CardNext DEF TxInv
<1>2. /\ ~\E r \in Requests : CommitStale(r) \/ SaveRow(r) \/ SaveUserAfterRow(r)
                              \/ SaveUser(r) \/ SaveRowAfterUser(r)
      /\ TypeOK /\ InTransactions
  <2>1. TypeOK /\ InTransactions
    BY DEF TxInv, CardInv, WInv
  <2>2. \A r \in Requests : req[r].pc = "read" => req[r].handler \in Transactional
    BY <2>1 DEF TypeOK, Running, Idle
  <2>3. Transactional \cap (StaleRead \cup RowFirst \cup UserFirst) = {}
    BY DEF Transactional, StaleRead, RowFirst, UserFirst
  <2> QED
    BY <2>1, <2>2, <2>3
       DEF CommitStale, SaveRow, SaveUserAfterRow, SaveUser, SaveRowAfterUser, InTransactions
<1>3. InTransactions'
  <2>1. ASSUME NEW r \in Requests, Commit(r) \/ Abort(r)
        PROVE  InTransactions'
    <3>1. PICK uw \in BOOLEAN, iw \in BOOLEAN : Move(r, Idle, uw, iw)
      BY <2>1 DEF Commit, Abort
    <3> QED BY <1>2, <3>1 DEF Move, InTransactions, TypeOK, Running, Idle
  <2>2. ASSUME NEW r \in Requests, NEW h \in Handlers, NEW u \in Users,
               NEW a \in Amounts \cup {CardAmount},
               NEW x \in Cards \cup Refunds \cup {NoItem}, ReadUser(r, h, u, a, x)
        PROVE  InTransactions'
    BY <1>2, <2>2 DEF ReadUser, InTransactions, TypeOK
  <2>3. CASE Crash
    BY <2>3 DEF Crash, InTransactions, Idle
  <2>4. CASE UNCHANGED vars
    BY <1>2, <2>4 DEF vars, InTransactions
  <2> QED BY <1>2, <2>1, <2>2, <2>3, <2>4, CallReads DEF Next
<1>4. Books'
  <2>1. ASSUME NEW r \in Requests, Commit(r)
        PROVE  Books'
    <3> DEFINE c == req[r]
               n == NewWallet(c.handler, wallet[c.user], c.amount)
    <3>1. /\ c \in Running /\ c.handler \in Transactional
          /\ Allowed(c.handler, wallet[c.user], c.amount)
          /\ wallet' = [wallet EXCEPT ![c.user] = n] /\ n \in Wallets
          /\ booked' = [booked EXCEPT ![c.user] =
                           booked[c.user] + RowAmount(c.handler, wallet[c.user], c.amount)]
      BY <2>1, CommitEffect
    <3>2. c.user \in Users /\ c.amount \in Nat \ {0} /\ wallet[c.user] \in Wallets
      BY <1>2, <3>1 DEF TypeOK, Running
    <3>3. /\ Total(n) = Total(wallet[c.user]) + RowAmount(c.handler, wallet[c.user], c.amount)
          /\ n.balance = Total(n)
      BY <3>1, <3>2, RowMatchesWallet
    <3>4. ASSUME NEW u \in Users
          PROVE  wallet'[u].balance = Total(wallet'[u]) /\ booked'[u] = Total(wallet'[u])
      <4>1. CASE u = c.user
        <5>1. wallet'[u] = n
          BY <1>2, <3>1, <4>1 DEF TypeOK
        <5>2. booked'[u] = booked[u] + RowAmount(c.handler, wallet[c.user], c.amount)
          BY <1>2, <3>1, <4>1 DEF TypeOK
        <5> QED BY <3>3, <4>1, <5>1, <5>2 DEF TxInv, Books
      <4>2. CASE u # c.user
        BY <1>2, <3>1, <4>2 DEF TypeOK, TxInv, Books
      <4> QED BY <4>1, <4>2
    <3> QED BY <3>4 DEF Books, Total
  <2>2. CASE UNCHANGED <<wallet, booked>>
    BY <2>2 DEF TxInv, Books, Total
  <2>3. (\E r \in Requests : Commit(r)) \/ UNCHANGED <<wallet, booked>>
    BY <1>2, CallReads DEF Next, vars, ReadUser, Abort, Crash
  <2> QED BY <2>1, <2>2, <2>3
<1> QED BY <1>1, <1>3, <1>4 DEF TxInv

LEMMA TxInit == Init => TxInv
<1> SUFFICES ASSUME Init PROVE TxInv
  OBVIOUS
<1>1. WInv
  BY InitInv
<1>2. Fresh /\ CardWithinLimit /\ InTransactions
  BY WalletAssumption DEF Init, Fresh, CardWithinLimit, InTransactions, Idle
<1>3. Books
  <2>1. PICK o \in [Users -> Opening] :
          /\ wallet = [u \in Users |-> Balanced(o[u].cash, o[u].bonus)]
          /\ booked = [u \in Users |-> o[u].cash + o[u].bonus]
    BY DEF Init
  <2> QED BY <2>1 DEF Books, Balanced, Total
<1> QED BY <1>1, <1>2, <1>3 DEF TxInv, CardInv

\* While only transactional handlers run, the rows of every user add up to
\* the wallet, for any number of users and concurrent calls and across
\* restarts: write conflicts are enough, and no handler needs a lock.
THEOREM TransactionalLedger ==
  ASSUME Handlers \subseteq Transactional
  PROVE  Spec => []WalletMatchesLedger
<1>1. TxInv /\ [Next]_vars => TxInv'
  BY TxNext
<1>2. TxInv => WalletMatchesLedger
  BY DEF TxInv, Books, WalletMatchesLedger
<1> QED BY <1>1, <1>2, TxInit, PTL DEF Spec

----------------
(* The transactional handlers implement the account.                       *)

FundsOf(u) == [cash |-> wallet[u].cash, bonus |-> wallet[u].bonus]

LEMMA AccountStep ==
  ASSUME NEW u \in Users
  PROVE  /\ \A a \in Amounts : A!Spend(u, a) \/ A!GrantBonus(u, a) \/ A!Revoke(u, a) => A!Next
         /\ \A x \in Cards : A!Redeem(u, x) => A!Next
  BY Zenon DEF A!Next

\* One commit is one step of the account.
LEMMA CommitIsAccountStep ==
  ASSUME TxInv, TxInv', NEW r \in Requests, Commit(r)
  PROVE  A!Next
<1>0. req[r] \in Running /\ TypeOK
  BY CommitEffect DEF TxInv, CardInv, WInv
<1> PICK u \in Users, a \in Nat \ {0}, x \in Cards \cup Refunds \cup {NoItem},
         h \in Handlers :
      u = req[r].user /\ a = req[r].amount /\ x = req[r].item /\ h = req[r].handler
  BY <1>0 DEF Running
<1> DEFINE w == wallet[u]
           n == NewWallet(h, w, a)
           funds == [v \in Users |-> FundsOf(v)]
           fundsNew == [v \in Users |-> FundsOf(v)']
<1>1. /\ h \in Transactional /\ Allowed(h, w, a)
      /\ wallet' = [wallet EXCEPT ![u] = n] /\ n \in Wallets
      /\ booked' = [booked EXCEPT ![u] = booked[u] + RowAmount(h, w, a)]
  BY CommitEffect
<1>2. w \in Wallets /\ TypeOK
  BY <1>0 DEF TypeOK
<1>3. /\ h = "redeemGiftCard" => x \in Cards /\ a = CardAmount
      /\ h # "redeemGiftCard" => a \in Amounts
  BY DEF TxInv, CardInv, WInv, Checked, Commit, Active
<1>4. fundsNew = [funds EXCEPT ![u] = [cash |-> n.cash, bonus |-> n.bonus]]
  BY <1>1, <1>2 DEF FundsOf, TypeOK
<1>5. funds[u].cash = w.cash /\ funds[u].bonus = w.bonus
  BY <1>2 DEF FundsOf
<1>6. CASE h \in {"deductFromWallet", "processSessionPayment"}
  <2>1. n = applyDebit(w, a) /\ RowAmount(h, w, a) = -a
    BY <1>6 DEF NewWallet, RowAmount, Debits, BonusCredits
  <2>2. Total(w) >= a
    BY <1>1, <1>6 DEF Allowed, Debits
  <2>3. a \in Amounts /\ UNCHANGED redeemed
    BY <1>3, <1>6 DEF Commit
  <2>4. booked' = [booked EXCEPT ![u] = booked[u] - a]
    BY <1>1, <1>2, <2>1 DEF TypeOK
  <2>5. A!Spend(u, a)
    <3> DEFINE b == Lesser(w.bonus, a)
    <3>1. n.cash = w.cash - (a - b) /\ n.bonus = w.bonus - b
      BY <2>1 DEF applyDebit, Balanced
    <3> QED
      BY <1>2, <1>4, <1>5, <2>2, <2>3, <2>4, <3>1 DEF A!Spend, A!Least, Lesser, Total, FundsOf
  <2> QED BY <1>2, <2>3, <2>5, AccountStep
<1>7. CASE h \in BonusCredits
  <2>1. n = CreditBonus(w, a) /\ RowAmount(h, w, a) = a
    BY <1>7 DEF NewWallet, RowAmount, Debits, BonusCredits
  <2>2. n.cash = w.cash /\ n.bonus = w.bonus + a
    BY <2>1 DEF CreditBonus, Balanced
  <2>3. A!Grant(u, a)
    BY <1>1, <1>4, <1>5, <2>1, <2>2 DEF A!Grant, FundsOf
  <2>4. CASE h = "redeemGiftCard"
    <3>1. x \in Cards /\ a = CardAmount
      BY <1>3, <2>4
    <3>2. redeemed' = [redeemed EXCEPT ![x] = @ + 1]
      BY <2>4 DEF Commit
    <3>3. redeemed[x] < MaxRedemptions
      BY <2>4 DEF TxInv, CardInv, Fresh, Commit
    <3>4. A!Redeem(u, x)
      BY <2>3, <3>1, <3>2, <3>3 DEF A!Redeem
    <3> QED BY <1>2, <3>1, <3>4, AccountStep
  <2>5. CASE h # "redeemGiftCard"
    <3>1. a \in Amounts /\ UNCHANGED redeemed
      BY <1>3, <2>5 DEF Commit
    <3>2. A!GrantBonus(u, a)
      BY <2>3, <3>1 DEF A!GrantBonus
    <3> QED BY <1>2, <3>1, <3>2, AccountStep
  <2> QED BY <2>4, <2>5
<1>8. CASE h = "deductUserBonus"
  <2>1. n = TakeBonus(w, a) /\ RowAmount(h, w, a) = -a
    BY <1>8 DEF NewWallet, RowAmount, Debits, BonusCredits
  <2>2. n.cash = w.cash /\ n.bonus = w.bonus - a /\ w.bonus >= a
    BY <1>1, <1>8, <2>1 DEF TakeBonus, Balanced, Allowed
  <2>3. a \in Amounts /\ UNCHANGED redeemed
    BY <1>3, <1>8 DEF Commit
  <2>4. booked' = [booked EXCEPT ![u] = booked[u] - a]
    BY <1>1, <1>2, <2>1 DEF TypeOK
  <2>5. A!Revoke(u, a)
    BY <1>4, <1>5, <2>2, <2>3, <2>4 DEF A!Revoke, FundsOf
  <2> QED BY <1>2, <2>3, <2>5, AccountStep
<1> QED BY <1>1, <1>6, <1>7, <1>8 DEF Transactional, BonusCredits

\* The transactional handlers implement Account: a commit is one account
\* step taken on the funds of that moment, every other step is invisible.
THEOREM TransactionalHandlersImplementAccount ==
  ASSUME Handlers \subseteq Transactional
  PROVE  Spec => ImplementsAccount
<1>1. Init => A!Init
  <2> SUFFICES ASSUME Init PROVE A!Init
    OBVIOUS
  <2>1. PICK o \in [Users -> Opening] :
          /\ wallet = [u \in Users |-> Balanced(o[u].cash, o[u].bonus)]
          /\ booked = [u \in Users |-> o[u].cash + o[u].bonus]
    BY DEF Init
  <2>2. \A u \in Users : o[u] \in Opening /\ o[u] = [cash |-> o[u].cash, bonus |-> o[u].bonus]
    BY WalletAssumption
  <2>3. [u \in Users |-> FundsOf(u)] \in [Users -> Opening]
    BY <2>1, <2>2 DEF FundsOf, Balanced
  <2>4. redeemed = [x \in Cards |-> 0]
    BY DEF Init
  <2> QED BY <2>1, <2>3, <2>4 DEF A!Init, FundsOf, Balanced
<1>2. TxInv /\ TxInv' /\ [Next]_vars => [A!Next]_(A!accountVars)
  <2> SUFFICES ASSUME TxInv, TxInv', [Next]_vars PROVE [A!Next]_(A!accountVars)
    OBVIOUS
  <2>1. ASSUME NEW r \in Requests, Commit(r) PROVE A!Next
    BY <2>1, CommitIsAccountStep
  <2>2. (\E r \in Requests : Commit(r)) \/ UNCHANGED <<wallet, booked, redeemed>>
    <3>1. /\ \A r \in Requests : req[r].pc \in {"idle", "read"}
          /\ \A r \in Requests : req[r].pc = "read" => req[r].handler \in Transactional
      BY DEF TxInv, CardInv, WInv, InTransactions, TypeOK, Running, Idle
    <3>2. Transactional \cap (StaleRead \cup RowFirst \cup UserFirst) = {}
      BY DEF Transactional, StaleRead, RowFirst, UserFirst
    <3>3. ASSUME NEW r \in Requests PROVE ~CommitStale(r) /\ ~SaveRow(r) /\ ~SaveUser(r)
      BY <3>1, <3>2 DEF CommitStale, SaveRow, SaveUser
    <3>4. ASSUME NEW r \in Requests PROVE ~SaveUserAfterRow(r) /\ ~SaveRowAfterUser(r)
      BY <3>1 DEF SaveUserAfterRow, SaveRowAfterUser
    <3>5. ASSUME NEW r \in Requests, Call(r) PROVE UNCHANGED <<wallet, booked, redeemed>>
      BY <3>5, CallReads DEF ReadUser
    <3>6. ASSUME NEW r \in Requests, Abort(r) PROVE UNCHANGED <<wallet, booked, redeemed>>
      BY <3>6 DEF Abort
    <3>7. Crash => UNCHANGED <<wallet, booked, redeemed>>
      BY DEF Crash
    <3> QED BY <3>3, <3>4, <3>5, <3>6, <3>7 DEF Next, vars
  <2>3. CASE UNCHANGED <<wallet, booked, redeemed>>
    BY <2>3 DEF A!accountVars
  <2> QED BY <2>1, <2>2, <2>3
<1>3. TxInv /\ [Next]_vars => TxInv'
  BY TxNext
<1> QED BY <1>1, <1>2, <1>3, TxInit, PTL DEF Spec, ImplementsAccount, A!Spec

(***************************************************************************)
(* Theorems about Bookings for every number of reports, requests, failures *)
(* and restarts.  What a request knows of a report stays true while others *)
(* run: whatever is paid, made or about to be was signed before.  With one *)
(* slot, a report that was signed stays paid, as nobody who read it before *)
(* is left to write over it.                                               *)
(***************************************************************************)
CONSTANTS Slots, MaxRequests, MaxFailures, Bookings, MaxRestarts
VARIABLES work, requests, failures, booking, signed, made, stuck, restarts

K == INSTANCE Bookings

\* One request after another.
Alone == \A q, r \in Slots : q = r

Documents == [status : {"none", "pending", "paid", "failed"},
              pdf : {"none", "generating", "generated", "failed"}, url : BOOLEAN]
OfPaid == {"paid", "begin", "generate", "store", "give up"}
Jobs == [pc : {"create", "failed"} \cup OfPaid, b : Bookings]

BookTypes ==
  /\ booking \in [Bookings -> Documents] /\ signed \subseteq Bookings /\ stuck \subseteq Bookings
  /\ made \in [Bookings -> Nat] /\ requests \in Nat /\ failures \in Nat /\ restarts \in Nat
  /\ work \in [Slots -> {K!Idle} \cup Jobs]

\* Whatever is paid, made or about to be was signed, and what was signed was created.
Signed ==
  /\ \A b \in Bookings : (booking[b].status = "paid" \/ made[b] > 0) => b \in signed
  /\ \A b \in Bookings : booking[b].status = "none" => booking[b] = K!NoBooking /\ b \notin signed
  /\ \A r \in Slots : work[r].pc \in OfPaid => work[r].b \in signed

\* One request at a time: what was signed is paid or about to be, and nobody
\* who read the booking before is left to write over it.
Standing ==
  /\ \A b \in signed \ stuck, r \in Slots :
       booking[b].status = "paid" \/ (work[r].pc = "paid" /\ work[r].b = b)
  /\ \A r \in Slots : work[r].pc = "failed" => work[r].b \notin signed \ stuck
  /\ \A r \in Slots : work[r].pc = "create" => booking[work[r].b] = K!NoBooking

\* One request at a time and without a failure: a PDF that was made is stored
\* or about to be, and nobody makes another.
Single ==
  /\ \A b \in Bookings : made[b] <= 1
  /\ \A b \in Bookings, r \in Slots : made[b] > 0 =>
       \/ booking[b].pdf = "generated" /\ booking[b].url = TRUE
       \/ work[r].pc = "store" /\ work[r].b = b
  /\ \A r \in Slots : work[r].pc \in {"begin", "generate"} => made[work[r].b] = 0
  /\ \A r \in Slots : work[r].pc # "give up"

\* Somebody makes the PDF that is said to be generated.
Making == {"generate", "store", "give up"}
Attended ==
  \A b \in Bookings \ stuck : booking[b].pdf = "generating" =>
    \E r \in Slots : work[r].pc \in Making /\ work[r].b = b

BookInv ==
  /\ BookTypes /\ Signed /\ Attended
  /\ Alone => Standing
  /\ (Alone /\ failures = 0 /\ restarts = 0) => Single

LEMMA DocumentOf ==
  ASSUME NEW d \in Documents
  PROVE  /\ \A s \in {"pending", "paid", "failed"} :
              /\ [d EXCEPT !.status = s] \in Documents /\ [d EXCEPT !.status = s].status = s
              /\ [d EXCEPT !.status = s].pdf = d.pdf /\ [d EXCEPT !.status = s].url = d.url
         /\ \A p \in {"generating", "failed"} :
              /\ [d EXCEPT !.pdf = p] \in Documents /\ [d EXCEPT !.pdf = p].status = d.status
              /\ [d EXCEPT !.pdf = p].pdf = p
         /\ [d EXCEPT !.pdf = "generated", !.url = TRUE] \in Documents
         /\ [d EXCEPT !.pdf = "generated", !.url = TRUE].status = d.status
         /\ [d EXCEPT !.pdf = "generated", !.url = TRUE].pdf = "generated"
         /\ [d EXCEPT !.pdf = "generated", !.url = TRUE].url = TRUE
BY Zenon DEF Documents

LEMMA JobOf ==
  ASSUME BookTypes, NEW r \in Slots
  PROVE  /\ work[r].pc # "idle" => work[r] \in Jobs /\ work[r].b \in Bookings
         /\ work[r].pc = "idle" => work[r] = K!Idle
<1>1. work[r] = K!Idle \/ work[r] \in Jobs
  BY DEF BookTypes
<1>2. K!Idle.pc = "idle"
  BY DEF K!Idle
<1>3. \A j \in Jobs : j.pc # "idle" /\ j.b \in Bookings
  BY DEF Jobs, OfPaid
<1> QED BY <1>1, <1>2, <1>3

OfStatus(d, s) == [d EXCEPT !.status = s]
LEMMA StatusOf ==
  ASSUME NEW d \in Documents, NEW s \in {"pending", "paid", "failed"}
  PROVE  /\ OfStatus(d, s) \in Documents /\ OfStatus(d, s).status = s
         /\ OfStatus(d, s).pdf = d.pdf /\ OfStatus(d, s).url = d.url
BY DocumentOf DEF OfStatus

\* A job that goes on keeps its booking.
LEMMA GoesOn ==
  ASSUME BookTypes, NEW r \in Slots, work[r].pc # "idle", NEW pc \in OfPaid, K!Goto(r, pc)
  PROVE  /\ work' \in [Slots -> {K!Idle} \cup Jobs] /\ \A q \in Slots \ {r} : work'[q] = work[q]
         /\ work'[r].pc = pc /\ work'[r].b = work[r].b
<1>1. work[r] \in Jobs
  BY JobOf
<1>2. [work[r] EXCEPT !.pc = pc] \in Jobs /\ [work[r] EXCEPT !.pc = pc].pc = pc
      /\ [work[r] EXCEPT !.pc = pc].b = work[r].b
  BY <1>1, Zenon DEF Jobs
<1>3. work' = [work EXCEPT ![r] = [work[r] EXCEPT !.pc = pc]]
  BY Zenon DEF K!Goto
<1> QED BY <1>2, <1>3 DEF BookTypes

\* A job that ends leaves an idle slot.
LEMMA Ends ==
  ASSUME BookTypes, NEW r \in Slots, K!Finish(r)
  PROVE  /\ work' \in [Slots -> {K!Idle} \cup Jobs] /\ \A q \in Slots \ {r} : work'[q] = work[q]
         /\ work'[r].pc = "idle"
BY DEF BookTypes, K!Finish, K!Idle

\* A job that begins; the document is not touched.
LEMMA Begins ==
  ASSUME BookInv, NEW r \in Slots, NEW b \in Bookings, NEW pc \in {"create", "failed", "paid", "begin"},
         K!Accept(r, [pc |-> pc, b |-> b])
  PROVE  /\ work' \in [Slots -> {K!Idle} \cup Jobs] /\ \A q \in Slots \ {r} : work'[q] = work[q]
         /\ work[r].pc = "idle" /\ work'[r].pc = pc /\ work'[r].b = b
         /\ UNCHANGED <<booking, made, stuck, failures, restarts>> /\ requests' \in Nat
<1>1. [pc |-> pc, b |-> b] \in Jobs
  BY DEF Jobs, OfPaid
<1> QED BY <1>1 DEF BookInv, BookTypes, K!Accept, K!Begin, K!At

\* A PDF said to be generated is attended still, unless who attends it leaves.
LEMMA AttendedStays ==
  ASSUME Attended, NEW r \in Slots, \A q \in Slots \ {r} : work'[q] = work[q], stuck \subseteq stuck',
         \A b \in Bookings \ stuck' : booking'[b].pdf = "generating" =>
           \/ booking[b].pdf = "generating" /\ ~(work[r].pc \in Making /\ work[r].b = b)
           \/ work'[r].pc \in Making /\ work'[r].b = b
  PROVE  Attended'
<1> SUFFICES ASSUME NEW b \in Bookings \ stuck', booking'[b].pdf = "generating"
             PROVE  \E q \in Slots : work'[q].pc \in Making /\ work'[q].b = b
  BY DEF Attended
<1>1. CASE booking[b].pdf = "generating" /\ ~(work[r].pc \in Making /\ work[r].b = b)
  <2>1. PICK q \in Slots : work[q].pc \in Making /\ work[q].b = b
    BY <1>1 DEF Attended
  <2>2. q # r /\ work'[q] = work[q]
    BY <1>1, <2>1
  <2> QED BY <2>1, <2>2
<1>2. CASE work'[r].pc \in Making /\ work'[r].b = b
  BY <1>2
<1> QED BY <1>1, <1>2

LEMMA NoBookingIs == K!NoBooking.status = "none" /\ K!NoBooking.pdf = "none"
BY DEF K!NoBooking

\* What one request at a time keeps, step by step: who is alone is r.
LEMMA StandingStays ==
  ASSUME Alone, Standing, NEW r \in Slots,
         \A b \in signed' \ stuck' :
           booking'[b].status = "paid" \/ (work'[r].pc = "paid" /\ work'[r].b = b),
         work'[r].pc = "failed" => work'[r].b \notin signed' \ stuck',
         work'[r].pc = "create" => booking'[work'[r].b] = K!NoBooking
  PROVE  Standing'
<1>1. \A q \in Slots : q = r
  BY DEF Alone
<1> QED BY <1>1, Zenon DEF Standing

LEMMA SingleStays ==
  ASSUME Alone, NEW r \in Slots, \A b \in Bookings : made'[b] <= 1,
         \A b \in Bookings : made'[b] > 0 =>
           \/ booking'[b].pdf = "generated" /\ booking'[b].url = TRUE
           \/ work'[r].pc = "store" /\ work'[r].b = b,
         work'[r].pc \in {"begin", "generate"} => made'[work'[r].b] = 0,
         work'[r].pc # "give up"
  PROVE  Single'
<1>1. \A q \in Slots : q = r
  BY DEF Alone
<1> QED BY <1>1, Zenon DEF Single

LEMMA CreateStep ==
  ASSUME BookInv, NEW r \in Slots, NEW b \in Bookings, K!CreateBooking(r, b)
  PROVE  BookInv'
<1>0. BookTypes /\ Signed /\ Attended
  BY DEF BookInv
<1>1. /\ work' \in [Slots -> {K!Idle} \cup Jobs] /\ \A q \in Slots \ {r} : work'[q] = work[q]
      /\ work[r].pc = "idle" /\ work'[r].pc = "create" /\ work'[r].b = b
      /\ UNCHANGED <<booking, made, stuck, failures, restarts, signed>> /\ requests' \in Nat
      /\ booking[b] = K!NoBooking
  BY Begins DEF K!CreateBooking
<1>2. BookTypes' /\ Signed'
  BY <1>0, <1>1 DEF BookTypes, Signed, OfPaid
<1>3. Attended'
  BY <1>0, <1>1, AttendedStays DEF Making
<1>4. Alone => Standing'
  BY <1>1 DEF BookInv, Standing, Alone
<1>5. (Alone /\ failures = 0 /\ restarts = 0) => Single'
  <2> SUFFICES ASSUME Alone, Single
               PROVE  Single'
    BY <1>1 DEF BookInv
  <2> QED BY <1>1 DEF Single, Alone
<1> QED BY <1>1, <1>2, <1>3, <1>4, <1>5 DEF BookInv

LEMMA GenerateStep ==
  ASSUME BookInv, NEW r \in Slots, NEW b \in Bookings, K!GeneratePdf(r, b)
  PROVE  BookInv'
<1>0. BookTypes /\ Signed /\ Attended
  BY DEF BookInv
<1>1. /\ work' \in [Slots -> {K!Idle} \cup Jobs] /\ \A q \in Slots \ {r} : work'[q] = work[q]
      /\ work[r].pc = "idle" /\ work'[r].pc = "begin" /\ work'[r].b = b
      /\ UNCHANGED <<booking, made, stuck, failures, restarts, signed>> /\ requests' \in Nat
      /\ booking[b].status = "paid" /\ ~(booking[b].pdf = "generated" /\ booking[b].url = TRUE)
  BY Begins DEF K!GeneratePdf
<1>2. BookTypes' /\ Signed'
  BY <1>0, <1>1 DEF BookTypes, Signed, OfPaid
<1>3. Attended'
  BY <1>0, <1>1, AttendedStays DEF Making
<1>4. Alone => Standing'
  BY <1>1 DEF BookInv, Standing, Alone
<1>5. (Alone /\ failures = 0 /\ restarts = 0) => Single'
  <2> SUFFICES ASSUME Alone, failures = 0, restarts = 0
               PROVE  Single'
    OBVIOUS
  <2>0. Single /\ made[b] \in Nat
    BY DEF BookInv, BookTypes
  <2>2. ~(made[b] > 0)
    BY <1>1, <2>0 DEF Single
  <2>1. made[b] = 0
    BY <2>0, <2>2
  <2> QED BY <1>1, <2>1 DEF BookInv, Single, Alone
<1> QED BY <1>1, <1>2, <1>3, <1>4, <1>5 DEF BookInv

LEMMA VerifyStep ==
  ASSUME BookInv, NEW r \in Slots, NEW b \in Bookings, NEW valid \in BOOLEAN,
         K!VerifyPayment(r, b, valid)
  PROVE  BookInv'
<1>0. BookTypes /\ Signed /\ Attended
  BY DEF BookInv
<1> DEFINE pc == IF valid THEN "paid" ELSE "failed"
<1>1. /\ work' \in [Slots -> {K!Idle} \cup Jobs] /\ \A q \in Slots \ {r} : work'[q] = work[q]
      /\ work[r].pc = "idle" /\ work'[r].pc = pc /\ work'[r].b = b
      /\ UNCHANGED <<booking, made, stuck, failures, restarts>> /\ requests' \in Nat
      /\ booking[b] # K!NoBooking /\ booking[b].status # "paid"
      /\ signed' = IF valid THEN signed \cup {b} ELSE signed
  BY Begins DEF K!VerifyPayment
<1>2. BookTypes' /\ Signed'
  BY <1>0, <1>1 DEF BookTypes, Signed, OfPaid
<1>3. Attended'
  BY <1>0, <1>1, AttendedStays DEF Making
<1>4. Alone => Standing'
  BY <1>1 DEF BookInv, Standing, Alone
<1>5. (Alone /\ failures = 0 /\ restarts = 0) => Single'
  <2> SUFFICES ASSUME Alone, Single
               PROVE  Single'
    BY <1>1 DEF BookInv
  <2> QED BY <1>1 DEF Single, Alone
<1> QED BY <1>1, <1>2, <1>3, <1>4, <1>5 DEF BookInv

\* A document is saved: who saves it was a step of its job.
LEMMA WrittenOf ==
  ASSUME BookTypes, NEW b \in Bookings, NEW d \in Documents, K!Written(b, d)
  PROVE  /\ booking' \in [Bookings -> Documents] /\ booking'[b] = d
         /\ \A c \in Bookings \ {b} : booking'[c] = booking[c]
         /\ UNCHANGED <<signed, stuck, requests, failures, restarts>>
BY DEF BookTypes, K!Written

LEMMA SaveStep ==
  ASSUME BookInv, NEW r \in Slots, K!SaveBooking(r) \/ K!SaveVerified(r)
  PROVE  BookInv'
<1>0. BookTypes /\ Signed /\ Attended
  BY DEF BookInv
<1>1. PICK s \in {"pending", "paid", "failed"} :
        /\ K!Written(work[r].b, OfStatus(booking[work[r].b], s))
        /\ work[r].pc = IF s = "pending" THEN "create" ELSE s
        /\ K!Finish(r) /\ made' = made
  BY Zenon DEF K!SaveBooking, K!SaveVerified, K!At, OfStatus
<1> DEFINE b == work[r].b
           d == OfStatus(booking[b], s)
<1>2. b \in Bookings /\ booking[b] \in Documents
  BY <1>1, JobOf DEF BookInv, BookTypes
<1>3. d \in Documents /\ d.status = s /\ d.pdf = booking[b].pdf /\ d.url = booking[b].url
  BY <1>2, StatusOf
<1> HIDE DEF d
<1>4. /\ booking' \in [Bookings -> Documents] /\ booking'[b] = d
      /\ \A c \in Bookings \ {b} : booking'[c] = booking[c]
      /\ UNCHANGED <<signed, stuck, requests, failures, restarts>>
  BY <1>1, <1>2, <1>3, WrittenOf DEF BookInv, d
<1>5. /\ work' \in [Slots -> {K!Idle} \cup Jobs] /\ \A q \in Slots \ {r} : work'[q] = work[q]
      /\ work'[r].pc = "idle"
  BY <1>1, Ends DEF BookInv
<1> HIDE DEF b
<1>6. BookTypes'
  BY <1>0, <1>1, <1>4, <1>5 DEF BookTypes
<1>7. Signed'
  BY <1>0, <1>1, <1>2, <1>3, <1>4, <1>5 DEF Signed, OfPaid, b
<1>8. Attended'
  <2>1. \A c \in Bookings \ stuck' : booking'[c].pdf = "generating" =>
           \/ booking[c].pdf = "generating" /\ ~(work[r].pc \in Making /\ work[r].b = c)
           \/ work'[r].pc \in Making /\ work'[r].b = c
    BY <1>1, <1>2, <1>3, <1>4, <1>5 DEF Making, b
  <2> QED BY <1>0, <1>4, <1>5, <2>1, AttendedStays
<1>9. Alone => Standing'
  <2> SUFFICES ASSUME Alone, Standing, Signed
               PROVE  Standing'
    BY DEF BookInv
  <2>1. \A c \in signed \ stuck : booking[c].status = "paid" \/ (work[r].pc = "paid" /\ b = c)
    BY DEF Standing, b
  <2>2. work[r].pc = "failed" => b \notin signed \ stuck
    BY DEF Standing, b
  <2>3. work[r].pc = "create" => b \notin signed
    BY <1>2, NoBookingIs DEF Standing, Signed, b
  <2>4. \A c \in signed' \ stuck' :
           booking'[c].status = "paid" \/ (work'[r].pc = "paid" /\ work'[r].b = c)
    BY <1>0, <1>1, <1>2, <1>3, <1>4, <2>1, <2>2, <2>3 DEF BookTypes
  <2> QED BY <1>5, <2>4, StandingStays
<1>10. (Alone /\ failures = 0 /\ restarts = 0) => Single'
  <2> SUFFICES ASSUME Alone, Single
               PROVE  Single'
    BY DEF BookInv
  <2>1. /\ \A c \in Bookings : made[c] <= 1
        /\ \A c \in Bookings : made[c] > 0 => booking[c].pdf = "generated" /\ booking[c].url = TRUE
    BY <1>1 DEF Single
  <2>2. \A c \in Bookings : booking'[c].pdf = booking[c].pdf /\ booking'[c].url = booking[c].url
    BY <1>3, <1>4
  <2> QED BY <1>1, <1>5, <2>1, <2>2, SingleStays
<1> QED BY <1>4, <1>6, <1>7, <1>8, <1>9, <1>10 DEF BookInv

LEMMA BeginPdfStep ==
  ASSUME BookInv, NEW r \in Slots, K!SaveGenerating(r)
  PROVE  BookInv'
<1>0. BookTypes /\ Signed /\ Attended
  BY DEF BookInv
<1> DEFINE b == work[r].b
           d == [booking[b] EXCEPT !.pdf = "generating"]
<1>1. K!Written(b, d) /\ work[r].pc = "begin" /\ K!Goto(r, "generate") /\ made' = made
  BY DEF K!SaveGenerating, K!At
<1>2. b \in Bookings /\ booking[b] \in Documents
  BY <1>1, JobOf DEF BookInv, BookTypes
<1>3. d \in Documents /\ d.status = booking[b].status /\ d.pdf = "generating"
  BY <1>2, DocumentOf
<1> HIDE DEF d
<1>4. /\ booking' \in [Bookings -> Documents] /\ booking'[b] = d
      /\ \A c \in Bookings \ {b} : booking'[c] = booking[c]
      /\ UNCHANGED <<signed, stuck, requests, failures, restarts>>
  BY <1>1, <1>2, <1>3, WrittenOf DEF BookInv
<1>5. /\ work' \in [Slots -> {K!Idle} \cup Jobs] /\ \A q \in Slots \ {r} : work'[q] = work[q]
      /\ work'[r].pc = "generate" /\ work'[r].b = b
  BY <1>1, GoesOn DEF BookInv, OfPaid
<1> HIDE DEF b
<1>6. BookTypes'
  BY <1>0, <1>1, <1>4, <1>5 DEF BookTypes
<1>7. Signed'
  BY <1>0, <1>1, <1>2, <1>3, <1>4, <1>5 DEF Signed, OfPaid, b
<1>8. Attended'
  <2>1. \A c \in Bookings \ stuck' : booking'[c].pdf = "generating" =>
           \/ booking[c].pdf = "generating" /\ ~(work[r].pc \in Making /\ work[r].b = c)
           \/ work'[r].pc \in Making /\ work'[r].b = c
    BY <1>1, <1>2, <1>3, <1>4, <1>5 DEF Making, b
  <2> QED BY <1>0, <1>4, <1>5, <2>1, AttendedStays
<1>9. Alone => Standing'
  <2> SUFFICES ASSUME Alone, Standing, Signed
               PROVE  Standing'
    BY DEF BookInv
  <2>1. \A c \in signed \ stuck : booking[c].status = "paid" \/ (work[r].pc = "paid" /\ b = c)
    BY DEF Standing, b
  <2>4. \A c \in signed' \ stuck' :
           booking'[c].status = "paid" \/ (work'[r].pc = "paid" /\ work'[r].b = c)
    BY <1>0, <1>1, <1>2, <1>3, <1>4, <2>1 DEF BookTypes
  <2> QED BY <1>5, <2>4, StandingStays
<1>10. (Alone /\ failures = 0 /\ restarts = 0) => Single'
  <2> SUFFICES ASSUME Alone, Single
               PROVE  Single'
    BY DEF BookInv
  <2>1. made[b] = 0
    BY <1>1 DEF Single, b
  <2>2. /\ \A c \in Bookings : made[c] <= 1
        /\ \A c \in Bookings : made[c] > 0 => booking[c].pdf = "generated" /\ booking[c].url = TRUE
    BY <1>1 DEF Single
  <2>3. \A c \in Bookings : made'[c] > 0 => booking'[c].pdf = "generated" /\ booking'[c].url = TRUE
    BY <1>1, <1>4, <2>1, <2>2
  <2> QED BY <1>1, <1>5, <2>1, <2>2, <2>3, SingleStays
<1> QED BY <1>4, <1>6, <1>7, <1>8, <1>9, <1>10 DEF BookInv

\* What making the PDF, or failing to, counts.
LEMMA MakeEffect ==
  ASSUME BookTypes, NEW r \in Slots, NEW ok \in BOOLEAN, K!Generate(r, ok)
  PROVE  \E n \in {0, 1} :
           /\ work[r].pc = "generate" /\ (n = 1 => K!Goto(r, "store")) /\ (n = 0 => K!Goto(r, "give up"))
           /\ made' = [made EXCEPT ![work[r].b] = made[work[r].b] + n]
           /\ failures' = failures + (1 - n)
           /\ UNCHANGED <<booking, signed, stuck, requests, restarts>>
<1>1. CASE ok
  <2>1. /\ work[r].pc = "generate" /\ K!Goto(r, "store")
        /\ made' = [made EXCEPT ![work[r].b] = made[work[r].b] + 1]
        /\ failures' = failures + 0
        /\ UNCHANGED <<booking, signed, stuck, requests, restarts>>
    BY <1>1, Zenon DEF K!Generate, K!At
  <2>2. 0 # 1 /\ 1 - 1 = 0
    OBVIOUS
  <2> QED BY <2>1, <2>2
<1>2. CASE ~ok
  <2>1. /\ work[r].pc = "generate" /\ K!Goto(r, "give up")
        /\ made' = [made EXCEPT ![work[r].b] = made[work[r].b] + 0]
        /\ failures' = failures + 1
        /\ UNCHANGED <<booking, signed, stuck, requests, restarts>>
    BY <1>2, Zenon DEF K!Generate, K!At
  <2>2. 0 # 1 /\ 1 - 0 = 1
    OBVIOUS
  <2> QED BY <2>1, <2>2
<1> QED BY <1>1, <1>2

LEMMA MakeStep ==
  ASSUME BookInv, NEW r \in Slots, NEW ok \in BOOLEAN, K!Generate(r, ok)
  PROVE  BookInv'
<1>0. BookTypes /\ Signed /\ Attended
  BY DEF BookInv
<1> DEFINE b == work[r].b
<1>1. PICK n \in {0, 1} :
        /\ work[r].pc = "generate" /\ (n = 1 => K!Goto(r, "store")) /\ (n = 0 => K!Goto(r, "give up"))
        /\ made' = [made EXCEPT ![b] = made[b] + n]
        /\ failures' = failures + (1 - n)
        /\ UNCHANGED <<booking, signed, stuck, requests, restarts>>
  BY <1>0, MakeEffect
<1>2. b \in Bookings /\ b \in signed
  BY <1>0, <1>1, JobOf DEF Signed, OfPaid
<1>3. /\ work' \in [Slots -> {K!Idle} \cup Jobs] /\ \A q \in Slots \ {r} : work'[q] = work[q]
      /\ work'[r].pc = (IF n = 1 THEN "store" ELSE "give up") /\ work'[r].b = b
  BY <1>0, <1>1, GoesOn DEF OfPaid
<1> HIDE DEF b
<1>4. /\ made' \in [Bookings -> Nat] /\ made'[b] = made[b] + n
      /\ \A c \in Bookings \ {b} : made'[c] = made[c]
  <2>1. made \in [Bookings -> Nat] /\ made[b] + n \in Nat
    BY <1>0, <1>2 DEF BookTypes
  <2> QED BY <1>1, <1>2, <2>1
<1>5. BookTypes' /\ failures \in Nat
  <2>1. failures \in Nat
    BY <1>0 DEF BookTypes
  <2>2. failures' = failures + (1 - n) /\ n \in {0, 1}
    BY <1>1
  <2>3. failures' \in Nat
    BY <2>1, <2>2
  <2> QED BY <1>0, <1>1, <1>3, <1>4, <2>1, <2>3 DEF BookTypes
<1>6. Signed'
  BY <1>0, <1>1, <1>2, <1>3, <1>4 DEF Signed, OfPaid
<1>7. Attended'
  BY <1>0, <1>1, <1>2, <1>3, AttendedStays DEF Making, b
<1>8. Alone => Standing'
  BY <1>1, <1>2, <1>3 DEF BookInv, Standing, Alone, b
<1>9. (Alone /\ failures' = 0 /\ restarts' = 0) => Single'
  <2> SUFFICES ASSUME Alone, failures' = 0, restarts' = 0
               PROVE  Single'
    OBVIOUS
  <2>0. failures' = failures + (1 - n) /\ (n = 0 \/ n = 1)
    BY <1>1
  <2>1. n = 1 /\ failures = 0
    BY <1>5, <2>0
  <2>4. restarts = 0
    BY <1>1
  <2>2. Single
    BY <2>1, <2>4 DEF BookInv
  <2>3. made[b] = 0
    BY <1>1, <2>2 DEF Single, b
  <2>5. \A c \in Bookings : made'[c] <= 1
    <3>1. made'[b] = 0 + 1 /\ 0 + 1 <= 1
      BY <1>4, <2>1, <2>3
    <3> QED BY <1>4, <2>2, <3>1 DEF Single
  <2>6. \A c \in Bookings : made'[c] > 0 =>
           \/ booking'[c].pdf = "generated" /\ booking'[c].url = TRUE
           \/ work'[r].pc = "store" /\ work'[r].b = c
    BY <1>1, <1>3, <1>4, <2>1, <2>2 DEF Single
  <2> QED BY <1>3, <2>1, <2>5, <2>6, SingleStays
<1> QED BY <1>5, <1>6, <1>7, <1>8, <1>9 DEF BookInv

LEMMA StoreStep ==
  ASSUME BookInv, NEW r \in Slots, K!SaveGenerated(r) \/ K!SaveFailed(r)
  PROVE  BookInv'
<1>0. BookTypes /\ Signed /\ Attended
  BY DEF BookInv
<1> DEFINE b == work[r].b
           d == IF work[r].pc = "store" THEN [booking[b] EXCEPT !.pdf = "generated", !.url = TRUE]
                ELSE [booking[b] EXCEPT !.pdf = "failed"]
<1>1. K!Written(b, d) /\ work[r].pc \in {"store", "give up"} /\ K!Finish(r) /\ made' = made
  BY DEF K!SaveGenerated, K!SaveFailed, K!At
<1>2. b \in Bookings /\ booking[b] \in Documents
  BY <1>1, JobOf DEF BookInv, BookTypes
<1>3. /\ d \in Documents /\ d.status = booking[b].status /\ d.pdf # "generating"
      /\ work[r].pc = "store" => d.pdf = "generated" /\ d.url = TRUE
  BY <1>2, DocumentOf
<1> HIDE DEF d
<1>4. /\ booking' \in [Bookings -> Documents] /\ booking'[b] = d
      /\ \A c \in Bookings \ {b} : booking'[c] = booking[c]
      /\ UNCHANGED <<signed, stuck, requests, failures, restarts>>
  BY <1>1, <1>2, <1>3, WrittenOf DEF BookInv
<1>5. /\ work' \in [Slots -> {K!Idle} \cup Jobs] /\ \A q \in Slots \ {r} : work'[q] = work[q]
      /\ work'[r].pc = "idle"
  BY <1>1, Ends DEF BookInv
<1> HIDE DEF b
<1>6. BookTypes'
  BY <1>0, <1>1, <1>4, <1>5 DEF BookTypes
<1>7. Signed'
  <2>1. b \in signed /\ \A c \in Bookings : booking'[c].status = booking[c].status
    BY <1>0, <1>1, <1>3, <1>4 DEF Signed, OfPaid, b
  <2>2. \A c \in Bookings : booking'[c].status = "none" => booking'[c] = K!NoBooking
    BY <1>0, <1>4, <2>1 DEF Signed
  <2>3. \A q \in Slots : work'[q].pc \in OfPaid => work'[q].b \in signed'
    BY <1>0, <1>4, <1>5 DEF Signed, OfPaid
  <2> QED BY <1>0, <1>1, <1>4, <2>1, <2>2, <2>3 DEF Signed
<1>8. Attended'
  <2>1. \A c \in Bookings \ stuck' : booking'[c].pdf = "generating" =>
           \/ booking[c].pdf = "generating" /\ ~(work[r].pc \in Making /\ work[r].b = c)
           \/ work'[r].pc \in Making /\ work'[r].b = c
    BY <1>1, <1>2, <1>3, <1>4, <1>5 DEF Making, b
  <2> QED BY <1>0, <1>4, <1>5, <2>1, AttendedStays
<1>9. Alone => Standing'
  <2> SUFFICES ASSUME Alone, Standing, Signed
               PROVE  Standing'
    BY DEF BookInv
  <2>1. \A c \in signed \ stuck : booking[c].status = "paid" \/ (work[r].pc = "paid" /\ b = c)
    BY DEF Standing, b
  <2>4. \A c \in signed' \ stuck' :
           booking'[c].status = "paid" \/ (work'[r].pc = "paid" /\ work'[r].b = c)
    BY <1>0, <1>1, <1>2, <1>3, <1>4, <2>1 DEF BookTypes
  <2> QED BY <1>5, <2>4, StandingStays
<1>10. (Alone /\ failures = 0 /\ restarts = 0) => Single'
  <2> SUFFICES ASSUME Alone, Single
               PROVE  Single'
    BY DEF BookInv
  <2>1. /\ \A c \in Bookings : made[c] <= 1 /\ work[r].pc = "store"
        /\ \A c \in Bookings : made[c] > 0 =>
             (booking[c].pdf = "generated" /\ booking[c].url = TRUE) \/ b = c
    BY <1>1 DEF Single, b
  <2>2. \A c \in Bookings : made'[c] > 0 => booking'[c].pdf = "generated" /\ booking'[c].url = TRUE
    BY <1>1, <1>2, <1>3, <1>4, <2>1
  <2> QED BY <1>1, <1>5, <2>1, <2>2, SingleStays
<1> QED BY <1>4, <1>6, <1>7, <1>8, <1>9, <1>10 DEF BookInv

LEMMA ThrowStep ==
  ASSUME BookInv, NEW r \in Slots, K!Throws(r)
  PROVE  BookInv'
<1>0. BookTypes /\ Signed /\ Attended
  BY DEF BookInv
<1>1. /\ work[r].pc # "idle" /\ work[r].pc # "generate" /\ failures' = failures + 1
      /\ UNCHANGED <<booking, signed, made, requests, restarts>>
      /\ stuck' = IF work[r].pc \in {"give up", "paid"} THEN stuck \cup {work[r].b} ELSE stuck
  BY DEF K!Throws, K!At
<1>2. work[r].b \in Bookings
  BY <1>1, JobOf DEF BookInv
<1>3. /\ work' \in [Slots -> {K!Idle} \cup Jobs] /\ \A q \in Slots \ {r} : work'[q] = work[q]
      /\ work[r].pc = "store" => work'[r].pc = "give up" /\ work'[r].b = work[r].b
      /\ work[r].pc # "store" => work'[r].pc = "idle"
  <2>1. CASE work[r].pc = "store"
    BY <1>1, <2>1, GoesOn DEF K!Throws, K!At, BookInv, OfPaid
  <2>2. CASE work[r].pc # "store"
    BY <1>1, <2>2, Ends DEF K!Throws, K!At, BookInv
  <2> QED BY <2>1, <2>2
<1>4. BookTypes' /\ failures' # 0
  <2>1. failures' \in Nat /\ failures' # 0
    <3>1. failures \in Nat /\ failures' = failures + 1
      BY <1>0, <1>1 DEF BookTypes
    <3> QED BY <3>1
  <2>2. stuck' \subseteq Bookings
    BY <1>0, <1>1, <1>2 DEF BookTypes
  <2> QED BY <1>0, <1>1, <1>3, <2>1, <2>2 DEF BookTypes
<1>5. Signed'
  BY <1>0, <1>1, <1>2, <1>3 DEF Signed, OfPaid
<1>6. Attended'
  BY <1>0, <1>1, <1>2, <1>3, AttendedStays DEF Making
<1>7. Alone => Standing'
  BY <1>1, <1>2, <1>3 DEF BookInv, Standing, Alone
<1> QED BY <1>4, <1>5, <1>6, <1>7 DEF BookInv

LEMMA RestartBookings == ASSUME BookInv, K!Restart PROVE BookInv'
<1>0. BookTypes /\ Signed /\ Attended
  BY DEF BookInv
<1>1. /\ restarts' = restarts + 1 /\ work' = [r \in Slots |-> K!Idle]
      /\ stuck' = stuck \cup {work[r].b : r \in {q \in Slots : work[q].pc # "idle"}}
      /\ UNCHANGED <<booking, signed, made, requests, failures>>
  BY DEF K!Restart, K!At
<1>2. \A r \in Slots : work'[r] = K!Idle /\ (work[r].pc # "idle" => work[r].b \in stuck')
  BY <1>1
<1>3. BookTypes' /\ restarts' # 0
  BY <1>0, <1>1, JobOf DEF BookTypes
<1>4. Signed'
  BY <1>0, <1>1, <1>2 DEF Signed, OfPaid, K!Idle
<1>5. Attended'
  <2> SUFFICES ASSUME NEW b \in Bookings \ stuck', booking[b].pdf = "generating"
               PROVE  FALSE
    BY <1>1 DEF Attended
  <2>1. PICK r \in Slots : work[r].pc \in Making /\ work[r].b = b
    BY <1>0, <1>1 DEF Attended
  <2> QED BY <1>2, <2>1 DEF Making
<1>6. Alone => Standing'
  BY <1>1, <1>2 DEF BookInv, Standing, Alone, K!Idle
<1> QED BY <1>3, <1>4, <1>5, <1>6 DEF BookInv

LEMMA BookSteps == BookInv /\ [K!Next]_(K!kvars) => BookInv'
<1> SUFFICES ASSUME BookInv, [K!Next]_(K!kvars)
             PROVE  BookInv'
  OBVIOUS
<1>1. CASE UNCHANGED K!kvars
  <2>1. UNCHANGED <<booking, signed, made, stuck, requests, failures, restarts, work>>
    BY <1>1 DEF K!kvars
  <2>2. (BookTypes' <=> BookTypes) /\ (Signed' <=> Signed)
    BY <2>1 DEF BookTypes, Signed
  <2>3. (Attended' <=> Attended) /\ (Standing' <=> Standing) /\ (Single' <=> Single)
    BY <2>1, Zenon DEF Attended, Standing, Single
  <2> QED BY <2>1, <2>2, <2>3 DEF BookInv
<1> QED
  BY <1>1, CreateStep, GenerateStep, VerifyStep, SaveStep, BeginPdfStep, MakeStep, StoreStep,
     ThrowStep, RestartBookings DEF K!Next

LEMMA BookInvariance == K!Spec => []BookInv
<1>1. K!Init => BookInv
  <2> SUFFICES ASSUME K!Init
               PROVE  BookInv
    OBVIOUS
  <2>1. /\ \A b \in Bookings : booking[b] = K!NoBooking /\ made[b] = 0
        /\ \A r \in Slots : work[r].pc = "idle"
        /\ signed = {} /\ stuck = {}
    BY DEF K!Init, K!NoHandler, K!Idle
  <2>2. K!NoBooking \in Documents /\ K!NoBooking.status = "none" /\ K!NoBooking.pdf = "none"
    BY DEF K!NoBooking, Documents
  <2>3. BookTypes
    BY <2>2 DEF K!Init, K!NoHandler, BookTypes
  <2>8. \A b \in Bookings : ~(made[b] > 0) /\ made[b] <= 1
    BY <2>1
  <2>4. Signed
    BY <2>1, <2>2, <2>8 DEF Signed, OfPaid
  <2>5. Attended
    BY <2>1, <2>2 DEF Attended
  <2>6. Standing
    BY <2>1 DEF Standing
  <2>7. Single
    BY <2>1, <2>8 DEF Single
  <2> QED BY <2>3, <2>4, <2>5, <2>6, <2>7 DEF BookInv
<1> QED BY <1>1, BookSteps, PTL DEF K!Spec

LEMMA BookSize == ASSUME NEW S PROVE K!Cardinality(S) = Cardinality(S)
BY DEF K!Cardinality, Cardinality

LEMMA BookAlone == ASSUME IsFiniteSet(Slots), BookInv, K!OneAtATime PROVE Alone /\ Slots # {}
<1>1. DOMAIN work = Slots /\ Cardinality(Slots) = 1
  BY BookSize DEF BookInv, BookTypes, K!OneAtATime
<1>2. PICK x : Slots = {x}
  BY <1>1, FS_Singleton
<1> QED BY <1>2 DEF Alone

\* "Payment verified": however requests overlap, fail or are cut off, a report
\* is paid, and a PDF made, only after a valid signature; and one request at a
\* time no later verification takes it back.
THEOREM BookingIsSigned == ASSUME IsFiniteSet(Slots) PROVE K!Spec => []K!PaidIsSigned
<1>1. BookInv => K!PaidIsSigned
  <2> SUFFICES ASSUME BookInv, NEW b \in Bookings, K!OneAtATime, K!Quiet, b \in signed \ stuck
               PROVE  booking[b].status = "paid"
    BY DEF K!PaidIsSigned, BookInv, Signed
  <2>1. PICK r \in Slots : work[r].pc = "idle"
    BY BookAlone DEF K!Quiet, K!At
  <2> QED BY <2>1, BookAlone DEF BookInv, Standing
<1> QED BY <1>1, BookInvariance, PTL

\* "PDF is currently being generated": however many ask, somebody is at it, but
\* for a restart or a failure that could not be saved.
THEOREM BookingIsAlive == K!Spec => []K!GeneratingIsAlive
<1>1. BookInv => K!GeneratingIsAlive
  BY DEF BookInv, Attended, Making, K!GeneratingIsAlive, K!At
<1> QED BY <1>1, BookInvariance, PTL

\* One request at a time and without a failure, a PDF is made once.
THEOREM BookingMadeOnce == ASSUME IsFiniteSet(Slots) PROVE K!Spec => []K!MadeOnce
<1>1. BookInv => K!MadeOnce
  BY BookAlone DEF K!MadeOnce, BookInv, Single
<1> QED BY <1>1, BookInvariance, PTL

(***************************************************************************)
(* Theorems about Tickets for every number of tickets, requests, failures  *)
(* and lapses of the token.  A ticket and its twin at Zoho agree, or there *)
(* is someone to make them: a webhook that has not been delivered, or a    *)
(* handler that has saved the status it is going to tell Zoho.  The last   *)
(* report of a ticket is the status it has at Zoho, so that the webhook    *)
(* that takes it leaves both alike.                                        *)
(***************************************************************************)
CONSTANTS Tickets, MaxLapses
VARIABLES ticket, desk, hooks, paid, comments, token, refreshes, missed, lapses

T == INSTANCE Tickets

Sheets == [status : T!Statuses \cup {"none"}, processed : BOOLEAN, notes : {0, 1}]
Chores == [pc : {"gateway", "wallet", "save", "token", "wait", "call"}, t : Tickets,
           do : {"create", "refund", "reject", "status", "note"}, to : T!Statuses \cup {""},
           read : Sheets, meta : BOOLEAN, again : BOOLEAN]

DeskTypes ==
  /\ ticket \in [Tickets -> Sheets] /\ desk \in [Tickets -> T!ZohoStatuses \cup {"none"}]
  /\ hooks \in Seq(Tickets \X T!ZohoStatuses) /\ paid \in [Tickets -> [T!Ways -> Nat]]
  /\ comments \in [Tickets -> Nat] /\ refreshes \in Nat /\ failures \in Nat
  /\ missed \subseteq Tickets /\ work \in [Slots -> {T!Idle} \cup Chores]

Busy(r) == work[r].pc # "idle"
Calling == {"token", "wait", "call"}

\* One request for a token is under way, and there is one while anybody waits.
Awaited == refreshes <= 1 /\ \A r \in Slots : work[r].pc = "wait" => refreshes > 0

\* A refund that was processed, or is about to be saved as such, was credited.
Credited ==
  /\ \A t \in Tickets : ticket[t].processed = TRUE => paid[t]["wallet"] > 0
  /\ \A r \in Slots : Busy(r) =>
       IF work[r].pc \in {"gateway", "wallet"} THEN work[r].do = "refund"
       ELSE work[r].do = "refund" => paid[work[r].t]["wallet"] > 0

\* A ticket is created by one handler, which is the only one to know of it; a
\* ticket that is saved is at Zoho.
Created ==
  /\ \A t \in Tickets : IF ticket[t].status = "none" THEN ticket[t] = T!NoTicket ELSE desk[t] # "none"
  /\ \A r \in Slots : Busy(r) =>
       IF work[r].do # "create" THEN ticket[work[r].t].status # "none"
       ELSE /\ ticket[work[r].t].status = "none" /\ work[r].to = "open" /\ work[r].read.status = "none"
            /\ work[r].pc = "save" => desk[work[r].t] # "none"
            /\ \A q \in Slots \ {r} : Busy(q) => work[q].t # work[r].t
  /\ \A r \in Slots : Busy(r) /\ work[r].do = "note" => work[r].to = ""

\* The last change of a ticket that Zoho has to report is the status it has there.
LastOf(i) == \A j \in DOMAIN hooks : j > i => hooks[j][1] # hooks[i][1]
Reported ==
  \A i \in DOMAIN hooks :
    /\ desk[hooks[i][1]] # "none"
    /\ LastOf(i) => desk[hooks[i][1]] = hooks[i][2]

\* A ticket and its twin agree, or Zoho has something to report of it, or a
\* handler has yet to tell Zoho the status that was saved.
Agree(s, z) == s = T!Ours(z) \/ (s = "resolved" /\ z = "Closed")
InHooks(t) == \E i \in DOMAIN hooks : hooks[i][1] = t
Telling(r, t) ==
  /\ work[r].pc \in Calling /\ work[r].t = t /\ work[r].do \notin {"create", "note"}
  /\ ticket[t].status = work[r].to
Due(t) == InHooks(t) \/ Agree(ticket[t].status, desk[t]) \/ \E r \in Slots : Telling(r, t)
Told ==
  \A t \in Tickets \ missed :
    IF ticket[t].status # "none" THEN Due(t)
    ELSE desk[t] \in {"none", "Open"} \/ InHooks(t)

\* One request at a time and without a failure: no way pays for a ticket again.
PaidBy(r) ==
  /\ \A t \in Tickets, w \in T!Ways :
       /\ paid[t][w] <= 1
       /\ paid[t][w] > 0 => \/ ticket[t].processed = TRUE
                            \/ Busy(r) /\ work[r].do = "refund" /\ work[r].t = t
  /\ work[r].pc \in {"gateway", "wallet"} => paid[work[r].t]["wallet"] = 0
  /\ work[r].pc = "gateway" => paid[work[r].t]["gateway"] = 0
  /\ work[r].pc \in Calling /\ work[r].do = "refund" => ticket[work[r].t].processed = TRUE

\* One request at a time and without a failure: nobody else writes the notes
\* that a handler read.
Unsaved(r, t) == work[r].pc = "save" /\ work[r].do = "note" /\ work[r].t = t
NotedBy(r) ==
  /\ \A t \in Tickets : IF Unsaved(r, t) THEN comments[t] # 0
                        ELSE ticket[t].notes = 0 <=> comments[t] = 0
  /\ Busy(r) => work[r].read.notes = ticket[work[r].t].notes
  /\ Busy(r) /\ work[r].do = "note" => work[r].meta = TRUE

DeskInv ==
  /\ DeskTypes /\ Awaited /\ Credited /\ Created /\ Reported
  /\ failures = 0 => Told
  /\ (Alone /\ failures = 0) => \A r \in Slots : PaidBy(r) /\ NotedBy(r)

LEMMA SheetOf ==
  /\ T!NoTicket \in Sheets /\ T!NoTicket.status = "none" /\ T!NoTicket.processed = FALSE
  /\ T!NoTicket.notes = 0
  /\ \A d \in Sheets : /\ d.status \in T!Statuses \cup {"none"} /\ d.processed \in BOOLEAN
                       /\ d.notes \in {0, 1}
BY DEF T!NoTicket, Sheets

LEMMA ChoreOf ==
  ASSUME DeskTypes, NEW r \in Slots
  PROVE  /\ Busy(r) => work[r] \in Chores /\ work[r].t \in Tickets
         /\ ~Busy(r) => work[r] = T!Idle
<1>1. work[r] = T!Idle \/ work[r] \in Chores
  BY DEF DeskTypes
<1>2. T!Idle.pc = "idle"
  BY DEF T!Idle
<1>3. \A j \in Chores : j.pc # "idle" /\ j.t \in Tickets
  BY DEF Chores
<1> QED BY <1>1, <1>2, <1>3 DEF Busy

LEMMA ZohoOf ==
  /\ \A s : T!AtZoho(s) \in T!ZohoStatuses
  /\ \A s \in T!Statuses : Agree(s, T!AtZoho(s))
  /\ \A z : T!Ours(z) \in T!Statuses
  /\ \A z \in T!ZohoStatuses : z # "none"
  /\ \A s \in T!Statuses : s # "none" /\ s # ""
BY DEF T!AtZoho, T!Ours, T!Statuses, T!ZohoStatuses, Agree

\* A handler goes on with what it knows.
GoesOnAs(r) ==
  work'[r].t = work[r].t /\ work'[r].do = work[r].do /\ work'[r].to = work[r].to
  /\ work'[r].read = work[r].read /\ work'[r].meta = work[r].meta

InPc(h, pc) == [h EXCEPT !.pc = pc]
Again(h) == [h EXCEPT !.pc = "token", !.again = TRUE]

LEMMA ChoreAt ==
  ASSUME NEW h \in Chores, NEW pc \in {"wallet", "save", "token", "wait", "call"}
  PROVE  /\ InPc(h, pc) \in Chores /\ InPc(h, pc).pc = pc /\ InPc(h, pc).t = h.t
         /\ InPc(h, pc).do = h.do /\ InPc(h, pc).to = h.to /\ InPc(h, pc).read = h.read
         /\ InPc(h, pc).meta = h.meta
BY Zenon DEF Chores, InPc

LEMMA ChoreAgain ==
  ASSUME NEW h \in Chores
  PROVE  /\ Again(h) \in Chores /\ Again(h).pc = "token" /\ Again(h).t = h.t
         /\ Again(h).do = h.do /\ Again(h).to = h.to /\ Again(h).read = h.read
         /\ Again(h).meta = h.meta
BY Zenon DEF Chores, Again

LEMMA Proceeds ==
  ASSUME DeskTypes, NEW r \in Slots, Busy(r), NEW pc \in {"wallet", "save", "token", "wait", "call"},
         T!Goto(r, pc)
  PROVE  /\ work' \in [Slots -> {T!Idle} \cup Chores] /\ \A q \in Slots \ {r} : work'[q] = work[q]
         /\ work'[r].pc = pc /\ GoesOnAs(r)
<1>1. work[r] \in Chores
  BY ChoreOf
<1>2. work' = [work EXCEPT ![r] = InPc(work[r], pc)]
  BY Zenon DEF T!Goto, InPc
<1> QED BY <1>1, <1>2, ChoreAt DEF DeskTypes, GoesOnAs

LEMMA LeavesOff ==
  ASSUME DeskTypes, NEW r \in Slots, T!Finish(r)
  PROVE  /\ work' \in [Slots -> {T!Idle} \cup Chores] /\ \A q \in Slots \ {r} : work'[q] = work[q]
         /\ work'[r] = T!Idle /\ ~Busy(r)'
BY DEF DeskTypes, T!Finish, T!Idle, Busy

\* What a handler that begins has read; nothing else changes.
LEMMA Accepted ==
  ASSUME DeskTypes, NEW r \in Slots, NEW h \in Chores, T!Accept(r, h)
  PROVE  /\ work' \in [Slots -> {T!Idle} \cup Chores] /\ \A q \in Slots \ {r} : work'[q] = work[q]
         /\ ~Busy(r) /\ work'[r] = h /\ Busy(r)'
         /\ UNCHANGED <<ticket, desk, hooks, paid, comments, refreshes, missed, failures>>
<1>1. h.pc # "idle"
  BY DEF Chores
<1> QED BY <1>1 DEF DeskTypes, T!Accept, T!Begin, T!At, Busy

\* A ticket that was right is right still, unless the handler that was to tell
\* Zoho of it is done.
LEMMA DueStays ==
  ASSUME NEW t \in Tickets, NEW r \in Slots, Due(t), \A q \in Slots \ {r} : work'[q] = work[q],
         ticket'[t].status = ticket[t].status, desk'[t] = desk[t], InHooks(t) => InHooks(t)',
         Telling(r, t) => InHooks(t)' \/ Agree(ticket'[t].status, desk'[t]) \/ Telling(r, t)'
  PROVE  Due(t)'
<1>1. CASE InHooks(t) \/ Agree(ticket[t].status, desk[t])
  BY <1>1 DEF Due
<1>2. ASSUME NEW q \in Slots, Telling(q, t)
      PROVE  Due(t)'
  <2>1. CASE q = r
    BY <1>2, <2>1 DEF Due
  <2>2. CASE q # r
    <3>1. Telling(q, t)'
      BY <1>2, <2>2 DEF Telling
    <3> QED BY <3>1 DEF Due
  <2> QED BY <2>1, <2>2
<1> QED BY <1>1, <1>2 DEF Due

\* Who creates a ticket still is the only one to know of it.
LEMMA CreatedStays ==
  ASSUME DeskTypes, Created,
         \A u \in Tickets :
           /\ ticket'[u].status = "none" => ticket'[u] = ticket[u]
           /\ ticket'[u].status # "none" => desk'[u] # "none"
           /\ ticket[u].status # "none" => ticket'[u].status # "none",
         \A q \in Slots : Busy(q)' =>
           /\ Busy(q) /\ GoesOnAs(q)
           /\ work[q].do = "create" =>
                /\ ticket'[work[q].t].status = "none"
                /\ work'[q].pc = "save" => desk'[work[q].t] # "none"
  PROVE  Created'
<1>1. \A t \in Tickets : IF ticket'[t].status = "none" THEN ticket'[t] = T!NoTicket ELSE desk'[t] # "none"
  BY DEF Created
<1>2. ASSUME NEW q \in Slots, Busy(q)'
      PROVE  IF work'[q].do # "create" THEN ticket'[work'[q].t].status # "none"
             ELSE /\ ticket'[work'[q].t].status = "none" /\ work'[q].to = "open"
                  /\ work'[q].read.status = "none"
                  /\ work'[q].pc = "save" => desk'[work'[q].t] # "none"
                  /\ \A p \in Slots \ {q} : Busy(p)' => work'[p].t # work'[q].t
  <2>1. /\ Busy(q) /\ work'[q].t = work[q].t /\ work'[q].do = work[q].do
        /\ work'[q].to = work[q].to /\ work'[q].read = work[q].read /\ work[q].t \in Tickets
        /\ \A p \in Slots \ {q} : Busy(p)' => Busy(p) /\ work'[p].t = work[p].t
    BY <1>2, ChoreOf DEF GoesOnAs
  <2>2. CASE work[q].do = "create"
    <3>1. /\ work[q].to = "open" /\ work[q].read.status = "none"
          /\ \A p \in Slots \ {q} : Busy(p) => work[p].t # work[q].t
      BY <2>1, <2>2 DEF Created
    <3>2. /\ ticket'[work[q].t].status = "none"
          /\ work'[q].pc = "save" => desk'[work[q].t] # "none"
      BY <1>2, <2>2
    <3> QED BY <2>1, <2>2, <3>1, <3>2
  <2>3. CASE work[q].do # "create"
    <3>1. ticket[work[q].t].status # "none"
      BY <2>1, <2>3 DEF Created
    <3> QED BY <2>1, <2>3, <3>1
  <2> QED BY <2>2, <2>3
<1>3. \A q \in Slots : Busy(q)' /\ work'[q].do = "note" => work'[q].to = ""
  BY DEF Created, GoesOnAs
<1> QED BY <1>1, <1>2, <1>3 DEF Created

(* The steps.  First those that leave documents and Zoho alone. *)
Unmoved == UNCHANGED <<ticket, desk, hooks, paid, comments, missed>>

LEMMA NonePaid == \A n \in Nat : ~(n > 0) => n = 0
OBVIOUS

LEMMA BeginKeeps ==
  ASSUME DeskInv, NEW r \in Slots, NEW h \in Chores, T!Accept(r, h),
         h.read = ticket[h.t],
         \/ h.do = "refund" /\ h.pc \in {"gateway", "wallet"} /\ ticket[h.t].processed = FALSE
         \/ h.do \in {"reject", "status"} /\ h.pc = "save"
         \/ h.do = "note" /\ h.pc = "token" /\ h.to = "" /\ h.meta = TRUE
         \/ h.do = "create" /\ h.pc = "token" /\ h.to = "open" /\ desk[h.t] = "none"
            /\ \A q \in Slots : Busy(q) => work[q].t # h.t,
         h.do # "create" => ticket[h.t] # T!NoTicket
  PROVE  DeskInv'
<1>0. DeskTypes /\ Awaited /\ Credited /\ Created /\ Reported
  BY DEF DeskInv
<1>1. /\ work' \in [Slots -> {T!Idle} \cup Chores] /\ \A q \in Slots \ {r} : work'[q] = work[q]
      /\ ~Busy(r) /\ work'[r] = h /\ Busy(r)'
      /\ UNCHANGED <<ticket, desk, hooks, paid, comments, refreshes, missed, failures>>
  BY <1>0, Accepted
<1>2. h.t \in Tickets /\ ticket[h.t] \in Sheets
  BY <1>0 DEF Chores, DeskTypes
<1>3. DeskTypes'
  BY <1>0, <1>1 DEF DeskTypes
<1>4. Awaited'
  BY <1>0, <1>1 DEF Awaited
<1>5. Credited'
  BY <1>0, <1>1 DEF Credited, Busy
<1>6. Created'
  <2>1. h.do = "create" => ticket[h.t].status = "none"
    BY <1>0, <1>2 DEF Created
  <2>2. h.do # "create" => ticket[h.t].status # "none"
    BY <1>0, <1>2 DEF Created
  <2>3. \A q \in Slots \ {r} : Busy(q) /\ work[q].do = "create" => work[q].t # h.t
    BY <1>0, <2>2 DEF Created
  <2>4. \A q \in Slots : Busy(q)' /\ work'[q].do = "note" => work'[q].to = ""
    <3>1. h.do = "note" => h.to = ""
      OBVIOUS
    <3>2. \A q \in Slots : Busy(q) /\ work[q].do = "note" => work[q].to = ""
      BY <1>0 DEF Created
    <3> QED BY <1>1, <3>1, <3>2 DEF Busy
  <2>5. h.do = "create" => h.read.status = "none" /\ h.to = "open" /\ h.pc # "save"
                           /\ \A q \in Slots \ {r} : Busy(q) => work[q].t # h.t
    BY <2>1
  <2>6. \A q \in Slots : Busy(q)' =>
          IF work'[q].do # "create" THEN ticket[work'[q].t].status # "none"
          ELSE /\ ticket[work'[q].t].status = "none" /\ work'[q].to = "open"
               /\ work'[q].read.status = "none"
               /\ work'[q].pc = "save" => desk[work'[q].t] # "none"
               /\ \A p \in Slots \ {q} : Busy(p)' => work'[p].t # work'[q].t
    <3> SUFFICES ASSUME NEW q \in Slots, Busy(q)'
                 PROVE  IF work'[q].do # "create" THEN ticket[work'[q].t].status # "none"
                        ELSE /\ ticket[work'[q].t].status = "none" /\ work'[q].to = "open"
                             /\ work'[q].read.status = "none"
                             /\ work'[q].pc = "save" => desk[work'[q].t] # "none"
                             /\ \A p \in Slots \ {q} : Busy(p)' => work'[p].t # work'[q].t
      OBVIOUS
    <3>1. CASE q = r
      BY <1>1, <2>1, <2>2, <2>5, <3>1 DEF Busy
    <3>2. CASE q # r
      <4>1. work'[q] = work[q] /\ Busy(q)
        BY <1>1, <3>2 DEF Busy
      <4>2. CASE work[q].do = "create"
        <5>1. /\ ticket[work[q].t].status = "none" /\ work[q].to = "open"
              /\ work[q].read.status = "none"
              /\ work[q].pc = "save" => desk[work[q].t] # "none"
              /\ \A p \in Slots \ {q} : Busy(p) => work[p].t # work[q].t
          BY <1>0, <4>1, <4>2 DEF Created
        <5>2. \A p \in Slots \ {q} : Busy(p)' => work'[p].t # work'[q].t
          BY <1>1, <2>3, <3>2, <4>1, <4>2, <5>1 DEF Busy
        <5> QED BY <4>1, <4>2, <5>1, <5>2
      <4>3. CASE work[q].do # "create"
        BY <1>0, <4>1, <4>3 DEF Created
      <4> QED BY <4>2, <4>3
    <3> QED BY <3>1, <3>2
  <2> QED BY <1>0, <1>1, <2>4, <2>6 DEF Created
<1>7. Reported'
  BY <1>0, <1>1 DEF Reported, LastOf
<1>8. failures = 0 => Told'
  <2> SUFFICES ASSUME Told, NEW t \in Tickets \ missed, Due(t)
               PROVE  Due(t)'
    BY <1>1 DEF DeskInv, Told, InHooks
  <2> QED BY <1>1, DueStays DEF Telling, Calling, Busy, InHooks
<1>9. (Alone /\ failures = 0) => \A q \in Slots : (PaidBy(q) /\ NotedBy(q))'
  <2> SUFFICES ASSUME Alone, PaidBy(r), NotedBy(r)
               PROVE  PaidBy(r)' /\ NotedBy(r)'
    BY DEF DeskInv, Alone
  <2>1. PaidBy(r)'
    <3>1. \A t \in Tickets, w \in T!Ways : paid[t][w] <= 1 /\ (paid[t][w] > 0 => ticket[t].processed = TRUE)
      BY <1>1 DEF PaidBy
    <3>2. h.pc \in {"gateway", "wallet"} => ticket[h.t].processed = FALSE
      OBVIOUS
    <3>3. /\ "wallet" \in T!Ways /\ "gateway" \in T!Ways
          /\ paid[h.t]["wallet"] \in Nat /\ paid[h.t]["gateway"] \in Nat
      BY <1>0, <1>2 DEF DeskTypes, T!Ways
    <3>4. h.pc \in {"gateway", "wallet"} => paid[h.t]["wallet"] = 0 /\ paid[h.t]["gateway"] = 0
      <4> SUFFICES ASSUME ticket[h.t].processed = FALSE
                   PROVE  paid[h.t]["wallet"] = 0 /\ paid[h.t]["gateway"] = 0
        BY <3>2
      <4> DEFINE m == paid[h.t]["wallet"]
                 n == paid[h.t]["gateway"]
      <4>1. ~(m > 0) /\ ~(n > 0) /\ m \in Nat /\ n \in Nat
        BY <1>2, <3>1, <3>3
      <4> HIDE DEF m, n
      <4>2. m = 0 /\ n = 0
        BY <4>1, NonePaid, Zenon
      <4> QED BY <4>2 DEF m, n
    <3>5. ~(h.pc \in Calling /\ h.do = "refund")
      BY DEF Calling
    <3> QED BY <1>1, <3>1, <3>4, <3>5 DEF PaidBy
  <2>2. NotedBy(r)'
    BY <1>1, <1>2 DEF NotedBy, Busy, Unsaved
  <2> QED BY <2>1, <2>2
<1> QED BY <1>1, <1>3, <1>4, <1>5, <1>6, <1>7, <1>8, <1>9 DEF DeskInv

(* Handlers that go from one call to the next. *)
Onward(q) == work'[q] = work[q] \/ (work[q].pc \in Calling /\ work'[q].pc \in Calling /\ GoesOnAs(q))

LEMMA OnwardKeeps ==
  ASSUME DeskInv, Unmoved, failures' = failures, refreshes' \in Nat, Awaited',
         work' \in [Slots -> {T!Idle} \cup Chores], \A q \in Slots : Onward(q)
  PROVE  DeskInv'
<1>0. DeskTypes /\ Awaited /\ Credited /\ Created /\ Reported
  BY DEF DeskInv
<1>1. UNCHANGED <<ticket, desk, hooks, paid, comments, missed>>
  BY DEF Unmoved
<1>2. DeskTypes'
  BY <1>0, <1>1 DEF DeskTypes
<1>3. \A q \in Slots :
        /\ Busy(q)' <=> Busy(q)
        /\ Busy(q) => GoesOnAs(q) /\ (work[q].pc \in Calling <=> work'[q].pc \in Calling)
                      /\ (work[q].pc \notin Calling => work'[q].pc = work[q].pc)
  BY DEF Onward, Busy, Calling, GoesOnAs
<1>4. Credited'
  <2>1. \A t \in Tickets : ticket'[t].processed = TRUE => paid'[t]["wallet"] > 0
    BY <1>0, <1>1 DEF Credited
  <2>2. ASSUME NEW q \in Slots, Busy(q)'
        PROVE  IF work'[q].pc \in {"gateway", "wallet"} THEN work'[q].do = "refund"
               ELSE work'[q].do = "refund" => paid'[work'[q].t]["wallet"] > 0
    <3>1. Busy(q) /\ work'[q].t = work[q].t /\ work'[q].do = work[q].do
          /\ (work'[q].pc \in {"gateway", "wallet"} <=> work[q].pc \in {"gateway", "wallet"})
      BY <1>3, <2>2 DEF GoesOnAs, Calling
    <3> QED BY <1>0, <1>1, <3>1 DEF Credited
  <2> QED BY <2>1, <2>2 DEF Credited
<1>5. Created'
  <2>1. \A u \in Tickets : ticket[u].status # "none" => desk[u] # "none"
    BY <1>0 DEF Created
  <2>2. ASSUME NEW q \in Slots, Busy(q)'
        PROVE  /\ Busy(q) /\ GoesOnAs(q)
               /\ work[q].do = "create" =>
                    /\ ticket'[work[q].t].status = "none"
                    /\ work'[q].pc = "save" => desk'[work[q].t] # "none"
    <3>1. Busy(q) /\ GoesOnAs(q) /\ (work'[q].pc = "save" => work[q].pc = "save")
      BY <1>3, <2>2 DEF Calling
    <3> QED BY <1>0, <1>1, <3>1 DEF Created
  <2> QED BY <1>0, <1>1, <2>1, <2>2, CreatedStays
<1>6. Reported'
  BY <1>0, <1>1 DEF Reported, LastOf
<1>7. failures = 0 => Told'
  <2> SUFFICES ASSUME Told, NEW t \in Tickets \ missed, Due(t)
               PROVE  Due(t)'
    BY <1>1 DEF DeskInv, Told, InHooks
  <2>1. ASSUME NEW q \in Slots, Telling(q, t)
        PROVE  Telling(q, t)'
    BY <1>1, <1>3, <2>1 DEF Telling, Busy, Calling, GoesOnAs
  <2> QED BY <1>1, <2>1 DEF Due, InHooks
<1>8. (Alone /\ failures = 0) => \A q \in Slots : (PaidBy(q) /\ NotedBy(q))'
  <2> SUFFICES ASSUME NEW r \in Slots, PaidBy(r), NotedBy(r)
               PROVE  PaidBy(r)' /\ NotedBy(r)'
    BY DEF DeskInv
  <2>1. CASE Busy(r)
    <3>1. Busy(r)' /\ GoesOnAs(r) /\ (work[r].pc \in Calling <=> work'[r].pc \in Calling)
          /\ \A pc \in {"gateway", "wallet", "save"} : work'[r].pc = pc <=> work[r].pc = pc
      BY <1>3, <2>1 DEF Calling
    <3>2. PaidBy(r)'
      BY <1>1, <2>1, <3>1 DEF PaidBy, GoesOnAs
    <3>3. NotedBy(r)'
      BY <1>1, <2>1, <3>1 DEF NotedBy, Unsaved, GoesOnAs
    <3> QED BY <3>2, <3>3
  <2>2. CASE ~Busy(r)
    <3>1. work'[r] = work[r] /\ ~Busy(r)'
      BY <2>2 DEF Onward, Busy, Calling
    <3> QED BY <1>1, <2>2, <3>1 DEF PaidBy, NotedBy, Unsaved, Busy, Calling
  <2> QED BY <2>1, <2>2
<1> QED BY <1>2, <1>4, <1>5, <1>6, <1>7, <1>8 DEF DeskInv

\* Handlers that leave by a failure.
LEMMA LeaveKeeps ==
  ASSUME DeskInv, Unmoved, failures' = failures + 1, refreshes' \in Nat, Awaited',
         \A q \in Slots : work'[q] = work[q] \/ work'[q] = T!Idle,
         work' \in [Slots -> {T!Idle} \cup Chores]
  PROVE  DeskInv'
<1>0. DeskTypes /\ Awaited /\ Credited /\ Created /\ Reported
  BY DEF DeskInv
<1>1. UNCHANGED <<ticket, desk, hooks, paid, comments, missed>>
  BY DEF Unmoved
<1>2. failures' \in Nat /\ failures' # 0
  <2>1. failures \in Nat
    BY <1>0 DEF DeskTypes
  <2> QED BY <2>1
<1>3. DeskTypes'
  BY <1>0, <1>1, <1>2 DEF DeskTypes
<1>4. \A q \in Slots : Busy(q)' => Busy(q) /\ work'[q] = work[q]
  BY DEF Busy, T!Idle
<1>5. Credited'
  BY <1>0, <1>1, <1>4 DEF Credited
<1>6. Created'
  <2>1. \A u \in Tickets : ticket[u].status # "none" => desk[u] # "none"
    BY <1>0 DEF Created
  <2>2. ASSUME NEW q \in Slots, Busy(q)'
        PROVE  /\ Busy(q) /\ GoesOnAs(q)
               /\ work[q].do = "create" =>
                    /\ ticket'[work[q].t].status = "none"
                    /\ work'[q].pc = "save" => desk'[work[q].t] # "none"
    <3>1. Busy(q) /\ work'[q] = work[q]
      BY <1>4, <2>2
    <3> QED BY <1>0, <1>1, <3>1 DEF Created, GoesOnAs
  <2> QED BY <1>0, <1>1, <2>1, <2>2, CreatedStays
<1>7. Reported'
  BY <1>0, <1>1 DEF Reported, LastOf
<1> QED BY <1>2, <1>3, <1>5, <1>6, <1>7 DEF DeskInv

\* Who begins, and with what.
LEMMA RequestStep ==
  ASSUME DeskInv, NEW r \in Slots, NEW t \in Tickets,
         \/ T!CreateTicket(r, t) \/ T!RejectRefund(r, t) \/ T!AddInternalNote(r, t)
         \/ \E w \in T!Ways : T!ProcessRefund(r, t, w)
         \/ \E s \in T!Statuses, comment \in BOOLEAN : T!UpdateTicketStatus(r, t, s, comment)
  PROVE  DeskInv'
<1>0. ticket[t] \in Sheets
  BY DEF DeskInv, DeskTypes
<1>2. {"open", "in_progress", "resolved", "closed"} = T!Statuses
  BY DEF T!Statuses
<1>3. CASE T!CreateTicket(r, t)
  <2> DEFINE h == T!Change(t, "create", "token", "open")
  <2>1. /\ h \in Chores /\ h.pc = "token" /\ h.t = t /\ h.do = "create" /\ h.to = "open"
        /\ h.read = ticket[t]
    BY <1>0, <1>2 DEF T!Change, Chores
  <2>2. /\ T!Accept(r, h) /\ desk[t] = "none"
        /\ \A q \in Slots : Busy(q) => work[q].t # t
    BY <1>3 DEF T!CreateTicket, T!At, Busy
  <2> HIDE DEF h
  <2> QED BY <2>1, <2>2, BeginKeeps
<1>4. CASE T!RejectRefund(r, t)
  <2> DEFINE h == T!Change(t, "reject", "save", "closed")
  <2>1. /\ h \in Chores /\ h.pc = "save" /\ h.t = t /\ h.do = "reject" /\ h.to = "closed"
        /\ h.read = ticket[t]
    BY <1>0, <1>2 DEF T!Change, Chores
  <2>2. T!Accept(r, h) /\ ticket[t] # T!NoTicket
    BY <1>4 DEF T!RejectRefund, T!Known
  <2> HIDE DEF h
  <2> QED BY <2>1, <2>2, BeginKeeps
<1>5. CASE T!AddInternalNote(r, t)
  <2> DEFINE h == T!Change(t, "note", "token", "")
  <2>1. /\ h \in Chores /\ h.pc = "token" /\ h.t = t /\ h.do = "note" /\ h.to = ""
        /\ h.read = ticket[t] /\ h.meta = TRUE
    BY <1>0 DEF T!Change, Chores
  <2>2. T!Accept(r, h) /\ ticket[t] # T!NoTicket
    BY <1>5 DEF T!AddInternalNote, T!Known
  <2> HIDE DEF h
  <2> QED BY <2>1, <2>2, BeginKeeps
<1>6. ASSUME NEW w \in T!Ways, T!ProcessRefund(r, t, w)
      PROVE  DeskInv'
  <2> DEFINE h == T!Change(t, "refund", w, "resolved")
  <2>0. w \in {"gateway", "wallet"}
    BY DEF T!Ways
  <2>1. /\ h \in Chores /\ h.pc = w /\ h.t = t /\ h.do = "refund" /\ h.to = "resolved"
        /\ h.read = ticket[t]
    BY <1>0, <1>2, <2>0 DEF T!Change, Chores
  <2>2. T!Accept(r, h) /\ ticket[t] # T!NoTicket /\ ~ticket[t].processed
    BY <1>6, Zenon DEF T!ProcessRefund, T!Known
  <2>3. ticket[t].processed = FALSE
    BY <1>0, <2>2, SheetOf, Zenon
  <2> HIDE DEF h
  <2> QED BY <2>0, <2>1, <2>2, <2>3, BeginKeeps
<1>7. ASSUME NEW s \in T!Statuses, NEW comment \in BOOLEAN, T!UpdateTicketStatus(r, t, s, comment)
      PROVE  DeskInv'
  <2> DEFINE c == T!Change(t, "status", "save", s)
             h == [c EXCEPT !.meta = comment]
  <2>1. /\ c \in Chores /\ c.pc = "save" /\ c.t = t /\ c.do = "status" /\ c.to = s
        /\ c.read = ticket[t]
    BY <1>0 DEF T!Change, Chores
  <2>2. T!Accept(r, h) /\ ticket[t] # T!NoTicket
    BY <1>7, Zenon DEF T!UpdateTicketStatus, T!Known
  <2> HIDE DEF c
  <2>3. h \in Chores /\ h.pc = c.pc /\ h.t = c.t /\ h.do = c.do /\ h.to = c.to /\ h.read = c.read
    BY <2>1, Zenon DEF Chores
  <2> HIDE DEF h
  <2> QED BY <2>1, <2>2, <2>3, BeginKeeps
<1> QED BY <1>3, <1>4, <1>5, <1>6, <1>7

LEMMA TokenStep ==
  ASSUME DeskInv, NEW r \in Slots, T!EnsureToken(r) \/ T!Refused(r)
  PROVE  DeskInv'
<1>0. DeskTypes /\ Awaited
  BY DEF DeskInv
<1>1. CASE T!EnsureToken(r)
  <2>1. /\ work[r].pc = "token" /\ refreshes' = (IF token = "expired" THEN 1 ELSE refreshes)
        /\ T!Goto(r, IF token # "expired" THEN "call" ELSE "wait") /\ Unmoved /\ failures' = failures
    BY <1>1 DEF T!EnsureToken, T!Proceed, T!At, Unmoved
  <2> DEFINE pc == IF token # "expired" THEN "call" ELSE "wait"
  <2>2. pc \in {"call", "wait"} /\ Busy(r) /\ T!Goto(r, pc)
    BY <2>1 DEF Busy
  <2>3. /\ work' \in [Slots -> {T!Idle} \cup Chores] /\ \A q \in Slots \ {r} : work'[q] = work[q]
        /\ work'[r].pc = pc /\ GoesOnAs(r)
    BY <1>0, <2>2, Proceeds
  <2>4. \A q \in Slots : Onward(q)
    BY <2>1, <2>2, <2>3 DEF Onward, Calling
  <2>5. refreshes' \in Nat /\ Awaited'
    <3>1. CASE token = "expired"
      <4>1. refreshes' = 1
        BY <2>1, <3>1
      <4> QED BY <4>1 DEF Awaited
    <3>2. CASE token # "expired"
      <4>1. refreshes' = refreshes /\ work'[r].pc = "call"
        BY <2>1, <2>3, <3>2
      <4> QED BY <1>0, <2>3, <4>1 DEF DeskTypes, Awaited
    <3> QED BY <3>1, <3>2
  <2> QED BY <2>1, <2>3, <2>4, <2>5, OnwardKeeps
<1>2. CASE T!Refused(r)
  <2>1. /\ work[r].pc = "call" /\ Unmoved /\ failures' = failures /\ refreshes' = refreshes
        /\ work' = [work EXCEPT ![r] = Again(work[r])]
    BY <1>2, Zenon DEF T!Refused, T!At, Unmoved, Again
  <2>2. work[r] \in Chores
    BY <1>0, <2>1, ChoreOf DEF Busy
  <2>3. /\ work' \in [Slots -> {T!Idle} \cup Chores] /\ \A q \in Slots \ {r} : work'[q] = work[q]
        /\ work'[r].pc = "token" /\ GoesOnAs(r)
    BY <1>0, <2>1, <2>2, ChoreAgain DEF DeskTypes, GoesOnAs
  <2>4. \A q \in Slots : Onward(q)
    BY <2>1, <2>3 DEF Onward, Calling
  <2>5. refreshes' \in Nat /\ Awaited'
    BY <1>0, <2>1, <2>3 DEF DeskTypes, Awaited
  <2> QED BY <2>1, <2>3, <2>4, <2>5, OnwardKeeps
<1> QED BY <1>1, <1>2

LEMMA RefreshedStep ==
  ASSUME DeskInv, NEW ok \in BOOLEAN, T!Refreshed(ok)
  PROVE  DeskInv'
<1>0. DeskTypes /\ Awaited /\ refreshes \in Nat
  BY DEF DeskInv, DeskTypes
<1>1. Unmoved /\ refreshes > 0 /\ refreshes' = refreshes - 1
  BY DEF T!Refreshed, Unmoved
<1>2. refreshes' = 0
  <2>1. refreshes <= 1
    BY <1>0 DEF Awaited
  <2> QED BY <1>0, <1>1, <2>1
<1>3. CASE ok
  <2>1. /\ failures' = failures + 0
        /\ work' = [r \in Slots |-> IF work[r].pc # "wait" THEN work[r] ELSE InPc(work[r], "call")]
    BY <1>3, Zenon DEF T!Refreshed, T!At, InPc
  <2>2. ASSUME NEW q \in Slots
        PROVE  Onward(q) /\ work'[q] \in {T!Idle} \cup Chores /\ work'[q].pc # "wait"
    <3>1. CASE work[q].pc # "wait"
      BY <1>0, <2>1, <3>1 DEF Onward, DeskTypes
    <3>2. CASE work[q].pc = "wait"
      <4>1. work[q] \in Chores
        BY <1>0, <3>2, ChoreOf DEF Busy
      <4> QED BY <2>1, <3>2, <4>1, ChoreAt DEF Onward, Calling, GoesOnAs
    <3> QED BY <3>1, <3>2
  <2>3. work' \in [Slots -> {T!Idle} \cup Chores] /\ \A q \in Slots : Onward(q)
    BY <2>1, <2>2
  <2>4. refreshes' \in Nat /\ Awaited'
    BY <1>2, <2>2 DEF Awaited
  <2>5. failures' = failures
    <3>1. failures \in Nat
      BY <1>0 DEF DeskTypes
    <3> QED BY <2>1, <3>1
  <2> QED BY <1>1, <2>3, <2>4, <2>5, OnwardKeeps
<1>4. CASE ~ok
  <2>1. /\ failures' = failures + 1
        /\ work' = [r \in Slots |-> IF work[r].pc # "wait" THEN work[r] ELSE T!Idle]
    BY <1>4, Zenon DEF T!Refreshed, T!At
  <2>2. /\ \A q \in Slots : work'[q] = work[q] \/ work'[q] = T!Idle
        /\ work' \in [Slots -> {T!Idle} \cup Chores] /\ \A q \in Slots : work'[q].pc # "wait"
    BY <1>0, <2>1 DEF DeskTypes, T!Idle
  <2>3. refreshes' \in Nat /\ Awaited'
    BY <1>2, <2>2 DEF Awaited
  <2> QED BY <1>1, <2>1, <2>2, <2>3, LeaveKeeps
<1> QED BY <1>3, <1>4

LEMMA ThrowsStep == ASSUME DeskInv, NEW r \in Slots, T!Throws(r) PROVE DeskInv'
<1>0. DeskTypes /\ Awaited
  BY DEF DeskInv
<1>1. Unmoved /\ refreshes' = refreshes /\ failures' = failures + 1 /\ T!Finish(r)
  BY DEF T!Throws, Unmoved
<1>2. /\ work' \in [Slots -> {T!Idle} \cup Chores] /\ \A q \in Slots \ {r} : work'[q] = work[q]
      /\ work'[r] = T!Idle
  BY <1>0, <1>1, LeavesOff
<1>3. Awaited' /\ refreshes' \in Nat
  BY <1>0, <1>1, <1>2 DEF Awaited, DeskTypes, T!Idle
<1> QED BY <1>1, <1>2, <1>3, LeaveKeeps

(* What Zoho has to report. *)
LEMMA SetEffect ==
  ASSUME DeskTypes, Reported, NEW t \in Tickets, NEW z \in T!ZohoStatuses, T!Set(t, z)
  PROVE  /\ desk' \in [Tickets -> T!ZohoStatuses \cup {"none"}] /\ desk'[t] = z
         /\ \A u \in Tickets \ {t} : desk'[u] = desk[u]
         /\ hooks' \in Seq(Tickets \X T!ZohoStatuses) /\ Reported'
         /\ \A u : InHooks(u) => InHooks(u)'
         /\ desk[t] \notin {z, "none"} => InHooks(t)'
<1>1. /\ desk' \in [Tickets -> T!ZohoStatuses \cup {"none"}] /\ desk'[t] = z
      /\ \A u \in Tickets \ {t} : desk'[u] = desk[u]
  BY DEF DeskTypes, T!Set
<1>2. z # "none" /\ hooks \in Seq(Tickets \X T!ZohoStatuses)
  BY ZohoOf DEF DeskTypes
<1>3. CASE desk[t] \in {z, "none"}
  <2>1. hooks' = hooks
    BY <1>3 DEF T!Set
  <2>2. \A i \in DOMAIN hooks : hooks[i][1] \in Tickets /\ desk'[hooks[i][1]] = desk[hooks[i][1]]
    BY <1>1, <1>2, <1>3 DEF Reported
  <2> QED BY <1>1, <1>2, <1>3, <2>1, <2>2 DEF Reported, LastOf, InHooks
<1>4. CASE desk[t] \notin {z, "none"}
  <2> DEFINE x == <<t, z>>
             n == Len(hooks)
  <2>1. hooks' = Append(hooks, x) /\ x \in Tickets \X T!ZohoStatuses /\ x[1] = t /\ x[2] = z
    BY <1>4 DEF T!Set
  <2>2. n \in Nat /\ DOMAIN hooks = 1..n
    BY <1>2
  <2> HIDE DEF x, n
  <2>3. /\ hooks' \in Seq(Tickets \X T!ZohoStatuses) /\ DOMAIN hooks' = 1..(n + 1)
        /\ \A i \in 1..n : hooks'[i] = hooks[i]
        /\ hooks'[n + 1] = x
    BY <1>2, <2>1 DEF n
  <2>4. ASSUME NEW i \in 1..(n + 1)
        PROVE  desk'[hooks'[i][1]] # "none" /\ (LastOf(i)' => desk'[hooks'[i][1]] = hooks'[i][2])
    <3>1. CASE i = n + 1
      BY <1>1, <1>2, <2>1, <2>3, <3>1
    <3>2. CASE i \in 1..n /\ hooks[i][1] = t
      <4>1. n + 1 \in DOMAIN hooks' /\ n + 1 > i /\ hooks'[n + 1][1] = hooks'[i][1]
        BY <2>1, <2>2, <2>3, <3>2
      <4>2. ~LastOf(i)'
        BY <4>1, Zenon DEF LastOf
      <4>3. desk'[hooks'[i][1]] = z
        BY <1>1, <2>3, <3>2
      <4> QED BY <1>2, <4>2, <4>3
    <3>3. CASE i \in 1..n /\ hooks[i][1] # t
      <4>1. hooks'[i] = hooks[i] /\ hooks[i][1] \in Tickets /\ desk'[hooks[i][1]] = desk[hooks[i][1]]
        BY <1>1, <1>2, <2>2, <2>3, <3>3
      <4>2. LastOf(i)' => LastOf(i)
        <5> SUFFICES ASSUME LastOf(i)', NEW j \in DOMAIN hooks, j > i
                     PROVE  hooks[j][1] # hooks[i][1]
          BY DEF LastOf
        <5>1. j \in DOMAIN hooks' /\ hooks'[j] = hooks[j]
          BY <2>2, <2>3
        <5> QED BY <4>1, <5>1 DEF LastOf
      <4>3. desk[hooks[i][1]] # "none" /\ (LastOf(i) => desk[hooks[i][1]] = hooks[i][2])
        BY <2>2, <3>3 DEF Reported
      <4> QED BY <4>1, <4>2, <4>3
    <3> QED BY <2>2, <3>1, <3>2, <3>3
  <2>5. Reported'
    BY <2>3, <2>4 DEF Reported
  <2>6. InHooks(t)'
    <3>1. n + 1 \in DOMAIN hooks' /\ hooks'[n + 1][1] = t
      BY <2>1, <2>2, <2>3
    <3> QED BY <3>1 DEF InHooks
  <2>7. ASSUME NEW u, InHooks(u)
        PROVE  InHooks(u)'
    <3>1. PICK i \in DOMAIN hooks : hooks[i][1] = u
      BY <2>7 DEF InHooks
    <3>2. i \in DOMAIN hooks' /\ hooks'[i] = hooks[i]
      BY <2>2, <2>3
    <3> QED BY <3>1, <3>2 DEF InHooks
  <2> QED BY <1>1, <2>3, <2>5, <2>6, <2>7
<1> QED BY <1>3, <1>4

\* The webhook takes the oldest report; if it is the last one of its ticket,
\* it is what the ticket is at Zoho.
LEMMA TakeEffect ==
  ASSUME DeskTypes, Reported, hooks # <<>>, hooks' = Tail(hooks), desk' = desk,
         NEW t, t = hooks[1][1]
  PROVE  /\ hooks' \in Seq(Tickets \X T!ZohoStatuses) /\ Reported'
         /\ t \in Tickets /\ hooks[1][2] \in T!ZohoStatuses /\ desk[t] # "none"
         /\ \A u : u # t => (InHooks(u) => InHooks(u)')
         /\ ~InHooks(t)' => desk[t] = hooks[1][2]
<1> DEFINE n == Len(hooks)
<1>1. /\ n \in Nat \ {0} /\ DOMAIN hooks = 1..n /\ hooks' \in Seq(Tickets \X T!ZohoStatuses)
      /\ DOMAIN hooks' = 1..(n - 1) /\ \A i \in 1..(n - 1) : hooks'[i] = hooks[i + 1]
  BY DEF DeskTypes
<1>2. hooks[1] \in Tickets \X T!ZohoStatuses /\ 1 \in DOMAIN hooks
  BY <1>1 DEF DeskTypes
<1> HIDE DEF n
<1>3. Reported'
  <2> SUFFICES ASSUME NEW i \in 1..(n - 1)
               PROVE  desk[hooks'[i][1]] # "none" /\ (LastOf(i)' => desk[hooks'[i][1]] = hooks'[i][2])
    BY <1>1 DEF Reported
  <2>1. i + 1 \in DOMAIN hooks /\ hooks'[i] = hooks[i + 1]
    BY <1>1
  <2>2. ASSUME LastOf(i)'
        PROVE  LastOf(i + 1)
    <3> SUFFICES ASSUME NEW j \in DOMAIN hooks, j > i + 1
                 PROVE  hooks[j][1] # hooks[i + 1][1]
      BY DEF LastOf
    <3>1. j - 1 \in 1..(n - 1) /\ j - 1 > i /\ (j - 1) + 1 = j
      BY <1>1
    <3>2. j - 1 \in DOMAIN hooks' /\ hooks'[j - 1] = hooks[j]
      BY <1>1, <3>1
    <3> QED BY <2>1, <2>2, <3>1, <3>2 DEF LastOf
  <2> QED BY <2>1, <2>2 DEF Reported
<1>4. ASSUME NEW u, u # t, InHooks(u)
      PROVE  InHooks(u)'
  <2>1. PICK i \in DOMAIN hooks : hooks[i][1] = u
    BY <1>4 DEF InHooks
  <2>2. i # 1
    BY <1>4, <2>1
  <2>3. i - 1 \in 1..(n - 1) /\ (i - 1) + 1 = i
    BY <1>1, <2>2
  <2>4. i - 1 \in DOMAIN hooks' /\ hooks'[i - 1] = hooks[i]
    BY <1>1, <2>3
  <2> QED BY <2>1, <2>4 DEF InHooks
<1>5. ASSUME ~InHooks(t)'
      PROVE  LastOf(1)
  <2> SUFFICES ASSUME NEW j \in DOMAIN hooks, j > 1, hooks[j][1] = t
               PROVE  FALSE
    BY DEF LastOf
  <2>1. j - 1 \in 1..(n - 1) /\ (j - 1) + 1 = j
    BY <1>1
  <2>2. j - 1 \in DOMAIN hooks' /\ hooks'[j - 1] = hooks[j]
    BY <1>1, <2>1
  <2> QED BY <1>5, <2>2 DEF InHooks
<1> QED BY <1>1, <1>2, <1>3, <1>4, <1>5 DEF Reported

\* A step about one ticket leaves the others told.
LEMMA ToldStays ==
  ASSUME Told, NEW t \in Tickets, NEW r \in Slots, \A q \in Slots \ {r} : work'[q] = work[q],
         missed' = missed, \A u \in Tickets \ {t} : ticket'[u] = ticket[u] /\ desk'[u] = desk[u],
         \A u : InHooks(u) => InHooks(u)', \A u : u # t => ~Telling(r, u),
         t \notin missed => IF ticket'[t].status # "none" THEN Due(t)'
                           ELSE desk'[t] \in {"none", "Open"} \/ InHooks(t)'
  PROVE  Told'
<1> SUFFICES ASSUME NEW u \in Tickets \ missed
             PROVE  IF ticket'[u].status # "none" THEN Due(u)'
                    ELSE desk'[u] \in {"none", "Open"} \/ InHooks(u)'
  BY DEF Told
<1>1. CASE u = t
  BY <1>1
<1>2. CASE u # t
  <2>1. ticket'[u] = ticket[u] /\ desk'[u] = desk[u]
    BY <1>2
  <2>2. IF ticket[u].status # "none" THEN Due(u) ELSE desk[u] \in {"none", "Open"} \/ InHooks(u)
    BY DEF Told
  <2>3. CASE ticket[u].status # "none"
    <3>1. Due(u)'
      BY <1>2, <2>1, <2>2, <2>3, DueStays
    <3> QED BY <2>1, <2>3, <3>1
  <2>4. CASE ticket[u].status = "none"
    BY <2>1, <2>2, <2>4
  <2> QED BY <2>3, <2>4
<1> QED BY <1>1, <1>2

(* The steps that pay, save and call, and Zoho's own. *)
LEMMA PayEffect ==
  ASSUME DeskTypes, NEW t \in Tickets, NEW w \in T!Ways, paid' = [paid EXCEPT ![t][w] = @ + 1]
  PROVE  /\ paid' \in [Tickets -> [T!Ways -> Nat]] /\ paid'[t][w] = paid[t][w] + 1
         /\ paid[t][w] \in Nat
         /\ \A u \in Tickets, v \in T!Ways : (u # t \/ v # w) => paid'[u][v] = paid[u][v]
<1> DEFINE n == paid[t][w] + 1
           f == [paid[t] EXCEPT ![w] = n]
<1>1. paid \in [Tickets -> [T!Ways -> Nat]] /\ paid[t] \in [T!Ways -> Nat]
  BY DEF DeskTypes
<1>2. paid[t][w] \in Nat /\ n \in Nat
  BY <1>1
<1>3. paid' = [paid EXCEPT ![t] = f]
  BY Zenon
<1> HIDE DEF n
<1>4. f \in [T!Ways -> Nat] /\ f[w] = n /\ \A v \in T!Ways : v # w => f[v] = paid[t][v]
  BY <1>1, <1>2
<1> HIDE DEF f
<1>5. /\ paid' \in [Tickets -> [T!Ways -> Nat]] /\ paid'[t] = f
      /\ \A u \in Tickets : u # t => paid'[u] = paid[u]
  BY <1>1, <1>3, <1>4
<1> QED BY <1>2, <1>4, <1>5 DEF n

LEMMA PayStep == ASSUME DeskInv, NEW r \in Slots, T!Pay(r) PROVE DeskInv'
<1>0. DeskTypes /\ Awaited /\ Credited /\ Created /\ Reported
  BY DEF DeskInv
<1>1. PICK w \in T!Ways :
        /\ work[r].pc = w /\ paid' = [paid EXCEPT ![work[r].t][w] = @ + 1]
        /\ T!Goto(r, IF w = "gateway" THEN "wallet" ELSE "save")
        /\ UNCHANGED <<ticket, desk, hooks, comments, refreshes, missed, failures>>
  BY Zenon DEF T!Pay, T!At
<1> DEFINE t == work[r].t
           pc == IF w = "gateway" THEN "wallet" ELSE "save"
<1>2. w \in {"gateway", "wallet"} /\ Busy(r) /\ pc \in {"wallet", "save"}
  BY <1>1 DEF T!Ways, Busy
<1>3. t \in Tickets /\ work[r].do = "refund"
  BY <1>0, <1>1, <1>2, ChoreOf DEF Credited
<1>4. /\ work' \in [Slots -> {T!Idle} \cup Chores] /\ \A q \in Slots \ {r} : work'[q] = work[q]
      /\ work'[r].pc = pc /\ GoesOnAs(r)
  BY <1>0, <1>1, <1>2, Proceeds
<1> HIDE DEF t
<1>5. /\ paid' \in [Tickets -> [T!Ways -> Nat]] /\ paid'[t][w] = paid[t][w] + 1
      /\ paid[t][w] \in Nat
      /\ \A u \in Tickets, v \in T!Ways : (u # t \/ v # w) => paid'[u][v] = paid[u][v]
  <2>1. paid' = [paid EXCEPT ![t][w] = @ + 1]
    BY <1>1 DEF t
  <2> QED BY <1>0, <1>3, <2>1, PayEffect
<1>6. DeskTypes'
  BY <1>0, <1>1, <1>4, <1>5 DEF DeskTypes
<1>7. Awaited'
  BY <1>0, <1>1, <1>2, <1>4 DEF Awaited
<1>8. /\ "wallet" \in T!Ways /\ "gateway" \in T!Ways /\ "wallet" # "gateway"
      /\ paid'[t][w] > 0
      /\ \A u \in Tickets, v \in T!Ways : paid[u][v] > 0 => paid'[u][v] > 0
  <2>1. paid'[t][w] > 0
    BY <1>5
  <2> QED BY <1>5, <2>1 DEF T!Ways
<1>9. Credited'
  <2>1. \A u \in Tickets : ticket'[u].processed = TRUE => paid'[u]["wallet"] > 0
    BY <1>0, <1>1, <1>8 DEF Credited
  <2>2. ASSUME NEW q \in Slots, Busy(q)'
        PROVE  IF work'[q].pc \in {"gateway", "wallet"} THEN work'[q].do = "refund"
               ELSE work'[q].do = "refund" => paid'[work'[q].t]["wallet"] > 0
    <3>1. CASE q = r
      BY <1>2, <1>3, <1>4, <1>8, <3>1 DEF GoesOnAs, t
    <3>2. CASE q # r
      <4>1. work'[q] = work[q] /\ Busy(q) /\ work[q].t \in Tickets
        BY <1>0, <1>4, <2>2, <3>2, ChoreOf DEF Busy
      <4> QED BY <1>0, <1>8, <4>1 DEF Credited
    <3> QED BY <3>1, <3>2
  <2> QED BY <2>1, <2>2 DEF Credited
<1>10. Created'
  <2>1. \A u \in Tickets : ticket[u].status # "none" => desk[u] # "none"
    BY <1>0 DEF Created
  <2>2. ASSUME NEW q \in Slots, Busy(q)'
        PROVE  /\ Busy(q) /\ GoesOnAs(q)
               /\ work[q].do = "create" =>
                    /\ ticket'[work[q].t].status = "none"
                    /\ work'[q].pc = "save" => desk'[work[q].t] # "none"
    <3>1. CASE q = r
      BY <1>2, <1>3, <1>4, <3>1
    <3>2. CASE q # r
      <4>1. work'[q] = work[q] /\ Busy(q)
        BY <1>4, <2>2, <3>2 DEF Busy
      <4> QED BY <1>0, <1>1, <4>1 DEF Created, GoesOnAs
    <3> QED BY <3>1, <3>2
  <2> QED BY <1>0, <1>1, <2>1, <2>2, CreatedStays
<1>11. Reported'
  BY <1>0, <1>1 DEF Reported, LastOf
<1>12. failures = 0 => Told'
  <2> SUFFICES ASSUME Told, NEW u \in Tickets \ missed, Due(u)
               PROVE  Due(u)'
    BY <1>1 DEF DeskInv, Told, InHooks
  <2>1. ~Telling(r, u)
    BY <1>1, <1>2 DEF Telling, Calling
  <2>2. ticket' = ticket /\ desk' = desk /\ (InHooks(u) => InHooks(u)')
    BY <1>1 DEF InHooks
  <2> QED BY <1>4, <2>1, <2>2, DueStays
<1>13. (Alone /\ failures = 0) => \A q \in Slots : (PaidBy(q) /\ NotedBy(q))'
  <2> SUFFICES ASSUME Alone, PaidBy(r), NotedBy(r)
               PROVE  PaidBy(r)' /\ NotedBy(r)'
    BY DEF DeskInv, Alone
  <2>1. paid[t][w] = 0 /\ (w = "gateway" => paid[t]["wallet"] = 0)
    BY <1>1, <1>2 DEF PaidBy, t
  <2>2. paid'[t][w] = 1
    BY <1>5, <2>1
  <2>3. \A u \in Tickets, v \in T!Ways :
          /\ paid'[u][v] <= 1
          /\ paid'[u][v] > 0 => (ticket'[u].processed = TRUE \/ u = t)
    <3> SUFFICES ASSUME NEW u \in Tickets, NEW v \in T!Ways
                 PROVE  /\ paid'[u][v] <= 1
                        /\ paid'[u][v] > 0 => (ticket'[u].processed = TRUE \/ u = t)
      OBVIOUS
    <3>1. CASE u = t /\ v = w
      BY <2>2, <3>1
    <3>2. CASE ~(u = t /\ v = w)
      BY <1>1, <1>5, <3>2 DEF PaidBy, t
    <3> QED BY <3>1, <3>2
  <2>4. PaidBy(r)'
    <3>1. Busy(r)' /\ work'[r].do = "refund" /\ work'[r].t = t
      BY <1>2, <1>3, <1>4 DEF Busy, GoesOnAs, t
    <3>2. work'[r].pc = "wallet" => paid'[t]["wallet"] = 0
      BY <1>2, <1>3, <1>4, <1>5, <1>8, <2>1
    <3>3. work'[r].pc \in {"wallet", "save"} /\ work'[r].pc \notin Calling /\ work'[r].pc # "gateway"
      BY <1>2, <1>4 DEF Calling
    <3>4. work'[r].pc \in {"gateway", "wallet"} => paid'[work'[r].t]["wallet"] = 0
      BY <3>1, <3>2, <3>3
    <3> QED BY <2>3, <3>1, <3>3, <3>4 DEF PaidBy
  <2>5. NotedBy(r)'
    BY <1>1, <1>2, <1>3, <1>4 DEF NotedBy, Unsaved, GoesOnAs, Busy
  <2> QED BY <2>4, <2>5
<1> QED BY <1>1, <1>6, <1>7, <1>9, <1>10, <1>11, <1>12, <1>13 DEF DeskInv

LEMMA SavedOf ==
  ASSUME DeskTypes, NEW h \in Chores
  PROVE  /\ T!Saved(h) \in Sheets
         /\ T!Saved(h).status = IF h.to \in {"", h.read.status} THEN ticket[h.t].status ELSE h.to
         /\ T!Saved(h).processed = TRUE <=> (ticket[h.t].processed = TRUE \/ h.do = "refund")
         /\ T!Saved(h).notes = IF h.meta # TRUE \/ (h.do = "note" /\ h.read.notes > 0) THEN ticket[h.t].notes
                              ELSE IF h.do = "note" THEN 1 ELSE h.read.notes
<1> DEFINE st == IF h.to \in {"", h.read.status} THEN ticket[h.t].status ELSE h.to
           pr == ticket[h.t].processed \/ h.do = "refund"
           no == IF ~h.meta \/ (h.do = "note" /\ h.read.notes > 0) THEN ticket[h.t].notes
                 ELSE IF h.do = "note" THEN 1 ELSE h.read.notes
<1>1. /\ ticket[h.t] \in Sheets /\ h.read \in Sheets /\ h.to \in T!Statuses \cup {""}
      /\ h.meta \in BOOLEAN
  BY DEF DeskTypes, Chores
<1>2. st \in T!Statuses \cup {"none"}
  BY <1>1, SheetOf
<1>3. ticket[h.t].processed \in BOOLEAN /\ pr \in BOOLEAN
      /\ (pr = TRUE <=> (ticket[h.t].processed = TRUE \/ h.do = "refund"))
  <2>1. ticket[h.t].processed \in BOOLEAN
    BY <1>1, SheetOf
  <2> QED BY <2>1, Zenon
<1>4. no \in {0, 1} /\ no = IF h.meta # TRUE \/ (h.do = "note" /\ h.read.notes > 0) THEN ticket[h.t].notes
                           ELSE IF h.do = "note" THEN 1 ELSE h.read.notes
  <2>1. h.read.notes \in {0, 1} /\ ticket[h.t].notes \in {0, 1}
    BY <1>1, SheetOf
  <2>2. CASE h.meta = TRUE
    BY <2>1, <2>2
  <2>3. CASE h.meta = FALSE
    BY <2>1, <2>3
  <2> QED BY <1>1, <2>2, <2>3
<1> DEFINE e == [status |-> st, processed |-> pr, notes |-> no]
<1>5. T!Saved(h) = e
  BY Zenon DEF T!Saved
<1>6. pr \in BOOLEAN /\ no \in {0, 1}
  BY <1>3, <1>4
<1> HIDE DEF st, pr, no
<1>7. e.status = st /\ e.processed = pr /\ e.notes = no
  BY Zenon
<1>8. e \in Sheets
  BY <1>2, <1>6, Zenon DEF Sheets
<1> HIDE DEF e
<1> QED BY <1>3, <1>4, <1>5, <1>7, <1>8 DEF st

LEMMA SaveTicketStep ==
  ASSUME DeskInv, NEW r \in Slots, NEW t \in Tickets, t = work[r].t, T!Save(r)
  PROVE  DeskInv'
<1>0. DeskTypes /\ Awaited /\ Credited /\ Created /\ Reported
  BY DEF DeskInv
<1> DEFINE d == T!Saved(work[r])
<1>1. /\ work[r].pc = "save" /\ ticket' = [ticket EXCEPT ![t] = d]
      /\ work[r].do \in {"create", "note"} => T!Finish(r)
      /\ work[r].do \notin {"create", "note"} => T!Goto(r, "token")
      /\ UNCHANGED <<desk, hooks, paid, comments, refreshes, missed, failures>>
  BY Zenon DEF T!Save, T!At
<1>2. Busy(r) /\ work[r] \in Chores /\ t \in Tickets
  BY <1>0, <1>1, ChoreOf DEF Busy
<1>3. /\ d \in Sheets
      /\ d.status = IF work[r].to \in {"", work[r].read.status} THEN ticket[t].status ELSE work[r].to
      /\ d.processed = TRUE <=> (ticket[t].processed = TRUE \/ work[r].do = "refund")
      /\ d.notes = IF work[r].meta # TRUE \/ (work[r].do = "note" /\ work[r].read.notes > 0)
                   THEN ticket[t].notes ELSE IF work[r].do = "note" THEN 1 ELSE work[r].read.notes
  BY <1>0, <1>2, SavedOf
<1>4. /\ work' \in [Slots -> {T!Idle} \cup Chores] /\ \A q \in Slots \ {r} : work'[q] = work[q]
      /\ work[r].do \in {"create", "note"} => ~Busy(r)'
      /\ work[r].do \notin {"create", "note"} => work'[r].pc = "token" /\ GoesOnAs(r)
      /\ work'[r].pc \in {"idle", "token"}
  <2>1. CASE work[r].do \in {"create", "note"}
    BY <1>0, <1>1, <2>1, LeavesOff DEF Busy
  <2>2. CASE work[r].do \notin {"create", "note"}
    BY <1>0, <1>1, <1>2, <2>2, Proceeds
  <2> QED BY <2>1, <2>2
<1>5. /\ work[r].to \in T!Statuses \cup {""} /\ ticket[t] \in Sheets
      /\ work[r].do \in {"create", "refund", "reject", "status", "note"}
  BY <1>0, <1>2 DEF Chores, DeskTypes
<1> HIDE DEF d
<1>6. /\ ticket' \in [Tickets -> Sheets] /\ ticket'[t] = d
      /\ \A u \in Tickets \ {t} : ticket'[u] = ticket[u]
  BY <1>0, <1>1, <1>2, <1>3 DEF DeskTypes
<1>7. d.status # "none" /\ desk[t] # "none" /\ (work[r].do = "create" => d.status = "open")
      /\ (work[r].do # "create" => ticket[t].status # "none")
  <2>1. CASE work[r].do = "create"
    BY <1>0, <1>1, <1>2, <1>3, <2>1 DEF Created
  <2>2. CASE work[r].do # "create"
    <3>1. ticket[t].status # "none" /\ desk[t] # "none"
      BY <1>0, <1>2, <2>2 DEF Created
    <3> QED BY <1>3, <1>5, <2>2, <3>1, ZohoOf
  <2> QED BY <2>1, <2>2
<1>8. DeskTypes'
  BY <1>0, <1>1, <1>4, <1>6 DEF DeskTypes
<1>9. Awaited'
  BY <1>0, <1>1, <1>4 DEF Awaited
<1>10. Credited'
  <2>1. \A u \in Tickets : ticket'[u].processed = TRUE => paid'[u]["wallet"] > 0
    <3>1. d.processed = TRUE => paid[t]["wallet"] > 0
      BY <1>0, <1>1, <1>2, <1>3 DEF Credited
    <3> QED BY <1>0, <1>1, <1>6, <3>1 DEF Credited
  <2>2. ASSUME NEW q \in Slots, Busy(q)'
        PROVE  IF work'[q].pc \in {"gateway", "wallet"} THEN work'[q].do = "refund"
               ELSE work'[q].do = "refund" => paid'[work'[q].t]["wallet"] > 0
    <3>1. CASE q = r
      BY <1>0, <1>1, <1>2, <1>4, <2>2, <3>1 DEF Credited, GoesOnAs
    <3>2. CASE q # r
      <4>1. work'[q] = work[q] /\ Busy(q)
        BY <1>4, <2>2, <3>2 DEF Busy
      <4> QED BY <1>0, <1>1, <4>1 DEF Credited
    <3> QED BY <3>1, <3>2
  <2> QED BY <2>1, <2>2 DEF Credited
<1>11. Created'
  <2>1. \A u \in Tickets :
           /\ ticket'[u].status = "none" => ticket'[u] = ticket[u]
           /\ ticket'[u].status # "none" => desk'[u] # "none"
           /\ ticket[u].status # "none" => ticket'[u].status # "none"
    BY <1>0, <1>1, <1>6, <1>7 DEF Created
  <2>2. ASSUME NEW q \in Slots, Busy(q)'
        PROVE  /\ Busy(q) /\ GoesOnAs(q)
               /\ work[q].do = "create" =>
                    /\ ticket'[work[q].t].status = "none"
                    /\ work'[q].pc = "save" => desk'[work[q].t] # "none"
    <3>1. CASE q = r
      BY <1>2, <1>4, <2>2, <3>1
    <3>2. CASE q # r
      <4>1. work'[q] = work[q] /\ Busy(q) /\ work[q].t \in Tickets
        BY <1>0, <1>4, <2>2, <3>2, ChoreOf DEF Busy
      <4>2. work[q].do = "create" =>
              /\ ticket[work[q].t].status = "none" /\ work[q].t # t
              /\ work[q].pc = "save" => desk[work[q].t] # "none"
        BY <1>0, <1>2, <3>2, <4>1 DEF Created
      <4> QED BY <1>1, <1>6, <4>1, <4>2 DEF GoesOnAs
    <3> QED BY <3>1, <3>2
  <2> QED BY <1>0, <2>1, <2>2, CreatedStays
<1>12. Reported'
  BY <1>0, <1>1 DEF Reported, LastOf
<1>13. failures = 0 => Told'
  <2> SUFFICES ASSUME Told
               PROVE  Told'
    BY DEF DeskInv
  <2>1. \A u : InHooks(u) => InHooks(u)'
    BY <1>1 DEF InHooks
  <2>2. \A u : ~Telling(r, u)
    BY <1>1 DEF Telling, Calling
  <2>3. ASSUME t \notin missed
        PROVE  Due(t)'
    <3>1. CASE work[r].do = "create"
      <4>1. ticket[t].status = "none"
        BY <1>0, <1>2, <3>1 DEF Created
      <4>2. desk[t] = "Open" \/ InHooks(t)
        BY <1>2, <1>7, <2>3, <4>1 DEF Told
      <4>3. Agree("open", "Open")
        BY DEF Agree, T!Ours
      <4> QED BY <1>1, <1>6, <1>7, <2>1, <3>1, <4>2, <4>3 DEF Due
    <3>2. CASE work[r].do # "create" /\ d.status = ticket[t].status
      <4>1. Due(t) /\ ticket'[t].status = ticket[t].status /\ desk'[t] = desk[t]
        BY <1>1, <1>2, <1>6, <1>7, <2>3, <3>2 DEF Told
      <4> QED BY <1>2, <1>4, <2>1, <2>2, <4>1, DueStays
    <3>3. CASE work[r].do # "create" /\ d.status # ticket[t].status
      <4>1. d.status = work[r].to /\ work[r].to # ""
        BY <1>3, <3>3
      <4>2. work[r].do # "note"
        BY <1>0, <1>2, <4>1 DEF Created
      <4>3. Telling(r, t)'
        BY <1>4, <1>6, <3>3, <4>1, <4>2 DEF Telling, Calling, GoesOnAs
      <4> QED BY <4>3 DEF Due
    <3> QED BY <3>1, <3>2, <3>3
  <2> QED BY <1>1, <1>2, <1>4, <1>6, <1>7, <2>1, <2>2, <2>3, ToldStays
<1>14. (Alone /\ failures = 0) => \A q \in Slots : (PaidBy(q) /\ NotedBy(q))'
  <2> SUFFICES ASSUME Alone, PaidBy(r), NotedBy(r)
               PROVE  PaidBy(r)' /\ NotedBy(r)'
    BY DEF DeskInv, Alone
  <2>1. PaidBy(r)'
    <3>1. \A u \in Tickets, v \in T!Ways :
             /\ paid'[u][v] <= 1
             /\ paid'[u][v] > 0 => ticket'[u].processed = TRUE
      BY <1>1, <1>3, <1>6 DEF PaidBy
    <3>2. work'[r].pc \in Calling => (work'[r].do = "refund" => ticket'[work'[r].t].processed = TRUE)
      BY <1>3, <1>4, <1>6 DEF GoesOnAs, Calling, Busy
    <3> QED BY <1>4, <3>1, <3>2 DEF PaidBy
  <2>2. NotedBy(r)'
    <3>1. /\ work[r].read.notes = ticket[t].notes /\ (work[r].do = "note" => work[r].meta = TRUE)
          /\ \A u \in Tickets : IF work[r].do = "note" /\ u = t THEN comments[u] # 0
                                ELSE ticket[u].notes = 0 <=> comments[u] = 0
      BY <1>1, <1>2 DEF NotedBy, Unsaved
    <3>2. ticket[t].notes \in {0, 1}
      BY <1>0, <1>2, SheetOf DEF DeskTypes
    <3>3. d.notes = IF work[r].do = "note" THEN 1 ELSE ticket[t].notes
      <4>1. work[r].do = "note" => d.notes = IF work[r].read.notes > 0 THEN ticket[t].notes ELSE 1
        BY <1>3, <3>1
      <4>2. work[r].do # "note" => d.notes = ticket[t].notes
        BY <1>3, <3>1
      <4> HIDE DEF d
      <4> QED BY <3>1, <3>2, <4>1, <4>2
    <3>4. \A u \in Tickets : ticket'[u].notes = 0 <=> comments'[u] = 0
      BY <1>1, <1>2, <1>6, <3>1, <3>3
    <3>5. \A u : ~Unsaved(r, u)'
      BY <1>4 DEF Unsaved
    <3>6. Busy(r)' => /\ work'[r].read.notes = ticket'[work'[r].t].notes
                      /\ work'[r].do # "note"
      <4> SUFFICES ASSUME Busy(r)'
                   PROVE  /\ work'[r].read.notes = ticket'[work'[r].t].notes
                          /\ work'[r].do # "note"
        OBVIOUS
      <4>1. GoesOnAs(r) /\ work[r].do # "note"
        BY <1>4
      <4>2. d.notes = ticket[t].notes
        BY <3>2, <3>3, <4>1
      <4> QED BY <1>6, <3>1, <4>1, <4>2 DEF GoesOnAs
    <3> QED BY <3>4, <3>5, <3>6 DEF NotedBy
  <2> QED BY <2>1, <2>2
<1> QED BY <1>1, <1>8, <1>9, <1>10, <1>11, <1>12, <1>13, <1>14 DEF DeskInv

LEMMA CallDeskStep ==
  ASSUME DeskInv, NEW r \in Slots, NEW t \in Tickets, t = work[r].t, T!Call(r)
  PROVE  DeskInv'
<1>0. DeskTypes /\ Awaited /\ Credited /\ Created /\ Reported
  BY DEF DeskInv
<1> DEFINE z == T!AtZoho(work[r].to)
<1>1. /\ work[r].pc = "call"
      /\ work[r].do = "note" => comments' = [comments EXCEPT ![t] = comments[t] + 1]
                               /\ UNCHANGED <<desk, hooks>>
      /\ work[r].do # "note" => T!Set(t, z) /\ UNCHANGED comments
      /\ work[r].do \in {"create", "note"} => T!Goto(r, "save")
      /\ work[r].do \notin {"create", "note"} => T!Finish(r)
      /\ UNCHANGED <<ticket, paid, refreshes, missed, failures>>
  BY Zenon DEF T!Call, T!At
<1>2. Busy(r) /\ work[r] \in Chores /\ z \in T!ZohoStatuses /\ z # "none"
      /\ (work[r].do = "create" => z = "Open")
  <2>1. Busy(r) /\ work[r] \in Chores
    BY <1>0, <1>1, ChoreOf DEF Busy
  <2>2. work[r].do = "create" => work[r].to = "open"
    BY <1>0, <2>1 DEF Created
  <2> QED BY <2>1, <2>2, ZohoOf DEF T!AtZoho
<1> HIDE DEF z
<1>3. /\ work' \in [Slots -> {T!Idle} \cup Chores] /\ \A q \in Slots \ {r} : work'[q] = work[q]
      /\ work[r].do \in {"create", "note"} => work'[r].pc = "save" /\ GoesOnAs(r)
      /\ work[r].do \notin {"create", "note"} => ~Busy(r)'
      /\ work'[r].pc \in {"idle", "save"}
  <2>1. CASE work[r].do \in {"create", "note"}
    BY <1>0, <1>1, <1>2, <2>1, Proceeds
  <2>2. CASE work[r].do \notin {"create", "note"}
    BY <1>0, <1>1, <2>2, LeavesOff DEF Busy
  <2> QED BY <2>1, <2>2
<1>4. /\ desk' \in [Tickets -> T!ZohoStatuses \cup {"none"}]
      /\ \A u \in Tickets \ {t} : desk'[u] = desk[u]
      /\ hooks' \in Seq(Tickets \X T!ZohoStatuses) /\ Reported'
      /\ \A u : InHooks(u) => InHooks(u)'
      /\ work[r].do # "note" => desk'[t] = z /\ (desk[t] \notin {z, "none"} => InHooks(t)')
      /\ work[r].do = "note" => desk'[t] = desk[t]
  <2>1. CASE work[r].do = "note"
    <3>1. desk' = desk /\ hooks' = hooks
      BY <1>1, <2>1
    <3> QED BY <1>0, <2>1, <3>1 DEF DeskTypes, Reported, LastOf, InHooks
  <2>2. CASE work[r].do # "note"
    BY <1>0, <1>1, <1>2, <2>2, SetEffect
  <2> QED BY <2>1, <2>2
<1>5. /\ comments' \in [Tickets -> Nat]
      /\ \A u \in Tickets : comments'[u] = comments[u] + (IF work[r].do = "note" /\ u = t THEN 1 ELSE 0)
  <2>1. comments \in [Tickets -> Nat] /\ comments[t] + 1 \in Nat
    BY <1>0 DEF DeskTypes
  <2>2. CASE work[r].do = "note"
    BY <1>1, <2>1, <2>2
  <2>3. CASE work[r].do # "note"
    BY <1>1, <2>1, <2>3
  <2> QED BY <2>2, <2>3
<1>6. DeskTypes'
  BY <1>0, <1>1, <1>3, <1>4, <1>5 DEF DeskTypes
<1>7. Awaited'
  BY <1>0, <1>1, <1>3 DEF Awaited
<1>8. Credited'
  <2>1. \A u \in Tickets : ticket'[u].processed = TRUE => paid'[u]["wallet"] > 0
    BY <1>0, <1>1 DEF Credited
  <2>2. ASSUME NEW q \in Slots, Busy(q)'
        PROVE  IF work'[q].pc \in {"gateway", "wallet"} THEN work'[q].do = "refund"
               ELSE work'[q].do = "refund" => paid'[work'[q].t]["wallet"] > 0
    <3>1. CASE q = r
      BY <1>1, <1>3, <2>2, <3>1 DEF GoesOnAs
    <3>2. CASE q # r
      <4>1. work'[q] = work[q] /\ Busy(q)
        BY <1>3, <2>2, <3>2 DEF Busy
      <4> QED BY <1>0, <1>1, <4>1 DEF Credited
    <3> QED BY <3>1, <3>2
  <2> QED BY <2>1, <2>2 DEF Credited
<1>9. \A u \in Tickets : desk[u] # "none" => desk'[u] # "none"
  BY <1>2, <1>4
<1>10. Created'
  <2>1. \A u \in Tickets : ticket[u].status # "none" => desk'[u] # "none"
    BY <1>0, <1>9 DEF Created
  <2>2. ASSUME NEW q \in Slots, Busy(q)'
        PROVE  /\ Busy(q) /\ GoesOnAs(q)
               /\ work[q].do = "create" =>
                    /\ ticket'[work[q].t].status = "none"
                    /\ work'[q].pc = "save" => desk'[work[q].t] # "none"
    <3>1. CASE q = r
      <4>1. GoesOnAs(q) /\ work[q].do \in {"create", "note"}
        BY <1>3, <2>2, <3>1
      <4>2. work[q].do = "create" => ticket[t].status = "none" /\ desk'[t] # "none"
        BY <1>0, <1>2, <1>4, <3>1 DEF Created
      <4> QED BY <1>1, <1>2, <3>1, <4>1, <4>2
    <3>2. CASE q # r
      <4>1. work'[q] = work[q] /\ Busy(q) /\ work[q].t \in Tickets
        BY <1>0, <1>3, <2>2, <3>2, ChoreOf DEF Busy
      <4> QED BY <1>0, <1>1, <1>9, <4>1 DEF Created, GoesOnAs
    <3> QED BY <3>1, <3>2
  <2> QED BY <1>0, <1>1, <2>1, <2>2, CreatedStays
<1>11. failures = 0 => Told'
  <2> SUFFICES ASSUME Told
               PROVE  Told'
    BY DEF DeskInv
  <2>1. \A u : u # t => ~Telling(r, u)
    BY DEF Telling
  <2>2. ASSUME t \notin missed
        PROVE  IF ticket'[t].status # "none" THEN Due(t)'
               ELSE desk'[t] \in {"none", "Open"} \/ InHooks(t)'
    <3>1. CASE work[r].do = "create"
      <4>1. ticket[t].status = "none" /\ desk'[t] = "Open"
        BY <1>0, <1>2, <1>4, <3>1 DEF Created
      <4> QED BY <1>1, <4>1
    <3>2. CASE work[r].do # "create"
      <4>1. ticket[t].status # "none" /\ desk[t] # "none"
        BY <1>0, <1>2, <3>2 DEF Created
      <4>2. Due(t)
        BY <2>2, <4>1 DEF Told
      <4>3. CASE work[r].do = "note"
        <5>1. ~Telling(r, t)
          BY <4>3 DEF Telling
        <5>2. ticket'[t].status = ticket[t].status /\ desk'[t] = desk[t]
          BY <1>1, <1>4, <4>3
        <5>3. Due(t)'
          BY <1>3, <1>4, <4>2, <5>1, <5>2, DueStays
        <5> QED BY <1>1, <4>1, <5>3
      <4>4. CASE work[r].do # "note" /\ desk[t] # z
        <5>1. InHooks(t)'
          BY <1>4, <4>1, <4>4
        <5> QED BY <1>1, <4>1, <5>1 DEF Due
      <4>5. CASE work[r].do # "note" /\ desk[t] = z
        <5>1. ticket'[t].status = ticket[t].status /\ desk'[t] = desk[t]
          BY <1>1, <1>4, <4>5
        <5>2. Telling(r, t) => Agree(ticket'[t].status, desk'[t])
          <6>1. Telling(r, t) => ticket[t].status = work[r].to /\ ticket[t].status \in T!Statuses
            BY <1>0, <4>1, SheetOf DEF Telling, DeskTypes
          <6> QED BY <4>5, <5>1, <6>1, ZohoOf DEF z
        <5>3. Due(t)'
          BY <1>3, <1>4, <4>2, <5>1, <5>2, DueStays
        <5> QED BY <1>1, <4>1, <5>3
      <4> QED BY <4>3, <4>4, <4>5
    <3> QED BY <3>1, <3>2
  <2> QED BY <1>1, <1>3, <1>4, <2>1, <2>2, ToldStays
<1>12. (Alone /\ failures = 0) => \A q \in Slots : (PaidBy(q) /\ NotedBy(q))'
  <2> SUFFICES ASSUME Alone, PaidBy(r), NotedBy(r)
               PROVE  PaidBy(r)' /\ NotedBy(r)'
    BY DEF DeskInv, Alone
  <2>1. PaidBy(r)'
    <3>1. work[r].do = "refund" => ticket[t].processed = TRUE
      BY <1>1 DEF PaidBy, Calling
    <3>2. \A u \in Tickets, v \in T!Ways :
             paid[u][v] <= 1 /\ (paid[u][v] > 0 => ticket[u].processed = TRUE)
      BY <3>1 DEF PaidBy
    <3> QED BY <1>1, <1>3, <3>2 DEF PaidBy, Calling
  <2>2. NotedBy(r)'
    <3>1. comments \in [Tickets -> Nat]
      BY <1>0 DEF DeskTypes
    <3>2. \A u \in Tickets : ticket[u].notes = 0 <=> comments[u] = 0
      BY <1>1 DEF NotedBy, Unsaved
    <3>3. \A u : Unsaved(r, u)' <=> (work[r].do = "note" /\ u = t)
      BY <1>2, <1>3 DEF Unsaved, GoesOnAs, Busy
    <3>4. Busy(r)' => GoesOnAs(r)
      BY <1>3
    <3> QED BY <1>1, <1>2, <1>5, <3>1, <3>2, <3>3, <3>4 DEF NotedBy, GoesOnAs
  <2> QED BY <2>1, <2>2
<1> QED BY <1>1, <1>4, <1>6, <1>7, <1>8, <1>10, <1>11, <1>12 DEF DeskInv

\* What handlers know does not change, and no ticket becomes unknown.
LEMMA ZohoKeeps ==
  ASSUME DeskInv, DeskTypes', Reported',
         UNCHANGED <<paid, comments, refreshes, failures, work>>,
         \A u \in Tickets :
           /\ ticket'[u].processed = ticket[u].processed /\ ticket'[u].notes = ticket[u].notes
           /\ ticket[u].status = "none" => ticket'[u] = ticket[u]
           /\ ticket[u].status # "none" => ticket'[u].status # "none"
           /\ desk[u] # "none" => desk'[u] # "none",
         failures = 0 => Told'
  PROVE  DeskInv'
<1>0. DeskTypes /\ Awaited /\ Credited /\ Created /\ Reported
  BY DEF DeskInv
<1>1. \A q \in Slots : work'[q] = work[q] /\ (Busy(q)' <=> Busy(q)) /\ (Busy(q) => work[q].t \in Tickets)
  BY <1>0, ChoreOf DEF Busy
<1>2. Awaited'
  BY <1>0, <1>1 DEF Awaited
<1>3. Credited'
  BY <1>0, <1>1 DEF Credited
<1>4. Created'
  <2>1. \A u \in Tickets :
           /\ ticket'[u].status = "none" => ticket'[u] = ticket[u]
           /\ ticket'[u].status # "none" => desk'[u] # "none"
           /\ ticket[u].status # "none" => ticket'[u].status # "none"
    BY <1>0 DEF Created
  <2>2. ASSUME NEW q \in Slots, Busy(q)'
        PROVE  /\ Busy(q) /\ GoesOnAs(q)
               /\ work[q].do = "create" =>
                    /\ ticket'[work[q].t].status = "none"
                    /\ work'[q].pc = "save" => desk'[work[q].t] # "none"
    <3>1. Busy(q) /\ work'[q] = work[q] /\ work[q].t \in Tickets
      BY <1>1, <2>2
    <3> QED BY <1>0, <3>1 DEF Created, GoesOnAs
  <2> QED BY <1>0, <2>1, <2>2, CreatedStays
<1>5. (Alone /\ failures = 0) => \A q \in Slots : (PaidBy(q) /\ NotedBy(q))'
  <2> SUFFICES ASSUME NEW r \in Slots, PaidBy(r), NotedBy(r)
               PROVE  PaidBy(r)' /\ NotedBy(r)'
    BY DEF DeskInv
  <2>1. Busy(r) => work[r].t \in Tickets
    BY <1>1
  <2>2. PaidBy(r)'
    BY <1>1, <2>1 DEF PaidBy, Busy, Calling
  <2>3. NotedBy(r)'
    BY <1>1, <2>1 DEF NotedBy, Busy, Unsaved
  <2> QED BY <2>2, <2>3
<1> QED BY <1>2, <1>3, <1>4, <1>5 DEF DeskInv

LEMMA AgentStep ==
  ASSUME DeskInv, NEW t \in Tickets, NEW z \in T!ZohoStatuses, T!Agent(t, z)
  PROVE  DeskInv'
<1>0. DeskTypes /\ Created /\ Reported
  BY DEF DeskInv
<1>1. /\ desk[t] \notin {"none", z} /\ T!Set(t, z)
      /\ UNCHANGED <<ticket, paid, comments, refreshes, missed, failures, work>>
  BY DEF T!Agent
<1>2. /\ desk' \in [Tickets -> T!ZohoStatuses \cup {"none"}] /\ desk'[t] = z
      /\ \A u \in Tickets \ {t} : desk'[u] = desk[u]
      /\ hooks' \in Seq(Tickets \X T!ZohoStatuses) /\ Reported'
      /\ \A u : InHooks(u) => InHooks(u)'
      /\ InHooks(t)'
  BY <1>0, <1>1, SetEffect
<1>3. DeskTypes'
  BY <1>0, <1>1, <1>2 DEF DeskTypes
<1>4. failures = 0 => Told'
  <2> SUFFICES ASSUME Told, NEW u \in Tickets \ missed
               PROVE  IF ticket[u].status # "none" THEN Due(u)'
                      ELSE desk'[u] \in {"none", "Open"} \/ InHooks(u)'
    BY <1>1 DEF DeskInv, Told
  <2>1. CASE u = t
    BY <1>2, <2>1 DEF Due
  <2>2. CASE u # t
    <3>1. desk'[u] = desk[u] /\ (InHooks(u) => InHooks(u)')
      BY <1>2, <2>2
    <3>2. \A r \in Slots : Telling(r, u) => Telling(r, u)'
      BY <1>1 DEF Telling
    <3>3. Due(u) => Due(u)'
      BY <1>1, <3>1, <3>2 DEF Due
    <3> QED BY <3>1, <3>3 DEF Told
  <2> QED BY <2>1, <2>2
<1>5. z # "none"
  BY ZohoOf
<1>6. \A u \in Tickets : desk[u] # "none" => desk'[u] # "none"
  BY <1>2, <1>5
<1> QED BY <1>1, <1>2, <1>3, <1>4, <1>6, ZohoKeeps

\* A ticket that takes over a status.
Takes(d, s) == [d EXCEPT !.status = s]
LEMMA TakesOf ==
  ASSUME NEW d \in Sheets, NEW s \in T!Statuses
  PROVE  /\ Takes(d, s) \in Sheets /\ Takes(d, s).status = s
         /\ Takes(d, s).processed = d.processed /\ Takes(d, s).notes = d.notes
BY Zenon DEF Takes, Sheets

LEMMA HookStep ==
  ASSUME DeskInv, NEW t, t = hooks[1][1], NEW z, z = hooks[1][2], T!HandleTicketUpdate
  PROVE  DeskInv'
<1>0. DeskTypes /\ Created /\ Reported
  BY DEF DeskInv
<1>1. /\ hooks # <<>> /\ hooks' = Tail(hooks)
      /\ IF ticket[t] # T!NoTicket
           THEN ticket' = [ticket EXCEPT ![t] = Takes(ticket[t], T!Ours(z))] /\ missed' = missed
           ELSE missed' = missed \cup {t} /\ ticket' = ticket
      /\ UNCHANGED <<desk, paid, comments, refreshes, failures, work>>
  <2>1. Head(hooks) = hooks[1]
    BY <1>0 DEF DeskTypes, T!HandleTicketUpdate
  <2> QED BY <2>1, Zenon DEF T!HandleTicketUpdate, T!Known, Takes
<1>2. /\ hooks' \in Seq(Tickets \X T!ZohoStatuses) /\ Reported'
      /\ t \in Tickets /\ z \in T!ZohoStatuses /\ desk[t] # "none"
      /\ \A u : u # t => (InHooks(u) => InHooks(u)')
      /\ ~InHooks(t)' => desk[t] = z
  BY <1>0, <1>1, TakeEffect
<1>3. ticket[t] \in Sheets /\ T!Ours(z) \in T!Statuses
  BY <1>0, <1>2, ZohoOf DEF DeskTypes
<1> DEFINE d == Takes(ticket[t], T!Ours(z))
<1>4. /\ d \in Sheets /\ d.status = T!Ours(z) /\ d.status # "none"
      /\ d.processed = ticket[t].processed /\ d.notes = ticket[t].notes
  BY <1>3, TakesOf, ZohoOf
<1> HIDE DEF d
<1>5. /\ ticket' \in [Tickets -> Sheets] /\ missed \subseteq missed' /\ missed' \subseteq Tickets
      /\ \A u \in Tickets \ {t} : ticket'[u] = ticket[u]
      /\ \/ ticket'[t] = d /\ ticket[t] # T!NoTicket
         \/ ticket'[t] = ticket[t] /\ ticket[t] = T!NoTicket /\ t \in missed'
  <2>1. CASE ticket[t] # T!NoTicket
    BY <1>0, <1>1, <1>2, <1>4, <2>1 DEF DeskTypes, d
  <2>2. CASE ticket[t] = T!NoTicket
    BY <1>0, <1>1, <1>2, <2>2 DEF DeskTypes
  <2> QED BY <2>1, <2>2
<1>6. DeskTypes'
  BY <1>0, <1>1, <1>2, <1>5 DEF DeskTypes
<1>7. \A u \in Tickets :
        /\ ticket'[u].processed = ticket[u].processed /\ ticket'[u].notes = ticket[u].notes
        /\ ticket[u].status = "none" => ticket'[u] = ticket[u]
        /\ ticket[u].status # "none" => ticket'[u].status # "none"
        /\ desk[u] # "none" => desk'[u] # "none"
  <2>1. ticket[t].status = "none" => ticket[t] = T!NoTicket
    BY <1>0, <1>2 DEF Created
  <2> QED BY <1>1, <1>4, <1>5, <2>1
<1>8. failures = 0 => Told'
  <2> SUFFICES ASSUME Told, NEW u \in Tickets \ missed'
               PROVE  IF ticket'[u].status # "none" THEN Due(u)'
                      ELSE desk[u] \in {"none", "Open"} \/ InHooks(u)'
    BY <1>1 DEF DeskInv, Told
  <2>1. CASE u = t
    <3>1. ticket'[t].status = T!Ours(z) /\ ticket'[t].status # "none"
      BY <1>4, <1>5, <2>1
    <3>2. InHooks(t)' \/ Agree(ticket'[t].status, desk'[t])
      BY <1>1, <1>2, <3>1 DEF Agree
    <3> QED BY <2>1, <3>1, <3>2 DEF Due
  <2>2. CASE u # t
    <3>1. ticket'[u] = ticket[u] /\ desk'[u] = desk[u] /\ (InHooks(u) => InHooks(u)') /\ u \notin missed
      BY <1>1, <1>2, <1>5, <2>2
    <3>2. \A r \in Slots : Telling(r, u) => Telling(r, u)'
      BY <1>1, <3>1 DEF Telling
    <3>3. Due(u) => Due(u)'
      BY <3>1, <3>2 DEF Due
    <3> QED BY <3>1, <3>3 DEF Told
  <2> QED BY <2>1, <2>2
<1> QED BY <1>1, <1>2, <1>6, <1>7, <1>8, ZohoKeeps

LEMMA LapseStep == ASSUME DeskInv, T!Lapse PROVE DeskInv'
<1>1. DeskTypes /\ Awaited
  BY DEF DeskInv
<1>2. UNCHANGED <<work, refreshes, failures>> /\ Unmoved
  BY DEF T!Lapse, Unmoved
<1>3. Awaited' /\ refreshes' \in Nat /\ work' \in [Slots -> {T!Idle} \cup Chores]
  BY <1>1, <1>2 DEF Awaited, DeskTypes
<1>4. \A q \in Slots : Onward(q)
  BY <1>2 DEF Onward
<1> QED BY <1>2, <1>3, <1>4, OnwardKeeps

LEMMA DeskSteps == DeskInv /\ [T!Next]_(T!tvars) => DeskInv'
<1> SUFFICES ASSUME DeskInv, [T!Next]_(T!tvars)
             PROVE  DeskInv'
  OBVIOUS
<1>0. DeskTypes /\ Awaited
  BY DEF DeskInv
<1>1. CASE UNCHANGED T!tvars
  <2>1. UNCHANGED <<work, refreshes, failures>> /\ Unmoved
    BY <1>1 DEF T!tvars, Unmoved
  <2>2. Awaited' /\ refreshes' \in Nat /\ work' \in [Slots -> {T!Idle} \cup Chores]
    BY <1>0, <2>1 DEF Awaited, DeskTypes
  <2>3. \A q \in Slots : Onward(q)
    BY <2>1 DEF Onward
  <2> QED BY <2>1, <2>2, <2>3, OnwardKeeps
<1>2. ASSUME NEW r \in Slots, T!Save(r) \/ T!Call(r)
      PROVE  DeskInv'
  <2>1. work[r].t \in Tickets
    BY <1>0, <1>2, ChoreOf DEF T!Save, T!Call, T!At, Busy
  <2> QED BY <1>2, <2>1, SaveTicketStep, CallDeskStep
<1>3. CASE T!HandleTicketUpdate
  BY <1>3, HookStep
<1> QED
  BY <1>1, <1>2, <1>3, RequestStep, PayStep, TokenStep, RefreshedStep, ThrowsStep, LapseStep, AgentStep
     DEF T!Next

LEMMA DeskInit == T!Init => DeskInv
<1> SUFFICES ASSUME T!Init
             PROVE  DeskInv
  OBVIOUS
<1>1. /\ ticket = [t \in Tickets |-> T!NoTicket] /\ desk = [t \in Tickets |-> "none"] /\ hooks = <<>>
      /\ paid = [t \in Tickets |-> [w \in T!Ways |-> 0]] /\ comments = [t \in Tickets |-> 0]
      /\ refreshes = 0 /\ missed = {} /\ failures = 0 /\ work = [r \in Slots |-> T!Idle]
  BY DEF T!Init, T!NoHandler
<1>2. T!Idle.pc = "idle" /\ \A r \in Slots : ~Busy(r) /\ work[r].pc = "idle"
  BY <1>1 DEF T!Idle, Busy
<1>3. DeskTypes
  <2>1. hooks \in Seq(Tickets \X T!ZohoStatuses)
    BY <1>1
  <2> QED BY <1>1, <2>1, SheetOf DEF DeskTypes
<1>4. Awaited
  BY <1>1, <1>2 DEF Awaited
<1>5. Credited
  <2>1. \A t \in Tickets : ticket[t].processed # TRUE
    BY <1>1, SheetOf
  <2> QED BY <1>2, <2>1 DEF Credited
<1>6. Created
  BY <1>1, <1>2, SheetOf DEF Created
<1>7. Reported
  <2>1. DOMAIN hooks = {}
    BY <1>1
  <2> QED BY <2>1 DEF Reported
<1>8. Told
  BY <1>1, SheetOf DEF Told
<1>9. \A r \in Slots : PaidBy(r) /\ NotedBy(r)
  <2> SUFFICES ASSUME NEW r \in Slots
               PROVE  PaidBy(r) /\ NotedBy(r)
    OBVIOUS
  <2>1. PaidBy(r)
    <3>1. \A t \in Tickets, w \in T!Ways : paid[t][w] = 0
      BY <1>1
    <3>2. \A t \in Tickets, w \in T!Ways : paid[t][w] <= 1 /\ ~(paid[t][w] > 0)
      BY <3>1
    <3> QED BY <1>2, <3>2 DEF PaidBy, Calling
  <2>2. NotedBy(r)
    BY <1>1, <1>2, SheetOf DEF NotedBy, Unsaved
  <2> QED BY <2>1, <2>2
<1> QED BY <1>3, <1>4, <1>5, <1>6, <1>7, <1>8, <1>9 DEF DeskInv

LEMMA DeskInvariance == T!Spec => []DeskInv
BY DeskInit, DeskSteps, PTL DEF T!Spec

LEMMA DeskSize == ASSUME NEW S PROVE T!Cardinality(S) = Cardinality(S)
BY DEF T!Cardinality, Cardinality

LEMMA DeskAlone == ASSUME IsFiniteSet(Slots), DeskInv, T!OneAtATime PROVE Alone /\ Slots # {}
<1>1. DOMAIN work = Slots /\ Cardinality(Slots) = 1
  BY DeskSize DEF DeskInv, DeskTypes, T!OneAtATime
<1>2. PICK x : Slots = {x}
  BY <1>1, FS_Singleton
<1> QED BY <1>2 DEF Alone

\* "Ensure valid access token with mutex pattern": however many calls to Zoho
\* need a token, one request for it is under way, and whoever waits will be
\* woken by it.
THEOREM TicketRefreshedOnce == T!Spec => []T!RefreshedOnce
<1>1. DeskInv => T!RefreshedOnce
  BY DEF DeskInv, Awaited, T!RefreshedOnce, T!At
<1> QED BY <1>1, DeskInvariance, PTL

\* processRefund: a ticket never says that its refund was processed before the
\* wallet was credited; and one request at a time and without a failure no way
\* pays twice, whatever Zoho reported of the ticket in between.
THEOREM TicketPaidOnce == ASSUME IsFiniteSet(Slots) PROVE T!Spec => []T!PaidOnce
<1>1. DeskInv => T!PaidOnce
  <2> SUFFICES ASSUME DeskInv, NEW t \in Tickets
               PROVE  /\ ticket[t].processed => paid[t]["wallet"] > 0
                      /\ (T!OneAtATime /\ failures = 0) => \A w \in T!Ways : paid[t][w] <= 1
    BY DEF T!PaidOnce
  <2>1. ticket[t].processed = TRUE => paid[t]["wallet"] > 0
    BY DEF DeskInv, Credited
  <2>2. ticket[t].processed \in BOOLEAN
    BY SheetOf DEF DeskInv, DeskTypes
  <2>3. ticket[t].processed => paid[t]["wallet"] > 0
    BY <2>1, <2>2, Zenon
  <2>4. (T!OneAtATime /\ failures = 0) => \A w \in T!Ways : paid[t][w] <= 1
    <3> SUFFICES ASSUME T!OneAtATime, failures = 0
                 PROVE  \A w \in T!Ways : paid[t][w] <= 1
      OBVIOUS
    <3>1. Alone /\ Slots # {}
      BY DeskAlone
    <3>2. PICK r \in Slots : PaidBy(r)
      BY <3>1 DEF DeskInv
    <3> QED BY <3>2 DEF PaidBy
  <2> QED BY <2>3, <2>4
<1> QED BY <1>1, DeskInvariance, PTL

\* addInternalNote: one request at a time and without a failure, a ticket with
\* notes at Zoho has the first of them, whatever is saved later, and no other.
THEOREM TicketFirstNoteKept == ASSUME IsFiniteSet(Slots) PROVE T!Spec => []T!FirstNoteKept
<1>1. DeskInv => T!FirstNoteKept
  <2> SUFFICES ASSUME DeskInv, T!OneAtATime, T!Quiet, failures = 0, NEW t \in Tickets
               PROVE  ticket[t].notes = IF comments[t] = 0 THEN 0 ELSE 1
    BY DEF T!FirstNoteKept
  <2>1. Alone /\ Slots # {}
    BY DeskAlone
  <2>2. PICK r \in Slots : NotedBy(r) /\ work[r].pc = "idle"
    BY <2>1 DEF DeskInv, T!Quiet, T!At
  <2>3. (ticket[t].notes = 0 <=> comments[t] = 0) /\ ticket[t].notes \in {0, 1}
    BY <2>2, SheetOf DEF NotedBy, Unsaved, DeskInv, DeskTypes
  <2> QED BY <2>3
<1> QED BY <1>1, DeskInvariance, PTL

\* updateTicketStatus, processRefund, rejectRefund and Zoho's webhook: however
\* administrators, agents and webhooks overlap, once all is done and nothing
\* failed a ticket and its twin at Zoho have the same status.
THEOREM TicketDeskAgrees == T!Spec => []T!DeskAgrees
<1>1. DeskInv => T!DeskAgrees
  <2> SUFFICES ASSUME DeskInv, T!Quiet, hooks = <<>>, failures = 0, NEW t \in Tickets \ missed,
                      ticket[t] # T!NoTicket
               PROVE  Agree(ticket[t].status, desk[t])
    BY DEF T!DeskAgrees, T!Known, Agree
  <2>1. ticket[t].status # "none"
    BY DEF DeskInv, Created
  <2>2. Due(t)
    BY <2>1 DEF DeskInv, Told
  <2>3. ~InHooks(t)
    <3>1. DOMAIN hooks = {}
      OBVIOUS
    <3> QED BY <3>1 DEF InHooks
  <2>4. \A r \in Slots : ~Telling(r, t)
    BY DEF T!Quiet, T!At, Telling, Calling
  <2> QED BY <2>2, <2>3, <2>4 DEF Due
<1> QED BY <1>1, DeskInvariance, PTL

(***************************************************************************)
(* Theorems about Remedies for every number of remedies, answers,          *)
(* purchases and failures.  Who is about to mark a remedy found it         *)
(* unbought, and answers it if it was open then; what was answered stays   *)
(* answered, so that no interleaving leaves a bought remedy open.          *)
(***************************************************************************)
CONSTANTS Products, Manual, MaxRemedies, MaxPurchases
VARIABLES remedy, purchases, due

Y == INSTANCE Remedies

Suggestions == [user : Users, product : Products \cup {Manual},
                status : {"suggested", "accepted", "rejected"}, bought : BOOLEAN]
Answering == [pc : {"answer"}, i : Y!Ids, answer : {"accepted", "rejected"}, seen : {"suggested"}]
Marking == [pc : {"mark"}, todo : SUBSET Y!Ids, open : SUBSET Y!Ids]

RemedyTypes ==
  /\ remedy \in [Y!Ids -> Suggestions \cup {Y!NoRemedy}] /\ failures \in Nat /\ due \subseteq Y!Made
  /\ work \in [Slots -> {Y!Idle} \cup Answering \cup Marking]

\* Who marks remedies has those in hand that exist, and opened for an answer
\* those that had none.
InHand ==
  /\ \A r \in Slots : Y!At(r, "answer") => work[r].i \in Y!Made
  /\ \A r \in Slots : Y!At(r, "mark") =>
       /\ work[r].todo \subseteq Y!Made
       /\ \A i \in work[r].todo \ work[r].open : remedy[i].status # "suggested"
\* Whom a purchase is owed: marked, or about to be.
RemediesOwed ==
  failures = 0 =>
    \A i \in due : remedy[i].bought = TRUE \/ \E r \in Slots : Y!At(r, "mark") /\ i \in work[r].todo
\* One request at a time: what the handler is about to answer is open.
StillOpen ==
  Alone => \A r \in Slots :
    /\ Y!At(r, "answer") => remedy[work[r].i].status = "suggested"
    /\ Y!At(r, "mark") => \A i \in work[r].todo \cap work[r].open : remedy[i].status = "suggested"

RemedyInv == RemedyTypes /\ Y!BoughtIsAnswered /\ InHand /\ RemediesOwed /\ StillOpen

LEMMA RemedyOf ==
  ASSUME RemedyTypes, NEW i \in Y!Ids
  PROVE  /\ i \in Y!Made <=> remedy[i].status # "none"
         /\ i \in Y!Made => remedy[i] \in Suggestions
         /\ i \notin Y!Made => remedy[i] = Y!NoRemedy
<1>1. remedy[i] \in Suggestions \/ remedy[i] = Y!NoRemedy
  BY DEF RemedyTypes
<1>2. Y!NoRemedy.status = "none"
  BY DEF Y!NoRemedy
<1> QED BY <1>1, <1>2 DEF Y!Made, Y!Free, Suggestions

LEMMA RemedyWork ==
  ASSUME RemedyTypes, NEW r \in Slots
  PROVE  /\ work[r].pc \in {"idle", "answer", "mark"}
         /\ Y!At(r, "answer") => work[r] \in Answering
         /\ Y!At(r, "mark") => work[r] \in Marking
BY DEF RemedyTypes, Y!At, Y!Idle, Answering, Marking

LEMMA RemedyInit == Y!Init => RemedyInv
<1> SUFFICES ASSUME Y!Init PROVE RemedyInv
  OBVIOUS
<1>1. /\ remedy = [i \in Y!Ids |-> Y!NoRemedy] /\ due = {} /\ failures = 0
      /\ work = [r \in Slots |-> Y!Idle]
  BY DEF Y!Init, Y!NoHandler
<1>2. Y!NoRemedy.bought = FALSE /\ Y!Idle.pc = "idle"
  BY DEF Y!NoRemedy, Y!Idle
<1> QED
  BY <1>1, <1>2 DEF RemedyInv, RemedyTypes, Y!BoughtIsAnswered, InHand, RemediesOwed, StillOpen, Y!At

LEMMA Suggests ==
  ASSUME RemedyInv, NEW u \in Users, NEW p \in Products \cup {Manual}, Y!SuggestRemedy(u, p)
  PROVE  RemedyInv'
<1> DEFINE n == [user |-> u, product |-> p, status |-> "suggested", bought |-> FALSE]
<1>1. PICK i \in Y!Free : remedy' = [remedy EXCEPT ![i] = n]
  BY Zenon DEF Y!SuggestRemedy
<1>2. UNCHANGED <<due, failures, work>>
  BY DEF Y!SuggestRemedy
<1>3. i \in Y!Ids /\ i \notin Y!Made
  BY DEF Y!Free, Y!Made
<1>4. n \in Suggestions /\ n.bought = FALSE /\ n.status = "suggested"
  BY DEF Suggestions
<1> HIDE DEF n
<1>5. /\ remedy' \in [Y!Ids -> Suggestions \cup {Y!NoRemedy}] /\ remedy'[i] = n
      /\ \A j \in Y!Ids \ {i} : remedy'[j] = remedy[j]
  BY <1>1, <1>3, <1>4 DEF RemedyInv, RemedyTypes
<1>6. Y!Made \subseteq Y!Made' /\ \A j \in Y!Made : j \in Y!Ids /\ remedy'[j] = remedy[j]
  BY <1>3, <1>5 DEF Y!Made, Y!Free
<1>7. RemedyTypes'
  BY <1>2, <1>5, <1>6 DEF RemedyInv, RemedyTypes, Y!Ids
<1>8. Y!BoughtIsAnswered'
  BY <1>4, <1>5 DEF RemedyInv, Y!BoughtIsAnswered, Y!Ids
<1>9. InHand'
  BY <1>2, <1>6 DEF RemedyInv, InHand, Y!At
<1>10. RemediesOwed'
  BY <1>2, <1>6 DEF RemedyInv, RemedyTypes, RemediesOwed, Y!At
<1>11. StillOpen'
  BY <1>2, <1>6 DEF RemedyInv, InHand, StillOpen, Y!At
<1> QED BY <1>7, <1>8, <1>9, <1>10, <1>11 DEF RemedyInv

LEMMA Answers ==
  ASSUME RemedyInv, NEW r \in Slots, NEW i \in Y!Ids, NEW a \in {"accepted", "rejected"},
         Y!UpdateRemedyStatus(r, i, a)
  PROVE  RemedyInv'
<1> DEFINE h == [pc |-> "answer", i |-> i, answer |-> a, seen |-> "suggested"]
<1>1. /\ UNCHANGED <<remedy, due, failures>> /\ work' = [work EXCEPT ![r] = h]
      /\ work[r].pc = "idle" /\ remedy[i].status = "suggested"
  BY DEF Y!UpdateRemedyStatus, Y!Begin, Y!At
<1>2. h \in Answering /\ h.pc = "answer" /\ h.i = i
  BY DEF Answering
<1> HIDE DEF h
<1>3. /\ work' \in [Slots -> {Y!Idle} \cup Answering \cup Marking] /\ work'[r] = h
      /\ \A q \in Slots \ {r} : work'[q] = work[q]
  BY <1>1, <1>2 DEF RemedyInv, RemedyTypes
<1>4. Y!Made' = Y!Made /\ Y!Ids' = Y!Ids
  BY <1>1 DEF Y!Made, Y!Free, Y!Ids
<1>5. i \in Y!Made
  BY <1>1, RemedyOf DEF RemedyInv
<1>6. RemedyTypes'
  BY <1>1, <1>3, <1>4 DEF RemedyInv, RemedyTypes
<1>7. Y!BoughtIsAnswered'
  BY <1>1, <1>4 DEF RemedyInv, Y!BoughtIsAnswered
<1>8. InHand'
  BY <1>1, <1>2, <1>3, <1>4, <1>5 DEF RemedyInv, InHand, Y!At
<1>9. RemediesOwed'
  BY <1>1, <1>2, <1>3 DEF RemedyInv, RemediesOwed, Y!At
<1>10. StillOpen'
  BY <1>1, <1>2, <1>3 DEF RemedyInv, StillOpen, Y!At
<1> QED BY <1>6, <1>7, <1>8, <1>9, <1>10 DEF RemedyInv

\* A handler is done, or gives up.
LEMMA Leaves ==
  ASSUME RemedyInv, NEW r \in Slots, Y!Finish(r), UNCHANGED <<remedy, due>>,
         \/ failures' = failures + 1
         \/ UNCHANGED failures /\ Y!At(r, "mark") /\ work[r].todo = {}
  PROVE  RemedyInv'
<1>1. /\ work' \in [Slots -> {Y!Idle} \cup Answering \cup Marking] /\ work'[r].pc = "idle"
      /\ \A q \in Slots \ {r} : work'[q] = work[q]
  BY DEF Y!Finish, Y!Idle, RemedyInv, RemedyTypes
<1>2. Y!Made' = Y!Made /\ Y!Ids' = Y!Ids
  BY DEF Y!Made, Y!Free, Y!Ids
<1>3. failures \in Nat /\ failures' \in Nat
  BY DEF RemedyInv, RemedyTypes
<1>4. RemedyTypes'
  BY <1>1, <1>2, <1>3 DEF RemedyInv, RemedyTypes
<1>5. Y!BoughtIsAnswered'
  BY <1>2 DEF RemedyInv, Y!BoughtIsAnswered
<1>6. InHand'
  BY <1>1, <1>2 DEF RemedyInv, InHand, Y!At
<1>7. RemediesOwed'
  BY <1>1, <1>3 DEF RemedyInv, RemediesOwed, Y!At
<1>8. StillOpen'
  BY <1>1 DEF RemedyInv, StillOpen, Y!At
<1> QED BY <1>4, <1>5, <1>6, <1>7, <1>8 DEF RemedyInv

LEMMA NewStatus ==
  ASSUME NEW d \in Suggestions, NEW a \in {"accepted", "rejected"}, NEW b \in BOOLEAN
  PROVE  /\ [d EXCEPT !.status = a] \in Suggestions /\ [d EXCEPT !.status = a].status = a
         /\ [d EXCEPT !.status = a].bought = d.bought
BY Zenon DEF Suggestions

\* An answer is saved.
LEMMA Saves ==
  ASSUME RemedyInv, NEW r \in Slots, Y!SaveAnswer(r)
  PROVE  RemedyInv'
<1> DEFINE i == work[r].i
           e == [remedy[i] EXCEPT !.status = work[r].answer]
<1>1. /\ UNCHANGED <<due, failures>> /\ Y!At(r, "answer") /\ Y!Finish(r)
      /\ remedy' = [remedy EXCEPT ![i].status = Y!Write(work[r].seen, work[r].answer, @)]
  BY DEF Y!SaveAnswer
<1>2. /\ work[r].answer \in {"accepted", "rejected"} /\ work[r].seen = "suggested" /\ i \in Y!Ids
      /\ i \in Y!Made
  BY <1>1, RemedyWork DEF Answering, RemedyInv, InHand
<1>3. \A x : Y!Write(work[r].seen, work[r].answer, x) = work[r].answer
  BY <1>2 DEF Y!Write
<1>4. remedy' = [remedy EXCEPT ![i] = e]
  BY <1>1, <1>3, Zenon
<1>5. e \in Suggestions /\ e.status \in {"accepted", "rejected"} /\ e.bought = remedy[i].bought
  <2>1. remedy[i] \in Suggestions
    BY <1>2, RemedyOf DEF RemedyInv
  <2> QED BY <1>2, <2>1, NewStatus, Zenon
<1> HIDE DEF e, i
<1>6. /\ remedy' \in [Y!Ids -> Suggestions \cup {Y!NoRemedy}] /\ remedy'[i] = e
      /\ \A j \in Y!Ids \ {i} : remedy'[j] = remedy[j]
  BY <1>2, <1>4, <1>5 DEF RemedyInv, RemedyTypes
<1>7. Y!Made' = Y!Made
  BY <1>2, <1>5, <1>6 DEF Y!Made, Y!Free
<1>8. /\ work' \in [Slots -> {Y!Idle} \cup Answering \cup Marking] /\ work'[r].pc = "idle"
      /\ \A q \in Slots \ {r} : work'[q] = work[q]
  BY <1>1 DEF Y!Finish, Y!Idle, RemedyInv, RemedyTypes
<1>9. RemedyTypes'
  BY <1>1, <1>6, <1>7, <1>8 DEF RemedyInv, RemedyTypes, Y!Ids
<1>10. Y!BoughtIsAnswered'
  BY <1>5, <1>6 DEF RemedyInv, Y!BoughtIsAnswered, Y!Ids
<1>11. Y!Made \subseteq Y!Ids
  BY DEF Y!Made
<1>12. InHand'
  BY <1>5, <1>6, <1>7, <1>8, <1>11 DEF RemedyInv, InHand, Y!At
<1>13. RemediesOwed'
  BY <1>1, <1>5, <1>6, <1>8, <1>11 DEF RemedyInv, RemedyTypes, RemediesOwed, Y!At
<1>14. StillOpen'
  BY <1>8 DEF StillOpen, Alone, Y!At
<1> QED BY <1>9, <1>10, <1>12, <1>13, <1>14 DEF RemedyInv

\* The shop tells of a purchase.
LEMMA Bought ==
  ASSUME RemedyInv, NEW r \in Slots, NEW p \in Products, Y!OrderCreated(r, p)
  PROVE  RemedyInv'
<1> DEFINE h == [pc |-> "mark", todo |-> Y!Unbought(p),
                 open |-> {i \in Y!Unbought(p) : remedy[i].status = "suggested"}]
<1>1. /\ UNCHANGED <<remedy, failures>> /\ work' = [work EXCEPT ![r] = h]
      /\ work[r].pc = "idle" /\ due' = due \cup Y!Unbought(p)
  BY DEF Y!OrderCreated, Y!Begin, Y!At
<1>2. Y!Unbought(p) \subseteq Y!Made /\ Y!Made \subseteq Y!Ids
  BY DEF Y!Unbought, Y!Made
<1>3. h \in Marking /\ h.pc = "mark" /\ h.todo = Y!Unbought(p)
        /\ \A i \in h.todo : i \in h.open <=> remedy[i].status = "suggested"
  BY <1>2 DEF Marking
<1> HIDE DEF h
<1>4. /\ work' \in [Slots -> {Y!Idle} \cup Answering \cup Marking] /\ work'[r] = h
      /\ \A q \in Slots \ {r} : work'[q] = work[q]
  BY <1>1, <1>3 DEF RemedyInv, RemedyTypes
<1>5. Y!Made' = Y!Made /\ Y!Ids' = Y!Ids
  BY <1>1 DEF Y!Made, Y!Free, Y!Ids
<1>6. RemedyTypes'
  BY <1>1, <1>2, <1>4, <1>5 DEF RemedyInv, RemedyTypes
<1>7. Y!BoughtIsAnswered'
  BY <1>1, <1>5 DEF RemedyInv, Y!BoughtIsAnswered
<1>8. InHand'
  BY <1>1, <1>2, <1>3, <1>4, <1>5 DEF RemedyInv, InHand, Y!At
<1>9. RemediesOwed'
  BY <1>1, <1>3, <1>4 DEF RemedyInv, RemediesOwed, Y!At
<1>10. StillOpen'
  BY <1>1, <1>3, <1>4 DEF RemedyInv, StillOpen, Y!At
<1> QED BY <1>6, <1>7, <1>8, <1>9, <1>10 DEF RemedyInv

LEMMA BoughtStatus ==
  ASSUME NEW d \in Suggestions, NEW a \in {"accepted", "rejected"}
  PROVE  /\ [d EXCEPT !.bought = TRUE, !.status = a] \in Suggestions
         /\ [d EXCEPT !.bought = TRUE, !.status = a].status = a
         /\ [d EXCEPT !.bought = TRUE, !.status = a].bought = TRUE
BY Zenon DEF Suggestions

LEMMA FewerTodo ==
  ASSUME NEW w \in Marking, NEW i
  PROVE  LET v == [w EXCEPT !.todo = @ \ {i}] IN
           v \in Marking /\ v.pc = "mark" /\ v.todo = w.todo \ {i} /\ v.open = w.open
<1> DEFINE t == w.todo \ {i}
<1>1. t \in SUBSET Y!Ids
  BY DEF Marking
<1>2. [w EXCEPT !.todo = @ \ {i}] = [w EXCEPT !.todo = t]
  BY Zenon
<1> HIDE DEF t
<1>3. LET v == [w EXCEPT !.todo = t] IN
        v \in Marking /\ v.pc = "mark" /\ v.todo = t /\ v.open = w.open
  BY <1>1, Zenon DEF Marking
<1> QED BY <1>2, <1>3, Zenon DEF t

\* What a remedy is that is marked as bought.
LEMMA MarkedRemedy ==
  ASSUME RemedyInv, NEW r \in Slots, NEW i \in Y!Ids, Y!MarkPurchased(r, i)
  PROVE  /\ i \in Y!Made /\ i \in work[r].todo /\ Y!At(r, "mark") /\ work[r] \in Marking
         /\ remedy' = [remedy EXCEPT ![i] = Y!Marked(r, i)]
         /\ Y!Marked(r, i) \in Suggestions /\ Y!Marked(r, i).bought = TRUE
         /\ Y!Marked(r, i).status \in {"accepted", "rejected"}
         /\ i \notin work[r].open => Y!Marked(r, i).status = remedy[i].status
<1>1. /\ i \in work[r].todo /\ Y!At(r, "mark") /\ remedy' = [remedy EXCEPT ![i] = Y!Marked(r, i)]
  BY DEF Y!MarkPurchased
<1>2. i \in Y!Made /\ work[r] \in Marking
  BY <1>1, RemedyWork DEF RemedyInv, InHand
<1> DEFINE a == IF i \in work[r].open THEN "accepted" ELSE remedy[i].status
<1>3. remedy[i] \in Suggestions
  BY <1>2, RemedyOf DEF RemedyInv
<1>4. a \in {"accepted", "rejected"}
  BY <1>1, <1>3 DEF RemedyInv, InHand, Suggestions
<1>5. Y!Marked(r, i) = [remedy[i] EXCEPT !.bought = TRUE, !.status = a]
  BY Zenon DEF Y!Marked
<1>6. i \notin work[r].open => a = remedy[i].status
  OBVIOUS
<1> HIDE DEF a
<1>7. Y!Marked(r, i) \in Suggestions /\ Y!Marked(r, i).bought = TRUE /\ Y!Marked(r, i).status = a
  <2> DEFINE e == [remedy[i] EXCEPT !.bought = TRUE, !.status = a]
  <2>1. e \in Suggestions /\ e.bought = TRUE /\ e.status = a
    BY <1>3, <1>4, BoughtStatus, Zenon
  <2> HIDE DEF e
  <2>2. Y!Marked(r, i) = e
    BY <1>5 DEF e
  <2> QED BY <2>1, <2>2, Zenon
<1> QED BY <1>1, <1>2, <1>4, <1>6, <1>7

\* One of them is marked.
LEMMA Marks ==
  ASSUME RemedyInv, NEW r \in Slots, NEW i \in Y!Ids, Y!MarkPurchased(r, i)
  PROVE  RemedyInv'
<1> DEFINE e == Y!Marked(r, i)
           v == [work[r] EXCEPT !.todo = @ \ {i}]
<1>1. /\ i \in Y!Made /\ i \in work[r].todo /\ Y!At(r, "mark") /\ work[r] \in Marking
      /\ remedy' = [remedy EXCEPT ![i] = e]
      /\ e \in Suggestions /\ e.bought = TRUE /\ e.status \in {"accepted", "rejected"}
  BY MarkedRemedy
<1>2. UNCHANGED <<due, failures>> /\ work' = [work EXCEPT ![r] = v]
  BY Zenon DEF Y!MarkPurchased
<1>3. v \in Marking /\ v.pc = "mark" /\ v.todo = work[r].todo \ {i} /\ v.open = work[r].open
  BY <1>1, FewerTodo, Zenon
<1> HIDE DEF e, v
<1>4. /\ remedy' \in [Y!Ids -> Suggestions \cup {Y!NoRemedy}] /\ remedy'[i] = e
      /\ \A j \in Y!Ids \ {i} : remedy'[j] = remedy[j]
  BY <1>1 DEF RemedyInv, RemedyTypes
<1>5. /\ work' \in [Slots -> {Y!Idle} \cup Answering \cup Marking] /\ work'[r] = v
      /\ \A q \in Slots \ {r} : work'[q] = work[q]
  BY <1>2, <1>3 DEF RemedyInv, RemedyTypes
<1>6. Y!Made' = Y!Made /\ Y!Made \subseteq Y!Ids
  BY <1>1, <1>4 DEF Y!Made, Y!Free
<1>7. RemedyTypes'
  BY <1>2, <1>4, <1>5, <1>6 DEF RemedyInv, RemedyTypes, Y!Ids
<1>8. Y!BoughtIsAnswered'
  BY <1>1, <1>4 DEF RemedyInv, Y!BoughtIsAnswered, Y!Ids
<1>9. InHand'
  <2>1. ASSUME NEW q \in Slots, Y!At(q, "answer")'
        PROVE  work'[q].i \in Y!Made'
    BY <1>3, <1>5, <1>6, <2>1 DEF RemedyInv, InHand, Y!At
  <2>2. ASSUME NEW q \in Slots, Y!At(q, "mark")'
        PROVE  /\ work'[q].todo \subseteq Y!Made'
               /\ \A j \in work'[q].todo \ work'[q].open : remedy'[j].status # "suggested"
    <3>1. /\ Y!At(q, "mark") /\ work'[q].todo \subseteq work[q].todo /\ work'[q].open = work[q].open
      BY <1>1, <1>3, <1>5, <2>2 DEF Y!At
    <3> QED BY <1>1, <1>4, <1>6, <3>1 DEF RemedyInv, InHand
  <2> QED BY <2>1, <2>2 DEF InHand
<1>10. RemediesOwed'
  <2>1. ASSUME failures' = 0, NEW j \in due'
        PROVE  remedy'[j].bought = TRUE \/ \E q \in Slots : Y!At(q, "mark")' /\ j \in work'[q].todo
    <3>1. CASE j = i
      BY <1>1, <1>4, <3>1
    <3>2. CASE j # i
      <4>1. j \in Y!Ids
        BY <1>2, <1>6, <2>1 DEF RemedyInv, RemedyTypes
      <4>2. remedy[j].bought = TRUE \/ \E q \in Slots : Y!At(q, "mark") /\ j \in work[q].todo
        BY <1>2, <2>1 DEF RemedyInv, RemediesOwed
      <4>3. remedy'[j] = remedy[j]
        BY <1>4, <3>2, <4>1
      <4>4. \A q \in Slots : Y!At(q, "mark") /\ j \in work[q].todo =>
              Y!At(q, "mark")' /\ j \in work'[q].todo
        BY <1>3, <1>5, <3>2 DEF Y!At
      <4> QED BY <4>2, <4>3, <4>4
    <3> QED BY <3>1, <3>2
  <2> QED BY <2>1 DEF RemediesOwed
<1>11. StillOpen'
  <2> SUFFICES ASSUME Alone, NEW q \in Slots
               PROVE  /\ ~Y!At(q, "answer")'
                      /\ \A j \in work'[q].todo \cap work'[q].open : remedy'[j].status = "suggested"
    BY DEF StillOpen, Alone
  <2>1. q = r
    BY DEF Alone
  <2>2. \A j \in work[r].todo \cap work[r].open : remedy[j].status = "suggested"
    BY <1>1 DEF RemedyInv, StillOpen
  <2>3. work[r].todo \subseteq Y!Ids
    BY <1>1 DEF Marking
  <2> QED BY <1>3, <1>4, <1>5, <2>1, <2>2, <2>3 DEF Y!At
<1> QED BY <1>7, <1>8, <1>9, <1>10, <1>11 DEF RemedyInv

LEMMA RemedyStep == RemedyInv /\ [Y!Next]_(Y!yvars) => RemedyInv'
<1> SUFFICES ASSUME RemedyInv, [Y!Next]_(Y!yvars) PROVE RemedyInv'
  OBVIOUS
<1>1. CASE UNCHANGED Y!yvars
  <2>1. UNCHANGED <<remedy, due, failures, work>>
    BY <1>1 DEF Y!yvars
  <2>2. Y!Made' = Y!Made /\ Y!Ids' = Y!Ids
    BY <2>1 DEF Y!Made, Y!Free, Y!Ids
  <2> QED
    BY <2>1, <2>2 DEF RemedyInv, RemedyTypes, Y!BoughtIsAnswered, InHand, RemediesOwed, StillOpen, Y!At
<1>2. ASSUME NEW u \in Users, NEW p \in Products \cup {Manual}, Y!SuggestRemedy(u, p)
      PROVE  RemedyInv'
  BY <1>2, Suggests
<1>3. ASSUME NEW r \in Slots, NEW i \in Y!Ids, Y!MarkPurchased(r, i)
      PROVE  RemedyInv'
  BY <1>3, Marks
<1>4. ASSUME NEW r \in Slots, NEW i \in Y!Ids, NEW a \in {"accepted", "rejected"},
             Y!UpdateRemedyStatus(r, i, a)
      PROVE  RemedyInv'
  BY <1>4, Answers
<1>5. ASSUME NEW r \in Slots, NEW p \in Products, Y!OrderCreated(r, p)
      PROVE  RemedyInv'
  BY <1>5, Bought
<1>6. ASSUME NEW r \in Slots, Y!SaveAnswer(r)
      PROVE  RemedyInv'
  BY <1>6, Saves
<1>7. ASSUME NEW r \in Slots, Y!Delivered(r) \/ Y!Fails(r)
      PROVE  RemedyInv'
  BY <1>7, Leaves DEF Y!Delivered, Y!Fails
<1> QED BY <1>1, <1>2, <1>3, <1>4, <1>5, <1>6, <1>7 DEF Y!Next

LEMMA RemedyInvariance == Y!Spec => []RemedyInv
BY RemedyInit, RemedyStep, PTL DEF Y!Spec

\* updateRemedyStatus and markAsPurchased, however they overlap: what was
\* bought does not wait for an answer.
THEOREM RemedyAnswered == Y!Spec => []Y!BoughtIsAnswered
<1>1. RemedyInv => Y!BoughtIsAnswered
  BY DEF RemedyInv
<1> QED BY <1>1, RemedyInvariance, PTL

\* markAsPurchased: when all is done and no webhook failed, every remedy that
\* waited for a purchase is marked.
THEOREM RemedyIsMarked == Y!Spec => []Y!PurchaseIsMarked
<1>1. RemedyInv => Y!PurchaseIsMarked
  BY DEF RemedyInv, RemediesOwed, Y!PurchaseIsMarked, Y!Quiet, Y!At
<1> QED BY <1>1, RemedyInvariance, PTL

LEMMA RemedySize == \A x : Y!Cardinality(x) = Cardinality(x)
BY DEF Y!Cardinality, Cardinality

\* "Remedy not found or already responded": one request at a time, whatever
\* the user or the shop does next, an answer is not taken back.
THEOREM RemedyAnswerStands == ASSUME IsFiniteSet(Slots) PROVE Y!Spec => Y!AnswerStands
<1>1. ASSUME RemedyInv, [Y!Next]_(Y!yvars)
      PROVE  [Y!AnswerStays]_remedy
  <2> SUFFICES ASSUME Y!OneAtATime, remedy' # remedy, NEW i \in Y!Made, remedy[i].status # "suggested"
               PROVE  remedy'[i].status = remedy[i].status
    BY DEF Y!AnswerStays
  <2>1. Alone
    <3>1. DOMAIN work = Slots /\ Cardinality(Slots) = 1
      BY <1>1, RemedySize DEF RemedyInv, RemedyTypes, Y!OneAtATime
    <3>2. PICK x : Slots = {x}
      BY <3>1, FS_Singleton
    <3> QED BY <3>2 DEF Alone
  <2>2. i \in Y!Ids /\ i \notin Y!Free
    BY DEF Y!Made
  <2>3. ASSUME NEW u \in Users, NEW p \in Products \cup {Manual}, Y!SuggestRemedy(u, p)
        PROVE  remedy'[i] = remedy[i]
    BY <1>1, <2>2, <2>3 DEF Y!SuggestRemedy, RemedyInv, RemedyTypes
  <2>4. ASSUME NEW r \in Slots, NEW j \in Y!Ids, Y!MarkPurchased(r, j)
        PROVE  remedy'[i].status = remedy[i].status
    <3>1. /\ j \in work[r].todo /\ Y!At(r, "mark") /\ remedy' = [remedy EXCEPT ![j] = Y!Marked(r, j)]
          /\ j \notin work[r].open => Y!Marked(r, j).status = remedy[j].status
      BY <1>1, <2>4, MarkedRemedy
    <3>2. j \in work[r].open => remedy[j].status = "suggested"
      BY <1>1, <2>1, <3>1 DEF RemedyInv, StillOpen
    <3> QED BY <1>1, <2>2, <3>1, <3>2 DEF RemedyInv, RemedyTypes
  <2>5. ASSUME NEW r \in Slots, Y!SaveAnswer(r)
        PROVE  remedy'[i] = remedy[i]
    <3>1. i # work[r].i
      BY <1>1, <2>1, <2>5 DEF Y!SaveAnswer, RemedyInv, StillOpen
    <3> QED BY <1>1, <2>2, <2>5, <3>1 DEF Y!SaveAnswer, RemedyInv, RemedyTypes
  <2> QED
    BY <1>1, <2>3, <2>4, <2>5 DEF Y!Next, Y!yvars, Y!UpdateRemedyStatus, Y!OrderCreated, Y!Delivered,
                                 Y!Fails
<1> QED BY <1>1, RemedyInvariance, PTL DEF Y!Spec, Y!AnswerStands

(***************************************************************************)
(* Theorems about Matrimony for every number of users, orders, requests    *)
(* and failures.  A match that is not counted yet has a handler that will  *)
(* count it, however the answers overlap.  One request at a time, what     *)
(* was charged is in the orders or in the handler about to put it there,   *)
(* which has read the order as it is; the same of the messages used.       *)
(***************************************************************************)
CONSTANTS Tiers, MaxOrders, MaxMessages, MaxMatches, MaxSpending
VARIABLES interest, matches, enabled, order, messages, charged, spent, answered

M == INSTANCE Matrimony

MatBounds ==
  /\ IsFiniteSet(Users) /\ IsFiniteSet(Slots) /\ Tiers \subseteq Nat /\ MaxOrders \in Nat

Packs == [status : {"none", "active", "exhausted"}, total : Nat, used : Nat, paid : Nat]
Counters == [pc : {"count"}, p : M!Pairs]
Buyers == [pc : {"order", "open"}, tier : Tiers]
Adders == [pc : {"add"}, tier : Tiers, n : M!Orders, seen : Packs]
Deducters == [pc : {"deduct"}, n : M!Orders, seen : Packs]
Recorders == [pc : {"record"}, free : BOOLEAN]
MatWork == {M!Idle} \cup Counters \cup Buyers \cup Adders \cup Deducters \cup Recorders

MatTypes ==
  /\ interest \in [M!Pairs -> {"none", "pending", "accepted", "rejected"}]
  /\ matches \in [Users -> Nat] /\ order \in [M!Orders -> Packs]
  /\ charged \in Nat /\ spent \in Nat /\ failures \in Nat /\ work \in [Slots -> MatWork]

\* The accepted interests of u, and the handlers that are about to count one.
MatchesOf(u) == {p \in M!Pairs : u \in M!Members(p) /\ interest[p] = "accepted"}
Counting(u) == {r \in Slots : M!At(r, "count") /\ u \in M!Members(work[r].p)}
Counted ==
  failures = 0 /\ answered = {} =>
    \A u \in Users : matches[u] + Cardinality(Counting(u)) = Cardinality(MatchesOf(u))

PaidOf == [n \in M!Orders |-> order[n].paid]
UsedOf == [n \in M!Orders |-> order[n].used]
Owing(w) == IF w.pc \in {"order", "open", "add"} THEN M!Price(w.tier) ELSE 0
Unrecorded(w) == IF w.pc = "record" /\ w.free = FALSE THEN 1 ELSE 0

\* What a handler has read of an order, and that the order is used up when it
\* is exhausted.
ReadAsIs ==
  \A r \in Slots : M!At(r, "add") \/ M!At(r, "deduct") =>
    work[r].seen = order[work[r].n] /\ work[r].n \in M!Usable
UsedUp ==
  \A n \in M!Orders : order[n].status = "exhausted" <=> order[n].used > 0 /\ order[n].used >= order[n].total
Paid ==
  /\ \A n \in M!Orders : order[n].paid = M!Price(order[n].total)
  /\ \A r \in Slots : /\ charged = SumFunctionOnSet(PaidOf, M!Orders) + Owing(work[r])
                      /\ spent + Unrecorded(work[r]) = SumFunctionOnSet(UsedOf, M!Orders)
Packed == Alone => ReadAsIs /\ UsedUp /\ (failures = 0 => Paid)

MatInv == MatTypes /\ Counted /\ Packed

LEMMA PacksFinite == ASSUME MatBounds PROVE IsFiniteSet(M!Orders) /\ IsFiniteSet(M!Pairs)
<1>1. IsFiniteSet(M!Orders)
  BY FS_Interval DEF M!Orders, MatBounds
<1>2. IsFiniteSet(Users \X Users)
  BY FS_Product DEF MatBounds
<1>3. M!Pairs \subseteq Users \X Users
  BY DEF M!Pairs
<1> QED BY <1>1, <1>2, <1>3, FS_Subset

LEMMA PriceNat == ASSUME MatBounds, NEW t \in Tiers PROVE M!Price(t) \in Nat /\ t \in Nat
BY DEF M!Price, MatBounds

LEMMA MatKinds ==
  ASSUME MatTypes, NEW r \in Slots
  PROVE  /\ M!At(r, "count") => work[r] \in Counters
         /\ M!At(r, "order") \/ M!At(r, "open") => work[r] \in Buyers
         /\ M!At(r, "add") => work[r] \in Adders
         /\ M!At(r, "deduct") => work[r] \in Deducters
         /\ M!At(r, "record") => work[r] \in Recorders
BY DEF MatTypes, MatWork, M!At, M!Idle, Counters, Buyers, Adders, Deducters, Recorders

\* A step of one handler.
Turns(r, w) == work' = [work EXCEPT ![r] = w]
LEMMA TurnOf ==
  ASSUME MatTypes, NEW r \in Slots, NEW w \in MatWork, Turns(r, w)
  PROVE  work' \in [Slots -> MatWork] /\ work'[r] = w /\ \A q \in Slots \ {r} : work'[q] = work[q]
BY DEF MatTypes, Turns

LEMMA IdleTurn ==
  ASSUME NEW r, M!Finish(r)
  PROVE  Turns(r, M!Idle) /\ M!Idle \in MatWork /\ M!Idle.pc = "idle"
BY DEF M!Finish, Turns, MatWork, M!Idle

\* Nobody but the handler in slot r begins or ends to count.
LEMMA CountsStay ==
  ASSUME Counted, UNCHANGED <<interest, matches, failures, answered>>,
         \A q \in Slots : M!At(q, "count") \/ M!At(q, "count")' => work'[q] = work[q]
  PROVE  Counted'
<1>1. ASSUME NEW u \in Users
      PROVE  Counting(u)' = Counting(u) /\ MatchesOf(u)' = MatchesOf(u)
  <2>1. \A q \in Slots : (M!At(q, "count") <=> M!At(q, "count")')
    BY DEF M!At
  <2> QED BY <2>1 DEF Counting, MatchesOf
<1> QED BY <1>1 DEF Counted

\* Packs are left alone.
LEMMA PacksStay ==
  ASSUME Packed, UNCHANGED <<order, charged, spent>>, failures' = failures, NEW r \in Slots,
         \A q \in Slots \ {r} : work'[q] = work[q],
         work'[r].pc \in {"idle", "count"}, work[r].pc \in {"idle", "count"}
  PROVE  Packed'
<1> SUFFICES ASSUME Alone PROVE ReadAsIs' /\ UsedUp' /\ (failures = 0 => Paid')
  BY DEF Packed, Alone
<1>1. \A q \in Slots : q = r
  BY DEF Alone
<1>2. ReadAsIs'
  BY <1>1 DEF ReadAsIs, M!At
<1>3. UsedUp'
  BY DEF Packed, UsedUp
<1>4. failures = 0 => Paid'
  <2>1. \A q \in Slots : Owing(work'[q]) = 0 /\ Unrecorded(work'[q]) = 0 /\ Owing(work[q]) = 0
          /\ Unrecorded(work[q]) = 0
    BY <1>1 DEF Owing, Unrecorded
  <2> QED BY <2>1 DEF Packed, Paid, PaidOf, UsedOf
<1> QED BY <1>2, <1>3, <1>4

LEMMA MatInit == ASSUME MatBounds, M!Init PROVE MatInv
<1>1. /\ interest = [p \in M!Pairs |-> "none"] /\ matches = [u \in Users |-> 0]
      /\ order = [n \in M!Orders |-> M!NoOrder] /\ charged = 0 /\ spent = 0 /\ failures = 0
      /\ work = [r \in Slots |-> M!Idle]
  BY DEF M!Init, M!NoHandler
<1>2. M!NoOrder \in Packs /\ M!NoOrder.paid = 0 /\ M!NoOrder.used = 0 /\ M!NoOrder.total = 0
        /\ M!NoOrder.status = "none"
  BY DEF M!NoOrder, Packs
<1>3. M!Idle.pc = "idle" /\ M!Idle \in MatWork
  BY DEF M!Idle, MatWork
<1>4. MatTypes
  BY <1>1, <1>2, <1>3 DEF MatTypes
<1>5. Counted
  <2>1. \A u \in Users : MatchesOf(u) = {} /\ Counting(u) = {}
    BY <1>1, <1>3 DEF MatchesOf, Counting, M!At
  <2> QED BY <1>1, <2>1, FS_EmptySet DEF Counted
<1>6. Packed
  <2>1. IsFiniteSet(M!Orders)
    BY PacksFinite
  <2>2. SumFunctionOnSet(PaidOf, M!Orders) = 0 /\ SumFunctionOnSet(UsedOf, M!Orders) = 0
    BY <1>1, <1>2, <2>1, SumZero DEF PaidOf, UsedOf
  <2>3. \A r \in Slots : Owing(work[r]) = 0 /\ Unrecorded(work[r]) = 0
    BY <1>1, <1>3 DEF Owing, Unrecorded
  <2>4. Paid
    BY <1>1, <1>2, <2>2, <2>3 DEF Paid, M!Price
  <2> QED BY <1>1, <1>2, <1>3, <2>4 DEF Packed, ReadAsIs, UsedUp, M!At
<1> QED BY <1>4, <1>5, <1>6 DEF MatInv

----------------
LEMMA Sends ==
  ASSUME MatBounds, MatInv, NEW p \in M!Pairs, M!SendInterest(p)
  PROVE  MatInv'
<1>1. /\ UNCHANGED <<matches, order, charged, spent, answered, failures, work>>
      /\ interest[p] = "none" /\ interest' = [interest EXCEPT ![p] = "pending"]
  BY DEF M!SendInterest
<1>2. MatTypes'
  BY <1>1 DEF MatInv, MatTypes
<1>3. \A u \in Users : MatchesOf(u)' = MatchesOf(u) /\ Counting(u)' = Counting(u)
  BY <1>1 DEF MatInv, MatTypes, MatchesOf, Counting, M!At
<1>4. Counted'
  BY <1>1, <1>3 DEF MatInv, Counted
<1>5. Packed'
  BY <1>1 DEF MatInv, Packed, ReadAsIs, UsedUp, Paid, PaidOf, UsedOf, M!At, M!Usable, Alone
<1> QED BY <1>2, <1>4, <1>5 DEF MatInv

\* handleInterestResponse: an answer that makes a match leaves one to count.
LEMMA Responds ==
  ASSUME MatBounds, MatInv, NEW r \in Slots, NEW p \in M!Pairs, NEW a \in {"accepted", "rejected"},
         M!Respond(r, p, a)
  PROVE  MatInv'
<1> DEFINE w == [pc |-> "count", p |-> p]
<1>1. /\ UNCHANGED <<matches, order, charged, spent, failures>>
      /\ interest' = [interest EXCEPT ![p] = a] /\ work[r].pc = "idle"
      /\ answered' = IF interest[p] = "accepted" THEN answered \cup {p} ELSE answered
      /\ IF a = "accepted" THEN Turns(r, w) ELSE UNCHANGED work
  BY DEF M!Respond, M!Begin, M!At, Turns
<1>2. w \in MatWork /\ w.pc = "count" /\ w.p = p
  BY DEF MatWork, Counters
<1> HIDE DEF w
<1>3. /\ work' \in [Slots -> MatWork] /\ \A q \in Slots \ {r} : work'[q] = work[q]
      /\ a = "accepted" => work'[r] = w
      /\ a # "accepted" => work' = work
  BY <1>1, <1>2, TurnOf DEF MatInv, MatTypes
<1>4. MatTypes'
  BY <1>1, <1>3 DEF MatInv, MatTypes
<1>5. Packed'
  BY <1>1, <1>2, <1>3, PacksStay DEF MatInv
<1>6. ASSUME failures' = 0, answered' = {}, NEW u \in Users
      PROVE  matches'[u] + Cardinality(Counting(u)') = Cardinality(MatchesOf(u)')
  <2>1. interest[p] # "accepted" /\ answered = {}
    BY <1>1, <1>6
  <2>2. matches[u] + Cardinality(Counting(u)) = Cardinality(MatchesOf(u)) /\ matches[u] \in Nat
    BY <1>1, <1>6, <2>1 DEF MatInv, Counted, MatTypes
  <2>3. IsFiniteSet(Counting(u)) /\ IsFiniteSet(MatchesOf(u))
    BY PacksFinite, FS_Subset DEF Counting, MatchesOf, MatBounds
  <2>4. p \notin MatchesOf(u) /\ r \notin Counting(u)
    BY <1>1, <2>1 DEF MatchesOf, Counting, M!At
  <2>5. CASE a = "accepted" /\ u \in M!Members(p)
    <3>1. MatchesOf(u)' = MatchesOf(u) \cup {p}
      BY <1>1, <2>5 DEF MatInv, MatTypes, MatchesOf
    <3>2. Counting(u)' = Counting(u) \cup {r}
      BY <1>2, <1>3, <2>5 DEF Counting, M!At
    <3>3. /\ Cardinality(MatchesOf(u)') = Cardinality(MatchesOf(u)) + 1
          /\ Cardinality(Counting(u)') = Cardinality(Counting(u)) + 1
      BY <2>3, <2>4, <3>1, <3>2, FS_AddElement
    <3>4. Cardinality(Counting(u)) \in Nat /\ Cardinality(MatchesOf(u)) \in Nat
      BY <2>3, FS_CardinalityType
    <3> QED BY <1>1, <2>2, <3>3, <3>4
  <2>6. CASE ~(a = "accepted" /\ u \in M!Members(p))
    <3>1. MatchesOf(u)' = MatchesOf(u)
      BY <1>1, <2>1, <2>6 DEF MatInv, MatTypes, MatchesOf
    <3>2. Counting(u)' = Counting(u)
      BY <1>1, <1>2, <1>3, <2>6 DEF Counting, M!At
    <3> QED BY <1>1, <2>2, <3>1, <3>2
  <2> QED BY <2>5, <2>6
<1> QED BY <1>4, <1>5, <1>6 DEF MatInv, Counted

LEMMA Counts ==
  ASSUME MatBounds, MatInv, NEW r \in Slots, M!CountMatch(r)
  PROVE  MatInv'
<1>1. /\ UNCHANGED <<interest, order, charged, spent, answered, failures>>
      /\ M!At(r, "count") /\ M!Finish(r)
      /\ matches' = [u \in Users |-> matches[u] + IF u \in M!Members(work[r].p) THEN 1 ELSE 0]
  BY DEF M!CountMatch
<1>2. /\ work' \in [Slots -> MatWork] /\ work'[r].pc = "idle"
      /\ \A q \in Slots \ {r} : work'[q] = work[q]
  BY <1>1, IdleTurn, TurnOf DEF MatInv
<1>3. MatTypes'
  BY <1>1, <1>2 DEF MatInv, MatTypes
<1>4. Packed'
  BY <1>1, <1>2, PacksStay DEF MatInv, M!At
<1>5. ASSUME failures' = 0, answered' = {}, NEW u \in Users
      PROVE  matches'[u] + Cardinality(Counting(u)') = Cardinality(MatchesOf(u)')
  <2>1. matches[u] + Cardinality(Counting(u)) = Cardinality(MatchesOf(u)) /\ matches[u] \in Nat
    BY <1>1, <1>5 DEF MatInv, Counted, MatTypes
  <2>2. IsFiniteSet(Counting(u)) /\ IsFiniteSet(MatchesOf(u))
    BY PacksFinite, FS_Subset DEF Counting, MatchesOf, MatBounds
  <2>3. MatchesOf(u)' = MatchesOf(u)
    BY <1>1 DEF MatchesOf
  <2>4. Counting(u)' = Counting(u) \ {r}
    BY <1>2 DEF Counting, M!At
  <2>5. r \in Counting(u) <=> u \in M!Members(work[r].p)
    BY <1>1 DEF Counting
  <2>6. Cardinality(Counting(u)) \in Nat /\ Cardinality(MatchesOf(u)) \in Nat
    BY <2>2, FS_CardinalityType
  <2>7. CASE u \in M!Members(work[r].p)
    <3>1. Cardinality(Counting(u)') = Cardinality(Counting(u)) - 1
      BY <2>2, <2>4, <2>5, <2>7, FS_RemoveElement
    <3>2. matches'[u] = matches[u] + 1
      BY <1>1, <2>7
    <3> QED BY <2>1, <2>3, <2>6, <3>1, <3>2
  <2>8. CASE u \notin M!Members(work[r].p)
    <3>1. Counting(u)' = Counting(u)
      BY <2>4, <2>5, <2>8
    <3>2. matches'[u] = matches[u]
      BY <1>1, <2>1, <2>8
    <3> QED BY <2>1, <2>3, <3>1, <3>2
  <2> QED BY <2>7, <2>8
<1> QED BY <1>3, <1>4, <1>5 DEF MatInv, Counted

\* A handler gives up.
LEMMA GivesUp ==
  ASSUME MatBounds, MatInv, NEW r \in Slots, M!Fails(r)
  PROVE  MatInv'
<1>1. /\ UNCHANGED <<interest, matches, order, charged, spent, answered>>
      /\ failures' = failures + 1 /\ M!Finish(r)
  BY DEF M!Fails
<1>2. /\ work' \in [Slots -> MatWork] /\ work'[r].pc = "idle"
      /\ \A q \in Slots \ {r} : work'[q] = work[q]
  BY <1>1, IdleTurn, TurnOf DEF MatInv
<1>3. failures' \in Nat /\ failures' # 0
  BY <1>1 DEF MatInv, MatTypes
<1>4. MatTypes'
  BY <1>1, <1>2, <1>3 DEF MatInv, MatTypes
<1>5. Packed'
  BY <1>1, <1>2, <1>3 DEF MatInv, Packed, ReadAsIs, UsedUp, M!At, M!Usable, Alone
<1> QED BY <1>3, <1>4, <1>5 DEF MatInv, Counted

----------------
LEMMA OwingNat ==
  ASSUME MatBounds, NEW w \in MatWork
  PROVE  Owing(w) \in Nat /\ Unrecorded(w) \in {0, 1}
<1>1. CASE w.pc \in {"order", "open", "add"}
  <2>1. w.tier \in Tiers
    BY <1>1 DEF MatWork, M!Idle, Counters, Buyers, Adders, Deducters, Recorders
  <2> QED BY <1>1, <2>1, PriceNat DEF Owing, Unrecorded
<1>2. CASE w.pc \notin {"order", "open", "add"}
  BY <1>2 DEF Owing, Unrecorded
<1> QED BY <1>1, <1>2

LEMMA Shifted ==
  ASSUME NEW c \in Int, NEW d \in Int, NEW x \in Int, NEW y \in Int, NEW s \in Int,
         c = s + x, d + x = c + y
  PROVE  d = s + y
OBVIOUS

LEMMA SumsInt ==
  ASSUME MatBounds, MatTypes
  PROVE  /\ SumFunctionOnSet(PaidOf, M!Orders) \in Int /\ SumFunctionOnSet(UsedOf, M!Orders) \in Int
         /\ IntegerOn(PaidOf, M!Orders) /\ IntegerOn(UsedOf, M!Orders)
<1>1. IntegerOn(PaidOf, M!Orders) /\ IntegerOn(UsedOf, M!Orders)
  BY DEF MatTypes, Packs, PaidOf, UsedOf, IntegerOn
<1> QED BY <1>1, PacksFinite, SumSplit

\* A handler of a purchase or of a message goes on, and the orders stay.
LEMMA PacksTurn ==
  ASSUME MatBounds, MatInv, NEW r \in Slots, NEW w \in MatWork, Turns(r, w),
         UNCHANGED <<order, failures>>, charged' \in Nat, spent' \in Nat,
         charged' + Owing(work[r]) = charged + Owing(w),
         spent' + Unrecorded(w) = spent + Unrecorded(work[r]),
         w.pc \in {"add", "deduct"} => w.seen = order[w.n] /\ w.n \in M!Usable
  PROVE  Packed'
<1> SUFFICES ASSUME Alone PROVE ReadAsIs' /\ UsedUp' /\ (failures = 0 => Paid')
  BY DEF Packed, Alone
<1>1. work'[r] = w /\ \A q \in Slots : q = r
  BY TurnOf DEF Alone, MatInv
<1>2. M!Usable' = M!Usable /\ PaidOf' = PaidOf /\ UsedOf' = UsedOf
  BY DEF M!Usable, PaidOf, UsedOf
<1>3. ReadAsIs'
  BY <1>1, <1>2 DEF ReadAsIs, M!At
<1>4. UsedUp'
  BY DEF MatInv, Packed, UsedUp
<1>5. ASSUME failures = 0
      PROVE  Paid'
  <2>1. Paid
    BY <1>5 DEF MatInv, Packed
  <2>2. /\ Owing(work[r]) \in Nat /\ Owing(w) \in Nat
        /\ Unrecorded(work[r]) \in Int /\ Unrecorded(w) \in Int
    <3>1. work[r] \in MatWork
      BY DEF MatInv, MatTypes
    <3> QED BY <3>1, OwingNat
  <2>3. charged \in Nat /\ spent \in Nat
    BY DEF MatInv, MatTypes
  <2>4. /\ charged = SumFunctionOnSet(PaidOf, M!Orders) + Owing(work[r])
        /\ spent + Unrecorded(work[r]) = SumFunctionOnSet(UsedOf, M!Orders)
    BY <2>1 DEF Paid
  <2>5. SumFunctionOnSet(PaidOf, M!Orders) \in Int
    BY SumsInt DEF MatInv
  <2>6. charged' = SumFunctionOnSet(PaidOf, M!Orders) + Owing(w)
    <3> DEFINE s == SumFunctionOnSet(PaidOf, M!Orders)
               x == Owing(work[r])
               y == Owing(w)
    <3>1. s \in Int /\ x \in Int /\ y \in Int /\ charged \in Int /\ charged' \in Int
      BY <2>2, <2>3, <2>5
    <3>2. charged = s + x /\ charged' + x = charged + y
      BY <2>4
    <3> HIDE DEF s, x, y
    <3>3. PICK c \in Int, d \in Int : c = charged /\ d = charged'
      BY <3>1
    <3>4. c = s + x /\ d + x = c + y
      BY <3>2, <3>3
    <3>5. d = s + y
      BY <3>1, <3>4, Shifted
    <3> QED BY <3>3, <3>5 DEF s, y
  <2>7. spent' + Unrecorded(w) = SumFunctionOnSet(UsedOf, M!Orders)
    BY <2>4
  <2> QED BY <1>1, <1>2, <2>1, <2>6, <2>7 DEF Paid
<1> QED BY <1>3, <1>4, <1>5

\* An order changes: what was owed is put there, or a message is used.
LEMMA PacksChange ==
  ASSUME MatBounds, MatInv, NEW r \in Slots, NEW w \in MatWork, Turns(r, w), Alone, MatTypes',
         NEW n \in M!Orders, NEW e \in Packs, order' = [order EXCEPT ![n] = e],
         UNCHANGED <<charged, spent, failures>>,
         w.pc \notin {"add", "deduct"}, Owing(w) = 0, Unrecorded(work[r]) = 0,
         e.status = "exhausted" <=> e.used > 0 /\ e.used >= e.total,
         failures = 0 => /\ e.paid = M!Price(e.total)
                         /\ e.paid = order[n].paid + Owing(work[r])
                         /\ e.used = order[n].used + Unrecorded(w)
  PROVE  Packed'
<1>1. work'[r] = w /\ \A q \in Slots : q = r
  BY TurnOf DEF Alone, MatInv
<1>2. order'[n] = e /\ \A m \in M!Orders \ {n} : order'[m] = order[m]
  BY DEF MatInv, MatTypes
<1>3. ReadAsIs' /\ UsedUp'
  <2>1. ReadAsIs'
    BY <1>1 DEF ReadAsIs, M!At
  <2>2. UsedUp'
    BY <1>2 DEF MatInv, Packed, UsedUp
  <2> QED BY <2>1, <2>2
<1>4. ASSUME failures = 0
      PROVE  Paid'
  <2>1. Paid
    BY <1>4 DEF MatInv, Packed
  <2>2. \A m \in M!Orders : order'[m].paid = M!Price(order'[m].total)
    BY <1>2, <1>4, <2>1 DEF Paid
  <2>3. /\ charged = SumFunctionOnSet(PaidOf, M!Orders) + Owing(work[r])
        /\ spent + 0 = SumFunctionOnSet(UsedOf, M!Orders)
    BY <2>1 DEF Paid
  <2>4. /\ IntegerOn(PaidOf, M!Orders) /\ IntegerOn(UsedOf, M!Orders)
        /\ SumFunctionOnSet(PaidOf, M!Orders) \in Int /\ SumFunctionOnSet(UsedOf, M!Orders) \in Int
    BY SumsInt DEF MatInv
  <2>5. IntegerOn(PaidOf', M!Orders) /\ IntegerOn(UsedOf', M!Orders)
    BY DEF MatTypes, Packs, PaidOf, UsedOf, IntegerOn
  <2>6. \A m \in M!Orders \ {n} : PaidOf'[m] = PaidOf[m] /\ UsedOf'[m] = UsedOf[m]
    BY <1>2 DEF PaidOf, UsedOf
  <2>7. /\ PaidOf'[n] = e.paid /\ PaidOf[n] = order[n].paid
        /\ UsedOf'[n] = e.used /\ UsedOf[n] = order[n].used
    BY <1>2 DEF PaidOf, UsedOf
  <2>8. /\ SumFunctionOnSet(PaidOf', M!Orders) = SumFunctionOnSet(PaidOf, M!Orders) + e.paid - order[n].paid
        /\ SumFunctionOnSet(UsedOf', M!Orders) = SumFunctionOnSet(UsedOf, M!Orders) + e.used - order[n].used
    <3>1. IsFiniteSet(M!Orders)
      BY PacksFinite
    <3>2. SumFunctionOnSet(PaidOf', M!Orders) = SumFunctionOnSet(PaidOf, M!Orders) + PaidOf'[n] - PaidOf[n]
      BY <2>4, <2>5, <2>6, <3>1, SumChange
    <3>3. SumFunctionOnSet(UsedOf', M!Orders) = SumFunctionOnSet(UsedOf, M!Orders) + UsedOf'[n] - UsedOf[n]
      BY <2>4, <2>5, <2>6, <3>1, SumChange
    <3> QED BY <2>7, <3>2, <3>3
  <2>9. /\ Owing(work[r]) \in Int /\ Unrecorded(w) \in Int /\ charged \in Int /\ spent \in Int
        /\ order[n].paid \in Int /\ order[n].used \in Int
    <3>1. work[r] \in MatWork /\ order[n] \in Packs /\ charged \in Nat /\ spent \in Nat
      BY DEF MatInv, MatTypes
    <3> QED BY <3>1, OwingNat DEF Packs
  <2>10. charged = SumFunctionOnSet(PaidOf', M!Orders) + 0
    <3>1. \A c, s, p, o \in Int : c = s + o => c = (s + (p + o) - p) + 0
      OBVIOUS
    <3> QED BY <1>4, <2>3, <2>4, <2>8, <2>9, <3>1
  <2>11. spent + Unrecorded(w) = SumFunctionOnSet(UsedOf', M!Orders)
    <3>1. \A c, s, u, x \in Int : c + 0 = s => c + x = s + (u + x) - u
      OBVIOUS
    <3> QED BY <1>4, <2>3, <2>4, <2>8, <2>9, <3>1
  <2> QED BY <1>1, <2>2, <2>10, <2>11 DEF Paid
<1> QED BY <1>3, <1>4 DEF Packed

LEMMA Purchases ==
  ASSUME MatBounds, MatInv, NEW r \in Slots, NEW t \in Tiers, M!Purchase(r, t)
  PROVE  MatInv'
<1> DEFINE w == [pc |-> "order", tier |-> t]
<1>1. /\ UNCHANGED <<interest, matches, order, spent, answered, failures>> /\ Turns(r, w)
      /\ charged' = charged + M!Price(t) /\ work[r].pc = "idle"
  BY DEF M!Purchase, M!Begin, M!At, Turns
<1>2. w \in MatWork /\ w.pc = "order" /\ w.tier = t
  BY DEF MatWork, Buyers
<1> HIDE DEF w
<1>3. /\ work' \in [Slots -> MatWork] /\ work'[r] = w /\ \A q \in Slots \ {r} : work'[q] = work[q]
  BY <1>1, <1>2, TurnOf DEF MatInv
<1>4. charged' \in Nat /\ spent' \in Nat /\ charged \in Nat
  BY <1>1, PriceNat DEF MatInv, MatTypes
<1>5. MatTypes'
  BY <1>1, <1>3, <1>4 DEF MatInv, MatTypes
<1>6. Counted'
  BY <1>1, <1>2, <1>3, CountsStay DEF MatInv, M!At
<1>7. Owing(work[r]) = 0 /\ Owing(w) = M!Price(t) /\ Unrecorded(work[r]) = 0 /\ Unrecorded(w) = 0
  BY <1>1, <1>2 DEF Owing, Unrecorded
<1>8. charged' + Owing(work[r]) = charged + Owing(w)
  BY <1>1, <1>4, <1>7, PriceNat
<1>9. Packed'
  BY <1>1, <1>2, <1>4, <1>7, <1>8, PacksTurn
<1> QED BY <1>5, <1>6, <1>9 DEF MatInv

\* getActiveOrder
LEMMA Finds ==
  ASSUME MatBounds, MatInv, NEW r \in Slots, M!FindOrder(r)
  PROVE  MatInv'
<1>1. /\ UNCHANGED <<interest, matches, order, charged, spent, answered, failures>> /\ M!At(r, "order")
  BY DEF M!FindOrder
<1>2. work[r] \in Buyers
  BY <1>1, MatKinds DEF MatInv
<1>3. PICK w \in MatWork : /\ Turns(r, w) /\ w.pc \in {"open", "add"} /\ w.tier = work[r].tier
                           /\ w.pc = "add" => w.n \in M!Usable /\ w.seen = order[w.n]
  <2>1. CASE M!Usable = {}
    <3> DEFINE w == [pc |-> "open", tier |-> work[r].tier]
    <3>1. Turns(r, w)
      BY <2>1 DEF M!FindOrder, Turns
    <3>2. w \in MatWork /\ w.pc = "open" /\ w.tier = work[r].tier
      BY <1>2 DEF MatWork, Buyers
    <3> HIDE DEF w
    <3> QED BY <3>1, <3>2
  <2>2. CASE M!Usable # {}
    <3>1. PICK n \in M!Usable :
            Turns(r, [pc |-> "add", tier |-> work[r].tier, n |-> n, seen |-> order[n]])
      BY <2>2 DEF M!FindOrder, Turns
    <3> DEFINE w == [pc |-> "add", tier |-> work[r].tier, n |-> n, seen |-> order[n]]
    <3>2. n \in M!Orders /\ order[n] \in Packs
      BY DEF M!Usable, MatInv, MatTypes
    <3>3. w \in MatWork /\ w.pc = "add" /\ w.tier = work[r].tier /\ w.n = n /\ w.seen = order[n]
      BY <1>2, <3>2 DEF MatWork, Adders, Buyers
    <3>4. Turns(r, w)
      BY <3>1
    <3> HIDE DEF w
    <3> QED BY <3>3, <3>4
  <2> QED BY <2>1, <2>2
<1>4. /\ work' \in [Slots -> MatWork] /\ work'[r] = w /\ \A q \in Slots \ {r} : work'[q] = work[q]
  BY <1>3, TurnOf DEF MatInv
<1>5. charged' \in Nat /\ spent' \in Nat
  BY <1>1 DEF MatInv, MatTypes
<1>6. MatTypes'
  BY <1>1, <1>4 DEF MatInv, MatTypes
<1>7. Counted'
  BY <1>1, <1>3, <1>4, CountsStay DEF MatInv, M!At
<1>8. Owing(work[r]) = Owing(w) /\ Unrecorded(work[r]) = 0 /\ Unrecorded(w) = 0
  BY <1>1, <1>3 DEF Owing, Unrecorded, M!At
<1>9. Packed'
  BY <1>1, <1>3, <1>5, <1>8, PacksTurn
<1> QED BY <1>6, <1>7, <1>9 DEF MatInv

\* The orders after a step of one handler.
LEMMA OrderTurn ==
  ASSUME MatInv, NEW r \in Slots, NEW w \in MatWork, Turns(r, w),
         NEW n \in M!Orders, NEW e \in Packs, order' = [order EXCEPT ![n] = e],
         UNCHANGED <<interest, matches, charged, spent, answered, failures>>,
         work[r].pc # "count", w.pc # "count"
  PROVE  MatTypes' /\ Counted'
<1>1. /\ work' \in [Slots -> MatWork] /\ work'[r] = w /\ \A q \in Slots \ {r} : work'[q] = work[q]
  BY TurnOf DEF MatInv
<1>2. MatTypes'
  BY <1>1 DEF MatInv, MatTypes
<1>3. Counted'
  BY <1>1, CountsStay DEF MatInv, M!At
<1> QED BY <1>2, <1>3

\* A pack is added to the order that was read.
LEMMA Adds ==
  ASSUME MatBounds, MatInv, NEW r \in Slots, M!AddPack(r)
  PROVE  MatInv'
<1> DEFINE h == work[r]
           n == h.n
           t == h.seen.total + h.tier
           m == h.seen.paid + M!Price(h.tier)
           e == [order[n] EXCEPT !.total = t, !.paid = m]
<1>1. /\ UNCHANGED <<interest, matches, charged, spent, answered, failures>> /\ M!At(r, "add")
      /\ Turns(r, M!Idle) /\ M!Idle \in MatWork /\ M!Idle.pc = "idle"
      /\ order' = [order EXCEPT ![n].total = t, ![n].paid = m]
  BY IdleTurn DEF M!AddPack
<1>2. h \in Adders /\ n \in M!Orders /\ h.tier \in Tiers /\ h.seen \in Packs
  BY <1>1, MatKinds DEF MatInv, Adders
<1>3. t \in Nat /\ m \in Nat
  BY <1>2, PriceNat DEF Packs
<1>4. order' = [order EXCEPT ![n] = e]
  BY <1>1, Zenon
<1>5. order[n] \in Packs
  BY <1>2 DEF MatInv, MatTypes
<1>6. e \in Packs /\ e.status = order[n].status /\ e.total = t /\ e.used = order[n].used /\ e.paid = m
  <2> HIDE DEF t, m, n
  <2> QED BY <1>3, <1>5, Zenon DEF Packs
<1> HIDE DEF e
<1>7. MatTypes' /\ Counted'
  BY <1>1, <1>2, <1>4, <1>6, OrderTurn DEF M!At
<1>8. ASSUME Alone
      PROVE  Packed'
  <2>1. h.seen = order[n] /\ n \in M!Usable
    BY <1>1, <1>8 DEF MatInv, Packed, ReadAsIs
  <2>2. order[n].status = "active" /\ order[n].used < order[n].total
    BY <2>1 DEF M!Usable
  <2>3. e.status # "exhausted" /\ ~(e.used >= e.total)
    <3>1. e.total = order[n].total + h.tier /\ e.used = order[n].used
      BY <1>6, <2>1
    <3>2. h.tier \in Nat /\ order[n].total \in Nat /\ order[n].used \in Nat
      BY <1>2, <1>5, PriceNat DEF Packs
    <3> QED BY <1>6, <2>2, <3>1, <3>2
  <2>4. Owing(M!Idle) = 0 /\ Unrecorded(M!Idle) = 0 /\ Unrecorded(h) = 0 /\ Owing(h) = M!Price(h.tier)
    BY <1>1 DEF Owing, Unrecorded, M!At
  <2>5. e.paid = order[n].paid + Owing(h) /\ e.used = order[n].used + Unrecorded(M!Idle)
    BY <1>5, <1>6, <2>1, <2>4 DEF Packs
  <2>6. failures = 0 => e.paid = M!Price(e.total)
    <3>1. failures = 0 => order[n].paid = M!Price(order[n].total)
      BY <1>2, <1>8 DEF MatInv, Packed, Paid
    <3>2. e.paid = order[n].paid + M!Price(h.tier) /\ e.total = order[n].total + h.tier
      BY <1>6, <2>1
    <3>3. h.tier \in Nat /\ order[n].total \in Nat
      BY <1>2, <1>5, PriceNat DEF Packs
    <3> QED BY <3>1, <3>2, <3>3 DEF M!Price
  <2> HIDE DEF h, n
  <2> QED BY <1>1, <1>2, <1>4, <1>6, <1>7, <1>8, <2>3, <2>4, <2>5, <2>6, PacksChange DEF h
<1>9. Packed'
  BY <1>8 DEF Packed, Alone
<1> QED BY <1>7, <1>9 DEF MatInv

\* An order is opened.
LEMMA Opens ==
  ASSUME MatBounds, MatInv, NEW r \in Slots, M!OpenOrder(r)
  PROVE  MatInv'
<1> DEFINE h == work[r]
           e == [status |-> "active", total |-> h.tier, used |-> 0, paid |-> M!Price(h.tier)]
<1>1. /\ UNCHANGED <<interest, matches, charged, spent, answered, failures>> /\ M!At(r, "open")
      /\ Turns(r, M!Idle) /\ M!Idle \in MatWork /\ M!Idle.pc = "idle"
  BY IdleTurn DEF M!OpenOrder
<1>2. PICK n \in M!Orders : order[n] = M!NoOrder /\ order' = [order EXCEPT ![n] = e]
  BY DEF M!OpenOrder
<1>3. h.tier \in Tiers /\ h.tier \in Nat /\ M!Price(h.tier) \in Nat
  BY <1>1, MatKinds, PriceNat DEF MatInv, Buyers
<1>4. /\ e \in Packs /\ e.status = "active" /\ e.total = h.tier /\ e.used = 0 /\ e.paid = M!Price(h.tier)
  BY <1>3 DEF Packs
<1>5. order[n].paid = 0 /\ order[n].used = 0
  BY <1>2 DEF M!NoOrder
<1> HIDE DEF e
<1>6. MatTypes' /\ Counted'
  BY <1>1, <1>2, <1>4, OrderTurn DEF M!At
<1>7. Owing(M!Idle) = 0 /\ Unrecorded(M!Idle) = 0 /\ Unrecorded(h) = 0 /\ Owing(h) = M!Price(h.tier)
  BY <1>1 DEF Owing, Unrecorded, M!At
<1>8. /\ e.paid = order[n].paid + Owing(h) /\ e.used = order[n].used + Unrecorded(M!Idle)
      /\ e.paid = M!Price(e.total) /\ (e.status = "exhausted" <=> e.used > 0 /\ e.used >= e.total)
  BY <1>3, <1>4, <1>5, <1>7
<1>9. Alone => Packed'
  BY <1>1, <1>2, <1>4, <1>6, <1>7, <1>8, PacksChange
<1>10. Packed'
  BY <1>9 DEF Packed, Alone
<1> QED BY <1>6, <1>10 DEF MatInv

LEMMA Deducts ==
  ASSUME MatBounds, MatInv, NEW r \in Slots, M!Deduct(r)
  PROVE  MatInv'
<1> DEFINE h == work[r]
           n == h.n
           u == h.seen.used + 1
           st == IF u >= h.seen.total THEN "exhausted" ELSE order[n].status
           e == [order[n] EXCEPT !.used = u, !.status = st]
           w == [pc |-> "record", free |-> FALSE]
<1>1. /\ UNCHANGED <<interest, matches, charged, spent, answered, failures>> /\ M!At(r, "deduct")
      /\ Turns(r, w)
      /\ order' = [order EXCEPT ![n].used = u, ![n].status = IF u >= h.seen.total THEN "exhausted" ELSE @]
  BY DEF M!Deduct, Turns
<1>2. h \in Deducters /\ n \in M!Orders /\ h.seen \in Packs
  BY <1>1, MatKinds DEF MatInv, Deducters
<1>3. w \in MatWork /\ w.pc = "record" /\ w.free = FALSE
  BY DEF MatWork, Recorders
<1> HIDE DEF w
<1>4. order' = [order EXCEPT ![n] = e]
  BY <1>1, Zenon
<1>5. order[n] \in Packs
  BY <1>2 DEF MatInv, MatTypes
<1>6. u \in Nat /\ st \in {"none", "active", "exhausted"}
  BY <1>2, <1>5 DEF Packs
<1>7. e \in Packs /\ e.status = st /\ e.total = order[n].total /\ e.used = u /\ e.paid = order[n].paid
  <2> HIDE DEF u, st, n
  <2> QED BY <1>5, <1>6, Zenon DEF Packs
<1> HIDE DEF e
<1>8. MatTypes' /\ Counted'
  BY <1>1, <1>2, <1>3, <1>4, <1>7, OrderTurn DEF M!At
<1>9. ASSUME Alone
      PROVE  Packed'
  <2>1. h.seen = order[n] /\ n \in M!Usable
    BY <1>1, <1>9 DEF MatInv, Packed, ReadAsIs
  <2>2. order[n].status = "active" /\ order[n].used < order[n].total
    BY <2>1 DEF M!Usable
  <2>3. order[n].used \in Nat /\ order[n].total \in Nat /\ order[n].paid \in Nat
    BY <1>5 DEF Packs
  <2>4. e.used = order[n].used + 1 /\ (e.status = "exhausted" <=> e.used >= order[n].total)
    BY <1>7, <2>1, <2>2
  <2>5. e.status = "exhausted" <=> e.used > 0 /\ e.used >= e.total
    BY <1>7, <2>3, <2>4
  <2>6. Owing(w) = 0 /\ Unrecorded(w) = 1 /\ Unrecorded(h) = 0 /\ Owing(h) = 0
    BY <1>1, <1>3 DEF Owing, Unrecorded, M!At
  <2>7. e.paid = order[n].paid + Owing(h) /\ e.used = order[n].used + Unrecorded(w)
    BY <1>7, <2>3, <2>4, <2>6
  <2>8. failures = 0 => e.paid = M!Price(e.total)
    BY <1>2, <1>7, <1>9 DEF MatInv, Packed, Paid
  <2> HIDE DEF h, n
  <2> QED BY <1>1, <1>2, <1>3, <1>4, <1>7, <1>8, <1>9, <2>5, <2>6, <2>7, <2>8, PacksChange DEF h
<1>10. Packed'
  BY <1>9 DEF Packed, Alone
<1> QED BY <1>8, <1>10 DEF MatInv

\* sendMessage takes from an order, unless the chat is free.
LEMMA Messages ==
  ASSUME MatBounds, MatInv, NEW r \in Slots, M!SendMessage(r)
  PROVE  MatInv'
<1>1. /\ UNCHANGED <<interest, matches, order, charged, spent, answered, failures>>
      /\ work[r].pc = "idle"
  BY DEF M!SendMessage, M!Begin, M!At
<1>2. PICK w \in MatWork : /\ Turns(r, w) /\ w.pc \in {"deduct", "record"}
                           /\ w.pc = "deduct" => w.n \in M!Usable /\ w.seen = order[w.n]
                           /\ w.pc = "record" => w.free = TRUE
  <2>1. CASE enabled
    <3>1. PICK n \in M!Usable : Turns(r, [pc |-> "deduct", n |-> n, seen |-> order[n]])
      BY <2>1 DEF M!SendMessage, M!Begin, Turns
    <3> DEFINE w == [pc |-> "deduct", n |-> n, seen |-> order[n]]
    <3>2. n \in M!Orders /\ order[n] \in Packs
      BY DEF M!Usable, MatInv, MatTypes
    <3>3. w \in MatWork /\ w.pc = "deduct" /\ w.n = n /\ w.seen = order[n]
      BY <3>2 DEF MatWork, Deducters
    <3>4. Turns(r, w)
      BY <3>1
    <3> HIDE DEF w
    <3> QED BY <3>3, <3>4
  <2>2. CASE ~enabled
    <3> DEFINE w == [pc |-> "record", free |-> TRUE]
    <3>1. Turns(r, w)
      BY <2>2 DEF M!SendMessage, M!Begin, Turns
    <3>2. w \in MatWork /\ w.pc = "record" /\ w.free = TRUE
      BY DEF MatWork, Recorders
    <3> HIDE DEF w
    <3> QED BY <3>1, <3>2
  <2> QED BY <2>1, <2>2
<1>3. /\ work' \in [Slots -> MatWork] /\ work'[r] = w /\ \A q \in Slots \ {r} : work'[q] = work[q]
  BY <1>2, TurnOf DEF MatInv
<1>4. charged' \in Nat /\ spent' \in Nat
  BY <1>1 DEF MatInv, MatTypes
<1>5. MatTypes'
  BY <1>1, <1>3 DEF MatInv, MatTypes
<1>6. Counted'
  BY <1>1, <1>2, <1>3, CountsStay DEF MatInv, M!At
<1>7. Owing(work[r]) = 0 /\ Owing(w) = 0 /\ Unrecorded(work[r]) = 0 /\ Unrecorded(w) = 0
  BY <1>1, <1>2 DEF Owing, Unrecorded
<1>8. Packed'
  BY <1>1, <1>2, <1>4, <1>7, PacksTurn
<1> QED BY <1>5, <1>6, <1>8 DEF MatInv

LEMMA Records ==
  ASSUME MatBounds, MatInv, NEW r \in Slots, M!Record(r)
  PROVE  MatInv'
<1>1. /\ UNCHANGED <<interest, matches, order, charged, answered, failures>>
      /\ M!At(r, "record") /\ Turns(r, M!Idle) /\ M!Idle \in MatWork /\ M!Idle.pc = "idle"
      /\ spent' = IF work[r].free THEN spent ELSE spent + 1
  BY IdleTurn DEF M!Record
<1>2. /\ work' \in [Slots -> MatWork] /\ work'[r] = M!Idle
      /\ \A q \in Slots \ {r} : work'[q] = work[q]
  BY <1>1, TurnOf DEF MatInv
<1>3. work[r].free \in BOOLEAN /\ spent \in Nat /\ charged' \in Nat /\ spent' \in Nat
  BY <1>1, MatKinds DEF MatInv, MatTypes, Recorders
<1>4. MatTypes'
  BY <1>1, <1>2, <1>3 DEF MatInv, MatTypes
<1>5. Counted'
  BY <1>1, <1>2, CountsStay DEF MatInv, M!At
<1>6. Owing(work[r]) = 0 /\ Owing(M!Idle) = 0 /\ Unrecorded(M!Idle) = 0
      /\ spent' + 0 = spent + Unrecorded(work[r])
  BY <1>1, <1>3 DEF Owing, Unrecorded, M!At
<1>7. Packed'
  BY <1>1, <1>3, <1>6, PacksTurn
<1> QED BY <1>4, <1>5, <1>7 DEF MatInv

LEMMA MatStutter ==
  ASSUME MatInv, UNCHANGED <<interest, matches, order, charged, spent, answered, failures, work>>
  PROVE  MatInv'
BY DEF MatInv, MatTypes, Counted, Counting, MatchesOf, Packed, ReadAsIs, UsedUp, Paid, PaidOf, UsedOf, M!At,
       M!Usable, Alone

LEMMA MatStep == ASSUME MatBounds PROVE MatInv /\ [M!Next]_(M!mvars) => MatInv'
<1> SUFFICES ASSUME MatInv, [M!Next]_(M!mvars) PROVE MatInv'
  OBVIOUS
<1>1. CASE UNCHANGED M!mvars \/ M!UpdateChatSettings
  BY <1>1, MatStutter DEF M!mvars, M!UpdateChatSettings
<1>2. ASSUME NEW p \in M!Pairs, M!SendInterest(p)
      PROVE  MatInv'
  BY <1>2, Sends
<1>3. ASSUME NEW r \in Slots, NEW p \in M!Pairs, NEW a \in {"accepted", "rejected"}, M!Respond(r, p, a)
      PROVE  MatInv'
  BY <1>3, Responds
<1>4. ASSUME NEW r \in Slots, NEW t \in Tiers, M!Purchase(r, t)
      PROVE  MatInv'
  BY <1>4, Purchases
<1>5. ASSUME NEW r \in Slots,
             \/ M!CountMatch(r) \/ M!FindOrder(r) \/ M!AddPack(r) \/ M!OpenOrder(r) \/ M!SendMessage(r)
             \/ M!Deduct(r) \/ M!Record(r) \/ M!Fails(r)
      PROVE  MatInv'
  BY <1>5, Counts, Finds, Adds, Opens, Messages, Deducts, Records, GivesUp
<1> QED BY <1>1, <1>2, <1>3, <1>4, <1>5 DEF M!Next, M!ProfileRequests, M!ChatRequests

LEMMA MatInvariance == ASSUME MatBounds PROVE M!Spec => []MatInv
<1>1. M!Init => MatInv
  BY MatInit
<1>2. MatInv /\ [M!Next]_(M!mvars) => MatInv'
  BY MatStep
<1> QED BY <1>1, <1>2, PTL DEF M!Spec

----------------
LEMMA MatSize == ASSUME NEW S PROVE M!Cardinality(S) = Cardinality(S)
BY DEF M!Cardinality, Cardinality

LEMMA MatAlone == ASSUME MatBounds, MatInv, M!OneAtATime PROVE Alone /\ Slots # {}
<1>1. DOMAIN work = Slots /\ Cardinality(Slots) = 1
  BY MatSize DEF MatInv, MatTypes, M!OneAtATime
<1>2. PICK x : Slots = {x}
  BY <1>1, FS_Singleton DEF MatBounds
<1> QED BY <1>2 DEF Alone

\* The sums that the library makes over the orders are those of functions.
LEMMA PaidSum ==
  ASSUME IsFiniteSet(M!Orders)
  PROVE  M!SumOf(LAMBDA n : order[n].paid) = SumFunctionOnSet(PaidOf, M!Orders)
<1> DEFINE Chosen(g) ==
      g = [D \in SUBSET M!Orders |-> IF D = {} THEN 0 ELSE order[Picked(D)].paid + g[D \ {Picked(D)}]]
<1>1. M!SumOf(LAMBDA n : order[n].paid) = (CHOOSE g : Chosen(g))[M!Orders]
  BY DEF M!SumOf, M!MapThenSumSet, M!MapThenFoldSet, MapThenSumSet, MapThenFoldSet, Picked
<1>2. \A g : Chosen(g) <=> Sums(PaidOf, M!Orders, g)
  <2>1. \A D \in SUBSET M!Orders : D # {} => PaidOf[Picked(D)] = order[Picked(D)].paid
    BY PickedIn DEF PaidOf
  <2> QED BY <2>1 DEF Sums
<1>3. PICK g : Sums(PaidOf, M!Orders, g)
  BY SumsExist
<1> HIDE DEF Chosen
<1>4. Chosen(CHOOSE h : Chosen(h))
  BY <1>2, <1>3
<1> QED BY <1>1, <1>2, <1>4, FoldSums

LEMMA UsedSum ==
  ASSUME IsFiniteSet(M!Orders)
  PROVE  M!SumOf(LAMBDA n : order[n].used) = SumFunctionOnSet(UsedOf, M!Orders)
<1> DEFINE Chosen(g) ==
      g = [D \in SUBSET M!Orders |-> IF D = {} THEN 0 ELSE order[Picked(D)].used + g[D \ {Picked(D)}]]
<1>1. M!SumOf(LAMBDA n : order[n].used) = (CHOOSE g : Chosen(g))[M!Orders]
  BY DEF M!SumOf, M!MapThenSumSet, M!MapThenFoldSet, MapThenSumSet, MapThenFoldSet, Picked
<1>2. \A g : Chosen(g) <=> Sums(UsedOf, M!Orders, g)
  <2>1. \A D \in SUBSET M!Orders : D # {} => UsedOf[Picked(D)] = order[Picked(D)].used
    BY PickedIn DEF UsedOf
  <2> QED BY <2>1 DEF Sums
<1>3. PICK g : Sums(UsedOf, M!Orders, g)
  BY SumsExist
<1> HIDE DEF Chosen
<1>4. Chosen(CHOOSE h : Chosen(h))
  BY <1>2, <1>3
<1> QED BY <1>1, <1>2, <1>4, FoldSums

\* "Increment Match counts first": however the answers to interests overlap,
\* when nobody is at work and none failed a profile counts its accepted
\* interests, if none of them was answered a second time.
THEOREM MatchesAreCounted == ASSUME MatBounds PROVE M!Spec => []M!MatchesCounted
<1>1. MatInv => M!MatchesCounted
  <2> SUFFICES ASSUME MatInv, failures = 0, M!Quiet, answered = {}, NEW u \in Users
               PROVE  matches[u] = Cardinality(MatchesOf(u))
    BY MatSize DEF M!MatchesCounted, MatchesOf
  <2>1. Counting(u) = {}
    BY DEF Counting, M!Quiet, M!At
  <2>2. matches[u] + Cardinality({}) = Cardinality(MatchesOf(u)) /\ matches[u] \in Nat
    BY <2>1 DEF MatInv, Counted, MatTypes
  <2> QED BY <2>2, FS_EmptySet
<1> QED BY <1>1, MatInvariance, PTL

\* "Add to existing active order if any": one request at a time, none of which
\* failed, the orders hold all that was charged for packs, at the price of their
\* messages, and every message that was paid for.
THEOREM PacksAreKept == ASSUME MatBounds PROVE M!Spec => []M!PacksAgree
<1>1. MatInv => M!PacksAgree
  <2> SUFFICES ASSUME MatInv, M!OneAtATime, failures = 0, M!Quiet
               PROVE  /\ charged = M!SumOf(LAMBDA n : order[n].paid)
                      /\ spent = M!SumOf(LAMBDA n : order[n].used)
                      /\ \A n \in M!Orders : order[n].paid = M!Price(order[n].total)
    BY DEF M!PacksAgree
  <2>1. Alone /\ Slots # {}
    BY MatAlone
  <2>2. Paid
    BY <2>1 DEF MatInv, Packed
  <2>3. PICK r \in Slots : work[r].pc = "idle"
    BY <2>1 DEF M!Quiet, M!At
  <2>4. Owing(work[r]) = 0 /\ Unrecorded(work[r]) = 0
    BY <2>3 DEF Owing, Unrecorded
  <2>5. /\ charged = SumFunctionOnSet(PaidOf, M!Orders) + 0
        /\ spent + 0 = SumFunctionOnSet(UsedOf, M!Orders)
    BY <2>2, <2>4 DEF Paid
  <2>6. SumFunctionOnSet(PaidOf, M!Orders) \in Int /\ spent \in Int
    BY SumsInt DEF MatInv, MatTypes
  <2>7. charged = SumFunctionOnSet(PaidOf, M!Orders) /\ spent = SumFunctionOnSet(UsedOf, M!Orders)
    BY <2>5, <2>6
  <2>8. \A n \in M!Orders : order[n].paid = M!Price(order[n].total)
    BY <2>2 DEF Paid
  <2> QED BY <2>7, <2>8, PaidSum, UsedSum, PacksFinite
<1> QED BY <1>1, MatInvariance, PTL

\* "status = 'exhausted'": one request at a time, and whatever fails, an order is
\* exhausted when its last message is used and not before.
THEOREM PackExhausted == ASSUME MatBounds PROVE M!Spec => []M!ExhaustedWhenUsed
<1>1. MatInv => M!ExhaustedWhenUsed
  BY MatAlone DEF MatInv, Packed, UsedUp, M!ExhaustedWhenUsed
<1> QED BY <1>1, MatInvariance, PTL

(***************************************************************************)
(* Theorems about Reviews for every number of orders, reviews and          *)
(* failures, one request at a time.  A handler that computes the rating    *)
(* has read the reviews as they are; an order with a review that is kept   *)
(* is marked or about to be, and who adds or takes back a review of an     *)
(* order finds none of it.                                                 *)
(***************************************************************************)
CONSTANTS Orders, NoOrder, MaxReviews, Stars
VARIABLES review, given, ratings, unrated, erased

Rev == INSTANCE Reviews

RevBounds == IsFiniteSet(Slots) /\ MaxReviews \in Nat /\ Stars \subseteq Nat /\ NoOrder \notin Orders

Written == [order : Orders \cup {NoOrder}, stars : Nat,
            status : {"pending", "approved", "rejected", "flagged"}, deleted : BOOLEAN]
Scores == [sum : Nat, approved : Nat, total : Nat]
Raters == [pc : {"add", "mark", "unmark", "rate", "approved", "save"}, o : Orders \cup {NoOrder}, n : Nat,
           seen : Scores, sum : Nat, approved : Nat]

RevTypes ==
  /\ review \in [Rev!Reviewed -> Written \cup {Rev!NoReview}] /\ given \subseteq Orders /\ ratings \in Scores
  /\ failures \in Nat /\ unrated \in BOOLEAN /\ erased \in BOOLEAN
  /\ work \in [Slots -> {Rev!Idle} \cup Raters]
  /\ \A r \in Slots : work[r].pc \in {"add", "mark", "unmark"} => work[r].o \in Orders

\* The rating is that of the reviews; of a handler that computes it, its copy.
StarsAt == [i \in Rev!Reviewed |-> review[i].stars]
Rated ==
  /\ ratings.sum = SumFunctionOnSet(StarsAt, Rev!Approved) /\ ratings.approved = Cardinality(Rev!Approved)
  /\ ratings.approved <= ratings.total
Computing ==
  \A r \in Slots :
    /\ work[r].pc \in {"approved", "save"} => work[r].seen = ratings
    /\ work[r].pc = "save" => /\ work[r].sum = SumFunctionOnSet(StarsAt, Rev!Approved)
                              /\ work[r].approved = Cardinality(Rev!Approved)

\* The review that is kept of an order.
Sole ==
  /\ \A i, j \in Rev!Kept : review[i].order = review[j].order /\ review[i].order # NoOrder => i = j
  /\ \A i \in Rev!Kept : review[i].order # NoOrder =>
       review[i].order \in given \/ \E r \in Slots : work[r].pc = "mark" /\ work[r].o = review[i].order
  /\ \A r \in Slots : work[r].pc \in {"add", "unmark"} => \A i \in Rev!Kept : review[i].order # work[r].o

RevInv ==
  /\ RevTypes
  /\ Alone => /\ unrated = FALSE => Rated
              /\ Computing
              /\ failures = 0 /\ erased = FALSE => Sole

LEMMA ReviewsFinite ==
  ASSUME RevBounds
  PROVE  IsFiniteSet(Rev!Reviewed) /\ IsFiniteSet(Rev!Kept) /\ IsFiniteSet(Rev!Approved)
<1>1. IsFiniteSet(Rev!Reviewed)
  BY FS_Interval DEF Rev!Reviewed, RevBounds
<1>2. Rev!Kept \subseteq Rev!Reviewed /\ Rev!Approved \subseteq Rev!Reviewed
  BY DEF Rev!Kept, Rev!Approved
<1> QED BY <1>1, <1>2, FS_Subset

LEMMA KeptIs ==
  ASSUME RevTypes, NEW i \in Rev!Reviewed
  PROVE  /\ Rev!Exists(i) <=> review[i] \in Written
         /\ i \in Rev!Kept <=> review[i] \in Written /\ review[i].deleted = FALSE
         /\ i \in Rev!Approved <=> i \in Rev!Kept /\ review[i].status = "approved"
BY DEF RevTypes, Rev!Exists, Rev!Kept, Rev!Approved, Rev!NoReview, Written

LEMMA RevTurn ==
  ASSUME RevTypes, NEW r \in Slots, NEW w \in {Rev!Idle} \cup Raters,
         work' = [work EXCEPT ![r] = w],
         w.pc \in {"add", "mark", "unmark"} => w.o \in Orders
  PROVE  /\ work' \in [Slots -> {Rev!Idle} \cup Raters] /\ work'[r] = w
         /\ \A q \in Slots \ {r} : work'[q] = work[q]
         /\ \A q \in Slots : work'[q].pc \in {"add", "mark", "unmark"} => work'[q].o \in Orders
BY DEF RevTypes

LEMMA RaterOf ==
  ASSUME RevTypes, NEW r \in Slots, work[r].pc # "idle"
  PROVE  work[r] \in Raters
BY DEF RevTypes, Rev!Idle

LEMMA IdleIs == Rev!Idle.pc = "idle"
BY DEF Rev!Idle

LEMMA RevInit == ASSUME RevBounds, Rev!Init PROVE RevInv
<1>1. /\ review = [i \in Rev!Reviewed |-> Rev!NoReview] /\ given = {}
      /\ ratings = [sum |-> 0, approved |-> 0, total |-> 0]
      /\ work = [r \in Slots |-> Rev!Idle] /\ failures = 0 /\ unrated = FALSE /\ erased = FALSE
  BY DEF Rev!Init, Rev!NoHandler
<1>2. RevTypes
  BY <1>1, IdleIs DEF RevTypes, Scores
<1>3. Rev!Kept = {} /\ Rev!Approved = {}
  BY <1>1 DEF Rev!Kept, Rev!Approved, Rev!Exists, Rev!NoReview
<1>4. Rated
  BY <1>1, <1>3, SumEmpty, FS_EmptySet DEF Rated
<1>5. Computing /\ Sole
  BY <1>1, <1>3, IdleIs DEF Computing, Sole
<1> QED BY <1>2, <1>4, <1>5 DEF RevInv

\* A handler takes a step that leaves the reviews and the rating.
LEMMA HandlerTurns ==
  ASSUME RevInv, NEW r \in Slots, NEW w \in {Rev!Idle} \cup Raters,
         work' = [work EXCEPT ![r] = w],
         w.pc \in {"add", "mark", "unmark"} => w.o \in Orders,
         UNCHANGED <<review, ratings, unrated, erased>>, failures' \in Nat, failures' >= failures,
         given' \subseteq Orders,
         Alone /\ w.pc \in {"approved", "save"} => w.seen = ratings,
         w.pc = "save" => /\ w.sum = SumFunctionOnSet(StarsAt, Rev!Approved)
                          /\ w.approved = Cardinality(Rev!Approved),
         Alone /\ failures' = 0 /\ erased = FALSE => Sole'
  PROVE  RevInv'
<1>1. RevTypes'
  BY RevTurn DEF RevInv, RevTypes
<1>2. Rev!Approved' = Rev!Approved /\ StarsAt' = StarsAt
  BY DEF Rev!Approved, Rev!Kept, Rev!Exists, StarsAt
<1>3. ASSUME Alone
      PROVE  (unrated' = FALSE => Rated') /\ Computing'
  <2>1. unrated' = FALSE => Rated'
    BY <1>2, <1>3 DEF RevInv, Rated
  <2>2. work'[r] = w /\ \A q \in Slots : q = r
    BY <1>3, RevTurn DEF RevInv, Alone
  <2>3. Computing'
    BY <1>2, <1>3, <2>2 DEF Computing
  <2> QED BY <2>1, <2>3
<1> QED BY <1>1, <1>3 DEF RevInv, Alone

\* A review that exists is changed, by someone who will compute the rating.
LEMMA ReviewChanges ==
  ASSUME RevBounds, RevInv, NEW r \in Slots, NEW w \in {Rev!Idle} \cup Raters,
         work' = [work EXCEPT ![r] = w],
         work[r].pc = "idle", w.pc \in {"idle", "rate", "unmark"},
         NEW i \in Rev!Reviewed, Rev!Exists(i), NEW e \in Written, review' = [review EXCEPT ![i] = e],
         e.order = review[i].order, review[i].deleted = TRUE => e.deleted = TRUE,
         UNCHANGED <<given, ratings, failures>>, unrated' = TRUE, erased' \in BOOLEAN,
         erased = TRUE => erased' = TRUE,
         w.pc = "unmark" => /\ w.o = review[i].order /\ w.o \in Orders /\ e.deleted = TRUE
                            /\ review[i].deleted = TRUE => erased' = TRUE
  PROVE  RevInv'
<1>1. /\ work' \in [Slots -> {Rev!Idle} \cup Raters] /\ work'[r] = w
      /\ \A q \in Slots \ {r} : work'[q] = work[q]
      /\ \A q \in Slots : work'[q].pc \in {"add", "mark", "unmark"} => work'[q].o \in Orders
  BY RevTurn DEF RevInv
<1>2. /\ review' \in [Rev!Reviewed -> Written \cup {Rev!NoReview}] /\ review'[i] = e
      /\ \A j \in Rev!Reviewed \ {i} : review'[j] = review[j]
  BY DEF RevInv, RevTypes
<1>3. RevTypes'
  BY <1>1, <1>2 DEF RevInv, RevTypes
<1>4. /\ Rev!Kept' \subseteq Rev!Kept /\ \A j \in Rev!Reviewed : review'[j].order = review[j].order
      /\ e.deleted = TRUE => i \notin Rev!Kept'
      /\ review[i].deleted = FALSE => i \in Rev!Kept
  <2>1. \A j \in Rev!Reviewed : j \in Rev!Kept' <=> review'[j] \in Written /\ review'[j].deleted = FALSE
    <3>1. \A j \in Rev!Reviewed : Rev!Exists(j)' <=> review'[j].status # "none"
      BY DEF Rev!Exists, Rev!Reviewed
    <3>2. \A j \in Rev!Reviewed : j \in Rev!Kept' <=> review'[j].status # "none" /\ ~review'[j].deleted
      BY DEF Rev!Kept, Rev!Exists, Rev!Reviewed
    <3> QED BY <1>2, <3>2 DEF Rev!NoReview, Written
  <2>2. \A j \in Rev!Reviewed : j \in Rev!Kept <=> review[j] \in Written /\ review[j].deleted = FALSE
    BY KeptIs DEF RevInv
  <2>3. Rev!Kept \subseteq Rev!Reviewed /\ Rev!Kept' \subseteq Rev!Reviewed
    BY DEF Rev!Kept, Rev!Reviewed
  <2>4. review[i] \in Written /\ review[i].deleted \in BOOLEAN
    BY KeptIs DEF RevInv, Written
  <2>5. Rev!Kept' \subseteq Rev!Kept
    BY <1>2, <2>1, <2>2, <2>3, <2>4
  <2> QED BY <1>2, <2>1, <2>2, <2>4, <2>5
<1>5. ASSUME Alone
      PROVE  Computing' /\ (failures' = 0 /\ erased' = FALSE => Sole')
  <2>1. \A q \in Slots : q = r
    BY <1>5 DEF Alone
  <2>2. Computing'
    BY <1>1, <2>1 DEF Computing
  <2>3. ASSUME failures' = 0, erased' = FALSE
        PROVE  Sole'
    <3>1. Sole /\ (w.pc = "unmark" => i \in Rev!Kept /\ i \notin Rev!Kept')
      <4>1. erased = FALSE
        BY <2>3 DEF RevInv, RevTypes
      <4>2. review[i].deleted \in BOOLEAN
        BY KeptIs DEF RevInv, Written
      <4> QED BY <1>4, <1>5, <2>3, <4>1, <4>2 DEF RevInv
    <3>2. Rev!Kept \subseteq Rev!Reviewed
      BY DEF Rev!Kept
    <3>3. \A j, k \in Rev!Kept' : review'[j].order = review'[k].order /\ review'[j].order # NoOrder => j = k
      BY <1>4, <3>1, <3>2 DEF Sole
    <3>4. \A j \in Rev!Kept' : review'[j].order # NoOrder => review'[j].order \in given'
      BY <1>4, <2>1, <3>1, <3>2 DEF Sole
    <3>5. \A q \in Slots : work'[q].pc \in {"add", "unmark"} => \A j \in Rev!Kept' : review'[j].order # work'[q].o
      <4>1. ASSUME w.pc = "unmark", NEW j \in Rev!Kept', review'[j].order = w.o
            PROVE  FALSE
        <5>1. j \in Rev!Kept /\ i \in Rev!Kept /\ j # i /\ review[j].order = review[i].order
          BY <1>4, <3>1, <3>2, <4>1
        <5>2. review[i].order # NoOrder
          BY <4>1 DEF RevBounds
        <5> QED BY <3>1, <5>1, <5>2 DEF Sole
      <4> QED BY <1>1, <2>1, <4>1
    <3> QED BY <3>3, <3>4, <3>5 DEF Sole
  <2> QED BY <2>2, <2>3
<1> QED BY <1>3, <1>5 DEF RevInv, Alone

\* A review is written, of an order that has none.
LEMMA ReviewAdded ==
  ASSUME RevBounds, RevInv, NEW r \in Slots, NEW w \in Raters, work' = [work EXCEPT ![r] = w],
         NEW i \in Rev!Reviewed, ~Rev!Exists(i), NEW e \in Written, review' = [review EXCEPT ![i] = e],
         UNCHANGED <<given, ratings, failures, erased>>, unrated' \in BOOLEAN,
         unrated' = FALSE => unrated = FALSE /\ e.status # "approved",
         \/ work[r].pc = "idle" /\ w.pc = "rate" /\ e.order = NoOrder
         \/ work[r].pc = "add" /\ w.pc = "mark" /\ w.o = work[r].o /\ e.order = w.o
  PROVE  RevInv'
<1>1. /\ work' \in [Slots -> {Rev!Idle} \cup Raters] /\ work'[r] = w
      /\ \A q \in Slots \ {r} : work'[q] = work[q]
      /\ \A q \in Slots : work'[q].pc \in {"add", "mark", "unmark"} => work'[q].o \in Orders
  BY RevTurn DEF RevInv, RevTypes
<1>2. /\ review' \in [Rev!Reviewed -> Written \cup {Rev!NoReview}] /\ review'[i] = e
      /\ \A j \in Rev!Reviewed \ {i} : review'[j] = review[j]
  BY DEF RevInv, RevTypes
<1>3. RevTypes'
  BY <1>1, <1>2 DEF RevInv, RevTypes
<1>4. /\ Rev!Kept' \subseteq Rev!Kept \cup {i} /\ i \notin Rev!Kept /\ Rev!Kept \subseteq Rev!Reviewed
      /\ e.status # "approved" => Rev!Approved' = Rev!Approved
  <2>1. i \notin Rev!Kept /\ i \notin Rev!Approved
    BY DEF Rev!Kept, Rev!Approved
  <2>2. \A j \in Rev!Reviewed \ {i} : j \in Rev!Kept' <=> j \in Rev!Kept
    BY <1>2 DEF Rev!Kept, Rev!Exists, Rev!Reviewed
  <2>5. \A j \in Rev!Reviewed \ {i} : j \in Rev!Approved' <=> j \in Rev!Approved
    BY <1>2 DEF Rev!Kept, Rev!Approved, Rev!Exists, Rev!Reviewed
  <2>3. i \in Rev!Approved' => e.status = "approved"
    BY <1>2 DEF Rev!Approved
  <2>4. /\ Rev!Kept \subseteq Rev!Reviewed /\ Rev!Kept' \subseteq Rev!Reviewed
        /\ Rev!Approved \subseteq Rev!Reviewed /\ Rev!Approved' \subseteq Rev!Reviewed
    BY DEF Rev!Kept, Rev!Approved, Rev!Reviewed
  <2> QED BY <2>1, <2>2, <2>3, <2>4, <2>5
<1>5. ASSUME Alone
      PROVE  /\ unrated' = FALSE => Rated'
             /\ Computing'
             /\ failures' = 0 /\ erased' = FALSE => Sole'
  <2>1. \A q \in Slots : q = r
    BY <1>5 DEF Alone
  <2>2. Computing'
    BY <1>1, <2>1 DEF Computing
  <2>3. ASSUME unrated' = FALSE
        PROVE  Rated'
    <3>1. Rated /\ Rev!Approved' = Rev!Approved
      BY <1>4, <1>5, <2>3 DEF RevInv
    <3>2. Rev!Approved \subseteq Rev!Reviewed \ {i} /\ IsFiniteSet(Rev!Approved)
      BY <1>4, ReviewsFinite DEF Rev!Approved
    <3>3. \A j \in Rev!Approved : StarsAt[j] = StarsAt'[j]
      BY <1>2, <3>2 DEF StarsAt
    <3>4. SumFunctionOnSet(StarsAt, Rev!Approved) = SumFunctionOnSet(StarsAt', Rev!Approved)
      BY <3>2, <3>3, SumSame
    <3> QED BY <3>1, <3>4 DEF Rated
  <2>4. ASSUME failures' = 0, erased' = FALSE
        PROVE  Sole'
    <3>1. Sole
      BY <1>5, <2>4 DEF RevInv
    <3>2. \A j \in Rev!Kept' : j = i \/ (j \in Rev!Kept /\ review'[j].order = review[j].order)
      BY <1>2, <1>4
    <3>3. /\ review'[i].order = e.order
          /\ \A j \in Rev!Kept : review[j].order = e.order => e.order = NoOrder
      BY <1>2, <3>1 DEF Sole
    <3>4. \A j, k \in Rev!Kept' : review'[j].order = review'[k].order /\ review'[j].order # NoOrder => j = k
      BY <3>1, <3>2, <3>3 DEF Sole
    <3>5. \A j \in Rev!Kept' : review'[j].order # NoOrder =>
            review'[j].order \in given' \/ \E q \in Slots : work'[q].pc = "mark" /\ work'[q].o = review'[j].order
      BY <1>1, <2>1, <3>1, <3>2, <3>3 DEF Sole
    <3>6. \A q \in Slots : work'[q].pc \notin {"add", "unmark"}
      BY <1>1, <2>1
    <3> QED BY <3>4, <3>5, <3>6 DEF Sole
  <2> QED BY <2>2, <2>3, <2>4
<1> QED BY <1>3, <1>5 DEF RevInv, Alone

----------------
\* A handler as it begins.
LEMMA HandlerIs ==
  ASSUME RevTypes, NEW p \in {"add", "mark", "unmark", "rate", "approved", "save"},
         NEW o \in Orders \cup {NoOrder}, NEW n \in Nat
  PROVE  Rev!Handler(p, o, n) \in Raters /\ Rev!Handler(p, o, n).pc = p /\ Rev!Handler(p, o, n).o = o
BY DEF RevTypes, Rev!Handler, Raters

\* A handler that goes on.
LEMMA HandlerGoes ==
  ASSUME RevTypes, NEW r \in Slots, work[r].pc # "idle",
         NEW p \in {"add", "mark", "unmark", "rate", "approved", "save"}, Rev!Goto(r, p)
  PROVE  \E w \in Raters : work' = [work EXCEPT ![r] = w] /\ w.pc = p /\ w.o = work[r].o
<1> DEFINE w == [work[r] EXCEPT !.pc = p]
<1>1. work[r] \in Raters
  BY RaterOf
<1>2. w \in Raters /\ w.pc = p /\ w.o = work[r].o
  BY <1>1, Zenon DEF Raters
<1>3. work' = [work EXCEPT ![r] = w]
  BY Zenon DEF Rev!Goto
<1> HIDE DEF w
<1> QED BY <1>2, <1>3, Zenon

\* A review as a step leaves it.
LEMMA EditedReview ==
  ASSUME RevBounds, RevTypes, NEW i \in Rev!Reviewed, Rev!Exists(i), NEW n \in Nat,
         NEW st \in {"pending", "approved", "rejected", "flagged"},
         \/ review' = [review EXCEPT ![i].stars = n, ![i].status = st]
         \/ review' = [review EXCEPT ![i].status = st]
         \/ review' = [review EXCEPT ![i].stars = n]
  PROVE  \E e \in Written : /\ review' = [review EXCEPT ![i] = e]
                            /\ e.order = review[i].order /\ e.deleted = review[i].deleted
<1>1. review[i] \in Written
  BY KeptIs
<1>2. n \in Nat
  OBVIOUS
<1>3. CASE review' = [review EXCEPT ![i].stars = n, ![i].status = st]
  <2> DEFINE e == [review[i] EXCEPT !.stars = n, !.status = st]
  <2>1. e \in Written /\ e.order = review[i].order /\ e.deleted = review[i].deleted
    BY <1>1, <1>2, Zenon DEF Written
  <2>2. review' = [review EXCEPT ![i] = e]
    BY <1>3, Zenon
  <2> HIDE DEF e
  <2> QED BY <2>1, <2>2, Zenon
<1>4. CASE review' = [review EXCEPT ![i].status = st]
  <2> DEFINE e == [review[i] EXCEPT !.status = st]
  <2>1. e \in Written /\ e.order = review[i].order /\ e.deleted = review[i].deleted
    BY <1>1, <1>2, Zenon DEF Written
  <2>2. review' = [review EXCEPT ![i] = e]
    BY <1>4, Zenon
  <2> HIDE DEF e
  <2> QED BY <2>1, <2>2, Zenon
<1>5. CASE review' = [review EXCEPT ![i].stars = n]
  <2> DEFINE e == [review[i] EXCEPT !.stars = n]
  <2>1. e \in Written /\ e.order = review[i].order /\ e.deleted = review[i].deleted
    BY <1>1, <1>2, Zenon DEF Written
  <2>2. review' = [review EXCEPT ![i] = e]
    BY <1>5, Zenon
  <2> HIDE DEF e
  <2> QED BY <2>1, <2>2, Zenon
<1> QED BY <1>3, <1>4, <1>5

LEMMA DeletedReview ==
  ASSUME RevTypes, NEW i \in Rev!Reviewed, Rev!Exists(i), review' = [review EXCEPT ![i].deleted = TRUE]
  PROVE  \E e \in Written : /\ review' = [review EXCEPT ![i] = e]
                            /\ e.order = review[i].order /\ e.deleted = TRUE
<1>1. review[i] \in Written
  BY KeptIs
<1> DEFINE e == [review[i] EXCEPT !.deleted = TRUE]
<1>2. e \in Written /\ e.order = review[i].order /\ e.deleted = TRUE
  BY <1>1, Zenon DEF Written
<1>3. review' = [review EXCEPT ![i] = e]
  BY Zenon
<1> HIDE DEF e
<1> QED BY <1>2, <1>3, Zenon

----------------
LEMMA Edits ==
  ASSUME RevBounds, RevInv, NEW r \in Slots, NEW i \in Rev!Reviewed, NEW n \in Nat,
         Rev!EditReview(r, i, n) \/ Rev!EditByAdmin(r, i, n) \/ Rev!Moderate(r, i) \/ Rev!FlagReview(r, i)
  PROVE  RevInv'
<1>1. Rev!Exists(i) /\ work[r].pc = "idle" /\ UNCHANGED <<given, ratings, failures, erased>> /\ unrated' = TRUE
  BY DEF Rev!EditReview, Rev!EditByAdmin, Rev!Moderate, Rev!FlagReview, Rev!Begin, Rev!At
<1>2. PICK e \in Written : /\ review' = [review EXCEPT ![i] = e]
                           /\ e.order = review[i].order /\ e.deleted = review[i].deleted
  <2>1. \E st \in {"pending", "approved", "rejected", "flagged"} :
          \/ review' = [review EXCEPT ![i].stars = n, ![i].status = st]
          \/ review' = [review EXCEPT ![i].status = st]
          \/ review' = [review EXCEPT ![i].stars = n]
    BY Zenon DEF Rev!EditReview, Rev!EditByAdmin, Rev!Moderate, Rev!FlagReview
  <2> QED BY <1>1, <2>1, EditedReview DEF RevInv
<1>3. PICK w \in {Rev!Idle} \cup Raters : work' = [work EXCEPT ![r] = w] /\ w.pc \in {"idle", "rate"}
  <2>1. CASE work' = work
    <3>1. work[r] \in {Rev!Idle} \cup Raters /\ work' = [work EXCEPT ![r] = work[r]]
      BY <2>1 DEF RevInv, RevTypes
    <3> QED BY <1>1, <3>1
  <2>2. CASE work' = [work EXCEPT ![r] = Rev!Handler("rate", NoOrder, 0)]
    <3>1. RevTypes /\ 0 \in Nat
      BY DEF RevInv
    <3> DEFINE w == Rev!Handler("rate", NoOrder, 0)
    <3>2. w \in Raters /\ w.pc = "rate"
      BY <3>1, HandlerIs
    <3>3. work' = [work EXCEPT ![r] = w]
      BY <2>2
    <3> HIDE DEF w
    <3> QED BY <3>2, <3>3
  <2> QED
    BY <2>1, <2>2 DEF Rev!EditReview, Rev!EditByAdmin, Rev!Moderate, Rev!FlagReview, Rev!Begin
<1> QED BY <1>1, <1>2, <1>3, ReviewChanges DEF RevInv, RevTypes

LEMMA Deletes ==
  ASSUME RevBounds, RevInv, NEW r \in Slots, NEW i \in Rev!Reviewed,
         Rev!DeleteReview(r, i) \/ Rev!DeleteByAdmin(r, i)
  PROVE  RevInv'
<1>1. /\ Rev!Exists(i) /\ work[r].pc = "idle" /\ UNCHANGED <<given, ratings, failures>> /\ unrated' = TRUE
      /\ review' = [review EXCEPT ![i].deleted = TRUE]
  BY Zenon DEF Rev!DeleteReview, Rev!DeleteByAdmin, Rev!Begin, Rev!At
<1>2. PICK e \in Written : /\ review' = [review EXCEPT ![i] = e]
                           /\ e.order = review[i].order /\ e.deleted = TRUE
  BY <1>1, DeletedReview DEF RevInv
<1>3. review[i] \in Written /\ review[i].order \in Orders \cup {NoOrder} /\ review[i].deleted \in BOOLEAN
  BY <1>1, KeptIs DEF RevInv, Written
<1>4. erased \in BOOLEAN
  BY DEF RevInv, RevTypes
<1>5. CASE Rev!DeleteReview(r, i)
  <2> DEFINE w == Rev!Handler("unmark", review[i].order, 0)
  <2>1. work' = [work EXCEPT ![r] = w] /\ erased' = (erased \/ review[i].deleted) /\ review[i].order # NoOrder
    BY <1>5 DEF Rev!DeleteReview, Rev!Begin
  <2>2. w \in Raters /\ w.pc = "unmark" /\ w.o = review[i].order
    <3>1. RevTypes /\ 0 \in Nat
      BY DEF RevInv
    <3>2. PICK o \in Orders \cup {NoOrder} : o = review[i].order
      BY <1>3
    <3>3. LET v == Rev!Handler("unmark", o, 0) IN v \in Raters /\ v.pc = "unmark" /\ v.o = o
      BY <3>1, HandlerIs
    <3> QED BY <3>2, <3>3
  <2>3. /\ erased' \in BOOLEAN
        /\ erased = TRUE => erased' = TRUE
        /\ review[i].deleted = TRUE => erased' = TRUE
    BY <1>3, <1>4, <2>1
  <2>4. work' = [work EXCEPT ![r] = w] /\ w.o \in Orders
    BY <1>3, <2>1, <2>2
  <2> HIDE DEF w
  <2>5. /\ w \in {Rev!Idle} \cup Raters /\ w.pc \in {"idle", "rate", "unmark"}
        /\ w.pc = "unmark" => /\ w.o = review[i].order /\ w.o \in Orders /\ e.deleted = TRUE
                              /\ review[i].deleted = TRUE => erased' = TRUE
    BY <1>2, <2>2, <2>3, <2>4
  <2>6. work' = [work EXCEPT ![r] = w] /\ erased' \in BOOLEAN /\ (erased = TRUE => erased' = TRUE)
    BY <2>3, <2>4
  <2>7. review[i].deleted = TRUE => e.deleted = TRUE
    BY <1>2
  <2>8. Rev!Exists(i) /\ work[r].pc = "idle" /\ UNCHANGED <<given, ratings, failures>> /\ unrated' = TRUE
    BY <1>1
  <2> QED BY <1>2, <2>5, <2>6, <2>7, <2>8, ReviewChanges
<1>6. CASE Rev!DeleteByAdmin(r, i)
  <2> DEFINE w == Rev!Handler("rate", NoOrder, 0)
  <2>1. work' = [work EXCEPT ![r] = w] /\ erased' = erased
    BY <1>6 DEF Rev!DeleteByAdmin, Rev!Begin
  <2>2. w \in Raters /\ w.pc = "rate"
    BY HandlerIs DEF RevInv
  <2>3. erased' \in BOOLEAN /\ (erased = TRUE => erased' = TRUE)
    BY <1>4, <2>1
  <2> HIDE DEF w
  <2> QED BY <1>1, <1>2, <2>1, <2>2, <2>3, ReviewChanges
<1> QED BY <1>5, <1>6

LEMMA Adding ==
  ASSUME RevBounds, RevInv, NEW r \in Slots, NEW o \in Orders, NEW n \in Stars, Rev!AddReview(r, o, n)
  PROVE  RevInv'
<1> DEFINE w == Rev!Handler("add", o, n)
<1>1. /\ o \notin given /\ work[r].pc = "idle" /\ work' = [work EXCEPT ![r] = w]
      /\ UNCHANGED <<review, given, ratings, failures, unrated, erased>>
  BY DEF Rev!AddReview, Rev!Begin, Rev!At
<1>2. w \in Raters /\ w.pc = "add" /\ w.o = o
  BY HandlerIs DEF RevInv, RevBounds
<1> HIDE DEF w
<1>3. failures' \in Nat /\ failures' >= failures /\ given' \subseteq Orders
  BY <1>1 DEF RevInv, RevTypes
<1>4. ASSUME Alone, failures' = 0, erased = FALSE
      PROVE  Sole'
  <2>1. Sole /\ Rev!Kept' = Rev!Kept
    BY <1>1, <1>4 DEF RevInv, Rev!Kept, Rev!Exists
  <2>2. work'[r] = w /\ \A q \in Slots : q = r
    BY <1>1, <1>2, <1>4, RevTurn DEF RevInv, Alone
  <2>3. \A i \in Rev!Kept : review[i].order # NoOrder => review[i].order \in given
    BY <1>1, <2>1, <2>2 DEF Sole
  <2>4. \A i \in Rev!Kept : review[i].order # o
    BY <1>1, <2>3 DEF RevBounds
  <2> QED BY <1>1, <1>2, <2>1, <2>2, <2>3, <2>4 DEF Sole
<1> QED BY <1>1, <1>2, <1>3, <1>4, HandlerTurns

LEMMA Saving ==
  ASSUME RevBounds, RevInv, NEW r \in Slots, Rev!SaveReview(r)
  PROVE  RevInv'
<1> DEFINE e == [order |-> work[r].o, stars |-> work[r].n, status |-> "pending", deleted |-> FALSE]
<1>1. /\ work[r].pc = "add" /\ Rev!Goto(r, "mark") /\ Rev!New(e)
      /\ UNCHANGED <<given, ratings, failures, unrated, erased>>
  BY DEF Rev!SaveReview, Rev!At
<1>2. work[r] \in Raters /\ work[r].o \in Orders
  BY <1>1, RaterOf DEF RevInv, RevTypes
<1>3. e \in Written /\ e.order = work[r].o /\ e.status # "approved"
  BY <1>2 DEF Written, Raters
<1>4. PICK i \in Rev!Reviewed : ~Rev!Exists(i) /\ review' = [review EXCEPT ![i] = e]
  BY <1>1 DEF Rev!New, Rev!Free
<1> HIDE DEF e
<1>5. PICK w \in Raters : work' = [work EXCEPT ![r] = w] /\ w.pc = "mark" /\ w.o = work[r].o
  BY <1>1, HandlerGoes DEF RevInv
<1>6. unrated' \in BOOLEAN /\ (unrated' = FALSE => unrated = FALSE)
  BY <1>1 DEF RevInv, RevTypes
<1> QED BY <1>1, <1>3, <1>4, <1>5, <1>6, ReviewAdded

LEMMA Custom ==
  ASSUME RevBounds, RevInv, NEW r \in Slots, NEW n \in Stars, Rev!AddCustomReview(r, n)
  PROVE  RevInv'
<1> DEFINE e == [order |-> NoOrder, stars |-> n, status |-> "approved", deleted |-> FALSE]
           w == Rev!Handler("rate", NoOrder, 0)
<1>1. /\ work[r].pc = "idle" /\ work' = [work EXCEPT ![r] = w] /\ Rev!New(e)
      /\ UNCHANGED <<given, ratings, failures, erased>> /\ unrated' = TRUE
  BY DEF Rev!AddCustomReview, Rev!At, Rev!Begin
<1>2. e \in Written /\ e.order = NoOrder
  BY DEF Written, RevBounds
<1>3. PICK i \in Rev!Reviewed : ~Rev!Exists(i) /\ review' = [review EXCEPT ![i] = e]
  BY <1>1 DEF Rev!New, Rev!Free
<1>4. w \in Raters /\ w.pc = "rate"
  <2>1. RevTypes /\ 0 \in Nat
    BY DEF RevInv
  <2> QED BY <2>1, HandlerIs
<1> HIDE DEF e, w
<1> QED BY <1>1, <1>2, <1>3, <1>4, ReviewAdded

\* The order is marked, or given free for another review.
LEMMA OrderMarks ==
  ASSUME RevBounds, RevInv, NEW r \in Slots, Rev!MarkOrder(r) \/ Rev!UnmarkOrder(r)
  PROVE  RevInv'
<1>1. /\ work[r].pc \in {"mark", "unmark"} /\ Rev!Goto(r, "rate")
      /\ UNCHANGED <<review, ratings, failures, unrated, erased>>
      /\ work[r].pc = "mark" => given' = given \cup {work[r].o}
      /\ work[r].pc = "unmark" => given' = given \ {work[r].o}
  BY DEF Rev!MarkOrder, Rev!UnmarkOrder, Rev!At
<1>2. PICK w \in Raters : work' = [work EXCEPT ![r] = w] /\ w.pc = "rate" /\ w.o = work[r].o
  BY <1>1, HandlerGoes DEF RevInv
<1>3. failures' \in Nat /\ failures' >= failures /\ given' \subseteq Orders
  BY <1>1 DEF RevInv, RevTypes
<1>4. ASSUME Alone, failures' = 0, erased = FALSE
      PROVE  Sole'
  <2>1. Sole /\ Rev!Kept' = Rev!Kept
    BY <1>1, <1>4 DEF RevInv, Rev!Kept, Rev!Exists
  <2>2. work'[r] = w /\ \A q \in Slots : q = r
    BY <1>1, <1>2, <1>4, RevTurn DEF RevInv, Alone
  <2>3. \A i \in Rev!Kept : review[i].order # NoOrder => review[i].order \in given'
    BY <1>1, <2>1, <2>2 DEF Sole
  <2> QED BY <1>1, <1>2, <2>1, <2>2, <2>3 DEF Sole
<1> QED BY <1>1, <1>2, <1>3, <1>4, HandlerTurns

\* A step of a handler that neither adds nor takes back a review.
LEMMA SoleStays ==
  ASSUME RevInv, Alone, failures' = 0, failures' >= failures, erased = FALSE, UNCHANGED <<review, given>>,
         NEW r \in Slots, work'[r].pc \notin {"add", "unmark"}, work[r].pc # "mark"
  PROVE  Sole'
<1>1. Sole /\ Rev!Kept' = Rev!Kept
  <2>1. failures = 0
    BY DEF RevInv, RevTypes
  <2> QED BY <2>1 DEF RevInv, Rev!Kept, Rev!Exists
<1>2. \A q \in Slots : q = r
  BY DEF Alone
<1>3. \A i \in Rev!Kept : review[i].order # NoOrder => review[i].order \in given'
  BY <1>1, <1>2 DEF Sole
<1> QED BY <1>1, <1>2, <1>3 DEF Sole

LEMMA ReadsAstrologer ==
  ASSUME RevBounds, RevInv, NEW r \in Slots, Rev!ReadAstrologer(r)
  PROVE  RevInv'
<1> DEFINE w == [work[r] EXCEPT !.pc = "approved", !.seen = ratings]
<1>1. /\ work[r].pc = "rate" /\ UNCHANGED <<review, given, ratings, failures, unrated, erased>>
      /\ work' = [work EXCEPT ![r] = w]
  BY Zenon DEF Rev!ReadAstrologer, Rev!At
<1>2. work[r] \in Raters /\ ratings \in Scores
  BY <1>1, RaterOf DEF RevInv, RevTypes
<1>3. w \in Raters /\ w.pc = "approved" /\ w.seen = ratings
  BY <1>2, Zenon DEF Raters
<1> HIDE DEF w
<1>4. failures' \in Nat /\ failures' >= failures /\ given' \subseteq Orders
  BY <1>1 DEF RevInv, RevTypes
<1>5. work'[r] = w
  BY <1>1 DEF RevInv, RevTypes
<1>6. Alone /\ failures' = 0 /\ erased = FALSE => Sole'
  BY <1>1, <1>3, <1>4, <1>5, SoleStays
<1> QED BY <1>1, <1>3, <1>4, <1>6, HandlerTurns

LEMMA StarsOfIs ==
  ASSUME NEW S \in SUBSET Rev!Reviewed, IsFiniteSet(S)
  PROVE  Rev!StarsOf(S) = SumFunctionOnSet(StarsAt, S)
<1> DEFINE Chosen(g) ==
      g = [D \in SUBSET S |-> IF D = {} THEN 0 ELSE review[Picked(D)].stars + g[D \ {Picked(D)}]]
<1>1. Rev!StarsOf(S) = (CHOOSE g : Chosen(g))[S]
  BY DEF Rev!StarsOf, Rev!MapThenSumSet, Rev!MapThenFoldSet, MapThenSumSet, MapThenFoldSet, Picked
<1>2. \A g : Chosen(g) <=> Sums(StarsAt, S, g)
  <2>1. \A D \in SUBSET S : D # {} => StarsAt[Picked(D)] = review[Picked(D)].stars
    BY PickedIn DEF StarsAt
  <2> QED BY <2>1 DEF Sums
<1>3. PICK g : Sums(StarsAt, S, g)
  BY SumsExist
<1> HIDE DEF Chosen
<1>4. Chosen(CHOOSE h : Chosen(h))
  BY <1>2, <1>3
<1> QED BY <1>1, <1>2, <1>4, FoldSums

LEMMA RevSize == ASSUME NEW S PROVE Rev!Cardinality(S) = Cardinality(S)
BY DEF Rev!Cardinality, Cardinality

\* The rating as the reviews give it, in numbers.
LEMMA Computes ==
  ASSUME RevBounds, RevTypes
  PROVE  /\ Rev!StarsOf(Rev!Approved) = SumFunctionOnSet(StarsAt, Rev!Approved)
         /\ SumFunctionOnSet(StarsAt, Rev!Approved) \in Nat /\ Cardinality(Rev!Approved) \in Nat
         /\ Cardinality(Rev!Kept) \in Nat /\ Cardinality(Rev!Approved) <= Cardinality(Rev!Kept)
         /\ Cardinality(Rev!Approved) = 0 => SumFunctionOnSet(StarsAt, Rev!Approved) = 0
<1>1. Rev!Approved \subseteq Rev!Kept /\ Rev!Kept \subseteq Rev!Reviewed
  BY DEF Rev!Approved, Rev!Kept
<1>2. IsFiniteSet(Rev!Approved) /\ IsFiniteSet(Rev!Kept)
  BY ReviewsFinite
<1>3. \A i \in Rev!Approved : StarsAt[i] \in Nat
  BY <1>1 DEF RevTypes, StarsAt, Written, Rev!NoReview
<1>4. Rev!StarsOf(Rev!Approved) = SumFunctionOnSet(StarsAt, Rev!Approved)
  BY <1>1, <1>2, StarsOfIs
<1>5. SumFunctionOnSet(StarsAt, Rev!Approved) \in Nat
  BY <1>2, <1>3, SumNat
<1>6. /\ Cardinality(Rev!Approved) \in Nat /\ Cardinality(Rev!Kept) \in Nat
      /\ Cardinality(Rev!Approved) <= Cardinality(Rev!Kept)
  BY <1>1, <1>2, FS_CardinalityType, FS_Subset
<1>7. Cardinality(Rev!Approved) = 0 => Rev!Approved = {}
  BY <1>2, FS_EmptySet
<1> QED BY <1>4, <1>5, <1>6, <1>7, SumEmpty

LEMMA ReadsApproved ==
  ASSUME RevBounds, RevInv, NEW r \in Slots, Rev!ReadApproved(r)
  PROVE  RevInv'
<1> DEFINE c == Cardinality(Rev!Approved)
           s == SumFunctionOnSet(StarsAt, Rev!Approved)
           w == [work[r] EXCEPT !.pc = "save", !.approved = c, !.sum = s]
<1>1. /\ work[r].pc = "approved" /\ UNCHANGED <<review, given, ratings, failures, unrated, erased>>
  BY DEF Rev!ReadApproved, Rev!At
<1>2. work[r] \in Raters /\ c \in Nat /\ s \in Nat /\ Rev!StarsOf(Rev!Approved) = s
        /\ Rev!Cardinality(Rev!Approved) = c
  BY <1>1, RaterOf, Computes, RevSize DEF RevInv
<1>3. work' = [work EXCEPT ![r] = w]
  <2>1. work' = [work EXCEPT ![r] = [work[r] EXCEPT !.pc = "save", !.approved = Rev!Cardinality(Rev!Approved),
                                             !.sum = Rev!StarsOf(Rev!Approved)]]
    BY Zenon DEF Rev!ReadApproved
  <2> HIDE DEF c, s
  <2> QED BY <1>2, <2>1, Zenon
<1>4. w \in Raters /\ w.pc = "save" /\ w.approved = c /\ w.sum = s /\ w.seen = work[r].seen
  <2> HIDE DEF c, s
  <2> QED BY <1>2, Zenon DEF Raters
<1> HIDE DEF w
<1>5. failures' \in Nat /\ failures' >= failures /\ given' \subseteq Orders
  BY <1>1 DEF RevInv, RevTypes
<1>6. work'[r] = w
  BY <1>3 DEF RevInv, RevTypes
<1>7. Alone /\ failures' = 0 /\ erased = FALSE => Sole'
  BY <1>1, <1>4, <1>5, <1>6, SoleStays
<1>8. Alone => w.seen = ratings
  BY <1>1, <1>4 DEF RevInv, Computing
<1> QED BY <1>1, <1>3, <1>4, <1>5, <1>7, <1>8, HandlerTurns

\* updateAstrologerRatings ends: what is saved is what was read of the reviews,
\* and it is that of the reviews if nobody came in between.
LEMMA SavesRating ==
  ASSUME RevBounds, RevInv, NEW r \in Slots, Rev!SaveRating(r)
  PROVE  RevInv'
<1> DEFINE h == work[r]
           new == Rev!Computed(h.seen, h)
<1>1. /\ work[r].pc = "save" /\ UNCHANGED <<review, given, failures, erased>> /\ unrated' = FALSE
      /\ work' = [work EXCEPT ![r] = Rev!Idle]
      /\ ratings' = [f \in DOMAIN ratings |-> Rev!Write(h.seen[f], new[f], ratings[f])]
  BY DEF Rev!SaveRating, Rev!At, Rev!Finish
<1>2. h \in Raters /\ h.seen \in Scores /\ ratings \in Scores
  BY <1>1, RaterOf DEF RevInv, RevTypes, Raters
<1>3. /\ new \in Scores
      /\ h.approved = 0 => new.sum = 0 /\ new.approved = 0
      /\ h.approved # 0 => new.sum = h.sum /\ new.approved = h.approved /\ new.total = Cardinality(Rev!Kept)
  <2>1. CASE h.approved = 0
    <3> DEFINE d == h.seen
               e == [d EXCEPT !.sum = 0, !.approved = 0]
    <3>1. e \in Scores /\ e.sum = 0 /\ e.approved = 0
      <4> HIDE DEF d
      <4>1. d \in Scores
        BY <1>2 DEF d
      <4> QED BY <4>1, Zenon DEF Scores
    <3>2. new = e
      BY <2>1, Zenon DEF Rev!Computed
    <3> HIDE DEF e, new
    <3> QED BY <2>1, <3>1, <3>2
  <2>2. CASE h.approved # 0
    <3>1. new = [sum |-> h.sum, approved |-> h.approved, total |-> Cardinality(Rev!Kept)]
      BY <2>2, RevSize DEF Rev!Computed
    <3>2. Cardinality(Rev!Kept) \in Nat /\ h.sum \in Nat /\ h.approved \in Nat
      BY <1>2, Computes DEF RevInv, Raters
    <3> HIDE DEF new, h
    <3> QED BY <2>2, <3>1, <3>2 DEF Scores
  <2> QED BY <2>1, <2>2
<1> HIDE DEF new
<1>4. ratings' \in Scores /\ (h.seen = ratings => ratings' = new)
  <2>1. \A f \in {"sum", "approved", "total"} :
          Rev!Write(h.seen[f], new[f], ratings[f]) \in Nat
          /\ (h.seen = ratings => Rev!Write(h.seen[f], new[f], ratings[f]) = new[f])
    BY <1>2, <1>3 DEF Rev!Write, Scores
  <2> DEFINE W(f) == Rev!Write(h.seen[f], new[f], ratings[f])
  <2>2. ratings' = [f \in {"sum", "approved", "total"} |-> W(f)]
    BY <1>1, <1>2 DEF Scores
  <2>3. \A f \in {"sum", "approved", "total"} : W(f) \in Nat
    BY <2>1
  <2>4. h.seen = ratings => \A f \in {"sum", "approved", "total"} : W(f) = new[f]
    BY <2>1
  <2> HIDE DEF W, h
  <2>5. ratings' \in Scores
    BY <2>2, <2>3 DEF Scores
  <2>6. h.seen = ratings => ratings' = new
    BY <1>3, <2>2, <2>4 DEF Scores
  <2> QED BY <2>5, <2>6
<1>5. /\ work' \in [Slots -> {Rev!Idle} \cup Raters] /\ work'[r] = Rev!Idle
      /\ \A q \in Slots \ {r} : work'[q] = work[q]
      /\ \A q \in Slots : work'[q].pc \in {"add", "mark", "unmark"} => work'[q].o \in Orders
  BY <1>1, IdleIs, RevTurn DEF RevInv
<1>6. RevTypes'
  BY <1>1, <1>4, <1>5 DEF RevInv, RevTypes
<1>7. ASSUME Alone
      PROVE  Rated' /\ Computing' /\ (failures' = 0 /\ erased' = FALSE => Sole')
  <2>1. \A q \in Slots : q = r
    BY <1>7 DEF Alone
  <2>2. /\ h.seen = ratings /\ h.sum = SumFunctionOnSet(StarsAt, Rev!Approved)
        /\ h.approved = Cardinality(Rev!Approved)
    BY <1>1, <1>7 DEF RevInv, Computing
  <2>3. StarsAt' = StarsAt /\ Rev!Approved' = Rev!Approved
    BY <1>1 DEF StarsAt, Rev!Approved, Rev!Kept, Rev!Exists
  <2>4. ratings' = new /\ new.total \in Nat
    BY <1>3, <1>4, <2>2 DEF Scores
  <2>5. new.sum = h.sum /\ new.approved = h.approved /\ new.approved <= new.total
    BY <1>3, <2>2, <2>4, Computes DEF RevInv
  <2>6. Rated'
    BY <2>2, <2>3, <2>4, <2>5 DEF Rated
  <2>7. Computing'
    BY <1>5, <2>1, IdleIs DEF Computing
  <2>8. failures' >= failures
    BY <1>1 DEF RevInv, RevTypes
  <2>9. failures' = 0 /\ erased' = FALSE => Sole'
    BY <1>1, <1>5, <1>7, <2>8, IdleIs, SoleStays
  <2> QED BY <2>6, <2>7, <2>9
<1> QED BY <1>6, <1>7 DEF RevInv, Alone

LEMMA Failing ==
  ASSUME RevBounds, RevInv, NEW r \in Slots, Rev!Fails(r)
  PROVE  RevInv'
<1>1. /\ UNCHANGED <<review, given, ratings, unrated, erased>> /\ failures' = failures + 1
      /\ work' = [work EXCEPT ![r] = Rev!Idle]
  BY DEF Rev!Fails, Rev!Finish
<1>2. failures' \in Nat /\ failures' >= failures /\ failures' # 0 /\ given' \subseteq Orders
  BY <1>1 DEF RevInv, RevTypes
<1> QED BY <1>1, <1>2, IdleIs, HandlerTurns

LEMMA RevStutter ==
  ASSUME RevInv, UNCHANGED <<review, given, ratings, failures, unrated, erased, work>>
  PROVE  RevInv'
BY DEF RevInv, RevTypes, Rated, Computing, Sole, StarsAt, Rev!Approved, Rev!Kept, Rev!Exists, Alone

LEMMA RevStep == ASSUME RevBounds PROVE RevInv /\ [Rev!Next]_(Rev!vvars) => RevInv'
<1> SUFFICES ASSUME RevInv, [Rev!Next]_(Rev!vvars) PROVE RevInv'
  OBVIOUS
<1>1. CASE UNCHANGED Rev!vvars
  BY <1>1, RevStutter DEF Rev!vvars
<1>2. ASSUME NEW r \in Slots, NEW o \in Orders, NEW n \in Stars, Rev!AddReview(r, o, n)
      PROVE  RevInv'
  BY <1>2, Adding
<1>3. ASSUME NEW r \in Slots, NEW i \in Rev!Reviewed, Rev!DeleteReview(r, i) \/ Rev!DeleteByAdmin(r, i)
      PROVE  RevInv'
  BY <1>3, Deletes
<1>4. ASSUME NEW r \in Slots, NEW i \in Rev!Reviewed, NEW n \in Stars,
             Rev!EditReview(r, i, n) \/ Rev!EditByAdmin(r, i, n)
      PROVE  RevInv'
  BY <1>4, Edits DEF RevBounds
<1>5. ASSUME NEW r \in Slots, NEW i \in Rev!Reviewed, Rev!Moderate(r, i) \/ Rev!FlagReview(r, i)
      PROVE  RevInv'
  <2>1. 0 \in Nat
    OBVIOUS
  <2> QED BY <1>5, <2>1, Edits
<1>6. ASSUME NEW r \in Slots, NEW n \in Stars, Rev!AddCustomReview(r, n)
      PROVE  RevInv'
  BY <1>6, Custom
<1>7. ASSUME NEW r \in Slots,
             \/ Rev!Fails(r) \/ Rev!SaveReview(r) \/ Rev!MarkOrder(r) \/ Rev!UnmarkOrder(r)
             \/ Rev!ReadAstrologer(r) \/ Rev!ReadApproved(r) \/ Rev!SaveRating(r)
      PROVE  RevInv'
  BY <1>7, Failing, Saving, OrderMarks, ReadsAstrologer, ReadsApproved, SavesRating
<1> QED
  BY <1>1, <1>2, <1>3, <1>4, <1>5, <1>6, <1>7 DEF Rev!Next, Rev!UserRequests, Rev!AdminRequests

LEMMA RevInvariance == ASSUME RevBounds PROVE Rev!Spec => []RevInv
<1>1. Rev!Init => RevInv
  BY RevInit
<1>2. RevInv /\ [Rev!Next]_(Rev!vvars) => RevInv'
  BY RevStep
<1> QED BY <1>1, <1>2, PTL DEF Rev!Spec

LEMMA RevAlone == ASSUME RevBounds, RevInv, Rev!OneAtATime PROVE Alone /\ Slots # {}
<1>1. DOMAIN work = Slots /\ Cardinality(Slots) = 1
  BY RevSize DEF RevInv, RevTypes, Rev!OneAtATime
<1>2. PICK x : Slots = {x}
  BY <1>1, FS_Singleton DEF RevBounds
<1> QED BY <1>2 DEF Alone

\* "Update astrologer ratings": one request at a time, between requests the
\* rating of an astrologer is that of the approved reviews, whatever failed,
\* unless something was changed after it was computed last.
THEOREM RatingIsCurrent == ASSUME RevBounds PROVE Rev!Spec => []Rev!RatingMatchesApproved
<1>1. RevInv => Rev!RatingMatchesApproved
  <2> SUFFICES ASSUME RevInv, Rev!OneAtATime, ~unrated
               PROVE  /\ ratings.sum = Rev!StarsOf(Rev!Approved)
                      /\ ratings.approved = Rev!Cardinality(Rev!Approved)
                      /\ ratings.approved <= ratings.total
    BY DEF Rev!RatingMatchesApproved
  <2>1. unrated = FALSE /\ Alone
    BY RevAlone DEF RevInv, RevTypes
  <2>2. Rated
    BY <2>1 DEF RevInv
  <2> QED BY <2>2, RevSize, Computes DEF RevInv, Rated
<1> QED BY <1>1, RevInvariance, PTL

\* "This session has already been reviewed": one request at a time, none of
\* which failed or deleted a review twice, an order has one review that is kept.
THEOREM ReviewedOnce == ASSUME RevBounds PROVE Rev!Spec => []Rev!OneReviewPerOrder
<1>1. RevInv => Rev!OneReviewPerOrder
  <2> SUFFICES ASSUME RevInv, Rev!OneAtATime, failures = 0, ~erased, NEW o \in Orders
               PROVE  Cardinality({i \in Rev!Kept : review[i].order = o}) <= 1
    BY RevSize DEF Rev!OneReviewPerOrder
  <2>1. erased = FALSE /\ Alone
    BY RevAlone DEF RevInv, RevTypes
  <2>2. Sole /\ o # NoOrder
    BY <2>1 DEF RevInv, RevBounds
  <2> DEFINE S == {i \in Rev!Kept : review[i].order = o}
  <2>3. \A i, j \in S : i = j
    BY <2>2 DEF Sole
  <2>4. S = {} \/ \E i : S = {i}
    BY <2>3
  <2> HIDE DEF S
  <2>5. Cardinality(S) \in {0, 1}
    BY <2>4, FS_EmptySet, FS_Singleton
  <2> QED BY <2>5 DEF S
<1> QED
  BY <1>1, RevInvariance, PTL
================
