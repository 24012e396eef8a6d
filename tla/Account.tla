-------- MODULE Account --------
(***************************************************************************)
(* What the wallet promises its users: an account whose funds and whose    *)
(* statement move together in one step, where every decision (is there     *)
(* enough, is the card still good) is taken on the funds of that moment.   *)
(***************************************************************************)
EXTENDS Integers

CONSTANTS Users, Cards, Amounts, MaxRedemptions, CardAmount, Opening

VARIABLES funds, statement, redeemed
accountVars == <<funds, statement, redeemed>>

Init ==
  /\ funds \in [Users -> Opening]
  /\ statement = [u \in Users |-> funds[u].cash + funds[u].bonus]
  /\ redeemed = [c \in Cards |-> 0]

Least(a, b) == IF a < b THEN a ELSE b

\* The bonus is spent first.
Spend(u, a) ==
  LET b == Least(funds[u].bonus, a) IN
  /\ funds[u].cash + funds[u].bonus >= a
  /\ funds' = [funds EXCEPT ![u] = [cash |-> @.cash - (a - b), bonus |-> @.bonus - b]]
  /\ statement' = [statement EXCEPT ![u] = @ - a]
  /\ UNCHANGED redeemed

Grant(u, a) ==
  /\ funds' = [funds EXCEPT ![u] = [cash |-> @.cash, bonus |-> @.bonus + a]]
  /\ statement' = [statement EXCEPT ![u] = @ + a]

GrantBonus(u, a) == Grant(u, a) /\ UNCHANGED redeemed

Redeem(u, c) ==
  /\ redeemed[c] < MaxRedemptions
  /\ redeemed' = [redeemed EXCEPT ![c] = @ + 1]
  /\ Grant(u, CardAmount)

Revoke(u, a) ==
  /\ funds[u].bonus >= a
  /\ funds' = [funds EXCEPT ![u] = [cash |-> @.cash, bonus |-> @.bonus - a]]
  /\ statement' = [statement EXCEPT ![u] = @ - a]
  /\ UNCHANGED redeemed

Next ==
  \E u \in Users :
    \/ \E a \in Amounts : Spend(u, a) \/ GrantBonus(u, a) \/ Revoke(u, a)
    \/ \E c \in Cards : Redeem(u, c)

Spec == Init /\ [][Next]_accountVars
================
