-------- MODULE Gifts --------
(***************************************************************************)
(* A gift to an astrologer, on a stream or directly.  The user's wallet is *)
(* read before the transaction that charges it; the astrologer's earnings  *)
(* and the stream's revenue are counted after it has committed, one write  *)
(* each.                                                                   *)
(***************************************************************************)
EXTENDS Handlers, FiniteSetsExt

CONSTANTS Amounts, Rate, Cash, Bonus, Top, MaxGifts, MaxTopUps, MaxFailures

VARIABLES
  cash, bonus,
  rows,        \* transaction rows of the gifts, a user's and an astrologer's in one
  earned,      \* the astrologer's earnings from gifts
  gifts, revenue, \* what the stream counts
  live,        \* the stream is live
  topUps, failures

gvars == <<cash, bonus, rows, earned, gifts, revenue, live, topUps, failures, work>>

----------------
Init ==
  /\ cash = Cash /\ bonus = Bonus /\ rows = {} /\ earned = 0 /\ gifts = 0 /\ revenue = 0 /\ live = TRUE
  /\ topUps = 0 /\ failures = 0 /\ NoHandler

SendGift(r, amount, onStream) ==
  /\ Cardinality(rows) < MaxGifts
  /\ Begin(r, [pc |-> IF onStream THEN "stream" ELSE "user", amount |-> amount, onStream |-> onStream])
  /\ UNCHANGED <<cash, bonus, rows, earned, gifts, revenue, live, topUps, failures>>

FindStream(r) ==
  /\ At(r, "stream") /\ IF live THEN Goto(r, "user") ELSE Finish(r)
  /\ UNCHANGED <<cash, bonus, rows, earned, gifts, revenue, live, topUps, failures>>

FindUser(r) ==
  /\ At(r, "user")
  /\ IF cash + bonus < work[r].amount THEN Finish(r)
     ELSE work' = [work EXCEPT ![r] = [pc |-> "charge", amount |-> @.amount, onStream |-> @.onStream,
                                       cash |-> cash, bonus |-> bonus]]
  /\ UNCHANGED <<cash, bonus, rows, earned, gifts, revenue, live, topUps, failures>>

\* The amounts of an instance leave no fraction.
Commission(amount) == (amount * Rate) \div 100
Net(amount) == amount - Commission(amount)

\* Bonus goes first.  Fault: cash goes first, and no further than it reaches.
ApplyDebitCashFirst(w) ==
  IF w.cash >= w.amount THEN [cash |-> w.cash - w.amount, bonus |-> w.bonus] ELSE [cash |-> 0, bonus |-> w.bonus]
ApplyDebit(w) ==
  IF w.bonus >= w.amount THEN [cash |-> w.cash, bonus |-> w.bonus - w.amount]
  ELSE [cash |-> w.cash - (w.amount - w.bonus), bonus |-> 0]

\* Both rows and the wallet: a balance that the gift changes is set to what
\* was read, less its share.
Charge(r) ==
  LET left == ApplyDebit(work[r]) IN
    /\ At(r, "charge")
    /\ cash' = IF left.cash = work[r].cash THEN cash ELSE left.cash
    /\ bonus' = IF left.bonus = work[r].bonus THEN bonus ELSE left.bonus
    /\ rows' = rows \cup {[id |-> Cardinality(rows), amount |-> work[r].amount, net |-> Net(work[r].amount),
                           onStream |-> work[r].onStream]}
    /\ Goto(r, "earn") /\ UNCHANGED <<earned, gifts, revenue, live, topUps, failures>>

RecordGiftEarning(r) ==
  /\ At(r, "earn") /\ earned' = earned + Net(work[r].amount)
  /\ IF work[r].onStream THEN Goto(r, "count") ELSE Finish(r)
  /\ UNCHANGED <<cash, bonus, rows, gifts, revenue, live, topUps, failures>>
\* Fault: the net amount is counted.
CountNet(r) ==
  /\ At(r, "count") /\ gifts' = gifts + 1 /\ revenue' = revenue + Net(work[r].amount) /\ Finish(r)
  /\ UNCHANGED <<cash, bonus, rows, earned, live, topUps, failures>>
CountOnStream(r) ==
  /\ At(r, "count") /\ gifts' = gifts + 1 /\ revenue' = revenue + work[r].amount /\ Finish(r)
  /\ UNCHANGED <<cash, bonus, rows, earned, live, topUps, failures>>

\* Before the commit nothing is left of the gift.  After it the gift stands:
\* the request is answered with an error and what it had not counted is lost.
GiftThrows(r) ==
  /\ ~At(r, "idle") /\ failures < MaxFailures /\ failures' = failures + 1 /\ Finish(r)
  /\ UNCHANGED <<cash, bonus, rows, earned, gifts, revenue, live, topUps>>

\* A recharge is a request of its own.
TopUp(r) ==
  /\ At(r, "idle") /\ topUps < MaxTopUps /\ topUps' = topUps + 1 /\ cash' = cash + Top
  /\ UNCHANGED <<bonus, rows, earned, gifts, revenue, live, failures, work>>
EndStream == live /\ live' = FALSE /\ UNCHANGED <<cash, bonus, rows, earned, gifts, revenue, topUps, failures, work>>

Next ==
  \/ \E r \in Slots, a \in Amounts, s \in BOOLEAN : SendGift(r, a, s)
  \/ \E r \in Slots :
       FindStream(r) \/ FindUser(r) \/ Charge(r) \/ RecordGiftEarning(r) \/ CountOnStream(r) \/
       GiftThrows(r) \/ TopUp(r)
  \/ EndStream

Spec == Init /\ [][Next]_gvars

----------------
TypeOK ==
  /\ {cash, bonus, earned, gifts, revenue, topUps, failures} \subseteq Nat /\ live \in BOOLEAN
  /\ \A x \in rows : x.amount \in Amounts
  /\ DOMAIN work = Slots

Given == MapThenSumSet(LAMBDA x : x.amount, rows)

\* One request at a time, the wallet has lost exactly the gifts that have a
\* row, of its bonus before its cash.
GiftsAreTaken ==
  OneAtATime =>
    /\ cash + bonus + Given = Cash + Bonus + Top * topUps
    /\ bonus = IF Given >= Bonus THEN 0 ELSE Bonus - Given

\* However gifts overlap, the astrologer has earned the net amount of every
\* row and the stream counts those that were given on it, when all requests
\* have ended and none failed.
GiftsAreCounted ==
  (Quiet /\ failures = 0) =>
    LET streamed == {x \in rows : x.onStream} IN
      /\ earned = MapThenSumSet(LAMBDA x : x.net, rows)
      /\ gifts = Cardinality(streamed) /\ revenue = MapThenSumSet(LAMBDA x : x.amount, streamed)
================
