-------- MODULE Refunds --------
(***************************************************************************)
(* The refund of one order of the older kind, which is paid and completed  *)
(* (OrdersService.requestRefund, AdminOrdersService).  Conversation        *)
(* threads are never completed, and are refunded by refundOrderDirect      *)
(* alone.  The credit and the save of the order are two transactions.      *)
(***************************************************************************)
EXTENDS Handlers, FiniteSetTheorems, TLAPS

CONSTANTS
  OrderTotal,        \* what the order cost
  Percentages,  \* what an administrator grants
  MaxDirect, MaxFailures

VARIABLES
  order,     \* [status, request, refunded]
  credits,   \* how often a request was credited (history)
  returned,  \* credited to the user's wallet (history)
  direct,    \* direct refunds (history)
  failures

fvars == <<order, credits, returned, direct, failures, work>>

----------------
Init ==
  /\ order = [status |-> "completed", request |-> "none", refunded |-> 0]
  /\ credits = 0 /\ returned = 0 /\ direct = 0 /\ failures = 0 /\ NoHandler

Handler(pc, n) == [pc |-> pc, n |-> n]

RequestRefund(r) ==
  /\ order.status = "completed" /\ order.request # "pending"
  /\ Begin(r, Handler("request", 0))
  /\ UNCHANGED <<order, credits, returned, direct, failures>>

SaveRequest(r) ==
  /\ At(r, "request") /\ Finish(r)
  /\ order' = [order EXCEPT !.status = "refund_requested", !.request = "pending"]
  /\ UNCHANGED <<credits, returned, direct, failures>>

\* Fault: only the status of the order is looked at.
ProcessAnyRequest(r) ==
  /\ order.request # "none"
  /\ \/ Begin(r, Handler("reject", 0))
     \/ \E p \in Percentages : Begin(r, Handler("credit", (OrderTotal * p) \div 100))
  /\ UNCHANGED <<order, credits, returned, direct, failures>>
ProcessRequest(r) ==
  /\ order.request = "pending" /\ order.status = "refund_requested"
  /\ \/ Begin(r, Handler("reject", 0))
     \/ \E p \in Percentages : Begin(r, Handler("credit", (OrderTotal * p) \div 100))
  /\ UNCHANGED <<order, credits, returned, direct, failures>>

SaveRejection(r) ==
  /\ At(r, "reject") /\ Finish(r)
  /\ order' = [order EXCEPT !.status = "refund_rejected", !.request = "rejected"]
  /\ UNCHANGED <<credits, returned, direct, failures>>

Credit(r) ==
  /\ At(r, "credit") /\ Goto(r, "approve")
  /\ credits' = credits + 1 /\ returned' = returned + work[r].n
  /\ UNCHANGED <<order, direct, failures>>

SaveApproval(r) ==
  /\ At(r, "approve") /\ Finish(r)
  /\ order' = [status |-> "refunded", request |-> "approved", refunded |-> work[r].n]
  /\ UNCHANGED <<credits, returned, direct, failures>>

\* Fault: the approval stands although nothing was credited.
KeepApproval(r) ==
  /\ work[r].pc \in {"credit", "approve"} /\ failures < MaxFailures /\ failures' = failures + 1
  /\ Finish(r)
  /\ order' = [order EXCEPT !.status = "refunded", !.request = "approved"]
  /\ UNCHANGED <<credits, returned, direct>>
\* The credit fails, or the save after it: the request is pending again.
ResetRequest(r) ==
  /\ work[r].pc \in {"credit", "approve"} /\ failures < MaxFailures /\ failures' = failures + 1
  /\ Finish(r)
  /\ order' = [order EXCEPT !.status = "refund_requested", !.request = "pending"]
  /\ UNCHANGED <<credits, returned, direct>>

\* refundOrderDirect asks for no status.
RefundDirect(r) ==
  /\ direct < MaxDirect /\ Begin(r, Handler("given", OrderTotal))
  /\ direct' = direct + 1 /\ returned' = returned + OrderTotal
  /\ UNCHANGED <<order, credits, failures>>

SaveDirect(r) ==
  /\ At(r, "given") /\ Finish(r)
  /\ order' = [order EXCEPT !.status = "refunded", !.refunded = work[r].n]
  /\ UNCHANGED <<credits, returned, direct, failures>>

Next ==
  \E r \in Slots :
    \/ RequestRefund(r) \/ SaveRequest(r) \/ ProcessRequest(r) \/ SaveRejection(r) \/ Credit(r)
    \/ SaveApproval(r) \/ ResetRequest(r) \/ RefundDirect(r) \/ SaveDirect(r)

Spec == Init /\ [][Next]_fvars

----------------
TypeOK ==
  /\ order.status \in {"completed", "refund_requested", "refund_rejected", "refunded"}
  /\ order.request \in {"none", "pending", "approved", "rejected"} /\ order.refunded \in 0..OrderTotal
  /\ credits \in Nat /\ returned \in Nat /\ direct \in 0..MaxDirect /\ failures \in 0..MaxFailures

\* "Refund request not found or already processed": one administrator at a
\* time, a request is credited once, and once more only for a save that
\* failed after a credit.
RequestPaidOnce == OneAtATime => credits <= 1 + failures

\* An order that says it was refunded was, by at least what it says, and a
\* rejected one was not; whoever processes it at the same time.
RefundedWasCredited ==
  /\ order.status = "refunded" => returned >= order.refunded /\ credits + direct > 0
  /\ OneAtATime /\ Quiet /\ order.status = "refund_rejected" => credits <= failures /\ direct = 0

----------------
\* What an order says of its refund is true for any cost, percentages,
\* number of administrators and failures; and administrators one after
\* another credit a request once, but for the saves that fail.

Bounded == OrderTotal \in Nat /\ Percentages \subseteq 0..100 /\ IsFiniteSet(Slots)

Places == {"request", "reject", "credit", "approve", "given"}
Works == {Idle} \cup [pc : Places, n : Nat]

Shape ==
  /\ order \in [status : {"completed", "refund_requested", "refund_rejected", "refunded"},
                request : {"none", "pending", "approved", "rejected"}, refunded : Nat]
  /\ credits \in Nat /\ returned \in Nat /\ direct \in Nat /\ failures \in Nat
  /\ work \in [Slots -> Works]

\* What a handler is about to write was credited.
Backed(h) ==
  /\ h.pc = "approve" => credits > 0 /\ h.n <= returned
  /\ h.pc = "given" => direct > 0 /\ h.n <= returned
Honest ==
  /\ order.refunded <= returned
  /\ order.status = "refunded" => credits + direct > 0
  /\ \A r \in Slots : Backed(work[r])

\* The only handler: before the request is credited there is at most a credit
\* for each failure, and before the order is refunded no direct refund.
Sole ==
  \A r \in Slots :
    Slots = {r} =>
      /\ credits <= failures + 1
      /\ order.status # "refunded" /\ work[r].pc # "approve" => credits <= failures
      /\ order.status # "refunded" /\ work[r].pc # "given" => direct = 0
      /\ work[r].pc = "request" => order.status = "completed"
      /\ work[r].pc \in {"reject", "credit", "approve"} => order.status = "refund_requested"

FInv == Shape /\ Honest /\ Sole

----------------
LEMMA GrantNat ==
  ASSUME Bounded, NEW p \in Percentages
  PROVE  (OrderTotal * p) \div 100 \in Nat
<1>1. p \in Nat /\ OrderTotal \in Nat
  BY DEF Bounded
<1>2. \A a, b \in Nat : a * b \in Nat
  OBVIOUS
<1>3. \A a \in Nat : a \div 100 \in Nat
  OBVIOUS
<1> QED BY <1>1, <1>2, <1>3

LEMMA BusySlot ==
  ASSUME Shape, NEW r \in Slots, work[r].pc # "idle"
  PROVE  work[r] \in [pc : Places, n : Nat]
  BY DEF Shape, Works, Idle

\* What the other handlers are about to write stays backed as the credits grow.
LEMMA OthersStayBacked ==
  ASSUME FInv, NEW r \in Slots, NEW h, work' = [work EXCEPT ![r] = h],
         credits' \in Nat, returned' \in Nat, direct' \in Nat,
         credits <= credits', returned <= returned', direct <= direct',
         h.pc = "approve" => credits' > 0 /\ h.n <= returned',
         h.pc = "given" => direct' > 0 /\ h.n <= returned'
  PROVE  \A q \in Slots : Backed(work[q])'
<1> SUFFICES ASSUME NEW q \in Slots
             PROVE  /\ work'[q].pc = "approve" => credits' > 0 /\ work'[q].n <= returned'
                    /\ work'[q].pc = "given" => direct' > 0 /\ work'[q].n <= returned'
  BY DEF Backed
<1>1. CASE q = r
  BY <1>1 DEF FInv, Shape
<1>2. CASE q # r
  <2>1. work'[q] = work[q]
    BY <1>2 DEF FInv, Shape
  <2>2. work[q].pc \in {"approve", "given"} => work[q].n \in Nat
    BY BusySlot DEF FInv
  <2>3. credits \in Nat /\ returned \in Nat /\ direct \in Nat /\ Backed(work[q])
    BY DEF FInv, Shape, Honest
  <2> QED BY <2>1, <2>2, <2>3 DEF Backed
<1> QED BY <1>1, <1>2

----------------
(* Requests that a handler begins with.                                    *)

LEMMA BeginKeeps ==
  ASSUME FInv, NEW r \in Slots, NEW pc \in Places, NEW n \in Nat, Begin(r, Handler(pc, n)),
         pc \in {"request", "reject", "credit"},
         pc = "request" => order.status = "completed",
         pc # "request" => order.status = "refund_requested",
         UNCHANGED <<order, credits, returned, direct, failures>>
  PROVE  FInv'
<1> DEFINE h == [pc |-> pc, n |-> n]
<1>1. h \in Works /\ Backed(h) /\ work' = [work EXCEPT ![r] = h] /\ work[r].pc = "idle"
  BY DEF Works, Backed, Begin, Handler, At
<1>2. Shape'
  BY <1>1 DEF FInv, Shape
<1>3. Honest'
  BY <1>1 DEF FInv, Shape, Honest, Backed
<1>4. Sole'
  BY <1>1 DEF FInv, Shape, Sole
<1> QED BY <1>2, <1>3, <1>4 DEF FInv

LEMMA RequestKeeps ==
  ASSUME Bounded, FInv, NEW r \in Slots, RequestRefund(r) \/ ProcessRequest(r)
  PROVE  FInv'
<1>1. CASE RequestRefund(r)
  BY <1>1, BeginKeeps DEF RequestRefund, Places
<1>2. CASE ProcessRequest(r) /\ Begin(r, Handler("reject", 0))
  BY <1>2, BeginKeeps DEF ProcessRequest, Places
<1>3. ASSUME NEW p \in Percentages, ProcessRequest(r), Begin(r, Handler("credit", (OrderTotal * p) \div 100))
      PROVE  FInv'
  <2>1. (OrderTotal * p) \div 100 \in Nat
    BY GrantNat
  <2> QED BY <1>3, <2>1, BeginKeeps DEF ProcessRequest, Places
<1> QED BY <1>1, <1>2, <1>3 DEF ProcessRequest

LEMMA DirectKeeps ==
  ASSUME Bounded, FInv, NEW r \in Slots, RefundDirect(r)
  PROVE  FInv'
<1> DEFINE h == [pc |-> "given", n |-> OrderTotal]
<1>1. /\ h \in Works /\ work' = [work EXCEPT ![r] = h] /\ work[r].pc = "idle"
      /\ direct' = direct + 1 /\ returned' = returned + OrderTotal
      /\ UNCHANGED <<order, credits, failures>>
  BY DEF RefundDirect, Begin, Handler, At, Works, Places, Bounded
<1>2. OrderTotal \in Nat
  BY DEF Bounded
<1>3. Shape'
  BY <1>1, <1>2 DEF FInv, Shape
<1>4. Honest'
  <2>1. /\ direct \in Nat /\ returned \in Nat /\ credits \in Nat /\ order.refunded \in Nat
        /\ order.refunded <= returned
    BY DEF FInv, Shape, Honest
  <2>2. /\ credits' \in Nat /\ returned' \in Nat /\ direct' \in Nat
        /\ credits <= credits' /\ returned <= returned' /\ direct <= direct'
        /\ h.pc = "given" /\ direct' > 0 /\ h.n <= returned'
    BY <1>1, <1>2, <2>1
  <2>3. \A q \in Slots : Backed(work[q])'
    <3>1. work' = [work EXCEPT ![r] = h]
      BY <1>1
    <3> HIDE DEF h
    <3> QED BY <2>2, <3>1, OthersStayBacked
  <2> QED BY <1>1, <1>2, <2>1, <2>2, <2>3 DEF Honest
<1>5. Sole'
  BY <1>1, <1>2 DEF FInv, Shape, Sole
<1> QED BY <1>3, <1>4, <1>5 DEF FInv

----------------
(* The writes of a handler.                                                *)

LEMMA CreditKeeps ==
  ASSUME FInv, NEW r \in Slots, Credit(r)
  PROVE  FInv'
<1> DEFINE h == [work[r] EXCEPT !.pc = "approve"]
<1>1. work[r] \in [pc : Places, n : Nat] /\ work[r].pc = "credit"
  BY BusySlot DEF FInv, Credit, At
<1>2. /\ h \in Works /\ h.pc = "approve" /\ h.n = work[r].n
      /\ work' = [work EXCEPT ![r] = h]
      /\ credits' = credits + 1 /\ returned' = returned + work[r].n
      /\ UNCHANGED <<order, direct, failures>>
  BY <1>1 DEF Credit, Goto, Works, Places
<1>3. Shape'
  BY <1>1, <1>2 DEF FInv, Shape
<1>4. Honest'
  <2>1. /\ direct \in Nat /\ returned \in Nat /\ credits \in Nat /\ order.refunded \in Nat
        /\ order.refunded <= returned /\ work[r].n \in Nat
    BY <1>1 DEF FInv, Shape, Honest
  <2>2. /\ credits' \in Nat /\ returned' \in Nat /\ direct' \in Nat
        /\ credits <= credits' /\ returned <= returned' /\ direct <= direct'
        /\ h.pc = "approve" /\ credits' > 0 /\ h.n <= returned'
    <3> HIDE DEF h
    <3> QED BY <1>2, <2>1
  <2>3. \A q \in Slots : Backed(work[q])'
    <3>1. work' = [work EXCEPT ![r] = h]
      BY <1>2
    <3> HIDE DEF h
    <3> QED BY <2>2, <3>1, OthersStayBacked
  <2> QED BY <1>2, <2>1, <2>2, <2>3 DEF Honest
<1>5. Sole'
  BY <1>1, <1>2 DEF FInv, Shape, Sole
<1> QED BY <1>3, <1>4, <1>5 DEF FInv

\* What each of the four writes does to the order.
Written(h) ==
  \/ h.pc = "request" /\ order' = [order EXCEPT !.status = "refund_requested", !.request = "pending"]
  \/ h.pc = "reject" /\ order' = [order EXCEPT !.status = "refund_rejected", !.request = "rejected"]
  \/ h.pc = "approve" /\ order' = [status |-> "refunded", request |-> "approved", refunded |-> h.n]
  \/ h.pc = "given" /\ order' = [order EXCEPT !.status = "refunded", !.refunded = h.n]

LEMMA SaveKeeps ==
  ASSUME FInv, NEW r \in Slots, SaveRequest(r) \/ SaveRejection(r) \/ SaveApproval(r) \/ SaveDirect(r)
  PROVE  FInv'
<1>1. work[r] \in [pc : Places, n : Nat]
  BY BusySlot DEF FInv, SaveRequest, SaveRejection, SaveApproval, SaveDirect, At
<1>2. /\ work' = [work EXCEPT ![r] = Idle] /\ Idle \in Works /\ Idle.pc = "idle"
      /\ UNCHANGED <<credits, returned, direct, failures>>
  BY DEF SaveRequest, SaveRejection, SaveApproval, SaveDirect, Finish, Idle, Works
<1>3. Written(work[r])
  BY DEF SaveRequest, SaveRejection, SaveApproval, SaveDirect, At, Written
<1> DEFINE Orders == [status : {"completed", "refund_requested", "refund_rejected", "refunded"},
                      request : {"none", "pending", "approved", "rejected"}, refunded : Nat]
<1>4. order \in Orders /\ work[r].n \in Nat /\ work[r].pc \in Places
  BY <1>1 DEF FInv, Shape
<1>5. /\ order' \in [status : {"refund_requested", "refund_rejected", "refunded"},
                     request : {"none", "pending", "approved", "rejected"}, refunded : Nat]
      /\ order'.refunded \in {order.refunded, work[r].n}
      /\ order'.refunded # order.refunded => work[r].pc \in {"approve", "given"}
      /\ order'.status = "refunded" <=> work[r].pc \in {"approve", "given"}
      /\ work[r].pc \in Places
  <2>1. CASE work[r].pc = "request" /\ order' = [order EXCEPT !.status = "refund_requested", !.request = "pending"]
    BY <1>4, <2>1
  <2>2. CASE work[r].pc = "reject" /\ order' = [order EXCEPT !.status = "refund_rejected", !.request = "rejected"]
    BY <1>4, <2>2
  <2>3. CASE work[r].pc = "approve" /\ order' = [status |-> "refunded", request |-> "approved", refunded |-> work[r].n]
    BY <1>4, <2>3
  <2>4. CASE work[r].pc = "given" /\ order' = [order EXCEPT !.status = "refunded", !.refunded = work[r].n]
    BY <1>4, <2>4
  <2> QED BY <1>3, <2>1, <2>2, <2>3, <2>4 DEF Written
<1>6. Shape'
  BY <1>2, <1>5 DEF FInv, Shape
<1>7. Honest'
  <2>1. Backed(work[r]) /\ order.refunded <= returned
    BY DEF FInv, Honest
  <2>2. /\ credits \in Nat /\ returned \in Nat /\ direct \in Nat
        /\ credits <= credits' /\ returned <= returned' /\ direct <= direct'
    BY <1>2 DEF FInv, Shape
  <2>3. order'.refunded <= returned'
    BY <1>2, <1>5, <2>1 DEF Backed
  <2>4. order'.status = "refunded" => credits' + direct' > 0
    BY <1>2, <1>5, <2>1, <2>2 DEF Backed
  <2>5. \A q \in Slots : Backed(work[q])'
    BY <1>2, <2>2, OthersStayBacked
  <2> QED BY <2>3, <2>4, <2>5 DEF Honest
<1>8. Sole'
  <2> SUFFICES ASSUME NEW q \in Slots, Slots = {q}
               PROVE  /\ credits' <= failures' + 1
                      /\ order'.status # "refunded" => credits' <= failures' /\ direct' = 0
                      /\ work'[q].pc = "idle"
    BY DEF Sole
  <2>1. q = r /\ work'[q].pc = "idle"
    BY <1>2 DEF FInv, Shape
  <2>2. /\ credits <= failures + 1
        /\ order.status # "refunded" /\ work[r].pc # "approve" => credits <= failures
        /\ order.status # "refunded" /\ work[r].pc # "given" => direct = 0
        /\ work[r].pc = "request" => order.status = "completed"
        /\ work[r].pc = "reject" => order.status = "refund_requested"
    BY <2>1 DEF FInv, Sole
  <2>3. credits \in Nat /\ failures \in Nat /\ direct \in Nat
    BY DEF FInv, Shape
  <2>4. order'.status # "refunded" => work[r].pc \in {"request", "reject"}
    BY <1>3, <1>5 DEF Written
  <2> QED BY <1>2, <2>1, <2>2, <2>3, <2>4
<1> QED BY <1>6, <1>7, <1>8 DEF FInv

LEMMA ResetKeeps ==
  ASSUME FInv, NEW r \in Slots, ResetRequest(r)
  PROVE  FInv'
<1>1. /\ work' = [work EXCEPT ![r] = Idle] /\ Idle \in Works /\ Backed(Idle) /\ Idle.pc = "idle"
      /\ work[r].pc \in {"credit", "approve"} /\ failures' = failures + 1
      /\ order' = [order EXCEPT !.status = "refund_requested", !.request = "pending"]
      /\ UNCHANGED <<credits, returned, direct>>
  BY DEF ResetRequest, Finish, Idle, Works, Backed
<1>2. /\ order'.status = "refund_requested" /\ order'.refunded = order.refunded
      /\ order' \in [status : {"refund_requested"}, request : {"pending"}, refunded : Nat]
  BY <1>1 DEF FInv, Shape
<1>3. Shape'
  BY <1>1, <1>2 DEF FInv, Shape
<1>4. Honest'
  BY <1>1, <1>2 DEF FInv, Shape, Honest, Backed
<1>5. Sole'
  BY <1>1, <1>2 DEF FInv, Shape, Sole
<1> QED BY <1>3, <1>4, <1>5 DEF FInv

----------------
LEMMA RefundInvariant ==
  ASSUME Bounded
  PROVE  Spec => []FInv
<1>1. Init => FInv
  BY DEF Init, FInv, Shape, Honest, Sole, Backed, NoHandler, Idle, Works
<1>2. FInv /\ [Next]_fvars => FInv'
  <2> SUFFICES ASSUME FInv, [Next]_fvars PROVE FInv'
    OBVIOUS
  <2>1. CASE UNCHANGED fvars
    BY <2>1 DEF fvars, FInv, Shape, Honest, Sole, Backed
  <2>2. CASE Next
    BY <2>2, RequestKeeps, DirectKeeps, CreditKeeps, SaveKeeps, ResetKeeps DEF Next
  <2> QED BY <2>1, <2>2
<1> QED BY <1>1, <1>2, PTL DEF Spec

LEMMA SingleSlot ==
  ASSUME Bounded, FInv, OneAtATime
  PROVE  \E r \in Slots : Slots = {r}
<1>1. DOMAIN work = Slots
  BY DEF FInv, Shape
<1> QED BY <1>1, FS_Singleton DEF OneAtATime, Bounded

\* An order that says it was refunded was, by at least what it says, for any
\* number of administrators; and one after another leave no rejected order
\* that was credited, but for the saves that failed.
THEOREM RefundsAreTrue ==
  ASSUME Bounded
  PROVE  Spec => []RefundedWasCredited
<1>1. FInv => RefundedWasCredited
  <2> SUFFICES ASSUME FInv PROVE RefundedWasCredited
    OBVIOUS
  <2>1. order.status = "refunded" => returned >= order.refunded /\ credits + direct > 0
    BY DEF FInv, Honest, Shape
  <2>2. ASSUME OneAtATime, Quiet, order.status = "refund_rejected"
        PROVE  credits <= failures /\ direct = 0
    <3>1. PICK r : Slots = {r}
      BY <2>2, SingleSlot
    <3>2. work[r].pc = "idle"
      BY <2>2, <3>1 DEF Quiet, At
    <3> QED BY <2>2, <3>1, <3>2 DEF FInv, Sole
  <2> QED BY <2>1, <2>2 DEF RefundedWasCredited
<1> QED BY <1>1, RefundInvariant, PTL

\* Administrators one after another: whatever the order cost and however many
\* saves fail, a request is credited once, and once more for each failure.
THEOREM RequestsArePaidOnce ==
  ASSUME Bounded
  PROVE  Spec => []RequestPaidOnce
<1>1. FInv => RequestPaidOnce
  <2> SUFFICES ASSUME FInv, OneAtATime PROVE credits <= 1 + failures
    BY DEF RequestPaidOnce
  <2>1. PICK r : Slots = {r}
    BY SingleSlot
  <2> QED BY <2>1 DEF FInv, Sole, Shape
<1> QED
  BY <1>1, RefundInvariant, PTL
================
