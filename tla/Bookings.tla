-------- MODULE Bookings --------
(***************************************************************************)
(* A report that is ordered, paid for and made as a PDF, and a puja, which *)
(* is ordered and paid for in the same way.  Every handler saves into the  *)
(* booking it read before.                                                 *)
(***************************************************************************)
EXTENDS Handlers

CONSTANTS Bookings, MaxRequests, MaxFailures, MaxRestarts

VARIABLES
  booking,   \* booking[b]: the document, NoBooking before it is saved
  signed,    \* bookings whose payment came with a valid signature (history)
  made,      \* made[b]: PDFs made for b (history)
  stuck,     \* bookings whose last save was lost, by failure or restart (history)
  requests, failures, restarts

kvars == <<booking, signed, made, stuck, requests, failures, restarts, work>>

----------------
NoBooking == [status |-> "none", pdf |-> "none", url |-> FALSE]

Init ==
  /\ booking = [b \in Bookings |-> NoBooking] /\ signed = {} /\ made = [b \in Bookings |-> 0]
  /\ stuck = {} /\ requests = 0 /\ failures = 0 /\ restarts = 0 /\ NoHandler

Accept(r, h) ==
  /\ requests < MaxRequests /\ requests' = requests + 1 /\ Begin(r, h)
  /\ UNCHANGED <<booking, made, stuck, failures, restarts>>

Written(b, d) ==
  /\ booking' = [booking EXCEPT ![b] = d]
  /\ UNCHANGED <<signed, stuck, requests, failures, restarts>>

\* The order at Razorpay comes first, so a payment always finds an order.
CreateBooking(r, b) ==
  /\ booking[b] = NoBooking /\ \A q \in Slots : ~At(q, "idle") => work[q].b # b
  /\ Accept(r, [pc |-> "create", b |-> b]) /\ UNCHANGED signed
SaveBooking(r) ==
  /\ At(r, "create") /\ Written(work[r].b, [booking[work[r].b] EXCEPT !.status = "pending"])
  /\ Finish(r) /\ UNCHANGED made

\* Fault: a booking that is paid is verified once more.
VerifyAgain(r, b, valid) ==
  /\ booking[b] # NoBooking
  /\ Accept(r, [pc |-> IF valid THEN "paid" ELSE "failed", b |-> b])
  /\ signed' = IF valid THEN signed \cup {b} ELSE signed
\* "Payment already verified"; a failed booking may still be paid, and to fail
\* once more writes nothing.
VerifyPayment(r, b, valid) ==
  /\ booking[b] # NoBooking /\ booking[b].status # "paid" /\ (~valid => booking[b].status # "failed")
  /\ Accept(r, [pc |-> IF valid THEN "paid" ELSE "failed", b |-> b])
  /\ signed' = IF valid THEN signed \cup {b} ELSE signed
SaveVerified(r) ==
  /\ \E s \in {"paid", "failed"} : At(r, s) /\ Written(work[r].b, [booking[work[r].b] EXCEPT !.status = s])
  /\ Finish(r) /\ UNCHANGED made

(* The PDF.  A failure is saved, even after another has made the PDF. *)

\* Fault: a PDF that is there is made once more.
GenerateAgain(r, b) ==
  /\ booking[b].status = "paid" /\ booking[b].pdf # "generating"
  /\ Accept(r, [pc |-> "begin", b |-> b]) /\ UNCHANGED signed
GeneratePdf(r, b) ==
  /\ booking[b].status = "paid" /\ booking[b].pdf # "generating"
  /\ ~(booking[b].pdf = "generated" /\ booking[b].url)
  /\ Accept(r, [pc |-> "begin", b |-> b]) /\ UNCHANGED signed

SaveGenerating(r) ==
  /\ At(r, "begin") /\ Written(work[r].b, [booking[work[r].b] EXCEPT !.pdf = "generating"])
  /\ Goto(r, "generate") /\ UNCHANGED made
Generate(r, ok) ==
  /\ At(r, "generate") /\ Goto(r, IF ok THEN "store" ELSE "give up")
  /\ made' = [made EXCEPT ![work[r].b] = @ + (IF ok THEN 1 ELSE 0)]
  /\ failures' = failures + (IF ok THEN 0 ELSE 1) /\ failures' <= MaxFailures
  /\ UNCHANGED <<booking, signed, stuck, requests, restarts>>
SaveGenerated(r) ==
  /\ At(r, "store") /\ Written(work[r].b, [booking[work[r].b] EXCEPT !.pdf = "generated", !.url = TRUE])
  /\ Finish(r) /\ UNCHANGED made
\* Fault: what was saved before it was tried stays.
GiveUp(r) == At(r, "give up") /\ Finish(r) /\ UNCHANGED <<booking, signed, made, stuck, requests, failures, restarts>>
SaveFailed(r) ==
  /\ At(r, "give up") /\ Written(work[r].b, [booking[work[r].b] EXCEPT !.pdf = "failed"])
  /\ Finish(r) /\ UNCHANGED made

\* A save throws: that of the PDF is answered as a failure to make it.
Throws(r) ==
  /\ \A pc \in {"idle", "generate"} : ~At(r, pc)
  /\ failures < MaxFailures /\ failures' = failures + 1
  /\ IF At(r, "store") THEN Goto(r, "give up") ELSE Finish(r)
  /\ stuck' = IF At(r, "give up") \/ At(r, "paid") THEN stuck \cup {work[r].b} ELSE stuck
  /\ UNCHANGED <<booking, signed, made, requests, restarts>>

Restart ==
  /\ ~Quiet /\ restarts < MaxRestarts /\ restarts' = restarts + 1 /\ work' = [r \in Slots |-> Idle]
  /\ stuck' = stuck \cup {work[r].b : r \in {q \in Slots : ~At(q, "idle")}}
  /\ UNCHANGED <<booking, signed, made, requests, failures>>

Next ==
  \/ \E r \in Slots, b \in Bookings :
       CreateBooking(r, b) \/ GeneratePdf(r, b) \/ \E valid \in BOOLEAN : VerifyPayment(r, b, valid)
  \/ \E r \in Slots :
       \/ SaveBooking(r) \/ SaveVerified(r) \/ SaveGenerating(r) \/ SaveGenerated(r) \/ SaveFailed(r) \/ Throws(r)
       \/ \E ok \in BOOLEAN : Generate(r, ok)
  \/ Restart

Spec == Init /\ [][Next]_kvars

----------------
TypeOK ==
  /\ booking \in [Bookings -> [status : {"none", "pending", "paid", "failed"},
                               pdf : {"none", "generating", "generated", "failed"}, url : BOOLEAN]]
  /\ signed \subseteq Bookings /\ stuck \subseteq Bookings /\ made \in [Bookings -> Nat]
  /\ {requests, failures, restarts} \subseteq Nat /\ DOMAIN work = Slots

\* "Payment verified": a booking is paid, and a PDF made, only after a valid
\* signature; and one request at a time no later verification takes it back.
PaidIsSigned ==
  \A b \in Bookings :
    /\ (booking[b].status = "paid" \/ made[b] > 0) => b \in signed
    /\ (OneAtATime /\ Quiet /\ b \in signed \ stuck) => booking[b].status = "paid"

\* "PDF is currently being generated": somebody is at it, but for a restart or
\* a failure that could not be saved, however many ask at once.
GeneratingIsAlive ==
  \A b \in Bookings \ stuck :
    booking[b].pdf = "generating" =>
      \E r \in Slots : (\E pc \in {"generate", "store", "give up"} : At(r, pc)) /\ work[r].b = b

\* One request at a time and without a failure, a PDF is made once.
MadeOnce == (OneAtATime /\ failures = 0 /\ restarts = 0) => \A b \in Bookings : made[b] <= 1
================
