-------- MODULE Remedies --------
(***************************************************************************)
(* Remedies that astrologers suggest (RemediesService), and the webhook by *)
(* which the shop tells of a purchase (ShopifyWebhookService).  The shop   *)
(* names a product, not a user: every unbought remedy with the product is  *)
(* marked, whoever it was suggested to.                                    *)
(***************************************************************************)
EXTENDS Handlers

CONSTANTS
  Users, Products, Manual,  \* Manual: a remedy without a product
  MaxRemedies, MaxPurchases, MaxFailures

VARIABLES
  remedy,     \* remedy[i]
  purchases,  \* orders the shop has told of
  due,        \* remedies that were suggested, unbought, when their product's
              \* purchase came in (history)
  failures

yvars == <<remedy, purchases, due, failures, work>>

----------------
Ids == 1..MaxRemedies
NoRemedy == [user |-> "none", product |-> Manual, status |-> "none", bought |-> FALSE]
Free == {i \in Ids : remedy[i].status = "none"}
Made == Ids \ Free
Unbought(p) == {i \in Made : remedy[i].product = p /\ ~remedy[i].bought}

\* save() writes the status only if it differs from the copy that was read.
Write(seen, new, old) == IF new = seen THEN old ELSE new

Init ==
  /\ remedy = [i \in Ids |-> NoRemedy] /\ purchases = 0 /\ due = {} /\ failures = 0 /\ NoHandler

\* suggestManualRemedy, suggestProductRemedy; suggestBulkProducts is a series.
SuggestRemedy(u, p) ==
  /\ \E i \in Free :
       /\ \A j \in Free : i <= j
       /\ remedy' = [remedy EXCEPT ![i] =
                       [user |-> u, product |-> p, status |-> "suggested", bought |-> FALSE]]
  /\ UNCHANGED <<purchases, due, failures, work>>

\* Fault: a remedy that was answered is answered again.
AnswerAgain(r, i, answer) ==
  /\ i \in Made /\ Begin(r, [pc |-> "answer", i |-> i, answer |-> answer, seen |-> remedy[i].status])
  /\ UNCHANGED <<remedy, purchases, due, failures>>
\* updateRemedyStatus: "already responded".
UpdateRemedyStatus(r, i, answer) ==
  /\ remedy[i].status = "suggested"
  /\ Begin(r, [pc |-> "answer", i |-> i, answer |-> answer, seen |-> "suggested"])
  /\ UNCHANGED <<remedy, purchases, due, failures>>

SaveAnswer(r) ==
  /\ At(r, "answer") /\ Finish(r)
  /\ remedy' = [remedy EXCEPT ![work[r].i].status = Write(work[r].seen, work[r].answer, @)]
  /\ UNCHANGED <<purchases, due, failures>>

\* orders/create: markAsPurchased finds the unbought remedies of a line item.
OrderCreated(r, p) ==
  /\ purchases < MaxPurchases /\ purchases' = purchases + 1
  /\ Begin(r, [pc |-> "mark", todo |-> Unbought(p),
               open |-> {i \in Unbought(p) : remedy[i].status = "suggested"}])
  /\ due' = due \cup Unbought(p)
  /\ UNCHANGED <<remedy, failures>>

Marked(r, i) == [remedy[i] EXCEPT !.bought = TRUE,
                                  !.status = IF i \in work[r].open THEN "accepted" ELSE @]
\* Fault: the answer stays open.
MarkBought(r, i) ==
  /\ At(r, "mark") /\ i \in work[r].todo
  /\ remedy' = [remedy EXCEPT ![i].bought = TRUE]
  /\ work' = [work EXCEPT ![r].todo = @ \ {i}]
  /\ UNCHANGED <<purchases, due, failures>>
\* They are saved one by one; a purchase answers what was not answered.
MarkPurchased(r, i) ==
  /\ At(r, "mark") /\ i \in work[r].todo
  /\ remedy' = [remedy EXCEPT ![i] = Marked(r, i)]
  /\ work' = [work EXCEPT ![r].todo = @ \ {i}]
  /\ UNCHANGED <<purchases, due, failures>>

\* Fault: one purchase pays for one remedy.
MarkedFirst(r) ==
  /\ At(r, "mark") /\ work[r].todo # {} /\ Finish(r)
  /\ UNCHANGED <<remedy, purchases, due, failures>>
Delivered(r) ==
  /\ At(r, "mark") /\ work[r].todo = {} /\ Finish(r)
  /\ UNCHANGED <<remedy, purchases, due, failures>>

\* An error is logged, the webhook is answered with 200, and not sent again.
Fails(r) ==
  /\ ~At(r, "idle") /\ failures < MaxFailures /\ failures' = failures + 1 /\ Finish(r)
  /\ UNCHANGED <<remedy, purchases, due>>

Next ==
  \/ \E u \in Users, p \in Products \cup {Manual} : SuggestRemedy(u, p)
  \/ \E r \in Slots :
       \/ \E i \in Ids :
            MarkPurchased(r, i) \/ \E a \in {"accepted", "rejected"} : UpdateRemedyStatus(r, i, a)
       \/ \E p \in Products : OrderCreated(r, p)
       \/ SaveAnswer(r) \/ Delivered(r) \/ Fails(r)

Spec == Init /\ [][Next]_yvars

----------------
TypeOK ==
  /\ \A i \in Made : remedy[i] \in [user : Users, product : Products \cup {Manual},
                       status : {"suggested", "accepted", "rejected"}, bought : BOOLEAN]
  /\ purchases \in 0..MaxPurchases /\ due \in SUBSET Ids /\ failures \in 0..MaxFailures

\* A remedy that was bought is not waiting for an answer, however the webhook
\* and the user's answer interleave.
BoughtIsAnswered == \A i \in Ids : remedy[i].bought => remedy[i].status # "suggested"

\* "Products that were suggested AND purchased": unless a webhook failed, a
\* purchase reaches every remedy that waited for it.
PurchaseIsMarked == Quiet /\ failures = 0 => \A i \in due : remedy[i].bought

\* "Remedy not found or already responded": one request at a time, an answer
\* is not taken back.
AnswerStays ==
  OneAtATime => \A i \in Made : remedy[i].status # "suggested" => remedy'[i].status = remedy[i].status
AnswerStands == [][AnswerStays]_remedy
================
