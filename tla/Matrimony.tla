-------- MODULE Matrimony --------
(***************************************************************************)
(* Interests between two users and the chat that an accepted interest      *)
(* opens (MatrimonyService, MatrimonyChatService).  A message costs one of *)
(* a pack that its sender has bought for this interest.                    *)
(***************************************************************************)
EXTENDS Handlers, FiniteSetsExt

CONSTANTS Users, Tiers, MaxOrders, MaxMessages, MaxMatches, MaxSpending, MaxFailures

VARIABLES
  interest,  \* interest[p], p = <<sender, receiver>>
  matches,   \* matchCount of a profile
  enabled,   \* MatrimonyChatSettings.isEnabled
  order,     \* order[n]
  messages,  \* messages recorded so far
  charged,   \* taken from the wallet for packs (history)
  spent,     \* messages sent while the chat was paid (history)
  answered,  \* interests answered after they had been accepted (history)
  failures

mvars == <<interest, matches, enabled, order, messages, charged, spent, answered, failures, work>>

----------------
Pairs == {p \in Users \X Users : p[1] # p[2]}
Members(p) == {p[1], p[2]}
Orders == 1..MaxOrders
NoOrder == [status |-> "none", total |-> 0, used |-> 0, paid |-> 0]

Price(tier) == 2 * tier  \* a tier is named by its number of messages

Init ==
  /\ interest = [p \in Pairs |-> "none"] /\ matches = [u \in Users |-> 0] /\ enabled = TRUE
  /\ order = [n \in Orders |-> NoOrder] /\ messages = 0 /\ charged = 0 /\ spent = 0
  /\ answered = {} /\ failures = 0 /\ NoHandler

(* Interests. *)

\* sendInterest returns an earlier interest of the same sender.
SendInterest(p) ==
  /\ interest[p] = "none" /\ interest' = [interest EXCEPT ![p] = "pending"]
  /\ UNCHANGED <<matches, enabled, order, messages, charged, spent, answered, failures, work>>

\* Fault: a rejection counts too.
CountAnswer(r, p, answer) ==
  /\ interest[p] # "none" /\ matches[p[1]] < MaxMatches /\ interest' = [interest EXCEPT ![p] = answer]
  /\ answered' = IF interest[p] = "accepted" THEN answered \cup {p} ELSE answered
  /\ Begin(r, [pc |-> "count", p |-> p])
  /\ UNCHANGED <<matches, enabled, order, messages, charged, spent, failures>>
\* handleInterestResponse does not ask for the status it replaces.
Respond(r, p, answer) ==
  /\ interest[p] # "none" /\ matches[p[1]] < MaxMatches /\ interest' = [interest EXCEPT ![p] = answer]
  /\ answered' = IF interest[p] = "accepted" THEN answered \cup {p} ELSE answered
  /\ IF answer = "accepted" THEN Begin(r, [pc |-> "count", p |-> p])
     ELSE At(r, "idle") /\ UNCHANGED work
  /\ UNCHANGED <<matches, enabled, order, messages, charged, spent, failures>>

CountMatch(r) ==
  /\ At(r, "count") /\ Finish(r)
  /\ matches' = [u \in Users |-> matches[u] + IF u \in Members(work[r].p) THEN 1 ELSE 0]
  /\ UNCHANGED <<interest, enabled, order, messages, charged, spent, answered, failures>>

(* Packs, for one user of one interest. *)
Matched == \E p \in Pairs : interest[p] = "accepted"
\* getActiveOrder
Usable == {n \in Orders : order[n].status = "active" /\ order[n].used < order[n].total}

\* purchaseChatTime checks and takes the price from the wallet ...
Purchase(r, tier) ==
  /\ enabled /\ Matched /\ charged' = charged + Price(tier) /\ charged' <= MaxSpending
  /\ \E n \in Orders : order[n] = NoOrder
  /\ Begin(r, [pc |-> "order", tier |-> tier])
  /\ UNCHANGED <<interest, matches, enabled, order, messages, spent, answered, failures>>

\* ... reads the order there is ...
FindOrder(r) ==
  /\ At(r, "order")
  /\ LET tier == work[r].tier IN
       IF Usable = {} THEN work' = [work EXCEPT ![r] = [pc |-> "open", tier |-> tier]]
       ELSE \E n \in Usable :
         work' = [work EXCEPT ![r] = [pc |-> "add", tier |-> tier, n |-> n, seen |-> order[n]]]
  /\ UNCHANGED <<interest, matches, enabled, order, messages, charged, spent, answered, failures>>

\* Fault: only the messages are added.
AddMessages(r) ==
  /\ At(r, "add") /\ Finish(r)
  /\ LET h == work[r] IN order' = [order EXCEPT ![h.n].total = h.seen.total + h.tier]
  /\ UNCHANGED <<interest, matches, enabled, messages, charged, spent, answered, failures>>
\* ... and adds the pack to what it has read, or opens an order.
AddPack(r) ==
  /\ At(r, "add") /\ Finish(r)
  /\ LET h == work[r] IN
       order' = [order EXCEPT ![h.n].total = h.seen.total + h.tier,
                              ![h.n].paid = h.seen.paid + Price(h.tier)]
  /\ UNCHANGED <<interest, matches, enabled, messages, charged, spent, answered, failures>>

OpenOrder(r) ==
  /\ At(r, "open") /\ Finish(r)
  /\ \E n \in Orders :
       /\ order[n] = NoOrder /\ \A m \in 1..(n - 1) : order[m] # NoOrder
       /\ order' = [order EXCEPT ![n] = [status |-> "active", total |-> work[r].tier, used |-> 0,
                                         paid |-> Price(work[r].tier)]]
  /\ UNCHANGED <<interest, matches, enabled, messages, charged, spent, answered, failures>>

(* Messages. *)

\* sendMessage: QUOTA_EXHAUSTED without a usable order.
SendMessage(r) ==
  /\ Matched /\ messages < MaxMessages
  /\ IF enabled
     THEN \E n \in Usable : Begin(r, [pc |-> "deduct", n |-> n, seen |-> order[n]])
     ELSE Begin(r, [pc |-> "record", free |-> TRUE])
  /\ UNCHANGED <<interest, matches, enabled, order, messages, charged, spent, answered, failures>>

\* Fault: the order is exhausted one message late.
DeductLate(r) ==
  /\ At(r, "deduct")
  /\ LET h == work[r]  used == h.seen.used + 1 IN
       order' = [order EXCEPT ![h.n].used = used,
                              ![h.n].status = IF used > h.seen.total THEN "exhausted" ELSE @]
  /\ work' = [work EXCEPT ![r] = [pc |-> "record", free |-> FALSE]]
  /\ UNCHANGED <<interest, matches, enabled, messages, charged, spent, answered, failures>>
Deduct(r) ==
  /\ At(r, "deduct")
  /\ LET h == work[r]  used == h.seen.used + 1 IN
       order' = [order EXCEPT ![h.n].used = used,
                              ![h.n].status = IF used >= h.seen.total THEN "exhausted" ELSE @]
  /\ work' = [work EXCEPT ![r] = [pc |-> "record", free |-> FALSE]]
  /\ UNCHANGED <<interest, matches, enabled, messages, charged, spent, answered, failures>>

Record(r) ==
  /\ At(r, "record") /\ Finish(r) /\ messages' = messages + 1
  /\ spent' = IF work[r].free THEN spent ELSE spent + 1
  /\ UNCHANGED <<interest, matches, enabled, order, charged, answered, failures>>

Fails(r) ==
  /\ ~At(r, "idle") /\ failures < MaxFailures /\ failures' = failures + 1 /\ Finish(r)
  /\ UNCHANGED <<interest, matches, enabled, order, messages, charged, spent, answered>>

UpdateChatSettings ==
  /\ enabled' = ~enabled
  /\ UNCHANGED <<interest, matches, order, messages, charged, spent, answered, failures, work>>

ProfileRequests(r) ==
  \E p \in Pairs : SendInterest(p) \/ \E answer \in {"accepted", "rejected"} : Respond(r, p, answer)

ChatRequests(r) == UpdateChatSettings \/ SendMessage(r) \/ \E tier \in Tiers : Purchase(r, tier)

Next ==
  \E r \in Slots :
    \/ ProfileRequests(r) \/ ChatRequests(r) \/ CountMatch(r) \/ FindOrder(r) \/ AddPack(r)
    \/ OpenOrder(r) \/ Deduct(r) \/ Record(r) \/ Fails(r)

Spec == Init /\ [][Next]_mvars

----------------
TypeOK ==
  /\ interest \in [Pairs -> {"none", "pending", "accepted", "rejected"}]
  /\ matches \in [Users -> Nat] /\ enabled \in BOOLEAN
  /\ order \in [Orders -> [status : {"none", "active", "exhausted"}, total : Nat, used : Nat, paid : Nat]]
  /\ messages \in 0..MaxMessages /\ charged \in Nat /\ spent \in Nat
  /\ answered \subseteq Pairs /\ failures \in 0..MaxFailures

SumOf(f(_)) == MapThenSumSet(f, Orders)

\* One request at a time, none of which failed: each message that was paid for
\* can be sent, each that was sent is counted, and the orders hold the money.
PacksAgree ==
  OneAtATime /\ failures = 0 /\ Quiet =>
    /\ charged = SumOf(LAMBDA n : order[n].paid) /\ spent = SumOf(LAMBDA n : order[n].used)
    /\ \A n \in Orders : order[n].paid = Price(order[n].total)

\* One request at a time: an order is exhausted when its last message is used
\* and not before.
ExhaustedWhenUsed ==
  OneAtATime => \A n \in Orders : order[n].status = "exhausted" <=> order[n].used > 0 /\ order[n].used >= order[n].total

\* matchCount counts the accepted interests of a user, unless an accepted one
\* was answered again or a request failed.
MatchesCounted ==
  failures = 0 /\ Quiet /\ answered = {} =>
    \A u \in Users :
      matches[u] = Cardinality({p \in Pairs : u \in Members(p) /\ interest[p] = "accepted"})
================
