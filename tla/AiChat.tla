-------- MODULE AiChat --------
(***************************************************************************)
(* Chats with an AI astrologer (AiChatSessionService and AiChatGateway).   *)
(* A chat is paid for when it ends, by the time of its last message; it is *)
(* ended by its user, by the ticker, by the timer that runs after a        *)
(* disconnect, and by the cron that looks for stale chats.                 *)
(***************************************************************************)
EXTENDS Handlers, FiniteSetsExt, Functions

CONSTANTS
  Users, Sockets, None,
  MaxChats, Rate, Opening, FreeFirst, Lengths, MaxFailures

VARIABLES
  chat,      \* chat[s]; "length" is lastMessageAt - startTime in seconds
  cash,      \* cash[u]: user.wallet.balance
  used,      \* users with isAiFirstConsultationUsed
  listed,    \* the profile of the astrologer exists
  joined,    \* socketToSession, 0 for none
  grace,     \* chats with a disconnect timer
  ticking,   \* chats with a ticker
  answering, \* chats whose answer is being generated
  paid,      \* paid[s]: what was taken from the wallet for it (history)
  greetings, \* greetings[s] (history)
  failures

cvars == <<chat, cash, used, listed, joined, grace, ticking, answering, paid, greetings,
          failures, work>>

----------------
Chats == 1..MaxChats
NoChat == [user |-> None, status |-> "none", rate |-> 0, length |-> 0, cost |-> 0, greeted |-> FALSE]

Active(s) == chat[s].status = "active"
ChatsOf(u) == {s \in Chats : chat[s].user = u}
Gone(s) == chat[s].status \in {"none", "erased"}
Busy(u) == \E s \in ChatsOf(u) : Active(s)

\* settleSession: started minutes are billed in part, for three hours at most.
Calculated(rate, length) == (Min({length, 180 * 60}) * rate + 59) \div 60
\* Fault: the bill is not capped by the balance.
CostUncapped(rate, length, balance) == Calculated(rate, length)
Cost(rate, length, balance) == Max({Min({Calculated(rate, length), balance}), 0})

Init ==
  /\ chat = [s \in Chats |-> NoChat] /\ cash = [u \in Users |-> Opening] /\ used = {}
  /\ listed = TRUE /\ joined = [k \in Sockets |-> 0] /\ grace = {} /\ ticking = {}
  /\ answering = {} /\ paid = [s \in Chats |-> 0] /\ greetings = [s \in Chats |-> 0]
  /\ failures = 0 /\ NoHandler

(* Start. *)

\* Fault: the check for another chat is gone.
StartBusy(r, u) ==
  /\ listed
  /\ LET free == FreeFirst /\ u \notin used IN
       /\ free \/ cash[u] >= 2
       /\ Begin(r, [pc |-> "create", u |-> u, rate |-> IF free THEN 0 ELSE Rate])
  /\ UNCHANGED <<chat, cash, used, listed, joined, grace, ticking, answering, paid, greetings, failures>>
\* startSession: the checks, and the rate of the first consultation.
StartSession(r, u) ==
  /\ listed /\ ~Busy(u)
  /\ LET free == FreeFirst /\ u \notin used IN
       /\ free \/ cash[u] >= 2
       /\ Begin(r, [pc |-> "create", u |-> u, rate |-> IF free THEN 0 ELSE Rate])
  /\ UNCHANGED <<chat, cash, used, listed, joined, grace, ticking, answering, paid, greetings, failures>>

Create(r) ==
  /\ At(r, "create") /\ Finish(r)
  /\ \E s \in Chats :
       /\ chat[s] = NoChat /\ \A t \in 1..(s - 1) : chat[t] # NoChat
       /\ chat' = [chat EXCEPT ![s] = [NoChat EXCEPT !.user = work[r].u, !.status = "active",
                                                     !.rate = work[r].rate]]
  /\ UNCHANGED <<cash, used, listed, joined, grace, ticking, answering, paid, greetings, failures>>

(* Messages. *)
Later(s) == \E n \in Lengths : n >= chat[s].length /\ chat' = [chat EXCEPT ![s].length = n]

\* send_ai_message: the user's part is refused once the chat is over ...
SendMessage(s) ==
  /\ Active(s) /\ Later(s) /\ answering' = answering \cup {s}
  /\ UNCHANGED <<cash, used, listed, joined, grace, ticking, paid, greetings, failures, work>>

\* ... the answer, in one or more parts, is saved whatever has happened.
Answer(s) ==
  /\ s \in answering /\ ~Gone(s) /\ Later(s)
  /\ answering' \in {answering, answering \ {s}}
  /\ UNCHANGED <<cash, used, listed, joined, grace, ticking, paid, greetings, failures, work>>

\* The intake message asks for the greeting.
SendIntake(r, s) ==
  /\ Active(s) /\ Later(s) /\ Begin(r, [pc |-> "greet", s |-> s, greeted |-> chat[s].greeted])
  /\ UNCHANGED <<cash, used, listed, joined, grace, ticking, answering, paid, greetings, failures>>

Greet(s) ==
  /\ chat' = [chat EXCEPT ![s].greeted = TRUE]
  /\ greetings' = [greetings EXCEPT ![s] = @ + 1] /\ answering' = answering \cup {s}
\* Fault: the mark is the one that was read with the message.
MarkWhatWasRead(r) ==
  /\ At(r, "greet") /\ Finish(r)
  /\ LET s == work[r].s IN
       IF Gone(s) \/ work[r].greeted THEN UNCHANGED <<chat, greetings, answering>>
       ELSE Greet(s)
  /\ UNCHANGED <<cash, used, listed, joined, grace, ticking, paid, failures>>
\* markGreetingGenerated: one update with the condition in its query.
MarkGreeting(r) ==
  /\ At(r, "greet") /\ Finish(r)
  /\ LET s == work[r].s IN
       IF Gone(s) \/ chat[s].greeted THEN UNCHANGED <<chat, greetings, answering>>
       ELSE Greet(s)
  /\ UNCHANGED <<cash, used, listed, joined, grace, ticking, paid, failures>>

(* Sockets and timers, in memory. *)

\* Fault: the timer goes on.
JoinLate(k, s) ==
  /\ ~Gone(s) /\ joined' = [joined EXCEPT ![k] = s]
  /\ ticking' = IF Active(s) THEN ticking \cup {s} ELSE ticking
  /\ UNCHANGED <<chat, cash, used, listed, grace, answering, paid, greetings, failures, work>>
\* join_ai_chat
Join(k, s) ==
  /\ ~Gone(s) /\ joined' = [joined EXCEPT ![k] = s] /\ grace' = grace \ {s}
  /\ ticking' = IF Active(s) THEN ticking \cup {s} ELSE ticking
  /\ UNCHANGED <<chat, cash, used, listed, answering, paid, greetings, failures, work>>

\* handleDisconnect arms the timer anew; it does not ask for other sockets.
Disconnect(k) ==
  /\ joined[k] # 0 /\ joined' = [joined EXCEPT ![k] = 0]
  /\ grace' = grace \cup {joined[k]}
  /\ UNCHANGED <<chat, cash, used, listed, ticking, answering, paid, greetings, failures, work>>

Restart ==
  /\ failures < MaxFailures /\ failures' = failures + 1
  /\ joined' = [k \in Sockets |-> 0] /\ grace' = {} /\ ticking' = {} /\ answering' = {}
  /\ work' = [r \in Slots |-> Idle]
  /\ UNCHANGED <<chat, cash, used, listed, paid, greetings>>

(* End. *)

\* Fault: a chat that is over is settled again.
SettleAgain(r, s) ==
  Begin(r, [pc |-> "user", s |-> s, rate |-> chat[s].rate, length |-> chat[s].length])
\* endSession and settleSession return if the chat is over.
Settle(r, s) ==
  IF Active(s) THEN Begin(r, [pc |-> "user", s |-> s, rate |-> chat[s].rate, length |-> chat[s].length])
  ELSE At(r, "idle") /\ UNCHANGED work

\* leave_ai_chat, end_ai_chat and the REST call end it for its user; they
\* differ in what they clear.
LeaveChat(r, k, s) ==
  /\ ~Gone(s) /\ Settle(r, s) /\ joined' = [joined EXCEPT ![k] = 0]
  /\ grace' = grace \ {s} /\ ticking' = ticking \ {s}
  /\ UNCHANGED <<chat, cash, used, listed, answering, paid, greetings, failures>>

EndChat(r, k, s) ==
  /\ ~Gone(s) /\ Settle(r, s) /\ joined' = [joined EXCEPT ![k] = 0] /\ ticking' = ticking \ {s}
  /\ UNCHANGED <<chat, cash, used, listed, grace, answering, paid, greetings, failures>>

EndByRest(r, s) ==
  /\ ~Gone(s) /\ Settle(r, s)
  /\ UNCHANGED <<chat, cash, used, listed, joined, grace, ticking, answering, paid, greetings, failures>>

\* The minute after a disconnect is over.
GraceOver(r, s) ==
  /\ s \in grace /\ Settle(r, s) /\ grace' = grace \ {s} /\ ticking' = ticking \ {s}
  /\ UNCHANGED <<chat, cash, used, listed, joined, answering, paid, greetings, failures>>

\* Two seconds before the paid time is over.
TickerEnds(r, s) ==
  /\ s \in ticking /\ Settle(r, s) /\ ticking' = ticking \ {s}
  /\ UNCHANGED <<chat, cash, used, listed, joined, grace, answering, paid, greetings, failures>>

\* Fault: only chats that somebody has joined are looked at.
CleanupJoined(r, s) ==
  /\ Active(s) /\ s \in ticking /\ Settle(r, s)
  /\ UNCHANGED <<chat, cash, used, listed, joined, grace, ticking, answering, paid, greetings, failures>>
\* cleanupStaleSessions, every minute and at start: a chat without a message
\* for a minute, or beyond its time, and in the end each chat is.
Cleanup(r, s) ==
  /\ Active(s) /\ Settle(r, s)
  /\ UNCHANGED <<chat, cash, used, listed, joined, grace, ticking, answering, paid, greetings, failures>>

\* The profile and the user are read; without a profile the chat is free.
ReadUser(r) ==
  /\ At(r, "user")
  /\ LET h == work[r]  u == chat[h.s].user IN
       IF Gone(h.s) THEN Finish(r)
       ELSE IF ~listed THEN work' = [work EXCEPT ![r] = [pc |-> "close", s |-> h.s]]
       ELSE work' = [work EXCEPT ![r] = [pc |-> "end", s |-> h.s, u |-> u, rate |-> h.rate,
                       balance |-> cash[u], cost |-> Cost(h.rate, h.length, cash[u])]]
  /\ UNCHANGED <<chat, cash, used, listed, joined, grace, ticking, answering, paid, greetings, failures>>

Close(r) ==
  /\ At(r, "close") /\ Finish(r)
  /\ chat' = [chat EXCEPT ![work[r].s] = IF Gone(work[r].s) THEN @ ELSE [@ EXCEPT !.status = "ended"]]
  /\ UNCHANGED <<cash, used, listed, joined, grace, ticking, answering, paid, greetings, failures>>

\* A save of a document that was deleted fails.
SaveEnded(r) ==
  /\ At(r, "end")
  /\ LET h == work[r] IN
       IF Gone(h.s) THEN Finish(r) /\ UNCHANGED chat
       ELSE /\ chat' = [chat EXCEPT ![h.s].status = "ended", ![h.s].cost = h.cost]
            /\ IF h.rate = 0 \/ h.cost > 0 THEN Goto(r, "pay") ELSE Finish(r)
  /\ UNCHANGED <<cash, used, listed, joined, grace, ticking, answering, paid, greetings, failures>>

\* Fault: the first consultation is not marked.
PayOnly(r) ==
  /\ At(r, "pay") /\ Finish(r)
  /\ LET h == work[r] IN
       /\ cash' = IF h.cost > 0 THEN [cash EXCEPT ![h.u] = h.balance - h.cost] ELSE cash
       /\ paid' = [paid EXCEPT ![h.s] = @ + h.cost]
  /\ UNCHANGED <<chat, used, listed, joined, grace, ticking, answering, greetings, failures>>
\* user.save: the wallet that was read, less the cost.
SaveUser(r) ==
  /\ At(r, "pay") /\ Finish(r)
  /\ LET h == work[r] IN
       /\ used' = IF h.rate = 0 THEN used \cup {h.u} ELSE used
       /\ cash' = IF h.cost > 0 THEN [cash EXCEPT ![h.u] = h.balance - h.cost] ELSE cash
       /\ paid' = [paid EXCEPT ![h.s] = @ + h.cost]
  /\ UNCHANGED <<chat, listed, joined, grace, ticking, answering, greetings, failures>>

Fails(r) ==
  /\ ~At(r, "idle") /\ failures < MaxFailures /\ failures' = failures + 1 /\ Finish(r)
  /\ UNCHANGED <<chat, cash, used, listed, joined, grace, ticking, answering, paid, greetings>>

\* deleteSession: whatever its status, and without a bill.
DeleteSession(s) ==
  /\ ~Gone(s) /\ chat' = [chat EXCEPT ![s].status = "erased"]
  /\ UNCHANGED <<cash, used, listed, joined, grace, ticking, answering, paid, greetings, failures, work>>

\* An administrator deletes the astrologer.
Unlist ==
  /\ listed /\ listed' = FALSE
  /\ UNCHANGED <<chat, cash, used, joined, grace, ticking, answering, paid, greetings, failures, work>>

UserRequests(r) ==
  \/ \E u \in Users : StartSession(r, u)
  \/ \E s \in Chats : DeleteSession(s) \/ EndByRest(r, s)

SocketEvents(r) ==
  \/ \E s \in Chats, k \in Sockets : Join(k, s) \/ LeaveChat(r, k, s) \/ EndChat(r, k, s)
  \/ \E s \in Chats : SendMessage(s) \/ SendIntake(r, s) \/ Answer(s)
  \/ \E k \in Sockets : Disconnect(k)

Timers(r) == \E s \in Chats : GraceOver(r, s) \/ TickerEnds(r, s) \/ Cleanup(r, s)

Continues(r) == Create(r) \/ MarkGreeting(r) \/ ReadUser(r) \/ Close(r) \/ SaveEnded(r) \/ SaveUser(r)

Next ==
  \/ Restart \/ Unlist
  \/ \E r \in Slots : UserRequests(r) \/ SocketEvents(r) \/ Timers(r) \/ Continues(r) \/ Fails(r)

Fairness == \A r \in Slots : WF_cvars(Continues(r)) /\ \A s \in Chats : SF_cvars(Cleanup(r, s))

Spec == Init /\ [][Next]_cvars /\ Fairness

----------------
TypeOK ==
  /\ chat \in [Chats -> [user : Users \cup {None}, status : {"none", "active", "ended", "erased"},
                         rate : {0, Rate}, length : Nat, cost : Nat, greeted : BOOLEAN]]
  /\ cash \in [Users -> Int] /\ used \subseteq Users /\ listed \in BOOLEAN
  /\ joined \in [Sockets -> Chats \cup {0}] /\ grace \subseteq Chats
  /\ ticking \subseteq Chats /\ answering \subseteq Chats
  /\ paid \in [Chats -> Nat] /\ greetings \in [Chats -> Nat] /\ failures \in 0..MaxFailures

\* "Cap cost to user's balance to prevent over-deduction": no overlap of
\* settlements makes a wallet negative.
NeverBeyondBalance == \A u \in Users : cash[u] >= 0

\* One settlement after another: an ended chat was paid for once, by its cost,
\* and the wallet is short of just these, unless a request was cut off.
EndedIsPaid ==
  OneAtATime /\ failures = 0 /\ Quiet =>
    /\ \A s \in Chats : chat[s].status = "ended" => paid[s] = chat[s].cost
    /\ \A u \in Users : cash[u] + SumFunctionOnSet(paid, ChatsOf(u)) = Opening

\* A user has one free consultation, unless its chat was deleted while it was
\* active, its astrologer had gone, or a request was cut off.
FreeOnce ==
  OneAtATime /\ failures = 0 /\ listed =>
    \A u \in Users :
      LET chats == ChatsOf(u) IN
        (\A s \in chats : chat[s].status # "erased") =>
          Cardinality({s \in chats : chat[s].rate = 0}) <= 1

\* "PREVENT CONCURRENT SESSIONS": one request after another.
OneChatPerUser ==
  OneAtATime => \A u \in Users : Cardinality({s \in ChatsOf(u) : Active(s)}) <= 1

\* Intake messages that overlap, as after a reload of the page, make one
\* greeting.
GreetedOnce == \A s \in Chats : greetings[s] <= 1

\* A user with one socket who is back within the minute keeps the chat: no
\* timer runs for a chat that its user is in.
PresentIsKept ==
  Cardinality(Sockets) = 1 => \A k \in Sockets : joined[k] \notin grace

\* The cron ends what the timers, lost in a restart, do not.
ChatEnds == \A s \in Chats : Active(s) ~> ~Active(s)
================
