-------- MODULE MCProgress --------
(***************************************************************************)
(* Instances of Stream, CallSession, AiChat, Availability and Scheduler    *)
(* whose progress TLC checks: a call, an AI chat and a due notification    *)
(* come to their end, and an astrologer can be asked again.  "focus" says  *)
(* which of them the run looks at.  Scheduler is extended, so that TLC     *)
(* checks the very definitions that its theorem is about; the others       *)
(* share variables.                                                        *)
(***************************************************************************)
EXTENDS Scheduler, Integers, Sequences, FiniteSets, TLC

CONSTANTS none, u1, u2, r1, r2, k1, s1, s2

VARIABLE focus
\* The variables of the component in focus, in the order of its module.
VARIABLES v1, v2, v3, v4, v5, v6, v7, v8, v9, v10, v11, v12, v13, v14

vars == <<focus, nvars, v1, v2, v3, v4, v5, v6, v7, v8, v9, v10, v11, v12, v13, v14>>

Strangers == [s \in {s1} |-> u1]

PaidCalls == INSTANCE CallSession WITH
  Users <- {u1}, Sessions <- {s1}, Requests <- {r1}, UserOf <- Strangers, Continued <- {}, Rate
    <- 10, Opening <- 50, Recharges <- {40}, Spends <- {40}, MaxBalance <- 50, Moments <- {316},
    MaxFaults <- 2, ses <- v1, joined <- v2, elapsed <- v3, old <- v4, timer <- v5, ending <-
    v6, balance <- v7, topUp <- v8, req <- v9, faults <- v10, charged <- v11, opened <- v12,
    bills <- v13, booked <- v14
Calls == INSTANCE Stream WITH
  Viewers <- {u1}, MaxStreams <- 2, MaxCalls <- 2, Slots <- {r1}, Price <- 1, Opening <- 6,
    Lengths <- {1, 7}, GiftAmount <- 5, MaxWaiting <- 1, MaxFailures <- 1, NoOne <- none, stream
    <- v1, deal <- v2, host <- v3, timer <- v4, failures <- v5, purse <- v6, charged <- v7,
    bills <- v8, received <- v9, work <- v10
AiChats == INSTANCE AiChat WITH
  Slots <- {r1, r2}, Users <- {u1}, Sockets <- {k1}, None <- none, MaxChats <- 1, Rate <- 5,
    Opening <- 7, FreeFirst <- TRUE, Lengths <- {0, 90}, MaxFailures <- 1, chat <- v1, cash <-
    v2, used <- v3, listed <- v4, joined <- v5, grace <- v6, ticking <- v7, answering <- v8,
    paid <- v9, greetings <- v10, failures <- v11, work <- v12
Asked == INSTANCE Availability WITH
  Slots <- {r1}, Sessions <- {s1}, UserOf <- Strangers, Longest <- 1, MaxOthers <- 2,
    MaxFailures <- 1, MaxRestarts <- 1, ses <- v1, flag <- v2, online <- v3, live <- v4, byHand
    <- v5, others <- v6, failures <- v7, restarts <- v8, work <- v9

GroupInit ==
  /\ focus \in {"notifications", "paid calls", "calls", "AI chats", "an astrologer"}
  /\ Init
  /\ focus = "notifications" => v1 = 0 /\ v2 = 0 /\ v3 = 0 /\ v4 = 0 /\ v5 = 0 /\ v6 = 0 /\ v7 =
    0 /\ v8 = 0 /\ v9 = 0 /\ v10 = 0 /\ v11 = 0 /\ v12 = 0 /\ v13 = 0 /\ v14 = 0
  /\ focus = "paid calls" => PaidCalls!Init
  /\ focus = "calls" => Calls!Init /\ v11 = 0 /\ v12 = 0 /\ v13 = 0 /\ v14 = 0
  /\ focus = "AI chats" => AiChats!Init /\ v13 = 0 /\ v14 = 0
  /\ focus = "an astrologer" => Asked!Init /\ v10 = 0 /\ v11 = 0 /\ v12 = 0 /\ v13 = 0 /\ v14 =
    0

GroupNext ==
  \/ focus = "notifications" /\ Next /\ UNCHANGED <<focus, v1, v2, v3, v4, v5, v6, v7, v8, v9,
    v10, v11, v12, v13, v14>>
  \/ focus = "paid calls" /\ PaidCalls!Next /\ UNCHANGED <<focus, nvars>>
  \/ focus = "calls" /\ Calls!Next /\ UNCHANGED <<focus, nvars, v11, v12, v13, v14>>
  \/ focus = "AI chats" /\ AiChats!Next /\ UNCHANGED <<focus, nvars, v13, v14>>
  \/ focus = "an astrologer" /\ Asked!Next /\ UNCHANGED <<focus, nvars, v10, v11, v12, v13,
    v14>>

paidVars == PaidCalls!vars
callVars == Calls!vars
aiVars == AiChats!cvars
askedVars == Asked!avars

\* Handlers go on, and an armed interval or a cron whose work waits runs.
GroupFairness ==
  /\ Fairness
  /\ WF_callVars(focus = "calls" /\ Calls!Continues(r1))
  /\ SF_callVars(focus = "calls" /\ \E s \in 1..2 : Calls!TimerFires(r1, s))
  /\ WF_paidVars(focus = "paid calls" /\ PaidCalls!Continues(r1))
  /\ WF_paidVars(focus = "paid calls" /\ (PaidCalls!Wait(s1) \/ PaidCalls!Ages(s1)))
  /\ SF_paidVars(focus = "paid calls" /\ (PaidCalls!RequestTimeout(r1, s1) \/ PaidCalls!JoinTimeout(r1, s1)
                                         \/ PaidCalls!HungBegin(r1, s1) \/ PaidCalls!Sweep(r1, s1)))
  /\ \A r \in {r1, r2} : WF_aiVars(focus = "AI chats" /\ AiChats!Continues(r))
  /\ SF_aiVars(focus = "AI chats" /\ \E r \in {r1, r2} : AiChats!Cleanup(r, 1))
  /\ WF_askedVars(focus = "an astrologer" /\ (Asked!Continues(r1) \/ Asked!Minute))
  /\ \A s \in {s1} :
       SF_askedVars(focus = "an astrologer" /\ (Asked!TimerFires(r1, s) \/ Asked!CleanupPending(r1, s) \/ Asked!HandleStale(r1, s)))

GroupSpec == GroupInit /\ [][GroupNext]_vars /\ GroupFairness

----------------
TypesOK ==
  /\ TypeOK
  /\ focus = "paid calls" => PaidCalls!TypeOK
  /\ focus = "calls" => Calls!TypeOK
  /\ focus = "AI chats" => AiChats!TypeOK
  /\ focus = "an astrologer" => Asked!TypeOK

\* Intake messages that overlap, as after a reload of the page, make one
\* greeting.
GreetedOnce == focus = "AI chats" => AiChats!GreetedOnce
\* A call ends by itself: a process that goes on has its interval armed.
Calling(s) == focus = "calls" /\ Calls!Calling(s)
CallEnds == \A s \in 1..2 : Calling(s) ~> ~Calling(s)
\* A request for a paid call does not stay open, and the call it becomes ends
\* by itself, although a restart loses every timer.
PaidCalling == focus = "paid calls" /\ v1[s1].status \in PaidCalls!Pending \cup {"active"}
PaidCallEnds == PaidCalling ~> ~PaidCalling
\* The cron ends what the timers, lost in a restart, do not.
Chatting == focus = "AI chats" /\ AiChats!Active(1)
ChatEnds == Chatting ~> ~Chatting
\* A session that a handler or a timer was lost for is over in the end, and
\* the astrologer can be asked again unless the astrologer does not want it.
AskedAgain == []<>~(focus = "an astrologer" /\ Asked!Unasked)
\* Sessions come to an end, whatever was lost.
SessionsEnd == PaidCallEnds /\ CallEnds /\ ChatEnds /\ AskedAgain
================
