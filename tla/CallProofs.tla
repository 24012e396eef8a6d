-------- MODULE CallProofs --------
(***************************************************************************)
(* Theorems about CallSession for any number of sessions, handlers and     *)
(* faults; in the second part about the calls of AiVoice; in the third     *)
(* about Availability, the flags that chats and calls share; in the fourth *)
(* about Recording, the recorders of calls and streams; and in the fifth   *)
(* about Audience, the viewers and the host of a stream.                   *)
(***************************************************************************)
EXTENDS CallSession, FiniteSetTheorems, TLAPS

\* What a handler has in hand: the limit it is about to grant, the price it
\* is about to take, and that it was taken.
Sound(h) ==
  /\ (h.pc = "read" /\ h.kind = "extend") \/ h.pc \in {"starting", "armed"} => h.n \in Nat
  /\ h.pc \in {"priced", "paid"} => h.n \in Nat \ {0} /\ ~h.ok
  /\ h.pc = "paid" \/ (h.pc = "closing" /\ h.ok) => charged[h.s] > 0
Checked == \A r \in Requests : Sound(req[r])

\* The handlers about to take a payment for s, and whether s is open.
Billing(s) == {r \in Requests : req[r].pc = "priced" /\ req[r].s = s}
Open(s) == IF ses[s].status \in Over THEN 0 ELSE 1

\* Each time a session was open accounts for one payment: taken, about to be
\* taken, or still to come.
OpeningsAccounted ==
  \A s \in Sessions : bills[s] + Cardinality(Billing(s)) + Open(s) <= opened[s]

CInv == TypeOK /\ Checked /\ PaidWasCharged
BillInv == CInv /\ OpeningsAccounted

----------------
(* What the helpers do to the slots and to the documents.                  *)

LEMMA BusySlot ==
  ASSUME TypeOK, NEW r \in Requests, req[r].pc # "idle"
  PROVE  req[r] \in Handlers
  BY DEF TypeOK, Idle

LEMMA ElapsedNat ==
  ASSUME TypeOK, NEW s \in Sessions
  PROVE  elapsed[s] \in Nat
<1>1. elapsed[s] \in Moments \cup {0}
  BY DEF TypeOK
<1>2. \A m \in Moments : m \in Nat
  BY CallAssumption
<1> QED BY <1>1, <1>2

LEMMA BeginSlot ==
  ASSUME TypeOK, NEW r \in Requests, NEW kind \in Kinds, NEW s \in Sessions,
         NEW pc \in Places, NEW n \in Nat \cup {-1}, NEW seen \in SUBSET Roles,
         Begin(r, kind, s, pc, n, seen)
  PROVE  req' \in [Requests -> Handlers \cup {Idle}]
  BY DEF TypeOK, Begin, Handlers

LEMMA GotoSlot ==
  ASSUME TypeOK, NEW r \in Requests, req[r].pc # "idle", NEW pc \in Places, Goto(r, pc)
  PROVE  req' \in [Requests -> Handlers \cup {Idle}]
<1>1. [req[r] EXCEPT !.pc = pc] \in Handlers
  BY BusySlot DEF Handlers
<1> QED BY <1>1 DEF TypeOK, Goto

LEMMA FinishSlot ==
  ASSUME TypeOK, NEW r \in Requests, Finish(r)
  PROVE  req' \in [Requests -> Handlers \cup {Idle}]
  BY DEF TypeOK, Finish

LEMMA SavedStatus ==
  ASSUME TypeOK, NEW s \in Sessions, NEW status \in Statuses, SaveStatus(s, status)
  PROVE  ses' \in [Sessions -> Documents] /\ opened' \in [Sessions -> Nat]
<1>1. [ses[s] EXCEPT !.status = status] \in Documents
  BY DEF TypeOK, Documents
<1>2. ses' \in [Sessions -> Documents]
  BY <1>1 DEF TypeOK, SaveStatus
<1>3. opened' \in [Sessions -> Nat]
  BY DEF TypeOK, SaveStatus, Reopens
<1> QED BY <1>2, <1>3

LEMMA TimerTypes ==
  ASSUME NEW t \in Timers
  PROVE  /\ NoServiceTimer(t) \in Timers /\ NoTicker(t) \in Timers
         /\ NoServiceTimer(NoTicker(t)) \in Timers
         /\ \A b \in BOOLEAN : [t EXCEPT !.request = b] \in Timers /\ [t EXCEPT !.join = b] \in Timers
<1>1. NoServiceTimer(t) \in Timers /\ NoTicker(t) \in Timers
  BY DEF Timers, NoServiceTimer, NoTicker
<1>2. NoServiceTimer(NoTicker(t)) \in Timers
  BY <1>1 DEF Timers, NoServiceTimer, NoTicker
<1> QED BY <1>1, <1>2 DEF Timers

\* What a wallet pays for, and what a call costs, are natural numbers.
LEMMA AffordableType ==
  ASSUME TypeOK, NEW s \in Sessions
  PROVE  Affordable(UserOf[s]) \in Nat
<1>1. balance[UserOf[s]] \in Nat /\ Rate \in Nat \ {0}
  BY CallAssumption DEF TypeOK
<1>2. balance[UserOf[s]] \div Rate \in Nat
  BY <1>1
<1> QED BY <1>2 DEF Affordable

LEMMA MinutesType ==
  ASSUME NEW n \in Nat
  PROVE  Minutes(n) \in Nat
  BY DEF Minutes

LEMMA PriceType ==
  ASSUME NEW seconds \in Nat, NEW max \in Nat
  PROVE  Price(seconds, max) \in Nat \ {0}
<1> DEFINE m == Minutes(Greater(1, Lesser(seconds, max)))
<1>1. Greater(1, Lesser(seconds, max)) \in Nat
  BY DEF Greater, Lesser
<1>2. m \in Nat
  BY <1>1, MinutesType
<1>3. Greater(1, m) \in Nat /\ Greater(1, m) >= 1
  BY <1>2 DEF Greater
<1>4. \A a, b \in Nat : a >= 1 /\ b >= 1 => a * b \in Nat /\ a * b >= 1
  OBVIOUS
<1>5. Rate \in Nat /\ Rate >= 1
  BY CallAssumption
<1>6. Rate * Greater(1, m) \in Nat /\ Rate * Greater(1, m) >= 1
  BY <1>3, <1>4, <1>5
<1> QED BY <1>6 DEF Price

LEMMA InitType == Init => TypeOK
  BY CallAssumption DEF Init, TypeOK, Documents, Statuses, Pending, Over, NoSession, Timers,
     NoTimers, Idle

----------------
(* The type invariant, action by action.                                   *)

LEMMA InitiateType ==
  ASSUME TypeOK, NEW s \in Sessions, InitiateCall(s)
  PROVE  TypeOK'
<1>1. ses' \in [Sessions -> Documents] /\ opened' \in [Sessions -> Nat]
  BY SavedStatus DEF InitiateCall, Statuses, Pending
<1>2. timer' \in [Sessions -> Timers]
  BY TimerTypes DEF TypeOK, InitiateCall
<1> QED BY <1>1, <1>2 DEF TypeOK, InitiateCall, money

LEMMA AcceptType ==
  ASSUME TypeOK, NEW r \in Requests,
         AcceptSave(r) \/ AcceptTimer(r) \/ \E s \in Sessions : AcceptBegin(r, s)
  PROVE  TypeOK'
<1>1. CASE AcceptSave(r)
  <2>1. req[r] \in Handlers
    BY <1>1, BusySlot DEF AcceptSave, At
  <2>2. ses' \in [Sessions -> Documents] /\ opened' \in [Sessions -> Nat]
    BY <1>1, <2>1, SavedStatus DEF AcceptSave, Statuses, Pending, Handlers
  <2>3. req' \in [Requests -> Handlers \cup {Idle}]
    BY <1>1, GotoSlot DEF AcceptSave, At, Places
  <2> QED BY <1>1, <2>2, <2>3 DEF TypeOK, AcceptSave, money
<1>2. CASE AcceptTimer(r)
  <2>1. req' \in [Requests -> Handlers \cup {Idle}]
    BY <1>2, FinishSlot DEF AcceptTimer
  <2>2. req[r] \in Handlers /\ req[r].s \in Sessions
    BY <1>2, BusySlot DEF AcceptTimer, At, Handlers
  <2>3. timer' \in [Sessions -> Timers]
    BY <1>2, <2>2, TimerTypes DEF TypeOK, AcceptTimer
  <2> QED BY <1>2, <2>1, <2>3 DEF TypeOK, AcceptTimer, stored, money
<1>3. ASSUME NEW s \in Sessions, AcceptBegin(r, s)
      PROVE  TypeOK'
  <2>4. Begin(r, "accept", s, "read", 0, {})
    BY <1>3 DEF AcceptBegin
  <2>5. "accept" \in Kinds /\ "read" \in Places /\ 0 \in Nat /\ {} \in SUBSET Roles
    BY DEF Kinds, Places
  <2>1. req' \in [Requests -> Handlers \cup {Idle}]
    BY <2>4, <2>5, BeginSlot
  <2>2. timer' \in [Sessions -> Timers]
    BY <1>3, TimerTypes DEF TypeOK, AcceptBegin
  <2> QED BY <1>3, <2>1, <2>2 DEF TypeOK, AcceptBegin, stored, money
<1> QED BY <1>1, <1>2, <1>3

\* The slot of a handler that gives a request up.
LEMMA CloseSlot ==
  ASSUME TypeOK, NEW r \in Requests, NEW s \in Sessions,
         NEW kind \in {"reject", "cancel", "timeout", "hung"}, CloseBegin(r, s, kind)
  PROVE  req' \in [Requests -> Handlers \cup {Idle}]
<1>1. kind \in DOMAIN Target
  BY DEF Target
<1>2. kind \in Kinds /\ "read" \in Places /\ 0 \in Nat /\ {} \in SUBSET Roles
  BY <1>1 DEF Kinds, Places
<1>3. Begin(r, kind, s, "read", 0, {})
  BY DEF CloseBegin
<1> QED BY <1>2, <1>3, BeginSlot

LEMMA CloseBeginType ==
  ASSUME TypeOK, NEW r \in Requests, NEW s \in Sessions,
         RejectBegin(r, s) \/ CancelBegin(r, s) \/ RequestTimeout(r, s) \/ HungBegin(r, s)
  PROVE  TypeOK'
<1>1. CASE RejectBegin(r, s)
  <2>1. req' \in [Requests -> Handlers \cup {Idle}]
    BY <1>1, CloseSlot DEF RejectBegin
  <2>2. timer' \in [Sessions -> Timers]
    BY <1>1, TimerTypes DEF TypeOK, RejectBegin
  <2> QED BY <1>1, <2>1, <2>2 DEF TypeOK, RejectBegin, CloseBegin, stored, money
<1>2. CASE CancelBegin(r, s)
  <2>1. req' \in [Requests -> Handlers \cup {Idle}]
    BY <1>2, CloseSlot DEF CancelBegin
  <2> QED BY <1>2, <2>1 DEF TypeOK, CancelBegin, CloseBegin, stored, money
<1>3. CASE RequestTimeout(r, s)
  <2>1. req' \in [Requests -> Handlers \cup {Idle}]
    BY <1>3, CloseSlot DEF RequestTimeout, TypeOK
  <2>2. timer' \in [Sessions -> Timers]
    BY <1>3, TimerTypes DEF TypeOK, RequestTimeout
  <2> QED BY <1>3, <2>1, <2>2 DEF TypeOK, RequestTimeout, CloseBegin, stored, money
<1>4. CASE HungBegin(r, s)
  <2>1. req' \in [Requests -> Handlers \cup {Idle}]
    BY <1>4, CloseSlot DEF HungBegin
  <2> QED BY <1>4, <2>1 DEF TypeOK, HungBegin, CloseBegin, stored, money
<1> QED BY <1>1, <1>2, <1>3, <1>4

LEMMA CloseSaveType ==
  ASSUME TypeOK, NEW r \in Requests, CloseSave(r)
  PROVE  TypeOK'
<1>1. req[r] \in Handlers /\ req[r].kind \in DOMAIN Target
  BY BusySlot DEF CloseSave, At
<1>2. Target[req[r].kind] \in Statuses /\ req[r].s \in Sessions
  BY <1>1 DEF Target, Statuses, Over, Handlers
<1>3. ses' \in [Sessions -> Documents] /\ opened' \in [Sessions -> Nat]
  BY <1>2, SavedStatus DEF CloseSave
<1>4. req' \in [Requests -> Handlers \cup {Idle}]
  BY FinishSlot DEF CloseSave
<1> QED BY <1>3, <1>4 DEF TypeOK, CloseSave, money

LEMMA JoinType ==
  ASSUME TypeOK, NEW r \in Requests,
         JoinSave(r) \/ \E s \in Sessions, role \in Roles : JoinBegin(r, s, role)
  PROVE  TypeOK'
<1>1. CASE JoinSave(r)
  <2>1. req[r] \in Handlers
    BY <1>1, BusySlot DEF JoinSave, At
  <2>2. joined' \in [Sessions -> SUBSET Roles]
    BY <1>1, <2>1 DEF TypeOK, JoinSave, Handlers
  <2>3. req' \in [Requests -> Handlers \cup {Idle}]
    BY <1>1, GotoSlot, FinishSlot DEF JoinSave, At, Places
  <2> QED BY <1>1, <2>2, <2>3 DEF TypeOK, JoinSave, money
<1>2. ASSUME NEW s \in Sessions, NEW role \in Roles, JoinBegin(r, s, role)
      PROVE  TypeOK'
  <2>1. joined[s] \cup {role} \in SUBSET Roles
    BY DEF TypeOK
  <2>2. req' \in [Requests -> Handlers \cup {Idle}]
    BY <1>2, <2>1, BeginSlot DEF JoinBegin, Kinds, Places
  <2> QED BY <1>2, <2>2 DEF TypeOK, JoinBegin, stored, money
<1> QED BY <1>1, <1>2

LEMMA StartBeginType ==
  ASSUME TypeOK, NEW r \in Requests, StartBegin(r)
  PROVE  TypeOK'
<1> DEFINE s == req[r].s
<1>1. req[r] \in Handlers /\ s \in Sessions
  BY BusySlot DEF StartBegin, At, Handlers
<1>2. Affordable(UserOf[s]) \in Nat
  BY <1>1, AffordableType
<1>3. [req[r] EXCEPT !.pc = "starting", !.n = Affordable(UserOf[s])] \in Handlers
  BY <1>1, <1>2 DEF Handlers, Places
<1>4. req' \in [Requests -> Handlers \cup {Idle}]
  BY <1>3, FinishSlot DEF TypeOK, StartBegin
<1>5. [timer[s] EXCEPT !.ticker = ses[s].max, !.ticks = 0] \in Timers
  <2>1. timer[s] \in Timers /\ ses[s] \in Documents
    BY <1>1 DEF TypeOK
  <2>2. ses[s].max \in Nat
    BY <2>1 DEF Documents
  <2> QED BY <2>1, <2>2 DEF Timers
<1>6. timer' \in [Sessions -> Timers]
  BY <1>1, <1>5 DEF TypeOK, StartBegin
<1> QED BY <1>4, <1>6 DEF TypeOK, StartBegin, stored, money

LEMMA StartSaveType ==
  ASSUME TypeOK, Checked, NEW r \in Requests, StartSave(r)
  PROVE  TypeOK'
<1> DEFINE s == req[r].s
<1>1. req[r] \in Handlers /\ s \in Sessions
  BY BusySlot DEF StartSave, At, Handlers
<1>0. req[r].n \in Nat
  BY DEF Checked, Sound, StartSave, At
<1>2. [ses[s] EXCEPT !.status = "active", !.begun = TRUE, !.max = req[r].n] \in Documents
  <2>1. ses[s] \in Documents
    BY <1>1 DEF TypeOK
  <2> QED BY <2>1, <1>0 DEF Documents, Statuses
<1>3. ses' \in [Sessions -> Documents]
  BY <1>1, <1>2 DEF TypeOK, StartSave
<1>4. opened' \in [Sessions -> Nat] /\ elapsed' \in [Sessions -> Moments \cup {0}]
  BY <1>1 DEF TypeOK, StartSave, Reopens
<1>5. timer' \in [Sessions -> Timers]
  BY <1>1, TimerTypes DEF TypeOK, StartSave
<1>6. req' \in [Requests -> Handlers \cup {Idle}]
  BY GotoSlot DEF StartSave, At, Places
<1> QED BY <1>3, <1>4, <1>5, <1>6 DEF TypeOK, StartSave, money

LEMMA StartTimersType ==
  ASSUME TypeOK, Checked, NEW r \in Requests, StartTimers(r)
  PROVE  TypeOK'
<1> DEFINE s == req[r].s
<1>1. req[r] \in Handlers /\ s \in Sessions
  BY BusySlot DEF StartTimers, At, Handlers
<1>2. req[r].n \in Nat /\ elapsed[s] \in Nat
  BY <1>1, CallAssumption DEF TypeOK, Checked, Sound, StartTimers, At
<1>3. timer[s] \in Timers /\ elapsed[s] + req[r].n \in Nat
  BY <1>1, <1>2 DEF TypeOK
<1>4. [timer[s] EXCEPT !.autoEnd = elapsed[s] + req[r].n, !.ticker = req[r].n, !.ticks = 0]
        \in Timers
  BY <1>2, <1>3 DEF Timers
<1>5. timer' \in [Sessions -> Timers]
  BY <1>1, <1>4 DEF TypeOK, StartTimers
<1>6. req' \in [Requests -> Handlers \cup {Idle}]
  BY FinishSlot DEF StartTimers
<1> QED BY <1>5, <1>6 DEF TypeOK, StartTimers, stored, money

LEMMA MoneyType ==
  ASSUME TypeOK, NEW u \in Users,
         (\E n \in Recharges : Recharge(u, n)) \/ (\E n \in Spends : Spend(u, n))
  PROVE  TypeOK'
<1>1. ASSUME NEW n \in Recharges, Recharge(u, n)
      PROVE  TypeOK'
  <2>1. n \in Nat /\ balance[u] + n \in Nat
    BY CallAssumption DEF TypeOK
  <2> QED BY <1>1, <2>1 DEF TypeOK, Recharge, stored
<1>2. ASSUME NEW n \in Spends, Spend(u, n)
      PROVE  TypeOK'
  <2>1. n \in Nat /\ balance[u] - n \in Nat
    BY <1>2, CallAssumption DEF TypeOK, Spend
  <2> QED BY <1>2, <2>1 DEF TypeOK, Spend, stored
<1> QED BY <1>1, <1>2

LEMMA ExtendType ==
  ASSUME TypeOK, Checked, NEW r \in Requests,
         ExtendSave(r) \/ \E s \in Sessions : ExtendBegin(r, s)
  PROVE  TypeOK'
<1>1. CASE ExtendSave(r)
  <2> DEFINE s == req[r].s
             n == req[r].n
  <2>1. req[r] \in Handlers /\ s \in Sessions
    BY <1>1, BusySlot DEF ExtendSave, At, Handlers
  <2>2. n \in Nat /\ elapsed[s] \in Nat
    BY <1>1, <2>1, CallAssumption DEF TypeOK, Checked, Sound, ExtendSave, At
  <2>3. ses[s] \in Documents /\ timer[s] \in Timers /\ elapsed[s] + n \in Nat
    BY <2>1, <2>2 DEF TypeOK
  <2>4. [ses[s] EXCEPT !.max = n] \in Documents
    BY <2>2, <2>3 DEF Documents
  <2>5. \A k \in Nat \cup {-1} :
          [timer[s] EXCEPT !.request = FALSE, !.autoEnd = elapsed[s] + n, !.ticker = k] \in Timers
    BY <2>3 DEF Timers
  <2>6. (IF timer[s].ticker >= 0 THEN n ELSE timer[s].ticker) \in Nat \cup {-1}
    BY <2>2, <2>3 DEF Timers
  <2>7. ses' \in [Sessions -> Documents]
    BY <1>1, <2>1, <2>4 DEF TypeOK, ExtendSave
  <2>8. timer' \in [Sessions -> Timers]
    <3>1. timer' = [timer EXCEPT ![s] = [timer[s] EXCEPT !.request = FALSE,
             !.autoEnd = elapsed[s] + n,
             !.ticker = IF timer[s].ticker >= 0 THEN n ELSE timer[s].ticker]]
      BY <1>1, <2>1 DEF TypeOK, ExtendSave
    <3> QED BY <2>1, <2>5, <2>6, <3>1 DEF TypeOK
  <2>9. req' \in [Requests -> Handlers \cup {Idle}]
    BY <1>1, FinishSlot DEF ExtendSave
  <2> QED BY <1>1, <2>7, <2>8, <2>9 DEF TypeOK, ExtendSave, money
<1>2. ASSUME NEW s \in Sessions, ExtendBegin(r, s)
      PROVE  TypeOK'
  <2>1. Affordable(UserOf[s]) \in Nat
    BY AffordableType
  <2>2. req' \in [Requests -> Handlers \cup {Idle}]
    BY <1>2, <2>1, BeginSlot DEF ExtendBegin, Kinds, Places, TypeOK
  <2> QED BY <1>2, <2>2, CallAssumption DEF TypeOK, ExtendBegin, stored
<1> QED BY <1>1, <1>2

\* The slot and the document of a session that was taken.
LEMMA LockTypes ==
  ASSUME TypeOK, NEW r \in Requests, NEW s \in Sessions, NEW kind \in {"end", "endCall"},
         NEW seconds \in Nat, Lock(r, kind, s, seconds)
  PROVE  /\ ses' \in [Sessions -> Documents] /\ opened' \in [Sessions -> Nat]
         /\ req' \in [Requests -> Handlers \cup {Idle}]
<1>1. ses' \in [Sessions -> Documents] /\ opened' \in [Sessions -> Nat]
  BY SavedStatus DEF Lock, Statuses, Over
<1>2. Price(seconds, ses[s].max) \in Nat \cup {-1}
  BY PriceType DEF TypeOK, Documents
<1>3. kind \in Kinds /\ {"priced", "closing"} \subseteq Places /\ -1 \in Nat \cup {-1}
      /\ {} \in SUBSET Roles
  BY DEF Kinds, Places
<1>4. req' \in [Requests -> Handlers \cup {Idle}]
  <2>1. CASE req' = req
    BY <2>1 DEF TypeOK
  <2>2. CASE Begin(r, kind, s, "priced", Price(seconds, ses[s].max), {})
    BY <1>2, <1>3, <2>2, BeginSlot
  <2>3. CASE Begin(r, kind, s, "closing", -1, {})
    BY <1>3, <2>3, BeginSlot
  <2> QED BY <2>1, <2>2, <2>3 DEF Lock
<1> QED BY <1>1, <1>4

LEMMA GatewayEndType ==
  ASSUME TypeOK, NEW r \in Requests, NEW s \in Sessions, GatewayEnd(r, s)
  PROVE  TypeOK'
<1>1. timer[s] \in Timers /\ timer[s].ticks \in Nat
  BY DEF TypeOK, Timers
<1>2. timer' \in [Sessions -> Timers]
  BY <1>1, TimerTypes DEF TypeOK, GatewayEnd
<1>3. /\ ses' \in [Sessions -> Documents] /\ opened' \in [Sessions -> Nat]
      /\ req' \in [Requests -> Handlers \cup {Idle}]
  <2>1. CASE Endable(s)
    BY <1>1, <2>1, LockTypes DEF GatewayEnd
  <2>2. CASE ~Endable(s)
    BY <2>2 DEF TypeOK, GatewayEnd
  <2> QED BY <2>1, <2>2
<1>4. ending' \in SUBSET Sessions
  BY DEF TypeOK, GatewayEnd
<1> QED BY <1>2, <1>3, <1>4 DEF TypeOK, GatewayEnd, money

LEMMA DirectEndType ==
  ASSUME TypeOK, NEW r \in Requests, NEW s \in Sessions, DirectEnd(r, s)
  PROVE  TypeOK'
<1>1. elapsed[s] \in Nat
  BY ElapsedNat
<1>2. timer' \in [Sessions -> Timers]
  BY TimerTypes DEF TypeOK, DirectEnd
<1>3. /\ ses' \in [Sessions -> Documents] /\ opened' \in [Sessions -> Nat]
      /\ req' \in [Requests -> Handlers \cup {Idle}]
  BY <1>1, LockTypes DEF DirectEnd
<1> QED BY <1>2, <1>3 DEF TypeOK, DirectEnd, money

LEMMA JoinTimeoutType ==
  ASSUME TypeOK, NEW r \in Requests, NEW s \in Sessions, JoinTimeout(r, s)
  PROVE  TypeOK'
<1>1. timer[s] \in Timers /\ timer[s].ticks \in Nat
  BY DEF TypeOK, Timers
<1>2. [NoServiceTimer(NoTicker(timer[s])) EXCEPT !.join = FALSE] \in Timers
  BY <1>1, TimerTypes
<1>3. timer' \in [Sessions -> Timers]
  BY <1>1, <1>2, TimerTypes DEF TypeOK, JoinTimeout
<1>4. /\ ses' \in [Sessions -> Documents] /\ opened' \in [Sessions -> Nat]
      /\ req' \in [Requests -> Handlers \cup {Idle}]
  BY <1>1, LockTypes DEF TypeOK, JoinTimeout
<1>5. ending' \in SUBSET Sessions
  BY DEF TypeOK, JoinTimeout
<1> QED BY <1>3, <1>4, <1>5 DEF TypeOK, JoinTimeout, money

\* The slot of a handler whose payment was credited, or not.
LEMMA SettleSlot ==
  ASSUME TypeOK, NEW r \in Requests, Credit(r) \/ Unpaid(r)
  PROVE  req' \in [Requests -> Handlers \cup {Idle}]
<1>1. CASE Credit(r)
  <2>1. req[r] \in Handlers
    BY <1>1, BusySlot DEF Credit, At
  <2>2. [req[r] EXCEPT !.pc = "closing", !.ok = TRUE] \in Handlers
    BY <2>1 DEF Handlers, Places
  <2> QED BY <1>1, <2>2 DEF TypeOK, Credit
<1>2. CASE Unpaid(r)
  BY <1>2, GotoSlot DEF Unpaid, Places
<1> QED BY <1>1, <1>2

LEMMA BillType ==
  ASSUME TypeOK, Checked, NEW r \in Requests,
         Pay(r) \/ Credit(r) \/ Unpaid(r) \/ EndSave(r) \/ CompleteSession(r)
  PROVE  TypeOK'
<1>1. CASE Pay(r)
  <2> DEFINE s == req[r].s
             u == UserOf[s]
  <2>1. req[r] \in Handlers /\ s \in Sessions /\ req[r].n \in Nat
    BY <1>1, BusySlot DEF Pay, At, Handlers, Checked, Sound
  <2>2. u \in Users
    BY <2>1, CallAssumption
  <2>3. balance[u] \in Nat /\ balance[u] - req[r].n \in Nat
    BY <1>1, <2>1, <2>2 DEF TypeOK, Pay
  <2>4. balance' \in [Users -> Nat]
    BY <1>1, <2>2, <2>3 DEF TypeOK, Pay
  <2>5. charged' \in [Sessions -> Nat] /\ bills' \in [Sessions -> Nat]
    BY <1>1, <2>1 DEF TypeOK, Pay
  <2>6. req' \in [Requests -> Handlers \cup {Idle}]
    BY <1>1, GotoSlot DEF Pay, At, Places
  <2> QED BY <1>1, <2>4, <2>5, <2>6 DEF TypeOK, Pay, stored
<1>2. CASE Credit(r)
  BY <1>2, SettleSlot DEF TypeOK, Credit, stored, money
<1>3. CASE Unpaid(r)
  BY <1>3, SettleSlot DEF TypeOK, Unpaid, stored, money
<1>4. CASE EndSave(r)
  <2>1. req[r] \in Handlers /\ req[r].s \in Sessions /\ req[r].ok \in BOOLEAN
    BY <1>4, BusySlot DEF EndSave, At, Handlers
  <2>2. ses[req[r].s] \in Documents
    BY <2>1 DEF TypeOK
  <2>3. \A b \in BOOLEAN : [ses[req[r].s] EXCEPT !.paid = b] \in Documents
    BY <2>2 DEF Documents
  <2>0. (ses[req[r].s].paid \/ req[r].ok) \in BOOLEAN
    OBVIOUS
  <2>4. ses' \in [Sessions -> Documents]
    <3>1. ses' = [ses EXCEPT ![req[r].s] = [ses[req[r].s] EXCEPT
                                              !.paid = ses[req[r].s].paid \/ req[r].ok]]
      BY <1>4, <2>1 DEF TypeOK, EndSave
    <3>2. [ses[req[r].s] EXCEPT !.paid = ses[req[r].s].paid \/ req[r].ok] \in Documents
      BY <2>3, <2>0
    <3> QED BY <2>1, <3>1, <3>2 DEF TypeOK
  <2>5. req' \in [Requests -> Handlers \cup {Idle}]
    BY <1>4, GotoSlot DEF EndSave, At, Places
  <2> QED BY <1>4, <2>4, <2>5 DEF TypeOK, EndSave, money
<1>5. CASE CompleteSession(r)
  <2>1. req[r] \in Handlers /\ req[r].s \in Sessions /\ req[r].n \in Nat \cup {-1}
    BY <1>5, BusySlot DEF CompleteSession, At, Handlers
  <2>2. booked' \in [Sessions -> Nat]
    BY <1>5, <2>1 DEF TypeOK, CompleteSession
  <2>3. req' \in [Requests -> Handlers \cup {Idle}]
    BY <1>5, FinishSlot DEF CompleteSession
  <2> QED BY <1>5, <2>2, <2>3 DEF TypeOK, CompleteSession, stored
<1> QED BY <1>1, <1>2, <1>3, <1>4, <1>5

LEMMA TimeType ==
  ASSUME TypeOK, NEW s \in Sessions, Wait(s) \/ Ages(s)
  PROVE  TypeOK'
<1>1. CASE Wait(s)
  <2>1. PICK m \in Moments :
          /\ m > elapsed[s] /\ elapsed' = [elapsed EXCEPT ![s] = m]
          /\ timer' = [timer EXCEPT ![s].ticks =
                         IF timer[s].ticker >= 0 THEN @ + m - elapsed[s] ELSE @]
    BY <1>1 DEF Wait
  <2>2. timer[s] \in Timers /\ elapsed[s] \in Nat /\ m \in Nat
    <3>1. timer[s] \in Timers
      BY DEF TypeOK
    <3>2. \A k \in Moments : k \in Nat
      BY CallAssumption
    <3> QED BY <3>1, <3>2, ElapsedNat
  <2>3. (IF timer[s].ticker >= 0 THEN timer[s].ticks + m - elapsed[s] ELSE timer[s].ticks) \in Nat
    BY <2>1, <2>2 DEF Timers
  <2>4. \A k \in Nat : [timer[s] EXCEPT !.ticks = k] \in Timers
    BY <2>2 DEF Timers
  <2>5. timer' \in [Sessions -> Timers]
    BY <2>1, <2>3, <2>4 DEF TypeOK
  <2> QED BY <1>1, <2>1, <2>5 DEF TypeOK, Wait, money
<1>2. CASE Ages(s)
  BY <1>2 DEF TypeOK, Ages, money
<1> QED BY <1>1, <1>2

LEMMA FailureType ==
  ASSUME TypeOK, Restart \/ \E r \in Requests : HandlerFails(r)
  PROVE  TypeOK'
<1>1. CASE Restart
  <2>1. NoTimers \in Timers
    BY DEF NoTimers, Timers
  <2> QED BY <1>1, <2>1, CallAssumption DEF TypeOK, Restart, stored
<1>2. ASSUME NEW r \in Requests, HandlerFails(r)
      PROVE  TypeOK'
  <2>1. req' \in [Requests -> Handlers \cup {Idle}]
    BY <1>2, FinishSlot DEF HandlerFails
  <2> QED BY <1>2, <2>1, CallAssumption DEF TypeOK, HandlerFails, stored, money
<1> QED BY <1>1, <1>2

----------------
(* What handlers have in hand.                                             *)

\* A step of one handler, or of none, that takes nothing back from the user.
LEMMA OneSlot ==
  ASSUME TypeOK, Checked, NEW r \in Requests,
         \A q \in Requests \ {r} : req'[q] = req[q],
         \A s \in Sessions : charged[s] > 0 => charged'[s] > 0,
         Sound(req[r])'
  PROVE  Checked'
<1>1. ASSUME NEW q \in Requests, q # r
      PROVE  Sound(req[q])'
  <2>1. req'[q] = req[q] /\ req[q] \in Handlers \cup {Idle} /\ Sound(req[q])
    BY <1>1 DEF TypeOK, Checked
  <2>2. req[q].pc # "idle" => req[q].s \in Sessions
    BY <2>1 DEF Idle, Handlers
  <2> QED BY <2>1, <2>2 DEF Sound
<1> QED BY <1>1 DEF Checked

LEMMA NoSlot ==
  ASSUME Checked, UNCHANGED <<req, charged>>
  PROVE  Checked'
  BY DEF Checked, Sound

\* A handler that has just begun, moves on or ends.
LEMMA BeginSound ==
  ASSUME TypeOK, Checked, NEW r \in Requests, NEW kind \in Kinds, NEW s \in Sessions,
         NEW pc \in {"read", "priced", "closing"}, NEW n \in Nat \cup {-1},
         NEW seen \in SUBSET Roles, Begin(r, kind, s, pc, n, seen), charged' = charged,
         kind = "extend" \/ pc = "priced" => n \in Nat \ {0}
  PROVE  Checked'
<1>1. /\ req'[r] = [pc |-> pc, kind |-> kind, s |-> s, n |-> n, ok |-> FALSE, seen |-> seen]
      /\ \A q \in Requests \ {r} : req'[q] = req[q]
  BY DEF TypeOK, Begin
<1>2. Sound(req[r])'
  BY <1>1 DEF Sound
<1> QED BY <1>1, <1>2, OneSlot

LEMMA GotoEffect ==
  ASSUME TypeOK, NEW r \in Requests, req[r].pc # "idle", NEW pc \in Places, Goto(r, pc)
  PROVE  /\ \A q \in Requests \ {r} : req'[q] = req[q]
         /\ req'[r].pc = pc /\ req'[r].n = req[r].n /\ req'[r].s = req[r].s
         /\ req'[r].kind = req[r].kind /\ req'[r].ok = req[r].ok
<1>1. req[r] \in Handlers
  BY BusySlot
<1>2. req'[r] = [req[r] EXCEPT !.pc = pc] /\ \A q \in Requests \ {r} : req'[q] = req[q]
  BY DEF TypeOK, Goto
<1> QED BY <1>1, <1>2 DEF Handlers

LEMMA GotoSound ==
  ASSUME TypeOK, Checked, NEW r \in Requests, req[r].pc # "idle",
         NEW pc \in {"saved", "joined", "ended"}, Goto(r, pc), charged' = charged
  PROVE  Checked'
<1>1. req'[r].pc = pc /\ \A q \in Requests \ {r} : req'[q] = req[q]
  BY GotoEffect DEF Places
<1>2. Sound(req[r])'
  BY <1>1 DEF Sound
<1> QED BY <1>1, <1>2, OneSlot

LEMMA FinishSound ==
  ASSUME TypeOK, Checked, NEW r \in Requests, Finish(r), charged' = charged
  PROVE  Checked'
<1>1. req'[r].pc = "idle" /\ \A q \in Requests \ {r} : req'[q] = req[q]
  BY DEF TypeOK, Finish, Idle
<1>2. Sound(req[r])'
  BY <1>1 DEF Sound
<1> QED BY <1>1, <1>2, OneSlot

LEMMA LockSound ==
  ASSUME TypeOK, Checked, NEW r \in Requests, NEW s \in Sessions,
         NEW kind \in {"end", "endCall"}, NEW seconds \in Nat, Lock(r, kind, s, seconds),
         charged' = charged
  PROVE  Checked'
<1>1. Price(seconds, ses[s].max) \in Nat \ {0}
  BY PriceType DEF TypeOK, Documents
<1>2. kind \in Kinds /\ kind # "extend" /\ {} \in SUBSET Roles
  BY DEF Kinds
<1>3. CASE req' = req
  BY <1>3, NoSlot
<1>4. CASE Begin(r, kind, s, "priced", Price(seconds, ses[s].max), {})
  BY <1>1, <1>2, <1>4, BeginSound
<1>5. CASE Begin(r, kind, s, "closing", -1, {})
  BY <1>2, <1>5, BeginSound
<1> QED BY <1>3, <1>4, <1>5 DEF Lock

LEMMA CheckedStep ==
  ASSUME TypeOK, Checked, [Next]_vars
  PROVE  Checked'
<1>1. ASSUME NEW s \in Sessions, InitiateCall(s) \/ Wait(s) \/ Ages(s)
      PROVE  Checked'
  BY <1>1, NoSlot DEF InitiateCall, Wait, Ages, money
<1>2. ASSUME NEW u \in Users,
             (\E n \in Recharges : Recharge(u, n)) \/ (\E n \in Spends : Spend(u, n))
      PROVE  Checked'
  BY <1>2, NoSlot DEF Recharge, Spend
<1>3. CASE Restart
  BY <1>3 DEF Checked, Sound, Restart, Idle
<1>4. ASSUME NEW r \in Requests, NEW s \in Sessions,
             AcceptBegin(r, s) \/ \E role \in Roles : JoinBegin(r, s, role)
      PROVE  Checked'
  <2>1. \A role \in Roles : joined[s] \cup {role} \in SUBSET Roles
    BY DEF TypeOK
  <2>2. {"accept", "join"} \subseteq Kinds \ {"extend"} /\ {} \in SUBSET Roles
    BY DEF Kinds
  <2>3. CASE AcceptBegin(r, s)
    BY <2>2, <2>3, BeginSound DEF AcceptBegin, money
  <2>4. CASE \E role \in Roles : JoinBegin(r, s, role)
    BY <2>1, <2>2, <2>4, BeginSound DEF JoinBegin, money
  <2> QED BY <1>4, <2>3, <2>4
<1>5. ASSUME NEW r \in Requests, NEW s \in Sessions,
             RejectBegin(r, s) \/ CancelBegin(r, s) \/ RequestTimeout(r, s) \/ HungBegin(r, s)
      PROVE  Checked'
  <2>1. ASSUME NEW kind \in {"reject", "cancel", "timeout", "hung"}, CloseBegin(r, s, kind)
        PROVE  Checked'
    <3>1. kind \in DOMAIN Target
      BY DEF Target
    <3>2. kind \in Kinds /\ kind # "extend" /\ {} \in SUBSET Roles
      BY <3>1 DEF Kinds
    <3> QED BY <2>1, <3>2, BeginSound DEF CloseBegin, money
  <2> QED BY <1>5, <2>1, NoSlot DEF RejectBegin, CancelBegin, RequestTimeout, HungBegin, money
<1>6. ASSUME NEW r \in Requests, NEW s \in Sessions, ExtendBegin(r, s)
      PROVE  Checked'
  <2>1. Affordable(UserOf[s]) \in Nat /\ ses[s].max \in Nat
    BY AffordableType DEF TypeOK, Documents
  <2>2. Affordable(UserOf[s]) > ses[s].max => Affordable(UserOf[s]) \in Nat \ {0}
    BY <2>1
  <2>3. "extend" \in Kinds /\ {} \in SUBSET Roles
    BY DEF Kinds
  <2> QED BY <1>6, <2>2, <2>3, BeginSound, NoSlot DEF ExtendBegin
<1>7. ASSUME NEW r \in Requests, NEW s \in Sessions,
             GatewayEnd(r, s) \/ DirectEnd(r, s) \/ JoinTimeout(r, s)
      PROVE  Checked'
  <2>1. elapsed[s] \in Nat /\ timer[s].ticks \in Nat
    BY ElapsedNat DEF TypeOK, Timers
  <2>2. CASE GatewayEnd(r, s)
    BY <2>1, <2>2, LockSound, NoSlot DEF GatewayEnd, money
  <2>3. CASE DirectEnd(r, s)
    BY <2>1, <2>3, LockSound DEF DirectEnd, money
  <2>4. CASE JoinTimeout(r, s)
    BY <2>1, <2>4, LockSound, NoSlot DEF JoinTimeout, money
  <2> QED BY <1>7, <2>2, <2>3, <2>4
<1>8. ASSUME NEW r \in Requests,
             AcceptSave(r) \/ AcceptTimer(r) \/ CloseSave(r) \/ JoinSave(r) \/ StartTimers(r)
               \/ ExtendSave(r) \/ EndSave(r) \/ CompleteSession(r) \/ HandlerFails(r)
      PROVE  Checked'
  BY <1>8, GotoSound, FinishSound DEF AcceptSave, AcceptTimer, CloseSave, JoinSave, StartTimers,
     ExtendSave, EndSave, CompleteSession, HandlerFails, At, money
<1>9. ASSUME NEW r \in Requests, StartBegin(r) \/ StartSave(r)
      PROVE  Checked'
  <2>1. req[r] \in Handlers /\ req[r].s \in Sessions
    BY <1>9, BusySlot DEF StartBegin, StartSave, At, Handlers
  <2>2. Affordable(UserOf[req[r].s]) \in Nat
    BY <2>1, AffordableType
  <2>3. CASE StartBegin(r)
    <3>1. CASE Finish(r)
      BY <2>3, <3>1, FinishSound DEF StartBegin, money
    <3>2. CASE ~Finish(r)
      <4>1. req' = [req EXCEPT ![r] = [req[r] EXCEPT !.pc = "starting",
                                                    !.n = Affordable(UserOf[req[r].s])]]
        BY <2>3, <3>2 DEF StartBegin, TypeOK
      <4>2. req'[r].pc = "starting" /\ req'[r].n \in Nat
        BY <2>1, <2>2, <4>1 DEF TypeOK, Handlers
      <4>3. Sound(req[r])'
        BY <4>2 DEF Sound
      <4>4. \A q \in Requests \ {r} : req'[q] = req[q]
        BY <4>1 DEF TypeOK
      <4> QED BY <2>3, <4>3, <4>4, OneSlot DEF StartBegin, money
    <3> QED BY <3>1, <3>2
  <2>4. CASE StartSave(r)
    <3>1. /\ req'[r].pc = "armed" /\ req'[r].n = req[r].n
          /\ \A q \in Requests \ {r} : req'[q] = req[q]
      BY <2>4, GotoEffect DEF StartSave, At, Places
    <3>2. req[r].n \in Nat
      BY <2>4 DEF Checked, Sound, StartSave, At
    <3>3. Sound(req[r])'
      BY <3>1, <3>2 DEF Sound
    <3> QED BY <2>4, <3>1, <3>3, OneSlot DEF StartSave, money
  <2> QED BY <1>9, <2>3, <2>4
<1>10. ASSUME NEW r \in Requests, Pay(r) \/ Credit(r) \/ Unpaid(r)
       PROVE  Checked'
  <2>1. req[r] \in Handlers /\ req[r].s \in Sessions /\ Sound(req[r])
    BY <1>10, BusySlot DEF Pay, Credit, Unpaid, At, Handlers, Checked
  <2>2. charged[req[r].s] \in Nat
    BY <2>1 DEF TypeOK
  <2>3. CASE Pay(r)
    <3>1. /\ req'[r].pc = "paid" /\ req'[r].n = req[r].n /\ req'[r].s = req[r].s
          /\ req'[r].ok = req[r].ok /\ \A q \in Requests \ {r} : req'[q] = req[q]
      BY <2>3, GotoEffect DEF Pay, At, Places
    <3>2. req[r].n \in Nat \ {0} /\ ~req[r].ok
      BY <2>1, <2>3 DEF Sound, Pay, At
    <3>3. charged' = [charged EXCEPT ![req[r].s] = @ + req[r].n]
      BY <2>3 DEF Pay
    <3>4. charged'[req[r].s] > 0 /\ \A s \in Sessions : charged[s] > 0 => charged'[s] > 0
      BY <2>1, <2>2, <3>2, <3>3 DEF TypeOK
    <3>5. Sound(req[r])'
      BY <3>1, <3>2, <3>4 DEF Sound
    <3> QED BY <3>1, <3>4, <3>5, OneSlot
  <2>4. CASE Credit(r)
    <3>1. req' = [req EXCEPT ![r] = [req[r] EXCEPT !.pc = "closing", !.ok = TRUE]]
      BY <2>4 DEF Credit, TypeOK
    <3>2. req'[r].pc = "closing" /\ req'[r].s = req[r].s
      BY <2>1, <3>1 DEF Handlers, TypeOK
    <3>3. charged[req[r].s] > 0 /\ charged' = charged
      BY <2>1, <2>4 DEF Sound, Credit, At, money
    <3>4. Sound(req[r])'
      BY <3>2, <3>3 DEF Sound
    <3>5. \A q \in Requests \ {r} : req'[q] = req[q]
      BY <3>1 DEF TypeOK
    <3> QED BY <3>3, <3>4, <3>5, OneSlot
  <2>5. CASE Unpaid(r)
    <3>1. /\ req'[r].pc = "closing" /\ req'[r].s = req[r].s /\ req'[r].ok = req[r].ok
          /\ \A q \in Requests \ {r} : req'[q] = req[q]
      BY <2>5, GotoEffect DEF Unpaid, Places
    <3>2. ~req[r].ok /\ charged' = charged
      BY <2>1, <2>5 DEF Sound, Unpaid, money
    <3>3. Sound(req[r])'
      BY <3>1, <3>2 DEF Sound
    <3> QED BY <3>1, <3>2, <3>3, OneSlot
  <2> QED BY <1>10, <2>3, <2>4, <2>5
<1>11. CASE UNCHANGED vars
  BY <1>11, NoSlot DEF vars, money
<1> QED
  BY <1>1, <1>2, <1>3, <1>4, <1>5, <1>6, <1>7, <1>8, <1>9, <1>10, <1>11
     DEF Next, Begins, Continues, EndByTicker, EndByTimer, Sweep

----------------
(* The payments.                                                           *)

LEMMA TypeStep ==
  ASSUME TypeOK, Checked, [Next]_vars
  PROVE  TypeOK'
<1>1. CASE UNCHANGED vars
  BY <1>1 DEF TypeOK, vars, stored, money
<1>2. ASSUME NEW r \in Requests, NEW s \in Sessions,
             Begins(r, s) \/ HungBegin(r, s) \/ Sweep(r, s)
      PROVE  TypeOK'
  BY <1>2, AcceptType, CloseBeginType, JoinType, ExtendType, GatewayEndType, DirectEndType,
     JoinTimeoutType DEF Begins, EndByTicker, EndByTimer, Sweep
<1>3. ASSUME NEW r \in Requests, Continues(r)
      PROVE  TypeOK'
  BY <1>3, AcceptType, CloseSaveType, JoinType, StartBeginType, StartSaveType, StartTimersType,
     ExtendType, BillType DEF Continues
<1> QED BY <1>1, <1>2, <1>3, InitiateType, TimeType, MoneyType, FailureType DEF Next

\* Nothing is given back, and isPaid is set only after a payment.
LEMMA PaidStep ==
  ASSUME TypeOK, Checked, PaidWasCharged, [Next]_vars
  PROVE  PaidWasCharged'
<1>1. ASSUME NEW s \in Sessions, ses'[s].paid = ses[s].paid, charged'[s] >= charged[s]
      PROVE  ses'[s].paid => charged'[s] > 0
  <2>1. charged[s] \in Nat
    BY DEF TypeOK
  <2>2. CASE ses[s].paid
    <3>1. charged[s] > 0
      BY <2>2 DEF PaidWasCharged
    <3>2. charged'[s] > 0
      BY <1>1, <2>1, <3>1, TypeStep DEF TypeOK
    <3> QED BY <3>2
  <2>3. CASE ~ses[s].paid
    BY <1>1, <2>3
  <2> QED BY <2>2, <2>3
<1>2. \A s \in Sessions : charged[s] >= charged[s]
  BY DEF TypeOK
<1>3. ASSUME charged' = charged, \A s \in Sessions : ses'[s].paid = ses[s].paid
      PROVE  PaidWasCharged'
  BY <1>1, <1>2, <1>3 DEF PaidWasCharged
<1>4. ASSUME NEW s \in Sessions, NEW status \in Statuses, SaveStatus(s, status)
      PROVE  \A t \in Sessions : ses'[t].paid = ses[t].paid
  BY <1>4 DEF SaveStatus, TypeOK, Documents
<1>5. ASSUME NEW r \in Requests, NEW s \in Sessions, NEW kind, NEW seconds,
             Lock(r, kind, s, seconds)
      PROVE  \A t \in Sessions : ses'[t].paid = ses[t].paid
  BY <1>4, <1>5 DEF Lock, Statuses, Over
<1>6. ASSUME NEW r \in Requests, NEW s \in Sessions,
             Begins(r, s) \/ HungBegin(r, s) \/ Sweep(r, s)
      PROVE  PaidWasCharged'
  <2>1. CASE GatewayEnd(r, s) \/ DirectEnd(r, s) \/ JoinTimeout(r, s)
    BY <1>3, <1>5, <2>1 DEF GatewayEnd, DirectEnd, JoinTimeout, money
  <2>2. CASE ses' = ses /\ charged' = charged
    BY <1>3, <2>2
  <2> QED
    BY <1>6, <2>1, <2>2 DEF Begins, AcceptBegin, RejectBegin, CancelBegin, RequestTimeout,
       CloseBegin, JoinBegin, ExtendBegin, EndByTicker, EndByTimer, HungBegin, Sweep, stored, money
<1>7. ASSUME NEW r \in Requests,
             AcceptSave(r) \/ CloseSave(r) \/ StartSave(r) \/ ExtendSave(r)
      PROVE  PaidWasCharged'
  <2>1. req[r] \in Handlers /\ req[r].s \in Sessions
    BY <1>7, BusySlot DEF AcceptSave, CloseSave, StartSave, ExtendSave, At, Handlers
  <2>2. CASE AcceptSave(r)
    BY <1>3, <1>4, <2>1, <2>2 DEF AcceptSave, Statuses, Pending, money
  <2>3. CASE CloseSave(r)
    <3>1. Target[req[r].kind] \in Statuses
      BY <2>3 DEF CloseSave, At, Target, Statuses, Over
    <3> QED BY <1>3, <1>4, <2>1, <2>3, <3>1 DEF CloseSave, money
  <2>4. CASE StartSave(r)
    <3>1. \A t \in Sessions : ses'[t].paid = ses[t].paid
      BY <2>1, <2>4 DEF StartSave, TypeOK, Documents
    <3> QED BY <1>3, <2>4, <3>1 DEF StartSave, money
  <2>5. CASE ExtendSave(r)
    <3>1. \A t \in Sessions : ses'[t].paid = ses[t].paid
      BY <2>1, <2>5 DEF ExtendSave, TypeOK, Documents
    <3> QED BY <1>3, <2>5, <3>1 DEF ExtendSave, money
  <2> QED BY <1>7, <2>2, <2>3, <2>4, <2>5
<1>8. ASSUME NEW r \in Requests, Pay(r)
      PROVE  PaidWasCharged'
  <2>1. req[r] \in Handlers /\ req[r].s \in Sessions /\ req[r].n \in Nat
    BY <1>8, BusySlot DEF Pay, At, Handlers, Checked, Sound
  <2>2. ses' = ses /\ \A s \in Sessions : charged'[s] >= charged[s]
    BY <1>8, <2>1 DEF Pay, TypeOK, stored
  <2> QED BY <1>1, <2>2 DEF PaidWasCharged
<1>9. ASSUME NEW r \in Requests, EndSave(r)
      PROVE  PaidWasCharged'
  <2>1. req[r] \in Handlers /\ req[r].s \in Sessions
    BY <1>9, BusySlot DEF EndSave, At, Handlers
  <2>2. charged' = charged /\ \A t \in Sessions \ {req[r].s} : ses'[t] = ses[t]
    BY <1>9, <2>1 DEF EndSave, TypeOK, money
  <2>3. req[r].ok => charged[req[r].s] > 0
    BY <1>9 DEF EndSave, At, Checked, Sound
  <2>4. ses'[req[r].s].paid => ses[req[r].s].paid \/ req[r].ok
    <3>1. ses[req[r].s] \in Documents
      BY <2>1 DEF TypeOK
    <3>2. ses'[req[r].s] = [ses[req[r].s] EXCEPT !.paid = ses[req[r].s].paid \/ req[r].ok]
      BY <1>9, <2>1 DEF EndSave, TypeOK
    <3> QED BY <3>1, <3>2 DEF Documents
  <2> QED BY <2>2, <2>3, <2>4 DEF PaidWasCharged
<1>10. ASSUME NEW s \in Sessions, InitiateCall(s)
       PROVE  PaidWasCharged'
  BY <1>3, <1>4, <1>10 DEF InitiateCall, Statuses, Pending, money
<1>11. CASE ses' = ses /\ charged' = charged
  BY <1>3, <1>11
<1>12. ASSUME NEW r \in Requests, Continues(r)
       PROVE  PaidWasCharged'
  BY <1>7, <1>8, <1>9, <1>11, <1>12 DEF Continues, AcceptTimer, JoinSave, StartBegin, StartTimers,
     Credit, Unpaid, CompleteSession, stored, money
<1> QED
  BY <1>6, <1>10, <1>11, <1>12 DEF Next, vars, Wait, Ages, Recharge, Spend, HandlerFails, Restart,
     stored, money

----------------
(* Openings and payments.                                                  *)

LEMMA BillingIsFinite ==
  ASSUME NEW s \in Sessions
  PROVE  IsFiniteSet(Billing(s)) /\ Cardinality(Billing(s)) \in Nat
<1>1. Billing(s) \subseteq Requests /\ IsFiniteSet(Requests)
  BY CallAssumption DEF Billing
<1> QED BY <1>1, FS_Subset, FS_CardinalityType

\* A step that takes no payment, brings no handler to one, and closes no
\* session without accounting for it.
LEMMA Quiet ==
  ASSUME TypeOK, TypeOK', OpeningsAccounted, bills' = bills,
         \A s \in Sessions : Billing(s)' \subseteq Billing(s),
         \A s \in Sessions : Open(s)' - opened'[s] <= Open(s) - opened[s]
  PROVE  OpeningsAccounted'
<1> SUFFICES ASSUME NEW s \in Sessions
             PROVE  (bills[s] + Cardinality(Billing(s)) + Open(s) <= opened[s])'
  BY DEF OpeningsAccounted
<1>1. IsFiniteSet(Billing(s)) /\ Cardinality(Billing(s)) \in Nat
  BY BillingIsFinite
<1>2. Cardinality(Billing(s)') \in Nat /\ Cardinality(Billing(s)') <= Cardinality(Billing(s))
  BY <1>1, FS_Subset, FS_CardinalityType
<1>3. /\ bills[s] \in Nat /\ opened[s] \in Nat /\ opened'[s] \in Nat
      /\ Open(s) \in Nat /\ Open(s)' \in Nat
  BY DEF TypeOK, Open
<1>4. bills[s] + Cardinality(Billing(s)) + Open(s) <= opened[s]
  BY DEF OpeningsAccounted
<1>5. Open(s)' - opened'[s] <= Open(s) - opened[s] /\ bills'[s] = bills[s]
  OBVIOUS
<1>6. \A b, c, d, o, w, n, m \in Nat :
        d <= c /\ w - m <= o - n /\ b + c + o <= n => b + d + w <= m
  OBVIOUS
<1>7. bills[s] + Cardinality(Billing(s)') + Open(s)' <= opened'[s]
  BY <1>1, <1>2, <1>3, <1>4, <1>5, <1>6
<1> QED BY <1>5, <1>7

\* A slot that is not about to pay.
LEMMA SlotQuiet ==
  ASSUME TypeOK, NEW r \in Requests, req'[r].pc # "priced",
         \A q \in Requests \ {r} : req'[q] = req[q], NEW s \in Sessions
  PROVE  Billing(s)' \subseteq Billing(s)
  BY DEF Billing

LEMMA SameSlots ==
  ASSUME req' = req, NEW s \in Sessions
  PROVE  Billing(s)' \subseteq Billing(s)
  BY DEF Billing

LEMMA BeginQuiet ==
  ASSUME TypeOK, NEW r \in Requests, NEW kind, NEW s \in Sessions, NEW pc, NEW n, NEW seen,
         Begin(r, kind, s, pc, n, seen), pc # "priced", NEW t \in Sessions
  PROVE  Billing(t)' \subseteq Billing(t)
<1>1. req'[r].pc # "priced" /\ \A q \in Requests \ {r} : req'[q] = req[q]
  BY DEF Begin, TypeOK
<1> QED BY <1>1, SlotQuiet

LEMMA GotoQuiet ==
  ASSUME TypeOK, NEW r \in Requests, req[r].pc # "idle", NEW pc \in Places \ {"priced"},
         Goto(r, pc), NEW t \in Sessions
  PROVE  Billing(t)' \subseteq Billing(t)
  BY GotoEffect, SlotQuiet

LEMMA FinishQuiet ==
  ASSUME TypeOK, NEW r \in Requests, Finish(r), NEW t \in Sessions
  PROVE  Billing(t)' \subseteq Billing(t)
<1>1. req'[r].pc # "priced" /\ \A q \in Requests \ {r} : req'[q] = req[q]
  BY DEF Finish, Idle, TypeOK
<1> QED BY <1>1, SlotQuiet

\* A status that is saved opens no session unnoticed.
LEMMA SaveAccounts ==
  ASSUME TypeOK, NEW s \in Sessions, NEW status, Reopens(s, status), ses'[s].status = status,
         \A t \in Sessions \ {s} : ses'[t] = ses[t], NEW t \in Sessions
  PROVE  Open(t)' - opened'[t] <= Open(t) - opened[t]
<1>1. opened[t] \in Nat /\ opened[s] \in Nat
  BY DEF TypeOK
<1>2. CASE t = s
  BY <1>1, <1>2 DEF Reopens, Open, TypeOK
<1>3. CASE t # s
  BY <1>1, <1>3 DEF Reopens, Open, TypeOK
<1> QED BY <1>2, <1>3

LEMMA StatusAccounts ==
  ASSUME TypeOK, NEW s \in Sessions, NEW status, SaveStatus(s, status), NEW t \in Sessions
  PROVE  Open(t)' - opened'[t] <= Open(t) - opened[t]
<1>1. ses'[s].status = status /\ \A q \in Sessions \ {s} : ses'[q] = ses[q]
  BY DEF SaveStatus, TypeOK, Documents
<1> QED BY <1>1, SaveAccounts DEF SaveStatus

LEMMA SameAccounts ==
  ASSUME TypeOK, opened' = opened, NEW t \in Sessions, ses'[t].status = ses[t].status
  PROVE  Open(t)' - opened'[t] <= Open(t) - opened[t]
  BY DEF Open, TypeOK

\* Taking an open session trades its opening for a payment.
LEMMA LockAccounts ==
  ASSUME TypeOK, TypeOK', OpeningsAccounted, NEW r \in Requests, NEW s \in Sessions,
         NEW kind \in {"end", "endCall"}, NEW seconds \in Nat,
         ses[s].status \notin Over, Lock(r, kind, s, seconds), bills' = bills
  PROVE  OpeningsAccounted'
<1>1. \A t \in Sessions : Open(t)' - opened'[t] <= Open(t) - opened[t]
  BY StatusAccounts DEF Lock
<1>2. CASE req' = req \/ Begin(r, kind, s, "closing", -1, {})
  <2>1. \A t \in Sessions : Billing(t)' \subseteq Billing(t)
    BY <1>2, SameSlots, BeginQuiet
  <2> QED BY <1>1, <2>1, Quiet
<1>3. CASE Begin(r, kind, s, "priced", Price(seconds, ses[s].max), {})
  <2>1. req'[r].pc = "priced" /\ req'[r].s = s /\ \A q \in Requests \ {r} : req'[q] = req[q]
    BY <1>3 DEF Begin, TypeOK
  <2>2. req[r].pc = "idle"
    BY <1>3 DEF Begin
  <2>3. Billing(s)' = Billing(s) \cup {r} /\ r \notin Billing(s)
    BY <2>1, <2>2 DEF Billing
  <2>4. \A t \in Sessions \ {s} : Billing(t)' = Billing(t)
    BY <2>1, <2>2 DEF Billing
  <2>5. Cardinality(Billing(s)') = Cardinality(Billing(s)) + 1
    BY <2>3, BillingIsFinite, FS_AddElement
  <2>6. ses'[s].status = "ended" /\ \A t \in Sessions \ {s} : ses'[t] = ses[t]
    BY DEF Lock, SaveStatus, TypeOK, Documents
  <2>7. opened' = opened
    BY DEF Lock, SaveStatus, Reopens, Over, TypeOK
  <2>8. Open(s) = 1 /\ Open(s)' = 0
    BY <2>6 DEF Open, Over
  <2>9. ASSUME NEW t \in Sessions
        PROVE  (bills[t] + Cardinality(Billing(t)) + Open(t) <= opened[t])'
    <3>1. /\ bills[t] \in Nat /\ opened[t] \in Nat /\ Cardinality(Billing(t)) \in Nat
          /\ bills[t] + Cardinality(Billing(t)) + Open(t) <= opened[t]
      BY BillingIsFinite DEF TypeOK, OpeningsAccounted
    <3>2. CASE t = s
      BY <2>5, <2>7, <2>8, <3>1, <3>2
    <3>3. CASE t # s
      <4>1. Open(t)' = Open(t)
        BY <2>6, <3>3 DEF Open
      <4>2. Cardinality(Billing(t)') = Cardinality(Billing(t))
        BY <2>4, <3>3
      <4> QED BY <2>7, <3>1, <4>1, <4>2
    <3> QED BY <3>2, <3>3
  <2> QED BY <2>9 DEF OpeningsAccounted
<1> QED BY <1>2, <1>3 DEF Lock

\* A payment is no longer to come once it is taken.
LEMMA PayAccounts ==
  ASSUME TypeOK, TypeOK', OpeningsAccounted, NEW r \in Requests, Pay(r)
  PROVE  OpeningsAccounted'
<1>1. req[r] \in Handlers /\ req[r].s \in Sessions /\ req[r].pc = "priced"
  BY BusySlot DEF Pay, At, Handlers
<1>0. PICK s \in Sessions : req[r].s = s
  BY <1>1
<1>2. /\ req'[r].pc = "paid" /\ \A q \in Requests \ {r} : req'[q] = req[q]
  BY <1>1, GotoEffect DEF Pay, Places
<1>3. bills' = [bills EXCEPT ![s] = bills[s] + 1] /\ ses' = ses /\ opened' = opened
  BY <1>0 DEF Pay, stored
<1>4. Billing(s)' = Billing(s) \ {r} /\ r \in Billing(s)
  BY <1>0, <1>1, <1>2 DEF Billing
<1>5. \A t \in Sessions : \A q \in Requests : t # s /\ q = r => req[q].s # t
  BY <1>0
<1>6. SUFFICES ASSUME NEW t \in Sessions
               PROVE  bills'[t] + Cardinality(Billing(t)') + Open(t)' <= opened'[t]
  BY DEF OpeningsAccounted
<1>7. /\ bills[t] \in Nat /\ opened[t] \in Nat /\ Open(t) \in Nat
      /\ IsFiniteSet(Billing(t)) /\ Cardinality(Billing(t)) \in Nat
      /\ bills[t] + Cardinality(Billing(t)) + Open(t) <= opened[t]
      /\ Open(t)' = Open(t) /\ opened'[t] = opened[t]
  BY <1>3, BillingIsFinite DEF TypeOK, Open, OpeningsAccounted
<1>8. CASE t = s
  <2>1. bills'[t] = bills[t] + 1
    BY <1>3, <1>8 DEF TypeOK
  <2>2. Cardinality(Billing(t)') = Cardinality(Billing(t)) - 1
    BY <1>4, <1>7, <1>8, FS_RemoveElement
  <2> QED BY <1>7, <2>1, <2>2
<1>9. CASE t # s
  <2>1. bills'[t] = bills[t]
    BY <1>3, <1>9 DEF TypeOK
  <2>2. Billing(t)' = Billing(t)
    BY <1>2, <1>5, <1>9 DEF Billing
  <2> QED BY <1>7, <2>1, <2>2
<1> QED BY <1>8, <1>9

\* No handler survives a restart.
LEMMA RestartAccounts ==
  ASSUME TypeOK, TypeOK', OpeningsAccounted, Restart
  PROVE  OpeningsAccounted'
<1>1. \A t \in Sessions : Billing(t)' = {}
  BY DEF Billing, Restart, Idle
<1>2. \A t \in Sessions : Open(t)' - opened'[t] <= Open(t) - opened[t]
  BY SameAccounts DEF Restart, stored
<1> QED BY <1>1, <1>2, Quiet DEF Restart

\* A handler that starts.
LEMMA BeginsAccounts ==
  ASSUME TypeOK, TypeOK', OpeningsAccounted, NEW r \in Requests, NEW s \in Sessions,
         Begins(r, s) \/ HungBegin(r, s) \/ Sweep(r, s)
  PROVE  OpeningsAccounted'
<1>1. ASSUME stored' = stored, opened' = opened, bills' = bills,
             \A t \in Sessions : Billing(t)' \subseteq Billing(t)
      PROVE  OpeningsAccounted'
  BY <1>1, SameAccounts, Quiet DEF stored
<1>2. ASSUME GatewayEnd(r, s) \/ DirectEnd(r, s) \/ JoinTimeout(r, s)
      PROVE  OpeningsAccounted'
  <2>1. elapsed[s] \in Nat /\ timer[s].ticks \in Nat
    BY ElapsedNat DEF TypeOK, Timers
  <2>2. CASE ses' = ses /\ opened' = opened /\ req' = req
    <3>1. bills' = bills
      BY <1>2 DEF GatewayEnd, DirectEnd, JoinTimeout, money
    <3> QED BY <2>2, <3>1, SameAccounts, SameSlots, Quiet
  <2>3. CASE Endable(s) /\ Lock(r, "endCall", s, timer[s].ticks) /\ bills' = bills
    BY <2>1, <2>3, LockAccounts DEF Endable
  <2>4. CASE Endable(s) /\ Lock(r, "end", s, elapsed[s]) /\ bills' = bills
    BY <2>1, <2>4, LockAccounts DEF Endable
  <2>5. ses[s].status = "waiting" => Endable(s)
    BY DEF Endable, Over
  <2> QED BY <1>2, <2>2, <2>3, <2>4, <2>5 DEF GatewayEnd, DirectEnd, JoinTimeout, money
<1>3. ASSUME NEW kind, NEW n, NEW seen, Begin(r, kind, s, "read", n, seen) \/ req' = req
      PROVE  \A t \in Sessions : Billing(t)' \subseteq Billing(t)
  BY <1>3, BeginQuiet, SameSlots
<1>4. ASSUME NEW kind, CloseBegin(r, s, kind)
      PROVE  OpeningsAccounted'
  BY <1>1, <1>3, <1>4 DEF CloseBegin, money
<1>5. CASE AcceptBegin(r, s)
  BY <1>1, <1>3, <1>5 DEF AcceptBegin, money
<1>6. CASE \E role \in Roles : JoinBegin(r, s, role)
  BY <1>1, <1>3, <1>6 DEF JoinBegin, money
<1>7. CASE ExtendBegin(r, s)
  <2>1. \A t \in Sessions : Billing(t)' \subseteq Billing(t)
    BY <1>3, <1>7 DEF ExtendBegin
  <2> QED BY <1>1, <1>7, <2>1 DEF ExtendBegin
<1>8. CASE RejectBegin(r, s) \/ CancelBegin(r, s) \/ RequestTimeout(r, s) \/ HungBegin(r, s)
  BY <1>1, <1>3, <1>4, <1>8 DEF RejectBegin, CancelBegin, RequestTimeout, HungBegin, money
<1> QED BY <1>2, <1>5, <1>6, <1>7, <1>8 DEF Begins, EndByTicker, EndByTimer, Sweep

\* A handler that goes on.
LEMMA ContinuesAccounts ==
  ASSUME TypeOK, TypeOK', OpeningsAccounted, NEW r \in Requests, Continues(r) \/ HandlerFails(r)
  PROVE  OpeningsAccounted'
<1> DEFINE s == req[r].s
<1>1. req[r].pc # "idle"
  BY DEF Continues, HandlerFails, AcceptSave, AcceptTimer, CloseSave, JoinSave, StartBegin,
     StartSave, StartTimers, ExtendSave, Pay, Credit, Unpaid, EndSave, CompleteSession, At
<1>2. req[r] \in Handlers /\ s \in Sessions
  BY <1>1, BusySlot DEF Handlers
<1>3. CASE Pay(r)
  BY <1>3, PayAccounts
<1>4. ASSUME bills' = bills, \A t \in Sessions : Billing(t)' \subseteq Billing(t),
             opened' = opened, \A t \in Sessions : ses'[t].status = ses[t].status
      PROVE  OpeningsAccounted'
  BY <1>4, SameAccounts, Quiet
<1>5. ASSUME NEW pc \in Places \ {"priced"}, Goto(r, pc) \/ Finish(r)
      PROVE  \A t \in Sessions : Billing(t)' \subseteq Billing(t)
  BY <1>1, <1>5, GotoQuiet, FinishQuiet
<1>6. CASE AcceptSave(r) \/ CloseSave(r)
  <2>1. \A t \in Sessions : Billing(t)' \subseteq Billing(t)
    BY <1>5, <1>6 DEF AcceptSave, CloseSave, Places
  <2>2. \E status \in {"waiting", Target[req[r].kind]} : SaveStatus(s, status)
    BY <1>6 DEF AcceptSave, CloseSave
  <2>3. \A t \in Sessions : Open(t)' - opened'[t] <= Open(t) - opened[t]
    BY <1>2, <2>2, StatusAccounts
  <2> QED BY <1>6, <2>1, <2>3, Quiet DEF AcceptSave, CloseSave, money
<1>7. CASE StartSave(r)
  <2>1. \A t \in Sessions : Billing(t)' \subseteq Billing(t)
    BY <1>5, <1>7 DEF StartSave, Places
  <2>2. ses'[s].status = "active" /\ \A t \in Sessions \ {s} : ses'[t] = ses[t]
    BY <1>2, <1>7 DEF StartSave, TypeOK, Documents
  <2>3. Reopens(s, "active")
    BY <1>7 DEF StartSave
  <2>4. \A t \in Sessions : Open(t)' - opened'[t] <= Open(t) - opened[t]
    BY <1>2, <2>2, <2>3, SaveAccounts
  <2> QED BY <1>7, <2>1, <2>4, Quiet DEF StartSave, money
<1>8. CASE AcceptTimer(r) \/ JoinSave(r) \/ StartTimers(r) \/ Unpaid(r) \/ CompleteSession(r)
             \/ HandlerFails(r)
  <2>1. \A t \in Sessions : Billing(t)' \subseteq Billing(t)
    BY <1>5, <1>8 DEF AcceptTimer, JoinSave, StartTimers, Unpaid, CompleteSession, HandlerFails,
       Places
  <2> QED
    BY <1>4, <1>8, <2>1 DEF AcceptTimer, JoinSave, StartTimers, Unpaid, CompleteSession,
       HandlerFails, stored, money
<1>9. CASE ExtendSave(r) \/ EndSave(r)
  <2>1. \A t \in Sessions : Billing(t)' \subseteq Billing(t)
    BY <1>5, <1>9 DEF ExtendSave, EndSave, Places
  <2>2. \A t \in Sessions : ses'[t].status = ses[t].status
    <3>1. ASSUME NEW n, NEW paid, NEW t \in Sessions,
                 \/ ses' = [ses EXCEPT ![s] = [ses[s] EXCEPT !.max = n]]
                 \/ ses' = [ses EXCEPT ![s] = [ses[s] EXCEPT !.paid = paid]]
          PROVE  ses'[t].status = ses[t].status
      <4>1. ses[s] \in Documents /\ ses \in [Sessions -> Documents]
        BY <1>2 DEF TypeOK
      <4>2. /\ [ses[s] EXCEPT !.max = n].status = ses[s].status
            /\ [ses[s] EXCEPT !.paid = paid].status = ses[s].status
        BY <4>1 DEF Documents
      <4> QED BY <1>2, <3>1, <4>1, <4>2
    <3>2. ExtendSave(r) => ses' = [ses EXCEPT ![s] = [ses[s] EXCEPT !.max = req[r].n]]
      BY <1>2 DEF ExtendSave, TypeOK
    <3>3. EndSave(r) => ses' = [ses EXCEPT ![s] = [ses[s] EXCEPT !.paid = ses[s].paid \/ req[r].ok]]
      BY <1>2 DEF EndSave, TypeOK
    <3> QED BY <1>9, <3>1, <3>2, <3>3
  <2> QED BY <1>4, <1>9, <2>1, <2>2 DEF ExtendSave, EndSave, money
<1>10. CASE StartBegin(r) \/ Credit(r)
  <2>1. req'[r].pc # "priced" /\ \A q \in Requests \ {r} : req'[q] = req[q]
    <3>1. CASE Finish(r)
      BY <3>1 DEF Finish, Idle, TypeOK
    <3>2. CASE Credit(r)
      BY <1>2, <3>2 DEF Credit, TypeOK, Handlers
    <3>3. CASE StartBegin(r) /\ ~Finish(r)
      BY <1>2, <3>3 DEF StartBegin, TypeOK, Handlers
    <3> QED BY <1>10, <3>1, <3>2, <3>3
  <2>2. \A t \in Sessions : Billing(t)' \subseteq Billing(t)
    BY <2>1, SlotQuiet
  <2> QED BY <1>4, <1>10, <2>2 DEF StartBegin, Credit, stored, money
<1> QED BY <1>3, <1>6, <1>7, <1>8, <1>9, <1>10 DEF Continues

LEMMA OpeningsStep ==
  ASSUME TypeOK, TypeOK', OpeningsAccounted, [Next]_vars
  PROVE  OpeningsAccounted'
<1>1. ASSUME NEW s \in Sessions, InitiateCall(s)
      PROVE  OpeningsAccounted'
  <2>1. \A t \in Sessions : Open(t)' - opened'[t] <= Open(t) - opened[t]
    BY <1>1, StatusAccounts DEF InitiateCall
  <2> QED BY <1>1, <2>1, SameSlots, Quiet DEF InitiateCall, money
<1>2. CASE ses' = ses /\ opened' = opened /\ req' = req /\ bills' = bills
  BY <1>2, SameAccounts, SameSlots, Quiet
<1> QED
  BY <1>1, <1>2, BeginsAccounts, ContinuesAccounts, RestartAccounts
     DEF Next, vars, Wait, Ages, Recharge, Spend, stored, money

----------------
(* How calls end.                                                          *)

BillPlaces == {"priced", "paid", "closing", "ended"}

\* A step that leaves the handlers that end a call alone, and ends none.
Bystands ==
  /\ \A q \in Requests :
       req'[q] = req[q] \/ (req[q].pc \notin BillPlaces /\ req'[q].pc \notin BillPlaces)
  /\ \A s \in Sessions :
       /\ ses'[s].paid = ses[s].paid
       /\ ses'[s].status = "ended" => ses[s].status = "ended" /\ ses'[s].begun = ses[s].begun
  /\ UNCHANGED <<ending, booked, faults>>

\* A step that takes a session in order to end it.
Takes(r, s) ==
  /\ UNCHANGED <<booked, faults>>
  /\ \/ /\ \E seconds \in Nat : Lock(r, "end", s, seconds)
        /\ ending' = ending
     \/ /\ \E seconds \in Nat : Lock(r, "endCall", s, seconds)
        /\ s \notin ending /\ ending' = IF ses[s].paid THEN ending ELSE ending \cup {s}

Bills(r) ==
  Pay(r) \/ Credit(r) \/ Unpaid(r) \/ EndSave(r) \/ CompleteSession(r) \/ HandlerFails(r)

\* A slot that a handler of another kind enters, moves in or leaves.
LEMMA BeginBystands ==
  ASSUME TypeOK, NEW r \in Requests, NEW kind, NEW s \in Sessions, NEW n, NEW seen,
         Begin(r, kind, s, "read", n, seen) \/ UNCHANGED req,
         UNCHANGED <<stored, ending, booked, faults>>
  PROVE  Bystands
<1>1. \A q \in Requests :
        req'[q] = req[q] \/ (req[q].pc \notin BillPlaces /\ req'[q].pc \notin BillPlaces)
  BY DEF Begin, TypeOK, BillPlaces
<1> QED BY <1>1 DEF Bystands, stored

LEMMA MoveBystands ==
  ASSUME TypeOK, NEW r \in Requests, req[r].pc \notin BillPlaces \cup {"idle"},
         NEW pc \in Places \ BillPlaces, Goto(r, pc) \/ Finish(r)
  PROVE  \A q \in Requests :
           req'[q] = req[q] \/ (req[q].pc \notin BillPlaces /\ req'[q].pc \notin BillPlaces)
<1>1. CASE Goto(r, pc)
  BY <1>1, GotoEffect
<1>2. CASE Finish(r)
  BY <1>2 DEF Finish, TypeOK, Idle, BillPlaces
<1> QED BY <1>1, <1>2

LEMMA SaveBystands ==
  ASSUME TypeOK, NEW s \in Sessions, NEW status, SaveStatus(s, status), status # "ended",
         NEW t \in Sessions
  PROVE  /\ ses'[t].paid = ses[t].paid
         /\ ses'[t].status = "ended" => ses[t].status = "ended" /\ ses'[t].begun = ses[t].begun
  BY DEF SaveStatus, TypeOK, Documents

LEMMA BeginsAre ==
  ASSUME TypeOK, NEW r \in Requests, NEW s \in Sessions,
         Begins(r, s) \/ HungBegin(r, s) \/ Sweep(r, s)
  PROVE  Bystands \/ Takes(r, s)
<1>1. elapsed[s] \in Nat /\ timer[s].ticks \in Nat
  BY ElapsedNat DEF TypeOK, Timers
<1>2. CASE GatewayEnd(r, s)
  <2>1. CASE Endable(s)
    BY <1>1, <1>2, <2>1 DEF GatewayEnd, Takes, money
  <2>2. CASE ~Endable(s)
    BY <1>2, <2>2 DEF GatewayEnd, Bystands, money
  <2> QED BY <2>1, <2>2
<1>3. CASE DirectEnd(r, s)
  BY <1>1, <1>3 DEF DirectEnd, Takes, money
<1>4. CASE JoinTimeout(r, s)
  <2>1. CASE ses[s].status = "waiting" /\ s \notin ending
    BY <1>1, <1>4, <2>1 DEF JoinTimeout, Takes, money
  <2>2. CASE ~(ses[s].status = "waiting" /\ s \notin ending)
    BY <1>4, <2>2 DEF JoinTimeout, Bystands, money
  <2> QED BY <2>1, <2>2
<1>5. ASSUME NEW kind, CloseBegin(r, s, kind)
      PROVE  Bystands
  BY <1>5, BeginBystands DEF CloseBegin, money
<1>6. CASE RejectBegin(r, s) \/ CancelBegin(r, s) \/ RequestTimeout(r, s) \/ HungBegin(r, s)
  <2>1. CASE UNCHANGED <<stored, ending, req, faults, opened, money>>
    BY <2>1, BeginBystands DEF money
  <2> QED BY <1>5, <1>6, <2>1 DEF RejectBegin, CancelBegin, RequestTimeout, HungBegin
<1>7. CASE AcceptBegin(r, s) \/ \E role \in Roles : JoinBegin(r, s, role)
  BY <1>7, BeginBystands DEF AcceptBegin, JoinBegin, money
<1>8. CASE ExtendBegin(r, s)
  BY <1>8, BeginBystands DEF ExtendBegin
<1> QED BY <1>2, <1>3, <1>4, <1>6, <1>7, <1>8 DEF Begins, EndByTicker, EndByTimer, Sweep

LEMMA ContinuesAre ==
  ASSUME TypeOK, NEW r \in Requests, Continues(r)
  PROVE  Bystands \/ Bills(r)
<1> SUFFICES ASSUME AcceptSave(r) \/ AcceptTimer(r) \/ CloseSave(r) \/ JoinSave(r) \/ StartBegin(r)
                      \/ StartSave(r) \/ StartTimers(r) \/ ExtendSave(r)
             PROVE  Bystands
  BY DEF Continues, Bills
<1>1. req[r].pc \notin BillPlaces \cup {"idle"} /\ req[r] \in Handlers /\ req[r].s \in Sessions
  <2>1. req[r].pc \in {"read", "saved", "joined", "starting", "armed"}
    BY DEF AcceptSave, AcceptTimer, CloseSave, JoinSave, StartBegin, StartSave, StartTimers,
       ExtendSave, At
  <2> QED BY <2>1, BusySlot DEF BillPlaces, Handlers
<1>2. {"saved", "joined", "armed"} \subseteq Places \ BillPlaces
  BY DEF Places, BillPlaces
<1>3. CASE AcceptTimer(r) \/ JoinSave(r) \/ StartTimers(r)
  <2>1. \A q \in Requests :
          req'[q] = req[q] \/ (req[q].pc \notin BillPlaces /\ req'[q].pc \notin BillPlaces)
    BY <1>1, <1>2, <1>3, MoveBystands DEF AcceptTimer, JoinSave, StartTimers
  <2> QED BY <1>3, <2>1 DEF Bystands, AcceptTimer, JoinSave, StartTimers, stored, money
<1>4. CASE AcceptSave(r) \/ CloseSave(r)
  <2>1. \A q \in Requests :
          req'[q] = req[q] \/ (req[q].pc \notin BillPlaces /\ req'[q].pc \notin BillPlaces)
    BY <1>1, <1>2, <1>4, MoveBystands DEF AcceptSave, CloseSave
  <2>2. PICK status : SaveStatus(req[r].s, status) /\ status # "ended"
    BY <1>4 DEF AcceptSave, CloseSave, At, Target
  <2> QED BY <1>1, <1>4, <2>1, <2>2, SaveBystands DEF Bystands, AcceptSave, CloseSave, money
<1>5. CASE StartSave(r)
  <2>1. \A q \in Requests :
          req'[q] = req[q] \/ (req[q].pc \notin BillPlaces /\ req'[q].pc \notin BillPlaces)
    BY <1>1, <1>2, <1>5, MoveBystands DEF StartSave
  <2>2. \A s \in Sessions :
          /\ ses'[s].paid = ses[s].paid
          /\ ses'[s].status = "ended" => ses[s].status = "ended" /\ ses'[s].begun = ses[s].begun
    BY <1>1, <1>5 DEF StartSave, TypeOK, Documents
  <2> QED BY <1>5, <2>1, <2>2 DEF Bystands, StartSave, money
<1>6. CASE ExtendSave(r)
  <2>1. \A q \in Requests :
          req'[q] = req[q] \/ (req[q].pc \notin BillPlaces /\ req'[q].pc \notin BillPlaces)
    BY <1>1, <1>2, <1>6, MoveBystands DEF ExtendSave
  <2>2. \A s \in Sessions :
          /\ ses'[s].paid = ses[s].paid
          /\ ses'[s].status = "ended" => ses[s].status = "ended" /\ ses'[s].begun = ses[s].begun
    BY <1>1, <1>6 DEF ExtendSave, TypeOK, Documents
  <2> QED BY <1>6, <2>1, <2>2 DEF Bystands, ExtendSave, money
<1>7. CASE StartBegin(r)
  <2>1. CASE Finish(r)
    <3>1. \A q \in Requests :
            req'[q] = req[q] \/ (req[q].pc \notin BillPlaces /\ req'[q].pc \notin BillPlaces)
      BY <1>1, <1>2, <2>1, MoveBystands
    <3> QED BY <1>7, <3>1 DEF Bystands, StartBegin, stored, money
  <2>2. CASE ~Finish(r)
    <3>1. req'[r].pc = "starting" /\ \A q \in Requests \ {r} : req'[q] = req[q]
      BY <1>1, <1>7, <2>2 DEF StartBegin, TypeOK, Handlers
    <3> QED BY <1>1, <1>7, <3>1 DEF Bystands, StartBegin, BillPlaces, stored, money
  <2> QED BY <2>1, <2>2
<1> QED BY <1>3, <1>4, <1>5, <1>6, <1>7

\* Every step ends a call, goes on ending one, or leaves those that do alone.
LEMMA StepsAre ==
  ASSUME TypeOK, [Next]_vars
  PROVE  \/ Bystands \/ Restart
         \/ \E r \in Requests : Bills(r) \/ \E s \in Sessions : Takes(r, s)
<1>1. ASSUME NEW s \in Sessions, InitiateCall(s)
      PROVE  Bystands
  <2>1. \A t \in Sessions :
          /\ ses'[t].paid = ses[t].paid
          /\ ses'[t].status = "ended" => ses[t].status = "ended" /\ ses'[t].begun = ses[t].begun
    BY <1>1, SaveBystands DEF InitiateCall
  <2> QED BY <1>1, <2>1 DEF InitiateCall, Bystands, money
<1>2. CASE UNCHANGED <<ses, req, ending, booked, faults>>
  BY <1>2 DEF Bystands
<1>3. ASSUME NEW r \in Requests, HandlerFails(r)
      PROVE  Bills(r)
  BY <1>3 DEF Bills
<1> QED
  BY <1>1, <1>2, <1>3, BeginsAre, ContinuesAre
     DEF Next, vars, Wait, Ages, Recharge, Spend, stored, money

----------------
(* The gateway's set of calls it is ending.                                *)

Enders(s) == {r \in Requests : Ends(r, s)}

\* A call is in the set while exactly one handler is at its end.
EndingAccounted ==
  \A s \in Sessions :
    \/ s \notin ending /\ Enders(s) = {}
    \/ s \in ending /\ \E r \in Requests : Enders(s) = {r}

\* The steps that change neither.
LEMMA SameEnders ==
  ASSUME EndingAccounted, UNCHANGED ending,
         \A r \in Requests, s \in Sessions : Ends(r, s)' = Ends(r, s)
  PROVE  EndingAccounted'
<1>1. \A s \in Sessions : Enders(s)' = Enders(s)
  BY DEF Enders
<1> QED BY <1>1 DEF EndingAccounted

\* A handler that lets go of its call.
LEMMA LetsGo ==
  ASSUME TypeOK, EndingAccounted, NEW r \in Requests, NEW s \in Sessions, Ends(r, s),
         req'[r].pc \notin {"priced", "paid", "closing"},
         \A q \in Requests \ {r} : req'[q] = req[q], ending' = ending \ {s}
  PROVE  EndingAccounted'
<1>1. Enders(s) = {r} /\ Enders(s)' = {}
  <2>1. r \in Enders(s)
    BY DEF Enders
  <2>2. Enders(s) = {r}
    BY <2>1 DEF EndingAccounted
  <2> QED BY <2>2 DEF Enders, Ends
<1>2. \A t \in Sessions \ {s} : Enders(t)' = Enders(t)
  BY DEF Enders, Ends
<1> QED BY <1>1, <1>2 DEF EndingAccounted

LEMMA TakesEnding ==
  ASSUME TypeOK, EndingAccounted, NEW r \in Requests, NEW s \in Sessions, Takes(r, s)
  PROVE  EndingAccounted'
<1>1. CASE UNCHANGED req /\ UNCHANGED ending
  BY <1>1, SameEnders DEF Ends
<1>2. ASSUME NEW kind \in {"end", "endCall"}, NEW pc \in {"priced", "closing"}, NEW n,
             Begin(r, kind, s, pc, n, {}),
             IF kind = "end" THEN ending' = ending
             ELSE s \notin ending /\ ending' = ending \cup {s}
      PROVE  EndingAccounted'
  <2>1. /\ req'[r].pc = pc /\ req'[r].kind = kind /\ req'[r].s = s /\ req[r].pc = "idle"
        /\ \A q \in Requests \ {r} : req'[q] = req[q]
    BY <1>2 DEF Begin, TypeOK
  <2>2. CASE kind = "end"
    BY <1>2, <2>1, <2>2, SameEnders DEF Ends
  <2>3. CASE kind = "endCall"
    <3>1. Enders(s) = {}
      BY <1>2, <2>3 DEF EndingAccounted
    <3>2. Enders(s)' = {r}
      BY <2>1, <2>3, <3>1 DEF Enders, Ends
    <3>3. \A t \in Sessions \ {s} : Enders(t)' = Enders(t)
      BY <2>1 DEF Enders, Ends
    <3> QED BY <1>2, <2>3, <3>2, <3>3 DEF EndingAccounted
  <2> QED BY <2>2, <2>3
<1> QED BY <1>1, <1>2 DEF Takes, Lock

\* The steps of a handler that bills: all but its last save, and its failure
\* there, keep the call in the set.
LEMMA BillsEnding ==
  ASSUME TypeOK, EndingAccounted, NEW r \in Requests, Bills(r)
  PROVE  EndingAccounted'
<1>1. req[r] \in Handlers /\ req[r].s \in Sessions
  BY BusySlot DEF Bills, Pay, Credit, Unpaid, EndSave, CompleteSession, HandlerFails, At, Handlers
<1>2. CASE Pay(r) \/ Credit(r) \/ Unpaid(r)
  <2>1. /\ \A q \in Requests \ {r} : req'[q] = req[q]
        /\ req'[r].pc \in {"paid", "closing"} /\ req[r].pc \in {"priced", "paid"}
        /\ req'[r].kind = req[r].kind /\ req'[r].s = req[r].s
    <3>1. CASE Credit(r)
      BY <1>1, <3>1 DEF Credit, At, TypeOK, Handlers
    <3>2. CASE Pay(r) \/ Unpaid(r)
      BY <3>2, GotoEffect DEF Pay, Unpaid, At, Places
    <3> QED BY <1>2, <3>1, <3>2
  <2> QED BY <1>2, <2>1, SameEnders DEF Ends, Pay, Credit, Unpaid
<1>3. CASE EndSave(r)
  <2>1. req'[r].pc = "ended" /\ req[r].pc = "closing" /\ \A q \in Requests \ {r} : req'[q] = req[q]
    BY <1>3, GotoEffect DEF EndSave, At, Places
  <2>2. CASE req[r].kind = "endCall"
    BY <1>1, <1>3, <2>1, <2>2, LetsGo DEF EndSave, Ends
  <2>3. CASE req[r].kind # "endCall"
    <3>1. req'[r].kind # "endCall"
      BY <1>3, <2>3, GotoEffect DEF EndSave, At, Places
    <3> QED BY <1>3, <2>1, <2>3, <3>1, SameEnders DEF EndSave, Ends
  <2> QED BY <2>2, <2>3
<1>4. CASE CompleteSession(r) \/ HandlerFails(r)
  <2>1. req'[r].pc = "idle" /\ \A q \in Requests \ {r} : req'[q] = req[q]
    BY <1>4 DEF CompleteSession, HandlerFails, Finish, Idle, TypeOK
  <2>2. CASE HandlerFails(r) /\ At(r, "closing", {"endCall"})
    BY <1>1, <2>1, <2>2, LetsGo DEF HandlerFails, Ends, At
  <2>3. CASE CompleteSession(r) \/ (HandlerFails(r) /\ ~At(r, "closing", {"endCall"}))
    <3>1. UNCHANGED ending /\ \A s \in Sessions : ~Ends(r, s)
      BY <2>3 DEF CompleteSession, HandlerFails, Ends, At
    <3> QED BY <2>1, <3>1, SameEnders DEF Ends
  <2> QED BY <1>4, <2>2, <2>3
<1> QED BY <1>2, <1>3, <1>4 DEF Bills

LEMMA EndingStep ==
  ASSUME TypeOK, EndingAccounted, [Next]_vars
  PROVE  EndingAccounted'
<1>1. CASE Bystands
  <2>1. \A r \in Requests, s \in Sessions : Ends(r, s)' = Ends(r, s)
    BY <1>1 DEF Bystands, Ends, BillPlaces
  <2> QED BY <1>1, <2>1, SameEnders DEF Bystands
<1>2. CASE Restart
  <2>1. \A s \in Sessions : Enders(s)' = {}
    BY <1>2 DEF Restart, Enders, Ends, Idle
  <2> QED BY <1>2, <2>1 DEF EndingAccounted, Restart
<1> QED BY <1>1, <1>2, TakesEnding, BillsEnding, StepsAre

----------------
(* What is booked for a call.                                              *)

\* The handler in slot r will book a bill for s.
Books(r, s) ==
  req[r].pc \in BillPlaces /\ req[r].s = s /\ req[r].n \in Nat \ {0}
Booked(s) == booked[s] > 0 \/ \E r \in Requests : Books(r, s)

CreditedIsPriced ==
  \A r \in Requests : req[r].pc = "closing" /\ req[r].ok => req[r].n \in Nat \ {0}

\* A call that was paid, or that had begun when it ended, is booked or has a
\* handler that will.
BillIsBooked ==
  faults = 0 =>
    \A s \in Sessions : ses[s].paid \/ (ses[s].status = "ended" /\ ses[s].begun) => Booked(s)

BookInv == CreditedIsPriced /\ BillIsBooked

\* What the steps of a handler that bills do to its slot, and to what is booked.
LEMMA BillsEffect ==
  ASSUME TypeOK, NEW r \in Requests, Bills(r)
  PROVE  /\ req[r] \in Handlers /\ req[r].s \in Sessions
         /\ \A q \in Requests \ {r} : req'[q] = req[q]
         /\ \/ HandlerFails(r)
            \/ /\ Pay(r) \/ Credit(r) \/ Unpaid(r) \/ EndSave(r)
               /\ booked' = booked /\ req'[r].pc \in BillPlaces
               /\ req'[r].n = req[r].n /\ req'[r].s = req[r].s
            \/ CompleteSession(r)
<1>1. req[r] \in Handlers /\ req[r].s \in Sessions
  BY BusySlot DEF Bills, Pay, Credit, Unpaid, EndSave, CompleteSession, HandlerFails, At, Handlers
<1>2. CASE Credit(r)
  BY <1>1, <1>2 DEF Credit, TypeOK, Handlers, BillPlaces, money
<1>3. CASE Pay(r)
  BY <1>1, <1>3, GotoEffect DEF Pay, At, Places, BillPlaces
<1>4. CASE Unpaid(r)
  BY <1>1, <1>4, GotoEffect DEF Unpaid, Places, BillPlaces, money
<1>5. CASE EndSave(r)
  BY <1>1, <1>5, GotoEffect DEF EndSave, At, Places, BillPlaces, money
<1>6. CASE CompleteSession(r) \/ HandlerFails(r)
  BY <1>1, <1>6 DEF CompleteSession, HandlerFails, Finish, TypeOK
<1> QED BY <1>2, <1>3, <1>4, <1>5, <1>6 DEF Bills

\* Without faults a bill that is booked, or in a handler's hand, stays so.
LEMMA BookedStays ==
  ASSUME TypeOK, [Next]_vars, faults' = 0, NEW s \in Sessions, Booked(s)
  PROVE  Booked(s)'
<1>1. faults \in Nat /\ booked \in [Sessions -> Nat]
  BY CallAssumption DEF TypeOK
<1>2. CASE Bystands
  <2>1. \A r \in Requests : Books(r, s) => Books(r, s)'
    BY <1>2 DEF Bystands, Books
  <2> QED BY <1>2, <2>1 DEF Bystands, Booked
<1>3. ASSUME NEW r \in Requests, NEW t \in Sessions, Takes(r, t)
      PROVE  Booked(s)'
  <2>1. \A q \in Requests : req'[q] = req[q] \/ req[q].pc = "idle"
    BY <1>3 DEF Takes, Lock, Begin, TypeOK
  <2>2. \A q \in Requests : Books(q, s) => Books(q, s)'
    BY <2>1 DEF Books, BillPlaces
  <2> QED BY <1>3, <2>2 DEF Takes, Booked
<1>4. ASSUME NEW r \in Requests, Bills(r)
      PROVE  Booked(s)'
  <2>1. ~HandlerFails(r)
    BY <1>1 DEF HandlerFails
  <2>2. \A q \in Requests \ {r} : Books(q, s) => Books(q, s)'
    BY <1>4, BillsEffect DEF Books
  <2>3. CASE Pay(r) \/ Credit(r) \/ Unpaid(r) \/ EndSave(r)
    <3>1. /\ booked' = booked /\ req'[r].pc \in BillPlaces
          /\ req'[r].n = req[r].n /\ req'[r].s = req[r].s
      <4>1. ~CompleteSession(r)
        BY <2>3 DEF Pay, Credit, Unpaid, EndSave, CompleteSession, At
      <4> QED BY <1>4, <2>1, <4>1, BillsEffect
    <3>2. Books(r, s) => Books(r, s)'
      BY <3>1 DEF Books
    <3> QED BY <2>2, <3>1, <3>2 DEF Booked
  <2>4. CASE CompleteSession(r)
    <3>1. req[r] \in Handlers /\ req[r].s \in Sessions /\ req[r].n \in Nat \cup {-1}
      BY <1>4, BillsEffect DEF Handlers
    <3>2. booked' = [booked EXCEPT ![req[r].s] = IF req[r].n > 0 THEN @ + req[r].n ELSE @]
      BY <2>4 DEF CompleteSession
    <3>3. booked[s] > 0 => booked'[s] > 0
      BY <1>1, <3>1, <3>2
    <3>4. Books(r, s) => booked'[s] > 0
      BY <1>1, <3>1, <3>2 DEF Books
    <3> QED BY <2>2, <3>3, <3>4 DEF Booked
  <2> QED BY <1>4, <2>1, <2>3, <2>4 DEF Bills
<1>5. ~Restart
  BY <1>1 DEF Restart
<1> QED BY <1>2, <1>3, <1>4, <1>5, StepsAre

\* A call that is taken has its price in hand if it had begun, unless it was
\* paid before.
LEMMA TakesBooks ==
  ASSUME TypeOK, NEW r \in Requests, NEW s \in Sessions, Takes(r, s)
  PROVE  /\ \A t \in Sessions \ {s} : ses'[t] = ses[t]
         /\ ses'[s].paid = ses[s].paid /\ ses'[s].begun = ses[s].begun
         /\ ses[s].begun /\ ~ses[s].paid => Books(r, s)'
         /\ \A q \in Requests : req'[q] = req[q] \/ ~req'[q].ok
<1>1. PICK seconds \in Nat, kind \in {"end", "endCall"} : Lock(r, kind, s, seconds)
  BY DEF Takes
<1>2. /\ \A t \in Sessions \ {s} : ses'[t] = ses[t]
      /\ ses'[s].paid = ses[s].paid /\ ses'[s].begun = ses[s].begun
  BY <1>1 DEF Lock, SaveStatus, TypeOK, Documents
<1>3. Price(seconds, ses[s].max) \in Nat \ {0}
  BY PriceType DEF TypeOK, Documents
<1>4. ASSUME NEW pc, NEW n, Begin(r, kind, s, pc, n, {})
      PROVE  /\ req'[r].pc = pc /\ req'[r].s = s /\ req'[r].n = n /\ ~req'[r].ok
             /\ \A q \in Requests \ {r} : req'[q] = req[q]
  BY <1>4 DEF Begin, TypeOK
<1>5. ses[s].begun /\ ~ses[s].paid => Books(r, s)'
  <2> SUFFICES ASSUME ses[s].begun, ~ses[s].paid PROVE Books(r, s)'
    OBVIOUS
  <2>1. Begin(r, kind, s, "priced", Price(seconds, ses[s].max), {})
    BY <1>1 DEF Lock
  <2> QED BY <1>3, <1>4, <2>1 DEF Books, BillPlaces
<1>6. \A q \in Requests : req'[q] = req[q] \/ ~req'[q].ok
  BY <1>1, <1>4 DEF Lock
<1> QED BY <1>2, <1>5, <1>6

LEMMA CreditedStep ==
  ASSUME TypeOK, Checked, CreditedIsPriced, [Next]_vars
  PROVE  CreditedIsPriced'
<1> SUFFICES ASSUME NEW q \in Requests, req'[q].pc = "closing", req'[q].ok, req'[q] # req[q]
             PROVE  req'[q].n \in Nat \ {0}
  BY DEF CreditedIsPriced
<1>1. ~Bystands
  BY DEF Bystands, BillPlaces
<1>2. ~Restart
  BY DEF Restart, Idle
<1>3. ASSUME NEW r \in Requests, Bills(r)
      PROVE  req'[q].n \in Nat \ {0}
  <2>1. q = r
    BY <1>3, BillsEffect
  <2>2. ~Finish(r)
    BY <2>1 DEF Finish, Idle, TypeOK
  <2>3. CASE Credit(r)
    <3>1. req[r].n \in Nat \ {0}
      BY <2>3 DEF Credit, At, Checked, Sound
    <3>2. req'[r].n = req[r].n
      <4>1. ~CompleteSession(r) /\ ~HandlerFails(r)
        BY <2>2 DEF CompleteSession, HandlerFails
      <4> QED BY <1>3, <4>1, BillsEffect
    <3> QED BY <2>1, <3>1, <3>2
  <2>4. CASE Unpaid(r)
    BY <2>1, <2>4, GotoEffect DEF Unpaid, Checked, Sound, Places
  <2>5. CASE Pay(r) \/ EndSave(r)
    BY <2>1, <2>5, GotoEffect DEF Pay, EndSave, At, Places
  <2> QED BY <1>3, <2>2, <2>3, <2>4, <2>5 DEF Bills, CompleteSession, HandlerFails
<1>4. ASSUME NEW r \in Requests, NEW s \in Sessions, Takes(r, s)
      PROVE  FALSE
  BY <1>4, TakesBooks
<1> QED BY <1>1, <1>2, <1>3, <1>4, StepsAre

LEMMA BookStep ==
  ASSUME TypeOK, Checked, BookInv, [Next]_vars
  PROVE  BookInv'
<1>1. CreditedIsPriced'
  BY CreditedStep DEF BookInv
<1>2. BillIsBooked'
  <2> SUFFICES ASSUME faults' = 0, NEW s \in Sessions,
                      ses'[s].paid \/ (ses'[s].status = "ended" /\ ses'[s].begun)
               PROVE  Booked(s)'
    BY DEF BillIsBooked
  <2>1. faults \in Nat
    BY CallAssumption DEF TypeOK
  <2>2. faults = 0 /\ ~Restart
    <3>1. ASSUME NEW r \in Requests, Bills(r)
          PROVE  faults' = faults \/ faults' = faults + 1
      BY <3>1 DEF Bills, Pay, Credit, Unpaid, EndSave, CompleteSession, HandlerFails
    <3>2. ASSUME NEW r \in Requests, NEW t \in Sessions, Takes(r, t)
          PROVE  faults' = faults
      BY <3>2 DEF Takes
    <3>3. Bystands => faults' = faults
      BY DEF Bystands
    <3>4. Restart => faults' = faults + 1
      BY DEF Restart
    <3> QED BY <2>1, <3>1, <3>2, <3>3, <3>4, StepsAre
  <2>3. ses[s].paid \/ (ses[s].status = "ended" /\ ses[s].begun) => Booked(s)'
    BY <2>2, BookedStays DEF BookInv, BillIsBooked
  <2>4. CASE Bystands
    BY <2>3, <2>4 DEF Bystands
  <2>5. ASSUME NEW r \in Requests, NEW t \in Sessions, Takes(r, t)
        PROVE  Booked(s)'
    <3>1. CASE s = t
      <4>1. ses[s].begun /\ ~ses[s].paid => Books(r, s)'
        BY <2>5, <3>1, TakesBooks
      <4>2. ses[s].paid \/ ses[s].begun
        BY <2>5, <3>1, TakesBooks
      <4> QED BY <2>3, <4>1, <4>2 DEF Booked
    <3>2. CASE s # t
      BY <2>3, <2>5, <3>2, TakesBooks
    <3> QED BY <3>1, <3>2
  <2>6. ASSUME NEW r \in Requests, Bills(r)
        PROVE  Booked(s)'
    <3>1. CASE EndSave(r)
      <4>1. req[r].s \in Sessions /\ req'[r].pc = "ended" /\ req'[r].n = req[r].n /\ req'[r].s = req[r].s
        BY <2>6, <3>1, BillsEffect, GotoEffect DEF EndSave, At, Places
      <4>2. \A t \in Sessions \ {req[r].s} : ses'[t] = ses[t]
        BY <3>1 DEF EndSave, TypeOK
      <4>3. /\ ses'[req[r].s].status = ses[req[r].s].status /\ ses'[req[r].s].begun = ses[req[r].s].begun
            /\ ses'[req[r].s].paid => ses[req[r].s].paid \/ req[r].ok
        <5>1. ses[req[r].s] \in Documents
          BY <4>1 DEF TypeOK
        <5>2. ses'[req[r].s] = [ses[req[r].s] EXCEPT !.paid = ses[req[r].s].paid \/ req[r].ok]
          BY <3>1, <4>1 DEF EndSave, TypeOK
        <5> QED BY <5>1, <5>2 DEF Documents
      <4>4. CASE s = req[r].s /\ req[r].ok
        <5>1. req[r].n \in Nat \ {0}
          BY <3>1, <4>4 DEF EndSave, At, BookInv, CreditedIsPriced
        <5>2. Books(r, s)'
          BY <4>1, <4>4, <5>1 DEF Books, BillPlaces
        <5> QED BY <5>2 DEF Booked
      <4> QED BY <2>3, <4>2, <4>3, <4>4
    <3>2. CASE ~EndSave(r)
      <4>1. ses' = ses
        BY <2>6, <3>2 DEF Bills, Pay, Credit, Unpaid, CompleteSession, HandlerFails, stored
      <4> QED BY <2>3, <4>1
    <3> QED BY <3>1, <3>2
  <2> QED BY <2>2, <2>4, <2>5, <2>6, StepsAre
<1> QED BY <1>1, <1>2 DEF BookInv

----------------
LEMMA InitInv == Init => BillInv
<1> SUFFICES ASSUME Init
             PROVE  BillInv
  OBVIOUS
<1>1. TypeOK
  BY InitType
<1>2. Checked /\ PaidWasCharged
  BY DEF Init, Checked, Sound, Idle, PaidWasCharged, NoSession
<1>3. ASSUME NEW s \in Sessions
      PROVE  bills[s] + Cardinality(Billing(s)) + Open(s) <= opened[s]
  <2>1. Billing(s) = {}
    BY DEF Init, Billing, Idle
  <2>2. bills[s] = 0 /\ Open(s) = 0 /\ opened[s] = 0
    BY DEF Init, Open, NoSession, Over
  <2> QED BY <2>1, <2>2, FS_EmptySet
<1> QED BY <1>1, <1>2, <1>3 DEF BillInv, CInv, OpeningsAccounted

LEMMA StepInv == BillInv /\ [Next]_vars => BillInv'
  BY TypeStep, CheckedStep, PaidStep, OpeningsStep DEF BillInv, CInv

LEMMA Invariance == Spec => []BillInv
  BY InitInv, StepInv, PTL DEF Spec

\* The three invariants together: types and payments, the calls that the
\* gateway is ending, and what is booked.
LEMMA EndInvariance == Spec => [](BillInv /\ EndingAccounted /\ BookInv)
<1>1. Init => EndingAccounted /\ BookInv
  <2> SUFFICES ASSUME Init PROVE EndingAccounted /\ BookInv
    OBVIOUS
  <2>1. \A s \in Sessions : Enders(s) = {}
    BY DEF Init, Enders, Ends, Idle
  <2>2. CreditedIsPriced /\ BillIsBooked
    BY DEF Init, CreditedIsPriced, BillIsBooked, Idle, NoSession
  <2> QED BY <2>1, <2>2 DEF Init, EndingAccounted, BookInv
<1>2. BillInv /\ EndingAccounted /\ BookInv /\ [Next]_vars => (EndingAccounted /\ BookInv)'
  BY EndingStep, BookStep DEF BillInv, CInv
<1> QED BY <1>1, <1>2, InitInv, StepInv, PTL DEF Spec

\* Every document, timer, handler and sum has its type in every reachable
\* state: no balance, limit or price ever becomes negative.
THEOREM CallTypeOK == Spec => []TypeOK
<1>1. BillInv => TypeOK
  BY DEF BillInv, CInv
<1> QED BY <1>1, Invariance, PTL

\* endSession: isPaid is true only of a session the user has paid for.
THEOREM CallPaid == Spec => []PaidWasCharged
<1>1. BillInv => PaidWasCharged
  BY DEF BillInv, CInv
<1> QED BY <1>1, Invariance, PTL

\* The findOneAndUpdate of endSession: a call is billed at most once for each
\* time it was open, whatever handlers, timers and crons end it, fail or are
\* lost.
THEOREM CallOneBill == Spec => []OneBillPerOpening
<1>1. BillInv => OneBillPerOpening
  <2> SUFFICES ASSUME BillInv, NEW s \in Sessions
               PROVE  bills[s] <= opened[s]
    BY DEF OneBillPerOpening
  <2>1. /\ bills[s] \in Nat /\ opened[s] \in Nat /\ Open(s) \in Nat
        /\ bills[s] + Cardinality(Billing(s)) + Open(s) <= opened[s]
    BY DEF BillInv, CInv, TypeOK, Open, OpeningsAccounted
  <2>2. Cardinality(Billing(s)) \in Nat
    BY BillingIsFinite
  <2> QED BY <2>1, <2>2
<1> QED BY <1>1, Invariance, PTL

\* processingEndCall: whoever ends a call, fails or is restarted, a call the
\* gateway is ending has exactly one handler that will let go of it, so it is
\* never blocked for good.
THEOREM CallEndingIsHandled == Spec => []EndingIsHandled
<1>1. TypeOK /\ EndingAccounted => EndingIsHandled
  <2> SUFFICES ASSUME TypeOK, EndingAccounted, NEW s \in ending
               PROVE  \E r \in Requests : Ends(r, s) /\ \A q \in Requests : Ends(q, s) => q = r
    BY DEF EndingIsHandled
  <2>1. s \in Sessions
    BY DEF TypeOK
  <2>2. PICK r \in Requests : Enders(s) = {r}
    BY <2>1 DEF EndingAccounted
  <2> QED BY <2>2 DEF Enders
<1>2. BillInv => TypeOK
  BY DEF BillInv, CInv
<1> QED BY <1>1, <1>2, EndInvariance, PTL

\* endSession and completeSession: as long as nothing fails, a call that was
\* connected and has ended is booked once its handlers are through, whatever
\* the order in which they joined, started, extended and ended it.
THEOREM CallEndedIsBilled == Spec => []EndedIsBilled
<1>1. TypeOK /\ BookInv => EndedIsBilled
  <2> SUFFICES ASSUME TypeOK, BookInv, NEW s \in Sessions,
                      ses[s].status = "ended", ses[s].begun, ~InHand(s), faults = 0
               PROVE  booked[s] > 0
    BY DEF EndedIsBilled
  <2>1. Booked(s)
    BY DEF BookInv, BillIsBooked
  <2>2. \A r \in Requests : ~Books(r, s)
    BY DEF Books, BillPlaces, InHand, Handles
  <2> QED BY <2>1, <2>2 DEF Booked
<1>2. BillInv => TypeOK
  BY DEF BillInv, CInv
<1> QED BY <1>1, <1>2, EndInvariance, PTL

----------------
(* One handler after another: what is taken for a call. *)

\* One handler after another: what a handler read of its call still holds when
\* it saves.
OneHandler == \A q, r \in Requests : q = r

\* The price of the minutes used within the limit, one at least.
CallDue(s) == Rate * Greater(1, Minutes(Lesser(elapsed[s], ses[s].max)))

Current(h) ==
  /\ h.pc = "read" /\ h.kind = "accept" => ses[h.s].status = "initiated"
  /\ h.pc = "read" /\ h.kind = "extend" => ses[h.s].status = "active"
  /\ h.pc = "read" /\ h.kind \in DOMAIN Target => ses[h.s].status \in Pending
  /\ h.pc = "starting" => ses[h.s].status = "waiting"
  /\ h.pc = "priced" => /\ ses[h.s].status = "ended" /\ ses[h.s].begun
                        /\ charged[h.s] = 0 /\ h.n <= CallDue(h.s)

\* Only an ended call is paid, within its price; the ticker is never ahead of
\* the call, and counts nothing before it.
Priced(s) ==
  /\ charged[s] > 0 => ses[s].status = "ended" /\ ses[s].begun /\ charged[s] <= CallDue(s)
  /\ timer[s].ticks <= elapsed[s]
  /\ ses[s].status \in Pending \cup {"none"} => timer[s].ticks = 0

OneInv == (\A r \in Requests : Current(req[r])) /\ \A s \in Sessions : Priced(s)

----------------
\* The price of a call grows with the seconds it is told.
LEMMA PriceGrows ==
  ASSUME NEW a \in Nat, NEW b \in Nat, NEW c \in Nat, a <= b
  PROVE  /\ Price(a, c) \in Nat
         /\ Rate * Greater(1, Minutes(Lesser(b, c))) \in Nat
         /\ Price(a, c) <= Rate * Greater(1, Minutes(Lesser(b, c)))
<1>1. PICK x \in Nat, y \in Nat : /\ x = Greater(1, Lesser(a, c)) /\ y = Lesser(b, c)
                                  /\ x <= y \/ x = 1
  <2>1. /\ Greater(1, Lesser(a, c)) \in Nat /\ Lesser(b, c) \in Nat
        /\ Greater(1, Lesser(a, c)) <= Lesser(b, c) \/ Greater(1, Lesser(a, c)) = 1
    BY DEF Greater, Lesser
  <2> QED BY <2>1
<1>2. PICK m \in Nat, n \in Nat : /\ m = Greater(1, Minutes(x)) /\ n = Greater(1, Minutes(y))
                                  /\ m <= n
  <2>1. Minutes(x) \in Nat /\ Minutes(y) \in Nat
    BY MinutesType
  <2>2. x <= y => Minutes(x) <= Minutes(y)
    BY DEF Minutes
  <2>3. Minutes(1) = 1
    BY DEF Minutes
  <2>4. Greater(1, Minutes(x)) <= Greater(1, Minutes(y))
    BY <1>1, <2>1, <2>2, <2>3 DEF Greater
  <2>5. Greater(1, Minutes(x)) \in Nat /\ Greater(1, Minutes(y)) \in Nat
    BY <2>1 DEF Greater
  <2> QED BY <2>4, <2>5
<1>3. PICK d \in Nat : n = m + d
  <2>1. n - m \in Nat /\ n = m + (n - m)
    BY <1>2
  <2> QED BY <2>1
<1>4. \A p, q \in Nat : p * q \in Nat
  OBVIOUS
<1>5. Rate \in Nat /\ Rate * n = Rate * m + Rate * d
  BY <1>3, CallAssumption
<1>6. Rate * m \in Nat /\ Rate * d \in Nat
  BY <1>4, <1>5
<1> QED BY <1>1, <1>2, <1>5, <1>6 DEF Price

\* What the updates of a timer do to the seconds that its ticker counted.
LEMMA Ticks ==
  ASSUME NEW t \in Timers
  PROVE  /\ NoServiceTimer(t).ticks = t.ticks /\ NoTicker(t).ticks = 0
         /\ NoServiceTimer(NoTicker(t)).ticks = 0
         /\ [NoServiceTimer(NoTicker(t)) EXCEPT !.join = FALSE].ticks = 0
         /\ \A b : [t EXCEPT !.request = b].ticks = t.ticks /\ [t EXCEPT !.join = b].ticks = t.ticks
         /\ \A n : [t EXCEPT !.ticker = n, !.ticks = 0].ticks = 0
         /\ \A m, n : [t EXCEPT !.autoEnd = m, !.ticker = n, !.ticks = 0].ticks = 0
         /\ \A m, n : [t EXCEPT !.request = FALSE, !.autoEnd = m, !.ticker = n].ticks = t.ticks
         /\ \A n : [t EXCEPT !.ticks = n].ticks = n
BY Zenon DEF Timers, NoServiceTimer, NoTicker

\* What a step leaves of a call: its status, limit, time and payment.
Kept(t) ==
  /\ ses'[t].status = ses[t].status /\ ses'[t].begun = ses[t].begun /\ ses'[t].max = ses[t].max
  /\ elapsed'[t] = elapsed[t] /\ charged'[t] = charged[t]
  /\ timer'[t].ticks \in {timer[t].ticks, 0}

LEMMA KeptPriced ==
  ASSUME TypeOK, NEW t \in Sessions, Kept(t), Priced(t)
  PROVE  Priced(t)'
<1>1. elapsed[t] \in Nat
  BY ElapsedNat
<1>2. CallDue(t)' = CallDue(t)
  BY DEF Kept, CallDue
<1> QED BY <1>1, <1>2 DEF Kept, Priced

LEMMA KeptCurrent ==
  ASSUME TypeOK, NEW r \in Requests, Current(req[r]), req'[r] = req[r],
         req[r].pc # "idle" => Kept(req[r].s)
  PROVE  Current(req[r])'
<1>1. CASE req[r].pc = "idle"
  BY <1>1 DEF Current
<1>2. CASE req[r].pc # "idle"
  <2>1. PICK s \in Sessions : s = req[r].s
    BY <1>2, BusySlot DEF Handlers
  <2>2. Kept(s) /\ req'[r].s = s
    BY <1>2, <2>1
  <2>3. CallDue(s)' = CallDue(s)
    BY <2>2 DEF Kept, CallDue
  <2>4. /\ ses'[s].status = ses[s].status /\ ses'[s].begun = ses[s].begun
        /\ charged'[s] = charged[s]
    BY <2>2 DEF Kept
  <2>5. CallDue(req[r].s)' = CallDue(s)
    BY <2>1, <2>2, <2>3 DEF CallDue
  <2> QED BY <2>1, <2>2, <2>4, <2>5 DEF Current
<1> QED BY <1>1, <1>2

\* A step that leaves every call but s, and no handler with old news.
LEMMA CallChanges ==
  ASSUME TypeOK, OneInv, NEW s \in Sessions, \A t \in Sessions \ {s} : Kept(t), Priced(s)',
         \A r \in Requests : \/ Current(req[r])'
                             \/ req'[r] = req[r] /\ (req[r].pc # "idle" => req[r].s # s)
  PROVE  OneInv'
<1>1. ASSUME NEW r \in Requests, req'[r] = req[r], req[r].pc # "idle" => req[r].s # s
      PROVE  Current(req[r])'
  <2>1. req[r].pc # "idle" => req[r].s \in Sessions
    BY BusySlot DEF Handlers
  <2>2. req[r].pc # "idle" => Kept(req[r].s)
    BY <1>1, <2>1
  <2>3. Current(req[r])
    BY DEF OneInv
  <2> QED BY <1>1, <2>2, <2>3, KeptCurrent
<1>2. \A t \in Sessions \ {s} : Priced(t)'
  BY KeptPriced DEF OneInv
<1> QED BY <1>1, <1>2 DEF OneInv

LEMMA CallStays ==
  ASSUME TypeOK, OneInv, \A t \in Sessions : Kept(t),
         \A r \in Requests : req'[r] = req[r] \/ Current(req[r])'
  PROVE  OneInv'
<1>1. ASSUME NEW r \in Requests, req'[r] = req[r]
      PROVE  Current(req[r])'
  <2>1. req[r].pc # "idle" => req[r].s \in Sessions
    BY BusySlot DEF Handlers
  <2> QED BY <1>1, <2>1, KeptCurrent DEF OneInv
<1>2. \A t \in Sessions : Priced(t)'
  BY KeptPriced DEF OneInv
<1> QED BY <1>1, <1>2 DEF OneInv

LEMMA CallOnly ==
  ASSUME OneHandler, NEW r \in Requests
  PROVE  \A q \in Requests : q = r
  BY DEF OneHandler

LEMMA TimerSet ==
  ASSUME TypeOK, NEW s \in Sessions, NEW x, timer' = [timer EXCEPT ![s] = x],
         x.ticks = timer[s].ticks \/ x.ticks = 0
  PROVE  \A t \in Sessions : timer'[t].ticks \in {timer[t].ticks, 0}
BY DEF TypeOK

\* The steps of a handler that leave what is saved of the calls and was paid.
Passes(r, s) ==
  \/ AcceptBegin(r, s) \/ RejectBegin(r, s) \/ CancelBegin(r, s) \/ RequestTimeout(r, s)
  \/ \E role \in Roles : JoinBegin(r, s, role)
  \/ ExtendBegin(r, s) \/ JoinSave(r)
  \/ (AcceptTimer(r) \/ StartBegin(r) \/ StartTimers(r)) /\ req[r].s = s
  \/ Credit(r) \/ Unpaid(r) \/ EndSave(r) \/ CompleteSession(r) \/ HandlerFails(r)

\* They take nothing from the ticker but may stop it.
LEMMA QuietTicks ==
  ASSUME TypeOK, NEW r \in Requests, NEW s \in Sessions,
         Passes(r, s)
  PROVE  \A t \in Sessions : timer'[t].ticks \in {timer[t].ticks, 0}
<1>1. timer[s] \in Timers
  BY DEF TypeOK
<1>2. CASE timer' = timer
  BY <1>2
<1>3. CASE AcceptBegin(r, s) \/ RejectBegin(r, s)
  <2>1. timer' = [timer EXCEPT ![s] = NoServiceTimer(timer[s])]
    BY <1>3 DEF AcceptBegin, RejectBegin
  <2> QED BY <1>1, <2>1, Ticks, TimerSet
<1>4. CASE RequestTimeout(r, s)
  <2>1. timer' = [timer EXCEPT ![s] = [timer[s] EXCEPT !.request = FALSE]]
    BY <1>4 DEF RequestTimeout
  <2> DEFINE x == [timer[s] EXCEPT !.request = FALSE]
  <2>2. x.ticks = timer[s].ticks
    BY <1>1, Ticks
  <2> HIDE DEF x
  <2>3. timer' = [timer EXCEPT ![s] = x]
    BY <2>1 DEF x
  <2> QED BY <2>2, <2>3, TimerSet
<1>5. CASE AcceptTimer(r) /\ req[r].s = s
  <2> DEFINE x == [timer[s] EXCEPT !.join = TRUE]
  <2>1. timer' = [timer EXCEPT ![s] = x]
    BY <1>5 DEF AcceptTimer
  <2>2. x.ticks = timer[s].ticks
    BY <1>1, Ticks
  <2> HIDE DEF x
  <2> QED BY <2>1, <2>2, TimerSet
<1>6. CASE StartBegin(r) /\ req[r].s = s
  <2> DEFINE n == ses[s].max
             x == [timer[s] EXCEPT !.ticker = n, !.ticks = 0]
  <2>1. timer' = [timer EXCEPT ![s] = x] \/ timer' = timer
    BY <1>6 DEF StartBegin
  <2>2. x.ticks = 0
    BY <1>1, Ticks
  <2> HIDE DEF x
  <2> QED BY <2>1, <2>2, <1>2, TimerSet
<1>7. CASE StartTimers(r) /\ req[r].s = s
  <2> DEFINE m == elapsed[s] + req[r].n
             n == req[r].n
             x == [timer[s] EXCEPT !.autoEnd = m, !.ticker = n, !.ticks = 0]
  <2>1. timer' = [timer EXCEPT ![s] = x]
    BY <1>7 DEF StartTimers
  <2> HIDE DEF m, n
  <2>2. x.ticks = 0
    BY <1>1, Ticks
  <2> HIDE DEF x
  <2> QED BY <2>1, <2>2, TimerSet
<1> QED
  BY <1>2, <1>3, <1>4, <1>5, <1>6, <1>7 DEF Passes, CancelBegin, CloseBegin, JoinBegin, ExtendBegin, JoinSave,
     Credit, Unpaid, EndSave, CompleteSession, HandlerFails

LEMMA QuietKeeps ==
  ASSUME TypeOK, NEW r \in Requests, NEW s \in Sessions,
         Passes(r, s)
  PROVE  \A t \in Sessions : Kept(t)
<1>1. UNCHANGED <<elapsed, charged>>
  BY DEF Passes, AcceptBegin, RejectBegin, CancelBegin, RequestTimeout, CloseBegin, JoinBegin, ExtendBegin,
     AcceptTimer, JoinSave, StartBegin, StartTimers, Credit, Unpaid, EndSave, CompleteSession,
     HandlerFails, stored, money
<1>2. \A t \in Sessions : /\ ses'[t].status = ses[t].status /\ ses'[t].begun = ses[t].begun
                          /\ ses'[t].max = ses[t].max
  <2>1. CASE ses' = ses
    BY <2>1
  <2>2. CASE EndSave(r)
    <3>1. PICK paid : ses' = [ses EXCEPT ![req[r].s].paid = paid]
      BY <2>2 DEF EndSave
    <3>2. \A t \in Sessions : ses[t] \in Documents
      BY DEF TypeOK
    <3> QED BY <3>1, <3>2 DEF TypeOK, Documents
  <2> QED
    BY <2>1, <2>2 DEF Passes, AcceptBegin, RejectBegin, CancelBegin, RequestTimeout, CloseBegin, JoinBegin,
       ExtendBegin, AcceptTimer, JoinSave, StartBegin, StartTimers, Credit, Unpaid,
       CompleteSession, HandlerFails, stored
<1> QED BY <1>1, <1>2, QuietTicks DEF Kept

\* What a handler knows when it has begun, moves on or ends.
LEMMA QuietCurrent ==
  ASSUME TypeOK, OneInv, NEW r \in Requests, NEW s \in Sessions, \A t \in Sessions : Kept(t),
         Passes(r, s)
  PROVE  req'[r] = req[r] \/ Current(req[r])'
<1>1. DOMAIN Target = {"reject", "cancel", "timeout", "hung"}
  BY DEF Target
<1>2. ASSUME NEW kind, NEW n, NEW seen, Begin(r, kind, s, "read", n, seen),
             kind = "accept" => ses[s].status = "initiated",
             kind = "extend" => ses[s].status = "active",
             kind \in DOMAIN Target => ses[s].status \in Pending
      PROVE  Current(req[r])'
  <2>1. req'[r].pc = "read" /\ req'[r].kind = kind /\ req'[r].s = s
    BY <1>2 DEF Begin, TypeOK
  <2>2. ses'[s].status = ses[s].status
    BY DEF Kept
  <2> QED BY <1>1, <1>2, <2>1, <2>2 DEF Current, Target
<1>3. ASSUME NEW pc \in {"joined", "paid", "closing", "ended"}, req[r].pc # "idle", Goto(r, pc)
      PROVE  Current(req[r])'
  <2>1. req'[r].pc = pc
    BY <1>3, GotoEffect DEF Places
  <2> QED BY <1>3, <2>1 DEF Current
<1>4. CASE Finish(r)
  BY <1>4 DEF Current, Finish, TypeOK, Idle
<1>5. CASE AcceptBegin(r, s)
  BY <1>1, <1>2, <1>5 DEF AcceptBegin
<1>6. ASSUME NEW kind \in DOMAIN Target, CloseBegin(r, s, kind)
      PROVE  Current(req[r])'
  BY <1>1, <1>2, <1>6 DEF CloseBegin
<1>7. CASE RejectBegin(r, s) \/ CancelBegin(r, s) \/ RequestTimeout(r, s)
  BY <1>1, <1>6, <1>7 DEF RejectBegin, CancelBegin, RequestTimeout
<1>8. CASE \E role \in Roles : JoinBegin(r, s, role)
  BY <1>1, <1>2, <1>8 DEF JoinBegin
<1>9. CASE ExtendBegin(r, s)
  BY <1>1, <1>2, <1>9 DEF ExtendBegin
<1>10. CASE AcceptTimer(r) \/ StartTimers(r) \/ CompleteSession(r) \/ HandlerFails(r)
  BY <1>4, <1>10 DEF AcceptTimer, StartTimers, CompleteSession, HandlerFails
<1>11. CASE JoinSave(r) \/ EndSave(r) \/ Unpaid(r)
  BY <1>3, <1>4, <1>11 DEF JoinSave, EndSave, Unpaid, At
<1>12. CASE Credit(r)
  <2>1. req'[r].pc = "closing"
    BY <1>12, BusySlot DEF Credit, At, TypeOK, Handlers
  <2> QED BY <2>1 DEF Current
<1>13. CASE StartBegin(r) /\ req[r].s = s
  <2>1. CASE Finish(r)
    BY <1>4, <2>1
  <2>2. CASE ses[s].status = "waiting" /\ ~Finish(r)
    <3>1. req' = [req EXCEPT ![r].pc = "starting", ![r].n = Affordable(UserOf[s])]
      BY <1>13, <2>2 DEF StartBegin
    <3>2. req[r] \in Handlers
      BY <1>13, BusySlot DEF StartBegin, At
    <3>3. req'[r].pc = "starting" /\ req'[r].s = s
      BY <1>13, <3>1, <3>2 DEF TypeOK, Handlers
    <3>4. ses'[s].status = ses[s].status
      BY DEF Kept
    <3> QED BY <2>2, <3>3, <3>4 DEF Current
  <2> QED BY <1>13, <2>1, <2>2 DEF StartBegin
<1> QED BY <1>5, <1>7, <1>8, <1>9, <1>10, <1>11, <1>12, <1>13 DEF Passes

LEMMA CallQuiet ==
  ASSUME OneHandler, TypeOK, OneInv, NEW r \in Requests, NEW s \in Sessions,
         Passes(r, s)
  PROVE  OneInv'
<1>1. \A t \in Sessions : Kept(t)
  BY QuietKeeps
<1>2. req'[r] = req[r] \/ Current(req[r])'
  BY <1>1, QuietCurrent
<1>3. \A q \in Requests : q = r
  BY CallOnly
<1> QED BY <1>1, <1>2, <1>3, CallStays

\* Steps that are no handler's; a request that is made, and time, are below.
LEMMA CallOther ==
  ASSUME TypeOK, OneInv,
         \/ \E s \in Sessions : Ages(s)
         \/ \E u \in Users : \/ \E n \in Recharges : Recharge(u, n)
                             \/ \E n \in Spends : Spend(u, n)
         \/ Restart \/ UNCHANGED vars
  PROVE  OneInv'
<1>1. UNCHANGED <<ses, elapsed, charged>>
  BY DEF Ages, Recharge, Spend, Restart, vars, stored, money
<1>2. \A t \in Sessions : timer'[t].ticks \in {timer[t].ticks, 0}
  BY DEF Ages, Recharge, Spend, Restart, vars, NoTimers
<1>3. \A r \in Requests : req'[r] = req[r] \/ Current(req[r])'
  BY DEF Ages, Recharge, Spend, Restart, vars, Current, Idle
<1>4. \A t \in Sessions : Kept(t)
  BY <1>1, <1>2 DEF Kept
<1> QED BY <1>3, <1>4, CallStays

\* The documents and timers but those of one call.
LEMMA Rest ==
  ASSUME TypeOK, NEW s \in Sessions, \A t \in Sessions \ {s} : ses'[t] = ses[t],
         \A t \in Sessions \ {s} : timer'[t] = timer[t] /\ elapsed'[t] = elapsed[t]
                                    /\ charged'[t] = charged[t]
  PROVE  \A t \in Sessions \ {s} : Kept(t)
BY DEF Kept

LEMMA StatusOf ==
  ASSUME TypeOK, NEW s \in Sessions, NEW status, SaveStatus(s, status)
  PROVE  /\ ses'[s].status = status /\ ses'[s].begun = ses[s].begun /\ ses'[s].max = ses[s].max
         /\ \A t \in Sessions \ {s} : ses'[t] = ses[t]
<1>1. ses[s] \in Documents
  BY DEF TypeOK
<1>2. ses' = [ses EXCEPT ![s] = [ses[s] EXCEPT !.status = status]]
  BY DEF SaveStatus
<1> QED BY <1>1, <1>2 DEF TypeOK, Documents

LEMMA CallInitiated ==
  ASSUME TypeOK, OneInv, NEW s \in Sessions, InitiateCall(s)
  PROVE  OneInv'
<1>1. ses[s].status = "none" /\ SaveStatus(s, "initiated") /\ UNCHANGED <<req, elapsed, charged>>
  BY DEF InitiateCall, money
<1>2. timer'[s].ticks = timer[s].ticks /\ \A t \in Sessions \ {s} : timer'[t] = timer[t]
  <2> DEFINE x == [timer[s] EXCEPT !.request = s \notin Continued]
  <2>1. timer' = [timer EXCEPT ![s] = x]
    BY DEF InitiateCall
  <2>2. x.ticks = timer[s].ticks
    BY Ticks DEF TypeOK
  <2> HIDE DEF x
  <2> QED BY <2>1, <2>2 DEF TypeOK
<1>3. ses'[s].status = "initiated" /\ \A t \in Sessions \ {s} : ses'[t] = ses[t]
  BY <1>1, StatusOf
<1>4. \A t \in Sessions \ {s} : Kept(t)
  BY <1>1, <1>2, <1>3, Rest
<1>5. Priced(s)'
  <2>1. Priced(s) /\ charged[s] \in Nat /\ elapsed[s] \in Nat
    BY ElapsedNat DEF OneInv, TypeOK
  <2> QED BY <1>1, <1>2, <1>3, <2>1 DEF Priced
<1>6. ASSUME NEW r \in Requests, req[r].pc # "idle", req[r].s = s
      PROVE  Current(req[r])'
  <2>1. Current(req[r]) /\ req'[r] = req[r]
    BY <1>1 DEF OneInv
  <2> QED BY <1>1, <1>6, <2>1 DEF Current, Pending
<1> QED BY <1>1, <1>4, <1>5, <1>6, CallChanges

LEMMA CallWaits ==
  ASSUME TypeOK, OneInv, NEW s \in Sessions, Wait(s)
  PROVE  OneInv'
<1>1. PICK m \in Moments :
        /\ m > elapsed[s] /\ elapsed' = [elapsed EXCEPT ![s] = m]
        /\ timer' = [timer EXCEPT ![s].ticks = IF timer[s].ticker >= 0
                                               THEN timer[s].ticks + m - elapsed[s]
                                               ELSE timer[s].ticks]
  BY DEF Wait, TypeOK
<1>2. ses[s].status = "active" /\ UNCHANGED <<ses, req, charged>>
  BY DEF Wait, money
<1>3. m \in Nat /\ elapsed[s] \in Nat /\ timer[s].ticks \in Nat /\ Priced(s) /\ charged[s] \in Nat
  BY CallAssumption, ElapsedNat DEF TypeOK, Timers, OneInv
<1>4. elapsed'[s] = m /\ timer'[s].ticks <= m /\ \A t \in Sessions \ {s} : timer'[t] = timer[t]
  <2> DEFINE n == IF timer[s].ticker >= 0 THEN timer[s].ticks + m - elapsed[s]
                                          ELSE timer[s].ticks
             x == [timer[s] EXCEPT !.ticks = n]
  <2>1. timer' = [timer EXCEPT ![s] = x]
    BY <1>1
  <2>2. n <= m
    BY <1>1, <1>3 DEF Priced
  <2> HIDE DEF n
  <2>3. x.ticks = n
    BY Ticks DEF TypeOK
  <2> HIDE DEF x
  <2> QED BY <1>1, <2>1, <2>2, <2>3 DEF TypeOK
<1>5. \A t \in Sessions \ {s} : Kept(t)
  <2>1. \A t \in Sessions \ {s} : elapsed'[t] = elapsed[t]
    BY <1>1 DEF TypeOK
  <2> QED BY <1>2, <1>4, <2>1, Rest
<1>6. Priced(s)'
  BY <1>2, <1>3, <1>4 DEF Priced, Pending
<1>7. ASSUME NEW r \in Requests, req[r].pc # "idle", req[r].s = s
      PROVE  Current(req[r])'
  <2>1. Current(req[r]) /\ req'[r] = req[r]
    BY <1>2 DEF OneInv
  <2> QED BY <1>2, <1>7, <2>1 DEF Current
<1> QED BY <1>2, <1>5, <1>6, <1>7, CallChanges

\* A save of the status by an acceptance or a closing.
LEMMA CallSaves ==
  ASSUME OneHandler, TypeOK, OneInv, NEW r \in Requests, AcceptSave(r) \/ CloseSave(r)
  PROVE  OneInv'
<1>1. req[r].pc = "read" /\ req[r].kind \in {"accept"} \cup DOMAIN Target
  BY DEF AcceptSave, CloseSave, At
<1>2. PICK s \in Sessions : s = req[r].s
  BY <1>1, BusySlot DEF Handlers
<1>3. PICK status : SaveStatus(s, status)
  BY <1>2 DEF AcceptSave, CloseSave
<1>4. UNCHANGED <<timer, elapsed, charged>>
  BY DEF AcceptSave, CloseSave, money
<1>5. Current(req[r])'
  <2>1. Goto(r, "saved") \/ Finish(r)
    BY DEF AcceptSave, CloseSave
  <2>2. req'[r].pc \in {"saved", "idle"}
    BY <1>1, <2>1, GotoEffect DEF Places, Finish, TypeOK, Idle
  <2> QED BY <2>2 DEF Current
<1>6. ses[s].status \in Pending
  BY <1>1, <1>2 DEF OneInv, Current, Pending
<1>7. Priced(s)'
  <2>1. Priced(s) /\ charged[s] \in Nat /\ elapsed[s] \in Nat
    BY ElapsedNat DEF OneInv, TypeOK
  <2> QED BY <1>4, <1>6, <2>1 DEF Priced, Pending
<1>8. \A t \in Sessions \ {s} : Kept(t)
  BY <1>3, <1>4, StatusOf, Rest
<1>9. \A q \in Requests : q = r
  BY CallOnly
<1> QED BY <1>5, <1>7, <1>8, <1>9, CallChanges

\* The call starts, or gets a new limit.
LEMMA CallStarts ==
  ASSUME OneHandler, TypeOK, OneInv, NEW r \in Requests, StartSave(r) \/ ExtendSave(r)
  PROVE  OneInv'
<1>1. \/ req[r].pc = "starting" /\ StartSave(r)
      \/ req[r].pc = "read" /\ req[r].kind = "extend" /\ ExtendSave(r)
  BY DEF StartSave, ExtendSave, At
<1>2. PICK s \in Sessions : s = req[r].s
  BY <1>1, BusySlot DEF Handlers
<1>3. timer[s] \in Timers /\ ses[s] \in Documents /\ Priced(s) /\ Current(req[r])
      /\ charged[s] \in Nat /\ elapsed[s] \in Nat
  BY ElapsedNat DEF TypeOK, OneInv
<1>4. charged' = charged /\ charged[s] = 0
  BY <1>1, <1>2, <1>3 DEF StartSave, ExtendSave, money, Current, Priced
<1>5. Current(req[r])'
  <2>1. Goto(r, "armed") \/ Finish(r)
    BY <1>1 DEF StartSave, ExtendSave
  <2>2. req'[r].pc \in {"armed", "idle"}
    BY <1>1, <2>1, GotoEffect DEF Places, Finish, TypeOK, Idle
  <2> QED BY <2>2 DEF Current
<1>6. timer'[s].ticks = timer[s].ticks /\ \A t \in Sessions \ {s} : timer'[t] = timer[t]
  <2>1. CASE StartSave(r)
    <3> DEFINE x == [timer[s] EXCEPT !.join = FALSE]
    <3>1. timer' = [timer EXCEPT ![s] = x]
      BY <1>2, <2>1 DEF StartSave
    <3>2. x.ticks = timer[s].ticks
      BY <1>3, Ticks
    <3> HIDE DEF x
    <3> QED BY <3>1, <3>2 DEF TypeOK
  <2>2. CASE ExtendSave(r)
    <3> DEFINE m == elapsed[s] + req[r].n
               n == IF timer[s].ticker >= 0 THEN req[r].n ELSE timer[s].ticker
               x == [timer[s] EXCEPT !.request = FALSE, !.autoEnd = m, !.ticker = n]
    <3>1. timer' = [timer EXCEPT ![s] = x]
      BY <1>2, <2>2 DEF ExtendSave, TypeOK
    <3> HIDE DEF m, n
    <3>2. x.ticks = timer[s].ticks
      BY <1>3, Ticks
    <3> HIDE DEF x
    <3> QED BY <3>1, <3>2 DEF TypeOK
  <2> QED BY <1>1, <2>1, <2>2
<1>7. /\ \A t \in Sessions \ {s} : ses'[t] = ses[t] /\ elapsed'[t] = elapsed[t]
      /\ ses'[s].status = "active"
      /\ elapsed'[s] = elapsed[s] \/ (elapsed'[s] = 0 /\ timer[s].ticks = 0)
  <2>1. CASE StartSave(r)
    <3>1. ses' = [ses EXCEPT ![s].status = "active", ![s].begun = TRUE, ![s].max = req[r].n]
          /\ elapsed' = [elapsed EXCEPT ![s] = 0]
      BY <1>2, <2>1 DEF StartSave
    <3>2. timer[s].ticks = 0
      BY <1>1, <1>2, <1>3, <2>1 DEF Current, Priced, Pending, StartSave, At
    <3> QED BY <1>3, <3>1, <3>2 DEF TypeOK, Documents
  <2>2. CASE ExtendSave(r)
    <3>1. ses' = [ses EXCEPT ![s].max = req[r].n] /\ elapsed' = elapsed
      BY <1>2, <2>2 DEF ExtendSave
    <3>2. ses[s].status = "active"
      BY <1>2, <1>3, <2>2 DEF Current, ExtendSave, At
    <3> QED BY <1>3, <3>1, <3>2 DEF TypeOK, Documents
  <2> QED BY <1>1, <2>1, <2>2
<1>8. Priced(s)'
  BY <1>3, <1>4, <1>6, <1>7 DEF Priced, Pending
<1>9. \A t \in Sessions \ {s} : Kept(t)
  BY <1>4, <1>6, <1>7, Rest
<1>10. \A q \in Requests : q = r
  BY CallOnly
<1> QED BY <1>5, <1>8, <1>9, <1>10, CallChanges

\* The lock of endSession: the call was not ended, so nothing was paid.
LEMMA CallLocks ==
  ASSUME OneHandler, TypeOK, OneInv, NEW r \in Requests, NEW s \in Sessions,
         NEW kind \in {"end", "endCall"}, NEW seconds \in Nat, seconds <= elapsed[s],
         Lock(r, kind, s, seconds), ses[s].status # "ended",
         UNCHANGED <<elapsed, charged>>, timer'[s].ticks <= elapsed[s],
         \A t \in Sessions \ {s} : timer'[t] = timer[t]
  PROVE  OneInv'
<1>1. /\ ses'[s].status = "ended" /\ ses'[s].begun = ses[s].begun /\ ses'[s].max = ses[s].max
      /\ \A t \in Sessions \ {s} : ses'[t] = ses[t]
  BY StatusOf DEF Lock
<1>2. \A t \in Sessions \ {s} : Kept(t)
  BY <1>1, Rest
<1>3. charged[s] = 0 /\ ses[s].max \in Nat /\ elapsed[s] \in Nat
  BY ElapsedNat DEF OneInv, Priced, TypeOK, Documents
<1>4. Priced(s)'
  BY <1>1, <1>3 DEF Priced, Pending
<1>5. CallDue(s)' = Rate * Greater(1, Minutes(Lesser(elapsed[s], ses[s].max)))
  BY <1>1 DEF CallDue
<1>6. Price(seconds, ses[s].max) <= CallDue(s)'
  BY <1>3, <1>5, PriceGrows
<1>7. Current(req[r])'
  <2>1. CASE req' = req
    BY <2>1 DEF Lock, Current
  <2>2. CASE ses[s].begun /\ Begin(r, kind, s, "priced", Price(seconds, ses[s].max), {})
    <3>1. /\ req'[r].pc = "priced" /\ req'[r].s = s /\ req'[r].n = Price(seconds, ses[s].max)
      BY <2>2 DEF Begin, TypeOK
    <3>2. CallDue(req[r].s)' = CallDue(s)'
      BY <3>1 DEF CallDue
    <3> QED BY <1>1, <1>3, <1>6, <2>2, <3>1, <3>2 DEF Current
  <2>3. CASE Begin(r, kind, s, "closing", -1, {})
    <3>1. req'[r].pc = "closing"
      BY <2>3 DEF Begin, TypeOK
    <3> QED BY <3>1 DEF Current
  <2> QED BY <2>1, <2>2, <2>3 DEF Lock
<1>8. \A q \in Requests : q = r
  BY CallOnly
<1> QED BY <1>2, <1>4, <1>7, <1>8, CallChanges

\* Nothing but a timer was changed.
LEMMA CallTimers ==
  ASSUME TypeOK, OneInv, UNCHANGED <<ses, elapsed, charged, req>>,
         \A t \in Sessions : timer'[t].ticks \in {timer[t].ticks, 0}
  PROVE  OneInv'
<1>1. \A t \in Sessions : Kept(t)
  BY DEF Kept
<1> QED BY <1>1, CallStays

LEMMA CallEnds ==
  ASSUME OneHandler, TypeOK, OneInv, NEW r \in Requests, NEW s \in Sessions,
         GatewayEnd(r, s) \/ DirectEnd(r, s) \/ JoinTimeout(r, s)
  PROVE  OneInv'
<1>1. timer[s] \in Timers /\ timer[s].ticks \in Nat /\ elapsed[s] \in Nat
      /\ timer[s].ticks <= elapsed[s]
  BY ElapsedNat DEF TypeOK, Timers, OneInv, Priced
<1>2. UNCHANGED <<elapsed, charged>>
  BY DEF GatewayEnd, DirectEnd, JoinTimeout, money
<1>3. ASSUME NEW x, timer' = [timer EXCEPT ![s] = x], x.ticks = timer[s].ticks \/ x.ticks = 0
      PROVE  /\ timer'[s].ticks <= elapsed[s] /\ \A t \in Sessions \ {s} : timer'[t] = timer[t]
             /\ \A t \in Sessions : timer'[t].ticks \in {timer[t].ticks, 0}
  BY <1>1, <1>3 DEF TypeOK
<1>4. CASE GatewayEnd(r, s)
  <2>1. CASE Endable(s)
    <3>1. /\ timer' = [timer EXCEPT ![s] = NoServiceTimer(NoTicker(timer[s]))]
          /\ Lock(r, "endCall", s, timer[s].ticks) /\ ses[s].status # "ended"
      BY <1>4, <2>1 DEF GatewayEnd, Endable, Over
    <3>2. NoServiceTimer(NoTicker(timer[s])).ticks = 0
      BY <1>1, Ticks
    <3>3. timer'[s].ticks <= elapsed[s] /\ \A t \in Sessions \ {s} : timer'[t] = timer[t]
      BY <1>3, <3>1, <3>2
    <3> QED BY <1>1, <1>2, <3>1, <3>3, CallLocks
  <2>2. CASE ~Endable(s)
    <3>1. timer' = [timer EXCEPT ![s] = NoTicker(timer[s])] /\ UNCHANGED <<ses, req>>
      BY <1>4, <2>2 DEF GatewayEnd
    <3>2. NoTicker(timer[s]).ticks = 0
      BY <1>1, Ticks
    <3> QED BY <1>2, <1>3, <3>1, <3>2, CallTimers
  <2> QED BY <2>1, <2>2
<1>5. CASE DirectEnd(r, s)
  <2>1. /\ timer' = [timer EXCEPT ![s] = NoServiceTimer(timer[s])]
        /\ Lock(r, "end", s, elapsed[s]) /\ ses[s].status # "ended"
    BY <1>5 DEF DirectEnd, Endable, Over
  <2>2. NoServiceTimer(timer[s]).ticks = timer[s].ticks
    BY <1>1, Ticks
  <2>3. timer'[s].ticks <= elapsed[s] /\ \A t \in Sessions \ {s} : timer'[t] = timer[t]
    BY <1>3, <2>1, <2>2
  <2> QED BY <1>1, <1>2, <2>1, <2>3, CallLocks
<1>6. CASE JoinTimeout(r, s)
  <2>1. CASE ses[s].status = "waiting" /\ s \notin ending
    <3> DEFINE x == [NoServiceTimer(NoTicker(timer[s])) EXCEPT !.join = FALSE]
    <3>1. /\ timer' = [timer EXCEPT ![s] = x]
          /\ Lock(r, "endCall", s, timer[s].ticks)
      BY <1>6, <2>1 DEF JoinTimeout
    <3>2. x.ticks = 0
      BY <1>1, Ticks
    <3> HIDE DEF x
    <3>3. timer'[s].ticks <= elapsed[s] /\ \A t \in Sessions \ {s} : timer'[t] = timer[t]
      BY <1>3, <3>1, <3>2
    <3>4. ses[s].status # "ended"
      BY <2>1
    <3> QED BY <1>1, <1>2, <3>1, <3>3, <3>4, CallLocks
  <2>2. CASE ~(ses[s].status = "waiting" /\ s \notin ending)
    <3> DEFINE x == [timer[s] EXCEPT !.join = FALSE]
    <3>1. timer' = [timer EXCEPT ![s] = x] /\ UNCHANGED <<ses, req>>
      BY <1>6, <2>2 DEF JoinTimeout
    <3>2. x.ticks = timer[s].ticks
      BY <1>1, Ticks
    <3> HIDE DEF x
    <3> QED BY <1>2, <1>3, <3>1, <3>2, CallTimers
  <2> QED BY <2>1, <2>2
<1> QED BY <1>4, <1>5, <1>6

\* The payment, by the one handler that locked the call.
LEMMA CallPays ==
  ASSUME OneHandler, TypeOK, Checked, OneInv, NEW r \in Requests, Pay(r)
  PROVE  OneInv'
<1>1. req[r].pc = "priced" /\ Goto(r, "paid") /\ UNCHANGED <<ses, timer, elapsed>>
  BY DEF Pay, At, stored
<1>2. PICK s \in Sessions : s = req[r].s
  BY <1>1, BusySlot DEF Handlers
<1>3. PICK n \in Nat \ {0} : n = req[r].n
  BY <1>1 DEF Checked, Sound
<1>4. /\ ses[s].status = "ended" /\ ses[s].begun /\ charged[s] = 0 /\ n <= CallDue(s)
      /\ Priced(s)
  BY <1>1, <1>2, <1>3 DEF OneInv, Current
<1>5. charged' = [charged EXCEPT ![s] = charged[s] + n]
  BY <1>2, <1>3 DEF Pay
<1>6. charged'[s] = n /\ \A t \in Sessions \ {s} : charged'[t] = charged[t]
  BY <1>4, <1>5 DEF TypeOK
<1>7. CallDue(s)' = CallDue(s)
  BY <1>1 DEF CallDue
<1>8. Priced(s)'
  BY <1>1, <1>4, <1>6, <1>7 DEF Priced
<1>9. \A t \in Sessions \ {s} : Kept(t)
  BY <1>1, <1>6, Rest
<1>10. Current(req[r])'
  BY <1>1, GotoEffect DEF Current, Places
<1>11. \A q \in Requests : q = r
  BY CallOnly
<1> QED BY <1>8, <1>9, <1>10, <1>11, CallChanges

LEMMA OneStep == OneHandler /\ CInv /\ OneInv /\ [Next]_vars => OneInv'
<1> SUFFICES ASSUME OneHandler, CInv, OneInv, [Next]_vars PROVE OneInv'
  OBVIOUS
<1>1. TypeOK /\ Checked
  BY DEF CInv
<1>2. ASSUME NEW r \in Requests, NEW s \in Sessions,
             Begins(r, s) \/ HungBegin(r, s) \/ Sweep(r, s)
      PROVE  OneInv'
  <2>1. CASE HungBegin(r, s)
    <3>1. ses[s].status \in Pending /\ Begin(r, "hung", s, "read", 0, {})
          /\ UNCHANGED <<stored, ending, faults, opened, money, timer>>
      BY <2>1 DEF HungBegin, CloseBegin
    <3>2. req'[r].pc = "read" /\ req'[r].kind = "hung" /\ req'[r].s = s
      BY <1>1, <3>1 DEF Begin, TypeOK
    <3>3. Current(req[r])'
      BY <3>1, <3>2 DEF Current, stored
    <3>4. \A t \in Sessions : Kept(t)
      BY <3>1 DEF Kept, stored, money
    <3>5. \A q \in Requests : q = r
      BY CallOnly
    <3> QED BY <1>1, <3>3, <3>4, <3>5, CallStays
  <2>2. CASE EndByTicker(r, s) \/ EndByTimer(r, s) \/ Sweep(r, s)
    BY <1>1, <2>2, CallEnds DEF EndByTicker, EndByTimer, Sweep
  <2>3. CASE GatewayEnd(r, s) \/ DirectEnd(r, s) \/ JoinTimeout(r, s)
    BY <1>1, <2>3, CallEnds
  <2>4. CASE \/ AcceptBegin(r, s) \/ RejectBegin(r, s) \/ CancelBegin(r, s)
             \/ RequestTimeout(r, s) \/ ExtendBegin(r, s)
             \/ \E role \in Roles : JoinBegin(r, s, role)
    BY <1>1, <2>4, CallQuiet DEF Passes
  <2> QED BY <1>2, <2>1, <2>2, <2>3, <2>4 DEF Begins
<1>3. ASSUME NEW r \in Requests, Continues(r) \/ HandlerFails(r)
      PROVE  OneInv'
  <2>1. req[r].pc # "idle"
    BY <1>3 DEF Continues, HandlerFails, AcceptSave, AcceptTimer, CloseSave, JoinSave, StartBegin,
       StartSave, StartTimers, ExtendSave, Pay, Credit, Unpaid, EndSave, CompleteSession, At
  <2>2. PICK s \in Sessions : s = req[r].s
    BY <1>1, <2>1, BusySlot DEF Handlers
  <2>3. CASE AcceptSave(r) \/ CloseSave(r)
    BY <1>1, <2>3, CallSaves
  <2>4. CASE StartSave(r) \/ ExtendSave(r)
    BY <1>1, <2>4, CallStarts
  <2>5. CASE Pay(r)
    BY <1>1, <2>5, CallPays
  <2>6. CASE \/ AcceptTimer(r) \/ JoinSave(r) \/ StartBegin(r) \/ StartTimers(r)
             \/ Credit(r) \/ Unpaid(r) \/ EndSave(r) \/ CompleteSession(r) \/ HandlerFails(r)
    BY <1>1, <2>2, <2>6, CallQuiet DEF Passes
  <2> QED BY <1>3, <2>3, <2>4, <2>5, <2>6 DEF Continues
<1>4. ASSUME NEW s \in Sessions, InitiateCall(s) \/ Wait(s)
      PROVE  OneInv'
  BY <1>1, <1>4, CallInitiated, CallWaits
<1> QED BY <1>1, <1>2, <1>3, <1>4, CallOther DEF Next

LEMMA OneInit == Init => OneInv
BY CallAssumption DEF Init, OneInv, Current, Idle, Priced, NoTimers

LEMMA OneInvariance == OneHandler => (Spec => []OneInv)
<1> SUFFICES ASSUME OneHandler PROVE Spec => []OneInv
  OBVIOUS
<1>1. CInv /\ OneInv /\ [Next]_vars => OneInv'
  BY OneStep
<1>2. BillInv => CInv
  BY DEF BillInv
<1> QED BY <1>1, <1>2, OneInit, Invariance, PTL DEF Spec

\* "Prevent overcharging": one handler after another, and whichever of them
\* are cut off, all that is ever taken for a call is the price of its minutes
\* within the limit, and nothing for a call that was never connected.
THEOREM CallNotOvercharged ==
  ASSUME OneHandler
  PROVE  Spec => []NeverOvercharged
<1>1. CInv /\ OneInv => NeverOvercharged
  <2> SUFFICES ASSUME CInv, OneInv, NEW s \in Sessions
               PROVE  charged[s] <= IF ses[s].begun
                        THEN Rate * Greater(1, Minutes(Lesser(elapsed[s], ses[s].max))) ELSE 0
    BY DEF NeverOvercharged
  <2>1. /\ charged[s] \in Nat /\ Priced(s) /\ elapsed[s] \in Nat /\ ses[s].max \in Nat
    BY ElapsedNat DEF CInv, TypeOK, Documents, OneInv
  <2>2. \A b, c \in Nat : Rate * Greater(1, Minutes(Lesser(b, c))) \in Nat
    <3> SUFFICES ASSUME NEW b \in Nat, NEW c \in Nat
                 PROVE  Rate * Greater(1, Minutes(Lesser(b, c))) \in Nat
      OBVIOUS
    <3>1. 0 <= b
      OBVIOUS
    <3> QED BY <3>1, PriceGrows
  <2>3. CallDue(s) \in Nat
    BY <2>1, <2>2 DEF CallDue
  <2>4. charged[s] > 0 => ses[s].begun /\ charged[s] <= CallDue(s)
    BY <2>1 DEF Priced
  <2> QED BY <2>1, <2>3, <2>4 DEF CallDue
<1>2. BillInv => CInv
  BY DEF BillInv
<1> QED BY <1>1, <1>2, OneInvariance, Invariance, PTL

----------------
(***************************************************************************)
(* AiVoice, for any number of users, calls and overlapping handlers.  The  *)
(* invariant follows the payment: who ended the document is the only one   *)
(* to bill it, within what the longest call may cost; and as long as the   *)
(* user of a call bought nothing else, he has at least that.               *)
(***************************************************************************)
CONSTANTS Slots, None, Calls, Providers, FreeFirst, FreeTime, Steps, MaxTime, MaxSpends, MaxReports
VARIABLES call, age, ticker, voice, said, line, talk, endings, cash, used, taken, signal, stopped,
  now, spends, reports, work

V == INSTANCE AiVoice WITH ending <- endings

VoiceBounds ==
  /\ Rate \in Nat \ {0} /\ Opening \in Nat /\ FreeTime \in Nat
  /\ Steps \subseteq Nat /\ FreeFirst \in BOOLEAN

Docs == [user : Users \cup {None}, status : {"none", "active", "ended"}, rate : {0, Rate},
         max : Nat, provider : Providers \cup {"none"}, id : BOOLEAN, duration : Nat, bill : Nat,
         paid : BOOLEAN, text : BOOLEAN, recorded : BOOLEAN, alone : BOOLEAN]
Creating == [pc : {"create"}, u : Users, balance : Nat, free : BOOLEAN, alone : BOOLEAN]
Configuring == [pc : {"configure"}, s : Calls]
Closings == [pc : {"lock", "bill", "save"}, s : Calls, gateway : BOOLEAN, text : BOOLEAN,
             recorded : BOOLEAN, wall : BOOLEAN, length : Nat, bill : Nat, paid : BOOLEAN]
Works == {V!Idle} \cup Creating \cup Configuring \cup Closings

Types ==
  /\ call \in [Calls -> Docs] /\ work \in [Slots -> Works]
  /\ ticker \in [Calls -> Nat \cup {V!Stopped}] /\ talk \in [Calls -> Nat]
  /\ said \in [Calls -> BOOLEAN]
  /\ cash \in [Users -> Nat] /\ taken \in [Calls -> Nat]
  /\ \A s \in Calls : call[s].status # "none" => call[s].user \in Users
Aging == age \in [Calls -> Nat]

\* The most that a call may cost.
Cap(s) == V!Max({1, V!Minutes(call[s].max)}) * call[s].rate
\* The handlers that may take a payment for s, or have: at most one.
VoiceBilling(r, s) == (V!At(r, "bill") \/ V!At(r, "save")) /\ work[r].s = s
Due(s) == V!Active(s) \/ \E r \in Slots : V!At(r, "bill") /\ work[r].s = s

BilledOnce ==
  /\ \A s \in Calls, r \in Slots :
       /\ VoiceBilling(r, s) => call[s].status = "ended"
       /\ V!At(r, "bill") /\ work[r].s = s => taken[s] = 0
       /\ V!At(r, "save") /\ work[r].s = s => work[r].bill <= Cap(s)
       /\ \A q \in Slots : VoiceBilling(q, s) /\ VoiceBilling(r, s) => q = r
  /\ \A s \in Calls : /\ call[s].status # "ended" => taken[s] = 0
                      /\ taken[s] <= 1 /\ call[s].bill <= Cap(s)

\* Who pays for nothing else has what the call may cost, until it is billed.
Afforded ==
  /\ \A s \in Calls : call[s].alone =>
       /\ Due(s) => /\ cash[call[s].user] >= Cap(s)
                    /\ \A t \in Calls \ {s} : Due(t) => call[t].user # call[s].user
       /\ call[s].status = "ended" /\ ~Due(s) => call[s].paid \/ \E r \in Slots : V!At(r, "save")
            /\ work[r].s = s
       /\ \A r \in Slots : V!At(r, "save") /\ work[r].s = s => work[r].paid
  /\ \A r \in Slots : V!At(r, "create") /\ work[r].alone =>
       cash[work[r].u] >= work[r].balance /\ \A t \in Calls : Due(t) => call[t].user # work[r].u

VInv == Types /\ BilledOnce /\ Afforded

LEMMA MaxOfTwo ==
  ASSUME NEW a \in Int, NEW b \in Int
  PROVE  V!Max({a, b}) = IF a >= b THEN a ELSE b
<1> DEFINE m == IF a >= b THEN a ELSE b
<1>1. m \in {a, b} /\ \A y \in {a, b} : m >= y
  OBVIOUS
<1>2. \A x \in {a, b} : (\A y \in {a, b} : x >= y) => x = m
  OBVIOUS
<1> HIDE DEF m
<1>3. V!Max({a, b}) = m
  BY <1>1, <1>2 DEF V!Max
<1> QED BY <1>3 DEF m

LEMMA MinOfTwo ==
  ASSUME NEW a \in Int, NEW b \in Int
  PROVE  V!Min({a, b}) = IF a <= b THEN a ELSE b
<1> DEFINE m == IF a <= b THEN a ELSE b
<1>1. m \in {a, b} /\ \A y \in {a, b} : m <= y
  OBVIOUS
<1>2. \A x \in {a, b} : (\A y \in {a, b} : x <= y) => x = m
  OBVIOUS
<1> HIDE DEF m
<1>3. V!Min({a, b}) = m
  BY <1>1, <1>2 DEF V!Min
<1> QED BY <1>3 DEF m

LEMMA MinutesGrow ==
  ASSUME NEW a \in Nat, NEW b \in Nat
  PROVE  /\ V!Minutes(a) \in Nat /\ (a >= 1 => V!Minutes(a) >= 1)
         /\ a <= b => V!Minutes(a) <= V!Minutes(b)
         /\ V!Minutes(2 * a) = a /\ V!Minutes(1) = 1
BY DEF V!Minutes

LEMMA Products ==
  ASSUME NEW a \in Nat, NEW b \in Nat, NEW c \in Nat, a <= b
  PROVE  a * c \in Nat /\ b * c \in Nat /\ a * c <= b * c
OBVIOUS

LEMMA WholeMinutes ==
  ASSUME NEW b \in Nat, NEW c \in Nat \ {0}
  PROVE  b \div c \in Nat /\ (b \div c) * c <= b
OBVIOUS

\* The bill for any length is within the most that the call may cost.
LEMMA BillWithin ==
  ASSUME VoiceBounds, Types, NEW s \in Calls, NEW n \in Nat
  PROVE  LET d == V!Billed(s, n)  b == V!Minutes(d) * call[s].rate IN
           d \in Nat /\ b \in Nat /\ b <= Cap(s) /\ (call[s].rate # 0 => b > 0)
<1>1. call[s].max \in Nat /\ call[s].rate \in Nat
  BY DEF Types, Docs, VoiceBounds
<1> DEFINE x == call[s].max
           c == call[s].rate
           d == V!Billed(s, n)
           k == V!Max({1, V!Minutes(x)})
<1>2. V!Min({n, x}) = (IF n <= x THEN n ELSE x) /\ V!Min({n, x}) \in Nat /\ V!Min({n, x}) <= x
  BY <1>1, MinOfTwo
<1>3. d = (IF V!Min({n, x}) >= 1 THEN V!Min({n, x}) ELSE 1)
  BY <1>2, MaxOfTwo DEF V!Billed
<1>4. d \in Nat /\ d >= 1 /\ (d <= x \/ d = 1)
  BY <1>1, <1>2, <1>3
<1>5. V!Minutes(x) \in Nat /\ k = (IF 1 >= V!Minutes(x) THEN 1 ELSE V!Minutes(x))
  BY <1>1, MinutesGrow, MaxOfTwo
<1> HIDE DEF d, k, x, c
<1>6. V!Minutes(d) \in Nat /\ V!Minutes(d) >= 1 /\ (d <= x => V!Minutes(d) <= V!Minutes(x))
        /\ V!Minutes(1) = 1
  BY <1>1, <1>4, MinutesGrow DEF x
<1>7. V!Minutes(d) <= k /\ k \in Nat
  BY <1>4, <1>5, <1>6
<1>8. V!Minutes(d) * c \in Nat /\ V!Minutes(d) * c <= k * c
  BY <1>1, <1>6, <1>7, Products DEF c
<1>9. c # 0 => V!Minutes(d) * c > 0
  <2>1. 1 * c <= V!Minutes(d) * c /\ 1 * c = c
    BY <1>1, <1>6, Products DEF c
  <2> QED BY <1>1, <1>8, <2>1 DEF c
<1> QED BY <1>4, <1>8, <1>9 DEF Cap, d, k, x, c

LEMMA CapNat ==
  ASSUME VoiceBounds, NEW d \in Docs
  PROVE  V!Max({1, V!Minutes(d.max)}) * d.rate \in Nat
<1>1. d.max \in Nat /\ d.rate \in Nat
  BY DEF Docs, VoiceBounds
<1>2. V!Minutes(d.max) \in Nat
  BY <1>1, MinutesGrow
<1>3. V!Max({1, V!Minutes(d.max)}) \in Nat
  BY <1>2, MaxOfTwo
<1> QED BY <1>1, <1>3, Products

----------------
\* What the price of a call depends on, and whether it is paid.
SameDeal(d, e) == /\ d.user = e.user /\ d.status = e.status /\ d.rate = e.rate /\ d.max = e.max
                  /\ d.bill = e.bill /\ d.paid = e.paid /\ d.alone = e.alone
Keeps(f, g) == g \in [Calls -> Docs] /\ \A s \in Calls : SameDeal(g[s], f[s])
Watched == {"create", "bill", "save"}

\* Whoever leaves prices, payments and the handlers about to pay as they are
\* disturbs nothing.
LEMMA Stays ==
  ASSUME VoiceBounds, VInv, Types', \A s \in Calls : SameDeal(call'[s], call[s]),
         UNCHANGED <<cash, taken>>,
         \A r \in Slots : work[r].pc \in Watched \/ work'[r].pc \in Watched => work'[r] = work[r]
  PROVE  VInv'
<1>1. \A s \in Calls : Cap(s)' = Cap(s)
  BY DEF SameDeal, Cap
<1>2. \A r \in Slots, pc \in Watched :
        /\ work'[r].pc = pc <=> work[r].pc = pc
        /\ work[r].pc = pc => work'[r] = work[r]
  BY DEF Watched
<1>3. \A s \in Calls : /\ call'[s].user = call[s].user /\ call'[s].status = call[s].status
                       /\ call'[s].rate = call[s].rate /\ call'[s].max = call[s].max
                       /\ call'[s].bill = call[s].bill /\ call'[s].paid = call[s].paid
                       /\ call'[s].alone = call[s].alone
  BY DEF SameDeal
<1>4. "create" \in Watched /\ "bill" \in Watched /\ "save" \in Watched
  BY DEF Watched
<1>5. \A s \in Calls : Due(s)' <=> Due(s)
  BY <1>2, <1>3, <1>4, Zenon DEF Due, V!Active, V!At
<1>6. BilledOnce'
  <2>1. \A s \in Calls, r \in Slots : VoiceBilling(r, s)' <=> VoiceBilling(r, s)
    BY <1>2, <1>4, Zenon DEF VoiceBilling, V!At
  <2>2. \A s \in Calls, r \in Slots :
          /\ (V!At(r, "bill") /\ work[r].s = s)' => V!At(r, "bill") /\ work[r].s = s
          /\ (V!At(r, "save") /\ work[r].s = s)' => V!At(r, "save") /\ work[r].s = s
               /\ work'[r] = work[r]
    BY <1>2, <1>4, Zenon DEF V!At
  <2>3. BilledOnce
    BY DEF VInv
  <2> QED BY <1>1, <1>3, <2>1, <2>2, <2>3 DEF BilledOnce
<1>7. Afforded'
  <2>1. \A r \in Slots :
          /\ V!At(r, "save")' <=> V!At(r, "save")
          /\ V!At(r, "create")' <=> V!At(r, "create")
          /\ V!At(r, "save") \/ V!At(r, "create") => work'[r] = work[r]
    BY <1>2, <1>4, Zenon DEF V!At
  <2>2. Afforded
    BY DEF VInv
  <2> QED BY <1>1, <1>3, <1>5, <2>1, <2>2 DEF Afforded
<1> QED BY <1>6, <1>7 DEF VInv

LEMMA KeepsAll ==
  ASSUME NEW f, NEW g, NEW h, Keeps(f, g), Keeps(g, h)
  PROVE  Keeps(f, h)
BY DEF Keeps, SameDeal

LEMMA KeepsId ==
  ASSUME NEW f \in [Calls -> Docs], NEW s \in Calls, NEW x \in BOOLEAN
  PROVE  Keeps(f, [f EXCEPT ![s].id = x])
BY Zenon DEF Keeps, SameDeal, Docs

LEMMA KeepsText ==
  ASSUME NEW f \in [Calls -> Docs], NEW s \in Calls, NEW x \in BOOLEAN
  PROVE  Keeps(f, [f EXCEPT ![s].text = x])
BY Zenon DEF Keeps, SameDeal, Docs

LEMMA KeepsRecorded ==
  ASSUME NEW f \in [Calls -> Docs], NEW s \in Calls, NEW x \in BOOLEAN
  PROVE  Keeps(f, [f EXCEPT ![s].recorded = x])
BY Zenon DEF Keeps, SameDeal, Docs

LEMMA KeepsDuration ==
  ASSUME NEW f \in [Calls -> Docs], NEW s \in Calls, NEW x \in Nat
  PROVE  Keeps(f, [f EXCEPT ![s].duration = x])
BY Zenon DEF Keeps, SameDeal, Docs

LEMMA KeepsProvider ==
  ASSUME NEW f \in [Calls -> Docs], NEW s \in Calls, NEW x \in Providers \cup {"none"}
  PROVE  Keeps(f, [f EXCEPT ![s].provider = x])
BY Zenon DEF Keeps, SameDeal, Docs

\* The steps that only touch what is not about money.
LEMMA TickStep ==
  ASSUME VoiceBounds, VInv, NEW n \in Steps, V!Tick(n)
  PROVE  VInv'
<1>1. /\ UNCHANGED <<call, cash, taken, work, said>> /\ n \in Nat
      /\ ticker' = [s \in Calls |-> IF ticker[s] = V!Stopped THEN V!Stopped ELSE ticker[s] + n]
      /\ talk' = [s \in Calls |-> IF line[s] = "open" THEN talk[s] + n ELSE talk[s]]
  BY DEF V!Tick, V!Money, VoiceBounds
<1>2. Types'
  BY <1>1 DEF VInv, Types, V!Stopped
<1> QED BY <1>1, <1>2, Stays DEF SameDeal

LEMMA SocketStep ==
  ASSUME VoiceBounds, VInv, NEW s \in Calls,
         V!GeminiStart(s) \/ V!Speak(s) \/ V!Dial(s) \/ V!HangUp(s)
  PROVE  VInv'
<1>1. UNCHANGED <<call, cash, taken, work, ticker, talk>>
  BY DEF V!GeminiStart, V!Speak, V!Dial, V!HangUp, V!Money
<1>2. said' \in [Calls -> BOOLEAN]
  BY DEF V!GeminiStart, V!Speak, V!Dial, V!HangUp, VInv, Types
<1>3. Types'
  BY <1>1, <1>2 DEF VInv, Types
<1> QED BY <1>1, <1>3, Stays DEF SameDeal

LEMMA TimerStep ==
  ASSUME VoiceBounds, VInv, NEW s \in Calls, V!Ready(s) \/ V!VapiStart(s) \/ V!VapiEnd(s)
           \/ V!StatusUpdate(s) \/ V!UserJoinedAgora(s)
  PROVE  VInv'
<1>1. UNCHANGED <<cash, taken, work, talk, said>>
  BY DEF V!Ready, V!VapiStart, V!VapiEnd, V!StatusUpdate, V!UserJoinedAgora, V!Money, V!Media
<1>2. call \in [Calls -> Docs] /\ ticker \in [Calls -> Nat \cup {V!Stopped}]
  BY DEF VInv, Types
<1>3. ticker' \in [Calls -> Nat \cup {V!Stopped}]
  BY <1>2 DEF V!Ready, V!VapiStart, V!VapiEnd, V!StatusUpdate, V!UserJoinedAgora, V!Media
<1>4. Keeps(call, call')
  <2>1. CASE V!Ready(s) \/ V!UserJoinedAgora(s)
    BY <1>2, <2>1 DEF V!Ready, V!UserJoinedAgora, Keeps, SameDeal
  <2>2. CASE V!VapiStart(s)
    <3>1. PICK known \in BOOLEAN : call' = [call EXCEPT ![s].id = call[s].id \/ known]
      BY <2>2, Zenon DEF V!VapiStart
    <3>2. (call[s].id \/ known) \in BOOLEAN
      OBVIOUS
    <3> QED BY <1>2, <3>1, <3>2, KeepsId, Zenon
  <2>3. CASE V!VapiEnd(s)
    <3>1. call' = [call EXCEPT ![s].duration = ticker[s]] /\ ticker[s] # V!Stopped
      BY <2>3, Zenon DEF V!VapiEnd
    <3>2. ticker[s] \in Nat
      BY <1>2, <3>1
    <3> QED BY <1>2, <3>1, <3>2, KeepsDuration, Zenon
  <2>4. CASE V!StatusUpdate(s)
    <3>1. call' = [call EXCEPT ![s].id = TRUE]
      BY <2>4, Zenon DEF V!StatusUpdate
    <3> QED BY <1>2, <3>1, KeepsId, Zenon
  <2> QED BY <2>1, <2>2, <2>3, <2>4
<1>5. Types'
  BY <1>1, <1>3, <1>4 DEF VInv, Types, Keeps, SameDeal
<1> QED BY <1>1, <1>4, <1>5, Stays DEF Keeps

\* A handler that asks for the end of a call, at most.
LEMMA EndingBegins ==
  ASSUME Types, NEW r \in Slots, NEW s \in Calls, NEW text \in BOOLEAN,
         V!EndCallInternal(r, s, text)
  PROVE  /\ work' \in [Slots -> Works] /\ ticker' \in [Calls -> Nat \cup {V!Stopped}]
         /\ \A q \in Slots : \/ work'[q] = work[q]
                             \/ work[q].pc = "idle" /\ work'[q].pc = "lock"
<1>1. CASE s \in endings
  BY <1>1 DEF V!EndCallInternal, Types
<1>2. CASE s \notin endings
  <2> DEFINE n == V!Max({ticker[s], 0})
             h == [V!Ending EXCEPT !.s = s, !.gateway = TRUE, !.text = text, !.length = n]
  <2>1. n \in Nat
    <3>1. ticker[s] \in Int
      BY DEF Types, V!Stopped
    <3> QED BY <3>1, MaxOfTwo
  <2>2. V!Begin(r, h) /\ ticker' = [ticker EXCEPT ![s] = V!Stopped]
    BY <1>2, Zenon DEF V!EndCallInternal
  <2> HIDE DEF n
  <2>3. h \in Closings /\ h.pc = "lock"
    BY <2>1, Zenon DEF V!Ending, Closings
  <2> HIDE DEF h
  <2> QED BY <2>2, <2>3 DEF Types, V!Begin, V!At, Works
<1> QED BY <1>1, <1>2

LEMMA VoiceEndingStep ==
  ASSUME VoiceBounds, VInv, NEW r \in Slots, NEW s \in Calls,
         \/ V!EndCall(r, s) \/ V!TimeUp(r, s) \/ V!HandleStaleSessions(r, s)
         \/ V!GeminiStop(r, s) \/ V!GeminiClosed(r, s)
  PROVE  VInv'
<1>1. UNCHANGED <<call, cash, taken, talk>>
  BY DEF V!EndCall, V!TimeUp, V!HandleStaleSessions, V!GeminiStop, V!GeminiClosed, V!Money
<1>2. \E text \in BOOLEAN : V!EndCallInternal(r, s, text)
  <2>1. CASE V!GeminiStop(r, s)
    BY <2>1 DEF V!GeminiStop, VInv, Types
  <2> QED BY <2>1 DEF V!EndCall, V!TimeUp, V!HandleStaleSessions, V!GeminiClosed
<1>3. /\ work' \in [Slots -> Works] /\ ticker' \in [Calls -> Nat \cup {V!Stopped}]
      /\ \A q \in Slots : \/ work'[q] = work[q]
                          \/ work[q].pc = "idle" /\ work'[q].pc = "lock"
  BY <1>2, EndingBegins DEF VInv
<1>4. said' \in [Calls -> BOOLEAN]
  BY DEF V!EndCall, V!TimeUp, V!HandleStaleSessions, V!GeminiStop, V!GeminiClosed, VInv, Types
<1>5. Types'
  BY <1>1, <1>3, <1>4 DEF VInv, Types
<1> QED BY <1>1, <1>3, <1>5, Stays DEF SameDeal, Watched

\* The cleanup and REST bring no length.
WallEnds(r, s) == V!CleanupCalls(r, s) \/ V!EndCallSession(r, s)
LEMMA WallBegins ==
  ASSUME Types, NEW r \in Slots, NEW s \in Calls, WallEnds(r, s)
  PROVE  /\ UNCHANGED <<call, cash, taken, ticker, talk, said, voice, signal>>
         /\ work[r].pc = "idle" /\ \A q \in Slots \ {r} : work'[q] = work[q]
         /\ work'[r] \in Closings /\ work'[r].pc = "lock" /\ work'[r].s = s /\ work'[r].length = 0
<1> DEFINE h == [V!Ending EXCEPT !.s = s, !.wall = TRUE]
<1>1. V!Begin(r, h) /\ UNCHANGED <<call, cash, taken, ticker, talk, said, voice, signal>>
  BY Zenon DEF WallEnds, V!CleanupCalls, V!EndCallSession, V!Media, V!Money
<1>2. h \in Closings /\ h.pc = "lock" /\ h.s = s /\ h.length = 0
  <2>1. 0 \in Nat
    OBVIOUS
  <2> QED BY <2>1, Zenon DEF V!Ending, Closings
<1> HIDE DEF h
<1> QED BY <1>1, <1>2 DEF Types, V!Begin, V!At

LEMMA WallEndingStep ==
  ASSUME VoiceBounds, VInv, NEW r \in Slots, NEW s \in Calls, WallEnds(r, s)
  PROVE  VInv'
<1>1. /\ UNCHANGED <<call, cash, taken, ticker, talk, said>>
      /\ work[r].pc = "idle" /\ \A q \in Slots \ {r} : work'[q] = work[q]
      /\ work'[r] \in Closings /\ work'[r].pc = "lock"
  BY WallBegins DEF VInv
<1>2. work' \in [Slots -> Works]
  BY <1>1 DEF WallEnds, V!CleanupCalls, V!EndCallSession, V!Begin, VInv, Types, Works
<1>3. Types'
  BY <1>1, <1>2 DEF VInv, Types
<1> QED BY <1>1, <1>3, Stays DEF SameDeal, Watched

----------------
\* What a handler at a step of its own has in its record.
LEMMA VoiceKinds ==
  ASSUME Types, NEW r \in Slots
  PROVE  /\ V!At(r, "create") => work[r] \in Creating
         /\ V!At(r, "configure") => work[r] \in Configuring
         /\ V!At(r, "lock") \/ V!At(r, "bill") \/ V!At(r, "save") => work[r] \in Closings
BY DEF Types, Works, Creating, Configuring, Closings, V!At, V!Idle

LEMMA Finishes ==
  ASSUME Types, NEW r \in Slots, V!Finish(r)
  PROVE  /\ work' \in [Slots -> Works] /\ work'[r].pc = "idle"
         /\ \A q \in Slots \ {r} : work'[q] = work[q]
BY DEF Types, V!Finish, Works, V!Idle

\* Its provider is known, or never will be.
LEMMA ConfigureStep ==
  ASSUME VoiceBounds, VInv, NEW r \in Slots, V!Configure(r)
  PROVE  VInv'
<1>1. V!Finish(r) /\ V!At(r, "configure") /\ UNCHANGED <<cash, taken, talk, said, ticker>>
  BY DEF V!Configure, V!Money, V!Media
<1>2. work[r].s \in Calls
  BY <1>1, VoiceKinds DEF VInv, Configuring
<1>3. call \in [Calls -> Docs]
  BY DEF VInv, Types
<1>4. Keeps(call, call')
  <2>1. PICK p \in Providers \cup {"none"} : call' = [call EXCEPT ![work[r].s].provider = p]
    BY Zenon DEF V!Configure
  <2> QED BY <1>2, <1>3, <2>1, KeepsProvider, Zenon
<1>5. /\ work' \in [Slots -> Works] /\ work'[r].pc = "idle"
      /\ \A q \in Slots \ {r} : work'[q] = work[q]
  BY <1>1, Finishes DEF VInv
<1>6. Types'
  BY <1>1, <1>4, <1>5 DEF VInv, Types, Keeps, SameDeal
<1> QED BY <1>1, <1>4, <1>5, <1>6, Stays DEF Keeps, Watched, V!At

\* A report on a call that is over already.
LEMMA Reported ==
  ASSUME NEW f \in [Calls -> Docs], NEW s \in Calls, NEW t \in Calls, NEW x \in BOOLEAN,
         NEW y \in BOOLEAN, NEW z \in BOOLEAN, NEW d \in Nat
  PROVE  Keeps(f, [f EXCEPT ![s].id = x, ![t].id = TRUE, ![t].text = y, ![t].recorded = z,
                            ![t].duration = d])
<1> DEFINE f1 == [f EXCEPT ![s].id = x]
           f2 == [f1 EXCEPT ![t].id = TRUE]
           f3 == [f2 EXCEPT ![t].text = y]
           f4 == [f3 EXCEPT ![t].recorded = z]
           f5 == [f4 EXCEPT ![t].duration = d]
<1>1. Keeps(f, f1)
  BY KeepsId, Zenon
<1> HIDE DEF f1
<1>2. f1 \in [Calls -> Docs]
  BY <1>1 DEF Keeps
<1>3. Keeps(f1, f2)
  BY <1>2, KeepsId, Zenon
<1> HIDE DEF f2
<1>4. f2 \in [Calls -> Docs]
  BY <1>3 DEF Keeps
<1>5. Keeps(f2, f3)
  BY <1>4, KeepsText, Zenon
<1> HIDE DEF f3
<1>6. f3 \in [Calls -> Docs]
  BY <1>5 DEF Keeps
<1>7. Keeps(f3, f4)
  BY <1>6, KeepsRecorded, Zenon
<1> HIDE DEF f4
<1>8. f4 \in [Calls -> Docs]
  BY <1>7 DEF Keeps
<1>9. Keeps(f4, f5)
  BY <1>8, KeepsDuration, Zenon
<1> HIDE DEF f5
<1>10. Keeps(f, f5)
  BY <1>1, <1>3, <1>5, <1>7, <1>9, KeepsAll
<1>11. f5 = [f EXCEPT ![s].id = x, ![t].id = TRUE, ![t].text = y, ![t].recorded = z,
        ![t].duration = d]
  BY Zenon DEF f1, f2, f3, f4, f5
<1> QED BY <1>10, <1>11, Zenon

\* The report of a call that is over: it ends a call, or is written down.
LEMMA WebhookStep ==
  ASSUME VoiceBounds, VInv, NEW r \in Slots, NEW s \in Calls, V!HandleVapiWebhook(r, s)
  PROVE  VInv'
<1>1. UNCHANGED <<cash, taken, talk, said, ticker>>
  BY DEF V!HandleVapiWebhook, V!Money, V!Media
<1>2. call \in [Calls -> Docs] /\ talk \in [Calls -> Nat]
  BY DEF VInv, Types
<1>3. PICK named \in BOOLEAN, t \in Calls :
        /\ t \in V!Target(s, named)
        /\ IF V!Active(t)
           THEN /\ call' = [call EXCEPT ![s].id = @ \/ named]
                /\ V!Begin(r, [V!Ending EXCEPT !.s = t, !.text = TRUE, !.recorded = TRUE,
                                           !.length = V!Shielded(t, talk[s])])
           ELSE /\ call' = [call EXCEPT ![s].id = @ \/ named, ![t].id = TRUE, ![t].text = TRUE,
                              ![t].recorded = TRUE,
                              ![t].duration = IF call[t].duration = 0 THEN talk[s]
                                  ELSE call[t].duration]
                /\ UNCHANGED work
  BY Zenon DEF V!HandleVapiWebhook
<1>4. (call[s].id \/ named) \in BOOLEAN
  OBVIOUS
<1>5. talk[s] \in Nat /\ call[t].duration \in Nat /\ TRUE \in BOOLEAN
  BY <1>2 DEF Docs
<1>6. /\ Keeps(call, call') /\ work' \in [Slots -> Works]
      /\ \A q \in Slots : \/ work'[q] = work[q]
                          \/ work[q].pc = "idle" /\ work'[q].pc = "lock"
  <2>1. CASE V!Active(t)
    <3> DEFINE n == V!Shielded(t, talk[s])
               h == [V!Ending EXCEPT !.s = t, !.text = TRUE, !.recorded = TRUE, !.length = n]
    <3>1. n \in Nat
      BY <1>5 DEF V!Shielded
    <3>2. call' = [call EXCEPT ![s].id = @ \/ named] /\ V!Begin(r, h)
      BY <1>3, <2>1, Zenon
    <3>3. Keeps(call, call')
      BY <1>2, <1>4, <3>2, KeepsId, Zenon
    <3> HIDE DEF n
    <3>4. h \in Closings /\ h.pc = "lock"
      BY <3>1, Zenon DEF V!Ending, Closings
    <3> HIDE DEF h
    <3> QED BY <3>2, <3>3, <3>4 DEF VInv, Types, V!Begin, V!At, Works
  <2>2. CASE ~V!Active(t)
    <3> DEFINE d == IF call[t].duration = 0 THEN talk[s] ELSE call[t].duration
    <3>1. d \in Nat
      BY <1>5
    <3>2. /\ call' = [call EXCEPT ![s].id = @ \/ named, ![t].id = TRUE, ![t].text = TRUE,
                        ![t].recorded = TRUE, ![t].duration = d]
          /\ UNCHANGED work
      BY <1>3, <2>2, Zenon
    <3> HIDE DEF d
    <3>3. Keeps(call, call')
      BY <1>2, <1>4, <1>5, <3>1, <3>2, Reported, Zenon
    <3> QED BY <3>2, <3>3 DEF VInv, Types
  <2> QED BY <2>1, <2>2
<1>7. Types'
  BY <1>1, <1>6 DEF VInv, Types, Keeps, SameDeal
<1> QED BY <1>1, <1>6, <1>7, Stays DEF Keeps, Watched

----------------
\* A record with another state, at the next step.
LEMMA NextAt ==
  ASSUME NEW w \in Closings, NEW pc \in {"lock", "bill", "save"}
  PROVE  LET v == [w EXCEPT !.pc = pc] IN v \in Closings /\ v.pc = pc /\ v.s = w.s
BY Zenon DEF Closings

LEMMA EndedDoc ==
  ASSUME NEW d \in Docs
  PROVE  LET e == [d EXCEPT !.status = "ended"] IN
           /\ e \in Docs /\ e.status = "ended" /\ e.user = d.user /\ e.rate = d.rate
                /\ e.max = d.max
           /\ e.bill = d.bill /\ e.paid = d.paid /\ e.alone = d.alone
BY Zenon DEF Docs

\* The call ends: who takes it from there is the only one to take a payment.
LEMMA VoiceEnds ==
  ASSUME VoiceBounds, VInv, NEW r \in Slots, NEW s \in Calls, s = work[r].s,
         V!Lock(r), V!At(r, "lock"), V!Active(s)
  PROVE  VInv'
<1>1. work[r] \in Closings /\ call \in [Calls -> Docs] /\ work \in [Slots -> Works]
  BY VoiceKinds DEF VInv, Types, Closings
<1>2. /\ UNCHANGED <<cash, taken, talk, said, ticker>>
      /\ call' = [call EXCEPT ![s].status = "ended"] /\ work' = [work EXCEPT ![r].pc = "bill"]
  BY Zenon DEF V!Lock, V!Goto, V!Money
<1>3. /\ call' \in [Calls -> Docs] /\ \A t \in Calls \ {s} : call'[t] = call[t]
      /\ call'[s].status = "ended" /\ call'[s].user = call[s].user /\ call'[s].rate = call[s].rate
      /\ call'[s].max = call[s].max /\ call'[s].bill = call[s].bill /\ call'[s].paid = call[s].paid
      /\ call'[s].alone = call[s].alone
  <2> DEFINE e == [call[s] EXCEPT !.status = "ended"]
  <2>1. call' = [call EXCEPT ![s] = e]
    BY <1>2, Zenon
  <2>2. /\ e \in Docs /\ e.status = "ended" /\ e.user = call[s].user /\ e.rate = call[s].rate
        /\ e.max = call[s].max /\ e.bill = call[s].bill /\ e.paid = call[s].paid
             /\ e.alone = call[s].alone
    <3>1. call[s] \in Docs
      BY <1>1
    <3> QED BY <3>1, EndedDoc, Zenon
  <2> HIDE DEF e
  <2> QED BY <1>1, <2>1, <2>2
<1>4. /\ work' \in [Slots -> Works] /\ \A q \in Slots \ {r} : work'[q] = work[q]
      /\ work'[r].pc = "bill" /\ work'[r].s = s
  <2> DEFINE v == [work[r] EXCEPT !.pc = "bill"]
  <2>1. work' = [work EXCEPT ![r] = v]
    BY <1>2, Zenon
  <2>2. v \in Closings /\ v.pc = "bill" /\ v.s = s
    BY <1>1, NextAt, Zenon
  <2> HIDE DEF v
  <2> QED BY <1>1, <2>1, <2>2 DEF Works
<1>5. Types'
  BY <1>2, <1>3, <1>4 DEF VInv, Types, V!Active
<1>6. \A t \in Calls : Cap(t)' = Cap(t)
  BY <1>3 DEF Cap
<1>7. call[s].status = "active" /\ taken[s] = 0
  BY <1>1 DEF VInv, BilledOnce, V!Active
<1>8. \A q \in Slots : ~VoiceBilling(q, s)
  BY <1>1, <1>7 DEF VInv, BilledOnce
<1>9. BilledOnce'
  <2> QED BY <1>1, <1>2, <1>3, <1>4, <1>6, <1>7, <1>8 DEF VInv, BilledOnce, VoiceBilling, V!At
<1>10. \A t \in Calls : Due(t)' <=> Due(t)
  <2>1. Due(s) /\ Due(s)'
    BY <1>4, <1>7 DEF Due, V!Active, V!At
  <2>2. \A t \in Calls \ {s} : Due(t)' <=> Due(t)
    BY <1>3, <1>4, V!At(r, "lock") DEF Due, V!Active, V!At
  <2> QED BY <2>1, <2>2
<1>11. \A q \in Slots : (V!At(q, "save") <=> V!At(q, "save")')
        /\ (V!At(q, "create") <=> V!At(q, "create")')
                        /\ (V!At(q, "save") \/ V!At(q, "create") => work'[q] = work[q])
  BY <1>4 DEF V!At
<1>12. Afforded'
  <2>1. Afforded
    BY DEF VInv
  <2>2. ASSUME NEW t \in Calls, call'[t].alone
        PROVE  /\ Due(t)' => /\ cash'[call'[t].user] >= Cap(t)'
                             /\ \A o \in Calls \ {t} : Due(o)' => call'[o].user # call'[t].user
               /\ \A q \in Slots : V!At(q, "save")' /\ work'[q].s = t => work'[q].paid
    BY <1>1, <1>2, <1>3, <1>6, <1>10, <1>11, <2>1, <2>2 DEF Afforded
  <2>3. ASSUME NEW t \in Calls, call'[t].alone, call'[t].status = "ended", ~Due(t)'
        PROVE  call'[t].paid \/ \E q \in Slots : V!At(q, "save")' /\ work'[q].s = t
    <3>1. t # s
      BY <1>4, <2>3 DEF Due, V!At
    <3>2. call[t].paid \/ \E q \in Slots : V!At(q, "save") /\ work[q].s = t
      BY <1>3, <1>10, <2>1, <2>3, <3>1 DEF Afforded
    <3> QED BY <1>3, <1>11, <3>1, <3>2
  <2>4. \A q \in Slots : (V!At(q, "create") /\ work[q].alone)' =>
          (cash[work[q].u] >= work[q].balance
              /\ \A t \in Calls : Due(t) => call[t].user # work[q].u)'
    BY <1>1, <1>2, <1>3, <1>10, <1>11, <2>1 DEF Afforded
  <2> QED BY <2>2, <2>3, <2>4, Zenon DEF Afforded
<1> QED BY <1>5, <1>9, <1>12 DEF VInv

\* It was over: what the report brings is written down.
LEMMA TooLate ==
  ASSUME VoiceBounds, VInv, NEW r \in Slots, V!Lock(r), V!At(r, "lock"), ~V!Active(work[r].s)
  PROVE  VInv'
<1> DEFINE s == work[r].s
           x == call[s].recorded \/ work[r].recorded
           y == call[s].text \/ (work[r].recorded /\ work[r].text)
<1>1. s \in Calls /\ call \in [Calls -> Docs]
  BY VoiceKinds DEF VInv, Types, Closings
<1>2. /\ UNCHANGED <<cash, taken, talk, said, ticker>> /\ V!Finish(r)
      /\ call' = [call EXCEPT ![s].recorded = x, ![s].text = y]
  BY Zenon DEF V!Lock, V!Money
<1>3. x \in BOOLEAN /\ y \in BOOLEAN
  OBVIOUS
<1>4. Keeps(call, call')
  <2> HIDE DEF s, x, y
  <2> DEFINE f == [call EXCEPT ![s].recorded = x]
             g == [f EXCEPT ![s].text = y]
  <2>1. Keeps(call, f)
    BY <1>1, <1>3, KeepsRecorded, Zenon
  <2> HIDE DEF f
  <2>2. f \in [Calls -> Docs]
    BY <2>1 DEF Keeps
  <2>3. Keeps(f, g)
    BY <1>1, <1>3, <2>2, KeepsText, Zenon
  <2> HIDE DEF g
  <2>4. Keeps(call, g)
    BY <2>1, <2>3, KeepsAll
  <2>5. g = [call EXCEPT ![s].recorded = x, ![s].text = y]
    BY Zenon DEF f, g
  <2> QED BY <1>2, <2>4, <2>5, Zenon
<1>5. /\ work' \in [Slots -> Works] /\ work'[r].pc = "idle"
      /\ \A q \in Slots \ {r} : work'[q] = work[q]
  BY <1>2, Finishes DEF VInv
<1>6. Types'
  BY <1>2, <1>4, <1>5 DEF VInv, Types, Keeps, SameDeal
<1> QED BY <1>2, <1>4, <1>5, <1>6, Stays DEF Keeps, Watched, V!At

LEMMA LockStep ==
  ASSUME VoiceBounds, VInv, NEW r \in Slots, V!Lock(r)
  PROVE  VInv'
<1>1. V!At(r, "lock")
  BY DEF V!Lock
<1>2. work[r].s \in Calls
  BY <1>1, VoiceKinds DEF VInv, Closings
<1> QED BY <1>1, <1>2, VoiceEnds, TooLate

----------------
LEMMA NotAlone ==
  ASSUME NEW d \in Docs
  PROVE  LET e == [d EXCEPT !.alone = FALSE] IN
           /\ e \in Docs /\ ~e.alone /\ e.status = d.status /\ e.user = d.user /\ e.rate = d.rate
           /\ e.max = d.max /\ e.bill = d.bill /\ e.paid = d.paid
BY Zenon DEF Docs

LEMMA StartsNotAlone ==
  ASSUME NEW w \in Creating
  PROVE  LET v == [w EXCEPT !.alone = FALSE] IN
           v \in Creating /\ ~v.alone /\ v.pc = w.pc /\ v.u = w.u /\ v.balance = w.balance
BY Zenon DEF Creating

LEMMA DueIsUnsettled ==
  ASSUME NEW s \in Calls, Due(s)
  PROVE  V!Unsettled(s)
BY DEF Due, V!Unsettled, V!Closing

\* The user buys something else: none of his calls is the only one any more.
LEMMA SpendStep ==
  ASSUME VoiceBounds, VInv, NEW u \in Users, V!Spend(u)
  PROVE  VInv'
<1>1. /\ UNCHANGED <<ticker, talk, said, taken>>
      /\ cash[u] >= Rate /\ cash' = [cash EXCEPT ![u] = @ - Rate]
      /\ call' = [s \in Calls |-> IF call[s].user = u /\ V!Unsettled(s)
                                  THEN [call[s] EXCEPT !.alone = FALSE] ELSE call[s]]
      /\ work' = [r \in Slots |-> IF V!At(r, "create") /\ work[r].u = u
                                  THEN [work[r] EXCEPT !.alone = FALSE] ELSE work[r]]
  BY Zenon DEF V!Spend, V!Media
<1>2. call \in [Calls -> Docs] /\ work \in [Slots -> Works] /\ cash \in [Users -> Nat]
        /\ Rate \in Nat
  BY DEF VInv, Types, VoiceBounds
<1>3. cash' \in [Users -> Nat] /\ \A v \in Users \ {u} : cash'[v] = cash[v]
  BY <1>1, <1>2
<1>4. \A s \in Calls :
        /\ call'[s] \in Docs /\ call'[s].status = call[s].status /\ call'[s].user = call[s].user
        /\ call'[s].rate = call[s].rate /\ call'[s].max = call[s].max
        /\ call'[s].bill = call[s].bill /\ call'[s].paid = call[s].paid
        /\ call'[s].alone => call[s].alone /\ ~(call[s].user = u /\ V!Unsettled(s))
  <2>1. ASSUME NEW s \in Calls
        PROVE  /\ call'[s] \in Docs /\ call'[s].status = call[s].status
                    /\ call'[s].user = call[s].user
               /\ call'[s].rate = call[s].rate /\ call'[s].max = call[s].max
               /\ call'[s].bill = call[s].bill /\ call'[s].paid = call[s].paid
               /\ call'[s].alone => call[s].alone /\ ~(call[s].user = u /\ V!Unsettled(s))
    <3>1. call[s] \in Docs
      BY <1>2
    <3>2. CASE call[s].user = u /\ V!Unsettled(s)
      <4>1. call'[s] = [call[s] EXCEPT !.alone = FALSE]
        BY <1>1, <3>2, Zenon
      <4> QED BY <3>1, <4>1, NotAlone, Zenon
    <3>3. CASE ~(call[s].user = u /\ V!Unsettled(s))
      <4>1. call'[s] = call[s]
        BY <1>1, <3>3, Zenon
      <4> QED BY <3>1, <3>3, <4>1, Zenon
    <3> QED BY <3>2, <3>3
  <2> QED BY <2>1
<1>5. \A r \in Slots :
        /\ work'[r] \in Works /\ work'[r].pc = work[r].pc
        /\ ~V!At(r, "create") => work'[r] = work[r]
        /\ V!At(r, "create") => /\ work'[r].u = work[r].u /\ work'[r].balance = work[r].balance
                                /\ work'[r].alone => work[r].alone /\ work[r].u # u
  <2>1. ASSUME NEW r \in Slots
        PROVE  /\ work'[r] \in Works /\ work'[r].pc = work[r].pc
               /\ ~V!At(r, "create") => work'[r] = work[r]
               /\ V!At(r, "create") => /\ work'[r].u = work[r].u
                                           /\ work'[r].balance = work[r].balance
                                       /\ work'[r].alone => work[r].alone /\ work[r].u # u
    <3>1. work[r] \in Works /\ (V!At(r, "create") => work[r] \in Creating)
      BY <1>2, VoiceKinds DEF VInv
    <3>2. CASE V!At(r, "create") /\ work[r].u = u
      <4>1. work'[r] = [work[r] EXCEPT !.alone = FALSE]
        BY <1>1, <3>2, Zenon
      <4>2. work'[r] \in Creating /\ ~work'[r].alone /\ work'[r].pc = work[r].pc
            /\ work'[r].u = work[r].u /\ work'[r].balance = work[r].balance
        BY <3>1, <3>2, <4>1, StartsNotAlone, Zenon
      <4> QED BY <3>2, <4>2, Zenon DEF Works
    <3>3. CASE ~(V!At(r, "create") /\ work[r].u = u)
      <4>1. work'[r] = work[r]
        BY <1>1, <3>3, Zenon
      <4> QED BY <3>1, <3>3, <4>1, Zenon
    <3> QED BY <3>2, <3>3
  <2> QED BY <2>1
<1>6. Types'
  <2>1. call' \in [Calls -> Docs] /\ work' \in [Slots -> Works]
    <3>1. DOMAIN call' = Calls /\ call' = [s \in Calls |-> call'[s]]
          /\ DOMAIN work' = Slots /\ work' = [r \in Slots |-> work'[r]]
      BY <1>1, Zenon
    <3> QED BY <1>4, <1>5, <3>1, Zenon
  <2> QED BY <1>1, <1>3, <1>4, <2>1 DEF VInv, Types
<1>7. \A s \in Calls : Cap(s)' = Cap(s)
  BY <1>4 DEF Cap
<1>8. \A s \in Calls, r \in Slots :
        /\ VoiceBilling(r, s)' <=> VoiceBilling(r, s)
        /\ (V!At(r, "bill") /\ work[r].s = s)' <=> V!At(r, "bill") /\ work[r].s = s
        /\ (V!At(r, "save") /\ work[r].s = s)' <=> V!At(r, "save") /\ work[r].s = s
        /\ V!At(r, "save") => work'[r] = work[r]
  BY <1>5 DEF VoiceBilling, V!At
<1>9. BilledOnce'
  <2>1. ASSUME NEW s \in Calls, NEW r \in Slots
        PROVE  /\ VoiceBilling(r, s)' => call'[s].status = "ended"
               /\ (V!At(r, "bill") /\ work[r].s = s)' => taken'[s] = 0
               /\ (V!At(r, "save") /\ work[r].s = s)' => work'[r].bill <= Cap(s)'
    <3>1. /\ VoiceBilling(r, s) => call[s].status = "ended"
          /\ V!At(r, "bill") /\ work[r].s = s => taken[s] = 0
          /\ V!At(r, "save") /\ work[r].s = s => work[r].bill <= Cap(s)
      BY DEF VInv, BilledOnce
    <3>2. /\ VoiceBilling(r, s)' <=> VoiceBilling(r, s)
          /\ (V!At(r, "bill") /\ work[r].s = s)' <=> V!At(r, "bill") /\ work[r].s = s
          /\ (V!At(r, "save") /\ work[r].s = s)' <=> V!At(r, "save") /\ work[r].s = s
          /\ V!At(r, "save") => work'[r] = work[r]
      BY <1>8
    <3>3. call'[s].status = call[s].status /\ taken'[s] = taken[s] /\ Cap(s)' = Cap(s)
      BY <1>1, <1>4, <1>7
    <3> QED BY <3>1, <3>2, <3>3
  <2>2. \A s \in Calls, r \in Slots : \A q \in Slots : VoiceBilling(q, s)'
          /\ VoiceBilling(r, s)' => q = r
    BY <1>8 DEF VInv, BilledOnce
  <2>3. \A s \in Calls : /\ call'[s].status # "ended" => taken'[s] = 0
                         /\ taken'[s] <= 1 /\ call'[s].bill <= Cap(s)'
    BY <1>1, <1>4, <1>7 DEF VInv, BilledOnce
  <2> QED BY <2>1, <2>2, <2>3, Zenon DEF BilledOnce
<1>10. \A s \in Calls : (Due(s)' <=> Due(s)) /\ (Due(s) => V!Unsettled(s))
  BY <1>4, <1>8, DueIsUnsettled DEF Due, V!Active
<1>11. Afforded'
  <2>1. Afforded
    BY DEF VInv
  <2>2. ASSUME NEW t \in Calls, call'[t].alone
        PROVE  /\ Due(t)' => /\ cash'[call'[t].user] >= Cap(t)'
                             /\ \A o \in Calls \ {t} : Due(o)' => call'[o].user # call'[t].user
               /\ \A q \in Slots : (V!At(q, "save") /\ work[q].s = t)' => work'[q].paid
    <3>1. call[t].alone /\ ~(call[t].user = u /\ V!Unsettled(t))
      BY <1>4, <2>2
    <3>2. ASSUME Due(t)'
          PROVE  /\ cash'[call'[t].user] >= Cap(t)'
                 /\ \A o \in Calls \ {t} : Due(o)' => call'[o].user # call'[t].user
      <4>1. Due(t) /\ call[t].user # u
        BY <1>10, <3>1, <3>2
      <4>2. /\ cash[call[t].user] >= Cap(t)
            /\ \A o \in Calls \ {t} : Due(o) => call[o].user # call[t].user
        BY <2>1, <3>1, <4>1 DEF Afforded
      <4>3. cash'[call[t].user] = cash[call[t].user]
        BY <1>1, <1>2, <4>1
      <4> QED BY <1>4, <1>7, <1>10, <4>2, <4>3
    <3>3. \A q \in Slots : V!At(q, "save") /\ work[q].s = t => work[q].paid
      BY <2>1, <3>1 DEF Afforded
    <3> QED BY <1>8, <3>2, <3>3
  <2>3. ASSUME NEW t \in Calls, call'[t].alone, call'[t].status = "ended", ~Due(t)'
        PROVE  call'[t].paid \/ \E q \in Slots : (V!At(q, "save") /\ work[q].s = t)'
    <3>1. call[t].paid \/ \E q \in Slots : V!At(q, "save") /\ work[q].s = t
      BY <1>4, <1>10, <2>1, <2>3 DEF Afforded
    <3> QED BY <1>4, <1>8, <3>1
  <2>4. ASSUME NEW q \in Slots, (V!At(q, "create") /\ work[q].alone)'
        PROVE  (cash[work[q].u] >= work[q].balance
                 /\ \A t \in Calls : Due(t) => call[t].user # work[q].u)'
    <3>1. V!At(q, "create") /\ work[q].alone /\ work[q].u # u
          /\ work'[q].u = work[q].u /\ work'[q].balance = work[q].balance
      BY <1>5, <2>4 DEF V!At
    <3>2. work[q].u \in Users
      BY <3>1, VoiceKinds DEF VInv, Creating
    <3>3. cash[work[q].u] >= work[q].balance /\ \A t \in Calls : Due(t) => call[t].user # work[q].u
      BY <2>1, <3>1 DEF Afforded
    <3> QED BY <1>3, <1>4, <1>10, <3>1, <3>2, <3>3
  <2> QED BY <2>2, <2>3, <2>4, Zenon DEF Afforded
<1> QED BY <1>6, <1>9, <1>11 DEF VInv

\* A start that sees a call of the user at work does not count as alone.
LEMMA InitiateStep ==
  ASSUME VoiceBounds, VInv, NEW r \in Slots, NEW u \in Users, V!InitiateAiVoiceCall(r, u)
  PROVE  VInv'
<1> DEFINE b == ~\E s \in Calls : call[s].user = u /\ V!Unsettled(s)
           f == FreeFirst /\ u \notin used
           h == [pc |-> "create", u |-> u, balance |-> cash[u], free |-> f, alone |-> b]
<1>1. /\ UNCHANGED <<call, ticker, talk, said, cash, taken>> /\ V!Begin(r, h)
  BY Zenon DEF V!InitiateAiVoiceCall, V!Media, V!Money
<1>2. cash[u] \in Nat /\ f \in BOOLEAN /\ b \in BOOLEAN
  BY DEF VInv, Types, VoiceBounds
<1>3. b => \A s \in Calls : Due(s) => call[s].user # u
  BY DueIsUnsettled
<1> HIDE DEF b, f
<1>4. h \in Creating /\ h.pc = "create" /\ h.u = u /\ h.balance = cash[u] /\ h.alone = b
  BY <1>2 DEF Creating
<1> HIDE DEF h
<1>5. /\ work' \in [Slots -> Works] /\ work'[r] = h /\ work[r].pc = "idle"
      /\ \A q \in Slots \ {r} : work'[q] = work[q]
  BY <1>1, <1>4 DEF VInv, Types, V!Begin, V!At, Works
<1>6. Types'
  BY <1>1, <1>5 DEF VInv, Types
<1>7. \A s \in Calls, q \in Slots :
        /\ Cap(s)' = Cap(s)
        /\ VoiceBilling(q, s)' <=> VoiceBilling(q, s)
        /\ (V!At(q, "bill") /\ work[q].s = s)' <=> V!At(q, "bill") /\ work[q].s = s
        /\ (V!At(q, "save") /\ work[q].s = s)' <=> V!At(q, "save") /\ work[q].s = s
        /\ V!At(q, "save") => work'[q] = work[q]
  BY <1>1, <1>4, <1>5 DEF Cap, VoiceBilling, V!At
<1>8. BilledOnce'
  BY <1>1, <1>7 DEF VInv, BilledOnce
<1>9. \A s \in Calls : Due(s)' <=> Due(s)
  BY <1>1, <1>7 DEF Due, V!Active
<1>10. Afforded'
  <2>1. Afforded
    BY DEF VInv
  <2>2. \A s \in Calls : call[s].alone =>
       /\ Due(s)' => /\ cash[call[s].user] >= Cap(s)'
                     /\ \A t \in Calls \ {s} : Due(t)' => call[t].user # call[s].user
       /\ call[s].status = "ended"
            /\ ~Due(s)' => call[s].paid \/ \E q \in Slots : (V!At(q, "save") /\ work[q].s = s)'
       /\ \A q \in Slots : (V!At(q, "save") /\ work[q].s = s)' => work'[q].paid
    BY <1>7, <1>9, <2>1 DEF Afforded
  <2>3. ASSUME NEW q \in Slots, (V!At(q, "create") /\ work[q].alone)'
        PROVE  (cash[work[q].u] >= work[q].balance
                 /\ \A t \in Calls : Due(t) => call[t].user # work[q].u)'
    <3>1. CASE q = r
      BY <1>1, <1>2, <1>3, <1>4, <1>5, <1>9, <2>3, <3>1
    <3>2. CASE q # r
      BY <1>1, <1>5, <1>9, <2>1, <2>3, <3>2 DEF Afforded, V!At
    <3> QED BY <3>1, <3>2
  <2> QED BY <1>1, <2>2, <2>3, Zenon DEF Afforded
<1> QED BY <1>6, <1>8, <1>10 DEF VInv

----------------
\* What the payment for a call can reach, when it starts.
LEMMA PriceFits ==
  ASSUME VoiceBounds, NEW b \in Nat, NEW c \in Nat, b <= c, c >= 5 * Rate
  PROVE  V!Longest(b) \in Nat /\ V!Max({1, V!Minutes(V!Longest(b))}) * Rate <= c
<1>1. Rate \in Nat \ {0} /\ Rate \in Nat
  BY DEF VoiceBounds
<1> DEFINE n == b \div Rate
<1>2. n \in Nat /\ n * Rate <= b
  BY <1>1, WholeMinutes
<1> HIDE DEF n
<1>3. V!Longest(b) = 2 * n /\ 2 * n \in Nat
  BY <1>2 DEF V!Longest, n
<1>4. V!Minutes(V!Longest(b)) = n
  BY <1>2, <1>3, MinutesGrow
<1>5. V!Max({1, n}) = IF 1 >= n THEN 1 ELSE n
  BY <1>2, MaxOfTwo
<1>6. 1 * Rate <= c /\ n * Rate <= c
  BY <1>1, <1>2
<1> QED BY <1>3, <1>4, <1>5, <1>6

\* What a start leaves behind: the call of s belongs to u, and is the only one of u if it is alone.
Created(r, s, u) ==
  /\ UNCHANGED <<ticker, talk, said, cash, taken>>
  /\ call[s].status = "none" /\ call[s].bill = 0
  /\ call'[s] \in Docs /\ call'[s].user = u /\ call'[s].status = "active" /\ call'[s].bill = 0
  /\ call'[s].alone => /\ cash[u] >= Cap(s)'
                       /\ \A t \in Calls \ {s} : Due(t) => call[t].user # u
  /\ \A t \in Calls \ {s} :
       /\ call'[t] \in Docs /\ call'[t].status = call[t].status /\ call'[t].user = call[t].user
       /\ call'[t].rate = call[t].rate /\ call'[t].max = call[t].max
       /\ call'[t].bill = call[t].bill /\ call'[t].paid = call[t].paid
       /\ call'[t].alone => call[t].alone /\ (Due(t) => call[t].user # u)
  /\ work'[r] \in Works /\ work'[r].pc = "configure" /\ work[r].pc = "create"
  /\ \A q \in Slots \ {r} :
       /\ work'[q] \in Works /\ work'[q].pc = work[q].pc
       /\ work[q].pc # "create" => work'[q] = work[q]
       /\ work[q].pc = "create" => /\ work'[q].u = work[q].u /\ work'[q].balance = work[q].balance
                                   /\ work'[q].alone => work[q].alone /\ work[q].u # u
  /\ DOMAIN call' = Calls /\ call' = [t \in Calls |-> call'[t]]
  /\ DOMAIN work' = Slots /\ work' = [q \in Slots |-> work'[q]]

LEMMA CreatedKeeps ==
  ASSUME VoiceBounds, VInv, NEW r \in Slots, NEW s \in Calls, NEW u \in Users, Created(r, s, u)
  PROVE  VInv'
<1>1. Types'
  <2>1. call' \in [Calls -> Docs] /\ work' \in [Slots -> Works]
    <3>1. \A t \in Calls : call'[t] \in Docs
      BY DEF Created
    <3>2. \A q \in Slots : work'[q] \in Works
      BY DEF Created
    <3> QED BY <3>1, <3>2, Zenon DEF Created
  <2> QED BY <2>1 DEF VInv, Types, Created
<1>2. \A t \in Calls \ {s} : Cap(t)' = Cap(t)
  BY DEF Created, Cap
<1>3. \A q \in Slots, t \in Calls :
        /\ VoiceBilling(q, t)' <=> VoiceBilling(q, t)
        /\ (V!At(q, "bill") /\ work[q].s = t)' <=> V!At(q, "bill") /\ work[q].s = t
        /\ (V!At(q, "save") /\ work[q].s = t)' <=> V!At(q, "save") /\ work[q].s = t
        /\ V!At(q, "save") => work'[q] = work[q]
  <2>1. \A q \in Slots : /\ work[q].pc \in {"bill", "save"} => work'[q] = work[q]
                         /\ work'[q].pc \in {"bill", "save"} => work'[q] = work[q]
    BY DEF Created
  <2> QED BY <2>1 DEF VoiceBilling, V!At
<1>4. \A q \in Slots : ~VoiceBilling(q, s)
  BY DEF VInv, BilledOnce, Created
<1>5. Cap(s)' \in Nat
  <2>1. call'[s] \in Docs
    BY DEF Created
  <2> QED BY <2>1, CapNat DEF Cap
<1>6. BilledOnce'
  <2>1. ASSUME NEW t \in Calls, NEW q \in Slots
        PROVE  /\ VoiceBilling(q, t)' => call'[t].status = "ended"
               /\ (V!At(q, "bill") /\ work[q].s = t)' => taken'[t] = 0
               /\ (V!At(q, "save") /\ work[q].s = t)' => work'[q].bill <= Cap(t)'
    <3>1. CASE t = s
      BY <1>3, <1>4, <3>1 DEF VoiceBilling
    <3>2. CASE t # s
      <4>1. /\ VoiceBilling(q, t) => call[t].status = "ended"
            /\ V!At(q, "bill") /\ work[q].s = t => taken[t] = 0
            /\ V!At(q, "save") /\ work[q].s = t => work[q].bill <= Cap(t)
        BY DEF VInv, BilledOnce
      <4>2. call'[t].status = call[t].status /\ taken'[t] = taken[t] /\ Cap(t)' = Cap(t)
        BY <1>2, <3>2 DEF Created
      <4> QED BY <1>3, <4>1, <4>2
    <3> QED BY <3>1, <3>2
  <2>2. \A t \in Calls, q \in Slots : \A p \in Slots : VoiceBilling(p, t)'
          /\ VoiceBilling(q, t)' => p = q
    BY <1>3 DEF VInv, BilledOnce
  <2>3. ASSUME NEW t \in Calls
        PROVE  /\ call'[t].status # "ended" => taken'[t] = 0
               /\ taken'[t] <= 1 /\ call'[t].bill <= Cap(t)'
    <3>1. /\ call[t].status # "ended" => taken[t] = 0
          /\ taken[t] <= 1 /\ call[t].bill <= Cap(t)
      BY DEF VInv, BilledOnce
    <3>2. CASE t = s
      BY <1>5, <3>1, <3>2 DEF Created
    <3>3. CASE t # s
      BY <1>2, <3>1, <3>3 DEF Created
    <3> QED BY <3>2, <3>3
  <2> QED BY <2>1, <2>2, <2>3, Zenon DEF BilledOnce
<1>7. /\ \A t \in Calls \ {s} : Due(t)' <=> Due(t)
      /\ Due(s)' /\ call'[s].status # "ended"
  BY <1>3 DEF Due, V!Active, Created
<1>8. Afforded'
  <2>1. Afforded
    BY DEF VInv
  <2>2. ASSUME NEW t \in Calls, call'[t].alone
        PROVE  /\ Due(t)' => /\ cash'[call'[t].user] >= Cap(t)'
                             /\ \A o \in Calls \ {t} : Due(o)' => call'[o].user # call'[t].user
               /\ \A q \in Slots : (V!At(q, "save") /\ work[q].s = t)' => work'[q].paid
    <3>1. CASE t = s
      <4>1. cash'[call'[s].user] >= Cap(s)'
        BY <2>2, <3>1 DEF Created
      <4>2. \A o \in Calls \ {s} : Due(o)' => call'[o].user # call'[s].user
        BY <1>7, <2>2, <3>1 DEF Created
      <4>3. \A q \in Slots : ~(V!At(q, "save") /\ work[q].s = s)'
        BY <1>3, <1>4 DEF VoiceBilling
      <4> QED BY <3>1, <4>1, <4>2, <4>3
    <3>2. CASE t # s
      <4>1. call[t].alone /\ (Due(t) => call[t].user # u) /\ call'[t].user = call[t].user
        BY <2>2, <3>2 DEF Created
      <4>2. ASSUME Due(t)'
            PROVE  /\ cash'[call'[t].user] >= Cap(t)'
                   /\ \A o \in Calls \ {t} : Due(o)' => call'[o].user # call'[t].user
        <5>1. Due(t) /\ call[t].user # u
          BY <1>7, <3>2, <4>1, <4>2
        <5>2. cash[call[t].user] >= Cap(t)
                /\ \A o \in Calls \ {t} : Due(o) => call[o].user # call[t].user
          BY <2>1, <4>1, <5>1 DEF Afforded
        <5>3. \A o \in Calls \ {t} : Due(o)' => call'[o].user # call'[t].user
          BY <1>7, <4>1, <5>1, <5>2 DEF Created
        <5> QED BY <1>2, <3>2, <4>1, <5>2, <5>3 DEF Created
      <4>3. \A q \in Slots : (V!At(q, "save") /\ work[q].s = t)' => work'[q].paid
        BY <1>3, <2>1, <4>1 DEF Afforded
      <4> QED BY <4>2, <4>3
    <3> QED BY <3>1, <3>2
  <2>3. ASSUME NEW t \in Calls, call'[t].alone, call'[t].status = "ended", ~Due(t)'
        PROVE  call'[t].paid \/ \E q \in Slots : (V!At(q, "save") /\ work[q].s = t)'
    <3>1. t # s
      BY <1>7, <2>3
    <3>2. call[t].alone /\ call[t].status = "ended" /\ ~Due(t) /\ call'[t].paid = call[t].paid
      BY <1>7, <2>3, <3>1 DEF Created
    <3>3. call[t].paid \/ \E q \in Slots : V!At(q, "save") /\ work[q].s = t
      BY <2>1, <3>2 DEF Afforded
    <3> QED BY <1>3, <3>2, <3>3
  <2>4. ASSUME NEW q \in Slots, (V!At(q, "create") /\ work[q].alone)'
        PROVE  (cash[work[q].u] >= work[q].balance
                 /\ \A t \in Calls : Due(t) => call[t].user # work[q].u)'
    <3>1. /\ q # r /\ work[q].pc = "create" /\ work[q].alone /\ work[q].u # u
          /\ work'[q].u = work[q].u /\ work'[q].balance = work[q].balance
      BY <2>4 DEF V!At, Created
    <3>2. cash[work[q].u] >= work[q].balance /\ \A t \in Calls : Due(t) => call[t].user # work[q].u
      BY <2>1, <3>1 DEF Afforded, V!At
    <3>3. \A t \in Calls : Due(t)' => call'[t].user # work'[q].u
      BY <1>7, <3>1, <3>2 DEF Created
    <3> QED BY <3>1, <3>2, <3>3 DEF Created
  <2> QED BY <2>2, <2>3, <2>4, Zenon DEF Afforded
<1> QED BY <1>1, <1>6, <1>8 DEF VInv

\* The call is saved, if the wallet has five minutes.
LEMMA CreateStep ==
  ASSUME VoiceBounds, VInv, NEW r \in Slots, V!Create(r)
  PROVE  VInv'
<1> DEFINE w == work[r]
<1>1. /\ V!At(r, "create") /\ w \in Creating /\ call \in [Calls -> Docs]
          /\ work \in [Slots -> Works]
      /\ cash \in [Users -> Nat] /\ Rate \in Nat /\ FreeTime \in Nat
  BY VoiceKinds DEF VInv, Types, V!Create, VoiceBounds
<1>2. w.pc = "create" /\ w.u \in Users /\ w.balance \in Nat /\ w.free \in BOOLEAN
        /\ w.alone \in BOOLEAN
      /\ cash[w.u] \in Nat
  BY <1>1 DEF Creating
<1>3. UNCHANGED <<ticker, talk, said, cash, taken>>
  BY DEF V!Create, V!Media, V!Money
<1>4. CASE ~w.free /\ cash[w.u] < 5 * Rate
  <2>1. V!Finish(r) /\ UNCHANGED call
    BY <1>4, Zenon DEF V!Create
  <2>2. /\ work' \in [Slots -> Works] /\ work'[r].pc = "idle"
        /\ \A q \in Slots \ {r} : work'[q] = work[q]
    BY <2>1, Finishes DEF VInv
  <2>3. Types'
    BY <1>3, <2>1, <2>2 DEF VInv, Types
  <2>4. \A s \in Calls, q \in Slots :
          /\ Cap(s)' = Cap(s)
          /\ VoiceBilling(q, s)' <=> VoiceBilling(q, s)
          /\ (V!At(q, "bill") /\ work[q].s = s)' <=> V!At(q, "bill") /\ work[q].s = s
          /\ (V!At(q, "save") /\ work[q].s = s)' <=> V!At(q, "save") /\ work[q].s = s
          /\ V!At(q, "save") => work'[q] = work[q]
    BY <1>2, <2>1, <2>2 DEF Cap, VoiceBilling, V!At
  <2>5. BilledOnce'
    BY <1>3, <2>1, <2>4 DEF VInv, BilledOnce
  <2>6. \A s \in Calls : Due(s)' <=> Due(s)
    BY <2>1, <2>4 DEF Due, V!Active
  <2>7. \A q \in Slots : V!At(q, "create")' => V!At(q, "create") /\ work'[q] = work[q]
    BY <2>2 DEF V!At
  <2>8. Afforded'
    <3>1. Afforded
      BY DEF VInv
    <3>2. \A s \in Calls : call[s].alone =>
         /\ Due(s)' => /\ cash[call[s].user] >= Cap(s)'
                       /\ \A t \in Calls \ {s} : Due(t)' => call[t].user # call[s].user
         /\ call[s].status = "ended"
              /\ ~Due(s)' => call[s].paid \/ \E q \in Slots : (V!At(q, "save") /\ work[q].s = s)'
         /\ \A q \in Slots : (V!At(q, "save") /\ work[q].s = s)' => work'[q].paid
      BY <2>4, <2>6, <3>1 DEF Afforded
    <3>3. ASSUME NEW q \in Slots, (V!At(q, "create") /\ work[q].alone)'
          PROVE  (cash[work[q].u] >= work[q].balance
                   /\ \A t \in Calls : Due(t) => call[t].user # work[q].u)'
      BY <1>3, <2>1, <2>6, <2>7, <3>1, <3>3 DEF Afforded
    <3> QED BY <1>3, <2>1, <3>2, <3>3, Zenon DEF Afforded
  <2> QED BY <2>3, <2>5, <2>8 DEF VInv
<1>5. CASE ~(~w.free /\ cash[w.u] < 5 * Rate)
  <2> DEFINE others == {t \in Calls : call[t].user = w.u /\ V!Unsettled(t)}
             c == IF w.free THEN 0 ELSE Rate
             m == IF w.free THEN FreeTime ELSE V!Longest(w.balance)
             b == w.alone /\ others = {}
  <2>1. PICK s \in Calls :
          /\ call[s] = V!NoCall
          /\ call' = [t \in Calls |->
               IF t = s THEN [V!NoCall EXCEPT !.user = w.u, !.status = "active", !.rate = c,
                   !.max = m,
                                            !.alone = b]
               ELSE IF t \in others THEN [call[t] EXCEPT !.alone = FALSE] ELSE call[t]]
          /\ work' = [q \in Slots |-> IF q = r THEN [pc |-> "configure", s |-> s]
                                      ELSE IF V!At(q, "create") /\ work[q].u = w.u
                                      THEN [work[q] EXCEPT !.alone = FALSE] ELSE work[q]]
    BY <1>5, Zenon DEF V!Create
  <2>2. V!NoCall \in Docs /\ V!NoCall.bill = 0 /\ V!NoCall.status = "none"
    BY <1>1, <2>1 DEF V!NoCall
  <2>3. c \in {0, Rate} /\ m \in Nat /\ b \in BOOLEAN
        /\ (b => \A t \in Calls : Due(t) => call[t].user # w.u)
        /\ (~w.free => cash[w.u] >= 5 * Rate)
    <3>1. V!Longest(w.balance) \in Nat
      <4>1. w.balance \div Rate \in Nat
        BY <1>2, WholeMinutes DEF VoiceBounds
      <4> QED BY <4>1 DEF V!Longest
    <3>2. b => \A t \in Calls : Due(t) => call[t].user # w.u
      BY DueIsUnsettled
    <3> QED BY <1>1, <1>2, <1>5, <3>1, <3>2
  <2>4. /\ call'[s] \in Docs /\ call'[s].user = w.u /\ call'[s].status = "active"
        /\ call'[s].rate = c /\ call'[s].max = m /\ call'[s].alone = b /\ call'[s].bill = 0
    <3> HIDE DEF w, c, m, b, others
    <3>1. call'[s] = [V!NoCall EXCEPT !.user = w.u, !.status = "active", !.rate = c, !.max = m,
            !.alone = b]
      BY <2>1, Zenon
    <3> QED
      <4>1. LET e == [V!NoCall EXCEPT !.user = w.u, !.status = "active", !.rate = c, !.max = m,
              !.alone = b] IN
              /\ e \in Docs /\ e.user = w.u /\ e.status = "active" /\ e.rate = c /\ e.max = m
              /\ e.alone = b /\ e.bill = V!NoCall.bill
        BY <1>2, <2>2, <2>3, Zenon DEF Docs
      <4> QED BY <2>2, <3>1, <4>1, Zenon
  <2>5. call'[s].alone => cash[w.u] >= Cap(s)'
    <3>1. CASE w.free
      <4>1. V!Max({1, V!Minutes(m)}) * 0 = 0
        <5>1. V!Minutes(m) \in Nat /\ V!Max({1, V!Minutes(m)}) \in Nat
          <6>1. V!Minutes(m) \in Nat
            <7> HIDE DEF m
            <7> QED BY <2>3, MinutesGrow
          <6> QED BY <6>1, MaxOfTwo
        <5> QED BY <5>1
      <4>2. Cap(s)' = 0
        BY <2>4, <3>1, <4>1 DEF Cap
      <4> QED BY <1>2, <4>2
    <3>2. CASE ~w.free
      <4>1. m = V!Longest(w.balance) /\ c = Rate
        BY <3>2
      <4>2. w.alone => cash[w.u] >= w.balance
        BY <1>1 DEF VInv, Afforded
      <4>3. w.alone => V!Max({1, V!Minutes(V!Longest(w.balance))}) * Rate <= cash[w.u]
        BY <1>1, <1>2, <2>3, <3>2, <4>2, PriceFits
      <4>4. Cap(s)' = V!Max({1, V!Minutes(V!Longest(w.balance))}) * Rate
        BY <2>4, <4>1 DEF Cap
      <4> QED BY <1>2, <2>4, <4>3, <4>4
    <3> QED BY <3>1, <3>2
  <2>6. \A t \in Calls \ {s} :
       /\ call'[t] \in Docs /\ call'[t].status = call[t].status /\ call'[t].user = call[t].user
       /\ call'[t].rate = call[t].rate /\ call'[t].max = call[t].max
       /\ call'[t].bill = call[t].bill /\ call'[t].paid = call[t].paid
       /\ call'[t].alone => call[t].alone /\ (Due(t) => call[t].user # w.u)
    <3>1. ASSUME NEW t \in Calls, t # s
          PROVE  /\ call'[t] \in Docs /\ call'[t].status = call[t].status
                      /\ call'[t].user = call[t].user
                 /\ call'[t].rate = call[t].rate /\ call'[t].max = call[t].max
                 /\ call'[t].bill = call[t].bill /\ call'[t].paid = call[t].paid
                 /\ call'[t].alone => call[t].alone /\ (Due(t) => call[t].user # w.u)
      <4>1. call[t] \in Docs
        BY <1>1
      <4>2. CASE t \in others
        <5>1. call'[t] = [call[t] EXCEPT !.alone = FALSE]
          <6> HIDE DEF w, c, m, b, others
          <6> QED BY <2>1, <3>1, <4>2, Zenon
        <5> QED BY <4>1, <5>1, NotAlone, Zenon
      <4>3. CASE t \notin others
        <5>1. call'[t] = call[t]
          <6> HIDE DEF w, c, m, b, others
          <6> QED BY <2>1, <3>1, <4>3, Zenon
        <5>2. Due(t) => call[t].user # w.u
          BY <4>3, DueIsUnsettled
        <5> QED BY <4>1, <5>1, <5>2, Zenon
      <4> QED BY <4>2, <4>3
    <3> QED BY <3>1
  <2>7. work'[r] \in Works /\ work'[r].pc = "configure"
    <3>1. work'[r] = [pc |-> "configure", s |-> s]
      <4> HIDE DEF w
      <4> QED BY <2>1, Zenon
    <3> QED BY <3>1 DEF Works, Configuring
  <2>8. \A q \in Slots \ {r} :
       /\ work'[q] \in Works /\ work'[q].pc = work[q].pc
       /\ work[q].pc # "create" => work'[q] = work[q]
       /\ work[q].pc = "create" => /\ work'[q].u = work[q].u /\ work'[q].balance = work[q].balance
                                   /\ work'[q].alone => work[q].alone /\ work[q].u # w.u
    <3>1. ASSUME NEW q \in Slots, q # r
          PROVE  /\ work'[q] \in Works /\ work'[q].pc = work[q].pc
                 /\ work[q].pc # "create" => work'[q] = work[q]
                 /\ work[q].pc = "create" => /\ work'[q].u = work[q].u
                                                 /\ work'[q].balance = work[q].balance
                                             /\ work'[q].alone => work[q].alone /\ work[q].u # w.u
      <4>1. work[q] \in Works /\ (V!At(q, "create") => work[q] \in Creating)
        BY <1>1, VoiceKinds DEF VInv
      <4>2. CASE V!At(q, "create") /\ work[q].u = w.u
        <5>1. work'[q] = [work[q] EXCEPT !.alone = FALSE]
          <6> HIDE DEF w, c, m, b, others
          <6> QED BY <2>1, <3>1, <4>2, Zenon
        <5>2. work'[q] \in Creating /\ ~work'[q].alone /\ work'[q].pc = work[q].pc
              /\ work'[q].u = work[q].u /\ work'[q].balance = work[q].balance
          BY <4>1, <4>2, <5>1, StartsNotAlone, Zenon
        <5> QED BY <4>2, <5>2, Zenon DEF Works, V!At
      <4>3. CASE ~(V!At(q, "create") /\ work[q].u = w.u)
        <5>1. work'[q] = work[q]
          <6> HIDE DEF w, c, m, b, others
          <6> QED BY <2>1, <3>1, <4>3, Zenon
        <5> QED BY <4>1, <4>3, <5>1, Zenon DEF V!At
      <4> QED BY <4>2, <4>3
    <3> QED BY <3>1
  <2>9. /\ DOMAIN call' = Calls /\ call' = [t \in Calls |-> call'[t]]
        /\ DOMAIN work' = Slots /\ work' = [q \in Slots |-> work'[q]]
    <3> HIDE DEF w, c, m, b, others
    <3> QED BY <2>1, Zenon
  <2>10. Created(r, s, w.u)
    <3>1. call[s].status = "none" /\ call[s].bill = 0
      BY <2>1, <2>2
    <3>2. call'[s].alone => \A t \in Calls \ {s} : Due(t) => call[t].user # w.u
      BY <2>3, <2>4
    <3> HIDE DEF w, c, m, b, others
    <3> QED BY <1>2, <1>3, <2>4, <2>5, <2>6, <2>7, <2>8, <2>9, <3>1, <3>2, Zenon DEF Created, w
  <2> HIDE DEF w
  <2> QED BY <1>2, <2>10, CreatedKeeps
<1> QED BY <1>4, <1>5

----------------
\* The payment is taken by the one that ended the call; who was alone has the money.
LEMMA BillStep ==
  ASSUME VoiceBounds, VInv, Aging, NEW r \in Slots, NEW s \in Calls, s = work[r].s, V!Bill(r)
  PROVE  VInv'
<1> DEFINE u == call[s].user
           d == V!Billed(s, V!LengthOf(r))
           bill == V!Minutes(d) * call[s].rate
           pays == bill > 0 /\ cash[u] >= bill
           p == pays \/ call[s].rate = 0
<1>1. /\ V!At(r, "bill") /\ UNCHANGED <<call, ticker, talk, said>>
      /\ cash' = [cash EXCEPT ![u] = IF pays THEN @ - bill ELSE @]
      /\ taken' = [taken EXCEPT ![s] = IF pays THEN @ + 1 ELSE @]
      /\ work' = [work EXCEPT ![r] = [work[r] EXCEPT !.pc = "save", !.length = d, !.bill = bill,
           !.paid = p]]
  BY Zenon DEF V!Bill, V!Turn, V!Media
<1>2. /\ work[r] \in Closings /\ work[r].pc = "bill" /\ V!LengthOf(r) \in Nat
      /\ work \in [Slots -> Works] /\ call \in [Calls -> Docs]
      /\ cash \in [Users -> Nat] /\ taken \in [Calls -> Nat]
  BY <1>1, VoiceKinds DEF VInv, Types, Closings, V!At, V!LengthOf, Aging
<1>3. d \in Nat /\ bill \in Nat /\ bill <= Cap(s) /\ (call[s].rate # 0 => bill > 0)
        /\ call[s].rate \in Nat
  <2>1. call[s].rate \in Nat
    BY <1>2 DEF Docs, VoiceBounds
  <2> QED BY <1>2, <2>1, BillWithin DEF VInv
<1>4. VoiceBilling(r, s) /\ call[s].status = "ended" /\ taken[s] = 0
        /\ \A q \in Slots : VoiceBilling(q, s) => q = r
  BY <1>1 DEF VInv, BilledOnce, VoiceBilling
<1>5. u \in Users
  BY <1>4 DEF VInv, Types
<1>6. Cap(s) \in Nat
  BY <1>2, CapNat DEF Cap
<1> HIDE DEF u, d, bill
<1>7. /\ cash' \in [Users -> Nat] /\ \A v \in Users \ {u} : cash'[v] = cash[v]
      /\ taken' \in [Calls -> Nat] /\ taken'[s] <= 1 /\ \A t \in Calls \ {s} : taken'[t] = taken[t]
  BY <1>1, <1>2, <1>3, <1>4, <1>5
<1>8. p \in BOOLEAN
  BY <1>2, <1>3, <1>5
<1>9. call[s].alone => p
  <2>1. Due(s)
    BY <1>1 DEF Due
  <2>2. call[s].alone => cash[u] >= Cap(s)
    BY <2>1 DEF VInv, Afforded, u
  <2> QED BY <1>2, <1>3, <1>5, <1>6, <2>2
<1> HIDE DEF p, pays
<1>10. /\ work' \in [Slots -> Works] /\ \A q \in Slots \ {r} : work'[q] = work[q]
       /\ work'[r].pc = "save" /\ work'[r].s = s /\ work'[r].bill = bill /\ work'[r].paid = p
  <2> DEFINE v == [work[r] EXCEPT !.pc = "save", !.length = d, !.bill = bill, !.paid = p]
  <2>1. work' = [work EXCEPT ![r] = v]
    BY <1>1, Zenon
  <2>2. v \in Closings /\ v.pc = "save" /\ v.s = s /\ v.bill = bill /\ v.paid = p
    BY <1>2, <1>3, <1>8, Zenon DEF Closings
  <2> HIDE DEF v
  <2> QED BY <1>2, <2>1, <2>2 DEF Works
<1>11. Types'
  BY <1>1, <1>7, <1>10 DEF VInv, Types
<1>12. \A t \in Calls : Cap(t)' = Cap(t)
  BY <1>1 DEF Cap
<1>13. \A t \in Calls, q \in Slots : VoiceBilling(q, t)' <=> VoiceBilling(q, t)
  BY <1>1, <1>2, <1>10 DEF VoiceBilling, V!At
<1>14. \A q \in Slots : work'[q].pc = "bill" => q # r /\ work'[q] = work[q]
  BY <1>10
<1>15. BilledOnce'
  <2>1. ASSUME NEW t \in Calls, NEW q \in Slots
        PROVE  /\ VoiceBilling(q, t)' => call'[t].status = "ended"
               /\ (V!At(q, "bill") /\ work[q].s = t)' => taken'[t] = 0
               /\ (V!At(q, "save") /\ work[q].s = t)' => work'[q].bill <= Cap(t)'
    <3>1. /\ VoiceBilling(q, t) => call[t].status = "ended"
          /\ V!At(q, "bill") /\ work[q].s = t => taken[t] = 0
          /\ V!At(q, "save") /\ work[q].s = t => work[q].bill <= Cap(t)
      BY DEF VInv, BilledOnce
    <3>2. CASE q = r
      BY <1>1, <1>3, <1>4, <1>10, <1>12, <3>2 DEF V!At, VoiceBilling
    <3>3. CASE q # r
      <4>1. work'[q] = work[q] /\ (V!At(q, "bill") /\ work[q].s = t => t # s)
        BY <1>4, <1>10, <3>3 DEF VoiceBilling
      <4> QED BY <1>1, <1>7, <1>12, <1>13, <3>1, <4>1 DEF V!At
    <3> QED BY <3>2, <3>3
  <2>2. \A t \in Calls, q \in Slots : \A o \in Slots : VoiceBilling(o, t)'
          /\ VoiceBilling(q, t)' => o = q
    BY <1>13 DEF VInv, BilledOnce
  <2>3. ASSUME NEW t \in Calls
        PROVE  /\ call'[t].status # "ended" => taken'[t] = 0
               /\ taken'[t] <= 1 /\ call'[t].bill <= Cap(t)'
    <3>1. /\ call[t].status # "ended" => taken[t] = 0
          /\ taken[t] <= 1 /\ call[t].bill <= Cap(t)
      BY DEF VInv, BilledOnce
    <3> QED BY <1>1, <1>4, <1>7, <1>12, <3>1
  <2> QED BY <2>1, <2>2, <2>3, Zenon DEF BilledOnce
<1>16. (\A t \in Calls \ {s} : Due(t)' <=> Due(t)) /\ Due(s)
  <2>1. Due(s)
    BY <1>1 DEF Due
  <2>2. \A t \in Calls \ {s} : Due(t)' <=> Due(t)
    BY <1>1, <1>2, <1>10, <1>14 DEF Due, V!Active, V!At
  <2> QED BY <2>1, <2>2
<1>17. \A t \in Calls : Due(t)' => Due(t)
  BY <1>16
<1>18. Afforded'
  <2>1. Afforded
    BY DEF VInv
  <2>2. ASSUME NEW t \in Calls, call'[t].alone
        PROVE  /\ Due(t)' => /\ cash'[call'[t].user] >= Cap(t)'
                             /\ \A o \in Calls \ {t} : Due(o)' => call'[o].user # call'[t].user
               /\ \A q \in Slots : (V!At(q, "save") /\ work[q].s = t)' => work'[q].paid
    <3>1. call[t].alone
      BY <1>1, <2>2
    <3>2. ASSUME Due(t)'
          PROVE  /\ cash'[call'[t].user] >= Cap(t)'
                 /\ \A o \in Calls \ {t} : Due(o)' => call'[o].user # call'[t].user
      <4>1. t # s
        BY <1>1, <1>2, <1>4, <1>10, <1>14, <3>2 DEF Due, V!Active, V!At, VoiceBilling
      <4>2. Due(t)
        BY <1>17, <3>2
      <4>3. cash[call[t].user] >= Cap(t)
              /\ \A o \in Calls \ {t} : Due(o) => call[o].user # call[t].user
        BY <2>1, <3>1, <4>2 DEF Afforded
      <4>4. call[t].user # u
        BY <1>16, <4>1, <4>3 DEF u
      <4>5. call[t].user \in Users
        BY <4>2 DEF Due, V!Active, VInv, Types, BilledOnce, VoiceBilling
      <4> QED BY <1>1, <1>7, <1>12, <1>17, <4>3, <4>4, <4>5
    <3>3. \A q \in Slots : (V!At(q, "save") /\ work[q].s = t)' => work'[q].paid
      <4>1. \A q \in Slots : V!At(q, "save") /\ work[q].s = t => work[q].paid
        BY <2>1, <3>1 DEF Afforded
      <4> QED BY <1>9, <1>10, <3>1, <4>1 DEF V!At
    <3> QED BY <3>2, <3>3
  <2>3. ASSUME NEW t \in Calls, call'[t].alone, call'[t].status = "ended", ~Due(t)'
        PROVE  call'[t].paid \/ \E q \in Slots : (V!At(q, "save") /\ work[q].s = t)'
    <3>1. CASE t = s
      BY <1>10, <3>1 DEF V!At
    <3>2. CASE t # s
      <4>1. call[t].alone /\ call[t].status = "ended" /\ ~Due(t)
        BY <1>1, <1>16, <2>3, <3>2
      <4>2. call[t].paid \/ \E q \in Slots : V!At(q, "save") /\ work[q].s = t
        BY <2>1, <4>1 DEF Afforded
      <4>3. \A q \in Slots : V!At(q, "save") => q # r /\ work'[q] = work[q]
        BY <1>2, <1>10 DEF V!At
      <4> QED BY <1>1, <4>2, <4>3 DEF V!At
    <3> QED BY <3>1, <3>2
  <2>4. ASSUME NEW q \in Slots, (V!At(q, "create") /\ work[q].alone)'
        PROVE  (cash[work[q].u] >= work[q].balance
                 /\ \A t \in Calls : Due(t) => call[t].user # work[q].u)'
    <3>1. q # r /\ V!At(q, "create") /\ work[q].alone /\ work'[q] = work[q]
      BY <1>10, <2>4 DEF V!At
    <3>2. cash[work[q].u] >= work[q].balance /\ \A t \in Calls : Due(t) => call[t].user # work[q].u
      BY <2>1, <3>1 DEF Afforded
    <3>3. work[q].u # u
      BY <1>16, <3>2 DEF u
    <3>4. work[q].u \in Users
      BY <3>1, VoiceKinds DEF VInv, Creating
    <3> QED BY <1>1, <1>7, <1>17, <3>1, <3>2, <3>3, <3>4
  <2> QED BY <2>2, <2>3, <2>4, Zenon DEF Afforded
<1> QED BY <1>11, <1>15, <1>18 DEF VInv

\* What was billed is saved.
LEMMA SaveEndStep ==
  ASSUME VoiceBounds, VInv, NEW r \in Slots, NEW s \in Calls, s = work[r].s, V!SaveEnd(r)
  PROVE  VInv'
<1> DEFINE w == work[r]
           x == call[s].text \/ w.text
           y == call[s].recorded \/ w.recorded
           e == [call[s] EXCEPT !.duration = w.length, !.bill = w.bill, !.paid = w.paid,
                                !.text = x, !.recorded = y]
<1>1. /\ V!At(r, "save") /\ V!Finish(r) /\ UNCHANGED <<cash, taken, ticker, talk, said>>
      /\ call' = [call EXCEPT ![s].duration = w.length, ![s].bill = w.bill, ![s].paid = w.paid,
                              ![s].text = x, ![s].recorded = y]
  BY Zenon DEF V!SaveEnd, V!Media, V!Money
<1>2. /\ w \in Closings /\ w.pc = "save" /\ call[s] \in Docs
      /\ work \in [Slots -> Works] /\ call \in [Calls -> Docs]
  BY <1>1, VoiceKinds DEF VInv, Types, Closings, V!At
<1>3. w.length \in Nat /\ w.bill \in Nat /\ w.paid \in BOOLEAN /\ x \in BOOLEAN /\ y \in BOOLEAN
  BY <1>2 DEF Closings
<1>4. call' = [call EXCEPT ![s] = e]
  BY <1>1, Zenon
<1>5. /\ e \in Docs /\ e.status = call[s].status /\ e.user = call[s].user /\ e.rate = call[s].rate
      /\ e.max = call[s].max /\ e.bill = w.bill /\ e.paid = w.paid /\ e.alone = call[s].alone
  <2> HIDE DEF w, x, y
  <2> QED BY <1>2, <1>3, Zenon DEF Docs
<1> HIDE DEF e, x, y
<1>6. /\ call' \in [Calls -> Docs] /\ call'[s] = e /\ \A t \in Calls \ {s} : call'[t] = call[t]
  BY <1>2, <1>4, <1>5
<1>7. /\ work' \in [Slots -> Works] /\ work'[r].pc = "idle"
      /\ \A q \in Slots \ {r} : work'[q] = work[q]
  BY <1>1, Finishes DEF VInv
<1>8. Types'
  BY <1>1, <1>5, <1>6, <1>7 DEF VInv, Types
<1>9. VoiceBilling(r, s) /\ call[s].status = "ended"
        /\ (\A q \in Slots : VoiceBilling(q, s) => q = r) /\ w.bill <= Cap(s)
      /\ (call[s].alone => w.paid)
  BY <1>1 DEF VInv, BilledOnce, Afforded, VoiceBilling
<1>10. \A t \in Calls : Cap(t)' = Cap(t)
  BY <1>5, <1>6 DEF Cap
<1>11. \A q \in Slots : work'[q].pc # "idle" => q # r /\ work'[q] = work[q]
  BY <1>7
<1>12. \A t \in Calls, q \in Slots : VoiceBilling(q, t)' => VoiceBilling(q, t) /\ t # s /\ q # r
        /\ work'[q] = work[q]
  BY <1>9, <1>11 DEF VoiceBilling, V!At
<1>13. BilledOnce'
  <2>1. ASSUME NEW t \in Calls, NEW q \in Slots
        PROVE  /\ VoiceBilling(q, t)' => call'[t].status = "ended"
               /\ (V!At(q, "bill") /\ work[q].s = t)' => taken'[t] = 0
               /\ (V!At(q, "save") /\ work[q].s = t)' => work'[q].bill <= Cap(t)'
    <3>1. /\ VoiceBilling(q, t) => call[t].status = "ended"
          /\ V!At(q, "bill") /\ work[q].s = t => taken[t] = 0
          /\ V!At(q, "save") /\ work[q].s = t => work[q].bill <= Cap(t)
      BY DEF VInv, BilledOnce
    <3>2. VoiceBilling(q, t)' <=> (V!At(q, "bill") /\ work[q].s = t)' \/ (V!At(q, "save")
            /\ work[q].s = t)'
      BY DEF VoiceBilling
    <3>3. VoiceBilling(q, t)' => VoiceBilling(q, t) /\ t # s /\ work'[q] = work[q]
            /\ call'[t] = call[t]
      BY <1>6, <1>12
    <3>4. taken'[t] = taken[t] /\ Cap(t)' = Cap(t)
      BY <1>1, <1>10
    <3>5. V!At(q, "bill")' => work'[q].pc = "bill"
      BY DEF V!At
    <3>6. V!At(q, "save")' => work'[q].pc = "save"
      BY DEF V!At
    <3>7. (V!At(q, "bill") /\ work[q].s = t)' => taken'[t] = 0
      BY <3>1, <3>2, <3>3, <3>4, <3>5 DEF V!At
    <3>8. (V!At(q, "save") /\ work[q].s = t)' => work'[q].bill <= Cap(t)'
      BY <3>1, <3>2, <3>3, <3>4, <3>6 DEF V!At
    <3> QED BY <3>1, <3>3, <3>7, <3>8
  <2>2. \A t \in Calls, q \in Slots : \A o \in Slots : VoiceBilling(o, t)'
          /\ VoiceBilling(q, t)' => o = q
    BY <1>12 DEF VInv, BilledOnce
  <2>3. ASSUME NEW t \in Calls
        PROVE  /\ call'[t].status # "ended" => taken'[t] = 0
               /\ taken'[t] <= 1 /\ call'[t].bill <= Cap(t)'
    <3>1. /\ call[t].status # "ended" => taken[t] = 0
          /\ taken[t] <= 1 /\ call[t].bill <= Cap(t)
      BY DEF VInv, BilledOnce
    <3>2. taken'[t] = taken[t] /\ Cap(t)' = Cap(t) /\ call'[t].status = call[t].status
      BY <1>1, <1>5, <1>6, <1>10
    <3>3. call'[t].bill <= Cap(t)
      <4>1. t # s => call'[t].bill = call[t].bill
        BY <1>6
      <4>2. t = s => call'[t].bill = w.bill
        BY <1>5, <1>6
      <4> HIDE DEF w
      <4> QED BY <1>9, <3>1, <4>1, <4>2
    <3> QED BY <3>1, <3>2, <3>3
  <2> QED BY <2>1, <2>2, <2>3, Zenon DEF BilledOnce
<1>14. \A t \in Calls : Due(t)' <=> Due(t)
  <2>1. \A q \in Slots, t \in Calls : (V!At(q, "bill") /\ work[q].s = t)' <=> V!At(q, "bill")
          /\ work[q].s = t
    BY <1>2, <1>7 DEF V!At
  <2>2. \A t \in Calls : call'[t].status = call[t].status
    BY <1>5, <1>6
  <2> QED BY <2>1, <2>2 DEF Due, V!Active
<1>15. \A t \in Calls : call'[t].alone = call[t].alone /\ call'[t].user = call[t].user
        /\ call'[t].status = call[t].status
  BY <1>5, <1>6
<1>16. Afforded'
  <2>1. Afforded
    BY DEF VInv
  <2>2. ASSUME NEW t \in Calls, call'[t].alone
        PROVE  /\ Due(t)' => /\ cash'[call'[t].user] >= Cap(t)'
                             /\ \A o \in Calls \ {t} : Due(o)' => call'[o].user # call'[t].user
               /\ \A q \in Slots : (V!At(q, "save") /\ work[q].s = t)' => work'[q].paid
    <3>1. /\ Due(t) => /\ cash[call[t].user] >= Cap(t)
                       /\ \A o \in Calls \ {t} : Due(o) => call[o].user # call[t].user
          /\ \A q \in Slots : V!At(q, "save") /\ work[q].s = t => work[q].paid
      BY <1>15, <2>1, <2>2 DEF Afforded
    <3>2. \A q \in Slots : (V!At(q, "save") /\ work[q].s = t)' => work'[q].paid
      BY <1>11, <3>1 DEF V!At
    <3> QED BY <1>1, <1>10, <1>14, <1>15, <3>1, <3>2
  <2>3. ASSUME NEW t \in Calls, call'[t].alone, call'[t].status = "ended", ~Due(t)'
        PROVE  call'[t].paid \/ \E q \in Slots : (V!At(q, "save") /\ work[q].s = t)'
    <3>1. CASE t = s
      BY <1>5, <1>6, <1>9, <1>15, <2>3, <3>1
    <3>2. CASE t # s
      <4>1. call[t].paid \/ \E q \in Slots : V!At(q, "save") /\ work[q].s = t
        BY <1>14, <1>15, <2>1, <2>3 DEF Afforded
      <4>2. \A q \in Slots : V!At(q, "save") /\ work[q].s = t => q # r
        BY <3>2
      <4> QED BY <1>6, <1>7, <3>2, <4>1, <4>2 DEF V!At
    <3> QED BY <3>1, <3>2
  <2>4. ASSUME NEW q \in Slots, (V!At(q, "create") /\ work[q].alone)'
        PROVE  (cash[work[q].u] >= work[q].balance
                 /\ \A t \in Calls : Due(t) => call[t].user # work[q].u)'
    <3>1. q # r /\ V!At(q, "create") /\ work[q].alone /\ work'[q] = work[q]
      BY <1>11, <2>4 DEF V!At
    <3>2. cash[work[q].u] >= work[q].balance /\ \A t \in Calls : Due(t) => call[t].user # work[q].u
      BY <2>1, <3>1 DEF Afforded
    <3> QED BY <1>1, <1>14, <1>15, <3>1, <3>2
  <2> QED BY <2>2, <2>3, <2>4, Zenon DEF Afforded
<1> QED BY <1>8, <1>13, <1>16 DEF VInv

----------------
LEMMA VoiceInit ==
  ASSUME VoiceBounds, V!Init
  PROVE  VInv
<1>1. /\ \A s \in Calls : call[s] = V!NoCall /\ taken[s] = 0
      /\ \A r \in Slots : work[r] = V!Idle
  BY DEF V!Init, V!NoHandler
<1>2. V!NoCall \in Docs /\ V!NoCall.status = "none" /\ V!NoCall.bill = 0
  BY DEF V!NoCall, Docs, VoiceBounds
<1>3. Types
  BY <1>2 DEF V!Init, V!NoHandler, Types, Works, V!Stopped, V!NoCall, VoiceBounds
<1>4. \A s \in Calls : Cap(s) \in Nat
  BY <1>1, <1>2, CapNat DEF Cap
<1>5. BilledOnce
  BY <1>1, <1>2, <1>4 DEF BilledOnce, VoiceBilling, V!At, V!Idle
<1>6. \A s \in Calls : ~Due(s)
  BY <1>1, <1>2 DEF Due, V!Active, V!At, V!Idle
<1>7. Afforded
  BY <1>1, <1>2, <1>6 DEF Afforded, V!At, V!Idle
<1> QED BY <1>3, <1>5, <1>7 DEF VInv

LEMMA AgingStep ==
  ASSUME VoiceBounds, Aging, [V!Next]_(V!vvars)
  PROVE  Aging'
<1>1. CASE \E n \in Steps : V!Tick(n)
  BY <1>1 DEF V!Tick, Aging, VoiceBounds
<1>2. CASE ~\E n \in Steps : V!Tick(n)
  <2>1. (\E u \in Users : V!Spend(u)) \/ UNCHANGED V!vvars => UNCHANGED age
    BY DEF V!vvars, V!Spend, V!Clock
  <2>2. ASSUME NEW r \in Slots,
               \/ \E u \in Users : V!InitiateAiVoiceCall(r, u)
               \/ V!Create(r) \/ V!Configure(r) \/ V!Lock(r) \/ V!Bill(r) \/ V!SaveEnd(r)
        PROVE  UNCHANGED age
    BY <2>2, Zenon DEF V!InitiateAiVoiceCall, V!Create, V!Configure, V!Lock, V!Bill, V!SaveEnd, V!Clock
  <2>3. ASSUME NEW r \in Slots, NEW s \in Calls,
               \/ V!EndCall(r, s) \/ V!TimeUp(r, s) \/ V!HandleStaleSessions(r, s)
               \/ V!CleanupCalls(r, s) \/ V!EndCallSession(r, s)
               \/ V!GeminiStop(r, s) \/ V!GeminiClosed(r, s) \/ V!HandleVapiWebhook(r, s)
        PROVE  UNCHANGED age
    BY <2>3, Zenon DEF V!EndCall, V!TimeUp, V!HandleStaleSessions, V!CleanupCalls, V!EndCallSession,
      V!GeminiStop, V!GeminiClosed, V!HandleVapiWebhook, V!Clock
  <2>4. ASSUME NEW s \in Calls,
               \/ V!GeminiStart(s) \/ V!Ready(s) \/ V!Speak(s) \/ V!Dial(s) \/ V!HangUp(s)
               \/ V!VapiStart(s) \/ V!VapiEnd(s) \/ V!StatusUpdate(s) \/ V!UserJoinedAgora(s)
        PROVE  UNCHANGED age
    BY <2>4 DEF V!GeminiStart, V!Ready, V!Speak, V!Dial, V!HangUp, V!VapiStart, V!VapiEnd,
      V!StatusUpdate, V!UserJoinedAgora, V!Clock
  <2> QED BY <1>2, <2>1, <2>2, <2>3, <2>4 DEF V!Next, Aging
<1> QED BY <1>1, <1>2

LEMMA VoiceStep ==
  ASSUME VoiceBounds, VInv, Aging, [V!Next]_(V!vvars)
  PROVE  VInv'
<1>1. CASE UNCHANGED V!vvars
  <2>1. UNCHANGED <<call, work, cash, taken, ticker, talk, said>>
    BY <1>1 DEF V!vvars
  <2>2. Types'
    BY <2>1 DEF VInv, Types
  <2> QED BY <2>1, <2>2, Stays DEF SameDeal
<1>2. CASE \E n \in Steps : V!Tick(n)
  BY <1>2, TickStep
<1>3. CASE \E u \in Users : V!Spend(u)
  BY <1>3, SpendStep
<1>4. ASSUME NEW r \in Slots, \E u \in Users : V!InitiateAiVoiceCall(r, u)
      PROVE  VInv'
  BY <1>4, InitiateStep
<1>5. ASSUME NEW r \in Slots, V!Create(r) \/ V!Configure(r) \/ V!Lock(r)
      PROVE  VInv'
  BY <1>5, CreateStep, ConfigureStep, LockStep
<1>6. ASSUME NEW r \in Slots, V!Bill(r) \/ V!SaveEnd(r)
      PROVE  VInv'
  <2>1. work[r].s \in Calls
    BY <1>6, VoiceKinds DEF VInv, V!Bill, V!SaveEnd, Closings
  <2> QED BY <1>6, <2>1, BillStep, SaveEndStep
<1>7. ASSUME NEW r \in Slots, NEW s \in Calls,
             \/ V!EndCall(r, s) \/ V!TimeUp(r, s) \/ V!HandleStaleSessions(r, s)
             \/ V!CleanupCalls(r, s) \/ V!EndCallSession(r, s)
             \/ V!GeminiStop(r, s) \/ V!GeminiClosed(r, s) \/ V!HandleVapiWebhook(r, s)
      PROVE  VInv'
  BY <1>7, VoiceEndingStep, WallEndingStep, WebhookStep DEF WallEnds
<1>8. ASSUME NEW s \in Calls,
             \/ V!GeminiStart(s) \/ V!Ready(s) \/ V!Speak(s)
             \/ V!Dial(s) \/ V!HangUp(s) \/ V!VapiStart(s) \/ V!VapiEnd(s) \/ V!StatusUpdate(s)
             \/ V!UserJoinedAgora(s)
      PROVE  VInv'
  BY <1>8, SocketStep, TimerStep
<1> QED BY <1>1, <1>2, <1>3, <1>4, <1>5, <1>6, <1>7, <1>8 DEF V!Next

LEMMA VoiceInvariant ==
  ASSUME VoiceBounds
  PROVE  V!Spec => []VInv
<1>1. V!Init => VInv /\ Aging
  BY VoiceInit DEF V!Init, Aging
<1>2. VInv /\ Aging /\ [V!Next]_(V!vvars) => VInv' /\ Aging'
  BY VoiceStep, AgingStep
<1> QED BY <1>1, <1>2, PTL DEF V!Spec

\* However many ends and reports a call gets, it is paid for once.
THEOREM VoicePaidOnce ==
  ASSUME VoiceBounds
  PROVE  V!Spec => []V!PaidOnce
<1>1. VInv => V!PaidOnce
  BY DEF VInv, BilledOnce, V!PaidOnce, Cap
<1> QED BY <1>1, VoiceInvariant, PTL

\* A call that was its user's only one, and the only thing he bought, is paid.
THEOREM VoiceAffordable ==
  ASSUME VoiceBounds
  PROVE  V!Spec => []V!AffordableIsPaid
<1>1. VInv => V!AffordableIsPaid
  BY DEF VInv, Afforded, V!AffordableIsPaid, V!Closing, Due, V!Active
<1> QED BY <1>1, VoiceInvariant, PTL

----------------
(* What Vapi does after vapi_end is billed by no report and no end of the  *)
(* gateway: from then on no timer runs for the call and the document holds *)
(* its length, so that who brings a length has that one at most.           *)
VoiceIsGemini ==
  \A s \in Calls : voice[s] # "none" => call[s].provider = "gemini"
ConfiguredOnce ==
  \A r \in Slots : V!At(r, "configure") =>
    /\ call[work[r].s].provider = "none" /\ call[work[r].s].status # "none"
    /\ \A q \in Slots : V!At(q, "configure") /\ work[q].s = work[r].s => q = r
OpenIsUnbilled == \A s \in Calls : call[s].status # "ended" => call[s].bill = 0
Signalled(s) == V!Minutes(signal[s]) * call[s].rate
\* What a handler that ends s has in hand.
WithinSignal(r, s) ==
  /\ V!At(r, "lock") /\ V!Active(s) => work[r].length <= signal[s]
  /\ V!At(r, "bill") => work[r].wall = FALSE /\ work[r].length <= signal[s]
  /\ V!At(r, "save") => work[r].bill <= Signalled(s)
GhostKept(s) ==
  /\ call[s].provider = "vapi" /\ ticker[s] = V!Stopped
  /\ V!Active(s) => call[s].duration = signal[s]
  /\ call[s].bill <= Signalled(s)
  /\ \A r \in Slots : (V!At(r, "lock") \/ V!At(r, "bill") \/ V!At(r, "save")) /\ work[r].s = s
       => WithinSignal(r, s)
Voices == {"none", "opening", "ready", "closing"}
GhostBilled ==
  /\ signal \in [Calls -> Nat] /\ voice \in [Calls -> Voices]
  /\ VoiceIsGemini /\ ConfiguredOnce /\ OpenIsUnbilled
  /\ \A s \in Calls : signal[s] > 0 => GhostKept(s)
GhostInv == VInv /\ GhostBilled

SameBill(d, e) ==
  /\ d.provider = e.provider /\ d.status = e.status /\ d.rate = e.rate /\ d.bill = e.bill
\* A handler that is new at "lock" has no more than the signal says.
Locks(h) ==
  /\ h.pc = "lock"
  /\ h.s \in Calls => (signal[h.s] > 0 /\ V!Active(h.s) => h.length <= signal[h.s])

\* Whoever leaves bills, providers and handlers under way as they are, starts
\* no timer after a signal and no voice with Vapi, disturbs nothing.
LEMMA GhostStays ==
  ASSUME GhostInv, VInv',
         \A s \in Calls : /\ SameBill(call'[s], call[s])
                          /\ V!Active(s) => call'[s].duration = call[s].duration,
         signal' \in [Calls -> Nat], voice' \in [Calls -> Voices],
         \A s \in Calls : signal'[s] = signal[s] \/ signal'[s] = 0,
         \A s \in Calls : signal'[s] > 0 => ticker'[s] = V!Stopped,
         \A s \in Calls : voice'[s] # "none" => voice[s] # "none" \/ call[s].provider = "gemini",
         \A r \in Slots : \/ work'[r] = work[r] \/ Locks(work'[r])
                          \/ work'[r].pc \in {"idle", "create"}
  PROVE  GhostInv'
<1>1. VoiceIsGemini'
  BY DEF GhostInv, GhostBilled, VoiceIsGemini, SameBill
<1>2. ConfiguredOnce'
  <2>1. \A r \in Slots : V!At(r, "configure")' => V!At(r, "configure") /\ work'[r] = work[r]
    BY DEF Locks, V!At
  <2>2. \A r \in Slots : V!At(r, "configure") => work[r].s \in Calls
    BY VoiceKinds DEF GhostInv, VInv, Configuring
  <2> QED BY <2>1, <2>2 DEF GhostInv, GhostBilled, ConfiguredOnce, SameBill
<1>3. OpenIsUnbilled'
  BY DEF GhostInv, GhostBilled, OpenIsUnbilled, SameBill
<1>4. ASSUME NEW s \in Calls, signal'[s] > 0
      PROVE  GhostKept(s)'
  <2>1. signal'[s] = signal[s] /\ GhostKept(s) /\ ticker'[s] = V!Stopped
    BY <1>4 DEF GhostInv, GhostBilled
  <2>2. Signalled(s)' = Signalled(s)
    BY <2>1 DEF Signalled, SameBill
  <2>3. (V!Active(s)' <=> V!Active(s)) /\ call'[s].provider = "vapi" /\ call'[s].bill <= Signalled(s)
    BY <2>1 DEF GhostKept, SameBill, V!Active
  <2>4. ASSUME NEW r \in Slots, (V!At(r, "lock") \/ V!At(r, "bill") \/ V!At(r, "save"))', work'[r].s = s
        PROVE  WithinSignal(r, s)'
    <3>1. CASE work'[r] = work[r]
      <4>1. WithinSignal(r, s)
        BY <2>1, <2>4, <3>1 DEF GhostKept, V!At
      <4> QED BY <2>1, <2>2, <2>3, <3>1, <4>1 DEF WithinSignal, V!At
    <3>2. CASE Locks(work'[r])
      BY <1>4, <2>1, <2>3, <2>4, <3>2 DEF Locks, WithinSignal, V!At
    <3>3. CASE work'[r].pc \in {"idle", "create"}
      BY <2>4, <3>3 DEF V!At
    <3> QED BY <3>1, <3>2, <3>3
  <2>5. V!Active(s)' => call'[s].duration = signal'[s]
    BY <2>1, <2>3 DEF GhostKept
  <2> QED BY <2>1, <2>2, <2>3, <2>4, <2>5 DEF GhostKept
<1> QED BY <1>1, <1>2, <1>3, <1>4 DEF GhostInv, GhostBilled

LEMMA SameBillId ==
  ASSUME NEW d \in Docs, NEW x \in BOOLEAN
  PROVE  /\ SameBill([d EXCEPT !.id = x], d) /\ [d EXCEPT !.id = x].duration = d.duration
         /\ SameBill([d EXCEPT !.alone = x], d) /\ [d EXCEPT !.alone = x].duration = d.duration
BY Zenon DEF SameBill, Docs

LEMMA GhostTick ==
  ASSUME VoiceBounds, GhostInv, VInv', NEW n \in Steps, V!Tick(n)
  PROVE  GhostInv'
<1>1. /\ UNCHANGED <<call, voice, signal, work>>
      /\ \A s \in Calls : ticker[s] = V!Stopped => ticker'[s] = V!Stopped
  BY DEF V!Tick
<1>2. /\ signal' \in [Calls -> Nat] /\ voice' \in [Calls -> Voices]
      /\ \A s \in Calls : signal'[s] > 0 => ticker'[s] = V!Stopped
  BY <1>1 DEF GhostInv, GhostBilled, GhostKept
<1> QED BY <1>1, <1>2, GhostStays DEF SameBill

LEMMA GhostSpend ==
  ASSUME VoiceBounds, GhostInv, VInv', NEW u \in Users, V!Spend(u)
  PROVE  GhostInv'
<1>1. /\ UNCHANGED <<ticker, voice, signal>>
      /\ call' = [s \in Calls |-> IF call[s].user = u /\ V!Unsettled(s)
                                  THEN [call[s] EXCEPT !.alone = FALSE] ELSE call[s]]
      /\ work' = [r \in Slots |-> IF V!At(r, "create") /\ work[r].u = u
                                  THEN [work[r] EXCEPT !.alone = FALSE] ELSE work[r]]
  BY Zenon DEF V!Spend, V!Media
<1>2. ASSUME NEW s \in Calls
      PROVE  SameBill(call'[s], call[s]) /\ call'[s].duration = call[s].duration
  <2>1. call[s] \in Docs
    BY DEF GhostInv, VInv, Types
  <2>2. CASE call[s].user = u /\ V!Unsettled(s)
    <3>1. call'[s] = [call[s] EXCEPT !.alone = FALSE]
      BY <1>1, <2>2, Zenon
    <3> QED BY <2>1, <3>1, SameBillId, Zenon
  <2>3. CASE ~(call[s].user = u /\ V!Unsettled(s))
    <3>1. call'[s] = call[s]
      BY <1>1, <2>3, Zenon
    <3> QED BY <3>1 DEF SameBill
  <2> QED BY <2>2, <2>3
<1>3. ASSUME NEW r \in Slots
      PROVE  work'[r] = work[r] \/ work'[r].pc \in {"idle", "create"}
  <2>1. CASE V!At(r, "create") /\ work[r].u = u
    <3>1. work'[r] = [work[r] EXCEPT !.alone = FALSE] /\ work[r] \in Creating
      BY <1>1, <2>1, VoiceKinds, Zenon DEF GhostInv, VInv
    <3>2. work'[r].pc = work[r].pc
      BY <3>1, StartsNotAlone, Zenon
    <3> QED BY <2>1, <3>2 DEF V!At
  <2>2. CASE ~(V!At(r, "create") /\ work[r].u = u)
    BY <1>1, <2>2, Zenon
  <2> QED BY <2>1, <2>2
<1>4. /\ signal' \in [Calls -> Nat] /\ voice' \in [Calls -> Voices]
      /\ \A s \in Calls : signal'[s] > 0 => ticker'[s] = V!Stopped
  BY <1>1 DEF GhostInv, GhostBilled, GhostKept
<1> QED BY <1>1, <1>2, <1>3, <1>4, GhostStays

LEMMA GhostInitiate ==
  ASSUME VoiceBounds, GhostInv, VInv', NEW r \in Slots, NEW u \in Users, V!InitiateAiVoiceCall(r, u)
  PROVE  GhostInv'
<1>1. UNCHANGED <<call, ticker, voice, signal>>
  BY DEF V!InitiateAiVoiceCall, V!Media
<1>2. \A q \in Slots : work'[q] = work[q] \/ work'[q].pc \in {"idle", "create"}
  BY DEF V!InitiateAiVoiceCall, V!Begin, GhostInv, VInv, Types
<1>3. /\ signal' \in [Calls -> Nat] /\ voice' \in [Calls -> Voices]
      /\ \A s \in Calls : signal'[s] > 0 => ticker'[s] = V!Stopped
  BY <1>1 DEF GhostInv, GhostBilled, GhostKept
<1> QED BY <1>1, <1>2, <1>3, GhostStays DEF SameBill

\* The sockets and the phones; a timer that starts is no call of Vapi's, or
\* its signal is gone.
LEMMA GhostLine ==
  ASSUME VoiceBounds, GhostInv, VInv', NEW s \in Calls,
         V!GeminiStart(s) \/ V!Speak(s) \/ V!Dial(s) \/ V!HangUp(s) \/ V!Ready(s)
  PROVE  GhostInv'
<1>1. UNCHANGED <<call, signal, work>>
  BY DEF V!GeminiStart, V!Speak, V!Dial, V!HangUp, V!Ready
<1>2. \A t \in Calls : voice'[t] # "none" => voice[t] # "none" \/ call[t].provider = "gemini"
  BY DEF V!GeminiStart, V!Speak, V!Dial, V!HangUp, V!Ready, GhostInv, GhostBilled
<1>3. ASSUME NEW t \in Calls, signal'[t] > 0
      PROVE  ticker'[t] = V!Stopped
  <2>1. GhostKept(t)
    BY <1>1, <1>3 DEF GhostInv, GhostBilled
  <2>2. CASE V!Ready(s)
    <3>1. t # s
      BY <2>1, <2>2 DEF V!Ready, GhostKept, GhostInv, GhostBilled, VoiceIsGemini
    <3> QED BY <2>1, <2>2, <3>1 DEF V!Ready, GhostKept, GhostInv, VInv, Types
  <2>3. CASE ~V!Ready(s)
    <3>1. UNCHANGED ticker
      BY <2>3 DEF V!GeminiStart, V!Speak, V!Dial, V!HangUp
    <3> QED BY <2>1, <3>1 DEF GhostKept
  <2> QED BY <2>2, <2>3
<1>4. signal' \in [Calls -> Nat] /\ voice' \in [Calls -> Voices]
  BY <1>1 DEF GhostInv, GhostBilled, Voices, V!GeminiStart, V!Speak, V!Dial, V!HangUp, V!Ready
<1> QED BY <1>1, <1>2, <1>3, <1>4, GhostStays DEF SameBill

LEMMA GhostNamed ==
  ASSUME VoiceBounds, GhostInv, VInv', NEW s \in Calls, V!VapiStart(s) \/ V!StatusUpdate(s) \/ V!UserJoinedAgora(s)
  PROVE  GhostInv'
<1>1. UNCHANGED <<voice, work>>
  BY DEF V!VapiStart, V!StatusUpdate, V!UserJoinedAgora, V!Media
<1>2. call \in [Calls -> Docs] /\ signal \in [Calls -> Nat]
  BY DEF GhostInv, GhostBilled, VInv, Types
<1>3. PICK x \in BOOLEAN : call' = [call EXCEPT ![s].id = x] \/ call' = call
  <2>1. CASE V!VapiStart(s)
    <3>1. PICK known \in BOOLEAN : call' = [call EXCEPT ![s].id = call[s].id \/ known]
      BY <2>1, Zenon DEF V!VapiStart
    <3>2. (call[s].id \/ known) \in BOOLEAN
      OBVIOUS
    <3> QED BY <3>1, <3>2, Zenon
  <2>2. CASE V!StatusUpdate(s)
    BY <2>2, Zenon DEF V!StatusUpdate
  <2>3. CASE V!UserJoinedAgora(s)
    BY <2>3, Zenon DEF V!UserJoinedAgora
  <2> QED BY <2>1, <2>2, <2>3
<1>4. ASSUME NEW t \in Calls
      PROVE  SameBill(call'[t], call[t]) /\ call'[t].duration = call[t].duration
  <2>1. CASE t = s /\ call' # call
    <3>0. call' = [call EXCEPT ![s].id = x]
      BY <1>3, <2>1, Zenon
    <3>1. call'[s] = [call[s] EXCEPT !.id = x] /\ call[s] \in Docs
      BY <1>2, <3>0, Zenon
    <3> QED BY <2>1, <3>1, SameBillId, Zenon
  <2>2. CASE t # s \/ call' = call
    <3>1. call'[t] = call[t]
      BY <1>2, <1>3, <2>2, Zenon
    <3> QED BY <3>1 DEF SameBill
  <2> QED BY <2>1, <2>2
<1>5. /\ signal' \in [Calls -> Nat] /\ voice' \in [Calls -> Voices]
      /\ \A t \in Calls : signal'[t] = signal[t] \/ signal'[t] = 0
  BY <1>1, <1>2 DEF GhostInv, GhostBilled, V!VapiStart, V!StatusUpdate, V!UserJoinedAgora
<1>6. ASSUME NEW t \in Calls, signal'[t] > 0
      PROVE  ticker'[t] = V!Stopped
  <2>1. GhostKept(t)
    BY <1>5, <1>6 DEF GhostInv, GhostBilled
  <2>2. CASE V!VapiStart(s) \/ V!UserJoinedAgora(s)
    <3>1. t # s
      BY <1>2, <1>6, <2>2 DEF V!VapiStart, V!UserJoinedAgora
    <3> QED
      BY <2>1, <2>2, <3>1 DEF V!VapiStart, V!UserJoinedAgora, GhostKept, GhostInv, VInv, Types
  <2>3. CASE V!StatusUpdate(s)
    BY <2>1, <2>3 DEF V!StatusUpdate, V!Media, GhostKept
  <2> QED BY <2>2, <2>3
<1> QED BY <1>1, <1>4, <1>5, <1>6, GhostStays

\* An end that is asked for has the time of the timer, which is none after a
\* signal.
LEMMA GhostLocks ==
  ASSUME GhostInv, NEW r \in Slots, NEW s \in Calls, NEW text \in BOOLEAN,
         V!EndCallInternal(r, s, text)
  PROVE  /\ \A q \in Slots : work'[q] = work[q] \/ Locks(work'[q])
         /\ \A t \in Calls : ticker[t] = V!Stopped => ticker'[t] = V!Stopped
<1>1. /\ work \in [Slots -> Works] /\ ticker \in [Calls -> Nat \cup {V!Stopped}]
      /\ signal \in [Calls -> Nat]
  BY DEF GhostInv, GhostBilled, VInv, Types
<1>2. CASE s \in endings
  BY <1>2 DEF V!EndCallInternal
<1>3. CASE s \notin endings
  <2> DEFINE n == V!Max({ticker[s], 0})
             h == [V!Ending EXCEPT !.s = s, !.gateway = TRUE, !.text = text, !.length = n]
  <2>1. V!Begin(r, h) /\ ticker' = [ticker EXCEPT ![s] = V!Stopped]
    BY <1>3, Zenon DEF V!EndCallInternal
  <2>2. ticker[s] \in Int /\ n = IF ticker[s] >= 0 THEN ticker[s] ELSE 0
    <3>1. ticker[s] \in Int
      BY <1>1 DEF V!Stopped
    <3> QED BY <3>1, MaxOfTwo
  <2>3. signal[s] > 0 => n <= signal[s]
    BY <1>1, <2>2 DEF GhostInv, GhostBilled, GhostKept, V!Stopped
  <2> HIDE DEF n
  <2>4. h.pc = "lock" /\ h.s = s /\ h.length = n
    BY Zenon DEF V!Ending
  <2> HIDE DEF h
  <2>5. Locks(h)
    BY <2>3, <2>4 DEF Locks
  <2>6. work' = [work EXCEPT ![r] = h]
    BY <2>1, Zenon DEF V!Begin
  <2> QED BY <1>1, <2>1, <2>5, <2>6
<1> QED BY <1>2, <1>3

LEMMA GhostEnding ==
  ASSUME VoiceBounds, GhostInv, VInv', NEW r \in Slots, NEW s \in Calls,
         \/ V!EndCall(r, s) \/ V!TimeUp(r, s) \/ V!HandleStaleSessions(r, s)
         \/ V!GeminiStop(r, s) \/ V!GeminiClosed(r, s)
  PROVE  GhostInv'
<1>1. UNCHANGED <<call, signal>>
  BY DEF V!EndCall, V!TimeUp, V!HandleStaleSessions, V!GeminiStop, V!GeminiClosed
<1>2. \E text \in BOOLEAN : V!EndCallInternal(r, s, text)
  <2>1. CASE V!GeminiStop(r, s)
    BY <2>1 DEF V!GeminiStop, GhostInv, VInv, Types
  <2> QED BY <2>1 DEF V!EndCall, V!TimeUp, V!HandleStaleSessions, V!GeminiClosed
<1>3. /\ \A q \in Slots : work'[q] = work[q] \/ Locks(work'[q])
      /\ \A t \in Calls : ticker[t] = V!Stopped => ticker'[t] = V!Stopped
  BY <1>2, GhostLocks
<1>4. signal' \in [Calls -> Nat] /\ \A t \in Calls : signal'[t] > 0 => ticker'[t] = V!Stopped
  BY <1>1, <1>3 DEF GhostInv, GhostBilled, GhostKept
<1>5. /\ voice' \in [Calls -> Voices]
      /\ \A t \in Calls : voice'[t] # "none" => voice[t] # "none"
  <2>1. voice \in [Calls -> Voices]
    BY DEF GhostInv, GhostBilled
  <2>2. CASE V!GeminiStop(r, s)
    BY <2>1, <2>2 DEF V!GeminiStop, Voices
  <2>3. CASE V!GeminiClosed(r, s)
    BY <2>1, <2>3 DEF V!GeminiClosed, Voices
  <2>4. CASE V!EndCall(r, s) \/ V!TimeUp(r, s) \/ V!HandleStaleSessions(r, s)
    BY <2>1, <2>4 DEF V!EndCall, V!TimeUp, V!HandleStaleSessions
  <2> QED BY <2>2, <2>3, <2>4
<1> QED BY <1>1, <1>3, <1>4, <1>5, GhostStays DEF SameBill

LEMMA GhostWall ==
  ASSUME VoiceBounds, GhostInv, VInv', NEW r \in Slots, NEW s \in Calls, WallEnds(r, s)
  PROVE  GhostInv'
<1>1. /\ UNCHANGED <<call, ticker, voice, signal>> /\ \A q \in Slots \ {r} : work'[q] = work[q]
      /\ work'[r].pc = "lock" /\ work'[r].s = s /\ work'[r].length = 0
  BY WallBegins DEF GhostInv, VInv
<1>2. /\ signal \in [Calls -> Nat] /\ voice \in [Calls -> Voices]
      /\ \A t \in Calls : signal[t] > 0 => ticker[t] = V!Stopped
  BY DEF GhostInv, GhostBilled, GhostKept
<1>3. Locks(work'[r])
  BY <1>1, <1>2 DEF Locks
<1> QED BY <1>1, <1>2, <1>3, GhostStays DEF SameBill

\* What the report of a call that is over changes in a document.
LEMMA ReportedBill ==
  ASSUME NEW d \in Docs, NEW x \in BOOLEAN, NEW n \in Nat
  PROVE  SameBill([d EXCEPT !.id = x, !.text = TRUE, !.recorded = TRUE, !.duration = n], d)
BY Zenon DEF SameBill, Docs

\* A report on a call that goes on has what vapi_end said at most.
LEMMA GhostWebhook ==
  ASSUME VoiceBounds, GhostInv, VInv', NEW r \in Slots, NEW s \in Calls, V!HandleVapiWebhook(r, s)
  PROVE  GhostInv'
<1>1. UNCHANGED <<ticker, voice, signal>>
  BY DEF V!HandleVapiWebhook, V!Media
<1>2. /\ call \in [Calls -> Docs] /\ talk \in [Calls -> Nat] /\ work \in [Slots -> Works]
      /\ signal \in [Calls -> Nat] /\ voice \in [Calls -> Voices]
  BY DEF GhostInv, GhostBilled, VInv, Types
<1>3. PICK named \in BOOLEAN, t \in Calls :
        IF V!Active(t)
        THEN /\ call' = [call EXCEPT ![s].id = @ \/ named]
             /\ V!Begin(r, [V!Ending EXCEPT !.s = t, !.text = TRUE, !.recorded = TRUE,
                                        !.length = V!Shielded(t, talk[s])])
        ELSE /\ call' = [call EXCEPT ![s].id = @ \/ named, ![t].id = TRUE, ![t].text = TRUE,
                           ![t].recorded = TRUE,
                           ![t].duration = IF call[t].duration = 0 THEN talk[s]
                               ELSE call[t].duration]
             /\ UNCHANGED work
  BY Zenon DEF V!HandleVapiWebhook
<1> DEFINE x == call[s].id \/ named
<1>4. x \in BOOLEAN /\ talk[s] \in Nat /\ call[t].duration \in Nat
  BY <1>2 DEF Docs
<1>5. \A o \in Calls : call[o] \in Docs
  BY <1>2
<1>6. CASE V!Active(t)
  <2> DEFINE n == V!Shielded(t, talk[s])
             h == [V!Ending EXCEPT !.s = t, !.text = TRUE, !.recorded = TRUE, !.length = n]
  <2>1. call' = [call EXCEPT ![s].id = x] /\ V!Begin(r, h)
    BY <1>3, <1>6, Zenon
  <2>2. signal[t] > 0 => n <= signal[t]
    BY <1>2, <1>4, <1>6 DEF GhostInv, GhostBilled, GhostKept, V!Shielded
  <2> HIDE DEF n, x
  <2>3. h.pc = "lock" /\ h.s = t /\ h.length = n
    BY Zenon DEF V!Ending
  <2> HIDE DEF h
  <2>4. Locks(h)
    BY <2>2, <2>3 DEF Locks
  <2>5. \A q \in Slots : work'[q] = work[q] \/ Locks(work'[q])
    BY <1>2, <2>1, <2>4 DEF V!Begin
  <2>6. ASSUME NEW o \in Calls
        PROVE  SameBill(call'[o], call[o]) /\ call'[o].duration = call[o].duration
    <3>1. CASE o = s
      <4>1. call'[s] = [call[s] EXCEPT !.id = x]
        BY <1>2, <2>1, Zenon
      <4> QED BY <1>4, <1>5, <3>1, <4>1, SameBillId, Zenon
    <3>2. CASE o # s
      <4>1. call'[o] = call[o]
        BY <1>2, <2>1, <3>2, Zenon
      <4> QED BY <4>1 DEF SameBill
    <3> QED BY <3>1, <3>2
  <2>7. \A o \in Calls : signal'[o] > 0 => ticker'[o] = V!Stopped
    BY <1>1 DEF GhostInv, GhostBilled, GhostKept
  <2> QED BY <1>1, <1>2, <2>5, <2>6, <2>7, GhostStays
<1>7. CASE ~V!Active(t)
  <2> DEFINE n == IF call[t].duration = 0 THEN talk[s] ELSE call[t].duration
  <2>1. n \in Nat
    BY <1>4
  <2>2. /\ call' = [call EXCEPT ![s].id = x, ![t].id = TRUE, ![t].text = TRUE,
                      ![t].recorded = TRUE, ![t].duration = n]
        /\ UNCHANGED work
    BY <1>3, <1>7, Zenon
  <2> HIDE DEF n, x
  <2>3. ASSUME NEW o \in Calls
        PROVE  SameBill(call'[o], call[o]) /\ (V!Active(o) => call'[o].duration = call[o].duration)
    <3> DEFINE f == [call EXCEPT ![s].id = x]
    <3>1. call' = [f EXCEPT ![t].id = TRUE, ![t].text = TRUE, ![t].recorded = TRUE, ![t].duration = n]
      BY <2>2, Zenon
    <3>2. f \in [Calls -> Docs] /\ \A p \in Calls : SameBill(f[p], call[p]) /\ f[p].duration = call[p].duration
      <4>1. f \in [Calls -> Docs]
        BY <1>2, <1>4, KeepsId, Zenon DEF Keeps
      <4>2. f[s] = [call[s] EXCEPT !.id = x] /\ \A p \in Calls \ {s} : f[p] = call[p]
        BY <1>2, Zenon
      <4> HIDE DEF f
      <4>3. SameBill(f[s], call[s]) /\ f[s].duration = call[s].duration
        BY <1>4, <1>5, <4>2, SameBillId, Zenon DEF x
      <4>4. \A p \in Calls \ {s} : SameBill(f[p], call[p]) /\ f[p].duration = call[p].duration
        BY <4>2 DEF SameBill
      <4> QED BY <4>1, <4>3, <4>4
    <3> HIDE DEF f
    <3>3. CASE o = t
      <4>1. call'[t] = [f[t] EXCEPT !.id = TRUE, !.text = TRUE, !.recorded = TRUE, !.duration = n]
        BY <3>1, <3>2, Zenon
      <4>2. f[t] \in Docs /\ TRUE \in BOOLEAN
        BY <3>2
      <4>3. SameBill(call'[t], f[t])
        BY <2>1, <4>1, <4>2, ReportedBill, Zenon
      <4> QED BY <1>7, <3>2, <3>3, <4>3 DEF SameBill
    <3>4. CASE o # t
      <4>1. call'[o] = f[o]
        BY <3>1, <3>2, <3>4, Zenon
      <4> QED BY <3>2, <4>1
    <3> QED BY <3>3, <3>4
  <2>4. \A o \in Calls : signal'[o] > 0 => ticker'[o] = V!Stopped
    BY <1>1 DEF GhostInv, GhostBilled, GhostKept
  <2> QED BY <1>1, <1>2, <2>2, <2>3, <2>4, GhostStays
<1> QED BY <1>6, <1>7

----------------
\* A call is made; no handler ends it or is about to name its provider yet.
LEMMA GhostCreate ==
  ASSUME VoiceBounds, GhostInv, VInv', NEW r \in Slots, V!Create(r)
  PROVE  GhostInv'
<1> DEFINE w == work[r]
<1>1. UNCHANGED <<ticker, voice, signal>> /\ V!At(r, "create")
  BY DEF V!Create, V!Media
<1>2. /\ call \in [Calls -> Docs] /\ work \in [Slots -> Works] /\ w \in Creating
      /\ signal \in [Calls -> Nat] /\ voice \in [Calls -> Voices]
  BY <1>1, VoiceKinds DEF GhostInv, GhostBilled, VInv, Types
<1>3. \A t \in Calls : signal[t] > 0 => ticker[t] = V!Stopped
  BY DEF GhostInv, GhostBilled, GhostKept
<1>4. CASE ~w.free /\ cash[w.u] < 5 * Rate
  <2>1. V!Finish(r) /\ UNCHANGED call
    BY <1>4, Zenon DEF V!Create
  <2>2. \A q \in Slots : work'[q] = work[q] \/ work'[q].pc \in {"idle", "create"}
    BY <2>1, Finishes DEF GhostInv, VInv
  <2> QED BY <1>1, <1>2, <1>3, <2>1, <2>2, GhostStays DEF SameBill
<1>5. CASE ~(~w.free /\ cash[w.u] < 5 * Rate)
  <2> DEFINE others == {t \in Calls : call[t].user = w.u /\ V!Unsettled(t)}
             c == IF w.free THEN 0 ELSE Rate
             m == IF w.free THEN FreeTime ELSE V!Longest(w.balance)
             b == w.alone /\ others = {}
  <2>1. PICK s \in Calls :
          /\ call[s] = V!NoCall
          /\ call' = [t \in Calls |->
               IF t = s THEN [V!NoCall EXCEPT !.user = w.u, !.status = "active", !.rate = c,
                   !.max = m, !.alone = b]
               ELSE IF t \in others THEN [call[t] EXCEPT !.alone = FALSE] ELSE call[t]]
          /\ work' = [q \in Slots |-> IF q = r THEN [pc |-> "configure", s |-> s]
                                      ELSE IF V!At(q, "create") /\ work[q].u = w.u
                                      THEN [work[q] EXCEPT !.alone = FALSE] ELSE work[q]]
    BY <1>5, Zenon DEF V!Create
  <2> HIDE DEF w, c, m, b, others
  <2>2. /\ call'[s].status = "active" /\ call'[s].bill = 0 /\ call'[s].provider = "none"
        /\ call[s].status = "none" /\ call[s].provider = "none"
    <3>1. call'[s] = [V!NoCall EXCEPT !.user = w.u, !.status = "active", !.rate = c, !.max = m,
            !.alone = b]
      BY <2>1, Zenon
    <3>2. LET e == [V!NoCall EXCEPT !.user = w.u, !.status = "active", !.rate = c, !.max = m,
            !.alone = b] IN
            e.status = "active" /\ e.bill = 0 /\ e.provider = "none"
      BY Zenon DEF V!NoCall
    <3>3. V!NoCall.status = "none" /\ V!NoCall.provider = "none"
      BY Zenon DEF V!NoCall
    <3> QED BY <2>1, <3>1, <3>2, <3>3, Zenon
  <2>3. ASSUME NEW t \in Calls \ {s}
        PROVE  SameBill(call'[t], call[t]) /\ call'[t].duration = call[t].duration
    <3>1. call[t] \in Docs
      BY <1>2
    <3>2. CASE t \in others
      <4>1. call'[t] = [call[t] EXCEPT !.alone = FALSE]
        BY <2>1, <3>2, Zenon
      <4> QED BY <3>1, <4>1, SameBillId, Zenon
    <3>3. CASE t \notin others
      <4>1. call'[t] = call[t]
        BY <2>1, <3>3, Zenon
      <4> QED BY <4>1 DEF SameBill
    <3> QED BY <3>2, <3>3
  <2>4. work'[r].pc = "configure" /\ work'[r].s = s
    BY <2>1
  <2>5. ASSUME NEW q \in Slots \ {r}
        PROVE  work'[q] = work[q] \/ work'[q].pc = "create"
    <3>1. CASE V!At(q, "create") /\ work[q].u = w.u
      <4>1. work'[q] = [work[q] EXCEPT !.alone = FALSE] /\ work[q] \in Creating
        BY <2>1, <3>1, VoiceKinds, Zenon DEF GhostInv, VInv
      <4>2. work'[q].pc = work[q].pc
        BY <4>1, StartsNotAlone, Zenon
      <4> QED BY <3>1, <4>2 DEF V!At
    <3>2. CASE ~(V!At(q, "create") /\ work[q].u = w.u)
      BY <2>1, <3>2, Zenon
    <3> QED BY <3>1, <3>2
  <2>6. voice[s] = "none" /\ ~(signal[s] > 0)
    BY <2>2 DEF GhostInv, GhostBilled, GhostKept, VoiceIsGemini
  <2>7. VoiceIsGemini'
    BY <1>1, <2>3, <2>6 DEF GhostInv, GhostBilled, VoiceIsGemini, SameBill
  <2>8. ConfiguredOnce'
    <3>1. \A q \in Slots : V!At(q, "configure") => work[q].s \in Calls \ {s}
      BY <2>2, VoiceKinds DEF GhostInv, GhostBilled, VInv, Configuring, ConfiguredOnce
    <3>2. \A q \in Slots \ {r} : V!At(q, "configure")' => V!At(q, "configure") /\ work'[q] = work[q]
      BY <2>5 DEF V!At
    <3> QED BY <2>2, <2>3, <2>4, <3>1, <3>2 DEF GhostInv, GhostBilled, ConfiguredOnce, SameBill
  <2>9. OpenIsUnbilled'
    BY <2>2, <2>3 DEF GhostInv, GhostBilled, OpenIsUnbilled, SameBill
  <2>10. ASSUME NEW t \in Calls, signal'[t] > 0
         PROVE  GhostKept(t)'
    <3>1. t # s /\ GhostKept(t) /\ signal'[t] = signal[t] /\ ticker'[t] = ticker[t]
      BY <1>1, <2>6, <2>10 DEF GhostInv, GhostBilled
    <3>2. SameBill(call'[t], call[t]) /\ call'[t].duration = call[t].duration
      BY <2>3, <3>1
    <3>3. Signalled(t)' = Signalled(t) /\ (V!Active(t)' <=> V!Active(t))
      BY <3>1, <3>2 DEF Signalled, SameBill, V!Active
    <3>4. ASSUME NEW q \in Slots, (V!At(q, "lock") \/ V!At(q, "bill") \/ V!At(q, "save"))',
                 work'[q].s = t
          PROVE  WithinSignal(q, t)'
      <4>1. work'[q] = work[q]
        BY <2>4, <2>5, <3>4 DEF V!At
      <4>2. WithinSignal(q, t)
        BY <3>1, <3>4, <4>1 DEF GhostKept, V!At
      <4> QED BY <3>1, <3>3, <4>1, <4>2 DEF WithinSignal, V!At
    <3> QED BY <3>1, <3>2, <3>3, <3>4 DEF GhostKept, SameBill
  <2> QED BY <1>1, <1>2, <2>7, <2>8, <2>9, <2>10 DEF GhostInv, GhostBilled
<1> QED BY <1>4, <1>5

LEMMA ProviderOnly ==
  ASSUME NEW d \in Docs, NEW p
  PROVE  [d EXCEPT !.provider = p].status = d.status /\ [d EXCEPT !.provider = p].bill = d.bill
BY Zenon DEF Docs

\* The provider is named once, before there is a voice or a signal.
LEMMA GhostConfigure ==
  ASSUME VoiceBounds, GhostInv, VInv', NEW r \in Slots, V!Configure(r)
  PROVE  GhostInv'
<1> DEFINE s == work[r].s
<1>1. UNCHANGED <<ticker, voice, signal>> /\ V!At(r, "configure") /\ V!Finish(r)
  BY DEF V!Configure, V!Media
<1>2. /\ call \in [Calls -> Docs] /\ signal \in [Calls -> Nat] /\ voice \in [Calls -> Voices]
      /\ s \in Calls
  BY <1>1, VoiceKinds DEF GhostInv, GhostBilled, VInv, Types, Configuring
<1>3. PICK p : call' = [call EXCEPT ![s].provider = p]
  BY Zenon DEF V!Configure
<1>4. call[s].provider = "none" /\ \A q \in Slots : V!At(q, "configure") /\ work[q].s = s => q = r
  BY <1>1 DEF GhostInv, GhostBilled, ConfiguredOnce
<1>5. voice[s] = "none" /\ ~(signal[s] > 0)
  BY <1>2, <1>4 DEF GhostInv, GhostBilled, VoiceIsGemini, GhostKept
<1>6. work'[r].pc = "idle" /\ \A q \in Slots \ {r} : work'[q] = work[q]
  BY <1>1, Finishes DEF GhostInv, VInv
<1> HIDE DEF s
<1>7. /\ \A t \in Calls \ {s} : call'[t] = call[t]
      /\ call'[s].status = call[s].status /\ call'[s].bill = call[s].bill
  <2>1. call'[s] = [call[s] EXCEPT !.provider = p] /\ call[s] \in Docs
    BY <1>2, <1>3, Zenon
  <2>2. call'[s].status = call[s].status /\ call'[s].bill = call[s].bill
    BY <2>1, ProviderOnly, Zenon
  <2> QED BY <1>2, <1>3, <2>2
<1>8. VoiceIsGemini'
  BY <1>1, <1>5, <1>7 DEF GhostInv, GhostBilled, VoiceIsGemini
<1>9. ConfiguredOnce'
  <2>1. \A q \in Slots : V!At(q, "configure")' => /\ q # r /\ V!At(q, "configure")
                                                  /\ work'[q] = work[q]
    BY <1>6 DEF V!At
  <2>2. \A q \in Slots : V!At(q, "configure") /\ q # r => work[q].s \in Calls \ {s}
    BY <1>4, VoiceKinds DEF GhostInv, VInv, Configuring
  <2> QED BY <1>7, <2>1, <2>2 DEF GhostInv, GhostBilled, ConfiguredOnce
<1>10. OpenIsUnbilled'
  BY <1>2, <1>7 DEF GhostInv, GhostBilled, OpenIsUnbilled
<1>11. ASSUME NEW t \in Calls, signal'[t] > 0
       PROVE  GhostKept(t)'
  <2>1. t # s /\ GhostKept(t) /\ call'[t] = call[t]
    BY <1>1, <1>5, <1>7, <1>11 DEF GhostInv, GhostBilled
  <2>2. \A q \in Slots : (V!At(q, "lock") \/ V!At(q, "bill") \/ V!At(q, "save"))' =>
          work'[q] = work[q] /\ (V!At(q, "lock") \/ V!At(q, "bill") \/ V!At(q, "save"))
    BY <1>6 DEF V!At
  <2> QED BY <1>1, <2>1, <2>2 DEF GhostKept, WithinSignal, Signalled, V!Active, V!At
<1> QED BY <1>1, <1>2, <1>8, <1>9, <1>10, <1>11 DEF GhostInv, GhostBilled

----------------
\* The steps of an end: the length goes from the handler to the bill and from
\* the bill to the document.
LEMMA RoundedWithin ==
  ASSUME VoiceBounds, Types, NEW s \in Calls, NEW n \in Nat, NEW g \in Nat, n <= g, g > 0
  PROVE  V!Minutes(V!Billed(s, n)) * call[s].rate <= V!Minutes(g) * call[s].rate
<1>1. call[s].max \in Nat /\ call[s].rate \in Nat
  BY DEF Types, Docs, VoiceBounds
<1> DEFINE x == V!Min({n, call[s].max})
           d == V!Billed(s, n)
<1>2. x \in Nat /\ x <= g
  BY <1>1, MinOfTwo
<1>3. d = IF x >= 1 THEN x ELSE 1
  <2>1. d = V!Max({x, 1})
    BY Zenon DEF V!Billed
  <2> HIDE DEF d, x
  <2> QED BY <1>2, <2>1, MaxOfTwo
<1>4. d \in Nat /\ d <= g
  BY <1>2, <1>3
<1> HIDE DEF d, x
<1>5. V!Minutes(d) \in Nat /\ V!Minutes(g) \in Nat /\ V!Minutes(d) <= V!Minutes(g)
  BY <1>4, MinutesGrow
<1> QED BY <1>1, <1>5, Products DEF d

LEMMA EndedBill ==
  ASSUME NEW d \in Docs
  PROVE  LET e == [d EXCEPT !.status = "ended"] IN
           /\ e.status = "ended" /\ e.provider = d.provider /\ e.rate = d.rate /\ e.bill = d.bill
BY Zenon DEF Docs

LEMMA NextLength ==
  ASSUME NEW w \in Closings, NEW pc
  PROVE  LET v == [w EXCEPT !.pc = pc] IN
           v.pc = pc /\ v.s = w.s /\ v.length = w.length /\ v.wall = w.wall
BY Zenon DEF Closings

\* What handlers of other calls, and others of this call, have in hand stays.
LEMMA OthersWithin ==
  ASSUME NEW t \in Calls, NEW q \in Slots, work'[q] = work[q], GhostKept(t),
         signal'[t] = signal[t], call'[t].rate = call[t].rate, V!Active(t)' => V!Active(t),
         (V!At(q, "lock") \/ V!At(q, "bill") \/ V!At(q, "save"))', work'[q].s = t
  PROVE  WithinSignal(q, t)'
<1>1. Signalled(t)' = Signalled(t)
  BY DEF Signalled
<1>2. WithinSignal(q, t)
  BY DEF GhostKept, V!At
<1> QED BY <1>1, <1>2 DEF WithinSignal, V!At

\* The document is ended: the handler goes on with what it has.
LEMMA GhostEnds ==
  ASSUME VoiceBounds, GhostInv, VInv', NEW r \in Slots, V!Lock(r), V!Active(work[r].s)
  PROVE  GhostInv'
<1> DEFINE s == work[r].s
           v == [work[r] EXCEPT !.pc = "bill"]
           e == [call[s] EXCEPT !.status = "ended"]
<1>1. V!At(r, "lock") /\ UNCHANGED <<ticker, voice>>
  BY DEF V!Lock
<1>2. /\ call \in [Calls -> Docs] /\ signal \in [Calls -> Nat] /\ voice \in [Calls -> Voices]
      /\ s \in Calls /\ work[r] \in Closings /\ work \in [Slots -> Works] /\ V!Active(s)
  BY <1>1, VoiceKinds DEF GhostInv, GhostBilled, VInv, Types, Closings
<1>3. call' = [call EXCEPT ![s] = e] /\ work' = [work EXCEPT ![r] = v]
  BY <1>2, Zenon DEF V!Lock, V!Goto
<1>0. /\ signal' \in [Calls -> Nat] /\ \A t \in Calls : signal'[t] > 0 => signal'[t] = signal[t]
      /\ signal'[s] > 0 => work[r].wall = FALSE
  <2>1. signal' = [signal EXCEPT ![s] = IF work[r].wall THEN 0 ELSE signal[s]]
    BY <1>2, Zenon DEF V!Lock
  <2>2. work[r].wall \in BOOLEAN
    BY <1>2 DEF Closings
  <2> QED BY <1>2, <2>1, <2>2
<1>4. v.pc = "bill" /\ v.s = s /\ v.length = work[r].length /\ v.wall = work[r].wall
  BY <1>2, NextLength, Zenon
<1>5. e.status = "ended" /\ e.provider = call[s].provider /\ e.rate = call[s].rate /\ e.bill = call[s].bill
  <2>1. call[s] \in Docs
    BY <1>2
  <2> QED BY <2>1, EndedBill, Zenon
<1> HIDE DEF v, e
<1>6. call'[s] = e /\ \A t \in Calls \ {s} : call'[t] = call[t]
  BY <1>2, <1>3
<1>7. work'[r] = v /\ \A q \in Slots \ {r} : work'[q] = work[q]
  BY <1>2, <1>3
<1>8. \A t \in Calls : call'[t].provider = call[t].provider /\ call'[t].rate = call[t].rate
        /\ call'[t].bill = call[t].bill /\ (V!Active(t)' => V!Active(t) /\ call'[t] = call[t])
  BY <1>5, <1>6 DEF V!Active
<1>9. VoiceIsGemini'
  BY <1>1, <1>8 DEF GhostInv, GhostBilled, VoiceIsGemini
<1>10. ConfiguredOnce'
  <2>1. \A q \in Slots : V!At(q, "configure")' => V!At(q, "configure") /\ work'[q] = work[q]
    BY <1>4, <1>7 DEF V!At
  <2>2. \A q \in Slots : V!At(q, "configure") => work[q].s \in Calls
    BY VoiceKinds DEF GhostInv, VInv, Configuring
  <2>3. \A t \in Calls : call'[t].status = "none" => call[t].status = "none"
    BY <1>5, <1>6
  <2> QED BY <1>8, <2>1, <2>2, <2>3 DEF GhostInv, GhostBilled, ConfiguredOnce
<1>11. OpenIsUnbilled'
  BY <1>5, <1>6 DEF GhostInv, GhostBilled, OpenIsUnbilled
<1>12. ASSUME NEW t \in Calls, signal'[t] > 0
       PROVE  GhostKept(t)'
  <2>1. GhostKept(t) /\ signal'[t] = signal[t]
    BY <1>0, <1>12 DEF GhostInv, GhostBilled
  <2>2. ASSUME NEW q \in Slots, (V!At(q, "lock") \/ V!At(q, "bill") \/ V!At(q, "save"))',
               work'[q].s = t
        PROVE  WithinSignal(q, t)'
    <3>1. CASE q = r
      <4>1. t = s
        BY <1>4, <1>7, <2>2, <3>1
      <4>2. work[r].length <= signal[s] /\ work[r].wall = FALSE
        BY <1>0, <1>1, <1>2, <1>12, <2>1, <4>1 DEF GhostKept, WithinSignal
      <4> QED BY <1>4, <1>7, <2>1, <3>1, <4>1, <4>2 DEF WithinSignal, V!At
    <3>2. CASE q # r
      BY <1>7, <1>8, <2>1, <2>2, <3>2, OthersWithin
    <3> QED BY <3>1, <3>2
  <2>3. V!Active(t)' => call'[t].duration = signal'[t]
    BY <1>8, <2>1 DEF GhostKept
  <2>4. call'[t].bill <= Signalled(t)'
    BY <1>8, <2>1 DEF GhostKept, Signalled
  <2> QED BY <1>1, <1>8, <2>1, <2>2, <2>3, <2>4 DEF GhostKept
<1> QED BY <1>0, <1>1, <1>2, <1>9, <1>10, <1>11, <1>12 DEF GhostInv, GhostBilled

\* It was over.
LEMMA GhostTooLate ==
  ASSUME VoiceBounds, GhostInv, VInv', NEW r \in Slots, V!Lock(r), ~V!Active(work[r].s)
  PROVE  GhostInv'
<1> DEFINE s == work[r].s
           x == call[s].recorded \/ work[r].recorded
           y == call[s].text \/ (work[r].recorded /\ work[r].text)
           e == [call[s] EXCEPT !.recorded = x, !.text = y]
<1>1. V!At(r, "lock") /\ UNCHANGED <<ticker, voice, signal>> /\ V!Finish(r)
  BY Zenon DEF V!Lock
<1>2. /\ call \in [Calls -> Docs] /\ signal \in [Calls -> Nat] /\ voice \in [Calls -> Voices]
      /\ s \in Calls
  BY <1>1, VoiceKinds DEF GhostInv, GhostBilled, VInv, Types, Closings
<1>3. call' = [call EXCEPT ![s].recorded = x, ![s].text = y]
  BY Zenon DEF V!Lock
<1>4. call' = [call EXCEPT ![s] = e]
  BY <1>3, Zenon
<1>5. SameBill(e, call[s]) /\ e.duration = call[s].duration
  <2> HIDE DEF s, x, y
  <2>1. call[s] \in Docs
    BY <1>2
  <2> QED BY <2>1, Zenon DEF SameBill, Docs
<1> HIDE DEF e
<1>6. \A t \in Calls : SameBill(call'[t], call[t]) /\ call'[t].duration = call[t].duration
  <2>1. call'[s] = e /\ \A t \in Calls \ {s} : call'[t] = call[t]
    BY <1>2, <1>4
  <2> QED BY <1>5, <2>1 DEF SameBill
<1>7. \A q \in Slots : work'[q] = work[q] \/ work'[q].pc \in {"idle", "create"}
  BY <1>1, Finishes DEF GhostInv, VInv
<1>8. \A t \in Calls : signal'[t] > 0 => ticker'[t] = V!Stopped
  BY <1>1 DEF GhostInv, GhostBilled, GhostKept
<1> QED BY <1>1, <1>2, <1>6, <1>7, <1>8, GhostStays

LEMMA GhostBill ==
  ASSUME VoiceBounds, GhostInv, VInv', NEW r \in Slots, V!Bill(r)
  PROVE  GhostInv'
<1> DEFINE s == work[r].s
           d == V!Billed(s, V!LengthOf(r))
           bill == V!Minutes(d) * call[s].rate
<1>1. V!At(r, "bill") /\ UNCHANGED <<call, ticker, voice, signal>>
  BY DEF V!Bill, V!Media
<1>2. PICK p : work' = [work EXCEPT ![r] = [work[r] EXCEPT !.pc = "save", !.length = d, !.bill = bill,
                                                           !.paid = p]]
  BY Zenon DEF V!Bill, V!Turn
<1>3. /\ call \in [Calls -> Docs] /\ signal \in [Calls -> Nat] /\ voice \in [Calls -> Voices]
      /\ s \in Calls /\ work[r] \in Closings /\ work[r].length \in Nat /\ work \in [Slots -> Works]
  BY <1>1, VoiceKinds DEF GhostInv, GhostBilled, VInv, Types, Closings
<1>4. signal[s] > 0 => bill <= Signalled(s)
  <2>1. ASSUME signal[s] > 0
        PROVE  bill <= Signalled(s)
    <3>1. V!LengthOf(r) = work[r].length /\ work[r].length <= signal[s]
      BY <1>1, <1>3, <2>1 DEF GhostInv, GhostBilled, GhostKept, WithinSignal, V!LengthOf
    <3> QED BY <1>3, <2>1, <3>1, RoundedWithin DEF Signalled, GhostInv, VInv
  <2> QED BY <2>1
<1> DEFINE v == [work[r] EXCEPT !.pc = "save", !.length = d, !.bill = bill, !.paid = p]
<1>5. v.pc = "save" /\ v.s = s /\ v.bill = bill
  <2> HIDE DEF d, bill
  <2> QED BY <1>3, Zenon DEF Closings
<1>6. work' = [work EXCEPT ![r] = v]
  BY <1>2, Zenon
<1> HIDE DEF v, bill, d
<1>7. work'[r] = v /\ \A q \in Slots \ {r} : work'[q] = work[q]
  BY <1>3, <1>6
<1>8. VoiceIsGemini' /\ OpenIsUnbilled'
  BY <1>1 DEF GhostInv, GhostBilled, VoiceIsGemini, OpenIsUnbilled
<1>9. ConfiguredOnce'
  <2>1. \A q \in Slots : V!At(q, "configure")' => V!At(q, "configure") /\ work'[q] = work[q]
    BY <1>5, <1>7 DEF V!At
  <2> QED BY <1>1, <2>1 DEF GhostInv, GhostBilled, ConfiguredOnce
<1>10. ASSUME NEW t \in Calls, signal'[t] > 0
       PROVE  GhostKept(t)'
  <2>1. GhostKept(t) /\ signal'[t] = signal[t] /\ call'[t] = call[t]
    BY <1>1, <1>10 DEF GhostInv, GhostBilled
  <2>2. ASSUME NEW q \in Slots, (V!At(q, "lock") \/ V!At(q, "bill") \/ V!At(q, "save"))',
               work'[q].s = t
        PROVE  WithinSignal(q, t)'
    <3>1. CASE q = r
      BY <1>4, <1>5, <1>7, <1>10, <2>1, <2>2, <3>1 DEF WithinSignal, V!At, Signalled
    <3>2. CASE q # r
      BY <1>1, <1>7, <2>1, <2>2, <3>2, OthersWithin DEF V!Active
    <3> QED BY <3>1, <3>2
  <2> QED BY <1>1, <2>1, <2>2 DEF GhostKept, Signalled, V!Active
<1> QED BY <1>1, <1>3, <1>8, <1>9, <1>10 DEF GhostInv, GhostBilled

LEMMA GhostSaveEnd ==
  ASSUME VoiceBounds, GhostInv, VInv', NEW r \in Slots, V!SaveEnd(r)
  PROVE  GhostInv'
<1> DEFINE w == work[r]
           s == w.s
           x == call[s].text \/ w.text
           y == call[s].recorded \/ w.recorded
           e == [call[s] EXCEPT !.duration = w.length, !.bill = w.bill, !.paid = w.paid,
                                !.text = x, !.recorded = y]
<1>1. V!At(r, "save") /\ V!Finish(r) /\ UNCHANGED <<ticker, voice, signal>>
  BY DEF V!SaveEnd, V!Media
<1>2. call' = [call EXCEPT ![s].duration = w.length, ![s].bill = w.bill, ![s].paid = w.paid,
                           ![s].text = x, ![s].recorded = y]
  BY Zenon DEF V!SaveEnd
<1>3. call' = [call EXCEPT ![s] = e]
  BY <1>2, Zenon
<1>4. /\ call \in [Calls -> Docs] /\ signal \in [Calls -> Nat] /\ voice \in [Calls -> Voices]
      /\ s \in Calls
  BY <1>1, VoiceKinds DEF GhostInv, GhostBilled, VInv, Types, Closings
<1>5. call[s].status = "ended"
  BY <1>1, <1>4 DEF GhostInv, VInv, BilledOnce, VoiceBilling
<1>6. /\ e.provider = call[s].provider /\ e.status = call[s].status /\ e.rate = call[s].rate
      /\ e.bill = w.bill
  <2> HIDE DEF x, y, w
  <2>1. call[s] \in Docs
    BY <1>4
  <2> QED BY <2>1, Zenon DEF Docs
<1> HIDE DEF e
<1>7. call'[s] = e /\ \A t \in Calls \ {s} : call'[t] = call[t]
  BY <1>3, <1>4
<1>8. work'[r].pc = "idle" /\ \A q \in Slots \ {r} : work'[q] = work[q]
  BY <1>1, Finishes DEF GhostInv, VInv
<1>9. signal[s] > 0 => w.bill <= Signalled(s)
  BY <1>1, <1>4 DEF GhostInv, GhostBilled, GhostKept, WithinSignal
<1> HIDE DEF w, s
<1>10. \A t \in Calls : call'[t].provider = call[t].provider /\ call'[t].rate = call[t].rate
         /\ call'[t].status = call[t].status /\ (V!Active(t) => call'[t] = call[t])
  BY <1>5, <1>6, <1>7 DEF V!Active
<1>11. VoiceIsGemini'
  BY <1>1, <1>10 DEF GhostInv, GhostBilled, VoiceIsGemini
<1>12. ConfiguredOnce'
  <2>1. \A q \in Slots : V!At(q, "configure")' => V!At(q, "configure") /\ work'[q] = work[q]
    BY <1>8 DEF V!At
  <2>2. \A q \in Slots : V!At(q, "configure") => work[q].s \in Calls
    BY VoiceKinds DEF GhostInv, VInv, Configuring
  <2> QED BY <1>10, <2>1, <2>2 DEF GhostInv, GhostBilled, ConfiguredOnce
<1>13. OpenIsUnbilled'
  BY <1>5, <1>7, <1>10 DEF GhostInv, GhostBilled, OpenIsUnbilled
<1>14. ASSUME NEW t \in Calls, signal'[t] > 0
       PROVE  GhostKept(t)'
  <2>1. GhostKept(t) /\ signal'[t] = signal[t] /\ Signalled(t)' = Signalled(t)
    BY <1>1, <1>10, <1>14 DEF GhostInv, GhostBilled, Signalled
  <2>2. \A q \in Slots : (V!At(q, "lock") \/ V!At(q, "bill") \/ V!At(q, "save"))' => work'[q] = work[q]
    BY <1>8 DEF V!At
  <2>3. \A q \in Slots : (V!At(q, "lock") \/ V!At(q, "bill") \/ V!At(q, "save"))' /\ work'[q].s = t
          => WithinSignal(q, t)'
    BY <1>10, <2>1, <2>2, OthersWithin DEF V!Active
  <2>4. call'[t].bill <= Signalled(t)
    BY <1>6, <1>7, <1>9, <1>14, <2>1 DEF GhostKept
  <2>5. V!Active(t)' => call'[t].duration = signal'[t]
    BY <1>10, <2>1 DEF GhostKept, V!Active
  <2> QED BY <1>1, <1>10, <2>1, <2>3, <2>4, <2>5 DEF GhostKept
<1> QED BY <1>1, <1>4, <1>11, <1>12, <1>13, <1>14 DEF GhostInv, GhostBilled

LEMMA LongerBill ==
  ASSUME NEW d \in Docs, NEW n
  PROVE  SameBill([d EXCEPT !.duration = n], d) /\ [d EXCEPT !.duration = n].duration = n
BY Zenon DEF SameBill, Docs

\* vapi_end: nobody is ending the call, which has not been billed.
LEMMA GhostVapiEnd ==
  ASSUME VoiceBounds, GhostInv, VInv', NEW s \in Calls, V!VapiEnd(s)
  PROVE  GhostInv'
<1>1. /\ UNCHANGED <<voice, work>> /\ ticker[s] # V!Stopped /\ call[s].provider = "vapi"
      /\ ticker' = [ticker EXCEPT ![s] = V!Stopped]
      /\ call' = [call EXCEPT ![s].duration = ticker[s]]
      /\ signal' = [signal EXCEPT ![s] = IF V!Active(s) /\ ~V!Closing(s) THEN ticker[s] ELSE @]
  BY DEF V!VapiEnd
<1>2. /\ call \in [Calls -> Docs] /\ signal \in [Calls -> Nat] /\ voice \in [Calls -> Voices]
      /\ ticker \in [Calls -> Nat \cup {V!Stopped}] /\ ticker[s] \in Nat
  BY <1>1 DEF GhostInv, GhostBilled, VInv, Types
<1>3. signal' \in [Calls -> Nat] /\ \A t \in Calls \ {s} : signal'[t] = signal[t]
  BY <1>1, <1>2
<1>4. signal[s] = 0
  BY <1>1, <1>2 DEF GhostInv, GhostBilled, GhostKept
<1>5. /\ SameBill(call'[s], call[s]) /\ call'[s].duration = ticker[s]
      /\ \A t \in Calls \ {s} : call'[t] = call[t]
  <2>1. call'[s] = [call[s] EXCEPT !.duration = ticker[s]] /\ call[s] \in Docs
    BY <1>1, <1>2, Zenon
  <2>2. SameBill(call'[s], call[s]) /\ call'[s].duration = ticker[s]
    BY <2>1, LongerBill, Zenon
  <2> QED BY <1>1, <1>2, <2>2
<1>6. \A t \in Calls : SameBill(call'[t], call[t])
  BY <1>5 DEF SameBill
<1>7. VoiceIsGemini' /\ OpenIsUnbilled'
  BY <1>1, <1>6 DEF GhostInv, GhostBilled, VoiceIsGemini, OpenIsUnbilled, SameBill
<1>8. ConfiguredOnce'
  <2>1. \A q \in Slots : V!At(q, "configure") => work[q].s \in Calls
    BY VoiceKinds DEF GhostInv, VInv, Configuring
  <2> QED BY <1>1, <1>6, <2>1 DEF GhostInv, GhostBilled, ConfiguredOnce, SameBill, V!At
<1>9. GhostKept(s)' \/ ~(signal'[s] > 0)
  <2>1. CASE V!Active(s) /\ ~V!Closing(s)
    <3>1. signal'[s] = ticker[s] /\ ticker'[s] = V!Stopped
      BY <1>1, <1>2, <2>1
    <3>2. call'[s].provider = "vapi" /\ call'[s].rate = call[s].rate /\ call'[s].bill = call[s].bill
      BY <1>1, <1>5 DEF SameBill
    <3>3. \A q \in Slots : (V!At(q, "lock") \/ V!At(q, "bill") \/ V!At(q, "save"))' => work'[q].s # s
      BY <1>1, <2>1 DEF V!Closing, V!At
    <3>4. call'[s].bill = 0
      BY <2>1, <3>2 DEF GhostInv, GhostBilled, OpenIsUnbilled, V!Active
    <3>5. Signalled(s)' \in Nat
      <4>1. signal'[s] \in Nat /\ call'[s].rate \in Nat
        BY <1>2, <3>1, <3>2 DEF Docs, VoiceBounds
      <4>2. V!Minutes(signal'[s]) \in Nat
        BY <4>1, MinutesGrow
      <4> QED BY <4>1, <4>2, Products DEF Signalled
    <3>6. call'[s].bill <= Signalled(s)'
      BY <3>4, <3>5
    <3> QED BY <1>5, <3>1, <3>2, <3>3, <3>6 DEF GhostKept
  <2>2. CASE ~(V!Active(s) /\ ~V!Closing(s))
    BY <1>1, <1>2, <1>4, <2>2
  <2> QED BY <2>1, <2>2
<1>10. ASSUME NEW t \in Calls \ {s}, signal'[t] > 0
       PROVE  GhostKept(t)'
  <2>1. GhostKept(t) /\ signal'[t] = signal[t] /\ call'[t] = call[t] /\ ticker'[t] = ticker[t]
    BY <1>1, <1>2, <1>3, <1>5, <1>10 DEF GhostInv, GhostBilled
  <2> QED BY <1>1, <2>1 DEF GhostKept, WithinSignal, Signalled, V!Active, V!At
<1> QED BY <1>1, <1>2, <1>3, <1>7, <1>8, <1>9, <1>10 DEF GhostInv, GhostBilled

----------------
LEMMA GhostInit ==
  ASSUME VoiceBounds, VInv, V!Init
  PROVE  GhostInv
<1>1. /\ \A s \in Calls : call[s] = V!NoCall /\ voice[s] = "none" /\ signal[s] = 0
      /\ signal \in [Calls -> Nat] /\ voice \in [Calls -> Voices]
      /\ \A r \in Slots : work[r] = V!Idle
  BY DEF V!Init, V!NoHandler, Voices
<1>2. V!NoCall.bill = 0
  BY Zenon DEF V!NoCall
<1>3. V!Idle.pc = "idle"
  BY DEF V!Idle
<1>4. VoiceIsGemini /\ OpenIsUnbilled /\ ConfiguredOnce
  BY <1>1, <1>2, <1>3 DEF VoiceIsGemini, OpenIsUnbilled, ConfiguredOnce, V!At
<1> QED BY <1>1, <1>4 DEF GhostInv, GhostBilled

LEMMA GhostStep ==
  ASSUME VoiceBounds, GhostInv, VInv', [V!Next]_(V!vvars)
  PROVE  GhostInv'
<1>1. CASE UNCHANGED V!vvars
  BY <1>1 DEF V!vvars, GhostInv, GhostBilled, VoiceIsGemini, ConfiguredOnce, OpenIsUnbilled, GhostKept,
              WithinSignal, Signalled, V!Active, V!At
<1>2. ASSUME NEW n \in Steps, V!Tick(n)
      PROVE  GhostInv'
  BY <1>2, GhostTick
<1>3. ASSUME NEW u \in Users, V!Spend(u)
      PROVE  GhostInv'
  BY <1>3, GhostSpend
<1>4. ASSUME NEW r \in Slots, NEW u \in Users, V!InitiateAiVoiceCall(r, u)
      PROVE  GhostInv'
  BY <1>4, GhostInitiate
<1>5. ASSUME NEW r \in Slots, V!Create(r) \/ V!Configure(r) \/ V!Bill(r) \/ V!SaveEnd(r)
      PROVE  GhostInv'
  BY <1>5, GhostCreate, GhostConfigure, GhostBill, GhostSaveEnd
<1>6. ASSUME NEW r \in Slots, V!Lock(r)
      PROVE  GhostInv'
  BY <1>6, GhostEnds, GhostTooLate
<1>7. ASSUME NEW r \in Slots, NEW s \in Calls,
             \/ V!EndCall(r, s) \/ V!TimeUp(r, s) \/ V!HandleStaleSessions(r, s)
             \/ V!CleanupCalls(r, s) \/ V!EndCallSession(r, s)
             \/ V!GeminiStop(r, s) \/ V!GeminiClosed(r, s) \/ V!HandleVapiWebhook(r, s)
      PROVE  GhostInv'
  BY <1>7, GhostEnding, GhostWall, GhostWebhook DEF WallEnds
<1>8. ASSUME NEW s \in Calls,
             \/ V!GeminiStart(s) \/ V!Ready(s) \/ V!Speak(s)
             \/ V!Dial(s) \/ V!HangUp(s) \/ V!VapiStart(s) \/ V!VapiEnd(s) \/ V!StatusUpdate(s)
             \/ V!UserJoinedAgora(s)
      PROVE  GhostInv'
  BY <1>8, GhostLine, GhostNamed, GhostVapiEnd
<1> QED BY <1>1, <1>2, <1>3, <1>4, <1>5, <1>6, <1>7, <1>8 DEF V!Next

\* Whatever the phone goes on to do after vapi_end, a report or an end of the
\* gateway bills the time that vapi_end has left in the document, however many
\* of them there are at once.  Only the cleanup and REST bill more.
THEOREM VoiceGhostNotReported ==
  ASSUME VoiceBounds
  PROVE  V!Spec => []V!GhostNotReported
<1>1. V!Init /\ VInv => GhostInv
  BY GhostInit
<1>2. GhostInv /\ VInv' /\ [V!Next]_(V!vvars) => GhostInv'
  BY GhostStep
<1>3. GhostInv => V!GhostNotReported
  BY DEF GhostInv, GhostBilled, GhostKept, Signalled, V!GhostNotReported
<1> QED BY <1>1, <1>2, <1>3, VoiceInvariant, PTL DEF V!Spec

----------------
(***************************************************************************)
(* Availability, for any number of sessions, overlapping handlers, writes  *)
(* of the flags from elsewhere, failures and restarts.  The invariant has  *)
(* three parts, for three strengths of what runs at once: whatever does,   *)
(* one handler after another, and moreover nothing else going wrong.  In   *)
(* the last, the flags are ahead of the session's timer, or the handler    *)
(* that runs is about to put them ahead of it; so that no request passes   *)
(* the check while a session lasts, nor finds its flags lapsed.            *)
(***************************************************************************)
CONSTANTS Longest, MaxOthers, MaxFailures, MaxRestarts
VARIABLES talks, flag, online, live, byHand, others, failures, restarts

F == INSTANCE Availability WITH ses <- talks

Talks == [status : F!Live \cup {"none", "over"}, kind : {"chat", "call"}, age : Nat, limit : Nat,
          left : Nat \cup {F!None}, continued : BOOLEAN]
Marks == [free : BOOLEAN, until : Nat \cup {F!None}]
Saves == [pc : {"save"}, s : Sessions, kind : {"chat", "call"}, continued : BOOLEAN]
Markers == [pc : {"busy", "starting"}, s : Sessions, n : Nat]
Frees == [pc : {"free", "free twice"}, s : Sessions]
Tasks == {F!Idle} \cup Saves \cup Markers \cup Frees

FlagTypes ==
  /\ talks \in [Sessions -> Talks] /\ flag \in Marks
  /\ online \in BOOLEAN /\ live \in BOOLEAN /\ byHand \in BOOLEAN
  /\ others \in Nat /\ failures \in Nat /\ restarts \in Nat /\ work \in [Slots -> Tasks]
  /\ \A s \in Sessions : talks[s].status = "none" => talks[s].continued = FALSE

\* An astrologer who is unavailable without an end asked for it or is on a stream.
Wanted ==
  online = TRUE /\ flag.free = FALSE /\ flag.until = F!None => byHand = TRUE \/ live = TRUE

\* One handler after another: only a continued session is about to join that
\* of another user, and who starts a session finds it as it was accepted.
Lone == \A q, r \in Slots : q = r
Talking(s) == talks[s].status \in F!Live
Apart ==
  /\ \A s, t \in Sessions : Talking(s) /\ Talking(t) /\ UserOf[s] # UserOf[t] =>
       talks[s].continued = TRUE \/ talks[t].continued = TRUE
  /\ \A r \in Slots : work[r].pc = "save" =>
       /\ talks[work[r].s].status = "none"
       /\ \/ work[r].continued = TRUE
          \/ \A t \in Sessions : Talking(t) => UserOf[t] = UserOf[work[r].s]
  /\ \A r \in Slots : work[r].pc = "starting" => talks[work[r].s].status = "waiting"

\* Moreover nothing else wrote the flags, no step failed and no session was
\* continued: there is one session, and the flags are ahead of its timer, or
\* the handler that is running will put them ahead of it.
Plain ==
  /\ Lone /\ others = 0 /\ failures = 0 /\ restarts = 0
  /\ \A s \in Sessions : talks[s].continued = FALSE
Ahead(r, s) ==
  LET h == work[r] IN
    /\ talks[s].left # F!None
    /\ h.pc = "idle" => flag.until >= talks[s].left
    /\ h.pc = "save" => h.continued = TRUE
    /\ h.pc = "busy" => h.s = s /\ h.n >= talks[s].left
    /\ h.pc = "starting" => h.s = s /\ flag.until >= h.n
    /\ h.pc \notin {"free", "free twice"}
Marked ==
  /\ live = FALSE /\ online = TRUE
  /\ \A s, t \in Sessions : Talking(s) /\ Talking(t) => s = t
  /\ \A r \in Slots, s \in Sessions : Talking(s) => Ahead(r, s)

FlagInv == FlagTypes /\ Wanted /\ (Lone => Apart) /\ (Plain => Marked)

LEMMA TalkOf ==
  /\ F!NoSession \in Talks /\ F!NoSession.status = "none" /\ F!NoSession.continued = FALSE
  /\ F!Live = {"initiated", "waiting", "active"} /\ F!None = -1 /\ F!Pending \subseteq F!Live
  /\ \A x \in Talks : /\ x.status \in F!Live \cup {"none", "over"} /\ x.continued \in BOOLEAN
                      /\ x.left \in Nat \cup {F!None} /\ x.kind \in {"chat", "call"}
BY DEF F!NoSession, F!Live, F!Pending, F!None, Talks

LEMMA TaskOf ==
  ASSUME FlagTypes, NEW r \in Slots
  PROVE  /\ work[r].pc = "save" => work[r] \in Saves
         /\ work[r].pc \in {"busy", "starting"} => work[r] \in Markers
         /\ work[r].pc \in {"free", "free twice"} => work[r] \in Frees
         /\ work[r].pc # "idle" => work[r].s \in Sessions
<1>1. work[r] \in Tasks
  BY DEF FlagTypes
<1>2. F!Idle.pc = "idle"
  BY DEF F!Idle
<1>3. \A h \in Saves : h.pc = "save" /\ h.s \in Sessions
  BY DEF Saves
<1>4. \A h \in Markers : h.pc \in {"busy", "starting"} /\ h.s \in Sessions
  BY DEF Markers
<1>5. \A h \in Frees : h.pc \in {"free", "free twice"} /\ h.s \in Sessions
  BY DEF Frees
<1> QED BY <1>1, <1>2, <1>3, <1>4, <1>5 DEF Tasks

LEMMA BeginsTask ==
  ASSUME FlagTypes, NEW r \in Slots, NEW h \in Tasks, F!Begin(r, h)
  PROVE  /\ work' \in [Slots -> Tasks] /\ \A q \in Slots \ {r} : work'[q] = work[q]
         /\ work[r].pc = "idle" /\ work'[r] = h
BY DEF FlagTypes, F!Begin, F!At

LEMMA EndsTask ==
  ASSUME FlagTypes, NEW r \in Slots, F!Finish(r)
  PROVE  /\ work' \in [Slots -> Tasks] /\ \A q \in Slots \ {r} : work'[q] = work[q]
         /\ work'[r].pc = "idle"
BY DEF FlagTypes, F!Finish, F!Idle, Tasks

\* The documents that a step saves.
OverOf(x) == F!Over(x)
WaitsOf(x) == [x EXCEPT !.status = "waiting", !.left = 1]
StartedOf(x, n) == [x EXCEPT !.status = "active", !.age = 0, !.limit = n, !.left = n]
ExtendedOf(x, n) == [x EXCEPT !.limit = n, !.left = n]
LostOf(x) == [x EXCEPT !.left = F!None]
MadeOf(x, kind, continued, left) ==
  [x EXCEPT !.status = "initiated", !.kind = kind, !.continued = continued, !.left = left]

LEMMA Ended ==
  ASSUME NEW x \in Talks
  PROVE  F!Over(x) \in Talks /\ F!Over(x).status = "over" /\ F!Over(x).continued = x.continued
<1>1. x.kind \in {"chat", "call"} /\ x.continued \in BOOLEAN /\ F!NoSession \in Talks
  BY TalkOf
<1>2. "over" \in F!Live \cup {"none", "over"}
  OBVIOUS
<1> QED BY <1>1, <1>2, Zenon DEF F!Over, Talks

LEMMA Changed ==
  ASSUME NEW x \in Talks, NEW n \in Nat
  PROVE  /\ WaitsOf(x) \in Talks /\ WaitsOf(x).status = "waiting" /\ WaitsOf(x).left = 1
         /\ WaitsOf(x).continued = x.continued
         /\ StartedOf(x, n) \in Talks /\ StartedOf(x, n).status = "active" /\ StartedOf(x, n).left = n
         /\ StartedOf(x, n).continued = x.continued
         /\ ExtendedOf(x, n) \in Talks /\ ExtendedOf(x, n).status = x.status /\ ExtendedOf(x, n).left = n
         /\ ExtendedOf(x, n).continued = x.continued
         /\ LostOf(x) \in Talks /\ LostOf(x).status = x.status /\ LostOf(x).continued = x.continued
<1>1. /\ "waiting" \in F!Live \cup {"none", "over"} /\ "active" \in F!Live \cup {"none", "over"}
      /\ 1 \in Nat \cup {F!None} /\ n \in Nat \cup {F!None} /\ F!None \in Nat \cup {F!None} /\ 0 \in Nat
  BY TalkOf
<1> QED BY <1>1, Zenon DEF WaitsOf, StartedOf, ExtendedOf, LostOf, Talks

LEMMA MadeIs ==
  ASSUME NEW x \in Talks, NEW kind \in {"chat", "call"}, NEW c \in BOOLEAN, NEW left \in Nat \cup {F!None}
  PROVE  /\ MadeOf(x, kind, c, left) \in Talks /\ MadeOf(x, kind, c, left).status = "initiated"
         /\ MadeOf(x, kind, c, left).continued = c /\ MadeOf(x, kind, c, left).left = left
<1>1. "initiated" \in F!Live \cup {"none", "over"}
  BY TalkOf
<1> QED BY <1>1, Zenon DEF MadeOf, Talks

LEMMA MarkOf ==
  /\ \A n \in Nat : LET m == [free |-> FALSE, until |-> n] IN
       m \in Marks /\ m.free = FALSE /\ m.until = n /\ n # F!None
  /\ LET m == [free |-> TRUE, until |-> F!None] IN m \in Marks /\ m.free = TRUE
BY TalkOf DEF Marks

\* A step that begins no request leaves what one handler at a time may rely on.
LEMMA ApartStays ==
  ASSUME Apart,
         \A s \in Sessions : (Talking(s)' => Talking(s)) /\ talks'[s].continued = talks[s].continued,
         \A r \in Slots : work'[r].pc = "save" =>
           work'[r] = work[r] /\ talks'[work[r].s].status = talks[work[r].s].status,
         \A r \in Slots : work'[r].pc = "starting" => talks'[work'[r].s].status = "waiting"
  PROVE  Apart'
<1>1. \A s, t \in Sessions : Talking(s)' /\ Talking(t)' /\ UserOf[s] # UserOf[t] =>
       talks'[s].continued = TRUE \/ talks'[t].continued = TRUE
  BY DEF Apart
<1>2. ASSUME NEW r \in Slots, work'[r].pc = "save"
      PROVE  /\ talks'[work'[r].s].status = "none"
             /\ \/ work'[r].continued = TRUE
                \/ \A t \in Sessions : Talking(t)' => UserOf[t] = UserOf[work'[r].s]
  BY <1>2 DEF Apart
<1> QED BY <1>1, <1>2 DEF Apart

LEMMA PlainStays ==
  ASSUME FlagInv, Plain', UNCHANGED <<others, failures, restarts>>,
         \A s \in Sessions : talks'[s].continued = talks[s].continued
  PROVE  Plain /\ Marked /\ Lone
<1>1. Plain
  BY DEF Plain
<1> QED BY <1>1 DEF Plain, FlagInv

LEMMA NeverPlain ==
  ASSUME FlagInv,
         others' = others + 1 \/ failures' = failures + 1 \/ restarts' = restarts + 1
  PROVE  ~Plain'
<1>1. others \in Nat /\ failures \in Nat /\ restarts \in Nat
  BY DEF FlagInv, FlagTypes
<1>2. others' # 0 \/ failures' # 0 \/ restarts' # 0
  BY <1>1
<1> QED BY <1>2 DEF Plain

LEMMA CloseStep ==
  ASSUME FlagInv, NEW r \in Slots, NEW s \in Sessions, NEW next \in {"free", "free twice"},
         Talking(s), F!Close(r, s, next)
  PROVE  FlagInv'
<1>0. FlagTypes /\ talks[s] \in Talks
  BY DEF FlagInv, FlagTypes
<1> DEFINE h == [pc |-> next, s |-> s]
           x == F!Over(talks[s])
<1>1. /\ F!Begin(r, h) /\ talks' = [talks EXCEPT ![s] = x]
      /\ UNCHANGED <<flag, byHand, online, live, others, failures, restarts>>
  BY Zenon DEF F!Close, F!KeepFlags, F!SameRest
<1>2. h \in Tasks /\ h.pc = next /\ h.s = s
  BY DEF Tasks, Frees
<1>3. x \in Talks /\ x.status = "over" /\ x.continued = talks[s].continued
  BY <1>0, Ended
<1> HIDE DEF h, x
<1>4. /\ work' \in [Slots -> Tasks] /\ \A q \in Slots \ {r} : work'[q] = work[q]
      /\ work[r].pc = "idle" /\ work'[r].pc = next /\ work'[r].s = s
  BY <1>0, <1>1, <1>2, BeginsTask
<1>5. /\ talks' \in [Sessions -> Talks] /\ talks'[s] = x
      /\ \A t \in Sessions \ {s} : talks'[t] = talks[t]
  BY <1>0, <1>1, <1>3 DEF FlagTypes
<1>6. /\ \A t \in Sessions : talks'[t].continued = talks[t].continued /\ (Talking(t)' => Talking(t))
      /\ ~Talking(s)'
  BY <1>3, <1>5, TalkOf DEF Talking
<1>7. FlagTypes'
  BY <1>0, <1>1, <1>3, <1>4, <1>5 DEF FlagTypes
<1>8. Wanted'
  BY <1>1 DEF FlagInv, Wanted
<1>9. Lone => Apart'
  <2> SUFFICES ASSUME Lone, Apart
               PROVE  Apart'
    BY DEF FlagInv
  <2>1. \A q \in Slots : work'[q].pc \in {"free", "free twice"}
    BY <1>4 DEF Lone
  <2> QED BY <1>6, <2>1, ApartStays
<1>10. Plain' => Marked'
  <2> SUFFICES ASSUME Plain'
               PROVE  Marked'
    OBVIOUS
  <2>1. Plain /\ Marked /\ Lone
    BY <1>1, <1>6, PlainStays
  <2>2. \A t \in Sessions : ~Talking(t)'
    BY <1>6, <2>1 DEF Marked
  <2> QED BY <1>1, <2>1, <2>2 DEF Marked
<1> QED BY <1>7, <1>8, <1>9, <1>10 DEF FlagInv, Lone

LEMMA Closes ==
  ASSUME FlagInv, NEW r \in Slots, NEW s \in Sessions,
         \/ F!RejectOrCancel(r, s) \/ F!EndSession(r, s) \/ F!TimerFires(r, s)
         \/ F!CleanupPending(r, s) \/ F!HandleStale(r, s)
  PROVE  FlagInv'
<1>1. Talking(s)
  BY TalkOf DEF F!RejectOrCancel, F!EndSession, F!TimerFires, F!CleanupPending, F!HandleStale,
     F!Due, F!Stale, Talking
<1>2. PICK next \in {"free", "free twice"} : F!Close(r, s, next)
  BY DEF F!RejectOrCancel, F!EndSession, F!TimerFires, F!CleanupPending, F!HandleStale
<1> QED BY <1>1, <1>2, CloseStep

LEMMA AcceptStep ==
  ASSUME FlagInv, NEW r \in Slots, NEW s \in Sessions, F!Accept(r, s)
  PROVE  FlagInv'
<1>0. FlagTypes /\ talks[s] \in Talks
  BY DEF FlagInv, FlagTypes
<1> DEFINE h == [pc |-> "busy", s |-> s, n |-> 2]
           x == WaitsOf(talks[s])
<1>1. /\ talks[s].status = "initiated" /\ F!Begin(r, h)
      /\ UNCHANGED <<flag, byHand, online, live, others, failures, restarts>>
  BY DEF F!Accept, F!KeepFlags, F!SameRest
<1>1a. talks' = [talks EXCEPT ![s] = x]
  BY Zenon DEF F!Accept, WaitsOf
<1>2. h \in Tasks /\ h.pc = "busy" /\ h.s = s /\ h.n = 2
  BY DEF Tasks, Markers
<1>3. x \in Talks /\ x.status = "waiting" /\ x.continued = talks[s].continued /\ x.left = 1
  BY <1>0, Changed
<1> HIDE DEF h, x
<1>4. /\ work' \in [Slots -> Tasks] /\ \A q \in Slots \ {r} : work'[q] = work[q]
      /\ work[r].pc = "idle" /\ work'[r] = h
  BY <1>0, <1>1, <1>2, BeginsTask
<1>5. /\ talks' \in [Sessions -> Talks] /\ talks'[s] = x
      /\ \A t \in Sessions \ {s} : talks'[t] = talks[t]
  BY <1>0, <1>1a, <1>3 DEF FlagTypes
<1>6. /\ \A t \in Sessions : talks'[t].continued = talks[t].continued /\ (Talking(t)' => Talking(t))
      /\ Talking(s)
  BY <1>1, <1>3, <1>5, TalkOf DEF Talking
<1>7. FlagTypes'
  BY <1>0, <1>1, <1>3, <1>4, <1>5 DEF FlagTypes
<1>8. Wanted'
  BY <1>1 DEF FlagInv, Wanted
<1>9. Lone => Apart'
  <2> SUFFICES ASSUME Lone, Apart
               PROVE  Apart'
    BY DEF FlagInv
  <2>1. \A q \in Slots : work'[q].pc = "busy"
    BY <1>2, <1>4 DEF Lone
  <2> QED BY <1>6, <2>1, ApartStays
<1>10. Plain' => Marked'
  <2> SUFFICES ASSUME Plain'
               PROVE  Marked'
    OBVIOUS
  <2>1. Plain /\ Marked /\ Lone
    BY <1>1, <1>6, PlainStays
  <2>2. \A t \in Sessions : Talking(t)' => t = s
    BY <1>6, <2>1 DEF Marked
  <2>3. Ahead(r, s)'
    <3>1. work'[r].pc = "busy" /\ work'[r].s = s /\ work'[r].n = 2 /\ talks'[s].left = 1
      BY <1>2, <1>3, <1>4, <1>5
    <3>2. 1 # F!None /\ 2 >= 1
      BY TalkOf
    <3> QED BY <3>1, <3>2 DEF Ahead
  <2> QED BY <1>1, <2>1, <2>2, <2>3 DEF Marked, Lone
<1> QED BY <1>7, <1>8, <1>9, <1>10 DEF FlagInv, Lone

LEMMA ExtendStep ==
  ASSUME FlagInv, NEW r \in Slots, NEW s \in Sessions, NEW n \in Nat, F!ExtendSession(r, s, n)
  PROVE  FlagInv'
<1>0. FlagTypes /\ talks[s] \in Talks
  BY DEF FlagInv, FlagTypes
<1> DEFINE h == [pc |-> "busy", s |-> s, n |-> n]
           x == ExtendedOf(talks[s], n)
<1>1. /\ talks[s].status = "active" /\ F!Begin(r, h)
      /\ UNCHANGED <<flag, byHand, online, live, others, failures, restarts>>
  BY DEF F!ExtendSession, F!KeepFlags, F!SameRest
<1>1a. talks' = [talks EXCEPT ![s] = x]
  BY Zenon DEF F!ExtendSession, ExtendedOf
<1>2. h \in Tasks /\ h.pc = "busy" /\ h.s = s /\ h.n = n
  BY DEF Tasks, Markers
<1>3. x \in Talks /\ x.status = "active" /\ x.continued = talks[s].continued /\ x.left = n
  BY <1>0, <1>1, Changed
<1> HIDE DEF h, x
<1>4. /\ work' \in [Slots -> Tasks] /\ \A q \in Slots \ {r} : work'[q] = work[q]
      /\ work[r].pc = "idle" /\ work'[r] = h
  BY <1>0, <1>1, <1>2, BeginsTask
<1>5. /\ talks' \in [Sessions -> Talks] /\ talks'[s] = x
      /\ \A t \in Sessions \ {s} : talks'[t] = talks[t]
  BY <1>0, <1>1a, <1>3 DEF FlagTypes
<1>6. /\ \A t \in Sessions : talks'[t].continued = talks[t].continued /\ (Talking(t)' => Talking(t))
      /\ Talking(s)
  BY <1>1, <1>3, <1>5, TalkOf DEF Talking
<1>7. FlagTypes'
  BY <1>0, <1>1, <1>3, <1>4, <1>5 DEF FlagTypes
<1>8. Wanted'
  BY <1>1 DEF FlagInv, Wanted
<1>9. Lone => Apart'
  <2> SUFFICES ASSUME Lone, Apart
               PROVE  Apart'
    BY DEF FlagInv
  <2>1. \A q \in Slots : work'[q].pc = "busy"
    BY <1>2, <1>4 DEF Lone
  <2> QED BY <1>6, <2>1, ApartStays
<1>10. Plain' => Marked'
  <2> SUFFICES ASSUME Plain'
               PROVE  Marked'
    OBVIOUS
  <2>1. Plain /\ Marked /\ Lone
    BY <1>1, <1>6, PlainStays
  <2>2. \A t \in Sessions : Talking(t)' => t = s
    BY <1>6, <2>1 DEF Marked
  <2>3. Ahead(r, s)'
    <3>1. work'[r].pc = "busy" /\ work'[r].s = s /\ work'[r].n = n /\ talks'[s].left = n
      BY <1>2, <1>3, <1>4, <1>5
    <3>2. n # F!None /\ n >= n
      BY TalkOf
    <3> QED BY <3>1, <3>2 DEF Ahead
  <2> QED BY <1>1, <2>1, <2>2, <2>3 DEF Marked, Lone
<1> QED BY <1>7, <1>8, <1>9, <1>10 DEF FlagInv, Lone

LEMMA StartStep ==
  ASSUME FlagInv, NEW r \in Slots, NEW s \in Sessions, NEW n \in Nat, F!StartSession(r, s, n)
  PROVE  FlagInv'
<1>0. FlagTypes /\ talks[s] \in Talks
  BY DEF FlagInv, FlagTypes
<1> DEFINE h == [pc |-> "starting", s |-> s, n |-> n]
<1>1. /\ talks[s].status = "waiting" /\ F!Begin(r, h)
      /\ flag' = [free |-> FALSE, until |-> n] /\ byHand' = FALSE
      /\ UNCHANGED <<talks, online, live, others, failures, restarts>>
  BY DEF F!StartSession, F!SetBusy, F!SameRest
<1>2. h \in Tasks /\ h.pc = "starting" /\ h.s = s /\ h.n = n
  BY DEF Tasks, Markers
<1>3. flag' \in Marks /\ flag'.until = n /\ n # F!None
  BY <1>1, MarkOf
<1> HIDE DEF h
<1>4. /\ work' \in [Slots -> Tasks] /\ \A q \in Slots \ {r} : work'[q] = work[q]
      /\ work[r].pc = "idle" /\ work'[r] = h
  BY <1>0, <1>1, <1>2, BeginsTask
<1>6. /\ \A t \in Sessions : talks'[t].continued = talks[t].continued /\ (Talking(t)' => Talking(t))
      /\ Talking(s)
  BY <1>1, TalkOf DEF Talking
<1>7. FlagTypes'
  BY <1>0, <1>1, <1>3, <1>4 DEF FlagTypes
<1>8. Wanted'
  BY <1>3 DEF Wanted
<1>9. Lone => Apart'
  <2> SUFFICES ASSUME Lone, Apart
               PROVE  Apart'
    BY DEF FlagInv
  <2>1. \A q \in Slots : work'[q].pc = "starting" /\ work'[q].s = s
    BY <1>2, <1>4 DEF Lone
  <2>2. talks'[s].status = "waiting"
    BY <1>1
  <2> QED BY <1>6, <2>1, <2>2, ApartStays
<1>10. Plain' => Marked'
  <2> SUFFICES ASSUME Plain'
               PROVE  Marked'
    OBVIOUS
  <2>1. Plain /\ Marked /\ Lone
    BY <1>1, <1>6, PlainStays
  <2>2. \A t \in Sessions : Talking(t)' => t = s
    BY <1>6, <2>1 DEF Marked
  <2>3. Ahead(r, s)'
    <3>1. talks[s].left # F!None
      BY <1>6, <2>1 DEF Marked, Ahead
    <3>2. /\ work'[r].pc = "starting" /\ work'[r].s = s /\ work'[r].n = n
          /\ talks'[s].left # F!None /\ flag'.until = n
      BY <1>1, <1>2, <1>3, <1>4, <3>1
    <3>3. n >= n
      OBVIOUS
    <3> QED BY <3>2, <3>3 DEF Ahead
  <2> QED BY <1>1, <2>1, <2>2, <2>3 DEF Marked, Lone
<1> QED BY <1>7, <1>8, <1>9, <1>10 DEF FlagInv, Lone

LEMMA MarkStep ==
  ASSUME FlagInv, NEW r \in Slots, F!MarkBusy(r)
  PROVE  FlagInv'
<1>0. FlagTypes
  BY DEF FlagInv
<1>1. /\ work[r].pc = "busy" /\ F!Finish(r)
      /\ flag' = [free |-> FALSE, until |-> work[r].n] /\ byHand' = FALSE
      /\ UNCHANGED <<talks, online, live, others, failures, restarts>>
  BY DEF F!MarkBusy, F!SetBusy, F!SameRest, F!At
<1>2. work[r].n \in Nat
  BY <1>0, <1>1, TaskOf DEF Markers
<1>3. flag' \in Marks /\ flag'.until = work[r].n /\ work[r].n # F!None
  BY <1>1, <1>2, MarkOf
<1>4. /\ work' \in [Slots -> Tasks] /\ \A q \in Slots \ {r} : work'[q] = work[q]
      /\ work'[r].pc = "idle"
  BY <1>0, <1>1, EndsTask
<1>6. \A t \in Sessions : talks'[t].continued = talks[t].continued /\ (Talking(t)' <=> Talking(t))
  BY <1>1 DEF Talking
<1>7. FlagTypes'
  BY <1>0, <1>1, <1>3, <1>4 DEF FlagTypes
<1>8. Wanted'
  BY <1>3 DEF Wanted
<1>9. Lone => Apart'
  <2> SUFFICES ASSUME Lone, Apart
               PROVE  Apart'
    BY DEF FlagInv
  <2>1. \A q \in Slots : work'[q].pc = "idle"
    BY <1>4 DEF Lone
  <2> QED BY <1>6, <2>1, ApartStays
<1>10. Plain' => Marked'
  <2> SUFFICES ASSUME Plain'
               PROVE  Marked'
    OBVIOUS
  <2>1. Plain /\ Marked /\ Lone
    BY <1>1, <1>6, PlainStays
  <2>2. ASSUME NEW t \in Sessions, Talking(t)
        PROVE  Ahead(r, t)'
    <3>1. work[r].n >= talks[t].left /\ talks[t].left # F!None
      BY <1>1, <2>1, <2>2 DEF Marked, Ahead
    <3> QED BY <1>1, <1>3, <1>4, <3>1 DEF Ahead
  <2> QED BY <1>1, <1>6, <2>1, <2>2 DEF Marked, Lone
<1> QED BY <1>7, <1>8, <1>9, <1>10 DEF FlagInv, Lone

LEMMA SaveStartStep ==
  ASSUME FlagInv, NEW r \in Slots, NEW s, s = work[r].s, NEW n, n = work[r].n, F!SaveStart(r)
  PROVE  FlagInv'
<1>0. FlagTypes
  BY DEF FlagInv
<1> DEFINE x == StartedOf(talks[s], n)
<1>1. /\ work[r].pc = "starting" /\ F!Finish(r)
      /\ UNCHANGED <<flag, byHand, online, live, others, failures, restarts>>
  BY DEF F!SaveStart, F!KeepFlags, F!SameRest, F!At
<1>1a. talks' = [talks EXCEPT ![s] = x]
  BY Zenon DEF F!SaveStart, StartedOf
<1>2. n \in Nat /\ s \in Sessions /\ talks[s] \in Talks
  BY <1>0, <1>1, TaskOf DEF Markers, FlagTypes
<1>3. x \in Talks /\ x.status = "active" /\ x.continued = talks[s].continued /\ x.left = n
  BY <1>2, Changed
<1> HIDE DEF x
<1>4. /\ work' \in [Slots -> Tasks] /\ \A q \in Slots \ {r} : work'[q] = work[q]
      /\ work'[r].pc = "idle"
  BY <1>0, <1>1, EndsTask
<1>5. /\ talks' \in [Sessions -> Talks] /\ talks'[s] = x
      /\ \A t \in Sessions \ {s} : talks'[t] = talks[t]
  BY <1>0, <1>1a, <1>2, <1>3 DEF FlagTypes
<1>6. \A t \in Sessions : talks'[t].continued = talks[t].continued /\ (t # s => (Talking(t)' <=> Talking(t)))
  BY <1>3, <1>5 DEF Talking
<1>7. FlagTypes'
  BY <1>0, <1>1, <1>3, <1>4, <1>5 DEF FlagTypes
<1>8. Wanted'
  BY <1>1 DEF FlagInv, Wanted
<1>9. Lone => Apart /\ Talking(s)
  BY <1>1, TalkOf DEF FlagInv, Apart, Talking
<1>10. Lone => Apart'
  <2> SUFFICES ASSUME Lone
               PROVE  Apart'
    OBVIOUS
  <2>1. \A q \in Slots : work'[q].pc = "idle"
    BY <1>4 DEF Lone
  <2> QED BY <1>6, <1>9, <2>1, ApartStays
<1>11. Plain' => Marked'
  <2> SUFFICES ASSUME Plain'
               PROVE  Marked'
    OBVIOUS
  <2>1. Plain /\ Marked /\ Lone /\ Talking(s)
    BY <1>1, <1>6, <1>9, PlainStays
  <2>2. \A t \in Sessions : Talking(t)' => t = s
    BY <1>2, <1>6, <2>1 DEF Marked
  <2>3. Ahead(r, s)'
    <3>1. flag.until >= n
      BY <1>1, <1>2, <2>1 DEF Marked, Ahead
    <3> QED BY <1>1, <1>2, <1>3, <1>4, <1>5, <3>1, TalkOf DEF Ahead
  <2> QED BY <1>1, <2>1, <2>2, <2>3 DEF Marked, Lone
<1> QED BY <1>7, <1>8, <1>10, <1>11 DEF FlagInv, Lone

LEMMA FreeStep ==
  ASSUME FlagInv, NEW r \in Slots, F!Free(r)
  PROVE  FlagInv'
<1>0. FlagTypes
  BY DEF FlagInv
<1>1. /\ work[r].pc \in {"free", "free twice"}
      /\ flag' = [free |-> TRUE, until |-> F!None] /\ byHand' = FALSE
      /\ UNCHANGED <<talks, online, live, others, failures, restarts>>
  BY DEF F!Free, F!SetAvailable, F!SameRest, F!At
<1>2. flag' \in Marks /\ flag'.free = TRUE
  BY <1>1, MarkOf
<1>4. /\ work' \in [Slots -> Tasks] /\ \A q \in Slots \ {r} : work'[q] = work[q]
      /\ work'[r].pc \in {"idle", "free"}
  <2>1. CASE work[r].pc = "free"
    BY <1>0, <2>1, EndsTask DEF F!Free, F!At
  <2>2. CASE work[r].pc # "free"
    <3> DEFINE h == [work[r] EXCEPT !.pc = "free"]
    <3>1. work[r] \in Frees /\ work' = [work EXCEPT ![r] = h]
      BY <1>0, <1>1, <2>2, TaskOf, Zenon DEF F!Free, F!At, F!Goto
    <3>2. h \in Frees /\ h.pc = "free"
      BY <3>1, Zenon DEF Frees
    <3> HIDE DEF h
    <3> QED BY <1>0, <3>1, <3>2 DEF FlagTypes, Tasks
  <2> QED BY <2>1, <2>2
<1>6. \A t \in Sessions : talks'[t].continued = talks[t].continued /\ (Talking(t)' <=> Talking(t))
  BY <1>1 DEF Talking
<1>7. FlagTypes'
  BY <1>0, <1>1, <1>2, <1>4 DEF FlagTypes
<1>8. Wanted'
  BY <1>2 DEF Wanted
<1>9. Lone => Apart'
  <2> SUFFICES ASSUME Lone, Apart
               PROVE  Apart'
    BY DEF FlagInv
  <2>1. \A q \in Slots : work'[q].pc \in {"idle", "free"}
    BY <1>4 DEF Lone
  <2> QED BY <1>6, <2>1, ApartStays
<1>10. Plain' => Marked'
  <2> SUFFICES ASSUME Plain'
               PROVE  Marked'
    OBVIOUS
  <2>1. Plain /\ Marked /\ Lone
    BY <1>1, <1>6, PlainStays
  <2>2. \A t \in Sessions : ~Talking(t)
    BY <1>1, <2>1 DEF Marked, Ahead
  <2> QED BY <1>1, <1>6, <2>1, <2>2 DEF Marked
<1> QED BY <1>7, <1>8, <1>9, <1>10 DEF FlagInv, Lone

\* Somebody else writes the flags, or there is a fault.
LEMMA OtherStep ==
  ASSUME FlagInv, UNCHANGED <<talks, work>>, others' = others + 1, UNCHANGED <<failures, restarts>>,
         flag' \in Marks, online' \in BOOLEAN, live' \in BOOLEAN, byHand' \in BOOLEAN, Wanted'
  PROVE  FlagInv'
<1>1. FlagTypes'
  BY DEF FlagInv, FlagTypes
<1>2. ~Plain'
  BY NeverPlain
<1>3. Lone => Apart'
  BY DEF FlagInv, Apart, Talking
<1> QED BY <1>1, <1>2, <1>3 DEF FlagInv, Lone

\* The flags with one field written.
FreedOf(m, on) == [m EXCEPT !.free = on]
LEMMA Freed ==
  ASSUME NEW m \in Marks, NEW on \in BOOLEAN
  PROVE  FreedOf(m, on) \in Marks /\ FreedOf(m, on).free = on /\ FreedOf(m, on).until = m.until
BY Zenon DEF FreedOf, Marks

LEMMA Others ==
  ASSUME FlagInv,
         \/ \E on \in BOOLEAN : F!TurnOnline(on) \/ F!TurnAvailable(on)
         \/ F!GoLive \/ F!Logout \/ F!CancelOrder
  PROVE  FlagInv'
<1>0. /\ FlagTypes /\ flag \in Marks /\ online \in BOOLEAN /\ live \in BOOLEAN /\ byHand \in BOOLEAN
      /\ FALSE \in BOOLEAN /\ TRUE \in BOOLEAN
  BY DEF FlagInv, FlagTypes
<1>1. ASSUME NEW on \in BOOLEAN, F!TurnOnline(on)
      PROVE  FlagInv'
  <2>1. /\ flag' = [free |-> TRUE, until |-> F!None] /\ byHand' = FALSE /\ online' = on
        /\ others' = others + 1 /\ UNCHANGED <<talks, work, failures, restarts, live>>
    BY <1>1 DEF F!TurnOnline, F!Other, F!SetAvailable
  <2>2. flag' \in Marks /\ flag'.free = TRUE
    BY <2>1, MarkOf
  <2>3. Wanted'
    BY <2>2 DEF Wanted
  <2> QED BY <1>0, <2>1, <2>2, <2>3, OtherStep
<1>2. ASSUME NEW on \in BOOLEAN, F!TurnAvailable(on)
      PROVE  FlagInv'
  <2>1. /\ byHand' = ~on /\ others' = others + 1 /\ UNCHANGED <<talks, work, failures, restarts, live, online>>
    BY <1>2 DEF F!TurnAvailable, F!Other
  <2>2. flag' = FreedOf(flag, on)
    BY <1>2, Zenon DEF F!TurnAvailable, FreedOf
  <2>3. flag' \in Marks /\ flag'.free = on
    BY <1>0, <2>2, Freed
  <2>4. Wanted'
    BY <2>1, <2>3 DEF Wanted
  <2>5. byHand' \in BOOLEAN
    BY <2>1
  <2> QED BY <1>0, <2>1, <2>3, <2>4, <2>5, OtherStep
<1>3. ASSUME F!GoLive
      PROVE  FlagInv'
  <2>1. /\ live' = TRUE /\ online' = TRUE /\ others' = others + 1
        /\ UNCHANGED <<talks, work, failures, restarts, byHand>>
    BY <1>3 DEF F!GoLive, F!Other
  <2>2. flag' = FreedOf(flag, FALSE)
    BY <1>3, Zenon DEF F!GoLive, FreedOf
  <2>3. flag' \in Marks
    BY <1>0, <2>2, Freed
  <2>4. Wanted'
    BY <2>1 DEF Wanted
  <2> QED BY <1>0, <2>1, <2>3, <2>4, OtherStep
<1>4. ASSUME F!Logout
      PROVE  FlagInv'
  <2>1. /\ live' = FALSE /\ online' = FALSE /\ others' = others + 1
        /\ UNCHANGED <<talks, work, failures, restarts, byHand>>
    BY <1>4 DEF F!Logout, F!Other
  <2>2. flag' = FreedOf(flag, FALSE)
    BY <1>4, Zenon DEF F!Logout, FreedOf
  <2>3. flag' \in Marks
    BY <1>0, <2>2, Freed
  <2>4. Wanted'
    BY <2>1 DEF Wanted
  <2> QED BY <1>0, <2>1, <2>3, <2>4, OtherStep
<1>5. ASSUME F!CancelOrder
      PROVE  FlagInv'
  <2>1. /\ flag' = [free |-> TRUE, until |-> F!None] /\ byHand' = FALSE
        /\ others' = others + 1 /\ UNCHANGED <<talks, work, failures, restarts, live, online>>
    BY <1>5 DEF F!CancelOrder, F!Other, F!SetAvailable
  <2>2. flag' \in Marks /\ flag'.free = TRUE
    BY <2>1, MarkOf
  <2>3. Wanted'
    BY <2>2 DEF Wanted
  <2> QED BY <1>0, <2>1, <2>2, <2>3, OtherStep
<1> QED BY <1>1, <1>2, <1>3, <1>4, <1>5

LEMMA EndLiveStep ==
  ASSUME FlagInv, F!EndLive
  PROVE  FlagInv'
<1>0. FlagTypes /\ flag \in Marks
  BY DEF FlagInv, FlagTypes
<1>1. /\ live = TRUE /\ live' = FALSE /\ byHand' = FALSE
      /\ UNCHANGED <<talks, online, others, failures, restarts, work>>
  BY <1>0 DEF F!EndLive, FlagTypes
<1>2. flag' = FreedOf(flag, TRUE)
  BY Zenon DEF F!EndLive, FreedOf
<1>3. flag' \in Marks /\ flag'.free = TRUE
  BY <1>0, <1>2, Freed
<1>4. FlagTypes'
  BY <1>0, <1>1, <1>3 DEF FlagTypes
<1>5. Wanted'
  BY <1>3 DEF Wanted
<1>6. Lone => Apart'
  BY <1>1 DEF FlagInv, Apart, Talking
<1>7. ~Plain'
  BY <1>1 DEF FlagInv, Plain, Lone, Marked
<1> QED BY <1>4, <1>5, <1>6, <1>7 DEF FlagInv, Lone

LEMMA ThrowStep ==
  ASSUME FlagInv, NEW r \in Slots, F!HandlerThrows(r)
  PROVE  FlagInv'
<1>0. FlagTypes
  BY DEF FlagInv
<1>1. /\ F!Finish(r) /\ failures' = failures + 1
      /\ UNCHANGED <<talks, flag, byHand, online, live, others, restarts>>
  BY DEF F!HandlerThrows, F!KeepFlags
<1>2. /\ work' \in [Slots -> Tasks] /\ work'[r].pc = "idle"
  BY <1>0, <1>1, EndsTask
<1>3. FlagTypes'
  BY <1>0, <1>1, <1>2 DEF FlagTypes
<1>4. Wanted'
  BY <1>1 DEF FlagInv, Wanted
<1>5. Lone => Apart'
  <2> SUFFICES ASSUME Lone, Apart
               PROVE  Apart'
    BY DEF FlagInv
  <2>1. \A q \in Slots : work'[q].pc = "idle"
    BY <1>2 DEF Lone
  <2>2. \A t \in Sessions : talks'[t].continued = talks[t].continued /\ (Talking(t)' <=> Talking(t))
    BY <1>1 DEF Talking
  <2> QED BY <2>1, <2>2, ApartStays
<1>6. ~Plain'
  BY <1>1, NeverPlain
<1> QED BY <1>3, <1>4, <1>5, <1>6 DEF FlagInv, Lone

LEMMA RestartStep ==
  ASSUME FlagInv, F!Restart
  PROVE  FlagInv'
<1>0. FlagTypes
  BY DEF FlagInv
<1>1. /\ restarts' = restarts + 1 /\ work' = [r \in Slots |-> F!Idle]
      /\ UNCHANGED <<flag, byHand, online, live, others, failures>>
  BY DEF F!Restart, F!KeepFlags
<1>2. talks' = [t \in Sessions |-> LostOf(talks[t])]
  BY Zenon DEF F!Restart, LostOf
<1>3. \A t \in Sessions : /\ LostOf(talks[t]) \in Talks /\ talks'[t].status = talks[t].status
                          /\ talks'[t].continued = talks[t].continued
  <2> TAKE t \in Sessions
  <2>1. talks[t] \in Talks /\ 0 \in Nat
    BY <1>0 DEF FlagTypes
  <2> QED BY <1>2, <2>1, Changed
<1>4. talks' \in [Sessions -> Talks]
  BY <1>2, <1>3
<1>5. work' \in [Slots -> Tasks] /\ \A q \in Slots : work'[q].pc = "idle"
  BY <1>1 DEF F!Idle, Tasks
<1>6. FlagTypes'
  BY <1>0, <1>1, <1>3, <1>4, <1>5 DEF FlagTypes
<1>7. Wanted'
  BY <1>1 DEF FlagInv, Wanted
<1>8. Lone => Apart'
  BY <1>3, <1>5, ApartStays DEF FlagInv, Talking
<1>9. ~Plain'
  BY <1>1, NeverPlain
<1> QED BY <1>6, <1>7, <1>8, <1>9 DEF FlagInv, Lone

\* A minute passes.
Down(n) == IF n > 0 THEN n - 1 ELSE n
LaterOf(x) == [x EXCEPT !.age = IF @ < F!OldestAge THEN @ + 1 ELSE @, !.left = Down(@)]
LaterMark(m) == [m EXCEPT !.until = Down(@)]

LEMMA CountsDown ==
  /\ \A n \in Nat \cup {F!None} : Down(n) \in Nat \cup {F!None} /\ (Down(n) = F!None <=> n = F!None)
  /\ \A m, n \in Nat \cup {F!None} : m # 0 /\ m # F!None /\ n >= m => Down(n) >= Down(m)
BY TalkOf DEF Down

LEMMA Later ==
  ASSUME NEW x \in Talks
  PROVE  /\ LaterOf(x) \in Talks /\ LaterOf(x).status = x.status /\ LaterOf(x).left = Down(x.left)
         /\ LaterOf(x).continued = x.continued
<1>1. x.age \in Nat /\ x.left \in Nat \cup {F!None}
  BY DEF Talks
<1>2. (IF x.age < F!OldestAge THEN x.age + 1 ELSE x.age) \in Nat
  BY <1>1
<1>3. Down(x.left) \in Nat \cup {F!None}
  BY <1>1, CountsDown
<1> QED BY <1>2, <1>3, Zenon DEF LaterOf, Talks

LEMMA LaterFlag ==
  ASSUME NEW m \in Marks
  PROVE  LaterMark(m) \in Marks /\ LaterMark(m).free = m.free /\ LaterMark(m).until = Down(m.until)
<1>1. Down(m.until) \in Nat \cup {F!None}
  BY CountsDown DEF Marks
<1> QED BY <1>1, Zenon DEF LaterMark, Marks

LEMMA MinuteStep ==
  ASSUME FlagInv, F!Minute
  PROVE  FlagInv'
<1>0. FlagTypes /\ flag \in Marks /\ flag.until \in Nat \cup {F!None}
  BY DEF FlagInv, FlagTypes, Marks
<1>1. /\ F!NothingDue /\ \A r \in Slots : work[r].pc = "idle"
      /\ UNCHANGED <<work, byHand, online, live, others, failures, restarts>>
  BY DEF F!Minute, F!Quiet, F!At, F!SameRest
<1>2. talks' = [t \in Sessions |-> IF talks[t].status \notin F!Live THEN talks[t] ELSE LaterOf(talks[t])]
  BY Zenon DEF F!Minute, LaterOf, Down
<1>3. flag' = LaterMark(flag)
  BY Zenon DEF F!Minute, LaterMark, Down
<1>4. \A t \in Sessions :
        /\ LaterOf(talks[t]) \in Talks /\ talks[t] \in Talks /\ talks'[t].status = talks[t].status
        /\ talks'[t].continued = talks[t].continued
        /\ Talking(t) => talks'[t].left = Down(talks[t].left)
  <2> TAKE t \in Sessions
  <2>1. talks[t] \in Talks
    BY <1>0 DEF FlagTypes
  <2> QED BY <1>2, <2>1, Later DEF Talking
<1>5. talks' \in [Sessions -> Talks]
  BY <1>2, <1>4
<1>6. flag' \in Marks /\ flag'.free = flag.free /\ flag'.until = Down(flag.until)
  BY <1>0, <1>3, LaterFlag
<1>7. FlagTypes'
  BY <1>0, <1>1, <1>4, <1>5, <1>6 DEF FlagTypes
<1>8. Wanted'
  BY <1>0, <1>1, <1>6, CountsDown DEF FlagInv, Wanted
<1>9. Lone => Apart'
  BY <1>1, <1>4, ApartStays DEF FlagInv, Talking
<1>10. Plain' => Marked'
  <2> SUFFICES ASSUME Plain'
               PROVE  Marked'
    OBVIOUS
  <2>1. Plain /\ Marked /\ Lone
    BY <1>1, <1>4, PlainStays
  <2>2. ASSUME NEW r \in Slots, NEW t \in Sessions, Talking(t)
        PROVE  Ahead(r, t)'
    <3>1. /\ talks[t].left # F!None /\ flag.until >= talks[t].left /\ talks[t].left # 0
          /\ talks[t].left \in Nat \cup {F!None}
      BY <1>1, <1>4, <2>1, <2>2, TalkOf DEF Marked, Ahead, F!NothingDue, F!Due, Talking
    <3>2. flag'.until >= talks'[t].left /\ talks'[t].left # F!None
      BY <1>0, <1>4, <1>6, <2>2, <3>1, CountsDown
    <3> QED BY <1>1, <3>2 DEF Ahead
  <2> QED BY <1>1, <1>4, <2>1, <2>2 DEF Marked, Talking
<1> QED BY <1>7, <1>8, <1>9, <1>10 DEF FlagInv, Lone

\* A request is saved; with one handler at a time nobody else's was accepted
\* since its check.
LEMMA SaveStep ==
  ASSUME FlagInv, NEW r \in Slots, NEW w, w = work[r], F!SaveRequest(r)
  PROVE  FlagInv'
<1>0. FlagTypes
  BY DEF FlagInv
<1> DEFINE left == IF w.kind = "call" /\ w.continued THEN F!None ELSE 3
           x == MadeOf(F!NoSession, w.kind, w.continued, left)
           h == [pc |-> "busy", s |-> w.s, n |-> 3]
<1>1. /\ w.pc = "save" /\ UNCHANGED <<flag, byHand, online, live, others, failures, restarts>>
      /\ \/ w.continued = TRUE /\ F!Finish(r)
         \/ work' = [work EXCEPT ![r] = h]
  BY DEF F!SaveRequest, F!KeepFlags, F!SameRest, F!At
<1>1a. talks' = [talks EXCEPT ![w.s] = x]
  BY Zenon DEF F!SaveRequest, MadeOf
<1>2. w \in Saves /\ w.s \in Sessions /\ w.kind \in {"chat", "call"} /\ w.continued \in BOOLEAN
  BY <1>0, <1>1, TaskOf DEF Saves
<1>2a. left \in Nat \cup {F!None} /\ (left = F!None => w.continued = TRUE) /\ (left # F!None => left = 3)
  BY TalkOf
<1>2b. h \in Tasks /\ h.pc = "busy" /\ h.s = w.s /\ h.n = 3
  BY <1>2 DEF Tasks, Markers
<1> HIDE DEF left, h
<1>3. x \in Talks /\ x.status = "initiated" /\ x.continued = w.continued /\ x.left = left
  <2> DEFINE kind == w.kind
             c == w.continued
             blank == F!NoSession
  <2>1. blank \in Talks /\ kind \in {"chat", "call"} /\ c \in BOOLEAN /\ left \in Nat \cup {F!None}
    BY <1>2, <1>2a, TalkOf
  <2> HIDE DEF kind, c, blank
  <2>2. /\ MadeOf(blank, kind, c, left) \in Talks /\ MadeOf(blank, kind, c, left).status = "initiated"
        /\ MadeOf(blank, kind, c, left).continued = c /\ MadeOf(blank, kind, c, left).left = left
    BY <2>1, MadeIs
  <2> QED BY <2>2, Zenon DEF kind, c, blank
<1> HIDE DEF x
<1>4. /\ work' \in [Slots -> Tasks] /\ \A q \in Slots \ {r} : work'[q] = work[q]
      /\ \/ work'[r].pc = "idle" /\ w.continued = TRUE
         \/ work'[r].pc = "busy" /\ work'[r].s = w.s /\ work'[r].n = 3
  <2>1. CASE w.continued = TRUE /\ F!Finish(r)
    BY <1>0, <2>1, EndsTask
  <2>2. CASE work' = [work EXCEPT ![r] = h]
    BY <1>0, <1>2b, <2>2 DEF FlagTypes
  <2> QED BY <1>1, <2>1, <2>2
<1>5. /\ talks' \in [Sessions -> Talks] /\ talks'[w.s] = x
      /\ \A t \in Sessions \ {w.s} : talks'[t] = talks[t]
  BY <1>0, <1>1a, <1>2, <1>3 DEF FlagTypes
<1>6. /\ \A t \in Sessions \ {w.s} : (Talking(t)' <=> Talking(t)) /\ talks'[t].continued = talks[t].continued
      /\ talks'[w.s].continued = w.continued /\ talks'[w.s].left = left /\ talks'[w.s].status = "initiated"
  BY <1>3, <1>5 DEF Talking
<1>7. FlagTypes'
  BY <1>0, <1>1, <1>3, <1>4, <1>5 DEF FlagTypes
<1>8. Wanted'
  BY <1>1 DEF FlagInv, Wanted
<1>9. Lone => /\ Apart /\ talks[w.s].status = "none" /\ talks[w.s].continued = FALSE
              /\ \/ w.continued = TRUE
                 \/ \A t \in Sessions : Talking(t) => UserOf[t] = UserOf[w.s]
  BY <1>0, <1>1, <1>2 DEF FlagInv, Apart, FlagTypes
<1>10. Lone => Apart'
  <2> SUFFICES ASSUME Lone
               PROVE  Apart'
    OBVIOUS
  <2>1. ASSUME NEW s \in Sessions, NEW t \in Sessions, Talking(s)', Talking(t)', UserOf[s] # UserOf[t]
        PROVE  talks'[s].continued = TRUE \/ talks'[t].continued = TRUE
    <3>1. CASE s # w.s /\ t # w.s
      BY <1>6, <1>9, <2>1, <3>1 DEF Apart
    <3>2. CASE s = w.s \/ t = w.s
      BY <1>6, <1>9, <2>1, <3>2
    <3> QED BY <3>1, <3>2
  <2>2. \A q \in Slots : work'[q].pc \in {"idle", "busy"}
    BY <1>4 DEF Lone
  <2> QED BY <2>1, <2>2 DEF Apart
<1>11. Plain' => Marked'
  <2> SUFFICES ASSUME Plain'
               PROVE  Marked'
    OBVIOUS
  <2>1. Lone /\ w.continued = FALSE
    BY <1>2, <1>6 DEF Plain, Lone
  <2>2. Plain
    BY <1>1, <1>6, <1>9, <2>1 DEF Plain
  <2>3. Marked /\ \A t \in Sessions : ~Talking(t)
    BY <1>1, <2>1, <2>2 DEF FlagInv, Marked, Ahead
  <2>4. \A t \in Sessions : Talking(t)' => t = w.s
    BY <1>6, <2>3
  <2>5. Ahead(r, w.s)'
    <3>1. /\ work'[r].pc = "busy" /\ work'[r].s = w.s /\ work'[r].n = 3
          /\ talks'[w.s].left = 3 /\ talks'[w.s].left # F!None
      BY <1>2a, <1>4, <1>6, <2>1
    <3>2. 3 >= 3
      OBVIOUS
    <3> QED BY <3>1, <3>2 DEF Ahead
  <2> QED BY <1>1, <2>1, <2>3, <2>4, <2>5 DEF Marked, Lone
<1> QED BY <1>7, <1>8, <1>10, <1>11 DEF FlagInv, Lone

LEMMA ContinueChatStep ==
  ASSUME FlagInv, NEW r \in Slots, NEW s \in Sessions, F!ContinueChat(r, s)
  PROVE  FlagInv'
<1>0. FlagTypes
  BY DEF FlagInv
<1> DEFINE h == [pc |-> "save", s |-> s, kind |-> "chat", continued |-> TRUE]
<1>1. /\ talks[s].status = "none" /\ F!Begin(r, h)
      /\ UNCHANGED <<talks, flag, byHand, online, live, others, failures, restarts>>
  BY DEF F!ContinueChat, F!Unheard, F!KeepFlags, F!SameRest
<1>2. h \in Tasks /\ h.pc = "save" /\ h.s = s /\ h.continued = TRUE
  BY DEF Tasks, Saves
<1> HIDE DEF h
<1>4. /\ work' \in [Slots -> Tasks] /\ \A q \in Slots \ {r} : work'[q] = work[q]
      /\ work[r].pc = "idle" /\ work'[r].pc = "save" /\ work'[r].s = s /\ work'[r].continued = TRUE
  BY <1>0, <1>1, <1>2, BeginsTask
<1>6. \A t \in Sessions : talks'[t].continued = talks[t].continued /\ (Talking(t)' <=> Talking(t))
  BY <1>1 DEF Talking
<1>7. FlagTypes'
  BY <1>0, <1>1, <1>4 DEF FlagTypes
<1>8. Wanted'
  BY <1>1 DEF FlagInv, Wanted
<1>9. Lone => Apart'
  <2> SUFFICES ASSUME Lone, Apart
               PROVE  Apart'
    BY DEF FlagInv
  <2>1. \A q \in Slots : work'[q].pc = "save" /\ work'[q].s = s /\ work'[q].continued = TRUE
    BY <1>4 DEF Lone
  <2>2. talks'[s].status = "none"
    BY <1>1
  <2> QED BY <1>6, <2>1, <2>2 DEF Apart
<1>10. Plain' => Marked'
  <2> SUFFICES ASSUME Plain'
               PROVE  Marked'
    OBVIOUS
  <2>1. Plain /\ Marked /\ Lone
    BY <1>1, <1>6, PlainStays
  <2>2. ASSUME NEW t \in Sessions, Talking(t)
        PROVE  Ahead(r, t)'
    <3>1. talks'[t].left # F!None
      BY <1>1, <2>1, <2>2 DEF Marked, Ahead
    <3> QED BY <1>4, <3>1 DEF Ahead
  <2> QED BY <1>1, <1>6, <2>1, <2>2 DEF Marked, Lone
<1> QED BY <1>7, <1>8, <1>9, <1>10 DEF FlagInv, Lone

LEMMA ContinueCallStep ==
  ASSUME FlagInv, NEW r \in Slots, NEW s \in Sessions, NEW pays \in BOOLEAN, F!ContinueCall(r, s, pays)
  PROVE  FlagInv'
<1>0. FlagTypes
  BY DEF FlagInv
<1> DEFINE h == [pc |-> "save", s |-> s, kind |-> "call", continued |-> TRUE]
<1>1. /\ talks[s].status = "none" /\ others' = others + 1
      /\ flag' = [free |-> TRUE, until |-> F!None] /\ byHand' = FALSE
      /\ F!Begin(r, h) \/ (work[r].pc = "idle" /\ UNCHANGED work)
      /\ UNCHANGED <<talks, online, live, failures, restarts>>
  BY DEF F!ContinueCall, F!Unheard, F!SetAvailable, F!At
<1>2. h \in Tasks /\ h.pc = "save" /\ h.s = s /\ h.continued = TRUE
  BY DEF Tasks, Saves
<1>3. flag' \in Marks /\ flag'.free = TRUE
  BY <1>1, MarkOf
<1> HIDE DEF h
<1>4. /\ work' \in [Slots -> Tasks]
      /\ \/ work'[r].pc = "idle"
         \/ work'[r].pc = "save" /\ work'[r].s = s /\ work'[r].continued = TRUE
  <2>1. CASE F!Begin(r, h)
    BY <1>0, <1>2, <2>1, BeginsTask
  <2>2. CASE work[r].pc = "idle" /\ UNCHANGED work
    BY <1>0, <2>2 DEF FlagTypes
  <2> QED BY <1>1, <2>1, <2>2
<1>6. \A t \in Sessions : talks'[t].continued = talks[t].continued /\ (Talking(t)' <=> Talking(t))
  BY <1>1 DEF Talking
<1>7. FlagTypes'
  <2>1. others' \in Nat /\ byHand' \in BOOLEAN
    <3>1. others' = others + 1 /\ byHand' = FALSE
      BY <1>1
    <3>2. others \in Nat
      BY <1>0 DEF FlagTypes
    <3>3. others' \in Nat
      BY <3>1, <3>2
    <3>4. byHand' \in BOOLEAN
      BY <3>1
    <3> QED BY <3>3, <3>4
  <2>2. UNCHANGED <<talks, online, live, failures, restarts>>
    BY <1>1
  <2> QED BY <1>0, <1>3, <1>4, <2>1, <2>2 DEF FlagTypes
<1>8. Wanted'
  BY <1>3 DEF Wanted
<1>9. Lone => Apart'
  <2> SUFFICES ASSUME Lone, Apart
               PROVE  Apart'
    BY DEF FlagInv
  <2>1. \A q \in Slots : work'[q].pc = "idle" \/
          (work'[q].pc = "save" /\ work'[q].s = s /\ work'[q].continued = TRUE)
    BY <1>4 DEF Lone
  <2>2. talks'[s].status = "none"
    BY <1>1
  <2> QED BY <1>6, <2>1, <2>2 DEF Apart
<1>10. ~Plain'
  BY <1>1, NeverPlain
<1> QED BY <1>7, <1>8, <1>9, <1>10 DEF FlagInv, Lone

LEMMA DropsOld ==
  ASSUME FlagTypes, NEW u, NEW kind, talks' = F!Cancelled(F!Dropped(u, kind))
  PROVE  /\ talks' \in [Sessions -> Talks]
         /\ \A t \in Sessions : /\ talks'[t].continued = talks[t].continued
                                /\ Talking(t)' => Talking(t) /\ talks'[t] = talks[t]
                                /\ talks[t].status = "none" => talks'[t] = talks[t]
                                /\ talks'[t].status = "none" => talks'[t] = talks[t]
<1> DEFINE gone == F!Dropped(u, kind)
<1>1. \A t \in gone : t \in Sessions /\ Talking(t)
  BY DEF F!Dropped, F!Mine, Talking
<1>2. \A t \in Sessions : talks'[t] = IF t \in gone THEN F!Over(talks[t]) ELSE talks[t]
  BY Zenon DEF F!Cancelled
<1>3. talks' = [t \in Sessions |-> IF t \in gone THEN F!Over(talks[t]) ELSE talks[t]]
  BY Zenon DEF F!Cancelled
<1> HIDE DEF gone
<1>4. \A t \in Sessions : /\ talks[t] \in Talks /\ F!Over(talks[t]) \in Talks
                          /\ F!Over(talks[t]).status = "over"
                          /\ F!Over(talks[t]).continued = talks[t].continued
  BY Ended DEF FlagTypes
<1> QED BY <1>1, <1>2, <1>3, <1>4, TalkOf DEF Talking

LEMMA RequestStep ==
  ASSUME FlagInv, NEW r \in Slots, NEW s \in Sessions, NEW kind \in {"chat", "call"}, NEW pays \in BOOLEAN,
         F!Initiate(r, s, kind, pays)
  PROVE  FlagInv'
<1>0. FlagTypes /\ flag \in Marks
  BY DEF FlagInv, FlagTypes
<1> DEFINE h == [pc |-> "save", s |-> s, kind |-> kind, continued |-> FALSE]
<1>1. /\ F!NothingDue /\ talks[s].status = "none" /\ talks' = F!Cancelled(F!Dropped(UserOf[s], kind))
      /\ \/ UNCHANGED <<flag, byHand>>
         \/ F!Lapsed /\ flag' = [free |-> TRUE, until |-> F!None] /\ byHand' = FALSE
      /\ \/ F!IsAvailableNow(UserOf[s]) /\ F!Begin(r, h)
         \/ work[r].pc = "idle" /\ UNCHANGED work
      /\ UNCHANGED <<online, live, others, failures, restarts>>
  BY DEF F!Initiate, F!Unheard, F!SetAvailable, F!KeepFlags, F!SameRest, F!At
<1>2. h \in Tasks /\ h.pc = "save" /\ h.s = s /\ h.continued = FALSE
  BY DEF Tasks, Saves
<1> HIDE DEF h
<1>3. /\ flag' \in Marks
      /\ UNCHANGED <<flag, byHand>> \/ (flag'.free = TRUE /\ byHand' = FALSE /\ flag.until = 0)
  BY <1>0, <1>1, MarkOf DEF F!Lapsed
<1>4. /\ work' \in [Slots -> Tasks] /\ work[r].pc = "idle"
      /\ \/ work'[r].pc = "idle"
         \/ work'[r].pc = "save" /\ work'[r].s = s /\ F!IsAvailableNow(UserOf[s])
  <2>1. CASE F!IsAvailableNow(UserOf[s]) /\ F!Begin(r, h)
    BY <1>0, <1>2, <2>1, BeginsTask
  <2>2. CASE work[r].pc = "idle" /\ UNCHANGED work
    BY <1>0, <2>2 DEF FlagTypes
  <2> QED BY <1>1, <2>1, <2>2
<1>5. /\ talks' \in [Sessions -> Talks]
      /\ \A t \in Sessions : /\ talks'[t].continued = talks[t].continued
                             /\ Talking(t)' => Talking(t) /\ talks'[t] = talks[t]
                             /\ talks[t].status = "none" => talks'[t] = talks[t]
                             /\ talks'[t].status = "none" => talks'[t] = talks[t]
  BY <1>0, <1>1, DropsOld
<1>7. FlagTypes'
  BY <1>0, <1>1, <1>3, <1>4, <1>5 DEF FlagTypes
<1>8. Wanted'
  BY <1>1, <1>3 DEF FlagInv, Wanted
<1>9. Lone => Apart'
  <2> SUFFICES ASSUME Lone, Apart
               PROVE  Apart'
    BY DEF FlagInv
  <2>1. \A q \in Slots : q = r
    BY DEF Lone
  <2>2. CASE work'[r].pc = "idle"
    BY <1>5, <2>1, <2>2 DEF Apart
  <2>3. CASE work'[r].pc = "save" /\ work'[r].s = s /\ F!IsAvailableNow(UserOf[s])
    <3>1. \A t \in Sessions : Talking(t) => UserOf[t] = UserOf[s]
      BY <2>3 DEF F!IsAvailableNow, F!HasActiveSession, Talking
    <3>2. talks'[s].status = "none"
      BY <1>1, <1>5
    <3> QED BY <1>5, <2>1, <2>3, <3>1, <3>2 DEF Apart
  <2> QED BY <1>4, <2>2, <2>3
<1>10. Plain' => Marked'
  <2> SUFFICES ASSUME Plain'
               PROVE  Marked'
    OBVIOUS
  <2>1. Plain /\ Marked /\ Lone
    BY <1>1, <1>5, PlainStays
  <2>2. ASSUME NEW t \in Sessions, Talking(t)
        PROVE  flag.until >= talks[t].left /\ talks[t].left # F!None /\ flag.until >= 1
    <3>1. /\ flag.until >= talks[t].left /\ talks[t].left # F!None /\ talks[t].left # 0
          /\ talks[t].left \in Nat \cup {F!None}
      BY <1>0, <1>1, <1>4, <2>1, <2>2, TalkOf DEF Marked, Ahead, F!NothingDue, F!Due, Talking, FlagTypes
    <3>2. flag.until \in Nat \cup {F!None}
      BY <1>0 DEF Marks
    <3> QED BY <3>1, <3>2, TalkOf
  <2>3. ASSUME NEW t \in Sessions, Talking(t)'
        PROVE  Ahead(r, t)'
    <3>1. Talking(t) /\ talks'[t] = talks[t]
      BY <1>5, <2>3
    <3>2. flag.until >= talks[t].left /\ talks[t].left # F!None /\ flag.until >= 1
      BY <2>2, <3>1
    <3>3. flag.until # 0 /\ ~(flag.until <= 0)
      <4>1. flag.until \in Int
        BY <1>0, TalkOf DEF Marks
      <4> QED BY <3>2, <4>1
    <3>4. flag' = flag
      BY <1>3, <3>3
    <3>5. work'[r].pc = "idle"
      BY <1>4, <3>3 DEF F!IsAvailableNow
    <3>6. flag'.until >= talks'[t].left /\ talks'[t].left # F!None
      BY <3>1, <3>2, <3>4
    <3> QED BY <3>5, <3>6 DEF Ahead
  <2> QED BY <1>1, <1>5, <2>1, <2>3 DEF Marked, Lone
<1> QED BY <1>7, <1>8, <1>9, <1>10 DEF FlagInv, Lone

LEMMA FlagSteps ==
  ASSUME FlagInv, [F!Next]_F!avars
  PROVE  FlagInv'
<1>1. ASSUME NEW r \in Slots, F!Continues(r) \/ F!HandlerThrows(r)
      PROVE  FlagInv'
  BY <1>1, MarkStep, SaveStep, SaveStartStep, FreeStep, ThrowStep DEF F!Continues
<1>2. ASSUME NEW r \in Slots, NEW s \in Sessions, F!Asks(r, s) \/ F!Accept(r, s)
      PROVE  FlagInv'
  BY <1>2, RequestStep, ContinueChatStep, ContinueCallStep, AcceptStep DEF F!Asks
<1>3. ASSUME NEW r \in Slots, NEW s \in Sessions,
             \/ F!RejectOrCancel(r, s) \/ F!EndSession(r, s) \/ F!TimerFires(r, s)
             \/ F!CleanupPending(r, s) \/ F!HandleStale(r, s)
      PROVE  FlagInv'
  BY <1>3, Closes
<1>4. ASSUME NEW r \in Slots, NEW s \in Sessions, NEW n \in 1..Longest,
             F!StartSession(r, s, n) \/ F!ExtendSession(r, s, n)
      PROVE  FlagInv'
  <2>1. n \in Nat
    OBVIOUS
  <2> QED BY <1>4, <2>1, StartStep, ExtendStep
<1>5. CASE \/ \E on \in BOOLEAN : F!TurnOnline(on) \/ F!TurnAvailable(on)
           \/ F!GoLive \/ F!Logout \/ F!CancelOrder
  BY <1>5, Others
<1>6. CASE F!EndLive \/ F!Minute \/ F!Restart
  BY <1>6, EndLiveStep, MinuteStep, RestartStep
<1>7. CASE UNCHANGED F!avars
  <2>1. UNCHANGED <<talks, flag, online, live, byHand, others, failures, restarts, work>>
    BY <1>7 DEF F!avars
  <2>2. FlagTypes <=> FlagTypes'
    BY <2>1 DEF FlagTypes
  <2>3. Wanted <=> Wanted'
    BY <2>1 DEF Wanted
  <2>4. Apart <=> Apart'
    BY <2>1 DEF Apart, Talking
  <2>5. Plain <=> Plain'
    BY <2>1 DEF Plain, Lone
  <2>6. Marked <=> Marked'
    <3>1. \A r \in Slots, s \in Sessions : Ahead(r, s) <=> Ahead(r, s)'
      BY <2>1 DEF Ahead
    <3> QED BY <2>1, <3>1 DEF Marked, Talking
  <2> QED BY <2>2, <2>3, <2>4, <2>5, <2>6 DEF FlagInv, Lone
<1> QED BY <1>1, <1>2, <1>3, <1>4, <1>5, <1>6, <1>7 DEF F!Next

LEMMA FlagInit == F!Init => FlagInv
<1> SUFFICES ASSUME F!Init
             PROVE  FlagInv
  OBVIOUS
<1>1. /\ talks = [s \in Sessions |-> F!NoSession] /\ work = [r \in Slots |-> F!Idle]
      /\ online = TRUE /\ live = FALSE /\ byHand = FALSE /\ others = 0 /\ failures = 0 /\ restarts = 0
      /\ flag = [free |-> TRUE, until |-> F!None]
  BY DEF F!Init, F!NoHandler
<1>2. flag \in Marks /\ flag.free = TRUE
  BY <1>1, MarkOf
<1>3. \A s \in Sessions : talks[s] \in Talks /\ talks[s].continued = FALSE /\ ~Talking(s)
  BY <1>1, TalkOf DEF Talking
<1>4. work \in [Slots -> Tasks] /\ \A r \in Slots : work[r].pc = "idle"
  BY <1>1 DEF Tasks, F!Idle
<1>5. FlagTypes
  BY <1>1, <1>2, <1>3, <1>4 DEF FlagTypes
<1>6. Wanted /\ Apart /\ Marked
  BY <1>1, <1>2, <1>3, <1>4 DEF Wanted, Apart, Marked
<1> QED BY <1>5, <1>6 DEF FlagInv

LEMMA FlagInvariance == F!Spec => []FlagInv
BY FlagInit, FlagSteps, PTL DEF F!Spec

LEMMA FlagSize == F!Cardinality(Slots) = Cardinality(Slots)
BY DEF F!Cardinality, Cardinality

LEMMA FlagAlone ==
  ASSUME IsFiniteSet(Slots), FlagInv, F!OneAtATime
  PROVE  Lone /\ Slots # {}
<1>1. DOMAIN work = Slots
  BY DEF FlagInv, FlagTypes
<1>2. Cardinality(Slots) = 1
  BY <1>1, FlagSize DEF F!OneAtATime
<1>3. PICK x : Slots = {x}
  BY <1>2, FS_Singleton
<1> QED BY <1>3 DEF Lone

\* However handlers overlap, fail or are lost, an astrologer who is online is
\* marked unavailable without an end only by the toggle or while on a stream.
THEOREM FlagNeverStuck == F!Spec => []F!NeverStuck
<1>1. FlagInv => F!NeverStuck
  BY DEF FlagInv, FlagTypes, Marks, Wanted, F!NeverStuck
<1> QED BY <1>1, FlagInvariance, PTL

\* isAvailableNow, "has another user's session": one request at a time, whoever
\* is in a chat or a call is not asked by a second user, but for a continued
\* session.
THEOREM StrangerNeverAsks == ASSUME IsFiniteSet(Slots) PROVE F!Spec => []F!StrangerIsKeptOut
<1>1. FlagInv => F!StrangerIsKeptOut
  <2> SUFFICES ASSUME FlagInv, F!OneAtATime, NEW s \in Sessions, NEW t \in Sessions,
                      talks[s].status \in F!Live, talks[t].status \in F!Live, UserOf[s] # UserOf[t]
               PROVE  talks[s].continued \/ talks[t].continued
    BY DEF F!StrangerIsKeptOut
  <2>1. Apart
    BY FlagAlone DEF FlagInv
  <2>2. talks[s].continued = TRUE \/ talks[t].continued = TRUE
    BY <2>1 DEF Apart, Talking
  <2> QED BY <2>2
<1> QED BY <1>1, FlagInvariance, PTL

\* setBusy, setAvailable: one request at a time and until something else writes
\* the flags, an astrologer is shown as busy for as long as a session lasts,
\* whatever it was extended by.
THEOREM FlagOutlastsTimer == ASSUME IsFiniteSet(Slots) PROVE F!Spec => []F!BusyWhileActive
<1>1. FlagInv => F!BusyWhileActive
  <2> SUFFICES ASSUME FlagInv, F!OneAtATime, others = 0, failures = 0, restarts = 0, F!Quiet,
                      NEW s \in Sessions, talks[s].status = "active", talks[s].left > 0,
                      \A t \in Sessions : ~talks[t].continued
               PROVE  F!RealTimeStatus = "busy" /\ flag.until >= talks[s].left
    BY DEF F!BusyWhileActive
  <2>1. \A t \in Sessions : talks[t].continued = FALSE
    BY TalkOf DEF FlagInv, FlagTypes
  <2>2. Lone /\ Plain /\ Marked /\ Slots # {}
    BY <2>1, FlagAlone DEF Plain, FlagInv
  <2>3. PICK r \in Slots : work[r].pc = "idle"
    BY <2>2 DEF F!Quiet, F!At
  <2>4. live = FALSE /\ online = TRUE /\ flag.until >= talks[s].left
    BY <2>2, <2>3, TalkOf DEF Marked, Ahead, Talking
  <2>5. flag.until > 0
    <3>1. flag.until \in Int /\ talks[s].left \in Int
      BY TalkOf DEF FlagInv, FlagTypes, Marks
    <3> QED BY <2>4, <3>1
  <2>6. F!RealTimeStatus = "busy"
    BY <2>4, <2>5 DEF F!RealTimeStatus
  <2> QED BY <2>4, <2>6
<1> QED BY <1>1, FlagInvariance, PTL

----------------
(* Fourth part: the recorders of Recording.                                *)

CONSTANTS Media, MaxLosses
VARIABLES starting, stopping, recorder, known, kept, marked, finished, filed, losses, named

Rec == INSTANCE Recording WITH stored <- kept

\* A session that has not ended: nobody has stopped it, and its recorder runs
\* on; that of a call is stopped by its end alone.
Untouched(m) ==
  /\ named[m] = -1 /\ recorder[m] # "lost"
  /\ m \in Calls =>
       /\ stopping[m] = "none"
       /\ m \in kept \/ starting[m] = "answered" => recorder[m] = "on"
       /\ m \in kept => starting[m] = "none"
\* A session that ended with its recorder in the document, and nothing was
\* lost since: it is off, or the handler that will stop it is at work.
Stopping(m) ==
  /\ m \in finished \ marked /\ starting[m] = "none" /\ recorder[m] # "lost"
  /\ stopping[m] \in {"none", "stopped"} => recorder[m] = "off"
  /\ stopping[m] = "reading" => m \in kept
\* A recorder that is off without a loss was stopped, and its file is in the
\* document or in the hands of the handler that stopped it.
Filing(m) == recorder[m] = "off" => stopping[m] = "stopped" \/ m \in filed
Recorded(m) ==
  /\ starting[m] \in {"none", "asked", "answered"}
  /\ stopping[m] \in {"none", "reading", "asked", "stopped"}
  /\ recorder[m] \in {"off", "on", "lost"} /\ named[m] \in Int /\ named[m] <= losses
  /\ stopping[m] = "reading" => m \in Calls
  /\ m \in marked => starting[m] = "none" /\ m \notin Calls
  /\ m \notin finished => Untouched(m)
  /\ named[m] = losses => Stopping(m)
  /\ losses = 0 /\ (m \in kept \/ starting[m] = "answered") => Filing(m)
RecInv ==
  /\ DOMAIN starting = Media /\ DOMAIN stopping = Media /\ DOMAIN recorder = Media
  /\ DOMAIN named = Media /\ losses \in Nat
  /\ \A m \in Media : Recorded(m)

----------------
(* What the steps about one recording leave of it and of the others.       *)

LEMMA RecSet ==
  ASSUME NEW f, NEW m \in DOMAIN f, NEW v
  PROVE  /\ DOMAIN Rec!Set(f, m, v) = DOMAIN f /\ Rec!Set(f, m, v)[m] = v
         /\ \A n \in DOMAIN f : n # m => Rec!Set(f, m, v)[n] = f[n]
BY DEF Rec!Set

\* A loss changes nothing about the recordings it does not meet.
LEMMA RecordedStays ==
  ASSUME RecInv, NEW m \in Media,
         starting'[m] = starting[m], stopping'[m] = stopping[m], recorder'[m] = recorder[m],
         named'[m] = named[m], m \in kept' <=> m \in kept, m \in marked' <=> m \in marked,
         m \in finished' <=> m \in finished, m \in filed => m \in filed',
         losses' = losses \/ losses' = losses + 1
  PROVE  Recorded(m)'
<1>1. Recorded(m) /\ losses \in Nat
  BY DEF RecInv
<1>2. named[m] \in Int /\ named[m] <= losses
  BY <1>1 DEF Recorded
<1>3. CASE losses' = losses
  BY <1>1, <1>3 DEF Recorded, Untouched, Stopping, Filing
<1>4. CASE losses' = losses + 1
  <2>1. named[m] <= losses' /\ named[m] # losses' /\ losses' # 0
    BY <1>1, <1>2, <1>4
  <2>2. QED BY <1>1, <2>1 DEF Recorded, Untouched
<1>5. QED BY <1>3, <1>4

\* Starting: asked, answered, stored, or lost.
LEMMA StartRecorded ==
  ASSUME RecInv, NEW m \in Media, Rec!Ask(m) \/ Rec!Answer(m) \/ Rec!AskFails(m) \/ Rec!Store(m)
  PROVE  RecInv'
<1>0. /\ Recorded(m) /\ losses \in Nat
      /\ DOMAIN starting = Media /\ DOMAIN stopping = Media /\ DOMAIN recorder = Media /\ DOMAIN named = Media
  BY DEF RecInv
<1>1. /\ DOMAIN starting' = Media /\ DOMAIN stopping' = Media /\ DOMAIN recorder' = Media
      /\ DOMAIN named' = Media /\ losses' \in Nat
  BY <1>0, RecSet DEF Rec!Ask, Rec!Answer, Rec!AskFails, Rec!Store
<1>2. ASSUME NEW n \in Media, n # m PROVE Recorded(n)'
  <2>1. /\ starting'[n] = starting[n] /\ recorder'[n] = recorder[n] /\ stopping' = stopping /\ named' = named
        /\ (n \in kept' <=> n \in kept) /\ (n \in marked' <=> n \in marked)
        /\ finished' = finished /\ filed' = filed
        /\ losses' = losses \/ losses' = losses + 1
    BY <1>0, <1>2, RecSet DEF Rec!Ask, Rec!Answer, Rec!AskFails, Rec!Store
  <2>2. QED BY <2>1, RecordedStays
<1>3. CASE Rec!Ask(m)
  <2>1. starting'[m] = "asked"
    BY <1>0, <1>3, RecSet DEF Rec!Ask
  <2>2. Recorded(m)'
    BY <1>0, <1>3, <2>1 DEF Rec!Ask, Recorded, Untouched, Stopping, Filing
  <2>3. QED BY <1>1, <1>2, <2>2 DEF RecInv
<1>4. CASE Rec!Answer(m)
  <2>1. starting'[m] = "answered" /\ recorder'[m] = "on"
    BY <1>0, <1>4, RecSet DEF Rec!Answer
  <2>2. Recorded(m)'
    BY <1>0, <1>4, <2>1 DEF Rec!Answer, Recorded, Untouched, Stopping, Filing
  <2>3. QED BY <1>1, <1>2, <2>2 DEF RecInv
<1>5. CASE Rec!AskFails(m)
  <2>1. starting'[m] = "none" /\ losses' = losses + 1
    BY <1>0, <1>5, RecSet DEF Rec!AskFails
  <2>2. Recorded(m)'
    BY <1>0, <1>5, <2>1 DEF Rec!AskFails, Recorded, Untouched, Stopping, Filing
  <2>3. QED BY <1>1, <1>2, <2>2 DEF RecInv
<1>6. CASE Rec!Store(m)
  <2>1. starting'[m] = "none" /\ m \in kept'
    BY <1>0, <1>6, RecSet DEF Rec!Store
  <2>2. Recorded(m)'
    BY <1>0, <1>6, <2>1 DEF Rec!Store, Recorded, Untouched, Stopping, Filing
  <2>3. QED BY <1>1, <1>2, <2>2 DEF RecInv
<1>7. QED BY <1>3, <1>4, <1>5, <1>6

\* The end, the stop and the file.
LEMMA EndRecorded ==
  ASSUME RecInv, NEW m \in Media,
         Rec!EndStream(m) \/ Rec!EndCall(m) \/ Rec!ReadSession(m) \/ Rec!StopByAdmin(m)
         \/ Rec!Stopped(m) \/ Rec!File(m) \/ Rec!StopFails(m) \/ Rec!IdleStop(m)
  PROVE  RecInv'
<1>0. /\ Recorded(m) /\ losses \in Nat
      /\ DOMAIN starting = Media /\ DOMAIN stopping = Media /\ DOMAIN recorder = Media /\ DOMAIN named = Media
  BY DEF RecInv
<1>1. /\ DOMAIN starting' = Media /\ DOMAIN stopping' = Media /\ DOMAIN recorder' = Media
      /\ DOMAIN named' = Media /\ losses' \in Nat
  BY <1>0, RecSet DEF Rec!EndStream, Rec!EndCall, Rec!ReadSession, Rec!StopByAdmin, Rec!Stopped, Rec!File,
                      Rec!StopFails, Rec!IdleStop
<1>2. ASSUME NEW n \in Media, n # m PROVE Recorded(n)'
  <2>1. /\ starting' = starting /\ recorder'[n] = recorder[n] /\ stopping'[n] = stopping[n]
        /\ named'[n] = named[n] /\ kept' = kept /\ (n \in marked' <=> n \in marked)
        /\ (n \in finished' <=> n \in finished) /\ (n \in filed => n \in filed')
        /\ losses' = losses \/ losses' = losses + 1
    BY <1>0, <1>2, RecSet DEF Rec!EndStream, Rec!EndCall, Rec!ReadSession, Rec!StopByAdmin, Rec!Stopped,
                              Rec!File, Rec!StopFails, Rec!IdleStop
  <2>2. QED BY <2>1, RecordedStays
<1>3. Recorded(m)'
  <2>1. CASE Rec!EndStream(m)
    <3>1. /\ stopping'[m] = IF m \in marked THEN "asked" ELSE "none"
          /\ named'[m] = IF m \in marked THEN losses ELSE -1
      BY <1>0, <2>1, RecSet DEF Rec!EndStream
    <3>2. QED BY <1>0, <2>1, <3>1 DEF Rec!EndStream, Recorded, Untouched, Stopping, Filing
  <2>2. CASE Rec!EndCall(m)
    <3>1. stopping'[m] = "reading" /\ named'[m] = IF m \in kept THEN losses ELSE -1
      BY <1>0, <2>2, RecSet DEF Rec!EndCall
    <3>2. QED BY <1>0, <2>2, <3>1 DEF Rec!EndCall, Recorded, Untouched, Stopping, Filing
  <2>3. CASE Rec!ReadSession(m)
    <3>1. stopping'[m] = IF m \in known \cup kept THEN "asked" ELSE "none"
      BY <1>0, <2>3, RecSet DEF Rec!ReadSession
    <3>2. QED BY <1>0, <2>3, <3>1 DEF Rec!ReadSession, Recorded, Untouched, Stopping, Filing
  <2>4. CASE Rec!StopByAdmin(m)
    <3>1. stopping'[m] = "asked"
      BY <1>0, <2>4, RecSet DEF Rec!StopByAdmin
    <3>2. QED BY <1>0, <2>4, <3>1 DEF Rec!StopByAdmin, Recorded, Untouched, Stopping, Filing
  <2>5. CASE Rec!Stopped(m)
    <3>1. /\ stopping'[m] = "stopped"
          /\ recorder'[m] = IF recorder[m] = "lost" /\ m \notin Calls THEN "lost" ELSE "off"
      BY <1>0, <2>5, RecSet DEF Rec!Stopped
    <3>2. QED BY <1>0, <2>5, <3>1 DEF Rec!Stopped, Recorded, Untouched, Stopping, Filing
  <2>6. CASE Rec!File(m)
    <3>1. stopping'[m] = "none"
      BY <1>0, <2>6, RecSet DEF Rec!File
    <3>2. QED BY <1>0, <2>6, <3>1 DEF Rec!File, Recorded, Untouched, Stopping, Filing
  <2>7. CASE Rec!StopFails(m)
    <3>1. stopping'[m] = "none" /\ losses' = losses + 1
      BY <1>0, <2>7, RecSet DEF Rec!StopFails
    <3>2. QED BY <1>0, <2>7, <3>1 DEF Rec!StopFails, Recorded, Untouched, Stopping, Filing
  <2>8. CASE Rec!IdleStop(m)
    <3>1. recorder'[m] = "lost"
      BY <1>0, <2>8, RecSet DEF Rec!IdleStop
    <3>2. QED BY <1>0, <2>8, <3>1 DEF Rec!IdleStop, Recorded, Untouched, Stopping, Filing
  <2>9. QED BY <2>1, <2>2, <2>3, <2>4, <2>5, <2>6, <2>7, <2>8
<1>4. QED BY <1>1, <1>2, <1>3 DEF RecInv

LEMMA RecNext == RecInv /\ [Rec!Next]_(Rec!rvars) => RecInv'
<1> SUFFICES ASSUME RecInv, [Rec!Next]_(Rec!rvars) PROVE RecInv'
  OBVIOUS
<1>1. CASE UNCHANGED Rec!rvars
  BY <1>1 DEF Rec!rvars, RecInv, Recorded, Untouched, Stopping, Filing
<1>2. CASE Rec!Restart
  <2>1. losses \in Nat /\ losses' = losses + 1 /\ losses' # 0
    BY <1>2 DEF Rec!Restart, RecInv
  <2>2. ASSUME NEW m \in Media PROVE Recorded(m)'
    <3>1. Recorded(m) /\ named[m] \in Int /\ named[m] <= losses
      BY DEF RecInv, Recorded
    <3>2. named'[m] <= losses' /\ named'[m] # losses' /\ named'[m] = named[m]
      BY <1>2, <2>1, <3>1 DEF Rec!Restart
    <3>3. starting'[m] = "none" /\ stopping'[m] = "none"
      BY <1>2 DEF Rec!Restart
    <3>4. QED BY <1>2, <2>1, <3>1, <3>2, <3>3 DEF Rec!Restart, Recorded, Untouched
  <2>3. QED BY <1>2, <2>1, <2>2 DEF Rec!Restart, RecInv
<1>3. CASE \E m \in Media : Rec!Ask(m) \/ Rec!Answer(m) \/ Rec!AskFails(m) \/ Rec!Store(m)
  BY <1>3, StartRecorded
<1>4. CASE \E m \in Media : Rec!EndStream(m) \/ Rec!EndCall(m) \/ Rec!ReadSession(m) \/ Rec!StopByAdmin(m)
                            \/ Rec!Stopped(m) \/ Rec!File(m) \/ Rec!StopFails(m) \/ Rec!IdleStop(m)
  BY <1>4, EndRecorded
<1>5. QED BY <1>1, <1>2, <1>3, <1>4 DEF Rec!Next

LEMMA RecInit == Rec!Init => RecInv
BY DEF Rec!Init, RecInv, Recorded, Untouched, Stopping, Filing

\* However starts, stops, ends, errors and restarts interleave, who ended with
\* the recorder in the document has it stopped, unless something was lost since.
THEOREM RecorderIsStopped == Rec!Spec => []Rec!NamedIsStopped
<1>1. RecInv => Rec!NamedIsStopped
  BY DEF RecInv, Recorded, Stopping, Rec!NamedIsStopped
<1> QED BY <1>1, RecInit, RecNext, PTL DEF Rec!Spec

\* The file of a recorder that was stopped is in the document, unless something
\* was lost.
THEOREM RecordingIsFiled == Rec!Spec => []Rec!StoppedIsFiled
<1>1. RecInv => Rec!StoppedIsFiled
  <2> SUFFICES ASSUME RecInv, NEW m \in Media, m \in kept, recorder[m] = "off", stopping[m] = "none",
                      ~(losses > 0)
               PROVE  m \in filed
    BY DEF Rec!StoppedIsFiled
  <2>1. losses = 0
    BY DEF RecInv
  <2>2. QED BY <2>1 DEF RecInv, Recorded, Filing
<1> QED BY <1>1, RecInit, RecNext, PTL DEF Rec!Spec

----------------
(* Fifth part: the viewers of Audience.                                    *)

CONSTANTS Viewers, Host, Sockets, Lanes, MaxCrashes, MaxShort, NoSocket, NoUser
VARIABLES viewing, count, barred, owner, mapped, room, hosting, bound, beat, lane, crashes

W == INSTANCE Audience

\* An astrologer is no viewer of the own stream, and nobody is nobody.
AudBounds ==
  /\ IsFiniteSet(Viewers) /\ IsFiniteSet(Lanes)
  /\ Host \notin Viewers /\ NoUser \notin Viewers \cup {Host} /\ NoSocket \notin Sockets

Entering == [pc : {"enter"}, u : Viewers, k : Sockets]
Viewing == [pc : {"join", "leave", "count", "uncount"}, u : Viewers, k : {NoSocket}]
AudTypes ==
  /\ viewing \in SUBSET Viewers /\ count \in Int /\ barred \in SUBSET Viewers
  /\ owner \in [Sockets -> W!People \cup {NoUser}] /\ mapped \in [W!People -> Sockets \cup {NoSocket}]
  /\ room \in SUBSET Sockets /\ crashes \in Nat
  /\ lane \in [Lanes -> Entering \cup Viewing \cup {W!FreeLane}]

\* The count with what is about to be added to it, and the records with those
\* that are about to be taken off.
LanesAt(pc) == {r \in Lanes : lane[r].pc = pc}
Tallied == count + Cardinality(LanesAt("count"))
OnRecord == Cardinality(viewing) + Cardinality(LanesAt("uncount"))

\* One handler after another.
OneLane == \A q, r \in Lanes : q = r
Exact ==
  crashes = 0 =>
    /\ Tallied = OnRecord
    /\ \A r \in Lanes : lane[r].pc = "leave" => lane[r].u \in viewing

AudInv ==
  /\ AudTypes /\ (crashes = 0 => Tallied <= OnRecord)
  /\ OneLane => Exact

----------------
(* What the steps do to the lanes, to the sockets and to the count.        *)

LEMMA AudSize == ASSUME NEW S PROVE W!Cardinality(S) = Cardinality(S)
BY DEF W!Cardinality, Cardinality

\* A lane with a handler at some step holds a record.
LEMMA LaneHolds ==
  ASSUME AudTypes, NEW r \in Lanes
  PROVE  /\ lane[r].pc \in {"join", "leave", "count", "uncount"} => lane[r] \in Viewing
         /\ lane[r].pc = "enter" => lane[r] \in Entering
         /\ lane[r].pc \in {"idle", "join", "leave", "count", "uncount", "enter"}
BY DEF AudTypes, Viewing, Entering, W!FreeLane

\* What a step leaves in a lane, and what it leaves in the others.
Fills(r, h) == lane' = [lane EXCEPT ![r] = h]
Fresh(r) ==
  \E u \in Viewers :
    \/ \E pc \in {"join", "leave"} : Fills(r, [pc |-> pc, u |-> u, k |-> NoSocket])
    \/ \E k \in Sockets : Fills(r, [pc |-> "enter", u |-> u, k |-> k])

LEMMA LaneSteps ==
  ASSUME AudTypes, NEW r \in Lanes
  PROVE  /\ W!Done(r) => Fills(r, W!FreeLane)
         /\ \A pc : W!Step(r, pc) => \E h : Fills(r, h) /\ h = [lane[r] EXCEPT !.pc = pc]
         /\ \A pc, u, k : W!Take(r, pc, u, k) => Fills(r, [pc |-> pc, u |-> u, k |-> k])
BY DEF AudTypes, W!Done, W!Step, W!Take, Fills

LEMMA StepHolds ==
  ASSUME NEW h \in Viewing, NEW pc \in {"count", "uncount"}
  PROVE  [h EXCEPT !.pc = pc] \in Viewing /\ [h EXCEPT !.pc = pc].pc = pc
         /\ [h EXCEPT !.pc = pc].u = h.u
BY DEF Viewing

\* The lanes at a step when one lane has changed.
LEMMA LaneMoves ==
  ASSUME IsFiniteSet(Lanes), AudTypes, NEW r \in Lanes, NEW h, Fills(r, h), NEW pc
  PROVE  /\ Cardinality(LanesAt(pc)) \in Nat /\ Cardinality(LanesAt(pc)') \in Nat
         /\ Cardinality(LanesAt(pc)') =
              Cardinality(LanesAt(pc)) + (IF h.pc = pc THEN 1 ELSE 0) - (IF lane[r].pc = pc THEN 1 ELSE 0)
<1>1. \A q \in Lanes : lane'[q] = IF q = r THEN h ELSE lane[q]
  BY DEF AudTypes, Fills
<1>2. IsFiniteSet(LanesAt(pc)) /\ IsFiniteSet(LanesAt(pc)')
  BY FS_Subset DEF LanesAt
<1>3. Cardinality(LanesAt(pc)) \in Nat /\ Cardinality(LanesAt(pc)') \in Nat
  BY <1>2, FS_CardinalityType
<1>4. CASE h.pc = pc
  <2>1. LanesAt(pc)' = LanesAt(pc) \cup {r}
    BY <1>1, <1>4 DEF LanesAt
  <2>2. r \in LanesAt(pc) <=> lane[r].pc = pc
    BY DEF LanesAt
  <2>3. QED BY <1>2, <1>3, <1>4, <2>1, <2>2, FS_AddElement
<1>5. CASE h.pc # pc
  <2>1. LanesAt(pc)' = LanesAt(pc) \ {r}
    BY <1>1, <1>5 DEF LanesAt
  <2>2. r \in LanesAt(pc) <=> lane[r].pc = pc
    BY DEF LanesAt
  <2>3. QED BY <1>2, <1>3, <1>5, <2>1, <2>2, FS_RemoveElement
<1>6. QED BY <1>4, <1>5

----------------
(* Types.                                                                  *)

\* The steps of a lane, by what they leave there.
Arrives(r) == \E u \in Viewers :
  \/ W!JoinStream(r, u) \/ W!LeaveStream(r, u)
  \/ \E k \in Sockets : W!EnterBegin(r, k)
LEMMA ArrivesFresh ==
  ASSUME AudTypes, NEW r \in Lanes, Arrives(r)
  PROVE  Fresh(r) /\ lane[r].pc = "idle"
<1>1. PICK u \in Viewers : \/ W!JoinStream(r, u) \/ W!LeaveStream(r, u)
                           \/ \E k \in Sockets : W!EnterBegin(r, k)
  BY DEF Arrives
<1>2. CASE W!JoinStream(r, u) \/ W!LeaveStream(r, u)
  <2>1. PICK pc \in {"join", "leave"} : W!Take(r, pc, u, NoSocket)
    BY <1>2 DEF W!JoinStream, W!LeaveStream
  <2>2. QED BY <2>1, LaneSteps DEF Fresh, W!Take
<1>3. CASE \E k \in Sockets : W!EnterBegin(r, k)
  <2>1. PICK k \in Sockets : W!Take(r, "enter", owner[k], k) /\ owner[k] \in Viewers
    BY <1>3 DEF W!EnterBegin
  <2>2. QED BY <2>1, LaneSteps DEF Fresh, W!Take
<1>4. QED BY <1>1, <1>2, <1>3

LEMMA ViewTurns ==
  ASSUME AudTypes, NEW r \in Lanes, W!View(r)
  PROVE  /\ lane[r] \in Viewing /\ lane[r].pc = "join"
         /\ \E h \in Viewing \cup {W!FreeLane} :
              /\ Fills(r, h) /\ h.pc = IF lane[r].u \in viewing THEN "idle" ELSE "count"
<1>1. lane[r] \in Viewing /\ lane[r].pc = "join"
  BY LaneHolds DEF W!View, W!In
<1>2. CASE lane[r].u \in viewing
  BY <1>1, <1>2, LaneSteps DEF W!View, W!FreeLane
<1>3. CASE lane[r].u \notin viewing
  <2>1. Fills(r, [lane[r] EXCEPT !.pc = "count"])
    BY <1>3, LaneSteps DEF W!View
  <2>2. QED BY <1>1, <1>3, <2>1, StepHolds
<1>4. QED BY <1>1, <1>2, <1>3

LEMMA UnviewTurns ==
  ASSUME AudTypes, NEW r \in Lanes, W!Unview(r)
  PROVE  /\ lane[r] \in Viewing /\ lane[r].pc = "leave"
         /\ \E h \in Viewing : Fills(r, h) /\ h.pc = "uncount"
<1>1. lane[r] \in Viewing /\ lane[r].pc = "leave"
  BY LaneHolds DEF W!Unview, W!In
<1>2. Fills(r, [lane[r] EXCEPT !.pc = "uncount"])
  BY LaneSteps DEF W!Unview
<1>3. QED BY <1>1, <1>2, StepHolds

LEMMA AudSteps ==
  ASSUME W!Next
  PROVE  \/ \E r \in Lanes : Arrives(r) \/ W!View(r) \/ W!Unview(r)
         \/ \E r \in Lanes : W!CountViewer(r) \/ W!Enter(r)
         \/ \E k \in Sockets : W!HostEnters(k) \/ W!Disconnect(k)
         \/ \E k \in Sockets, u \in W!People : W!Connect(k, u)
         \/ \E u \in Viewers : W!KickUser(u) \/ W!Unblock(u)
         \/ W!Heartbeat \/ W!BeatTimeout \/ W!Crash
<1>1. CASE \E r \in Lanes :
             \/ W!View(r) \/ W!Unview(r) \/ W!CountViewer(r) \/ W!Enter(r)
             \/ \E u \in Viewers : W!JoinStream(r, u) \/ W!LeaveStream(r, u)
             \/ \E k \in Sockets : W!EnterBegin(r, k)
  <2>1. \A r \in Lanes, k \in Sockets : W!EnterBegin(r, k) => \E u \in Viewers : TRUE
    BY DEF W!EnterBegin
  <2>2. QED BY <1>1, <2>1 DEF Arrives
<1>2. QED BY <1>1 DEF W!Next

LEMMA AudTypesNext == AudTypes /\ [W!Next]_(W!avars) => AudTypes'
<1> SUFFICES ASSUME AudTypes, [W!Next]_(W!avars) PROVE AudTypes'
  OBVIOUS
<1>1. CASE UNCHANGED W!avars
  BY <1>1 DEF W!avars, W!records, W!gateway, AudTypes
<1>2. ASSUME NEW r \in Lanes, Arrives(r) PROVE AudTypes'
  <2>1. lane' \in [Lanes -> Entering \cup Viewing \cup {W!FreeLane}]
    <3>1. PICK h \in Entering \cup Viewing : Fills(r, h)
      BY <1>2, ArrivesFresh DEF Fresh, Entering, Viewing
    <3>2. QED BY <3>1 DEF Fills, AudTypes
  <2>2. QED
    BY <1>2, <2>1 DEF Arrives, W!JoinStream, W!LeaveStream, W!EnterBegin, W!records, W!gateway, AudTypes
<1>3. ASSUME NEW r \in Lanes, W!View(r) PROVE AudTypes'
  <2>1. lane' \in [Lanes -> Entering \cup Viewing \cup {W!FreeLane}]
    BY <1>3, ViewTurns DEF Fills, AudTypes
  <2>2. lane[r].u \in Viewers
    BY <1>3, ViewTurns DEF Viewing
  <2>3. QED BY <1>3, <2>1, <2>2 DEF W!View, W!gateway, AudTypes
<1>4. ASSUME NEW r \in Lanes, W!Unview(r) PROVE AudTypes'
  <2>1. lane' \in [Lanes -> Entering \cup Viewing \cup {W!FreeLane}]
    BY <1>4, UnviewTurns DEF Fills, AudTypes
  <2>2. QED BY <1>4, <2>1 DEF W!Unview, W!gateway, AudTypes
<1>5. ASSUME NEW r \in Lanes, W!CountViewer(r) \/ W!Enter(r) PROVE AudTypes'
  <2>1. lane' \in [Lanes -> Entering \cup Viewing \cup {W!FreeLane}]
    BY <1>5 DEF W!CountViewer, W!Enter, W!Done, AudTypes
  <2>2. CASE W!CountViewer(r)
    BY <2>1, <2>2 DEF W!CountViewer, W!records, W!gateway, AudTypes
  <2>3. CASE W!Enter(r)
    <3>1. lane[r].u \in Viewers /\ lane[r].k \in Sockets
      BY <2>3, LaneHolds DEF W!Enter, W!In, Entering
    <3>2. QED BY <2>1, <2>3, <3>1 DEF W!Enter, W!records, AudTypes
  <2>4. QED BY <1>5, <2>2, <2>3
<1>6. ASSUME NEW k \in Sockets, W!HostEnters(k) \/ W!Disconnect(k) PROVE AudTypes'
  BY <1>6 DEF W!HostEnters, W!Disconnect, W!records, W!People, AudTypes
<1>7. ASSUME NEW k \in Sockets, NEW u \in W!People, W!Connect(k, u) PROVE AudTypes'
  BY <1>7 DEF W!Connect, W!records, AudTypes
<1>8. ASSUME NEW u \in Viewers, W!KickUser(u) \/ W!Unblock(u) PROVE AudTypes'
  BY <1>8 DEF W!KickUser, W!Unblock, W!gateway, AudTypes
<1>9. CASE W!Heartbeat \/ W!BeatTimeout
  BY <1>9 DEF W!Heartbeat, W!BeatTimeout, W!records, AudTypes
<1>10. CASE W!Crash
  BY <1>10 DEF W!Crash, W!records, AudTypes
<1>11. QED BY <1>1, <1>2, <1>3, <1>4, <1>5, <1>6, <1>7, <1>8, <1>9, <1>10, AudSteps

----------------
(* Whose sockets are mapped.                                               *)

LEMMA LaneRest ==
  ASSUME AudTypes, NEW r \in Lanes, NEW h, Fills(r, h)
  PROVE  lane'[r] = h /\ \A q \in Lanes : q # r => lane'[q] = lane[q]
BY DEF AudTypes, Fills

----------------
(* The count.                                                              *)

\* The count and the records with what is on its way, before and after.
LEMMA CountTypes ==
  ASSUME AudBounds, AudTypes
  PROVE  /\ Cardinality(viewing) \in Nat /\ count \in Int /\ IsFiniteSet(viewing)
         /\ Cardinality(LanesAt("count")) \in Nat /\ Cardinality(LanesAt("uncount")) \in Nat
<1>1. IsFiniteSet(viewing) /\ IsFiniteSet(LanesAt("count")) /\ IsFiniteSet(LanesAt("uncount"))
  BY FS_Subset DEF AudBounds, AudTypes, LanesAt
<1>2. QED BY <1>1, FS_CardinalityType DEF AudTypes

\* What a step does to the difference of count and records: nothing, or a
\* leave of someone who is not there makes the count fall behind.
Balanced == Tallied' - OnRecord' = Tallied - OnRecord
LEMMA LaneBalanced ==
  ASSUME AudBounds, AudTypes, NEW r \in Lanes, NEW h, Fills(r, h),
         h.pc \notin {"count", "uncount"}, lane[r].pc \notin {"count", "uncount"},
         viewing' = viewing, count' = count
  PROVE  Balanced
<1>1. /\ Cardinality(LanesAt("count"))' = Cardinality(LanesAt("count"))
      /\ Cardinality(LanesAt("uncount"))' = Cardinality(LanesAt("uncount"))
  BY LaneMoves, CountTypes DEF AudBounds
<1>2. QED BY <1>1, CountTypes DEF Balanced, Tallied, OnRecord

LEMMA ViewBalanced ==
  ASSUME AudBounds, AudTypes, NEW r \in Lanes, W!View(r)
  PROVE  Balanced
<1>1. PICK h : Fills(r, h) /\ h.pc = IF lane[r].u \in viewing THEN "idle" ELSE "count"
  BY ViewTurns
<1>2. lane[r].pc = "join" /\ viewing' = viewing \cup {lane[r].u} /\ count' = count
  BY DEF W!View, W!In
<1>3. CASE lane[r].u \in viewing
  <2>1. viewing' = viewing
    BY <1>2, <1>3
  <2>2. QED BY <1>1, <1>2, <1>3, <2>1, LaneBalanced
<1>4. CASE lane[r].u \notin viewing
  <2>1. Cardinality(viewing') = Cardinality(viewing) + 1
    BY <1>2, <1>4, CountTypes, FS_AddElement
  <2>2. /\ Cardinality(LanesAt("count"))' = Cardinality(LanesAt("count")) + 1
        /\ Cardinality(LanesAt("uncount"))' = Cardinality(LanesAt("uncount"))
    BY <1>1, <1>2, <1>4, LaneMoves, CountTypes DEF AudBounds
  <2>3. QED BY <1>2, <2>1, <2>2, CountTypes DEF Balanced, Tallied, OnRecord
<1>5. QED BY <1>3, <1>4

LEMMA UnviewBalanced ==
  ASSUME AudBounds, AudTypes, NEW r \in Lanes, W!Unview(r)
  PROVE  /\ Tallied' - OnRecord' <= Tallied - OnRecord
         /\ lane[r].u \in viewing => Balanced
<1>1. PICK h : Fills(r, h) /\ h.pc = "uncount"
  BY UnviewTurns
<1>2. lane[r].pc = "leave" /\ viewing' = viewing \ {lane[r].u} /\ count' = count
  BY DEF W!Unview, W!In
<1>3. Cardinality(viewing') = IF lane[r].u \in viewing THEN Cardinality(viewing) - 1 ELSE Cardinality(viewing)
  BY <1>2, CountTypes, FS_RemoveElement
<1>4. /\ Cardinality(LanesAt("count"))' = Cardinality(LanesAt("count"))
      /\ Cardinality(LanesAt("uncount"))' = Cardinality(LanesAt("uncount")) + 1
  BY <1>1, <1>2, LaneMoves, CountTypes DEF AudBounds
<1>5. QED BY <1>2, <1>3, <1>4, CountTypes DEF Balanced, Tallied, OnRecord

LEMMA CountBalanced ==
  ASSUME AudBounds, AudTypes, NEW r \in Lanes, W!CountViewer(r)
  PROVE  Balanced
<1>1. PICK h : Fills(r, h) /\ h.pc = "idle"
  BY LaneSteps DEF W!CountViewer, W!FreeLane
<1>2. viewing' = viewing
  BY DEF W!CountViewer
<1>3. CASE lane[r].pc = "count"
  <2>1. /\ Cardinality(LanesAt("count"))' = Cardinality(LanesAt("count")) - 1
        /\ Cardinality(LanesAt("uncount"))' = Cardinality(LanesAt("uncount"))
    BY <1>1, <1>3, LaneMoves, CountTypes DEF AudBounds
  <2>2. count' = count + 1
    BY <1>3 DEF W!CountViewer, W!In
  <2>3. QED BY <1>2, <2>1, <2>2, CountTypes DEF Balanced, Tallied, OnRecord
<1>4. CASE lane[r].pc = "uncount"
  <2>1. /\ Cardinality(LanesAt("count"))' = Cardinality(LanesAt("count"))
        /\ Cardinality(LanesAt("uncount"))' = Cardinality(LanesAt("uncount")) - 1
    BY <1>1, <1>4, LaneMoves, CountTypes DEF AudBounds
  <2>2. count' = count - 1
    BY <1>4 DEF W!CountViewer, W!In
  <2>3. QED BY <1>2, <2>1, <2>2, CountTypes DEF Balanced, Tallied, OnRecord
<1>5. QED BY <1>3, <1>4 DEF W!CountViewer

LEMMA BalanceNext ==
  ASSUME AudBounds, AudTypes, [W!Next]_(W!avars), crashes' = 0
  PROVE  /\ crashes = 0 /\ Tallied' - OnRecord' <= Tallied - OnRecord
         /\ Balanced \/ \E r \in Lanes : W!Unview(r) /\ lane[r].u \notin viewing
<1>0. Balanced => Tallied' - OnRecord' <= Tallied - OnRecord
  BY CountTypes DEF Balanced, Tallied, OnRecord
<1>1. CASE lane' = lane /\ viewing' = viewing /\ count' = count /\ crashes' = crashes
  BY <1>0, <1>1 DEF Balanced, Tallied, OnRecord, LanesAt
<1>2. ASSUME NEW r \in Lanes, Arrives(r) PROVE Balanced /\ crashes' = crashes
  <2>1. viewing' = viewing /\ count' = count /\ crashes' = crashes
    BY <1>2 DEF Arrives, W!JoinStream, W!LeaveStream, W!EnterBegin, W!records
  <2>2. PICK h : Fills(r, h) /\ h.pc \in {"join", "leave", "enter"}
    <3>1. Fresh(r)
      BY <1>2, ArrivesFresh
    <3>2. CASE \E u \in Viewers, pc \in {"join", "leave"} : Fills(r, [pc |-> pc, u |-> u, k |-> NoSocket])
      <4>1. PICK u \in Viewers, pc \in {"join", "leave"} : Fills(r, [pc |-> pc, u |-> u, k |-> NoSocket])
        BY <3>2
      <4>2. [pc |-> pc, u |-> u, k |-> NoSocket].pc = pc
        OBVIOUS
      <4>3. QED BY <4>1, <4>2
    <3>3. CASE \E u \in Viewers, k \in Sockets : Fills(r, [pc |-> "enter", u |-> u, k |-> k])
      <4>1. PICK u \in Viewers, k \in Sockets : Fills(r, [pc |-> "enter", u |-> u, k |-> k])
        BY <3>3
      <4>2. [pc |-> "enter", u |-> u, k |-> k].pc = "enter"
        OBVIOUS
      <4>3. QED BY <4>1, <4>2
    <3>4. QED BY <3>1, <3>2, <3>3 DEF Fresh
  <2>3. QED BY <1>2, <2>1, <2>2, ArrivesFresh, LaneBalanced
<1>3. ASSUME NEW r \in Lanes, W!Enter(r) PROVE Balanced /\ crashes' = crashes
  <2>1. viewing' = viewing /\ count' = count /\ crashes' = crashes /\ lane[r].pc = "enter"
    BY <1>3 DEF W!Enter, W!records, W!In
  <2>2. Fills(r, W!FreeLane) /\ W!FreeLane.pc = "idle"
    BY <1>3, LaneSteps DEF W!Enter, W!FreeLane
  <2>3. QED BY <2>1, <2>2, LaneBalanced
<1>4. ASSUME NEW r \in Lanes, W!View(r) \/ W!CountViewer(r) PROVE Balanced /\ crashes' = crashes
  BY <1>4, ViewBalanced, CountBalanced DEF W!View, W!CountViewer
<1>5. ASSUME NEW r \in Lanes, W!Unview(r)
      PROVE  /\ Tallied' - OnRecord' <= Tallied - OnRecord /\ crashes' = crashes
             /\ Balanced \/ lane[r].u \notin viewing
  BY <1>5, UnviewBalanced DEF W!Unview
<1>6. ~W!Crash
  <2>1. crashes \in Nat /\ crashes + 1 # 0
    BY DEF AudTypes
  <2>2. QED BY <2>1 DEF W!Crash
<1>7. UNCHANGED W!avars \/ (\E k \in Sockets : W!HostEnters(k) \/ W!Disconnect(k))
      \/ (\E k \in Sockets, u \in W!People : W!Connect(k, u)) \/ (\E u \in Viewers : W!KickUser(u) \/ W!Unblock(u))
      \/ W!Heartbeat \/ W!BeatTimeout
      => lane' = lane /\ viewing' = viewing /\ count' = count /\ crashes' = crashes
  BY DEF W!avars, W!HostEnters, W!Disconnect, W!Connect, W!KickUser, W!Unblock, W!Heartbeat, W!BeatTimeout, W!records
<1>8. QED BY <1>0, <1>1, <1>2, <1>3, <1>4, <1>5, <1>6, <1>7, AudSteps

LEMMA CountedNext ==
  ASSUME AudBounds, AudTypes, crashes = 0 => Tallied <= OnRecord, [W!Next]_(W!avars), crashes' = 0
  PROVE  Tallied' <= OnRecord'
<1>1. AudTypes'
  BY AudTypesNext
<1>2. Tallied \in Int /\ OnRecord \in Int
  BY CountTypes DEF Tallied, OnRecord
<1>3. Tallied' \in Int /\ OnRecord' \in Int
  <2>1. /\ Cardinality(viewing') \in Nat /\ count' \in Int
        /\ Cardinality(LanesAt("count")') \in Nat /\ Cardinality(LanesAt("uncount")') \in Nat
    <3>1. IsFiniteSet(viewing') /\ IsFiniteSet(LanesAt("count")') /\ IsFiniteSet(LanesAt("uncount")')
      BY <1>1, FS_Subset DEF AudBounds, AudTypes, LanesAt
    <3>2. QED BY <1>1, <3>1, FS_CardinalityType DEF AudTypes
  <2>2. QED BY <2>1 DEF Tallied, OnRecord
<1>4. crashes = 0 /\ Tallied' - OnRecord' <= Tallied - OnRecord
  BY BalanceNext
<1>5. \A a, b, c, d \in Int : a - b <= c - d /\ c <= d => a <= b
  OBVIOUS
<1>6. QED BY <1>2, <1>3, <1>4, <1>5

LEMMA ExactNext ==
  ASSUME AudBounds, AudTypes, OneLane, Exact, [W!Next]_(W!avars), crashes' = 0
  PROVE  Tallied' = OnRecord' /\ \A r \in Lanes : lane'[r].pc = "leave" => lane'[r].u \in viewing'
<1>0. crashes = 0 /\ Tallied = OnRecord /\ \A r \in Lanes : lane[r].pc = "leave" => lane[r].u \in viewing
  BY BalanceNext DEF Exact
<1>1. Balanced
  <2>1. ASSUME NEW r \in Lanes, W!Unview(r) PROVE lane[r].u \in viewing
    BY <1>0, <2>1, UnviewTurns
  <2>2. QED BY <2>1, BalanceNext
<1>2. Tallied' = OnRecord'
  <2>1. Tallied \in Int /\ OnRecord \in Int
    BY CountTypes DEF Tallied, OnRecord
  <2>2. Tallied' \in Int /\ OnRecord' \in Int
    <3>1. AudTypes'
      BY AudTypesNext
    <3>2. IsFiniteSet(viewing') /\ IsFiniteSet(LanesAt("count")') /\ IsFiniteSet(LanesAt("uncount")')
      BY <3>1, FS_Subset DEF AudBounds, AudTypes, LanesAt
    <3>3. QED BY <3>1, <3>2, FS_CardinalityType DEF AudTypes, Tallied, OnRecord
  <2>3. \A a, b, c, d \in Int : a - b = c - d /\ c = d => a = b
    OBVIOUS
  <2>4. QED BY <1>0, <1>1, <2>1, <2>2, <2>3 DEF Balanced
<1>3. ASSUME NEW r \in Lanes, lane'[r].pc = "leave" PROVE lane'[r].u \in viewing'
  <2>1. CASE lane' = lane /\ viewing \subseteq viewing'
    BY <1>0, <1>3, <2>1
  <2>2. ASSUME NEW q \in Lanes, Arrives(q) PROVE lane'[r].u \in viewing'
    <3>0. q = r /\ viewing' = viewing
      BY <2>2 DEF OneLane, Arrives, W!JoinStream, W!LeaveStream, W!EnterBegin, W!records
    <3>1. PICK u \in Viewers : \/ W!JoinStream(r, u) \/ W!LeaveStream(r, u)
                               \/ \E k \in Sockets : W!EnterBegin(r, k)
      BY <2>2, <3>0 DEF Arrives
    <3>2. CASE W!LeaveStream(r, u)
      <4>1. Fills(r, [pc |-> "leave", u |-> u, k |-> NoSocket]) /\ u \in viewing
        BY <3>2, LaneSteps DEF W!LeaveStream
      <4>2. QED BY <3>0, <4>1, LaneRest
    <3>3. CASE ~W!LeaveStream(r, u)
      <4>1. \/ \E pc \in {"join"} : Fills(r, [pc |-> pc, u |-> u, k |-> NoSocket])
            \/ \E v, k : Fills(r, [pc |-> "enter", u |-> v, k |-> k])
        BY <3>1, <3>3, LaneSteps DEF W!JoinStream, W!EnterBegin
      <4>2. ASSUME NEW pc \in {"join"}, Fills(r, [pc |-> pc, u |-> u, k |-> NoSocket]) PROVE FALSE
        <5>1. [pc |-> pc, u |-> u, k |-> NoSocket].pc = pc
          OBVIOUS
        <5>2. QED BY <1>3, <4>2, <5>1, LaneRest
      <4>3. ASSUME NEW v, NEW k, Fills(r, [pc |-> "enter", u |-> v, k |-> k]) PROVE FALSE
        <5>1. [pc |-> "enter", u |-> v, k |-> k].pc = "enter"
          OBVIOUS
        <5>2. QED BY <1>3, <4>3, <5>1, LaneRest
      <4>4. QED BY <4>1, <4>2, <4>3
    <3>4. QED BY <3>2, <3>3
  <2>3. ASSUME NEW q \in Lanes, \/ W!View(q) \/ W!Unview(q) \/ W!CountViewer(q) \/ W!Enter(q)
        PROVE  FALSE
    <3>1. PICK h : Fills(q, h) /\ h.pc \in {"idle", "count", "uncount"}
      BY <2>3, ViewTurns, UnviewTurns, LaneSteps DEF W!CountViewer, W!Enter, W!FreeLane
    <3>2. QED BY <1>3, <3>1, LaneRest DEF OneLane
  <2>4. W!Crash => FALSE
    BY DEF W!Crash, AudTypes
  <2>5. UNCHANGED W!avars \/ (\E k \in Sockets : W!HostEnters(k) \/ W!Disconnect(k))
        \/ (\E k \in Sockets, u \in W!People : W!Connect(k, u)) \/ (\E u \in Viewers : W!KickUser(u) \/ W!Unblock(u))
        \/ W!Heartbeat \/ W!BeatTimeout
        => lane' = lane /\ viewing' = viewing
    BY DEF W!avars, W!HostEnters, W!Disconnect, W!Connect, W!KickUser, W!Unblock, W!Heartbeat, W!BeatTimeout, W!records
  <2>6. QED BY <2>1, <2>2, <2>3, <2>4, <2>5, AudSteps
<1>4. QED BY <1>2, <1>3

----------------
(* The theorems.                                                           *)

LEMMA AudInit == AudBounds /\ W!Init => AudInv
<1> SUFFICES ASSUME AudBounds, W!Init PROVE AudInv
  OBVIOUS
<1>1. AudTypes
  BY DEF W!Init, AudTypes, W!People
<1>2. LanesAt("count") = {} /\ LanesAt("uncount") = {} /\ viewing = {} /\ count = 0
  BY DEF W!Init, LanesAt, W!FreeLane
<1>3. Tallied = 0 /\ OnRecord = 0
  BY <1>2, FS_EmptySet DEF Tallied, OnRecord
<1>4. \A r \in Lanes : lane[r].pc = "idle"
  BY DEF W!Init, W!FreeLane
<1>5. QED BY <1>1, <1>3, <1>4 DEF AudInv, Exact

LEMMA AudNext == AudBounds /\ AudInv /\ [W!Next]_(W!avars) => AudInv'
<1> SUFFICES ASSUME AudBounds, AudInv, [W!Next]_(W!avars) PROVE AudInv'
  OBVIOUS
<1>1. AudTypes'
  BY AudTypesNext DEF AudInv
<1>2. crashes' = 0 => Tallied' <= OnRecord'
  BY CountedNext DEF AudInv
<1>3. OneLane => Exact'
  BY ExactNext DEF AudInv, Exact
<1>4. QED BY <1>1, <1>2, <1>3 DEF AudInv, OneLane

LEMMA AudInvariance == ASSUME AudBounds PROVE W!Spec => []AudInv
<1>1. AudInv /\ [W!Next]_(W!avars) => AudInv'
  BY AudNext
<1>2. W!Init => AudInv
  BY AudInit
<1>3. QED BY <1>1, <1>2, PTL DEF W!Spec

\* With one lane, one handler follows another.
LEMMA AudAlone == ASSUME AudBounds, W!Cardinality(Lanes) = 1 PROVE OneLane
<1>1. PICK r : Lanes = {r}
  BY AudSize, FS_Singleton DEF AudBounds
<1>2. QED BY <1>1 DEF OneLane

\* join_stream, leaveStream: the viewer count never exceeds the active viewer
\* records, however joins and leaves overlap.
THEOREM AudienceNotOvercounted == ASSUME AudBounds PROVE W!Spec => []W!NeverOvercounted
<1>1. ASSUME AudInv PROVE W!NeverOvercounted
  <2> SUFFICES ASSUME crashes = 0
               PROVE  count <= W!Cardinality(viewing) + W!Cardinality({r \in Lanes : W!In(r, "uncount")})
    BY DEF W!NeverOvercounted
  <2>1. {r \in Lanes : W!In(r, "uncount")} = LanesAt("uncount")
    BY DEF LanesAt, W!In
  <2>2. count + Cardinality(LanesAt("count")) <= Cardinality(viewing) + Cardinality(LanesAt("uncount"))
    BY <1>1 DEF AudInv, Tallied, OnRecord
  <2>3. /\ W!Cardinality(viewing) = Cardinality(viewing)
        /\ W!Cardinality(LanesAt("uncount")) = Cardinality(LanesAt("uncount"))
    BY AudSize
  <2>4. /\ Cardinality(viewing) \in Nat /\ count \in Int
        /\ Cardinality(LanesAt("count")) \in Nat /\ Cardinality(LanesAt("uncount")) \in Nat
    BY <1>1, CountTypes DEF AudInv
  <2>5. \A c, m, n, p : c \in Int /\ m \in Nat /\ n \in Nat /\ p \in Nat /\ c + p <= m + n => c <= m + n
    OBVIOUS
  <2>6. count <= Cardinality(viewing) + Cardinality(LanesAt("uncount"))
    BY <2>2, <2>4, <2>5
  <2>7. QED BY <2>1, <2>3, <2>6
<1>2. AudInv => W!NeverOvercounted
  BY <1>1
<1>3. QED BY <1>2, AudInvariance, PTL

\* One request at a time and no restart between its steps: it is exact.
THEOREM AudienceCounted == ASSUME AudBounds PROVE W!Spec => []W!ViewersCounted
<1>1. ASSUME AudInv PROVE W!ViewersCounted
  <2> SUFFICES ASSUME W!Cardinality(Lanes) = 1, crashes = 0, \A r \in Lanes : lane[r].pc = "idle"
               PROVE  count = W!Cardinality(viewing)
    BY DEF W!ViewersCounted, W!In
  <2>1. LanesAt("count") = {} /\ LanesAt("uncount") = {}
    BY DEF LanesAt
  <2>2. Tallied = OnRecord
    BY <1>1, AudAlone DEF AudInv, Exact
  <2>3. Cardinality({}) = 0
    BY FS_EmptySet
  <2>4. count = Cardinality(viewing)
    <3>1. Cardinality(viewing) \in Nat /\ count \in Int
      BY <1>1, CountTypes DEF AudInv
    <3>2. count + 0 = Cardinality(viewing) + 0
      BY <2>1, <2>2, <2>3 DEF Tallied, OnRecord
    <3>3. QED BY <3>1, <3>2
  <2>5. QED BY <2>4, AudSize
<1>2. AudInv => W!ViewersCounted
  BY <1>1
<1>3. QED BY <1>2, AudInvariance, PTL

\* handleDisconnect, handleStreamHeartbeat: a stream whose registered host has
\* gone has ended, whatever its viewers do.
THEOREM AudienceHostless == W!Spec => []W!GoneHostEndsStream
<1>1. W!Init => W!GoneHostEndsStream
  BY DEF W!Init, W!GoneHostEndsStream
<1>2. W!GoneHostEndsStream /\ [W!Next]_(W!avars) => W!GoneHostEndsStream'
  <2> SUFFICES ASSUME W!GoneHostEndsStream, [W!Next]_(W!avars) PROVE W!GoneHostEndsStream'
    OBVIOUS
  <2>1. live' = live /\ (hosting' = hosting \/ hosting' # "gone") => W!GoneHostEndsStream'
    BY DEF W!GoneHostEndsStream
  <2>2. \A r \in Lanes : Arrives(r) => live' = live /\ hosting' = hosting
    BY DEF Arrives, W!JoinStream, W!LeaveStream, W!EnterBegin, W!records, W!gateway
  <2>3. \A r \in Lanes : W!View(r) \/ W!Unview(r) \/ W!CountViewer(r) \/ W!Enter(r)
                          => live' = live /\ hosting' = hosting
    BY DEF W!View, W!Unview, W!CountViewer, W!Enter, W!records, W!gateway
  <2>4. ASSUME \E k \in Sockets : W!HostEnters(k) \/ W!Disconnect(k) PROVE W!GoneHostEndsStream'
    BY <2>4 DEF W!HostEnters, W!Disconnect, W!records, W!GoneHostEndsStream
  <2>5. \/ \E k \in Sockets, u \in W!People : W!Connect(k, u)
        \/ \E u \in Viewers : W!KickUser(u) \/ W!Unblock(u)
        \/ W!Heartbeat \/ W!Crash \/ UNCHANGED W!avars
        => live' = live /\ (hosting' = hosting \/ hosting' # "gone")
    BY DEF W!Connect, W!KickUser, W!Unblock, W!Heartbeat, W!Crash, W!avars, W!records, W!gateway
  <2>6. W!BeatTimeout => W!GoneHostEndsStream'
    BY DEF W!BeatTimeout, W!GoneHostEndsStream
  <2>7. QED BY <2>1, <2>2, <2>3, <2>4, <2>5, <2>6, AudSteps
<1>3. QED
  BY <1>1, <1>2, PTL DEF W!Spec
================
