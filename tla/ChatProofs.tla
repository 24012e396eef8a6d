-------- MODULE ChatProofs --------
(***************************************************************************)
(* Theorems about ChatSession for any number of chats, handlers, users,    *)
(* astrologers and faults; and about what surrounds a chat: who is blocked *)
(* (Blocking), the thread it is booked on (Threads), how an astrologer is  *)
(* admitted (Registration), the chats of AI astrologers (AiChat), how the  *)
(* recipient of a notification is told (Notices), and the messages of a    *)
(* chat (Messages).                                                        *)
(***************************************************************************)
EXTENDS ChatSession, Sequences, SequenceTheorems, SumTheorems

\* A number of whole minutes, in seconds.
Whole(n) == \E k \in Nat : n = 60 * k

\* What a handler has in hand: the limit it is about to grant, the price it
\* is about to take, and that it was taken.
Sound(h) ==
  /\ h.pc \in {"read", "saved"} /\ h.kind \in {"start", "extend"} => Whole(h.n)
  /\ h.pc \in {"priced", "paid"} => h.n \in Nat \ {0} /\ ~h.ok
  /\ h.pc = "priced" => replied[h.s] /\ h.n * 60 <= Rate * longest[h.s]
  /\ h.pc = "paid" \/ (h.pc = "closing" /\ h.ok) => charged[h.s] > 0
Checked == \A r \in Requests : Sound(req[r])

\* The limit of a chat is a number of whole minutes and the longest or less.
Limits == \A s \in Sessions : Whole(ses[s].max) /\ ses[s].max <= longest[s]

ChatInv == TypeOK /\ Checked /\ Limits /\ PaidWasCharged /\ SilentIsFree

----------------
(* Arithmetic.                                                             *)

LEMMA WholeNat ==
  ASSUME NEW n, Whole(n)
  PROVE  n \in Nat
  BY DEF Whole

LEMMA TimesMonotone ==
  ASSUME NEW a \in Nat, NEW b \in Nat, NEW c \in Nat, a <= b
  PROVE  c * a \in Nat /\ c * b \in Nat /\ c * a <= c * b
<1>1. PICK d \in Nat : b = a + d
  <2>1. b - a \in Nat /\ b = a + (b - a)
    OBVIOUS
  <2> QED BY <2>1
<1>2. \A x, y \in Nat : x * y \in Nat
  OBVIOUS
<1>3. c * b = c * a + c * d
  BY <1>1
<1>4. c * a \in Nat /\ c * d \in Nat /\ c * b \in Nat
  BY <1>2
<1> QED BY <1>3, <1>4

\* The minutes begun within a limit of whole minutes fit in it.
LEMMA MinutesFit ==
  ASSUME NEW seconds \in Nat, NEW max, Whole(max)
  PROVE  /\ Minutes(Lesser(seconds, max)) \in Nat
         /\ 60 * Minutes(Lesser(seconds, max)) <= max
<1>1. PICK k \in Nat : max = 60 * k
  BY DEF Whole
<1>2. PICK n \in Nat : n = Lesser(seconds, max) /\ n <= 60 * k
  BY <1>1 DEF Lesser
<1>3. (n + 59) \div 60 \in Nat /\ (n + 59) \div 60 <= k
  BY <1>2
<1> QED BY <1>1, <1>2, <1>3 DEF Minutes

LEMMA AffordableWhole ==
  ASSUME TypeOK, NEW s \in Sessions
  PROVE  Whole(Affordable(UserOf[s]))
<1>1. balance[UserOf[s]] \in Nat /\ Rate \in Nat \ {0}
  BY ChatAssumption DEF TypeOK
<1>2. balance[UserOf[s]] \div Rate \in Nat
  BY <1>1
<1> QED BY <1>2 DEF Affordable, Whole

\* A bill is for whole minutes within the limit of a chat that was answered.
LEMMA BillFits ==
  ASSUME TypeOK, Limits, NEW s \in Sessions
  PROVE  /\ Bill(s) \in Nat
         /\ Bill(s) > 0 => replied[s] /\ Bill(s) * 60 <= Rate * longest[s]
<1>1. elapsed[s] \in Nat
  <2>1. elapsed[s] \in Moments \cup {0}
    BY DEF TypeOK
  <2>2. \A m \in Moments : m \in Nat
    BY ChatAssumption
  <2> QED BY <2>1, <2>2
<1>2. PICK m \in Nat : m = Minutes(Lesser(elapsed[s], ses[s].max)) /\ 60 * m <= ses[s].max
  BY <1>1, MinutesFit DEF Limits
<1>3. Rate \in Nat /\ longest[s] \in Nat /\ 60 * m \in Nat /\ 60 * m <= longest[s]
  <2>1. ses[s].max <= longest[s] /\ ses[s].max \in Nat /\ longest[s] \in Nat
    BY WholeNat DEF Limits, TypeOK
  <2> QED BY <1>2, <2>1, ChatAssumption
<1>4. Rate * (60 * m) <= Rate * longest[s] /\ Rate * m \in Nat
  BY <1>3, TimesMonotone
<1>5. (Rate * m) * 60 = Rate * (60 * m)
  BY <1>3
<1> QED BY <1>2, <1>4, <1>5 DEF Bill

----------------
(* What the helpers do to the slots and to the documents.                  *)

LEMMA BusySlot ==
  ASSUME TypeOK, NEW r \in Requests, req[r].pc # "idle"
  PROVE  req[r] \in Handlers /\ req[r].s \in Sessions
  BY DEF TypeOK, Idle, Handlers

LEMMA StartSlot ==
  ASSUME TypeOK, NEW r \in Requests, NEW kind \in Kinds, NEW s \in Sessions, NEW pc \in Places,
         NEW n \in Nat \cup {-1}, NEW seen \in Documents, Start(r, kind, s, pc, n, seen)
  PROVE  /\ req' \in [Requests -> Handlers \cup {Idle}]
         /\ \A q \in Requests \ {r} : req'[q] = req[q]
         /\ req'[r].pc = pc /\ req'[r].kind = kind /\ req'[r].s = s /\ req'[r].n = n /\ ~req'[r].ok
         /\ req[r].pc = "idle"
  BY DEF TypeOK, Start, Handlers

LEMMA GotoSlot ==
  ASSUME TypeOK, NEW r \in Requests, req[r].pc # "idle", NEW pc \in Places, Goto(r, pc)
  PROVE  /\ req' \in [Requests -> Handlers \cup {Idle}]
         /\ \A q \in Requests \ {r} : req'[q] = req[q]
         /\ req'[r].pc = pc /\ req'[r].kind = req[r].kind /\ req'[r].s = req[r].s
         /\ req'[r].n = req[r].n /\ req'[r].ok = req[r].ok
<1>1. req[r] \in Handlers
  BY BusySlot
<1>2. req'[r] = [req[r] EXCEPT !.pc = pc] /\ \A q \in Requests \ {r} : req'[q] = req[q]
  BY DEF TypeOK, Goto
<1>3. [req[r] EXCEPT !.pc = pc] \in Handlers
  BY <1>1 DEF Handlers
<1> QED BY <1>1, <1>2, <1>3 DEF TypeOK, Goto, Handlers

LEMMA FinishSlot ==
  ASSUME TypeOK, NEW r \in Requests, Finish(r)
  PROVE  /\ req' \in [Requests -> Handlers \cup {Idle}]
         /\ \A q \in Requests \ {r} : req'[q] = req[q]
         /\ req'[r] = Idle
  BY DEF TypeOK, Finish

LEMMA NoDocument == NoSession \in Documents
  BY DEF NoSession, Documents, Statuses

LEMMA SavedStatus ==
  ASSUME TypeOK, NEW s \in Sessions, NEW status \in Statuses, SaveStatus(s, status)
  PROVE  /\ ses' \in [Sessions -> Documents]
         /\ \A t \in Sessions : ses'[t].max = ses[t].max /\ ses'[t].paid = ses[t].paid
<1>1. ses[s] \in Documents
  BY DEF TypeOK
<1>2. [ses[s] EXCEPT !.status = status] \in Documents
  BY <1>1 DEF Documents
<1>3. ses' = [ses EXCEPT ![s] = [ses[s] EXCEPT !.status = status]]
  BY DEF SaveStatus, TypeOK
<1> QED BY <1>1, <1>2, <1>3 DEF TypeOK, Documents

LEMMA TimerTypes ==
  ASSUME TypeOK, NEW s \in Sessions
  PROVE  /\ NoTimers \in Timers
         /\ NoRequestTimer(timer[s]) \in Timers
         /\ [NoRequestTimer(timer[s]) EXCEPT !.join = FALSE] \in Timers
         /\ \A b \in BOOLEAN : /\ [timer[s] EXCEPT !.request = b] \in Timers
                               /\ [timer[s] EXCEPT !.join = b] \in Timers
         /\ \A n \in Nat : [timer[s] EXCEPT !.ticker = n] \in Timers
<1>1. timer[s] \in Timers
  BY DEF TypeOK
<1> QED BY <1>1 DEF NoTimers, NoRequestTimer, Timers

----------------
(* Steps that only a handler's slot and the timers notice, and the others. *)

\* The data that the invariants are about are left as they are, but that a
\* limit may grow, an astrologer write, and a payment be taken.
Grows ==
  \A s \in Sessions :
    /\ charged[s] > 0 => charged'[s] > 0
    /\ replied[s] => replied'[s]
    /\ longest[s] <= longest'[s]

LEMMA SameGrows ==
  ASSUME TypeOK, UNCHANGED <<charged, replied, longest>>
  PROVE  Grows
  BY DEF TypeOK, Grows

\* What a handler has in hand stays true as the data grow.
LEMMA SoundStays ==
  ASSUME TypeOK, TypeOK', Grows, NEW q \in Requests, Sound(req[q]), req'[q] = req[q]
  PROVE  Sound(req[q])'
<1>1. CASE req[q].pc = "idle"
  BY <1>1 DEF Sound
<1>2. CASE req[q].pc # "idle"
  <2>1. req[q] \in Handlers /\ req[q].s \in Sessions /\ req[q].n \in Nat \cup {-1}
    BY <1>2, BusySlot DEF Handlers
  <2> DEFINE s == req[q].s
             n == req[q].n
  <2>2. Rate \in Nat /\ longest[s] \in Nat /\ longest'[s] \in Nat /\ longest[s] <= longest'[s]
    BY <2>1, ChatAssumption DEF TypeOK, Grows
  <2>3. Rate * longest[s] \in Nat /\ Rate * longest'[s] \in Nat
        /\ Rate * longest[s] <= Rate * longest'[s]
    BY <2>2, TimesMonotone
  <2>4. n * 60 <= Rate * longest[s] => n * 60 <= Rate * longest'[s]
    <3> HIDE DEF n, s
    <3>1. n \in Int
      BY <2>1 DEF n
    <3> QED BY <2>3, <3>1
  <2> QED BY <2>1, <2>4 DEF Sound, Grows
<1> QED BY <1>1, <1>2

LEMMA OneSlot ==
  ASSUME TypeOK, TypeOK', Checked, Grows, NEW r \in Requests,
         \A q \in Requests \ {r} : req'[q] = req[q], Sound(req[r])'
  PROVE  Checked'
<1>1. \A q \in Requests \ {r} : Sound(req[q])'
  BY SoundStays DEF Checked
<1> QED BY <1>1 DEF Checked

LEMMA NoSlot ==
  ASSUME TypeOK, TypeOK', Checked, Grows, req' = req
  PROVE  Checked'
  BY SoundStays DEF Checked

\* The data stay and the documents keep limit and mark.
LEMMA SameData ==
  ASSUME ChatInv, UNCHANGED <<charged, replied, longest>>,
         \A s \in Sessions : ses'[s].max = ses[s].max /\ ses'[s].paid = ses[s].paid
  PROVE  (Limits /\ PaidWasCharged /\ SilentIsFree)'
  BY DEF ChatInv, Limits, PaidWasCharged, SilentIsFree

\* A handler that begins, but not to end a chat.
LEMMA BeginKeeps ==
  ASSUME ChatInv, NEW r \in Requests, NEW s \in Sessions,
         NEW kind \in Kinds, NEW n \in Nat,
         kind \in {"start", "extend"} => Whole(n),
         Start(r, kind, s, "read", n, NoSession) \/ req' = req,
         UNCHANGED <<charged, replied, longest>>,
         ses' \in [Sessions -> Documents],
         \A t \in Sessions : ses'[t].max = ses[t].max /\ ses'[t].paid = ses[t].paid,
         timer' \in [Sessions -> Timers], busy' \in [Astrologers -> BOOLEAN],
         topUp' \in [Users -> BOOLEAN], shut' \in [Sessions -> BOOLEAN],
         UNCHANGED <<elapsed, old, balance, faults, revenue, platform>>
  PROVE  ChatInv'
<1>1. "read" \in Places
  BY DEF Places
<1>2. req' \in [Requests -> Handlers \cup {Idle}]
  BY <1>1, StartSlot, NoDocument DEF ChatInv, TypeOK
<1>3. TypeOK'
  BY <1>2 DEF ChatInv, TypeOK
<1>4. Checked'
  <2>1. CASE req' = req
    BY <1>3, <2>1, NoSlot, SameGrows DEF ChatInv
  <2>2. CASE Start(r, kind, s, "read", n, NoSession)
    <3>1. /\ req'[r].pc = "read" /\ req'[r].kind = kind /\ req'[r].n = n
          /\ \A q \in Requests \ {r} : req'[q] = req[q]
      BY <1>1, <2>2, StartSlot, NoDocument DEF ChatInv
    <3>2. Sound(req[r])'
      BY <3>1 DEF Sound, Whole
    <3> QED BY <1>3, <3>1, <3>2, OneSlot, SameGrows DEF ChatInv
  <2> QED BY <2>1, <2>2
<1> QED BY <1>3, <1>4, SameData DEF ChatInv

\* A handler that moves to a place where it has nothing in hand.
LEMMA MoveKeeps ==
  ASSUME ChatInv, NEW r \in Requests, req[r].pc # "idle",
         \/ Finish(r)
         \/ /\ req[r].kind \notin {"start", "extend"}
            /\ \E pc \in {"saved", "freed", "ended"} : Goto(r, pc),
         UNCHANGED <<charged, replied, longest>>,
         ses' \in [Sessions -> Documents],
         \A t \in Sessions : ses'[t].max = ses[t].max /\ ses'[t].paid = ses[t].paid,
         timer' \in [Sessions -> Timers], busy' \in [Astrologers -> BOOLEAN],
         shut' \in [Sessions -> BOOLEAN], faults' \in 0..MaxFaults,
         revenue' \in [Astrologers -> Nat], platform' \in [Astrologers -> Nat],
         UNCHANGED <<elapsed, old, balance, topUp>>
  PROVE  ChatInv'
<1>1. {"saved", "freed", "ended"} \subseteq Places
  BY DEF Places
<1>2. /\ req' \in [Requests -> Handlers \cup {Idle}]
      /\ \A q \in Requests \ {r} : req'[q] = req[q]
      /\ Sound(req[r])'
  <2>1. CASE Finish(r)
    <3>1. req'[r].pc = "idle"
      BY <2>1, FinishSlot DEF ChatInv, Idle
    <3> QED BY <2>1, <3>1, FinishSlot DEF ChatInv, Sound
  <2>2. ASSUME NEW pc \in {"saved", "freed", "ended"}, Goto(r, pc),
               req[r].kind \notin {"start", "extend"}
        PROVE  /\ req' \in [Requests -> Handlers \cup {Idle}]
               /\ \A q \in Requests \ {r} : req'[q] = req[q]
               /\ Sound(req[r])'
    <3>1. req'[r].pc = pc /\ req'[r].kind = req[r].kind
      BY <1>1, <2>2, GotoSlot DEF ChatInv
    <3>2. Sound(req[r])'
      BY <2>2, <3>1 DEF Sound
    <3> QED BY <1>1, <2>2, <3>2, GotoSlot DEF ChatInv
  <2> QED BY <2>1, <2>2
<1>3. TypeOK'
  BY <1>2 DEF ChatInv, TypeOK
<1>4. Checked'
  BY <1>2, <1>3, OneSlot, SameGrows DEF ChatInv
<1> QED BY <1>3, <1>4, SameData DEF ChatInv

----------------
(* The actions.                                                            *)

\* A handler that begins on a request, or finds it settled.
LEMMA BeginsKeep ==
  ASSUME ChatInv, NEW r \in Requests, NEW s \in Sessions,
         \/ InitiateBegin(r, s) \/ ContinueBegin(r, s) \/ AcceptBegin(r, s)
         \/ RejectOrCancelBegin(r, s) \/ RequestTimeout(r, s) \/ JoinTimeout(r, s)
         \/ StartBegin(r, s) \/ ExtendBegin(r, s) \/ HungBegin(r, s)
  PROVE  ChatInv'
<1>1. TypeOK
  BY DEF ChatInv
<1>2. DOMAIN Target \cup {"initiate", "accept", "start", "extend"} \subseteq Kinds
  BY DEF Kinds
<1>3. Affordable(UserOf[s]) \in Nat /\ Whole(Affordable(UserOf[s]))
  BY <1>1, AffordableWhole, WholeNat
<1>4. CASE InitiateBegin(r, s)
  <2>1. \A t \in Sessions : [ses[t] EXCEPT !.status = "cancelled"] \in Documents
    BY <1>1 DEF TypeOK, Documents, Statuses, Closed
  <2>2. ses' \in [Sessions -> Documents] /\ shut' \in [Sessions -> BOOLEAN]
    BY <1>1, <1>4, <2>1 DEF InitiateBegin, TypeOK
  <2>3. \A t \in Sessions : ses'[t].max = ses[t].max /\ ses'[t].paid = ses[t].paid
    BY <1>1, <1>4 DEF InitiateBegin, TypeOK, Documents
  <2>4. Start(r, "initiate", s, "read", 0, NoSession) \/ req' = req
    BY <1>4 DEF InitiateBegin
  <2>5. /\ UNCHANGED <<elapsed, replied, old, timer, busy, faults, longest, money>>
    BY <1>4 DEF InitiateBegin
  <2> QED BY <1>1, <1>2, <2>2, <2>3, <2>4, <2>5, BeginKeeps DEF TypeOK, money
<1>5. CASE ContinueBegin(r, s)
  BY <1>1, <1>2, <1>5, BeginKeeps DEF ContinueBegin, TypeOK, stored, money
<1>6. CASE AcceptBegin(r, s)
  <2>1. timer' \in [Sessions -> Timers]
    BY <1>1, <1>6, TimerTypes DEF AcceptBegin, TypeOK
  <2> QED BY <1>1, <1>2, <1>6, <2>1, BeginKeeps DEF AcceptBegin, TypeOK, stored, money
<1>7. ASSUME NEW kind \in DOMAIN Target, CloseBegin(r, s, kind), timer' \in [Sessions -> Timers]
      PROVE  ChatInv'
  <2>1. kind \notin {"start", "extend"} /\ kind \in Kinds
    BY <1>2 DEF Target
  <2> QED BY <1>1, <1>7, <2>1, BeginKeeps DEF CloseBegin, TypeOK, stored, money
<1>8. {"reject", "cancel", "timeout", "noShow", "hung"} \subseteq DOMAIN Target
  BY DEF Target
<1>9. ASSUME UNCHANGED <<stored, busy, req, faults, longest, shut, money>>, timer' \in [Sessions -> Timers]
      PROVE  ChatInv'
  BY <1>1, <1>2, <1>9, BeginKeeps DEF TypeOK, stored, money
<1>10. CASE RejectOrCancelBegin(r, s)
  <2>1. timer' \in [Sessions -> Timers]
    BY <1>1, <1>10, TimerTypes DEF RejectOrCancelBegin, TypeOK
  <2> QED BY <1>7, <1>8, <1>10, <2>1 DEF RejectOrCancelBegin
<1>11. CASE RequestTimeout(r, s)
  <2>1. timer' \in [Sessions -> Timers]
    BY <1>1, <1>11, TimerTypes DEF RequestTimeout, TypeOK
  <2> QED BY <1>7, <1>8, <1>9, <1>11, <2>1 DEF RequestTimeout
<1>12. CASE JoinTimeout(r, s)
  <2>1. timer' \in [Sessions -> Timers]
    BY <1>1, <1>12, TimerTypes DEF JoinTimeout, TypeOK
  <2> QED BY <1>7, <1>8, <1>9, <1>12, <2>1 DEF JoinTimeout
<1>13. CASE HungBegin(r, s)
  BY <1>1, <1>7, <1>8, <1>13 DEF HungBegin, TypeOK
<1>14. CASE StartBegin(r, s)
  <2>1. busy' \in [Astrologers -> BOOLEAN]
    BY <1>1, <1>14 DEF StartBegin, TypeOK
  <2> QED BY <1>1, <1>2, <1>3, <1>14, <2>1, BeginKeeps DEF StartBegin, TypeOK, stored, money
<1>15. CASE ExtendBegin(r, s)
  <2>1. topUp' \in [Users -> BOOLEAN]
    BY <1>1, <1>15 DEF ExtendBegin, TypeOK
  <2> QED BY <1>1, <1>2, <1>3, <1>15, <2>1, BeginKeeps DEF ExtendBegin, TypeOK, stored
<1> QED BY <1>4, <1>5, <1>6, <1>10, <1>11, <1>12, <1>13, <1>14, <1>15

\* A handler that ends a chat reads it and prices it.
LEMMA EndBeginKeeps ==
  ASSUME ChatInv, NEW r \in Requests, NEW s \in Sessions, EndBegin(r, s),
         timer' \in [Sessions -> Timers]
  PROVE  ChatInv'
<1>1. TypeOK /\ Limits
  BY DEF ChatInv
<1>2. PICK n \in Nat \cup {-1} :
        /\ Start(r, "end", s, IF n > 0 THEN "priced" ELSE "closing", n, ses[s])
        /\ n > 0 => replied[s] /\ n * 60 <= Rate * longest[s]
  <2>1. CASE ses[s].status = "active"
    BY <1>1, <2>1, BillFits DEF EndBegin
  <2>2. CASE ses[s].status # "active"
    BY <2>2 DEF EndBegin
  <2> QED BY <2>1, <2>2
<1> DEFINE pc == IF n > 0 THEN "priced" ELSE "closing"
<1>3. "end" \in Kinds /\ pc \in Places /\ pc \in {"priced", "closing"} /\ ses[s] \in Documents
      /\ (pc = "priced" <=> n > 0)
  BY <1>1 DEF Kinds, Places, TypeOK
<1>4. /\ req' \in [Requests -> Handlers \cup {Idle}]
      /\ \A q \in Requests \ {r} : req'[q] = req[q]
      /\ req'[r].pc = pc /\ req'[r].s = s /\ req'[r].n = n /\ ~req'[r].ok
  <2>1. Start(r, "end", s, pc, n, ses[s])
    BY <1>2
  <2> HIDE DEF pc
  <2> QED BY <1>1, <1>3, <2>1, StartSlot
<1>5. UNCHANGED <<stored, busy, faults, longest, shut, money>>
  BY DEF EndBegin
<1>6. TypeOK'
  BY <1>1, <1>4, <1>5 DEF TypeOK, stored, money
<1>7. Sound(req[r])'
  <2>1. Rate * longest'[s] = Rate * longest[s] /\ replied'[s] = replied[s]
    BY <1>5 DEF stored
  <2> HIDE DEF pc
  <2> QED BY <1>2, <1>3, <1>4, <2>1 DEF Sound
<1>8. Checked'
  BY <1>1, <1>4, <1>5, <1>6, <1>7, OneSlot, SameGrows DEF ChatInv, stored, money
<1> QED BY <1>5, <1>6, <1>8, SameData DEF ChatInv, stored, money

LEMMA EndsKeep ==
  ASSUME ChatInv, NEW r \in Requests, NEW s \in Sessions,
         EndByRequest(r, s) \/ EndByTicker(r, s) \/ EndByTimer(r, s) \/ Sweep(r, s)
  PROVE  ChatInv'
<1>1. timer' \in [Sessions -> Timers]
  BY TimerTypes DEF ChatInv, TypeOK, EndByRequest, EndByTicker, EndByTimer, Sweep, ClearTimers
<1> QED BY <1>1, EndBeginKeeps DEF EndByRequest, EndByTicker, EndByTimer, Sweep

\* A handler of a request that goes on.
LEMMA RequestKeeps ==
  ASSUME ChatInv, NEW r \in Requests,
         \/ InitiateSave(r) \/ AcceptSave(r) \/ HoldAstrologer(r)
         \/ CloseSave(r) \/ FreeAstrologer(r) \/ HandlerFails(r)
  PROVE  ChatInv'
<1>1. TypeOK
  BY DEF ChatInv
<1>2. req[r].pc # "idle" /\ req[r] \in Handlers /\ req[r].s \in Sessions
      /\ AstrologerOf[req[r].s] \in Astrologers
  <2>1. req[r].pc # "idle"
    BY DEF InitiateSave, AcceptSave, HoldAstrologer, CloseSave, FreeAstrologer, HandlerFails, At
  <2> QED BY <1>1, <2>1, BusySlot, ChatAssumption
<1>3. CASE InitiateSave(r)
  <2>1. /\ ses' \in [Sessions -> Documents]
        /\ \A t \in Sessions : ses'[t].max = ses[t].max /\ ses'[t].paid = ses[t].paid
    BY <1>1, <1>2, <1>3, SavedStatus DEF InitiateSave, Statuses, Live, Pending
  <2>2. timer' \in [Sessions -> Timers]
    BY <1>1, <1>2, <1>3, TimerTypes DEF InitiateSave, TypeOK
  <2>3. Finish(r) \/ (req[r].kind \notin {"start", "extend"} /\ Goto(r, "saved"))
    BY <1>3 DEF InitiateSave, At
  <2>4. UNCHANGED <<elapsed, replied, old, busy, faults, longest, shut, money>>
    BY <1>3 DEF InitiateSave
  <2> QED BY <1>1, <1>2, <2>1, <2>2, <2>3, <2>4, MoveKeeps DEF TypeOK, money
<1>4. CASE AcceptSave(r)
  <2>1. /\ ses' \in [Sessions -> Documents]
        /\ \A t \in Sessions : ses'[t].max = ses[t].max /\ ses'[t].paid = ses[t].paid
    BY <1>1, <1>2, <1>4, SavedStatus DEF AcceptSave, Statuses, Live, Pending
  <2>2. req[r].kind \notin {"start", "extend"} /\ Goto(r, "saved")
    BY <1>4 DEF AcceptSave, At
  <2>3. UNCHANGED <<elapsed, replied, old, timer, busy, faults, longest, shut, money>>
    BY <1>4 DEF AcceptSave
  <2> QED BY <1>1, <1>2, <2>1, <2>2, <2>3, MoveKeeps DEF TypeOK, money
<1>5. CASE HoldAstrologer(r)
  <2>1. timer' \in [Sessions -> Timers] /\ busy' \in [Astrologers -> BOOLEAN]
    BY <1>1, <1>2, <1>5, TimerTypes DEF HoldAstrologer, TypeOK
  <2> QED BY <1>1, <1>2, <1>5, <2>1, MoveKeeps DEF HoldAstrologer, TypeOK, stored, money
<1>6. CASE CloseSave(r)
  <2>1. req[r].kind \in DOMAIN Target
    BY <1>6 DEF CloseSave, At
  <2>2. Target[req[r].kind] \in Statuses /\ req[r].kind \notin {"start", "extend"}
    BY <2>1 DEF Target, Statuses, Closed
  <2>3. /\ ses' \in [Sessions -> Documents]
        /\ \A t \in Sessions : ses'[t].max = ses[t].max /\ ses'[t].paid = ses[t].paid
    BY <1>1, <1>2, <1>6, <2>2, SavedStatus DEF CloseSave
  <2>4. shut' \in [Sessions -> BOOLEAN] /\ Goto(r, "saved")
    BY <1>1, <1>2, <1>6 DEF CloseSave, TypeOK
  <2>5. UNCHANGED <<elapsed, replied, old, timer, busy, faults, longest, money>>
    BY <1>6 DEF CloseSave
  <2> QED BY <1>1, <1>2, <2>2, <2>3, <2>4, <2>5, MoveKeeps DEF TypeOK, money
<1>7. CASE FreeAstrologer(r)
  <2>1. busy' \in [Astrologers -> BOOLEAN]
    BY <1>1, <1>2, <1>7 DEF FreeAstrologer, TypeOK
  <2>2. Finish(r) \/ (req[r].kind \notin {"start", "extend"} /\ Goto(r, "freed"))
    BY <1>7 DEF FreeAstrologer, At
  <2>3. UNCHANGED <<stored, timer, faults, longest, shut, money>>
    BY <1>7 DEF FreeAstrologer
  <2> QED BY <1>1, <1>2, <2>1, <2>2, <2>3, MoveKeeps DEF TypeOK, stored, money
<1>8. CASE HandlerFails(r)
  <2>1. faults' \in 0..MaxFaults
    BY <1>1, <1>8, ChatAssumption DEF HandlerFails, TypeOK
  <2> QED BY <1>1, <1>2, <1>8, <2>1, MoveKeeps DEF HandlerFails, TypeOK, stored, money
<1> QED BY <1>3, <1>4, <1>5, <1>6, <1>7, <1>8

\* A limit that is granted: the session takes it, and the longest keeps up.
LEMMA GrantKeeps ==
  ASSUME ChatInv, NEW s \in Sessions, NEW n, Whole(n),
         ses' \in [Sessions -> Documents],
         \A t \in Sessions \ {s} : ses'[t] = ses[t],
         ses'[s].max = n, ses'[s].paid = ses[s].paid,
         longest' = [longest EXCEPT ![s] = IF @ < n THEN n ELSE @],
         UNCHANGED <<charged, replied>>
  PROVE  /\ longest' \in [Sessions -> Nat]
         /\ Grows /\ (Limits /\ PaidWasCharged /\ SilentIsFree)'
<1>1. n \in Nat /\ longest \in [Sessions -> Nat]
  BY WholeNat DEF ChatInv, TypeOK
<1>2. /\ longest' \in [Sessions -> Nat] /\ n <= longest'[s]
      /\ \A t \in Sessions : longest[t] <= longest'[t]
      /\ \A t \in Sessions \ {s} : longest'[t] = longest[t]
  BY <1>1
<1>3. Grows
  BY <1>2 DEF Grows
<1>4. Limits'
  BY <1>2 DEF ChatInv, Limits, Whole
<1>5. PaidWasCharged' /\ SilentIsFree'
  BY DEF ChatInv, PaidWasCharged, SilentIsFree
<1> QED BY <1>2, <1>3, <1>4, <1>5

LEMMA StartSaveKeeps ==
  ASSUME ChatInv, NEW r \in Requests, StartSave(r)
  PROVE  ChatInv'
<1>1. TypeOK /\ Checked
  BY DEF ChatInv
<1>2. PICK s \in Sessions : req[r].s = s
  BY <1>1, BusySlot DEF StartSave, At
<1>3. PICK n \in Nat : req[r].n = n /\ Whole(n)
  BY <1>1, WholeNat DEF StartSave, At, Checked, Sound
<1>4. ses' = [ses EXCEPT ![s] = [ses[s] EXCEPT !.status = "active", !.max = n]]
  BY <1>1, <1>2, <1>3 DEF StartSave, TypeOK
<1>5. ses[s] \in Documents /\ "active" \in Statuses
  BY <1>1 DEF TypeOK, Statuses, Live
<1>6. /\ ses' \in [Sessions -> Documents] /\ \A t \in Sessions \ {s} : ses'[t] = ses[t]
      /\ ses'[s].max = n /\ ses'[s].paid = ses[s].paid
  BY <1>1, <1>4, <1>5 DEF TypeOK, Documents
<1>7. longest' = [longest EXCEPT ![s] = IF @ < n THEN n ELSE @]
  BY <1>2, <1>3 DEF StartSave
<1>8. UNCHANGED <<replied, old, busy, faults, shut, money>>
  BY DEF StartSave
<1>9. longest' \in [Sessions -> Nat] /\ Grows /\ (Limits /\ PaidWasCharged /\ SilentIsFree)'
  BY <1>3, <1>6, <1>7, <1>8, GrantKeeps DEF money
<1>10. timer' \in [Sessions -> Timers] /\ elapsed' \in [Sessions -> Moments \cup {0}]
  BY <1>1, <1>2, TimerTypes DEF StartSave, TypeOK
<1>11. /\ req' \in [Requests -> Handlers \cup {Idle}] /\ \A q \in Requests \ {r} : req'[q] = req[q]
       /\ req'[r].pc = "saved" /\ req'[r].n = n
  BY <1>1, <1>3, GotoSlot DEF StartSave, At, Places
<1>12. TypeOK'
  BY <1>1, <1>6, <1>8, <1>9, <1>10, <1>11 DEF TypeOK, money
<1>13. Sound(req[r])'
  BY <1>3, <1>11 DEF Sound, Whole
<1> QED BY <1>1, <1>9, <1>11, <1>12, <1>13, OneSlot DEF ChatInv

LEMMA StartTickerKeeps ==
  ASSUME ChatInv, NEW r \in Requests, StartTicker(r)
  PROVE  ChatInv'
<1>1. TypeOK /\ Checked
  BY DEF ChatInv
<1>2. req[r].pc # "idle" /\ req[r].s \in Sessions
  BY <1>1, BusySlot DEF StartTicker, At
<1>3. req[r].n \in Nat
  BY <1>1, WholeNat DEF StartTicker, At, Checked, Sound
<1>4. timer' \in [Sessions -> Timers]
  BY <1>1, <1>2, <1>3, TimerTypes DEF StartTicker, TypeOK
<1> QED BY <1>1, <1>2, <1>4, MoveKeeps DEF StartTicker, TypeOK, stored, money

LEMMA ExtendSaveKeeps ==
  ASSUME ChatInv, NEW r \in Requests, ExtendSave(r)
  PROVE  ChatInv'
<1>1. TypeOK /\ Checked
  BY DEF ChatInv
<1>2. PICK s \in Sessions : req[r].s = s
  BY <1>1, BusySlot DEF ExtendSave, At
<1>3. PICK n \in Nat : req[r].n = n /\ Whole(n)
  BY <1>1, WholeNat DEF ExtendSave, At, Checked, Sound
<1>4. ses' = [ses EXCEPT ![s] = [ses[s] EXCEPT !.max = n]]
  BY <1>1, <1>2, <1>3 DEF ExtendSave, TypeOK
<1>5. ses[s] \in Documents /\ timer[s] \in Timers /\ AstrologerOf[s] \in Astrologers
  BY <1>1, ChatAssumption DEF TypeOK
<1>6. /\ ses' \in [Sessions -> Documents] /\ \A t \in Sessions \ {s} : ses'[t] = ses[t]
      /\ ses'[s].max = n /\ ses'[s].paid = ses[s].paid
  BY <1>1, <1>4, <1>5 DEF TypeOK, Documents
<1>7. longest' = [longest EXCEPT ![s] = IF @ < n THEN n ELSE @]
  BY <1>2, <1>3 DEF ExtendSave
<1>8. UNCHANGED <<elapsed, replied, old, faults, shut, money>>
  BY DEF ExtendSave
<1>9. longest' \in [Sessions -> Nat] /\ Grows /\ (Limits /\ PaidWasCharged /\ SilentIsFree)'
  BY <1>3, <1>6, <1>7, <1>8, GrantKeeps DEF money
<1>10. timer' \in [Sessions -> Timers]
  <2>1. elapsed[s] \in Moments \cup {0} /\ \A m \in Moments : m \in Nat
    BY <1>1, ChatAssumption DEF TypeOK
  <2>2. PICK e \in Nat : e = elapsed[s] + n
    BY <2>1
  <2>3. PICK k \in Nat \cup {-1} : k = IF timer[s].ticker >= 0 THEN n ELSE timer[s].ticker
    BY <1>5 DEF Timers
  <2>4. timer' = [timer EXCEPT ![s] = [timer[s] EXCEPT !.request = FALSE, !.autoEnd = e, !.ticker = k]]
    BY <1>1, <1>2, <1>3, <2>2, <2>3 DEF ExtendSave, TypeOK
  <2>5. [timer[s] EXCEPT !.request = FALSE, !.autoEnd = e, !.ticker = k] \in Timers
    BY <1>5 DEF Timers
  <2> QED BY <1>1, <2>4, <2>5 DEF TypeOK
<1>11. busy' \in [Astrologers -> BOOLEAN]
  BY <1>1, <1>2, <1>5 DEF ExtendSave, TypeOK
<1>12. /\ req' \in [Requests -> Handlers \cup {Idle}] /\ \A q \in Requests \ {r} : req'[q] = req[q]
       /\ req'[r].pc = "idle"
  BY <1>1, FinishSlot DEF ExtendSave, Idle
<1>13. TypeOK'
  BY <1>1, <1>6, <1>8, <1>9, <1>10, <1>11, <1>12 DEF TypeOK, money
<1>14. Sound(req[r])'
  BY <1>12 DEF Sound
<1> QED BY <1>1, <1>9, <1>12, <1>13, <1>14, OneSlot DEF ChatInv

----------------
(* The bill.                                                               *)

\* The payment of a handler: what it takes, and that the chat was answered.
LEMMA PayEffect ==
  ASSUME ChatInv, NEW r \in Requests, Pay(r)
  PROVE  \E s \in Sessions, n \in Nat \ {0} :
           /\ req[r].s = s /\ req[r].n = n /\ charged' = [charged EXCEPT ![s] = @ + n]
           /\ replied[s] /\ n * 60 <= Rate * longest[s] /\ ~req[r].ok
<1>1. req[r].s \in Sessions /\ Sound(req[r]) /\ req[r].pc = "priced"
  BY BusySlot DEF ChatInv, Pay, At, Checked
<1> QED BY <1>1 DEF Sound, Pay

LEMMA PayKeeps ==
  ASSUME ChatInv, NEW r \in Requests, Pay(r)
  PROVE  ChatInv'
<1>1. TypeOK /\ Checked
  BY DEF ChatInv
<1>2. PICK s \in Sessions, n \in Nat \ {0} :
        /\ req[r].s = s /\ req[r].n = n /\ charged' = [charged EXCEPT ![s] = @ + n]
        /\ replied[s] /\ ~req[r].ok
  BY PayEffect
<1>3. UserOf[s] \in Users
  BY ChatAssumption
<1>4. balance' \in [Users -> Nat]
  BY <1>1, <1>2, <1>3 DEF Pay, TypeOK
<1>5. /\ charged' \in [Sessions -> Nat] /\ charged'[s] > 0
      /\ \A t \in Sessions : charged[t] > 0 => charged'[t] > 0
      /\ \A t \in Sessions \ {s} : charged'[t] = charged[t]
  BY <1>1, <1>2 DEF TypeOK
<1>6. UNCHANGED <<stored, timer, busy, faults, longest, shut, topUp, revenue, platform>>
  BY DEF Pay
<1>7. /\ req' \in [Requests -> Handlers \cup {Idle}] /\ \A q \in Requests \ {r} : req'[q] = req[q]
      /\ req'[r].pc = "paid" /\ req'[r].n = n /\ req'[r].s = s /\ ~req'[r].ok
  BY <1>1, <1>2, GotoSlot DEF Pay, At, Places
<1>8. TypeOK'
  BY <1>1, <1>4, <1>5, <1>6, <1>7 DEF TypeOK, stored
<1>9. Grows
  BY <1>1, <1>5, <1>6 DEF Grows, TypeOK, stored
<1>10. Sound(req[r])'
  BY <1>5, <1>7 DEF Sound
<1>11. (Limits /\ PaidWasCharged /\ SilentIsFree)'
  BY <1>2, <1>5, <1>6 DEF ChatInv, Limits, PaidWasCharged, SilentIsFree, stored
<1> QED BY <1>1, <1>7, <1>8, <1>9, <1>10, <1>11, OneSlot DEF ChatInv

\* What a session earns adds up in natural numbers.
LEMMA EarnType ==
  ASSUME TypeOK, NEW a \in Astrologers, NEW n \in Nat, Earn(a, n)
  PROVE  revenue' \in [Astrologers -> Nat] /\ platform' \in [Astrologers -> Nat]
<1>1. n \div 2 \in Nat
  OBVIOUS
<1> QED BY <1>1 DEF TypeOK, Earn

LEMMA SettleKeeps ==
  ASSUME ChatInv, NEW r \in Requests, Credit(r) \/ Unpaid(r)
  PROVE  ChatInv'
<1>1. TypeOK /\ Checked
  BY DEF ChatInv
<1>2. req[r].pc \in {"priced", "paid"}
  BY DEF Credit, Unpaid, At
<1>3. /\ req[r] \in Handlers /\ req[r].s \in Sessions /\ AstrologerOf[req[r].s] \in Astrologers
      /\ req[r].n \in Nat /\ ~req[r].ok
  BY <1>1, <1>2, BusySlot, ChatAssumption DEF Checked, Sound
<1>4. UNCHANGED <<stored, timer, busy, faults, longest, shut, balance, topUp, charged>>
  BY DEF Credit, Unpaid, money
<1>5. revenue' \in [Astrologers -> Nat] /\ platform' \in [Astrologers -> Nat]
  <2>1. CASE Credit(r)
    BY <1>1, <1>3, <2>1, EarnType DEF Credit
  <2>2. CASE Unpaid(r)
    BY <1>1, <2>2 DEF Unpaid, TypeOK, money
  <2> QED BY <2>1, <2>2
<1>6. /\ req' \in [Requests -> Handlers \cup {Idle}] /\ \A q \in Requests \ {r} : req'[q] = req[q]
      /\ req'[r].pc = "closing" /\ req'[r].s = req[r].s
      /\ req'[r].ok => charged[req[r].s] > 0
  <2>1. CASE Unpaid(r)
    BY <1>1, <1>2, <1>3, <2>1, GotoSlot DEF Unpaid, Places
  <2>2. CASE Credit(r)
    <3>1. charged[req[r].s] > 0
      BY <1>1, <2>2 DEF Credit, At, Checked, Sound
    <3>2. req' = [req EXCEPT ![r] = [req[r] EXCEPT !.pc = "closing", !.ok = TRUE]]
      BY <1>1, <2>2 DEF Credit, TypeOK
    <3>3. [req[r] EXCEPT !.pc = "closing", !.ok = TRUE] \in Handlers
      BY <1>3 DEF Handlers, Places
    <3> QED BY <1>1, <1>3, <3>1, <3>2, <3>3 DEF TypeOK, Handlers
  <2> QED BY <2>1, <2>2
<1>7. TypeOK'
  BY <1>1, <1>4, <1>5, <1>6 DEF TypeOK, stored
<1>8. Sound(req[r])'
  BY <1>4, <1>6 DEF Sound
<1>9. Checked'
  BY <1>1, <1>4, <1>6, <1>7, <1>8, OneSlot, SameGrows DEF stored
<1> QED BY <1>4, <1>7, <1>9, SameData DEF ChatInv, stored

\* isPaid is set only by a handler whose payment was taken.
LEMMA EndSaveKeeps ==
  ASSUME ChatInv, NEW r \in Requests, EndSave(r)
  PROVE  ChatInv'
<1>1. TypeOK /\ Checked
  BY DEF ChatInv
<1>2. PICK s \in Sessions : req[r].s = s /\ req[r] \in Handlers
  BY <1>1, BusySlot DEF EndSave, At
<1>3. req[r].n \in Nat \cup {-1} /\ req[r].ok \in BOOLEAN /\ ses[s] \in Documents
  BY <1>1, <1>2 DEF Handlers, TypeOK
<1>4. PICK total \in Nat, paid \in BOOLEAN :
        /\ ses' = [ses EXCEPT ![s] = [ses[s] EXCEPT !.status = "ended", !.total = total, !.paid = paid]]
        /\ paid => ses[s].paid \/ req[r].ok
  <2> DEFINE n == req[r].n
             total == IF n < 0 \/ n = req[r].seen.total THEN ses[s].total ELSE n
             paid == IF n <= 0 \/ req[r].ok = req[r].seen.paid THEN ses[s].paid ELSE req[r].ok
  <2>1. total \in Nat
    BY <1>3 DEF Documents
  <2>2. paid \in BOOLEAN /\ (paid => ses[s].paid \/ req[r].ok)
    BY <1>3 DEF Documents
  <2>3. ses' = [ses EXCEPT ![s] = [ses[s] EXCEPT !.status = "ended", !.total = total, !.paid = paid]]
    BY <1>1, <1>2 DEF EndSave, TypeOK
  <2> HIDE DEF n, total, paid
  <2> QED BY <2>1, <2>2, <2>3
<1>5. /\ ses' \in [Sessions -> Documents] /\ \A t \in Sessions \ {s} : ses'[t] = ses[t]
      /\ ses'[s].max = ses[s].max /\ ses'[s].paid = paid
  <2>1. "ended" \in Statuses
    BY DEF Statuses, Closed
  <2> QED BY <1>1, <1>3, <1>4, <2>1 DEF TypeOK, Documents
<1>6. UNCHANGED <<elapsed, replied, old, timer, busy, faults, longest, shut, money>>
  BY DEF EndSave
<1>7. req[r].ok => charged[s] > 0
  BY <1>1, <1>2 DEF EndSave, At, Checked, Sound
<1>8. /\ req' \in [Requests -> Handlers \cup {Idle}] /\ \A q \in Requests \ {r} : req'[q] = req[q]
      /\ req'[r].pc = "ended"
  BY <1>1, GotoSlot DEF EndSave, At, Places
<1>9. TypeOK'
  BY <1>1, <1>5, <1>6, <1>8 DEF TypeOK, money
<1>10. Checked'
  <2>1. Sound(req[r])'
    BY <1>8 DEF Sound
  <2> QED BY <1>1, <1>6, <1>8, <1>9, <2>1, OneSlot, SameGrows DEF money
<1>11. (Limits /\ PaidWasCharged /\ SilentIsFree)'
  <2>1. PaidWasCharged'
    BY <1>4, <1>5, <1>6, <1>7 DEF ChatInv, PaidWasCharged, money
  <2>2. Limits'
    BY <1>5, <1>6 DEF ChatInv, Limits
  <2>3. SilentIsFree'
    BY <1>6 DEF ChatInv, SilentIsFree, money
  <2> QED BY <2>1, <2>2, <2>3
<1> QED BY <1>9, <1>10, <1>11 DEF ChatInv

LEMMA CompleteKeeps ==
  ASSUME ChatInv, NEW r \in Requests, CompleteSession(r)
  PROVE  ChatInv'
<1>1. TypeOK
  BY DEF ChatInv
<1>2. req[r].pc # "idle" /\ req[r].n \in Nat \cup {-1} /\ AstrologerOf[req[r].s] \in Astrologers
  BY <1>1, BusySlot, ChatAssumption DEF CompleteSession, At, Handlers
<1>3. revenue' \in [Astrologers -> Nat] /\ platform' \in [Astrologers -> Nat]
  <2>1. CASE Earn(AstrologerOf[req[r].s], req[r].n) /\ req[r].n > 0
    BY <1>1, <1>2, <2>1, EarnType
  <2>2. CASE UNCHANGED <<revenue, platform>>
    BY <1>1, <2>2 DEF TypeOK
  <2> QED BY <2>1, <2>2 DEF CompleteSession
<1>4. busy' \in [Astrologers -> BOOLEAN]
  BY <1>1, <1>2 DEF CompleteSession, TypeOK
<1> QED BY <1>1, <1>2, <1>3, <1>4, MoveKeeps DEF CompleteSession, TypeOK, stored

----------------
(* Steps that are no handler's.                                            *)

LEMMA OtherKeeps ==
  ASSUME ChatInv,
         \/ \E s \in Sessions : JoinSession(s) \/ Reply(s) \/ Wait(s) \/ Ages(s)
         \/ \E a \in Astrologers : BusyLapses(a)
         \/ \E u \in Users : \/ \E n \in Recharges : Recharge(u, n)
                             \/ \E n \in Spends : Spend(u, n)
         \/ Restart \/ UNCHANGED vars
  PROVE  ChatInv'
<1>1. TypeOK /\ Checked
  BY DEF ChatInv
<1>2. UNCHANGED <<ses, charged, longest>>
  BY DEF JoinSession, Reply, Wait, Ages, BusyLapses, Recharge, Spend, Restart, vars, stored, money
<1>3. /\ replied' \in [Sessions -> BOOLEAN] /\ \A s \in Sessions : replied[s] => replied'[s]
      /\ elapsed' \in [Sessions -> Moments \cup {0}] /\ old' \in [Sessions -> BOOLEAN]
  BY <1>1 DEF TypeOK, JoinSession, Reply, Wait, Ages, BusyLapses, Recharge, Spend, Restart, vars,
     stored, money
<1>4. timer' \in [Sessions -> Timers]
  <2>1. ASSUME NEW s \in Sessions, JoinSession(s)
        PROVE  timer' \in [Sessions -> Timers]
    BY <1>1, <2>1, TimerTypes DEF JoinSession, TypeOK
  <2>2. CASE Restart
    <3>1. NoTimers \in Timers
      BY DEF NoTimers, Timers
    <3> QED BY <2>2, <3>1 DEF Restart
  <2> QED BY <1>1, <2>1, <2>2 DEF TypeOK, Reply, Wait, Ages, BusyLapses, Recharge, Spend, vars
<1>5. balance' \in [Users -> Nat] /\ topUp' \in [Users -> BOOLEAN]
  <2>1. ASSUME NEW u \in Users, NEW n \in Recharges, Recharge(u, n)
        PROVE  balance' \in [Users -> Nat] /\ topUp' \in [Users -> BOOLEAN]
    <3>1. balance[u] + n \in Nat
      BY <1>1, ChatAssumption DEF TypeOK
    <3> QED BY <1>1, <2>1, <3>1 DEF TypeOK, Recharge
  <2>2. ASSUME NEW u \in Users, NEW n \in Spends, Spend(u, n)
        PROVE  balance' \in [Users -> Nat] /\ topUp' \in [Users -> BOOLEAN]
    <3>1. balance[u] - n \in Nat
      BY <1>1, <2>2, ChatAssumption DEF TypeOK, Spend
    <3> QED BY <1>1, <2>2, <3>1 DEF TypeOK, Spend
  <2> QED
    BY <1>1, <2>1, <2>2 DEF TypeOK, JoinSession, Reply, Wait, Ages, BusyLapses, Restart, vars, money
<1>6. busy' \in [Astrologers -> BOOLEAN]
  BY <1>1 DEF TypeOK, JoinSession, Reply, Wait, Ages, BusyLapses, Recharge, Spend, Restart, vars
<1>7. /\ faults' \in 0..MaxFaults /\ shut' \in [Sessions -> BOOLEAN]
      /\ revenue' \in [Astrologers -> Nat] /\ platform' \in [Astrologers -> Nat]
  BY <1>1, ChatAssumption DEF TypeOK, JoinSession, Reply, Wait, Ages, BusyLapses, Recharge, Spend,
     Restart, vars, money
<1>8. req' = req \/ req' = [r \in Requests |-> Idle]
  BY DEF JoinSession, Reply, Wait, Ages, BusyLapses, Recharge, Spend, Restart, vars
<1>9. TypeOK'
  BY <1>1, <1>2, <1>3, <1>4, <1>5, <1>6, <1>7, <1>8 DEF TypeOK
<1>10. Checked'
  <2>1. Grows
    BY <1>1, <1>2, <1>3 DEF Grows, TypeOK
  <2>2. CASE req' = [r \in Requests |-> Idle]
    BY <2>2 DEF Checked, Sound, Idle
  <2> QED BY <1>1, <1>8, <1>9, <2>1, <2>2, NoSlot
<1>11. (Limits /\ PaidWasCharged /\ SilentIsFree)'
  BY <1>2, <1>3 DEF ChatInv, Limits, PaidWasCharged, SilentIsFree
<1> QED BY <1>9, <1>10, <1>11 DEF ChatInv

----------------
LEMMA InitInv == Init => ChatInv
<1> SUFFICES ASSUME Init PROVE ChatInv
  OBVIOUS
<1>1. TypeOK
  BY NoDocument, ChatAssumption DEF Init, TypeOK, NoTimers, Timers
<1>2. Whole(0)
  <2>1. 0 \in Nat /\ 0 = 60 * 0
    OBVIOUS
  <2> QED BY <2>1 DEF Whole
<1>3. Checked /\ Limits /\ PaidWasCharged /\ SilentIsFree
  BY <1>2 DEF Init, Checked, Sound, Idle, Limits, NoSession, PaidWasCharged, SilentIsFree
<1> QED BY <1>1, <1>3 DEF ChatInv

LEMMA StepInv == ChatInv /\ [Next]_vars => ChatInv'
<1> SUFFICES ASSUME ChatInv, [Next]_vars PROVE ChatInv'
  OBVIOUS
<1>1. ASSUME NEW r \in Requests, NEW s \in Sessions,
             Begins(r, s) \/ HungBegin(r, s) \/ Sweep(r, s)
      PROVE  ChatInv'
  BY <1>1, BeginsKeep, EndsKeep DEF Begins
<1>2. ASSUME NEW r \in Requests, Continues(r) \/ HandlerFails(r)
      PROVE  ChatInv'
  BY <1>2, RequestKeeps, StartSaveKeeps, StartTickerKeeps, ExtendSaveKeeps, PayKeeps, SettleKeeps,
     EndSaveKeeps, CompleteKeeps DEF Continues
<1> QED BY <1>1, <1>2, OtherKeeps DEF Next

LEMMA Invariance == Spec => []ChatInv
  BY InitInv, StepInv, PTL DEF Spec

\* Every document, timer, handler and sum has its type in every reachable
\* state: no balance, limit or bill ever becomes negative.
THEOREM ChatTypeOK == Spec => []TypeOK
<1>1. ChatInv => TypeOK
  BY DEF ChatInv
<1> QED BY <1>1, Invariance, PTL

\* endSession: isPaid is true only of a chat the user has paid for, whatever
\* handlers end it at the same time, and whichever payments fail.
THEOREM ChatPaid == Spec => []PaidWasCharged
<1>1. ChatInv => PaidWasCharged
  BY DEF ChatInv
<1> QED BY <1>1, Invariance, PTL

\* endSession's refund check: no money is ever taken for a chat in which the
\* astrologer did not write.
THEOREM ChatSilentIsFree == Spec => []SilentIsFree
<1>1. ChatInv => SilentIsFree
  BY DEF ChatInv
<1> QED BY <1>1, Invariance, PTL

\* Only a payment changes what was charged.
LEMMA ChargedStays ==
  ASSUME [Next]_vars, \A r \in Requests : ~Pay(r)
  PROVE  charged' = charged
<1>1. ASSUME NEW r \in Requests, NEW s \in Sessions,
             Begins(r, s) \/ HungBegin(r, s) \/ Sweep(r, s)
      PROVE  charged' = charged
  BY <1>1 DEF Begins, InitiateBegin, ContinueBegin, AcceptBegin, RejectOrCancelBegin,
     RequestTimeout, JoinTimeout, CloseBegin, StartBegin, ExtendBegin, EndByRequest, EndByTicker,
     EndByTimer, Sweep, HungBegin, EndBegin, money
<1>2. ASSUME NEW r \in Requests, Continues(r) \/ HandlerFails(r)
      PROVE  charged' = charged
  BY <1>2 DEF Continues, InitiateSave, AcceptSave, HoldAstrologer, CloseSave, FreeAstrologer,
     StartSave, StartTicker, ExtendSave, Credit, Unpaid, EndSave, CompleteSession, HandlerFails,
     money
<1> QED
  BY <1>1, <1>2 DEF Next, JoinSession, Reply, Wait, Ages, BusyLapses, Recharge, Spend, Restart,
     vars, money

\* endSession's cap: one payment never exceeds the price of the longest time
\* the chat was given, however late and by however many handlers it is ended.
THEOREM ChatBillWithinLimit == Spec => BillWithinLimit
<1>1. ChatInv /\ [Next]_vars =>
        [\A s \in Sessions : (charged'[s] - charged[s]) * 60 <= Rate * longest[s]]_vars
  <2> SUFFICES ASSUME ChatInv, [Next]_vars, NEW t \in Sessions
               PROVE  (charged'[t] - charged[t]) * 60 <= Rate * longest[t]
    OBVIOUS
  <2>1. charged \in [Sessions -> Nat] /\ Rate \in Nat /\ longest[t] \in Nat
    BY ChatAssumption DEF ChatInv, TypeOK
  <2>2. Rate * longest[t] \in Nat
    BY <2>1, TimesMonotone
  <2>3. CASE charged'[t] = charged[t]
    BY <2>1, <2>2, <2>3
  <2>4. ASSUME NEW r \in Requests, Pay(r), charged'[t] # charged[t]
        PROVE  (charged'[t] - charged[t]) * 60 <= Rate * longest[t]
    <3>1. PICK s \in Sessions, n \in Nat \ {0} :
            charged' = [charged EXCEPT ![s] = @ + n] /\ n * 60 <= Rate * longest[s]
      BY <2>4, PayEffect
    <3>2. s = t /\ charged'[t] - charged[t] = n
      BY <2>1, <2>4, <3>1
    <3> QED BY <3>1, <3>2
  <2> QED BY <2>3, <2>4, ChargedStays
<1> QED BY <1>1, Invariance, PTL DEF Spec, BillWithinLimit

----------------
\* One handler after another: what the screens of the app do to a chat.
\* What overlapping handlers break is shown by TLC (chat_overcharge).
\* One handler after another, as the app's screens call them: what a handler
\* read of its chat still holds when it saves.
OneHandler == \A q, r \in Requests : q = r

\* The price of the minutes used within the limit.
Due(s) == Rate * Minutes(Lesser(elapsed[s], longest[s]))

Alive(s) == ses[s].status \in Live
Together(s, t) == UserOf[s] = UserOf[t] \/ AstrologerOf[s] = AstrologerOf[t]

\* The status a handler of this kind has read.
ReadBy(kind) == IF kind = "initiate" THEN {"none"}
                ELSE IF kind = "accept" THEN {"initiated"}
                ELSE IF kind = "start" THEN {"waiting"}
                ELSE IF kind = "extend" THEN {"active"} ELSE Pending

Current(h) ==
  /\ h.pc = "read" => ses[h.s].status \in ReadBy(h.kind)
  /\ h.pc \in {"priced", "paid"} => ses[h.s].status = "active"
  /\ h.pc = "priced" => h.n <= Due(h.s)
  /\ h.pc = "read" /\ h.kind = "initiate" /\ Continued = {} =>
       \A t \in Sessions : Alive(t) => ~Together(h.s, t)

\* A handler has taken, or not taken, the payment of s, and is about to end it.
InHand(s) == \E r \in Requests : req[r].pc \in {"paid", "closing"} /\ req[r].s = s

OneInv ==
  /\ \A r \in Requests : Current(req[r])
  /\ \A s \in Sessions :
       /\ shut[s] => ses[s].status \in Closed
       /\ faults = 0 => /\ charged[s] <= Due(s)
                        /\ charged[s] > 0 => ses[s].status = "ended" \/ InHand(s)
  /\ Continued = {} => \A s, t \in Sessions : Alive(s) /\ Alive(t) /\ Together(s, t) => s = t

----------------
\* The price grows with the time used and with the limit.
LEMMA DueGrows ==
  ASSUME NEW a \in Nat, NEW b \in Nat, NEW c \in Nat, NEW d \in Nat, a <= c, b <= d
  PROVE  /\ Rate * Minutes(Lesser(a, b)) \in Nat
         /\ Rate * Minutes(Lesser(a, b)) <= Rate * Minutes(Lesser(c, d))
<1>1. PICK x \in Nat, y \in Nat : x = Lesser(a, b) /\ y = Lesser(c, d) /\ x <= y
  <2>1. Lesser(a, b) \in Nat /\ Lesser(c, d) \in Nat /\ Lesser(a, b) <= Lesser(c, d)
    BY DEF Lesser
  <2> QED BY <2>1
<1>2. (x + 59) \div 60 \in Nat /\ (y + 59) \div 60 \in Nat /\ (x + 59) \div 60 <= (y + 59) \div 60
  BY <1>1
<1>3. Rate \in Nat
  BY ChatAssumption
<1> QED BY <1>1, <1>2, <1>3, TimesMonotone DEF Minutes

LEMMA ElapsedNat ==
  ASSUME TypeOK, NEW s \in Sessions
  PROVE  elapsed[s] \in Nat /\ longest[s] \in Nat
<1>1. elapsed[s] \in Moments \cup {0} /\ \A m \in Moments : m \in Nat
  BY ChatAssumption DEF TypeOK
<1> QED BY <1>1 DEF TypeOK

\* A bill is the price of the time used within the limit, or less.
LEMMA BillDue ==
  ASSUME TypeOK, Limits, NEW s \in Sessions
  PROVE  Bill(s) \in Nat /\ Bill(s) <= Due(s)
<1>1. ses[s].max \in Nat /\ ses[s].max <= longest[s]
  BY DEF TypeOK, Documents, Limits
<1>2. elapsed[s] \in Nat /\ longest[s] \in Nat
  BY ElapsedNat
<1>3. /\ Rate * Minutes(Lesser(elapsed[s], ses[s].max)) \in Nat
      /\ Rate * Minutes(Lesser(elapsed[s], ses[s].max)) <= Due(s)
      /\ Due(s) \in Nat
  BY <1>1, <1>2, DueGrows DEF Due
<1> QED BY <1>3 DEF Bill

\* Documents keep their status; time and limits grow.
Steady ==
  /\ \A s \in Sessions : ses'[s].status = ses[s].status
  /\ \A s \in Sessions : elapsed[s] <= elapsed'[s] /\ longest[s] <= longest'[s]

LEMMA DueStays ==
  ASSUME TypeOK, TypeOK', Steady, NEW s \in Sessions
  PROVE  Due(s) \in Nat /\ Due(s)' \in Nat /\ Due(s) <= Due(s)'
<1>1. /\ elapsed[s] \in Nat /\ longest[s] \in Nat
      /\ elapsed'[s] \in Nat /\ longest'[s] \in Nat
  <2>1. elapsed'[s] \in Moments \cup {0} /\ \A m \in Moments : m \in Nat
    BY ChatAssumption DEF TypeOK
  <2> QED BY <2>1, ElapsedNat DEF TypeOK
<1>2. elapsed[s] <= elapsed'[s] /\ longest[s] <= longest'[s]
  BY DEF Steady
<1>3. ASSUME NEW a \in Nat, NEW b \in Nat, NEW c \in Nat, NEW d \in Nat, a <= c, b <= d
      PROVE  /\ Rate * Minutes(Lesser(a, b)) \in Nat /\ Rate * Minutes(Lesser(c, d)) \in Nat
             /\ Rate * Minutes(Lesser(a, b)) <= Rate * Minutes(Lesser(c, d))
  BY <1>3, DueGrows
<1>4. /\ Rate * Minutes(Lesser(elapsed[s], longest[s])) \in Nat
      /\ Rate * Minutes(Lesser(elapsed'[s], longest'[s])) \in Nat
      /\ Rate * Minutes(Lesser(elapsed[s], longest[s]))
           <= Rate * Minutes(Lesser(elapsed'[s], longest'[s]))
  BY <1>1, <1>2, <1>3
<1> QED BY <1>4 DEF Due

\* What a handler knows stays true in a steady step.
LEMMA CurrentStays ==
  ASSUME TypeOK, TypeOK', Steady, NEW r \in Requests, Current(req[r]), req'[r] = req[r]
  PROVE  Current(req[r])'
<1>1. CASE req[r].pc = "idle"
  BY <1>1 DEF Current
<1>2. CASE req[r].pc # "idle"
  <2>1. req[r] \in Handlers /\ req[r].s \in Sessions
    BY <1>2, BusySlot
  <2> DEFINE h == req[r]
             s == h.s
  <2>2. Due(s) \in Nat /\ Due(s)' \in Nat /\ Due(s) <= Due(s)'
    BY <2>1, DueStays
  <2>3. h.n \in Int
    BY <2>1 DEF Handlers
  <2>4. h.pc = "priced" => h.n <= Due(s)'
    BY <2>2, <2>3 DEF Current
  <2>5. h.pc = "read" => ses'[s].status \in ReadBy(h.kind)
    BY <2>1 DEF Current, Steady
  <2>6. h.pc \in {"priced", "paid"} => ses'[s].status = "active"
    BY <2>1 DEF Current, Steady
  <2>7. h.pc = "read" /\ h.kind = "initiate" /\ Continued = {} =>
          \A t \in Sessions : Alive(t)' => ~Together(s, t)
    BY <2>1 DEF Current, Steady, Alive
  <2>8. Current(h)'
    <3>1. req'[r] = h
      OBVIOUS
    <3> QED BY <3>1, <2>4, <2>5, <2>6, <2>7 DEF Current, ReadBy, Together, Due, Alive
  <2> QED BY <2>8
<1> QED BY <1>1, <1>2

\* Steps that leave the statuses, the payments and what was closed alone.
LEMMA OneStays ==
  ASSUME OneHandler, TypeOK, TypeOK', OneInv, Steady, UNCHANGED <<charged, shut>>,
         faults' = 0 => faults = 0,
         \A r \in Requests : req'[r] = req[r] \/ Current(req[r])',
         \A s \in Sessions : InHand(s) => InHand(s)' \/ faults' # 0
  PROVE  OneInv'
<1>1. \A r \in Requests : Current(req[r])'
  BY CurrentStays DEF OneInv
<1>2. ASSUME NEW s \in Sessions
      PROVE  (/\ shut[s] => ses[s].status \in Closed
              /\ faults = 0 => /\ charged[s] <= Due(s)
                               /\ charged[s] > 0 => ses[s].status = "ended" \/ InHand(s))'
  <2>1. ses'[s].status = ses[s].status /\ shut'[s] = shut[s] /\ charged'[s] = charged[s]
    BY DEF Steady
  <2>2. Due(s) \in Nat /\ Due(s)' \in Nat /\ Due(s) <= Due(s)' /\ charged[s] \in Nat
    BY DueStays DEF TypeOK
  <2>3. faults' = 0 => charged'[s] <= Due(s)'
    BY <2>1, <2>2 DEF OneInv
  <2>4. faults' = 0 /\ charged'[s] > 0 => ses'[s].status = "ended" \/ InHand(s)'
    BY <2>1 DEF OneInv
  <2>5. shut'[s] => ses'[s].status \in Closed
    BY <2>1 DEF OneInv
  <2> QED BY <2>3, <2>4, <2>5
<1>3. (Continued = {} =>
         \A s, t \in Sessions : Alive(s) /\ Alive(t) /\ Together(s, t) => s = t)'
  BY DEF OneInv, Steady, Alive, Together
<1> QED BY <1>1, <1>2, <1>3 DEF OneInv

\* The only handler is r.
LEMMA OnlyHandler ==
  ASSUME OneHandler, NEW r \in Requests
  PROVE  \A q \in Requests : q = r
  BY DEF OneHandler

\* Steps that are no handler's.
LEMMA OneOther ==
  ASSUME OneHandler, TypeOK, TypeOK', OneInv,
         \/ \E s \in Sessions : JoinSession(s) \/ Reply(s) \/ Wait(s) \/ Ages(s)
         \/ \E a \in Astrologers : BusyLapses(a)
         \/ \E u \in Users : \/ \E n \in Recharges : Recharge(u, n)
                             \/ \E n \in Spends : Spend(u, n)
         \/ Restart \/ UNCHANGED vars
  PROVE  OneInv'
<1>1. UNCHANGED <<ses, charged, longest, shut>>
  BY DEF JoinSession, Reply, Wait, Ages, BusyLapses, Recharge, Spend, Restart, vars, stored, money
<1>2. \A s \in Sessions : elapsed[s] <= elapsed'[s]
  <2>1. CASE elapsed' = elapsed
    BY <2>1, ElapsedNat
  <2>2. ASSUME NEW s \in Sessions, Wait(s)
        PROVE  \A t \in Sessions : elapsed[t] <= elapsed'[t]
    <3>1. PICK m \in Moments : m > elapsed[s] /\ elapsed' = [elapsed EXCEPT ![s] = m]
      BY <2>2 DEF Wait
    <3>2. m \in Nat /\ \A t \in Sessions : elapsed[t] \in Nat
      BY ChatAssumption, ElapsedNat
    <3> QED BY <3>1, <3>2 DEF TypeOK
  <2> QED
    BY <2>1, <2>2 DEF JoinSession, Reply, Ages, BusyLapses, Recharge, Spend, Restart, vars, stored
<1>3. Steady
  BY <1>1, <1>2, ElapsedNat DEF Steady
<1>4. CASE UNCHANGED <<req, faults>>
  BY <1>1, <1>3, <1>4, OneStays DEF InHand
<1>5. CASE Restart
  <2>1. faults' # 0 /\ req' = [r \in Requests |-> Idle]
    BY <1>5 DEF Restart, TypeOK
  <2>2. \A r \in Requests : Current(req[r])'
    BY <2>1 DEF Current, Idle
  <2> QED BY <1>1, <1>3, <2>1, <2>2, OneStays
<1> QED BY <1>4, <1>5 DEF JoinSession, Reply, Wait, Ages, BusyLapses, Recharge, Spend, vars

\* A handler that reads a chat, and changes none.
LEMMA OneReads ==
  ASSUME OneHandler, TypeOK, TypeOK', OneInv, NEW r \in Requests, NEW s \in Sessions,
         NEW kind \in Kinds, NEW n \in Nat,
         Start(r, kind, s, "read", n, NoSession) \/ req' = req,
         req' # req => ses[s].status \in ReadBy(kind),
         kind = "initiate" => Continued # {},
         UNCHANGED <<ses, elapsed, longest, charged, shut, faults>>
  PROVE  OneInv'
<1>1. Steady
  BY ElapsedNat DEF Steady
<1>2. CASE req' = req
  BY <1>1, <1>2, OneStays DEF InHand
<1>3. CASE Start(r, kind, s, "read", n, NoSession) /\ req' # req
  <2>1. /\ req'[r].pc = "read" /\ req'[r].kind = kind /\ req'[r].s = s /\ req[r].pc = "idle"
    BY <1>3, StartSlot, NoDocument DEF Places
  <2>2. Current(req[r])'
    BY <1>3, <2>1 DEF Current, ReadBy
  <2>3. \A q \in Requests : q = r
    BY OnlyHandler
  <2>4. \A t \in Sessions : ~InHand(t)
    BY <2>1, <2>3 DEF InHand
  <2> QED BY <1>1, <2>2, <2>3, <2>4, OneStays
<1> QED BY <1>2, <1>3

LEMMA OneBegins ==
  ASSUME OneHandler, TypeOK, TypeOK', OneInv, NEW r \in Requests, NEW s \in Sessions,
         \/ ContinueBegin(r, s) \/ AcceptBegin(r, s)
         \/ RejectOrCancelBegin(r, s) \/ RequestTimeout(r, s) \/ JoinTimeout(r, s)
         \/ StartBegin(r, s) \/ ExtendBegin(r, s) \/ HungBegin(r, s)
  PROVE  OneInv'
<1>1. UNCHANGED <<ses, elapsed, longest, charged, shut, faults>>
  BY DEF ContinueBegin, AcceptBegin, RejectOrCancelBegin, CloseBegin, RequestTimeout, JoinTimeout,
     StartBegin, ExtendBegin, HungBegin, stored, money
<1>2. Affordable(UserOf[s]) \in Nat
  BY AffordableWhole, WholeNat
<1>3. DOMAIN Target = {"reject", "cancel", "timeout", "noShow", "hung"}
  BY DEF Target
<1>4. PICK kind \in Kinds, n \in Nat :
        /\ Start(r, kind, s, "read", n, NoSession) \/ req' = req
        /\ req' # req => ses[s].status \in ReadBy(kind)
        /\ kind = "initiate" => Continued # {}
  <2>1. CASE ContinueBegin(r, s)
    <3>1. "initiate" \in Kinds /\ 0 \in Nat
      BY DEF Kinds
    <3> QED BY <2>1, <3>1 DEF ContinueBegin, Fresh, ReadBy
  <2>2. CASE AcceptBegin(r, s)
    <3>1. "accept" \in Kinds /\ 0 \in Nat
      BY DEF Kinds
    <3> QED BY <2>2, <3>1 DEF AcceptBegin, ReadBy
  <2>3. CASE StartBegin(r, s)
    <3>1. "start" \in Kinds
      BY DEF Kinds
    <3> QED BY <1>2, <2>3, <3>1 DEF StartBegin, ReadBy
  <2>4. CASE ExtendBegin(r, s)
    <3>1. "extend" \in Kinds
      BY DEF Kinds
    <3> QED BY <1>2, <2>4, <3>1 DEF ExtendBegin, ReadBy
  <2>5. ASSUME NEW kind \in DOMAIN Target, CloseBegin(r, s, kind) \/ req' = req
        PROVE  \E k \in Kinds, n \in Nat :
                 /\ Start(r, k, s, "read", n, NoSession) \/ req' = req
                 /\ req' # req => ses[s].status \in ReadBy(k)
                 /\ k = "initiate" => Continued # {}
    <3>1. kind \in Kinds /\ 0 \in Nat /\ kind \notin {"initiate", "accept", "start", "extend"}
      BY <1>3 DEF Kinds
    <3> QED BY <2>5, <3>1 DEF CloseBegin, ReadBy
  <2> QED
    BY <1>3, <2>1, <2>2, <2>3, <2>4, <2>5
    DEF RejectOrCancelBegin, RequestTimeout, JoinTimeout, HungBegin
<1> QED BY <1>1, <1>4, OneReads

\* A handler that ends the chat prices it.
LEMMA OneEnds ==
  ASSUME OneHandler, TypeOK, TypeOK', Limits, OneInv, NEW r \in Requests, NEW s \in Sessions,
         EndByRequest(r, s) \/ EndByTicker(r, s) \/ EndByTimer(r, s) \/ Sweep(r, s)
  PROVE  OneInv'
<1>1. EndBegin(r, s)
  BY DEF EndByRequest, EndByTicker, EndByTimer, Sweep
<1>2. UNCHANGED <<ses, elapsed, longest, charged, shut, faults>>
  BY <1>1 DEF EndBegin, stored, money
<1>3. Steady
  BY <1>2, ElapsedNat DEF Steady
<1>4. Bill(s) \in Nat /\ Bill(s) <= Due(s)
  BY BillDue
<1> DEFINE n == IF ses[s].status = "active" THEN Bill(s) ELSE -1
           pc == IF n > 0 THEN "priced" ELSE "closing"
<1>5. n \in Nat \cup {-1} /\ (n > 0 => n <= Due(s) /\ ses[s].status = "active")
  BY <1>4
<1>6. Start(r, "end", s, pc, n, ses[s])
  BY <1>1 DEF EndBegin
<1>7. pc \in Places /\ "end" \in Kinds /\ ses[s] \in Documents
  BY DEF Places, Kinds, TypeOK
<1>8. pc \in {"priced", "closing"} /\ (pc = "priced" => n > 0)
  OBVIOUS
<1> HIDE DEF n, pc
<1>9. /\ req'[r].pc = pc /\ req'[r].kind = "end" /\ req'[r].s = s /\ req'[r].n = n
      /\ req[r].pc = "idle"
  BY <1>5, <1>6, <1>7, StartSlot
<1>10. Due(s)' = Due(s)
  BY <1>2 DEF Due
<1>11. Current(req[r])'
  BY <1>2, <1>5, <1>8, <1>9, <1>10 DEF Current
<1>12. \A q \in Requests : q = r
  BY OnlyHandler
<1>13. \A t \in Sessions : ~InHand(t)
  BY <1>9, <1>12 DEF InHand
<1> QED BY <1>2, <1>3, <1>11, <1>12, <1>13, OneStays

\* Steps of a handler after, or without, its save of a status.
LEMMA OneGoesOn ==
  ASSUME OneHandler, TypeOK, TypeOK', OneInv, NEW r \in Requests,
         \/ HoldAstrologer(r) \/ FreeAstrologer(r) \/ StartTicker(r) \/ ExtendSave(r)
         \/ Credit(r) \/ Unpaid(r) \/ CompleteSession(r) \/ HandlerFails(r)
  PROVE  OneInv'
<1>1. req[r].pc # "idle"
  BY DEF HoldAstrologer, FreeAstrologer, StartTicker, ExtendSave, Credit, Unpaid, CompleteSession,
     HandlerFails, At
<1>2. req[r] \in Handlers /\ req[r].s \in Sessions
  BY <1>1, BusySlot
<1>3. UNCHANGED <<elapsed, charged, shut>> /\ (faults' = 0 => faults = 0)
  BY DEF HoldAstrologer, FreeAstrologer, StartTicker, ExtendSave, Credit, Unpaid, CompleteSession,
     HandlerFails, stored, money, TypeOK
<1>4. Steady
  <2>1. CASE ExtendSave(r)
    <3>1. /\ ses' = [ses EXCEPT ![req[r].s].max = req[r].n]
          /\ longest' = [longest EXCEPT ![req[r].s] = IF @ < req[r].n THEN req[r].n ELSE @]
      BY <2>1 DEF ExtendSave
    <3>2. \A t \in Sessions : ses[t] \in Documents /\ longest[t] \in Nat
      BY DEF TypeOK
    <3>3. \A t \in Sessions : ses'[t].status = ses[t].status
      BY <3>1, <3>2 DEF TypeOK, Documents
    <3>4. req[r].n \in Int
      BY <1>2 DEF Handlers
    <3>5. \A t \in Sessions : longest[t] <= longest'[t]
      BY <3>1, <3>2, <3>4 DEF TypeOK
    <3> QED BY <1>3, <3>3, <3>5, ElapsedNat DEF Steady
  <2>2. CASE UNCHANGED <<ses, longest>>
    BY <1>3, <2>2, ElapsedNat DEF Steady
  <2> QED
    BY <2>1, <2>2 DEF HoldAstrologer, FreeAstrologer, StartTicker, Credit, Unpaid,
       CompleteSession, HandlerFails, stored
<1>5. \/ req'[r].pc \in {"idle", "freed"} /\ (req[r].pc \notin {"paid", "closing"} \/ faults' # 0)
      \/ req'[r].pc = "closing" /\ req'[r].s = req[r].s
  <2>1. CASE HoldAstrologer(r) \/ StartTicker(r) \/ ExtendSave(r) \/ CompleteSession(r)
    BY <2>1, FinishSlot DEF HoldAstrologer, StartTicker, ExtendSave, CompleteSession, At, Idle
  <2>2. CASE FreeAstrologer(r)
    <3>1. Goto(r, "freed") \/ Finish(r)
      BY <2>2 DEF FreeAstrologer
    <3>2. req'[r].pc \in {"idle", "freed"}
      BY <1>1, <3>1, FinishSlot, GotoSlot DEF Places, Idle
    <3> QED BY <2>2, <3>2 DEF FreeAstrologer, At
  <2>3. CASE Unpaid(r)
    BY <1>1, <2>3, GotoSlot DEF Unpaid, Places
  <2>4. CASE Credit(r)
    BY <1>2, <2>4 DEF Credit, TypeOK, Handlers
  <2>5. CASE HandlerFails(r)
    BY <2>5, FinishSlot DEF HandlerFails, Idle, TypeOK
  <2> QED BY <2>1, <2>2, <2>3, <2>4, <2>5
<1>6. Current(req[r])'
  BY <1>5 DEF Current
<1>7. \A q \in Requests : q = r
  BY OnlyHandler
<1>8. \A t \in Sessions : InHand(t) => InHand(t)' \/ faults' # 0
  BY <1>5, <1>7 DEF InHand
<1> QED BY <1>3, <1>4, <1>6, <1>7, <1>8, OneStays

\* A handler that saves the status of the chat it has read.
LEMMA OneSaves ==
  ASSUME OneHandler, TypeOK, TypeOK', OneInv, NEW r \in Requests, NEW s \in Sessions,
         req[r].s = s, req[r].pc = "read" \/ (req[r].pc = "closing" /\ ses'[s].status = "ended"),
         \A t \in Sessions \ {s} : ses'[t].status = ses[t].status /\ shut'[t] = shut[t],
         shut'[s] => ses'[s].status \in Closed,
         ses'[s].status \in Live =>
           ses[s].status \in Live \/ (req[r].pc = "read" /\ req[r].kind = "initiate"),
         \A t \in Sessions : longest[t] <= longest'[t],
         \A t \in Sessions : t # s \/ ses'[s].status = "ended" => elapsed'[t] = elapsed[t],
         UNCHANGED <<charged, faults>>,
         req'[r].pc \notin {"read", "priced", "paid", "closing"}
  PROVE  OneInv'
<1>1. Current(req[r])'
  BY DEF Current
<1>2. \A q \in Requests : q = r
  BY OnlyHandler
<1>3. Current(req[r]) /\ ses[s].status \in Statuses
  BY DEF OneInv, TypeOK, Documents
<1>4. req[r].pc = "read" => ses[s].status # "ended"
  BY <1>3 DEF Current, ReadBy, Pending
<1>5. \A t \in Sessions \ {s} : Alive(t)' <=> Alive(t)
  BY DEF Alive
<1>6. ASSUME NEW t \in Sessions
      PROVE  (/\ shut[t] => ses[t].status \in Closed
              /\ faults = 0 => /\ charged[t] <= Due(t)
                               /\ charged[t] > 0 => ses[t].status = "ended" \/ InHand(t))'
  <2>1. /\ shut[t] => ses[t].status \in Closed
        /\ faults = 0 => /\ charged[t] <= Due(t)
                         /\ charged[t] > 0 => ses[t].status = "ended" \/ InHand(t)
    BY DEF OneInv
  <2>2. charged[t] \in Nat /\ charged'[t] = charged[t]
    BY DEF TypeOK
  <2>3. /\ elapsed[t] \in Nat /\ longest[t] \in Nat
        /\ elapsed'[t] \in Nat /\ longest'[t] \in Nat /\ longest[t] <= longest'[t]
    <3>1. elapsed'[t] \in Moments \cup {0} /\ \A m \in Moments : m \in Nat
      BY ChatAssumption DEF TypeOK
    <3> QED BY <3>1, ElapsedNat DEF TypeOK
  <2>4. ASSUME elapsed'[t] = elapsed[t]
        PROVE  Due(t) \in Nat /\ Due(t)' \in Nat /\ Due(t) <= Due(t)'
    <3>1. ASSUME NEW a \in Nat, NEW b \in Nat, NEW d \in Nat, b <= d
          PROVE  /\ Rate * Minutes(Lesser(a, b)) \in Nat /\ Rate * Minutes(Lesser(a, d)) \in Nat
                 /\ Rate * Minutes(Lesser(a, b)) <= Rate * Minutes(Lesser(a, d))
      BY <3>1, DueGrows
    <3>2. /\ Rate * Minutes(Lesser(elapsed[t], longest[t])) \in Nat
          /\ Rate * Minutes(Lesser(elapsed[t], longest'[t])) \in Nat
          /\ Rate * Minutes(Lesser(elapsed[t], longest[t]))
               <= Rate * Minutes(Lesser(elapsed[t], longest'[t]))
      BY <2>3, <3>1
    <3> QED BY <2>4, <3>2 DEF Due
  <2>5. CASE t # s
    <3>1. ~InHand(t)
      BY <1>2, <2>5 DEF InHand
    <3>2. ses'[t].status = ses[t].status /\ shut'[t] = shut[t] /\ elapsed'[t] = elapsed[t]
      BY <2>5
    <3>3. faults' = 0 => charged'[t] <= Due(t)'
      BY <2>1, <2>2, <2>4, <3>2
    <3> QED BY <2>1, <2>2, <3>1, <3>2, <3>3
  <2>6. CASE t = s /\ ses'[s].status = "ended"
    <3>1. faults' = 0 => charged'[t] <= Due(t)'
      BY <2>1, <2>2, <2>4, <2>6
    <3> QED BY <2>6, <3>1 DEF Closed
  <2>7. CASE t = s /\ ses'[s].status # "ended"
    <3>1. req[r].pc = "read"
      BY <2>7
    <3>2. ~InHand(s)
      BY <1>2, <3>1 DEF InHand
    <3>3. faults = 0 => charged'[s] = 0
      BY <1>4, <2>1, <2>2, <2>7, <3>1, <3>2
    <3>4. Due(s)' \in Nat
      <4>1. Rate * Minutes(Lesser(elapsed'[t], longest'[t])) \in Nat
        BY <2>3, DueGrows
      <4> QED BY <2>7, <4>1 DEF Due
    <3> QED BY <2>7, <3>3, <3>4
  <2> QED BY <2>5, <2>6, <2>7
<1>7. ASSUME Continued = {}, NEW t \in Sessions, NEW v \in Sessions,
             Alive(t)', Alive(v)', Together(t, v)
      PROVE  t = v
  <2>1. \A x, y \in Sessions : Alive(x) /\ Alive(y) /\ Together(x, y) => x = y
    BY <1>7 DEF OneInv
  <2>2. CASE Alive(s) \/ ~Alive(s)'
    BY <1>5, <1>7, <2>1, <2>2
  <2>3. CASE ~Alive(s) /\ Alive(s)'
    <3>1. req[r].pc = "read" /\ req[r].kind = "initiate"
      BY <2>3 DEF Alive
    <3>2. \A x \in Sessions : Alive(x) => ~Together(s, x) /\ ~Together(x, s)
      BY <1>3, <1>7, <3>1 DEF Current, Together
    <3> QED BY <1>5, <1>7, <2>1, <2>3, <3>2
  <2> QED BY <2>2, <2>3
<1>8. (Continued = {} =>
         \A t, v \in Sessions : Alive(t) /\ Alive(v) /\ Together(t, v) => t = v)'
  BY <1>7 DEF Together
<1> QED BY <1>1, <1>2, <1>6, <1>8 DEF OneInv

LEMMA OneSavesStatus ==
  ASSUME OneHandler, TypeOK, TypeOK', OneInv, NEW r \in Requests,
         InitiateSave(r) \/ AcceptSave(r) \/ CloseSave(r)
  PROVE  OneInv'
<1> DEFINE s == req[r].s
<1>1. req[r].pc = "read" /\ req[r].kind \in {"initiate", "accept"} \cup DOMAIN Target
  BY DEF InitiateSave, AcceptSave, CloseSave, At
<1>2. req[r] \in Handlers /\ s \in Sessions
  BY <1>1, BusySlot
<1>3. UNCHANGED <<elapsed, longest, charged, faults>>
  BY DEF InitiateSave, AcceptSave, CloseSave, money
<1>4. Finish(r) \/ Goto(r, "saved")
  BY DEF InitiateSave, AcceptSave, CloseSave
<1>5. req'[r].pc \in {"idle", "saved"}
  BY <1>1, <1>4, FinishSlot, GotoSlot DEF Places, Idle
<1>6. ses[s].status \in ReadBy(req[r].kind) /\ (shut[s] => ses[s].status \in Closed)
  BY <1>1, <1>2 DEF OneInv, Current
<1>7. PICK status \in Statuses :
        /\ SaveStatus(s, status)
        /\ \A t \in Sessions \ {s} : shut'[t] = shut[t]
        /\ shut'[s] => status \in Closed
        /\ status \in Live => ses[s].status \in Live \/ req[r].kind = "initiate"
  <2>1. CASE InitiateSave(r)
    <3>1. SaveStatus(s, "initiated") /\ shut' = shut /\ req[r].kind = "initiate"
      BY <2>1 DEF InitiateSave, At
    <3>2. ~shut[s] /\ "initiated" \in Statuses
      BY <1>6, <3>1 DEF ReadBy, Closed, Statuses, Live, Pending
    <3> QED BY <3>1, <3>2
  <2>2. CASE AcceptSave(r)
    <3>1. SaveStatus(s, "waiting") /\ shut' = shut /\ req[r].kind = "accept"
      BY <2>2 DEF AcceptSave, At
    <3>2. ~shut[s] /\ "waiting" \in Statuses /\ ses[s].status \in Live
      BY <1>6, <3>1 DEF ReadBy, Closed, Statuses, Live, Pending
    <3> QED BY <3>1, <3>2
  <2>3. CASE CloseSave(r)
    <3>1. /\ SaveStatus(s, Target[req[r].kind]) /\ req[r].kind \in DOMAIN Target
          /\ shut' = [shut EXCEPT ![s] = TRUE]
      BY <2>3 DEF CloseSave, At
    <3>2. Target[req[r].kind] \in {"rejected", "cancelled"}
      BY <3>1 DEF Target
    <3>3. \A t \in Sessions \ {s} : shut'[t] = shut[t]
      BY <3>1 DEF TypeOK
    <3>4. Target[req[r].kind] \in Statuses /\ Target[req[r].kind] \in Closed
          /\ Target[req[r].kind] \notin Live
      BY <3>2 DEF Statuses, Closed, Live, Pending
    <3> QED BY <3>1, <3>3, <3>4
  <2> QED BY <2>1, <2>2, <2>3
<1>8. ses'[s].status = status /\ \A t \in Sessions \ {s} : ses'[t].status = ses[t].status
  <2>1. \A t \in Sessions : ses[t] \in Documents
    BY DEF TypeOK
  <2> QED BY <1>2, <1>7, <2>1 DEF SaveStatus, TypeOK, Documents
<1>9. \A t \in Sessions : longest[t] <= longest'[t]
  BY <1>3, ElapsedNat
<1> HIDE DEF s
<1> QED BY <1>1, <1>2, <1>3, <1>5, <1>7, <1>8, <1>9, OneSaves DEF s

LEMMA OneStartSave ==
  ASSUME OneHandler, TypeOK, TypeOK', OneInv, NEW r \in Requests, StartSave(r)
  PROVE  OneInv'
<1> DEFINE s == req[r].s
<1>1. req[r].pc = "read" /\ req[r].kind = "start"
  BY DEF StartSave, At
<1>2. req[r] \in Handlers /\ s \in Sessions
  BY <1>1, BusySlot
<1>3. /\ ses' = [ses EXCEPT ![s].status = "active", ![s].max = req[r].n]
      /\ elapsed' = [elapsed EXCEPT ![s] = 0]
      /\ longest' = [longest EXCEPT ![s] = IF @ < req[r].n THEN req[r].n ELSE @]
      /\ UNCHANGED <<charged, faults, shut>> /\ Goto(r, "saved")
  BY DEF StartSave, money
<1>4. req'[r].pc = "saved"
  BY <1>1, <1>3, GotoSlot DEF Places
<1>5. ses[s].status = "waiting" /\ (shut[s] => ses[s].status \in Closed)
  BY <1>1, <1>2 DEF OneInv, Current, ReadBy
<1>6. ses[s].status \in Live /\ ~shut[s] /\ "active" # "ended"
  BY <1>5 DEF Live, Pending, Closed
<1>7. \A t \in Sessions : ses[t] \in Documents /\ longest[t] \in Nat
  BY DEF TypeOK
<1>8. ses'[s].status = "active" /\ \A t \in Sessions \ {s} : ses'[t].status = ses[t].status
  BY <1>2, <1>3, <1>7 DEF TypeOK, Documents
<1>9. \A t \in Sessions : longest[t] <= longest'[t]
  <2>1. req[r].n \in Int
    BY <1>2 DEF Handlers
  <2> QED BY <1>3, <1>7, <2>1 DEF TypeOK
<1>10. \A t \in Sessions \ {s} : elapsed'[t] = elapsed[t]
  BY <1>3 DEF TypeOK
<1> HIDE DEF s
<1> QED BY <1>1, <1>2, <1>3, <1>4, <1>6, <1>8, <1>9, <1>10, OneSaves DEF s

LEMMA OneEndSave ==
  ASSUME OneHandler, TypeOK, TypeOK', OneInv, NEW r \in Requests, EndSave(r)
  PROVE  OneInv'
<1> DEFINE s == req[r].s
<1>1. req[r].pc = "closing"
  BY DEF EndSave, At
<1>2. s \in Sessions
  BY <1>1, BusySlot
<1>3. UNCHANGED <<elapsed, longest, charged, faults, shut>> /\ Goto(r, "ended")
  BY DEF EndSave, money
<1>4. req'[r].pc = "ended"
  BY <1>1, <1>3, GotoSlot DEF Places
<1>5. ses'[s].status = "ended" /\ \A t \in Sessions \ {s} : ses'[t].status = ses[t].status
  <2>1. \A t \in Sessions : ses[t] \in Documents
    BY DEF TypeOK
  <2>2. PICK total, paid :
          ses' = [ses EXCEPT ![s].status = "ended", ![s].total = total, ![s].paid = paid]
    BY <1>2, <2>1 DEF EndSave, TypeOK, Documents
  <2> QED BY <1>2, <2>1, <2>2 DEF TypeOK, Documents
<1>6. "ended" \in Closed /\ "ended" \notin Live
  BY DEF Closed, Live, Pending
<1>7. \A t \in Sessions : longest[t] <= longest'[t]
  BY <1>3, ElapsedNat
<1> HIDE DEF s
<1> QED BY <1>1, <1>2, <1>3, <1>4, <1>5, <1>6, <1>7, OneSaves DEF s

\* The payment of a chat that was not paid for.
LEMMA OnePay ==
  ASSUME OneHandler, ChatInv, TypeOK', OneInv, NEW r \in Requests, Pay(r)
  PROVE  OneInv'
<1>1. PICK s \in Sessions, n \in Nat \ {0} :
        req[r].s = s /\ req[r].n = n /\ charged' = [charged EXCEPT ![s] = @ + n]
  BY PayEffect
<1>2. /\ req[r].pc = "priced" /\ Goto(r, "paid") /\ TypeOK
      /\ UNCHANGED <<ses, elapsed, longest, shut, faults>>
  BY DEF Pay, At, stored, ChatInv
<1>3. req'[r].pc = "paid" /\ req'[r].s = s
  BY <1>1, <1>2, GotoSlot DEF Places
<1>4. ses[s].status = "active" /\ n <= Due(s)
  BY <1>1, <1>2 DEF OneInv, Current
<1>5. \A q \in Requests : q = r
  BY OnlyHandler
<1>6. \A t \in Sessions : ~InHand(t) /\ Due(t)' = Due(t) /\ (Alive(t)' <=> Alive(t))
  BY <1>2, <1>5 DEF InHand, Due, Alive
<1>7. Current(req[r])'
  BY <1>2, <1>3, <1>4 DEF Current
<1>8. InHand(s)'
  BY <1>3 DEF InHand
<1>9. ASSUME NEW t \in Sessions
      PROVE  (/\ shut[t] => ses[t].status \in Closed
              /\ faults = 0 => /\ charged[t] <= Due(t)
                               /\ charged[t] > 0 => ses[t].status = "ended" \/ InHand(t))'
  <2>1. /\ shut[t] => ses[t].status \in Closed
        /\ faults = 0 => /\ charged[t] <= Due(t)
                         /\ charged[t] > 0 => ses[t].status = "ended"
    BY <1>6 DEF OneInv
  <2>2. charged[t] \in Nat
    BY <1>2 DEF TypeOK
  <2>3. CASE t = s
    <3>1. faults = 0 => charged[s] = 0
      BY <1>4, <2>1, <2>2, <2>3
    <3>2. charged'[s] = charged[s] + n
      BY <1>1, <1>2 DEF TypeOK
    <3>3. faults' = 0 => charged'[s] <= Due(s)'
      BY <1>2, <1>4, <1>6, <3>1, <3>2
    <3> QED BY <1>2, <1>8, <2>1, <2>3, <3>3
  <2>4. CASE t # s
    <3>1. charged'[t] = charged[t]
      BY <1>1, <1>2, <2>4 DEF TypeOK
    <3> QED BY <1>2, <1>6, <2>1, <3>1
  <2> QED BY <2>3, <2>4
<1>10. (Continued = {} =>
          \A t, v \in Sessions : Alive(t) /\ Alive(v) /\ Together(t, v) => t = v)'
  BY <1>6 DEF OneInv, Together
<1> QED BY <1>5, <1>7, <1>9, <1>10 DEF OneInv

\* initiateChat gives up what was left pending, and finds nobody else.
LEMMA OneInitiates ==
  ASSUME OneHandler, TypeOK, TypeOK', OneInv, NEW r \in Requests, NEW s \in Sessions,
         InitiateBegin(r, s)
  PROVE  OneInv'
<1> DEFINE u == UserOf[s]
           Others == {t \in Sessions \ Stale(u) : UserOf[t] = u /\ ses[t].status \in Live}
<1>1. /\ ses[s].status = "none" /\ req[r].pc = "idle"
      /\ ses' = [t \in Sessions |-> IF t \in Stale(u)
                                    THEN [ses[t] EXCEPT !.status = "cancelled"] ELSE ses[t]]
      /\ shut' = [t \in Sessions |-> shut[t] \/ t \in Stale(u)]
      /\ \/ Others = {} /\ AstrologerFree(s) /\ Start(r, "initiate", s, "read", 0, NoSession)
         \/ req' = req
      /\ UNCHANGED <<elapsed, longest, charged, faults>>
  BY DEF InitiateBegin, Fresh, money
<1>2. \A t \in Sessions : /\ t \in Stale(u) => ses'[t].status = "cancelled" /\ shut'[t]
                          /\ t \notin Stale(u) => ses'[t] = ses[t] /\ shut'[t] = shut[t]
  <2>1. \A t \in Sessions : ses[t] \in Documents
    BY DEF TypeOK
  <2>2. \A t \in Sessions : t \in Stale(u) => ses'[t].status = "cancelled"
    BY <1>1, <2>1 DEF Documents
  <2>3. \A t \in Sessions : shut[t] \in BOOLEAN
    BY DEF TypeOK
  <2> QED BY <1>1, <2>2, <2>3
<1>3. \A t \in Sessions : t \in Stale(u) => ses[t].status \in Pending
  BY DEF Stale
<1>4. \A q \in Requests : q = r
  BY OnlyHandler
<1>5. \A t \in Sessions : /\ ~InHand(t) /\ Due(t)' = Due(t)
                          /\ Alive(t)' => Alive(t) /\ t \notin Stale(u)
  BY <1>1, <1>2, <1>4 DEF InHand, Due, Alive, Live, Pending
<1>6. Current(req[r])'
  <2>1. CASE req' = req
    BY <1>1, <2>1 DEF Current
  <2>2. CASE /\ Others = {} /\ AstrologerFree(s)
             /\ Start(r, "initiate", s, "read", 0, NoSession)
    <3>1. req'[r].pc = "read" /\ req'[r].kind = "initiate" /\ req'[r].s = s
      BY <2>2, StartSlot, NoDocument DEF Places, Kinds
    <3>2. ses'[s].status = "none"
      BY <1>1, <1>2, <1>3 DEF Pending
    <3>3. ASSUME NEW t \in Sessions, Alive(t)', Together(s, t)
          PROVE  FALSE
      <4>1. Alive(t) /\ t \notin Stale(u)
        BY <1>5, <3>3
      <4>2. UserOf[t] # u
        BY <2>2, <4>1 DEF Alive
      <4> QED BY <2>2, <3>3, <4>1, <4>2 DEF Together, AstrologerFree, Alive
    <3> QED BY <3>1, <3>2, <3>3 DEF Current, ReadBy, Together
  <2> QED BY <1>1, <2>1, <2>2
<1>7. ASSUME NEW t \in Sessions
      PROVE  (/\ shut[t] => ses[t].status \in Closed
              /\ faults = 0 => /\ charged[t] <= Due(t)
                               /\ charged[t] > 0 => ses[t].status = "ended" \/ InHand(t))'
  <2>1. /\ shut[t] => ses[t].status \in Closed
        /\ faults = 0 => /\ charged[t] <= Due(t)
                         /\ charged[t] > 0 => ses[t].status = "ended"
    BY <1>5 DEF OneInv
  <2>2. t \in Stale(u) => ses[t].status # "ended"
    BY <1>3 DEF Pending
  <2>3. shut'[t] => ses'[t].status \in Closed
    BY <1>2, <2>1 DEF Closed
  <2>4. faults' = 0 => charged'[t] <= Due(t)'
    BY <1>1, <1>5, <2>1
  <2>5. faults' = 0 /\ charged'[t] > 0 => ses'[t].status = "ended"
    BY <1>1, <1>2, <2>1, <2>2
  <2> QED BY <2>3, <2>4, <2>5
<1>8. (Continued = {} =>
         \A t, v \in Sessions : Alive(t) /\ Alive(v) /\ Together(t, v) => t = v)'
  BY <1>5 DEF OneInv, Together
<1> QED BY <1>4, <1>6, <1>7, <1>8 DEF OneInv

LEMMA OneInit == Init => OneInv
<1> SUFFICES ASSUME Init PROVE OneInv
  OBVIOUS
<1>1. \A r \in Requests : req[r] = Idle
  BY DEF Init
<1>2. \A s \in Sessions : ses[s].status = "none" /\ charged[s] = 0 /\ ~shut[s]
                          /\ elapsed[s] = 0 /\ longest[s] = 0
  BY DEF Init, NoSession
<1>3. \A s \in Sessions : Due(s) \in Nat /\ ~Alive(s)
  <2>1. Rate * Minutes(Lesser(0, 0)) \in Nat
    BY DueGrows
  <2> QED BY <1>2, <2>1 DEF Due, Alive, Live, Pending
<1>4. \A r \in Requests : Current(req[r])
  BY <1>1 DEF Current, Idle
<1> QED BY <1>2, <1>3, <1>4 DEF OneInv

LEMMA OneStep == OneHandler /\ ChatInv /\ ChatInv' /\ OneInv /\ [Next]_vars => OneInv'
<1> SUFFICES ASSUME OneHandler, ChatInv, ChatInv', OneInv, [Next]_vars PROVE OneInv'
  OBVIOUS
<1>1. TypeOK /\ TypeOK' /\ Limits
  BY DEF ChatInv
<1>2. ASSUME NEW r \in Requests, NEW s \in Sessions,
             Begins(r, s) \/ HungBegin(r, s) \/ Sweep(r, s)
      PROVE  OneInv'
  BY <1>1, <1>2, OneInitiates, OneBegins, OneEnds DEF Begins
<1>3. ASSUME NEW r \in Requests, Continues(r) \/ HandlerFails(r)
      PROVE  OneInv'
  BY <1>1, <1>3, OneSavesStatus, OneGoesOn, OneStartSave, OnePay, OneEndSave DEF Continues
<1> QED BY <1>1, <1>2, <1>3, OneOther DEF Next

LEMMA OneInvariance == OneHandler => (Spec => []OneInv)
<1> SUFFICES ASSUME OneHandler PROVE Spec => []OneInv
  OBVIOUS
<1>1. ChatInv /\ ChatInv' /\ OneInv /\ [Next]_vars => OneInv'
  BY OneStep
<1> QED BY <1>1, OneInit, Invariance, PTL DEF Spec

\* endSession caps the duration "to prevent overcharging": one handler after
\* another and none cut off, all that is ever taken for a chat is the price of
\* the minutes used within its limit.
THEOREM ChatNotOvercharged ==
  ASSUME OneHandler
  PROVE  Spec => [](faults = 0 => NeverOvercharged)
<1>1. OneInv => (faults = 0 => NeverOvercharged)
  BY DEF OneInv, NeverOvercharged, Due
<1> QED BY <1>1, OneInvariance, PTL

\* "One User at a Time": one request after another, and unless chats are
\* continued, which asks for the wallet only, an astrologer has open requests
\* and chats with one user.
THEOREM ChatOneUser ==
  ASSUME OneHandler, Continued = {}
  PROVE  Spec => []OneUserAtATime
<1>1. OneInv => OneUserAtATime
  BY DEF OneInv, OneUserAtATime, Alive, Together
<1> QED BY <1>1, OneInvariance, PTL

\* "PREVENT DOUBLE CHATS": under the same conditions a user has one open
\* request or chat.
THEOREM ChatOneChat ==
  ASSUME OneHandler, Continued = {}
  PROVE  Spec => []OneChatPerUser
<1>1. OneInv => OneChatPerUser
  BY DEF OneInv, OneChatPerUser, Alive, Together
<1> QED BY <1>1, OneInvariance, PTL

\* "No amount has been charged": one handler after another, whichever fail,
\* nothing is taken for a chat after its user was told so.
THEOREM ChatClosedIsFree ==
  ASSUME OneHandler
  PROVE  Spec => ClosedStaysFree
<1>1. ChatInv /\ OneInv /\ [Next]_vars => [ChargeOpen]_vars
  <2> SUFFICES ASSUME ChatInv, OneInv, [Next]_vars, NEW s \in Sessions, charged'[s] > charged[s]
               PROVE  ~shut[s]
    BY DEF ChargeOpen
  <2>1. charged \in [Sessions -> Nat]
    BY DEF ChatInv, TypeOK
  <2>2. PICK r \in Requests : Pay(r)
    BY <2>1, ChargedStays
  <2>3. PICK t \in Sessions, n \in Nat \ {0} :
          req[r].s = t /\ charged' = [charged EXCEPT ![t] = @ + n]
    BY <2>2, PayEffect
  <2>4. s = t /\ req[r].pc = "priced"
    BY <2>1, <2>2, <2>3 DEF Pay, At
  <2>5. ses[s].status = "active"
    BY <2>3, <2>4 DEF OneInv, Current
  <2> QED BY <2>5 DEF OneInv, Closed
<1> QED BY <1>1, Invariance, OneInvariance, PTL DEF Spec, ClosedStaysFree

\* Blocking, for any number of overlapping requests: a list that refused a
\* request still holds the other side, and was not asked yet.
CONSTANTS Slots, MaxBlocks, MaxRequests
VARIABLES entries, requests, allowed, intruded, blocks, work

B == INSTANCE Blocking

\* The lists that refuse the request in slot r, and still do.
Refusing(r) == work[r].blocked \ allowed[r]
Steps(kind) == B!Cardinality(DOMAIN B!Asked(kind))

BlockBounds == MaxBlocks \in Nat /\ MaxRequests \in Nat
Blocks == [pc : {"push"}, l : B!Lists]
Waits == [pc : {"ask", "begin"}, kind : B!Kinds, n : Nat, blocked : SUBSET B!Lists]

\* A list that refuses is not empty, and the lists a request has asked did not
\* refuse it.
Passed(r) ==
  /\ \A l \in Refusing(r) : B!In(l)
  /\ B!At(r, "ask") => /\ work[r].n \in DOMAIN B!Asked(work[r].kind)
                       /\ \A m \in 1..(work[r].n - 1) : B!Asked(work[r].kind)[m] \notin Refusing(r)
  /\ B!At(r, "begin") =>
       \A m \in DOMAIN B!Asked(work[r].kind) : B!Asked(work[r].kind)[m] \notin Refusing(r)

BInv ==
  /\ B!TypeOK /\ work \in [Slots -> {B!Idle} \cup Blocks \cup Waits] /\ intruded = {}
  /\ \A r \in Slots : (B!At(r, "ask") \/ B!At(r, "begin")) => Passed(r)

LEMMA SizeOf == ASSUME NEW S PROVE B!Cardinality(S) = Cardinality(S)
BY DEF B!Cardinality, Cardinality

LEMMA AskedOf ==
  /\ B!Asked("initiate") = <<"astrologer's", "user's", "user's">>
  /\ B!Asked("continue chat") = <<"user's">> /\ B!Asked("continue call") = <<>>
  /\ B!Asked("stream call") = <<"astrologer's">> /\ B!Asked("stream") = <<"streams">>
<1>1. B!Asked("initiate") = <<"astrologer's", "user's", "user's">>
  BY DEF B!Asked
<1>2. B!Asked("continue chat") = <<"user's">>
  BY DEF B!Asked
<1>3. B!Asked("continue call") = <<>>
  BY DEF B!Asked
<1>4. B!Asked("stream call") = <<"astrologer's">>
  BY DEF B!Asked
<1>5. B!Asked("stream") = <<"streams">>
  BY DEF B!Asked
<1> QED BY <1>1, <1>2, <1>3, <1>4, <1>5

LEMMA StepsOf ==
  ASSUME NEW kind \in B!Kinds
  PROVE  /\ Steps(kind) \in Nat /\ DOMAIN B!Asked(kind) = 1..Steps(kind)
         /\ (B!Asked(kind) = <<>>) <=> (Steps(kind) = 0)
<1>1. ASSUME NEW n \in Nat, DOMAIN B!Asked(kind) = 1..n
      PROVE  Steps(kind) = n
  <2>1. B!Cardinality(1..n) = IF 1 > n THEN 0 ELSE n - 1 + 1
    BY FS_Interval, SizeOf
  <2> QED BY <1>1, <2>1 DEF Steps
<1>2. CASE kind = "initiate"
  <2>1. B!Asked(kind) = <<"astrologer's", "user's", "user's">>
    BY <1>2, AskedOf
  <2>2. DOMAIN B!Asked(kind) = 1..3 /\ B!Asked(kind) # <<>>
    BY <2>1
  <2> QED BY <1>1, <2>2
<1>3. CASE kind \in {"continue chat", "stream call", "stream"}
  <2>1. B!Asked(kind) \in {<<"user's">>, <<"astrologer's">>, <<"streams">>}
    BY <1>3, AskedOf
  <2>2. DOMAIN B!Asked(kind) = 1..1 /\ B!Asked(kind) # <<>>
    BY <2>1
  <2> QED BY <1>1, <2>2
<1>4. CASE kind = "continue call"
  <2>1. B!Asked(kind) = <<>>
    BY <1>4, AskedOf
  <2>2. DOMAIN B!Asked(kind) = 1..0
    BY <2>1
  <2> QED BY <1>1, <2>1, <2>2
<1> QED BY <1>2, <1>3, <1>4 DEF B!Kinds

Advanced(h) == [h EXCEPT !.n = h.n + 1]

LEMMA AdvancedOf ==
  ASSUME NEW h \in Waits
  PROVE  /\ Advanced(h) \in Waits /\ Advanced(h).n = h.n + 1
         /\ Advanced(h).pc = h.pc /\ Advanced(h).kind = h.kind
         /\ Advanced(h).blocked = h.blocked
<1>1. h.n + 1 \in Nat
  BY DEF Waits
<1>2. ASSUME NEW n \in Nat
      PROVE  /\ [h EXCEPT !.n = n] \in Waits /\ [h EXCEPT !.n = n].n = n
             /\ [h EXCEPT !.n = n].pc = h.pc /\ [h EXCEPT !.n = n].kind = h.kind
             /\ [h EXCEPT !.n = n].blocked = h.blocked
  BY Zenon DEF Waits
<1> QED BY <1>1, <1>2, Zenon DEF Advanced

LEMMA StepBlocking == BlockBounds /\ BInv /\ [B!Next]_(B!bvars) => BInv'
<1> SUFFICES ASSUME BlockBounds, BInv, [B!Next]_(B!bvars)
             PROVE  BInv'
  OBVIOUS
<1> USE DEF BlockBounds
<1>1. ASSUME NEW r \in Slots, B!Push(r)
      PROVE  BInv'
  <2>1. work[r] \in Blocks
    BY <1>1 DEF BInv, B!Push, B!At, B!Idle, Blocks, Waits
  <2> QED
    BY <1>1, <2>1 DEF BInv, B!TypeOK, B!Push, B!Finish, B!At, B!Idle, Blocks, Waits, Passed,
         Refusing, B!In
<1>2. ASSUME NEW r \in Slots, NEW l \in B!Lists, B!Block(r, l)
      PROVE  BInv'
  <2>1. [pc |-> "push", l |-> l] \in Blocks
    BY DEF Blocks
  <2>2. /\ work' \in [Slots -> {B!Idle} \cup Blocks \cup Waits] /\ work'[r].pc = "push"
        /\ \A q \in Slots \ {r} : work'[q] = work[q]
    BY <1>2, <2>1 DEF BInv, B!Block, B!Begin
  <2>3. blocks' \in 0..MaxBlocks /\ UNCHANGED <<entries, requests, allowed, intruded>>
    BY <1>2 DEF BInv, B!TypeOK, B!Block
  <2> QED BY <2>2, <2>3 DEF BInv, B!TypeOK, B!At, Passed, Refusing, B!In
<1>3. ASSUME NEW r \in Slots, NEW l \in B!Lists, B!Unblock(r, l)
      PROVE  BInv'
  <2>1. /\ entries' \in [B!Lists -> Nat] /\ \A k \in B!Lists \ {l} : entries'[k] = entries[k]
        /\ allowed' \in [Slots -> SUBSET B!Lists]
             /\ \A q \in Slots : allowed'[q] = allowed[q] \cup {l}
        /\ UNCHANGED <<requests, intruded, blocks, work>>
    BY <1>3 DEF BInv, B!TypeOK, B!Unblock
  <2>2. \A q \in Slots : Refusing(q)' = Refusing(q) \ {l}
    BY <2>1 DEF Refusing
  <2>3. \A q \in Slots : B!At(q, "ask") \/ B!At(q, "begin") => work[q] \in Waits
    BY DEF BInv, B!At, B!Idle, Blocks
  <2>4. \A q \in Slots : \A k : B!At(q, "ask")
          \/ B!At(q, "begin") => (k \in Refusing(q) => k \in B!Lists)
    BY <2>3 DEF Refusing, Waits
  <2> QED BY <2>1, <2>2, <2>4 DEF BInv, B!TypeOK, B!At, Passed, B!In
<1>4. ASSUME NEW r \in Slots, NEW kind \in B!Kinds, B!Request(r, kind)
      PROVE  BInv'
  <2> DEFINE h == [pc |-> IF B!Asked(kind) = <<>> THEN "begin" ELSE "ask", kind |-> kind, n |-> 1,
                   blocked |-> B!Blocked]
  <2>1. h \in Waits /\ h.kind = kind /\ h.n = 1 /\ h.blocked = B!Blocked
    BY DEF Waits, B!Blocked
  <2>2. /\ h.pc = "ask" => Steps(kind) # 0 /\ Steps(kind) \in Nat
        /\ h.pc = "begin" => DOMAIN B!Asked(kind) = {}
    BY StepsOf
  <2>3. work' = [work EXCEPT ![r] = h]
    BY <1>4 DEF B!Request, B!Begin
  <2> HIDE DEF h
  <2>4. /\ work' \in [Slots -> {B!Idle} \cup Blocks \cup Waits] /\ work'[r] = h
        /\ \A q \in Slots \ {r} : work'[q] = work[q]
    BY <2>1, <2>3 DEF BInv
  <2>5. /\ allowed' \in [Slots -> SUBSET B!Lists] /\ allowed'[r] = {}
        /\ \A q \in Slots \ {r} : allowed'[q] = allowed[q]
        /\ requests' \in 0..MaxRequests /\ UNCHANGED <<entries, intruded, blocks>>
    BY <1>4 DEF BInv, B!TypeOK, B!Request
  <2>6. \A q \in Slots \ {r} : (B!At(q, "ask") \/ B!At(q, "begin"))' => Passed(q)'
    BY <2>4, <2>5 DEF BInv, B!At, Passed, Refusing, B!In
  <2>7. (B!At(r, "ask") \/ B!At(r, "begin"))' => Passed(r)'
    BY <2>1, <2>2, <2>4, <2>5, StepsOf DEF B!At, Passed, Refusing, B!In, B!Blocked
  <2> QED BY <2>4, <2>5, <2>6, <2>7 DEF BInv, B!TypeOK
<1>5. ASSUME NEW r \in Slots, B!Ask(r)
      PROVE  BInv'
  <2>0. B!At(r, "ask")
    BY <1>5, Zenon DEF B!Ask
  <2>1. work[r] \in Waits /\ work[r].n \in 1..Steps(work[r].kind) /\ Steps(work[r].kind) \in Nat
    BY <2>0, StepsOf DEF BInv, B!At, B!Idle, Blocks, Waits, Passed
  <2>2. CASE B!In(B!Asked(work[r].kind)[work[r].n])
    <3>1. /\ work' = [work EXCEPT ![r] = B!Idle]
          /\ UNCHANGED <<entries, requests, allowed, intruded, blocks>>
      BY <1>5, <2>2, Zenon DEF B!Ask, B!Finish
    <3> QED BY <3>1 DEF BInv, B!TypeOK, B!At, B!Idle, Passed, Refusing, B!In
  <2>3. CASE ~B!In(B!Asked(work[r].kind)[work[r].n]) /\ work[r].n < Steps(work[r].kind)
    <3>1. work' = [work EXCEPT ![r] = Advanced(work[r])]
            /\ UNCHANGED <<entries, requests, allowed, intruded, blocks>>
      BY <1>5, <2>3, Zenon DEF B!Ask, Steps, Advanced
    <3>2. /\ Advanced(work[r]) \in Waits /\ Advanced(work[r]).n = work[r].n + 1
          /\ Advanced(work[r]).pc = "ask" /\ Advanced(work[r]).kind = work[r].kind
          /\ Advanced(work[r]).blocked = work[r].blocked
      BY <2>0, <2>1, AdvancedOf DEF B!At
    <3>3. work' \in [Slots -> {B!Idle} \cup Blocks \cup Waits] /\ work'[r] = Advanced(work[r])
          /\ \A q \in Slots \ {r} : work'[q] = work[q]
      BY <3>1, <3>2 DEF BInv
    <3>4. work'[r].n \in DOMAIN B!Asked(work'[r].kind)
      BY <2>1, <2>3, <3>2, <3>3, StepsOf DEF Waits
    <3>5. \A m \in 1..(work'[r].n - 1) : B!Asked(work[r].kind)[m] \notin Refusing(r)
      BY <2>0, <2>1, <2>3, <3>2, <3>3 DEF BInv, B!At, Passed, Refusing
    <3> QED BY <2>0, <3>1, <3>2, <3>3, <3>4, <3>5 DEF BInv, B!TypeOK, B!At, Passed, Refusing, B!In
  <2>4. CASE ~B!In(B!Asked(work[r].kind)[work[r].n]) /\ ~(work[r].n < Steps(work[r].kind))
    <3>1. /\ work' = [work EXCEPT ![r].pc = "begin"]
          /\ UNCHANGED <<entries, requests, allowed, intruded, blocks>>
      BY <1>5, <2>4, Zenon DEF B!Ask, Steps, B!Goto
    <3>2. /\ work' \in [Slots -> {B!Idle} \cup Blocks \cup Waits] /\ work'[r].pc = "begin"
          /\ work'[r].kind = work[r].kind /\ work'[r].blocked = work[r].blocked
          /\ \A q \in Slots \ {r} : work'[q] = work[q]
      BY <2>1, <3>1, Zenon DEF BInv, Waits
    <3>3. work[r].n = Steps(work[r].kind)
      BY <2>1, <2>4
    <3>4. \A m \in DOMAIN B!Asked(work[r].kind) : B!Asked(work[r].kind)[m] \notin Refusing(r)
      BY <2>0, <2>1, <2>4, <3>3, StepsOf DEF BInv, B!At, Passed, Refusing, B!In, Waits
    <3> QED BY <2>0, <3>1, <3>2, <3>4 DEF BInv, B!TypeOK, B!At, Passed, Refusing, B!In
  <2> QED BY <2>2, <2>3, <2>4
<1>6. ASSUME NEW r \in Slots, B!Meet(r)
      PROVE  BInv'
  <2>1. intruded' = {}
    BY <1>6 DEF BInv, B!Meet, B!At, Passed, Refusing
  <2> QED
    BY <1>6, <2>1 DEF BInv, B!TypeOK, B!Meet, B!Finish, B!At, B!Idle, Blocks, Waits, Passed,
         Refusing, B!In
<1>7. CASE UNCHANGED B!bvars
  BY <1>7 DEF BInv, B!TypeOK, B!bvars, B!At, Passed, Refusing, B!In
<1> QED BY <1>1, <1>2, <1>3, <1>4, <1>5, <1>6, <1>7 DEF B!Next

\* However requests and blocks overlap, no chat, call or visit begins that a
\* block refused when it was asked for and still refuses.
THEOREM BlockedNeverBegins == ASSUME BlockBounds PROVE B!Spec => []B!BlockedStartsNothing
<1>1. B!Init => BInv
  BY DEF BlockBounds, B!Init, BInv, B!TypeOK, B!NoHandler, B!Idle, B!At
<1>2. BInv => B!BlockedStartsNothing
  BY DEF BInv, B!BlockedStartsNothing
<1> QED BY <1>1, <1>2, StepBlocking, PTL DEF B!Spec

\* With one request at a time, nobody pushes into a list that has an entry.
OneBlocker == \A q, r \in Slots : q = r
PushedOnce ==
  \A l \in B!Lists :
    /\ entries[l] <= 1
    /\ \A r \in Slots : B!At(r, "push") /\ work[r].l = l => entries[l] = 0
OnceInv == BInv /\ (OneBlocker => PushedOnce)

LEMMA OnceSteps == BlockBounds /\ OnceInv /\ [B!Next]_(B!bvars) => OnceInv'
<1> SUFFICES ASSUME BlockBounds, OnceInv, [B!Next]_(B!bvars), OneBlocker
             PROVE  PushedOnce'
  BY StepBlocking DEF OnceInv, OneBlocker
<1>0. /\ BInv /\ PushedOnce /\ work \in [Slots -> {B!Idle} \cup Blocks \cup Waits] /\ entries \in [B!Lists -> Nat]
      /\ B!Idle.pc = "idle"
  BY DEF OnceInv, BInv, B!TypeOK, B!Idle
<1>1. ASSUME NEW r \in Slots, B!Push(r)
      PROVE  PushedOnce'
  <2>1. work[r].pc = "push" /\ work[r] \in Blocks
    BY <1>0, <1>1 DEF B!Push, B!At, Waits
  <2>2. work[r].l \in B!Lists /\ entries[work[r].l] = 0
    BY <1>0, <2>1 DEF PushedOnce, B!At, Blocks
  <2>3. \A q \in Slots : work'[q].pc = "idle"
    BY <1>0, <1>1 DEF B!Push, B!Finish, OneBlocker
  <2>4. entries' = [entries EXCEPT ![work[r].l] = @ + 1]
    BY <1>1 DEF B!Push
  <2>5. \A l \in B!Lists : entries'[l] <= 1
    BY <1>0, <2>2, <2>4 DEF PushedOnce
  <2> QED BY <2>3, <2>5 DEF PushedOnce, B!At
<1>2. ASSUME NEW r \in Slots, NEW l \in B!Lists, B!Block(r, l)
      PROVE  PushedOnce'
  <2>1. entries[l] = 0 /\ entries' = entries
    BY <1>0, <1>2 DEF B!Block, B!In
  <2>2. \A q \in Slots : work'[q].l = l
    BY <1>0, <1>2 DEF B!Block, B!Begin, OneBlocker
  <2> QED BY <1>0, <2>1, <2>2 DEF PushedOnce
<1>3. ASSUME NEW r \in Slots, NEW l \in B!Lists, B!Unblock(r, l)
      PROVE  PushedOnce'
  BY <1>0, <1>3 DEF B!Unblock, PushedOnce, B!At, OneBlocker
<1>4. ASSUME NEW r \in Slots, (\E kind \in B!Kinds : B!Request(r, kind)) \/ B!Meet(r) \/ B!Ask(r)
      PROVE  PushedOnce'
  <2>1. entries' = entries
    BY <1>4 DEF B!Request, B!Meet, B!Ask
  <2>2. \A q \in Slots : work'[q].pc # "push"
    <3>1. CASE \E kind \in B!Kinds : B!Request(r, kind)
      BY <1>0, <3>1 DEF B!Request, B!Begin, OneBlocker
    <3>2. CASE B!Meet(r)
      BY <1>0, <3>2 DEF B!Meet, B!Finish, OneBlocker
    <3>3. CASE B!Ask(r)
      <4>0. work[r].pc = "ask" /\ work[r] \in Waits
        BY <1>0, <3>3 DEF B!Ask, B!At, Blocks
      <4>1. \/ work' = [work EXCEPT ![r] = B!Idle]
            \/ work' = [work EXCEPT ![r] = Advanced(work[r])]
            \/ work' = [work EXCEPT ![r].pc = "begin"]
        BY <3>3, Zenon DEF B!Ask, B!Finish, B!Goto, Advanced
      <4>2. Advanced(work[r]).pc = "ask" /\ [work[r] EXCEPT !.pc = "begin"].pc = "begin"
        BY <4>0, AdvancedOf, Zenon DEF Waits
      <4>3. work'[r].pc \in {"idle", "ask", "begin"}
        BY <1>0, <4>1, <4>2, Zenon
      <4> QED BY <4>3 DEF OneBlocker
    <3> QED BY <1>4, <3>1, <3>2, <3>3
  <2> QED BY <1>0, <2>1, <2>2 DEF PushedOnce, B!At
<1>5. CASE UNCHANGED B!bvars
  BY <1>0, <1>5 DEF PushedOnce, B!bvars, B!At
<1> QED BY <1>1, <1>2, <1>3, <1>4, <1>5 DEF B!Next

\* One request at a time, whoever blocks another is once in the list: the read
\* of block and its $push come one after another.
THEOREM BlockedIsOnce ==
  ASSUME BlockBounds, IsFiniteSet(Slots)
  PROVE  B!Spec => []B!BlockedOnce
<1>1. B!Init => OnceInv
  BY DEF BlockBounds, B!Init, BInv, B!TypeOK, B!NoHandler, B!Idle, B!At, OnceInv, PushedOnce
<1>2. OnceInv => B!BlockedOnce
  <2> SUFFICES ASSUME OnceInv, B!OneAtATime, NEW l \in B!Lists
               PROVE  entries[l] <= 1
    BY DEF B!BlockedOnce
  <2>1. DOMAIN work = Slots /\ Cardinality(Slots) = 1
    BY SizeOf DEF OnceInv, BInv, B!OneAtATime
  <2>2. PICK x : Slots = {x}
    BY <2>1, FS_Singleton
  <2> QED BY <2>2 DEF OnceInv, OneBlocker, PushedOnce
<1> QED BY <1>1, <1>2, OnceSteps, PTL DEF B!Spec

----------------
\* Threads, for any number of sessions and of overlapping handlers: whose
\* hands a session is in, that it is listed as often as it is booked, and
\* by how much the astrologer's income may exceed what the thread says.
CONSTANTS Chats, Cost, Full, MaxFailures, None
VARIABLES thread, stage, opened, booked, income, failures

H == INSTANCE Threads

ThreadBounds ==
  /\ IsFiniteSet(Slots) /\ Cost \in [Sessions -> Nat] /\ MaxFailures \in Nat
  /\ Full \in Nat \ {0}

ThreadStatuses == {"none", "active", "waiting", "cancelled", "refunded"}
Docs == [status : ThreadStatuses, current : Sessions \cup {None}, history : Seq(Sessions),
         count : Nat, total : Nat]
Saves == {"cancelled", "waiting", "refunded"}
Settled == {"pay", "close", "earn", "book"}
Works == [pc : Saves \cup Settled \cup {"mark", "start", "clear"}, s : Sessions \cup {None}, seen : Docs]
Types ==
  /\ thread \in Docs /\ stage \in [Sessions -> {"new", "open", "ended"}]
  /\ opened \in [Sessions -> Nat] /\ booked \in [Sessions -> Nat] /\ income \in Nat /\ failures \in 0..MaxFailures
  /\ work \in [Slots -> {H!Idle} \cup Works]

\* With one slot nothing is read that another overwrites.
One == \A q, r \in Slots : q = r

\* A session is in the hands of one handler before it opens, and new; it is
\* not new when it starts or ends.
ThreadOpening(r, s) == H!At(r, "mark") /\ work[r].s = s
Settling(r, s) == work[r].pc \in Settled /\ work[r].s = s
Waking(r, s) == H!At(r, "start") /\ work[r].s = s
InOneHand ==
  /\ \A s \in Sessions, r \in Slots :
       /\ ThreadOpening(r, s) => stage[s] = "new"
       /\ \A q \in Slots : ThreadOpening(q, s) /\ ThreadOpening(r, s) => q = r
       /\ Settling(r, s) \/ Waking(r, s) => stage[s] # "new"
  /\ \A r \in Slots : work[r].pc \in Settled \cup {"mark", "start"} => work[r].s \in Sessions

\* In a single slot a session that is about to start, to be booked, or has
\* not ended has not been booked.
EndedOnce ==
  One => \A s \in Sessions :
    /\ booked[s] <= 1 /\ (stage[s] # "ended" => booked[s] = 0)
    /\ \A r \in Slots :
         /\ Settling(r, s) \/ Waking(r, s) => booked[s] = 0
         /\ Settling(r, s) /\ (s \notin Chats \/ work[r].pc \in {"earn", "book"}) => stage[s] = "ended"

\* A call that was booked, has a handler that may book it, or is open was
\* opened once for each.
Hands(s) == {r \in Slots : Settling(r, s)}
Ready(s) == IF stage[s] = "open" THEN 1 ELSE 0
Openings ==
  \A s \in Sessions \ Chats : booked[s] + Cardinality(Hands(s)) + Ready(s) <= opened[s]

\* The history has a session as often as it was booked.
Rows(h, s) == {i \in DOMAIN h : h[i] = s}
Listed == \A s \in Sessions : Cardinality(Rows(thread.history, s)) = booked[s]

\* The totals do not exceed the history, nor does what a handler has read.
Covered ==
  /\ thread.count <= Len(thread.history) /\ thread.total <= H!Sum(thread.history)
  /\ \A r \in Slots : ~H!At(r, "idle") =>
       /\ Len(work[r].seen.history) <= Len(thread.history)
       /\ work[r].seen.total <= H!Sum(thread.history)

Even ==
  One => /\ thread.count = Len(thread.history) /\ thread.total = H!Sum(thread.history)
         /\ \A r \in Slots : ~H!At(r, "idle") => /\ work[r].seen.history = thread.history
                                              /\ work[r].seen.total = thread.total
\* What the thread does not say yet of the session in hand, and the income
\* beyond that: less than Full, since a second credit is given only below it.
Unsaid(r) == IF work[r].pc \in {"close", "earn", "book"} THEN Cost[work[r].s] ELSE 0
Earned ==
  One /\ failures = 0 => \A r \in Slots :
    /\ thread.total + Unsaid(r) <= income /\ income - (thread.total + Unsaid(r)) < Full
    /\ H!At(r, "earn") => income < Full

TInv == Types /\ InOneHand /\ EndedOnce /\ Openings /\ Listed /\ Covered /\ Even /\ Earned

----------------
LEMMA ThreadSize == ASSUME NEW S PROVE H!Cardinality(S) = Cardinality(S)
BY DEF H!Cardinality, Cardinality
LEMMA ThreadSum == ASSUME NEW f PROVE H!SumFunction(f) = SumFunctionOnSet(f, DOMAIN f)
BY DEF H!SumFunction, H!SumFunctionOnSet, SumFunctionOnSet, H!FoldFunctionOnSet,
       FoldFunctionOnSet, H!MapThenFoldSet, MapThenFoldSet

LEMMA SumAppend ==
  ASSUME ThreadBounds, NEW h \in Seq(Sessions), NEW s \in Sessions
  PROVE  H!Sum(h) \in Nat /\ H!Sum(Append(h, s)) = H!Sum(h) + Cost[s]
<1> DEFINE n == Len(h)
           f == [i \in DOMAIN h |-> Cost[h[i]]]
           l == Append(h, s)
           g == [i \in DOMAIN l |-> Cost[l[i]]]
<1>1. n \in Nat /\ DOMAIN h = 1..n /\ DOMAIN l = 1..(n + 1) /\ l[n + 1] = s
      /\ \A i \in 1..n : l[i] = h[i] /\ h[i] \in Sessions
  OBVIOUS
<1>2. IsFiniteSet(1..n) /\ IsFiniteSet(1..(n + 1))
  BY <1>1, FS_Interval
<1>3. /\ \A i \in 1..n : f[i] \in Nat /\ f[i] = g[i]
      /\ \A i \in 1..(n + 1) : g[i] \in Nat
      /\ g[n + 1] = Cost[s] /\ Cost[s] \in Nat /\ DOMAIN f = 1..n /\ DOMAIN g = 1..(n + 1)
  BY <1>1 DEF ThreadBounds
<1>4. H!Sum(h) = SumFunctionOnSet(f, 1..n) /\ H!Sum(l) = SumFunctionOnSet(g, 1..(n + 1))
  BY <1>3, ThreadSum DEF H!Sum
<1> HIDE DEF f, g, l, n
<1>5. SumFunctionOnSet(f, 1..n) \in Nat
  BY <1>2, <1>3, SumNat
<1>6. SumFunctionOnSet(g, 1..(n + 1)) = g[n + 1] + SumFunctionOnSet(g, (1..(n + 1)) \ {n + 1})
  BY <1>1, <1>2, <1>3, SumSplit DEF IntegerOn
<1>7. (1..(n + 1)) \ {n + 1} = 1..n
  BY <1>1
<1>8. \A i \in 1..n : g[i] = f[i]
  BY <1>3
<1>9. SumFunctionOnSet(g, 1..n) = SumFunctionOnSet(f, 1..n)
  BY <1>2, <1>8, SumSame
<1>10. SumFunctionOnSet(g, 1..(n + 1)) = Cost[s] + SumFunctionOnSet(f, 1..n)
  BY <1>3, <1>6, <1>7, <1>9
<1>11. H!Sum(l) = H!Sum(h) + Cost[s] /\ H!Sum(h) \in Nat
  BY <1>3, <1>4, <1>5, <1>10
<1> QED BY <1>11 DEF l

LEMMA SumOfNone == H!Sum(<<>>) = 0
<1> DEFINE f == [i \in DOMAIN <<>> |-> Cost[<<>>[i]]]
<1>1. DOMAIN f = {}
  OBVIOUS
<1> HIDE DEF f
<1>2. SumFunctionOnSet(f, {}) = 0
  BY SumEmpty
<1> QED BY <1>1, <1>2, ThreadSum DEF H!Sum, f

(* What the writes do to the document and to the slots, field by field. *)
Same(d, e) == /\ d.status = e.status /\ d.current = e.current /\ d.history = e.history
              /\ d.count = e.count /\ d.total = e.total

LEMMA WithStatus ==
  ASSUME NEW d \in Docs, NEW x \in ThreadStatuses
  PROVE  /\ [d EXCEPT !.status = x] \in Docs /\ [d EXCEPT !.status = x].history = d.history
         /\ [d EXCEPT !.status = x].count = d.count /\ [d EXCEPT !.status = x].total = d.total
BY Zenon DEF Docs

LEMMA WithCurrent ==
  ASSUME NEW d \in Docs, NEW x \in Sessions \cup {None}
  PROVE  /\ [d EXCEPT !.current = x] \in Docs /\ [d EXCEPT !.current = x].history = d.history
         /\ [d EXCEPT !.current = x].count = d.count /\ [d EXCEPT !.current = x].total = d.total
BY Zenon DEF Docs

Added(d, h, t, n, c, x) ==
  [d EXCEPT !.history = h, !.total = t, !.count = n, !.current = c, !.status = x]
LEMMA AddedFields ==
  ASSUME NEW d \in Docs, NEW h \in Seq(Sessions), NEW t \in Nat, NEW n \in Nat,
         NEW c \in Sessions \cup {None}, NEW x \in ThreadStatuses
  PROVE  /\ Added(d, h, t, n, c, x) \in Docs /\ Added(d, h, t, n, c, x).history = h
         /\ Added(d, h, t, n, c, x).total = t /\ Added(d, h, t, n, c, x).count = n
BY Zenon DEF Docs, Added

Totals(d, t, n) == [d EXCEPT !.total = t, !.count = n]
LEMMA TotalsFields ==
  ASSUME NEW d \in Docs, NEW t \in Nat, NEW n \in Nat
  PROVE  Totals(d, t, n).total = t /\ Totals(d, t, n).count = n
BY Zenon DEF Docs, Totals

LEMMA BookedFields ==
  ASSUME ThreadBounds, NEW d \in Docs, NEW s \in Sessions
  PROVE  H!Booked(d, s).total = d.total + Cost[s] /\ H!Booked(d, s).count = Len(d.history) + 1
<1>1. d.total + Cost[s] \in Nat /\ Len(d.history) + 1 \in Nat
  BY DEF Docs, ThreadBounds
<1>2. H!Booked(d, s) = Totals(d, d.total + Cost[s], Len(d.history) + 1)
  BY Zenon DEF H!Booked, Totals
<1> QED BY <1>1, <1>2, TotalsFields

LEMMA Working ==
  ASSUME Types, NEW r \in Slots, ~H!At(r, "idle")
  PROVE  work[r] \in Works
BY DEF Types, H!At, H!Idle

\* What a step does with slot r: it puts a handler there, moves it, or ends it.
LEMMA ThreadBegins ==
  ASSUME Types, NEW r \in Slots, NEW pc \in Saves \cup Settled \cup {"mark", "start", "clear"},
         NEW s \in Sessions \cup {None}, work' = [work EXCEPT ![r] = H!Handler(pc, s)]
  PROVE  /\ work' \in [Slots -> {H!Idle} \cup Works]
         /\ work'[r].pc = pc /\ work'[r].s = s /\ work'[r].seen = thread
         /\ \A q \in Slots \ {r} : work'[q] = work[q]
<1>1. H!Handler(pc, s) \in Works /\ H!Handler(pc, s).pc = pc /\ H!Handler(pc, s).s = s
        /\ H!Handler(pc, s).seen = thread
  BY DEF H!Handler, Works, Types
<1> QED BY <1>1 DEF Types

LEMMA Goes ==
  ASSUME Types, NEW r \in Slots, ~H!At(r, "idle"), NEW pc \in Settled, H!Goto(r, pc)
  PROVE  /\ work' \in [Slots -> {H!Idle} \cup Works]
         /\ work'[r].pc = pc /\ work'[r].s = work[r].s /\ work'[r].seen = work[r].seen
         /\ \A q \in Slots \ {r} : work'[q] = work[q]
<1> DEFINE e == [work[r] EXCEPT !.pc = pc]
<1>1. e \in Works /\ e.pc = pc /\ e.s = work[r].s /\ e.seen = work[r].seen
  BY Working, Zenon DEF Works
<1>2. work' = [work EXCEPT ![r] = e]
  BY Zenon DEF H!Goto
<1> HIDE DEF e
<1> QED BY <1>1, <1>2 DEF Types

LEMMA Ends ==
  ASSUME Types, NEW r \in Slots, H!Finish(r)
  PROVE  /\ work' \in [Slots -> {H!Idle} \cup Works] /\ work'[r].pc = "idle"
         /\ \A q \in Slots \ {r} : work'[q] = work[q]
BY DEF H!Finish, Types, H!Idle

----------------
LEMMA HistoryLength ==
  ASSUME Types
  PROVE  /\ thread.history \in Seq(Sessions) /\ Len(thread.history) \in Nat
         /\ thread.count \in Nat /\ thread.total \in Nat
BY DEF Types, Docs

\* As long as nothing is booked, history and totals agree as before.
LEMMA Keeps ==
  ASSUME TInv, thread'.history = thread.history, thread'.total = thread.total,
         thread'.count = thread.count,
         booked' = booked,
         \A r \in Slots : ~H!At(r, "idle")' =>
           \/ work'[r].seen = thread
           \/ ~H!At(r, "idle") /\ work'[r].seen = work[r].seen
  PROVE  Listed' /\ Covered' /\ Even'
<1>1. Listed'
  BY DEF TInv, Listed
<1>2. H!Sum(thread'.history) = H!Sum(thread.history)
        /\ H!Sum(thread.history)' = H!Sum(thread'.history)
  BY DEF H!Sum
<1>3. Covered'
  BY <1>2, HistoryLength DEF TInv, Covered
<1> QED BY <1>1, <1>2, <1>3 DEF TInv, Even, One

LEMMA HandsAre ==
  ASSUME ThreadBounds, NEW s
  PROVE  /\ IsFiniteSet(Hands(s)) /\ IsFiniteSet(Hands(s)') /\ Cardinality(Hands(s)) \in Nat
         /\ Cardinality(Hands(s)') \in Nat
<1>1. Hands(s) \subseteq Slots /\ Hands(s)' \subseteq Slots
  BY DEF Hands
<1> QED BY <1>1, FS_Subset, FS_CardinalityType DEF ThreadBounds

\* As long as nothing is booked, nobody takes a session in hand, and whatever
\* opens is counted, each call was opened often enough.
LEMMA Reopening ==
  ASSUME ThreadBounds, TInv, Types', booked' = booked,
         \A q \in Slots, s \in Sessions : Settling(q, s)' => Settling(q, s),
         \A s \in Sessions \ Chats : opened[s] + Ready(s)' <= opened'[s] + Ready(s)
  PROVE  Openings'
<1> SUFFICES ASSUME NEW s \in Sessions \ Chats
             PROVE  booked'[s] + Cardinality(Hands(s)') + Ready(s)' <= opened'[s]
  BY DEF Openings
<1>1. Cardinality(Hands(s)') <= Cardinality(Hands(s))
  <2>1. Hands(s)' \subseteq Hands(s)
    BY DEF Hands
  <2> QED BY <2>1, HandsAre, FS_Subset
<1>2. booked[s] + Cardinality(Hands(s)) + Ready(s) <= opened[s]
  BY DEF TInv, Openings
<1>3. booked[s] \in Nat /\ opened[s] \in Nat /\ opened'[s] \in Nat
  BY DEF TInv, Types
<1>4. Ready(s) \in Nat /\ Ready(s)' \in Nat
  BY DEF Ready
<1>5. Cardinality(Hands(s)) \in Nat /\ Cardinality(Hands(s)') \in Nat
  BY HandsAre
<1> HIDE DEF Ready, Hands
<1> QED BY <1>1, <1>2, <1>3, <1>4, <1>5

LEMMA CreateStep ==
  ASSUME ThreadBounds, TInv, NEW r \in Slots, NEW s \in Sessions, H!CreateOrder(r, s)
  PROVE  TInv'
<1>1. /\ work' \in [Slots -> {H!Idle} \cup Works]
      /\ work'[r].pc = "mark" /\ work'[r].s = s /\ work'[r].seen = thread
      /\ \A q \in Slots \ {r} : work'[q] = work[q]
  BY ThreadBegins DEF TInv, H!CreateOrder, H!Begin
<1>2. /\ stage[s] = "new" /\ \A q \in Slots : H!At(q, "idle") \/ work[q].s # s
      /\ UNCHANGED <<stage, opened, booked, income, failures>> /\ H!At(r, "idle")
  BY DEF H!CreateOrder, H!Begin
<1>3. /\ thread' \in Docs /\ thread'.history = thread.history
      /\ thread'.count = thread.count /\ thread'.total = thread.total
  <2>1. thread' \in {thread, [thread EXCEPT !.status = "active"]}
    BY DEF H!CreateOrder
  <2> QED BY <2>1, WithStatus, Zenon DEF TInv, Types, ThreadStatuses
<1>4. Types' /\ InOneHand' /\ EndedOnce'
  BY <1>1, <1>2, <1>3 DEF TInv, Types, InOneHand, ThreadOpening, Settling, Settled, EndedOnce,
     Waking, One, H!At
<1>90. Openings'
  BY <1>1, <1>2, <1>4, Reopening DEF TInv, Types, Settling, Settled, Ready
<1>5. Listed' /\ Covered' /\ Even'
  BY <1>1, <1>2, <1>3, Keeps DEF H!At
<1>6. Earned'
  BY <1>1, <1>2, <1>3 DEF TInv, Earned, Unsaid, One, H!At
<1> QED BY <1>4, <1>5, <1>6, <1>90 DEF TInv

LEMMA MarkStep ==
  ASSUME ThreadBounds, TInv, NEW r \in Slots, H!Mark(r)
  PROVE  TInv'
<1>1. /\ work' \in [Slots -> {H!Idle} \cup Works] /\ work'[r].pc = "idle"
      /\ \A q \in Slots \ {r} : work'[q] = work[q]
  BY Ends DEF TInv, H!Mark
<1>2. H!At(r, "mark") /\ stage' = [stage EXCEPT ![work[r].s] = "open"]
        /\ opened' = [opened EXCEPT ![work[r].s] = opened[work[r].s] + 1]
        /\ UNCHANGED <<booked, income, failures>>
  BY DEF H!Mark
<1>3. work[r].s \in Sessions /\ stage[work[r].s] = "new"
  BY <1>2 DEF TInv, InOneHand, ThreadOpening, H!At
<1>4. /\ thread' \in Docs /\ thread'.history = thread.history
      /\ thread'.count = thread.count /\ thread'.total = thread.total
  BY <1>3, WithCurrent, Zenon DEF TInv, Types, H!Mark
<1>5. Types' /\ InOneHand' /\ EndedOnce'
  BY <1>1, <1>2, <1>3, <1>4 DEF TInv, Types, InOneHand, ThreadOpening, Settling, Settled, EndedOnce,
     Waking, One, H!At
<1>90. Openings'
  <2>1. \A q \in Slots, s \in Sessions : Settling(q, s)' => Settling(q, s)
    BY <1>1 DEF Settling, Settled
  <2>2. \A s \in Sessions : opened[s] + Ready(s)' <= opened'[s] + Ready(s)
    BY <1>2, <1>3 DEF TInv, Types, Ready
  <2> QED BY <1>2, <1>5, <2>1, <2>2, Reopening
<1>6. Listed' /\ Covered' /\ Even'
  BY <1>1, <1>2, <1>4, Keeps DEF H!At
<1>7. Earned'
  BY <1>1, <1>2, <1>4 DEF TInv, Earned, Unsaid, One, H!At
<1> QED BY <1>5, <1>6, <1>7, <1>90 DEF TInv

LEMMA StatusStep ==
  ASSUME ThreadBounds, TInv, NEW s \in Sessions, H!UpdateOrderStatus(s)
  PROVE  TInv'
<1>1. UNCHANGED <<stage, opened, booked, income, work, failures>>
  BY DEF H!UpdateOrderStatus
<1>2. /\ thread' \in Docs /\ thread'.history = thread.history
      /\ thread'.count = thread.count /\ thread'.total = thread.total
  BY WithStatus, Zenon DEF TInv, Types, ThreadStatuses, H!UpdateOrderStatus
<1>3. Types' /\ InOneHand' /\ EndedOnce'
  BY <1>1, <1>2 DEF TInv, Types, InOneHand, ThreadOpening, Settling, EndedOnce, Waking, One, H!At
<1>90. Openings'
  BY <1>1, <1>3, Reopening DEF TInv, Types, Settling, Settled, Ready
<1>4. Listed' /\ Covered' /\ Even'
  BY <1>1, <1>2, Keeps DEF H!At
<1>5. Earned'
  BY <1>1, <1>2 DEF TInv, Earned, Unsaid, One, H!At
<1> QED BY <1>3, <1>4, <1>5, <1>90 DEF TInv

LEMMA ChangeStep ==
  ASSUME ThreadBounds, TInv, NEW r \in Slots, H!ChangeStatus(r)
  PROVE  TInv'
<1>1. PICK pc \in Saves : H!Begin(r, H!Handler(pc, None))
  BY DEF H!ChangeStatus, Saves
<1>2. /\ work' \in [Slots -> {H!Idle} \cup Works]
      /\ work'[r].pc = pc /\ work'[r].seen = thread
      /\ \A q \in Slots \ {r} : work'[q] = work[q]
  BY <1>1, ThreadBegins DEF TInv, H!Begin
<1>3. UNCHANGED <<thread, stage, opened, booked, income, failures>> /\ H!At(r, "idle")
  BY <1>1 DEF H!ChangeStatus, H!Begin
<1>4. Types' /\ InOneHand' /\ EndedOnce'
  BY <1>2, <1>3 DEF TInv, Types, InOneHand, ThreadOpening, Settling, Settled, EndedOnce,
     Waking, One, H!At, Saves
<1>90. Openings'
  BY <1>2, <1>3, <1>4, Reopening DEF TInv, Types, Settling, Settled, Saves, Ready
<1>5. Listed' /\ Covered' /\ Even'
  BY <1>2, <1>3, Keeps DEF H!At
<1>6. Earned'
  BY <1>2, <1>3 DEF TInv, Earned, Unsaid, One, H!At, Saves
<1> QED BY <1>4, <1>5, <1>6, <1>90 DEF TInv

LEMMA SaveStep ==
  ASSUME ThreadBounds, TInv, NEW r \in Slots, H!SaveStatus(r) \/ H!Clear(r)
  PROVE  TInv'
<1>1. /\ work' \in [Slots -> {H!Idle} \cup Works] /\ work'[r].pc = "idle"
      /\ \A q \in Slots \ {r} : work'[q] = work[q]
  BY Ends DEF TInv, H!SaveStatus, H!Clear
<1>2. UNCHANGED <<stage, opened, booked, income, failures>> /\ work[r].pc \in Saves \cup {"clear"}
  BY DEF H!SaveStatus, H!Clear, Saves, H!At
<1>3. work[r] \in Works /\ work[r].seen \in Docs
  BY <1>2, Working DEF TInv, H!At, Saves, Works
<1>4. /\ thread' \in Docs /\ thread'.history = thread.history
      /\ thread'.count = thread.count /\ thread'.total = thread.total
  <2>1. CASE H!SaveStatus(r)
    <3>1. H!Write(work[r].seen.status, work[r].pc, thread.status) \in ThreadStatuses
      BY <2>1 DEF H!SaveStatus, H!Write, ThreadStatuses, TInv, Types, Docs
    <3>2. thread' = [thread EXCEPT !.status = H!Write(work[r].seen.status, work[r].pc,
            thread.status)]
      BY <2>1, Zenon DEF H!SaveStatus
    <3> QED BY <3>1, <3>2, WithStatus, Zenon DEF TInv, Types
  <2>2. CASE H!Clear(r)
    <3>1. H!Write(work[r].seen.current, None, thread.current) \in Sessions \cup {None}
      BY DEF H!Write, TInv, Types, Docs
    <3>2. thread' = [thread EXCEPT !.current = H!Write(work[r].seen.current, None, thread.current)]
      BY <2>2, Zenon DEF H!Clear
    <3> QED BY <3>1, <3>2, WithCurrent, Zenon DEF TInv, Types
  <2> QED BY <2>1, <2>2
<1>5. Types' /\ InOneHand' /\ EndedOnce'
  BY <1>1, <1>2, <1>4 DEF TInv, Types, InOneHand, ThreadOpening, Settling, Settled, EndedOnce,
     Waking, One, H!At
<1>90. Openings'
  BY <1>1, <1>2, <1>5, Reopening DEF TInv, Types, Settling, Settled, Ready
<1>6. Listed' /\ Covered' /\ Even'
  BY <1>1, <1>2, <1>4, Keeps DEF H!At
<1>7. Earned'
  BY <1>1, <1>2, <1>4 DEF TInv, Earned, Unsaid, One, H!At, Saves
<1> QED BY <1>5, <1>6, <1>7, <1>90 DEF TInv

LEMMA ReadStep ==
  ASSUME ThreadBounds, TInv, NEW r \in Slots, NEW s \in Sessions, H!ReadSession(r, s)
  PROVE  TInv'
<1>1. /\ work' \in [Slots -> {H!Idle} \cup Works]
      /\ work'[r].pc = "start" /\ work'[r].s = s /\ work'[r].seen = thread
      /\ \A q \in Slots \ {r} : work'[q] = work[q]
  BY ThreadBegins DEF TInv, H!ReadSession, H!Begin
<1>2. /\ UNCHANGED <<thread, stage, opened, booked, income, failures>> /\ H!At(r, "idle")
      /\ stage[s] = "open"
  BY DEF H!ReadSession, H!Begin
<1>3. Types' /\ InOneHand' /\ EndedOnce'
  BY <1>1, <1>2 DEF TInv, Types, InOneHand, ThreadOpening, Settling, Settled, EndedOnce,
     Waking, One, H!At
<1>4. Openings'
  BY <1>1, <1>2, <1>3, Reopening DEF TInv, Types, Settling, Settled, Ready
<1>5. Listed' /\ Covered' /\ Even'
  BY <1>1, <1>2, Keeps DEF H!At
<1>6. Earned'
  BY <1>1, <1>2 DEF TInv, Earned, Unsaid, One, H!At
<1> QED BY <1>3, <1>4, <1>5, <1>6 DEF TInv

LEMMA SaveSessionStep ==
  ASSUME ThreadBounds, TInv, NEW r \in Slots, H!SaveSession(r)
  PROVE  TInv'
<1> DEFINE s == work[r].s
<1>1. /\ work' \in [Slots -> {H!Idle} \cup Works] /\ work'[r].pc = "idle"
      /\ \A q \in Slots \ {r} : work'[q] = work[q]
  BY Ends DEF TInv, H!SaveSession
<1>2. /\ H!At(r, "start") /\ stage' = [stage EXCEPT ![s] = "open"]
      /\ opened' = [opened EXCEPT ![s] = IF stage[s] = "ended" THEN opened[s] + 1 ELSE opened[s]]
      /\ UNCHANGED <<thread, booked, income, failures>>
  BY DEF H!SaveSession
<1>3. s \in Sessions /\ stage[s] # "new"
  BY <1>2 DEF TInv, InOneHand, Waking, H!At
<1>4. One => booked[s] = 0
  BY <1>2, <1>3 DEF TInv, EndedOnce, Waking
<1> HIDE DEF s
<1>5. /\ opened' \in [Sessions -> Nat] /\ stage' \in [Sessions -> {"new", "open", "ended"}]
      /\ stage'[s] = "open" /\ \A t \in Sessions \ {s} : stage'[t] = stage[t] /\ opened'[t] = opened[t]
      /\ opened'[s] = IF stage[s] = "ended" THEN opened[s] + 1 ELSE opened[s]
  BY <1>2, <1>3 DEF TInv, Types
<1>6. Types' /\ InOneHand'
  BY <1>1, <1>2, <1>3, <1>5 DEF TInv, Types, InOneHand, ThreadOpening, Settling, Settled, Waking, H!At
<1>7. EndedOnce'
  <2> SUFFICES ASSUME One, NEW t \in Sessions
               PROVE  /\ booked[t] <= 1 /\ (stage'[t] # "ended" => booked[t] = 0)
                      /\ \A q \in Slots : ~Settling(q, t)' /\ ~Waking(q, t)'
    BY <1>2 DEF EndedOnce, One
  <2>1. \A q \in Slots : ~Settling(q, t)' /\ ~Waking(q, t)'
    BY <1>1 DEF One, Settling, Waking, Settled, H!At
  <2> QED BY <1>4, <1>5, <2>1 DEF TInv, EndedOnce
<1>8. Openings'
  <2>1. \A q \in Slots, t \in Sessions : Settling(q, t)' => Settling(q, t)
    BY <1>1 DEF Settling, Settled
  <2>2. \A t \in Sessions : opened[t] + Ready(t)' <= opened'[t] + Ready(t)
    <3>1. stage[s] \in {"open", "ended"} /\ opened \in [Sessions -> Nat]
      BY <1>3 DEF TInv, Types
    <3> QED BY <1>3, <1>5, <3>1 DEF Ready
  <2> QED BY <1>2, <1>6, <2>1, <2>2, Reopening
<1>9. Listed' /\ Covered' /\ Even'
  BY <1>1, <1>2, Keeps DEF H!At
<1>10. Earned'
  BY <1>1, <1>2 DEF TInv, Earned, Unsaid, One, H!At
<1> QED BY <1>6, <1>7, <1>8, <1>9, <1>10 DEF TInv

LEMMA EndPaidStep ==
  ASSUME ThreadBounds, TInv, NEW s \in Sessions, H!EndPaid(s)
  PROVE  TInv'
<1>1. /\ UNCHANGED <<thread, opened, booked, income, work, failures>> /\ stage[s] = "open"
      /\ stage' = [stage EXCEPT ![s] = "ended"]
  BY DEF H!EndPaid
<1>2. /\ stage' \in [Sessions -> {"new", "open", "ended"}] /\ stage'[s] = "ended"
      /\ \A t \in Sessions \ {s} : stage'[t] = stage[t]
  BY <1>1 DEF TInv, Types
<1>3. Types' /\ InOneHand' /\ EndedOnce'
  BY <1>1, <1>2 DEF TInv, Types, InOneHand, ThreadOpening, Settling, EndedOnce, Waking, One, H!At
<1>4. Openings'
  <2>1. \A q \in Slots, t \in Sessions : Settling(q, t)' => Settling(q, t)
    BY <1>1 DEF Settling
  <2>2. \A t \in Sessions : opened[t] + Ready(t)' <= opened'[t] + Ready(t)
    BY <1>1, <1>2 DEF TInv, Types, Ready
  <2> QED BY <1>1, <1>3, <2>1, <2>2, Reopening
<1>5. Listed' /\ Covered' /\ Even'
  BY <1>1, Keeps DEF H!At
<1>6. Earned'
  BY <1>1 DEF TInv, Earned, Unsaid, One, H!At
<1> QED BY <1>3, <1>4, <1>5, <1>6 DEF TInv

LEMMA CancelStep ==
  ASSUME ThreadBounds, TInv, NEW r \in Slots, NEW s \in Sessions, H!CancelOrder(r, s)
  PROVE  TInv'
<1>1. /\ work' \in [Slots -> {H!Idle} \cup Works]
      /\ work'[r].pc = "clear" /\ work'[r].seen = thread
      /\ \A q \in Slots \ {r} : work'[q] = work[q]
  BY ThreadBegins DEF TInv, H!CancelOrder, H!Begin
<1>2. /\ UNCHANGED <<thread, opened, booked, income, failures>> /\ H!At(r, "idle")
      /\ stage[s] = "open" /\ stage' = [stage EXCEPT ![s] = "ended"]
  BY DEF H!CancelOrder, H!Begin
<1>3. Types' /\ InOneHand' /\ EndedOnce'
  BY <1>1, <1>2 DEF TInv, Types, InOneHand, ThreadOpening, Settling, Settled, EndedOnce,
     Waking, One, H!At
<1>90. Openings'
  <2>1. \A q \in Slots, t \in Sessions : Settling(q, t)' => Settling(q, t)
    BY <1>1 DEF Settling, Settled
  <2>2. \A t \in Sessions : opened[t] + Ready(t)' <= opened'[t] + Ready(t)
    BY <1>2 DEF TInv, Types, Ready
  <2> QED BY <1>2, <1>3, <2>1, <2>2, Reopening
<1>4. Listed' /\ Covered' /\ Even'
  BY <1>1, <1>2, Keeps DEF H!At
<1>5. Earned'
  BY <1>1, <1>2 DEF TInv, Earned, Unsaid, One, H!At
<1> QED BY <1>3, <1>4, <1>5, <1>90 DEF TInv

LEMMA EndStep ==
  ASSUME ThreadBounds, TInv, NEW r \in Slots, NEW s \in Sessions, H!EndSession(r, s)
  PROVE  TInv'
<1>1. /\ work' \in [Slots -> {H!Idle} \cup Works]
      /\ work'[r].pc = "pay" /\ work'[r].s = s /\ work'[r].seen = thread
      /\ \A q \in Slots \ {r} : work'[q] = work[q]
  BY ThreadBegins DEF TInv, H!EndSession, H!Begin, Settled
<1>2. /\ UNCHANGED <<thread, opened, booked, income, failures>> /\ H!At(r, "idle") /\ stage[s] = "open"
      /\ stage' = IF s \in Chats THEN stage ELSE [stage EXCEPT ![s] = "ended"]
  BY DEF H!EndSession, H!Begin
<1>3. Types' /\ InOneHand'
  BY <1>1, <1>2 DEF TInv, Types, InOneHand, ThreadOpening, Settling, Settled, Waking, H!At
<1>4. EndedOnce'
  <2> SUFFICES ASSUME One, NEW t \in Sessions
               PROVE  /\ booked[t] <= 1 /\ (stage'[t] # "ended" => booked[t] = 0)
                      /\ \A q \in Slots :
                           /\ (Settling(q, t) \/ Waking(q, t))' => booked[t] = 0
                           /\ Settling(q, t)' /\ (t \notin Chats \/ work'[q].pc \in {"earn", "book"})
                                => stage'[t] = "ended"
    BY <1>2 DEF EndedOnce, One
  <2>1. stage'[t] = stage[t] \/ (t = s /\ stage'[t] = "ended")
    BY <1>2 DEF TInv, Types
  <2>2. s \notin Chats => stage'[s] = "ended"
    BY <1>2 DEF TInv, Types
  <2>3. \A q \in Slots : q = r
    BY DEF One
  <2> QED BY <1>1, <1>2, <2>1, <2>2, <2>3 DEF TInv, EndedOnce, Settling, Waking, Settled, H!At
<1>90. Openings'
  <2> SUFFICES ASSUME NEW t \in Sessions \ Chats
               PROVE  booked[t] + Cardinality(Hands(t)') + Ready(t)' <= opened[t]
    BY <1>2 DEF Openings
  <2>1. booked[t] + Cardinality(Hands(t)) + Ready(t) <= opened[t]
    BY DEF TInv, Openings
  <2>2. booked[t] \in Nat /\ opened[t] \in Nat
    BY DEF TInv, Types
  <2>3. CASE t = s
    <3>1. Ready(t) = 1 /\ Ready(t)' = 0
      BY <1>2, <2>3 DEF Ready, TInv, Types
    <3>2. Hands(t)' = Hands(t) \cup {r} /\ r \notin Hands(t)
      BY <1>1, <1>2, <2>3 DEF Hands, Settling, Settled, H!At
    <3>3. Cardinality(Hands(t)') = Cardinality(Hands(t)) + 1 /\ Cardinality(Hands(t)) \in Nat
      BY <3>2, HandsAre, FS_AddElement
    <3> QED BY <2>1, <2>2, <3>1, <3>3
  <2>4. CASE t # s
    <3>1. Ready(t)' = Ready(t)
      BY <1>2, <2>4 DEF Ready, TInv, Types
    <3>2. Hands(t)' = Hands(t)
      BY <1>1, <1>2, <2>4 DEF Hands, Settling, Settled, H!At
    <3> QED BY <2>1, <3>1, <3>2
  <2> QED BY <2>3, <2>4
<1>5. Listed' /\ Covered' /\ Even'
  BY <1>1, <1>2, Keeps DEF H!At
<1>6. Earned'
  BY <1>1, <1>2 DEF TInv, Earned, Unsaid, One, H!At
<1> QED BY <1>3, <1>4, <1>5, <1>6, <1>90 DEF TInv

LEMMA CreditStep ==
  ASSUME ThreadBounds, TInv, NEW r \in Slots, H!Pay(r) \/ H!Earn(r)
  PROVE  TInv'
<1>1. PICK next \in {"close", "book"} :
        /\ H!At(r, "pay") \/ H!At(r, "earn")
        /\ UNCHANGED <<thread, stage, opened, booked>> /\ H!Goto(r, next) /\ H!Credit(r)
        /\ next = "close" <=> H!At(r, "pay")
  BY DEF H!Pay, H!Earn, H!At
<1>2. /\ work' \in [Slots -> {H!Idle} \cup Works]
      /\ work'[r].pc = next /\ work'[r].s = work[r].s /\ work'[r].seen = work[r].seen
      /\ \A q \in Slots \ {r} : work'[q] = work[q]
  BY <1>1, Goes DEF TInv, H!At, Settled
<1>3. \/ income' = income + Cost[work[r].s] /\ failures' = failures
      \/ failures < MaxFailures /\ failures' = failures + 1 /\ income' = income
  BY <1>1 DEF H!Credit
<1>4. work[r].s \in Sessions /\ Cost[work[r].s] \in Nat
  BY <1>1 DEF TInv, InOneHand, ThreadBounds, Settled, H!At
<1>5. Types'
  BY <1>1, <1>2, <1>3, <1>4 DEF TInv, Types, ThreadBounds
<1>6. InOneHand' /\ EndedOnce'
  BY <1>1, <1>2 DEF TInv, Types, InOneHand, ThreadOpening, Settling, Settled, EndedOnce,
     Waking, One, H!At
<1>90. Openings'
  <2>1. \A q \in Slots, t \in Sessions : Settling(q, t)' => Settling(q, t)
    BY <1>1, <1>2 DEF Settling, Settled, H!At
  <2> QED BY <1>1, <1>5, <2>1, Reopening DEF Ready, TInv, Types
<1>7. Listed' /\ Covered' /\ Even'
  BY <1>1, <1>2, Keeps DEF H!At
<1>8. Earned'
  <2> SUFFICES ASSUME One, failures' = 0
               PROVE  \A q \in Slots :
                        /\ thread.total + Unsaid(q)' <= income'
                        /\ income' - (thread.total + Unsaid(q)') < Full
                        /\ H!At(q, "earn")' => income' < Full
    BY <1>1 DEF Earned, One
  <2>1. failures = 0 /\ income' = income + Cost[work[r].s] /\ income \in Nat /\ thread.total \in Nat
        /\ Full \in Nat
    BY <1>3, HistoryLength DEF TInv, Types, ThreadBounds
  <2>2. \A q \in Slots : q = r
    BY DEF One
  <2>3. Unsaid(r)' = Cost[work[r].s] /\ ~H!At(r, "earn")'
    BY <1>2 DEF Unsaid, H!At
  <2>4. /\ thread.total + Unsaid(r) <= income /\ income - (thread.total + Unsaid(r)) < Full
        /\ H!At(r, "earn") => income < Full
    BY <2>1 DEF TInv, Earned
  <2>5. CASE H!At(r, "pay")
    BY <1>4, <2>1, <2>2, <2>3, <2>4, <2>5 DEF Unsaid, H!At
  <2>6. CASE H!At(r, "earn")
    BY <1>4, <2>1, <2>2, <2>3, <2>4, <2>6 DEF Unsaid, H!At
  <2> QED BY <1>1, <2>5, <2>6
<1> QED BY <1>5, <1>6, <1>7, <1>8, <1>90 DEF TInv

LEMMA CloseStep ==
  ASSUME ThreadBounds, TInv, NEW r \in Slots, H!Close(r)
  PROVE  TInv'
<1>1. PICK pc \in {"earn", "book"} :
        (pc = "earn" => income < Full) /\ work' = [work EXCEPT ![r] = H!Handler(pc, work[r].s)]
  BY DEF H!Close
<1>2. /\ H!At(r, "close")
      /\ stage' = IF work[r].s \in Chats THEN [stage EXCEPT ![work[r].s] = "ended"] ELSE stage
      /\ UNCHANGED <<thread, opened, booked, income, failures>>
  BY DEF H!Close, H!SaveEnd
<1>3. work[r].s \in Sessions
  BY <1>2 DEF TInv, InOneHand, Settled, H!At
<1>4. /\ work' \in [Slots -> {H!Idle} \cup Works]
      /\ work'[r].pc = pc /\ work'[r].s = work[r].s /\ work'[r].seen = thread
      /\ \A q \in Slots \ {r} : work'[q] = work[q]
  BY <1>1, <1>3, ThreadBegins DEF TInv, Settled
<1>5. Types'
  BY <1>2, <1>3, <1>4 DEF TInv, Types
<1>6. /\ \A t \in Sessions : stage'[t] = stage[t] \/
         (t = work[r].s /\ stage[t] # "new" /\ stage'[t] = "ended")
      /\ work[r].s \in Chats => stage'[work[r].s] = "ended"
  BY <1>2, <1>3 DEF TInv, Types, InOneHand, Settling, Settled, H!At
<1>7. \A q \in Slots, t \in Sessions : Settling(q, t)' <=> Settling(q, t)
  BY <1>2, <1>4 DEF Settling, Settled, H!At
<1>8. InOneHand' /\ EndedOnce'
  BY <1>2, <1>4, <1>6, <1>7 DEF TInv, InOneHand, ThreadOpening, Settling, Settled, EndedOnce,
     Waking, One, H!At
<1>90. Openings'
  <2>1. \A s \in Sessions \ Chats : stage'[s] = stage[s]
    BY <1>2, <1>3 DEF TInv, Types
  <2> QED BY <1>2, <1>5, <1>7, <2>1, Reopening DEF Ready, TInv, Types
<1>9. Listed' /\ Covered' /\ Even'
  BY <1>2, <1>4, Keeps DEF H!At
<1>10. Earned'
  <2>1. \A q \in Slots : Unsaid(q)' = Unsaid(q)
    BY <1>2, <1>4 DEF Unsaid, H!At
  <2>2. \A q \in Slots : H!At(q, "earn")' => H!At(q, "earn") \/ income < Full
    BY <1>1, <1>4 DEF H!At
  <2> QED BY <1>2, <2>1, <2>2 DEF TInv, Earned, One
<1> QED BY <1>5, <1>8, <1>9, <1>10, <1>90 DEF TInv

LEMMA BookStep ==
  ASSUME ThreadBounds, TInv, NEW r \in Slots, H!Book(r)
  PROVE  TInv'
<1> DEFINE s == work[r].s
           seen == work[r].seen
           h == Append(thread.history, s)
<1>1. /\ work' \in [Slots -> {H!Idle} \cup Works] /\ work'[r].pc = "idle"
      /\ \A q \in Slots \ {r} : work'[q] = work[q]
  BY Ends DEF TInv, H!Book
<1>2. /\ H!At(r, "book") /\ booked' = [booked EXCEPT ![s] = booked[s] + 1]
      /\ UNCHANGED <<stage, opened, income, failures>>
  BY DEF H!Book, H!CountBooking
<1>3. s \in Sessions /\ (One => stage[s] = "ended") /\ seen \in Docs
  BY <1>2, Working DEF TInv, InOneHand, EndedOnce, Settling, Settled, H!At, Works
<1>4. /\ H!Booked(seen, s).total = seen.total + Cost[s]
      /\ H!Booked(seen, s).count = Len(seen.history) + 1
      /\ H!Booked(seen, s).total \in Nat /\ H!Booked(seen, s).count \in Nat /\ h \in Seq(Sessions)
  <2>1. /\ H!Booked(seen, s).total = seen.total + Cost[s]
        /\ H!Booked(seen, s).count = Len(seen.history) + 1
    BY <1>3, BookedFields
  <2>2. seen.total \in Nat /\ Len(seen.history) \in Nat /\ Cost[s] \in Nat
    BY <1>3 DEF ThreadBounds, Docs
  <2>3. thread.history \in Seq(Sessions)
    BY HistoryLength DEF TInv
  <2> QED BY <1>3, <2>1, <2>2, <2>3
<1>5. /\ thread' \in Docs /\ thread'.history = h
      /\ thread'.total = H!Booked(seen, s).total /\ thread'.count = H!Booked(seen, s).count
  <2>1. /\ H!Write(seen.current, None, thread.current) \in Sessions \cup {None}
        /\ H!Write(seen.status, "active", thread.status) \in ThreadStatuses
    BY DEF H!Write, ThreadStatuses, TInv, Types, Docs
  <2>2. thread' = Added(thread, h, H!Booked(seen, s).total, H!Booked(seen, s).count,
                        H!Write(seen.current, None, thread.current),
                        H!Write(seen.status, "active", thread.status))
    BY Zenon DEF H!Book, Added
  <2>3. thread \in Docs
    BY DEF TInv, Types
  <2> HIDE DEF h, s, seen
  <2> QED BY <1>4, <2>1, <2>2, <2>3, AddedFields
<1>6. H!Sum(thread.history) \in Nat /\ H!Sum(h) = H!Sum(thread.history) + Cost[s] /\ Cost[s] \in Nat
  <2>1. thread.history \in Seq(Sessions)
    BY HistoryLength DEF TInv
  <2>2. H!Sum(thread.history) \in Nat /\ H!Sum(h) = H!Sum(thread.history) + Cost[s]
    BY <1>3, <2>1, SumAppend
  <2> QED BY <1>3, <2>2 DEF ThreadBounds
<1>7. /\ Len(h) = Len(thread.history) + 1 /\ Len(thread.history) \in Nat /\ h[Len(h)] = s
      /\ DOMAIN h = 1..Len(h) /\ DOMAIN thread.history = 1..Len(thread.history)
      /\ \A i \in DOMAIN thread.history : h[i] = thread.history[i]
  <2>1. thread.history \in Seq(Sessions)
    BY HistoryLength DEF TInv
  <2> QED BY <1>3, <2>1
<1>8. ~H!At(r, "idle")
  BY <1>2 DEF H!At
<1> HIDE DEF s, seen, h
<1>9. booked' \in [Sessions -> Nat] /\ booked'[s] = booked[s] + 1
      /\ \A t \in Sessions \ {s} : booked'[t] = booked[t]
  BY <1>2, <1>3 DEF TInv, Types
<1>10. Types' /\ InOneHand' /\ EndedOnce' /\ Openings' /\ Listed'
  <2>1. Types' /\ InOneHand'
    BY <1>1, <1>2, <1>5, <1>9 DEF TInv, Types, InOneHand, ThreadOpening, Settling, Settled, Waking, H!At
  <2>2. EndedOnce'
    <3>1. Settling(r, s) /\ booked \in [Sessions -> Nat]
      BY <1>2 DEF Settling, Settled, H!At, s, TInv, Types
    <3> SUFFICES ASSUME One, NEW t \in Sessions
                 PROVE  /\ booked'[t] <= 1 /\ (stage[t] # "ended" => booked'[t] = 0)
                        /\ \A q \in Slots : ~Settling(q, t)' /\ ~Waking(q, t)'
      BY <1>2 DEF EndedOnce, One
    <3>2. \A q \in Slots : ~Settling(q, t)' /\ ~Waking(q, t)'
      BY <1>1 DEF One, Settling, Waking, Settled, H!At
    <3>3. booked[s] = 0 /\ stage[s] = "ended"
      BY <1>3, <3>1 DEF TInv, EndedOnce
    <3>5. CASE t = s
      BY <1>9, <3>2, <3>3, <3>5
    <3>6. CASE t # s
      BY <1>9, <3>2, <3>6 DEF TInv, EndedOnce
    <3> QED BY <3>5, <3>6
  <2>4. Openings'
    <3> SUFFICES ASSUME NEW t \in Sessions \ Chats
                 PROVE  booked'[t] + Cardinality(Hands(t)') + Ready(t)' <= opened[t]
      BY <1>2 DEF Openings
    <3>1. booked[t] + Cardinality(Hands(t)) + Ready(t) <= opened[t] /\ Ready(t)' = Ready(t)
      BY <1>2 DEF TInv, Openings, Ready
    <3>2. booked[t] \in Nat /\ opened[t] \in Nat /\ Ready(t) \in Nat
      BY DEF TInv, Types, Ready
    <3>3. CASE t = s
      <4>1. Settling(r, s)
        BY <1>2 DEF Settling, Settled, H!At, s
      <4>2. Hands(t)' = Hands(t) \ {r} /\ r \in Hands(t)
        BY <1>1, <3>3, <4>1 DEF Hands, Settling, Settled
      <4>3. Cardinality(Hands(t)') = Cardinality(Hands(t)) - 1 /\ Cardinality(Hands(t)) \in Nat
        BY <4>2, HandsAre, FS_RemoveElement
      <4> QED BY <1>9, <3>1, <3>2, <3>3, <4>3
    <3>4. CASE t # s
      <4>1. Hands(t)' = Hands(t)
        BY <1>1, <3>4 DEF Hands, Settling, Settled, s
      <4> QED BY <1>9, <3>1, <3>2, <3>4, <4>1
    <3> QED BY <3>3, <3>4
  <2>3. ASSUME NEW t \in Sessions
        PROVE  Cardinality(Rows(h, t)) = booked'[t]
    <3>1. IsFiniteSet(Rows(thread.history, t))
      <4>1. IsFiniteSet(DOMAIN thread.history) /\ Rows(thread.history, t) \subseteq DOMAIN thread.history
        BY <1>7, FS_Interval DEF Rows
      <4> QED BY <4>1, FS_Subset
    <3>2. Cardinality(Rows(thread.history, t)) = booked[t] /\ booked[t] \in Nat
      BY DEF TInv, Listed, Types
    <3>3. CASE t = s
      <4>1. Rows(h, t) = Rows(thread.history, t) \cup {Len(h)} /\ Len(h) \notin Rows(thread.history, t)
        BY <1>7, <3>3 DEF Rows
      <4>2. Cardinality(Rows(h, t)) = Cardinality(Rows(thread.history, t)) + 1
        BY <3>1, <4>1, FS_AddElement
      <4> QED BY <1>9, <3>2, <3>3, <4>2
    <3>4. CASE t # s
      <4>1. Rows(h, t) = Rows(thread.history, t)
        BY <1>7, <3>4 DEF Rows
      <4> QED BY <1>9, <3>2, <3>4, <4>1
    <3> QED BY <3>3, <3>4
  <2> QED BY <1>5, <2>1, <2>2, <2>3, <2>4 DEF Listed
<1>11. Covered'
  <2>1. seen.total <= H!Sum(thread.history) /\ Len(seen.history) <= Len(thread.history)
    BY <1>8 DEF TInv, Covered, seen
  <2>2. H!Sum(thread.history)' = H!Sum(h) /\ H!Sum(h) >= H!Sum(thread.history)
    BY <1>5, <1>6 DEF H!Sum
  <2>3. seen.total \in Nat /\ Len(seen.history) \in Nat
    BY <1>3 DEF Docs
  <2>4. thread'.count <= Len(thread'.history) /\ thread'.total <= H!Sum(thread.history)'
    BY <1>4, <1>5, <1>6, <1>7, <2>1, <2>2, <2>3
  <2>5. ASSUME NEW q \in Slots, ~H!At(q, "idle")'
        PROVE  /\ Len(work'[q].seen.history) <= Len(thread'.history)
               /\ work'[q].seen.total <= H!Sum(thread.history)'
    <3>1. work'[q] = work[q] /\ ~H!At(q, "idle")
      BY <1>1, <2>5 DEF H!At
    <3>2. work[q].seen \in Docs
      BY <3>1, Working DEF TInv, Works
    <3>3. Len(work[q].seen.history) \in Nat /\ work[q].seen.total \in Nat
      BY <3>2 DEF Docs
    <3>4. /\ Len(work[q].seen.history) <= Len(thread.history)
          /\ work[q].seen.total <= H!Sum(thread.history)
      BY <3>1 DEF TInv, Covered
    <3> QED BY <1>5, <1>6, <1>7, <2>2, <3>1, <3>3, <3>4
  <2> QED BY <2>4, <2>5 DEF Covered
<1>12. Even' /\ Earned'
  <2>1. ASSUME One
        PROVE  seen.history = thread.history /\ seen.total = thread.total
               /\ thread.count = Len(thread.history) /\ thread.total = H!Sum(thread.history)
    BY <1>8, <2>1 DEF TInv, Even, seen
  <2>2. H!Sum(thread.history)' = H!Sum(h)
    BY <1>5 DEF H!Sum
  <2>3. One' => One
    BY DEF One
  <2>4. Even'
    BY <1>1, <1>4, <1>5, <1>6, <1>7, <2>1, <2>2, <2>3 DEF Even, One, H!At
  <2>5. Earned'
    <3> SUFFICES ASSUME One, failures = 0
                 PROVE  \A q \in Slots :
                          /\ thread'.total + Unsaid(q)' <= income
                          /\ income - (thread'.total + Unsaid(q)') < Full
                          /\ ~H!At(q, "earn")'
      BY <1>2, <2>3 DEF Earned
    <3>1. Unsaid(r) = Cost[s] /\ thread.total + Unsaid(r) <= income
          /\ income - (thread.total + Unsaid(r)) < Full
      BY <1>2 DEF TInv, Earned, Unsaid, H!At, s
    <3>2. \A q \in Slots : Unsaid(q)' = 0 /\ ~H!At(q, "earn")'
      BY <1>1 DEF One, Unsaid, H!At
    <3>3. thread'.total = thread.total + Cost[s]
      BY <1>4, <1>5, <2>1
    <3>4. income \in Nat /\ thread'.total \in Nat
      BY <1>4, <1>5 DEF TInv, Types
    <3> QED BY <3>1, <3>2, <3>3, <3>4
  <2> QED BY <2>4, <2>5
<1> QED BY <1>10, <1>11, <1>12 DEF TInv

LEMMA FailStep ==
  ASSUME ThreadBounds, TInv, NEW r \in Slots, H!Fails(r)
  PROVE  TInv'
<1>1. /\ work' \in [Slots -> {H!Idle} \cup Works] /\ work'[r].pc = "idle"
      /\ \A q \in Slots \ {r} : work'[q] = work[q]
  BY Ends DEF TInv, H!Fails
<1>2. UNCHANGED <<thread, stage, opened, booked, income>> /\ failures' = failures + 1 /\ failures < MaxFailures
  BY DEF H!Fails
<1>3. Types' /\ InOneHand' /\ EndedOnce'
  BY <1>1, <1>2 DEF TInv, Types, InOneHand, ThreadOpening, Settling, Settled, EndedOnce,
     Waking, One, H!At, ThreadBounds
<1>90. Openings'
  <2>1. \A q \in Slots, t \in Sessions : Settling(q, t)' => Settling(q, t)
    BY <1>1 DEF Settling, Settled
  <2> QED BY <1>2, <1>3, <2>1, Reopening DEF Ready, TInv, Types
<1>4. Listed' /\ Covered' /\ Even'
  BY <1>1, <1>2, Keeps DEF H!At
<1>5. failures' # 0
  BY <1>2 DEF TInv, Types, ThreadBounds
<1> QED BY <1>3, <1>4, <1>5, <1>90 DEF TInv, Earned

LEMMA ThreadsShow == ASSUME ThreadBounds, TInv
    PROVE H!HistoryKeepsAll /\ H!TotalsAgree /\ H!IncomeIsBooked
<1>1. ASSUME H!OneAtATime
      PROVE  \E r \in Slots : Slots = {r}
  <2>1. Slots = DOMAIN work
    BY DEF TInv, Types
  <2>2. IsFiniteSet(Slots) /\ Cardinality(Slots) = 1
    BY <1>1, <2>1, ThreadSize DEF H!OneAtATime, ThreadBounds
  <2> QED BY <2>2, FS_Singleton
<1>2. H!HistoryKeepsAll
  <2>1. ASSUME NEW s \in Sessions
        PROVE  H!Cardinality({i \in DOMAIN thread.history : thread.history[i] = s}) = booked[s]
    BY ThreadSize DEF TInv, Listed, Rows
  <2>2. ASSUME NEW s \in Sessions, H!OneAtATime
        PROVE  booked[s] <= 1
    BY <1>1, <2>2 DEF One, TInv, EndedOnce
  <2>3. ASSUME NEW s \in Sessions \ Chats
        PROVE  booked[s] <= opened[s]
    <3>1. booked[s] + Cardinality(Hands(s)) + Ready(s) <= opened[s]
      BY DEF TInv, Openings
    <3>2. booked[s] \in Nat /\ opened[s] \in Nat /\ Ready(s) \in Nat
      BY DEF TInv, Types, Ready
    <3> QED BY <3>1, <3>2, HandsAre
  <2> QED BY <2>1, <2>2, <2>3 DEF H!HistoryKeepsAll
<1>3. H!TotalsAgree
  BY <1>1 DEF H!TotalsAgree, H!Shown, TInv, Covered, Even, One
<1>4. H!IncomeIsBooked
  <2> SUFFICES ASSUME H!OneAtATime, H!Quiet, failures = 0
               PROVE  thread.total <= income /\ income - thread.total < Full
    BY DEF H!IncomeIsBooked
  <2>1. PICK r \in Slots : Slots = {r}
    BY <1>1
  <2>2. One /\ Unsaid(r) = 0
    BY <2>1 DEF One, Unsaid, H!Quiet, H!At
  <2>3. thread.total + Unsaid(r) <= income /\ income - (thread.total + Unsaid(r)) < Full
    BY <2>2 DEF TInv, Earned
  <2> QED BY <2>2, <2>3, HistoryLength DEF TInv
<1> QED BY <1>2, <1>3, <1>4

LEMMA ThreadsAlways == ASSUME ThreadBounds PROVE H!Spec => []TInv
<1>1. H!Init => TInv
  <2> SUFFICES ASSUME H!Init
               PROVE  TInv
    OBVIOUS
  <2>1. /\ thread \in Docs /\ thread.history = <<>> /\ thread.count = 0 /\ thread.total = 0
    BY DEF H!Init, H!NoThread, Docs, ThreadStatuses
  <2>2. H!Sum(thread.history) = 0 /\ Len(thread.history) = 0 /\ DOMAIN thread.history = {}
    BY <2>1, SumOfNone
  <2>3. \A r \in Slots : work[r] = H!Idle /\ work[r].pc = "idle"
    BY DEF H!Init, H!NoHandler, H!Idle
  <2>4. Types /\ InOneHand
    BY <2>1, <2>3 DEF H!Init, H!NoHandler, ThreadBounds, Types, InOneHand, ThreadOpening, Settling,
         Settled, Waking, H!At
  <2>7. Openings
    <3>1. \A s \in Sessions : Hands(s) = {} /\ Ready(s) = 0 /\ booked[s] = 0 /\ opened[s] = 0
      BY <2>3 DEF H!Init, Hands, Settling, Settled, Ready
    <3> QED BY <3>1, FS_EmptySet DEF Openings
  <2>5. EndedOnce /\ Listed
    <3>1. EndedOnce
      BY <2>3 DEF H!Init, EndedOnce, Settling, Settled, Waking, H!At
    <3>2. \A s \in Sessions : Rows(thread.history, s) = {}
      BY <2>2 DEF Rows
    <3> QED BY <3>1, <3>2, FS_EmptySet DEF H!Init, Listed
  <2>6. Covered /\ Even /\ Earned
    BY <2>1, <2>2, <2>3 DEF H!Init, Covered, Even, Earned, Unsaid, ThreadBounds, H!At
  <2> QED BY <2>4, <2>5, <2>6, <2>7 DEF TInv
<1>2. TInv /\ [H!Next]_(H!tvars) => TInv'
  <2> SUFFICES ASSUME TInv, [H!Next]_(H!tvars)
               PROVE  TInv'
    OBVIOUS
  <2>1. CASE UNCHANGED H!tvars
    <3>1. H!Sum(thread.history)' = H!Sum(thread.history)
      BY <2>1 DEF H!tvars, H!Sum
    <3>2. Openings'
      BY <2>1 DEF H!tvars, TInv, Openings, Hands, Settling, Ready
    <3> QED
      BY <2>1, <3>1, <3>2 DEF H!tvars, TInv, Types, InOneHand, ThreadOpening, Settling,
           EndedOnce, Waking, Listed, Covered, Even, Earned, Unsaid, One, H!At
  <2> QED
    BY <2>1, CreateStep, MarkStep, StatusStep, ChangeStep, SaveStep, CancelStep, ReadStep, SaveSessionStep, EndPaidStep, EndStep, CreditStep,
       CloseStep, BookStep, FailStep DEF H!Next
<1> QED BY <1>1, <1>2, PTL DEF H!Spec

\* However handlers overlap and fail, the history of a thread has a session as
\* often as it was booked: the append is atomic.  A call is booked no more often
\* than it was opened, and any session at most once while handlers do not overlap.
THEOREM ThreadHistory == ASSUME ThreadBounds PROVE H!Spec => []H!HistoryKeepsAll
<1>1. TInv => H!HistoryKeepsAll
  BY ThreadsShow
<1> QED BY <1>1, ThreadsAlways, PTL

\* The totals that are shown never exceed the history, and agree with it
\* while handlers do not overlap.
THEOREM ThreadTotals == ASSUME ThreadBounds PROVE H!Spec => []H!TotalsAgree
<1>1. TInv => H!TotalsAgree
  BY ThreadsShow
<1> QED BY <1>1, ThreadsAlways, PTL

\* Without overlap and failure the astrologer was credited for what the thread
\* says the user spent, and for less than Full beyond it: second credits stop
\* when the running commission reaches 100.
THEOREM ThreadIncome == ASSUME ThreadBounds PROVE H!Spec => []H!IncomeIsBooked
<1>1. TInv => H!IncomeIsBooked
  BY ThreadsShow
<1> QED BY <1>1, ThreadsAlways, PTL

----------------
\* Registration, for any number of candidates and overlapping
\* administrators.
CONSTANTS Candidates, MaxDecisions
VARIABLES reg, profile, decisions, late

R == INSTANCE Registration

RegLimits == MaxDecisions \in Nat /\ MaxFailures \in Nat
Forms == [status : R!Statuses, passed : SUBSET R!Rounds, approval : BOOLEAN, rejection : BOOLEAN]
Decisions == [pc : {"shortlist", "fail", "advance", "create", "reject", "approve"},
              c : Candidates, k : 0..4, gone : BOOLEAN]

\* An advance is never past the last round; whoever is about to be approved has a profile.
Backed(r) ==
  /\ R!At(r, "advance") => work[r].k \in 1..3
  /\ R!At(r, "fail") => work[r].k \in R!Rounds
  /\ R!At(r, "approve") => work[r].c \in profile

RInv ==
  /\ R!TypeOK /\ work \in [Slots -> {R!Idle} \cup Decisions]
  /\ R!DecisionIsBacked /\ \A r \in Slots : Backed(r)

LEMMA OtherStatuses ==
  /\ \A k \in R!Rounds : R!RoundStatus[k] \in R!Statuses \ {"approved", "rejected"}
  /\ {"none", "waitlist", "approved", "rejected"} \subseteq R!Statuses
BY DEF R!Rounds, R!RoundStatus, R!Statuses

LEMMA Deciding ==
  ASSUME RInv, NEW r \in Slots, ~R!At(r, "idle")
  PROVE  work[r] \in Decisions
BY DEF RInv, R!At, R!Idle

LEMMA DecideStep ==
  ASSUME RegLimits, RInv, NEW r \in Slots, NEW c \in Candidates, NEW k \in 0..4,
         NEW pc \in {"shortlist", "fail", "advance", "create", "reject"},
         pc = "advance" => k \in 1..3, pc = "fail" => k \in R!Rounds, R!Decide(r, c, pc, k)
  PROVE  RInv'
<1>1. [pc |-> pc, c |-> c, k |-> k, gone |-> FALSE] \in Decisions
  BY DEF Decisions
<1>2. /\ work' \in [Slots -> {R!Idle} \cup Decisions]
      /\ work'[r].pc = pc /\ work'[r].c = c /\ work'[r].k = k
      /\ \A q \in Slots \ {r} : work'[q] = work[q]
  BY <1>1 DEF RInv, R!Decide, R!Begin
<1>3. /\ decisions' \in 0..MaxDecisions /\ late' \subseteq profile
      /\ UNCHANGED <<reg, profile, failures>>
  BY DEF RInv, R!TypeOK, R!Decide, RegLimits
<1> QED BY <1>2, <1>3 DEF RInv, R!TypeOK, R!DecisionIsBacked, Backed, R!At

\* A save writes a form that is as well founded as the one it replaces.
LEMMA SavedStep ==
  ASSUME RegLimits, RInv, NEW r \in Slots, work[r] \in Decisions, NEW f \in Forms, R!Saved(r, f),
         f.status = "approved" => work[r].c \in profile,
         f.status = "rejected" => f.rejection
  PROVE  RInv'
<1>1. work[r].c \in Candidates
  BY DEF Decisions
<1>2. /\ reg' \in [Candidates -> Forms] /\ reg'[work[r].c] = f
      /\ \A c \in Candidates \ {work[r].c} : reg'[c] = reg[c]
      /\ work' \in [Slots -> {R!Idle} \cup Decisions] /\ work'[r].pc = "idle"
      /\ \A q \in Slots \ {r} : work'[q] = work[q]
      /\ UNCHANGED <<profile, decisions, late, failures>>
  BY <1>1 DEF RInv, R!TypeOK, Forms, R!Saved, R!Finish, R!Idle
<1> QED BY <1>1, <1>2 DEF RInv, R!TypeOK, Forms, R!DecisionIsBacked, Backed, R!At

LEMMA SaveSteps ==
  ASSUME RegLimits, RInv, NEW r \in Slots,
         R!SaveShortlist(r) \/ R!SaveAdvance(r) \/ R!SaveFailed(r) \/ R!SaveRejected(r)
             \/ R!SaveApproved(r)
  PROVE  RInv'
<1> DEFINE c == work[r].c
<1>1. work[r] \in Decisions /\ c \in Candidates
  <2>1. ~R!At(r, "idle")
    BY Zenon DEF R!SaveShortlist, R!SaveAdvance, R!SaveFailed, R!SaveRejected, R!SaveApproved, R!At
  <2> QED BY <2>1, Deciding DEF Decisions
<1>2. reg[c] \in Forms /\ reg[c].passed \subseteq R!Rounds
  BY <1>1 DEF RInv, R!TypeOK, Forms
<1>3. CASE R!SaveShortlist(r)
  <2> DEFINE f == [reg[c] EXCEPT !.status = R!RoundStatus[1]]
  <2>1. R!Saved(r, f)
    BY <1>3, Zenon DEF R!SaveShortlist
  <2>2. R!RoundStatus[1] \in R!Statuses \ {"approved", "rejected"}
    BY OtherStatuses DEF R!Rounds
  <2>3. f \in Forms /\ f.status = R!RoundStatus[1]
    BY <1>2, <2>2, Zenon DEF Forms
  <2> HIDE DEF f
  <2> QED BY <1>1, <2>1, <2>2, <2>3, SavedStep
<1>4. CASE R!SaveAdvance(r)
  <2> DEFINE n == work[r].k + 1
             f == [reg[c] EXCEPT !.status = R!RoundStatus[n],
                 !.passed = reg[c].passed \cup {work[r].k}]
  <2>1. n \in R!Rounds /\ work[r].k \in R!Rounds
    BY <1>4 DEF R!SaveAdvance, RInv, Backed, R!Rounds
  <2>2. R!Saved(r, f)
    BY <1>4, Zenon DEF R!SaveAdvance
  <2> HIDE DEF n
  <2>3. R!RoundStatus[n] \in R!Statuses \ {"approved", "rejected"}
    BY <2>1, OtherStatuses
  <2>4. reg[c].passed \cup {work[r].k} \in SUBSET R!Rounds
    BY <1>2, <2>1
  <2>5. f \in Forms /\ f.status = R!RoundStatus[n]
    BY <1>2, <2>3, <2>4, Zenon DEF Forms
  <2> HIDE DEF f
  <2> QED BY <1>1, <2>2, <2>3, <2>5, SavedStep
<1>5. CASE R!SaveFailed(r)
  <2> DEFINE f == [reg[c] EXCEPT !.status = "rejected", !.passed = reg[c].passed \ {work[r].k},
                                 !.rejection = TRUE]
  <2>1. R!Saved(r, f)
    BY <1>5, Zenon DEF R!SaveFailed
  <2>2. reg[c].passed \ {work[r].k} \in SUBSET R!Rounds /\ "rejected" \in R!Statuses
    BY <1>2, OtherStatuses
  <2>3. f \in Forms /\ f.status = "rejected" /\ f.rejection
    BY <1>2, <2>2, Zenon DEF Forms
  <2> HIDE DEF f
  <2> QED BY <1>1, <2>1, <2>3, SavedStep
<1>6. CASE R!SaveRejected(r)
  <2> DEFINE f == [reg[c] EXCEPT !.status = "rejected", !.rejection = TRUE]
  <2>1. R!Saved(r, f)
    BY <1>6, Zenon DEF R!SaveRejected
  <2>2. "rejected" \in R!Statuses
    BY OtherStatuses
  <2>3. f \in Forms /\ f.status = "rejected" /\ f.rejection
    BY <1>2, <2>2, Zenon DEF Forms
  <2> HIDE DEF f
  <2> QED BY <1>1, <2>1, <2>3, SavedStep
<1>7. CASE R!SaveApproved(r)
  <2> DEFINE f == [reg[c] EXCEPT !.status = "approved", !.passed = reg[c].passed \cup {4},
                                 !.approval = TRUE]
  <2>1. R!Saved(r, f)
    BY <1>7, Zenon DEF R!SaveApproved, R!Approved
  <2>2. reg[c].passed \cup {4} \in SUBSET R!Rounds /\ "approved" \in R!Statuses
    BY <1>2, OtherStatuses DEF R!Rounds
  <2>3. f \in Forms /\ f.status = "approved"
    BY <1>2, <2>2, Zenon DEF Forms
  <2>4. c \in profile
    BY <1>7 DEF R!SaveApproved, RInv, Backed
  <2> HIDE DEF f
  <2> QED BY <1>1, <2>1, <2>3, <2>4, SavedStep
<1> QED BY <1>3, <1>4, <1>5, <1>6, <1>7

LEMMA RegCreateStep ==
  ASSUME RegLimits, RInv, NEW r \in Slots, R!CreateAstrologer(r)
  PROVE  RInv'
<1>1. work[r] \in Decisions /\ work[r].c \in Candidates
  <2>1. ~R!At(r, "idle")
    BY DEF R!CreateAstrologer, R!At
  <2> QED BY <2>1, Deciding DEF Decisions
<1>2. profile' = profile \cup {work[r].c} /\ UNCHANGED <<reg, decisions, late, failures>>
  BY Zenon DEF R!CreateAstrologer
<1>3. R!Finish(r) \/ R!Goto(r, "approve")
  BY Zenon DEF R!CreateAstrologer
<1>4. /\ work' \in [Slots -> {R!Idle} \cup Decisions] /\ \A q \in Slots \ {r} : work'[q] = work[q]
      /\ \/ work'[r].pc = "idle"
         \/ work'[r].pc = "approve" /\ work'[r].c = work[r].c
  <2>1. CASE R!Finish(r)
    BY <2>1 DEF RInv, R!Finish, R!Idle
  <2>2. CASE R!Goto(r, "approve")
    BY <1>1, <2>2, Zenon DEF RInv, R!Goto, Decisions
  <2> QED BY <1>3, <2>1, <2>2
<1> QED BY <1>1, <1>2, <1>4 DEF RInv, R!TypeOK, R!DecisionIsBacked, Backed, R!At

LEMMA RegisterStep ==
  ASSUME RInv, NEW c \in Candidates, R!Register(c)
  PROVE  RInv'
<1>1. reg[c] \in Forms
  BY DEF RInv, R!TypeOK, Forms
<1>2. reg' = [reg EXCEPT ![c] = [reg[c] EXCEPT !.status = "waitlist"]]
  BY Zenon DEF R!Register
<1>3. [reg[c] EXCEPT !.status = "waitlist"] \in Forms
      /\ [reg[c] EXCEPT !.status = "waitlist"].status = "waitlist"
  BY <1>1, OtherStatuses, Zenon DEF Forms
<1>4. /\ reg' \in [Candidates -> Forms] /\ reg'[c].status = "waitlist"
      /\ \A d \in Candidates \ {c} : reg'[d] = reg[d]
  BY <1>2, <1>3, Zenon DEF RInv, R!TypeOK, Forms
<1>5. UNCHANGED <<profile, decisions, late, failures, work>>
  BY Zenon DEF R!Register
<1> QED BY <1>4, <1>5 DEF RInv, R!TypeOK, Forms, R!DecisionIsBacked, Backed, R!At

LEMMA DeleteStep ==
  ASSUME RegLimits, RInv, NEW r \in Slots, NEW c \in Candidates, R!DeleteRegistration(r, c)
  PROVE  RInv'
<1>1. /\ reg' = [reg EXCEPT ![c] = R!Absent] /\ decisions < MaxDecisions
          /\ decisions' = decisions + 1
      /\ late' \subseteq profile /\ UNCHANGED <<profile, failures>>
  BY Zenon DEF R!DeleteRegistration, RInv, R!TypeOK
<1>2. R!Absent \in Forms /\ R!Absent.status = "none"
  BY OtherStatuses DEF R!Absent, Forms
<1>3. /\ reg' \in [Candidates -> Forms] /\ reg'[c].status = "none"
      /\ \A d \in Candidates \ {c} : reg'[d] = reg[d]
  BY <1>1, <1>2 DEF RInv, R!TypeOK, Forms
<1>4. work' = [q \in Slots |-> IF ~R!At(q, "idle")
        /\ work[q].c = c THEN [work[q] EXCEPT !.gone = TRUE]
                               ELSE work[q]]
  BY Zenon DEF R!DeleteRegistration
<1>5. ASSUME NEW q \in Slots
      PROVE  /\ work'[q] \in {R!Idle} \cup Decisions /\ work'[q].pc = work[q].pc
             /\ work[q].pc # "idle" => work'[q].c = work[q].c /\ work'[q].k = work[q].k
  <2>1. CASE ~R!At(q, "idle") /\ work[q].c = c
    <3>1. work[q] \in Decisions
      BY <2>1, Deciding
    <3>2. work'[q] = [work[q] EXCEPT !.gone = TRUE]
      BY <1>4, <2>1, Zenon
    <3> QED BY <3>1, <3>2, Zenon DEF Decisions
  <2>2. CASE ~(~R!At(q, "idle") /\ work[q].c = c)
    <3>1. work'[q] = work[q]
      BY <1>4, <2>2, Zenon
    <3> QED BY <3>1 DEF RInv
  <2> QED BY <2>1, <2>2
<1>6. work' \in [Slots -> {R!Idle} \cup Decisions]
  BY <1>4, <1>5, Zenon
<1> QED
  BY <1>1, <1>3, <1>5, <1>6 DEF RInv, R!TypeOK, Forms, R!DecisionIsBacked, Backed, R!At, RegLimits

LEMMA RegEndStep ==
  ASSUME RegLimits, RInv, NEW r \in Slots, R!Fails(r) \/ R!SaveNothing(r)
  PROVE  RInv'
<1>1. work' \in [Slots -> {R!Idle} \cup Decisions] /\ work'[r].pc = "idle"
      /\ \A q \in Slots \ {r} : work'[q] = work[q]
  BY DEF RInv, R!Fails, R!SaveNothing, R!Finish, R!Idle
<1>2. UNCHANGED <<reg, profile, decisions, late>> /\ failures' \in 0..MaxFailures
  BY DEF RInv, R!TypeOK, R!Fails, R!SaveNothing, RegLimits
<1> QED BY <1>1, <1>2 DEF RInv, R!TypeOK, R!DecisionIsBacked, Backed, R!At

LEMMA RequestStep ==
  ASSUME RegLimits, RInv, NEW r \in Slots, NEW c \in Candidates, R!AdminRequests(r, c)
  PROVE  RInv'
<1>1. CASE R!ShortlistCandidate(r, c)
  BY <1>1, DecideStep DEF R!ShortlistCandidate
<1>2. CASE R!RejectRegistration(r, c)
  BY <1>2, DecideStep DEF R!RejectRegistration
<1>3. ASSUME NEW k \in R!Rounds, NEW pass \in BOOLEAN, R!CompleteRound(r, c, k, pass)
      PROVE  RInv'
  <2> DEFINE pc == IF ~pass THEN "fail" ELSE IF k < 4 THEN "advance" ELSE "create"
  <2>1. R!Decide(r, c, pc, k)
    BY <1>3 DEF R!CompleteRound
  <2>2. pc \in {"shortlist", "fail", "advance", "create", "reject"}
        /\ k \in 0..4 /\ (pc = "advance" => k \in 1..3)
    BY DEF R!Rounds
  <2> HIDE DEF pc
  <2> QED BY <2>1, <2>2, DecideStep
<1> QED BY <1>1, <1>2, <1>3, DeleteStep DEF R!AdminRequests

LEMMA RegInvariance == ASSUME RegLimits PROVE R!Spec => []RInv
<1>1. R!Init => RInv
  BY OtherStatuses DEF R!Init, R!NoHandler, R!Idle, R!Absent, RInv, R!TypeOK, R!DecisionIsBacked,
       Backed, R!At, RegLimits
<1>2. RInv /\ [R!Next]_(R!gvars) => RInv'
  <2> SUFFICES ASSUME RInv, [R!Next]_(R!gvars)
               PROVE  RInv'
    OBVIOUS
  <2>1. CASE UNCHANGED R!gvars
    BY <2>1 DEF R!gvars, RInv, R!TypeOK, R!DecisionIsBacked, Backed, R!At
  <2> QED BY <2>1, RegisterStep, RequestStep, SaveSteps, RegCreateStep, RegEndStep DEF R!Next
<1> QED BY <1>1, <1>2, PTL DEF R!Spec

\* However administrators overlap and whatever fails, an approved candidate has
\* a profile to log in with, and a rejected one a reason.
THEOREM RegistrationBacked == ASSUME RegLimits PROVE R!Spec => []R!DecisionIsBacked
<1>1. RInv => R!DecisionIsBacked
  BY DEF RInv
<1> QED BY <1>1, RegInvariance, PTL

\* One administrator at a time, and nothing failed: a handler that has not begun
\* to create a profile is about a candidate without one, or the decision came
\* late; and whoever has a profile is approved, or about to be.
Answered(c) == reg[c].status = "approved" /\ reg[c].approval = TRUE
Approving(c) == \E r \in Slots : work[r].pc = "approve" /\ work[r].c = c
Followed ==
  /\ \A r \in Slots : work[r].pc # "idle" => work[r].gone = FALSE
  /\ \A r \in Slots : work[r].pc \notin {"idle", "approve"} /\ work[r].c \in profile => work[r].c \in late
  /\ \A c \in profile \ late : Answered(c) \/ Approving(c)
OneOffice == \A q, r \in Slots : q = r
FollowedInv == OneOffice /\ failures = 0 => Followed

LEMMA FollowBegun ==
  ASSUME RInv, OneOffice, Followed, NEW r \in Slots, NEW c \in Candidates, NEW k, NEW pc, pc \notin {"idle", "approve"},
         R!Decide(r, c, pc, k)
  PROVE  Followed'
<1>1. PICK h : h = [pc |-> pc, c |-> c, k |-> k, gone |-> FALSE]
  OBVIOUS
<1>2. /\ work' = [work EXCEPT ![r] = h] /\ work[r].pc = "idle" /\ UNCHANGED <<reg, profile>>
      /\ late' = (IF c \in profile THEN late \cup {c} ELSE late)
  BY <1>1, Zenon DEF R!Decide, R!Begin, R!At
<1>3. DOMAIN work = Slots
  BY DEF RInv
<1>4. work'[r] = h /\ h.pc = pc /\ h.c = c /\ h.gone = FALSE
  BY <1>1, <1>2, <1>3
<1>5. ASSUME NEW d \in profile \ late PROVE Answered(d)
  <2>1. ~Approving(d)
    BY <1>2 DEF Approving, OneOffice
  <2> QED BY <2>1 DEF Followed
<1>6. \A d : Answered(d)' <=> Answered(d)
  BY <1>2 DEF Answered
<1>7. \A q \in Slots : q = r
  BY DEF OneOffice
<1> QED BY <1>2, <1>4, <1>5, <1>6, <1>7 DEF Followed

\* A save of the candidate whose handler it is, that has no profile or a late decision.
LEMMA FollowSaved ==
  ASSUME RInv, OneOffice, Followed, NEW r \in Slots, NEW f, work[r].pc \notin {"idle", "approve"}, R!Saved(r, f)
  PROVE  Followed'
<1>1. reg' = [reg EXCEPT ![work[r].c] = f] /\ R!Finish(r) /\ UNCHANGED <<profile, late>>
  BY Zenon DEF R!Saved
<1>2. DOMAIN work = Slots /\ DOMAIN reg = Candidates
  BY DEF RInv, R!TypeOK
<1>3. work'[r].pc = "idle"
  BY <1>1, <1>2 DEF R!Finish, R!Idle
<1>4. \A q \in Slots : q = r
  BY DEF OneOffice
<1>5. ASSUME NEW d \in profile \ late PROVE Answered(d)'
  <2>1. ~Approving(d) /\ d # work[r].c
    BY <1>4 DEF Approving, Followed
  <2>2. Answered(d)
    BY <2>1 DEF Followed
  <2>3. reg'[d] = reg[d]
    BY <1>1, <2>1
  <2> QED BY <2>2, <2>3 DEF Answered
<1> QED BY <1>1, <1>3, <1>4, <1>5 DEF Followed

LEMMA FollowSaves ==
  ASSUME RInv, OneOffice, Followed, NEW r \in Slots,
         R!SaveShortlist(r) \/ R!SaveAdvance(r) \/ R!SaveFailed(r) \/ R!SaveRejected(r)
  PROVE  Followed'
<1>1. work[r].pc \notin {"idle", "approve"}
  BY Zenon DEF R!SaveShortlist, R!SaveAdvance, R!SaveFailed, R!SaveRejected, R!At
<1>2. \E f : R!Saved(r, f)
  BY Zenon DEF R!SaveShortlist, R!SaveAdvance, R!SaveFailed, R!SaveRejected
<1> QED BY <1>1, <1>2, FollowSaved

LEMMA FollowApproved ==
  ASSUME RInv, OneOffice, Followed, NEW r \in Slots, R!SaveApproved(r)
  PROVE  Followed'
<1> DEFINE c == work[r].c
           f == [reg[c] EXCEPT !.status = "approved", !.passed = reg[c].passed \cup {4}, !.approval = TRUE]
<1>0. work[r].pc = "approve"
  BY Zenon DEF R!SaveApproved, R!At
<1>1. work[r] \in Decisions /\ c \in Candidates /\ DOMAIN work = Slots /\ reg \in [Candidates -> Forms]
  BY <1>0, Deciding DEF RInv, R!TypeOK, R!At, Decisions, Forms
<1>2. R!Saved(r, f)
  BY Zenon DEF R!SaveApproved, R!Approved
<1>3. reg[c] \in Forms /\ reg[c].passed \cup {4} \in SUBSET R!Rounds /\ "approved" \in R!Statuses
  BY <1>1, OtherStatuses DEF Forms, R!Rounds
<1>4. f.status = "approved" /\ f.approval = TRUE
  BY <1>3, Zenon DEF Forms
<1> HIDE DEF f
<1>5. reg' = [reg EXCEPT ![c] = f] /\ R!Finish(r) /\ UNCHANGED <<profile, late>>
  BY <1>2, Zenon DEF R!Saved
<1>6. work'[r].pc = "idle"
  BY <1>1, <1>5 DEF R!Finish, R!Idle
<1>7. \A q \in Slots : q = r
  BY DEF OneOffice
<1>8. ASSUME NEW d \in profile \ late PROVE Answered(d)'
  <2>1. CASE d = c
    BY <1>1, <1>4, <1>5, <2>1 DEF Answered
  <2>2. CASE d # c
    <3>1. Answered(d)
      BY <1>7, <2>2 DEF Approving, Followed
    <3> QED BY <1>1, <1>5, <2>2, <3>1 DEF Answered
  <2> QED BY <2>1, <2>2
<1> QED BY <1>5, <1>6, <1>7, <1>8 DEF Followed

LEMMA FollowCreated ==
  ASSUME RInv, OneOffice, Followed, NEW r \in Slots, R!CreateAstrologer(r)
  PROVE  Followed'
<1>0. work[r].pc = "create"
  BY Zenon DEF R!CreateAstrologer, R!At
<1>1. work[r] \in Decisions /\ DOMAIN work = Slots
  BY <1>0, Deciding DEF RInv, R!At
<1>2. /\ profile' = profile \cup {work[r].c} /\ UNCHANGED <<reg, late>>
      /\ IF work[r].c \in profile THEN R!Finish(r) ELSE R!Goto(r, "approve")
  BY Zenon DEF R!CreateAstrologer
<1>3. \A q \in Slots : q = r
  BY DEF OneOffice
<1>4. \A d : Answered(d)' <=> Answered(d)
  BY <1>2 DEF Answered
<1>5. \A d \in profile \ late : Answered(d)
  BY <1>0, <1>3 DEF Followed, Approving
<1>6. CASE work[r].c \in profile
  <2>1. work'[r].pc = "idle"
    BY <1>1, <1>2, <1>6 DEF R!Finish, R!Idle
  <2>2. work[r].c \in late
    BY <1>0, <1>6 DEF Followed
  <2> QED BY <1>2, <1>3, <1>4, <1>5, <1>6, <2>1 DEF Followed
<1>7. CASE work[r].c \notin profile
  <2> DEFINE h == [work[r] EXCEPT !.pc = "approve"]
  <2>1. h.pc = "approve" /\ h.c = work[r].c /\ h.gone = work[r].gone
    BY <1>1, Zenon DEF Decisions
  <2>2. work' = [work EXCEPT ![r] = h]
    BY <1>2, <1>7, Zenon DEF R!Goto
  <2> HIDE DEF h
  <2>3. work'[r] = h
    BY <1>1, <2>2
  <2>4. PICK c : c = work[r].c
    OBVIOUS
  <2>5. work[r].gone = FALSE
    BY <1>0 DEF Followed
  <2>6. Approving(c)'
    BY <2>1, <2>3, <2>4 DEF Approving
  <2>7. \A d \in profile' \ late' : Answered(d)' \/ Approving(d)'
    BY <1>2, <1>4, <1>5, <2>4, <2>6
  <2> QED BY <1>3, <2>1, <2>3, <2>5, <2>7 DEF Followed
<1> QED BY <1>6, <1>7

LEMMA FollowRegister ==
  ASSUME RInv, OneOffice, Followed, NEW c \in Candidates, R!Register(c)
  PROVE  Followed'
<1>1. reg[c] = R!Absent /\ DOMAIN reg = Candidates /\ UNCHANGED <<profile, late, work>>
  BY Zenon DEF R!Register, RInv, R!TypeOK
<1>2. ~Answered(c)
  BY <1>1 DEF Answered, R!Absent
<1>3. \A d \in Candidates : d # c => reg'[d] = reg[d]
  BY <1>1 DEF R!Register
<1>4. \A d \in profile : d \in Candidates
  BY DEF RInv, R!TypeOK
<1>5. \A d : Approving(d)' <=> Approving(d)
  BY <1>1 DEF Approving
<1>6. ASSUME NEW d \in profile \ late PROVE Answered(d)' \/ Approving(d)'
  <2>1. CASE Approving(d)
    BY <1>5, <2>1
  <2>2. CASE ~Approving(d)
    <3>1. Answered(d) /\ d # c /\ d \in Candidates
      BY <1>2, <1>4, <2>2 DEF Followed
    <3> QED BY <1>3, <3>1 DEF Answered
  <2> QED BY <2>1, <2>2
<1> QED BY <1>1, <1>6 DEF Followed

LEMMA FollowDelete ==
  ASSUME RInv, OneOffice, Followed, NEW r \in Slots, NEW c \in Candidates, R!DeleteRegistration(r, c)
  PROVE  Followed'
<1>1. /\ work[r].pc = "idle" /\ profile' = profile /\ late' = (IF c \in profile THEN late \cup {c} ELSE late)
      /\ reg' = [reg EXCEPT ![c] = R!Absent]
      /\ work' = [q \in Slots |-> IF ~R!At(q, "idle") /\ work[q].c = c THEN [work[q] EXCEPT !.gone = TRUE] ELSE work[q]]
  BY Zenon DEF R!DeleteRegistration, R!At
<1>2. \A q \in Slots : q = r
  BY DEF OneOffice
<1>3. work'[r] = work[r]
  BY <1>1 DEF R!At
<1>4. ASSUME NEW d \in profile' \ late' PROVE Answered(d)'
  <2>1. d \in profile \ late /\ d # c
    BY <1>1
  <2>2. Answered(d)
    BY <1>1, <1>2, <2>1 DEF Followed, Approving
  <2>3. reg'[d] = reg[d]
    BY <1>1, <2>1
  <2> QED BY <2>2, <2>3 DEF Answered
<1> QED BY <1>1, <1>2, <1>3, <1>4 DEF Followed

LEMMA FollowNext == RegLimits /\ RInv /\ FollowedInv /\ [R!Next]_(R!gvars) => FollowedInv'
<1> SUFFICES ASSUME RegLimits, RInv, FollowedInv, [R!Next]_(R!gvars), OneOffice, failures' = 0
             PROVE  Followed'
  BY DEF FollowedInv, OneOffice
<1>1. CASE UNCHANGED R!gvars
  BY <1>1 DEF R!gvars, FollowedInv, Followed, Answered, Approving
<1>2. CASE R!Next
  <2>1. CASE \E r \in Slots : R!Fails(r)
    <3>1. failures' = failures + 1 /\ failures \in Nat
      BY <2>1 DEF R!Fails, RInv, R!TypeOK, RegLimits
    <3> QED BY <3>1
  <2>2. CASE ~\E r \in Slots : R!Fails(r)
    <3>1. failures' = failures
      BY <1>2, <2>2 DEF R!Next, R!Register, R!AdminRequests, R!ShortlistCandidate, R!RejectRegistration, R!DeleteRegistration,
         R!CompleteRound, R!Decide, R!SaveShortlist, R!SaveAdvance, R!SaveFailed, R!SaveRejected, R!CreateAstrologer,
         R!SaveApproved, R!SaveNothing, R!Saved
    <3>2. Followed
      BY <3>1 DEF FollowedInv
    <3>3. ASSUME NEW r \in Slots, R!SaveNothing(r) PROVE Followed'
      BY <3>2, <3>3 DEF R!SaveNothing, Followed
    <3>4. ASSUME NEW c \in Candidates, NEW r \in Slots, R!AdminRequests(r, c) PROVE Followed'
      <4>1. CASE R!ShortlistCandidate(r, c) \/ R!RejectRegistration(r, c)
        <5>1. \E pc \in {"shortlist", "reject"} : R!Decide(r, c, pc, 0)
          BY <4>1 DEF R!ShortlistCandidate, R!RejectRegistration
        <5> QED BY <3>2, <5>1, FollowBegun
      <4>2. CASE \E k \in R!Rounds, pass \in BOOLEAN : R!CompleteRound(r, c, k, pass)
        <5>1. \E k \in R!Rounds, pc \in {"fail", "advance", "create"} : R!Decide(r, c, pc, k)
          BY <4>2 DEF R!CompleteRound
        <5> QED BY <3>2, <5>1, FollowBegun
      <4>3. CASE R!DeleteRegistration(r, c)
        BY <3>2, <4>3, FollowDelete
      <4> QED BY <3>4, <4>1, <4>2, <4>3 DEF R!AdminRequests
    <3> QED
      BY <1>2, <2>2, <3>2, <3>3, <3>4, FollowRegister, FollowSaves, FollowCreated, FollowApproved DEF R!Next
  <2> QED BY <2>1, <2>2
<1> QED BY <1>1, <1>2

\* One administrator at a time, any number of candidates, deletions and new
\* registrations: without a failure no astrologer is left whose registration is
\* not approved, unless a decision was taken after the profile was there.
THEOREM RegistrationFollowed ==
  ASSUME RegLimits, IsFiniteSet(Slots) PROVE R!Spec => []R!ProfileIsApproved
<1>1. R!Init => FollowedInv
  BY DEF R!Init, R!NoHandler, R!Idle, FollowedInv, Followed
<1>2. RInv /\ FollowedInv /\ [R!Next]_(R!gvars) => FollowedInv'
  BY FollowNext
<1>3. RInv /\ FollowedInv => R!ProfileIsApproved
  <2> SUFFICES ASSUME RInv, FollowedInv, failures = 0, R!OneAtATime, R!Quiet, NEW c \in profile \ late
               PROVE  reg[c].status = "approved" /\ reg[c].approval
    BY DEF R!ProfileIsApproved
  <2>1. R!Cardinality(Slots) = Cardinality(Slots)
    BY DEF R!Cardinality, Cardinality
  <2>2. DOMAIN work = Slots /\ Cardinality(Slots) = 1
    BY <2>1 DEF RInv, R!OneAtATime
  <2>3. OneOffice
    BY <2>2, FS_Singleton DEF OneOffice
  <2>4. ~Approving(c)
    BY DEF Approving, R!Quiet, R!At
  <2>5. Answered(c)
    BY <2>3, <2>4 DEF FollowedInv, Followed
  <2> QED BY <2>5 DEF Answered
<1> QED BY <1>1, <1>2, <1>3, RegInvariance, PTL DEF R!Spec

----------------
\* AiChat, for any number of users, chats and overlapping handlers.  What
\* needs one handler after another, the books of the wallet above all, is
\* a part of the invariant on its own.
CONSTANTS Sockets, MaxChats, FreeFirst, Lengths
VARIABLES chat, cash, used, listed, joined, grace, ticking, answering, paid, greetings

I == INSTANCE AiChat

AiBounds ==
  /\ Rate \in Nat \ {0} /\ Opening \in Nat /\ FreeFirst \in BOOLEAN /\ Lengths \subseteq Nat
  /\ MaxChats \in Nat /\ MaxFailures \in Nat /\ None \notin Users
  /\ IsFiniteSet(Slots) /\ IsFiniteSet(Sockets)

AiDocs == [user : Users \cup {None}, status : {"none", "active", "ended", "erased"},
         rate : {0, Rate}, length : Nat, cost : Nat, greeted : BOOLEAN]
Creates == [pc : {"create"}, u : Users, rate : {0, Rate}]
Greets == [pc : {"greet"}, s : I!Chats, greeted : BOOLEAN]
Reads == [pc : {"user"}, s : I!Chats, rate : {0, Rate}, length : Nat]
Closes == [pc : {"close"}, s : I!Chats]
Bills == [pc : {"end", "pay"}, s : I!Chats, u : Users, rate : {0, Rate}, balance : Nat, cost : Nat]
AiWorks == {I!Idle} \cup Creates \cup Greets \cup Reads \cup Closes \cup Bills

AiTypes ==
  /\ chat \in [I!Chats -> AiDocs] /\ work \in [Slots -> AiWorks]
  /\ cash \in [Users -> Nat] /\ used \subseteq Users /\ listed \in BOOLEAN
  /\ joined \in [Sockets -> I!Chats \cup {0}] /\ grace \subseteq I!Chats
  /\ ticking \subseteq I!Chats /\ answering \subseteq I!Chats
  /\ paid \in [I!Chats -> Nat] /\ greetings \in [I!Chats -> Nat] /\ failures \in 0..MaxFailures

\* Who owns a chat; and what a handler knows of the chat that it works on.
Known(r) ==
  LET h == work[r] IN
    /\ h.pc \in {"greet", "user", "close", "end", "pay"} => chat[h.s].status # "none"
    /\ h.pc \in {"user", "end", "pay"} => h.rate = chat[h.s].rate
    /\ h.pc \in {"end", "pay"} => h.u = chat[h.s].user /\ h.cost <= h.balance
    /\ h.pc = "close" => ~listed
Owned ==
  /\ \A s \in I!Chats : chat[s].status # "none" <=> chat[s].user \in Users
  /\ \A r \in Slots : Known(r)

Greeted == \A s \in I!Chats : greetings[s] <= 1 /\ (~chat[s].greeted => greetings[s] = 0)

\* One handler after another.
AiOne == \A q, r \in Slots : q = r
Single ==
  /\ \A s, t \in I!Chats : I!Active(s) /\ I!Active(t) /\ chat[s].user = chat[t].user => s = t
  /\ \A r \in Slots, s \in I!Chats : I!At(r, "create") /\ I!Active(s) => chat[s].user # work[r].u

Paying(s) == \E r \in Slots : I!At(r, "pay") /\ work[r].s = s
Billing(r) ==
  LET h == work[r] IN
    /\ h.pc \in {"end", "pay"} => h.balance = cash[h.u]
    /\ h.pc \in {"user", "close", "end"} => chat[h.s].status \in {"active", "erased"}
    /\ h.pc = "pay" => chat[h.s].status \in {"ended", "erased"}
    /\ h.pc = "pay" /\ chat[h.s].status = "ended" => paid[h.s] = 0 /\ chat[h.s].cost = h.cost
Billed ==
  /\ \A s \in I!Chats : /\ chat[s].status \in {"none", "active"} => paid[s] = 0 /\ chat[s].cost = 0
                        /\ failures = 0 /\ chat[s].status = "ended" => paid[s] = chat[s].cost
                             \/ Paying(s)
  /\ \A r \in Slots : Billing(r)
Ledger == \A u \in Users : cash[u] + SumFunctionOnSet(paid, I!ChatsOf(u)) = Opening

\* The chats of u, none of which was deleted: the free one is the only free one, and
\* marked when it has ended.
Kept(u) == \A s \in I!Chats : chat[s].user = u => chat[s].status # "erased"
Free(s, u) == chat[s].user = u /\ chat[s].rate = 0
Once ==
  failures = 0 /\ listed => \A u \in Users : Kept(u) =>
    /\ \A s, t \in I!Chats : Free(s, u) /\ Free(t, u) => s = t
    /\ \A s \in I!Chats : Free(s, u) => chat[s].status = "active" \/ u \in used \/ Paying(s)
    /\ \A r \in Slots : I!At(r, "create") /\ work[r].u = u /\ work[r].rate = 0 =>
         \A s \in I!Chats : ~Free(s, u)

AInv == AiTypes /\ Owned /\ Greeted /\ (AiOne => Single /\ Billed /\ Ledger /\ Once)

----------------
\* Sizes and sums are the same in the instance.
LEMMA AiSize == ASSUME NEW S PROVE I!Cardinality(S) = Cardinality(S)
BY DEF I!Cardinality, Cardinality
LEMMA AiSum == ASSUME NEW f, NEW S PROVE I!SumFunctionOnSet(f, S) = SumFunctionOnSet(f, S)
BY DEF I!SumFunctionOnSet, SumFunctionOnSet, I!FoldFunctionOnSet, FoldFunctionOnSet,
       I!MapThenFoldSet, MapThenFoldSet

LEMMA AtMostOne ==
  ASSUME NEW S, \A s, t \in S : s = t
  PROVE  Cardinality(S) <= 1
<1>1. CASE S = {}
  BY <1>1, FS_EmptySet
<1>2. ASSUME NEW x \in S
      PROVE  Cardinality(S) <= 1
  <2>1. S = {x}
    OBVIOUS
  <2> QED BY <2>1, FS_Singleton
<1> QED BY <1>1, <1>2

LEMMA MaxTwo ==
  ASSUME NEW a \in Int, NEW b \in Int
  PROVE  I!Max({a, b}) = IF a >= b THEN a ELSE b
<1> DEFINE m == IF a >= b THEN a ELSE b
<1>1. m \in {a, b} /\ \A y \in {a, b} : m >= y
  OBVIOUS
<1>2. \A x \in {a, b} : (\A y \in {a, b} : x >= y) => x = m
  OBVIOUS
<1> HIDE DEF m
<1>3. I!Max({a, b}) = m
  BY <1>1, <1>2 DEF I!Max
<1> QED BY <1>3 DEF m

LEMMA MinTwo ==
  ASSUME NEW a \in Int, NEW b \in Int
  PROVE  I!Min({a, b}) = IF a <= b THEN a ELSE b
<1> DEFINE m == IF a <= b THEN a ELSE b
<1>1. m \in {a, b} /\ \A y \in {a, b} : m <= y
  OBVIOUS
<1>2. \A x \in {a, b} : (\A y \in {a, b} : x <= y) => x = m
  OBVIOUS
<1> HIDE DEF m
<1>3. I!Min({a, b}) = m
  BY <1>1, <1>2 DEF I!Min
<1> QED BY <1>3 DEF m

\* The bill is within the balance that was read.
LEMMA CostWithin ==
  ASSUME AiBounds, NEW c \in {0, Rate}, NEW n \in Nat, NEW b \in Nat
  PROVE  I!Cost(c, n, b) \in Nat /\ I!Cost(c, n, b) <= b
<1> DEFINE m == I!Min({n, 180 * 60})
           x == I!Calculated(c, n)
           y == I!Min({x, b})
<1>1. c \in Nat
  BY DEF AiBounds
<1>2. m \in Nat
  BY MinTwo
<1> HIDE DEF m
<1>3. m * c \in Nat
  BY <1>1, <1>2
<1>4. x \in Nat
  BY <1>3 DEF I!Calculated, m
<1> HIDE DEF x
<1>5. y \in Nat /\ y <= b
  BY <1>4, MinTwo
<1> HIDE DEF y
<1>6. I!Max({y, 0}) = y
  BY <1>5, MaxTwo
<1> QED BY <1>5, <1>6 DEF I!Cost, y, x

----------------
\* What the bill of a chat depends on.
SameBill(d, e) ==
  e.user = d.user /\ e.status = d.status /\ e.rate = d.rate /\ e.cost = d.cost
SameChat(d, e) == SameBill(d, e) /\ e.greeted = d.greeted

LEMMA LengthChange ==
  ASSUME NEW f \in [I!Chats -> AiDocs], NEW s \in I!Chats, NEW n \in Nat
  PROVE  LET g == [f EXCEPT ![s].length = n] IN
           g \in [I!Chats -> AiDocs] /\ \A t \in I!Chats : SameChat(f[t], g[t])
BY Zenon DEF SameChat, SameBill, AiDocs

LEMMA StatusChange ==
  ASSUME NEW d \in AiDocs, NEW v \in {"none", "active", "ended", "erased"}
  PROVE  LET e == [d EXCEPT !.status = v] IN
           /\ e \in AiDocs /\ e.status = v /\ e.user = d.user /\ e.rate = d.rate
           /\ e.cost = d.cost /\ e.greeted = d.greeted
BY Zenon DEF AiDocs

LEMMA BillChange ==
  ASSUME NEW d \in AiDocs, NEW n \in Nat
  PROVE  LET e == [d EXCEPT !.status = "ended", !.cost = n] IN
           /\ e \in AiDocs /\ e.status = "ended" /\ e.user = d.user /\ e.rate = d.rate
           /\ e.cost = n /\ e.greeted = d.greeted
BY Zenon DEF AiDocs

LEMMA GreetedChange ==
  ASSUME NEW d \in AiDocs
  PROVE  LET e == [d EXCEPT !.greeted = TRUE] IN
           /\ e \in AiDocs /\ e.status = d.status /\ e.user = d.user /\ e.rate = d.rate
           /\ e.cost = d.cost /\ e.greeted
BY Zenon DEF AiDocs

Created(u, c) == [I!NoChat EXCEPT !.user = u, !.status = "active", !.rate = c]
LEMMA NewChat ==
  ASSUME NEW u \in Users, NEW c \in {0, Rate}
  PROVE  /\ Created(u, c) \in AiDocs /\ Created(u, c).status = "active"
         /\ Created(u, c).user = u /\ Created(u, c).rate = c
         /\ Created(u, c).cost = 0 /\ ~Created(u, c).greeted
BY Zenon DEF AiDocs, I!NoChat, Created

\* The handlers, one kind at a time.
LEMMA WorkKinds ==
  ASSUME AiTypes, NEW r \in Slots
  PROVE  /\ I!At(r, "create") => work[r] \in Creates
         /\ I!At(r, "greet") => work[r] \in Greets
         /\ I!At(r, "user") => work[r] \in Reads
         /\ I!At(r, "close") => work[r] \in Closes
         /\ I!At(r, "end") \/ I!At(r, "pay") => work[r] \in Bills
<1>1. work[r] \in AiWorks
  BY DEF AiTypes
<1> QED BY <1>1 DEF AiWorks, I!At, I!Idle, Creates, Greets, Reads, Closes, Bills

----------------
\* A handler that stays, is given up, asks for a greeting, or settles a chat
\* that is active.
Turns(q) ==
  \/ work'[q] = work[q]
  \/ work'[q].pc = "idle" /\ (work[q].pc = "greet" \/ failures' # 0)
  \/ work'[q].pc = "greet" /\ work[q].pc = "idle" /\ chat[work'[q].s].status # "none"
       /\ work'[q].s \in I!Chats
  \/ work'[q].pc = "user" /\ work[q].pc = "idle" /\ work'[q].s \in I!Chats
       /\ chat[work'[q].s].status = "active" /\ work'[q].rate = chat[work'[q].s].rate

LEMMA AiKeeps ==
  ASSUME AiBounds, AInv, AiTypes', Greeted', \A s \in I!Chats : SameBill(chat[s], chat'[s]),
         UNCHANGED <<cash, used, paid>>, listed' => listed, failures' = 0 => failures = 0,
         \A q \in Slots : Turns(q)
  PROVE  AInv'
<1>1. \A s \in I!Chats : /\ chat'[s].user = chat[s].user /\ chat'[s].status = chat[s].status
                         /\ chat'[s].rate = chat[s].rate /\ chat'[s].cost = chat[s].cost
  BY DEF SameBill
<1>2. \A q \in Slots : ~I!At(q, "idle") => (work[q].pc # "create" => work[q].s \in I!Chats)
  BY WorkKinds DEF AInv, AiTypes, AiWorks, I!At, I!Idle, Creates, Greets, Reads, Closes, Bills
<1>3. \A s \in I!Chats : I!Active(s)' <=> I!Active(s)
  BY <1>1 DEF I!Active
<1>4. Owned'
  <2>1. \A q \in Slots : Known(q)'
    <3> TAKE q \in Slots
    <3>1. Known(q) /\ Turns(q)
      BY DEF AInv, Owned
    <3> QED BY <1>1, <1>2, <3>1 DEF Turns, Known, I!At
  <2> QED BY <1>1, <2>1 DEF AInv, Owned
<1>6. ASSUME AiOne
      PROVE  (Single /\ Billed /\ Ledger /\ Once)'
  <2>1. Single /\ Billed /\ Ledger /\ Once
    BY <1>6 DEF AInv
  <2>2. \A q \in Slots : /\ work'[q].pc = "create" => work'[q] = work[q]
                         /\ work'[q].pc = "pay" => work'[q] = work[q]
                         /\ failures' = 0 /\ work[q].pc = "pay" => work'[q] = work[q]
    BY DEF Turns
  <2>3. Single'
    BY <1>1, <2>1, <2>2 DEF Single, I!Active, I!At
  <2>4. \A s \in I!Chats : failures' = 0 => (Paying(s)' <=> Paying(s))
    BY <2>2 DEF Paying, I!At
  <2>5. \A q \in Slots : Billing(q)'
    <3> TAKE q \in Slots
    <3>1. Billing(q) /\ Turns(q)
      BY <2>1 DEF Billed
    <3> QED BY <1>1, <1>2, <3>1 DEF Turns, Billing, I!At
  <2>6. Billed'
    BY <1>1, <2>1, <2>4, <2>5 DEF Billed
  <2>7. Ledger'
    <3>1. \A u \in Users : I!ChatsOf(u)' = I!ChatsOf(u)
      BY <1>1 DEF I!ChatsOf
    <3> QED BY <2>1, <3>1 DEF Ledger
  <2>8. Once'
    <3>1. \A u \in Users : Kept(u)' <=> Kept(u)
      BY <1>1 DEF Kept
    <3>2. \A u \in Users, s \in I!Chats : Free(s, u)' <=> Free(s, u)
      BY <1>1 DEF Free
    <3> QED BY <1>1, <2>1, <2>2, <2>4, <3>1, <3>2 DEF Once, I!At
  <2> QED BY <2>3, <2>6, <2>7, <2>8
<1>7. AiOne' => AiOne
  BY DEF AiOne
<1> QED BY <1>4, <1>6, <1>7 DEF AInv

LEMMA AiStays ==
  ASSUME AiBounds, AInv, AiTypes', \A s \in I!Chats : SameChat(chat[s], chat'[s]),
         UNCHANGED <<cash, used, paid, greetings>>, listed' => listed, failures' = 0
             => failures = 0,
         \A q \in Slots : Turns(q)
  PROVE  AInv'
<1>1. Greeted'
  BY DEF AInv, Greeted, SameChat
<1>2. \A s \in I!Chats : SameBill(chat[s], chat'[s])
  BY DEF SameChat
<1> QED BY <1>1, <1>2, AiKeeps

LEMMA SameIsSame == \A s \in I!Chats : SameChat(chat[s], chat[s])
BY DEF SameChat, SameBill

\* The kinds of handlers, from their fields.
LEMMA NewReads ==
  ASSUME NEW s \in I!Chats, NEW c \in {0, Rate}, NEW n \in Nat
  PROVE  LET h == [pc |-> "user", s |-> s, rate |-> c, length |-> n] IN
           h \in AiWorks /\ h.pc = "user" /\ h.s = s /\ h.rate = c
BY DEF AiWorks, Reads
LEMMA NewGreets ==
  ASSUME NEW s \in I!Chats, NEW b \in BOOLEAN
  PROVE  LET h == [pc |-> "greet", s |-> s, greeted |-> b] IN
           h \in AiWorks /\ h.pc = "greet" /\ h.s = s
BY DEF AiWorks, Greets

\* Memory and the profile.
LEMMA MemoryStep ==
  ASSUME AiBounds, AInv,
         \/ \E k \in Sockets : I!Disconnect(k) \/ \E s \in I!Chats : I!Join(k, s)
         \/ I!Unlist
  PROVE  AInv'
<1>1. /\ UNCHANGED <<chat, cash, used, paid, greetings, answering, failures, work>>
      /\ listed' \in BOOLEAN /\ (listed' => listed)
  <2>1. UNCHANGED <<chat, cash, used, paid, greetings, answering, failures, work>>
    BY DEF I!Disconnect, I!Join, I!Unlist
  <2>2. listed \in BOOLEAN
    BY DEF AInv, AiTypes
  <2>3. CASE I!Unlist
    <3>1. listed' \in BOOLEAN /\ (listed' => listed)
      BY <2>3 DEF I!Unlist
    <3> QED BY <2>1, <3>1, Zenon
  <2>4. CASE ~I!Unlist
    <3>1. listed' = listed
      BY <2>4 DEF I!Disconnect, I!Join
    <3> QED BY <2>1, <2>2, <3>1, Zenon
  <2> QED BY <2>3, <2>4, Zenon
<1>2. AiTypes'
  BY <1>1 DEF I!Disconnect, I!Join, I!Unlist, AInv, AiTypes
<1> QED BY <1>1, <1>2, SameIsSame, AiStays DEF Turns

LEMMA RestartStep ==
  ASSUME AiBounds, AInv, I!Restart \/ \E r \in Slots : I!Fails(r)
  PROVE  AInv'
<1>1. /\ UNCHANGED <<chat, cash, used, listed, paid, greetings>> /\ failures' = failures + 1
      /\ failures \in 0..MaxFailures /\ failures' \in 0..MaxFailures /\ failures' # 0
  BY DEF I!Restart, I!Fails, AInv, AiTypes, AiBounds
<1>2. \A q \in Slots : work'[q] = work[q] \/ work'[q] = I!Idle
  BY DEF I!Restart, I!Fails, I!Finish, AInv, AiTypes
<1>3. work' \in [Slots -> AiWorks]
  BY DEF I!Restart, I!Fails, I!Finish, AInv, AiTypes, AiWorks
<1>4. AiTypes'
  BY <1>1, <1>3 DEF I!Restart, I!Fails, AInv, AiTypes
<1> QED BY <1>1, <1>2, <1>4, SameIsSame, AiStays DEF Turns, I!Idle

LEMMA SettleStep ==
  ASSUME AiBounds, AInv, NEW r \in Slots, NEW s \in I!Chats,
         \/ I!EndByRest(r, s) \/ I!GraceOver(r, s) \/ I!TickerEnds(r, s) \/ I!Cleanup(r, s)
         \/ \E k \in Sockets : I!LeaveChat(r, k, s) \/ I!EndChat(r, k, s)
  PROVE  AInv'
<1>1. /\ UNCHANGED <<chat, cash, used, listed, paid, greetings, answering, failures>>
      /\ I!Settle(r, s)
  BY DEF I!EndByRest, I!GraceOver, I!TickerEnds, I!Cleanup, I!LeaveChat, I!EndChat
<1>2. work' \in [Slots -> AiWorks] /\ \A q \in Slots : Turns(q)
  <2>1. CASE I!Active(s)
    <3>1. chat[s].rate \in {0, Rate} /\ chat[s].length \in Nat
      BY DEF AInv, AiTypes, AiDocs
    <3> DEFINE h == [pc |-> "user", s |-> s, rate |-> chat[s].rate, length |-> chat[s].length]
    <3>2. I!Begin(r, h)
      BY <1>1, <2>1 DEF I!Settle
    <3>3. h \in AiWorks /\ h.pc = "user" /\ h.s = s /\ h.rate = chat[s].rate
      BY <3>1, NewReads
    <3> HIDE DEF h
    <3>4. work' = [work EXCEPT ![r] = h] /\ work[r].pc = "idle" /\ work \in [Slots -> AiWorks]
      BY <3>2 DEF I!Begin, I!At, AInv, AiTypes
    <3> QED BY <2>1, <3>3, <3>4 DEF Turns, I!Active
  <2>2. CASE ~I!Active(s)
    BY <1>1, <2>2 DEF I!Settle, Turns, AInv, AiTypes
  <2> QED BY <2>1, <2>2
<1>3. AiTypes'
  BY <1>1, <1>2 DEF I!EndByRest, I!GraceOver, I!TickerEnds, I!Cleanup, I!LeaveChat, I!EndChat,
       AInv, AiTypes
<1> QED BY <1>1, <1>2, <1>3, SameIsSame, AiStays

LEMMA LaterIs ==
  ASSUME AiBounds, AInv, NEW s \in I!Chats, I!Later(s)
  PROVE  chat' \in [I!Chats -> AiDocs] /\ \A t \in I!Chats : SameChat(chat[t], chat'[t])
<1>1. PICK n \in Lengths : chat' = [chat EXCEPT ![s].length = n]
  BY DEF I!Later
<1>2. n \in Nat /\ chat \in [I!Chats -> AiDocs]
  BY DEF AiBounds, AInv, AiTypes
<1> QED BY <1>1, <1>2, LengthChange, Zenon

LEMMA MessageStep ==
  ASSUME AiBounds, AInv, NEW r \in Slots, NEW s \in I!Chats,
         I!SendMessage(s) \/ I!Answer(s) \/ I!SendIntake(r, s)
  PROVE  AInv'
<1>1. /\ UNCHANGED <<cash, used, listed, joined, grace, ticking, paid, greetings, failures>>
      /\ I!Later(s)
  BY DEF I!SendMessage, I!Answer, I!SendIntake
<1>2. work' \in [Slots -> AiWorks] /\ \A q \in Slots : Turns(q)
  <2>1. CASE I!SendIntake(r, s)
    <3>1. chat[s].greeted \in BOOLEAN
      BY DEF AInv, AiTypes, AiDocs
    <3> DEFINE h == [pc |-> "greet", s |-> s, greeted |-> chat[s].greeted]
    <3>2. I!Begin(r, h) /\ chat[s].status = "active"
      BY <2>1 DEF I!SendIntake, I!Active
    <3>3. h \in AiWorks /\ h.pc = "greet" /\ h.s = s
      BY <3>1, NewGreets
    <3> HIDE DEF h
    <3>4. work' = [work EXCEPT ![r] = h] /\ work[r].pc = "idle" /\ work \in [Slots -> AiWorks]
      BY <3>2 DEF I!Begin, I!At, AInv, AiTypes
    <3> QED BY <3>2, <3>3, <3>4 DEF Turns
  <2>2. CASE I!SendMessage(s) \/ I!Answer(s)
    BY <2>2 DEF I!SendMessage, I!Answer, Turns, AInv, AiTypes
  <2> QED BY <2>1, <2>2
<1>3. answering' \subseteq I!Chats
  BY DEF I!SendMessage, I!Answer, I!SendIntake, AInv, AiTypes
<1>4. AiTypes'
  BY <1>1, <1>2, <1>3, LaterIs DEF AInv, AiTypes
<1> QED BY <1>1, <1>2, <1>4, LaterIs, AiStays

----------------
\* What the other handlers leave alone.
Alone(r) == \A q \in Slots \ {r} : work'[q] = work[q]

LEMMA Starting ==
  ASSUME AiBounds, AInv, NEW r \in Slots, NEW u \in Users, I!StartSession(r, u)
  PROVE  AInv'
<1> DEFINE free == FreeFirst /\ u \notin used
           c == IF free THEN 0 ELSE Rate
           h == [pc |-> "create", u |-> u, rate |-> c]
<1>1. UNCHANGED <<chat, cash, used, listed, joined, grace, ticking, answering, paid, greetings,
        failures>>
  BY DEF I!StartSession
<1>2. listed /\ ~I!Busy(u) /\ I!Begin(r, h)
  BY Zenon DEF I!StartSession
<1>3. c \in {0, Rate} /\ (c = 0 => u \notin used)
  BY DEF AiBounds
<1> HIDE DEF c
<1>4. h \in AiWorks /\ h.pc = "create" /\ h.u = u /\ h.rate = c
  BY <1>3 DEF AiWorks, Creates
<1> HIDE DEF h
<1>5. /\ work' \in [Slots -> AiWorks] /\ work'[r] = h /\ work[r].pc = "idle" /\ Alone(r)
  BY <1>2, <1>4 DEF I!Begin, I!At, AInv, AiTypes, Alone
<1>6. AiTypes'
  BY <1>1, <1>5 DEF AInv, AiTypes
<1>7. Owned'
  <2>1. \A q \in Slots : Known(q)'
    BY <1>1, <1>4, <1>5 DEF AInv, Owned, Known, Alone
  <2> QED BY <1>1, <2>1 DEF AInv, Owned
<1>8. Greeted'
  BY <1>1 DEF AInv, Greeted
<1>9. ASSUME AiOne
      PROVE  (Single /\ Billed /\ Ledger /\ Once)'
  <2>1. Single /\ Billed /\ Ledger /\ Once
    BY <1>9 DEF AInv
  <2>2. \A q \in Slots : q = r
    BY <1>9 DEF AiOne
  <2>3. \A s \in I!Chats : ~Paying(s) /\ ~Paying(s)'
    BY <1>4, <1>5, <2>2 DEF Paying, I!At
  <2>4. \A s \in I!Chats : chat[s].user = u => chat[s].status # "active"
    BY <1>2 DEF I!Busy, I!ChatsOf, I!Active
  <2>5. Single'
    BY <1>1, <1>4, <1>5, <2>1, <2>2, <2>4 DEF Single, I!Active, I!At
  <2>6. Billed'
    BY <1>1, <1>4, <1>5, <2>1, <2>2, <2>3 DEF Billed, Billing
  <2>7. Ledger'
    BY <1>1, <2>1 DEF Ledger, I!ChatsOf
  <2>8. Once'
    BY <1>1, <1>3, <1>4, <1>5, <2>1, <2>2, <2>3, <2>4 DEF Once, Kept, Free, I!At
  <2> QED BY <2>5, <2>6, <2>7, <2>8
<1>10. AiOne' => AiOne
  BY DEF AiOne
<1> QED BY <1>6, <1>7, <1>8, <1>9, <1>10 DEF AInv

\* What a chat and the handler in slot r become, when the others are left alone.
Becomes(s, d) == chat' = [chat EXCEPT ![s] = d]
LEMMA ChatOne ==
  ASSUME AInv, NEW s \in I!Chats, NEW d \in AiDocs, Becomes(s, d)
  PROVE  chat' \in [I!Chats -> AiDocs] /\ chat'[s] = d
           /\ \A t \in I!Chats \ {s} : chat'[t] = chat[t]
BY DEF AInv, AiTypes, Becomes

LEMMA FinishOne ==
  ASSUME AInv, NEW r \in Slots, I!Finish(r)
  PROVE  work' \in [Slots -> AiWorks] /\ work'[r].pc = "idle" /\ Alone(r)
BY DEF AInv, AiTypes, I!Finish, I!Idle, AiWorks, Alone

LEMMA Deleting ==
  ASSUME AiBounds, AInv, NEW s \in I!Chats, I!DeleteSession(s)
  PROVE  AInv'
<1>1. /\ UNCHANGED <<cash, used, listed, joined, grace, ticking, answering, paid, greetings,
          failures, work>>
      /\ chat[s].status \notin {"none", "erased"}
           /\ Becomes(s, [chat[s] EXCEPT !.status = "erased"])
  BY DEF I!DeleteSession, I!Gone, Becomes
<1> DEFINE d == [chat[s] EXCEPT !.status = "erased"]
<1>2. /\ d \in AiDocs /\ d.status = "erased" /\ d.user = chat[s].user /\ d.rate = chat[s].rate
      /\ d.cost = chat[s].cost /\ d.greeted = chat[s].greeted
  BY StatusChange DEF AInv, AiTypes
<1> HIDE DEF d
<1>3. chat' \in [I!Chats -> AiDocs] /\ chat'[s] = d /\ \A t \in I!Chats \ {s} : chat'[t] = chat[t]
  BY <1>1, <1>2, ChatOne DEF d
<1>4. AiTypes'
  BY <1>1, <1>3 DEF AInv, AiTypes
<1>5. \A t \in I!Chats : /\ chat'[t].user = chat[t].user /\ chat'[t].rate = chat[t].rate
                      /\ chat'[t].cost = chat[t].cost /\ chat'[t].greeted = chat[t].greeted
                      /\ chat'[t].status = (IF t = s THEN "erased" ELSE chat[t].status)
  BY <1>2, <1>3
<1>6. Owned'
  <2>1. \A q \in Slots : ~I!At(q, "idle") => (work[q].pc # "create" => work[q].s \in I!Chats)
    BY WorkKinds DEF AInv, AiTypes, AiWorks, I!At, I!Idle, Creates, Greets, Reads, Closes, Bills
  <2>2. \A q \in Slots : Known(q)'
    BY <1>1, <1>5, <2>1 DEF AInv, Owned, Known, I!At
  <2> QED BY <1>1, <1>5, <2>2 DEF AInv, Owned
<1>7. Greeted'
  BY <1>1, <1>5 DEF AInv, Greeted
<1>8. ASSUME AiOne
      PROVE  (Single /\ Billed /\ Ledger /\ Once)'
  <2>1. Single /\ Billed /\ Ledger /\ Once
    BY <1>8 DEF AInv
  <2>2. Single'
    BY <1>1, <1>5, <2>1 DEF Single, I!Active, I!At
  <2>3. Billed'
    <3>1. \A q \in Slots : ~I!At(q, "idle") => (work[q].pc # "create" => work[q].s \in I!Chats)
      BY WorkKinds DEF AInv, AiTypes, AiWorks, I!At, I!Idle, Creates, Greets, Reads, Closes, Bills
    <3>2. \A q \in Slots : Billing(q)'
      BY <1>1, <1>5, <2>1, <3>1 DEF Billed, Billing, I!At
    <3>3. \A t \in I!Chats : Paying(t)' <=> Paying(t)
      BY <1>1 DEF Paying, I!At
    <3> QED BY <1>1, <1>5, <2>1, <3>2, <3>3 DEF Billed
  <2>4. Ledger'
    <3>1. \A u \in Users : I!ChatsOf(u)' = I!ChatsOf(u)
      BY <1>5 DEF I!ChatsOf
    <3> QED BY <1>1, <2>1, <3>1 DEF Ledger
  <2>5. Once'
    <3>1. \A u \in Users : Kept(u)' => Kept(u) /\ chat[s].user # u
      BY <1>5 DEF Kept
    <3>2. \A u \in Users, t \in I!Chats : Free(t, u)' <=> Free(t, u)
      BY <1>5 DEF Free
    <3>3. \A t \in I!Chats : Paying(t)' <=> Paying(t)
      BY <1>1 DEF Paying, I!At
    <3>4. \A u \in Users, t \in I!Chats : Free(t, u)
            /\ chat[s].user # u => chat'[t].status = chat[t].status
      BY <1>5 DEF Free
    <3> QED BY <1>1, <2>1, <3>1, <3>2, <3>3, <3>4 DEF Once, I!At
  <2> QED BY <2>2, <2>3, <2>4, <2>5
<1>9. AiOne' => AiOne
  BY DEF AiOne
<1> QED BY <1>4, <1>6, <1>7, <1>8, <1>9 DEF AInv

LEMMA Creating ==
  ASSUME AiBounds, AInv, NEW r \in Slots, I!Create(r)
  PROVE  AInv'
<1> DEFINE u == work[r].u
           c == work[r].rate
<1>1. PICK s \in I!Chats : chat[s] = I!NoChat
        /\ chat' = [chat EXCEPT ![s] = Created(u, c)]
  BY Zenon DEF I!Create, Created
<1>2. /\ UNCHANGED <<cash, used, listed, joined, grace, ticking, answering, paid, greetings,
          failures>>
      /\ work[r].pc = "create" /\ I!Finish(r)
  BY DEF I!Create, I!At
<1>3. u \in Users /\ c \in {0, Rate}
  BY <1>2, WorkKinds DEF AInv, I!At, Creates
<1> DEFINE d == Created(u, c)
<1>4. d \in AiDocs /\ d.status = "active" /\ d.user = u /\ d.rate = c /\ d.cost = 0 /\ ~d.greeted
  BY <1>3, NewChat
<1>5. Becomes(s, d)
  BY <1>1 DEF Becomes
<1> HIDE DEF d
<1>6. chat' \in [I!Chats -> AiDocs] /\ chat'[s] = d /\ \A t \in I!Chats \ {s} : chat'[t] = chat[t]
  BY <1>4, <1>5, ChatOne
<1>7. work' \in [Slots -> AiWorks] /\ work'[r].pc = "idle" /\ Alone(r)
  BY <1>2, FinishOne
<1>8. AiTypes'
  BY <1>2, <1>6, <1>7 DEF AInv, AiTypes
<1>9. chat[s].status = "none" /\ chat[s].rate = 0 /\ chat[s].cost = 0 /\ ~chat[s].greeted
        /\ chat[s].user = None
  BY <1>1 DEF I!NoChat
<1>10. /\ chat'[s].user = u /\ chat'[s].status = "active" /\ chat'[s].rate = c
       /\ chat'[s].cost = 0 /\ ~chat'[s].greeted
       /\ \A t \in I!Chats : t # s => chat'[t] = chat[t]
  BY <1>4, <1>6
<1>11. Owned'
  <2>1. \A q \in Slots : ~I!At(q, "idle") => (work[q].pc # "create" => work[q].s \in I!Chats)
    BY WorkKinds DEF AInv, AiTypes, AiWorks, I!At, I!Idle, Creates, Greets, Reads, Closes, Bills
  <2>2. \A q \in Slots : Known(q)'
    <3> TAKE q \in Slots
    <3>1. CASE q = r
      BY <1>7, <3>1 DEF Known
    <3>2. CASE q # r
      <4>1. Known(q) /\ work'[q] = work[q]
        BY <1>7, <3>2 DEF AInv, Owned, Alone
      <4>2. work[q].pc \in {"greet", "user", "close", "end", "pay"} =>
              work[q].s \in I!Chats /\ work[q].s # s
        BY <1>9, <2>1, <4>1 DEF Known, I!At
      <4> QED BY <1>2, <1>10, <4>1, <4>2 DEF Known
    <3> QED BY <3>1, <3>2
  <2> QED BY <1>3, <1>10, <2>2 DEF AInv, Owned
<1>12. Greeted'
  BY <1>2, <1>9, <1>10 DEF AInv, Greeted
<1>13. ASSUME AiOne
       PROVE  (Single /\ Billed /\ Ledger /\ Once)'
  <2>1. Single /\ Billed /\ Ledger /\ Once
    BY <1>13 DEF AInv
  <2>2. \A q \in Slots : work'[q].pc = "idle" /\ q = r
    BY <1>7, <1>13 DEF AiOne
  <2>3. \A t \in I!Chats : ~Paying(t) /\ ~Paying(t)'
    BY <1>2, <2>2 DEF Paying, I!At
  <2>4. Single'
    <3>1. \A t \in I!Chats : chat[t].status = "active" => chat[t].user # u
      BY <1>2, <2>1 DEF Single, I!Active, I!At
    <3> QED BY <1>10, <2>1, <2>2, <3>1 DEF Single, I!Active, I!At
  <2>5. Billed'
    BY <1>2, <1>9, <1>10, <2>1, <2>2, <2>3 DEF Billed, Billing
  <2>6. Ledger'
    <3> SUFFICES ASSUME NEW w \in Users
                 PROVE  (cash[w] + SumFunctionOnSet(paid, I!ChatsOf(w)) = Opening)'
      BY DEF Ledger
    <3> DEFINE S == I!ChatsOf(w)
    <3>1. paid' = paid /\ cash' = cash /\ paid[s] = 0
            /\ cash[w] + SumFunctionOnSet(paid, S) = Opening
      BY <1>2, <1>9, <2>1 DEF Billed, Ledger
    <3>2. I!ChatsOf(w)' = IF w = u THEN S \cup {s} ELSE S
      BY <1>10, <1>9 DEF I!ChatsOf, AiBounds
    <3>3. CASE w # u
      BY <3>1, <3>2, <3>3
    <3>4. CASE w = u
      <4> DEFINE T == S \cup {s}
      <4>1. s \notin S /\ T \ {s} = S
        BY <1>9 DEF I!ChatsOf, AiBounds
      <4>2. IsFiniteSet(T)
        <5>1. T \subseteq 1..MaxChats
          BY DEF I!ChatsOf, I!Chats
        <5>2. IsFiniteSet(1..MaxChats)
          BY FS_Interval DEF AiBounds
        <5> QED BY <5>1, <5>2, FS_Subset, Zenon
      <4>3. IntegerOn(paid, T)
        BY DEF IntegerOn, AInv, AiTypes, I!ChatsOf
      <4>4. SumFunctionOnSet(paid, T) = paid[s] + SumFunctionOnSet(paid, T \ {s})
              /\ SumFunctionOnSet(paid, T) \in Int
        BY <4>2, <4>3, SumSplit
      <4>5. IntegerOn(paid, S) /\ IsFiniteSet(S)
        BY <4>2, <4>3, FS_Subset DEF IntegerOn
      <4>6. SumFunctionOnSet(paid, S) \in Int
        BY <4>5, SumSplit
      <4>7. SumFunctionOnSet(paid, T) = SumFunctionOnSet(paid, S)
        BY <3>1, <4>1, <4>4, <4>6
      <4> QED BY <3>1, <3>2, <3>4, <4>7
    <3> QED BY <3>3, <3>4
  <2>7. Once'
    <3>1. \A w \in Users : Kept(w)' => Kept(w)
      <4> SUFFICES ASSUME NEW w \in Users, Kept(w)', NEW t \in I!Chats, chat[t].user = w
                   PROVE  chat[t].status # "erased"
        BY DEF Kept
      <4> QED BY <1>9, <1>10 DEF Kept
    <3>2. \A w \in Users, t \in I!Chats : Free(t, w)' => (t # s /\ Free(t, w)) \/ (t = s /\ w = u
            /\ c = 0)
      BY <1>10 DEF Free
    <3>3. failures = 0 /\ listed /\ Kept(u) /\ c = 0 => \A t \in I!Chats : ~Free(t, u)
      BY <1>2, <1>3, <2>1 DEF Once, I!At
    <3>4. \A w \in Users, t \in I!Chats : t # s => chat'[t].status = chat[t].status
      BY <1>10
    <3> QED
      <4> SUFFICES ASSUME failures = 0, listed, NEW w \in Users, Kept(w)'
                   PROVE  /\ \A x, y \in I!Chats : Free(x, w)' /\ Free(y, w)' => x = y
                          /\ \A x \in I!Chats : Free(x, w)' => chat'[x].status = "active"
                               \/ w \in used
        BY <1>2, <2>2 DEF Once, I!At
      <4>1. Kept(w)
        BY <3>1
      <4>2. /\ \A x, y \in I!Chats : Free(x, w) /\ Free(y, w) => x = y
            /\ \A x \in I!Chats : Free(x, w) => chat[x].status = "active" \/ w \in used
        BY <2>1, <2>3, <4>1 DEF Once
      <4> QED BY <1>10, <3>2, <3>3, <3>4, <4>1, <4>2
  <2> QED BY <2>4, <2>5, <2>6, <2>7
<1>14. AiOne' => AiOne
  BY DEF AiOne
<1> QED BY <1>8, <1>11, <1>12, <1>13, <1>14 DEF AInv

LEMMA Greeting ==
  ASSUME AiBounds, AInv, NEW r \in Slots, I!MarkGreeting(r)
  PROVE  AInv'
<1> DEFINE s == work[r].s
<1>1. /\ UNCHANGED <<cash, used, listed, joined, grace, ticking, paid, failures>>
      /\ work[r].pc = "greet" /\ I!Finish(r)
  BY DEF I!MarkGreeting, I!At
<1>2. s \in I!Chats
  BY <1>1, WorkKinds DEF AInv, I!At, Greets
<1>3. work' \in [Slots -> AiWorks] /\ \A q \in Slots : Turns(q)
  BY <1>1, FinishOne DEF Turns, Alone
<1> HIDE DEF s
<1>4. CASE UNCHANGED <<chat, greetings, answering>>
  <2>1. AiTypes'
    BY <1>1, <1>3, <1>4 DEF AInv, AiTypes
  <2> QED BY <1>1, <1>3, <1>4, <2>1, SameIsSame, AiStays
<1>5. CASE ~chat[s].greeted /\ I!Greet(s)
  <2> DEFINE d == [chat[s] EXCEPT !.greeted = TRUE]
  <2>1. /\ d \in AiDocs /\ d.status = chat[s].status /\ d.user = chat[s].user
        /\ d.rate = chat[s].rate /\ d.cost = chat[s].cost /\ d.greeted
    BY <1>2, GreetedChange DEF AInv, AiTypes
  <2>2. /\ Becomes(s, d) /\ greetings' = [greetings EXCEPT ![s] = greetings[s] + 1]
        /\ answering' = answering \cup {s}
    BY <1>5 DEF I!Greet, Becomes
  <2> HIDE DEF d
  <2>3. chat' \in [I!Chats -> AiDocs] /\ chat'[s] = d /\ \A t \in I!Chats \ {s} : chat'[t] = chat[t]
    BY <1>2, <2>1, <2>2, ChatOne
  <2>4. AiTypes'
    <3>1. greetings' \in [I!Chats -> Nat] /\ answering' \subseteq I!Chats
      BY <1>2, <2>2 DEF AInv, AiTypes
    <3> QED BY <1>1, <1>3, <2>3, <3>1 DEF AInv, AiTypes
  <2>5. Greeted'
    BY <1>2, <1>5, <2>1, <2>2, <2>3 DEF AInv, AiTypes, Greeted
  <2>6. \A t \in I!Chats : SameBill(chat[t], chat'[t])
    BY <2>1, <2>3 DEF SameBill
  <2> QED BY <1>1, <1>3, <2>4, <2>5, <2>6, AiKeeps
<1> QED BY <1>4, <1>5, Zenon DEF I!MarkGreeting, s

LEMMA Reading ==
  ASSUME AiBounds, AInv, NEW r \in Slots, I!ReadUser(r)
  PROVE  AInv'
<1> DEFINE h == work[r]
           s == h.s
           u == chat[s].user
<1>1. /\ UNCHANGED <<chat, cash, used, listed, joined, grace, ticking, answering, paid, greetings,
          failures>>
      /\ h.pc = "user"
  BY DEF I!ReadUser, I!At
<1>2. h \in Reads
  BY <1>1, WorkKinds DEF AInv, I!At
<1>3. s \in I!Chats /\ h.rate \in {0, Rate} /\ h.length \in Nat
  BY <1>2 DEF Reads
<1>4. h.rate = chat[s].rate /\ chat[s].status # "none" /\ u \in Users
  <2>1. Known(r) /\ (chat[s].status # "none" <=> u \in Users)
    BY <1>3 DEF AInv, Owned
  <2> QED BY <1>1, <2>1 DEF Known
<1> DEFINE b == cash[u]
           x == I!Cost(h.rate, h.length, b)
           k == [pc |-> "end", s |-> s, u |-> u, rate |-> h.rate, balance |-> b, cost |-> x]
<1>5. b \in Nat
  BY <1>4 DEF AInv, AiTypes
<1>6. x \in Nat /\ x <= b
  BY <1>3, <1>5, CostWithin
<1>7. \E g \in AiWorks :
        /\ work' = [work EXCEPT ![r] = g]
        /\ \/ g.pc = "idle"
           \/ g.pc = "close" /\ g.s = s /\ ~listed
           \/ /\ g.pc = "end" /\ g.s = s /\ g.u = u /\ g.rate = h.rate /\ g.balance = b
              /\ g.cost <= b
  <2>1. CASE I!Gone(s)
    <3>1. I!Finish(r)
      BY <2>1, Zenon DEF I!ReadUser
    <3>2. I!Idle \in AiWorks /\ I!Idle.pc = "idle"
      BY DEF I!Idle, AiWorks
    <3> QED BY <3>1, <3>2 DEF I!Finish
  <2>2. CASE ~I!Gone(s) /\ ~listed
    <3>1. work' = [work EXCEPT ![r] = [pc |-> "close", s |-> s]]
      BY <2>2, Zenon DEF I!ReadUser
    <3>2. [pc |-> "close", s |-> s] \in AiWorks
      BY <1>3 DEF AiWorks, Closes
    <3> QED BY <2>2, <3>1, <3>2
  <2>3. CASE ~I!Gone(s) /\ listed
    <3>1. work' = [work EXCEPT ![r] = k]
      BY <2>3, Zenon DEF I!ReadUser
    <3> HIDE DEF x, b, u, s, h
    <3>2. k \in AiWorks
      BY <1>3, <1>4, <1>5, <1>6 DEF AiWorks, Bills
    <3> QED BY <1>6, <3>1, <3>2
  <2> QED BY <2>1, <2>2, <2>3
<1>8. PICK g \in AiWorks :
        /\ work' = [work EXCEPT ![r] = g]
        /\ \/ g.pc = "idle"
           \/ g.pc = "close" /\ g.s = s /\ ~listed
           \/ /\ g.pc = "end" /\ g.s = s /\ g.u = u /\ g.rate = h.rate /\ g.balance = b
              /\ g.cost <= b
  BY <1>7
<1>9. work' \in [Slots -> AiWorks] /\ work'[r] = g /\ Alone(r)
  BY <1>8 DEF AInv, AiTypes, Alone
<1>10. AiTypes'
  BY <1>1, <1>9 DEF AInv, AiTypes
<1>11. Owned'
  <2>1. \A q \in Slots \ {r} : Known(q)'
    BY <1>1, <1>9 DEF AInv, Owned, Known, Alone
  <2>2. Known(r)'
    BY <1>1, <1>4, <1>8, <1>9 DEF Known
  <2> QED BY <1>1, <2>1, <2>2 DEF AInv, Owned
<1>12. Greeted'
  BY <1>1 DEF AInv, Greeted
<1>13. ASSUME AiOne
       PROVE  (Single /\ Billed /\ Ledger /\ Once)'
  <2>1. Single /\ Billed /\ Ledger /\ Once
    BY <1>13 DEF AInv
  <2>2. \A q \in Slots : q = r
    BY <1>13 DEF AiOne
  <2>3. \A t \in I!Chats : ~Paying(t) /\ ~Paying(t)'
    BY <1>1, <1>8, <1>9, <2>2 DEF Paying, I!At
  <2>4. Single'
    BY <1>1, <1>8, <1>9, <2>1, <2>2 DEF Single, I!Active, I!At
  <2>5. Billing(r)'
    BY <1>1, <1>8, <1>9, <2>1 DEF Billed, Billing
  <2>6. Billed'
    BY <1>1, <2>1, <2>2, <2>3, <2>5 DEF Billed
  <2>7. Ledger'
    BY <1>1, <2>1 DEF Ledger, I!ChatsOf
  <2>8. Once'
    BY <1>1, <1>8, <1>9, <2>1, <2>2, <2>3 DEF Once, Kept, Free, I!At
  <2> QED BY <2>4, <2>6, <2>7, <2>8
<1>14. AiOne' => AiOne
  BY DEF AiOne
<1> QED BY <1>10, <1>11, <1>12, <1>13, <1>14 DEF AInv

LEMMA Closing ==
  ASSUME AiBounds, AInv, NEW r \in Slots, I!Close(r)
  PROVE  AInv'
<1> DEFINE s == work[r].s
           d == IF I!Gone(s) THEN chat[s] ELSE [chat[s] EXCEPT !.status = "ended"]
<1>1. /\ UNCHANGED <<cash, used, listed, joined, grace, ticking, answering, paid, greetings,
          failures>>
      /\ work[r].pc = "close" /\ I!Finish(r) /\ Becomes(s, d)
  BY DEF I!Close, I!At, Becomes
<1>2. s \in I!Chats
  BY <1>1, WorkKinds DEF AInv, I!At, Closes
<1>3. /\ d \in AiDocs /\ d.user = chat[s].user /\ d.rate = chat[s].rate /\ d.cost = chat[s].cost
      /\ d.greeted = chat[s].greeted
      /\ d.status = IF chat[s].status \in {"none", "erased"} THEN chat[s].status ELSE "ended"
  <2>1. chat[s] \in AiDocs
    BY <1>2 DEF AInv, AiTypes
  <2>2. CASE I!Gone(s)
    BY <2>1, <2>2 DEF I!Gone
  <2>3. CASE ~I!Gone(s)
    <3> DEFINE e == [chat[s] EXCEPT !.status = "ended"]
    <3>1. /\ e \in AiDocs /\ e.status = "ended" /\ e.user = chat[s].user /\ e.rate = chat[s].rate
          /\ e.cost = chat[s].cost /\ e.greeted = chat[s].greeted
      BY <2>1, StatusChange
    <3>2. d = e
      BY <2>3
    <3> HIDE DEF d, e
    <3> QED BY <2>3, <3>1, <3>2 DEF I!Gone
  <2> QED BY <2>2, <2>3
<1>4. Known(r) /\ ~listed /\ chat[s].status # "none"
  BY <1>1 DEF AInv, Owned, Known
<1> HIDE DEF d, s
<1>5. chat' \in [I!Chats -> AiDocs] /\ chat'[s] = d /\ \A t \in I!Chats \ {s} : chat'[t] = chat[t]
  BY <1>1, <1>2, <1>3, ChatOne
<1>6. work' \in [Slots -> AiWorks] /\ work'[r].pc = "idle" /\ Alone(r)
  BY <1>1, FinishOne
<1>7. AiTypes'
  BY <1>1, <1>5, <1>6 DEF AInv, AiTypes
<1>8. \A t \in I!Chats :
        /\ chat'[t].user = chat[t].user /\ chat'[t].rate = chat[t].rate
        /\ chat'[t].cost = chat[t].cost /\ chat'[t].greeted = chat[t].greeted
        /\ chat'[t].status = chat[t].status
             \/ (t = s /\ chat'[t].status = "ended" /\ chat[t].status # "none")
  BY <1>3, <1>4, <1>5
<1>9. Owned'
  <2>1. \A q \in Slots : ~I!At(q, "idle") => (work[q].pc # "create" => work[q].s \in I!Chats)
    BY WorkKinds DEF AInv, AiTypes, AiWorks, I!At, I!Idle, Creates, Greets, Reads, Closes, Bills
  <2>2. \A q \in Slots : Known(q)'
    BY <1>1, <1>6, <1>8, <2>1 DEF AInv, Owned, Known, I!At, Alone
  <2> QED BY <1>8, <2>2 DEF AInv, Owned
<1>10. Greeted'
  BY <1>1, <1>8 DEF AInv, Greeted
<1>11. ASSUME AiOne
       PROVE  (Single /\ Billed /\ Ledger /\ Once)'
  <2>1. Single /\ Billed /\ Ledger /\ Once
    BY <1>11 DEF AInv
  <2>2. \A q \in Slots : q = r /\ work'[q].pc = "idle"
    BY <1>6, <1>11 DEF AiOne
  <2>3. \A t \in I!Chats : ~Paying(t) /\ ~Paying(t)'
    BY <1>1, <2>2 DEF Paying, I!At
  <2>4. Single'
    BY <1>8, <2>1, <2>2 DEF Single, I!Active, I!At
  <2>5. chat[s].status \in {"active", "erased"}
    BY <1>1, <2>1 DEF Billed, Billing, s
  <2>6. Billed'
    <3>1. \A q \in Slots : Billing(q)'
      BY <2>2 DEF Billing
    <3>2. \A t \in I!Chats :
            /\ chat[t].status \in {"none", "active"} => paid[t] = 0 /\ chat[t].cost = 0
            /\ failures = 0 /\ chat[t].status = "ended" => paid[t] = chat[t].cost
      BY <2>1, <2>3 DEF Billed
    <3>3. \A t \in I!Chats :
            /\ chat'[t].status \in {"none", "active"} => paid[t] = 0 /\ chat'[t].cost = 0
            /\ failures = 0 /\ chat'[t].status = "ended" => paid[t] = chat'[t].cost
      <4> SUFFICES ASSUME NEW t \in I!Chats
                   PROVE  /\ chat'[t].status \in {"none", "active"} => paid[t] = 0
                               /\ chat'[t].cost = 0
                          /\ failures = 0 /\ chat'[t].status = "ended" => paid[t] = chat'[t].cost
        OBVIOUS
      <4>1. CASE chat'[t].status = chat[t].status
        BY <1>8, <3>2, <4>1
      <4>2. CASE t = s /\ chat'[t].status = "ended" /\ chat'[t].status # chat[t].status
        <5>1. chat[t].status = "active"
          BY <1>3, <1>5, <2>5, <4>2
        <5> QED BY <1>8, <3>2, <4>2, <5>1
      <4> QED BY <1>8, <4>1, <4>2
    <3> QED BY <1>1, <3>1, <3>3 DEF Billed
  <2>7. Ledger'
    <3>1. \A u \in Users : I!ChatsOf(u)' = I!ChatsOf(u)
      BY <1>8 DEF I!ChatsOf
    <3> QED BY <1>1, <2>1, <3>1 DEF Ledger
  <2>8. Once'
    BY <1>1, <1>4 DEF Once
  <2> QED BY <2>4, <2>6, <2>7, <2>8
<1>12. AiOne' => AiOne
  BY DEF AiOne
<1> QED BY <1>7, <1>9, <1>10, <1>11, <1>12 DEF AInv

LEMMA Ending ==
  ASSUME AiBounds, AInv, NEW r \in Slots, I!SaveEnded(r)
  PROVE  AInv'
<1> DEFINE h == work[r]
           s == h.s
<1>1. /\ UNCHANGED <<cash, used, listed, joined, grace, ticking, answering, paid, greetings,
          failures>>
      /\ h.pc = "end"
  BY DEF I!SaveEnded, I!At
<1>2. h \in Bills
  BY <1>1, WorkKinds DEF AInv, I!At
<1>3. s \in I!Chats /\ h.cost \in Nat /\ h.rate \in {0, Rate} /\ h.u \in Users
  BY <1>2 DEF Bills
<1>4. h.rate = chat[s].rate /\ chat[s].status # "none" /\ h.u = chat[s].user /\ h.cost <= h.balance
  BY <1>1 DEF AInv, Owned, Known
<1>5. CASE I!Gone(s)
  <2>1. UNCHANGED chat /\ I!Finish(r)
    BY <1>5, Zenon DEF I!SaveEnded
  <2>2. work' \in [Slots -> AiWorks] /\ work'[r].pc = "idle" /\ Alone(r)
    BY <2>1, FinishOne
  <2>3. AiTypes'
    BY <1>1, <2>1, <2>2 DEF AInv, AiTypes
  <2>4. Owned'
    <3>1. \A q \in Slots : Known(q)'
      BY <1>1, <2>1, <2>2 DEF AInv, Owned, Known, Alone
    <3> QED BY <2>1, <3>1 DEF AInv, Owned
  <2>5. Greeted'
    BY <1>1, <2>1 DEF AInv, Greeted
  <2>6. ASSUME AiOne
        PROVE  (Single /\ Billed /\ Ledger /\ Once)'
    <3>1. Single /\ Billed /\ Ledger /\ Once
      BY <2>6 DEF AInv
    <3>2. \A q \in Slots : q = r /\ work'[q].pc = "idle"
      BY <2>2, <2>6 DEF AiOne
    <3>3. \A t \in I!Chats : ~Paying(t) /\ ~Paying(t)'
      BY <1>1, <3>2 DEF Paying, I!At
    <3>4. Single'
      BY <2>1, <3>1, <3>2 DEF Single, I!Active, I!At
    <3>5. Billed'
      BY <1>1, <2>1, <3>1, <3>2, <3>3 DEF Billed, Billing
    <3>6. Ledger'
      BY <1>1, <2>1, <3>1 DEF Ledger, I!ChatsOf
    <3>7. Once'
      BY <1>1, <2>1, <3>1, <3>2, <3>3 DEF Once, Kept, Free, I!At
    <3> QED BY <3>4, <3>5, <3>6, <3>7
  <2>7. AiOne' => AiOne
    BY DEF AiOne
  <2> QED BY <2>3, <2>4, <2>5, <2>6, <2>7 DEF AInv
<1>6. CASE ~I!Gone(s)
  <2> DEFINE d == [chat[s] EXCEPT !.status = "ended", !.cost = h.cost]
             k == [h EXCEPT !.pc = "pay"]
  <2>1. /\ d \in AiDocs /\ d.status = "ended" /\ d.user = chat[s].user /\ d.rate = chat[s].rate
        /\ d.cost = h.cost /\ d.greeted = chat[s].greeted
    BY <1>3, BillChange DEF AInv, AiTypes
  <2>2. Becomes(s, d)
    BY <1>6, Zenon DEF I!SaveEnded, Becomes
  <2>3. IF h.rate = 0 \/ h.cost > 0 THEN work' = [work EXCEPT ![r] = k] ELSE I!Finish(r)
    BY <1>6, Zenon DEF I!SaveEnded, I!Goto
  <2> HIDE DEF d
  <2>4. chat' \in [I!Chats -> AiDocs] /\ chat'[s] = d /\ \A t \in I!Chats \ {s} : chat'[t] = chat[t]
    BY <1>3, <2>1, <2>2, ChatOne
  <2>5. /\ k \in AiWorks /\ k.pc = "pay" /\ k.s = s /\ k.u = h.u /\ k.rate = h.rate
            /\ k.balance = h.balance
        /\ k.cost = h.cost
    <3>1. /\ k \in Bills /\ k.pc = "pay" /\ k.s = s /\ k.u = h.u /\ k.rate = h.rate
              /\ k.balance = h.balance
          /\ k.cost = h.cost
      BY <1>2, Zenon DEF Bills
    <3> QED BY <3>1 DEF AiWorks
  <2> HIDE DEF k
  <2>6. /\ work' \in [Slots -> AiWorks] /\ Alone(r)
        /\ \/ work'[r] = k /\ (h.rate = 0 \/ h.cost > 0)
           \/ work'[r].pc = "idle" /\ h.rate # 0 /\ h.cost = 0
    <3>1. CASE h.rate = 0 \/ h.cost > 0
      BY <2>3, <2>5, <3>1 DEF AInv, AiTypes, Alone
    <3>2. CASE ~(h.rate = 0 \/ h.cost > 0)
      BY <1>3, <2>3, <3>2, FinishOne
    <3> QED BY <3>1, <3>2
  <2>7. AiTypes'
    BY <1>1, <2>4, <2>6 DEF AInv, AiTypes
  <2>8. \A t \in I!Chats :
          /\ chat'[t].user = chat[t].user /\ chat'[t].rate = chat[t].rate
          /\ chat'[t].greeted = chat[t].greeted
          /\ t # s => chat'[t] = chat[t]
    BY <2>1, <2>4
  <2>9. chat'[s].status = "ended" /\ chat'[s].cost = h.cost
    BY <2>1, <2>4
  <2>10. Owned'
    <3>1. \A q \in Slots : ~I!At(q, "idle") => (work[q].pc # "create" => work[q].s \in I!Chats)
      BY WorkKinds DEF AInv, AiTypes, AiWorks, I!At, I!Idle, Creates, Greets, Reads, Closes, Bills
    <3>2. \A q \in Slots \ {r} : Known(q)'
      BY <1>1, <2>6, <2>8, <2>9, <3>1 DEF AInv, Owned, Known, I!At, Alone
    <3>3. Known(r)'
      BY <1>3, <1>4, <2>5, <2>6, <2>8, <2>9 DEF Known
    <3>4. \A t \in I!Chats : chat'[t].status # "none" <=> chat[t].status # "none"
      BY <1>4, <2>8, <2>9
    <3> QED BY <2>8, <3>2, <3>3, <3>4 DEF AInv, Owned
  <2>11. Greeted'
    BY <1>1, <2>8 DEF AInv, Greeted
  <2>12. ASSUME AiOne
         PROVE  (Single /\ Billed /\ Ledger /\ Once)'
    <3>1. Single /\ Billed /\ Ledger /\ Once
      BY <2>12 DEF AInv
    <3>2. \A q \in Slots : q = r
      BY <2>12 DEF AiOne
    <3>3. chat[s].status = "active" /\ paid[s] = 0 /\ h.balance = cash[h.u]
      BY <1>1, <1>3, <1>6, <3>1 DEF Billed, Billing, I!Gone
    <3>4. \A t \in I!Chats :
            /\ ~Paying(t)
            /\ Paying(t)' <=> t = s /\ (h.rate = 0 \/ h.cost > 0)
      BY <1>1, <1>3, <2>5, <2>6, <3>2 DEF Paying, I!At
    <3>5. Single'
      BY <2>5, <2>6, <2>8, <2>9, <3>1, <3>2 DEF Single, I!Active, I!At
    <3>6. Billing(r)'
      BY <1>1, <2>5, <2>6, <2>9, <3>3 DEF Billing
    <3>7. Billed'
      BY <1>1, <1>3, <2>8, <2>9, <3>1, <3>2, <3>3, <3>4, <3>6 DEF Billed
    <3>8. Ledger'
      <4>1. \A u \in Users : I!ChatsOf(u)' = I!ChatsOf(u)
        BY <2>8 DEF I!ChatsOf
      <4> QED BY <1>1, <3>1, <4>1 DEF Ledger
    <3>9. Once'
      <4>1. \A u \in Users : Kept(u)' => Kept(u)
        BY <1>6, <2>8 DEF Kept, I!Gone
      <4>2. \A u \in Users, t \in I!Chats : Free(t, u)' <=> Free(t, u)
        BY <2>8 DEF Free
      <4>3. \A u \in Users, t \in I!Chats : Free(t, u) /\ t = s => Paying(t)'
        BY <1>4, <3>4 DEF Free
      <4>4. \A q \in Slots : work'[q].pc # "create"
        BY <2>5, <2>6, <3>2
      <4> QED BY <1>1, <2>8, <3>1, <3>4, <4>1, <4>2, <4>3, <4>4 DEF Once, I!At
    <3> QED BY <3>5, <3>7, <3>8, <3>9
  <2>13. AiOne' => AiOne
    BY DEF AiOne
  <2> QED BY <2>7, <2>10, <2>11, <2>12, <2>13 DEF AInv
<1> QED BY <1>5, <1>6

LEMMA Paying1 ==
  ASSUME AiBounds, AInv, NEW r \in Slots, I!SaveUser(r)
  PROVE  AInv'
<1> DEFINE h == work[r]
           s == h.s
           u == h.u
<1>1. /\ UNCHANGED <<chat, listed, joined, grace, ticking, answering, greetings, failures>>
      /\ h.pc = "pay" /\ I!Finish(r)
      /\ used' = IF h.rate = 0 THEN used \cup {u} ELSE used
      /\ cash' = IF h.cost > 0 THEN [cash EXCEPT ![u] = h.balance - h.cost] ELSE cash
      /\ paid' = [paid EXCEPT ![s] = paid[s] + h.cost]
  BY Zenon DEF I!SaveUser, I!At
<1>2. h \in Bills
  BY <1>1, WorkKinds DEF AInv, I!At
<1>3. s \in I!Chats /\ h.cost \in Nat /\ h.balance \in Nat /\ h.rate \in {0, Rate} /\ u \in Users
  BY <1>2 DEF Bills
<1>4. h.rate = chat[s].rate /\ chat[s].status # "none" /\ u = chat[s].user /\ h.cost <= h.balance
  BY <1>1 DEF AInv, Owned, Known
<1> HIDE DEF h, s, u
<1>5. work' \in [Slots -> AiWorks] /\ work'[r].pc = "idle" /\ Alone(r)
  BY <1>1, FinishOne
<1>6. /\ cash' \in [Users -> Nat] /\ paid' \in [I!Chats -> Nat] /\ used' \subseteq Users
      /\ paid'[s] = paid[s] + h.cost /\ \A t \in I!Chats \ {s} : paid'[t] = paid[t]
      /\ \A w \in Users \ {u} : cash'[w] = cash[w]
      /\ cash'[u] = IF h.cost > 0 THEN h.balance - h.cost ELSE cash[u]
  BY <1>1, <1>3, <1>4 DEF AInv, AiTypes
<1>7. AiTypes'
  BY <1>1, <1>5, <1>6 DEF AInv, AiTypes
<1>8. Owned'
  <2>1. \A q \in Slots : Known(q)'
    BY <1>1, <1>5 DEF AInv, Owned, Known, Alone
  <2> QED BY <1>1, <2>1 DEF AInv, Owned
<1>9. Greeted'
  BY <1>1 DEF AInv, Greeted
<1>10. ASSUME AiOne
       PROVE  (Single /\ Billed /\ Ledger /\ Once)'
  <2>1. Single /\ Billed /\ Ledger /\ Once
    BY <1>10 DEF AInv
  <2>2. \A q \in Slots : q = r /\ work'[q].pc = "idle"
    BY <1>5, <1>10 DEF AiOne
  <2>3. \A t \in I!Chats : (Paying(t) => t = s) /\ ~Paying(t)'
    BY <2>2 DEF Paying, I!At, s, h
  <2>4. Single'
    BY <1>1, <2>1, <2>2 DEF Single, I!Active, I!At
  <2>5. Billed'
    <3>1. /\ chat[s].status \in {"ended", "erased"}
          /\ chat[s].status = "ended" => paid[s] = 0 /\ chat[s].cost = h.cost
      BY <1>1, <2>1 DEF Billed, Billing, h, s
    <3>2. \A q \in Slots : Billing(q)'
      BY <2>2 DEF Billing
    <3>3. \A t \in I!Chats \ {s} :
            /\ chat[t].status \in {"none", "active"} => paid'[t] = 0 /\ chat[t].cost = 0
            /\ failures = 0 /\ chat[t].status = "ended" => paid'[t] = chat[t].cost
      BY <1>6, <2>1, <2>3 DEF Billed
    <3>4. chat[s].status = "ended" => paid'[s] = chat[s].cost
      BY <1>3, <1>6, <3>1
    <3> QED BY <1>1, <3>1, <3>2, <3>3, <3>4 DEF Billed
  <2>6. Ledger'
    <3>1. h.balance = cash[u]
      BY <1>1, <2>1 DEF Billed, Billing, h, u
    <3>2. cash'[u] = cash[u] - h.cost
      BY <1>3, <1>6, <3>1
    <3>3. ASSUME NEW w \in Users
          PROVE  cash'[w] + SumFunctionOnSet(paid', I!ChatsOf(w)) = Opening
      <4> DEFINE S == I!ChatsOf(w)
      <4>1. cash[w] + SumFunctionOnSet(paid, S) = Opening /\ cash[w] \in Int
        BY <2>1 DEF Ledger, AInv, AiTypes
      <4>2. IsFiniteSet(S)
        <5>1. S \subseteq 1..MaxChats
          BY DEF I!ChatsOf, I!Chats
        <5>2. IsFiniteSet(1..MaxChats)
          BY FS_Interval DEF AiBounds
        <5> QED BY <5>1, <5>2, FS_Subset, Zenon
      <4>3. IntegerOn(paid, S) /\ IntegerOn(paid', S)
        BY <1>6 DEF IntegerOn, AInv, AiTypes, I!ChatsOf
      <4>4. S \subseteq I!Chats
        BY DEF I!ChatsOf
      <4>5. SumFunctionOnSet(paid, S) \in Int
        BY <4>2, <4>3, SumSplit
      <4>6. s \in S <=> w = u
        BY <1>3, <1>4 DEF I!ChatsOf
      <4> HIDE DEF S
      <4>7. CASE w = u
        <5>1. \A t \in S \ {s} : paid[t] = paid'[t]
          BY <1>6, <4>4
        <5>2. SumFunctionOnSet(paid', S) = SumFunctionOnSet(paid, S) + paid'[s] - paid[s]
          BY <4>2, <4>3, <4>6, <4>7, <5>1, SumChange
        <5>3. paid[s] \in Int
          BY <1>3 DEF AInv, AiTypes
        <5>4. SumFunctionOnSet(paid', S) = SumFunctionOnSet(paid, S) + h.cost
          BY <1>3, <1>6, <4>5, <5>2, <5>3
        <5> QED BY <1>3, <3>2, <4>1, <4>5, <4>7, <5>4 DEF S
      <4>8. CASE w # u
        <5>1. \A t \in S : paid[t] = paid'[t]
          BY <1>6, <4>4, <4>6, <4>8
        <5>2. SumFunctionOnSet(paid, S) = SumFunctionOnSet(paid', S)
          BY <4>2, <5>1, SumSame
        <5> QED BY <1>6, <4>1, <4>8, <5>2 DEF S
      <4> QED BY <4>7, <4>8
    <3>4. \A w \in Users : I!ChatsOf(w)' = I!ChatsOf(w)
      BY <1>1 DEF I!ChatsOf
    <3> QED BY <1>1, <3>3, <3>4 DEF Ledger
  <2>7. Once'
    <3>1. \A w \in Users : Kept(w)' <=> Kept(w)
      BY <1>1 DEF Kept
    <3>2. \A w \in Users, t \in I!Chats : Free(t, w)' <=> Free(t, w)
      BY <1>1 DEF Free
    <3>3. \A w \in Users : Free(s, w) => w \in used'
      BY <1>1, <1>3, <1>4 DEF Free
    <3>4. \A w \in Users : w \in used => w \in used'
      BY <1>1
    <3> QED BY <1>1, <2>1, <2>2, <2>3, <3>1, <3>2, <3>3, <3>4 DEF Once, I!At
  <2> QED BY <2>4, <2>5, <2>6, <2>7
<1>11. AiOne' => AiOne
  BY DEF AiOne
<1> QED BY <1>7, <1>8, <1>9, <1>10, <1>11 DEF AInv

LEMMA AiStarts == ASSUME AiBounds, I!Init PROVE AInv
<1>1. I!NoChat \in AiDocs /\ I!NoChat.status = "none" /\ I!NoChat.user = None /\ I!NoChat.cost = 0
        /\ ~I!NoChat.greeted /\ I!NoChat.rate = 0
  BY Zenon DEF I!NoChat, AiDocs
<1>2. \A s \in I!Chats : chat[s] = I!NoChat /\ paid[s] = 0 /\ greetings[s] = 0
  BY DEF I!Init
<1>3. \A r \in Slots : work[r] = I!Idle /\ work[r].pc = "idle"
  BY DEF I!Init, I!NoHandler, I!Idle
<1>4. AiTypes
  <2>1. I!Idle \in AiWorks
    BY DEF AiWorks
  <2> QED BY <1>1, <2>1 DEF I!Init, I!NoHandler, AiTypes, AiBounds
<1>5. Owned
  BY <1>1, <1>2, <1>3 DEF Owned, Known, AiBounds
<1>6. Greeted
  BY <1>2 DEF Greeted
<1>7. Single
  BY <1>1, <1>2, <1>3 DEF Single, I!Active, I!At
<1>8. Billed
  BY <1>1, <1>2, <1>3 DEF Billed, Billing
<1>9. Ledger
  <2> SUFFICES ASSUME NEW u \in Users
               PROVE  cash[u] + SumFunctionOnSet(paid, I!ChatsOf(u)) = Opening
    BY DEF Ledger
  <2>1. I!ChatsOf(u) = {}
    BY <1>1, <1>2 DEF I!ChatsOf, AiBounds
  <2>2. SumFunctionOnSet(paid, {}) = 0
    BY SumEmpty
  <2> QED BY <2>1, <2>2 DEF I!Init, AiBounds
<1>10. Once
  BY <1>1, <1>2, <1>3 DEF Once, Free, Kept, I!At, AiBounds
<1> QED BY <1>4, <1>5, <1>6, <1>7, <1>8, <1>9, <1>10 DEF AInv

LEMMA AiSteps == ASSUME AiBounds, AInv, [I!Next]_(I!cvars) PROVE AInv'
<1>1. CASE UNCHANGED I!cvars
  <2>1. UNCHANGED <<chat, cash, used, listed, joined, grace, ticking, answering, paid, greetings,
          failures, work>>
    BY <1>1 DEF I!cvars
  <2>2. AiTypes'
    BY <2>1 DEF AInv, AiTypes
  <2> QED BY <2>1, <2>2, SameIsSame, AiStays DEF Turns
<1>2. CASE I!Restart \/ I!Unlist
  BY <1>2, RestartStep, MemoryStep
<1>3. ASSUME NEW r \in Slots,
             I!UserRequests(r) \/ I!SocketEvents(r) \/ I!Timers(r) \/ I!Continues(r) \/ I!Fails(r)
      PROVE  AInv'
  <2>1. CASE I!UserRequests(r)
    BY <2>1, Starting, Deleting, SettleStep DEF I!UserRequests
  <2>2. CASE I!SocketEvents(r)
    BY <2>2, MemoryStep, SettleStep, MessageStep DEF I!SocketEvents
  <2>3. CASE I!Timers(r)
    BY <2>3, SettleStep DEF I!Timers
  <2>4. CASE I!Continues(r)
    BY <2>4, Creating, Greeting, Reading, Closing, Ending, Paying1 DEF I!Continues
  <2>5. CASE I!Fails(r)
    BY <2>5, RestartStep
  <2> QED BY <1>3, <2>1, <2>2, <2>3, <2>4, <2>5
<1> QED BY <1>1, <1>2, <1>3 DEF I!Next

LEMMA AiInvariance == ASSUME AiBounds PROVE I!Spec => []AInv
<1>1. I!Init => AInv
  BY AiStarts
<1>2. AInv /\ [I!Next]_(I!cvars) => AInv'
  BY AiSteps
<1> QED BY <1>1, <1>2, PTL DEF I!Spec

\* OneAtATime is about slots.
LEMMA OneIs == ASSUME AiBounds, AInv, I!OneAtATime PROVE AiOne
<1>1. DOMAIN work = Slots /\ Cardinality(Slots) = 1
  BY AiSize DEF AInv, AiTypes, I!OneAtATime
<1>2. PICK x : Slots = {x}
  BY <1>1, FS_Singleton DEF AiBounds
<1> QED BY <1>2 DEF AiOne

\* "Cap cost to user's balance to prevent over-deduction": however settlements
\* overlap, fail or are cut off, no wallet becomes negative.
THEOREM AiWithinBalance == ASSUME AiBounds PROVE I!Spec => []I!NeverBeyondBalance
<1>1. AInv => I!NeverBeyondBalance
  BY DEF AInv, AiTypes, I!NeverBeyondBalance
<1> QED BY <1>1, AiInvariance, PTL

\* markGreetingGenerated asks and marks in one update: intake messages that
\* overlap make one greeting.
THEOREM AiOneGreeting == ASSUME AiBounds PROVE I!Spec => []I!GreetedOnce
<1>1. AInv => I!GreetedOnce
  BY DEF AInv, Greeted, I!GreetedOnce
<1> QED BY <1>1, AiInvariance, PTL

\* "PREVENT CONCURRENT SESSIONS": one request after another, a user has one
\* active chat.
THEOREM AiOneChat == ASSUME AiBounds PROVE I!Spec => []I!OneChatPerUser
<1>1. AInv => I!OneChatPerUser
  <2> SUFFICES ASSUME AInv, I!OneAtATime, NEW u \in Users
               PROVE  Cardinality({s \in I!ChatsOf(u) : I!Active(s)}) <= 1
    BY AiSize DEF I!OneChatPerUser
  <2> DEFINE S == {s \in I!ChatsOf(u) : I!Active(s)}
  <2>1. Single
    BY OneIs DEF AInv
  <2>2. \A s, t \in S : s = t
    BY <2>1 DEF Single, I!ChatsOf
  <2> QED BY <2>2, AtMostOne
<1> QED BY <1>1, AiInvariance, PTL

\* One settlement after another: an ended chat was paid for once, and the
\* wallet is short of just what was paid.
THEOREM AiEndedIsPaid == ASSUME AiBounds PROVE I!Spec => []I!EndedIsPaid
<1>1. AInv => I!EndedIsPaid
  <2> SUFFICES ASSUME AInv, I!OneAtATime, failures = 0, I!Quiet
               PROVE  /\ \A s \in I!Chats : chat[s].status = "ended" => paid[s] = chat[s].cost
                      /\ \A u \in Users : cash[u] + SumFunctionOnSet(paid, I!ChatsOf(u)) = Opening
    BY AiSum DEF I!EndedIsPaid
  <2>1. Billed /\ Ledger
    BY OneIs DEF AInv
  <2>2. \A s \in I!Chats : ~Paying(s)
    BY DEF I!Quiet, Paying, I!At
  <2> QED BY <2>1, <2>2 DEF Billed, Ledger
<1> QED BY <1>1, AiInvariance, PTL

\* isAiFirstConsultationUsed: one request after another, and as long as no chat
\* was deleted and the astrologer stays, a user has one free consultation.
THEOREM AiFreeOnce == ASSUME AiBounds PROVE I!Spec => []I!FreeOnce
<1>1. AInv => I!FreeOnce
  <2> SUFFICES ASSUME AInv, I!OneAtATime, failures = 0, listed, NEW u \in Users,
                      \A s \in I!ChatsOf(u) : chat[s].status # "erased"
               PROVE  Cardinality({s \in I!ChatsOf(u) : chat[s].rate = 0}) <= 1
    BY AiSize DEF I!FreeOnce
  <2> DEFINE S == {s \in I!ChatsOf(u) : chat[s].rate = 0}
  <2>1. Once
    BY OneIs DEF AInv
  <2>2. Kept(u)
    BY DEF Kept, I!ChatsOf
  <2>3. \A s, t \in S : s = t
    BY <2>1, <2>2 DEF Once, Free, I!ChatsOf
  <2> QED BY <2>3, AtMostOne
<1> QED BY <1>1, AiInvariance, PTL

\* joined and grace change together.
LEMMA PresentStays ==
  ASSUME AiBounds, AInv, I!PresentIsKept, [I!Next]_(I!cvars)
  PROVE  I!PresentIsKept'
<1> SUFFICES ASSUME Cardinality(Sockets) = 1, NEW k \in Sockets
             PROVE  joined'[k] \notin grace'
  BY AiSize DEF I!PresentIsKept
<1>1. /\ joined \in [Sockets -> I!Chats \cup {0}] /\ grace \subseteq I!Chats /\ 0 \notin I!Chats
      /\ joined[k] \notin grace
  BY AiSize DEF AInv, AiTypes, I!PresentIsKept, I!Chats
<1>2. \A l \in Sockets : l = k
  BY FS_Singleton DEF AiBounds
<1>3. CASE UNCHANGED joined /\ grace' \subseteq grace
  BY <1>1, <1>3
<1>4. CASE joined' = [l \in Sockets |-> 0] /\ grace' = {}
  BY <1>4
<1>5. ASSUME NEW l \in Sockets, joined' = [joined EXCEPT ![l] = 0],
             grace' \subseteq grace \cup ({joined[l]} \ {0})
      PROVE  joined'[k] \notin grace'
  BY <1>1, <1>2, <1>5
<1>6. ASSUME NEW l \in Sockets, NEW s \in I!Chats, I!Join(l, s)
      PROVE  joined'[k] \notin grace'
  BY <1>1, <1>2, <1>6 DEF I!Join
<1>7. CASE UNCHANGED I!cvars
  BY <1>3, <1>7 DEF I!cvars
<1>8. CASE I!Restart \/ I!Unlist
  BY <1>3, <1>4, <1>8 DEF I!Restart, I!Unlist
<1>9. ASSUME NEW r \in Slots,
             I!UserRequests(r) \/ I!SocketEvents(r) \/ I!Timers(r) \/ I!Continues(r) \/ I!Fails(r)
      PROVE  joined'[k] \notin grace'
  <2>1. CASE I!UserRequests(r)
    BY <1>3, <2>1 DEF I!UserRequests, I!StartSession, I!DeleteSession, I!EndByRest
  <2>2. CASE I!SocketEvents(r)
    <3>1. ASSUME NEW s \in I!Chats, NEW l \in Sockets, I!LeaveChat(r, l, s) \/ I!EndChat(r, l, s)
          PROVE  joined'[k] \notin grace'
      BY <1>5, <3>1 DEF I!LeaveChat, I!EndChat
    <3>2. ASSUME NEW s \in I!Chats, I!SendMessage(s) \/ I!SendIntake(r, s) \/ I!Answer(s)
          PROVE  joined'[k] \notin grace'
      BY <1>3, <3>2 DEF I!SendMessage, I!SendIntake, I!Answer
    <3>3. ASSUME NEW l \in Sockets, I!Disconnect(l)
          PROVE  joined'[k] \notin grace'
      BY <1>5, <3>3 DEF I!Disconnect
    <3> QED BY <1>6, <2>2, <3>1, <3>2, <3>3 DEF I!SocketEvents
  <2>3. CASE I!Timers(r)
    BY <1>3, <2>3 DEF I!Timers, I!GraceOver, I!TickerEnds, I!Cleanup
  <2>4. CASE I!Continues(r)
    BY <1>3, <2>4 DEF I!Continues, I!Create, I!MarkGreeting, I!ReadUser, I!Close, I!SaveEnded,
         I!SaveUser
  <2>5. CASE I!Fails(r)
    BY <1>3, <2>5 DEF I!Fails
  <2> QED BY <1>9, <2>1, <2>2, <2>3, <2>4, <2>5
<1> QED BY <1>7, <1>8, <1>9 DEF I!Next

\* join_ai_chat clears the timer that the disconnect armed: no timer runs for a
\* chat that a user with one socket is in.
THEOREM AiPresent == ASSUME AiBounds PROVE I!Spec => []I!PresentIsKept
<1>1. I!Init => I!PresentIsKept
  BY DEF I!Init, I!PresentIsKept
<1>2. AInv /\ I!PresentIsKept /\ [I!Next]_(I!cvars) => I!PresentIsKept'
  BY PresentStays
<1> QED BY <1>1, <1>2, AiInvariance, PTL DEF I!Spec

----------------
(* Fifth part: the notifications of a recipient, in Notices.               *)

CONSTANTS Notes, Sorts, Devices, NoSocket
VARIABLES sort, filed, viewed, socketSent, pushSent, devices, socket, connected, mapped, reached, loggingOut

N == INSTANCE Notices WITH Kinds <- Sorts, kind <- sort, stored <- filed, read <- viewed, open <- socket

\* No device is called as a socket is that no device has.
NamesApart == "closed" \notin Devices /\ "web" \notin Devices

\* How far a notification has come, and by what it went out.
Undelivered(n) == stage[n] \in {"none", "lookup", "deliver"} => reached[n] = {} /\ n \notin socketSent \cup pushSent
Unpushed(n) ==
  /\ stage[n] \in {"record", "record, push"} =>
                 reached[n] # {} /\ reached[n] \subseteq {"web", "mobile"} /\ n \notin pushSent
  /\ stage[n] = "push" => "push" \notin reached[n] /\ n \notin pushSent
  /\ stage[n] = "push" /\ ~N!Urgent(sort[n]) => reached[n] = {}
  /\ stage[n] = "record push" => "push" \in reached[n]
Sent(n) ==
  /\ n \in socketSent => reached[n] \cap {"web", "mobile"} # {}
  /\ n \in pushSent => "push" \in reached[n]
  /\ failures = 0 /\ stage[n] = "done" /\ n \in filed /\ "push" \in reached[n] => n \in pushSent
  /\ ~N!Urgent(sort[n]) /\ "push" \in reached[n] => reached[n] = {"push"}

NoticeTypes ==
  /\ DOMAIN stage = Notes /\ DOMAIN reached = Notes /\ DOMAIN sort = Notes /\ failures \in Nat
  /\ DOMAIN socket = Sockets /\ DOMAIN mapped = Devices /\ \A d \in Devices : mapped[d] \in Sockets \cup {NoSocket}
NoticeInv == NoticeTypes /\ N!MappedIsOpen /\ \A n \in Notes : Undelivered(n) /\ Unpushed(n) /\ Sent(n)

\* What concerns the sockets only leaves the notifications as they are.
LEMMA SocketStep ==
  ASSUME NamesApart, NoticeInv, NEW k \in Sockets, N!SocketEvents(k)
  PROVE  NoticeInv'
<1>1. UNCHANGED <<sort, filed, viewed, socketSent, pushSent, stage, reached, failures>>
  BY DEF N!SocketEvents, N!ConnectWeb, N!Disconnect, N!ConnectMobile, N!documents
<1>2. (\A n \in Notes : Undelivered(n) /\ Unpushed(n) /\ Sent(n))'
  BY <1>1 DEF NoticeInv, Undelivered, Unpushed, Sent, N!Urgent
<1>3. NoticeTypes' /\ N!MappedIsOpen'
  <2>1. CASE N!ConnectWeb(k)
    BY <1>1, <2>1 DEF NoticeInv, NoticeTypes, N!MappedIsOpen, N!ConnectWeb, NamesApart
  <2>2. CASE N!Disconnect(k)
    BY <1>1, <2>2 DEF NoticeInv, NoticeTypes, N!MappedIsOpen, N!Disconnect, NamesApart
  <2>3. ASSUME NEW d \in Devices, N!ConnectMobile(k, d) PROVE NoticeTypes' /\ N!MappedIsOpen'
    BY <1>1, <2>3 DEF NoticeInv, NoticeTypes, N!MappedIsOpen, N!ConnectMobile, NamesApart
  <2> QED BY <2>1, <2>2, <2>3 DEF N!SocketEvents
<1> QED BY <1>2, <1>3 DEF NoticeInv

\* What the recipient reads, deletes or clears, and their devices.
LEMMA RecipientStep ==
  ASSUME NoticeInv, N!UserRequests \/ N!DeactivateDevices \/ \E d \in Devices : N!LoginDevice(d)
  PROVE  NoticeInv'
<1>1. /\ UNCHANGED <<sort, stage, reached, failures, socket, connected, mapped>>
      /\ \A n \in Notes : /\ n \in socketSent' => n \in socketSent
                          /\ n \in pushSent' => n \in pushSent
                          /\ n \in filed' => n \in filed /\ (n \in pushSent => n \in pushSent')
  BY DEF N!UserRequests, N!DeactivateDevices, N!LoginDevice, N!ClearAll, N!MarkAsRead, N!DeleteNotification,
         N!documents, N!gateway
<1>2. NoticeTypes' /\ N!MappedIsOpen'
  BY <1>1 DEF NoticeInv, NoticeTypes, N!MappedIsOpen
<1>3. ASSUME NEW n \in Notes PROVE (Undelivered(n) /\ Unpushed(n) /\ Sent(n))'
  BY <1>1 DEF NoticeInv, Undelivered, Unpushed, Sent, N!Urgent
<1> QED BY <1>2, <1>3 DEF NoticeInv

\* A step of the sending of n changes nothing of another notification.
LEMMA SendingStep ==
  ASSUME NoticeInv, NEW n \in Notes,
         \/ N!FindRecipient(n) \/ N!Deliver(n) \/ N!RecordSocket(n) \/ N!PushTo(n) \/ N!RecordPush(n)
         \/ N!DeliveryFails(n) \/ \E k \in Sorts : N!Create(n, k)
  PROVE  NoticeInv'
<1>1. /\ UNCHANGED <<socket, connected, mapped>> /\ DOMAIN stage' = Notes /\ DOMAIN reached' = Notes /\ DOMAIN sort' = Notes
      /\ failures' \in Nat /\ (failures' = 0 => failures = 0)
      /\ \A m \in Notes \ {n} : /\ stage'[m] = stage[m] /\ reached'[m] = reached[m] /\ sort'[m] = sort[m]
                                /\ (m \in filed' <=> m \in filed) /\ (m \in socketSent' <=> m \in socketSent)
                                /\ (m \in pushSent' <=> m \in pushSent)
  <2> USE DEF NoticeInv, NoticeTypes, N!Move, N!documents, N!gateway
  <2>1. CASE N!FindRecipient(n) \/ N!Deliver(n) \/ N!PushTo(n)
    BY <2>1 DEF N!FindRecipient, N!Deliver, N!PushTo
  <2>2. CASE N!RecordSocket(n) \/ N!RecordPush(n)
    BY <2>2 DEF N!RecordSocket, N!RecordPush
  <2>3. CASE N!DeliveryFails(n)
    <3>1. /\ failures' = failures + 1 /\ failures \in Nat /\ stage' = [stage EXCEPT ![n] = "done"]
          /\ UNCHANGED <<sort, filed, socketSent, pushSent, socket, connected, mapped, reached>>
      BY <2>3, Zenon DEF N!DeliveryFails
    <3>2. failures' \in Nat /\ failures' # 0
      BY <3>1
    <3> QED BY <3>1, <3>2
  <2>4. ASSUME NEW k \in Sorts, N!Create(n, k) PROVE <1>1!:
    BY <2>4 DEF N!Create
  <2> QED BY <2>1, <2>2, <2>3, <2>4
<1>2. NoticeTypes' /\ N!MappedIsOpen'
  BY <1>1 DEF NoticeInv, NoticeTypes, N!MappedIsOpen
<1>3. ASSUME NEW m \in Notes \ {n} PROVE (Undelivered(m) /\ Unpushed(m) /\ Sent(m))'
  BY <1>1 DEF NoticeInv, Undelivered, Unpushed, Sent, N!Urgent
<1>4. (Undelivered(n) /\ Unpushed(n) /\ Sent(n))'
  <2> USE DEF N!Move, N!documents, N!gateway
  <2>0. /\ DOMAIN stage = Notes /\ DOMAIN reached = Notes /\ DOMAIN sort = Notes /\ failures \in Nat
        /\ Undelivered(n) /\ Unpushed(n) /\ Sent(n)
    BY DEF NoticeInv, NoticeTypes
  <2>1. CASE N!FindRecipient(n) \/ \E k \in Sorts : N!Create(n, k)
    BY <2>0, <2>1 DEF N!FindRecipient, N!Create, Undelivered, Unpushed, Sent
  <2>2. CASE N!Deliver(n)
    <3>1. reached'[n] \subseteq {"web", "mobile"} /\ (reached'[n] = {} => stage'[n] \in {"push", "done"})
          /\ (reached'[n] # {} => stage'[n] \in {"record", "record, push"})
      BY <2>0, <2>2 DEF N!Deliver, N!BySocket, N!AfterSocket
    <3> QED BY <2>0, <2>2, <3>1 DEF N!Deliver, Undelivered, Unpushed, Sent
  <2>3. CASE N!RecordSocket(n)
    <3>1. /\ stage'[n] \in {"push", "done"} /\ (stage'[n] = "push" => N!Urgent(sort[n]))
          /\ stage[n] \in {"record", "record, push"}
          /\ UNCHANGED <<reached, sort, pushSent, filed, failures>> /\ (n \in socketSent' => n \in socketSent \cup filed)
      BY <2>0, <2>3 DEF N!RecordSocket, N!AfterSocket
    <3> QED BY <2>0, <3>1 DEF Undelivered, Unpushed, Sent, N!Urgent
  <2>4. CASE N!PushTo(n)
    <3>1. /\ reached'[n] = reached[n] \cup {"push"} /\ stage'[n] = "record push" /\ stage[n] = "push"
          /\ UNCHANGED <<sort, socketSent, pushSent, filed, failures>>
      BY <2>0, <2>4 DEF N!PushTo
    <3> QED BY <2>0, <3>1 DEF Undelivered, Unpushed, Sent, N!Urgent
  <2>5. CASE N!RecordPush(n)
    BY <2>0, <2>5 DEF N!RecordPush, Undelivered, Unpushed, Sent, N!Urgent
  <2>6. CASE N!DeliveryFails(n)
    <3>1. /\ stage' = [stage EXCEPT ![n] = "done"] /\ failures' = failures + 1
          /\ stage[n] \in {"deliver", "record", "record, push", "push", "record push"}
          /\ UNCHANGED <<sort, socketSent, pushSent, filed, reached>>
      BY <2>6, Zenon DEF N!DeliveryFails
    <3>2. stage'[n] = "done"
      BY <2>0, <3>1
    <3>4. failures \in Nat
      BY <2>0
    <3>5. failures' = failures + 1
      BY <2>6, Zenon DEF N!DeliveryFails
    <3>6. failures' # 0
      BY <3>4, <3>5
    <3>3. stage[n] \notin {"none", "lookup", "done"}
      BY <3>1
    <3> QED BY <2>0, <3>1, <3>2, <3>3, <3>6 DEF Undelivered, Unpushed, Sent, N!Urgent
  <2> QED BY <2>1, <2>2, <2>3, <2>4, <2>5, <2>6
<1> QED BY <1>2, <1>3, <1>4 DEF NoticeInv

LEMMA NoticeInvariance == ASSUME NamesApart PROVE N!Spec => []NoticeInv
<1>1. N!Init => NoticeInv
  BY DEF NamesApart, N!Init, NoticeInv, NoticeTypes, N!MappedIsOpen, Undelivered, Unpushed, Sent
<1>2. NoticeInv /\ UNCHANGED N!ovars => NoticeInv'
  BY DEF N!ovars, N!documents, N!gateway, NoticeInv, NoticeTypes, N!MappedIsOpen, Undelivered, Unpushed, Sent, N!Urgent
<1>3. NoticeInv /\ [N!Next]_(N!ovars) => NoticeInv'
  BY <1>2, SocketStep, RecipientStep, SendingStep DEF N!Next
<1> QED BY <1>1, <1>3, PTL DEF N!Spec

\* However sockets of one device replace each other, connect and close, the
\* gateway holds no socket that is closed or belongs to another device.
THEOREM NoticeMappedIsOpen == ASSUME NamesApart PROVE N!Spec => []N!MappedIsOpen
<1>1. NoticeInv => N!MappedIsOpen
  BY DEF NoticeInv
<1> QED BY <1>1, NoticeInvariance, PTL

\* Whatever is deleted, read or fails meanwhile, a notification is marked as sent
\* only by what it went out by; without a failure a push is marked whenever it was.
THEOREM NoticeSentAsRecorded == ASSUME NamesApart PROVE N!Spec => []N!SentAsRecorded
<1>1. NoticeInv => N!SentAsRecorded
  BY DEF NoticeInv, Sent, N!SentAsRecorded
<1> QED BY <1>1, NoticeInvariance, PTL

\* "If socket sent AND not urgent, we can exit early": what is not urgent is not
\* pushed to somebody who had it by a socket, however many notifications are on
\* their way.
THEOREM NoticeNotTwice == ASSUME NamesApart PROVE N!Spec => []N!NotTwice
<1>1. NoticeInv => N!NotTwice
  BY DEF NoticeInv, Sent, N!NotTwice
<1> QED BY <1>1, NoticeInvariance, PTL

----------------
(* Sixth part: the messages of a chat and its room, in Messages.           *)

CONSTANTS Parties, MaxMessages, MaxMarks
VARIABLES session, message, count, online, room, told, left, marks

Msg == INSTANCE Messages

\* A socket is its party's, and not the absence of one; nobody is alone.
RoomAssumption ==
  /\ MaxMessages \in Nat /\ IsFiniteSet(Slots)
  /\ \A k \in Sockets : k[1] \in Parties /\ k # <<k[1], 0>>
  /\ \A p \in Parties : \E q \in Parties : q # p

Texts == [from : Parties \cup {"none"}, delivery : {"none", "sending", "sent", "delivered", "read"}, hidden : BOOLEAN,
          starredBy : SUBSET Parties, starred : BOOLEAN, reactions : [Parties -> Nat], v : Nat]
Markings == {"star", "unstar", "edit", "delete", "react"}
Sending == {"count", "look", "emit"}
RoomWorks ==
  {Msg!Idle} \cup [pc : {"online"}, p : Parties, on : BOOLEAN] \cup [pc : {"leave"}, p : Parties]
  \cup [pc : {"save"}, from : Parties]
  \cup [pc : Sending, i : Msg!Ids, to : Parties, seen : SUBSET Sockets, n : Nat]
  \cup [pc : Markings, p : Parties, i : Msg!Ids, seen : Texts]

IsSaved(i) == message[i].delivery # "none"
MsgTypes ==
  /\ work \in [Slots -> RoomWorks] /\ message \in [Msg!Ids -> Texts]
  /\ \A i \in Msg!Ids : IsSaved(i) \/ message[i] = Msg!NoMessage
  /\ \A r \in Slots : work[r].pc \in Markings => IsSaved(work[r].i)
  /\ count \in Nat /\ failures \in Nat /\ room \subseteq Sockets /\ told \in [Msg!Ids -> SUBSET {"room", "push"}]
  /\ online \in [Parties -> BOOLEAN] /\ DOMAIN socket = Parties /\ \A p \in Parties : socket[p][1] = p
\* Whoever is looked for in the room was there, or left since.
Reaching ==
  /\ \A i \in Msg!Ids : IsSaved(i) =>
       \/ told[i] # {} \/ i \in left \/ \E r \in Slots : work[r].pc \in Sending /\ work[r].i = i
  /\ \A r \in Slots : work[r].pc = "emit" =>
       \A k \in work[r].seen : k[1] = work[r].to => k \in room \/ work[r].i \in left
\* What is saved is counted, or about to be.
SavedSet == {i \in Msg!Ids : IsSaved(i)}
Coming == {r \in Slots : work[r].pc = "count"}
Tally ==
  /\ count + Cardinality(Coming) <= Cardinality(SavedSet)
  /\ failures = 0 => count + Cardinality(Coming) = Cardinality(SavedSet)
\* One request at a time: what a handler read of a message is as it was, and the
\* document knows who is in the room, or is about to.
StarsHold(i) ==
  /\ message[i].starred = TRUE <=> message[i].starredBy # {}
  /\ \A p \in Parties : message[i].reactions[p] <= 1
MarkCurrent(r) ==
  /\ work[r].pc \in {"star", "unstar"} => /\ work[r].seen.starred = message[work[r].i].starred
                                          /\ work[r].seen.starredBy = message[work[r].i].starredBy
  /\ work[r].pc = "react" => message[work[r].i].reactions[work[r].p] = 0
Presents(p) == online[p] = TRUE <=> socket[p] # <<p, 0>>
InRoom ==
  /\ \A p \in Parties : Presents(p) \/ \E r \in Slots : work[r].pc \in {"online", "leave"} /\ work[r].p = p
  /\ \A r \in Slots : work[r].pc = "online" => (work[r].on = TRUE <=> socket[work[r].p] # <<work[r].p, 0>>)
OneByOne == OneOffice => InRoom /\ (\A i \in Msg!Ids : StarsHold(i)) /\ \A r \in Slots : MarkCurrent(r)

MsgInv == MsgTypes /\ Reaching /\ Tally /\ OneByOne

LEMMA MsgSaved == ASSUME MsgTypes PROVE Msg!Stored = SavedSet /\ ~(Msg!NoMessage.delivery # "none") /\ Msg!NoMessage \in Texts
<1>1. Msg!NoMessage.delivery = "none" /\ Msg!NoMessage \in Texts
  BY DEF Msg!NoMessage, Texts
<1> QED BY <1>1 DEF MsgTypes, Msg!Stored, SavedSet, IsSaved

LEMMA MsgSlot ==
  ASSUME MsgTypes, NEW r \in Slots, NEW h \in RoomWorks, work' = [work EXCEPT ![r] = h]
  PROVE  work' \in [Slots -> RoomWorks] /\ work'[r] = h /\ \A q \in Slots : q # r => work'[q] = work[q]
  BY DEF MsgTypes

LEMMA MsgIdle == Msg!Idle \in RoomWorks /\ Msg!Idle.pc = "idle"
  BY DEF Msg!Idle, RoomWorks

\* What the kinds of handlers have read.
LEMMA MsgHandler ==
  ASSUME MsgTypes, NEW r \in Slots
  PROVE  /\ work[r].pc = "online" => work[r].p \in Parties /\ work[r].on \in BOOLEAN
         /\ work[r].pc = "leave" => work[r].p \in Parties
         /\ work[r].pc = "save" => work[r].from \in Parties
         /\ work[r].pc \in Sending => work[r] \in [pc : Sending, i : Msg!Ids, to : Parties, seen : SUBSET Sockets, n : Nat]
         /\ work[r].pc \in Markings =>
              work[r].p \in Parties /\ work[r].i \in Msg!Ids /\ work[r].seen \in Texts
<1>1. work[r] \in RoomWorks
  BY DEF MsgTypes
<1> QED BY <1>1, MsgIdle DEF RoomWorks, Sending, Markings

\* A step of a handler that is not sending, nor begins to.
LEMMA Sideways ==
  ASSUME MsgInv, \A q \in Slots : work[q].pc \in Sending \/ work'[q].pc \in Sending => work'[q] = work[q],
         \A i \in Msg!Ids : IsSaved(i)' <=> IsSaved(i), UNCHANGED <<told, count, failures>>, left \subseteq left',
         \A q \in Slots : work[q].pc = "emit" =>
           \A k \in work[q].seen : k[1] = work[q].to /\ k \in room => k \in room' \/ work[q].i \in left'
  PROVE  Reaching' /\ Tally'
<1>1. Coming' = Coming /\ SavedSet' = SavedSet
  BY DEF Coming, SavedSet, Sending
<1>2. Tally'
  BY <1>1 DEF MsgInv, Tally
<1>3. Reaching'
  <2>1. \A q \in Slots : work'[q].pc = "emit" => work[q].pc = "emit" /\ work'[q] = work[q]
    BY DEF Sending
  <2>2. \A q \in Slots : work'[q].pc = "emit" =>
          \A k \in work'[q].seen : k[1] = work'[q].to => k \in room' \/ work'[q].i \in left'
    BY <2>1 DEF MsgInv, Reaching
  <2>3. \A i \in Msg!Ids : IsSaved(i)' =>
       \/ told'[i] # {} \/ i \in left' \/ \E q \in Slots : work'[q].pc \in Sending /\ work'[q].i = i
    BY DEF MsgInv, Reaching
  <2> QED BY <2>2, <2>3 DEF Reaching
<1> QED BY <1>2, <1>3

\* The room.
LEMMA RoomStep ==
  ASSUME RoomAssumption, MsgInv, NEW r \in Slots, Msg!RoomEvents(r) \/ Msg!SaveOnline(r) \/ Msg!Forget(r)
  PROVE  MsgInv'
<1>1. /\ UNCHANGED <<message, told, count, failures>> /\ left \subseteq left' /\ room' \subseteq Sockets
      /\ work' \in [Slots -> RoomWorks] /\ \A q \in Slots : q # r => work'[q] = work[q]
      /\ work[r].pc \in {"idle", "online", "leave"} /\ work'[r].pc \in {"idle", "online", "leave"}
      /\ \A q \in Slots : work[q].pc = "emit" =>
           \A k \in work[q].seen : k[1] = work[q].to /\ k \in room => k \in room' \/ work[q].i \in left'
      /\ online' \in [Parties -> BOOLEAN] /\ DOMAIN socket' = Parties /\ \A p \in Parties : socket'[p][1] = p
      /\ OneOffice => InRoom'
  <2> DEFINE C == <1>1!:
  <2>0. work \in [Slots -> RoomWorks] /\ room \subseteq Sockets /\ online \in [Parties -> BOOLEAN] /\ DOMAIN socket = Parties
        /\ (\A p \in Parties : socket[p][1] = p) /\ (OneOffice => InRoom)
    BY DEF MsgInv, MsgTypes, OneByOne
  <2>1. ASSUME NEW k \in Sockets, Msg!JoinSession(r, k) PROVE C
    <3>1. PICK h : h = [pc |-> "online", p |-> k[1], on |-> TRUE]
      OBVIOUS
    <3>2. h \in RoomWorks /\ k[1] \in Parties /\ k # <<k[1], 0>> /\ h.pc = "online" /\ h.p = k[1] /\ h.on = TRUE
      BY <3>1 DEF RoomAssumption, RoomWorks
    <3>3. /\ work[r].pc = "idle" /\ work' = [work EXCEPT ![r] = h] /\ room' = room \cup {k}
          /\ socket' = [socket EXCEPT ![k[1]] = k] /\ UNCHANGED <<message, told, left, count, online, failures>>
      BY <2>1, <3>1 DEF Msg!JoinSession, Msg!Begin, Msg!At, Msg!Owner, Msg!fixed
    <3>4. ASSUME OneOffice PROVE InRoom'
      <4>1. socket'[k[1]] = k /\ \A p \in Parties \ {k[1]} : socket'[p] = socket[p]
        BY <2>0, <3>2, <3>3
      <4>2. work'[r] = h /\ \A q \in Slots : q = r
        BY <2>0, <3>3, <3>4 DEF OneOffice
      <4>3. \A p \in Parties : Presents(p)
        BY <2>0, <3>3, <3>4, <4>2 DEF InRoom
      <4>4. \A p \in Parties \ {k[1]} : Presents(p)'
        BY <3>3, <4>1, <4>3 DEF Presents
      <4>5. work'[r].on = TRUE <=> socket'[work'[r].p] # <<work'[r].p, 0>>
        BY <3>2, <4>1, <4>2
      <4> QED BY <3>2, <4>2, <4>4, <4>5 DEF InRoom
    <3> QED BY <2>0, <3>2, <3>3, <3>4
  <2>2. ASSUME NEW k \in Sockets, Msg!LeaveSession(r, k) PROVE C
    <3>1. PICK h : h = [pc |-> "leave", p |-> k[1]]
      OBVIOUS
    <3>2. h \in RoomWorks /\ k[1] \in Parties /\ h.pc = "leave" /\ h.p = k[1]
      BY <3>1 DEF RoomAssumption, RoomWorks
    <3>3. /\ work[r].pc = "idle" /\ work' = [work EXCEPT ![r] = h] /\ room' = room \ {k}
          /\ left' = left \cup {work[q].i : q \in {q \in Slots : work[q].pc = "emit" /\ work[q].to = k[1]}}
          /\ UNCHANGED <<message, told, count, online, socket, failures>>
      BY <2>2, <3>1 DEF Msg!LeaveSession, Msg!Leaving, Msg!Begin, Msg!At, Msg!Owner
    <3>4. OneOffice => InRoom'
      BY <2>0, <3>2, <3>3 DEF OneOffice, InRoom, Presents
    <3> QED BY <2>0, <3>2, <3>3, <3>4
  <2>3. ASSUME NEW k \in Sockets, Msg!Disconnect(r, k) PROVE C
    <3>1. PICK h : h = [pc |-> "online", p |-> k[1], on |-> FALSE]
      OBVIOUS
    <3>2. h \in RoomWorks /\ k[1] \in Parties /\ h.pc = "online" /\ h.p = k[1] /\ h.on = FALSE
      BY <3>1 DEF RoomAssumption, RoomWorks
    <3>3. /\ work[r].pc = "idle" /\ room' = room \ {k}
          /\ left' = left \cup {work[q].i : q \in {q \in Slots : work[q].pc = "emit" /\ work[q].to = k[1]}}
          /\ UNCHANGED <<message, told, count, online, failures>>
          /\ \/ socket' = [socket EXCEPT ![k[1]] = <<k[1], 0>>] /\ work' = [work EXCEPT ![r] = h]
             \/ UNCHANGED <<socket, work>>
      BY <2>3, <3>1 DEF Msg!Disconnect, Msg!Leaving, Msg!Begin, Msg!At, Msg!Owner
    <3>4. OneOffice => InRoom'
      <4>1. CASE UNCHANGED <<socket, work>>
        BY <2>0, <3>3, <4>1 DEF OneOffice, InRoom, Presents
      <4>2. CASE socket' = [socket EXCEPT ![k[1]] = <<k[1], 0>>] /\ work' = [work EXCEPT ![r] = h]
        <5>1. socket'[k[1]] = <<k[1], 0>> /\ \A p \in Parties \ {k[1]} : socket'[p] = socket[p]
          BY <2>0, <3>2, <4>2
        <5>2. work'[r] = h /\ (OneOffice => \A q \in Slots : q = r)
          BY <2>0, <4>2 DEF OneOffice
        <5> QED BY <2>0, <3>2, <3>3, <5>1, <5>2 DEF InRoom, Presents
      <4> QED BY <3>3, <4>1, <4>2
    <3> QED BY <2>0, <3>2, <3>3, <3>4
  <2>4. CASE Msg!SaveOnline(r) \/ Msg!Forget(r)
    <3>1. PICK p \in Parties : p = work[r].p
      BY <2>4, MsgHandler DEF Msg!SaveOnline, Msg!Forget, Msg!At, MsgInv
    <3>2. /\ work' = [work EXCEPT ![r] = Msg!Idle] /\ UNCHANGED <<message, told, left, count, room, failures>>
          /\ \/ /\ work[r].pc = "online" /\ online' = [online EXCEPT ![p] = work[r].on] /\ UNCHANGED socket
             \/ /\ work[r].pc = "leave" /\ online' = [online EXCEPT ![p] = FALSE]
                /\ socket' = [socket EXCEPT ![p] = <<p, 0>>]
      BY <2>4, <3>1 DEF Msg!SaveOnline, Msg!Forget, Msg!At, Msg!Finish, Msg!fixed
    <3>3. work[r].pc = "online" => work[r].on \in BOOLEAN
      BY MsgHandler DEF MsgInv
    <3>4. OneOffice => InRoom'
      BY <2>0, <3>1, <3>2, <3>3, MsgIdle DEF OneOffice, InRoom, Presents
    <3>5. /\ work' \in [Slots -> RoomWorks] /\ (\A q \in Slots : q # r => work'[q] = work[q]) /\ work'[r].pc = "idle"
          /\ work[r].pc \in {"online", "leave"}
      BY <2>0, <3>2, MsgIdle
    <3>6. online' \in [Parties -> BOOLEAN]
      BY <2>0, <3>1, <3>2, <3>3
    <3>7. DOMAIN socket' = Parties /\ \A q \in Parties : socket'[q][1] = q
      BY <2>0, <3>1, <3>2
    <3> QED BY <2>0, <3>2, <3>4, <3>5, <3>6, <3>7
  <2> QED BY <2>1, <2>2, <2>3, <2>4 DEF Msg!RoomEvents
<1>2. Reaching' /\ Tally'
  BY <1>1, Sideways DEF IsSaved, Sending
<1>3. MsgTypes'
  BY <1>1 DEF MsgInv, MsgTypes, IsSaved, Markings
<1>4. OneByOne'
  BY <1>1 DEF MsgInv, OneByOne, OneOffice, StarsHold, MarkCurrent
<1> QED BY <1>2, <1>3, <1>4 DEF MsgInv

\* The marks on messages, in whatever order they are read and saved.
LEMMA MarkEffect ==
  ASSUME MsgInv, UNCHANGED <<told, left, count, room, online, socket, failures>>, work' \in [Slots -> RoomWorks],
         \A q \in Slots : \/ work'[q] = work[q]
                         \/ /\ {work[q].pc, work'[q].pc} \cap (Sending \cup {"online", "leave"}) = {}
                            /\ work'[q].pc \in Markings => work'[q].i \in Msg!Ids /\ IsSaved(work'[q].i),
         message' \in [Msg!Ids -> Texts], \A i \in Msg!Ids : message'[i] = message[i] \/ (IsSaved(i) /\ IsSaved(i)'),
         OneOffice => (\A i \in Msg!Ids : StarsHold(i)') /\ \A q \in Slots : MarkCurrent(q)'
  PROVE  MsgInv'
<1>0. /\ \A i \in Msg!Ids : IsSaved(i) => IsSaved(i)'
      /\ \A q \in Slots : work[q].pc \in Markings => work[q].i \in Msg!Ids /\ IsSaved(work[q].i)
  <2>1. \A i \in Msg!Ids : IsSaved(i) => IsSaved(i)'
    BY DEF IsSaved
  <2>2. MsgTypes
    BY DEF MsgInv
  <2>3. \A q \in Slots : work[q].pc \in Markings => work[q].i \in Msg!Ids
    BY <2>2, MsgHandler
  <2> QED BY <2>1, <2>2, <2>3 DEF MsgTypes
<1>5. \A q \in Slots : work'[q].pc \in Markings => message'[work'[q].i].delivery # "none"
  BY <1>0 DEF IsSaved
<1>1. MsgTypes'
  BY <1>0, <1>5 DEF MsgInv, MsgTypes, IsSaved
<1>2. \A q \in Slots : {work[q].pc, work'[q].pc} \cap (Sending \cup {"online", "leave"}) = {} \/ work'[q] = work[q]
  OBVIOUS
<1>3. Reaching' /\ Tally'
  <2>1. \A i \in Msg!Ids : IsSaved(i)' <=> IsSaved(i)
    BY DEF IsSaved
  <2>2. \A q \in Slots : work[q].pc \in Sending \/ work'[q].pc \in Sending => work'[q] = work[q]
    BY <1>2
  <2> QED BY <2>1, <2>2, Sideways
<1>4. OneOffice => InRoom'
  <2>1. \A q \in Slots : work[q].pc \in {"online", "leave"} \/ work'[q].pc \in {"online", "leave"} => work'[q] = work[q]
    BY <1>2
  <2>2. \A p \in Parties : Presents(p)' <=> Presents(p)
    BY DEF Presents
  <2> QED BY <2>1, <2>2 DEF MsgInv, OneByOne, InRoom
<1> QED BY <1>1, <1>3, <1>4 DEF MsgInv, OneByOne, OneOffice

\* A handler begins with a message as it is.
LEMMA MarkBegun ==
  ASSUME MsgInv, NEW r \in Slots, NEW p \in Parties, NEW i \in Msg!Ids, NEW pc \in Markings,
         Msg!Mark(r, Msg!Marking(pc, p), i), pc = "react" => message[i].reactions[p] = 0
  PROVE  MsgInv'
<1> DEFINE m == Msg!Marking(pc, p)
           S == [pc : Markings, p : Parties, i : Nat, seen : Texts]
           e == [m EXCEPT !.i = i, !.seen = message[i]]
<1>8. IsSaved(i) /\ message[i] \in Texts /\ i \in Nat
  BY MsgSaved DEF Msg!Mark, MsgInv, MsgTypes, SavedSet, Msg!Ids
<1>9. m \in S /\ m.pc = pc /\ m.p = p
  BY MsgSaved DEF Msg!Marking, MsgInv
<1>0. e \in S /\ e.pc = m.pc /\ e.p = m.p /\ e.i = i /\ e.seen = message[i]
  <2> HIDE DEF m
  <2> QED BY <1>8, <1>9, Zenon
<1>1. PICK h : h = e
  OBVIOUS
<1> HIDE DEF m, e
<1>2. /\ work[r].pc = "idle" /\ work' = [work EXCEPT ![r] = h]
      /\ UNCHANGED <<message, told, left, count, room, online, socket, failures>>
  BY <1>1 DEF m, e, Msg!Mark, Msg!Begin, Msg!At, Msg!fixed
<1>3. h \in RoomWorks /\ h.pc = pc /\ h.p = p /\ h.i = i /\ h.seen = message[i]
  BY <1>0, <1>1, <1>9 DEF RoomWorks, S
<1>4. work' \in [Slots -> RoomWorks] /\ work'[r] = h /\ \A q \in Slots : q # r => work'[q] = work[q]
  BY <1>2, <1>3, MsgSlot DEF MsgInv
<1>5. OneOffice => (\A j \in Msg!Ids : StarsHold(j)') /\ \A q \in Slots : MarkCurrent(q)'
  BY <1>2, <1>3, <1>4 DEF MsgInv, OneByOne, OneOffice, StarsHold, MarkCurrent
<1>6. message' \in [Msg!Ids -> Texts] /\ UNCHANGED <<told, left, count, room, online, socket, failures>>
  BY <1>2 DEF MsgInv, MsgTypes
<1>7. {work[r].pc, work'[r].pc} \cap (Sending \cup {"online", "leave"}) = {}
  BY <1>2, <1>3, <1>4 DEF Sending, Markings
<1> QED BY <1>2, <1>3, <1>4, <1>5, <1>6, <1>7, <1>8, MarkEffect

\* ... and saves what follows from it.
LEMMA MarkSaved ==
  ASSUME MsgInv, NEW r \in Slots, work[r].pc \in Markings, NEW e \in Texts,
         e.delivery # "none", message' = [message EXCEPT ![work[r].i] = e], Msg!Finish(r),
         UNCHANGED <<told, left, count, room, online, socket, failures>>,
         OneOffice => (e.starred = TRUE <=> e.starredBy # {}) /\ \A p \in Parties : e.reactions[p] <= 1
  PROVE  MsgInv'
<1>1. work' = [work EXCEPT ![r] = Msg!Idle] /\ work[r].i \in Msg!Ids
  BY MsgHandler DEF Msg!Finish, MsgInv
<1>2. work' \in [Slots -> RoomWorks] /\ work'[r].pc = "idle" /\ \A q \in Slots : q # r => work'[q] = work[q]
  BY <1>1, MsgIdle, MsgSlot DEF MsgInv
<1>3. /\ message' \in [Msg!Ids -> Texts] /\ message'[work[r].i] = e
      /\ \A j \in Msg!Ids : j # work[r].i => message'[j] = message[j]
  BY <1>1 DEF MsgInv, MsgTypes
<1>4. OneOffice => (\A j \in Msg!Ids : StarsHold(j)') /\ \A q \in Slots : MarkCurrent(q)'
  BY <1>2, <1>3 DEF MsgInv, OneByOne, OneOffice, StarsHold, MarkCurrent
<1>5. \A j \in Msg!Ids : message'[j] = message[j] \/ (IsSaved(j) /\ IsSaved(j)')
  BY <1>3 DEF IsSaved, MsgInv, MsgTypes
<1>6. {work[r].pc, work'[r].pc} \cap (Sending \cup {"online", "leave"}) = {} /\ work'[r].pc \notin Markings
  BY <1>2 DEF Sending, Markings
<1> QED BY <1>2, <1>3, <1>4, <1>5, <1>6, MarkEffect

LEMMA MarkSaving ==
  ASSUME MsgInv, NEW r \in Slots,
         Msg!SaveStar(r) \/ Msg!SaveUnstar(r) \/ Msg!SaveEdit(r) \/ Msg!SaveDelete(r) \/ Msg!PushReaction(r)
  PROVE  MsgInv'
<1> DEFINE i == work[r].i
           p == work[r].p
           m == message[i]
<1>1. /\ work[r].pc \in Markings /\ Msg!Finish(r) /\ UNCHANGED <<told, left, count, room, online, socket, failures>>
  BY DEF Msg!SaveStar, Msg!SaveUnstar, Msg!SaveEdit, Msg!SaveDelete, Msg!PushReaction, Msg!At, Msg!fixed, Markings
<1>2. /\ i \in Msg!Ids /\ p \in Parties /\ m \in Texts /\ IsSaved(i) /\ m.v \in Nat /\ m.starredBy \in SUBSET Parties
      /\ m.starred \in BOOLEAN /\ m.reactions \in [Parties -> Nat] /\ work[r].seen \in Texts /\ m.delivery # "none"
  BY <1>1, MsgHandler DEF MsgInv, MsgTypes, Texts, IsSaved
<1>9. m.v + 1 \in Nat
  BY <1>2
<1>3. OneOffice => StarsHold(i) /\ MarkCurrent(r)
  BY <1>2 DEF MsgInv, OneByOne
<1>4. CASE Msg!SaveStar(r)
  <2> DEFINE b == m.starredBy \cup {p}
             t == IF TRUE = work[r].seen.starred THEN m.starred ELSE TRUE
             e == [m EXCEPT !.starredBy = b, !.v = m.v + 1, !.starred = t]
  <2>1. message' = [message EXCEPT ![i] = e]
    BY <1>2, <1>4 DEF Msg!SaveStar, Msg!Write
  <2>2. b \in SUBSET Parties /\ t \in BOOLEAN /\ b # {}
    BY <1>2
  <2>3. OneOffice => t = TRUE
    BY <1>2, <1>3, <1>4 DEF MarkCurrent, Msg!SaveStar, Msg!At
  <2> HIDE DEF m, b, t
  <2>4. e \in Texts /\ e.starredBy = b /\ e.starred = t /\ e.reactions = m.reactions /\ e.delivery = m.delivery
    BY <1>2, <1>9, <2>2, Zenon DEF Texts
  <2> HIDE DEF e
  <2> QED BY <1>1, <1>2, <1>3, <2>1, <2>2, <2>3, <2>4, MarkSaved DEF m, StarsHold
<1>5. CASE Msg!SaveUnstar(r)
  <2> DEFINE b == work[r].seen.starredBy \ {p}
             t == IF b = {} THEN (IF FALSE = work[r].seen.starred THEN m.starred ELSE FALSE) ELSE m.starred
             e == [m EXCEPT !.starredBy = b, !.v = m.v + 1, !.starred = t]
  <2>1. message' = [message EXCEPT ![i] = e] \/ message' = message
    BY <1>2, <1>5 DEF Msg!SaveUnstar, Msg!Write
  <2>2. b \in SUBSET Parties /\ t \in BOOLEAN
    BY <1>2 DEF Texts
  <2>3. OneOffice => (t = TRUE <=> b # {})
    BY <1>2, <1>3, <1>5 DEF MarkCurrent, StarsHold, Msg!SaveUnstar, Msg!At
  <2>5. message' = message => message' = [message EXCEPT ![i] = m]
    BY <1>2 DEF MsgInv, MsgTypes
  <2> HIDE DEF m, b, t
  <2>4. e \in Texts /\ e.starredBy = b /\ e.starred = t /\ e.reactions = m.reactions /\ e.delivery = m.delivery
    BY <1>2, <1>9, <2>2, Zenon DEF Texts
  <2> HIDE DEF e
  <2>6. CASE message' = [message EXCEPT ![i] = e]
    BY <1>1, <1>2, <1>3, <2>3, <2>4, <2>6, MarkSaved DEF m, StarsHold
  <2>7. CASE message' = message
    BY <1>1, <1>2, <1>3, <2>5, <2>7, MarkSaved DEF m, StarsHold
  <2> QED BY <2>1, <2>6, <2>7
<1>6. CASE Msg!SaveEdit(r)
  <2> DEFINE e == [m EXCEPT !.v = m.v + 1]
  <2>1. message' = [message EXCEPT ![i] = e]
    BY <1>2, <1>6 DEF Msg!SaveEdit
  <2> HIDE DEF m
  <2>4. /\ e \in Texts /\ e.starredBy = m.starredBy /\ e.starred = m.starred /\ e.reactions = m.reactions
        /\ e.delivery = m.delivery
    BY <1>2, <1>9, Zenon DEF Texts
  <2> HIDE DEF e
  <2> QED BY <1>1, <1>2, <1>3, <2>1, <2>4, MarkSaved DEF m, StarsHold
<1>7. CASE Msg!SaveDelete(r)
  <2> DEFINE e == [m EXCEPT !.hidden = TRUE]
  <2>1. message' = [message EXCEPT ![i] = e]
    BY <1>2, <1>7 DEF Msg!SaveDelete
  <2> HIDE DEF m
  <2>4. /\ e \in Texts /\ e.starredBy = m.starredBy /\ e.starred = m.starred /\ e.reactions = m.reactions
        /\ e.delivery = m.delivery
    BY <1>2, Zenon DEF Texts
  <2> HIDE DEF e
  <2> QED BY <1>1, <1>2, <1>3, <2>1, <2>4, MarkSaved DEF m, StarsHold
<1>8. CASE Msg!PushReaction(r)
  <2> DEFINE n == [m.reactions EXCEPT ![p] = m.reactions[p] + 1]
             e == [m EXCEPT !.reactions = n]
  <2>1. message' = [message EXCEPT ![i] = e]
    BY <1>2, <1>8 DEF Msg!PushReaction
  <2>2. n \in [Parties -> Nat] /\ (OneOffice => \A q \in Parties : n[q] <= 1)
    BY <1>2, <1>3, <1>8 DEF MarkCurrent, StarsHold, Msg!PushReaction, Msg!At
  <2> HIDE DEF m, n
  <2>4. e \in Texts /\ e.starredBy = m.starredBy /\ e.starred = m.starred /\ e.reactions = n /\ e.delivery = m.delivery
    BY <1>2, <1>9, <2>2, Zenon DEF Texts
  <2> HIDE DEF e
  <2> QED BY <1>1, <1>2, <1>3, <2>1, <2>2, <2>4, MarkSaved DEF m, StarsHold
<1> QED BY <1>4, <1>5, <1>6, <1>7, <1>8

\* What needs no slot, and the beginning of a message.
LEMMA OtherStep ==
  ASSUME MsgInv,
         \/ Msg!EndSession \/ \E i \in Msg!Ids, d \in {"sent", "delivered", "read"} : Msg!Receipt(i, d)
         \/ \E p \in Parties, i \in Msg!Ids : Msg!RemoveReaction(p, i)
         \/ \E r \in Slots, p \in Parties : Msg!SendMessage(r, p)
  PROVE  MsgInv'
<1>0. MsgTypes /\ (OneOffice => \A i \in Msg!Ids : StarsHold(i)) /\ (OneOffice => \A q \in Slots : MarkCurrent(q))
      /\ \A q \in Slots : work[q].pc \in Markings => work[q].i \in Msg!Ids
  BY MsgHandler DEF MsgInv, OneByOne
<1>1. ASSUME NEW i \in Msg!Ids, NEW e \in Texts, IsSaved(i), message' = [message EXCEPT ![i] = e], e.delivery # "none",
             e.starred = message[i].starred, e.starredBy = message[i].starredBy,
             \A p \in Parties : e.reactions[p] = message[i].reactions[p] \/ e.reactions[p] = 0,
             UNCHANGED <<told, left, count, room, online, socket, failures, work>>
      PROVE  MsgInv'
  <2>1. message' \in [Msg!Ids -> Texts] /\ message'[i] = e /\ \A j \in Msg!Ids : j # i => message'[j] = message[j]
    BY <1>0, <1>1 DEF MsgTypes
  <2>2. OneOffice => (\A j \in Msg!Ids : StarsHold(j)') /\ \A q \in Slots : MarkCurrent(q)'
    <3>1. ASSUME OneOffice, NEW j \in Msg!Ids PROVE StarsHold(j)'
      BY <1>0, <1>1, <2>1, <3>1 DEF StarsHold
    <3>2. ASSUME OneOffice, NEW q \in Slots PROVE MarkCurrent(q)'
      <4>1. work[q].pc \in Markings => work[q].p \in Parties
        BY MsgHandler, <1>0
      <4> QED BY <1>0, <1>1, <2>1, <3>2, <4>1 DEF MarkCurrent, Markings
    <3> QED BY <3>1, <3>2
  <2>3. \A j \in Msg!Ids : message'[j] = message[j] \/ (IsSaved(j) /\ IsSaved(j)')
    BY <1>1, <2>1 DEF IsSaved
  <2> QED BY <1>0, <1>1, <2>1, <2>2, <2>3, MarkEffect DEF MsgTypes
<1>2. ASSUME NEW i \in Msg!Ids, NEW d \in {"sent", "delivered", "read"}, Msg!Receipt(i, d) PROVE MsgInv'
  <2> DEFINE e == [message[i] EXCEPT !.delivery = d]
  <2>1. IsSaved(i) /\ message[i] \in Texts
    BY <1>0, <1>2, MsgSaved DEF Msg!Receipt, SavedSet, MsgTypes
  <2>2. message' = [message EXCEPT ![i] = e] /\ UNCHANGED <<told, left, count, room, online, socket, failures, work>>
    BY <1>2 DEF Msg!Receipt, Msg!fixed
  <2>3. /\ e \in Texts /\ e.delivery = d /\ e.starred = message[i].starred /\ e.starredBy = message[i].starredBy
        /\ e.reactions = message[i].reactions
    BY <2>1, Zenon DEF Texts
  <2> HIDE DEF e
  <2> QED BY <1>1, <2>1, <2>2, <2>3
<1>3. ASSUME NEW p \in Parties, NEW i \in Msg!Ids, Msg!RemoveReaction(p, i) PROVE MsgInv'
  <2> DEFINE n == [message[i].reactions EXCEPT ![p] = 0]
             e == [message[i] EXCEPT !.reactions = n]
  <2>1. IsSaved(i) /\ message[i] \in Texts
    BY <1>0, <1>3, MsgSaved DEF Msg!RemoveReaction, SavedSet, MsgTypes
  <2>2. message' = [message EXCEPT ![i] = e] /\ UNCHANGED <<told, left, count, room, online, socket, failures, work>>
    BY <1>3 DEF Msg!RemoveReaction, Msg!fixed
  <2>3. n \in [Parties -> Nat] /\ \A q \in Parties : n[q] = message[i].reactions[q] \/ n[q] = 0
    BY <2>1 DEF Texts
  <2> HIDE DEF n
  <2>4. /\ e \in Texts /\ e.delivery = message[i].delivery /\ e.starred = message[i].starred
        /\ e.starredBy = message[i].starredBy /\ e.reactions = n
    BY <2>1, <2>3, Zenon DEF Texts
  <2> HIDE DEF e
  <2> QED BY <1>1, <2>1, <2>2, <2>3, <2>4 DEF IsSaved
<1>4. CASE Msg!EndSession \/ \E r \in Slots, p \in Parties : Msg!SendMessage(r, p)
  <2>1. UNCHANGED <<message, told, left, count, room, online, socket, failures>>
    BY <1>4 DEF Msg!EndSession, Msg!SendMessage, Msg!fixed
  <2>2. work' \in [Slots -> RoomWorks]
        /\ \A q \in Slots : work'[q] = work[q] \/ (work[q].pc = "idle" /\ work'[q].pc = "save")
    <3>1. ASSUME NEW r \in Slots, NEW p \in Parties, Msg!SendMessage(r, p) PROVE <2>2!:
      <4>1. PICK h : h = [pc |-> "save", from |-> p]
        OBVIOUS
      <4>2. h \in RoomWorks /\ h.pc = "save"
        BY <4>1 DEF RoomWorks
      <4>3. work[r].pc = "idle" /\ work' = [work EXCEPT ![r] = h]
        BY <3>1, <4>1 DEF Msg!SendMessage, Msg!Begin, Msg!At
      <4> QED BY <1>0, <4>2, <4>3 DEF MsgTypes
    <3> QED BY <1>0, <1>4, <3>1 DEF Msg!EndSession, MsgTypes
  <2>3. \A q \in Slots : \/ work'[q] = work[q]
                         \/ {work[q].pc, work'[q].pc} \cap (Sending \cup {"online", "leave"}) = {} /\ work'[q].pc \notin Markings
    BY <2>2 DEF Sending, Markings
  <2>4. OneOffice => (\A j \in Msg!Ids : StarsHold(j)') /\ \A q \in Slots : MarkCurrent(q)'
    BY <1>0, <2>1, <2>2 DEF StarsHold, MarkCurrent
  <2> QED BY <1>0, <2>1, <2>2, <2>3, <2>4, MarkEffect DEF MsgTypes
<1> QED BY <1>2, <1>3, <1>4

\* A message is saved, counted, looked for and emitted.
LEMMA SendTypes ==
  ASSUME RoomAssumption, MsgInv, NEW r \in Slots, NEW h \in RoomWorks, work' = [work EXCEPT ![r] = h],
         work[r].pc \in Sending \cup {"save"}, h.pc \in Sending \cup {"idle"}, UNCHANGED <<room, online, socket>>,
         message' \in [Msg!Ids -> Texts],
         \A i \in Msg!Ids : message'[i] = message[i] \/
           (IsSaved(i)' /\ ~IsSaved(i) /\ message'[i].starred = FALSE /\ message'[i].starredBy = {}
            /\ \A p \in Parties : message'[i].reactions[p] = 0),
         told' \in [Msg!Ids -> SUBSET {"room", "push"}], count' \in Nat, failures' \in Nat
  PROVE  MsgTypes' /\ OneByOne' /\ work'[r] = h /\ \A q \in Slots : q # r => work'[q] = work[q]
<1>1. work' \in [Slots -> RoomWorks] /\ work'[r] = h /\ \A q \in Slots : q # r => work'[q] = work[q]
  BY MsgSlot DEF MsgInv
<1>2. \A q \in Slots : work[q].pc \in Markings => work[q].i \in Msg!Ids
  BY MsgHandler DEF MsgInv
<1>3. MsgTypes'
  <2>1. \A q \in Slots : work'[q].pc \in Markings => work[q].pc \in Markings /\ work'[q] = work[q]
    BY <1>1 DEF Sending, Markings
  <2>2. \A q \in Slots : work'[q].pc \in Markings => message'[work'[q].i].delivery # "none"
    BY <1>2, <2>1 DEF MsgInv, MsgTypes, IsSaved
  <2> QED BY <1>1, <2>2 DEF MsgInv, MsgTypes, IsSaved
<1>4. OneByOne'
  <2>1. OneOffice => InRoom'
    BY <1>1 DEF MsgInv, OneByOne, InRoom, Presents, Sending
  <2>2. OneOffice => \A i \in Msg!Ids : StarsHold(i)'
    BY DEF MsgInv, OneByOne, StarsHold
  <2>3. OneOffice => \A q \in Slots : MarkCurrent(q)'
    BY <1>1 DEF OneOffice, MarkCurrent, Sending
  <2> QED BY <2>1, <2>2, <2>3 DEF OneByOne, OneOffice
<1> QED BY <1>1, <1>3, <1>4

LEMMA MsgFinite ==
  ASSUME RoomAssumption
  PROVE  /\ IsFiniteSet(Coming) /\ IsFiniteSet(SavedSet) /\ Cardinality(Coming) \in Nat /\ Cardinality(SavedSet) \in Nat
         /\ \A r \in Slots : /\ r \notin Coming => Cardinality(Coming \cup {r}) = Cardinality(Coming) + 1
                             /\ r \in Coming => Cardinality(Coming \ {r}) = Cardinality(Coming) - 1
         /\ \A i \in Msg!Ids : i \notin SavedSet => Cardinality(SavedSet \cup {i}) = Cardinality(SavedSet) + 1
<1>1. IsFiniteSet(Slots) /\ IsFiniteSet(Msg!Ids)
  BY FS_Interval DEF RoomAssumption, Msg!Ids
<1>2. IsFiniteSet(Coming) /\ IsFiniteSet(SavedSet)
  BY <1>1, FS_Subset DEF Coming, SavedSet
<1> QED BY <1>2, FS_AddElement, FS_RemoveElement, FS_CardinalityType

LEMMA MessageSaved ==
  ASSUME RoomAssumption, MsgInv, NEW r \in Slots, Msg!SaveMessage(r) PROVE MsgInv'
<1>1. PICK i \in Msg!Ids :
        /\ i \notin Msg!Stored
        /\ message' = [message EXCEPT ![i] = [Msg!NoMessage EXCEPT !.from = work[r].from, !.delivery = "sending"]]
        /\ work' = [work EXCEPT ![r] = [pc |-> "count", i |-> i, to |-> Msg!Other(@.from), seen |-> {}, n |-> count]]
  BY DEF Msg!SaveMessage
<1>2. work[r].pc = "save" /\ UNCHANGED <<told, left, count, online, socket, room, failures>>
  BY DEF Msg!SaveMessage, Msg!At, Msg!fixed
<1>3. PICK p \in Parties : p = work[r].from
  BY <1>2, MsgHandler DEF MsgInv
<1>4. Msg!Other(p) \in Parties
  BY DEF RoomAssumption, Msg!Other
<1>5. PICK h : h = [pc |-> "count", i |-> i, to |-> Msg!Other(p), seen |-> {}, n |-> count]
  OBVIOUS
<1> DEFINE m == Msg!NoMessage
           e == [m EXCEPT !.from = p, !.delivery = "sending"]
<1>6. h \in RoomWorks /\ h.pc = "count" /\ h.i = i
  BY <1>4, <1>5 DEF RoomWorks, Sending, MsgInv, MsgTypes
<1>7. work' = [work EXCEPT ![r] = h] /\ message' = [message EXCEPT ![i] = e]
  BY <1>1, <1>3, <1>5 DEF MsgInv, MsgTypes
<1>8. m \in Texts /\ m.starred = FALSE /\ m.starredBy = {} /\ m.reactions = [q \in Parties |-> 0]
  BY MsgSaved DEF MsgInv, Msg!NoMessage
<1> HIDE DEF m
<1>9. e \in Texts /\ e.starred = m.starred /\ e.starredBy = m.starredBy /\ e.reactions = m.reactions /\ e.delivery = "sending"
  BY <1>8, Zenon DEF Texts
<1> HIDE DEF e
<1>10. message' \in [Msg!Ids -> Texts] /\ message'[i] = e /\ \A j \in Msg!Ids : j # i => message'[j] = message[j]
  BY <1>7, <1>9 DEF MsgInv, MsgTypes
<1>11. ~IsSaved(i)
  BY <1>1, MsgSaved DEF MsgInv, SavedSet
<1>12. MsgTypes' /\ OneByOne' /\ work'[r] = h /\ \A q \in Slots : q # r => work'[q] = work[q]
  <2>1. \A j \in Msg!Ids : message'[j] = message[j] \/
           (IsSaved(j)' /\ ~IsSaved(j) /\ message'[j].starred = FALSE /\ message'[j].starredBy = {}
            /\ \A q \in Parties : message'[j].reactions[q] = 0)
    BY <1>8, <1>9, <1>10, <1>11 DEF IsSaved
  <2>2. told' \in [Msg!Ids -> SUBSET {"room", "push"}] /\ count' \in Nat /\ failures' \in Nat
    BY <1>2 DEF MsgInv, MsgTypes
  <2> QED BY <1>2, <1>6, <1>7, <1>10, <2>1, <2>2, SendTypes DEF Sending
<1>13. Reaching'
  BY <1>2, <1>6, <1>9, <1>10, <1>12 DEF MsgInv, Reaching, IsSaved, Sending
<1>14. Coming' = Coming \cup {r} /\ r \notin Coming /\ SavedSet' = SavedSet \cup {i} /\ i \notin SavedSet
  BY <1>2, <1>6, <1>9, <1>10, <1>11, <1>12 DEF Coming, SavedSet, IsSaved
<1>15. Tally'
  BY <1>2, <1>14, MsgFinite DEF MsgInv, MsgTypes, Tally
<1> QED BY <1>12, <1>13, <1>15 DEF MsgInv

LEMMA MessageSent ==
  ASSUME RoomAssumption, MsgInv, NEW r \in Slots, Msg!CountMessage(r) \/ Msg!Look(r) \/ Msg!Emit(r) PROVE MsgInv'
<1> DEFINE w == work[r]
           S == [pc : Sending, i : Msg!Ids, to : Parties, seen : SUBSET Sockets, n : Nat]
<1>1. w.pc \in Sending /\ UNCHANGED <<message, left, online, socket, room>>
  BY DEF Msg!CountMessage, Msg!Look, Msg!Emit, Msg!At, Sending, Msg!fixed
<1>2. w \in S
  BY <1>1, MsgHandler DEF MsgInv
<1>3. message' \in [Msg!Ids -> Texts] /\ told \in [Msg!Ids -> SUBSET {"room", "push"}] /\ count \in Nat /\ failures \in Nat
      /\ room \subseteq Sockets /\ \A p \in Parties : socket[p][1] = p
  BY <1>1 DEF MsgInv, MsgTypes
<1>4. ASSUME NEW h \in RoomWorks, work' = [work EXCEPT ![r] = h], h.pc \in Sending \cup {"idle"},
             told' \in [Msg!Ids -> SUBSET {"room", "push"}], count' \in Nat, failures' \in Nat
      PROVE  MsgTypes' /\ OneByOne' /\ work'[r] = h /\ \A q \in Slots : q # r => work'[q] = work[q]
  BY <1>1, <1>3, <1>4, SendTypes
<1>5. SavedSet' = SavedSet
  BY <1>1 DEF SavedSet, IsSaved
<1>6. CASE Msg!CountMessage(r)
  <2> DEFINE h == [w EXCEPT !.pc = "look"]
  <2>1. /\ w.pc = "count" /\ work' = [work EXCEPT ![r] = h] /\ told' = told
        /\ \/ count' = count + 1 /\ failures' = failures
           \/ count' = count /\ failures' = failures + 1
    BY <1>6 DEF Msg!CountMessage, Msg!At, Msg!Goto
  <2> HIDE DEF w
  <2>2. h \in S /\ h.pc = "look" /\ h.i = w.i
    BY <1>2, Zenon DEF Sending
  <2> HIDE DEF h
  <2>3. h \in RoomWorks /\ h.pc \in Sending
    BY <2>2 DEF RoomWorks
  <2>4. count' \in Nat /\ failures' \in Nat /\ (failures' = 0 => failures = 0 /\ count' = count + 1)
    BY <1>3, <2>1
  <2>5. MsgTypes' /\ OneByOne' /\ work'[r] = h /\ \A q \in Slots : q # r => work'[q] = work[q]
    BY <1>3, <1>4, <2>1, <2>3, <2>4
  <2>6. Reaching'
    BY <1>1, <2>1, <2>2, <2>3, <2>5 DEF MsgInv, Reaching, IsSaved, Sending, w
  <2>7. Coming' = Coming \ {r} /\ r \in Coming
    BY <2>1, <2>2, <2>5 DEF Coming, w
  <2>8. Tally'
    BY <1>3, <1>5, <2>1, <2>4, <2>7, MsgFinite DEF MsgInv, Tally
  <2> QED BY <2>5, <2>6, <2>8 DEF MsgInv
<1>7. CASE Msg!Look(r)
  <2> DEFINE h == [w EXCEPT !.pc = "emit", !.seen = room]
  <2>1. w.pc = "look" /\ work' = [work EXCEPT ![r] = h] /\ UNCHANGED <<told, count, failures>>
    BY <1>7 DEF Msg!Look, Msg!At, Msg!fixed
  <2> HIDE DEF w
  <2>2. h \in S /\ h.pc = "emit" /\ h.i = w.i /\ h.seen = room
    BY <1>2, <1>3, Zenon DEF Sending
  <2> HIDE DEF h
  <2>3. h \in RoomWorks /\ h.pc \in Sending
    BY <2>2 DEF RoomWorks
  <2>5. MsgTypes' /\ OneByOne' /\ work'[r] = h /\ \A q \in Slots : q # r => work'[q] = work[q]
    BY <1>3, <1>4, <2>1, <2>3
  <2>6. Reaching'
    BY <1>1, <2>1, <2>2, <2>3, <2>5 DEF MsgInv, Reaching, IsSaved, Sending, w
  <2>7. Coming' = Coming
    BY <2>1, <2>2, <2>5 DEF Coming, w
  <2> QED BY <1>5, <2>1, <2>5, <2>6, <2>7 DEF MsgInv, Tally
<1>8. CASE Msg!Emit(r)
  <2> DEFINE ways == (IF \E k \in room : k[1] = w.to THEN {"room"} ELSE {}) \cup
                     (IF socket[w.to] \in w.seen THEN {} ELSE {"push"})
  <2>1. w.pc = "emit" /\ work' = [work EXCEPT ![r] = Msg!Idle] /\ told' = [told EXCEPT ![w.i] = ways]
        /\ UNCHANGED <<count, failures>>
    BY <1>8 DEF Msg!Emit, Msg!At, Msg!Finish, Msg!Owner
  <2>2. ways = {} => w.i \in left
    BY <1>2, <1>3, <2>1 DEF MsgInv, Reaching
  <2>3. ways \in SUBSET {"room", "push"} /\ w.i \in Msg!Ids
    BY <1>2
  <2> HIDE DEF ways
  <2>4. told' \in [Msg!Ids -> SUBSET {"room", "push"}] /\ told'[w.i] = ways /\ \A j \in Msg!Ids : j # w.i => told'[j] = told[j]
    BY <1>3, <2>1, <2>3
  <2>5. MsgTypes' /\ OneByOne' /\ work'[r] = Msg!Idle /\ \A q \in Slots : q # r => work'[q] = work[q]
    BY <1>3, <1>4, <2>1, <2>4, MsgIdle
  <2>6. Reaching'
    BY <1>1, <2>1, <2>2, <2>4, <2>5, MsgIdle DEF MsgInv, Reaching, IsSaved, Sending
  <2>7. Coming' = Coming
    BY <2>1, <2>5, MsgIdle DEF Coming
  <2> QED BY <1>5, <2>1, <2>5, <2>6, <2>7 DEF MsgInv, Tally
<1> QED BY <1>6, <1>7, <1>8

LEMMA MsgInvariance == ASSUME RoomAssumption PROVE Msg!Spec => []MsgInv
<1>1. Msg!Init => MsgInv
  <2> SUFFICES ASSUME Msg!Init PROVE MsgInv
    OBVIOUS
  <2>1. work = [r \in Slots |-> Msg!Idle] /\ message = [i \in Msg!Ids |-> Msg!NoMessage] /\ count = 0 /\ failures = 0
        /\ socket = [p \in Parties |-> <<p, 0>>] /\ online = [p \in Parties |-> FALSE] /\ room = {}
        /\ told = [i \in Msg!Ids |-> {}] /\ left = {}
    BY DEF Msg!Init, Msg!NoHandler
  <2>2. /\ Msg!NoMessage \in Texts /\ Msg!NoMessage.delivery = "none" /\ Msg!NoMessage.starred = FALSE
        /\ Msg!NoMessage.starredBy = {} /\ Msg!NoMessage.reactions = [p \in Parties |-> 0]
    BY DEF Msg!NoMessage, Texts
  <2>3. MsgTypes /\ Reaching
    BY <2>1, <2>2, MsgIdle DEF MsgTypes, Reaching, IsSaved, Markings
  <2>4. Coming = {} /\ SavedSet = {}
    BY <2>1, <2>2, MsgIdle DEF Coming, SavedSet, IsSaved
  <2>5. Tally
    BY <2>1, <2>4, FS_EmptySet DEF Tally
  <2>6. OneByOne
    BY <2>1, <2>2, MsgIdle DEF OneByOne, InRoom, Presents, StarsHold, MarkCurrent
  <2> QED BY <2>3, <2>5, <2>6 DEF MsgInv
<1>2. MsgInv /\ UNCHANGED Msg!evars => MsgInv'
  <2> SUFFICES ASSUME MsgInv, UNCHANGED Msg!evars PROVE MsgInv'
    OBVIOUS
  <2>1. UNCHANGED <<message, told, left, count, room, online, socket, failures, work>>
    BY DEF Msg!evars
  <2> QED BY <2>1, MarkEffect DEF MsgInv, MsgTypes, OneByOne, StarsHold, MarkCurrent
<1>3. ASSUME MsgInv, NEW r \in Slots, NEW p \in Parties, NEW i \in Msg!Ids,
             Msg!StarMessage(r, p, i) \/ Msg!UnstarMessage(r, p, i) \/ Msg!EditMessage(r, p, i)
             \/ Msg!DeleteMessage(r, p, i) \/ Msg!AddReaction(r, p, i)
      PROVE  MsgInv'
  BY <1>3, MarkBegun DEF Msg!StarMessage, Msg!UnstarMessage, Msg!EditMessage, Msg!DeleteMessage, Msg!AddReaction, Markings
<1>4. MsgInv /\ Msg!Next => MsgInv'
  BY <1>3, RoomStep, MarkSaving, OtherStep, MessageSaved, MessageSent DEF Msg!Next, Msg!MessageEvents
<1> QED BY <1>1, <1>2, <1>4, PTL DEF Msg!Spec

\* Any requests overlap, sockets come and go: a message that was saved reached its
\* receiver by the room or by push, unless they left between the look into the
\* room and the emit.
THEOREM MessageIsTold == ASSUME RoomAssumption PROVE Msg!Spec => []Msg!EveryMessageIsTold
<1>1. MsgInv => Msg!EveryMessageIsTold
  <2> SUFFICES ASSUME MsgInv, NEW i \in Msg!Stored, ~Msg!InProgress(i) PROVE told[i] # {} \/ i \in left
    BY DEF Msg!EveryMessageIsTold
  <2>1. i \in Msg!Ids /\ IsSaved(i)
    BY MsgSaved DEF MsgInv, SavedSet
  <2> QED BY <2>1 DEF MsgInv, Reaching, Msg!InProgress, Sending
<1> QED BY <1>1, MsgInvariance, PTL

\* However messages overlap, the session counts each once; until an increment
\* failed, it counts all.
THEOREM MessagesAreCounted == ASSUME RoomAssumption PROVE Msg!Spec => []Msg!MessagesCounted
<1>1. MsgInv => Msg!MessagesCounted
  <2> SUFFICES ASSUME MsgInv PROVE Msg!MessagesCounted
    OBVIOUS
  <2>1. {r \in Slots : Msg!At(r, "count")} = Coming /\ Msg!Stored = SavedSet
    BY MsgSaved DEF Coming, Msg!At, MsgInv
  <2>2. Msg!Cardinality(Coming) = Cardinality(Coming) /\ Msg!Cardinality(SavedSet) = Cardinality(SavedSet)
    BY DEF Msg!Cardinality, Cardinality
  <2> QED BY <2>1, <2>2 DEF Msg!MessagesCounted, MsgInv, Tally
<1> QED BY <1>1, MsgInvariance, PTL

LEMMA MsgAlone == ASSUME RoomAssumption, MsgInv, Msg!OneAtATime PROVE OneOffice /\ OneByOne /\ \E r \in Slots : TRUE
<1>1. Msg!Cardinality(Slots) = Cardinality(Slots) /\ DOMAIN work = Slots
  BY DEF Msg!Cardinality, Cardinality, MsgInv, MsgTypes
<1>2. Cardinality(Slots) = 1
  BY <1>1 DEF Msg!OneAtATime, Msg!Cardinality, Cardinality
<1>3. PICK r : Slots = {r}
  BY <1>2, FS_Singleton DEF RoomAssumption
<1> QED BY <1>3 DEF OneOffice, MsgInv, OneByOne

\* One request at a time, over receipts in any order: a message is listed as
\* starred just if somebody has starred it.
THEOREM MessageStarsAgree == ASSUME RoomAssumption PROVE Msg!Spec => []Msg!StarsAgree
<1>1. MsgInv => Msg!StarsAgree
  BY MsgAlone, MsgSaved DEF OneByOne, StarsHold, Msg!StarsAgree, SavedSet, MsgInv, MsgTypes, Texts
<1> QED BY <1>1, MsgInvariance, PTL

\* One request at a time, a party reacts once with an emoji.
THEOREM MessageReactedOnce == ASSUME RoomAssumption PROVE Msg!Spec => []Msg!ReactedOnce
<1>1. MsgInv => Msg!ReactedOnce
  BY MsgAlone DEF OneByOne, StarsHold, Msg!ReactedOnce
<1> QED BY <1>1, MsgInvariance, PTL

\* One event at a time, between events the document says who has a socket in the
\* chat, whichever tab replaces another.
THEOREM MessagePresence == ASSUME RoomAssumption PROVE Msg!Spec => []Msg!PresenceAgrees
<1>1. MsgInv => Msg!PresenceAgrees
  BY MsgAlone DEF OneByOne, InRoom, Presents, Msg!PresenceAgrees, Msg!Quiet, Msg!At, MsgInv, MsgTypes
<1> QED
  BY <1>1, MsgInvariance, PTL
================
