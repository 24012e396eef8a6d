-------- MODULE Availability --------
(***************************************************************************)
(* Whether an astrologer may be asked: the availability flags, which every *)
(* chat, call and stream of the astrologer writes, and the check that reads *)
(* them and the sessions (AvailabilityService).  A session is known by its *)
(* status and its timer only: how its documents race and what it costs is  *)
(* in modules ChatSession and CallSession.  Here the save of a document is *)
(* one step and the write of the flags another.  Time passes in minutes.   *)
(***************************************************************************)
EXTENDS Handlers

CONSTANTS Sessions, UserOf, Longest, MaxOthers, MaxFailures, MaxRestarts

VARIABLES
  ses,         \* sessions: status, kind, age in its stage, limit, minutes its timer has left
  flag,        \* isAvailable, and the minutes that busyUntil is ahead; 0: it has passed
  online, live, \* isOnline, isLive
  byHand,      \* isAvailable was turned off with the toggle, and is off since
  others,      \* writes of the flags that no session's own steps made
  failures, restarts

avars == <<ses, flag, online, live, byHand, others, failures, restarts, work>>

None == -1
Pending == {"initiated", "waiting"}
Live == Pending \cup {"active"}   \* the other statuses are "none" and "over"
NoSession == [status |-> "none", kind |-> "chat", age |-> 0, limit |-> 0, left |-> None, continued |-> FALSE]
OldestAge == 7

----------------
Init ==
  /\ ses = [s \in Sessions |-> NoSession] /\ flag = [free |-> TRUE, until |-> None]
  /\ online = TRUE /\ live = FALSE /\ byHand = FALSE /\ others = 0 /\ failures = 0 /\ restarts = 0 /\ NoHandler

SetBusy(n) == flag' = [free |-> FALSE, until |-> n] /\ byHand' = FALSE
SetAvailable == flag' = [free |-> TRUE, until |-> None] /\ byHand' = FALSE
KeepFlags == UNCHANGED <<flag, byHand>>
SameRest == UNCHANGED <<online, live, others, failures, restarts>>

\* A session of another user: a user's own do not stand in the way.
HasActiveChat(u) == \E s \in Sessions : ses[s].status \in Live /\ ses[s].kind = "chat" /\ UserOf[s] # u
HasActiveSession(u) == \E s \in Sessions : ses[s].status \in Live /\ UserOf[s] # u

\* busyUntil has passed: the flag is stale, whoever turned it off.
Lapsed == ~live /\ ~flag.free /\ flag.until = 0
IsAvailableNow(u) ==
  /\ ~live /\ flag.until <= 0 /\ (flag.free \/ Lapsed)
  /\ ~HasActiveSession(u) /\ online

\* What users are shown.
RealTimeStatus ==
  CASE live -> "live" [] ~live /\ ~online -> "offline"
    [] OTHER -> IF flag.until > 0 \/ (flag.until = None /\ ~flag.free) THEN "busy" ELSE "online"

\* A timer that is due fires before anything else happens.
Due(s) == ses[s].status \in Live /\ ses[s].left = 0
NothingDue == \A s \in Sessions : ~Due(s)

Mine(u, kind) == {s \in Sessions : ses[s].status \in Live /\ ses[s].kind = kind /\ UserOf[s] = u}
\* The requests a user left behind five minutes ago are cancelled at the next one.
Dropped(u, kind) == {s \in Mine(u, kind) : ses[s].status \in Pending /\ ses[s].age > 5}
Over(x) == [NoSession EXCEPT !.status = "over", !.kind = x.kind, !.continued = x.continued]
Cancelled(dropped) == [s \in Sessions |-> IF s \in dropped THEN Over(ses[s]) ELSE ses[s]]
Unheard(s) == ses[s].status = "none" /\ \A r \in Slots : ~At(r, "idle") => work[r].s # s

Initiate(r, s, kind, pays) ==
  LET u == UserOf[s] IN
    /\ NothingDue /\ Unheard(s) /\ ses' = Cancelled(Dropped(u, kind))
    /\ IF Mine(u, kind) # Dropped(u, kind) THEN KeepFlags ELSE IF Lapsed THEN SetAvailable ELSE KeepFlags
    /\ IF Mine(u, kind) = Dropped(u, kind) /\ IsAvailableNow(u) /\ pays
       THEN Begin(r, [pc |-> "save", s |-> s, kind |-> kind, continued |-> FALSE])
       ELSE At(r, "idle") /\ UNCHANGED work
    /\ SameRest

\* A chat is continued whoever the astrologer talks to.
ContinueChat(r, s) ==
  /\ NothingDue /\ Unheard(s) /\ Begin(r, [pc |-> "save", s |-> s, kind |-> "chat", continued |-> TRUE])
  /\ UNCHANGED ses /\ KeepFlags /\ SameRest
\* To continue a call, the astrologer is first marked available, talking or not.
ContinueCall(r, s, pays) ==
  /\ NothingDue /\ Unheard(s) /\ Mine(UserOf[s], "call") = {}
  /\ \E t \in Sessions : ses[t].kind = "call" /\ ses[t].status = "over" /\ UserOf[t] = UserOf[s]
  /\ others < MaxOthers /\ others' = others + 1 /\ SetAvailable
  /\ IF pays THEN Begin(r, [pc |-> "save", s |-> s, kind |-> "call", continued |-> TRUE])
     ELSE At(r, "idle") /\ UNCHANGED work
  /\ UNCHANGED <<ses, online, live, failures, restarts>>

\* A continued chat does not mark the astrologer busy, a continued call has no timer.
SaveRequest(r) ==
  LET w == work[r] IN
    /\ At(r, "save")
    /\ ses' = [ses EXCEPT ![w.s] = [NoSession EXCEPT !.status = "initiated", !.kind = w.kind, !.continued = w.continued,
                                      !.left = IF w.kind = "call" /\ w.continued THEN None ELSE 3]]
    /\ IF w.kind = "chat" /\ w.continued THEN Finish(r) ELSE work' = [work EXCEPT ![r] = [pc |-> "busy", s |-> w.s, n |-> 3]]
    /\ KeepFlags /\ SameRest

\* The astrologer accepts; the user has a minute to join.
Accept(r, s) ==
  /\ NothingDue /\ ses[s].status = "initiated" /\ Begin(r, [pc |-> "busy", s |-> s, n |-> 2])
  /\ ses' = [ses EXCEPT ![s].status = "waiting", ![s].left = 1] /\ KeepFlags /\ SameRest
MarkBusy(r) ==
  /\ At(r, "busy") /\ SetBusy(work[r].n) /\ Finish(r)
  /\ UNCHANGED ses /\ SameRest

\* Both have joined: the flags are written before the session.
StartSession(r, s, n) ==
  /\ NothingDue /\ ses[s].status = "waiting" /\ Begin(r, [pc |-> "starting", s |-> s, n |-> n])
  /\ SetBusy(n) /\ UNCHANGED ses /\ SameRest
SaveStart(r) ==
  /\ At(r, "starting") /\ Finish(r) /\ KeepFlags /\ SameRest
  /\ ses' = [ses EXCEPT ![work[r].s] = [@ EXCEPT !.status = "active", !.age = 0, !.limit = work[r].n, !.left = work[r].n]]

\* Fault: the extension is not marked.
ExtendSessionOnly(r, s, n) ==
  /\ NothingDue /\ ses[s].status = "active" /\ n > ses[s].limit /\ At(r, "idle") /\ UNCHANGED work
  /\ ses' = [ses EXCEPT ![s].limit = n, ![s].left = n] /\ KeepFlags /\ SameRest
\* After a recharge the session may take as long again as the wallet affords.
ExtendSession(r, s, n) ==
  /\ NothingDue /\ ses[s].status = "active" /\ n > ses[s].limit /\ Begin(r, [pc |-> "busy", s |-> s, n |-> n])
  /\ ses' = [ses EXCEPT ![s].limit = n, ![s].left = n] /\ KeepFlags /\ SameRest

Close(r, s, next) ==
  /\ Begin(r, [pc |-> next, s |-> s])
  /\ ses' = [ses EXCEPT ![s] = Over(@)] /\ KeepFlags /\ SameRest
\* A rejection, and the cancellation of a chat, free the astrologer once more
\* when they clear the order.
RejectOrCancel(r, s) ==
  /\ NothingDue /\ ses[s].status \in Pending
  /\ \/ Close(r, s, "free twice")
     \/ ses[s].kind = "call" /\ Close(r, s, "free")
EndSession(r, s) == NothingDue /\ ses[s].status = "active" /\ Close(r, s, "free")
TimerFires(r, s) == Due(s) /\ Close(r, s, "free")
\* Every minute: what no timer of this process closes.
CleanupPending(r, s) == ses[s].status \in Pending /\ ses[s].age > 5 /\ Close(r, s, "free")
Stale(s) == ses[s].status = "active" /\ ses[s].age > ses[s].limit
\* Fault: a session whose timer was lost is left alone.
HandleStaleTimed(r, s) == Stale(s) /\ ses[s].left # None /\ Close(r, s, "free")
HandleStale(r, s) == Stale(s) /\ Close(r, s, "free")

Free(r) ==
  /\ At(r, "free") \/ At(r, "free twice")
  /\ IF At(r, "free") THEN Finish(r) ELSE Goto(r, "free")
  /\ SetAvailable /\ UNCHANGED ses /\ SameRest

HandlerThrows(r) ==
  /\ ~At(r, "idle") /\ failures < MaxFailures /\ failures' = failures + 1 /\ Finish(r)
  /\ UNCHANGED <<ses, online, live, others, restarts>> /\ KeepFlags

----------------
Other ==
  /\ NothingDue /\ others < MaxOthers /\ others' = others + 1
  /\ UNCHANGED <<ses, failures, restarts, work>>
\* updateAvailability: either toggle; turning isOnline resets the rest.
TurnOnline(on) == Other /\ online' = on /\ SetAvailable /\ UNCHANGED live
TurnAvailable(on) == Other /\ flag' = [flag EXCEPT !.free = on] /\ byHand' = ~on /\ UNCHANGED <<online, live>>
GoLive == Other /\ live' = TRUE /\ online' = TRUE /\ flag' = [flag EXCEPT !.free = FALSE] /\ UNCHANGED byHand
\* Fault: the stream's end leaves isAvailable as it is.
EndLiveOnly ==
  /\ NothingDue /\ live /\ live' = FALSE /\ KeepFlags
  /\ UNCHANGED <<ses, online, others, failures, restarts, work>>
EndLive ==
  /\ NothingDue /\ live /\ live' = FALSE /\ flag' = [flag EXCEPT !.free = TRUE] /\ byHand' = FALSE
  /\ UNCHANGED <<ses, online, others, failures, restarts, work>>
Logout == Other /\ online' = FALSE /\ live' = FALSE /\ flag' = [flag EXCEPT !.free = FALSE] /\ UNCHANGED byHand
\* A user cancels the conversation's order, whatever goes on in it.
CancelOrder == Other /\ SetAvailable /\ UNCHANGED <<online, live>>

Minute ==
  /\ NothingDue /\ Quiet
  /\ ses' = [s \in Sessions |->
       IF ses[s].status \notin Live THEN ses[s]
       ELSE [ses[s] EXCEPT !.age = IF @ < OldestAge THEN @ + 1 ELSE @, !.left = IF @ > 0 THEN @ - 1 ELSE @]]
  /\ flag' = [flag EXCEPT !.until = IF @ > 0 THEN @ - 1 ELSE @]
  /\ UNCHANGED <<byHand, work>> /\ SameRest

\* Timers and handlers are lost.
Restart ==
  /\ restarts < MaxRestarts /\ restarts' = restarts + 1
  /\ ses' = [s \in Sessions |-> [ses[s] EXCEPT !.left = None]] /\ work' = [r \in Slots |-> Idle]
  /\ UNCHANGED <<online, live, others, failures>> /\ KeepFlags

Continues(r) == SaveRequest(r) \/ MarkBusy(r) \/ SaveStart(r) \/ Free(r)
Asks(r, s) ==
  \/ \E kind \in {"chat", "call"}, pays \in BOOLEAN : Initiate(r, s, kind, pays)
  \/ ContinueChat(r, s) \/ \E pays \in BOOLEAN : ContinueCall(r, s, pays)
Next ==
  \/ \E r \in Slots : Continues(r) \/ HandlerThrows(r)
  \/ \E r \in Slots, s \in Sessions : Asks(r, s) \/ Accept(r, s) \/ RejectOrCancel(r, s) \/ EndSession(r, s)
  \/ \E r \in Slots, s \in Sessions : TimerFires(r, s) \/ CleanupPending(r, s) \/ HandleStale(r, s)
  \/ \E r \in Slots, s \in Sessions, n \in 1..Longest : StartSession(r, s, n) \/ ExtendSession(r, s, n)
  \/ \E on \in BOOLEAN : TurnOnline(on) \/ TurnAvailable(on)
  \/ GoLive \/ EndLive \/ Logout \/ CancelOrder \/ Minute \/ Restart

Spec == Init /\ [][Next]_avars

----------------
TypeOK ==
  /\ \A s \in Sessions : /\ ses[s].status \in Live \cup {"none", "over"}
                         /\ ses[s].age \in 0..OldestAge /\ ses[s].left \in None..(3 + Longest)
  /\ flag.free \in BOOLEAN /\ flag.until \in None..(3 + Longest)
  /\ {online, live, byHand} \subseteq BOOLEAN /\ DOMAIN work = Slots

\* One request at a time, an astrologer who is in a chat or a call is not
\* asked by a second user, unless that user continues an earlier session.
StrangerIsKeptOut ==
  OneAtATime =>
    \A s, t \in Sessions :
      (ses[s].status \in Live /\ ses[t].status \in Live /\ UserOf[s] # UserOf[t]) =>
        (ses[s].continued \/ ses[t].continued)

\* One request at a time, and until something else writes the flags, an
\* astrologer is shown as busy for as long as a session lasts, its
\* extensions included.
BusyWhileActive ==
  (OneAtATime /\ others = 0 /\ failures = 0 /\ restarts = 0 /\ Quiet) =>
    \A s \in Sessions :
      (ses[s].status = "active" /\ ses[s].left > 0 /\ \A t \in Sessions : ~ses[t].continued) =>
        RealTimeStatus = "busy" /\ flag.until >= ses[s].left

\* However handlers overlap, fail or are lost, an astrologer who is online is
\* marked unavailable for good only by the toggle or while on a stream.
NeverStuck == (online /\ ~flag.free /\ flag.until = None) => (byHand \/ live)

Askable == flag.until <= 0 /\ (flag.free \/ flag.until = 0) /\ \A s \in Sessions : ses[s].status \notin Live
Unasked == online /\ ~live /\ ~byHand /\ ~Askable
\* A session that a handler or a timer was lost for is over in the end, and
\* the astrologer can be asked again unless the astrologer does not want it.
AskedAgain == []<>~Unasked
================
