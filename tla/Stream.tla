-------- MODULE Stream --------
(***************************************************************************)
(* A live stream: the waitlist for a call with the host, the call and its  *)
(* bill, gifts, and the end of the stream.  Its audience is in Audience.   *)
(*                                                                         *)
(* Every handler reads the stream document, awaits other documents, and    *)
(* saves the fields it changed.  Mongoose protects the waitlist alone: a   *)
(* push or a replacement of the array raises the version of the document,  *)
(* and a save that sets an element or replaces the array fails when the    *)
(* version it read has been raised (a handler's "fresh").                  *)
(*                                                                         *)
(* A handler holds a slot with what it has read, and its steps are its     *)
(* database calls.  An instance with one slot shows what the code promises *)
(* one request after the other, an instance with two what survives a race. *)
(***************************************************************************)
EXTENDS Handlers, Sequences, SequencesExt, FiniteSetTheorems, SequenceTheorems, TLAPS

CONSTANTS
  Viewers,
  MaxStreams, MaxCalls,   \* bounds on the documents that are created
  Price,       \* per minute of a call
  Opening,     \* a viewer's balance at first
  Lengths,     \* the billed minutes of a call
  GiftAmount,
  MaxWaiting,  \* bound on the waitlist
  MaxFailures, \* bound on restarts and failing handlers
  NoOne

ASSUME StreamAssumption ==
  /\ IsFiniteSet(Slots)
  /\ Price \in Nat \ {0} /\ Lengths \subseteq Nat \ {0}   \* at least a minute is billed
  /\ Opening \in Nat /\ GiftAmount \in Nat
  /\ MaxStreams \in Nat /\ MaxCalls \in Nat /\ MaxFailures \in Nat

ASSUME NobodyAssumption == NoOne \notin Viewers

VARIABLES
  stream,    \* stream[s]: the stream document
  deal,      \* deal[t]: the call transaction
  host,      \* the astrologer's availability: the stream it names, 0 if none
  timer,     \* streams with an interval in activeTimers
  failures,
  purse,     \* purse[u]: wallet balance
  charged,   \* charged[t]: paid for the call (history)
  bills,     \* bills[t]: how often it was paid (history)
  received   \* received[s]: paid for calls and gifts of the stream (history)

money == <<purse, charged, bills, received>>
vars == <<stream, deal, host, timer, work, failures, money>>

----------------
Streams == 1..MaxStreams
Deals == 1..MaxCalls

NoStream == [status |-> "none", call |-> NoOne, waitlist |-> <<>>, revenue |-> 0]
NoDeal == [s |-> 0, u |-> NoOne, status |-> "none", total |-> 0]

Live(s) == stream[s].status = "live"
OnCall(s) == stream[s].call # NoOne
Waiting(s, u) == {i \in DOMAIN stream[s].waitlist :
                    stream[s].waitlist[i] = [user |-> u, status |-> "waiting"]}
Ongoing(s) == {t \in Deals : deal[t].status = "ongoing" /\ deal[t].s = s}
UnusedStreams == {s \in Streams : stream[s].status = "none"}
UnusedDeals == {t \in Deals : deal[t].status = "none"}

\* then: where the handler goes on after endCurrentCall.
Handler(pc, s, u, then) ==
  [pc |-> pc, s |-> s, u |-> u, then |-> then, t |-> 0, n |-> 0, ok |-> FALSE,
   rev |-> 0, list |-> <<>>, fresh |-> TRUE, relive |-> FALSE]

\* The version of stream s is raised: copies read before are stale.  Slot r
\* goes on with h.
Raise(r, s, h) ==
  work' = [q \in Slots |-> IF q = r THEN h
                           ELSE IF At(q, "idle") \/ work[q].s # s THEN work[q]
                           ELSE [work[q] EXCEPT !.fresh = FALSE]]

Cost(n) == n * Price
Affords(u) == purse[u] >= 5 * Price

----------------
Init ==
  /\ stream = [s \in Streams |-> NoStream]
  /\ deal = [t \in Deals |-> NoDeal]
  /\ host = 0 /\ timer = {}
  /\ NoHandler /\ failures = 0
  /\ purse = [u \in Viewers |-> Opening]
  /\ charged = [t \in Deals |-> 0] /\ bills = [t \in Deals |-> 0]
  /\ received = [s \in Streams |-> 0]

(* The stream goes live, and ends. *)

\* Fault: a stream that is live already is left alone.
GoLiveAgain(r) ==
  /\ Begin(r, [Handler("create", 0, NoOne, "idle") EXCEPT !.relive = TRUE])
  /\ UNCHANGED <<stream, deal, host, timer, failures, money>>
\* goLive ends the stream it finds live before it creates another.
GoLive(r) ==
  /\ \/ \E s \in Streams :
          Live(s) /\ Begin(r, [Handler("stop", s, NoOne, "close") EXCEPT !.relive = TRUE])
     \/ /\ \A s \in Streams : ~Live(s)
        /\ Begin(r, [Handler("create", 0, NoOne, "idle") EXCEPT !.relive = TRUE])
  /\ UNCHANGED <<stream, deal, host, timer, failures, money>>

Create(r) ==
  /\ At(r, "create")
  /\ \E s \in UnusedStreams :
       /\ \A q \in UnusedStreams : s <= q
       /\ stream' = [stream EXCEPT ![s].status = "live"]
       /\ work' = [work EXCEPT ![r].pc = "flag", ![r].s = s]
  /\ UNCHANGED <<deal, host, timer, failures, money>>

\* The recording is started and saved; then availability names the stream.
FlagLive(r) ==
  /\ At(r, "flag") /\ host' = work[r].s /\ Finish(r)
  /\ UNCHANGED <<stream, deal, timer, failures, money>>

\* endStream: the host over REST, a lost socket, 30 seconds without heartbeat.
EndStream(r, s) ==
  /\ stream[s].status # "none" /\ Begin(r, Handler("stop", s, NoOne, "close"))
  /\ UNCHANGED <<stream, deal, host, timer, failures, money>>

\* forceEndStreamAdmin ends the call it sees, then the stream.
ForceEnd(r, s) ==
  /\ Live(s)
  /\ Begin(r, Handler(IF OnCall(s) THEN "end" ELSE "stop", s, NoOne,
                      IF OnCall(s) THEN "stop" ELSE "close"))
  /\ UNCHANGED <<stream, deal, host, timer, failures, money>>

\* endStream reads.  Its copy lives on while endCurrentCall works on another.
Stop(r) ==
  /\ At(r, "stop")
  /\ LET s == work[r].s IN
       IF ~Live(s)
       THEN /\ IF work[r].relive THEN Goto(r, "create") ELSE Finish(r)
            /\ UNCHANGED timer
       ELSE /\ work' = [work EXCEPT ![r].pc = IF OnCall(s) THEN "end" ELSE "close",
                                    ![r].then = "close", ![r].fresh = TRUE]
            /\ timer' = IF OnCall(s) THEN timer ELSE timer \ {s}
  /\ UNCHANGED <<stream, deal, host, failures, money>>

\* Fault: the waitlist stays.
CloseKeepsList(r) ==
  /\ At(r, "close")
  /\ stream' = [stream EXCEPT ![work[r].s].status = "ended"]
  /\ Goto(r, "release")
  /\ UNCHANGED <<deal, host, timer, failures, money>>
\* The save of endStream replaces the waitlist: a stale copy is refused.
Close(r) ==
  /\ At(r, "close")
  /\ LET s == work[r].s IN
       IF work[r].fresh
       THEN /\ stream' = [stream EXCEPT ![s].status = "ended", ![s].waitlist = <<>>]
            /\ Raise(r, s, [work[r] EXCEPT !.pc = "release"])
       ELSE Finish(r) /\ UNCHANGED stream
  /\ UNCHANGED <<deal, host, timer, failures, money>>

\* Fault: liveStreamId is left.
ReleaseNothing(r) ==
  /\ At(r, "release")
  /\ IF work[r].relive THEN Goto(r, "create") ELSE Finish(r)
  /\ UNCHANGED <<stream, deal, host, timer, failures, money>>
Release(r) ==
  /\ At(r, "release") /\ host' = 0
  /\ IF work[r].relive THEN Goto(r, "create") ELSE Finish(r)
  /\ UNCHANGED <<stream, deal, timer, failures, money>>

(* The waitlist. *)

\* Nothing looks whether the viewer waits already.
RequestCall(r, s, u) ==
  /\ Live(s) /\ Affords(u) /\ Len(stream[s].waitlist) < MaxWaiting
  /\ Begin(r, Handler("queue", s, u, "idle"))
  /\ UNCHANGED <<stream, deal, host, timer, failures, money>>

\* A $push: it needs no version, and raises it.
Queue(r) ==
  /\ At(r, "queue")
  /\ stream' = [stream EXCEPT ![work[r].s].waitlist =
                  Append(@, [user |-> work[r].u, status |-> "waiting"])]
  /\ Raise(r, work[r].s, Idle)
  /\ UNCHANGED <<deal, host, timer, failures, money>>

\* Fault: a host who is on a call may accept another.
AcceptBusy(r, s, u) ==
  /\ \E i \in Waiting(s, u) :
       Begin(r, [Handler(IF Affords(u) THEN "deal" ELSE "expire", s, u, "idle") EXCEPT !.n = i])
  /\ UNCHANGED <<stream, deal, host, timer, failures, money>>
\* acceptCallRequest looks at the call and the waitlist, not at the status.
AcceptCall(r, s, u) ==
  /\ ~OnCall(s)
  /\ \E i \in Waiting(s, u) :
       Begin(r, [Handler(IF Affords(u) THEN "deal" ELSE "expire", s, u, "idle") EXCEPT !.n = i])
  /\ UNCHANGED <<stream, deal, host, timer, failures, money>>

RejectCall(r, s, u) ==
  /\ \E i \in Waiting(s, u) : Begin(r, [Handler("reject", s, u, "idle") EXCEPT !.n = i])
  /\ UNCHANGED <<stream, deal, host, timer, failures, money>>

CreateDeal(r) ==
  /\ At(r, "deal")
  /\ \E t \in UnusedDeals :
       /\ \A q \in UnusedDeals : t <= q
       /\ deal' = [deal EXCEPT ![t] =
                     [s |-> work[r].s, u |-> work[r].u, status |-> "ongoing", total |-> 0]]
       /\ work' = [work EXCEPT ![r].pc = "accept", ![r].t = t]
  /\ UNCHANGED <<stream, host, timer, failures, money>>

\* The save sets an element of the array.  If the copy is stale the call does
\* not start, and its transaction stays ongoing.
AcceptSave(r) ==
  /\ At(r, "accept")
  /\ LET s == work[r].s IN
       IF work[r].fresh
       THEN /\ stream' = [stream EXCEPT ![s].call = work[r].u,
                                        ![s].waitlist[work[r].n].status = "accepted"]
            /\ timer' = timer \cup {s}
       ELSE UNCHANGED <<stream, timer>>
  /\ Finish(r)
  /\ UNCHANGED <<deal, host, failures, money>>

Refuse(r) ==
  /\ work[r].pc \in {"reject", "expire"}
  /\ stream' = IF ~work[r].fresh THEN stream
               ELSE [stream EXCEPT ![work[r].s].waitlist[work[r].n].status =
                       IF At(r, "reject") THEN "rejected" ELSE "expired"]
  /\ Finish(r)
  /\ UNCHANGED <<deal, host, timer, failures, money>>

\* cancelCallRequest: an active call is ended properly, with its bill.
CancelCall(r, s, u) ==
  /\ IF stream[s].call = u THEN Begin(r, Handler("end", s, u, "idle"))
     ELSE \E i \in Waiting(s, u) :
            Begin(r, [Handler("cancel", s, u, "idle") EXCEPT !.list = RemoveAt(stream[s].waitlist, i)])
  /\ UNCHANGED <<stream, deal, host, timer, failures, money>>

\* The splice replaces the array by the copy that was read.
CancelSave(r) ==
  /\ At(r, "cancel")
  /\ IF work[r].fresh
     THEN /\ stream' = [stream EXCEPT ![work[r].s].waitlist = work[r].list]
          /\ Raise(r, work[r].s, Idle)
     ELSE Finish(r) /\ UNCHANGED stream
  /\ UNCHANGED <<deal, host, timer, failures, money>>

(* The end of the call, and its bill. *)

\* The host, the caller (user_end_call, disconnect) or the admin ends it.
EndCall(r, s) ==
  /\ OnCall(s) /\ Begin(r, Handler("end", s, NoOne, "idle"))
  /\ UNCHANGED <<stream, deal, host, timer, failures, money>>

\* Fault: the interval only counts down.
TimerStops(r, s) ==
  /\ s \in timer /\ timer' = timer \ {s}
  /\ UNCHANGED <<work, stream, deal, host, failures, money>>
\* The interval stops itself at zero and ends the call.
TimerFires(r, s) ==
  /\ s \in timer /\ timer' = timer \ {s}
  /\ Begin(r, Handler("end", s, NoOne, "idle"))
  /\ UNCHANGED <<stream, deal, host, failures, money>>

\* endCurrentCall reads the stream.
EndRead(r) ==
  /\ At(r, "end")
  /\ LET s == work[r].s IN
       IF OnCall(s)
       THEN /\ work' = [work EXCEPT ![r].pc = "find", ![r].u = stream[s].call,
                                    ![r].rev = stream[s].revenue, ![r].ok = FALSE]
            /\ UNCHANGED timer
       ELSE /\ IF work[r].then = "idle" THEN Finish(r) ELSE Goto(r, work[r].then)
            /\ timer' = IF work[r].then = "close" THEN timer \ {s} ELSE timer
  /\ UNCHANGED <<stream, deal, host, failures, money>>

\* An ongoing transaction of the caller, else the latest of the stream.
FindDeal(r) ==
  /\ At(r, "find")
  /\ LET s == work[r].s
         own == {t \in Ongoing(s) : deal[t].u = work[r].u}
         latest == {t \in Ongoing(s) : \A q \in Ongoing(s) : q <= t}
     IN IF Ongoing(s) = {} THEN Goto(r, "clear") /\ timer' = timer \ {s}
        ELSE /\ \E t \in IF own # {} THEN own ELSE latest, n \in Lengths :
                  work' = [work EXCEPT ![r].pc = "pay", ![r].t = t, ![r].n = n]
             /\ UNCHANGED timer
  /\ UNCHANGED <<stream, deal, host, failures, money>>

\* Fault: the balance is not looked at.
PayBlind(r) ==
  /\ At(r, "pay")
  /\ LET t == work[r].t  u == deal[t].u  cost == Cost(work[r].n) IN
       /\ purse' = [purse EXCEPT ![u] = @ - cost]
       /\ charged' = [charged EXCEPT ![t] = @ + cost]
       /\ bills' = [bills EXCEPT ![t] = @ + 1]
       /\ received' = [received EXCEPT ![work[r].s] = @ + cost]
  /\ Goto(r, "earn")
  /\ UNCHANGED <<stream, deal, host, timer, failures>>
\* processSessionPayment, in a transaction of its own, pays what is there.
Pay(r) ==
  /\ At(r, "pay")
  /\ LET t == work[r].t  u == deal[t].u  cost == Cost(work[r].n) IN
       IF purse[u] >= cost
       THEN /\ purse' = [purse EXCEPT ![u] = @ - cost]
            /\ charged' = [charged EXCEPT ![t] = @ + cost]
            /\ bills' = [bills EXCEPT ![t] = @ + 1]
            /\ received' = [received EXCEPT ![work[r].s] = @ + cost]
            /\ Goto(r, "earn")
       ELSE Goto(r, "record") /\ UNCHANGED money
  /\ UNCHANGED <<stream, deal, host, timer, failures>>

\* updateEarnings; when it fails the call counts as not paid.
Earn(r) ==
  /\ At(r, "earn")
  /\ work' = [work EXCEPT ![r].pc = "record", ![r].ok = TRUE]
  /\ UNCHANGED <<stream, deal, host, timer, failures, money>>

EarnFails(r) ==
  /\ At(r, "earn") /\ failures < MaxFailures /\ failures' = failures + 1
  /\ Goto(r, "record")
  /\ UNCHANGED <<stream, deal, host, timer, money>>

\* Fault: the status stays as it is.
RecordTotal(r) ==
  /\ At(r, "record")
  /\ deal' = [deal EXCEPT ![work[r].t].total = IF work[r].ok THEN Cost(work[r].n) ELSE 0]
  /\ Goto(r, "clear") /\ timer' = timer \ {work[r].s}
  /\ UNCHANGED <<stream, host, failures, money>>
\* Fault: the transaction is completed whatever the payment did.
RecordCompleted(r) ==
  /\ At(r, "record")
  /\ deal' = [deal EXCEPT ![work[r].t].status = "completed",
                          ![work[r].t].total = Cost(work[r].n)]
  /\ Goto(r, "clear") /\ timer' = timer \ {work[r].s}
  /\ UNCHANGED <<stream, host, failures, money>>
Record(r) ==
  /\ At(r, "record")
  /\ deal' = [deal EXCEPT ![work[r].t].status = IF work[r].ok THEN "completed" ELSE "failed",
                          ![work[r].t].total = IF work[r].ok THEN Cost(work[r].n) ELSE 0]
  /\ Goto(r, "clear") /\ timer' = timer \ {work[r].s}
  /\ UNCHANGED <<stream, host, failures, money>>

\* Fault: a failed payment counts as revenue.
ClearAndCount(r) ==
  /\ At(r, "clear")
  /\ LET s == work[r].s IN
       /\ stream' = [stream EXCEPT ![s].call = NoOne,
                                   ![s].revenue = work[r].rev + Cost(work[r].n)]
       /\ IF work[r].then = "idle" THEN Finish(r) ELSE Goto(r, work[r].then)
       /\ timer' = IF work[r].then = "close" THEN timer \ {s} ELSE timer
  /\ UNCHANGED <<deal, host, failures, money>>
\* The save: no call, and the revenue that was read plus the cost.
Clear(r) ==
  /\ At(r, "clear")
  /\ LET s == work[r].s IN
       /\ stream' = [stream EXCEPT ![s].call = NoOne,
                                   ![s].revenue = IF work[r].ok THEN work[r].rev + Cost(work[r].n)
                                                  ELSE @]
       /\ IF work[r].then = "idle" THEN Finish(r) ELSE Goto(r, work[r].then)
       /\ timer' = IF work[r].then = "close" THEN timer \ {s} ELSE timer
  /\ UNCHANGED <<deal, host, failures, money>>

(* Gifts. *)

\* sendGift with a streamId: the payment has committed ...
Gift(r, s, u) ==
  /\ Live(s) /\ purse[u] >= GiftAmount /\ Begin(r, Handler("gift", s, u, "idle"))
  /\ purse' = [purse EXCEPT ![u] = @ - GiftAmount]
  /\ received' = [received EXCEPT ![s] = @ + GiftAmount]
  /\ UNCHANGED <<stream, deal, host, timer, failures, charged, bills>>

\* ... and updateStreamAnalytics adds it with $inc.
AddRevenue(r) ==
  /\ At(r, "gift")
  /\ stream' = [stream EXCEPT ![work[r].s].revenue = @ + GiftAmount] /\ Finish(r)
  /\ UNCHANGED <<deal, host, timer, failures, money>>

(* Failures. *)

\* A database error ends a handler outside the payment's try.
HandlerFails(r) ==
  /\ work[r].pc \notin {"idle", "pay", "earn"} /\ failures < MaxFailures
  /\ failures' = failures + 1 /\ Finish(r)
  /\ UNCHANGED <<stream, deal, host, timer, money>>

\* activeTimers, streamHosts, userSockets and the heartbeats are lost.
Restart ==
  /\ failures < MaxFailures /\ failures' = failures + 1
  /\ work' = [r \in Slots |-> Idle] /\ timer' = {}
  /\ UNCHANGED <<stream, deal, host, money>>

----------------
Continues(r) ==
  \/ Create(r) \/ FlagLive(r) \/ Stop(r) \/ Close(r) \/ Release(r)
  \/ Queue(r) \/ CreateDeal(r) \/ AcceptSave(r) \/ Refuse(r) \/ CancelSave(r)
  \/ EndRead(r) \/ FindDeal(r) \/ Pay(r) \/ Earn(r) \/ Record(r) \/ Clear(r)
  \/ AddRevenue(r)

HostRequests(r) ==
  \/ UnusedStreams # {} /\ GoLive(r)
  \/ \E s \in Streams :
       \/ EndStream(r, s) \/ EndCall(r, s)
       \/ \E u \in Viewers : RejectCall(r, s, u) \/ (UnusedDeals # {} /\ AcceptCall(r, s, u))
ViewerRequests(r) ==
  \E s \in Streams, u \in Viewers :
    RequestCall(r, s, u) \/ CancelCall(r, s, u) \/ Gift(r, s, u)
AdminRequests(r) == \E s \in Streams : ForceEnd(r, s)
SocketEvents(r) ==
  \E s \in Streams : EndStream(r, s) \/ EndCall(r, s) \/ \E u \in Viewers : CancelCall(r, s, u)

Next ==
  \/ \E r \in Slots :
       \/ Continues(r) \/ EarnFails(r) \/ HandlerFails(r)
       \/ HostRequests(r) \/ ViewerRequests(r) \/ AdminRequests(r) \/ SocketEvents(r)
       \/ \E s \in Streams : TimerFires(r, s)
  \/ Restart

Spec == Init /\ [][Next]_vars

\* A handler goes on, and an interval that stays armed ends its call.
Fairness ==
  /\ \A r \in Slots : WF_vars(Continues(r))
  /\ \A s \in Streams : SF_vars(\E r \in Slots : TimerFires(r, s))

FairSpec == Spec /\ Fairness

----------------
Entries == [user : Viewers, status : {"waiting", "accepted", "rejected", "expired"}]
Documents == [status : {"none", "live", "ended"}, call : Viewers \cup {NoOne},
              waitlist : Seq(Entries), revenue : Nat]
Transactions == [s : Streams \cup {0}, u : Viewers \cup {NoOne},
                 status : {"none", "ongoing", "completed", "failed"}, total : Nat]
Steps == {"create", "flag", "stop", "close", "release", "queue", "deal", "accept", "reject",
          "expire", "cancel", "end", "find", "pay", "earn", "record", "clear", "gift"}
Running == [pc : Steps, s : Streams \cup {0}, u : Viewers \cup {NoOne},
            then : {"idle", "stop", "close"}, t : Deals \cup {0}, n : Nat, ok : BOOLEAN,
            rev : Nat, list : Seq(Entries), fresh : BOOLEAN, relive : BOOLEAN]

\* The type invariant; no bill drives a wallet below zero.
Stored ==
  /\ stream \in [Streams -> Documents] /\ deal \in [Deals -> Transactions]
  /\ host \in Streams \cup {0} /\ timer \in SUBSET Streams /\ failures \in 0..MaxFailures
  /\ purse \in [Viewers -> Nat] /\ charged \in [Deals -> Nat] /\ bills \in [Deals -> Nat]
  /\ received \in [Streams -> Nat]
TypeOK == Stored /\ work \in [Slots -> Running \cup {Idle}]

Alone == OneAtATime /\ failures = 0

\* A stream never claims more revenue than its viewers paid for it, however
\* the saves of endCurrentCall and the increments of gifts interleave.
RevenueCovered == \A s \in Streams : stream[s].revenue <= received[s]

\* "Already on a call", "status: ongoing": one request at a time, a
\* transaction is paid once, and once more at most for each restart or failing
\* save, which may come between a payment and its save.
ChargedOnce == OneAtATime => \A t \in Deals : bills[t] <= 1 + failures

\* A completed transaction was paid, at least its total; a failed one is free
\* unless the credit of the astrologer failed or two handlers ended the call.
SettledAsCharged ==
  \A t \in Deals :
    /\ deal[t].status = "completed" => charged[t] >= deal[t].total /\ deal[t].total > 0
    /\ deal[t].status = "failed" /\ Alone => charged[t] = 0

\* One request at a time, what is ongoing is the call the stream shows, so
\* that no later call is billed by the start of an older one.
OngoingIsShown ==
  Alone /\ Quiet =>
    \A s \in Streams :
      {deal[t].u : t \in Ongoing(s)} = {stream[s].call} \ {NoOne} /\ Cardinality(Ongoing(s)) <= 1

\* A stream that has ended has nobody waiting and nobody on a call: nothing
\* can be accepted on it.
EndedIsQuiet ==
  OneAtATime =>
    \A s \in Streams :
      stream[s].status = "ended" => stream[s].waitlist = <<>> /\ stream[s].call = NoOne

\* "Ensure single active stream per astrologer": one request at a time, no
\* two streams are live.
OneLiveStream ==
  OneAtATime => \A s, q \in Streams : Live(s) /\ Live(q) => s = q

\* The astrologer's availability names the stream that is live, and none else.
HostNamesLive == Alone /\ Quiet => \A s \in Streams : Live(s) <=> host = s

\* A call ends by itself: a process that goes on has its interval armed.
Calling(s) == Alone /\ OnCall(s)
CallEnds == \A s \in Streams : Calling(s) ~> ~Calling(s)

----------------
(* What the proofs below rest on. *)

\* What a handler that is at some step holds.
Held(h) ==
  /\ h.pc \notin {"idle", "create"} => h.s \in Streams
  /\ h.pc \in {"queue", "deal", "accept"} => h.u \in Viewers
  /\ h.pc = "accept" => h.t \in Deals
  /\ h.pc \in {"pay", "earn", "record"} =>
       h.t \in Deals /\ deal[h.t].status # "none" /\ h.n \in Lengths
  /\ h.pc \in {"find", "pay", "earn"} => ~h.ok

\* A transaction that was made has a caller.
Made == \A t \in Deals : deal[t].status # "none" => deal[t].u \in Viewers

\* Gifts that were paid and are about to be added to the revenue.
Giving(s) == {r \in Slots : At(r, "gift") /\ work[r].s = s}
Promised(s) == GiftAmount * Cardinality(Giving(s))

\* What a handler that ends a call would make the revenue.
Ending(h) == h.pc \in {"find", "pay", "earn", "record", "clear"}
Claim(h) ==
  IF h.pc \in {"find", "pay"} THEN h.rev
  ELSE IF h.pc = "earn" \/ (h.pc \in {"record", "clear"} /\ h.ok) THEN h.rev + Cost(h.n)
  ELSE 0

\* Revenue, stored or about to be, leaves room for the gifts to come.
Covered ==
  /\ \A s \in Streams : stream[s].revenue + Promised(s) <= received[s]
  /\ \A r \in Slots : Ending(work[r]) =>
       \A s \in Streams : work[r].s = s => Claim(work[r]) + Promised(s) <= received[s]

\* A handler that will settle a transaction as paid has taken the payment.
Paying(h) == h.pc = "earn" \/ (h.pc = "record" /\ h.ok)
Settled ==
  /\ \A r \in Slots : Paying(work[r]) => charged[work[r].t] >= Cost(work[r].n)
  /\ \A t \in Deals :
       deal[t].status = "completed" => charged[t] >= deal[t].total /\ deal[t].total > 0

\* One request at a time: what is being billed is ongoing, and what was paid
\* was settled as paid, or is about to be, or was lost in a failure.
Closed(t) == deal[t].status \in {"completed", "failed"}
PaidFor(t) == \E r \in Slots : Paying(work[r]) /\ work[r].t = t
Billed ==
  OneAtATime =>
    /\ \A r \in Slots : work[r].pc \in {"pay", "earn", "record"} => deal[work[r].t].status = "ongoing"
    /\ \A t \in Deals : bills[t] <= failures + IF Closed(t) \/ PaidFor(t) THEN 1 ELSE 0
    /\ failures = 0 => \A t \in Deals :
         charged[t] > 0 => deal[t].status = "completed" \/ PaidFor(t)

\* One request at a time: who goes live takes down the stream that was found,
\* and creates another when none is live.
TakesDown(h) == h.pc \in {"stop", "end", "find", "pay", "earn", "record", "clear", "close"}
NoneLive == \A s \in Streams : ~Live(s)
Lone ==
  OneAtATime =>
    /\ \A s, q \in Streams : Live(s) /\ Live(q) => s = q
    /\ \A r \in Slots : At(r, "create") \/ (At(r, "release") /\ work[r].relive) => NoneLive
    /\ \A r \in Slots : TakesDown(work[r]) /\ work[r].relive =>
         \A s \in Streams : Live(s) => s = work[r].s

\* One request at a time: who works on a waitlist works on that of a stream
\* that has not ended, and a stream that is about to end has no call.
Lists(h) == h.pc \in {"queue", "deal", "accept", "reject", "expire", "cancel"}
Ended(s) == stream[s].status = "ended"
Silent ==
  OneAtATime =>
    /\ \A s \in Streams : Ended(s) => stream[s].waitlist = <<>> /\ stream[s].call = NoOne
    /\ \A r \in Slots : Lists(work[r]) => ~Ended(work[r].s)
    /\ \A r \in Slots : At(r, "close") => ~OnCall(work[r].s)

\* One request at a time and no failure: the availability names the live
\* stream, unless a handler has yet to write it; and who is about to save the
\* end of a stream ends one that is live.
NamesLive == \A s \in Streams : Live(s) <=> host = s
EndsLive(h) == h.pc = "close" \/ (h.then = "close" /\ (Ending(h) \/ h.pc = "end"))
Named ==
  Alone =>
    /\ \A r \in Slots : work[r].pc \notin {"flag", "release"} => NamesLive
    /\ \A r \in Slots : At(r, "flag") => Live(work[r].s)
    /\ \A r \in Slots : At(r, "release") => NoneLive
    /\ \A r \in Slots : work[r].pc \notin {"idle", "create", "stop"} /\ EndsLive(work[r]) => Live(work[r].s)

\* One request at a time and no failure: each stream shows the one transaction
\* that is ongoing on it, but for that of the handler between the two saves.
ShownAt(s) ==
  /\ ~OnCall(s) => Ongoing(s) = {}
  /\ OnCall(s) => \E t \in Deals : Ongoing(s) = {t} /\ deal[t].u = stream[s].call
Shows(h) ==
  /\ \A s \in Streams : ShownAt(s) \/ (h.pc \in {"accept", "clear"} /\ h.s = s)
  /\ h.pc \in {"deal", "accept"} => ~OnCall(h.s) /\ h.fresh
  /\ h.pc = "accept" => Ongoing(h.s) = {h.t} /\ deal[h.t].u = h.u
  /\ h.pc \in {"find", "pay", "earn", "record"} => OnCall(h.s)
  /\ h.pc \in {"pay", "earn", "record"} => Ongoing(h.s) = {h.t}
  /\ h.pc = "clear" => Ongoing(h.s) = {}
Shown == Alone => \A r \in Slots : Shows(work[r])

KInv == TypeOK /\ Made /\ \A r \in Slots : Held(work[r])

----------------
(* Lemmas about the handlers' records and about amounts.                   *)

\* A price times minutes.
LEMMA CostIsPositive ==
  /\ \A n \in Nat : Cost(n) \in Nat
  /\ \A n \in Lengths : Cost(n) > 0
<1>1. \A p \in Nat \ {0}, n \in Nat : n * p \in Nat /\ (n # 0 => n * p > 0)
  OBVIOUS
<1>2. QED BY <1>1, StreamAssumption DEF Cost

\* A new handler, and one that remembers a place, a list or what comes next.
LEMMA HandlerType ==
  ASSUME NEW pc \in Steps, NEW s \in Streams \cup {0}, NEW u \in Viewers \cup {NoOne},
         NEW then \in {"idle", "stop", "close"}
  PROVE  /\ Handler(pc, s, u, then) \in Running
         /\ Handler(pc, s, u, then).pc = pc /\ Handler(pc, s, u, then).s = s
         /\ Handler(pc, s, u, then).u = u /\ ~Handler(pc, s, u, then).ok
<1>1. <<>> \in Seq(Entries)
  OBVIOUS
<1>2. QED BY <1>1 DEF Handler, Running

LEMMA HandlerWith ==
  ASSUME NEW h \in Running, NEW n \in Nat, NEW l \in Seq(Entries)
  PROVE  /\ [h EXCEPT !.n = n] \in Running /\ [h EXCEPT !.n = n].pc = h.pc
         /\ [h EXCEPT !.n = n].s = h.s /\ [h EXCEPT !.n = n].u = h.u
         /\ [h EXCEPT !.list = l] \in Running /\ [h EXCEPT !.list = l].pc = h.pc
         /\ [h EXCEPT !.list = l].s = h.s /\ [h EXCEPT !.list = l].u = h.u
         /\ [h EXCEPT !.relive = TRUE] \in Running /\ [h EXCEPT !.relive = TRUE].pc = h.pc
         /\ [h EXCEPT !.relive = TRUE].s = h.s /\ [h EXCEPT !.relive = TRUE].u = h.u
BY DEF Running

\* A slot that runs holds a handler's record.
LEMMA RunningSlot ==
  ASSUME TypeOK, NEW r \in Slots, ~At(r, "idle")
  PROVE  work[r] \in Running
BY DEF TypeOK, At, Idle

LEMMA IdleSlot ==
  ASSUME TypeOK, NEW r \in Slots, At(r, "idle")
  PROVE  work[r] = Idle
BY DEF TypeOK, At, Idle, Running, Steps

\* A place taken out of the waitlist.
LEMMA WithoutPlace ==
  ASSUME NEW l \in Seq(Entries), NEW i \in DOMAIN l
  PROVE  RemoveAt(l, i) \in Seq(Entries)
<1>1. i \in 1..Len(l)
  OBVIOUS
<1>2. SubSeq(l, 1, i - 1) \in Seq(Entries) /\ SubSeq(l, i + 1, Len(l)) \in Seq(Entries)
  BY <1>1, SubSeqProperties
<1>3. QED BY <1>2, ConcatProperties DEF RemoveAt

LEMMA PlaceChanged ==
  ASSUME NEW l \in Seq(Entries), NEW i,
         NEW new \in {"waiting", "accepted", "rejected", "expired"}
  PROVE  [l EXCEPT ![i].status = new] \in Seq(Entries)
<1> DEFINE k == [l EXCEPT ![i].status = new]
<1>1. \A j \in 1..Len(l) : k[j] \in Entries
  <2>1. ASSUME NEW j \in 1..Len(l) PROVE k[j] \in Entries
    <3>1. l[j] \in Entries
      OBVIOUS
    <3>2. [l[j] EXCEPT !.status = new] \in Entries
      BY <3>1 DEF Entries
    <3>3. k[j] = IF j = i THEN [l[j] EXCEPT !.status = new] ELSE l[j]
      OBVIOUS
    <3>4. QED BY <3>1, <3>2, <3>3
  <2>2. QED BY <2>1
<1>2. k = [j \in 1..Len(l) |-> k[j]]
  OBVIOUS
<1> HIDE DEF k
<1>3. Len(l) \in Nat
  OBVIOUS
<1>4. \E n \in Nat : k \in [1..n -> Entries]
  BY <1>1, <1>2, <1>3
<1>5. QED BY <1>4, SeqDef DEF k

----------------
(* What a step does to the slots: r goes on with h, others may turn stale. *)

Same(q) ==
  \/ work'[q] = work[q]
  \/ work[q] \in Running /\ work'[q] = [work[q] EXCEPT !.fresh = FALSE]
Moves(r, h) ==
  /\ work' = [q \in Slots |-> IF q = r THEN h ELSE work'[q]]
  /\ \A q \in Slots \ {r} : Same(q)

LEMMA SlotMoves ==
  ASSUME TypeOK, NEW r \in Slots, NEW h, work' = [work EXCEPT ![r] = h]
  PROVE  Moves(r, h)
BY DEF TypeOK, Moves, Same

LEMMA FinishMoves ==
  ASSUME TypeOK, NEW r \in Slots, Finish(r)
  PROVE  Moves(r, Idle)
BY SlotMoves DEF Finish

LEMMA GotoMoves ==
  ASSUME TypeOK, NEW r \in Slots, NEW pc, Goto(r, pc)
  PROVE  Moves(r, [work[r] EXCEPT !.pc = pc])
<1>1. work' = [work EXCEPT ![r] = [work[r] EXCEPT !.pc = pc]]
  BY DEF Goto, TypeOK
<1>2. QED BY <1>1, SlotMoves

LEMMA RaiseMoves ==
  ASSUME TypeOK, NEW r \in Slots, NEW s, NEW h, Raise(r, s, h)
  PROVE  Moves(r, h)
<1>1. ASSUME NEW q \in Slots \ {r} PROVE Same(q)
  <2>1. CASE At(q, "idle") \/ work[q].s # s
    BY <1>1, <2>1 DEF Raise, Same
  <2>2. CASE ~(At(q, "idle") \/ work[q].s # s)
    <3>1. work[q] \in Running
      BY <2>2, RunningSlot
    <3>2. work'[q] = [work[q] EXCEPT !.fresh = FALSE]
      BY <1>1, <2>2 DEF Raise
    <3>3. QED BY <3>1, <3>2 DEF Same
  <2>3. QED BY <2>1, <2>2
<1>2. work' = [q \in Slots |-> IF q = r THEN h ELSE work'[q]]
  BY DEF Raise
<1>3. QED BY <1>1, <1>2 DEF Moves

\* Transactions are made once, and each has a caller.
Kept ==
  /\ \A t \in Deals : deal[t].status # "none" => deal'[t].status # "none"
  /\ Made'

LEMMA SameKept ==
  ASSUME Made, UNCHANGED deal
  PROVE  Kept
BY DEF Made, Kept

\* The step of a handler keeps KInv if the documents keep their types, the
\* transactions their callers, and the handler holds what its new step needs.
LEMMA KKept ==
  ASSUME KInv, NEW r \in Slots, NEW h \in Running \cup {Idle}, Moves(r, h),
         Stored', Kept, Held(h)'
  PROVE  KInv'
<1>1. ASSUME NEW q \in Slots PROVE work'[q] \in Running \cup {Idle} /\ Held(work[q])'
  <2>1. CASE q = r
    <3>1. work'[q] = h
      BY <2>1 DEF Moves
    <3>2. QED BY <3>1
  <2>2. CASE q # r
    <3>1. Held(work[q]) /\ work[q] \in Running \cup {Idle}
      BY DEF KInv, TypeOK
    <3>2. CASE work'[q] = work[q]
      BY <3>1, <3>2 DEF Held, Kept
    <3>3. CASE work[q] \in Running /\ work'[q] = [work[q] EXCEPT !.fresh = FALSE]
      <4> DEFINE old == work[q]
                 new == [old EXCEPT !.fresh = FALSE]
      <4>1. new \in Running /\ new.pc = old.pc /\ new.s = old.s /\ new.u = old.u /\ new.t = old.t
            /\ new.n = old.n /\ new.ok = old.ok
        BY <3>3 DEF Running
      <4> HIDE DEF new
      <4>2. work'[q] = new
        BY <3>3 DEF new
      <4>3. QED BY <3>1, <4>1, <4>2 DEF Held, Kept
    <3>4. QED BY <2>2, <3>2, <3>3 DEF Moves, Same
  <2>3. QED BY <2>1, <2>2
<1>2. work' \in [Slots -> Running \cup {Idle}]
  BY <1>1 DEF Moves
<1>3. QED BY <1>1, <1>2 DEF KInv, TypeOK, Kept

LEMMA HeldIdle == Held(Idle) /\ Held(Idle)'
BY DEF Held, Idle

----------------
(* The types, and what handlers hold: one lemma per kind of action.        *)

\* A request puts a new handler into an idle slot and changes nothing else.
Starts == {h \in Running :
  /\ h.pc \in {"create", "stop", "queue", "deal", "reject", "expire", "cancel", "end"}
  /\ h.pc # "create" => h.s \in Streams
  /\ h.pc \in {"queue", "deal"} => h.u \in Viewers}
Asked(r) ==
  /\ \E h \in Starts : Begin(r, h)
  /\ UNCHANGED <<stream, deal, host, failures, money>> /\ timer' \in SUBSET timer

Requests(r) ==
  \/ GoLive(r)
  \/ \E s \in Streams :
       \/ EndStream(r, s) \/ ForceEnd(r, s) \/ EndCall(r, s) \/ TimerFires(r, s)
       \/ \E u \in Viewers :
            RequestCall(r, s, u) \/ AcceptCall(r, s, u) \/ RejectCall(r, s, u) \/ CancelCall(r, s, u)

LEMMA StreamStarts ==
  ASSUME NEW s \in Streams, NEW u \in Viewers \cup {NoOne},
         NEW pc \in {"create", "stop", "end", "reject", "expire", "cancel"},
         NEW then \in {"idle", "stop", "close"}
  PROVE  Handler(pc, s, u, then) \in Starts
BY HandlerType DEF Starts, Steps

LEMMA CallerStarts ==
  ASSUME NEW s \in Streams, NEW u \in Viewers, NEW pc \in {"queue", "deal"}
  PROVE  Handler(pc, s, u, "idle") \in Starts
BY HandlerType DEF Starts, Steps

LEMMA StartsWith ==
  ASSUME NEW h \in Starts, NEW n \in Nat, NEW l \in Seq(Entries)
  PROVE  /\ [h EXCEPT !.n = n] \in Starts /\ [h EXCEPT !.list = l] \in Starts
         /\ [h EXCEPT !.relive = TRUE] \in Starts
<1>1. h \in Running
  BY DEF Starts
<1>2. QED BY <1>1, HandlerWith DEF Starts

LEMMA WaitingPlace ==
  ASSUME TypeOK, NEW s \in Streams, NEW u, NEW i \in Waiting(s, u)
  PROVE  i \in Nat /\ RemoveAt(stream[s].waitlist, i) \in Seq(Entries)
<1>1. stream[s].waitlist \in Seq(Entries) /\ i \in DOMAIN stream[s].waitlist
  BY DEF TypeOK, Stored, Documents, Waiting
<1>2. QED BY <1>1, WithoutPlace

LEMMA RequestsAsk ==
  ASSUME TypeOK, NEW r \in Slots, Requests(r)
  PROVE  Asked(r)
<1>0. <<>> \in Seq(Entries) /\ 0 \in Nat
  OBVIOUS
<1>1. CASE GoLive(r)
  <2>1. [Handler("create", 0, NoOne, "idle") EXCEPT !.relive = TRUE] \in Starts
    <3>1. Handler("create", 0, NoOne, "idle") \in Starts
      BY HandlerType DEF Starts, Steps
    <3>2. QED BY <1>0, <3>1, StartsWith
  <2>2. \A s \in Streams : [Handler("stop", s, NoOne, "close") EXCEPT !.relive = TRUE] \in Starts
    BY <1>0, StreamStarts, StartsWith
  <2>3. QED BY <1>1, <2>1, <2>2 DEF GoLive, Asked
<1>2. CASE \E s \in Streams : EndStream(r, s) \/ ForceEnd(r, s) \/ EndCall(r, s) \/ TimerFires(r, s)
  <2>1. PICK s \in Streams : EndStream(r, s) \/ ForceEnd(r, s) \/ EndCall(r, s) \/ TimerFires(r, s)
    BY <1>2
  <2>2. CASE EndStream(r, s)
    BY <2>2, StreamStarts DEF EndStream, Asked
  <2>3. CASE ForceEnd(r, s)
    BY <2>3, StreamStarts DEF ForceEnd, Asked
  <2>4. CASE EndCall(r, s)
    BY <2>4, StreamStarts DEF EndCall, Asked
  <2>5. CASE TimerFires(r, s)
    BY <2>5, StreamStarts DEF TimerFires, Asked
  <2>6. QED BY <2>1, <2>2, <2>3, <2>4, <2>5
<1>3. CASE \E s \in Streams, u \in Viewers :
             RequestCall(r, s, u) \/ AcceptCall(r, s, u) \/ RejectCall(r, s, u) \/ CancelCall(r, s, u)
  <2>1. PICK s \in Streams, u \in Viewers :
          RequestCall(r, s, u) \/ AcceptCall(r, s, u) \/ RejectCall(r, s, u) \/ CancelCall(r, s, u)
    BY <1>3
  <2>2. CASE RequestCall(r, s, u)
    BY <2>2, CallerStarts DEF RequestCall, Asked
  <2>3. CASE AcceptCall(r, s, u)
    <3>1. PICK i \in Waiting(s, u) :
            Begin(r, [Handler(IF Affords(u) THEN "deal" ELSE "expire", s, u, "idle") EXCEPT !.n = i])
      BY <2>3 DEF AcceptCall
    <3>2. Handler(IF Affords(u) THEN "deal" ELSE "expire", s, u, "idle") \in Starts
      BY CallerStarts, StreamStarts
    <3>3. [Handler(IF Affords(u) THEN "deal" ELSE "expire", s, u, "idle") EXCEPT !.n = i] \in Starts
      BY <1>0, <3>2, WaitingPlace, StartsWith
    <3>4. QED BY <2>3, <3>1, <3>3 DEF AcceptCall, Asked
  <2>4. CASE RejectCall(r, s, u)
    <3>1. PICK i \in Waiting(s, u) : Begin(r, [Handler("reject", s, u, "idle") EXCEPT !.n = i])
      BY <2>4 DEF RejectCall
    <3>2. [Handler("reject", s, u, "idle") EXCEPT !.n = i] \in Starts
      BY <1>0, StreamStarts, WaitingPlace, StartsWith
    <3>3. QED BY <2>4, <3>1, <3>2 DEF RejectCall, Asked
  <2>5. CASE CancelCall(r, s, u)
    <3>1. CASE stream[s].call = u
      BY <2>5, <3>1, StreamStarts DEF CancelCall, Asked
    <3>2. CASE stream[s].call # u
      <4>1. PICK i \in Waiting(s, u) :
              Begin(r, [Handler("cancel", s, u, "idle") EXCEPT !.list = RemoveAt(stream[s].waitlist, i)])
        BY <2>5, <3>2 DEF CancelCall
      <4>2. [Handler("cancel", s, u, "idle") EXCEPT !.list = RemoveAt(stream[s].waitlist, i)] \in Starts
        BY <1>0, StreamStarts, WaitingPlace, StartsWith
      <4>3. QED BY <2>5, <4>1, <4>2 DEF CancelCall, Asked
    <3>3. QED BY <3>1, <3>2
  <2>6. QED BY <2>1, <2>2, <2>3, <2>4, <2>5
<1>4. QED BY <1>1, <1>2, <1>3 DEF Requests

LEMMA AskedKeeps ==
  ASSUME KInv, NEW r \in Slots, Asked(r)
  PROVE  KInv'
<1>1. PICK h \in Starts : Begin(r, h)
  BY DEF Asked
<1>2. Moves(r, h)
  BY <1>1, SlotMoves DEF Begin, KInv
<1>3. h \in Running /\ Held(h)'
  BY DEF Starts, Held
<1>4. Stored' /\ Kept
  BY SameKept DEF Asked, KInv, TypeOK, Stored, money
<1>5. QED BY <1>2, <1>3, <1>4, KKept

\* A handler that is through.
LEMMA FinishKeeps ==
  ASSUME KInv, NEW r \in Slots, Finish(r), Stored', Kept
  PROVE  KInv'
BY FinishMoves, HeldIdle, KKept DEF KInv

\* A handler that goes on to a step that needs the stream only.
LEMMA GotoKeeps ==
  ASSUME KInv, NEW r \in Slots, work[r].pc \notin {"idle", "create"},
         NEW pc \in {"create", "stop", "close", "release", "end", "clear"}, Goto(r, pc),
         Stored', Kept
  PROVE  KInv'
<1>1. work[r] \in Running /\ Held(work[r])
  BY RunningSlot DEF KInv, At
<1>0. PICK h : h = [work[r] EXCEPT !.pc = pc]
  OBVIOUS
<1>2. h \in Running /\ h.pc = pc /\ h.s = work[r].s
  BY <1>0, <1>1 DEF Running, Steps
<1>3. Moves(r, h)
  BY <1>0, GotoMoves DEF KInv
<1>4. Held(h)'
  BY <1>1, <1>2 DEF Held
<1>5. QED BY <1>2, <1>3, <1>4, KKept

LEMMA HostStepsKeep ==
  ASSUME KInv, NEW r \in Slots, FlagLive(r) \/ Stop(r) \/ Release(r)
  PROVE  KInv'
<1>1. work[r].pc \notin {"idle", "create"}
  BY DEF FlagLive, Stop, Release, At
<1>2. work[r] \in Running /\ work[r].s \in Streams
  BY <1>1, RunningSlot DEF KInv, At, Held
<1>3. Stored' /\ Kept
  <2>1. CASE FlagLive(r)
    BY <1>2, <2>1, SameKept DEF FlagLive, KInv, TypeOK, Stored, money
  <2>2. CASE Stop(r)
    <3>1. UNCHANGED <<stream, deal, host, failures, money>> /\ timer' \in SUBSET timer
      BY <2>2 DEF Stop
    <3>2. QED BY <3>1, SameKept DEF KInv, TypeOK, Stored, money
  <2>3. CASE Release(r)
    BY <2>3, SameKept DEF Release, KInv, TypeOK, Stored, money
  <2>4. QED BY <2>1, <2>2, <2>3
<1>4. CASE FlagLive(r)
  BY <1>3, <1>4, FinishKeeps DEF FlagLive
<1>5. CASE Stop(r)
  <2> DEFINE s == work[r].s
  <2>1. CASE ~Live(s)
    BY <1>1, <1>3, <1>5, <2>1, FinishKeeps, GotoKeeps DEF Stop
  <2>2. CASE Live(s)
    <3> DEFINE pc == IF OnCall(s) THEN "end" ELSE "close"
    <3>0. PICK h : h = [work[r] EXCEPT !.pc = pc, !.then = "close", !.fresh = TRUE]
      OBVIOUS
    <3>1. work' = [work EXCEPT ![r] = h]
      BY <1>5, <2>2, <3>0 DEF Stop, KInv, TypeOK
    <3>2. h \in Running /\ h.pc \in {"end", "close"} /\ h.s \in Streams
      BY <1>2, <3>0 DEF Running, Steps
    <3>3. Moves(r, h)
      BY <3>1, SlotMoves DEF KInv
    <3>4. Held(h)'
      BY <3>2 DEF Held
    <3>5. QED BY <1>3, <3>2, <3>3, <3>4, KKept
  <2>3. QED BY <2>1, <2>2
<1>6. CASE Release(r)
  BY <1>1, <1>3, <1>6, FinishKeeps, GotoKeeps DEF Release
<1>7. QED BY <1>4, <1>5, <1>6

LEMMA EndReadKeeps ==
  ASSUME KInv, NEW r \in Slots, EndRead(r)
  PROVE  KInv'
<1> DEFINE s == work[r].s
<1>1. work[r].pc \notin {"idle", "create"}
  BY DEF EndRead, At
<1>2. work[r] \in Running /\ s \in Streams
  BY <1>1, RunningSlot DEF KInv, At, Held
<1>3. Stored' /\ Kept
  <2>1. UNCHANGED <<stream, deal, host, failures, money>> /\ timer' \in SUBSET timer
    BY DEF EndRead
  <2>2. QED BY <2>1, SameKept DEF KInv, TypeOK, Stored, money
<1>4. CASE OnCall(s)
  <2>0. PICK h : h = [work[r] EXCEPT !.pc = "find", !.u = stream[s].call,
                                     !.rev = stream[s].revenue, !.ok = FALSE]
    OBVIOUS
  <2>1. work' = [work EXCEPT ![r] = h]
    BY <1>4, <2>0 DEF EndRead, KInv, TypeOK
  <2>2. stream[s].call \in Viewers \cup {NoOne} /\ stream[s].revenue \in Nat
    BY <1>2 DEF KInv, TypeOK, Stored, Documents
  <2>3. h \in Running /\ h.pc = "find" /\ h.s \in Streams /\ ~h.ok
    BY <1>2, <2>0, <2>2 DEF Running, Steps
  <2>4. Moves(r, h)
    BY <2>1, SlotMoves DEF KInv
  <2>5. Held(h)'
    BY <2>3 DEF Held
  <2>6. QED BY <1>3, <2>3, <2>4, <2>5, KKept
<1>5. CASE ~OnCall(s)
  <2>1. work[r].then \in {"idle", "stop", "close"}
    BY <1>2 DEF Running
  <2>2. CASE work[r].then = "idle"
    BY <1>3, <1>5, <2>2, FinishKeeps DEF EndRead
  <2>3. CASE work[r].then # "idle"
    BY <1>1, <1>3, <1>5, <2>1, <2>3, GotoKeeps DEF EndRead
  <2>4. QED BY <2>2, <2>3
<1>6. QED BY <1>4, <1>5

LEMMA FindDealKeeps ==
  ASSUME KInv, NEW r \in Slots, FindDeal(r)
  PROVE  KInv'
<1> DEFINE s == work[r].s
<1>1. work[r].pc \notin {"idle", "create"}
  BY DEF FindDeal, At
<1>2. work[r] \in Running /\ s \in Streams /\ ~work[r].ok
  BY RunningSlot DEF KInv, At, Held, FindDeal
<1>3. Stored' /\ Kept
  <2>1. UNCHANGED <<stream, deal, host, failures, money>> /\ timer' \in SUBSET timer
    BY DEF FindDeal
  <2>2. QED BY <2>1, SameKept DEF KInv, TypeOK, Stored, money
<1>4. CASE Ongoing(s) = {}
  BY <1>1, <1>3, <1>4, GotoKeeps DEF FindDeal
<1>5. CASE Ongoing(s) # {}
  <2>1. PICK t \in Ongoing(s), n \in Lengths :
          work' = [work EXCEPT ![r].pc = "pay", ![r].t = t, ![r].n = n]
    BY <1>5 DEF FindDeal
  <2>0. PICK h : h = [work[r] EXCEPT !.pc = "pay", !.t = t, !.n = n]
    OBVIOUS
  <2>2. work' = [work EXCEPT ![r] = h]
    BY <2>0, <2>1 DEF KInv, TypeOK
  <2>3. t \in Deals /\ deal[t].status = "ongoing" /\ n \in Nat
    BY StreamAssumption DEF Ongoing
  <2>4. h \in Running /\ h.pc = "pay" /\ h.s \in Streams /\ h.t = t /\ h.n = n /\ ~h.ok
    BY <1>2, <2>0, <2>3 DEF Running, Steps
  <2>5. Moves(r, h)
    BY <2>2, SlotMoves DEF KInv
  <2>6. deal' = deal
    BY DEF FindDeal
  <2>7. Held(h)'
    BY <2>3, <2>4, <2>6 DEF Held
  <2>8. QED BY <1>3, <2>4, <2>5, <2>7, KKept
<1>6. QED BY <1>4, <1>5

LEMMA PaidStepsKeep ==
  ASSUME KInv, NEW r \in Slots, Earn(r) \/ EarnFails(r)
  PROVE  KInv'
<1>1. work[r] \in Running /\ Held(work[r]) /\ At(r, "earn")
  BY RunningSlot DEF KInv, At, Earn, EarnFails
<1>2. Stored' /\ Kept
  <2>1. failures' \in 0..MaxFailures
    BY StreamAssumption DEF Earn, EarnFails, KInv, TypeOK, Stored
  <2>2. UNCHANGED <<stream, deal, host, timer, money>>
    BY DEF Earn, EarnFails
  <2>3. QED BY <2>1, <2>2, SameKept DEF KInv, TypeOK, Stored, money
<1>3. PICK ok \in BOOLEAN : work' = [work EXCEPT ![r] = [work[r] EXCEPT !.pc = "record", !.ok = ok]]
  <2>1. CASE Earn(r)
    BY <2>1 DEF Earn, KInv, TypeOK
  <2>2. CASE EarnFails(r)
    <3>1. [work[r] EXCEPT !.pc = "record"] = [work[r] EXCEPT !.pc = "record", !.ok = work[r].ok]
          /\ work[r].ok \in BOOLEAN
      BY <1>1 DEF Running
    <3>2. work' = [work EXCEPT ![r] = [work[r] EXCEPT !.pc = "record"]]
      BY <2>2 DEF EarnFails, Goto, KInv, TypeOK
    <3>3. QED BY <3>1, <3>2
  <2>3. QED BY <2>1, <2>2
<1>4. PICK h : h = [work[r] EXCEPT !.pc = "record", !.ok = ok]
  OBVIOUS
<1>5. h \in Running /\ h.pc = "record" /\ h.s = work[r].s /\ h.t = work[r].t /\ h.n = work[r].n
  BY <1>1, <1>4 DEF Running, Steps
<1>6. Moves(r, h)
  BY <1>3, <1>4, SlotMoves DEF KInv
<1>7. deal' = deal
  BY DEF Earn, EarnFails
<1>8. Held(h)'
  BY <1>1, <1>5, <1>7 DEF Held, At
<1>9. QED BY <1>2, <1>5, <1>6, <1>8, KKept

LEMMA FailureKeeps ==
  ASSUME KInv, NEW r \in Slots, HandlerFails(r)
  PROVE  KInv'
<1>1. Stored' /\ Kept
  <2>1. failures' \in 0..MaxFailures
    BY StreamAssumption DEF HandlerFails, KInv, TypeOK, Stored
  <2>2. QED BY <2>1, SameKept DEF HandlerFails, KInv, TypeOK, Stored, money
<1>2. QED BY <1>1, FinishKeeps DEF HandlerFails

LEMMA RestartKeeps ==
  ASSUME KInv, Restart
  PROVE  KInv'
<1>1. Stored' /\ Kept
  <2>1. failures' \in 0..MaxFailures
    BY StreamAssumption DEF Restart, KInv, TypeOK, Stored
  <2>2. QED BY <2>1, SameKept DEF Restart, KInv, TypeOK, Stored, money
<1>2. work' = [q \in Slots |-> Idle]
  BY DEF Restart
<1>3. QED BY <1>1, <1>2, HeldIdle DEF KInv, TypeOK, Kept

----------------
(* Steps that write the stream document.                                   *)

LEMMA DocumentStored ==
  ASSUME KInv, NEW s \in Streams, NEW d \in Documents, stream' = [stream EXCEPT ![s] = d],
         UNCHANGED <<deal, host, failures, money>>, timer' \in SUBSET Streams
  PROVE  Stored' /\ Kept
BY SameKept DEF KInv, TypeOK, Stored, money

LEMMA CreateKeeps ==
  ASSUME KInv, NEW r \in Slots, Create(r)
  PROVE  KInv'
<1>1. work[r] \in Running
  BY RunningSlot DEF KInv, At, Create
<1>2. PICK s \in Streams :
        /\ stream' = [stream EXCEPT ![s].status = "live"]
        /\ work' = [work EXCEPT ![r].pc = "flag", ![r].s = s]
  BY DEF Create, UnusedStreams
<1>3. Stored' /\ Kept
  <2>1. stream[s] \in Documents
    BY DEF KInv, TypeOK, Stored
  <2>2. [stream[s] EXCEPT !.status = "live"] \in Documents
    BY <2>1 DEF Documents
  <2>3. stream' = [stream EXCEPT ![s] = [stream[s] EXCEPT !.status = "live"]]
    BY <1>2 DEF KInv, TypeOK, Stored
  <2>4. UNCHANGED <<deal, host, failures, money>> /\ timer' \in SUBSET Streams
    BY DEF Create, KInv, TypeOK, Stored
  <2>5. QED BY <2>2, <2>3, <2>4, DocumentStored
<1>4. PICK h : h = [work[r] EXCEPT !.pc = "flag", !.s = s]
  OBVIOUS
<1>5. work' = [work EXCEPT ![r] = h]
  BY <1>2, <1>4 DEF KInv, TypeOK
<1>6. h \in Running /\ h.pc = "flag" /\ h.s \in Streams
  BY <1>1, <1>4 DEF Running, Steps
<1>7. Moves(r, h) /\ Held(h)'
  BY <1>5, <1>6, SlotMoves DEF KInv, Held
<1>8. QED BY <1>3, <1>6, <1>7, KKept

\* The save that ends the stream, and the one that ends its call.
LEMMA CloseKeeps ==
  ASSUME KInv, NEW r \in Slots, Close(r)
  PROVE  KInv'
<1> DEFINE s == work[r].s
<1>1. work[r] \in Running /\ s \in Streams
  BY RunningSlot DEF KInv, At, Held, Close
<1>2. CASE work[r].fresh
  <2>1. stream[s] \in Documents /\ <<>> \in Seq(Entries)
    BY <1>1 DEF KInv, TypeOK, Stored
  <2>2. [stream[s] EXCEPT !.status = "ended", !.waitlist = <<>>] \in Documents
    BY <2>1 DEF Documents
  <2>3. stream' = [stream EXCEPT ![s] = [stream[s] EXCEPT !.status = "ended", !.waitlist = <<>>]]
    BY <1>1, <1>2 DEF Close, KInv, TypeOK, Stored
  <2>4. UNCHANGED <<deal, host, failures, money>> /\ timer' \in SUBSET Streams
    BY DEF Close, KInv, TypeOK, Stored
  <2>5. Stored' /\ Kept
    BY <1>1, <2>2, <2>3, <2>4, DocumentStored
  <2>6. PICK h : h = [work[r] EXCEPT !.pc = "release"]
    OBVIOUS
  <2>7. Raise(r, s, h)
    BY <1>2, <2>6 DEF Close
  <2>8. h \in Running /\ h.pc = "release" /\ h.s \in Streams
    BY <1>1, <2>6 DEF Running, Steps
  <2>9. Moves(r, h) /\ Held(h)'
    BY <2>7, <2>8, RaiseMoves DEF KInv, Held
  <2>10. QED BY <2>5, <2>8, <2>9, KKept
<1>3. CASE ~work[r].fresh
  <2>1. Stored' /\ Kept
    BY <1>3, SameKept DEF Close, KInv, TypeOK, Stored, money
  <2>2. QED BY <1>3, <2>1, FinishKeeps DEF Close
<1>4. QED BY <1>2, <1>3

LEMMA ClearKeeps ==
  ASSUME KInv, NEW r \in Slots, Clear(r)
  PROVE  KInv'
<1> DEFINE s == work[r].s
<1>1. work[r] \in Running /\ s \in Streams
  BY RunningSlot DEF KInv, At, Held, Clear
<1>2. Stored' /\ Kept
  <2> DEFINE sum == IF work[r].ok THEN work[r].rev + Cost(work[r].n) ELSE stream[s].revenue
  <2>1. stream[s] \in Documents /\ sum \in Nat
    <3>1. stream[s] \in Documents /\ stream[s].revenue \in Nat
      BY <1>1 DEF KInv, TypeOK, Stored, Documents
    <3>2. work[r].rev \in Nat /\ work[r].n \in Nat
      BY <1>1 DEF Running
    <3>3. Cost(work[r].n) \in Nat
      BY <3>2, CostIsPositive
    <3>4. QED BY <3>1, <3>2, <3>3
  <2>2. stream' = [stream EXCEPT ![s] = [stream[s] EXCEPT !.call = NoOne, !.revenue = sum]]
    BY <1>1 DEF Clear, KInv, TypeOK, Stored
  <2> HIDE DEF sum
  <2>3. [stream[s] EXCEPT !.call = NoOne, !.revenue = sum] \in Documents
    BY <2>1 DEF Documents
  <2>4. UNCHANGED <<deal, host, failures, money>> /\ timer' \in SUBSET Streams
    BY DEF Clear, KInv, TypeOK, Stored
  <2>5. QED BY <1>1, <2>2, <2>3, <2>4, DocumentStored
<1>3. CASE work[r].then = "idle"
  BY <1>2, <1>3, FinishKeeps DEF Clear
<1>4. CASE work[r].then # "idle"
  <2>1. work[r].then \in {"stop", "close"} /\ work[r].pc \notin {"idle", "create"}
    BY <1>1, <1>4 DEF Running, Clear, At
  <2>2. Goto(r, work[r].then)
    BY <1>4 DEF Clear
  <2>3. QED BY <1>2, <2>1, <2>2, GotoKeeps
<1>5. QED BY <1>3, <1>4

\* Steps of the waitlist, each the last of its handler.
LEMMA QueueKeeps ==
  ASSUME KInv, NEW r \in Slots, Queue(r)
  PROVE  KInv'
<1> DEFINE s == work[r].s
           e == [user |-> work[r].u, status |-> "waiting"]
<1>1. work[r] \in Running /\ s \in Streams /\ work[r].u \in Viewers
  BY RunningSlot DEF KInv, At, Held, Queue
<1>2. stream[s] \in Documents
  BY <1>1 DEF KInv, TypeOK, Stored
<1>3. e \in Entries
  BY <1>1 DEF Entries
<1>4. Append(stream[s].waitlist, e) \in Seq(Entries)
  <2>1. stream[s].waitlist \in Seq(Entries)
    BY <1>2 DEF Documents
  <2> HIDE DEF e
  <2>2. QED BY <1>3, <2>1, AppendProperties
<1>5. stream' = [stream EXCEPT ![s] = [stream[s] EXCEPT !.waitlist = Append(stream[s].waitlist, e)]]
  BY <1>1 DEF Queue, KInv, TypeOK, Stored
<1>6. Raise(r, s, Idle)
  BY DEF Queue
<1> HIDE DEF e
<1>7. [stream[s] EXCEPT !.waitlist = Append(stream[s].waitlist, e)] \in Documents
  BY <1>2, <1>4 DEF Documents
<1>8. UNCHANGED <<deal, host, failures, money>> /\ timer' \in SUBSET Streams
  BY DEF Queue, KInv, TypeOK, Stored
<1>9. Stored' /\ Kept
  BY <1>1, <1>5, <1>7, <1>8, DocumentStored
<1>10. Moves(r, Idle)
  BY <1>6, RaiseMoves DEF KInv
<1>11. QED BY <1>9, <1>10, HeldIdle, KKept

LEMMA AnswersKeep ==
  ASSUME KInv, NEW r \in Slots, AcceptSave(r) \/ Refuse(r)
  PROVE  KInv'
<1> DEFINE s == work[r].s
<1>1. work[r] \in Running /\ s \in Streams
  BY RunningSlot DEF KInv, At, Held, AcceptSave, Refuse
<1>2. AcceptSave(r) => work[r].u \in Viewers
  BY DEF KInv, At, Held, AcceptSave
<1>3. stream[s] \in Documents /\ stream[s].waitlist \in Seq(Entries)
  BY <1>1 DEF KInv, TypeOK, Stored, Documents
<1>4. UNCHANGED <<deal, host, failures, money>> /\ timer' \in SUBSET Streams
  BY <1>1 DEF AcceptSave, Refuse, KInv, TypeOK, Stored
<1>5. Finish(r)
  BY DEF AcceptSave, Refuse
<1>6. CASE stream' = stream
  <2>1. Stored' /\ Kept
    BY <1>4, <1>6, SameKept DEF KInv, TypeOK, Stored, money
  <2>2. QED BY <1>5, <2>1, FinishKeeps
<1>7. CASE stream' # stream
  <2>1. PICK c \in Viewers \cup {NoOne}, new \in {"waiting", "accepted", "rejected", "expired"} :
          stream' = [stream EXCEPT ![s] =
            [stream[s] EXCEPT !.call = c, !.waitlist = [@ EXCEPT ![work[r].n].status = new]]]
    <3>1. CASE AcceptSave(r)
      <4> DEFINE l == [stream[s].waitlist EXCEPT ![work[r].n].status = "accepted"]
      <4>1. stream' = [stream EXCEPT ![s].call = work[r].u,
                                     ![s].waitlist[work[r].n].status = "accepted"]
        BY <1>7, <3>1 DEF AcceptSave
      <4>2. stream' = [stream EXCEPT ![s] = [stream[s] EXCEPT !.call = work[r].u, !.waitlist = l]]
        <5> DEFINE d == [stream[s] EXCEPT !.call = work[r].u]
        <5>1. stream' = [stream EXCEPT ![s] =
                [d EXCEPT !.waitlist = [d.waitlist EXCEPT ![work[r].n].status = "accepted"]]]
          BY <1>1, <4>1 DEF KInv, TypeOK, Stored
        <5>2. d.waitlist = stream[s].waitlist
          BY <1>3 DEF Documents
        <5>3. QED BY <5>1, <5>2
      <4>3. QED BY <1>2, <3>1, <4>2
    <3>2. CASE Refuse(r)
      <4> DEFINE new == IF At(r, "reject") THEN "rejected" ELSE "expired"
      <4>1. stream' = [stream EXCEPT ![s].waitlist[work[r].n].status = new]
        BY <1>7, <3>2 DEF Refuse
      <4>2. new \in {"waiting", "accepted", "rejected", "expired"}
        OBVIOUS
      <4> HIDE DEF new
      <4> DEFINE l == [stream[s].waitlist EXCEPT ![work[r].n].status = new]
      <4>3. stream' = [stream EXCEPT ![s] = [stream[s] EXCEPT !.waitlist = l]]
        BY <1>1, <4>1 DEF KInv, TypeOK, Stored
      <4> HIDE DEF l
      <4>4. [stream[s] EXCEPT !.waitlist = l] =
              [stream[s] EXCEPT !.call = stream[s].call, !.waitlist = l]
        BY <1>3 DEF Documents
      <4>5. stream[s].call \in Viewers \cup {NoOne}
        BY <1>3 DEF Documents
      <4>6. stream' = [stream EXCEPT ![s] =
              [stream[s] EXCEPT !.call = stream[s].call, !.waitlist = l]]
        BY <4>3, <4>4
      <4>7. QED BY <4>2, <4>5, <4>6 DEF l
    <3>3. QED BY <3>1, <3>2
  <2> DEFINE l == [stream[s].waitlist EXCEPT ![work[r].n].status = new]
  <2>2. l \in Seq(Entries)
    BY <1>3, PlaceChanged
  <2>3. stream' = [stream EXCEPT ![s] = [stream[s] EXCEPT !.call = c, !.waitlist = l]]
    BY <2>1
  <2> HIDE DEF l
  <2>4. [stream[s] EXCEPT !.call = c, !.waitlist = l] \in Documents
    BY <1>3, <2>2 DEF Documents
  <2>5. Stored' /\ Kept
    BY <1>1, <1>4, <2>3, <2>4, DocumentStored
  <2>6. QED BY <1>5, <2>5, FinishKeeps
<1>8. QED BY <1>6, <1>7

LEMMA CancelKeeps ==
  ASSUME KInv, NEW r \in Slots, CancelSave(r)
  PROVE  KInv'
<1> DEFINE s == work[r].s
<1>1. work[r] \in Running /\ s \in Streams
  BY RunningSlot DEF KInv, At, Held, CancelSave
<1>2. CASE work[r].fresh
  <2>1. stream[s] \in Documents /\ work[r].list \in Seq(Entries)
    BY <1>1 DEF KInv, TypeOK, Stored, Running
  <2>2. [stream[s] EXCEPT !.waitlist = work[r].list] \in Documents
    BY <2>1 DEF Documents
  <2>3. stream' = [stream EXCEPT ![s] = [stream[s] EXCEPT !.waitlist = work[r].list]]
    BY <1>1, <1>2 DEF CancelSave, KInv, TypeOK, Stored
  <2>4. UNCHANGED <<deal, host, failures, money>> /\ timer' \in SUBSET Streams
    BY DEF CancelSave, KInv, TypeOK, Stored
  <2>5. Stored' /\ Kept
    BY <1>1, <2>2, <2>3, <2>4, DocumentStored
  <2>6. Moves(r, Idle)
    BY <1>2, RaiseMoves DEF CancelSave, KInv
  <2>7. QED BY <2>5, <2>6, HeldIdle, KKept
<1>3. CASE ~work[r].fresh
  <2>1. Stored' /\ Kept
    BY <1>3, SameKept DEF CancelSave, KInv, TypeOK, Stored, money
  <2>2. QED BY <1>3, <2>1, FinishKeeps DEF CancelSave
<1>4. QED BY <1>2, <1>3

LEMMA AddRevenueKeeps ==
  ASSUME KInv, NEW r \in Slots, AddRevenue(r)
  PROVE  KInv'
<1> DEFINE s == work[r].s
           sum == stream[s].revenue + GiftAmount
<1>1. s \in Streams
  BY DEF KInv, At, Held, AddRevenue
<1>2. stream[s] \in Documents /\ sum \in Nat
  BY <1>1, StreamAssumption DEF KInv, TypeOK, Stored, Documents
<1>3. stream' = [stream EXCEPT ![s] = [stream[s] EXCEPT !.revenue = sum]]
  BY <1>1 DEF AddRevenue, KInv, TypeOK, Stored
<1> HIDE DEF sum
<1>4. [stream[s] EXCEPT !.revenue = sum] \in Documents
  BY <1>2 DEF Documents
<1>5. UNCHANGED <<deal, host, failures, money>> /\ timer' \in SUBSET Streams
  BY DEF AddRevenue, KInv, TypeOK, Stored
<1>6. Stored' /\ Kept
  BY <1>1, <1>3, <1>4, <1>5, DocumentStored
<1>7. QED BY <1>6, FinishKeeps DEF AddRevenue

----------------
(* Steps that write a transaction, and steps that move money.              *)

LEMMA DealStored ==
  ASSUME KInv, NEW t \in Deals, NEW d \in Transactions, deal' = [deal EXCEPT ![t] = d],
         d.status # "none" /\ d.u \in Viewers,
         UNCHANGED <<stream, host, failures, money>>, timer' \in SUBSET Streams
  PROVE  Stored' /\ Kept
<1>1. \A q \in Deals : deal'[q] = IF q = t THEN d ELSE deal[q]
  BY DEF KInv, TypeOK, Stored
<1>2. Kept
  BY <1>1 DEF KInv, Made, Kept
<1>3. Stored'
  BY DEF KInv, TypeOK, Stored, money
<1>4. QED BY <1>2, <1>3

LEMMA CreateDealKeeps ==
  ASSUME KInv, NEW r \in Slots, CreateDeal(r)
  PROVE  KInv'
<1>1. work[r] \in Running /\ work[r].s \in Streams /\ work[r].u \in Viewers
  BY RunningSlot DEF KInv, At, Held, CreateDeal
<1> DEFINE d == [s |-> work[r].s, u |-> work[r].u, status |-> "ongoing", total |-> 0]
<1>2. PICK t \in Deals :
        /\ deal' = [deal EXCEPT ![t] = d]
        /\ work' = [work EXCEPT ![r].pc = "accept", ![r].t = t]
  BY DEF CreateDeal, UnusedDeals
<1>3. d \in Transactions /\ d.status # "none" /\ d.u \in Viewers
  BY <1>1 DEF Transactions
<1>4. UNCHANGED <<stream, host, failures, money>> /\ timer' \in SUBSET Streams
  BY DEF CreateDeal, KInv, TypeOK, Stored
<1> HIDE DEF d
<1>5. Stored' /\ Kept
  BY <1>2, <1>3, <1>4, DealStored
<1>6. PICK h : h = [work[r] EXCEPT !.pc = "accept", !.t = t]
  OBVIOUS
<1>7. work' = [work EXCEPT ![r] = h]
  BY <1>2, <1>6 DEF KInv, TypeOK
<1>8. h \in Running /\ h.pc = "accept" /\ h.s \in Streams /\ h.u \in Viewers /\ h.t = t
  BY <1>1, <1>6 DEF Running, Steps
<1>9. Moves(r, h) /\ Held(h)'
  BY <1>7, <1>8, SlotMoves DEF KInv, Held
<1>10. QED BY <1>5, <1>8, <1>9, KKept

LEMMA RecordKeeps ==
  ASSUME KInv, NEW r \in Slots, Record(r)
  PROVE  KInv'
<1> DEFINE t == work[r].t
           total == IF work[r].ok THEN Cost(work[r].n) ELSE 0
           status == IF work[r].ok THEN "completed" ELSE "failed"
           d == [deal[t] EXCEPT !.status = status, !.total = total]
<1>1. /\ work[r] \in Running /\ work[r].s \in Streams /\ t \in Deals
      /\ deal[t].status # "none" /\ work[r].n \in Lengths /\ At(r, "record")
  BY RunningSlot DEF KInv, At, Held, Record
<1>2. deal[t] \in Transactions /\ deal[t].u \in Viewers
  BY <1>1 DEF KInv, TypeOK, Stored, Made
<1>3. total \in Nat
  BY <1>1, CostIsPositive, StreamAssumption
<1>4. deal' = [deal EXCEPT ![t] = d]
  BY <1>1 DEF Record, KInv, TypeOK, Stored
<1> HIDE DEF total
<1>5. d \in Transactions /\ d.status # "none" /\ d.u \in Viewers
  BY <1>2, <1>3 DEF Transactions
<1> HIDE DEF d
<1>6. UNCHANGED <<stream, host, failures, money>> /\ timer' \in SUBSET Streams
  BY DEF Record, KInv, TypeOK, Stored
<1>7. Stored' /\ Kept
  BY <1>1, <1>4, <1>5, <1>6, DealStored
<1>8. QED BY <1>1, <1>7, GotoKeeps DEF Record, At

LEMMA PayKeeps ==
  ASSUME KInv, NEW r \in Slots, Pay(r)
  PROVE  KInv'
<1> DEFINE t == work[r].t
           cost == Cost(work[r].n)
<1>1. /\ work[r] \in Running /\ work[r].s \in Streams /\ t \in Deals
      /\ deal[t].status # "none" /\ work[r].n \in Lengths /\ ~work[r].ok
  BY RunningSlot DEF KInv, At, Held, Pay
<1>2. deal[t].u \in Viewers /\ cost \in Nat
  BY <1>1, CostIsPositive, StreamAssumption DEF KInv, Made
<1>3. PICK pc \in {"earn", "record"} : Goto(r, pc)
  BY DEF Pay
<1> HIDE DEF cost
<1>4. Stored' /\ Kept
  <2>1. CASE purse[deal[t].u] >= cost
    <3>1. /\ purse' = [purse EXCEPT ![deal[t].u] = @ - cost]
          /\ charged' = [charged EXCEPT ![t] = @ + cost]
          /\ bills' = [bills EXCEPT ![t] = @ + 1]
          /\ received' = [received EXCEPT ![work[r].s] = @ + cost]
          /\ UNCHANGED <<stream, deal, host, timer, failures>>
      BY <2>1 DEF Pay, cost
    <3>2. purse' \in [Viewers -> Nat]
      <4>1. purse[deal[t].u] - cost \in Nat
        BY <1>2, <2>1 DEF KInv, TypeOK, Stored
      <4>2. QED BY <1>2, <3>1, <4>1 DEF KInv, TypeOK, Stored
    <3>3. charged' \in [Deals -> Nat] /\ bills' \in [Deals -> Nat] /\ received' \in [Streams -> Nat]
      BY <1>1, <1>2, <3>1 DEF KInv, TypeOK, Stored
    <3>4. QED BY <3>1, <3>2, <3>3, SameKept DEF KInv, TypeOK, Stored
  <2>2. CASE ~(purse[deal[t].u] >= cost)
    BY <2>2, SameKept DEF Pay, KInv, TypeOK, Stored, money, cost
  <2>3. QED BY <2>1, <2>2
<1>5. PICK h : h = [work[r] EXCEPT !.pc = pc]
  OBVIOUS
<1>6. h \in Running /\ h.pc = pc /\ h.s = work[r].s /\ h.t = t /\ h.n = work[r].n /\ ~h.ok
  BY <1>1, <1>5 DEF Running, Steps
<1>7. Moves(r, h)
  BY <1>3, <1>5, GotoMoves DEF KInv
<1>8. deal' = deal
  BY DEF Pay
<1>9. Held(h)'
  BY <1>1, <1>6, <1>8 DEF Held
<1>10. QED BY <1>4, <1>6, <1>7, <1>9, KKept

LEMMA GiftKeeps ==
  ASSUME KInv, NEW r \in Slots, NEW s \in Streams, NEW u \in Viewers, Gift(r, s, u)
  PROVE  KInv'
<1>1. PICK h : h = Handler("gift", s, u, "idle")
  OBVIOUS
<1>2. h \in Running /\ h.pc = "gift" /\ h.s = s
  BY <1>1, HandlerType DEF Steps
<1>3. Moves(r, h)
  BY <1>1, SlotMoves DEF Gift, Begin, KInv
<1>4. Held(h)'
  BY <1>2 DEF Held
<1>5. Stored' /\ Kept
  <2>1. purse[u] - GiftAmount \in Nat /\ received[s] + GiftAmount \in Nat
    BY StreamAssumption DEF Gift, KInv, TypeOK, Stored
  <2>2. purse' \in [Viewers -> Nat] /\ received' \in [Streams -> Nat]
    BY <2>1 DEF Gift, KInv, TypeOK, Stored
  <2>3. QED BY <2>2, SameKept DEF Gift, KInv, TypeOK, Stored
<1>6. QED BY <1>2, <1>3, <1>4, <1>5, KKept

----------------
\* The steps of the server, by what they write.
Gifts(r) == \E s \in Streams, u \in Viewers : Gift(r, s, u)
Moving(r) == FlagLive(r) \/ Stop(r) \/ Release(r) \/ EndRead(r) \/ FindDeal(r)
Saving(r) == Create(r) \/ Close(r) \/ Queue(r) \/ AcceptSave(r) \/ Refuse(r) \/ CancelSave(r)
Loses(r) == EarnFails(r) \/ HandlerFails(r)
Step(r) ==
  \/ Requests(r) \/ Gifts(r) \/ Moving(r) \/ Saving(r) \/ Loses(r)
  \/ CreateDeal(r) \/ Pay(r) \/ Earn(r) \/ Record(r) \/ Clear(r) \/ AddRevenue(r)

LEMMA NextIsStep == Next => Restart \/ \E r \in Slots : Step(r)
<1>1. ASSUME NEW r \in Slots PROVE Continues(r) \/ EarnFails(r) \/ HandlerFails(r) => Step(r)
  BY DEF Continues, Step, Moving, Saving, Loses
<1>2. ASSUME NEW r \in Slots
      PROVE  HostRequests(r) \/ AdminRequests(r) \/ SocketEvents(r)
             \/ (\E s \in Streams : TimerFires(r, s)) => Requests(r)
  BY DEF HostRequests, AdminRequests, SocketEvents, Requests
<1>3. ASSUME NEW r \in Slots PROVE ViewerRequests(r) => Requests(r) \/ Gifts(r)
  BY DEF ViewerRequests, Requests, Gifts
<1>4. QED BY <1>1, <1>2, <1>3 DEF Next, Step

LEMMA KInit == Init => KInv
<1> SUFFICES ASSUME Init PROVE KInv
  OBVIOUS
<1>1. NoStream \in Documents /\ NoDeal \in Transactions
  <2>1. <<>> \in Seq(Entries)
    OBVIOUS
  <2>2. QED BY <2>1 DEF NoStream, NoDeal, Documents, Transactions
<1>2. Stored
  BY <1>1, StreamAssumption DEF Init, Stored, Streams
<1>3. Made
  BY DEF Init, Made, NoDeal
<1>4. QED BY <1>2, <1>3, HeldIdle DEF Init, NoHandler, KInv, TypeOK

LEMMA KNext == KInv /\ [Next]_vars => KInv'
<1> SUFFICES ASSUME KInv, [Next]_vars PROVE KInv'
  OBVIOUS
<1>1. CASE UNCHANGED vars
  BY <1>1 DEF vars, money, KInv, TypeOK, Stored, Made, Held
<1>2. CASE Restart
  BY <1>2, RestartKeeps
<1>3. ASSUME NEW r \in Slots, Step(r) PROVE KInv'
  <2>1. CASE Requests(r)
    BY <2>1, RequestsAsk, AskedKeeps DEF KInv
  <2>2. CASE Gifts(r) \/ Pay(r) \/ Earn(r) \/ Loses(r)
    BY <2>2, GiftKeeps, PayKeeps, PaidStepsKeep, FailureKeeps DEF Gifts, Loses
  <2>3. CASE Moving(r)
    BY <2>3, HostStepsKeep, EndReadKeeps, FindDealKeeps DEF Moving
  <2>4. CASE Saving(r)
    BY <2>4, CreateKeeps, CloseKeeps, QueueKeeps, AnswersKeep, CancelKeeps DEF Saving
  <2>5. CASE CreateDeal(r) \/ Record(r) \/ Clear(r) \/ AddRevenue(r)
    BY <2>5, CreateDealKeeps, RecordKeeps, ClearKeeps, AddRevenueKeeps
  <2>6. QED BY <1>3, <2>1, <2>2, <2>3, <2>4, <2>5 DEF Step
<1>4. QED BY <1>1, <1>2, <1>3, NextIsStep

----------------
(* What all steps have in common, and the steps that are neither a part of *)
(* the bill nor about a gift.                                              *)

LEMMA StepMoves ==
  ASSUME KInv, NEW r \in Slots, Step(r)
  PROVE  Moves(r, work'[r])
<1>0. TypeOK /\ work \in [Slots -> Running \cup {Idle}]
  BY DEF KInv, TypeOK
<1>1. SUFFICES \E h : Moves(r, h)
  BY DEF Moves
<1>2. (\E h : work' = [work EXCEPT ![r] = h]) => \E h : Moves(r, h)
  BY <1>0, SlotMoves
<1>3. Finish(r) => \E h : Moves(r, h)
  BY <1>0, FinishMoves
<1>4. ASSUME NEW pc, Goto(r, pc) PROVE \E h : Moves(r, h)
  BY <1>0, <1>4, GotoMoves
<1>5. ASSUME NEW s, NEW h, Raise(r, s, h) PROVE \E k : Moves(r, k)
  BY <1>0, <1>5, RaiseMoves
<1>6. CASE Requests(r)
  BY <1>0, <1>2, <1>6, RequestsAsk DEF Asked, Begin
<1>7. CASE Gifts(r)
  BY <1>2, <1>7 DEF Gifts, Gift, Begin
<1>8. CASE Moving(r)
  <2>1. CASE FlagLive(r)
    BY <1>3, <2>1 DEF FlagLive
  <2>2. CASE Stop(r)
    <3>1. CASE Live(work[r].s)
      <4>1. \E h : work' = [work EXCEPT ![r] = h]
        BY <1>0, <2>2, <3>1 DEF Stop
      <4>2. QED BY <1>2, <4>1
    <3>2. CASE ~Live(work[r].s)
      BY <1>3, <1>4, <2>2, <3>2 DEF Stop
    <3>3. QED BY <3>1, <3>2
  <2>3. CASE Release(r)
    BY <1>3, <1>4, <2>3 DEF Release
  <2>4. CASE EndRead(r)
    <3>1. CASE OnCall(work[r].s)
      <4>1. \E h : work' = [work EXCEPT ![r] = h]
        BY <1>0, <2>4, <3>1 DEF EndRead
      <4>2. QED BY <1>2, <4>1
    <3>2. CASE ~OnCall(work[r].s)
      BY <1>3, <1>4, <2>4, <3>2 DEF EndRead
    <3>3. QED BY <3>1, <3>2
  <2>5. CASE FindDeal(r)
    <3>1. CASE Ongoing(work[r].s) # {}
      <4>1. PICK t, n : work' = [work EXCEPT ![r].pc = "pay", ![r].t = t, ![r].n = n]
        BY <2>5, <3>1 DEF FindDeal
      <4>2. \E h : work' = [work EXCEPT ![r] = h]
        BY <1>0, <4>1
      <4>3. QED BY <1>2, <4>2
    <3>2. CASE Ongoing(work[r].s) = {}
      BY <1>4, <2>5, <3>2 DEF FindDeal
    <3>3. QED BY <3>1, <3>2
  <2>6. QED BY <1>8, <2>1, <2>2, <2>3, <2>4, <2>5 DEF Moving
<1>9. CASE Saving(r)
  <2>1. CASE Create(r)
    <3>1. PICK s : work' = [work EXCEPT ![r].pc = "flag", ![r].s = s]
      BY <2>1 DEF Create
    <3>2. \E h : work' = [work EXCEPT ![r] = h]
      BY <1>0, <3>1
    <3>3. QED BY <1>2, <3>2
  <2>2. CASE Close(r)
    BY <1>3, <1>5, <2>2 DEF Close
  <2>3. CASE Queue(r)
    BY <1>5, <2>3 DEF Queue
  <2>4. CASE AcceptSave(r) \/ Refuse(r)
    BY <1>3, <2>4 DEF AcceptSave, Refuse
  <2>5. CASE CancelSave(r)
    BY <1>3, <1>5, <2>5 DEF CancelSave
  <2>6. QED BY <1>9, <2>1, <2>2, <2>3, <2>4, <2>5 DEF Saving
<1>10. CASE Loses(r) \/ AddRevenue(r) \/ Record(r) \/ Clear(r) \/ Pay(r)
  BY <1>3, <1>4, <1>10 DEF Loses, EarnFails, HandlerFails, AddRevenue, Record, Clear, Pay
<1>11. CASE CreateDeal(r)
  <2>1. PICK t : work' = [work EXCEPT ![r].pc = "accept", ![r].t = t]
    BY <1>11 DEF CreateDeal
  <2>2. \E h : work' = [work EXCEPT ![r] = h]
    BY <1>0, <2>1
  <2>3. QED BY <1>2, <2>2
<1>12. CASE Earn(r)
  <2>1. \E h : work' = [work EXCEPT ![r] = h]
    BY <1>0, <1>12 DEF Earn
  <2>2. QED BY <1>2, <2>1
<1>13. QED BY <1>6, <1>7, <1>8, <1>9, <1>10, <1>11, <1>12 DEF Step

\* Steps that neither bill nor give: the handler is at no step of the bill
\* afterwards, and no amount changes.
Aside(r) ==
  \/ Requests(r) \/ FlagLive(r) \/ Stop(r) \/ Release(r) \/ Saving(r) \/ CreateDeal(r)
  \/ HandlerFails(r)

LEMMA AsideIsAside ==
  ASSUME KInv, NEW r \in Slots, Aside(r)
  PROVE  /\ ~Ending(work'[r]) /\ work'[r].pc # "gift"
         /\ UNCHANGED money
         /\ \A s \in Streams : stream'[s].revenue = stream[s].revenue
<1>0. TypeOK /\ work \in [Slots -> Running \cup {Idle}]
  BY DEF KInv, TypeOK
<1>1. CASE Requests(r)
  <2>1. PICK h \in Starts : Begin(r, h)
    BY <1>0, <1>1, RequestsAsk DEF Asked
  <2>2. work'[r] = h
    BY <1>0, <2>1 DEF Begin
  <2>3. UNCHANGED <<stream, money>>
    BY <1>0, <1>1, RequestsAsk DEF Asked
  <2>4. QED BY <2>2, <2>3 DEF Starts, Ending
<1>2. Finish(r) => ~Ending(work'[r]) /\ work'[r].pc # "gift"
  BY <1>0 DEF Finish, Idle, Ending
<1>3. ASSUME NEW pc \in {"create", "release", "stop", "close", "end"}, Goto(r, pc),
             ~At(r, "idle")
      PROVE  ~Ending(work'[r]) /\ work'[r].pc # "gift"
  <2>1. work[r] \in Running
    BY <1>0, <1>3, RunningSlot
  <2>2. work'[r] = [work[r] EXCEPT !.pc = pc]
    BY <1>0, <1>3 DEF Goto
  <2>3. QED BY <2>1, <2>2 DEF Running, Ending
<1>4. CASE FlagLive(r) \/ HandlerFails(r)
  BY <1>2, <1>4 DEF FlagLive, HandlerFails
<1>5. CASE Stop(r)
  <2>1. UNCHANGED <<stream, money>> /\ ~At(r, "idle")
    BY <1>5 DEF Stop, At
  <2>2. CASE Live(work[r].s)
    <3>1. work[r] \in Running
      BY <1>0, <2>1, RunningSlot
    <3>2. work'[r].pc \in {"end", "close"}
      BY <1>0, <1>5, <2>2, <3>1 DEF Stop, Running
    <3>3. QED BY <2>1, <3>2 DEF Ending
  <2>3. CASE ~Live(work[r].s)
    BY <1>2, <1>3, <1>5, <2>1, <2>3 DEF Stop
  <2>4. QED BY <2>2, <2>3
<1>6. CASE Release(r)
  <2>1. UNCHANGED <<stream, money>> /\ ~At(r, "idle")
    BY <1>6 DEF Release, At
  <2>2. QED BY <1>2, <1>3, <1>6, <2>1 DEF Release
<1>7. CASE CreateDeal(r)
  <2>1. work[r] \in Running /\ UNCHANGED <<stream, money>>
    BY <1>0, <1>7, RunningSlot DEF CreateDeal, At
  <2>2. work'[r].pc = "accept"
    BY <1>0, <1>7, <2>1 DEF CreateDeal, Running
  <2>3. QED BY <2>1, <2>2 DEF Ending
<1>8. CASE Create(r)
  <2>1. work[r] \in Running /\ UNCHANGED money
    BY <1>0, <1>8, RunningSlot DEF Create, At
  <2>2. PICK s \in Streams : /\ stream' = [stream EXCEPT ![s].status = "live"]
                             /\ work' = [work EXCEPT ![r].pc = "flag", ![r].s = s]
    BY <1>8 DEF Create, UnusedStreams
  <2>3. work'[r].pc = "flag"
    BY <1>0, <2>1, <2>2 DEF Running
  <2>4. \A q \in Streams : stream'[q].revenue = stream[q].revenue
    BY <1>0, <2>2 DEF TypeOK, Stored, Documents
  <2>5. QED BY <2>1, <2>3, <2>4 DEF Ending
<1>9. CASE Close(r) \/ CancelSave(r) \/ Queue(r)
  <2>1. work[r] \in Running /\ UNCHANGED money
    BY <1>0, <1>9, RunningSlot DEF Close, CancelSave, Queue, At
  <2>2. ASSUME NEW q \in Streams PROVE stream'[q].revenue = stream[q].revenue
    <3>1. stream[q] \in Documents /\ stream \in [Streams -> Documents]
      BY <1>0 DEF TypeOK, Stored
    <3>2. CASE Close(r)
      <4>1. CASE work[r].fresh
        <5>1. stream' = [stream EXCEPT ![work[r].s].status = "ended", ![work[r].s].waitlist = <<>>]
          BY <3>2, <4>1 DEF Close
        <5>2. stream'[q] \in {stream[q], [stream[q] EXCEPT !.status = "ended", !.waitlist = <<>>]}
          BY <3>1, <5>1
        <5>3. [stream[q] EXCEPT !.status = "ended", !.waitlist = <<>>].revenue = stream[q].revenue
          BY <3>1 DEF Documents
        <5>4. QED BY <5>2, <5>3
      <4>2. CASE ~work[r].fresh
        BY <3>2, <4>2 DEF Close
      <4>3. QED BY <4>1, <4>2
    <3>3. CASE CancelSave(r)
      BY <3>1, <3>3 DEF CancelSave, Documents
    <3>4. CASE Queue(r)
      <4>1. PICK l : stream' = [stream EXCEPT ![work[r].s].waitlist = l]
        BY <3>1, <3>4 DEF Queue
      <4>2. QED BY <3>1, <4>1 DEF Documents
    <3>5. QED BY <1>9, <3>2, <3>3, <3>4
  <2>3. CASE Finish(r)
    BY <1>2, <2>1, <2>2, <2>3
  <2>4. CASE ~Finish(r)
    <3>1. work'[r] \in {Idle, [work[r] EXCEPT !.pc = "release"]}
      BY <1>9, <2>4 DEF Close, CancelSave, Queue, Raise
    <3>2. QED BY <2>1, <2>2, <3>1 DEF Ending, Idle, Running
  <2>5. QED BY <2>3, <2>4
<1>10. CASE AcceptSave(r) \/ Refuse(r)
  <2>1. UNCHANGED money /\ Finish(r)
    BY <1>10 DEF AcceptSave, Refuse
  <2>2. ASSUME NEW q \in Streams PROVE stream'[q].revenue = stream[q].revenue
    <3> DEFINE s == work[r].s
    <3>1. stream[q] \in Documents /\ stream \in [Streams -> Documents]
      BY <1>0 DEF TypeOK, Stored
    <3>2. CASE stream' = stream \/ q # s
      BY <1>10, <3>1, <3>2 DEF AcceptSave, Refuse
    <3>3. CASE stream' # stream /\ q = s
      <4>1. PICK d \in {stream[s], [stream[s] EXCEPT !.call = work[r].u]} :
              \E l : stream' = [stream EXCEPT ![s] = [d EXCEPT !.waitlist = l]]
        <5>1. CASE AcceptSave(r)
          <6> DEFINE d == [stream[s] EXCEPT !.call = work[r].u]
                     l == [d.waitlist EXCEPT ![work[r].n].status = "accepted"]
          <6>1. stream' = [stream EXCEPT ![s] =
                  [d EXCEPT !.waitlist = [@ EXCEPT ![work[r].n].status = "accepted"]]]
            BY <3>1, <3>3, <5>1 DEF AcceptSave
          <6>2. stream' = [stream EXCEPT ![s] = [d EXCEPT !.waitlist = l]]
            BY <6>1
          <6> HIDE DEF l
          <6>3. QED BY <6>2
        <5>2. CASE Refuse(r)
          <6> DEFINE new == IF At(r, "reject") THEN "rejected" ELSE "expired"
                     l == [stream[s].waitlist EXCEPT ![work[r].n].status = new]
          <6>1. stream' = [stream EXCEPT ![s].waitlist[work[r].n].status = new]
            BY <3>3, <5>2 DEF Refuse
          <6>2. stream' = [stream EXCEPT ![s] = [stream[s] EXCEPT !.waitlist = l]]
            BY <3>1, <6>1
          <6> HIDE DEF l
          <6>3. QED BY <6>2
        <5>3. QED BY <1>10, <5>1, <5>2
      <4>2. PICK l : stream' = [stream EXCEPT ![s] = [d EXCEPT !.waitlist = l]]
        BY <4>1
      <4>3. stream'[q] = [d EXCEPT !.waitlist = l]
        BY <3>1, <3>3, <4>2
      <4>4. d \in {stream[q], [stream[q] EXCEPT !.call = work[r].u]}
        BY <3>3, <4>1
      <4>5. d.revenue = stream[q].revenue /\ [d EXCEPT !.waitlist = l].revenue = d.revenue
        BY <3>1, <4>4 DEF Documents
      <4>6. QED BY <4>3, <4>5
    <3>4. QED BY <3>2, <3>3
  <2>3. QED BY <1>2, <2>1, <2>2
<1>11. QED
  BY <1>1, <1>4, <1>5, <1>6, <1>7, <1>8, <1>9, <1>10 DEF Aside, Saving, FlagLive, HandlerFails

----------------
(* Gifts on their way.                                                     *)

LEMMA PromisedType ==
  ASSUME NEW s
  PROVE  /\ IsFiniteSet(Giving(s)) /\ IsFiniteSet(Giving(s)')
         /\ Promised(s) \in Nat /\ Promised(s)' \in Nat
<1>1. Giving(s) \subseteq Slots /\ Giving(s)' \subseteq Slots
  BY DEF Giving
<1>2. IsFiniteSet(Giving(s)) /\ IsFiniteSet(Giving(s)')
  BY <1>1, FS_Subset, StreamAssumption
<1>3. Cardinality(Giving(s)) \in Nat /\ Cardinality(Giving(s)') \in Nat
  BY <1>2, FS_CardinalityType
<1>4. \A a, b \in Nat : a * b \in Nat
  OBVIOUS
<1>5. QED BY <1>2, <1>3, <1>4, StreamAssumption DEF Promised

LEMMA Times ==
  \A a, b, c \in Nat :
    /\ b <= c => a * b <= a * c
    /\ a * (b + 1) = a * b + a
OBVIOUS

LEMMA PromisedLess ==
  ASSUME NEW s, Giving(s)' \subseteq Giving(s)
  PROVE  Promised(s)' <= Promised(s)
<1>1. IsFiniteSet(Giving(s)) /\ IsFiniteSet(Giving(s)')
  BY PromisedType
<1>2. Cardinality(Giving(s)') <= Cardinality(Giving(s))
  BY <1>1, FS_Subset
<1>3. Cardinality(Giving(s)') \in Nat /\ Cardinality(Giving(s)) \in Nat
  BY <1>1, FS_CardinalityType
<1>4. QED BY <1>2, <1>3, Times, StreamAssumption DEF Promised

LEMMA PromisedMore ==
  ASSUME NEW s, NEW r, Giving(s)' \subseteq Giving(s) \cup {r}
  PROVE  Promised(s)' <= Promised(s) + GiftAmount
<1> DEFINE more == Giving(s) \cup {r}
<1>1. IsFiniteSet(Giving(s)) /\ IsFiniteSet(Giving(s)')
  BY PromisedType
<1>0. Cardinality(Giving(s)) \in Nat
  BY <1>1, FS_CardinalityType
<1>2. /\ IsFiniteSet(more) /\ Cardinality(Giving(s)) \in Nat
      /\ Cardinality(more) <= Cardinality(Giving(s)) + 1
  <2>1. /\ IsFiniteSet(more)
        /\ Cardinality(more) \in {Cardinality(Giving(s)), Cardinality(Giving(s)) + 1}
    BY <1>1, FS_AddElement
  <2>2. QED BY <1>0, <2>1
<1>3. Cardinality(Giving(s)') <= Cardinality(more) /\ Cardinality(more) \in Nat
        /\ Cardinality(Giving(s)') \in Nat
  BY <1>1, <1>2, FS_Subset, FS_CardinalityType
<1>4. Cardinality(Giving(s)') <= Cardinality(Giving(s)) + 1
  BY <1>2, <1>3
<1>5. GiftAmount * Cardinality(Giving(s)') <= GiftAmount * (Cardinality(Giving(s)) + 1)
  BY <1>2, <1>3, <1>4, Times, StreamAssumption
<1>6. GiftAmount * (Cardinality(Giving(s)) + 1) = GiftAmount * Cardinality(Giving(s)) + GiftAmount
  BY <1>2, Times, StreamAssumption
<1>7. QED BY <1>5, <1>6 DEF Promised

LEMMA PromisedKept ==
  ASSUME NEW s, NEW r \in Giving(s), Giving(s)' \subseteq Giving(s) \ {r}
  PROVE  Promised(s)' + GiftAmount <= Promised(s)
<1> DEFINE less == Giving(s) \ {r}
<1>1. IsFiniteSet(Giving(s)) /\ IsFiniteSet(Giving(s)')
  BY PromisedType
<1>2. IsFiniteSet(less) /\ Cardinality(less) = Cardinality(Giving(s)) - 1
        /\ Cardinality(Giving(s)) \in Nat
  BY <1>1, FS_RemoveElement, FS_CardinalityType
<1>3. Cardinality(Giving(s)') <= Cardinality(less) /\ Cardinality(less) \in Nat
        /\ Cardinality(Giving(s)') \in Nat
  BY <1>1, <1>2, FS_Subset, FS_CardinalityType
<1>4. Cardinality(Giving(s)') + 1 <= Cardinality(Giving(s))
  BY <1>2, <1>3
<1>5. GiftAmount * (Cardinality(Giving(s)') + 1) <= GiftAmount * Cardinality(Giving(s))
  BY <1>2, <1>3, <1>4, Times, StreamAssumption
<1>6. GiftAmount * (Cardinality(Giving(s)') + 1) = GiftAmount * Cardinality(Giving(s)') + GiftAmount
  BY <1>3, Times, StreamAssumption
<1>7. QED BY <1>5, <1>6 DEF Promised

\* A slot that moves is the only one that begins or ends giving.
LEMMA GivingMoves ==
  ASSUME NEW r \in Slots, NEW h, Moves(r, h), NEW s
  PROVE  /\ Giving(s)' \subseteq Giving(s) \cup {r}
         /\ ~(h.pc = "gift" /\ h.s = s) => Giving(s)' \subseteq Giving(s) \ {r}
<1>1. ASSUME NEW q \in Slots \ {r}, q \in Giving(s)' PROVE q \in Giving(s)
  <2>1. work'[q].pc = "gift" /\ work'[q].s = s
    BY <1>1 DEF Giving, At
  <2>2. work'[q].pc = work[q].pc /\ work'[q].s = work[q].s
    <3>1. CASE work'[q] = work[q]
      BY <3>1
    <3>2. CASE work[q] \in Running /\ work'[q] = [work[q] EXCEPT !.fresh = FALSE]
      BY <3>2 DEF Running
    <3>3. QED BY <3>1, <3>2 DEF Moves, Same
  <2>3. QED BY <2>1, <2>2 DEF Giving, At
<1>2. work'[r] = h
  BY DEF Moves
<1>3. r \in Giving(s)' => h.pc = "gift" /\ h.s = s
  BY <1>2 DEF Giving, At
<1>4. Giving(s)' \subseteq Slots
  BY DEF Giving
<1>5. QED BY <1>1, <1>3, <1>4

----------------
(* Revenue is covered.                                                     *)

\* A slot that did not move has the claim it had.
LEMMA OthersClaim ==
  ASSUME KInv, NEW r \in Slots, NEW h, Moves(r, h), NEW q \in Slots \ {r}
  PROVE  /\ work'[q].pc = work[q].pc
         /\ Ending(work'[q]) <=> Ending(work[q])
         /\ Ending(work[q]) => Claim(work'[q]) = Claim(work[q]) /\ work'[q].s = work[q].s
         /\ Paying(work'[q]) <=> Paying(work[q])
         /\ Paying(work[q]) => work'[q].t = work[q].t /\ work'[q].n = work[q].n
<1>1. CASE work'[q] = work[q]
  BY <1>1
<1>2. CASE work[q] \in Running /\ work'[q] = [work[q] EXCEPT !.fresh = FALSE]
  <2>1. /\ work'[q].pc = work[q].pc /\ work'[q].s = work[q].s /\ work'[q].rev = work[q].rev
        /\ work'[q].n = work[q].n /\ work'[q].ok = work[q].ok /\ work'[q].t = work[q].t
    BY <1>2 DEF Running
  <2>2. QED BY <2>1 DEF Ending, Claim, Paying
<1>3. QED BY <1>1, <1>2 DEF Moves, Same

LEMMA ClaimType ==
  ASSUME NEW h \in Running
  PROVE  Claim(h) \in Nat
<1>1. h.rev \in Nat /\ h.n \in Nat
  BY DEF Running
<1>2. Cost(h.n) \in Nat
  BY <1>1, CostIsPositive
<1>3. QED BY <1>1, <1>2 DEF Claim

\* A step that is not about a gift keeps what is covered, if what it writes
\* and what its handler claims afterwards is.
LEMMA CoveredKept ==
  ASSUME KInv, KInv', Covered, NEW r \in Slots, NEW h, Moves(r, h), h.pc # "gift",
         \A s \in Streams : received[s] <= received'[s],
         \A s \in Streams : stream'[s].revenue + Promised(s) <= received'[s],
         Ending(h) => \A s \in Streams : h.s = s => Claim(h) + Promised(s) <= received'[s]
  PROVE  Covered'
<1>1. work'[r] = h
  BY DEF Moves
<1>2. \A s \in Streams : Promised(s)' <= Promised(s) /\ Promised(s) \in Nat /\ Promised(s)' \in Nat
  <2>1. ASSUME NEW s \in Streams PROVE Giving(s)' \subseteq Giving(s)
    BY GivingMoves
  <2>2. QED BY <2>1, PromisedLess, PromisedType
<1>3. \A s \in Streams : received[s] \in Nat /\ received'[s] \in Nat /\ stream'[s].revenue \in Nat
  BY DEF KInv, TypeOK, Stored, Documents
<1>4. ASSUME NEW s \in Streams PROVE (stream[s].revenue + Promised(s) <= received[s])'
  BY <1>2, <1>3
<1>5. ASSUME NEW q \in Slots, Ending(work'[q]), NEW s \in Streams, work'[q].s = s
      PROVE  (Claim(work[q]) + Promised(s) <= received[s])'
  <2>1. Claim(work'[q]) \in Nat
    <3>1. work'[q] \in Running
      BY <1>5 DEF KInv, TypeOK, Ending, Idle
    <3>2. QED BY <3>1, ClaimType
  <2>2. Claim(work'[q]) + Promised(s) <= received'[s]
    <3>1. CASE q = r
      BY <1>1, <1>5, <3>1
    <3>2. CASE q # r
      <4>1. Ending(work[q]) /\ work[q].s = s /\ Claim(work'[q]) = Claim(work[q])
        BY <1>5, <3>2, OthersClaim
      <4>2. Claim(work[q]) + Promised(s) <= received[s]
        BY <4>1 DEF Covered
      <4>3. QED BY <1>2, <1>3, <2>1, <4>1, <4>2
    <3>3. QED BY <3>1, <3>2
  <2>3. QED BY <1>2, <1>3, <2>1, <2>2
<1>6. QED BY <1>4, <1>5 DEF Covered

LEMMA AsideCovered ==
  ASSUME KInv, KInv', Covered, NEW r \in Slots, Aside(r), Moves(r, work'[r])
  PROVE  Covered'
<1>1. PICK h : h = work'[r]
  OBVIOUS
<1>2. ~Ending(h) /\ h.pc # "gift" /\ UNCHANGED money
  BY <1>1, AsideIsAside
<1>3. \A s \in Streams : stream'[s].revenue = stream[s].revenue
  BY AsideIsAside
<1>4. \A s \in Streams : received[s] \in Nat /\ received'[s] = received[s]
  BY <1>2 DEF money, KInv, TypeOK, Stored
<1>5. \A s \in Streams : stream'[s].revenue + Promised(s) <= received'[s]
  BY <1>3, <1>4 DEF Covered
<1>6. \A s \in Streams : received[s] <= received'[s]
  BY <1>4
<1>7. QED BY <1>1, <1>2, <1>5, <1>6, CoveredKept

\* What a handler that ends a call has when it leaves one step for the next.
LEMMA BillStep ==
  ASSUME KInv, NEW r \in Slots,
         EndRead(r) \/ FindDeal(r) \/ Pay(r) \/ Earn(r) \/ EarnFails(r) \/ Record(r) \/ Clear(r)
  PROVE  /\ work[r] \in Running /\ work[r].s \in Streams
         /\ work'[r].pc # "gift"
         /\ Ending(work'[r]) => work'[r] \in Running /\ work'[r].s = work[r].s
         /\ EndRead(r) => work'[r].pc \in {"idle", "stop", "close"}
              \/ (work'[r].pc = "find" /\ work'[r].rev = stream[work[r].s].revenue)
         /\ FindDeal(r) => ~Paying(work'[r]) /\ (Claim(work'[r]) = 0 \/ Claim(work'[r]) = Claim(work[r]))
         /\ Pay(r) => \/ /\ work'[r].pc = "earn" /\ work'[r].t = work[r].t /\ work'[r].n = work[r].n
                         /\ work'[r].rev = work[r].rev /\ UNCHANGED <<stream, deal>>
                         /\ received' = [received EXCEPT ![work[r].s] = @ + Cost(work[r].n)]
                         /\ charged' = [charged EXCEPT ![work[r].t] = @ + Cost(work[r].n)]
                         /\ bills' = [bills EXCEPT ![work[r].t] = @ + 1]
                      \/ /\ work'[r].pc = "record" /\ ~work'[r].ok
                         /\ UNCHANGED <<stream, deal, money>>
         /\ Earn(r) \/ EarnFails(r) =>
              /\ work'[r].pc = "record" /\ work'[r].rev = work[r].rev /\ work'[r].n = work[r].n
              /\ work'[r].t = work[r].t /\ (Earn(r) => work'[r].ok) /\ (EarnFails(r) => ~work'[r].ok)
         /\ Record(r) => /\ work'[r].pc = "clear" /\ work'[r].rev = work[r].rev
                         /\ work'[r].n = work[r].n /\ work'[r].ok = work[r].ok
         /\ Clear(r) => work'[r].pc \in {"idle", "stop", "close"}
<1>0. TypeOK /\ work \in [Slots -> Running \cup {Idle}]
  BY DEF KInv, TypeOK
<1>1. work[r] \in Running /\ work[r].s \in Streams /\ Held(work[r])
  BY RunningSlot DEF KInv, Held, At, EndRead, FindDeal, Pay, Earn, EarnFails, Record, Clear
<1>2. ASSUME NEW pc \in Steps \ {"gift"}, Goto(r, pc)
      PROVE  /\ work'[r] \in Running /\ work'[r].pc = pc /\ work'[r].s = work[r].s
             /\ work'[r].rev = work[r].rev /\ work'[r].n = work[r].n /\ work'[r].t = work[r].t
             /\ work'[r].ok = work[r].ok
  <2>1. work'[r] = [work[r] EXCEPT !.pc = pc]
    BY <1>0, <1>2 DEF Goto
  <2>2. QED BY <1>1, <2>1 DEF Running
<1>3. Finish(r) => work'[r].pc = "idle"
  BY <1>0 DEF Finish, Idle
<1>4. work[r].then \in {"idle", "stop", "close"}
  BY <1>1 DEF Running
<1>5. (IF work[r].then = "idle" THEN Finish(r) ELSE Goto(r, work[r].then))
        => work'[r].pc \in {"idle", "stop", "close"}
  BY <1>2, <1>3, <1>4 DEF Steps
<1>6. CASE EndRead(r)
  <2>1. CASE OnCall(work[r].s)
    <3>1. work'[r] = [work[r] EXCEPT !.pc = "find", !.u = stream[work[r].s].call,
                                     !.rev = stream[work[r].s].revenue, !.ok = FALSE]
      BY <1>0, <1>6, <2>1 DEF EndRead
    <3>2. stream[work[r].s].call \in Viewers \cup {NoOne} /\ stream[work[r].s].revenue \in Nat
      BY <1>0, <1>1 DEF TypeOK, Stored, Documents
    <3>3. /\ work'[r] \in Running /\ work'[r].pc = "find" /\ work'[r].s = work[r].s
          /\ work'[r].rev = stream[work[r].s].revenue
      BY <1>1, <3>1, <3>2 DEF Running, Steps
    <3>4. QED BY <1>1, <1>6, <3>3 DEF EndRead, FindDeal, Pay, Earn, EarnFails, Record, Clear, At
  <2>2. CASE ~OnCall(work[r].s)
    <3>1. work'[r].pc \in {"idle", "stop", "close"}
      BY <1>5, <1>6, <2>2 DEF EndRead
    <3>2. QED
      BY <1>1, <1>6, <3>1 DEF EndRead, FindDeal, Pay, Earn, EarnFails, Record, Clear, At, Ending
  <2>3. QED BY <2>1, <2>2
<1>7. CASE FindDeal(r)
  <2>0. ~work[r].ok
    BY <1>1, <1>7 DEF FindDeal, At, Held
  <2>1. CASE Ongoing(work[r].s) = {}
    <3>1. Goto(r, "clear")
      BY <1>7, <2>1 DEF FindDeal
    <3>2. /\ work'[r] \in Running /\ work'[r].pc = "clear" /\ work'[r].s = work[r].s
          /\ ~work'[r].ok
      BY <1>2, <2>0, <3>1 DEF Steps
    <3>3. QED
      BY <1>1, <1>7, <3>2
         DEF EndRead, FindDeal, Pay, Earn, EarnFails, Record, Clear, At, Claim, Paying
  <2>2. CASE Ongoing(work[r].s) # {}
    <3>1. PICK t \in Ongoing(work[r].s), n \in Lengths :
            work' = [work EXCEPT ![r].pc = "pay", ![r].t = t, ![r].n = n]
      BY <1>7, <2>2 DEF FindDeal
    <3>2. t \in Deals /\ n \in Nat
      BY StreamAssumption DEF Ongoing
    <3>3. work'[r] = [work[r] EXCEPT !.pc = "pay", !.t = t, !.n = n]
      BY <1>0, <3>1
    <3>4. /\ work'[r] \in Running /\ work'[r].pc = "pay" /\ work'[r].s = work[r].s
          /\ work'[r].rev = work[r].rev
      BY <1>1, <3>2, <3>3 DEF Running, Steps
    <3>5. QED
      BY <1>1, <1>7, <3>4
         DEF EndRead, FindDeal, Pay, Earn, EarnFails, Record, Clear, At, Claim, Paying
  <2>3. QED BY <2>1, <2>2
<1>8. CASE Pay(r)
  <2>0. ~work[r].ok
    BY <1>1, <1>8 DEF Pay, At, Held
  <2>1. CASE purse[deal[work[r].t].u] >= Cost(work[r].n)
    <3>1. /\ Goto(r, "earn") /\ UNCHANGED <<stream, deal>>
          /\ received' = [received EXCEPT ![work[r].s] = @ + Cost(work[r].n)]
          /\ charged' = [charged EXCEPT ![work[r].t] = @ + Cost(work[r].n)]
          /\ bills' = [bills EXCEPT ![work[r].t] = @ + 1]
      BY <1>8, <2>1 DEF Pay
    <3>2. QED
      BY <1>1, <1>2, <1>8, <3>1
         DEF EndRead, FindDeal, Pay, Earn, EarnFails, Record, Clear, At, Steps
  <2>2. CASE ~(purse[deal[work[r].t].u] >= Cost(work[r].n))
    <3>1. Goto(r, "record") /\ UNCHANGED <<stream, deal, money>>
      BY <1>8, <2>2 DEF Pay
    <3>2. QED
      BY <1>1, <1>2, <1>8, <2>0, <3>1
         DEF EndRead, FindDeal, Pay, Earn, EarnFails, Record, Clear, At, Steps
  <2>3. QED BY <2>1, <2>2
<1>9. CASE Earn(r)
  <2>1. work'[r] = [work[r] EXCEPT !.pc = "record", !.ok = TRUE]
    BY <1>0, <1>9 DEF Earn
  <2>2. /\ work'[r] \in Running /\ work'[r].pc = "record" /\ work'[r].s = work[r].s
        /\ work'[r].rev = work[r].rev /\ work'[r].n = work[r].n /\ work'[r].t = work[r].t
        /\ work'[r].ok
    BY <1>1, <2>1 DEF Running, Steps
  <2>3. ~EarnFails(r)
    <3>1. failures \in Nat
      BY <1>0, StreamAssumption DEF TypeOK, Stored
    <3>2. QED BY <1>9, <3>1 DEF Earn, EarnFails
  <2>4. QED BY <1>1, <1>9, <2>2, <2>3 DEF EndRead, FindDeal, Pay, Earn, Record, Clear, At
<1>10. CASE EarnFails(r)
  <2>1. Goto(r, "record") /\ ~work[r].ok
    BY <1>1, <1>10 DEF EarnFails, Held, At
  <2>2. ~Earn(r)
    <3>1. failures \in Nat
      BY <1>0, StreamAssumption DEF TypeOK, Stored
    <3>2. QED BY <1>10, <3>1 DEF Earn, EarnFails
  <2>3. QED
    BY <1>1, <1>2, <1>10, <2>1, <2>2
       DEF EndRead, FindDeal, Pay, EarnFails, Record, Clear, At, Steps
<1>11. CASE Record(r)
  BY <1>1, <1>2, <1>11 DEF EndRead, FindDeal, Pay, Earn, EarnFails, Record, Clear, At, Steps
<1>12. CASE Clear(r)
  <2>1. work'[r].pc \in {"idle", "stop", "close"}
    BY <1>5, <1>12 DEF Clear
  <2>2. QED
    BY <1>1, <1>12, <2>1 DEF EndRead, FindDeal, Pay, Earn, EarnFails, Record, Clear, At, Ending
<1>13. QED BY <1>6, <1>7, <1>8, <1>9, <1>10, <1>11, <1>12

LEMMA BillCovered ==
  ASSUME KInv, KInv', Covered, NEW r \in Slots, Moves(r, work'[r]),
         EndRead(r) \/ FindDeal(r) \/ Pay(r) \/ Earn(r) \/ EarnFails(r) \/ Record(r) \/ Clear(r)
  PROVE  Covered'
<1>1. PICK h : h = work'[r]
  OBVIOUS
<1>2. PICK s \in Streams : s = work[r].s
  BY BillStep
<1>3. work[r] \in Running /\ h.pc # "gift" /\ (Ending(h) => h \in Running /\ h.s = s)
  BY <1>1, <1>2, BillStep
<1>4. \A q \in Streams : /\ received[q] \in Nat /\ received'[q] \in Nat /\ Promised(q) \in Nat
                         /\ stream[q].revenue \in Nat /\ stream[q].revenue + Promised(q) <= received[q]
  BY PromisedType DEF KInv, TypeOK, Stored, Documents, Covered
<1>5. Ending(work[r]) => Claim(work[r]) \in Nat /\ Claim(work[r]) + Promised(s) <= received[s]
  BY <1>2, <1>3, ClaimType DEF Covered
<1>7. CASE EndRead(r)
  <2>1. UNCHANGED <<stream, received>>
    BY <1>7 DEF EndRead, money
  <2>2. Ending(h) => Claim(h) = stream[s].revenue
    BY <1>1, <1>2, <1>7, BillStep DEF Ending, Claim
  <2>3. Ending(h) => \A q \in Streams : h.s = q => Claim(h) + Promised(q) <= received'[q]
    BY <1>3, <1>4, <2>1, <2>2
  <2>4. \A q \in Streams : received[q] <= received'[q] /\ stream'[q].revenue + Promised(q) <= received'[q]
    BY <1>4, <2>1
  <2>5. QED BY <1>1, <1>3, <2>3, <2>4, CoveredKept
<1>8. CASE FindDeal(r) \/ Earn(r) \/ EarnFails(r) \/ Record(r)
  <2>1. UNCHANGED <<stream, received>>
    BY <1>8 DEF FindDeal, Earn, EarnFails, Record, money
  <2>2. Ending(work[r])
    BY <1>8 DEF FindDeal, Earn, EarnFails, Record, At, Ending
  <2>3. Claim(h) = 0 \/ Claim(h) = Claim(work[r])
    <3>1. CASE FindDeal(r)
      BY <1>1, <3>1, BillStep
    <3>2. CASE Earn(r) \/ EarnFails(r)
      <4>1. work[r].pc = "earn"
        BY <3>2 DEF Earn, EarnFails, At
      <4>2. h.pc = "record" /\ h.rev = work[r].rev /\ h.n = work[r].n
        BY <1>1, <3>2, BillStep
      <4>3. QED BY <4>1, <4>2 DEF Claim
    <3>3. CASE Record(r)
      <4>1. work[r].pc = "record"
        BY <3>3 DEF Record, At
      <4>2. h.pc = "clear" /\ h.rev = work[r].rev /\ h.n = work[r].n /\ h.ok = work[r].ok
        BY <1>1, <3>3, BillStep
      <4>3. QED BY <4>1, <4>2 DEF Claim
    <3>4. QED BY <1>8, <3>1, <3>2, <3>3
  <2>4. Ending(h) => \A q \in Streams : h.s = q => Claim(h) + Promised(q) <= received'[q]
    BY <1>3, <1>4, <1>5, <2>1, <2>2, <2>3
  <2>5. \A q \in Streams : received[q] <= received'[q] /\ stream'[q].revenue + Promised(q) <= received'[q]
    BY <1>4, <2>1
  <2>6. QED BY <1>1, <1>3, <2>4, <2>5, CoveredKept
<1>9. CASE Pay(r)
  <2>1. Ending(work[r]) /\ Claim(work[r]) = work[r].rev
    BY <1>9 DEF Pay, At, Ending, Claim
  <2>2. CASE work'[r].pc = "earn"
    <3>1. /\ h.pc = "earn" /\ h.rev = work[r].rev /\ h.n = work[r].n /\ stream' = stream
          /\ received' = [received EXCEPT ![s] = @ + Cost(work[r].n)]
      BY <1>1, <1>2, <1>9, <2>2, BillStep
    <3>2. Cost(work[r].n) \in Nat /\ work[r].rev \in Nat
      BY <1>3, CostIsPositive DEF Running
    <3>3. \A q \in Streams : received'[q] = IF q = s THEN received[q] + Cost(work[r].n) ELSE received[q]
      BY <3>1 DEF KInv, TypeOK, Stored
    <3>4. Claim(h) = work[r].rev + Cost(work[r].n)
      BY <3>1 DEF Claim
    <3> HIDE DEF Cost
    <3>5. Ending(h) => \A q \in Streams : h.s = q => Claim(h) + Promised(q) <= received'[q]
      BY <1>3, <1>4, <1>5, <2>1, <3>2, <3>3, <3>4
    <3>6. \A q \in Streams : received[q] <= received'[q] /\ stream'[q].revenue + Promised(q) <= received'[q]
      BY <1>4, <3>1, <3>2, <3>3
    <3>7. QED BY <1>1, <1>3, <3>5, <3>6, CoveredKept
  <2>3. CASE work'[r].pc # "earn"
    <3>1. h.pc = "record" /\ ~h.ok /\ UNCHANGED <<stream, received>>
      BY <1>1, <1>9, <2>3, BillStep DEF money
    <3>2. Claim(h) = 0
      BY <3>1 DEF Claim
    <3>3. Ending(h) => \A q \in Streams : h.s = q => Claim(h) + Promised(q) <= received'[q]
      BY <1>4, <3>1, <3>2
    <3>4. \A q \in Streams : received[q] <= received'[q] /\ stream'[q].revenue + Promised(q) <= received'[q]
      BY <1>4, <3>1
    <3>5. QED BY <1>1, <1>3, <3>3, <3>4, CoveredKept
  <2>4. QED BY <2>2, <2>3
<1>10. CASE Clear(r)
  <2>1. Ending(work[r]) /\ Claim(work[r]) = IF work[r].ok THEN work[r].rev + Cost(work[r].n) ELSE 0
    BY <1>10 DEF Clear, At, Ending, Claim
  <2>2. ~Ending(h)
    BY <1>1, <1>10, BillStep DEF Ending
  <2>3. received' = received
    BY <1>10 DEF Clear, money
  <2>4. \A q \in Streams : stream'[q].revenue = IF q = s /\ work[r].ok THEN Claim(work[r]) ELSE stream[q].revenue
    <3>1. stream' = [stream EXCEPT ![s].call = NoOne,
                                   ![s].revenue = IF work[r].ok THEN Claim(work[r]) ELSE @]
      BY <1>2, <1>10, <2>1 DEF Clear
    <3>2. stream \in [Streams -> Documents] /\ \A q \in Streams : stream[q] \in Documents
      BY DEF KInv, TypeOK, Stored
    <3>3. QED BY <3>1, <3>2 DEF Documents
  <2>5. \A q \in Streams : received[q] <= received'[q] /\ stream'[q].revenue + Promised(q) <= received'[q]
    BY <1>4, <1>5, <2>1, <2>3, <2>4
  <2>6. QED BY <1>1, <1>3, <2>2, <2>5, CoveredKept
<1>11. QED BY <1>7, <1>8, <1>9, <1>10

\* The increment uses up what the gift promised.
LEMMA AddRevenueCovered ==
  ASSUME KInv, KInv', Covered, NEW r \in Slots, AddRevenue(r), Moves(r, work'[r])
  PROVE  Covered'
<1>1. PICK s \in Streams : s = work[r].s
  BY DEF KInv, At, Held, AddRevenue
<1>2. work'[r] = Idle
  BY DEF AddRevenue, Finish, KInv, TypeOK
<1>3. Moves(r, Idle) /\ received' = received
  BY <1>2 DEF AddRevenue, money
<1>4. \A q \in Streams : stream'[q].revenue = IF q = s THEN stream[q].revenue + GiftAmount ELSE stream[q].revenue
  <2>1. stream' = [stream EXCEPT ![s].revenue = @ + GiftAmount]
    BY <1>1 DEF AddRevenue
  <2>2. stream \in [Streams -> Documents] /\ \A q \in Streams : stream[q] \in Documents
    BY DEF KInv, TypeOK, Stored
  <2>3. QED BY <2>1, <2>2 DEF Documents
<1>5. \A q \in Streams : /\ Promised(q) \in Nat /\ Promised(q)' \in Nat
                         /\ received[q] \in Nat /\ stream[q].revenue \in Nat /\ GiftAmount \in Nat
  BY PromisedType, StreamAssumption DEF KInv, TypeOK, Stored, Documents
<1>6. \A q \in Streams : Giving(q)' \subseteq Giving(q) \ {r}
  BY <1>3, GivingMoves DEF Idle
<1>7. \A q \in Streams : Promised(q)' <= Promised(q)
  BY <1>6, PromisedLess
<1>8. Promised(s)' + GiftAmount <= Promised(s)
  <2>1. r \in Giving(s)
    BY <1>1 DEF Giving, AddRevenue
  <2>2. QED BY <1>6, <2>1, PromisedKept
<1>9. ASSUME NEW q \in Streams PROVE (stream[q].revenue + Promised(q) <= received[q])'
  <2>1. stream[q].revenue + Promised(q) <= received[q]
    BY DEF Covered
  <2>2. CASE q = s
    BY <1>3, <1>4, <1>5, <1>8, <2>1, <2>2
  <2>3. CASE q # s
    BY <1>3, <1>4, <1>5, <1>7, <2>1, <2>3
  <2>4. QED BY <2>2, <2>3
<1>10. ASSUME NEW p \in Slots, Ending(work'[p]), NEW q \in Streams, work'[p].s = q
       PROVE  (Claim(work[p]) + Promised(q) <= received[q])'
  <2>1. p # r
    BY <1>2, <1>10 DEF Idle, Ending
  <2>2. Ending(work[p]) /\ work[p].s = q /\ Claim(work'[p]) = Claim(work[p])
    BY <1>3, <1>10, <2>1, OthersClaim
  <2>3. Claim(work[p]) + Promised(q) <= received[q]
    BY <2>2 DEF Covered
  <2>4. Claim(work[p]) \in Nat
    <3>1. work[p] \in Running
      BY <2>2, RunningSlot DEF KInv, Ending, At
    <3>2. QED BY <3>1, ClaimType
  <2>5. QED BY <1>3, <1>5, <1>7, <2>2, <2>3, <2>4
<1>11. QED BY <1>9, <1>10 DEF Covered

\* What a gift promises has been paid.
LEMMA GiftCovered ==
  ASSUME KInv, KInv', Covered, NEW r \in Slots, NEW s \in Streams, NEW u \in Viewers,
         Gift(r, s, u), Moves(r, work'[r])
  PROVE  Covered'
<1>1. PICK h : h = work'[r]
  OBVIOUS
<1>2. h.pc = "gift" /\ h.s = s
  <2>1. h = Handler("gift", s, u, "idle")
    BY <1>1 DEF Gift, Begin, KInv, TypeOK
  <2>2. QED BY <2>1 DEF Handler
<1>3. \A q \in Streams : received'[q] = IF q = s THEN received[q] + GiftAmount ELSE received[q]
  BY DEF Gift, KInv, TypeOK, Stored
<1>4. \A q \in Streams : /\ Promised(q) \in Nat /\ Promised(q)' \in Nat
                         /\ received[q] \in Nat /\ stream[q].revenue \in Nat /\ GiftAmount \in Nat
  BY PromisedType, StreamAssumption DEF KInv, TypeOK, Stored, Documents
<1>5. \A q \in Streams : Promised(q)' <= IF q = s THEN Promised(q) + GiftAmount ELSE Promised(q)
  <2>1. ASSUME NEW q \in Streams, q # s PROVE Giving(q)' \subseteq Giving(q)
    BY <1>1, <1>2, <2>1, GivingMoves
  <2>2. Giving(s)' \subseteq Giving(s) \cup {r}
    BY GivingMoves
  <2>3. QED BY <2>1, <2>2, PromisedLess, PromisedMore
<1>6. ASSUME NEW q \in Streams PROVE (stream[q].revenue + Promised(q) <= received[q])'
  <2>1. stream[q].revenue + Promised(q) <= received[q] /\ stream' = stream
    BY DEF Covered, Gift
  <2>2. QED BY <1>3, <1>4, <1>5, <2>1
<1>7. ASSUME NEW p \in Slots, Ending(work'[p]), NEW q \in Streams, work'[p].s = q
      PROVE  (Claim(work[p]) + Promised(q) <= received[q])'
  <2>1. p # r
    BY <1>1, <1>2, <1>7 DEF Ending
  <2>2. Ending(work[p]) /\ work[p].s = q /\ Claim(work'[p]) = Claim(work[p])
    BY <1>7, <2>1, OthersClaim
  <2>3. Claim(work[p]) + Promised(q) <= received[q]
    BY <2>2 DEF Covered
  <2>4. Claim(work[p]) \in Nat
    <3>1. work[p] \in Running
      BY <2>2, RunningSlot DEF KInv, Ending, At
    <3>2. QED BY <3>1, ClaimType
  <2>5. QED BY <1>3, <1>4, <1>5, <2>2, <2>3, <2>4
<1>8. QED BY <1>6, <1>7 DEF Covered

LEMMA RestartCovered ==
  ASSUME KInv, KInv', Covered, Restart
  PROVE  Covered'
<1>1. \A q \in Slots : work'[q] = Idle
  BY DEF Restart
<1>2. \A s \in Streams : Giving(s)' \subseteq Giving(s)
  BY <1>1 DEF Giving, At, Idle
<1>3. \A s \in Streams : Promised(s)' <= Promised(s) /\ Promised(s) \in Nat /\ Promised(s)' \in Nat
  BY <1>2, PromisedLess, PromisedType
<1>4. \A s \in Streams : stream[s].revenue \in Nat /\ received[s] \in Nat
  BY DEF KInv, TypeOK, Stored, Documents
<1>5. UNCHANGED <<stream, received>>
  BY DEF Restart, money
<1>6. ASSUME NEW s \in Streams PROVE (stream[s].revenue + Promised(s) <= received[s])'
  BY <1>3, <1>4, <1>5 DEF Covered
<1>7. \A q \in Slots : ~Ending(work'[q])
  BY <1>1 DEF Ending, Idle
<1>8. QED BY <1>6, <1>7 DEF Covered

LEMMA CoveredNext == KInv /\ Covered /\ [Next]_vars => Covered'
<1> SUFFICES ASSUME KInv, Covered, [Next]_vars PROVE Covered'
  OBVIOUS
<1>1. KInv'
  BY KNext
<1>2. CASE UNCHANGED vars
  BY <1>2 DEF vars, money, Covered, Promised, Giving, At
<1>3. CASE Restart
  BY <1>1, <1>3, RestartCovered
<1>4. ASSUME NEW r \in Slots, Step(r) PROVE Covered'
  <2>1. Moves(r, work'[r])
    BY <1>4, StepMoves
  <2>2. CASE Aside(r)
    BY <1>1, <2>1, <2>2, AsideCovered
  <2>3. CASE EndRead(r) \/ FindDeal(r) \/ Pay(r) \/ Earn(r) \/ EarnFails(r) \/ Record(r) \/ Clear(r)
    BY <1>1, <2>1, <2>3, BillCovered
  <2>4. CASE Gifts(r) \/ AddRevenue(r)
    BY <1>1, <2>1, <2>4, GiftCovered, AddRevenueCovered DEF Gifts
  <2>5. QED BY <1>4, <2>2, <2>3, <2>4 DEF Step, Aside, Moving, Loses
<1>5. QED BY <1>2, <1>3, <1>4, NextIsStep

LEMMA CoveredInit == Init => Covered
<1> SUFFICES ASSUME Init PROVE Covered
  OBVIOUS
<1>1. \A r \in Slots : work[r] = Idle
  BY DEF Init, NoHandler
<1>2. \A s \in Streams : Giving(s) = {}
  BY <1>1 DEF Giving, At, Idle
<1>3. \A s \in Streams : Promised(s) = 0
  <2>1. GiftAmount * 0 = 0
    BY StreamAssumption
  <2>2. QED BY <1>2, <2>1, FS_EmptySet DEF Promised
<1>4. \A s \in Streams : stream[s].revenue = 0 /\ received[s] = 0
  BY DEF Init, NoStream
<1>5. QED BY <1>1, <1>3, <1>4 DEF Covered, Ending, Idle

----------------
(* A transaction settled as paid was paid.                                 *)

\* Payments are never taken back.
LEMMA ChargedGrows ==
  ASSUME KInv, NEW r \in Slots, Step(r), Moves(r, work'[r])
  PROVE  \A t \in Deals : charged[t] \in Nat /\ charged'[t] \in Nat /\ charged[t] <= charged'[t]
<1>1. \A t \in Deals : charged[t] \in Nat
  BY DEF KInv, TypeOK, Stored
<1>2. CASE Pay(r)
  <2>1. /\ Cost(work[r].n) \in Nat
        /\ charged' = charged \/ charged' = [charged EXCEPT ![work[r].t] = @ + Cost(work[r].n)]
    <3>1. work[r] \in Running
      BY <1>2, BillStep
    <3>2. work[r].n \in Nat
      BY <3>1 DEF Running
    <3>3. QED BY <1>2, <3>2, CostIsPositive DEF Pay, money
  <2> HIDE DEF Cost
  <2>2. QED BY <1>1, <2>1 DEF KInv, TypeOK, Stored
<1>3. CASE ~Pay(r)
  <2>1. charged' = charged
    <3>1. CASE Aside(r)
      BY <3>1, AsideIsAside DEF money
    <3>2. CASE Gifts(r) \/ EndRead(r) \/ FindDeal(r) \/ Earn(r) \/ EarnFails(r) \/ Record(r)
               \/ Clear(r) \/ AddRevenue(r)
      BY <3>2 DEF Gifts, Gift, EndRead, FindDeal, Earn, EarnFails, Record, Clear, AddRevenue, money
    <3>3. QED BY <1>3, <3>1, <3>2 DEF Step, Aside, Moving, Loses
  <2>2. QED BY <1>1, <2>1
<1>4. QED BY <1>2, <1>3

\* Only the save of the bill, and what opens a transaction, writes one.
LEMMA DealWrites ==
  ASSUME KInv, NEW r \in Slots, Step(r)
  PROVE  CreateDeal(r) \/ Record(r) \/ deal' = deal
<1>1. CASE Requests(r)
  BY <1>1, RequestsAsk DEF KInv, Asked
<1>2. CASE Gifts(r) \/ Moving(r) \/ Loses(r) \/ Earn(r) \/ Pay(r)
  BY <1>2 DEF Gifts, Gift, Moving, FlagLive, Stop, Release, EndRead, FindDeal, Loses, EarnFails,
              HandlerFails, Earn, Pay
<1>3. CASE Saving(r) \/ Clear(r) \/ AddRevenue(r)
  BY <1>3 DEF Saving, Create, Close, Queue, AcceptSave, Refuse, CancelSave, Clear, AddRevenue
<1>4. QED BY <1>1, <1>2, <1>3 DEF Step

\* What a step leaves in slot r when it is about to settle as paid.
LEMMA PayingStep ==
  ASSUME KInv, NEW r \in Slots, Step(r), Moves(r, work'[r]), Paying(work'[r])
  PROVE  \/ Pay(r) /\ work'[r].pc = "earn"
         \/ Earn(r)
<1>1. ~Aside(r)
  BY AsideIsAside DEF Paying, Ending
<1>2. ~(EndRead(r) \/ FindDeal(r) \/ Record(r) \/ Clear(r))
  <2>1. EndRead(r) \/ FindDeal(r) \/ Record(r) \/ Clear(r) => ~Paying(work'[r])
    BY BillStep DEF Paying
  <2>2. QED BY <2>1
<1>3. ~EarnFails(r) /\ (Pay(r) => work'[r].pc = "earn")
  BY BillStep DEF Paying
<1>4. ~AddRevenue(r) /\ ~Gifts(r)
  <2>1. AddRevenue(r) => work'[r] = Idle
    BY DEF AddRevenue, Finish, KInv, TypeOK
  <2>2. Gifts(r) => work'[r].pc = "gift"
    BY DEF Gifts, Gift, Begin, Handler, KInv, TypeOK
  <2>3. QED BY <2>1, <2>2 DEF Paying, Idle
<1>5. QED BY <1>1, <1>2, <1>3, <1>4 DEF Step, Aside, Moving, Loses

LEMMA PaidKept ==
  ASSUME KInv, Settled, NEW r \in Slots, Step(r), Moves(r, work'[r]), NEW p \in Slots,
         Paying(work'[p])
  PROVE  charged'[work'[p].t] >= Cost(work'[p].n)
<1>0. \A q \in Slots : Paying(work[q]) => work[q].t \in Deals /\ Cost(work[q].n) \in Nat
  BY CostIsPositive, StreamAssumption DEF KInv, Held, Paying
<1>1. CASE p # r
  <2>1. Paying(work[p]) /\ work'[p].t = work[p].t /\ work'[p].n = work[p].n
    BY <1>1, OthersClaim
  <2>2. charged[work[p].t] >= Cost(work[p].n)
    BY <2>1 DEF Settled
  <2> HIDE DEF Cost
  <2>3. QED BY <1>0, <2>1, <2>2, ChargedGrows
<1>2. CASE p = r /\ Earn(r)
  <2>1. work'[r].t = work[r].t /\ work'[r].n = work[r].n /\ Paying(work[r])
    BY <1>2, BillStep DEF Earn, At, Paying
  <2>2. charged[work[r].t] >= Cost(work[r].n)
    BY <2>1 DEF Settled
  <2> HIDE DEF Cost
  <2>3. QED BY <1>0, <1>2, <2>1, <2>2, ChargedGrows
<1>3. CASE p = r /\ Pay(r) /\ work'[r].pc = "earn"
  <2>1. /\ work'[r].t = work[r].t /\ work'[r].n = work[r].n
        /\ charged' = [charged EXCEPT ![work[r].t] = @ + Cost(work[r].n)]
    BY <1>3, BillStep
  <2>2. work[r].t \in Deals /\ Cost(work[r].n) \in Nat
    BY <1>3, CostIsPositive, StreamAssumption DEF KInv, Held, Pay, At
  <2> HIDE DEF Cost
  <2>3. charged'[work[r].t] = charged[work[r].t] + Cost(work[r].n) /\ charged[work[r].t] \in Nat
    BY <2>1, <2>2 DEF KInv, TypeOK, Stored
  <2>4. QED BY <1>3, <2>1, <2>2, <2>3
<1>4. QED BY <1>1, <1>2, <1>3, PayingStep

LEMMA SettledNext == KInv /\ Settled /\ [Next]_vars => Settled'
<1> SUFFICES ASSUME KInv, Settled, [Next]_vars PROVE Settled'
  OBVIOUS
<1>1. CASE UNCHANGED vars
  BY <1>1 DEF vars, money, Settled
<1>2. CASE Restart
  <2>1. UNCHANGED <<deal, charged>> /\ \A p \in Slots : ~Paying(work'[p])
    BY <1>2 DEF Restart, money, Paying, Idle
  <2>2. QED BY <2>1 DEF Settled
<1>3. ASSUME NEW r \in Slots, Step(r) PROVE Settled'
  <2>1. Moves(r, work'[r])
    BY <1>3, StepMoves
  <2>2. \A p \in Slots : Paying(work'[p]) => charged'[work'[p].t] >= Cost(work'[p].n)
    BY <1>3, <2>1, PaidKept
  <2>3. ASSUME NEW t \in Deals, deal'[t].status = "completed"
        PROVE  charged'[t] >= deal'[t].total /\ deal'[t].total > 0
    <3>1. charged[t] \in Nat /\ charged'[t] \in Nat /\ charged[t] <= charged'[t]
          /\ deal[t].total \in Nat
      BY <1>3, <2>1, ChargedGrows DEF KInv, TypeOK, Stored, Transactions
    <3>2. CASE deal'[t] = deal[t]
      <4>1. charged[t] >= deal[t].total /\ deal[t].total > 0
        BY <2>3, <3>2 DEF Settled
      <4>2. QED BY <3>1, <3>2, <4>1
    <3>3. CASE deal'[t] # deal[t]
      <4>1. deal[t] \in Transactions /\ deal \in [Deals -> Transactions]
        BY DEF KInv, TypeOK, Stored
      <4>2. ~CreateDeal(r)
        BY <2>3, <3>3, <4>1 DEF CreateDeal
      <4>3. Record(r) /\ t = work[r].t
        BY <1>3, <3>3, <4>1, <4>2, DealWrites DEF Record
      <4>4. work[r].ok /\ deal'[t].total = Cost(work[r].n)
        BY <2>3, <4>1, <4>3 DEF Record, Transactions
      <4>5. charged[t] >= Cost(work[r].n) /\ Cost(work[r].n) \in Nat /\ Cost(work[r].n) > 0
        BY <4>3, <4>4, CostIsPositive, StreamAssumption
           DEF Settled, Paying, Record, At, KInv, Held
      <4> HIDE DEF Cost
      <4>6. QED BY <3>1, <4>4, <4>5
    <3>4. QED BY <3>2, <3>3
  <2>4. QED BY <2>2, <2>3 DEF Settled
<1>4. QED BY <1>1, <1>2, <1>3, NextIsStep

LEMMA SettledInit == Init => Settled
BY DEF Init, NoHandler, Idle, NoDeal, Settled, Paying

----------------
(* One request at a time: a transaction is paid once.                      *)

LEMMA OneSlot ==
  ASSUME KInv, NEW r \in Slots, OneAtATime
  PROVE  \A q \in Slots : q = r
<1>1. DOMAIN work = Slots
  BY DEF KInv, TypeOK
<1>2. PICK x : Slots = {x}
  BY <1>1, FS_Singleton, StreamAssumption DEF OneAtATime
<1>3. QED BY <1>2

\* The three parts of Billed.
OngoingBilled ==
  \A r \in Slots : work[r].pc \in {"pay", "earn", "record"} => deal[work[r].t].status = "ongoing"
OncePaid ==
  \A t \in Deals : bills[t] <= failures + IF Closed(t) \/ PaidFor(t) THEN 1 ELSE 0
PaidIsSettled ==
  failures = 0 =>
    \A t \in Deals : charged[t] > 0 => deal[t].status = "completed" \/ PaidFor(t)

\* A failure makes room for one more payment.
LEMMA FailureBilled ==
  ASSUME KInv, OncePaid, UNCHANGED <<deal, bills>>, failures' = failures + 1, OngoingBilled'
  PROVE  OngoingBilled' /\ OncePaid' /\ PaidIsSettled'
<1>1. failures \in Nat /\ \A t \in Deals : bills[t] \in Nat
  BY StreamAssumption DEF KInv, TypeOK, Stored
<1>2. \A t \in Deals : bills[t] <= failures + 1
  BY <1>1 DEF OncePaid
<1>3. OncePaid'
  BY <1>1, <1>2 DEF OncePaid
<1>4. PaidIsSettled'
  BY <1>1 DEF PaidIsSettled
<1>5. QED BY <1>3, <1>4

\* A step that takes no payment and closes no transaction.
LEMMA QuietBilled ==
  ASSUME KInv, OncePaid, PaidIsSettled, UNCHANGED <<bills, charged, failures>>,
         \A t \in Deals : Closed(t) => deal'[t] = deal[t],
         \A t \in Deals : PaidFor(t) => PaidFor(t)'
  PROVE  OncePaid' /\ PaidIsSettled'
<1>1. failures \in Nat /\ \A t \in Deals : bills[t] \in Nat
  BY StreamAssumption DEF KInv, TypeOK, Stored
<1>2. \A t \in Deals : Closed(t) => Closed(t)'
  BY DEF Closed
<1>3. OncePaid'
  BY <1>1, <1>2 DEF OncePaid
<1>4. ASSUME failures = 0, NEW t \in Deals, charged[t] > 0
      PROVE  (deal[t].status = "completed" \/ PaidFor(t))'
  <2>1. deal[t].status = "completed" \/ PaidFor(t)
    BY <1>4 DEF PaidIsSettled
  <2>2. QED BY <2>1 DEF Closed
<1>5. PaidIsSettled'
  BY <1>4 DEF PaidIsSettled
<1>6. QED BY <1>3, <1>5

LEMMA AsideBilled ==
  ASSUME KInv, Billed, OneAtATime, NEW r \in Slots, Aside(r), Moves(r, work'[r])
  PROVE  OngoingBilled' /\ OncePaid' /\ PaidIsSettled'
<1>0. OngoingBilled /\ OncePaid /\ PaidIsSettled /\ \A q \in Slots : q = r
  BY OneSlot DEF Billed, OngoingBilled, OncePaid, PaidIsSettled
<1>1. OngoingBilled'
  <2>1. ~Ending(work'[r])
    BY AsideIsAside
  <2>2. QED BY <1>0, <2>1 DEF OngoingBilled, Ending
<1>2. CASE HandlerFails(r)
  BY <1>0, <1>1, <1>2, FailureBilled DEF HandlerFails, money
<1>3. CASE ~HandlerFails(r)
  <2>1. UNCHANGED <<bills, charged>>
    BY AsideIsAside DEF money
  <2>2. failures' = failures /\ ~Paying(work[r])
    <3>1. CASE Requests(r)
      <4>1. work[r].pc = "idle" /\ failures' = failures
        BY <3>1, RequestsAsk DEF KInv, Asked, Begin, At
      <4>2. QED BY <4>1 DEF Paying
    <3>2. CASE FlagLive(r) \/ Stop(r) \/ Release(r) \/ CreateDeal(r)
      BY <3>2 DEF FlagLive, Stop, Release, CreateDeal, At, Paying
    <3>3. CASE Saving(r)
      BY <3>3 DEF Saving, Create, Close, Queue, AcceptSave, Refuse, CancelSave, At, Paying
    <3>4. QED BY <1>3, <3>1, <3>2, <3>3 DEF Aside
  <2>3. \A t \in Deals : Closed(t) => deal'[t] = deal[t]
    <3>1. CASE CreateDeal(r)
      <4>1. PICK t \in UnusedDeals : \E d : deal' = [deal EXCEPT ![t] = d]
        BY <3>1 DEF CreateDeal
      <4>2. QED BY <4>1 DEF KInv, TypeOK, Stored, UnusedDeals, Closed
    <3>2. CASE ~CreateDeal(r)
      <4>1. ~Record(r)
        <5>1. Record(r) => work'[r].pc = "clear"
          BY BillStep
        <5>2. QED BY <5>1, AsideIsAside DEF Ending
      <4>2. Step(r)
        BY <1>3 DEF Aside, Step, Moving
      <4>3. QED BY <3>2, <4>1, <4>2, DealWrites
    <3>3. QED BY <3>1, <3>2
  <2>4. \A t \in Deals : ~PaidFor(t)
    BY <1>0, <2>2 DEF PaidFor
  <2>5. QED BY <1>0, <1>1, <2>1, <2>2, <2>3, <2>4, QuietBilled
<1>4. QED BY <1>2, <1>3

LEMMA PayBilled ==
  ASSUME KInv, Billed, OneAtATime, NEW r \in Slots, Pay(r), Moves(r, work'[r])
  PROVE  OngoingBilled' /\ OncePaid' /\ PaidIsSettled'
<1>0. OngoingBilled /\ OncePaid /\ PaidIsSettled /\ \A q \in Slots : q = r
  BY OneSlot DEF Billed, OngoingBilled, OncePaid, PaidIsSettled
<1>1. /\ work[r].pc = "pay" /\ work[r].t \in Deals /\ deal[work[r].t].status = "ongoing"
      /\ deal' = deal /\ failures' = failures
  BY <1>0 DEF Pay, At, KInv, Held, OngoingBilled
<1>2. \A t \in Deals : ~PaidFor(t)
  BY <1>0, <1>1 DEF PaidFor, Paying
<1>3. failures \in Nat /\ \A t \in Deals : bills[t] \in Nat
  BY StreamAssumption DEF KInv, TypeOK, Stored
<1>4. work'[r].t = work[r].t
  <2>1. PICK pc : Goto(r, pc)
    BY DEF Pay
  <2>2. work[r] \in Running
    BY <1>1, RunningSlot DEF KInv, At
  <2>3. QED BY <2>1, <2>2 DEF Goto, KInv, TypeOK, Running
<1>5. OngoingBilled'
  BY <1>0, <1>1, <1>4 DEF OngoingBilled
<1>6. CASE work'[r].pc = "earn"
  <2>1. /\ charged' = [charged EXCEPT ![work[r].t] = @ + Cost(work[r].n)]
        /\ bills' = [bills EXCEPT ![work[r].t] = @ + 1]
    BY <1>6, BillStep
  <2>2. PICK t \in Deals : t = work[r].t
    BY <1>1
  <2>3. PaidFor(t)' /\ ~Closed(t)
    BY <1>1, <1>4, <1>6, <2>2 DEF PaidFor, Paying, Closed
  <2>4. \A q \in Deals : Closed(q)' <=> Closed(q)
    BY <1>1 DEF Closed
  <2>5. bills'[t] = bills[t] + 1 /\ \A q \in Deals \ {t} : bills'[q] = bills[q] /\ charged'[q] = charged[q]
    BY <2>1, <2>2 DEF KInv, TypeOK, Stored
  <2>6. bills[t] <= failures
    <3>1. bills[t] <= failures + IF Closed(t) \/ PaidFor(t) THEN 1 ELSE 0
      BY <1>0 DEF OncePaid
    <3>2. QED BY <1>2, <1>3, <2>3, <3>1
  <2>7. ASSUME NEW q \in Deals
        PROVE  (bills[q] <= failures + IF Closed(q) \/ PaidFor(q) THEN 1 ELSE 0)'
    <3>1. CASE q = t
      BY <1>1, <1>3, <2>3, <2>5, <2>6, <3>1
    <3>2. CASE q # t
      <4>1. bills[q] <= failures + IF Closed(q) THEN 1 ELSE 0
        BY <1>0, <1>2 DEF OncePaid
      <4>2. QED BY <1>1, <1>3, <2>4, <2>5, <3>2, <4>1
    <3>3. QED BY <3>1, <3>2
  <2>8. ASSUME failures = 0, NEW q \in Deals, charged'[q] > 0
        PROVE  (deal[q].status = "completed" \/ PaidFor(q))'
    <3>1. CASE q = t
      BY <2>3, <3>1
    <3>2. CASE q # t
      BY <1>0, <1>1, <1>2, <2>5, <2>8, <3>2 DEF PaidIsSettled
    <3>3. QED BY <3>1, <3>2
  <2>9. QED BY <1>1, <1>5, <2>7, <2>8 DEF OncePaid, PaidIsSettled
<1>7. CASE work'[r].pc # "earn"
  <2>1. UNCHANGED <<bills, charged>>
    BY <1>7, BillStep DEF money
  <2>2. QED BY <1>0, <1>1, <1>2, <1>5, <2>1, QuietBilled
<1>8. QED BY <1>6, <1>7

\* The other steps of the bill: the credit, the read, the save, the end.
LEMMA EarnBilled ==
  ASSUME KInv, Billed, OneAtATime, NEW r \in Slots, Earn(r) \/ EarnFails(r), Moves(r, work'[r])
  PROVE  OngoingBilled' /\ OncePaid' /\ PaidIsSettled'
<1>0. OngoingBilled /\ OncePaid /\ PaidIsSettled /\ \A q \in Slots : q = r
  BY OneSlot DEF Billed, OngoingBilled, OncePaid, PaidIsSettled
<1>1. /\ work[r].pc = "earn" /\ deal[work[r].t].status = "ongoing"
      /\ UNCHANGED <<deal, bills, charged>>
  BY <1>0 DEF Earn, EarnFails, At, OngoingBilled, money
<1>2. work'[r].t = work[r].t /\ work'[r].pc = "record" /\ (Earn(r) => work'[r].ok)
  BY BillStep
<1>3. OngoingBilled'
  BY <1>0, <1>1, <1>2 DEF OngoingBilled
<1>4. CASE EarnFails(r)
  BY <1>0, <1>1, <1>3, <1>4, FailureBilled DEF EarnFails
<1>5. CASE Earn(r)
  <2>1. failures' = failures /\ \A t \in Deals : PaidFor(t) => PaidFor(t)'
    BY <1>0, <1>2, <1>5 DEF Earn, PaidFor, Paying
  <2>2. QED BY <1>0, <1>1, <1>3, <2>1, QuietBilled
<1>6. QED BY <1>4, <1>5

LEMMA ReadBilled ==
  ASSUME KInv, Billed, OneAtATime, NEW r \in Slots, EndRead(r) \/ FindDeal(r) \/ Clear(r),
         Moves(r, work'[r])
  PROVE  OngoingBilled' /\ OncePaid' /\ PaidIsSettled'
<1>0. OngoingBilled /\ OncePaid /\ PaidIsSettled /\ \A q \in Slots : q = r
  BY OneSlot DEF Billed, OngoingBilled, OncePaid, PaidIsSettled
<1>1. UNCHANGED <<deal, bills, charged, failures>>
  BY DEF EndRead, FindDeal, Clear, money
<1>2. OngoingBilled'
  <2>1. CASE EndRead(r) \/ Clear(r)
    <3>1. work'[r].pc \in {"idle", "stop", "close", "find"}
      BY <2>1, BillStep
    <3>2. QED BY <1>0, <3>1 DEF OngoingBilled
  <2>2. CASE FindDeal(r)
    <3>1. work[r] \in Running
      BY <2>2, BillStep
    <3>2. CASE Ongoing(work[r].s) = {}
      <4>1. work'[r].pc = "clear"
        BY <2>2, <3>1, <3>2 DEF FindDeal, Goto, KInv, TypeOK, Running
      <4>2. QED BY <1>0, <4>1 DEF OngoingBilled
    <3>3. CASE Ongoing(work[r].s) # {}
      <4>1. PICK t \in Ongoing(work[r].s) :
              \E n : work' = [work EXCEPT ![r].pc = "pay", ![r].t = t, ![r].n = n]
        BY <2>2, <3>3 DEF FindDeal
      <4>2. work'[r].t = t
        BY <3>1, <4>1 DEF KInv, TypeOK, Running
      <4>3. deal[t].status = "ongoing"
        BY <4>1 DEF Ongoing
      <4>4. QED BY <1>0, <1>1, <4>2, <4>3 DEF OngoingBilled
    <3>4. QED BY <3>2, <3>3
  <2>3. QED BY <2>1, <2>2
<1>3. CASE EndRead(r) \/ FindDeal(r)
  <2>1. \A t \in Deals : ~PaidFor(t)
    <3>1. work[r].pc \in {"end", "find"}
      BY <1>3 DEF EndRead, FindDeal, At
    <3>2. QED BY <1>0, <3>1 DEF PaidFor, Paying
  <2>2. QED BY <1>0, <1>1, <1>2, <2>1, QuietBilled
<1>4. CASE Clear(r)
  <2>1. \A t \in Deals : ~PaidFor(t)
    BY <1>0, <1>4 DEF Clear, At, PaidFor, Paying
  <2>2. QED BY <1>0, <1>1, <1>2, <2>1, QuietBilled
<1>5. QED BY <1>3, <1>4

LEMMA RecordBilled ==
  ASSUME KInv, Billed, OneAtATime, NEW r \in Slots, Record(r), Moves(r, work'[r])
  PROVE  OngoingBilled' /\ OncePaid' /\ PaidIsSettled'
<1>0. OngoingBilled /\ OncePaid /\ PaidIsSettled /\ \A q \in Slots : q = r
  BY OneSlot DEF Billed, OngoingBilled, OncePaid, PaidIsSettled
<1>1. /\ work[r].pc = "record" /\ work[r].t \in Deals /\ deal[work[r].t].status = "ongoing"
      /\ UNCHANGED <<bills, charged, failures>>
  BY <1>0 DEF Record, At, KInv, Held, OngoingBilled, money
<1>2. work'[r].pc = "clear" /\ \A t \in Deals : ~PaidFor(t)'
  <2>1. work'[r].pc = "clear"
    BY BillStep
  <2>2. QED BY <1>0, <2>1 DEF PaidFor, Paying
<1>3. PICK t \in Deals : t = work[r].t
  BY <1>1
<1>4. /\ \A q \in Deals \ {t} : deal'[q] = deal[q] /\ ~PaidFor(q)
      /\ deal'[t].status = IF work[r].ok THEN "completed" ELSE "failed"
      /\ PaidFor(t) <=> work[r].ok
  <2>1. deal[t] \in Transactions /\ deal \in [Deals -> Transactions]
    BY DEF KInv, TypeOK, Stored
  <2>2. \A q \in Deals \ {t} : deal'[q] = deal[q]
    BY <1>3, <2>1 DEF Record
  <2>3. deal'[t].status = IF work[r].ok THEN "completed" ELSE "failed"
    BY <1>3, <2>1 DEF Record, Transactions
  <2>4. \A q \in Deals : PaidFor(q) <=> q = t /\ Paying(work[r])
    BY <1>0, <1>3 DEF PaidFor
  <2>5. Paying(work[r]) <=> work[r].ok
    BY <1>1 DEF Paying
  <2>6. QED BY <2>2, <2>3, <2>4, <2>5
<1>5. failures \in Nat /\ \A q \in Deals : bills[q] \in Nat
  BY StreamAssumption DEF KInv, TypeOK, Stored
<1>6. OngoingBilled'
  BY <1>0, <1>2 DEF OngoingBilled
<1>7. ASSUME NEW q \in Deals
      PROVE  (bills[q] <= failures + IF Closed(q) \/ PaidFor(q) THEN 1 ELSE 0)'
  <2>1. Closed(q) \/ PaidFor(q) => Closed(q)'
    BY <1>1, <1>3, <1>4 DEF Closed
  <2>2. bills[q] <= failures + IF Closed(q) \/ PaidFor(q) THEN 1 ELSE 0
    BY <1>0 DEF OncePaid
  <2>3. QED BY <1>1, <1>5, <2>1, <2>2
<1>8. ASSUME failures = 0, NEW q \in Deals, charged[q] > 0
      PROVE  deal'[q].status = "completed"
  <2>1. deal[q].status = "completed" \/ PaidFor(q)
    BY <1>0, <1>8 DEF PaidIsSettled
  <2>2. QED BY <1>1, <1>3, <1>4, <2>1
<1>9. QED BY <1>1, <1>6, <1>7, <1>8 DEF OncePaid, PaidIsSettled

\* A gift and its increment.
LEMMA GiftBilled ==
  ASSUME KInv, Billed, OneAtATime, NEW r \in Slots, Gifts(r) \/ AddRevenue(r), Moves(r, work'[r])
  PROVE  OngoingBilled' /\ OncePaid' /\ PaidIsSettled'
<1>0. OngoingBilled /\ OncePaid /\ PaidIsSettled /\ \A q \in Slots : q = r
  BY OneSlot DEF Billed, OngoingBilled, OncePaid, PaidIsSettled
<1>1. UNCHANGED <<deal, bills, charged, failures>>
  BY DEF Gifts, Gift, AddRevenue, money
<1>2. work'[r].pc \in {"gift", "idle"} /\ work[r].pc \in {"gift", "idle"}
  <2>1. CASE Gifts(r)
    BY <2>1 DEF Gifts, Gift, Begin, At, Handler, KInv, TypeOK
  <2>2. CASE AddRevenue(r)
    BY <2>2 DEF AddRevenue, Finish, At, Idle, KInv, TypeOK
  <2>3. QED BY <2>1, <2>2
<1>3. OngoingBilled'
  BY <1>0, <1>2 DEF OngoingBilled
<1>4. \A t \in Deals : ~PaidFor(t)
  BY <1>0, <1>2 DEF PaidFor, Paying
<1>5. QED BY <1>0, <1>1, <1>3, <1>4, QuietBilled

LEMMA BilledNext == KInv /\ Billed /\ [Next]_vars => Billed'
<1> SUFFICES ASSUME KInv, Billed, [Next]_vars, OneAtATime'
             PROVE  OngoingBilled' /\ OncePaid' /\ PaidIsSettled'
  BY DEF Billed, OngoingBilled, OncePaid, PaidIsSettled
<1>0. OneAtATime
  <2>1. DOMAIN work = Slots /\ DOMAIN work' = Slots
    BY KNext DEF KInv, TypeOK
  <2>2. QED BY <2>1 DEF OneAtATime
<1>1. OngoingBilled /\ OncePaid /\ PaidIsSettled
  BY <1>0 DEF Billed, OngoingBilled, OncePaid, PaidIsSettled
<1>2. CASE UNCHANGED vars
  BY <1>1, <1>2 DEF vars, money, OngoingBilled, OncePaid, PaidIsSettled, Closed, PaidFor
<1>3. CASE Restart
  <2>1. OngoingBilled'
    BY <1>3 DEF Restart, Idle, OngoingBilled
  <2>2. UNCHANGED <<deal, bills>> /\ failures' = failures + 1
    BY <1>3 DEF Restart, money
  <2>3. QED BY <1>1, <2>1, <2>2, FailureBilled
<1>4. ASSUME NEW r \in Slots, Step(r) PROVE OngoingBilled' /\ OncePaid' /\ PaidIsSettled'
  <2>1. Moves(r, work'[r])
    BY <1>4, StepMoves
  <2>2. CASE Aside(r)
    BY <1>0, <2>1, <2>2, AsideBilled
  <2>3. CASE Earn(r) \/ EarnFails(r)
    BY <1>0, <2>1, <2>3, EarnBilled
  <2>4. CASE EndRead(r) \/ FindDeal(r) \/ Clear(r)
    BY <1>0, <2>1, <2>4, ReadBilled
  <2>5. CASE Pay(r)
    BY <1>0, <2>1, <2>5, PayBilled
  <2>6. CASE Record(r)
    BY <1>0, <2>1, <2>6, RecordBilled
  <2>7. CASE Gifts(r) \/ AddRevenue(r)
    BY <1>0, <2>1, <2>7, GiftBilled
  <2>8. QED BY <1>4, <2>2, <2>3, <2>4, <2>5, <2>6, <2>7 DEF Step, Aside, Moving, Loses
<1>5. QED BY <1>2, <1>3, <1>4, NextIsStep

LEMMA BilledInit == Init => Billed
<1> SUFFICES ASSUME Init PROVE OngoingBilled /\ OncePaid /\ PaidIsSettled
  BY DEF Billed, OngoingBilled, OncePaid, PaidIsSettled
<1>1. OngoingBilled
  BY DEF Init, NoHandler, Idle, OngoingBilled
<1>2. OncePaid /\ PaidIsSettled
  BY DEF Init, OncePaid, PaidIsSettled
<1>3. QED BY <1>1, <1>2

----------------
(* One request at a time: one stream is live, and an ended one is quiet.   *)

\* The status of a stream is written by what opens it and what closes it.
LEMMA StatusWrites ==
  ASSUME KInv, NEW r \in Slots, Step(r), ~Create(r), ~Close(r)
  PROVE  \A s \in Streams : stream'[s].status = stream[s].status
<1>0. stream \in [Streams -> Documents]
  BY DEF KInv, TypeOK, Stored
<1>1. CASE Requests(r) \/ Gifts(r) \/ Moving(r) \/ Loses(r) \/ CreateDeal(r) \/ Pay(r) \/ Earn(r)
           \/ Record(r)
  <2>1. Requests(r) => stream' = stream
    BY RequestsAsk DEF KInv, Asked
  <2>2. ~Requests(r) => stream' = stream
    BY <1>1 DEF Gifts, Gift, Moving, FlagLive, Stop, Release, EndRead, FindDeal, Loses, EarnFails,
                HandlerFails, CreateDeal, Pay, Earn, Record
  <2>3. QED BY <2>1, <2>2
<1>2. CASE Clear(r) \/ AddRevenue(r)
  <2>1. CASE Clear(r)
    <3>1. PICK v : stream' = [stream EXCEPT ![work[r].s].call = NoOne, ![work[r].s].revenue = v]
      BY <2>1 DEF Clear
    <3>2. QED BY <1>0, <3>1 DEF Documents
  <2>2. CASE AddRevenue(r)
    <3>1. PICK v : stream' = [stream EXCEPT ![work[r].s].revenue = v]
      BY <2>2 DEF AddRevenue
    <3>2. QED BY <1>0, <3>1 DEF Documents
  <2>3. QED BY <1>2, <2>1, <2>2
<1>3. CASE Queue(r) \/ CancelSave(r)
  <2>1. PICK v : stream' = stream \/ stream' = [stream EXCEPT ![work[r].s].waitlist = v]
    BY <1>3 DEF Queue, CancelSave
  <2>2. QED BY <1>0, <2>1 DEF Documents
<1>4. CASE AcceptSave(r) \/ Refuse(r)
  <2>1. CASE stream' = stream
    BY <2>1
  <2>2. CASE AcceptSave(r) /\ stream' # stream
    <3>1. stream' = [stream EXCEPT ![work[r].s].call = work[r].u,
                                   ![work[r].s].waitlist[work[r].n].status = "accepted"]
      BY <2>2 DEF AcceptSave
    <3>2. QED BY <1>0, <3>1 DEF Documents
  <2>3. CASE Refuse(r) /\ stream' # stream
    <3>1. PICK v : stream' = [stream EXCEPT ![work[r].s].waitlist[work[r].n].status = v]
      BY <2>3 DEF Refuse
    <3>2. QED BY <1>0, <3>1 DEF Documents
  <2>4. QED BY <1>4, <2>1, <2>2, <2>3
<1>5. QED BY <1>1, <1>2, <1>3, <1>4 DEF Step, Saving

\* What is left of a handler that was not ending a stream or a call.
LEMMA OtherStep ==
  ASSUME KInv, NEW r \in Slots, Step(r), ~Requests(r), ~TakesDown(work[r]), ~At(r, "release")
  PROVE  work'[r].pc \in {"idle", "flag", "accept", "gift"}
<1>0. work \in [Slots -> Running \cup {Idle}]
  BY DEF KInv, TypeOK
<1>1. Finish(r) => work'[r].pc = "idle"
  BY <1>0 DEF Finish, Idle
<1>2. CASE Gifts(r)
  BY <1>0, <1>2 DEF Gifts, Gift, Begin, Handler
<1>3. CASE Create(r)
  <2>1. PICK s : work' = [work EXCEPT ![r].pc = "flag", ![r].s = s]
    BY <1>3 DEF Create
  <2>2. work[r] \in Running
    BY <1>3, RunningSlot DEF Create, At, KInv
  <2>3. QED BY <1>0, <2>1, <2>2 DEF Running
<1>4. CASE CreateDeal(r)
  <2>1. PICK t : work' = [work EXCEPT ![r].pc = "accept", ![r].t = t]
    BY <1>4 DEF CreateDeal
  <2>2. work[r] \in Running
    BY <1>4, RunningSlot DEF CreateDeal, At, KInv
  <2>3. QED BY <1>0, <2>1, <2>2 DEF Running
<1>5. CASE Queue(r) \/ CancelSave(r)
  BY <1>0, <1>1, <1>5 DEF Queue, CancelSave, Raise, Idle
<1>6. CASE FlagLive(r) \/ AcceptSave(r) \/ Refuse(r) \/ AddRevenue(r) \/ HandlerFails(r)
  BY <1>1, <1>6 DEF FlagLive, AcceptSave, Refuse, AddRevenue, HandlerFails
<1>7. ~(Stop(r) \/ Close(r) \/ Release(r) \/ EndRead(r) \/ FindDeal(r) \/ Pay(r) \/ Earn(r)
        \/ EarnFails(r) \/ Record(r) \/ Clear(r))
  BY DEF Stop, Close, Release, EndRead, FindDeal, Pay, Earn, EarnFails, Record, Clear, At, TakesDown
<1>8. QED BY <1>2, <1>3, <1>4, <1>5, <1>6, <1>7 DEF Step, Moving, Saving, Loses

\* Of these, the one that goes on to accept has made the transaction.
LEMMA AcceptIsNew ==
  ASSUME KInv, NEW r \in Slots, Step(r), ~Requests(r), ~TakesDown(work[r]), ~At(r, "release"),
         work'[r].pc = "accept"
  PROVE  CreateDeal(r)
<1>0. work \in [Slots -> Running \cup {Idle}]
  BY DEF KInv, TypeOK
<1>1. ~Gifts(r)
  BY <1>0 DEF Gifts, Gift, Begin, Handler
<1>2. ~Create(r)
  <2>1. SUFFICES ASSUME Create(r) PROVE FALSE
    OBVIOUS
  <2>2. PICK s : work' = [work EXCEPT ![r].pc = "flag", ![r].s = s]
    BY <2>1 DEF Create
  <2>3. work[r] \in Running
    BY <2>1, RunningSlot DEF Create, At, KInv
  <2>4. QED BY <1>0, <2>2, <2>3 DEF Running
<1>3. ~Finish(r)
  BY <1>0 DEF Finish, Idle
<1>4. ~(Queue(r) \/ CancelSave(r))
  BY <1>0, <1>3 DEF Queue, CancelSave, Raise, Idle
<1>5. ~(FlagLive(r) \/ AcceptSave(r) \/ Refuse(r) \/ AddRevenue(r) \/ HandlerFails(r))
  BY <1>3 DEF FlagLive, AcceptSave, Refuse, AddRevenue, HandlerFails
<1>6. ~(Stop(r) \/ Close(r) \/ Release(r) \/ EndRead(r) \/ FindDeal(r) \/ Pay(r) \/ Earn(r)
        \/ EarnFails(r) \/ Record(r) \/ Clear(r))
  BY DEF Stop, Close, Release, EndRead, FindDeal, Pay, Earn, EarnFails, Record, Clear, At, TakesDown
<1>7. QED BY <1>1, <1>2, <1>4, <1>5, <1>6 DEF Step, Moving, Saving, Loses

\* A handler that ends a stream or a call is through, or goes on with the
\* stream it has, and remembers whether the host goes live again.
Onward(r) == work'[r].s = work[r].s /\ work'[r].relive = work[r].relive

LEMMA EndingStep ==
  ASSUME KInv, NEW r \in Slots, Step(r), TakesDown(work[r]) \/ At(r, "release")
  PROVE  \/ work'[r].pc = "idle"
         \/ /\ Onward(r) /\ work[r] \in Running
            /\ \/ TakesDown(work'[r]) /\ ~At(r, "release") /\ ~Close(r)
               \/ work'[r].pc = "release" /\ Close(r) /\ work[r].fresh
               \/ work'[r].pc = "create" /\ work[r].relive /\ (Release(r) \/ (Stop(r) /\ ~Live(work[r].s)))
            /\ work'[r].pc = "close" => stream'[work[r].s].call = NoOne
<1>0. work \in [Slots -> Running \cup {Idle}] /\ stream \in [Streams -> Documents]
  BY DEF KInv, TypeOK, Stored
<1>1. work[r] \in Running /\ work[r].s \in Streams
  BY RunningSlot DEF KInv, Held, At, TakesDown
<1>2. Finish(r) => work'[r].pc = "idle"
  BY <1>0 DEF Finish, Idle
<1>3. ASSUME NEW pc, Goto(r, pc)
      PROVE  work'[r].pc = pc /\ Onward(r)
  <2>1. work'[r] = [work[r] EXCEPT !.pc = pc]
    BY <1>0, <1>3 DEF Goto
  <2>2. QED BY <1>1, <2>1 DEF Running, Onward
<1>4. work[r].then \in {"idle", "stop", "close"}
  BY <1>1 DEF Running
<1>5. (IF work[r].then = "idle" THEN Finish(r) ELSE Goto(r, work[r].then))
        => work'[r].pc = "idle" \/ (work'[r].pc \in {"stop", "close"} /\ Onward(r))
  BY <1>2, <1>3, <1>4
<1>6. CASE HandlerFails(r)
  BY <1>2, <1>6 DEF HandlerFails
<1>7. CASE Stop(r)
  <2>0. ~At(r, "release") /\ ~Close(r)
    BY <1>7 DEF Stop, Close, At
  <2>1. CASE Live(work[r].s)
    <3>1. PICK pc : /\ pc = (IF OnCall(work[r].s) THEN "end" ELSE "close") /\ stream' = stream
                    /\ work' = [work EXCEPT ![r].pc = pc, ![r].then = "close", ![r].fresh = TRUE]
      BY <1>7, <2>1 DEF Stop
    <3>2. work'[r].pc = pc /\ Onward(r)
      BY <1>0, <1>1, <3>1 DEF Running, Onward
    <3>3. QED BY <1>1, <2>0, <3>1, <3>2 DEF TakesDown, OnCall
  <2>2. CASE ~Live(work[r].s)
    BY <1>1, <1>2, <1>3, <1>7, <2>2 DEF Stop
  <2>3. QED BY <2>1, <2>2
<1>8. CASE Close(r)
  <2>1. CASE work[r].fresh
    <3>1. work'[r] = [work[r] EXCEPT !.pc = "release"]
      BY <1>8, <2>1 DEF Close, Raise
    <3>2. work'[r].pc = "release" /\ Onward(r)
      BY <1>1, <3>1 DEF Running, Onward
    <3>3. QED BY <1>1, <1>8, <2>1, <3>2
  <2>2. CASE ~work[r].fresh
    BY <1>2, <1>8, <2>2 DEF Close
  <2>3. QED BY <2>1, <2>2
<1>9. CASE Release(r)
  BY <1>1, <1>2, <1>3, <1>9 DEF Release
<1>10. CASE EndRead(r)
  <2>0. ~At(r, "release") /\ ~Close(r)
    BY <1>10 DEF EndRead, Close, At
  <2>1. CASE OnCall(work[r].s)
    <3>1. PICK u, v : work' = [work EXCEPT ![r].pc = "find", ![r].u = u, ![r].rev = v, ![r].ok = FALSE]
      BY <1>10, <2>1 DEF EndRead
    <3>2. work'[r].pc = "find" /\ Onward(r)
      BY <1>0, <1>1, <3>1 DEF Running, Onward
    <3>3. QED BY <1>1, <2>0, <3>2 DEF TakesDown
  <2>2. CASE ~OnCall(work[r].s)
    <3>1. work'[r].pc = "idle" \/ (work'[r].pc \in {"stop", "close"} /\ Onward(r))
      BY <1>5, <1>10, <2>2 DEF EndRead
    <3>2. stream' = stream
      BY <1>10 DEF EndRead
    <3>3. QED BY <1>1, <2>0, <2>2, <3>1, <3>2 DEF TakesDown, OnCall
  <2>3. QED BY <2>1, <2>2
<1>11. CASE FindDeal(r)
  <2>0. ~At(r, "release") /\ ~Close(r)
    BY <1>11 DEF FindDeal, Close, At
  <2>1. CASE Ongoing(work[r].s) = {}
    BY <1>1, <1>3, <1>11, <2>0, <2>1 DEF FindDeal, TakesDown
  <2>2. CASE Ongoing(work[r].s) # {}
    <3>1. PICK t, n : work' = [work EXCEPT ![r].pc = "pay", ![r].t = t, ![r].n = n]
      BY <1>11, <2>2 DEF FindDeal
    <3>2. work'[r].pc = "pay" /\ Onward(r)
      BY <1>0, <1>1, <3>1 DEF Running, Onward
    <3>3. QED BY <1>1, <2>0, <3>2 DEF TakesDown
  <2>3. QED BY <2>1, <2>2
<1>12. CASE Pay(r) \/ EarnFails(r) \/ Record(r)
  <2>0. ~At(r, "release") /\ ~Close(r)
    BY <1>12 DEF Pay, EarnFails, Record, Close, At
  <2>1. Goto(r, "earn") \/ Goto(r, "record") \/ Goto(r, "clear")
    BY <1>12 DEF Pay, EarnFails, Record
  <2>2. QED BY <1>1, <1>3, <2>0, <2>1 DEF TakesDown
<1>13. CASE Earn(r)
  <2>0. ~At(r, "release") /\ ~Close(r)
    BY <1>13 DEF Earn, Close, At
  <2>1. work'[r].pc = "record" /\ Onward(r)
    BY <1>0, <1>1, <1>13 DEF Earn, Running, Onward
  <2>2. QED BY <1>1, <2>0, <2>1 DEF TakesDown
<1>14. CASE Clear(r)
  <2>0. ~At(r, "release") /\ ~Close(r)
    BY <1>14 DEF Clear, Close, At
  <2>1. work'[r].pc = "idle" \/ (work'[r].pc \in {"stop", "close"} /\ Onward(r))
    BY <1>5, <1>14 DEF Clear
  <2>2. PICK v : stream' = [stream EXCEPT ![work[r].s].call = NoOne, ![work[r].s].revenue = v]
    BY <1>14 DEF Clear
  <2>3. stream'[work[r].s].call = NoOne
    BY <1>0, <1>1, <2>2 DEF Documents
  <2>4. QED BY <1>1, <2>0, <2>1, <2>3 DEF TakesDown
<1>15. ~Requests(r) /\ ~Gifts(r)
  <2>1. ~At(r, "idle")
    BY DEF At, TakesDown
  <2>2. QED BY <2>1, RequestsAsk DEF KInv, Asked, Begin, Gifts, Gift
<1>16. ~(FlagLive(r) \/ Create(r) \/ Queue(r) \/ AcceptSave(r) \/ Refuse(r) \/ CancelSave(r)
         \/ CreateDeal(r) \/ AddRevenue(r))
  BY DEF FlagLive, Create, Queue, AcceptSave, Refuse, CancelSave, CreateDeal, AddRevenue, At, TakesDown
<1>17. QED
  BY <1>6, <1>7, <1>8, <1>9, <1>10, <1>11, <1>12, <1>13, <1>14, <1>15, <1>16
     DEF Step, Moving, Saving, Loses

\* A request does not go live again, unless it is the host's goLive.
LEMMA RequestOnce ==
  ASSUME KInv, NEW r \in Slots, Requests(r), ~GoLive(r)
  PROVE  work'[r].pc \in {"idle", "stop", "queue", "deal", "reject", "expire", "cancel", "end"}
         /\ ~work'[r].relive
<1>0. work \in [Slots -> Running \cup {Idle}]
  BY DEF KInv, TypeOK
<1>1. ASSUME NEW h, Begin(r, h) PROVE work'[r] = h
  BY <1>0, <1>1 DEF Begin
<1>2. ASSUME NEW pc, NEW s, NEW u, NEW then
      PROVE  /\ Handler(pc, s, u, then).pc = pc /\ ~Handler(pc, s, u, then).relive
  BY DEF Handler
<1>3. CASE \E s \in Streams : EndStream(r, s) \/ ForceEnd(r, s) \/ EndCall(r, s) \/ TimerFires(r, s)
  <2>1. PICK pc, s, u, then : pc \in {"stop", "end"} /\ Begin(r, Handler(pc, s, u, then))
    BY <1>3 DEF EndStream, ForceEnd, EndCall, TimerFires
  <2>2. work'[r] = Handler(pc, s, u, then)
    BY <1>1, <2>1
  <2>3. QED BY <1>2, <2>1, <2>2
<1>4. CASE \E s \in Streams, u \in Viewers :
             RequestCall(r, s, u) \/ AcceptCall(r, s, u) \/ RejectCall(r, s, u) \/ CancelCall(r, s, u)
  <2>1. PICK s \in Streams, u \in Viewers :
          RequestCall(r, s, u) \/ AcceptCall(r, s, u) \/ RejectCall(r, s, u) \/ CancelCall(r, s, u)
    BY <1>4
  <2>2. CASE RequestCall(r, s, u)
    BY <1>1, <1>2, <2>2 DEF RequestCall
  <2>3. CASE AcceptCall(r, s, u)
    <3>1. PICK n :
            Begin(r, [Handler(IF Affords(u) THEN "deal" ELSE "expire", s, u, "idle") EXCEPT !.n = n])
      BY <2>3 DEF AcceptCall
    <3>2. work'[r] = [Handler(IF Affords(u) THEN "deal" ELSE "expire", s, u, "idle") EXCEPT !.n = n]
      BY <1>1, <3>1
    <3>3. QED BY <3>2 DEF Handler
  <2>4. CASE RejectCall(r, s, u)
    <3>1. PICK n : Begin(r, [Handler("reject", s, u, "idle") EXCEPT !.n = n])
      BY <2>4 DEF RejectCall
    <3>2. work'[r] = [Handler("reject", s, u, "idle") EXCEPT !.n = n]
      BY <1>1, <3>1
    <3>3. QED BY <3>2 DEF Handler
  <2>5. CASE CancelCall(r, s, u)
    <3>1. CASE Begin(r, Handler("end", s, u, "idle"))
      BY <1>1, <1>2, <3>1
    <3>2. CASE ~Begin(r, Handler("end", s, u, "idle"))
      <4>1. PICK l : Begin(r, [Handler("cancel", s, u, "idle") EXCEPT !.list = l])
        BY <2>5, <3>2 DEF CancelCall
      <4>2. work'[r] = [Handler("cancel", s, u, "idle") EXCEPT !.list = l]
        BY <1>1, <4>1
      <4>3. QED BY <4>2 DEF Handler
    <3>3. QED BY <3>1, <3>2
  <2>6. QED BY <2>1, <2>2, <2>3, <2>4, <2>5
<1>5. QED BY <1>3, <1>4 DEF Requests

\* The parts of Lone and of Silent, with the one slot there is.
OneLive == \A s, q \in Streams : Live(s) /\ Live(q) => s = q
CreatesAlone == \A r \in Slots : At(r, "create") \/ (At(r, "release") /\ work[r].relive) => NoneLive
TakesAllDown ==
  \A r \in Slots : TakesDown(work[r]) /\ work[r].relive => \A s \in Streams : Live(s) => s = work[r].s
EndedSilent == \A s \in Streams : Ended(s) => stream[s].waitlist = <<>> /\ stream[s].call = NoOne
ListsOpen == \A r \in Slots : Lists(work[r]) => ~Ended(work[r].s)
ClosesFree == \A r \in Slots : At(r, "close") => ~OnCall(work[r].s)

\* goLive takes down the live stream it found, or creates one if none is live.
LEMMA GoLiveLone ==
  ASSUME KInv, Lone, OneAtATime, NEW r \in Slots, GoLive(r)
  PROVE  OneLive' /\ CreatesAlone' /\ TakesAllDown'
<1>0. OneLive /\ \A q \in Slots : q = r
  BY OneSlot DEF Lone, OneLive
<1>1. stream' = stream /\ work \in [Slots -> Running \cup {Idle}]
  BY DEF GoLive, KInv, TypeOK
<1>2. CASE NoneLive
  <2>1. NoneLive'
    BY <1>1, <1>2 DEF NoneLive, Live
  <2>2. QED BY <2>1 DEF NoneLive, OneLive, CreatesAlone, TakesAllDown
<1>3. CASE ~NoneLive
  <2>1. PICK s \in Streams :
          Live(s) /\ Begin(r, [Handler("stop", s, NoOne, "close") EXCEPT !.relive = TRUE])
    BY <1>3 DEF GoLive, NoneLive
  <2>2. work'[r].pc = "stop" /\ work'[r].s = s
    BY <1>1, <2>1 DEF Begin, Handler
  <2>3. \A q \in Streams : Live(q)' => q = s
    BY <1>0, <1>1, <2>1 DEF OneLive, Live
  <2>4. QED BY <1>0, <2>2, <2>3 DEF OneLive, CreatesAlone, TakesAllDown, At
<1>4. QED BY <1>2, <1>3

\* The new stream is the only one; a stream that closes is live no more.
LEMMA CreateLone ==
  ASSUME KInv, Lone, OneAtATime, NEW r \in Slots, Create(r)
  PROVE  OneLive' /\ CreatesAlone' /\ TakesAllDown'
<1>0. CreatesAlone /\ \A q \in Slots : q = r
  BY OneSlot DEF Lone, CreatesAlone
<1>1. NoneLive /\ work[r] \in Running
  BY <1>0, RunningSlot DEF Create, CreatesAlone, At, KInv
<1>2. PICK s \in UnusedStreams : /\ stream' = [stream EXCEPT ![s].status = "live"]
                                 /\ work' = [work EXCEPT ![r].pc = "flag", ![r].s = s]
  BY DEF Create
<1>3. \A q \in Streams : Live(q)' => q = s
  <2>1. \A q \in Streams \ {s} : stream'[q] = stream[q]
    BY <1>2 DEF KInv, TypeOK, Stored, UnusedStreams
  <2>2. QED BY <1>1, <2>1 DEF NoneLive, Live
<1>4. work'[r].pc = "flag"
  BY <1>1, <1>2 DEF KInv, TypeOK, Running
<1>5. QED BY <1>0, <1>3, <1>4 DEF OneLive, CreatesAlone, TakesAllDown, At, TakesDown

LEMMA CloseLone ==
  ASSUME KInv, Lone, OneAtATime, NEW r \in Slots, Close(r)
  PROVE  OneLive' /\ CreatesAlone' /\ TakesAllDown'
<1>0. OneLive /\ CreatesAlone /\ TakesAllDown /\ \A q \in Slots : q = r
  BY OneSlot DEF Lone, OneLive, CreatesAlone, TakesAllDown
<1>1. work[r] \in Running /\ TakesDown(work[r]) /\ work[r].s \in Streams /\ Step(r)
  BY RunningSlot DEF Close, At, TakesDown, KInv, Held, Step, Saving
<1>2. CASE work[r].fresh
  <2>1. stream' = [stream EXCEPT ![work[r].s].status = "ended", ![work[r].s].waitlist = <<>>]
    BY <1>2 DEF Close
  <2>2. \A s \in Streams : Live(s)' => Live(s) /\ s # work[r].s
    BY <1>1, <2>1 DEF KInv, TypeOK, Stored, Documents, Live
  <2>3. work'[r].pc = "release" /\ work'[r].relive = work[r].relive
    <3>1. work'[r] = [work[r] EXCEPT !.pc = "release"]
      BY <1>2 DEF Close, Raise
    <3>2. QED BY <1>1, <3>1 DEF Running
  <2>4. work[r].relive => NoneLive'
    BY <1>0, <1>1, <2>2 DEF TakesAllDown, NoneLive
  <2>5. OneLive'
    BY <1>0, <2>2 DEF OneLive
  <2>6. QED BY <1>0, <2>3, <2>4, <2>5 DEF CreatesAlone, TakesAllDown, At, TakesDown
<1>3. CASE ~work[r].fresh
  <2>1. stream' = stream /\ work'[r].pc = "idle"
    BY <1>3 DEF Close, Finish, Idle, KInv, TypeOK
  <2>2. QED BY <1>0, <2>1 DEF OneLive, CreatesAlone, TakesAllDown, At, TakesDown, Live
<1>4. QED BY <1>2, <1>3

\* Every other step leaves the status of the streams as it is.
LEMMA OthersLone ==
  ASSUME KInv, Lone, OneAtATime, NEW r \in Slots, Step(r), ~GoLive(r), ~Create(r), ~Close(r)
  PROVE  OneLive' /\ CreatesAlone' /\ TakesAllDown'
<1>0. OneLive /\ CreatesAlone /\ TakesAllDown /\ \A q \in Slots : q = r
  BY OneSlot DEF Lone, OneLive, CreatesAlone, TakesAllDown
<1>1. \A s \in Streams : Live(s)' <=> Live(s)
  BY StatusWrites DEF Live
<1>2. OneLive'
  BY <1>0, <1>1 DEF OneLive
<1>3. CASE Requests(r)
  <2>1. ~work'[r].relive /\ work'[r].pc # "create"
    BY <1>3, RequestOnce
  <2>2. QED BY <1>0, <1>2, <2>1 DEF CreatesAlone, TakesAllDown, At
<1>4. CASE ~Requests(r) /\ ~(TakesDown(work[r]) \/ At(r, "release"))
  <2>1. work'[r].pc \in {"idle", "flag", "accept", "gift"}
    BY <1>4, OtherStep
  <2>2. QED BY <1>0, <1>2, <2>1 DEF CreatesAlone, TakesAllDown, At, TakesDown
<1>5. CASE TakesDown(work[r]) \/ At(r, "release")
  <2>1. CASE work'[r].pc = "idle"
    BY <1>0, <1>2, <2>1 DEF CreatesAlone, TakesAllDown, At, TakesDown
  <2>2. CASE Onward(r) /\ TakesDown(work'[r]) /\ ~At(r, "release")
    <3>1. work[r].relive => \A s \in Streams : Live(s) => s = work[r].s
      BY <1>0, <1>5, <2>2 DEF TakesAllDown
    <3>2. TakesAllDown'
      BY <1>0, <1>1, <2>2, <3>1 DEF TakesAllDown, Onward
    <3>3. QED BY <1>0, <1>2, <2>2, <3>2 DEF CreatesAlone, At, TakesDown
  <2>3. CASE work'[r].pc = "create" /\ work[r].relive /\ (Release(r) \/ (Stop(r) /\ ~Live(work[r].s)))
    <3>1. NoneLive
      <4>1. CASE Release(r)
        BY <1>0, <2>3, <4>1 DEF Release, CreatesAlone
      <4>2. CASE Stop(r) /\ ~Live(work[r].s)
        BY <1>0, <2>3, <4>2 DEF Stop, At, TakesDown, TakesAllDown, NoneLive
      <4>3. QED BY <2>3, <4>1, <4>2
    <3>2. NoneLive'
      BY <1>1, <3>1 DEF NoneLive
    <3>3. QED BY <1>0, <1>2, <2>3, <3>2 DEF CreatesAlone, TakesAllDown, At, TakesDown
  <2>4. QED BY <1>5, <2>1, <2>2, <2>3, EndingStep
<1>6. QED BY <1>3, <1>4, <1>5

LEMMA LoneNext == KInv /\ Lone /\ [Next]_vars => Lone'
<1> SUFFICES ASSUME KInv, Lone, [Next]_vars, OneAtATime'
             PROVE  OneLive' /\ CreatesAlone' /\ TakesAllDown'
  BY DEF Lone, OneLive, CreatesAlone, TakesAllDown
<1>0. OneAtATime
  <2>1. DOMAIN work = Slots /\ DOMAIN work' = Slots
    BY KNext DEF KInv, TypeOK
  <2>2. QED BY <2>1 DEF OneAtATime
<1>1. OneLive /\ CreatesAlone /\ TakesAllDown
  BY <1>0 DEF Lone, OneLive, CreatesAlone, TakesAllDown
<1>2. CASE UNCHANGED vars
  BY <1>1, <1>2 DEF vars, OneLive, CreatesAlone, TakesAllDown, At, Live, NoneLive
<1>3. CASE Restart
  BY <1>1, <1>3 DEF Restart, Idle, OneLive, CreatesAlone, TakesAllDown, At, Live, TakesDown
<1>4. ASSUME NEW r \in Slots, Step(r) PROVE OneLive' /\ CreatesAlone' /\ TakesAllDown'
  BY <1>0, <1>4, GoLiveLone, CreateLone, CloseLone, OthersLone
<1>5. QED BY <1>2, <1>3, <1>4, NextIsStep

LEMMA LoneInit == Init => Lone
<1> SUFFICES ASSUME Init PROVE OneLive /\ CreatesAlone /\ TakesAllDown
  BY DEF Lone, OneLive, CreatesAlone, TakesAllDown
<1>1. NoneLive
  BY DEF Init, NoStream, NoneLive, Live
<1>2. QED BY <1>1 DEF NoneLive, OneLive, CreatesAlone, TakesAllDown

\* A step changes a waitlist, or starts a call, on the stream of a handler
\* that works on its list, and elsewhere ends a call at most.
LEMMA ListWrites ==
  ASSUME KInv, NEW r \in Slots, Step(r), ~Create(r), ~Close(r), NEW s \in Streams,
         ~(Lists(work[r]) /\ work[r].s = s)
  PROVE  /\ stream'[s].waitlist = stream[s].waitlist
         /\ stream'[s].call \in {stream[s].call, NoOne}
<1>0. stream \in [Streams -> Documents]
  BY DEF KInv, TypeOK, Stored
<1>1. CASE stream' = stream
  BY <1>1
<1>2. CASE Clear(r)
  <2>1. PICK v : stream' = [stream EXCEPT ![work[r].s].call = NoOne, ![work[r].s].revenue = v]
    BY <1>2 DEF Clear
  <2>2. QED BY <1>0, <2>1 DEF Documents
<1>3. CASE AddRevenue(r)
  <2>1. PICK v : stream' = [stream EXCEPT ![work[r].s].revenue = v]
    BY <1>3 DEF AddRevenue
  <2>2. QED BY <1>0, <2>1 DEF Documents
<1>4. CASE Queue(r) \/ AcceptSave(r) \/ Refuse(r) \/ CancelSave(r)
  <2>1. Lists(work[r])
    BY <1>4 DEF Queue, AcceptSave, Refuse, CancelSave, At, Lists
  <2>2. stream'[s] = stream[s]
    <3>1. CASE Queue(r)
      BY <1>0, <2>1, <3>1 DEF Queue
    <3>2. CASE AcceptSave(r)
      BY <1>0, <1>1, <2>1, <3>2 DEF AcceptSave
    <3>3. CASE Refuse(r)
      BY <1>0, <2>1, <3>3 DEF Refuse
    <3>4. CASE CancelSave(r)
      BY <1>0, <2>1, <3>4 DEF CancelSave
    <3>5. QED BY <1>4, <3>1, <3>2, <3>3, <3>4
  <2>3. QED BY <2>2
<1>5. CASE Requests(r)
  BY <1>5, RequestsAsk DEF KInv, Asked
<1>6. CASE Gifts(r) \/ Moving(r) \/ Loses(r) \/ CreateDeal(r) \/ Pay(r) \/ Earn(r) \/ Record(r)
  <2>1. stream' = stream
    BY <1>6 DEF Gifts, Gift, Moving, FlagLive, Stop, Release, EndRead, FindDeal, Loses, EarnFails,
                HandlerFails, CreateDeal, Pay, Earn, Record
  <2>2. QED BY <2>1
<1>7. QED BY <1>2, <1>3, <1>4, <1>5, <1>6 DEF Step, Saving

LEMMA GoLiveStarts ==
  ASSUME KInv, NEW r \in Slots, GoLive(r)
  PROVE  work'[r].pc \in {"create", "stop"}
<1>0. work \in [Slots -> Running \cup {Idle}]
  BY DEF KInv, TypeOK
<1>1. CASE \E s \in Streams :
             Live(s) /\ Begin(r, [Handler("stop", s, NoOne, "close") EXCEPT !.relive = TRUE])
  <2>1. PICK s \in Streams : Begin(r, [Handler("stop", s, NoOne, "close") EXCEPT !.relive = TRUE])
    BY <1>1
  <2>2. QED BY <1>0, <2>1 DEF Begin, Handler
<1>2. CASE Begin(r, [Handler("create", 0, NoOne, "idle") EXCEPT !.relive = TRUE])
  BY <1>0, <1>2 DEF Begin, Handler
<1>3. QED BY <1>1, <1>2 DEF GoLive

\* A request that works on a waitlist finds the stream live, or a place on
\* the list; an ended stream has none.
LEMMA RequestsList ==
  ASSUME KInv, EndedSilent, NEW r \in Slots, Requests(r), Lists(work'[r])
  PROVE  work'[r].s \in Streams /\ ~Ended(work'[r].s)
<1>0. work \in [Slots -> Running \cup {Idle}]
  BY DEF KInv, TypeOK
<1>1. ASSUME NEW h, Begin(r, h) PROVE work'[r] = h
  BY <1>0, <1>1 DEF Begin
<1>2. ASSUME NEW s \in Streams, NEW u, Waiting(s, u) # {} PROVE ~Ended(s)
  BY <1>2 DEF EndedSilent, Waiting
<1>3. CASE GoLive(r)
  BY <1>3, GoLiveStarts DEF Lists
<1>4. CASE \E s \in Streams : EndStream(r, s) \/ ForceEnd(r, s) \/ EndCall(r, s) \/ TimerFires(r, s)
  <2>1. PICK pc, s, u, then : pc \in {"stop", "end"} /\ Begin(r, Handler(pc, s, u, then))
    BY <1>4 DEF EndStream, ForceEnd, EndCall, TimerFires
  <2>2. work'[r] = Handler(pc, s, u, then)
    BY <1>1, <2>1
  <2>3. QED BY <2>1, <2>2 DEF Handler, Lists
<1>5. CASE \E s \in Streams, u \in Viewers :
             RequestCall(r, s, u) \/ AcceptCall(r, s, u) \/ RejectCall(r, s, u) \/ CancelCall(r, s, u)
  <2>1. PICK s \in Streams, u \in Viewers :
          RequestCall(r, s, u) \/ AcceptCall(r, s, u) \/ RejectCall(r, s, u) \/ CancelCall(r, s, u)
    BY <1>5
  <2>2. CASE RequestCall(r, s, u)
    <3>1. work'[r] = Handler("queue", s, u, "idle") /\ Live(s)
      BY <1>1, <2>2 DEF RequestCall
    <3>2. QED BY <3>1 DEF Handler, Live, Ended
  <2>3. CASE AcceptCall(r, s, u)
    <3>1. PICK n \in Waiting(s, u) :
            Begin(r, [Handler(IF Affords(u) THEN "deal" ELSE "expire", s, u, "idle") EXCEPT !.n = n])
      BY <2>3 DEF AcceptCall
    <3>2. work'[r] = [Handler(IF Affords(u) THEN "deal" ELSE "expire", s, u, "idle") EXCEPT !.n = n]
      BY <1>1, <3>1
    <3>3. work'[r].s = s
      BY <3>2 DEF Handler
    <3>4. QED BY <1>2, <3>1, <3>3
  <2>4. CASE RejectCall(r, s, u)
    <3>1. PICK n \in Waiting(s, u) : Begin(r, [Handler("reject", s, u, "idle") EXCEPT !.n = n])
      BY <2>4 DEF RejectCall
    <3>2. work'[r] = [Handler("reject", s, u, "idle") EXCEPT !.n = n]
      BY <1>1, <3>1
    <3>3. work'[r].s = s
      BY <3>2 DEF Handler
    <3>4. QED BY <1>2, <3>1, <3>3
  <2>5. CASE CancelCall(r, s, u)
    <3>1. CASE Begin(r, Handler("end", s, u, "idle"))
      <4>1. work'[r] = Handler("end", s, u, "idle")
        BY <1>1, <3>1
      <4>2. QED BY <4>1 DEF Handler, Lists
    <3>2. CASE ~Begin(r, Handler("end", s, u, "idle"))
      <4>1. PICK n \in Waiting(s, u) :
              \E l : Begin(r, [Handler("cancel", s, u, "idle") EXCEPT !.list = l])
        BY <2>5, <3>2 DEF CancelCall
      <4>2. PICK l : Begin(r, [Handler("cancel", s, u, "idle") EXCEPT !.list = l])
        BY <4>1
      <4>3. work'[r] = [Handler("cancel", s, u, "idle") EXCEPT !.list = l]
        BY <1>1, <4>2
      <4>4. work'[r].s = s
        BY <4>3 DEF Handler
      <4>5. QED BY <1>2, <4>1, <4>4
    <3>3. QED BY <3>1, <3>2
  <2>6. QED BY <2>1, <2>2, <2>3, <2>4, <2>5
<1>6. QED BY <1>3, <1>4, <1>5 DEF Requests

\* A stream closes without a call, and its list is emptied.
LEMMA CloseSilent ==
  ASSUME KInv, Silent, OneAtATime, NEW r \in Slots, Close(r)
  PROVE  EndedSilent' /\ ListsOpen' /\ ClosesFree'
<1>0. EndedSilent /\ ListsOpen /\ ClosesFree /\ \A q \in Slots : q = r
  BY OneSlot DEF Silent, EndedSilent, ListsOpen, ClosesFree
<1>1. work[r] \in Running /\ ~OnCall(work[r].s) /\ stream \in [Streams -> Documents]
  BY <1>0, RunningSlot DEF Close, At, ClosesFree, KInv, TypeOK, Stored
<1>2. CASE work[r].fresh
  <2>1. stream' = [stream EXCEPT ![work[r].s].status = "ended", ![work[r].s].waitlist = <<>>]
    BY <1>2 DEF Close
  <2>2. EndedSilent'
    BY <1>0, <1>1, <2>1 DEF Documents, EndedSilent, Ended, OnCall
  <2>3. work'[r].pc = "release"
    BY <1>1, <1>2 DEF Close, Raise, Running
  <2>4. QED BY <1>0, <2>2, <2>3 DEF ListsOpen, ClosesFree, Lists, At
<1>3. CASE ~work[r].fresh
  <2>1. stream' = stream /\ work'[r].pc = "idle"
    BY <1>3 DEF Close, Finish, Idle, KInv, TypeOK
  <2>2. QED BY <1>0, <2>1 DEF EndedSilent, ListsOpen, ClosesFree, Lists, At, Ended
<1>4. QED BY <1>2, <1>3

LEMMA CreateSilent ==
  ASSUME KInv, Silent, OneAtATime, NEW r \in Slots, Create(r)
  PROVE  EndedSilent' /\ ListsOpen' /\ ClosesFree'
<1>0. EndedSilent /\ \A q \in Slots : q = r
  BY OneSlot DEF Silent, EndedSilent
<1>1. work[r] \in Running /\ stream \in [Streams -> Documents]
  BY RunningSlot DEF Create, At, KInv, TypeOK, Stored
<1>2. PICK s \in UnusedStreams : /\ stream' = [stream EXCEPT ![s].status = "live"]
                                 /\ work' = [work EXCEPT ![r].pc = "flag", ![r].s = s]
  BY DEF Create
<1>3. EndedSilent'
  BY <1>0, <1>1, <1>2 DEF Documents, EndedSilent, Ended
<1>4. work'[r].pc = "flag"
  BY <1>1, <1>2 DEF KInv, TypeOK, Running
<1>5. QED BY <1>0, <1>3, <1>4 DEF ListsOpen, ClosesFree, Lists, At

LEMMA OthersSilent ==
  ASSUME KInv, Silent, OneAtATime, NEW r \in Slots, Step(r), ~Create(r), ~Close(r)
  PROVE  EndedSilent' /\ ListsOpen' /\ ClosesFree'
<1>0. EndedSilent /\ ListsOpen /\ ClosesFree /\ \A q \in Slots : q = r
  BY OneSlot DEF Silent, EndedSilent, ListsOpen, ClosesFree
<1>1. \A s \in Streams : Ended(s)' <=> Ended(s)
  BY StatusWrites DEF Ended
<1>2. EndedSilent'
  <2>1. ASSUME NEW s \in Streams, Ended(s)'
        PROVE  stream'[s].waitlist = <<>> /\ stream'[s].call = NoOne
    <3>1. Ended(s) /\ stream[s].waitlist = <<>> /\ stream[s].call = NoOne
      BY <1>0, <1>1, <2>1 DEF EndedSilent
    <3>2. ~(Lists(work[r]) /\ work[r].s = s)
      BY <1>0, <3>1 DEF ListsOpen
    <3>3. QED BY <3>1, <3>2, ListWrites
  <2>2. QED BY <2>1 DEF EndedSilent
<1>3. CASE Requests(r)
  <2>1. work'[r].pc # "close"
    <3>1. GoLive(r) => work'[r].pc \in {"create", "stop"}
      BY GoLiveStarts
    <3>2. QED BY <1>3, <3>1, RequestOnce
  <2>2. Lists(work'[r]) => work'[r].s \in Streams /\ ~Ended(work'[r].s)
    BY <1>0, <1>3, RequestsList
  <2>3. PICK s : s = work'[r].s
    OBVIOUS
  <2>4. Lists(work'[r]) => ~Ended(s)'
    BY <1>1, <2>2, <2>3
  <2>5. QED BY <1>0, <1>2, <2>1, <2>3, <2>4 DEF ListsOpen, ClosesFree, At, Ended
<1>4. CASE ~Requests(r) /\ ~(TakesDown(work[r]) \/ At(r, "release"))
  <2>1. work'[r].pc \in {"idle", "flag", "accept", "gift"}
    BY <1>4, OtherStep
  <2>2. CASE work'[r].pc # "accept"
    BY <1>0, <1>2, <2>1, <2>2 DEF ListsOpen, ClosesFree, At, Lists
  <2>3. CASE work'[r].pc = "accept"
    <3>1. PICK s \in Streams : s = work[r].s /\ work'[r].s = s /\ ~Ended(s)
      <4>1. CreateDeal(r)
        BY <1>4, <2>3, AcceptIsNew
      <4>2. work[r] \in Running /\ work[r].s \in Streams /\ Lists(work[r])
        BY <4>1, RunningSlot DEF CreateDeal, At, KInv, Held, Lists
      <4>3. PICK t : work' = [work EXCEPT ![r].pc = "accept", ![r].t = t]
        BY <4>1 DEF CreateDeal
      <4>4. work'[r].s = work[r].s
        BY <4>2, <4>3 DEF KInv, TypeOK, Running
      <4>5. QED BY <1>0, <4>2, <4>4 DEF ListsOpen
    <3>2. ~Ended(s)'
      BY <1>1, <3>1
    <3>3. QED BY <1>0, <1>2, <2>3, <3>1, <3>2 DEF ListsOpen, ClosesFree, At, Ended
  <2>4. QED BY <2>2, <2>3
<1>5. CASE TakesDown(work[r]) \/ At(r, "release")
  <2>1. ~Lists(work'[r])
    BY <1>5, EndingStep DEF Lists, TakesDown
  <2>2. At(r, "close")' => ~OnCall(work[r].s)' /\ work'[r].s = work[r].s
    <3>1. work'[r].pc = "close" => stream'[work[r].s].call = NoOne /\ work'[r].s = work[r].s
      BY <1>5, EndingStep DEF Onward
    <3>2. PICK s : s = work[r].s
      OBVIOUS
    <3>3. QED BY <3>1, <3>2 DEF At, OnCall
  <2>3. ClosesFree'
    BY <1>0, <2>2, <1>5, EndingStep DEF ClosesFree, At, OnCall, Onward
  <2>4. QED BY <1>0, <1>2, <2>1, <2>3 DEF ListsOpen
<1>6. QED BY <1>3, <1>4, <1>5

LEMMA SilentNext == KInv /\ Silent /\ [Next]_vars => Silent'
<1> SUFFICES ASSUME KInv, Silent, [Next]_vars, OneAtATime'
             PROVE  EndedSilent' /\ ListsOpen' /\ ClosesFree'
  BY DEF Silent, EndedSilent, ListsOpen, ClosesFree
<1>0. OneAtATime
  <2>1. DOMAIN work = Slots /\ DOMAIN work' = Slots
    BY KNext DEF KInv, TypeOK
  <2>2. QED BY <2>1 DEF OneAtATime
<1>1. EndedSilent /\ ListsOpen /\ ClosesFree
  BY <1>0 DEF Silent, EndedSilent, ListsOpen, ClosesFree
<1>2. CASE UNCHANGED vars
  BY <1>1, <1>2 DEF vars, EndedSilent, ListsOpen, ClosesFree, At, Ended, OnCall
<1>3. CASE Restart
  BY <1>1, <1>3 DEF Restart, Idle, EndedSilent, ListsOpen, ClosesFree, At, Ended, Lists
<1>4. ASSUME NEW r \in Slots, Step(r) PROVE EndedSilent' /\ ListsOpen' /\ ClosesFree'
  BY <1>0, <1>4, CloseSilent, CreateSilent, OthersSilent
<1>5. QED BY <1>2, <1>3, <1>4, NextIsStep

LEMMA SilentInit == Init => Silent
<1> SUFFICES ASSUME Init PROVE EndedSilent /\ ListsOpen /\ ClosesFree
  BY DEF Silent, EndedSilent, ListsOpen, ClosesFree
<1>1. QED
  BY DEF Init, NoStream, NoHandler, Idle, Ended, Lists, At, EndedSilent, ListsOpen, ClosesFree

----------------
(* One request at a time and no failure: the host names the live stream,   *)
(* and the stream shows its call.                                          *)

\* What was alone stays alone, and nothing failed.
LEMMA AloneBefore ==
  ASSUME KInv, [Next]_vars, Alone'
  PROVE  /\ Alone /\ \A q, r \in Slots : q = r
         /\ UNCHANGED vars \/ \E r \in Slots : Step(r) /\ ~Loses(r)
<1>1. failures \in Nat
  BY StreamAssumption DEF KInv, TypeOK, Stored
<1>2. OneAtATime
  <2>1. DOMAIN work = Slots /\ DOMAIN work' = Slots
    BY KNext DEF KInv, TypeOK
  <2>2. QED BY <2>1 DEF OneAtATime, Alone
<1>3. failures' = 0 /\ failures' # failures + 1
  BY <1>1 DEF Alone
<1>4. CASE UNCHANGED vars
  BY <1>2, <1>3, <1>4, OneSlot DEF vars, Alone
<1>5. ~Restart
  BY <1>3 DEF Restart
<1>6. ASSUME NEW r \in Slots, Step(r)
      PROVE  ~Loses(r) /\ failures' = failures
  <2>1. ~Loses(r)
    BY <1>3 DEF Loses, EarnFails, HandlerFails
  <2>2. CASE Requests(r)
    BY <2>1, <2>2, RequestsAsk DEF KInv, Asked
  <2>3. CASE Gifts(r) \/ Moving(r) \/ Saving(r)
    BY <2>1, <2>3 DEF Gifts, Gift, Moving, FlagLive, Stop, Release, EndRead, FindDeal, Saving, Create, Close,
       Queue, AcceptSave, Refuse, CancelSave
  <2>4. CASE CreateDeal(r) \/ Pay(r) \/ Earn(r) \/ Record(r) \/ Clear(r) \/ AddRevenue(r)
    BY <2>1, <2>4 DEF CreateDeal, Pay, Earn, Record, Clear, AddRevenue
  <2>5. QED BY <1>6, <2>1, <2>2, <2>3, <2>4 DEF Step
<1>7. QED BY <1>2, <1>3, <1>4, <1>5, <1>6, OneSlot, NextIsStep DEF Alone

\* The call of a stream is written when it is accepted and when it ends.
LEMMA CallWrites ==
  ASSUME KInv, NEW r \in Slots, Step(r), ~AcceptSave(r), ~Clear(r)
  PROVE  \A s \in Streams : stream'[s].call = stream[s].call
<1>0. stream \in [Streams -> Documents]
  BY DEF KInv, TypeOK, Stored
<1>1. CASE Requests(r)
  BY <1>1, RequestsAsk DEF KInv, Asked
<1>2. CASE Gifts(r) \/ Moving(r) \/ Loses(r) \/ CreateDeal(r) \/ Pay(r) \/ Earn(r) \/ Record(r)
  BY <1>2 DEF Gifts, Gift, Moving, FlagLive, Stop, Release, EndRead, FindDeal, Loses, EarnFails,
              HandlerFails, CreateDeal, Pay, Earn, Record
<1>3. CASE AddRevenue(r)
  <2>1. PICK v : stream' = [stream EXCEPT ![work[r].s].revenue = v]
    BY <1>3 DEF AddRevenue
  <2>2. QED BY <1>0, <2>1 DEF Documents
<1>4. CASE Queue(r) \/ CancelSave(r)
  <2>1. PICK v : stream' = stream \/ stream' = [stream EXCEPT ![work[r].s].waitlist = v]
    BY <1>4 DEF Queue, CancelSave
  <2>2. QED BY <1>0, <2>1 DEF Documents
<1>5. CASE Refuse(r)
  <2>1. CASE stream' = stream
    BY <2>1
  <2>2. CASE stream' # stream
    <3>1. PICK v : stream' = [stream EXCEPT ![work[r].s].waitlist[work[r].n].status = v]
      BY <1>5, <2>2 DEF Refuse
    <3>2. QED BY <1>0, <3>1 DEF Documents
  <2>3. QED BY <2>1, <2>2
<1>6. CASE Create(r)
  <2>1. PICK s \in Streams : stream' = [stream EXCEPT ![s].status = "live"]
    BY <1>6 DEF Create, UnusedStreams
  <2>2. QED BY <1>0, <2>1 DEF Documents
<1>7. CASE Close(r)
  <2>1. CASE stream' = stream
    BY <2>1
  <2>2. CASE stream' # stream
    <3>1. stream' = [stream EXCEPT ![work[r].s].status = "ended", ![work[r].s].waitlist = <<>>]
      BY <1>7, <2>2 DEF Close
    <3>2. work[r].s \in Streams
      BY <1>7 DEF Close, At, KInv, Held
    <3>3. QED BY <1>0, <3>1, <3>2 DEF Documents
  <2>3. QED BY <2>1, <2>2
<1>8. QED BY <1>1, <1>2, <1>3, <1>4, <1>5, <1>6, <1>7 DEF Step, Saving

\* What a step leaves of a handler that ends a stream or a call.
Keeps(r) == work'[r].s = work[r].s /\ work'[r].then = work[r].then
LEMMA StopTurns ==
  ASSUME KInv, NEW r \in Slots, Stop(r)
  PROVE  \/ work'[r].pc \in {"idle", "create"}
         \/ work'[r].pc \in {"end", "close"} /\ work'[r].s = work[r].s /\ Live(work[r].s)
<1>0. work[r] \in Running /\ work \in [Slots -> Running \cup {Idle}]
  BY RunningSlot DEF Stop, At, KInv, TypeOK
<1>1. CASE Live(work[r].s)
  <2>1. PICK pc \in {"end", "close"} :
          work' = [work EXCEPT ![r].pc = pc, ![r].then = "close", ![r].fresh = TRUE]
    BY <1>1 DEF Stop
  <2>2. work'[r] = [work[r] EXCEPT !.pc = pc, !.then = "close", !.fresh = TRUE]
    BY <1>0, <2>1
  <2>3. QED BY <1>0, <1>1, <2>2 DEF Running
<1>2. CASE ~Live(work[r].s)
  <2>1. Finish(r) \/ Goto(r, "create")
    BY <1>2 DEF Stop
  <2>2. work'[r] = Idle \/ work'[r] = [work[r] EXCEPT !.pc = "create"]
    BY <1>0, <2>1 DEF Finish, Goto
  <2>3. QED BY <1>0, <2>2 DEF Running, Idle
<1>3. QED BY <1>1, <1>2

LEMMA GoesOn ==
  ASSUME KInv, NEW r \in Slots, work[r] \in Running, NEW pc
  PROVE  /\ Goto(r, pc) => Keeps(r) /\ work'[r].pc = pc /\ work'[r].t = work[r].t
         /\ Finish(r) => work'[r].pc = "idle"
<1>1. Goto(r, pc) => work'[r] = [work[r] EXCEPT !.pc = pc]
  BY DEF KInv, TypeOK, Goto
<1>2. LET h == [work[r] EXCEPT !.pc = pc] IN
        h.pc = pc /\ h.s = work[r].s /\ h.then = work[r].then /\ h.t = work[r].t
  BY Zenon DEF Running
<1>3. Goto(r, pc) => Keeps(r) /\ work'[r].pc = pc /\ work'[r].t = work[r].t
  <2> DEFINE h == [work[r] EXCEPT !.pc = pc]
  <2>1. h.pc = pc /\ h.s = work[r].s /\ h.then = work[r].then /\ h.t = work[r].t
    BY <1>2
  <2> HIDE DEF h
  <2>2. Goto(r, pc) => work'[r] = h
    BY <1>1 DEF h
  <2>3. QED BY <2>1, <2>2 DEF Keeps
<1>4. Finish(r) => work'[r].pc = "idle"
  BY DEF KInv, TypeOK, Finish, Idle
<1>5. QED BY <1>3, <1>4

LEMMA ReadTurns ==
  ASSUME KInv, NEW r \in Slots, EndRead(r)
  PROVE  \/ work'[r].pc = "find" /\ Keeps(r) /\ OnCall(work[r].s)
         \/ work'[r].pc = "idle"
         \/ work'[r].pc \in {"stop", "close"} /\ work'[r].pc = work[r].then /\ Keeps(r)
<1>0. work[r] \in Running /\ work \in [Slots -> Running \cup {Idle}]
  BY RunningSlot DEF EndRead, At, KInv, TypeOK
<1>1. CASE OnCall(work[r].s)
  <2>1. PICK u, v : work' = [work EXCEPT ![r].pc = "find", ![r].u = u, ![r].rev = v, ![r].ok = FALSE]
    BY <1>1 DEF EndRead
  <2>2. work'[r] = [work[r] EXCEPT !.pc = "find", !.u = u, !.rev = v, !.ok = FALSE]
    BY <1>0, <2>1
  <2>3. QED BY <1>0, <1>1, <2>2 DEF Running, Keeps
<1>2. CASE ~OnCall(work[r].s)
  BY <1>0, <1>2, GoesOn DEF EndRead, Running
<1>3. QED BY <1>1, <1>2

LEMMA FindTurns ==
  ASSUME KInv, NEW r \in Slots, FindDeal(r)
  PROVE  /\ Keeps(r)
         /\ \/ work'[r].pc = "clear" /\ Ongoing(work[r].s) = {}
            \/ work'[r].pc = "pay" /\ work'[r].t \in Ongoing(work[r].s)
<1>0. work[r] \in Running /\ work \in [Slots -> Running \cup {Idle}]
  BY RunningSlot DEF FindDeal, At, KInv, TypeOK
<1>1. CASE Ongoing(work[r].s) = {}
  BY <1>0, <1>1, GoesOn DEF FindDeal
<1>2. CASE Ongoing(work[r].s) # {}
  <2>1. PICK t \in Ongoing(work[r].s), n \in Lengths :
          work' = [work EXCEPT ![r].pc = "pay", ![r].t = t, ![r].n = n]
    BY <1>2 DEF FindDeal
  <2>2. work'[r] = [work[r] EXCEPT !.pc = "pay", !.t = t, !.n = n]
    BY <1>0, <2>1
  <2>3. work'[r].pc = "pay" /\ work'[r].t = t /\ Keeps(r)
    BY <1>0, <2>2 DEF Running, Keeps
  <2>4. QED BY <2>1, <2>3
<1>3. QED BY <1>1, <1>2

LEMMA BillTurns ==
  ASSUME KInv, NEW r \in Slots, Pay(r) \/ Earn(r) \/ Record(r)
  PROVE  /\ Keeps(r) /\ work'[r].t = work[r].t
         /\ Pay(r) \/ Earn(r) => work'[r].pc \in {"earn", "record"} /\ work[r].pc \in {"pay", "earn"}
         /\ Record(r) => work'[r].pc = "clear" /\ work[r].pc = "record"
<1>0. work[r] \in Running /\ work \in [Slots -> Running \cup {Idle}]
  BY RunningSlot DEF Pay, Earn, Record, At, KInv, TypeOK
<1>1. CASE Pay(r)
  <2>1. PICK pc \in {"earn", "record"} : Goto(r, pc)
    BY <1>1 DEF Pay
  <2>2. work[r].pc = "pay"
    BY <1>1 DEF Pay, At
  <2>3. QED BY <1>0, <1>1, <2>1, <2>2, GoesOn DEF Record, At
<1>2. CASE Earn(r)
  <2>1. work' = [work EXCEPT ![r].pc = "record", ![r].ok = TRUE] /\ work[r].pc = "earn"
    BY <1>2 DEF Earn, At
  <2>2. work'[r] = [work[r] EXCEPT !.pc = "record", !.ok = TRUE]
    BY <1>0, <2>1
  <2>3. work'[r].pc = "record" /\ work'[r].t = work[r].t /\ Keeps(r)
    BY <1>0, <2>2 DEF Running, Keeps
  <2>4. QED BY <2>1, <2>3 DEF Record, At
<1>3. CASE Record(r)
  <2>1. Goto(r, "clear") /\ work[r].pc = "record"
    BY <1>3 DEF Record, At
  <2>2. QED BY <1>0, <2>1, GoesOn DEF Pay, Earn, At
<1>4. QED BY <1>1, <1>2, <1>3

LEMMA ClearTurns ==
  ASSUME KInv, NEW r \in Slots, Clear(r)
  PROVE  \/ work'[r].pc = "idle"
         \/ work'[r].pc \in {"stop", "close"} /\ work'[r].pc = work[r].then /\ Keeps(r)
<1>0. work[r] \in Running
  BY RunningSlot DEF Clear, At, KInv
<1>1. QED BY <1>0, GoesOn DEF Clear, Running

\* A request never begins in the middle, nor ends a call to end a stream, and
\* a call is accepted where none is shown.
LEMMA RequestHolds ==
  ASSUME KInv, NEW r \in Slots, Requests(r)
  PROVE  /\ work'[r].pc \in {"idle", "create", "stop", "queue", "deal", "reject", "expire", "cancel", "end"}
         /\ work'[r].pc = "end" => work'[r].then # "close"
         /\ work'[r].pc = "deal" => ~OnCall(work'[r].s) /\ work'[r].fresh
<1>0. work \in [Slots -> Running \cup {Idle}]
  BY DEF KInv, TypeOK
<1>1. ASSUME NEW h, Begin(r, h) PROVE work'[r] = h
  BY <1>0, <1>1 DEF Begin
<1>2. ASSUME NEW pc, NEW s, NEW u, NEW then, NEW n, NEW l
      PROVE  LET h == Handler(pc, s, u, then) IN
               /\ h.pc = pc /\ h.s = s /\ h.then = then /\ h.fresh
               /\ [h EXCEPT !.n = n].pc = pc /\ [h EXCEPT !.n = n].s = s /\ [h EXCEPT !.n = n].fresh
               /\ [h EXCEPT !.n = n].then = then /\ [h EXCEPT !.list = l].pc = pc
  BY DEF Handler
<1>3. CASE GoLive(r)
  BY <1>3, GoLiveStarts
<1>4. CASE \E s \in Streams : EndStream(r, s) \/ ForceEnd(r, s) \/ EndCall(r, s) \/ TimerFires(r, s)
  <2>1. PICK pc, s, u, then : /\ pc \in {"stop", "end"} /\ Begin(r, Handler(pc, s, u, then))
                              /\ pc = "end" => then # "close"
    BY <1>4 DEF EndStream, ForceEnd, EndCall, TimerFires
  <2>2. work'[r] = Handler(pc, s, u, then)
    BY <1>1, <2>1
  <2>3. work'[r].pc = pc /\ work'[r].then = then
    BY <1>2, <2>2
  <2>4. QED BY <2>1, <2>3
<1>5. ASSUME NEW s \in Streams, NEW u \in Viewers, RequestCall(r, s, u)
      PROVE  work'[r].pc = "queue"
  BY <1>1, <1>2, <1>5 DEF RequestCall
<1>6. ASSUME NEW s \in Streams, NEW u \in Viewers, AcceptCall(r, s, u)
      PROVE  work'[r].pc \in {"deal", "expire"} /\ ~OnCall(work'[r].s) /\ work'[r].fresh
  <2>1. PICK n, pc : /\ pc \in {"deal", "expire"}
                     /\ Begin(r, [Handler(pc, s, u, "idle") EXCEPT !.n = n])
    BY <1>6 DEF AcceptCall
  <2>2. work'[r] = [Handler(pc, s, u, "idle") EXCEPT !.n = n]
    BY <1>1, <2>1
  <2>3. work'[r].pc = pc /\ work'[r].s = s /\ work'[r].fresh
    BY <1>2, <2>2
  <2>4. QED BY <1>6, <2>1, <2>3 DEF AcceptCall
<1>7. ASSUME NEW s \in Streams, NEW u \in Viewers, RejectCall(r, s, u)
      PROVE  work'[r].pc = "reject"
  <2>1. PICK n : Begin(r, [Handler("reject", s, u, "idle") EXCEPT !.n = n])
    BY <1>7 DEF RejectCall
  <2>2. work'[r] = [Handler("reject", s, u, "idle") EXCEPT !.n = n]
    BY <1>1, <2>1
  <2>3. QED BY <2>2 DEF Handler
<1>8. ASSUME NEW s \in Streams, NEW u \in Viewers, CancelCall(r, s, u)
      PROVE  work'[r].pc = "cancel" \/ (work'[r].pc = "end" /\ work'[r].then = "idle")
  <2>1. CASE Begin(r, Handler("end", s, u, "idle"))
    BY <1>1, <1>2, <2>1
  <2>2. CASE ~Begin(r, Handler("end", s, u, "idle"))
    <3>1. PICK l : Begin(r, [Handler("cancel", s, u, "idle") EXCEPT !.list = l])
      BY <1>8, <2>2 DEF CancelCall
    <3>2. work'[r] = [Handler("cancel", s, u, "idle") EXCEPT !.list = l]
      BY <1>1, <3>1
    <3>3. QED BY <3>2 DEF Handler
  <2>3. QED BY <2>1, <2>2
<1>9. QED BY <1>3, <1>4, <1>5, <1>6, <1>7, <1>8 DEF Requests

\* Who makes a stream, and who names it, releases it or ends it.
LEMMA NamedHost ==
  ASSUME KInv, Lone, Named, Alone, NEW r \in Slots, \A q \in Slots : q = r,
         Create(r) \/ FlagLive(r) \/ Release(r) \/ Close(r)
  PROVE  Named'
<1>0. /\ stream \in [Streams -> Documents] /\ work \in [Slots -> Running \cup {Idle}]
      /\ work[r] \in Running /\ (~Create(r) => work[r].s \in Streams)
  BY RunningSlot DEF KInv, TypeOK, Stored, Held, Create, FlagLive, Release, Close, At
<1>1. OneLive /\ (At(r, "create") => NoneLive)
  BY DEF Lone, Alone, OneLive
<1>2. CASE Create(r)
  <2>1. PICK s \in UnusedStreams : /\ stream' = [stream EXCEPT ![s].status = "live"]
                                   /\ work' = [work EXCEPT ![r].pc = "flag", ![r].s = s]
    BY <1>2 DEF Create
  <2>2. work'[r] = [work[r] EXCEPT !.pc = "flag", !.s = s]
    BY <1>0, <2>1
  <2>3. work'[r].pc = "flag" /\ work'[r].s = s
    BY <1>0, <2>2 DEF Running
  <2>4. s \in Streams /\ Live(s)'
    BY <1>0, <2>1 DEF Live, UnusedStreams, Documents
  <2>5. QED BY <2>3, <2>4 DEF Named, At, EndsLive, Ending
<1>3. CASE FlagLive(r)
  <2>1. Live(work[r].s) /\ host' = work[r].s /\ stream' = stream
    BY <1>3 DEF FlagLive, Named
  <2>2. NamesLive'
    BY <1>0, <1>1, <1>3, <2>1 DEF NamesLive, OneLive, Live, FlagLive, Create, At
  <2>3. work'[r].pc = "idle"
    BY <1>0, <1>3 DEF FlagLive, Finish, Idle
  <2>4. QED BY <2>2, <2>3 DEF Named, At, NamesLive
<1>4. CASE Release(r)
  <2>1. NoneLive /\ host' = 0 /\ stream' = stream
    BY <1>4 DEF Release, Named
  <2>2. NamesLive'
    BY <2>1 DEF NamesLive, NoneLive, Live, Streams
  <2>3. work'[r].pc \in {"idle", "create"}
    BY <1>0, <1>4, GoesOn DEF Release
  <2>4. QED BY <2>2, <2>3 DEF Named, At, NamesLive
<1>5. CASE Close(r) /\ work[r].fresh
  <2>1. stream' = [stream EXCEPT ![work[r].s].status = "ended", ![work[r].s].waitlist = <<>>]
    BY <1>5 DEF Close
  <2>2. Live(work[r].s)
    BY <1>5 DEF Named, EndsLive, Close, At
  <2>3. NoneLive'
    BY <1>0, <1>1, <1>5, <2>1, <2>2 DEF OneLive, NoneLive, Live, Documents, Close, Create, At
  <2>4. work'[r].pc = "release"
    <3>1. work'[r] = [work[r] EXCEPT !.pc = "release"]
      BY <1>5 DEF Close, Raise
    <3>2. QED BY <1>0, <3>1 DEF Running
  <2>5. QED BY <2>3, <2>4 DEF Named, At, EndsLive, Ending
<1>6. CASE Close(r) /\ ~work[r].fresh
  <2>1. stream' = stream /\ work'[r].pc = "idle" /\ host' = host
    BY <1>0, <1>6 DEF Close, Finish, Idle
  <2>2. NamesLive
    BY <1>6 DEF Named, Close, At
  <2>3. NamesLive'
    BY <2>1, <2>2 DEF NamesLive, Live
  <2>4. QED BY <2>1, <2>3 DEF Named, At
<1>7. QED BY <1>2, <1>3, <1>4, <1>5, <1>6

\* Only the save of a new stream leads to the naming of it.
LEMMA FlagComes ==
  ASSUME KInv, NEW r \in Slots, Step(r), ~Requests(r), ~TakesDown(work[r]), ~At(r, "release"), ~Create(r)
  PROVE  work'[r].pc # "flag"
<1>0. work \in [Slots -> Running \cup {Idle}]
  BY DEF KInv, TypeOK
<1>1. Finish(r) => work'[r].pc = "idle"
  BY <1>0 DEF Finish, Idle
<1>2. CASE Gifts(r)
  BY <1>0, <1>2 DEF Gifts, Gift, Begin, Handler
<1>3. CASE CreateDeal(r)
  <2>1. PICK t : work' = [work EXCEPT ![r].pc = "accept", ![r].t = t]
    BY <1>3 DEF CreateDeal
  <2>2. work[r] \in Running
    BY <1>3, RunningSlot DEF CreateDeal, At, KInv
  <2>3. QED BY <1>0, <2>1, <2>2 DEF Running
<1>4. CASE Queue(r) \/ CancelSave(r)
  BY <1>0, <1>1, <1>4 DEF Queue, CancelSave, Raise, Idle
<1>5. CASE FlagLive(r) \/ AcceptSave(r) \/ Refuse(r) \/ AddRevenue(r) \/ HandlerFails(r)
  BY <1>1, <1>5 DEF FlagLive, AcceptSave, Refuse, AddRevenue, HandlerFails
<1>6. ~(Stop(r) \/ Close(r) \/ Release(r) \/ EndRead(r) \/ FindDeal(r) \/ Pay(r) \/ Earn(r)
        \/ EarnFails(r) \/ Record(r) \/ Clear(r))
  BY DEF Stop, Close, Release, EndRead, FindDeal, Pay, Earn, EarnFails, Record, Clear, At, TakesDown
<1>7. QED BY <1>2, <1>3, <1>4, <1>5, <1>6 DEF Step, Moving, Saving, Loses

LEMMA NamedOthers ==
  ASSUME KInv, Lone, Named, Alone, NEW r \in Slots, \A q \in Slots : q = r, Step(r), ~Loses(r),
         ~Create(r), ~FlagLive(r), ~Release(r), ~Close(r)
  PROVE  Named'
<1>0. \A s \in Streams : Live(s)' <=> Live(s)
  BY StatusWrites DEF Live
<1>1. host' = host
  <2>1. CASE Requests(r)
    BY <2>1, RequestsAsk DEF KInv, Asked
  <2>2. CASE ~Requests(r)
    BY <2>2 DEF Step, Gifts, Gift, Moving, Stop, EndRead, FindDeal, Saving, Queue, AcceptSave, Refuse,
       CancelSave, CreateDeal, Pay, Earn, Record, Clear, AddRevenue
  <2>3. QED BY <2>1, <2>2
<1>2. NamesLive => NamesLive'
  BY <1>0, <1>1 DEF NamesLive
<1>3. CASE Requests(r)
  <2>1. NamesLive
    BY <1>3, RequestsAsk DEF KInv, Asked, Begin, At, Named
  <2>2. /\ work'[r].pc \in {"idle", "create", "stop", "queue", "deal", "reject", "expire", "cancel", "end"}
        /\ work'[r].pc = "end" => work'[r].then # "close"
    BY <1>3, RequestHolds
  <2>3. QED BY <1>2, <2>1, <2>2 DEF Named, At, EndsLive, Ending
<1>4. CASE ~Requests(r) /\ ~TakesDown(work[r])
  <2>1. ~At(r, "release") /\ ~At(r, "flag") /\ ~At(r, "create")
    BY <1>4 DEF Step, Gifts, Gift, Begin, Moving, Stop, EndRead, FindDeal, Saving, Queue, AcceptSave, Refuse,
       CancelSave, CreateDeal, Pay, Earn, Record, Clear, AddRevenue, At
  <2>2. NamesLive
    BY <2>1 DEF Named, At
  <2>3. work'[r].pc \in {"idle", "accept", "gift"}
    <3>1. work'[r].pc \in {"idle", "flag", "accept", "gift"}
      BY <1>4, <2>1, OtherStep
    <3>2. work'[r].pc # "flag"
      BY FlagComes, <1>4, <2>1
    <3>3. QED BY <3>1, <3>2
  <2>4. QED BY <1>2, <2>2, <2>3 DEF Named, At, EndsLive, Ending
<1>5. CASE TakesDown(work[r]) /\ ~Requests(r)
  <2>1. NamesLive
    BY <1>5 DEF Named, TakesDown
  <2>2. CASE Stop(r)
    <3>1. \/ work'[r].pc \in {"idle", "create"}
          \/ work'[r].pc \in {"end", "close"} /\ work'[r].s = work[r].s /\ Live(work[r].s)
      BY <2>2, StopTurns
    <3>2. PICK s : s = work[r].s
      OBVIOUS
    <3>3. s \in Streams
      BY <2>2, <3>2 DEF Stop, At, KInv, Held
    <3>4. Live(s) => Live(s)'
      BY <1>0, <3>3
    <3>5. QED BY <1>2, <2>1, <3>1, <3>2, <3>4 DEF Named, At, EndsLive, Ending
  <2>3. CASE EndRead(r) \/ FindDeal(r) \/ Pay(r) \/ Earn(r) \/ Record(r) \/ Clear(r)
    <3>0. PICK s : s = work[r].s
      OBVIOUS
    <3>1. \/ work'[r].pc \in {"idle", "stop"}
          \/ /\ work'[r].pc \in {"close", "find", "clear", "pay", "earn", "record"}
             /\ Keeps(r) /\ (work'[r].pc = "close" => work[r].then = "close")
      BY <2>3, ReadTurns, FindTurns, BillTurns, ClearTurns
    <3>2. work[r].pc \in {"end", "find", "pay", "earn", "record", "clear"} /\ s \in Streams
      BY <2>3, <3>0 DEF EndRead, FindDeal, Pay, Earn, Record, Clear, At, KInv, Held
    <3>3. work[r].then = "close" => Live(s)
      BY <3>0, <3>2 DEF Named, EndsLive, Ending
    <3>4. work[r].then = "close" => Live(s)'
      BY <1>0, <3>2, <3>3
    <3>5. QED BY <1>2, <2>1, <3>0, <3>1, <3>4 DEF Named, At, EndsLive, Ending, Keeps
  <2>4. QED
    BY <1>5, <2>2, <2>3 DEF Step, Gifts, Gift, Begin, Moving, Saving, Queue, AcceptSave, Refuse,
       CancelSave, CreateDeal, AddRevenue, At, TakesDown
<1>6. QED BY <1>3, <1>4, <1>5

LEMMA NamedNext == KInv /\ Lone /\ Named /\ [Next]_vars => Named'
<1> SUFFICES ASSUME KInv, Lone, Named, [Next]_vars, Alone' PROVE Named'
  BY DEF Named
<1>1. /\ Alone /\ \A q, r \in Slots : q = r
      /\ UNCHANGED vars \/ \E r \in Slots : Step(r) /\ ~Loses(r)
  BY AloneBefore
<1>2. CASE UNCHANGED vars
  <2>1. stream' = stream /\ work' = work /\ host' = host
    BY <1>2 DEF vars
  <2>2. /\ NamesLive' <=> NamesLive
        /\ NoneLive' <=> NoneLive
        /\ \A r \in Slots : At(r, "release")' <=> At(r, "release")
        /\ \A r \in Slots : At(r, "flag")' <=> At(r, "flag")
        /\ \A r \in Slots : EndsLive(work[r])' <=> EndsLive(work[r])
        /\ \A r \in Slots : Live(work[r].s)' <=> Live(work[r].s)
    BY <2>1 DEF NamesLive, NoneLive, Live, At, EndsLive, Ending
  <2>3. QED BY <1>1, <2>1, <2>2 DEF Named
<1>3. ASSUME NEW r \in Slots, Step(r), ~Loses(r) PROVE Named'
  BY <1>1, <1>3, NamedHost, NamedOthers
<1>4. QED BY <1>1, <1>2, <1>3

LEMMA NamedInit == Init => Named
<1> SUFFICES ASSUME Init PROVE Named
  OBVIOUS
<1>1. \A r \in Slots : work[r].pc = "idle"
  BY DEF Init, NoHandler, Idle
<1>2. \A s \in Streams : ~Live(s) /\ host # s
  BY DEF Init, Live, NoStream, Streams
<1>3. QED BY <1>1, <1>2 DEF Named, NamesLive, At

\* What is shown of a stream depends on its call and on the transactions.
LEMMA SameShown ==
  ASSUME NEW s \in Streams, stream'[s].call = stream[s].call, deal' = deal
  PROVE  (ShownAt(s)' <=> ShownAt(s)) /\ (OnCall(s)' <=> OnCall(s)) /\ Ongoing(s)' = Ongoing(s)
BY DEF ShownAt, OnCall, Ongoing

\* A transaction that is made is ongoing on its stream, one that is recorded
\* no longer is; the others stay what they are.
LEMMA MadeOngoing ==
  ASSUME KInv, NEW r \in Slots, CreateDeal(r)
  PROVE  /\ work'[r].pc = "accept" /\ work'[r].s = work[r].s /\ work'[r].u = work[r].u
         /\ work'[r].fresh = work[r].fresh
         /\ work'[r].t \in Deals /\ deal'[work'[r].t].u = work[r].u
         /\ Ongoing(work[r].s)' = Ongoing(work[r].s) \cup {work'[r].t}
         /\ \A s \in Streams : s # work[r].s => Ongoing(s)' = Ongoing(s)
         /\ \A s \in Streams : \A q \in Ongoing(s) : deal'[q].u = deal[q].u
         /\ stream' = stream
<1>0. work[r] \in Running /\ work \in [Slots -> Running \cup {Idle}] /\ deal \in [Deals -> Transactions]
  BY RunningSlot DEF CreateDeal, At, KInv, TypeOK, Stored
<1>1. PICK t \in UnusedDeals :
        /\ deal' = [deal EXCEPT ![t] = [s |-> work[r].s, u |-> work[r].u, status |-> "ongoing", total |-> 0]]
        /\ work' = [work EXCEPT ![r].pc = "accept", ![r].t = t]
  BY DEF CreateDeal
<1>2. work'[r] = [work[r] EXCEPT !.pc = "accept", !.t = t]
  BY <1>0, <1>1
<1>3. /\ work'[r].pc = "accept" /\ work'[r].s = work[r].s /\ work'[r].u = work[r].u
      /\ work'[r].fresh = work[r].fresh /\ work'[r].t = t
  BY <1>0, <1>2 DEF Running
<1>4. PICK s, u : s = work[r].s /\ u = work[r].u
  OBVIOUS
<1>5. /\ t \in Deals /\ deal[t].status = "none"
      /\ \A q \in Deals : deal'[q] = IF q = t THEN [s |-> s, u |-> u, status |-> "ongoing", total |-> 0]
                                     ELSE deal[q]
  BY <1>0, <1>1, <1>4 DEF UnusedDeals
<1>6. deal'[t].u = u /\ deal'[t].s = s /\ deal'[t].status = "ongoing"
  BY <1>5
<1>7. ASSUME NEW z PROVE Ongoing(z)' = IF z = s THEN Ongoing(z) \cup {t} ELSE Ongoing(z)
  BY <1>5, <1>6 DEF Ongoing
<1>8. \A z : \A q \in Ongoing(z) : deal'[q].u = deal[q].u
  BY <1>5 DEF Ongoing
<1>9. stream' = stream
  BY DEF CreateDeal
<1>10. QED BY <1>3, <1>4, <1>5, <1>6, <1>7, <1>8, <1>9

LEMMA RecordedOngoing ==
  ASSUME KInv, NEW r \in Slots, Record(r)
  PROVE  /\ \A s \in Streams : Ongoing(s)' = Ongoing(s) \ {work[r].t}
         /\ \A s \in Streams : \A q \in Ongoing(s)' : deal'[q].u = deal[q].u
         /\ stream' = stream
<1>0. work[r].t \in Deals /\ deal \in [Deals -> Transactions]
  BY DEF Record, At, KInv, TypeOK, Stored, Held
<1>1. PICK t, status, total : /\ t = work[r].t /\ status \in {"completed", "failed"}
        /\ deal' = [deal EXCEPT ![t].status = status, ![t].total = total]
  BY DEF Record
<1>2. \A q \in Deals : deal'[q] = IF q = t THEN [deal[q] EXCEPT !.status = status, !.total = total]
                                  ELSE deal[q]
  BY <1>0, <1>1
<1>3. deal'[t].status = status /\ deal'[t].u = deal[t].u
  <2>1. deal[t] \in Transactions /\ deal'[t] = [deal[t] EXCEPT !.status = status, !.total = total]
    BY <1>0, <1>1, <1>2
  <2>2. QED BY <2>1 DEF Transactions
<1>4. ASSUME NEW s PROVE Ongoing(s)' = Ongoing(s) \ {t}
  BY <1>1, <1>2, <1>3 DEF Ongoing
<1>5. \A s : \A q \in Ongoing(s)' : deal'[q].u = deal[q].u
  BY <1>2, <1>3 DEF Ongoing
<1>6. stream' = stream
  BY DEF Record
<1>7. QED BY <1>1, <1>4, <1>5, <1>6

\* A call that starts is that of the transaction, and one that ends has none.
LEMMA CreateDealShown ==
  ASSUME KInv, NEW r \in Slots, CreateDeal(r), Shows(work[r])
  PROVE  Shows(work[r])'
<1>0. work[r].s \in Streams /\ work[r].pc = "deal"
  BY DEF CreateDeal, At, KInv, Held
<1>1. \A s \in Streams : ShownAt(s)
  BY <1>0 DEF Shows
<1>2. ~OnCall(work[r].s) /\ work[r].fresh /\ Ongoing(work[r].s) = {}
  BY <1>0, <1>1 DEF Shows, ShownAt
<1>3. ASSUME NEW s \in Streams, s # work[r].s PROVE ShownAt(s)'
  BY <1>1, <1>3, MadeOngoing DEF ShownAt, OnCall
<1>4. PICK s : s = work[r].s
  OBVIOUS
<1>5. /\ work'[r].pc = "accept" /\ work'[r].s = s /\ work'[r].fresh
      /\ deal'[work'[r].t].u = work'[r].u /\ ~OnCall(s)' /\ Ongoing(s)' = {work'[r].t}
  BY <1>2, <1>4, MadeOngoing DEF OnCall
<1>6. QED BY <1>3, <1>4, <1>5 DEF Shows

LEMMA RecordShown ==
  ASSUME KInv, NEW r \in Slots, Record(r), Shows(work[r])
  PROVE  Shows(work[r])'
<1>0. work[r].s \in Streams /\ work[r].pc = "record"
  BY DEF Record, At, KInv, Held
<1>1. \A s \in Streams : ShownAt(s)
  BY <1>0 DEF Shows
<1>2. Ongoing(work[r].s) = {work[r].t}
  BY <1>0 DEF Shows
<1>3. ASSUME NEW s \in Streams, s # work[r].s PROVE ShownAt(s)'
  <2>1. Ongoing(s)' = Ongoing(s)
    BY <1>2, <1>3, RecordedOngoing DEF Ongoing
  <2>2. QED BY <1>1, <2>1, RecordedOngoing DEF ShownAt, OnCall
<1>4. PICK s : s = work[r].s
  OBVIOUS
<1>5. work'[r].pc = "clear" /\ work'[r].s = s /\ Ongoing(s)' = {}
  BY <1>0, <1>2, <1>4, RecordedOngoing, BillTurns DEF Keeps
<1>6. QED BY <1>3, <1>4, <1>5 DEF Shows

LEMMA AcceptShown ==
  ASSUME KInv, NEW r \in Slots, AcceptSave(r), Shows(work[r])
  PROVE  Shows(work[r])'
<1>0. /\ work[r].s \in Streams /\ work[r].pc = "accept" /\ work[r].u \in Viewers /\ work[r].t \in Deals
      /\ stream \in [Streams -> Documents] /\ work \in [Slots -> Running \cup {Idle}]
  BY DEF AcceptSave, At, KInv, Held, TypeOK, Stored
<1>1. \A s \in Streams : s # work[r].s => ShownAt(s)
  BY <1>0 DEF Shows
<1>2. /\ ~OnCall(work[r].s) /\ work[r].fresh
      /\ Ongoing(work[r].s) = {work[r].t} /\ deal[work[r].t].u = work[r].u
  BY <1>0 DEF Shows
<1>3. PICK s, u, t : s = work[r].s /\ u = work[r].u /\ t = work[r].t
  OBVIOUS
<1>4. PICK l : stream' = [stream EXCEPT ![s].call = u, ![s].waitlist = l]
  BY <1>2, <1>3 DEF AcceptSave
<1>5. /\ \A z \in Streams : z # s => stream'[z] = stream[z]
      /\ stream'[s].call = u
  BY <1>0, <1>3, <1>4 DEF Documents
<1>6. deal' = deal /\ work'[r].pc = "idle"
  BY <1>0 DEF AcceptSave, Finish, Idle
<1>7. ASSUME NEW z \in Streams PROVE ShownAt(z)'
  <2>1. CASE z # s
    BY <1>1, <1>3, <1>5, <1>6, <2>1, SameShown
  <2>2. CASE z = s
    BY <1>0, <1>2, <1>3, <1>5, <1>6, <2>2, NobodyAssumption DEF ShownAt, OnCall, Ongoing
  <2>3. QED BY <2>1, <2>2
<1>8. QED BY <1>6, <1>7 DEF Shows

LEMMA ClearShown ==
  ASSUME KInv, NEW r \in Slots, Clear(r), Shows(work[r])
  PROVE  Shows(work[r])'
<1>0. work[r].s \in Streams /\ work[r].pc = "clear" /\ stream \in [Streams -> Documents]
  BY DEF Clear, At, KInv, Held, TypeOK, Stored
<1>1. (\A s \in Streams : s # work[r].s => ShownAt(s)) /\ Ongoing(work[r].s) = {}
  BY <1>0 DEF Shows
<1>2. PICK s : s = work[r].s
  OBVIOUS
<1>3. PICK v : stream' = [stream EXCEPT ![s].call = NoOne, ![s].revenue = v]
  BY <1>2 DEF Clear
<1>4. /\ \A z \in Streams : z # s => stream'[z] = stream[z]
      /\ stream'[s].call = NoOne
  BY <1>0, <1>2, <1>3 DEF Documents
<1>5. deal' = deal /\ work'[r].pc \in {"idle", "stop", "close"}
  BY ClearTurns DEF Clear
<1>6. ASSUME NEW z \in Streams PROVE ShownAt(z)'
  <2>1. CASE z # s
    BY <1>1, <1>2, <1>4, <1>5, <2>1, SameShown
  <2>2. CASE z = s
    BY <1>1, <1>2, <1>4, <1>5, <2>2 DEF ShownAt, OnCall, Ongoing
  <2>3. QED BY <2>1, <2>2
<1>7. QED BY <1>5, <1>6 DEF Shows

\* The steps that change neither a call nor a transaction.
LEMMA OthersShown ==
  ASSUME KInv, NEW r \in Slots, Step(r), ~Loses(r), Shows(work[r]),
         ~CreateDeal(r), ~Record(r), ~AcceptSave(r), ~Clear(r)
  PROVE  Shows(work[r])'
<1>0. \A s \in Streams : /\ ShownAt(s)' <=> ShownAt(s)
                         /\ OnCall(s)' <=> OnCall(s)
                         /\ Ongoing(s)' = Ongoing(s)
  BY CallWrites, DealWrites, SameShown
<1>1. work[r].pc \notin {"accept", "clear", "record", "deal"} \/ Requests(r) \/ Gifts(r)
  BY DEF Step, Moving, FlagLive, Stop, Release, EndRead, FindDeal, Saving, Create, Close, Queue, Refuse,
     CancelSave, Pay, Earn, AddRevenue, At
<1>2. Requests(r) \/ Gifts(r) => work[r].pc = "idle"
  BY RequestsAsk DEF KInv, Asked, Begin, At, Gifts, Gift
<1>3. \A s \in Streams : ShownAt(s)
  BY <1>1, <1>2 DEF Shows
<1>4. \A s \in Streams : ShownAt(s)'
  BY <1>0, <1>3
<1>5. work'[r].pc \in {"idle", "create", "stop", "queue", "reject", "expire", "cancel", "end",
                       "flag", "gift", "close", "release"} => Shows(work[r])'
  BY <1>4 DEF Shows
<1>6. CASE Requests(r)
  <2>1. /\ work'[r].pc \in {"idle", "create", "stop", "queue", "deal", "reject", "expire", "cancel", "end"}
        /\ work'[r].pc = "deal" => ~OnCall(work'[r].s) /\ work'[r].fresh
    BY <1>6, RequestHolds
  <2>2. work'[r].pc = "deal" => work'[r].s \in Streams
    <3>1. PICK h \in Starts : Begin(r, h)
      BY <1>6, RequestsAsk DEF KInv, Asked
    <3>2. work'[r] = h
      BY <3>1 DEF Begin, KInv, TypeOK
    <3>3. QED BY <3>2 DEF Starts
  <2>3. PICK z : z = work'[r].s
    OBVIOUS
  <2>4. CASE work'[r].pc = "deal"
    <3>1. ~OnCall(z)' /\ work'[r].fresh /\ work'[r].s = z
      BY <1>0, <2>1, <2>2, <2>3, <2>4
    <3>2. QED BY <1>4, <2>4, <3>1 DEF Shows
  <2>5. QED BY <1>5, <2>1, <2>4
<1>7. PICK s : s = work[r].s
  OBVIOUS
<1>8. CASE EndRead(r)
  <2>0. s \in Streams
    BY <1>7, <1>8 DEF EndRead, At, KInv, Held
  <2>1. \/ work'[r].pc = "find" /\ work'[r].s = s /\ OnCall(s)'
        \/ work'[r].pc \in {"idle", "stop", "close"}
    BY <1>0, <1>7, <1>8, <2>0, ReadTurns DEF Keeps
  <2>2. QED BY <1>4, <1>5, <2>1 DEF Shows
<1>9. CASE FindDeal(r)
  <2>0. s \in Streams /\ work[r].pc = "find"
    BY <1>7, <1>9 DEF FindDeal, At, KInv, Held
  <2>1. OnCall(s) /\ \E t : Ongoing(s) = {t}
    BY <1>3, <1>7, <2>0 DEF Shows, ShownAt
  <2>2. work'[r].pc = "pay" /\ work'[r].s = s /\ Ongoing(s) = {work'[r].t}
    BY <1>7, <1>9, <2>1, FindTurns DEF Keeps
  <2>3. OnCall(s)' /\ Ongoing(s)' = {work'[r].t}
    BY <1>0, <2>0, <2>1, <2>2
  <2>4. QED BY <1>4, <2>2, <2>3 DEF Shows
<1>10. CASE Pay(r) \/ Earn(r)
  <2>0. s \in Streams /\ work[r].pc \in {"pay", "earn"}
    BY <1>7, <1>10 DEF Pay, Earn, At, KInv, Held
  <2>1. OnCall(s) /\ Ongoing(s) = {work[r].t}
    BY <1>7, <2>0 DEF Shows
  <2>2. work'[r].pc \in {"earn", "record"} /\ work'[r].s = s /\ work'[r].t = work[r].t
    BY <1>7, <1>10, BillTurns DEF Keeps
  <2>3. OnCall(s)' /\ Ongoing(s)' = {work'[r].t}
    BY <1>0, <2>0, <2>1, <2>2
  <2>4. QED BY <1>4, <2>2, <2>3 DEF Shows
<1>11. CASE Stop(r)
  BY <1>5, <1>11, StopTurns DEF Shows
<1>12. CASE Release(r) \/ Close(r)
  <2>0. work[r] \in Running /\ work \in [Slots -> Running \cup {Idle}]
    BY <1>12, RunningSlot DEF Release, Close, At, KInv, TypeOK
  <2>1. CASE Release(r)
    BY <1>5, <2>0, <2>1, GoesOn DEF Release
  <2>2. CASE Close(r)
    <3>1. work'[r] = [work[r] EXCEPT !.pc = "release"] \/ work'[r].pc = "idle"
      BY <2>0, <2>2, GoesOn DEF Close, Raise
    <3>2. work'[r].pc \in {"release", "idle"}
      BY <2>0, <3>1 DEF Running
    <3>3. QED BY <1>5, <3>2
  <2>3. QED BY <1>12, <2>1, <2>2
<1>13. CASE Gifts(r) \/ Create(r) \/ FlagLive(r) \/ Queue(r) \/ Refuse(r) \/ CancelSave(r) \/ AddRevenue(r)
  <2>1. CASE Requests(r)
    BY <1>6, <2>1
  <2>2. CASE ~Requests(r)
    <3>1. ~TakesDown(work[r]) /\ ~At(r, "release")
      BY <1>13 DEF Gifts, Gift, Begin, Create, FlagLive, Queue, Refuse, CancelSave, AddRevenue, TakesDown, At
    <3>2. work'[r].pc \in {"idle", "flag", "accept", "gift"} /\ work'[r].pc # "accept"
      BY <2>2, <3>1, OtherStep, AcceptIsNew
    <3>3. QED BY <1>5, <3>2
  <2>3. QED BY <2>1, <2>2
<1>14. QED BY <1>6, <1>8, <1>9, <1>10, <1>11, <1>12, <1>13 DEF Step, Moving, Saving

LEMMA ShownNext == KInv /\ Shown /\ [Next]_vars => Shown'
<1> SUFFICES ASSUME KInv, Shown, [Next]_vars, Alone' PROVE Shown'
  BY DEF Shown
<1>1. /\ Alone /\ \A q, r \in Slots : q = r
      /\ UNCHANGED vars \/ \E r \in Slots : Step(r) /\ ~Loses(r)
  BY AloneBefore
<1>2. \A r \in Slots : Shows(work[r])
  BY <1>1 DEF Shown
<1>3. CASE UNCHANGED vars
  <2>1. stream' = stream /\ work' = work /\ deal' = deal
    BY <1>3 DEF vars
  <2>2. \A r \in Slots : Shows(work[r])'
    BY <1>2, <2>1 DEF Shows, ShownAt, OnCall, Ongoing
  <2>3. QED BY <2>2 DEF Shown
<1>4. ASSUME NEW r \in Slots, Step(r), ~Loses(r) PROVE Shown'
  <2>1. Shows(work[r])'
    BY <1>2, <1>4, CreateDealShown, RecordShown, AcceptShown, ClearShown, OthersShown
  <2>2. QED BY <1>1, <2>1 DEF Shown
<1>5. QED BY <1>1, <1>3, <1>4

LEMMA ShownInit == Init => Shown
<1> SUFFICES ASSUME Init PROVE Shown
  OBVIOUS
<1>1. \A r \in Slots : work[r].pc = "idle"
  BY DEF Init, NoHandler, Idle
<1>2. \A s \in Streams : ~OnCall(s) /\ Ongoing(s) = {}
  BY DEF Init, OnCall, NoStream, Ongoing, NoDeal
<1>3. QED BY <1>1, <1>2 DEF Shown, Shows, ShownAt

----------------
\* The types of all values: no bill, however requests overlap and the
\* server restarts, drives a viewer's wallet below zero.
THEOREM StreamTypeOK == Spec => []TypeOK
<1>1. KInv => TypeOK
  BY DEF KInv
<1>2. QED BY <1>1, KInit, KNext, PTL DEF Spec

\* The revenue endCurrentCall writes back from a copy and the increments of
\* gifts: whatever overlaps, it is no more than viewers paid for the stream.
THEOREM StreamRevenueCovered == Spec => []RevenueCovered
<1>1. KInv /\ Covered => RevenueCovered
  <2> SUFFICES ASSUME KInv, Covered, NEW s \in Streams PROVE stream[s].revenue <= received[s]
    BY DEF RevenueCovered
  <2>1. stream[s].revenue + Promised(s) <= received[s] /\ Promised(s) \in Nat
    BY PromisedType DEF Covered
  <2>2. stream[s].revenue \in Nat /\ received[s] \in Nat
    BY DEF KInv, TypeOK, Stored, Documents
  <2> HIDE DEF Promised
  <2>3. QED BY <2>1, <2>2
<1>2. QED BY <1>1, KInit, KNext, CoveredInit, CoveredNext, PTL DEF Spec

\* One request at a time, processSessionPayment takes a transaction's payment
\* once, and a second time only if a failure came between it and the save.
THEOREM StreamChargedOnce == Spec => []ChargedOnce
<1>1. KInv /\ Billed => ChargedOnce
  <2> SUFFICES ASSUME KInv, Billed, OneAtATime, NEW t \in Deals PROVE bills[t] <= 1 + failures
    BY DEF ChargedOnce
  <2>1. failures \in Nat /\ bills[t] \in Nat
    BY StreamAssumption DEF KInv, TypeOK, Stored
  <2>2. bills[t] <= failures + IF Closed(t) \/ PaidFor(t) THEN 1 ELSE 0
    BY DEF Billed
  <2>3. QED BY <2>1, <2>2
<1>2. QED BY <1>1, KInit, KNext, BilledInit, BilledNext, PTL DEF Spec

\* The status a call is saved with tells what its caller paid: at least the
\* total if it is completed, nothing if it failed while all went well.
THEOREM StreamSettledAsCharged == Spec => []SettledAsCharged
<1>1. KInv /\ Settled /\ Billed => SettledAsCharged
  <2> SUFFICES ASSUME KInv, Settled, Billed, NEW t \in Deals, deal[t].status = "failed", Alone
               PROVE  charged[t] = 0
    BY DEF SettledAsCharged, Settled
  <2>1. OneAtATime /\ failures = 0 /\ charged[t] \in Nat
    BY DEF Alone, KInv, TypeOK, Stored
  <2>2. \A r \in Slots : work[r].pc \in {"pay", "earn", "record"} => deal[work[r].t].status = "ongoing"
    BY <2>1 DEF Billed
  <2>3. ~PaidFor(t)
    BY <2>2 DEF PaidFor, Paying
  <2>4. ~(charged[t] > 0)
    BY <2>1, <2>3 DEF Billed
  <2>5. QED BY <2>1, <2>4
<1>2. QED BY <1>1, KInit, KNext, SettledInit, SettledNext, BilledInit, BilledNext, PTL DEF Spec

\* "Ensure single active stream per astrologer": whatever request follows
\* whatever failure or restart, two streams are never live at once.
THEOREM StreamOneLive == Spec => []OneLiveStream
<1>1. Lone => OneLiveStream
  BY DEF Lone, OneLiveStream
<1>2. QED BY <1>1, KInit, KNext, LoneInit, LoneNext, PTL DEF Spec

\* One request at a time, endStream leaves a stream on which nobody waits and
\* nobody is on a call, and nothing is accepted or queued on it afterwards.
THEOREM StreamEndedIsQuiet == Spec => []EndedIsQuiet
<1>1. Silent => EndedIsQuiet
  BY DEF Silent, EndedIsQuiet, Ended
<1>2. QED BY <1>1, KInit, KNext, SilentInit, SilentNext, PTL DEF Spec

\* One request at a time and no failure, between requests: the availability
\* goLive and endStream write names the live stream, and none when none is.
THEOREM StreamHostNamesLive == Spec => []HostNamesLive
<1>1. Init => Named
  BY NamedInit
<1>2. KInv /\ Lone /\ Named /\ [Next]_vars => Named'
  BY NamedNext
<1>3. KInv /\ Named => HostNamesLive
  <2> SUFFICES ASSUME KInv, Named, Alone, Quiet PROVE \A s \in Streams : Live(s) <=> host = s
    BY DEF HostNamesLive
  <2>1. PICK r : Slots = {r}
    <3>1. DOMAIN work = Slots
      BY DEF KInv, TypeOK
    <3>2. QED BY <3>1, FS_Singleton, StreamAssumption DEF Alone, OneAtATime
  <2>2. At(r, "idle")
    BY <2>1 DEF Quiet
  <2>3. QED BY <2>1, <2>2 DEF Named, NamesLive, At
<1>4. QED BY <1>1, <1>2, <1>3, KInit, KNext, LoneInit, LoneNext, PTL DEF Spec

\* One request at a time and no failure, between requests: a stream without a
\* call has no ongoing transaction, one with a call has one, its caller's.
THEOREM StreamOngoingIsShown == Spec => []OngoingIsShown
<1>1. KInv /\ Shown => OngoingIsShown
  <2> SUFFICES ASSUME KInv, Shown, Alone, Quiet, NEW s \in Streams
               PROVE  /\ {deal[t].u : t \in Ongoing(s)} = {stream[s].call} \ {NoOne}
                      /\ Cardinality(Ongoing(s)) <= 1
    BY DEF OngoingIsShown
  <2>1. PICK r : Slots = {r}
    <3>1. DOMAIN work = Slots
      BY DEF KInv, TypeOK
    <3>2. QED BY <3>1, FS_Singleton, StreamAssumption DEF Alone, OneAtATime
  <2>2. ShownAt(s)
    BY <2>1 DEF Shown, Shows, Quiet, At
  <2>3. CASE ~OnCall(s)
    <3>1. Ongoing(s) = {}
      BY <2>2, <2>3 DEF ShownAt
    <3>2. Cardinality(Ongoing(s)) = 0
      BY <3>1, FS_EmptySet
    <3>3. QED BY <2>3, <3>1, <3>2 DEF OnCall
  <2>4. CASE OnCall(s)
    <3>1. PICK t \in Deals : Ongoing(s) = {t} /\ deal[t].u = stream[s].call
      BY <2>2, <2>4 DEF ShownAt
    <3>2. Cardinality(Ongoing(s)) = 1
      BY <3>1, FS_Singleton
    <3>3. QED BY <2>4, <3>1, <3>2 DEF OnCall
  <2>5. QED BY <2>3, <2>4
<1>2. QED
  BY <1>1, KInit, KNext, ShownInit, ShownNext, PTL DEF Spec
================
