-------- MODULE Scheduler --------
(***************************************************************************)
(* Notifications that an administrator schedules and a job sends every     *)
(* minute (NotificationSchedulerService).  The job does not wait for the   *)
(* run before it: it looks for what is pending and due, sends it to one    *)
(* recipient after the other, and only then says that it was sent.         *)
(***************************************************************************)
EXTENDS Handlers, TLAPS

CONSTANTS Schedules, Recipients, MaxFailures, MaxRestarts

VARIABLES
  status,    \* status of a scheduled notification, "none" before there is one
  due,       \* those whose scheduledFor has come
  sent,      \* sent[s][u]: notifications that reached u (history)
  attempted, \* attempted[s]: recipients some run has been through (history)
  failures, restarts

nvars == <<status, due, sent, attempted, failures, restarts, work>>

----------------
Init ==
  /\ status = [s \in Schedules |-> "none"] /\ due = {} /\ failures = 0 /\ restarts = 0
  /\ sent = [s \in Schedules |-> [u \in Recipients |-> 0]]
  /\ attempted = [s \in Schedules |-> {}] /\ NoHandler

Failing == failures < MaxFailures /\ failures' = failures + 1

\* scheduledFor lies in the future.
ScheduleNotification(s) ==
  /\ status[s] = "none" /\ status' = [status EXCEPT ![s] = "pending"]
  /\ UNCHANGED <<due, sent, attempted, failures, restarts, work>>

TimeComes(s) ==
  /\ status[s] # "none" /\ s \notin due /\ due' = due \cup {s}
  /\ UNCHANGED <<status, sent, attempted, failures, restarts, work>>

\* The job.  "todo" is what it has found, "s" what it sends, "to" whom it
\* has still to send to.
\* Faults: what was sent is found again; what is due is not found.
DueAlready == {s \in due : status[s] \in {"pending", "sent"}}
PendingLater == {s \in Schedules \ due : status[s] = "pending"}
PendingDue == {s \in due : status[s] = "pending"}

ProcessScheduled(r) ==
  /\ PendingDue # {} /\ Begin(r, [pc |-> "next", todo |-> PendingDue])
  /\ UNCHANGED <<status, due, sent, attempted, failures, restarts>>

\* The recipients are looked up; a query that fails is the schedule's failure.
NextScheduled(r) ==
  /\ At(r, "next") /\ work[r].todo # {}
  /\ \E s \in work[r].todo :
       LET Turn(pc) ==
             work' = [work EXCEPT ![r] = [pc |-> pc, todo |-> @.todo \ {s}, s |-> s, to |-> Recipients]]
       IN (Turn("send") /\ UNCHANGED failures) \/ (Failing /\ Turn("fail"))
  /\ UNCHANGED <<status, due, sent, attempted, restarts>>

RunEnds(r) ==
  /\ At(r, "next") /\ work[r].todo = {} /\ Finish(r)
  /\ UNCHANGED <<status, due, sent, attempted, failures, restarts>>

Reaches(r, u) == sent' = [sent EXCEPT ![work[r].s][u] = @ + 1] /\ UNCHANGED failures
GoneThrough(r, u) == attempted' = [attempted EXCEPT ![work[r].s] = @ \cup {u}]

\* Fault: the first recipient who cannot be notified ends the broadcast.
SendOrThrow(r, u) ==
  /\ At(r, "send") /\ u \in work[r].to /\ GoneThrough(r, u)
  /\ \/ Reaches(r, u) /\ work' = [work EXCEPT ![r].to = @ \ {u}]
     \/ Failing /\ UNCHANGED sent /\ Goto(r, "fail")
  /\ UNCHANGED <<status, due, restarts>>
\* The broadcasts count a recipient who cannot be notified and go on.
SendTo(r, u) ==
  /\ At(r, "send") /\ u \in work[r].to /\ GoneThrough(r, u)
  /\ Reaches(r, u) \/ (Failing /\ UNCHANGED sent)
  /\ work' = [work EXCEPT ![r].to = @ \ {u}]
  /\ UNCHANGED <<status, due, restarts>>

SaveStatus(r, new) ==
  /\ status' = [status EXCEPT ![work[r].s] = new]
  /\ work' = [work EXCEPT ![r] = [pc |-> "next", todo |-> work[r].todo]] /\ UNCHANGED failures

\* Fault: the schedule is marked when its sending starts.
MarkEarly(r) ==
  /\ At(r, "send") /\ SaveStatus(r, "sent")
  /\ UNCHANGED <<due, sent, attempted, restarts>>
\* A save that fails is taken for a failure to send ...
MarkSent(r) ==
  /\ At(r, "send") /\ work[r].to = {}
  /\ SaveStatus(r, "sent") \/ (Failing /\ Goto(r, "fail") /\ UNCHANGED status)
  /\ UNCHANGED <<due, sent, attempted, restarts>>
\* ... and when that cannot be saved either the run ends.
MarkFailed(r) ==
  /\ At(r, "fail")
  /\ SaveStatus(r, "failed") \/ (Failing /\ Finish(r) /\ UNCHANGED status)
  /\ UNCHANGED <<due, sent, attempted, restarts>>

\* Fault: the status is not asked for.
CancelAny(r, s) ==
  /\ status[s] # "none" /\ Begin(r, [pc |-> "cancel", s |-> s])
  /\ UNCHANGED <<status, due, sent, attempted, failures, restarts>>
\* cancelScheduledNotification reads a pending one and saves it.
CancelScheduled(r, s) ==
  /\ status[s] = "pending" /\ Begin(r, [pc |-> "cancel", s |-> s])
  /\ UNCHANGED <<status, due, sent, attempted, failures, restarts>>
SaveCancelled(r) ==
  /\ At(r, "cancel") /\ status' = [status EXCEPT ![work[r].s] = "cancelled"] /\ Finish(r)
  /\ UNCHANGED <<due, sent, attempted, failures, restarts>>

Restart ==
  /\ restarts < MaxRestarts /\ ~Quiet /\ restarts' = restarts + 1
  /\ work' = [r \in Slots |-> Idle]
  /\ UNCHANGED <<status, due, sent, attempted, failures>>

JobSteps(r) ==
  \/ NextScheduled(r) \/ RunEnds(r) \/ MarkSent(r) \/ MarkFailed(r)
  \/ \E u \in Recipients : SendTo(r, u)

AdminRequests(r, s) == ScheduleNotification(s) \/ CancelScheduled(r, s)

Next ==
  \/ \E s \in Schedules : TimeComes(s) \/ \E r \in Slots : AdminRequests(r, s)
  \/ \E r \in Slots : ProcessScheduled(r) \/ JobSteps(r) \/ SaveCancelled(r)
  \/ Restart

\* The job comes round every minute and a handler that runs goes on.
Fairness ==
  /\ \A r \in Slots : WF_nvars(JobSteps(r) \/ SaveCancelled(r)) /\ SF_nvars(ProcessScheduled(r))

Spec == Init /\ [][Next]_nvars /\ Fairness

----------------
TypeOK ==
  /\ status \in [Schedules -> {"none", "pending", "sent", "failed", "cancelled"}]
  /\ due \subseteq Schedules /\ sent \in [Schedules -> [Recipients -> Nat]]
  /\ attempted \in [Schedules -> SUBSET Recipients]
  /\ failures \in 0..MaxFailures /\ restarts \in 0..MaxRestarts

\* A run at a time: a recipient is notified once, and once more for a restart
\* or a failed save at most (the next run finds what was sent still pending).
SentOnce ==
  OneAtATime => \A s \in Schedules, u \in Recipients : sent[s][u] <= 1 + restarts + failures

\* "sent" means that a run has been through every recipient, even if runs
\* overlap or stop half-way.
SentIsAll == \A s \in Schedules : status[s] = "sent" => attempted[s] = Recipients

\* A run at a time, none cut short: what was cancelled reached no one.
CancelledReachedNoOne ==
  OneAtATime /\ restarts = 0 /\ failures = 0 =>
    \A s \in Schedules, u \in Recipients : status[s] = "cancelled" => sent[s][u] = 0

\* One failure, a run at a time: a schedule marked failed reached no one, or
\* everyone when it was the mark itself that could not be saved.
FailedIsAllOrNone ==
  OneAtATime /\ restarts = 0 /\ failures <= 1 =>
    \A s \in Schedules : status[s] = "failed" =>
      (\A u \in Recipients : sent[s][u] = 0) \/ (\A u \in Recipients : sent[s][u] > 0)

\* What is scheduled is sent, failed or cancelled once its time has come.
Waits(s) == status[s] = "pending" /\ s \in due
DueIsProcessed == \A s \in Schedules : Waits(s) ~> ~Waits(s)

----------------
\* For any schedules, recipients, overlapping runs, failures and restarts:
\* "sent" means that everybody was gone through.

Statuses == {"none", "pending", "sent", "failed", "cancelled"}

\* What a slot may hold.
Looking == [pc : {"next"}, todo : SUBSET Schedules]
Sending == [pc : {"send", "fail"}, todo : SUBSET Schedules, s : Schedules, to : SUBSET Recipients]
Cancelling == [pc : {"cancel"}, s : Schedules]
Works == {Idle} \cup Looking \cup Sending \cup Cancelling

Shape ==
  /\ status \in [Schedules -> Statuses]
  /\ due \subseteq Schedules
  /\ attempted \in [Schedules -> SUBSET Recipients]
  /\ work \in [Slots -> Works]

\* A run that is sending has been through everybody whom it is not to send to
\* any more.
RestIsToDo ==
  \A r \in Slots : At(r, "send") => Recipients \ work[r].to \subseteq attempted[work[r].s]

SInv == Shape /\ RestIsToDo /\ SentIsAll

----------------
(* What each kind of slot is known to hold.                                *)

LEMMA LookingSlot ==
  ASSUME Shape, NEW r \in Slots, At(r, "next")
  PROVE  work[r] \in Looking
  BY DEF Shape, At, Works, Idle, Sending, Cancelling

LEMMA SendingSlot ==
  ASSUME Shape, NEW r \in Slots, At(r, "send") \/ At(r, "fail")
  PROVE  work[r] \in Sending
  BY DEF Shape, At, Works, Idle, Looking, Cancelling

LEMMA CancellingSlot ==
  ASSUME Shape, NEW r \in Slots, At(r, "cancel")
  PROVE  work[r] \in Cancelling
  BY DEF Shape, At, Works, Idle, Looking, Sending

\* A slot that takes a new record, none of which is sending, leaves what the
\* others have to do as it was.
LEMMA OtherSlots ==
  ASSUME Shape, RestIsToDo, NEW r \in Slots, NEW h \in Works,
         work' = [work EXCEPT ![r] = h],
         h.pc = "send" => Recipients \ h.to \subseteq attempted[h.s],
         UNCHANGED attempted
  PROVE  RestIsToDo' /\ work' \in [Slots -> Works]
  BY DEF Shape, RestIsToDo, At

\* Marking a schedule with anything but "sent" keeps SentIsAll.
LEMMA OtherStatus ==
  ASSUME Shape, SentIsAll, NEW s \in Schedules, NEW new \in Statuses,
         status' = [status EXCEPT ![s] = new], UNCHANGED attempted,
         new = "sent" => attempted[s] = Recipients
  PROVE  SentIsAll' /\ status' \in [Schedules -> Statuses]
  BY DEF Shape, SentIsAll

----------------
(* The administrator's requests and the clock.                             *)

LEMMA AdminKeeps ==
  ASSUME SInv, NEW r \in Slots, NEW s \in Schedules, AdminRequests(r, s) \/ TimeComes(s)
  PROVE  SInv'
<1>1. CASE TimeComes(s)
  BY <1>1 DEF TimeComes, SInv, Shape, RestIsToDo, SentIsAll, At
<1>2. CASE ScheduleNotification(s)
  <2>1. SentIsAll' /\ status' \in [Schedules -> Statuses]
    BY <1>2, OtherStatus DEF ScheduleNotification, SInv, Statuses
  <2> QED BY <1>2, <2>1 DEF ScheduleNotification, SInv, Shape, RestIsToDo, At
<1>3. CASE CancelScheduled(r, s)
  <2> DEFINE h == [pc |-> "cancel", s |-> s]
  <2>1. h \in Works /\ h.pc # "send"
    BY DEF Works, Cancelling
  <2>2. RestIsToDo' /\ work' \in [Slots -> Works]
    BY <1>3, <2>1, OtherSlots DEF CancelScheduled, Begin, SInv
  <2> QED BY <1>3, <2>2 DEF CancelScheduled, SInv, Shape, SentIsAll
<1> QED BY <1>1, <1>2, <1>3 DEF AdminRequests

LEMMA CancelKeeps ==
  ASSUME SInv, NEW r \in Slots, SaveCancelled(r)
  PROVE  SInv'
<1>1. work[r] \in Cancelling
  BY CancellingSlot DEF SInv, SaveCancelled
<1>2. SentIsAll' /\ status' \in [Schedules -> Statuses]
  BY <1>1, OtherStatus DEF SaveCancelled, SInv, Statuses, Cancelling
<1>3. RestIsToDo' /\ work' \in [Slots -> Works]
  BY OtherSlots DEF SaveCancelled, Finish, Idle, Works, SInv
<1> QED BY <1>2, <1>3 DEF SaveCancelled, SInv, Shape

----------------
(* The steps of a run.                                                     *)

LEMMA StartKeeps ==
  ASSUME SInv, NEW r \in Slots, ProcessScheduled(r)
  PROVE  SInv'
<1> DEFINE h == [pc |-> "next", todo |-> PendingDue]
<1>1. h \in Works /\ h.pc # "send"
  BY DEF Works, Looking, PendingDue, SInv, Shape
<1>2. RestIsToDo' /\ work' \in [Slots -> Works]
  BY <1>1, OtherSlots DEF ProcessScheduled, Begin, SInv
<1> QED BY <1>2 DEF ProcessScheduled, SInv, Shape, SentIsAll

LEMMA NextKeeps ==
  ASSUME SInv, NEW r \in Slots, NextScheduled(r) \/ RunEnds(r)
  PROVE  SInv'
<1>1. CASE RunEnds(r)
  <2>1. RestIsToDo' /\ work' \in [Slots -> Works]
    BY <1>1, OtherSlots DEF RunEnds, Finish, Idle, Works, SInv
  <2> QED BY <1>1, <2>1 DEF RunEnds, SInv, Shape, SentIsAll
<1>2. CASE NextScheduled(r)
  <2>1. work[r] \in Looking
    BY <1>2, LookingSlot DEF SInv, NextScheduled
  <2>2. PICK s \in work[r].todo, pc \in {"send", "fail"} :
          work' = [work EXCEPT ![r] = [pc |-> pc, todo |-> work[r].todo \ {s}, s |-> s, to |-> Recipients]]
    BY <1>2 DEF NextScheduled, SInv, Shape
  <2> DEFINE h == [pc |-> pc, todo |-> work[r].todo \ {s}, s |-> s, to |-> Recipients]
  <2>3. h \in Works /\ Recipients \ h.to = {}
    BY <2>1 DEF Works, Sending, Looking
  <2>4. RestIsToDo' /\ work' \in [Slots -> Works]
    <3>1. h \in Works /\ UNCHANGED attempted /\ work' = [work EXCEPT ![r] = h]
      BY <1>2, <2>2, <2>3 DEF NextScheduled
    <3>2. h.pc = "send" => Recipients \ h.to \subseteq attempted[h.s]
      BY <2>3
    <3> HIDE DEF h
    <3> QED BY <3>1, <3>2, OtherSlots DEF SInv
  <2> QED BY <1>2, <2>4 DEF NextScheduled, SInv, Shape, SentIsAll
<1> QED BY <1>1, <1>2

LEMMA SendKeeps ==
  ASSUME SInv, NEW r \in Slots, NEW u \in Recipients, SendTo(r, u)
  PROVE  SInv'
<1>1. work[r] \in Sending /\ At(r, "send")
  BY SendingSlot DEF SInv, SendTo
<1> DEFINE h == [work[r] EXCEPT !.to = @ \ {u}]
<1>2. /\ h \in Sending /\ h.pc = "send" /\ h.s = work[r].s /\ h.to = work[r].to \ {u}
      /\ work' = [work EXCEPT ![r] = h] /\ UNCHANGED <<status, due>>
      /\ attempted' = [attempted EXCEPT ![work[r].s] = @ \cup {u}]
  BY <1>1 DEF Sending, SendTo, GoneThrough, At
<1>3. work[r].s \in Schedules /\ work[r].to \subseteq Recipients
  BY <1>1 DEF Sending
<1>4. attempted' \in [Schedules -> SUBSET Recipients]
  BY <1>2, <1>3 DEF SInv, Shape
<1>5. \A s \in Schedules : attempted[s] \subseteq attempted'[s]
  BY <1>2, <1>3 DEF SInv, Shape
<1>6. u \in attempted'[work[r].s]
  BY <1>2, <1>3 DEF SInv, Shape
<1>7. Shape'
  <2>1. h \in Works
    BY <1>2 DEF Works
  <2> HIDE DEF h
  <2> QED BY <1>2, <1>4, <2>1 DEF SInv, Shape
<1>8. RestIsToDo'
  <2> SUFFICES ASSUME NEW q \in Slots, At(q, "send")'
               PROVE  Recipients \ work'[q].to \subseteq attempted'[work'[q].s]
    BY DEF RestIsToDo
  <2>1. CASE q = r
    <3>1. work'[q] = h
      BY <1>2, <2>1 DEF SInv, Shape
    <3>2. Recipients \ work[r].to \subseteq attempted[work[r].s]
      BY <1>1 DEF SInv, RestIsToDo
    <3> QED BY <1>2, <1>3, <1>5, <1>6, <3>1, <3>2
  <2>2. CASE q # r
    <3>1. work'[q] = work[q]
      BY <1>2, <2>2 DEF SInv, Shape
    <3>2. At(q, "send")
      BY <3>1 DEF At
    <3>3. work[q].s \in Schedules
      BY <3>2, SendingSlot DEF SInv, Sending
    <3> QED BY <1>5, <3>1, <3>2, <3>3 DEF SInv, RestIsToDo
  <2> QED BY <2>1, <2>2
<1>9. SentIsAll'
  BY <1>2, <1>4, <1>5 DEF SInv, SentIsAll
<1> QED BY <1>7, <1>8, <1>9 DEF SInv

LEMMA MarkKeeps ==
  ASSUME SInv, NEW r \in Slots, MarkSent(r) \/ MarkFailed(r)
  PROVE  SInv'
<1>1. work[r] \in Sending
  BY SendingSlot DEF SInv, MarkSent, MarkFailed
<1>2. UNCHANGED <<due, attempted>>
  BY DEF MarkSent, MarkFailed
<1> DEFINE next == [pc |-> "next", todo |-> work[r].todo]
           failed == [work[r] EXCEPT !.pc = "fail"]
<1>3. next \in Works /\ next.pc # "send"
  BY <1>1 DEF Works, Looking, Sending
<1>4. failed \in Works /\ failed.pc # "send"
  BY <1>1 DEF Works, Sending
<1>5. Idle \in Works /\ Idle.pc # "send"
  BY DEF Works, Idle
<1>6. PICK h \in {next, failed, Idle} : work' = [work EXCEPT ![r] = h]
  BY DEF MarkSent, MarkFailed, SaveStatus, Goto, Finish
<1>7. RestIsToDo' /\ work' \in [Slots -> Works]
  <2>1. h \in Works /\ h.pc # "send"
    BY <1>3, <1>4, <1>5, <1>6
  <2> QED BY <1>2, <1>6, <2>1, OtherSlots DEF SInv
<1>8. MarkSent(r) => attempted[work[r].s] = Recipients
  BY <1>1 DEF MarkSent, SInv, RestIsToDo, Shape, Sending
<1>9. SentIsAll' /\ status' \in [Schedules -> Statuses]
  <2>1. CASE UNCHANGED status
    BY <1>2, <2>1 DEF SInv, SentIsAll, Shape
  <2>2. CASE MarkSent(r) /\ status' = [status EXCEPT ![work[r].s] = "sent"]
    BY <1>1, <1>2, <1>8, <2>2, OtherStatus DEF SInv, Statuses, Sending
  <2>3. CASE MarkFailed(r) /\ status' = [status EXCEPT ![work[r].s] = "failed"]
    BY <1>1, <1>2, <2>3, OtherStatus DEF SInv, Statuses, Sending
  <2> QED BY <2>1, <2>2, <2>3 DEF MarkSent, MarkFailed, SaveStatus
<1> QED BY <1>2, <1>7, <1>9 DEF SInv, Shape

LEMMA RestartKeeps ==
  ASSUME SInv, Restart
  PROVE  SInv'
  BY DEF Restart, SInv, Shape, RestIsToDo, SentIsAll, At, Idle, Works

----------------
\* "sent" means that a run has been through every recipient, for any number
\* of runs that overlap, failures and restarts.
THEOREM SentReachesAll == Spec => []SentIsAll
<1>1. Init => SInv
  BY DEF Init, SInv, Shape, RestIsToDo, SentIsAll, NoHandler, At, Idle, Works, Statuses
<1>2. SInv /\ [Next]_nvars => SInv'
  <2> SUFFICES ASSUME SInv, [Next]_nvars PROVE SInv'
    OBVIOUS
  <2>1. CASE UNCHANGED nvars
    BY <2>1 DEF nvars, SInv, Shape, RestIsToDo, SentIsAll, At
  <2>2. CASE \E s \in Schedules : TimeComes(s) \/ \E r \in Slots : AdminRequests(r, s)
    <3>1. CASE \E s \in Schedules : TimeComes(s)
      BY <3>1 DEF TimeComes, SInv, Shape, RestIsToDo, SentIsAll, At
    <3>2. CASE \E s \in Schedules, r \in Slots : AdminRequests(r, s)
      BY <3>2, AdminKeeps
    <3> QED BY <2>2, <3>1, <3>2
  <2>3. CASE \E r \in Slots : ProcessScheduled(r) \/ JobSteps(r) \/ SaveCancelled(r)
    BY <2>3, StartKeeps, NextKeeps, SendKeeps, MarkKeeps, CancelKeeps DEF JobSteps
  <2>4. CASE Restart
    BY <2>4, RestartKeeps
  <2> QED BY <2>1, <2>2, <2>3, <2>4 DEF Next
<1>3. SInv => SentIsAll
  BY DEF SInv
<1> QED
  BY <1>1, <1>2, <1>3, PTL DEF Spec
================
