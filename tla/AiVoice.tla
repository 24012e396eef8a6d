-------- MODULE AiVoice --------
(***************************************************************************)
(* Voice calls with an AI astrologer: AiVoiceService, GeminiVoiceService   *)
(* and the handlers of CallsGateway for them.  The voice comes either from *)
(* Gemini, over a socket that the server holds, or from Vapi, which the    *)
(* phone calls itself and which reports the end of the call by a webhook.  *)
(* Time passes in steps of half a minute, longer than the 5 and 15 seconds *)
(* of grace in the code.  Recharges during a call are left out.            *)
(***************************************************************************)
EXTENDS Handlers, FiniteSetsExt

CONSTANTS
  Users, None, Calls, Providers,
  Rate, Opening, FreeFirst, FreeTime,  \* the free time, in half minutes
  Steps, MaxTime,                      \* how far the clock goes at once, and at all
  MaxSpends, MaxReports

VARIABLES
  call,     \* call[s]: the document, NoCall before it is saved
  age,      \* age[s]: time since startTime
  ticker,   \* ticker[s]: secondsElapsed of its timer, Stopped if there is none
  voice,    \* voice[s]: Gemini's socket, "none", "opening", "ready" or "closing"
  said,     \* said[s]: the open socket has heard an answer
  line,     \* line[s]: Vapi's call, "none", "open" or "over"
  talk,     \* talk[s]: how long that call was
  ending,   \* processingEndCall
  cash, used,
  taken,    \* taken[s]: payments taken for it (history)
  signal,   \* signal[s]: the duration that vapi_end left, 0 if it was started again or
            \* the cleanup or REST ended it (history)
  stopped,  \* calls that gemini_stop ended after an answer was heard (history)
  now, spends, reports

vvars == <<call, age, ticker, voice, said, line, talk, ending, cash, used, taken, signal, stopped,
          now, spends, reports, work>>

----------------
Stopped == -1
NoCall == [user |-> None, status |-> "none", rate |-> 0, max |-> 0, provider |-> "none",
           id |-> FALSE, duration |-> 0, bill |-> 0, paid |-> FALSE, text |-> FALSE,
           recorded |-> FALSE, alone |-> TRUE]
Active(s) == call[s].status = "active"
Closing(s) == \E r \in Slots : (At(r, "lock") \/ At(r, "bill") \/ At(r, "save")) /\ work[r].s = s
Unsettled(s) == Active(s) \/ Closing(s)
Minutes(d) == (d + 1) \div 2
\* The longest call the balance pays for, in half minutes.
LongestRoundedUp(balance) == 2 * ((balance + Rate - 1) \div Rate)
Longest(balance) == 2 * (balance \div Rate)

Init ==
  /\ call = [s \in Calls |-> NoCall] /\ age = [s \in Calls |-> 0]
  /\ ticker = [s \in Calls |-> Stopped] /\ voice = [s \in Calls |-> "none"]
  /\ said = [s \in Calls |-> FALSE] /\ line = [s \in Calls |-> "none"]
  /\ talk = [s \in Calls |-> 0] /\ ending = {} /\ cash = [u \in Users |-> Opening] /\ used = {}
  /\ taken = [s \in Calls |-> 0] /\ signal = [s \in Calls |-> 0] /\ stopped = {}
  /\ now = 0 /\ spends = 0 /\ reports = 0 /\ NoHandler

Media == <<ticker, voice, said, line, talk>>
Money == <<cash, used, taken, spends>>
Clock == <<age, now>>

Turn(r, h) == work' = [work EXCEPT ![r] = h]

\* Time passes; the timers are punctual.
Tick(n) ==
  /\ now + n <= MaxTime /\ now' = now + n
  /\ \A s \in Calls : ticker[s] # Stopped => ticker[s] + n <= call[s].max
  /\ age' = [s \in Calls |-> IF call[s] = NoCall THEN 0 ELSE age[s] + n]
  /\ ticker' = [s \in Calls |-> IF ticker[s] = Stopped THEN Stopped ELSE ticker[s] + n]
  /\ talk' = [s \in Calls |-> IF line[s] = "open" THEN talk[s] + n ELSE talk[s]]
  /\ UNCHANGED <<call, voice, said, line, ending, Money, signal, stopped, reports, work>>

\* The user pays for something else.
Spend(u) ==
  /\ spends < MaxSpends /\ spends' = spends + 1 /\ cash[u] >= Rate
  /\ cash' = [cash EXCEPT ![u] = @ - Rate]
  /\ call' = [s \in Calls |-> IF call[s].user = u /\ Unsettled(s)
                              THEN [call[s] EXCEPT !.alone = FALSE] ELSE call[s]]
  /\ UNCHANGED <<Clock, Media, ending, used, taken, signal, stopped, reports>>
  /\ work' = [r \in Slots |-> IF At(r, "create") /\ work[r].u = u
                              THEN [work[r] EXCEPT !.alone = FALSE] ELSE work[r]]

(* The start. *)

\* initiateAiVoiceCall reads the user ...
InitiateAiVoiceCall(r, u) ==
  /\ Begin(r, [pc |-> "create", u |-> u, balance |-> cash[u], free |-> FreeFirst /\ u \notin used,
               alone |-> ~\E s \in Calls : call[s].user = u /\ Unsettled(s)])
  /\ UNCHANGED <<call, Clock, Media, ending, Money, signal, stopped, reports>>

\* ... asks the wallet for five minutes, and saves a call that is active already.
Create(r) ==
  /\ At(r, "create")
  /\ LET w == work[r] IN
       IF ~w.free /\ cash[w.u] < 5 * Rate THEN Finish(r) /\ UNCHANGED call
       ELSE \E s \in Calls :
              /\ call[s] = NoCall
              /\ LET others == {t \in Calls : call[t].user = w.u /\ Unsettled(t)} IN
                 call' = [t \in Calls |->
                   IF t = s THEN
                     [NoCall EXCEPT !.user = w.u, !.status = "active",
                                    !.rate = IF w.free THEN 0 ELSE Rate,
                                    !.max = IF w.free THEN FreeTime ELSE Longest(w.balance),
                                    !.alone = w.alone /\ others = {}]
                   ELSE IF t \in others THEN [call[t] EXCEPT !.alone = FALSE] ELSE call[t]]
              /\ work' = [q \in Slots |-> IF q = r THEN [pc |-> "configure", s |-> s]
                                         ELSE IF At(q, "create") /\ work[q].u = w.u
                                         THEN [work[q] EXCEPT !.alone = FALSE] ELSE work[q]]
  /\ UNCHANGED <<Clock, Media, ending, Money, signal, stopped, reports>>

\* Its provider is saved when the greeting and the prompt are there, or never.
Configure(r) ==
  /\ At(r, "configure") /\ Finish(r)
  /\ \E p \in Providers \cup {"none"} : call' = [call EXCEPT ![work[r].s].provider = p]
  /\ UNCHANGED <<Clock, Media, ending, Money, signal, stopped, reports>>

\* user_joined_agora resumes the timer of an active call.
UserJoinedAgora(s) ==
  /\ Active(s) /\ ticker[s] = Stopped /\ ticker' = [ticker EXCEPT ![s] = 0]
  /\ signal' = [signal EXCEPT ![s] = 0]
  /\ UNCHANGED <<call, Clock, voice, said, line, talk, ending, Money, stopped, reports, work>>

(* The end. *)
Ending == [pc |-> "lock", s |-> None, gateway |-> FALSE, text |-> FALSE, recorded |-> FALSE,
           wall |-> FALSE, length |-> 0, bill |-> 0, paid |-> FALSE]

\* endCallInternal: one at a time for a call; no timer counts as no time.
EndCallInternal(r, s, text) ==
  IF s \in ending THEN UNCHANGED <<ending, ticker, work>>
  ELSE /\ ending' = ending \cup {s} /\ ticker' = [ticker EXCEPT ![s] = Stopped]
       /\ Begin(r, [Ending EXCEPT !.s = s, !.gateway = TRUE, !.text = text,
                                  !.length = Max({ticker[s], 0})])

\* Fault: the status is not part of the query.
LockAny(r) ==
  /\ At(r, "lock") /\ Goto(r, "bill")
  /\ call' = [call EXCEPT ![work[r].s].status = "ended"] /\ UNCHANGED <<ending, signal>>
  /\ line' = [line EXCEPT ![work[r].s] = IF @ = "open" /\ call[work[r].s].id THEN "over" ELSE @]
  /\ UNCHANGED <<Clock, ticker, voice, said, talk, Money, stopped, reports>>
\* endSession ends the document by one update that asks for its status, and
\* asks Vapi to hang up if it knows its call.
Lock(r) ==
  /\ At(r, "lock")
  /\ LET s == work[r].s IN
       IF Active(s) THEN
         /\ call' = [call EXCEPT ![s].status = "ended"] /\ UNCHANGED ending
         /\ line' = [line EXCEPT ![s] = IF @ = "open" /\ call[s].id THEN "over" ELSE @]
         /\ signal' = [signal EXCEPT ![s] = IF work[r].wall THEN 0 ELSE @]
         /\ Goto(r, "bill")
       ELSE
         /\ Finish(r) /\ UNCHANGED <<line, signal>>
         /\ call' = [call EXCEPT ![s].recorded = @ \/ work[r].recorded,
                                 ![s].text = @ \/ (work[r].recorded /\ work[r].text)]
         /\ ending' = IF work[r].gateway THEN ending \ {s} ELSE ending
  /\ UNCHANGED <<Clock, ticker, voice, said, talk, Money, stopped, reports>>

\* Never beyond the longest call, and a second at least.
Billed(s, length) == Max({Min({length, call[s].max}), 1})
\* Who brings no length has the time since startTime billed.
LengthOf(r) == IF work[r].wall THEN age[work[r].s] ELSE work[r].length

\* The payment; it may fail, then the call stays unpaid.
Bill(r) ==
  /\ At(r, "bill")
  /\ LET s == work[r].s
         u == call[s].user
         d == Billed(s, LengthOf(r))
         bill == Minutes(d) * call[s].rate
         pays == bill > 0 /\ cash[u] >= bill IN
       /\ cash' = [cash EXCEPT ![u] = IF pays THEN @ - bill ELSE @]
       /\ taken' = [taken EXCEPT ![s] = IF pays THEN @ + 1 ELSE @]
       /\ used' = IF call[s].rate = 0 THEN used \cup {u} ELSE used
       /\ Turn(r, [work[r] EXCEPT !.pc = "save", !.length = d, !.bill = bill,
                                  !.paid = pays \/ call[s].rate = 0])
  /\ UNCHANGED <<call, Clock, Media, ending, signal, stopped, spends, reports>>

SaveEnd(r) ==
  /\ At(r, "save") /\ Finish(r)
  /\ LET w == work[r] IN
       /\ call' = [call EXCEPT ![w.s].duration = w.length, ![w.s].bill = w.bill, ![w.s].paid = w.paid,
                               ![w.s].text = @ \/ w.text, ![w.s].recorded = @ \/ w.recorded]
       /\ ending' = IF w.gateway THEN ending \ {w.s} ELSE ending
  /\ UNCHANGED <<Clock, Media, Money, signal, stopped, reports>>

\* end_call, whose application may send what was said.
EndCall(r, s) ==
  /\ call[s] # NoCall /\ \E text \in BOOLEAN : EndCallInternal(r, s, text)
  /\ UNCHANGED <<call, Clock, voice, said, line, talk, Money, signal, stopped, reports>>

\* The timer has run for maxDurationSeconds.
TimeUp(r, s) ==
  /\ ticker[s] # Stopped /\ ticker[s] >= call[s].max /\ EndCallInternal(r, s, FALSE)
  /\ UNCHANGED <<call, Clock, voice, said, line, talk, Money, signal, stopped, reports>>

\* handleStaleSessions: the call should have been over for a while.
HandleStaleSessions(r, s) ==
  /\ Active(s) /\ call[s].max > 0 /\ age[s] > call[s].max /\ EndCallInternal(r, s, FALSE)
  /\ UNCHANGED <<call, Clock, voice, said, line, talk, Money, signal, stopped, reports>>

\* SessionCleanupService, every minute: nothing sets userStatus.isOnline of an AI
\* call, so its user is offline, for 90 seconds at the earliest after startTime.
CleanupCalls(r, s) ==
  /\ Active(s) /\ (age[s] > 3 \/ (call[s].max > 0 /\ age[s] > call[s].max + 2))
  /\ Begin(r, [Ending EXCEPT !.s = s, !.wall = TRUE])
  /\ UNCHANGED <<call, Clock, Media, ending, Money, signal, stopped, reports>>

\* POST calls/sessions/end.
EndCallSession(r, s) ==
  /\ call[s] # NoCall /\ Begin(r, [Ending EXCEPT !.s = s, !.wall = TRUE])
  /\ UNCHANGED <<call, Clock, Media, ending, Money, signal, stopped, reports>>

(* Gemini. *)

\* gemini_start: a socket unless there is one.  The status is not asked for.
GeminiStart(s) ==
  /\ call[s].provider = "gemini" /\ voice[s] = "none"
  /\ voice' = [voice EXCEPT ![s] = "opening"] /\ said' = [said EXCEPT ![s] = FALSE]
  /\ UNCHANGED <<call, Clock, ticker, line, talk, ending, Money, signal, stopped, reports, work>>

\* Setup is complete: the timer starts unless it runs.
Ready(s) ==
  /\ voice[s] = "opening" /\ voice' = [voice EXCEPT ![s] = "ready"]
  /\ ticker' = [ticker EXCEPT ![s] = IF @ = Stopped THEN 0 ELSE @]
  /\ UNCHANGED <<call, Clock, said, line, talk, ending, Money, signal, stopped, reports, work>>

\* An answer is added to the transcript.
Speak(s) ==
  /\ voice[s] = "ready" /\ ~said[s] /\ said' = [said EXCEPT ![s] = TRUE]
  /\ UNCHANGED <<call, Clock, ticker, voice, line, talk, ending, Money, signal, stopped, reports, work>>

\* Fault: the socket is closed before the transcript is read.
StopThenRead(r, s) ==
  /\ call[s].provider = "gemini"
  /\ voice' = [voice EXCEPT ![s] = IF @ \in {"opening", "ready"} THEN "closing" ELSE @]
  /\ EndCallInternal(r, s, FALSE)
  /\ stopped' = IF Active(s) /\ s \notin ending /\ said[s] THEN stopped \cup {s} ELSE stopped
  /\ said' = [said EXCEPT ![s] = FALSE]
  /\ UNCHANGED <<call, Clock, line, talk, Money, signal, reports>>
\* gemini_stop reads the transcript, closes the socket, and ends the call.
GeminiStop(r, s) ==
  /\ call[s].provider = "gemini"
  /\ voice' = [voice EXCEPT ![s] = IF @ \in {"opening", "ready"} THEN "closing" ELSE @]
  /\ EndCallInternal(r, s, said[s])
  /\ stopped' = IF Active(s) /\ s \notin ending /\ said[s] THEN stopped \cup {s} ELSE stopped
  /\ said' = [said EXCEPT ![s] = FALSE]
  /\ UNCHANGED <<call, Clock, line, talk, Money, signal, reports>>

\* The socket closes.  Its entry goes before onClose asks for the transcript.
GeminiClosed(r, s) ==
  /\ voice[s] # "none" /\ voice' = [voice EXCEPT ![s] = "none"] /\ said' = [said EXCEPT ![s] = FALSE]
  /\ EndCallInternal(r, s, FALSE)
  /\ UNCHANGED <<call, Clock, line, talk, Money, signal, stopped, reports>>

(* Vapi. *)

\* The phone calls Vapi, as long as maxDurationSeconds at most ...
Dial(s) ==
  /\ call[s].provider = "vapi" /\ line[s] = "none" /\ line' = [line EXCEPT ![s] = "open"]
  /\ UNCHANGED <<call, Clock, ticker, voice, said, talk, ending, Money, signal, stopped, reports, work>>
HangUp(s) ==
  /\ line[s] = "open" /\ line' = [line EXCEPT ![s] = "over"]
  /\ UNCHANGED <<call, Clock, ticker, voice, said, talk, ending, Money, signal, stopped, reports, work>>

\* ... and tells the gateway, with or without the name of the call.
VapiStart(s) ==
  /\ call[s].provider = "vapi" /\ line[s] # "none"
  /\ \E known \in BOOLEAN : call' = [call EXCEPT ![s].id = @ \/ known]
  /\ ticker' = [ticker EXCEPT ![s] = IF @ = Stopped THEN 0 ELSE @]
  /\ signal' = [signal EXCEPT ![s] = 0]
  /\ UNCHANGED <<Clock, voice, said, line, talk, ending, Money, stopped, reports, work>>

\* vapi_end leaves the time of the timer in the document.
VapiEnd(s) ==
  /\ ticker[s] # Stopped /\ call[s].provider = "vapi" /\ ticker' = [ticker EXCEPT ![s] = Stopped]
  /\ call' = [call EXCEPT ![s].duration = ticker[s]]
  /\ signal' = [signal EXCEPT ![s] = IF Active(s) /\ ~Closing(s) THEN ticker[s] ELSE @]
  /\ UNCHANGED <<Clock, voice, said, line, talk, ending, Money, stopped, reports, work>>

\* A status update names the call.
StatusUpdate(s) ==
  /\ line[s] # "none" /\ ~call[s].id /\ call' = [call EXCEPT ![s].id = TRUE]
  /\ UNCHANGED <<Clock, Media, ending, Money, signal, stopped, reports, work>>

\* The document a report is about: the one that has its id or its name, else
\* the latest call of anyone.
Target(s, named) ==
  IF named \/ call[s].id THEN {s} ELSE {t \in Calls : call[t] # NoCall}

\* Fault: what vapi_end left is not looked at.
Unshielded(t, length) == length
\* A report does not make a call longer than vapi_end said.
Shielded(t, length) ==
  IF call[t].duration > 0 /\ length > call[t].duration THEN call[t].duration ELSE length

\* handleVapiWebhook: the end-of-call report, which may come more than once.
HandleVapiWebhook(r, s) ==
  /\ line[s] = "over" /\ reports < MaxReports /\ reports' = reports + 1
  /\ \E named \in BOOLEAN, t \in Calls :
       /\ t \in Target(s, named)
       /\ IF Active(t)
          THEN /\ call' = [call EXCEPT ![s].id = @ \/ named]
               /\ Begin(r, [Ending EXCEPT !.s = t, !.text = TRUE, !.recorded = TRUE,
                                          !.length = Shielded(t, talk[s])])
          ELSE /\ call' = [call EXCEPT ![s].id = @ \/ named, ![t].id = TRUE, ![t].text = TRUE,
                             ![t].recorded = TRUE,
                             ![t].duration = IF call[t].duration = 0 THEN talk[s] ELSE call[t].duration]
               /\ UNCHANGED work
  /\ UNCHANGED <<Clock, Media, ending, Money, signal, stopped>>

Next ==
  \/ \E n \in Steps : Tick(n)
  \/ \E u \in Users : Spend(u)
  \/ \E r \in Slots :
       \/ \E u \in Users : InitiateAiVoiceCall(r, u)
       \/ Create(r) \/ Configure(r) \/ Lock(r) \/ Bill(r) \/ SaveEnd(r)
       \/ \E s \in Calls :
            \/ EndCall(r, s) \/ TimeUp(r, s) \/ HandleStaleSessions(r, s)
            \/ CleanupCalls(r, s) \/ EndCallSession(r, s)
            \/ GeminiStop(r, s) \/ GeminiClosed(r, s) \/ HandleVapiWebhook(r, s)
  \/ \E s \in Calls :
       \/ GeminiStart(s) \/ Ready(s) \/ Speak(s)
       \/ Dial(s) \/ HangUp(s) \/ VapiStart(s) \/ VapiEnd(s) \/ StatusUpdate(s)
       \/ UserJoinedAgora(s)

Spec == Init /\ [][Next]_vvars

----------------
TypeOK ==
  /\ \A s \in Calls : /\ call[s].status \in {"none", "active", "ended"}
                      /\ call[s].provider \in Providers \cup {"none"} /\ call[s].max \in Nat
                      /\ ticker[s] \in Nat \cup {Stopped} /\ talk[s] \in 0..MaxTime
                      /\ voice[s] \in {"none", "opening", "ready", "closing"}
                      /\ line[s] \in {"none", "open", "over"}
  /\ \A u \in Users : cash[u] \in 0..Opening
  /\ ending \subseteq Calls /\ used \subseteq Users

\* However many ends and reports a call gets, it is paid for once, and for the
\* minutes that the balance at its start allowed.
PaidOnce ==
  \A s \in Calls : taken[s] <= 1 /\ call[s].bill <= Max({1, Minutes(call[s].max)}) * call[s].rate

\* A user who pays for nothing else meanwhile can pay for the call: no call that
\* was the only one goes unpaid.
AffordableIsPaid ==
  \A s \in Calls : call[s].alone /\ call[s].status = "ended" /\ ~Closing(s) => call[s].paid

\* What Vapi does after vapi_end is billed by no report and no end of the gateway.
\* (The cleanup and REST bill it: they look at the clock.)
GhostNotReported ==
  \A s \in Calls : OneAtATime /\ signal[s] > 0 => call[s].bill <= Minutes(signal[s]) * call[s].rate

\* gemini_stop: "Capture transcript before closing".
TranscriptIsKept == \A s \in stopped : Quiet => call[s].text
================
