-------- MODULE Engine --------
(***************************************************************************)
(* The engine that answers with a language model and birth charts.  Places *)
(* and charts of chats, and personal Chinese readings, are kept in memory  *)
(* for a term; an hourly sweep removes what has outlived it, and the       *)
(* caches of charts and of readings evict their oldest key when full.      *)
(***************************************************************************)
EXTENDS Handlers, Sequences

CONSTANTS
  Births, Places,
  Cap,         \* keys of a cache (500 charts, 1000 readings)
  Term,        \* of charts and readings: a day
  PlaceTerm,   \* of places: thirty days
  MaxTime, MaxFailures, None

VARIABLES
  now,
  places,      \* places whose coordinates are known, and since when
  charts,      \* cached charts in the order in which their keys were added
  personal,    \* cached personal readings in that order
  told,        \* the last answer
  failures

evars == <<now, places, charts, personal, told, failures, work>>

----------------
Init ==
  /\ now = 0 /\ places = {} /\ charts = <<>> /\ personal = <<>>
  /\ told = [kind |-> "nothing"] /\ failures = 0 /\ NoHandler

Ask(r, kind, b, p, pc) ==
  /\ Begin(r, [pc |-> pc, kind |-> kind, birth |-> b, place |-> p, chart |-> None, age |-> 0])
  /\ UNCHANGED <<now, places, charts, personal, told, failures>>
GenerateResponse(r, b, p) == Ask(r, "chat", b, p, "place")
GetReading(r, b, p) == Ask(r, "reading", b, p, "locate")
\* The coordinates come with the request.
GetLalKitabData(r, b, p) == Ask(r, "reading", b, p, "calculate")
\* Two names are compared without a chart.
GetCompatibilityAnalysis(r, b) == Ask(r, "analysis", b, None, "compare")
GetPersonalChineseReading(r, b) == Ask(r, "personal", b, None, "cached")

Fail == failures < MaxFailures /\ failures' = failures + 1
Tell(r, answer) ==
  /\ told' = [kind |-> work[r].kind, birth |-> work[r].birth, place |-> work[r].place,
              chart |-> work[r].chart, age |-> work[r].age, answer |-> answer]
  /\ Finish(r)

\* What a cache holds for a key and has not outlived its term.
\* Fault: whatever its age.
HeldOfAnyAge(c, key) == {e \in {c[k] : k \in DOMAIN c} : e.key = key}
Held(c, key) == {e \in {c[k] : k \in DOMAIN c} : e.key = key /\ now - e.at < Term}
\* Fault: evicts only when the cache is beyond its size.
PutLate(c, key, value) ==
  LET d == IF Len(c) > Cap THEN Tail(c) ELSE c
      e == [key |-> key, value |-> value, at |-> now]
      here == {k \in DOMAIN d : d[k].key = key} IN
    IF here = {} THEN Append(d, e) ELSE [k \in DOMAIN d |-> IF k \in here THEN e ELSE d[k]]
\* The oldest key goes when the cache is full, even if it is another's and key
\* is there; a key that is there keeps its place.
Put(c, key, value) ==
  LET d == IF Len(c) >= Cap THEN Tail(c) ELSE c
      e == [key |-> key, value |-> value, at |-> now]
      here == {k \in DOMAIN d : d[k].key = key} IN
    IF here = {} THEN Append(d, e) ELSE [k \in DOMAIN d |-> IF k \in here THEN e ELSE d[k]]

----------------
\* Chats.  Without coordinates or a chart the model answers all the same.
KnownPlaces == {e.place : e \in {e \in places : now - e.at < PlaceTerm}}
Geocode(r) ==
  /\ At(r, "place")
  /\ \/ work[r].place \in KnownPlaces /\ Goto(r, "chart") /\ UNCHANGED <<places, failures>>
     \/ /\ work[r].place \notin KnownPlaces /\ Goto(r, "chart")
        /\ places' = {e \in places : e.place # work[r].place} \cup {[place |-> work[r].place, at |-> now]}
        /\ UNCHANGED failures
     \/ work[r].place \notin KnownPlaces /\ Fail /\ Goto(r, "model") /\ UNCHANGED places
  /\ UNCHANGED <<now, charts, personal, told>>

Chart(b, p) == [birth |-> b, place |-> p]
\* Fault: charts are kept by the birth alone.
KeyOfBirth(b, p) == b
AstroKey(b, p) == Chart(b, p)
FindChart(r) ==
  LET held == Held(charts, AstroKey(work[r].birth, work[r].place)) IN
    /\ At(r, "chart")
    /\ \/ \E e \in held : work' = [work EXCEPT ![r].pc = "model", ![r].chart = e.value, ![r].age = now - e.at]
       \/ held = {} /\ Goto(r, "compute")
    /\ UNCHANGED <<now, places, charts, personal, told, failures>>
CalculateAllData(r) ==
  LET chart == Chart(work[r].birth, work[r].place) IN
    /\ At(r, "compute")
    /\ \/ /\ charts' = Put(charts, AstroKey(work[r].birth, work[r].place), chart) /\ UNCHANGED failures
          /\ work' = [work EXCEPT ![r].pc = "model", ![r].chart = chart]
       \/ Fail /\ Goto(r, "model") /\ UNCHANGED charts
    /\ UNCHANGED <<now, places, personal, told>>

\* An answer, a request for another's chart, or an error, for which the chat
\* is told an apology.
Complete(r) ==
  /\ At(r, "model")
  /\ \/ Tell(r, "text") /\ UNCHANGED failures
     \/ Goto(r, "tool") /\ UNCHANGED <<told, failures>>
     \/ Fail /\ Tell(r, "apology")
  /\ UNCHANGED <<now, places, charts, personal>>
\* A failing calculation is told to the model as missing data.
CallTool(r) ==
  /\ At(r, "tool")
  /\ \/ Goto(r, "again") /\ (UNCHANGED failures \/ Fail) /\ UNCHANGED told
     \/ Fail /\ Tell(r, "apology")
  /\ UNCHANGED <<now, places, charts, personal>>
CompleteAgain(r) ==
  /\ At(r, "again")
  /\ \/ Tell(r, "text") /\ UNCHANGED failures
     \/ Fail /\ Tell(r, "apology")
  /\ UNCHANGED <<now, places, charts, personal>>

\* Fault: a place that is not found is passed over.
LocatePassingOver(r) ==
  /\ At(r, "locate")
  /\ \/ Goto(r, "calculate") /\ UNCHANGED failures
     \/ Fail /\ Goto(r, "write")
  /\ UNCHANGED <<now, places, charts, personal, told>>
\* Readings: no cache, and each failure is an error.
Locate(r) ==
  /\ At(r, "locate")
  /\ \/ Goto(r, "calculate") /\ UNCHANGED <<told, failures>>
     \/ Fail /\ Tell(r, "error")
  /\ UNCHANGED <<now, places, charts, personal>>
Calculate(r) ==
  /\ At(r, "calculate")
  /\ \/ /\ work' = [work EXCEPT ![r].pc = "write", ![r].chart = Chart(work[r].birth, work[r].place)]
        /\ UNCHANGED <<told, failures>>
     \/ Fail /\ Tell(r, "error")
  /\ UNCHANGED <<now, places, charts, personal>>
WriteReading(r) ==
  /\ At(r, "write")
  /\ \/ Tell(r, "text") /\ UNCHANGED failures
     \/ Fail /\ Tell(r, "error")
  /\ UNCHANGED <<now, places, charts, personal>>

\* A failure is answered by nothing instead of an error.
Compare(r) ==
  /\ At(r, "compare")
  /\ \/ Tell(r, "text") /\ UNCHANGED failures
     \/ Fail /\ Tell(r, "nothing")
  /\ UNCHANGED <<now, places, charts, personal>>

FindPersonal(r) ==
  LET held == Held(personal, work[r].birth) IN
    /\ At(r, "cached")
    /\ \/ \E e \in held :
            /\ told' = [kind |-> "personal", birth |-> work[r].birth, place |-> None, chart |-> e.value,
                        age |-> now - e.at, answer |-> "text"]
            /\ Finish(r)
       \/ held = {} /\ Goto(r, "destiny") /\ UNCHANGED told
    /\ UNCHANGED <<now, places, charts, personal, failures>>
WritePersonal(r) ==
  /\ At(r, "destiny")
  /\ \/ personal' = Put(personal, work[r].birth, None) /\ Tell(r, "text") /\ UNCHANGED failures
     \/ Fail /\ Tell(r, "error") /\ UNCHANGED personal
  /\ UNCHANGED <<now, places, charts>>

CleanupPersonalChineseCache ==
  /\ personal' = SelectSeq(personal, LAMBDA e : now - e.at < Term)
  /\ charts' = SelectSeq(charts, LAMBDA e : now - e.at < Term)
  /\ places' = {e \in places : now - e.at < PlaceTerm}
  /\ UNCHANGED <<now, told, failures, work>>

Hour ==
  /\ now < MaxTime /\ now' = now + 1
  /\ UNCHANGED <<places, charts, personal, told, failures, work>>

Next ==
  \/ \E r \in Slots, b \in Births, p \in Places :
       GenerateResponse(r, b, p) \/ GetReading(r, b, p) \/ GetLalKitabData(r, b, p)
  \/ \E r \in Slots, b \in Births : GetPersonalChineseReading(r, b) \/ GetCompatibilityAnalysis(r, b)
  \/ \E r \in Slots :
       Geocode(r) \/ FindChart(r) \/ CalculateAllData(r) \/ Complete(r) \/ CallTool(r) \/ CompleteAgain(r) \/
       Locate(r) \/ Calculate(r) \/ WriteReading(r) \/ Compare(r) \/ FindPersonal(r) \/ WritePersonal(r)
  \/ CleanupPersonalChineseCache \/ Hour

Spec == Init /\ [][Next]_evars

----------------
TypeOK ==
  /\ {now, failures} \subseteq Nat /\ DOMAIN work = Slots
  /\ \A e \in places : e.place \in Places /\ e.at <= now
  /\ \A k \in DOMAIN charts : charts[k].at <= now
  /\ \A k \in DOMAIN personal : personal[k].key \in Births

\* However requests overlap, a cache with a limit keeps to it.
CachesBounded == Len(charts) <= Cap /\ Len(personal) <= Cap

\* The chart that an answer is drawn from is that of the birth and the place
\* that were asked about.
ChartIsOwn ==
  (told.kind \in {"chat", "reading"} /\ told.chart # None) =>
    told.chart = Chart(told.birth, told.place)

\* No answer is drawn from what was kept for longer than its term.
NothingStale == told.kind # "nothing" => told.age < Term

\* A reading is told from a chart or not at all, other than a chat's answer.
ReadingHasChart == (told.kind = "reading" /\ told.answer = "text") => told.chart # None
================
