-------- MODULE Readings --------
(***************************************************************************)
(* Love and Chinese horoscopes for a sign, a period and a day: an          *)
(* administrator's text, else the text cached by an earlier request, else  *)
(* one that the language model writes and that is cached under the sign    *)
(* and the period the model named.  And the board of all the signs, which  *)
(* shows administrators' texts only.                                       *)
(***************************************************************************)
EXTENDS Handlers, Sequences

CONSTANTS
  Chinese,   \* Chinese horoscopes, else western ones
  Signs, Periods, MaxDay, MaxTexts, MaxChanges, MaxSlips, MaxFailures,
  MaxBoard   \* saved entries of the board

VARIABLES
  day,
  manual,    \* keys for which there is an administrator's text
  cache,     \* cached texts: at most one for a key
  texts,     \* texts[t]: the key for which the model wrote text t
  told,      \* texts of the model that were told, and for which key
  latest,    \* the last answer and how many changes it had seen when it began
  board,     \* the board's entries in the order of their creation
  saved,     \* the last entry saved that was new, if none was deleted since (history)
  changes, slips, failures

rvars == <<day, manual, cache, texts, told, latest, board, saved, changes, slips, failures, work>>

----------------
NoEntry == [sign |-> 0, date |-> 0]
Init ==
  /\ day = 1 /\ manual = {} /\ cache = {} /\ texts = <<>> /\ told = {}
  /\ latest = [from |-> "nothing", since |-> 0] /\ board = <<>> /\ saved = NoEntry
  /\ changes = 0 /\ slips = 0 /\ failures = 0 /\ NoHandler

\* Weeks start on their first day, here day 1.
TargetDate(p) == CASE p = "tomorrow" -> day + 1 [] p = "weekly" -> 1 [] OTHER -> day
Key(s, p, d) == [sign |-> s, period |-> p, date |-> d]

\* A western text counts for its sign and period whatever its date, and the
\* one of the latest date is told; "daily" and "tomorrow" share their texts.
SamePeriod(p, q) == p = q \/ {p, q} = {"daily", "tomorrow"}
GetManualOverride(k) == {m \in manual : m.sign = k.sign /\ SamePeriod(m.period, k.period)}
GetChineseManualOverride(k) == manual \cap {k}
Override(k) == IF Chinese THEN GetChineseManualOverride(k) ELSE GetManualOverride(k)
\* Fault: any day's text is found.
CachedOfAnyDay(k) == {c \in cache : c.key.sign = k.sign /\ c.key.period = k.period}
Cached(k) == {c \in cache : c.key = k}

GetReading(r, s, p) ==
  /\ Begin(r, [pc |-> "override", key |-> Key(s, p, TargetDate(p)), since |-> changes])
  /\ UNCHANGED <<day, manual, cache, texts, told, latest, board, saved, changes, slips, failures>>

Answer(r, from) == latest' = [from |-> from, since |-> work[r].since, key |-> work[r].key] /\ Finish(r)

\* Fault: the cache is asked first.
FindCachedFirst(r) ==
  /\ At(r, "override")
  /\ \/ Cached(work[r].key) # {} /\ Goto(r, "cache") /\ UNCHANGED latest
     \/ Cached(work[r].key) = {} /\ Override(work[r].key) # {} /\ Answer(r, "manual")
     \/ Cached(work[r].key) = {} /\ Override(work[r].key) = {} /\ Goto(r, "cache") /\ UNCHANGED latest
  /\ UNCHANGED <<day, manual, cache, texts, told, board, saved, changes, slips, failures>>
FindOverride(r) ==
  /\ At(r, "override")
  /\ \/ Override(work[r].key) # {} /\ Answer(r, "manual")
     \/ Override(work[r].key) = {} /\ Goto(r, "cache") /\ UNCHANGED latest
  /\ UNCHANGED <<day, manual, cache, texts, told, board, saved, changes, slips, failures>>

Tell(r, t) == told' = told \cup {[key |-> work[r].key, text |-> t]} /\ Answer(r, "model")

FindCached(r) ==
  /\ At(r, "cache")
  /\ \/ \E c \in Cached(work[r].key) : Tell(r, c.text)
     \/ Cached(work[r].key) = {} /\ Goto(r, "write") /\ UNCHANGED <<told, latest>>
  /\ UNCHANGED <<day, manual, cache, texts, board, saved, changes, slips, failures>>

\* The model names the sign and the period: those it was asked for, or not.
Write(r, s, p) ==
  /\ At(r, "write") /\ Len(texts) < MaxTexts
  /\ \/ s = work[r].key.sign /\ p = work[r].key.period /\ UNCHANGED slips
     \/ slips < MaxSlips /\ ~(s = work[r].key.sign /\ p = work[r].key.period) /\ slips' = slips + 1
  /\ texts' = Append(texts, work[r].key)
  /\ work' = [work EXCEPT ![r] = [pc |-> "store", key |-> @.key, since |-> @.since,
                                  text |-> Len(texts) + 1, sign |-> s, period |-> p]]
  /\ UNCHANGED <<day, manual, cache, told, latest, board, saved, changes, failures>>

\* Fault: the text is told and not cached.
SetAiCacheKept(r) ==
  /\ At(r, "store") /\ Tell(r, work[r].text)
  /\ UNCHANGED <<day, manual, cache, texts, board, saved, changes, slips, failures>>
\* A text that cannot be cached is told all the same.
SetAiCache(r) ==
  /\ At(r, "store")
  /\ LET k == Key(work[r].sign, work[r].period, work[r].key.date) IN
       \/ /\ cache' = {c \in cache : c.key # k} \cup {[key |-> k, text |-> work[r].text]}
          /\ UNCHANGED failures
       \/ failures < MaxFailures /\ failures' = failures + 1 /\ UNCHANGED cache
  /\ Tell(r, work[r].text)
  /\ UNCHANGED <<day, manual, texts, board, saved, changes, slips>>

\* The profile or the model fails: the request is answered with an error.
ReadingThrows(r) ==
  /\ At(r, "override") \/ At(r, "write")
  /\ failures < MaxFailures /\ failures' = failures + 1 /\ Answer(r, "error")
  /\ UNCHANGED <<day, manual, cache, texts, told, board, saved, changes, slips>>

\* A lookup that fails counts as one that found nothing.
LookupFails(r) ==
  /\ \/ At(r, "override") /\ Goto(r, "cache")
     \/ At(r, "cache") /\ Goto(r, "write")
  /\ failures < MaxFailures /\ failures' = failures + 1
  /\ UNCHANGED <<day, manual, cache, texts, told, latest, board, saved, changes, slips>>

Change == changes < MaxChanges /\ changes' = changes + 1
UpsertHoroscope(s, p, d) ==
  /\ Change /\ manual' = manual \cup {Key(s, p, d)}
  /\ UNCHANGED <<day, cache, texts, told, latest, board, saved, slips, failures, work>>
DeleteHoroscope(k) ==
  /\ Change /\ k \in manual /\ manual' = manual \ {k}
  /\ UNCHANGED <<day, cache, texts, told, latest, board, saved, slips, failures, work>>

Midnight ==
  /\ day < MaxDay /\ day' = day + 1
  /\ UNCHANGED <<manual, cache, texts, told, latest, board, saved, changes, slips, failures, work>>

----------------
\* The board.  An entry that is saved again keeps its place.
Entries == {board[k] : k \in DOMAIN board}
SaveOverride(e) ==
  /\ board' = IF e \in Entries THEN board ELSE Append(board, e)
  /\ Len(board') <= MaxBoard
  /\ saved' = IF e \in Entries THEN saved ELSE e
  /\ UNCHANGED <<day, manual, cache, texts, told, latest, changes, slips, failures, work>>
DeleteOverride(e) ==
  /\ e \in Entries /\ board' = SelectSeq(board, LAMBDA x : x # e) /\ saved' = NoEntry
  /\ UNCHANGED <<day, manual, cache, texts, told, latest, changes, slips, failures, work>>

\* Fault: the entry of the latest date is shown.
ShownByDate(s) == {e \in Entries : e.sign = s /\ \A f \in Entries : f.sign = s => f.date <= e.date}
\* The entry of sign s that was created last, of whatever date.
MergeManualOverrides(s) ==
  {board[k] : k \in {k \in DOMAIN board : board[k].sign = s /\ \A j \in DOMAIN board : board[j].sign = s => j <= k}}

Next ==
  \/ \E r \in Slots, s \in Signs, p \in Periods : GetReading(r, s, p) \/ Write(r, s, p)
  \/ \E r \in Slots : FindOverride(r) \/ FindCached(r) \/ SetAiCache(r) \/ ReadingThrows(r) \/ LookupFails(r)
  \/ \E s \in Signs, p \in Periods, d \in 1..MaxDay : UpsertHoroscope(s, p, d)
  \/ \E k \in manual : DeleteHoroscope(k)
  \/ Midnight
  \/ \E s \in Signs, d \in 1..MaxDay : SaveOverride([sign |-> s, date |-> d])
  \/ \E e \in Entries : DeleteOverride(e)

Spec == Init /\ [][Next]_rvars

----------------
TypeOK ==
  /\ day \in 1..MaxDay
  /\ \A k \in manual : k.sign \in Signs /\ k.period \in Periods
  /\ \A c, d \in cache : c.key = d.key => c = d
  /\ \A c \in told : c.text \in DOMAIN texts
  /\ Entries \subseteq [sign : Signs, date : 1..MaxDay]
  /\ {changes, slips, failures} \subseteq Nat /\ DOMAIN work = Slots

\* A request that saw the administrators' last change is not answered by the
\* model where one of their texts applies, unless a lookup failed.
ManualFirst ==
  (failures = 0 /\ latest.from = "model" /\ latest.since = changes) => Override(latest.key) = {}

\* A text told for a sign, a period and a day was written for them, as long as
\* the model names what it was asked for.
TextIsForKey == slips = 0 => \A a \in told : texts[a.text] = a.key

\* One request at a time, whoever asks for the same is told the same text.
SameForAll ==
  (OneAtATime /\ slips = 0 /\ failures = 0) => \A a, b \in told : a.key = b.key => a.text = b.text

\* The board shows the entry that was added last for its sign.
AddedIsShown == saved # NoEntry => MergeManualOverrides(saved.sign) = {saved}
================
