-------- MODULE Recording --------
(***************************************************************************)
(* The cloud recordings of a call and of a stream.  The recorder is a      *)
(* service of Agora, started and stopped over HTTP; what identifies it is  *)
(* kept in memory (calls only) and in the session document.                *)
(***************************************************************************)
EXTENDS Integers, FiniteSets

CONSTANTS
  Media,      \* sessions that are recorded
  Calls,      \* those that are calls; the others are streams
  MaxLosses   \* bound on restarts and failing requests

VARIABLES
  starting,  \* starting[m]: the handler that starts the recorder
  stopping,  \* stopping[m]: the one that stops it, in the background
  recorder,  \* recorder[m]: "off", "on", or "lost" (it stopped by itself)
  known,     \* calls in activeRecordings of CallRecordingService
  stored,    \* sessions whose document identifies the recorder
  marked,    \* streams with isRecording
  finished,  \* sessions that have ended
  filed,     \* sessions with a recording URL
  losses,
  named      \* named[m]: the losses so far when m ended with its recorder
             \* in the document, -1 if it was not (history)

rvars == <<starting, stopping, recorder, known, stored, marked, finished, filed, losses, named>>

Init ==
  /\ starting = [m \in Media |-> "none"] /\ stopping = [m \in Media |-> "none"]
  /\ recorder = [m \in Media |-> "off"]
  /\ known = {} /\ stored = {} /\ marked = {} /\ finished = {} /\ filed = {} /\ losses = 0
  /\ named = [m \in Media |-> -1]

Set(f, m, v) == [f EXCEPT ![m] = v]

(* Start: acquire a resource, start the recorder, save what identifies it. *)

\* startCallInternal, goLive, or the admin for a stream not marked recording.
Ask(m) ==
  /\ starting[m] = "none" /\ stopping[m] = "none" /\ m \notin finished /\ m \notin marked
  /\ recorder[m] = "off"
  /\ starting' = Set(starting, m, "asked")
  /\ UNCHANGED <<stopping, recorder, known, stored, marked, finished, filed, losses, named>>

\* startRecording of either service: acquire and start are answered.
Answer(m) ==
  /\ starting[m] = "asked" /\ recorder' = Set(recorder, m, "on")
  /\ known' = IF m \in Calls THEN known \cup {m} ELSE known
  /\ starting' = Set(starting, m, "answered")
  /\ UNCHANGED <<stopping, stored, marked, finished, filed, losses, named>>

\* The call or the stream goes on without a recording.
AskFails(m) ==
  /\ starting[m] = "asked" /\ losses < MaxLosses /\ losses' = losses + 1
  /\ starting' = Set(starting, m, "none")
  /\ UNCHANGED <<stopping, recorder, known, stored, marked, finished, filed, named>>

Store(m) ==
  /\ starting[m] = "answered" /\ starting' = Set(starting, m, "none")
  /\ stored' = stored \cup {m} /\ marked' = IF m \in Calls THEN marked ELSE marked \cup {m}
  /\ UNCHANGED <<stopping, recorder, known, finished, filed, losses, named>>

(* The end of the session, and the stop in the background. *)

\* endStream looks at the isRecording it read, and clears it at once.
EndStream(m) ==
  /\ m \notin Calls /\ m \notin finished /\ stopping[m] = "none"
  /\ finished' = finished \cup {m} /\ marked' = marked \ {m}
  /\ named' = Set(named, m, IF m \in marked THEN losses ELSE -1)
  /\ stopping' = Set(stopping, m, IF m \in marked THEN "asked" ELSE "none")
  /\ UNCHANGED <<starting, recorder, known, stored, filed, losses>>

\* endCallInternal starts handleBackgroundRecordingStop and does not wait.
EndCall(m) ==
  /\ m \in Calls /\ m \notin finished
  /\ finished' = finished \cup {m} /\ stopping' = Set(stopping, m, "reading")
  /\ named' = Set(named, m, IF m \in stored THEN losses ELSE -1)
  /\ UNCHANGED <<starting, recorder, known, stored, marked, filed, losses>>

\* Fault: a call is looked up in memory only.
ReadMemory(m) ==
  /\ stopping[m] = "reading"
  /\ stopping' = Set(stopping, m, IF m \in known THEN "asked" ELSE "none")
  /\ UNCHANGED <<starting, recorder, known, stored, marked, finished, filed, losses, named>>
\* Memory first, then the document; nothing: "No active recording found".
ReadSession(m) ==
  /\ stopping[m] = "reading"
  /\ stopping' = Set(stopping, m, IF m \in known \cup stored THEN "asked" ELSE "none")
  /\ UNCHANGED <<starting, recorder, known, stored, marked, finished, filed, losses, named>>

\* stopRecording of the admin.
StopByAdmin(m) ==
  /\ m \in marked /\ stopping[m] = "none" /\ starting[m] = "none"
  /\ stopping' = Set(stopping, m, "asked")
  /\ UNCHANGED <<starting, recorder, known, stored, marked, finished, filed, losses, named>>

\* stop is answered; a call whose recorder had stopped by itself (400, 404)
\* gets the URL that its files must have, a stream gets none.
Stopped(m) ==
  /\ stopping[m] = "asked" /\ stopping' = Set(stopping, m, "stopped")
  /\ recorder' = Set(recorder, m, IF recorder[m] = "lost" /\ m \notin Calls THEN "lost" ELSE "off")
  /\ known' = known \ {m}
  /\ UNCHANGED <<starting, stored, marked, finished, filed, losses, named>>

\* Fault: the answer is not saved.
FileNothing(m) ==
  /\ stopping[m] = "stopped" /\ stopping' = Set(stopping, m, "none")
  /\ marked' = marked \ {m}
  /\ UNCHANGED <<starting, recorder, known, stored, finished, filed, losses, named>>
\* updateRecordingAfterEnd; recordingFiles of the stream.
File(m) ==
  /\ stopping[m] = "stopped" /\ stopping' = Set(stopping, m, "none")
  /\ filed' = IF recorder[m] = "off" THEN filed \cup {m} ELSE filed
  /\ marked' = marked \ {m}
  /\ UNCHANGED <<starting, recorder, known, stored, finished, losses, named>>

\* Another error: the call is forgotten, the recorder runs on.
StopFails(m) ==
  /\ stopping[m] = "asked" /\ losses < MaxLosses /\ losses' = losses + 1
  /\ stopping' = Set(stopping, m, "none") /\ known' = known \ {m}
  /\ UNCHANGED <<starting, recorder, stored, marked, finished, filed, named>>

\* maxIdleTime: five minutes after the channel is empty the recorder stops.
IdleStop(m) ==
  /\ m \in finished /\ recorder[m] = "on" /\ stopping[m] = "none" /\ starting[m] = "none"
  /\ recorder' = Set(recorder, m, "lost")
  /\ UNCHANGED <<starting, stopping, known, stored, marked, finished, filed, losses, named>>

Restart ==
  /\ losses < MaxLosses /\ losses' = losses + 1
  /\ starting' = [m \in Media |-> "none"] /\ stopping' = [m \in Media |-> "none"] /\ known' = {}
  /\ UNCHANGED <<recorder, stored, marked, finished, filed, named>>

Next ==
  \/ \E m \in Media :
       \/ Ask(m) \/ Answer(m) \/ AskFails(m) \/ Store(m)
       \/ EndStream(m) \/ EndCall(m) \/ ReadSession(m) \/ StopByAdmin(m)
       \/ Stopped(m) \/ File(m) \/ StopFails(m) \/ IdleStop(m)
  \/ Restart

Spec == Init /\ [][Next]_rvars

----------------
Phases == {"none", "asked", "answered", "reading", "stopped"}
TypeOK ==
  /\ starting \in [Media -> Phases] /\ stopping \in [Media -> Phases]
  /\ recorder \in [Media -> {"off", "on", "lost"}]
  /\ known \in SUBSET Calls /\ marked \in SUBSET (Media \ Calls)
  /\ stored \in SUBSET Media /\ finished \in SUBSET Media /\ filed \in SUBSET Media
  /\ losses \in 0..MaxLosses /\ named \in [Media -> -1..MaxLosses]

\* A session that ends with its recorder in the document stops it, and does
\* not leave it to the idle time-out, although a restart had emptied the
\* memory: unless a stop fails or the process stops after the end.
NamedIsStopped ==
  \A m \in Media :
    named[m] = losses /\ starting[m] = "none" /\ stopping[m] = "none" => recorder[m] = "off"

\* A recorder that the server stopped has its file in the document.
StoppedIsFiled ==
  \A m \in Media :
    m \in stored /\ recorder[m] = "off" /\ stopping[m] = "none" => m \in filed \/ losses > 0
================
