-------- MODULE Audience --------
(***************************************************************************)
(* The audience of one live stream: viewer records and the viewer count    *)
(* (StreamSessionService), and what StreamingGateway keeps in memory: the  *)
(* socket of each user, the room, the host's registration and heartbeat.   *)
(***************************************************************************)
EXTENDS Integers, FiniteSets

CONSTANTS
  Viewers, Host,
  Sockets,
  Lanes,        \* slots for handlers
  MaxCrashes,
  MaxShort,     \* bound on how far the count falls below zero
  NoSocket, NoUser

VARIABLES
  live,      \* the stream's status is live
  viewing,   \* viewers with an active viewer record
  count,     \* viewerCount
  barred,    \* viewers the host has blocked from streams
  owner,     \* owner[k]: the user behind socket k, NoUser if it is closed
  mapped,    \* userSockets
  room,      \* sockets in the stream's room
  hosting,   \* streamHosts: "never" registered, "yes", or "gone"
  bound,     \* socketToStream: the host's sockets
  beat,      \* a heartbeat timeout is armed
  lane,      \* lane[r]: the handler in slot r
  crashes

records == <<live, viewing, count, barred>>
gateway == <<owner, mapped, room, hosting, bound, beat>>
avars == <<records, gateway, lane, crashes>>

----------------
People == Viewers \cup {Host}
FreeLane == [pc |-> "idle"]

Take(r, pc, u, k) == lane[r].pc = "idle" /\ lane' = [lane EXCEPT ![r] = [pc |-> pc, u |-> u, k |-> k]]
In(r, pc) == lane[r].pc = pc
Step(r, pc) == lane' = [lane EXCEPT ![r].pc = pc]
Done(r) == lane' = [lane EXCEPT ![r] = FreeLane]

Init ==
  /\ live = TRUE /\ viewing = {} /\ count = 0 /\ barred = {}
  /\ owner = [k \in Sockets |-> NoUser] /\ mapped = [u \in People |-> NoSocket]
  /\ room = {} /\ hosting = "never" /\ bound = {} /\ beat = FALSE
  /\ lane = [r \in Lanes |-> FreeLane] /\ crashes = 0

(* Viewer records, over REST or the socket. *)
JoinStream(r, u) == live /\ Take(r, "join", u, NoSocket) /\ UNCHANGED <<records, gateway, crashes>>

\* Fault: a viewer who joins again is counted again.
ViewAgain(r) ==
  /\ In(r, "join") /\ viewing' = viewing \cup {lane[r].u} /\ Step(r, "count")
  /\ UNCHANGED <<live, count, barred, gateway, crashes>>
\* The upsert returns the record as it was.
View(r) ==
  /\ In(r, "join") /\ viewing' = viewing \cup {lane[r].u}
  /\ IF lane[r].u \in viewing THEN Done(r) ELSE Step(r, "count")
  /\ UNCHANGED <<live, count, barred, gateway, crashes>>

LeaveStream(r, u) ==
  /\ u \in viewing /\ count > -MaxShort /\ Take(r, "leave", u, NoSocket)
  /\ room' = IF mapped[u] = NoSocket THEN room ELSE room \ {mapped[u]}
  /\ UNCHANGED <<records, owner, mapped, hosting, bound, beat, crashes>>

\* Fault: the record stays active.
UnviewNothing(r) == In(r, "leave") /\ Step(r, "uncount") /\ UNCHANGED <<records, gateway, crashes>>
Unview(r) ==
  /\ In(r, "leave") /\ viewing' = viewing \ {lane[r].u} /\ Step(r, "uncount")
  /\ UNCHANGED <<live, count, barred, gateway, crashes>>

CountViewer(r) ==
  /\ lane[r].pc \in {"count", "uncount"}
  /\ count' = IF In(r, "count") THEN count + 1 ELSE count - 1
  /\ Done(r)
  /\ UNCHANGED <<live, viewing, barred, gateway, crashes>>

(* Sockets and the room. *)
Connect(k, u) ==
  /\ owner[k] = NoUser /\ k \notin room
  /\ (\A v \in People : mapped[v] # k) /\ \A r \in Lanes : ~In(r, "idle") => lane[r].k # k
  /\ owner' = [owner EXCEPT ![k] = u]
  /\ UNCHANGED <<records, mapped, room, hosting, bound, beat, lane, crashes>>

\* join_stream of a viewer asks whether the host has blocked the viewer ...
EnterBegin(r, k) ==
  /\ owner[k] \in Viewers \ barred /\ Take(r, "enter", owner[k], k)
  /\ UNCHANGED <<records, gateway, crashes>>

\* ... and lets the socket in.
Enter(r) ==
  /\ In(r, "enter")
  /\ mapped' = [mapped EXCEPT ![lane[r].u] = lane[r].k]
  /\ room' = IF owner[lane[r].k] = lane[r].u THEN room \cup {lane[r].k} ELSE room
  /\ Done(r)
  /\ UNCHANGED <<records, owner, hosting, bound, beat, crashes>>

\* join_stream of the host asks nothing.
HostEnters(k) ==
  /\ owner[k] = Host
  /\ mapped' = [mapped EXCEPT ![Host] = k] /\ room' = room \cup {k}
  /\ hosting' = "yes" /\ bound' = bound \cup {k}
  /\ live   \* the app joins the stream it has started
  /\ UNCHANGED <<records, owner, beat, lane, crashes>>

\* kick_user: the block is stored, for streams only.  It ends there for a
\* viewer whose socket is mapped: the server of a namespace has its sockets in
\* a Map, "sockets.sockets" is undefined, and the look-up throws before the
\* socket leaves the room and before the others are told.
KickUser(u) ==
  /\ barred' = barred \cup {u}
  /\ UNCHANGED <<live, viewing, count, gateway, lane, crashes>>

Unblock(u) ==
  /\ barred' = barred \ {u} /\ u \in barred
  /\ UNCHANGED <<live, viewing, count, gateway, lane, crashes>>

(* The host's heartbeat and the loss of a socket. *)
Heartbeat ==
  /\ \E k \in Sockets : owner[k] = Host
  /\ beat' = TRUE
  /\ UNCHANGED <<records, owner, mapped, room, hosting, bound, lane, crashes>>

\* Fault: the host is forgotten, the stream goes on.
BeatForgets ==
  /\ beat /\ beat' = FALSE
  /\ hosting' = IF hosting = "yes" THEN "gone" ELSE hosting
  /\ UNCHANGED <<records, owner, mapped, room, bound, lane, crashes>>
\* 30 seconds without a heartbeat: a registered host's stream is ended.
BeatTimeout ==
  /\ beat /\ beat' = FALSE
  /\ IF hosting = "yes" THEN hosting' = "gone" /\ live' = FALSE ELSE UNCHANGED <<hosting, live>>
  /\ UNCHANGED <<viewing, count, barred, owner, mapped, room, bound, lane, crashes>>

\* Fault: only the users are looked up.
DisconnectUser(k) ==
  /\ owner[k] # NoUser
  /\ owner' = [owner EXCEPT ![k] = NoUser] /\ room' = room \ {k}
  /\ mapped' = [u \in People |-> IF mapped[u] = k THEN NoSocket ELSE mapped[u]]
  /\ bound' = bound \ {k}
  /\ IF k \in bound THEN beat' = FALSE /\ hosting' = "gone" ELSE UNCHANGED <<beat, hosting>>
  /\ UNCHANGED <<records, lane, crashes>>
\* handleDisconnect, with the endStream it awaits: any socket the host was
\* registered with ends the stream, one the host has left behind too.
Disconnect(k) ==
  /\ owner[k] # NoUser
  /\ owner' = [owner EXCEPT ![k] = NoUser] /\ room' = room \ {k}
  /\ mapped' = [u \in People |-> IF mapped[u] = k THEN NoSocket ELSE mapped[u]]
  /\ bound' = bound \ {k}
  /\ IF k \in bound
     THEN /\ beat' = FALSE
          /\ IF hosting = "yes" THEN hosting' = "gone" /\ live' = FALSE
             ELSE UNCHANGED <<hosting, live>>
     ELSE UNCHANGED <<beat, hosting, live>>
  /\ UNCHANGED <<viewing, count, barred, lane, crashes>>

\* The process stops: every socket is closed, no handler hears of it.
Crash ==
  /\ crashes < MaxCrashes /\ crashes' = crashes + 1
  /\ owner' = [k \in Sockets |-> NoUser] /\ mapped' = [u \in People |-> NoSocket]
  /\ room' = {} /\ hosting' = "never" /\ bound' = {} /\ beat' = FALSE
  /\ lane' = [r \in Lanes |-> FreeLane]
  /\ UNCHANGED records

----------------
Next ==
  \/ \E r \in Lanes :
       \/ View(r) \/ Unview(r) \/ CountViewer(r) \/ Enter(r)
       \/ \E u \in Viewers : JoinStream(r, u) \/ LeaveStream(r, u)
       \/ \E k \in Sockets : EnterBegin(r, k)
  \/ \E k \in Sockets :
       \/ HostEnters(k) \/ Disconnect(k)
       \/ \E u \in People : Connect(k, u)
  \/ \E u \in Viewers : KickUser(u) \/ Unblock(u)
  \/ Heartbeat \/ BeatTimeout \/ Crash

Spec == Init /\ [][Next]_avars

----------------
TypeOK ==
  /\ live \in BOOLEAN /\ viewing \in SUBSET Viewers /\ count \in Int /\ barred \in SUBSET Viewers
  /\ owner \in [Sockets -> People \cup {NoUser}] /\ mapped \in [People -> Sockets \cup {NoSocket}]
  /\ room \in SUBSET Sockets /\ hosting \in {"never", "yes", "gone"} /\ bound \in SUBSET Sockets
  /\ beat \in BOOLEAN /\ crashes \in 0..MaxCrashes
  /\ \A r \in Lanes : lane[r].pc \in {"idle", "join", "leave", "count", "uncount", "enter"}

\* "Strict count fix": the count never exceeds the active viewer records, a
\* leaving viewer's until it is taken off, whatever joins and leaves overlap.
\* (It can fall short: two leaves of one viewer each take one off.)
NeverOvercounted ==
  crashes = 0 => count <= Cardinality(viewing) + Cardinality({r \in Lanes : In(r, "uncount")})

\* One request at a time, with no restart between its steps, it is exact.
ViewersCounted ==
  Cardinality(Lanes) = 1 /\ crashes = 0 /\ (\A r \in Lanes : In(r, "idle")) =>
    count = Cardinality(viewing)

\* A stream whose registered host has gone, by heartbeat or by socket, ends.
GoneHostEndsStream == hosting = "gone" => ~live
================
