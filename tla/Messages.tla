-------- MODULE Messages --------
(***************************************************************************)
(* The messages of one chat between a user and an astrologer               *)
(* (ChatMessageService), and the room of its sockets (ChatGateway).  A     *)
(* message goes to the room, and by push to a receiver who is not there.   *)
(* The marks on a message are read, changed and saved.  The clients' own   *)
(* update_status events, which may say anything, are left out.             *)
(***************************************************************************)
EXTENDS Handlers

CONSTANTS Parties, Sockets, MaxMessages, MaxMarks, MaxFailures

VARIABLES
  session,  \* "active", "grace" or "closed"
  message,  \* message[i]: the document, "v" is its version
  count,    \* session.messageCount
  online,   \* userStatus and astrologerStatus: isOnline
  socket,   \* activeUsers: the socket of a party, 0 for none
  room,     \* sockets in the room of the session
  told,     \* told[i]: ways by which message i reached its receiver
  left,     \* a receiver left between the look and the emit of message i
  marks, failures

evars == <<session, message, count, online, socket, room, told, left, marks, failures, work>>
fixed == <<told, left, count>>

----------------
Ids == 1..MaxMessages
NoMessage == [from |-> "none", delivery |-> "none", hidden |-> FALSE,
              starredBy |-> {}, starred |-> FALSE, reactions |-> [p \in Parties |-> 0], v |-> 0]
Stored == {i \in Ids : message[i] # NoMessage}
Other(p) == CHOOSE q \in Parties : q # p
Owner(k) == k[1]   \* sockets are pairs of a party and a number

\* save() writes a field only if it differs from the copy that was read.
Write(seen, new, old) == IF new = seen THEN old ELSE new

Init ==
  /\ session = "active" /\ message = [i \in Ids |-> NoMessage] /\ count = 0
  /\ online = [p \in Parties |-> FALSE] /\ socket = [p \in Parties |-> <<p, 0>>] /\ room = {}
  /\ told = [i \in Ids |-> {}] /\ left = {} /\ marks = 0 /\ failures = 0 /\ NoHandler

EndSession ==
  /\ session # "closed" /\ session' = IF session = "active" THEN "grace" ELSE "closed"
  /\ UNCHANGED <<message, fixed, online, socket, room, marks, failures, work>>

(* Presence. *)

\* join_session and start_chat
JoinSession(r, k) ==
  /\ k \notin room /\ room' = room \cup {k} /\ socket' = [socket EXCEPT ![Owner(k)] = k]
  /\ Begin(r, [pc |-> "online", p |-> Owner(k), on |-> TRUE])
  /\ UNCHANGED <<session, message, fixed, online, marks, failures>>

SaveOnline(r) ==
  /\ At(r, "online") /\ Finish(r) /\ online' = [online EXCEPT ![work[r].p] = work[r].on]
  /\ UNCHANGED <<session, message, fixed, socket, room, marks, failures>>

\* A message whose room was looked at is emitted without the receiver.
Leaving(k) ==
  /\ room' = room \ {k}
  /\ left' = left \cup {work[q].i : q \in {q \in Slots : At(q, "emit") /\ work[q].to = Owner(k)}}

\* leave_session forgets the party's socket, whichever it is, at the end.
LeaveSession(r, k) ==
  /\ k \in room /\ Leaving(k) /\ Begin(r, [pc |-> "leave", p |-> Owner(k)])
  /\ UNCHANGED <<session, message, count, told, online, socket, marks, failures>>
Forget(r) ==
  /\ At(r, "leave") /\ Finish(r)
  /\ LET p == work[r].p IN
       online' = [online EXCEPT ![p] = FALSE] /\ socket' = [socket EXCEPT ![p] = <<p, 0>>]
  /\ UNCHANGED <<session, message, fixed, room, marks, failures>>

\* Fault: the document is not told.
DisconnectOnly(r, k) ==
  /\ k \in room /\ At(r, "idle") /\ Leaving(k)
  /\ LET p == Owner(k) IN socket' = [socket EXCEPT ![p] = IF @ = k THEN <<p, 0>> ELSE @]
  /\ UNCHANGED <<session, message, count, told, online, marks, failures, work>>
\* handleDisconnect acts if the party's socket is this one.
Disconnect(r, k) ==
  /\ k \in room /\ Leaving(k)
  /\ LET p == Owner(k) IN
       IF socket[p] = k THEN socket' = [socket EXCEPT ![p] = <<p, 0>>]
                             /\ Begin(r, [pc |-> "online", p |-> p, on |-> FALSE])
       ELSE At(r, "idle") /\ UNCHANGED <<socket, work>>
  /\ UNCHANGED <<session, message, count, told, online, marks, failures>>

(* Sending. *)

\* After the end the astrologer has a while for a last word.
SendMessage(r, p) ==
  /\ session = "active" \/ (session = "grace" /\ p = "astrologer")
  /\ Begin(r, [pc |-> "save", from |-> p])
  /\ UNCHANGED <<session, message, fixed, online, socket, room, marks, failures>>

SaveMessage(r) ==
  /\ At(r, "save") /\ \E i \in Ids :
       /\ i \notin Stored /\ \A j \in 1..(i - 1) : j \in Stored
       /\ message' = [message EXCEPT ![i] = [NoMessage EXCEPT !.from = work[r].from, !.delivery = "sending"]]
       /\ work' = [work EXCEPT ![r] = [pc |-> "count", i |-> i, to |-> Other(@.from), seen |-> {}, n |-> count]]
  /\ UNCHANGED <<session, fixed, online, socket, room, marks, failures>>

\* Fault: the count that was read is written back with one more.
CountFromCopy(r) ==
  /\ At(r, "count") /\ Goto(r, "look") /\ count' = work[r].n + 1
  /\ UNCHANGED <<session, message, told, left, online, socket, room, marks, failures>>
\* $inc; its error is swallowed.
CountMessage(r) ==
  /\ At(r, "count") /\ Goto(r, "look")
  /\ \/ count' = count + 1 /\ UNCHANGED failures
     \/ failures < MaxFailures /\ failures' = failures + 1 /\ UNCHANGED count
  /\ UNCHANGED <<session, message, told, left, online, socket, room, marks>>

Look(r) ==
  /\ At(r, "look") /\ work' = [work EXCEPT ![r].pc = "emit", ![r].seen = room]
  /\ UNCHANGED <<session, message, fixed, online, socket, room, marks, failures>>

\* Fault: a receiver whose socket is known is in the room.
EmitToKnown(r) ==
  /\ At(r, "emit") /\ Finish(r)
  /\ LET h == work[r] IN
       told' = [told EXCEPT ![h.i] =
         (IF \E k \in room : Owner(k) = h.to THEN {"room"} ELSE {}) \cup
         (IF socket[h.to] # <<h.to, 0>> THEN {} ELSE {"push"})]
  /\ UNCHANGED <<session, message, count, left, online, socket, room, marks, failures>>
\* A push goes out unless the receiver's socket was in the room.
Emit(r) ==
  /\ At(r, "emit") /\ Finish(r)
  /\ LET h == work[r] IN
       told' = [told EXCEPT ![h.i] =
         (IF \E k \in room : Owner(k) = h.to THEN {"room"} ELSE {}) \cup
         (IF socket[h.to] \in h.seen THEN {} ELSE {"push"})]
  /\ UNCHANGED <<session, message, count, left, online, socket, room, marks, failures>>

(* Marks on a message. *)

\* markAsSent, markAsDelivered, markAsRead: in whatever order they come.
Receipt(i, d) ==
  /\ i \in Stored /\ marks < MaxMarks /\ marks' = marks + 1
  /\ message[i].delivery # d /\ message' = [message EXCEPT ![i].delivery = d]
  /\ UNCHANGED <<session, fixed, online, socket, room, failures, work>>

Mark(r, h, i) ==
  /\ i \in Stored /\ marks < MaxMarks /\ marks' = marks + 1
  /\ Begin(r, [h EXCEPT !.i = i, !.seen = message[i]])
  /\ UNCHANGED <<session, message, fixed, online, socket, room, failures>>
Marking(pc, p) == [pc |-> pc, p |-> p, i |-> 0, seen |-> NoMessage]

StarMessage(r, p, i) == p \notin message[i].starredBy /\ Mark(r, Marking("star", p), i)
UnstarMessage(r, p, i) == Mark(r, Marking("unstar", p), i)
EditMessage(r, p, i) == message[i].from = p /\ Mark(r, Marking("edit", p), i)
DeleteMessage(r, p, i) == message[i].from = p /\ Mark(r, Marking("delete", p), i)

\* The list grows by $push and raises the version.
SaveStar(r) ==
  /\ At(r, "star") /\ Finish(r)
  /\ LET h == work[r] IN
       message' = [message EXCEPT ![h.i].starredBy = @ \cup {h.p}, ![h.i].v = @ + 1,
                                  ![h.i].starred = Write(h.seen.starred, TRUE, @)]
  /\ UNCHANGED <<session, fixed, online, socket, room, marks, failures>>

\* Fault: the flag stays when the last star goes.
SaveUnstarList(r) ==
  /\ At(r, "unstar") /\ Finish(r)
  /\ LET h == work[r] IN
       message' = [message EXCEPT ![h.i].starredBy = h.seen.starredBy \ {h.p}, ![h.i].v = @ + 1]
  /\ UNCHANGED <<session, fixed, online, socket, room, marks, failures>>
\* The list is set whole, which the document refuses if its version changed.
SaveUnstar(r) ==
  /\ At(r, "unstar") /\ Finish(r)
  /\ LET h == work[r]  rest == h.seen.starredBy \ {h.p} IN
       IF h.seen.v # message[h.i].v THEN UNCHANGED message
       ELSE message' = [message EXCEPT ![h.i].starredBy = rest, ![h.i].v = @ + 1,
                          ![h.i].starred = IF rest = {} THEN Write(h.seen.starred, FALSE, @) ELSE @]
  /\ UNCHANGED <<session, fixed, online, socket, room, marks, failures>>

\* The old text is pushed to the edit history.
SaveEdit(r) ==
  /\ At(r, "edit") /\ Finish(r) /\ message' = [message EXCEPT ![work[r].i].v = @ + 1]
  /\ UNCHANGED <<session, fixed, online, socket, room, marks, failures>>

\* Fault: an earlier reaction is not looked for.
ReactAgain(r, p, i) == Mark(r, Marking("react", p), i)
\* addReaction looks for one of this party and then pushes; the document's
\* version stays.  Every reaction has the same emoji.
AddReaction(r, p, i) == message[i].reactions[p] = 0 /\ Mark(r, Marking("react", p), i)
PushReaction(r) ==
  /\ At(r, "react") /\ Finish(r)
  /\ LET h == work[r] IN message' = [message EXCEPT ![h.i].reactions[h.p] = @ + 1]
  /\ UNCHANGED <<session, fixed, online, socket, room, marks, failures>>
\* $pull takes each of them.
RemoveReaction(p, i) ==
  /\ i \in Stored /\ message[i].reactions[p] > 0 /\ message' = [message EXCEPT ![i].reactions[p] = 0]
  /\ UNCHANGED <<session, fixed, online, socket, room, marks, failures, work>>

\* Deleted for the sender or for everyone: either is listed no more.
SaveDelete(r) ==
  /\ At(r, "delete") /\ Finish(r) /\ message' = [message EXCEPT ![work[r].i].hidden = TRUE]
  /\ UNCHANGED <<session, fixed, online, socket, room, marks, failures>>

RoomEvents(r) ==
  \E k \in Sockets : JoinSession(r, k) \/ LeaveSession(r, k) \/ Disconnect(r, k)
MessageEvents(r) ==
  \E p \in Parties :
    \/ SendMessage(r, p)
    \/ \E i \in Ids :
         \/ StarMessage(r, p, i) \/ UnstarMessage(r, p, i) \/ EditMessage(r, p, i) \/ DeleteMessage(r, p, i)
         \/ AddReaction(r, p, i) \/ RemoveReaction(p, i)

Next ==
  \/ EndSession \/ \E i \in Ids, d \in {"sent", "delivered", "read"} : Receipt(i, d)
  \/ \E r \in Slots :
       \/ RoomEvents(r) \/ MessageEvents(r) \/ SaveOnline(r) \/ Forget(r)
       \/ SaveMessage(r) \/ CountMessage(r) \/ Look(r) \/ Emit(r)
       \/ SaveStar(r) \/ SaveUnstar(r) \/ SaveEdit(r) \/ SaveDelete(r) \/ PushReaction(r)

Spec == Init /\ [][Next]_evars

----------------
TypeOK ==
  /\ session \in {"active", "grace", "closed"}
  /\ \A i \in Stored : message[i] \in
       [from : Parties, delivery : {"sending", "sent", "delivered", "read"}, hidden : BOOLEAN,
        starredBy : SUBSET Parties, starred : BOOLEAN,
        reactions : [Parties -> Nat], v : Nat]
  /\ count \in Nat /\ online \in [Parties -> BOOLEAN] /\ room \subseteq Sockets
  /\ \A p \in Parties : socket[p] \in Sockets \cup {<<p, 0>>}
  /\ told \in [Ids -> SUBSET {"room", "push"}] /\ left \subseteq Ids
  /\ marks \in 0..MaxMarks /\ failures \in 0..MaxFailures

InProgress(i) == \E r \in Slots : work[r].pc \in {"count", "look", "emit"} /\ work[r].i = i

\* A message that was saved reaches its receiver by the room or by push,
\* unless they left between the look into the room and the emit.
EveryMessageIsTold ==
  \A i \in Stored : ~InProgress(i) => told[i] # {} \/ i \in left

\* However messages overlap, the session counts each, but for a failure.
MessagesCounted ==
  LET coming == {r \in Slots : At(r, "count")} IN
    /\ count + Cardinality(coming) <= Cardinality(Stored)
    /\ failures = 0 => count + Cardinality(coming) = Cardinality(Stored)

\* One request at a time, a message is listed as starred just if somebody
\* has starred it.
StarsAgree == OneAtATime => \A i \in Stored : message[i].starred <=> message[i].starredBy # {}

\* One request at a time, a party reacts once with an emoji.
ReactedOnce == OneAtATime => \A i \in Ids, p \in Parties : message[i].reactions[p] <= 1

\* One event at a time, the document says who has a socket in the chat.
PresenceAgrees ==
  OneAtATime /\ Quiet => \A p \in Parties : online[p] <=> socket[p] # <<p, 0>>
================
