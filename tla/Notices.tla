-------- MODULE Notices --------
(***************************************************************************)
(* The notifications of one recipient (NotificationService), the sockets   *)
(* of their devices (NotificationGateway) and the delivery by web socket,  *)
(* mobile socket and push (NotificationDeliveryService), which nobody      *)
(* waits for.                                                              *)
(***************************************************************************)
EXTENDS Integers, FiniteSets

CONSTANTS Notes, Kinds, Devices, Sockets, NoSocket, MaxFailures

VARIABLES
  kind, stored, read, socketSent, pushSent, \* documents of the notifications
  stage,     \* how far the sending of a notification has come
  devices,   \* devices[d]: "none", "active" or "inactive" in the recipient's document
  open,      \* open[k]: "closed", "web" or the device that opened socket k
  connected, \* connectedUsers: the mobile sockets
  mapped,    \* userDeviceSockets
  reached,   \* reached[n]: channels n went out by (history)
  loggingOut, \* the forced logout that has sent its notification, or "none"
  failures

documents == <<kind, stored, read, socketSent, pushSent>>
gateway == <<open, connected, mapped>>
ovars == <<documents, stage, devices, gateway, reached, loggingOut, failures>>

----------------
\* The types: "call" and "message" go by mobile socket, "call" and "logout"
\* are urgent.
shouldUseSocketIo(k) == k \in {"call", "message"}
Urgent(k) == k \in {"call", "logout"}

Init ==
  /\ kind = [n \in Notes |-> "none"] /\ stored = {} /\ read = {} /\ socketSent = {} /\ pushSent = {}
  /\ stage = [n \in Notes |-> "none"] /\ devices = [d \in Devices |-> "none"]
  /\ open = [k \in Sockets |-> "closed"] /\ connected = {} /\ mapped = [d \in Devices |-> NoSocket]
  /\ reached = [n \in Notes |-> {}] /\ loggingOut = "none" /\ failures = 0

Move(n, s) == stage' = [stage EXCEPT ![n] = s]
Active == {d \in Devices : devices[d] = "active"}

(* Sockets. *)
ConnectWeb(k) ==
  /\ open[k] = "closed" /\ open' = [open EXCEPT ![k] = "web"]
  /\ UNCHANGED <<documents, stage, devices, connected, mapped, reached, loggingOut, failures>>

ConnectMobile(k, d) ==
  /\ open[k] = "closed" /\ open' = [open EXCEPT ![k] = d]
  /\ connected' = connected \cup {k} /\ mapped' = [mapped EXCEPT ![d] = k]
  /\ UNCHANGED <<documents, stage, devices, reached, loggingOut, failures>>

\* Fault: the device keeps its entry.
DisconnectSocket(k) ==
  /\ open[k] # "closed" /\ open' = [open EXCEPT ![k] = "closed"]
  /\ connected' = connected \ {k}
  /\ UNCHANGED <<documents, stage, devices, mapped, reached, loggingOut, failures>>
\* handleDisconnect drops the device's entry, whichever socket it names.
Disconnect(k) ==
  /\ open[k] # "closed" /\ open' = [open EXCEPT ![k] = "closed"]
  /\ connected' = connected \ {k}
  /\ mapped' = [d \in Devices |-> IF open[k] = d THEN NoSocket ELSE mapped[d]]
  /\ UNCHANGED <<documents, stage, devices, reached, loggingOut, failures>>

isUserConnected == \E k \in Sockets : open[k] = "web"

\* Sending.  The document comes first; without a device in the recipient's
\* document nothing is delivered, by no channel.
Create(n, k) ==
  /\ stage[n] = "none" /\ kind' = [kind EXCEPT ![n] = k] /\ stored' = stored \cup {n}
  /\ Move(n, "lookup")
  /\ UNCHANGED <<read, socketSent, pushSent, devices, gateway, reached, loggingOut, failures>>

FindRecipient(n) ==
  /\ stage[n] = "lookup"
  /\ Move(n, IF \A d \in Devices : devices[d] = "none" THEN "done" ELSE "deliver")
  /\ loggingOut' = IF kind[n] = "logout" THEN n ELSE loggingOut
  /\ UNCHANGED <<documents, devices, gateway, reached, failures>>

\* forceLogoutUser: when the notification was sent, but perhaps not delivered.
DeactivateDevices ==
  /\ loggingOut # "none" /\ loggingOut' = "none"
  /\ devices' = [d \in Devices |-> IF devices[d] = "none" THEN "none" ELSE "inactive"]
  /\ UNCHANGED <<documents, stage, gateway, reached, failures>>

LoginDevice(d) ==
  /\ devices[d] # "active" /\ devices' = [devices EXCEPT ![d] = "active"]
  /\ UNCHANGED <<documents, stage, gateway, reached, loggingOut, failures>>

(* deliverToMobile. *)
BySocket(n) ==
  {c \in {"web", "mobile"} :
     \/ c = "web" /\ isUserConnected
     \/ c = "mobile" /\ shouldUseSocketIo(kind[n]) /\ connected # {}}

AfterSocket(n, tokens) == IF tokens THEN "push" ELSE "done"

\* Reads the devices, then uses the sockets there are.
Deliver(n) ==
  /\ stage[n] = "deliver"
  /\ reached' = [reached EXCEPT ![n] = BySocket(n)]
  /\ Move(n, IF BySocket(n) = {} THEN AfterSocket(n, Active # {})
             ELSE IF Active = {} THEN "record" ELSE "record, push")
  /\ UNCHANGED <<documents, devices, gateway, loggingOut, failures>>

\* Fault: a push in any case.
RecordAndPush(n) ==
  /\ stage[n] \in {"record", "record, push"} /\ socketSent' = socketSent \cup (stored \cap {n})
  /\ Move(n, AfterSocket(n, stage[n] = "record, push"))
  /\ UNCHANGED <<kind, stored, read, pushSent, devices, gateway, reached, loggingOut, failures>>
\* A socket is enough, unless the notification is urgent.
RecordSocket(n) ==
  /\ stage[n] \in {"record", "record, push"} /\ socketSent' = socketSent \cup (stored \cap {n})
  /\ Move(n, AfterSocket(n, stage[n] = "record, push" /\ Urgent(kind[n])))
  /\ UNCHANGED <<kind, stored, read, pushSent, devices, gateway, reached, loggingOut, failures>>

PushTo(n) ==
  /\ stage[n] = "push" /\ reached' = [reached EXCEPT ![n] = @ \cup {"push"}] /\ Move(n, "record push")
  /\ UNCHANGED <<documents, devices, gateway, loggingOut, failures>>

\* Fault: recorded whether or not a device took it.
RecordAnyPush(n) ==
  /\ stage[n] \in {"push", "record push"} /\ pushSent' = pushSent \cup (stored \cap {n}) /\ Move(n, "done")
  /\ UNCHANGED <<kind, stored, read, socketSent, devices, gateway, reached, loggingOut, failures>>
RecordPush(n) ==
  /\ stage[n] = "record push" /\ pushSent' = pushSent \cup (stored \cap {n}) /\ Move(n, "done")
  /\ UNCHANGED <<kind, stored, read, socketSent, devices, gateway, reached, loggingOut, failures>>

\* Firebase takes no token, or a write fails: the delivery ends there.
DeliveryFails(n) ==
  /\ stage[n] \in {"deliver", "record", "record, push", "push", "record push"}
  /\ failures < MaxFailures /\ failures' = failures + 1 /\ Move(n, "done")
  /\ UNCHANGED <<documents, devices, gateway, reached, loggingOut>>

(* The recipient's own requests. *)
MarkAsRead(n) ==
  /\ n \in stored \ read /\ read' = read \cup {n}
  /\ UNCHANGED <<kind, stored, socketSent, pushSent, stage, devices, gateway, reached, loggingOut, failures>>

DeleteNotification(n) ==
  /\ n \in stored /\ stored' = stored \ {n} /\ read' = read \ {n}
  /\ socketSent' = socketSent \ {n} /\ pushSent' = pushSent \ {n}
  /\ UNCHANGED <<kind, stage, devices, gateway, reached, loggingOut, failures>>

ClearAll ==
  /\ stored # {} /\ stored' = {} /\ read' = {} /\ socketSent' = {} /\ pushSent' = {}
  /\ UNCHANGED <<kind, stage, devices, gateway, reached, loggingOut, failures>>

UserRequests == ClearAll \/ \E n \in Notes : MarkAsRead(n) \/ DeleteNotification(n)

SocketEvents(k) == ConnectWeb(k) \/ Disconnect(k) \/ \E d \in Devices : ConnectMobile(k, d)

Next ==
  \/ UserRequests \/ DeactivateDevices
  \/ \E k \in Sockets : SocketEvents(k)
  \/ \E d \in Devices : LoginDevice(d)
  \/ \E n \in Notes :
       \/ FindRecipient(n) \/ Deliver(n) \/ RecordSocket(n) \/ PushTo(n) \/ RecordPush(n)
       \/ DeliveryFails(n) \/ \E k \in Kinds : Create(n, k)

Spec == Init /\ [][Next]_ovars

----------------
TypeOK ==
  /\ kind \in [Notes -> Kinds \cup {"none"}] /\ stored \subseteq Notes /\ read \subseteq stored
  /\ stage \in [Notes -> {"none", "lookup", "deliver", "record", "record, push", "push", "record push", "done"}]
  /\ devices \in [Devices -> {"none", "active", "inactive"}]
  /\ open \in [Sockets -> {"closed", "web"} \cup Devices] /\ connected \subseteq Sockets
  /\ mapped \in [Devices -> Sockets \cup {NoSocket}]
  /\ reached \in [Notes -> SUBSET {"web", "mobile", "push"}] /\ failures \in 0..MaxFailures

\* The gateway never writes to a socket that is closed or belongs to another
\* device, however sockets of one device replace each other.
MappedIsOpen ==
  /\ \A d \in Devices : mapped[d] # NoSocket => open[mapped[d]] = d
  /\ connected = {k \in Sockets : open[k] \in Devices}

\* isSocketSent and isPushSent are set only for what went out that way; when
\* nothing failed and the document is there, they are set for all of it.
SentAsRecorded ==
  \A n \in Notes :
    /\ n \in socketSent => reached[n] \cap {"web", "mobile"} # {}
    /\ n \in pushSent => "push" \in reached[n]
    /\ (failures = 0 /\ stage[n] = "done" /\ n \in stored) =>
         (n \in pushSent <=> "push" \in reached[n])

\* A notification that is not urgent is not pushed to someone who had it by a
\* socket.
NotTwice ==
  \A n \in Notes : ~Urgent(kind[n]) /\ "push" \in reached[n] => reached[n] = {"push"}
================
