-------- MODULE MCStreaming --------
(***************************************************************************)
(* Instances of Stream, Audience and Recording for TLC.  They share one    *)
(* document of which each keeps its own fields, and no step of one reads   *)
(* what another writes; so the run looks at one of them at a time, with    *)
(* one handler or with two that overlap, and "focus" says at which.        *)
(* Stream is extended, for one handler at a time, so that TLC checks the   *)
(* very definitions that its theorems are about; the others, and Stream    *)
(* for two handlers, share variables.                                      *)
(***************************************************************************)
EXTENDS Stream, Integers, Sequences, FiniteSets, TLC

CONSTANTS u1, u2, h1, r1, r2, k1, k2, call, broadcast

VARIABLE focus
\* The variables of the component in focus, in the order of its module.
VARIABLES v1, v2, v3, v4, v5, v6, v7, v8, v9, v10, v11, v12

groupVars == <<focus, vars, v1, v2, v3, v4, v5, v6, v7, v8, v9, v10, v11, v12>>

Two == INSTANCE Stream WITH
  Viewers <- {u1}, MaxStreams <- 1, MaxCalls <- 2, Slots <- {r1, r2}, Price <- 1, Opening <- 5,
    Lengths <- {1, 6}, GiftAmount <- 5, MaxWaiting <- 1, MaxFailures <- 0, stream <- v1, deal <-
    v2, host <- v3, timer <- v4, failures <- v5, purse <- v6, charged <- v7, bills <- v8,
    received <- v9, work <- v10
Audience1 == INSTANCE Audience WITH
  Viewers <- {u1, u2}, Host <- h1, Sockets <- {k1, k2}, Lanes <- {r1}, MaxCrashes <- 1, MaxShort
    <- 1, NoSocket <- NoOne, NoUser <- NoOne, live <- v1, viewing <- v2, count <- v3, barred <-
    v4, owner <- v5, mapped <- v6, room <- v7, hosting <- v8, bound <- v9, beat <- v10, lane <-
    v11, crashes <- v12
Audience2 == INSTANCE Audience WITH
  Viewers <- {u1}, Host <- h1, Sockets <- {k1, k2}, Lanes <- {r1, r2}, MaxCrashes <- 0, MaxShort
    <- 1, NoSocket <- NoOne, NoUser <- NoOne, live <- v1, viewing <- v2, count <- v3, barred <-
    v4, owner <- v5, mapped <- v6, room <- v7, hosting <- v8, bound <- v9, beat <- v10, lane <-
    v11, crashes <- v12
Recordings == INSTANCE Recording WITH
  Media <- {call, broadcast}, Calls <- {call}, MaxLosses <- 2, starting <- v1, stopping <- v2,
    recorder <- v3, known <- v4, stored <- v5, marked <- v6, finished <- v7, filed <- v8, losses
    <- v9, named <- v10

GroupInit ==
  /\ focus \in {"one", "two", "audience", "audience, two handlers", "recordings"}
  /\ Init
  /\ focus = "one" => v1 = 0 /\ v2 = 0 /\ v3 = 0 /\ v4 = 0 /\ v5 = 0 /\ v6 = 0 /\ v7 = 0 /\ v8 =
    0 /\ v9 = 0 /\ v10 = 0 /\ v11 = 0 /\ v12 = 0
  /\ focus = "two" => Two!Init /\ v11 = 0 /\ v12 = 0
  /\ focus = "audience" => Audience1!Init
  /\ focus = "audience, two handlers" => Audience2!Init
  /\ focus = "recordings" => Recordings!Init /\ v11 = 0 /\ v12 = 0

GroupNext ==
  \/ focus = "one" /\ Next /\ UNCHANGED <<focus, v1, v2, v3, v4, v5, v6, v7, v8, v9, v10, v11,
    v12>>
  \/ focus = "two" /\ Two!Next /\ UNCHANGED <<focus, vars, v11, v12>>
  \/ focus = "audience" /\ Audience1!Next /\ UNCHANGED <<focus, vars>>
  \/ focus = "audience, two handlers" /\ Audience2!Next /\ UNCHANGED <<focus, vars>>
  \/ focus = "recordings" /\ Recordings!Next /\ UNCHANGED <<focus, vars, v11, v12>>

GroupSpec == GroupInit /\ [][GroupNext]_groupVars

----------------
TypesOK ==
  /\ TypeOK
  /\ focus = "two" => Two!TypeOK
  /\ focus = "audience" => Audience1!TypeOK
  /\ focus = "audience, two handlers" => Audience2!TypeOK
  /\ focus = "recordings" => Recordings!TypeOK

\* A stream never claims more revenue than its viewers paid for it, however
\* the saves of endCurrentCall and the increments of gifts interleave.
RevenueCoveredByTwo == focus = "two" => Two!RevenueCovered
\* A completed transaction was paid, at least its total; a failed one is free
\* unless the credit of the astrologer failed or two handlers ended the call.
SettledByTwo == focus = "two" => Two!SettledAsCharged
\* "Strict count fix": the count never exceeds the active viewer records, a
\* leaving viewer's until it is taken off, whatever joins and leaves overlap.
NeverOvercounted == (focus = "audience" => Audience1!NeverOvercounted) /\ (focus = "audience, two handlers" => Audience2!NeverOvercounted)
\* One request at a time, with no restart between its steps, it is exact.
ViewersCounted == focus = "audience" => Audience1!ViewersCounted
\* A stream whose registered host has gone, by heartbeat or by socket, ends.
GoneHostEndsStream == focus = "audience" => Audience1!GoneHostEndsStream
\* A session that ends with its recorder in the document stops it, and does
\* not leave it to the idle time-out, although a restart had emptied the
\* memory: unless a stop fails or the process stops after the end.
NamedIsStopped == focus = "recordings" => Recordings!NamedIsStopped
\* A recorder that the server stopped has its file in the document.
StoppedIsFiled == focus = "recordings" => Recordings!StoppedIsFiled

----------------
\* What is live, who is in it, what is billed and what records it agree: a
\* stream is live for a host who is there and for nobody else, has the
\* viewers it counts, shows the call whose transaction is ongoing, and leaves
\* its recording behind, and two handlers neither claim nor settle what was
\* not paid; and every value has its type.
LiveStreamsAgree ==
  /\ TypesOK /\ OngoingIsShown /\ EndedIsQuiet /\ OneLiveStream /\ HostNamesLive
  /\ RevenueCoveredByTwo /\ SettledByTwo /\ NeverOvercounted /\ ViewersCounted
  /\ GoneHostEndsStream /\ NamedIsStopped /\ StoppedIsFiled
================
