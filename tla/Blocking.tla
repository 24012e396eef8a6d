-------- MODULE Blocking --------
(***************************************************************************)
(* A user and an astrologer who may block each other, and what a block     *)
(* keeps from beginning.  The user's list, the astrologer's list and the   *)
(* astrologer's list for streams have an entry for each $push.             *)
(***************************************************************************)
EXTENDS Handlers

CONSTANTS MaxBlocks, MaxRequests

Lists == {"user's", "astrologer's", "streams"}

VARIABLES
  entries,  \* entries[l]: how often the one is in list l of the other
  requests,
  allowed,  \* work[r] was unblocked since it came (history)
  intruded, \* chats, calls and visits that a list refused from beginning to end (history)
  blocks

bvars == <<entries, requests, allowed, intruded, blocks, work>>

----------------
Init ==
  /\ entries = [l \in Lists |-> 0] /\ requests = 0 /\ intruded = {} /\ blocks = 0
  /\ allowed = [r \in Slots |-> {}] /\ NoHandler

In(l) == entries[l] > 0
Blocked == {l \in Lists : In(l)}

(* The lists.  Blocking reads the list and then pushes. *)

\* Fault: whether there is an entry is not asked.
BlockAgain(r, l) ==
  /\ blocks < MaxBlocks /\ blocks' = blocks + 1
  /\ Begin(r, [pc |-> "push", l |-> l])
  /\ UNCHANGED <<entries, requests, allowed, intruded>>
Block(r, l) ==
  /\ ~In(l) /\ blocks < MaxBlocks /\ blocks' = blocks + 1
  /\ Begin(r, [pc |-> "push", l |-> l])
  /\ UNCHANGED <<entries, requests, allowed, intruded>>

Push(r) ==
  /\ At(r, "push") /\ Finish(r)
  /\ entries' = [entries EXCEPT ![work[r].l] = @ + 1]
  /\ UNCHANGED <<requests, allowed, intruded, blocks>>

\* $pull takes every entry.
Unblock(r, l) ==
  /\ At(r, "idle") /\ In(l) /\ entries' = [entries EXCEPT ![l] = 0]
  /\ allowed' = [q \in Slots |-> allowed[q] \cup {l}]
  /\ UNCHANGED <<requests, intruded, blocks, work>>

(* What a block is asked for. *)

\* The lists that the steps of a request ask, in their order.  A chat that is
\* continued does not ask the astrologer's list, a continued call asks none.
Asked(kind) ==
  CASE kind = "initiate" -> <<"astrologer's", "user's", "user's">>
    [] kind = "continue chat" -> <<"user's">>
    [] kind = "continue call" -> <<>>
    [] kind = "stream call" -> <<"astrologer's">>
    [] kind = "stream" -> <<"streams">>

Request(r, kind) ==
  /\ requests < MaxRequests /\ requests' = requests + 1
  /\ Begin(r, [pc |-> IF Asked(kind) = <<>> THEN "begin" ELSE "ask", kind |-> kind, n |-> 1, blocked |-> Blocked])
  /\ allowed' = [allowed EXCEPT ![r] = {}]
  /\ UNCHANGED <<entries, intruded, blocks>>

\* Fault: the first list is not asked.
AskLast(r) ==
  /\ At(r, "ask")
  /\ LET h == work[r] IN
       IF In(Asked(h.kind)[h.n]) /\ h.n > 1 THEN Finish(r)
       ELSE IF h.n < Cardinality(DOMAIN Asked(h.kind))
       THEN work' = [work EXCEPT ![r].n = @ + 1]
       ELSE Goto(r, "begin")
  /\ UNCHANGED <<entries, requests, allowed, intruded, blocks>>
Ask(r) ==
  /\ At(r, "ask")
  /\ LET h == work[r] IN
       IF In(Asked(h.kind)[h.n]) THEN Finish(r)
       ELSE IF h.n < Cardinality(DOMAIN Asked(h.kind))
       THEN work' = [work EXCEPT ![r].n = @ + 1]
       ELSE Goto(r, "begin")
  /\ UNCHANGED <<entries, requests, allowed, intruded, blocks>>

\* The session is saved, the viewer joins the room.
Meet(r) ==
  /\ At(r, "begin") /\ Finish(r)
  /\ LET h == work[r]
         refusing == {Asked(h.kind)[n] : n \in DOMAIN Asked(h.kind)} \cap h.blocked
     IN  intruded' = IF refusing \ allowed[r] # {} THEN intruded \cup {h.kind} ELSE intruded
  /\ UNCHANGED <<entries, requests, allowed, blocks>>

Kinds == {"initiate", "continue chat", "continue call", "stream call", "stream"}

Next ==
  \E r \in Slots :
    \/ Push(r) \/ Ask(r) \/ Meet(r)
    \/ \E l \in Lists : Block(r, l) \/ Unblock(r, l)
    \/ \E kind \in Kinds : Request(r, kind)

Spec == Init /\ [][Next]_bvars

----------------
TypeOK ==
  /\ entries \in [Lists -> Nat] /\ requests \in 0..MaxRequests /\ blocks \in 0..MaxBlocks
  /\ allowed \in [Slots -> SUBSET Lists] /\ intruded \subseteq Kinds

\* However requests and blocks overlap: nothing begins that a block refused
\* when it was asked for, unless the block was lifted meanwhile.
BlockedStartsNothing == intruded = {}

\* One request at a time, the one is once in a list of the other.
BlockedOnce == OneAtATime => \A l \in Lists : entries[l] <= 1
================
