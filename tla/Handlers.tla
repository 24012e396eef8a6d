-------- MODULE Handlers --------
(***************************************************************************)
(* Request handlers that overlap.  A handler holds a slot from its first   *)
(* read to its last write; its record keeps what it has read and "pc" says *)
(* which database call comes next.  With one slot requests follow one      *)
(* another, with two every await is a place where another may come in.     *)
(***************************************************************************)
EXTENDS Integers, FiniteSets

CONSTANT Slots
VARIABLE work   \* work[r]: the handler in slot r

Idle == [pc |-> "idle"]

At(r, pc) == work[r].pc = pc
Begin(r, h) == At(r, "idle") /\ work' = [work EXCEPT ![r] = h]
Goto(r, pc) == work' = [work EXCEPT ![r].pc = pc]
Finish(r) == work' = [work EXCEPT ![r] = Idle]

NoHandler == work = [r \in Slots |-> Idle]
Quiet == \A r \in Slots : At(r, "idle")
OneAtATime == Cardinality(DOMAIN work) = 1
================
