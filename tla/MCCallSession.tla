-------- MODULE MCCallSession --------
(* Instances of CallSession for TLC.                                       *)
EXTENDS CallSession, TLC

CONSTANTS u1, s1, s2

OneUser == [s \in Sessions |-> u1]
Symmetry == Permutations(Requests)
================
