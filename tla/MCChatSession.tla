-------- MODULE MCChatSession --------
(* Instances of ChatSession for TLC.                                       *)
EXTENDS ChatSession, TLC

CONSTANTS u1, u2, a1, s1, s2, s3

\* s2 is the chat of another user, s1 and s3 are one user's.
Users12 == [s \in Sessions |-> IF s = s2 THEN u2 ELSE u1]
OneAstrologer == [s \in Sessions |-> a1]
Symmetry == Permutations(Requests)
================
