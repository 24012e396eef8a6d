-------- MODULE MCRecharge --------
(* Instances of Recharge for TLC.                                          *)
EXTENDS Recharge, TLC

CONSTANTS u1, o1, o2, p1

OneOwner == [t \in Recharges |-> u1]
\* o1 and o2 are welcome recharges of 1, p1 has a pack.
Prices == [t \in Recharges |-> IF t = p1 THEN 10 ELSE 1]
Packs == (1 :> 0) @@ (10 :> 5)
================
