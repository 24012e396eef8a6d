-------- MODULE MCWallet --------
(* Instances of Wallet for TLC.                                            *)
EXTENDS Wallet, TLC

AllHandlers == Transactional \cup StaleRead \cup RowFirst \cup UserFirst
OpeningWallets == {[cash |-> 2, bonus |-> 1]}
Symmetry == Permutations(Requests)
================
