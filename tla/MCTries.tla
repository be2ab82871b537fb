------------------------------ MODULE MCTries ------------------------------
(* Two accounts with two slots each, so that tries share leaves and a process   *)
(* can end between the storage tries of one transaction.                        *)
EXTENDS Tries, TLC

SlotSymmetry == Permutations(Slots)
=============================================================================
