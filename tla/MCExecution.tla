---------------------------- MODULE MCExecution ----------------------------
(* Instances of Execution for TLC: one user, one contract and one or two slots. *)
EXTENDS Execution
CONSTANTS alice, c, s1, s2, native
MCUser == {alice}
MCContract == {c}
MCSlot == {s1, s2}
MCOneSlot == {s1}
=============================================================================
