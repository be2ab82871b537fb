------------------------------- MODULE MCFees -------------------------------
(* Five transactions: an L1 attributes deposit, one whose data are too short   *)
(* to be that, a legacy transaction whose price a risen base fee exceeds, an   *)
(* EIP-1559 transaction with room for its tip, and one of a type the node does *)
(* not execute.                                                                *)
EXTENDS Fees

MCTxs == {
  [kind |-> "deposit", gas_limit |-> 1, max_fee |-> 0, priority_fee |-> 0, zero |-> 0, non_zero |-> 9,
   l1 |-> [base_fee |-> 1, base_fee_scalar |-> 1, blob_base_fee |-> 2, blob_scalar |-> 1]],
  [kind |-> "deposit", gas_limit |-> 0, max_fee |-> 0, priority_fee |-> 0, zero |-> 0, non_zero |-> 2, l1 |-> None],
  [kind |-> "legacy",  gas_limit |-> 2, max_fee |-> 4, priority_fee |-> 4, zero |-> 4, non_zero |-> 1, l1 |-> None],
  [kind |-> "eip1559", gas_limit |-> 2, max_fee |-> 9, priority_fee |-> 2, zero |-> 1, non_zero |-> 1, l1 |-> None],
  [kind |-> "eip7702", gas_limit |-> 2, max_fee |-> 9, priority_fee |-> 1, zero |-> 0, non_zero |-> 1, l1 |-> None]}
=============================================================================
