------------------------------- MODULE MCNode -------------------------------
(* Finite instances of Node for TLC. *)
EXTENDS Node

CONSTANTS d1, d2,      \* two deposits
          c1,          \* a signed transaction
          alice

MCTx == {d1, d2, c1}
MCDeposit == {d1, d2}
MCAccount == {alice}
MCSender == [t \in MCTx |-> alice]
MCNonce == [t \in MCTx |-> 0]

(* As few as let the client change its mind and go on to a second block.   *)
(* With d2 too short for the L1 fee parameters, the first list can be      *)
(* built as long as d1 has no receipt; a client that asked for the second  *)
(* one and changed its mind finds d2 at the front.                         *)
MCPayload ==
    {[timestamp |-> 1, transactions |-> <<d1, d2>>],
     [timestamp |-> 2, transactions |-> <<d1>>]}

MCRawTx == {c1, Unsupported}
MCRawTxSupported == {c1}
MCPayloadId == 1..6
=============================================================================
