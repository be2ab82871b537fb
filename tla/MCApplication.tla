---------------------------- MODULE MCApplication ----------------------------
(* Finite instances of Application for TLC. *)
EXTENDS Application, TLC

CONSTANTS d1, dx,      \* a deposit, and one that creates a contract
          c1, c2,      \* two transactions of one account
          alice

MCTx == {d1, dx, c1, c2}
MCDeposit == {d1, dx}
MCAccount == {alice}
MCSender == [t \in MCTx |-> alice]
MCNonce == d1 :> 0 @@ dx :> 0 @@ c1 :> 0 @@ c2 :> 1

(* A list with the deposit, one that repeats it (the same L1 block derived *)
(* again) next to a signed transaction that the pool may hold too, one     *)
(* with nothing but garbage, and one whose build panics half way.          *)
MCPayload ==
    {[timestamp |-> 1, transactions |-> <<d1>>],
     [timestamp |-> 1, transactions |-> <<d1, c1>>],
     [timestamp |-> 1, transactions |-> <<Undecodable>>],
     [timestamp |-> 1, transactions |-> <<c1, dx>>]}
=============================================================================
