-------------------------------- MODULE Fees --------------------------------
(***************************************************************************)
(* What a block charges and what it reports about it.                      *)
(*                                                                         *)
(* start_block_build derives the base fee of a block from its parent       *)
(* (blockchain/src/block/gas.rs), execute_transactions charges every       *)
(* transaction the price of its publication on layer 1 and of its gas      *)
(* limit, hands back what it did not use (execution/src/canonical.rs), and *)
(* sums gas, logs and tips into receipts and into the header.  The model   *)
(* keeps the arithmetic and the loop; what a transaction does inside the   *)
(* VM is a choice of the gas it uses and of the logs it emits, and every   *)
(* cause for refusing it is one choice (module Execution has the session). *)
(*                                                                         *)
(* Wei and gas are natural numbers: a gas limit is below 2^64 and a price  *)
(* below 2^129, so the saturating products of U256 never saturate.  The    *)
(* base fee of a header is a u64, and that bound is kept.                  *)
(***************************************************************************)
EXTENDS Integers, Sequences, FiniteSets, FiniteSetsExt, Functions, SeqOps

CONSTANTS
  Txs,          \* transactions, as records; see TxsAssumption
  Elasticity,   \* elasticity_multiplier of Eip1559GasFee
  Denominator,  \* base_fee_max_change_denominator of Eip1559GasFee
  U64Max,       \* the largest base fee a header can hold
  GasLimits,    \* gas limits the consensus client asks for
  GenesisFee,   \* base fee of block zero
  Intrinsic,    \* least gas a canonical transaction is charged
  MaxLogs,      \* bound: logs of one transaction
  MaxAttributes, MaxPool, \* bounds: transactions that attributes and pool hold
  None,
  Panicked      \* the actor is gone

Kinds == {"deposit", "legacy", "eip2930", "eip1559", "eip7702"}

ASSUME FeesAssumption ==
  /\ Elasticity \in Nat \ {0}
  /\ Denominator \in Nat \ {0}
  /\ {U64Max, GenesisFee, Intrinsic, MaxLogs, MaxAttributes, MaxPool} \subseteq Nat
  /\ GenesisFee <= U64Max
  /\ GasLimits \subseteq Nat

ASSUME TxsAssumption ==
  \A tx \in Txs :
    /\ tx.kind \in Kinds
    /\ {tx.gas_limit, tx.max_fee, tx.priority_fee, tx.zero, tx.non_zero} \subseteq Nat
    /\ tx.kind \in {"legacy", "eip2930"} => tx.priority_fee = tx.max_fee
    /\ tx.kind = "deposit" =>
         tx.l1 \in [base_fee : Nat, base_fee_scalar : Nat, blob_base_fee : Nat, blob_scalar : Nat] \cup {None}

VARIABLES
  parent,     \* [gas_limit, gas_used, base_fee] of the latest block
  processed,  \* transactions that have a receipt
  build,      \* locals of start_block_build, None outside of it
  block       \* the block just built with its receipts and transactions, until
              \* the next build starts

vars == <<parent, processed, build, block>>

-----------------------------------------------------------------------------
(* Prices *)

GasTarget(p) == p.gas_limit \div Elasticity

FeeDelta(p, distance) == ((p.base_fee * distance) \div GasTarget(p)) \div Denominator

\* Faulty: an increase may round to nothing.
BaseFeeUnrounded(p) ==
  IF p.gas_used > GasTarget(p)
    THEN p.base_fee + FeeDelta(p, p.gas_used - GasTarget(p))
  ELSE IF p.gas_used < GasTarget(p)
    THEN p.base_fee - FeeDelta(p, GasTarget(p) - p.gas_used)
  ELSE p.base_fee

\* BaseGasFee::base_fee_per_gas.
BaseFeePerGas(p) ==
  IF p.gas_used > GasTarget(p)
    THEN p.base_fee + Max({FeeDelta(p, p.gas_used - GasTarget(p)), 1})
  ELSE IF p.gas_used < GasTarget(p)
    THEN Max({p.base_fee - FeeDelta(p, GasTarget(p) - p.gas_used), 0})
  ELSE p.base_fee

\* The division by the gas target panics when a block with a gas limit below
\* the elasticity used gas.
DividesByZero(p) == p.gas_used > GasTarget(p) /\ GasTarget(p) = 0

\* TryFrom<OpTxEnvelope>: legacy and EIP-2930 transactions offer their gas
\* price both as the maximum and as the tip; EIP-7702 is refused.
IsSupported(tx) == tx.kind # "eip7702"

IsCanonical(tx) == IsSupported(tx) /\ tx.kind # "deposit"

TipPerGas(tx, base_fee) ==
  IF IsCanonical(tx)
    THEN Min({tx.priority_fee, Max({tx.max_fee - base_fee, 0})})
    ELSE 0

\* Faulty: the whole tip on top of the base fee.
EffectiveGasPriceUncapped(tx, base_fee) ==
  IF IsCanonical(tx) THEN tx.priority_fee + base_fee ELSE 0

EffectiveGasPrice(tx, base_fee) ==
  IF IsCanonical(tx) THEN TipPerGas(tx, base_fee) + base_fee ELSE 0

\* MovedGasFee::l2_fee with the default multiplier of one.
L2Fee(gas, price) == price * gas

\* EcotoneGasFee::l1_fee: a zero byte weighs a quarter of another one.
L1Fee(l1, input) ==
  IF l1 = None THEN 0
  ELSE ((input.zero * 4 + input.non_zero * 16) \div 16)
       * (16 * l1.base_fee_scalar * l1.base_fee + l1.blob_scalar * l1.blob_base_fee)

\* The price alloy reports for a listed transaction, which is never above the
\* maximum the transaction allows.
ListedPrice(tx, base_fee) ==
  CASE tx.kind = "deposit" -> 0
    [] tx.kind \in {"legacy", "eip2930"} -> tx.max_fee
    [] OTHER -> IF tx.max_fee - base_fee > tx.priority_fee
                  THEN base_fee + tx.priority_fee
                  ELSE tx.max_fee

-----------------------------------------------------------------------------
(* Building a block *)

\* A transaction of the payload attributes is counted after decoding has
\* consumed its bytes, one of the pool when it is added.
FromAttributes(tx) == [tx |-> tx, zero |-> 0, non_zero |-> 0]
FromPool(tx)       == [tx |-> tx, zero |-> tx.zero, non_zero |-> tx.non_zero]

\* Attributes are any list; the pool is a map by hash, in which deposits never
\* are, drained in any order.
Lists(S, n) == UNION {[1..k -> S] : k \in 0..n}
Pools == {s \in Lists({tx \in Txs : tx.kind # "deposit"}, MaxPool) : IsInjective(s)}

NoBlock == [gas_used |-> 0, base_fee |-> GenesisFee, value |-> 0, collected |-> 0,
            receipts |-> <<>>, transactions |-> <<>>]

Init ==
  /\ parent \in [gas_limit : GasLimits, gas_used : {0}, base_fee : {GenesisFee}]
  /\ processed = {}
  /\ build = None
  /\ block = NoBlock

\* The transactions of a block: those of the attributes, then those of the
\* pool, without the ones that have a receipt.  One that is in both is there
\* twice.
Included(attributes, pool) ==
  LET all == [i \in 1..Len(attributes) |-> FromAttributes(attributes[i])]
             \o [i \in 1..Len(pool) |-> FromPool(pool[i])]
  IN Selected(all, {i \in DOMAIN all : all[i].tx \notin processed})

\* CreateEcotoneL1GasFee::for_deposit on the first transaction, if it is one.
StartsWithDeposit(list) == list # <<>> /\ Head(list).tx.kind = "deposit"

L1FeeOf(list) == IF StartsWithDeposit(list) THEN Head(list).tx.l1 ELSE None

\* ... whose data it slices, however short they are.
SlicesShortData(list) == StartsWithDeposit(list) /\ Head(list).tx.l1 = None

\* start_block_build up to the loop of execute_transactions.
StartBlockBuild(limit, attributes, pool) ==
  LET list == Included(attributes, pool)
  IN /\ build = None
     /\ ~ DividesByZero(parent)
     /\ ~ SlicesShortData(list)
     /\ build' = [gas_limit |-> limit, base_fee |-> BaseFeePerGas(parent),
                  l1 |-> L1FeeOf(list), list |-> list, next |-> 1,
                  receipts |-> <<>>, cumulative_gas_used |-> 0, log_offset |-> 0,
                  tx_index |-> 0, total_tip |-> 0, collected |-> 0]
     /\ block' = NoBlock
     /\ UNCHANGED <<parent, processed>>

\* The base fee cannot be computed, for this block or any other, or the L1 fee
\* cannot be read from the first deposit: the panic ends the actor.
StartPanics(attributes, pool) ==
  /\ build = None
  /\ DividesByZero(parent) \/ SlicesShortData(Included(attributes, pool))
  /\ build' = Panicked
  /\ UNCHANGED <<parent, processed, block>>

Building == build \notin {None, Panicked}

Executing == Building /\ build.next <= Len(build.list)

Current == build.list[build.next]

\* `continue`: an unsupported type or any InvalidTransaction.  The session and
\* with it the charges are dropped; the transaction stays in the block.
SkipTransaction ==
  /\ Executing
  /\ Current.tx.kind # "deposit"
  /\ build' = [build EXCEPT !.next = @ + 1]
  /\ UNCHANGED <<parent, processed, block>>

\* Transfers from the sender to the treasury and back, seen from the treasury.
ChargeGasCost(treasury, amount) == treasury + amount
RefundGasCost(treasury, amount) == treasury - amount

\* Faulty: nothing is handed back.
PaidUnrefunded(e, gas_used) ==
  L1Fee(build.l1, e)
  + L2Fee(e.tx.gas_limit, EffectiveGasPrice(e.tx, build.base_fee))

\* What the sender has paid in the end: verify_transaction charges the L1 cost
\* and the price of the gas limit, the refund returns the difference to what
\* was used.
Paid(e, gas_used) ==
  LET price   == EffectiveGasPrice(e.tx, build.base_fee)
      l2_cost == L2Fee(e.tx.gas_limit, price)
      refund  == Max({l2_cost - L2Fee(gas_used, price), 0})
  IN IF IsCanonical(e.tx)
       THEN RefundGasCost(ChargeGasCost(ChargeGasCost(0, L1Fee(build.l1, e)), l2_cost), refund)
       ELSE 0

\* Faulty: the offset already counts the logs of the transaction.
RecordedEarlyOffset(e, gas_used, logs) ==
  [build EXCEPT
     !.next = @ + 1, !.tx_index = @ + 1, !.log_offset = @ + logs,
     !.cumulative_gas_used = @ + gas_used,
     !.total_tip = @ + gas_used * TipPerGas(e.tx, build.base_fee),
     !.collected = @ + Paid(e, gas_used),
     !.receipts = Append(@, [tx |-> e.tx, index |-> build.tx_index,
                             cumulative_gas_used |-> build.cumulative_gas_used + gas_used,
                             gas_used |-> gas_used, logs |-> logs,
                             logs_offset |-> build.log_offset + logs,
                             l2_gas_price |-> EffectiveGasPrice(e.tx, build.base_fee),
                             l1_fee |-> L1Fee(build.l1, e)])]

\* The rest of the loop body: sums, receipt, indexes.
Recorded(e, gas_used, logs) ==
  [build EXCEPT
     !.next = @ + 1,
     !.tx_index = @ + 1,
     !.log_offset = @ + logs,
     !.cumulative_gas_used = @ + gas_used,
     !.total_tip = @ + gas_used * TipPerGas(e.tx, build.base_fee),
     !.collected = @ + Paid(e, gas_used),
     !.receipts = Append(@, [tx |-> e.tx, index |-> build.tx_index,
                             cumulative_gas_used |-> build.cumulative_gas_used + gas_used,
                             gas_used |-> gas_used, logs |-> logs,
                             logs_offset |-> build.log_offset,
                             l2_gas_price |-> EffectiveGasPrice(e.tx, build.base_fee),
                             l1_fee |-> L1Fee(build.l1, e)])]

\* A transaction that runs uses at least the intrinsic gas and at most its
\* limit, whether the VM succeeds or fails.  Its nonce is used up then: the same
\* transaction does not run again in the block.
ExecuteCanonical(gas_used, logs) ==
  /\ Executing
  /\ IsCanonical(Current.tx)
  /\ \A receipt \in Range(build.receipts) : receipt.tx # Current.tx
  /\ gas_used \in Intrinsic..Current.tx.gas_limit
  /\ build' = Recorded(Current, gas_used, logs)
  /\ UNCHANGED <<parent, processed, block>>

\* Deposits are metered but neither pay nor get anything back.
ExecuteDeposit(gas_used, logs) ==
  /\ Executing
  /\ Current.tx.kind = "deposit"
  /\ gas_used \in 0..Current.tx.gas_limit
  /\ build' = Recorded(Current, gas_used, logs)
  /\ UNCHANGED <<parent, processed, block>>

\* The header with the execution outcome and the attributes, the receipts and
\* the transactions; the base fee enters the header as a u64.
SealBlock ==
  /\ Building /\ build.next > Len(build.list)
  /\ LET base_fee == Min({build.base_fee, U64Max})
         used     == build.cumulative_gas_used
     IN /\ parent' = [gas_limit |-> build.gas_limit, gas_used |-> used, base_fee |-> base_fee]
        /\ block' = [gas_used |-> used, base_fee |-> base_fee,
                     value |-> build.total_tip, collected |-> build.collected,
                     receipts |-> build.receipts,
                     transactions |-> [i \in 1..Len(build.list) |->
                        [tx |-> build.list[i].tx, index |-> i - 1,
                         price |-> ListedPrice(build.list[i].tx, base_fee)]]]
  /\ processed' = processed \cup {r.tx : r \in Range(build.receipts)}
  /\ build' = None

\* The indexes within the block that an RPC receipt gives its logs.
LogIndexes(r) == {r.logs_offset + internal_index : internal_index \in 0..(r.logs - 1)}

Next ==
  \/ \E attributes \in Lists(Txs, MaxAttributes), pool \in Pools :
       \/ \E limit \in GasLimits : StartBlockBuild(limit, attributes, pool)
       \/ StartPanics(attributes, pool)
  \/ SkipTransaction
  \/ \E logs \in 0..MaxLogs :
       \E gas_used \in 0..Max({tx.gas_limit : tx \in Txs}) :
         \/ ExecuteCanonical(gas_used, logs)
         \/ ExecuteDeposit(gas_used, logs)
  \/ SealBlock

Spec == Init /\ [][Next]_vars

-----------------------------------------------------------------------------
(* Properties *)

\* What the receipts of a block say, one by one: paid, paid above the base fee,
\* gas and logs.
Charges(receipts) ==
  [i \in DOMAIN receipts |-> receipts[i].gas_used * receipts[i].l2_gas_price + receipts[i].l1_fee]
Tips(receipts, base_fee) ==
  [i \in DOMAIN receipts |->
     IF IsCanonical(receipts[i].tx)
       THEN receipts[i].gas_used * (receipts[i].l2_gas_price - base_fee) ELSE 0]
GasUsed(receipts) == [i \in DOMAIN receipts |-> receipts[i].gas_used]
Logs(receipts) == [i \in DOMAIN receipts |-> receipts[i].logs]

\* The block being built and the last one sealed.
Blocks ==
  {block} \cup (IF Building
                 THEN {[value |-> build.total_tip, collected |-> build.collected,
                        gas_used |-> build.cumulative_gas_used,
                        base_fee |-> build.base_fee, receipts |-> build.receipts]}
                 ELSE {})

\* The money adds up: what the senders of a block have paid, after charges and
\* refunds in advance and in arrears, is what its receipts say they paid for
\* publication and gas, and the value of the block is the part of it above the
\* base fee (execute_transactions, charge_gas_cost, refund_gas_cost).
AccountsBalance ==
  \A b \in Blocks :
    /\ b.collected = Total(Charges(b.receipts))
    /\ b.base_fee < U64Max => b.value = Total(Tips(b.receipts, b.base_fee))

\* The log indexes an RPC client computes from the receipts of a block number
\* its logs without a gap or a repetition, skipped and failed transactions
\* notwithstanding, and the cumulative gas of the last receipt is the gas of the
\* block (logs_offset, cumulative_gas_used).
LogsNumbered ==
  \A b \in Blocks :
    LET n == Len(b.receipts)
        indexes(i) == LogIndexes(b.receipts[i])
    IN /\ UNION {indexes(i) : i \in 1..n} = 0..(Total(Logs(b.receipts)) - 1)
       /\ \A i, j \in 1..n : i < j => indexes(i) \cap indexes(j) = {}
       /\ \A i \in 1..n : b.receipts[i].cumulative_gas_used = Sums(GasUsed(b.receipts))[i]
       /\ b.gas_used = IF n = 0 THEN 0 ELSE b.receipts[n].cumulative_gas_used

\* The places of s whose record is the one stored under the hash of its
\* transaction: of several the last one.
Stored(s) == {i \in DOMAIN s : \A k \in DOMAIN s : s[k].tx = s[i].tx => k <= i}

\* Every transaction of the block up to j was executed where it is listed: it
\* has a receipt, and unless it is a deposit, which runs each time, it is listed
\* only once.
Unskipped(j) ==
  \A k \in 1..j :
    LET tx == block.transactions[k].tx
    IN /\ tx \in {receipt.tx : receipt \in Range(block.receipts)}
       /\ tx.kind # "deposit" =>
            \A l \in DOMAIN block.transactions \ {k} : block.transactions[l].tx # tx

\* The stored receipt and the stored listing of a transaction, which number and
\* price it independently of each other: the index of the receipt is never the
\* greater one, and the same until the block has skipped a transaction or has
\* listed a signed one twice; the receipt has the listed price, or the base fee
\* when a transaction that offers less was executed all the same
\* (ExtendedReceipt and ExtendedTransaction).
CleanReceiptMatchesListing ==
  \A i \in Stored(block.receipts), j \in Stored(block.transactions) :
    LET r == block.receipts[i]  t == block.transactions[j]
    IN r.tx = t.tx =>
         /\ r.index <= t.index
         /\ Unskipped(j) => r.index = t.index
         /\ block.base_fee < U64Max =>
              r.l2_gas_price = Max({t.price, IF IsCanonical(t.tx) THEN block.base_fee ELSE 0})

\* The base fee answers to demand: a block above its gas target makes the fee of
\* the next one rise, even from zero, one below never makes it rise, and an
\* empty block never brings a positive fee down to nothing unless the
\* denominator is one (Eip1559GasFee::base_fee_per_gas).
FeeAnswersDemand ==
  [][ parent' # parent =>
      LET fee == parent.base_fee  next == parent'.base_fee
      IN /\ parent.gas_used > GasTarget(parent) /\ fee < U64Max => next > fee
         /\ parent.gas_used <= GasTarget(parent) => next <= fee
         /\ fee > 0 /\ Denominator > 1 => next > 0 ]_vars
=============================================================================
