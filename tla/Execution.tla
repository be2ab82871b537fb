------------------------------ MODULE Execution ------------------------------
(***************************************************************************)
(* One transaction inside the virtual machines: the Move VM session that   *)
(* canonical.rs and deposited.rs open, the EVM that a session may call any *)
(* number of times, and the change set that the session ends in.           *)
(*                                                                         *)
(* The base token lives twice: as a fungible asset of Move, which fees and *)
(* transfers use, and as the balance of EVM accounts, which contracts see. *)
(* The value of an EVM call is put into the account of the EVM native      *)
(* (Evm.move, get_asset_value), the EVM journal records who paid whom, and *)
(* replicate_transfers repeats the payments in Move when the VM is done.   *)
(* EVM storage is a trie per contract whose root is also a field of the    *)
(* contract's account information in the Move state.                       *)
(*                                                                         *)
(* Abstractions.  Gas is a choice: a transaction uses something between    *)
(* the intrinsic gas and its limit, at one token per unit, and anything    *)
(* metered may run out of it.  A trie root is the storage it commits to.   *)
(* The EVM balance of users is left out, as the balance check is disabled  *)
(* for them (native_impl.rs, build_evm).  What a Move function had written *)
(* when it aborted may stay in the session or not: that is the VM's affair.*)
(***************************************************************************)
EXTENDS Integers, Sequences, FiniteSets, FiniteSetsExt, SeqOps

CONSTANTS User,         \* accounts with a key
          Contract,     \* EVM contracts
          Native,       \* the account of the EVM native, 0x1
          Treasury,     \* where fees go, by default 0x1 as well
          Slot, Value,  \* EVM storage
          Initial,      \* balance of every user at genesis
          MaxAmount,    \* bound: tokens per payment
          MaxLimit,     \* bound: gas limit of a transaction
          IntrinsicGas, \* gas a transaction pays before it runs
          MaxCalls,     \* bound: EVM calls of one session
          MaxTx         \* bound: transactions

ASSUME AccountAssumption ==
    /\ IsFiniteSet(User) /\ IsFiniteSet(Contract)
    /\ User \cap Contract = {}
    /\ Native \notin User \cup Contract
    /\ Treasury \notin User \cup Contract

ASSUME AmountAssumption ==
    /\ {Initial, MaxAmount, MaxLimit, MaxCalls, MaxTx} \subseteq Nat
    /\ IntrinsicGas \in 1..MaxLimit

ASSUME ValueAssumption == 0 \in Value

Account == User \cup Contract \cup {Native, Treasury}
Amount == 0..MaxAmount

(***************************************************************************)
(* What the state holds between transactions.                              *)
(***************************************************************************)
VARIABLES token,    \* base token of Move, by account
          info,     \* EVM account information of contracts, in the Move state
          tries     \* EVM storage tries

(***************************************************************************)
(* The session.                                                            *)
(***************************************************************************)
VARIABLES pc,        \* what execution is about to do
          tx,        \* the transaction: kind, sender, gas limit, L1 cost
          balances,  \* `token` as the session sees it
          calls,     \* state_changes: what each EVM call changed
          origins,   \* EthTransfersLogger: senders of EVM calls with the value
          transfers, \* EthTransfersLogger: payments in the EVM journal
          outcome    \* vm_outcome: "ok" or "user_error"

(* History. *)
VARIABLES count,     \* transactions begun
          fees,      \* what committed transactions owe the treasury
          minted,    \* tokens brought into being
          written,   \* EVM storage had every call seen the ones before it
          events     \* what happened that the code does not expect

state == <<token, info, tries>>
log == <<calls, origins, transfers>>
session == <<pc, tx, balances, log, outcome>>
history == <<count, fees, minted, written, events>>
vars == <<state, session, history>>

NoTx == [kind |-> "none", sender |-> Native, limit |-> 0, l1 |-> 0, mint |-> 0]

EmptyStorage == [s \in Slot |-> 0]

Payment == [from : Account, to : Account, amount : Nat]

(* Faulty: the payer keeps the tokens. *)
PaidUndebited(b, from, to, n) == [b EXCEPT ![to] = @ + n]

(* eth_token::transfer, once the payer has n. *)
Paid(b, from, to, n) ==
    IF from = to THEN b ELSE [b EXCEPT ![from] = @ - n, ![to] = @ + n]

Init ==
    /\ token = [a \in Account |-> IF a \in User THEN Initial ELSE 0]
    /\ info = [c \in Contract |-> [balance |-> 0, storage_root |-> EmptyStorage]]
    /\ tries = [c \in Contract |-> EmptyStorage]
    /\ pc = "idle" /\ tx = NoTx /\ balances = token /\ outcome = "ok"
    /\ calls = <<>> /\ origins = <<>> /\ transfers = <<>>
    /\ count = 0 /\ fees = 0 /\ minted = Initial * Cardinality(User)
    /\ written = tries /\ events = {}

-----------------------------------------------------------------------------
(***************************************************************************)
(* The EVM.                                                                *)
(***************************************************************************)

(* What a call does: the slots a contract writes and a payment it makes.   *)
(* Nothing when it fails, or when there is no code.                        *)
Writes == UNION {[D -> Value] : D \in SUBSET Slot}

NoWrite == [s \in {} |-> 0]

Idle(success, to) == [success |-> success, writes |-> NoWrite, payee |-> to, amount |-> 0]

Effects(to) ==
    {Idle(TRUE, to), Idle(FALSE, to)} \cup
    (IF to \in Contract
     THEN [success : {TRUE}, writes : Writes, payee : Account, amount : Amount]
     ELSE {})

Overlay(storage, writes) ==
    [s \in Slot |-> IF s \in DOMAIN writes THEN writes[s] ELSE storage[s]]

(* The EVM reads what was committed before the session: no outcome is ever *)
(* committed to its CacheDB.                                               *)
EvmBalance(c, to, value, e) ==
    info[c].balance + (IF c = to THEN value ELSE 0)
        + (IF c = e.payee THEN e.amount ELSE 0) - (IF c = to THEN e.amount ELSE 0)

(* Faulty: a slot that is cleared does not count as changed. *)
ChangedSlotsNonzero(c, writes) ==
    [s \in {s \in DOMAIN writes : writes[s] \notin {0, tries[c][s]}} |-> writes[s]]

(* changed_storage_slots: those that differ from what the EVM read.        *)
ChangedSlots(c, writes) ==
    [s \in {s \in DOMAIN writes : writes[s] # tries[c][s]} |-> writes[s]]

(* The touched contracts with their new balance and changed slots.         *)
Touched(to, value, e) ==
    [c \in Contract \cap ({to} \cup (IF e.amount > 0 THEN {e.payee} ELSE {})) |->
        [balance |-> EvmBalance(c, to, value, e),
         slots   |-> IF c = to THEN ChangedSlots(c, e.writes) ELSE NoWrite]]

(* Balance transfers that the EVM journal holds when a call ends.          *)
Moved(from, to, n) == IF n = 0 THEN <<>> ELSE <<[from |-> from, to |-> to, amount |-> n]>>

Journal(from, to, value, e) == Moved(from, to, value) \o Moved(to, e.payee, e.amount)

Written(to, e) ==
    IF to \in Contract THEN [written EXCEPT ![to] = Overlay(@, e.writes)] ELSE written

(* evm_transact_with_native: note the origin, run, keep the state changes. *)
(* A call that fails changes no contract and leaves no journal.            *)
Transact(from, to, value, e) ==
    /\ e.amount > 0 => e.amount <= info[to].balance + value
    /\ origins' = Append(origins, [from |-> Native, to |-> from, amount |-> value])
    /\ calls' = Append(calls, IF e.success THEN Touched(to, value, e) ELSE <<>>)
    /\ transfers' = IF e.success THEN transfers \o Journal(from, to, value, e)
                    ELSE transfers
    /\ written' = Written(to, e)

-----------------------------------------------------------------------------
(***************************************************************************)
(* Canonical transactions: verify_transaction, then the VM.                *)
(***************************************************************************)

(* Chain id, intrinsic gas, fees, nonce or payload: nothing happens.  Nor  *)
(* is anything written for a deposit that creates a contract, which ends   *)
(* the process.                                                            *)
RejectTransaction ==
    /\ pc = "idle"
    /\ UNCHANGED vars

(* Both fees are charged up front, for the whole limit. *)
VerifyTransaction(sender, limit, l1) ==
    /\ pc = "idle" /\ count < MaxTx
    /\ token[sender] >= l1 + limit
    /\ tx' = [kind |-> "canonical", sender |-> sender, limit |-> limit,
              l1 |-> l1, mint |-> 0]
    /\ balances' = Paid(token, sender, Treasury, l1 + limit)
    /\ pc' = "vm"
    /\ count' = count + 1
    /\ UNCHANGED <<state, log, outcome, fees, minted, written, events>>

(* A transfer of the base token, by the transaction or by a script in it.  *)
TransferToken(to, n) ==
    /\ pc = "vm"
    /\ n > 0 /\ balances[tx.sender] >= n
    /\ balances' = Paid(balances, tx.sender, to, n)
    /\ UNCHANGED <<state, pc, tx, log, outcome, history>>

(* withdraw_payment and get_asset_value: the value of a call is put into   *)
(* the account of the EVM native.                                          *)
EvmPaid(b, from, n) == Paid(b, from, Native, n)

(* Faulty: the value stays with the caller. *)
EvmCallUnpaid(to, value, e) ==
    /\ pc = "vm" /\ Len(calls) < MaxCalls
    /\ balances[tx.sender] >= value
    /\ Transact(tx.sender, to, value, e)
    /\ events' = IF calls = <<>> THEN events ELSE events \cup {"several"}
    /\ UNCHANGED <<state, pc, tx, balances, outcome, count, fees, minted>>

(* evm_call, evm_create: the value is paid, then the EVM runs. *)
EvmCall(to, value, e) ==
    /\ pc = "vm" /\ Len(calls) < MaxCalls
    /\ balances[tx.sender] >= value
    /\ balances' = EvmPaid(balances, tx.sender, value)
    /\ Transact(tx.sender, to, value, e)
    /\ events' = IF calls = <<>> THEN events ELSE events \cup {"several"}
    /\ UNCHANGED <<state, pc, tx, outcome, count, fees, minted>>

(* Faulty: the payments of the EVM are not repeated. *)
EndVmUnreplicated ==
    /\ pc = "vm"
    /\ pc' = "refund"
    /\ UNCHANGED <<state, tx, balances, log, outcome, history>>

(* The function returns. *)
EndVm ==
    /\ pc = "vm"
    /\ pc' = "replicate"
    /\ UNCHANGED <<state, tx, balances, log, outcome, history>>

(* It aborts, or runs out of gas: what it paid may be undone, or stay, and *)
(* with it a withdrawal whose deposit it did not come to.                  *)
AbortVm ==
    /\ pc = "vm"
    /\ outcome' = "user_error"
    /\ \/ balances' = Paid(token, tx.sender, Treasury, tx.l1 + tx.limit)
       \/ \E n \in Amount : /\ n <= balances[tx.sender]
                            /\ balances' = [balances EXCEPT ![tx.sender] = @ - n]
    /\ pc' = "refund"
    /\ events' = IF calls = <<>> THEN events ELSE events \cup {"aborted"}
    /\ UNCHANGED <<state, tx, log, count, fees, minted, written>>

Cleared ==
    /\ tx' = NoTx /\ outcome' = "ok"
    /\ calls' = <<>> /\ origins' = <<>> /\ transfers' = <<>>

(* Arguments do not fit the function: invalid after all, the session and   *)
(* the fees with it are dropped.                                           *)
InvalidInVm ==
    /\ pc = "vm" /\ calls = <<>>
    /\ pc' = "idle" /\ Cleared /\ balances' = token
    /\ UNCHANGED <<state, history>>

-----------------------------------------------------------------------------
(***************************************************************************)
(* Deposited transactions: no fee, no nonce, one EVM call.                 *)
(***************************************************************************)

(* The mint is meant to cover the value, but nothing checks that it does.  *)
Deposit(from, to, value, mint, e) ==
    /\ pc = "idle" /\ count < MaxTx
    /\ Transact(from, to, value, e)
    /\ tx' = [kind |-> "deposit", sender |-> from, limit |-> 0, l1 |-> 0,
              mint |-> IF e.success THEN mint ELSE 0]
    /\ balances' = token
    /\ outcome' = IF e.success THEN "ok" ELSE "user_error"
    /\ pc' = IF e.success THEN "mint" ELSE "commit"
    /\ count' = count + 1
    /\ events' = IF e.success /\ mint < value THEN events \cup {"underfunded"} ELSE events
    /\ UNCHANGED <<state, fees, minted>>

(* The new tokens go to the EVM native, to be handed on by the transfers.  *)
MintEth ==
    /\ pc = "mint"
    /\ balances' = [balances EXCEPT ![Native] = @ + tx.mint]
    /\ pc' = "replicate"
    /\ UNCHANGED <<state, tx, log, outcome, history>>

(* Gas runs out after the EVM call: an error of the user, nothing minted.  *)
DepositAborts ==
    /\ pc = "mint"
    /\ tx' = [tx EXCEPT !.mint = 0]
    /\ outcome' = "user_error"
    /\ pc' = "commit"
    /\ events' = events \cup {"deposit_aborted"}
    /\ UNCHANGED <<state, balances, log, count, fees, minted, written>>

(* Minting is metered and may run out of gas, which MintAlwaysSucceeds     *)
(* turns into a panic: the session is lost with the process.               *)
MintFails ==
    /\ pc = "mint" /\ tx.mint > 0
    /\ pc' = "idle" /\ Cleared /\ balances' = token
    /\ written' = tries
    /\ UNCHANGED <<state, count, fees, minted, events>>

-----------------------------------------------------------------------------
(***************************************************************************)
(* replicate_transfers: the values go back to the origins, then the        *)
(* payments of the EVM are repeated in order.                              *)
(***************************************************************************)
Replicated == origins \o transfers

payment == Head(Replicated)

ReplicateTransfer ==
    /\ pc = "replicate" /\ Replicated # <<>>
    /\ balances[payment.from] >= payment.amount
    /\ balances' = Paid(balances, payment.from, payment.to, payment.amount)
    /\ IF origins # <<>> THEN origins' = Tail(origins) /\ UNCHANGED transfers
       ELSE transfers' = Tail(transfers) /\ UNCHANGED origins
    /\ UNCHANGED <<state, pc, tx, calls, outcome, history>>

(* The payer has too little, or the gas is used up, with the tokens taken  *)
(* from the payer at worst.  The payments that are left are forgotten.     *)
ReplicateFails ==
    /\ pc = "replicate" /\ Replicated # <<>> /\ payment.amount > 0
    /\ balances' \in {balances} \cup
          (IF balances[payment.from] >= payment.amount
           THEN {[balances EXCEPT ![payment.from] = @ - payment.amount]} ELSE {})
    /\ outcome' = "user_error"
    /\ pc' = IF tx.kind = "canonical" THEN "refund" ELSE "commit"
    /\ events' = events \cup {IF tx.kind = "canonical" THEN "aborted" ELSE "deposit_aborted"}
    /\ UNCHANGED <<state, tx, log, count, fees, minted, written>>

ReplicateDone ==
    /\ pc = "replicate" /\ Replicated = <<>>
    /\ pc' = IF tx.kind = "canonical" THEN "refund" ELSE "commit"
    /\ UNCHANGED <<state, tx, balances, log, outcome, history>>

-----------------------------------------------------------------------------
(* Faulty: the whole limit comes back when the transaction failed. *)
RefundFailedInFull(used) ==
    /\ pc = "refund"
    /\ used \in IntrinsicGas..tx.limit
    /\ balances[Treasury] >= tx.limit - used
    /\ balances' = Paid(balances, Treasury, tx.sender,
                        IF outcome = "ok" THEN tx.limit - used ELSE tx.limit)
    /\ fees' = fees + tx.l1 + used
    /\ pc' = "commit"
    /\ UNCHANGED <<state, tx, log, outcome, count, minted, written, events>>

(* refund_gas_cost, not metered: what was charged and not used. *)
Refund(used) ==
    /\ pc = "refund"
    /\ used \in IntrinsicGas..tx.limit
    /\ balances[Treasury] >= tx.limit - used
    /\ balances' = Paid(balances, Treasury, tx.sender, tx.limit - used)
    /\ fees' = fees + tx.l1 + used
    /\ pc' = "commit"
    /\ UNCHANGED <<state, tx, log, outcome, count, minted, written, events>>

-----------------------------------------------------------------------------
(***************************************************************************)
(* The changes of the session, whatever its outcome (extract_evm_changes). *)
(***************************************************************************)
TouchedBy(c) == {k \in DOMAIN calls : c \in DOMAIN calls[k]}

(* Of several calls that touched a contract the last one counts: each trie *)
(* starts from the committed one, and `+` of two sets of trie changes has  *)
(* the root of the second.                                                 *)
LastChange(c) == calls[Max(TouchedBy(c))][c]

NewRoot(c) == Overlay(tries[c], LastChange(c).slots)

(* Faulty: only the balance is kept up to date. *)
CommitStateKeepingRoots ==
    /\ pc = "commit"
    /\ token' = balances
    /\ info' = [c \in Contract |->
                   IF TouchedBy(c) = {} THEN info[c]
                   ELSE [info[c] EXCEPT !.balance = LastChange(c).balance]]
    /\ minted' = minted + tx.mint
    /\ pc' = "tries"
    /\ UNCHANGED <<tries, tx, balances, log, outcome, count, fees, written, events>>

(* state.apply: Move resources and, among them, the account information.   *)
CommitState ==
    /\ pc = "commit"
    /\ token' = balances
    /\ info' = [c \in Contract |->
                   IF TouchedBy(c) = {} THEN info[c]
                   ELSE [balance |-> LastChange(c).balance, storage_root |-> NewRoot(c)]]
    /\ minted' = minted + tx.mint
    /\ pc' = "tries"
    /\ UNCHANGED <<tries, tx, balances, log, outcome, count, fees, written, events>>

(* evm_storage.apply: the trie nodes and the root of every touched account *)
CommitTries ==
    /\ pc = "tries"
    /\ tries' = [c \in Contract |-> IF TouchedBy(c) = {} THEN tries[c] ELSE NewRoot(c)]
    /\ pc' = "idle" /\ Cleared
    /\ UNCHANGED <<token, info, balances, history>>

Next ==
    \/ RejectTransaction
    \/ \E u \in User, limit \in IntrinsicGas..MaxLimit, l1 \in Amount :
          VerifyTransaction(u, limit, l1)
    \/ \E to \in Account, n \in Amount : TransferToken(to, n)
    \/ \E to \in Account, n \in Amount : \E e \in Effects(to) :
          \/ EvmCall(to, n, e)
          \/ \E u \in User, mint \in Amount : Deposit(u, to, n, mint, e)
    \/ EndVm \/ AbortVm \/ InvalidInVm
    \/ MintEth \/ MintFails \/ DepositAborts
    \/ ReplicateTransfer \/ ReplicateFails \/ ReplicateDone
    \/ \E used \in IntrinsicGas..MaxLimit : Refund(used)
    \/ CommitState \/ CommitTries

Spec == Init /\ [][Next]_vars

-----------------------------------------------------------------------------
(***************************************************************************)
(* Properties.                                                             *)
(***************************************************************************)

(* Every variable keeps to the values the code can store in it. *)
TypeOK ==
    /\ token \in [Account -> Nat] /\ balances \in [Account -> Nat]
    /\ info \in [Contract -> [balance : Nat, storage_root : [Slot -> Value]]]
    /\ tries \in [Contract -> [Slot -> Value]] /\ written \in [Contract -> [Slot -> Value]]
    /\ pc \in {"idle", "vm", "mint", "replicate", "refund", "commit", "tries"}
    /\ tx.sender \in User \cup {Native} /\ tx.limit \in 0..MaxLimit
    /\ tx.l1 \in Nat /\ tx.mint \in Nat
    /\ Len(calls) <= MaxCalls
    /\ origins \in Seq(Payment) /\ transfers \in Seq(Payment)
    /\ outcome \in {"ok", "user_error"}
    /\ count \in 0..MaxTx /\ fees \in Nat /\ minted \in Nat
    /\ events \subseteq {"several", "aborted", "deposit_aborted", "underfunded"}

Tokens(b) == SumOver(b, Account)

(* No transaction, failed or not, makes tokens: fees, refunds, values,     *)
(* payments repeated in Move and mints never add up to more than was       *)
(* minted.                                                                 *)
NothingFromNothing == Tokens(token) <= minted

(* RefundAlwaysSucceeds: when a transaction comes to its refund, the       *)
(* treasury still has all it was charged, although it shares its account   *)
(* with the EVM native, from which values are handed back.                 *)
RefundSucceeds == pc = "refund" => balances[Treasury] >= tx.limit

(* The storage root in a contract's account information, which proofs are  *)
(* made from, is the root of the contract's storage trie, whatever mixture *)
(* of calls and failures led there.                                        *)
RootsMatchTries ==
    pc # "tries" => \A c \in Contract : info[c].storage_root = tries[c]

Aborts == {"aborted", "deposit_aborted"}

(* "Ensure any base token balance changes in EVM are reflected in Move     *)
(* too": what a contract can spend in the EVM it has in Move, as long as   *)
(* no session fails after, or makes more than, one call.                   *)
CleanReflected ==
    (pc = "idle" /\ events \cap (Aborts \cup {"several"}) = {}) =>
        \A c \in Contract : info[c].balance <= token[c]

(* The treasury keeps what transactions were charged for L1 data and the   *)
(* gas they used, although anybody may pay it, its account may be the one  *)
(* that hands back the values of EVM calls, and sessions fail half way:    *)
(* in that account as long as deposits mint the value they hand on.        *)
CleanTreasury ==
    (pc = "idle" /\ (Treasury = Native => "underfunded" \notin events)) =>
        token[Treasury] >= fees

(* "... so that the EVM storage is consistent for the whole MoveVM         *)
(* session": the storage is that of the calls made one after the other.    *)
SessionConsistent == (pc = "idle" /\ events \cap Aborts = {}) => tries = written

(* ... which holds when every session makes one call only.                 *)
CleanConsistent ==
    (pc = "idle" /\ events \cap (Aborts \cup {"several"}) = {}) => tries = written
=============================================================================
