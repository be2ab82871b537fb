----------------------------- MODULE Application -----------------------------
(***************************************************************************)
(* The block-building application behind op-move's command actor, on the   *)
(* persistent storage backends (Heed/LMDB and RocksDB).                    *)
(*                                                                         *)
(* `Application::start_block_build` (app/src/command.rs) is one synchronous*)
(* handler, but each thing it writes is a database transaction of its own: *)
(* the state trie root after every transaction, the EVM storage tries, the *)
(* state root of the batch, the receipts, the transactions, the block and  *)
(* the payload id.  A crash (or a panic, which ends the process) may fall  *)
(* between any two of them, so every durable write is one action here.     *)
(*                                                                         *)
(* Abstractions.  The world state is the history of what was applied to it *)
(* (`applied`), and a state root is that history: equal roots mean equal   *)
(* histories.  A transaction is an element of Tx with a sender and a nonce;*)
(* what it does inside the VM is left out except for the account nonce     *)
(* that decides whether it may run.  keccak-256 is a free constructor.     *)
(***************************************************************************)
EXTENDS Integers, Sequences, FiniteSets, Functions

CONSTANTS Tx,          \* transaction hashes (with the transaction they name)
          Deposit,     \* the deposited ones: no signature, no nonce check
          Account,     \* senders of canonical transactions
          Sender,      \* Sender[t]: who signed t
          Nonce,       \* Nonce[t]: the nonce t carries
          MaxNonce,    \* u64::MAX, the nonce of an exhausted account
          Unexecutable,\* deposits on which execution panics
          Short,       \* deposits too short to hold the L1 fee parameters
          Undecodable, \* bytes in the payload attributes that are no transaction
          Genesis,     \* the genesis change set, as an entry of `applied`
          PayloadId,   \* identifiers of payloads
          Payload,     \* the payload attributes the consensus client may send
          MaxCrashes   \* bound: how often the process may be killed

ASSUME TxAssumption ==
    /\ Deposit \subseteq Tx
    /\ Unexecutable \subseteq Deposit /\ Short \subseteq Deposit
    /\ Sender \in [Tx -> Account]
    /\ Nonce \in [Tx -> Nat]
    /\ MaxNonce \in Nat

ASSUME MarkerAssumption == Undecodable \notin Tx /\ Genesis \notin Tx

ASSUME PayloadAssumption ==
    \A p \in Payload : /\ p.timestamp \in Nat
                       /\ p.transactions \in Seq(Tx \cup {Undecodable})

ASSUME CrashAssumption == MaxCrashes \in Nat

(***************************************************************************)
(* What the databases hold.                                                *)
(***************************************************************************)
VARIABLES applied,      \* world state behind the persisted trie root
          nonces,       \* sequence numbers of the Move accounts in that state
          evm,          \* what the EVM storage tries contain
          state_roots,  \* height DB of state roots: index i is state height i
          receipts,     \* transaction hash -> receipt
          transactions, \* transaction hash -> where the transaction is
          blocks,       \* block and height databases: index i is height i - 1
          payloads      \* payload id -> block hash

(***************************************************************************)
(* What only lives in the process.                                         *)
(***************************************************************************)
VARIABLES pc,           \* what the actor's thread is about to do
          mem_pool,     \* pending transactions, a HashMap keyed by hash
          (* locals of the running start_block_build *)
          build,        \* the payload id and timestamp
          pending,      \* transactions still to be executed
          included,     \* transactions listed in the block
          executed      \* those among them that have a receipt

(* History: how often the process was killed, and whether a kill ever      *)
(* interrupted a build that had already written something.                 *)
VARIABLES crashes, torn

state == <<applied, nonces, evm, state_roots>>
repositories == <<receipts, transactions, blocks, payloads>>
disk == <<state, repositories>>
locals == <<build, pending, included, executed>>
memory == <<mem_pool, locals>>
history == <<crashes, torn>>
vars == <<disk, pc, memory, history>>

Canonical == Tx \ Deposit

Entry == Tx \cup {Genesis}

-----------------------------------------------------------------------------
(***************************************************************************)
(* Blocks.                                                                 *)
(***************************************************************************)

(* keccak-256 of the RLP-encoded header: distinct headers, distinct hashes *)
BlockHash(header) == [keccak256 |-> header]

NoHash == [keccak256 |-> <<>>]

(* The genesis block comes from op-geth, hence with a root that is not a   *)
(* history of this state; root_by_height(0) is the configured root instead.*)
GenesisBlock ==
    [header |-> [parent_hash |-> NoHash, number |-> 0, timestamp |-> 0,
                 transactions |-> <<>>, state_root |-> <<>>],
     payload_id |-> 0]


IsPrefix(s, t) == Len(s) <= Len(t) /\ SubSeq(t, 1, Len(s)) = s

HashesOf(bs) == {BlockHash(bs[i].header) : i \in DOMAIN bs}

latest == blocks[Len(blocks)]

(* The world state that the newest block describes. *)
TipState == IF Len(blocks) <= 1 THEN <<Genesis>> ELSE latest.header.state_root

(* Faulty: the block claims its parent's height and parent. *)
NewHeaderSibling ==
    [parent_hash  |-> latest.header.parent_hash,
     number       |-> latest.header.number,
     timestamp    |-> build.timestamp,
     transactions |-> included,
     state_root   |-> applied]

(* Faulty: the root is derived from the parent's, not from the state. *)
NewHeaderOnParent ==
    [parent_hash  |-> BlockHash(latest.header),
     number       |-> latest.header.number + 1,
     timestamp    |-> build.timestamp,
     transactions |-> included,
     state_root   |-> TipState \o executed]

(* The header start_block_build puts together once execution is over. *)
NewHeader ==
    [parent_hash  |-> BlockHash(latest.header),
     number       |-> latest.header.number + 1,
     timestamp    |-> build.timestamp,
     transactions |-> included,
     state_root   |-> applied]

NoBuild == [id |-> 0, timestamp |-> 0]

(* HashMap::drain yields the pool in any order. *)
DrainOrders(pool) == {s \in [1..Cardinality(pool) -> pool] : Range(s) = pool}

-----------------------------------------------------------------------------
(***************************************************************************)
(* Process start: initialize_app and moved_genesis::apply.                 *)
(***************************************************************************)
Init ==
    /\ applied = <<>> /\ evm = <<>> /\ state_roots = <<>>
    /\ nonces = [a \in Account |-> 0]
    /\ receipts = <<>> /\ transactions = <<>> /\ payloads = <<>>
    /\ blocks = <<>>
    /\ pc = "down" /\ mem_pool = {}
    /\ build = NoBuild /\ pending = <<>> /\ included = <<>> /\ executed = <<>>
    /\ crashes = 0 /\ torn = FALSE

(* Faulty: the genesis state is built at every start. *)
StartAlwaysGenesis ==
    /\ pc \in {"down", "panicked"}
    /\ pc' = "genesis_state"
    /\ UNCHANGED <<disk, memory, history>>

(* A process opens the databases; the genesis state is built only when     *)
(* there is no block yet.                                                  *)
Start ==
    /\ pc \in {"down", "panicked"}
    /\ pc' = IF blocks = <<>> THEN "genesis_state" ELSE "idle"
    /\ UNCHANGED <<disk, memory, history>>

(* Writing the genesis changes over a state that already has them changes  *)
(* nothing; over any other state it gives a state nobody expects.          *)
GenesisState ==
    /\ pc = "genesis_state"
    /\ applied' = IF applied \in {<<>>, <<Genesis>>}
                  THEN <<Genesis>> ELSE Append(applied, Genesis)
    /\ pc' = "genesis_evm"
    /\ UNCHANGED <<nonces, evm, state_roots, repositories, memory, history>>

(* EVM storage of the genesis contracts, then assert_eq! on the state root *)
GenesisEvm ==
    /\ pc = "genesis_evm"
    /\ evm' = IF evm \in {<<>>, <<Genesis>>}
              THEN <<Genesis>> ELSE Append(evm, Genesis)
    /\ pc' = IF applied = <<Genesis>> THEN "idle" ELSE "panicked"
    /\ UNCHANGED <<applied, nonces, state_roots, repositories, memory, history>>

-----------------------------------------------------------------------------
(***************************************************************************)
(* Commands: AddTransaction, GenesisUpdate, StartBlockBuild.               *)
(***************************************************************************)
AddTransaction(tx) ==
    /\ pc = "idle"
    /\ mem_pool' = mem_pool \cup {tx}
    /\ UNCHANGED <<disk, pc, locals, history>>

(* An EIP-4844 transaction decodes but is not supported: unreachable!().   *)
AddUnsupportedTransaction ==
    /\ pc = "idle"
    /\ pc' = "panicked"
    /\ mem_pool' = {}
    /\ UNCHANGED <<disk, locals, history>>

(* Faulty: the chain starts over. *)
GenesisUpdateTruncating ==
    /\ pc = "idle"
    /\ blocks' = <<GenesisBlock>>
    /\ UNCHANGED <<state, receipts, transactions, payloads, pc, memory, history>>

(* Sent for every request of block zero: the same record is put again. *)
GenesisUpdate ==
    /\ pc = "idle"
    /\ blocks' = IF blocks = <<>> THEN <<GenesisBlock>>
                 ELSE [blocks EXCEPT ![1] = GenesisBlock]
    /\ UNCHANGED <<state, receipts, transactions, payloads, pc, memory, history>>

(* Faulty: no look at the payloads. *)
IsKnownNever(id) == FALSE

(* payload_queries.by_id(id).is_some() *)
IsKnown(id) == id \in DOMAIN payloads

(* Faulty: the pool is drained before the payload is looked up. *)
BuildKnownPayloadDraining(id) ==
    /\ pc = "idle"
    /\ IsKnown(id)
    /\ mem_pool' = {}
    /\ UNCHANGED <<disk, pc, locals, history>>

(* The payload is known: return before anything is touched. *)
BuildKnownPayload(id) ==
    /\ pc = "idle"
    /\ IsKnown(id)
    /\ UNCHANGED vars

(* Collect the transactions of the attributes followed by the drained      *)
(* pool.  `pending` still holds the entries that the decoding and the      *)
(* receipt filter drop: the receipts do not change until execution is over,*)
(* so they are dropped when execution comes to them.                       *)
StartBlockBuild(attributes, id) ==
    /\ pc = "idle"
    /\ ~IsKnown(id)
    /\ blocks # <<>>
    /\ \E drained \in DrainOrders(mem_pool) :
          pending' = attributes.transactions \o drained
    /\ build' = [id |-> id, timestamp |-> attributes.timestamp]
    /\ included' = <<>> /\ executed' = <<>>
    /\ mem_pool' = {}
    /\ pc' = "execute"
    /\ UNCHANGED <<disk, history>>

(* expect("Parent block should exist"): the process dies. *)
BuildWithoutParent(id) ==
    /\ pc = "idle"
    /\ ~IsKnown(id)
    /\ blocks = <<>>
    /\ pc' = "panicked"
    /\ mem_pool' = {}
    /\ UNCHANGED <<disk, locals, history>>

-----------------------------------------------------------------------------
(***************************************************************************)
(* execute_transactions, one entry of the list at a time.                  *)
(***************************************************************************)
next_tx == Head(pending)

(* Faulty: what has a receipt is executed once more. *)
IsDroppedUndecodableOnly(tx) == tx = Undecodable

(* Bytes that do not decode, and transactions with a receipt. *)
IsDropped(tx) == tx = Undecodable \/ tx \in DOMAIN receipts

(* Faulty: no nonce check, and one that lets a sender run ahead. *)
NonceMatchesAny(tx) == Nonce[tx] # MaxNonce
NonceMatchesAhead(tx) == Nonce[tx] >= nonces[Sender[tx]] /\ Nonce[tx] # MaxNonce

(* check_nonce: canonical transactions run only on their turn. *)
NonceMatches(tx) ==
    /\ Nonce[tx] = nonces[Sender[tx]]
    /\ Nonce[tx] # MaxNonce

(* A deposit that creates a contract is unimplemented!(), one that runs    *)
(* out of gas while its tokens are minted is an InvariantViolation, and    *)
(* for_deposit slices the input of the first transaction that survives the *)
(* filters, if a deposit, whatever its length.                             *)
Panics(tx) == tx \in Unexecutable \/ (tx \in Short /\ included = <<>>)

(* Faulty: the entry stays at the head of the list. *)
DropPendingStuck ==
    /\ pc = "execute" /\ pending # <<>>
    /\ IsDropped(next_tx)
    /\ UNCHANGED vars

DropPending ==
    /\ pc = "execute" /\ pending # <<>>
    /\ IsDropped(next_tx)
    /\ pending' = Tail(pending)
    /\ UNCHANGED <<disk, pc, mem_pool, build, included, executed, history>>

(* Normalization failed or the outcome is InvalidTransaction (chain id,    *)
(* intrinsic gas, fees, nonce): no change, no receipt, but the transaction *)
(* stays in the block's list.  Deposits are never invalid.                 *)
SkipInvalid ==
    /\ pc = "execute" /\ pending # <<>>
    /\ ~IsDropped(next_tx)
    /\ next_tx \in Canonical
    /\ pending' = Tail(pending)
    /\ included' = Append(included, next_tx)
    /\ UNCHANGED <<disk, pc, mem_pool, build, executed, history>>

(* Faulty: an executed transaction is left out of the block's list. *)
ApplyStateUnlisted ==
    /\ pc = "execute" /\ pending # <<>>
    /\ ~IsDropped(next_tx) /\ ~Panics(next_tx)
    /\ next_tx \in Canonical => NonceMatches(next_tx)
    /\ applied' = Append(applied, next_tx)
    /\ nonces' = IF next_tx \in Canonical
                 THEN [nonces EXCEPT ![Sender[next_tx]] = @ + 1] ELSE nonces
    /\ pending' = Tail(pending)
    /\ executed' = Append(executed, next_tx)
    /\ pc' = "evm"
    /\ UNCHANGED <<evm, state_roots, repositories, mem_pool, build, included, history>>

(* The changes of the transaction, the increment of the sender's nonce     *)
(* among them, are written and the new trie root is persisted.             *)
ApplyState ==
    /\ pc = "execute" /\ pending # <<>>
    /\ ~IsDropped(next_tx) /\ ~Panics(next_tx)
    /\ next_tx \in Canonical => NonceMatches(next_tx)
    /\ applied' = Append(applied, next_tx)
    /\ nonces' = IF next_tx \in Canonical
                 THEN [nonces EXCEPT ![Sender[next_tx]] = @ + 1] ELSE nonces
    /\ pending' = Tail(pending)
    /\ included' = Append(included, next_tx)
    /\ executed' = Append(executed, next_tx)
    /\ pc' = "evm"
    /\ UNCHANGED <<evm, state_roots, repositories, mem_pool, build, history>>

(* Faulty: the root is pushed per transaction as well as per batch. *)
ApplyEvmPushingRoot ==
    /\ pc = "evm"
    /\ evm' = Append(evm, executed[Len(executed)])
    /\ state_roots' = Append(state_roots, applied)
    /\ pc' = "execute"
    /\ UNCHANGED <<applied, nonces, repositories, memory, history>>

(* evm_storage.apply, a write of its own after the state's. *)
ApplyEvm ==
    /\ pc = "evm"
    /\ evm' = Append(evm, executed[Len(executed)])
    /\ pc' = "execute"
    /\ UNCHANGED <<applied, nonces, state_roots, repositories, memory, history>>

(* on_tx_batch: push_state_root counts its own heights. *)
PushStateRoot ==
    /\ pc = "execute" /\ pending = <<>>
    /\ state_roots' = Append(state_roots, applied)
    /\ pc' = "receipts"
    /\ UNCHANGED <<applied, nonces, evm, repositories, memory, history>>

-----------------------------------------------------------------------------
(***************************************************************************)
(* The repositories, in the order start_block_build writes them.           *)
(***************************************************************************)

(* Zero-based position of the last occurrence: a later put of the same key *)
(* replaces an earlier one.                                                *)
LastIndex(s, t) ==
    (CHOOSE i \in DOMAIN s : s[i] = t /\ \A j \in DOMAIN s : s[j] = t => j <= i) - 1

Put(db, keys, value(_)) ==
    [t \in DOMAIN db \cup keys |-> IF t \in keys THEN value(t) ELSE db[t]]

Located(s, t) == [block_hash   |-> BlockHash(NewHeader),
                  block_number |-> NewHeader.number,
                  index        |-> LastIndex(s, t)]

ExtendReceipts ==
    /\ pc = "receipts"
    /\ receipts' = Put(receipts, Range(executed),
                       LAMBDA t : Located(executed, t))
    /\ pc' = "transactions"
    /\ UNCHANGED <<state, transactions, blocks, payloads, memory, history>>

ExtendTransactions ==
    /\ pc = "transactions"
    /\ transactions' = Put(transactions, Range(included),
                           LAMBDA t : Located(included, t))
    /\ pc' = "block"
    /\ UNCHANGED <<state, receipts, blocks, payloads, memory, history>>

AddBlock ==
    /\ pc = "block"
    /\ blocks' = Append(blocks, [header |-> NewHeader, payload_id |-> build.id])
    /\ pc' = "payload"
    /\ UNCHANGED <<state, receipts, transactions, payloads, memory, history>>

(* The locals go out of scope. *)
ForgetBuild ==
    build' = NoBuild /\ pending' = <<>> /\ included' = <<>> /\ executed' = <<>>

OnPayload ==
    /\ pc = "payload"
    /\ payloads' = Put(payloads, {build.id}, LAMBDA id : BlockHash(latest.header))
    /\ pc' = "idle"
    /\ ForgetBuild
    /\ UNCHANGED <<state, receipts, transactions, blocks, mem_pool, history>>

-----------------------------------------------------------------------------
(* A kill or a power cut.                                                  *)
Kill ==
    /\ pc \notin {"down", "panicked"}
    /\ crashes < MaxCrashes
    /\ crashes' = crashes + 1
    /\ pc' = "down"

(* execute_transactions panics on a deposit, which will be back in the     *)
(* attributes of every retry.                                              *)
ExecutionPanics ==
    /\ pc = "execute" /\ pending # <<>>
    /\ ~IsDropped(next_tx) /\ Panics(next_tx)
    /\ pc' = "panicked"
    /\ UNCHANGED crashes

(* The process ends in the middle of what it does: its memory is gone.     *)
Crash ==
    /\ Kill \/ ExecutionPanics
    /\ mem_pool' = {} /\ ForgetBuild
    /\ torn' = (torn \/ pc \in {"receipts", "transactions", "block", "payload"}
                     \/ executed # <<>>)
    /\ UNCHANGED disk

Command ==
    \/ \E tx \in Canonical : AddTransaction(tx)
    \/ AddUnsupportedTransaction
    \/ GenesisUpdate
    \/ \E id \in PayloadId : BuildKnownPayload(id) \/ BuildWithoutParent(id)
    \/ \E p \in Payload, id \in PayloadId : StartBlockBuild(p, id)

BuildStep ==
    \/ DropPending \/ SkipInvalid \/ ApplyState \/ ApplyEvm \/ PushStateRoot
    \/ ExtendReceipts \/ ExtendTransactions \/ AddBlock \/ OnPayload

Next == Start \/ GenesisState \/ GenesisEvm \/ Command \/ BuildStep \/ Crash

Spec == Init /\ [][Next]_vars

-----------------------------------------------------------------------------
(***************************************************************************)
(* Properties.  Those called Clean... are promised only as long as no kill *)
(* has interrupted a build between two of its writes (~torn).              *)
(***************************************************************************)

(* Every variable keeps to the values the code can store in it. *)
TypeOK ==
    /\ applied \in Seq(Entry) /\ evm \in Seq(Entry)
    /\ nonces \in [Account -> Nat]
    /\ state_roots \in Seq(Seq(Entry))
    /\ DOMAIN receipts \subseteq Tx /\ DOMAIN transactions \subseteq Tx
    /\ DOMAIN payloads \subseteq PayloadId
    /\ blocks \in Seq(Range(blocks))
    /\ pc \in {"down", "panicked", "genesis_state", "genesis_evm", "idle",
               "execute", "evm", "receipts", "transactions", "block", "payload"}
    /\ mem_pool \subseteq Canonical /\ IsFiniteSet(mem_pool)
    /\ build \in [id : PayloadId \cup {0}, timestamp : Nat]
    /\ pending \in Seq(Tx \cup {Undecodable})
    /\ included \in Seq(Tx) /\ executed \in Seq(Tx)
    /\ crashes \in 0..MaxCrashes /\ torn \in BOOLEAN

(* Heights are gapless and every block names the hash of the one below it, *)
(* whatever crashes, repeated genesis updates and rebuilt payloads do to   *)
(* `latest` (block_repository.latest / add).                               *)
ChainLinked ==
    \A i \in DOMAIN blocks :
        /\ blocks[i].header.number = i - 1
        /\ i = 1 => blocks[i] = GenesisBlock
        /\ i > 1 => blocks[i].header.parent_hash = BlockHash(blocks[i - 1].header)

(* A signed transaction changes the state at most once, in whatever pool,  *)
(* attribute list, block or process life it turns up again (check_nonce);  *)
(* the receipt filter alone cannot ensure it, receipts being written last. *)
CanonicalOnce ==
    \A i, j \in DOMAIN applied :
        (applied[i] = applied[j] /\ applied[i] \in Canonical) => i = j

(* The nonces of one sender are consumed in order and without a gap.       *)
NoncesConsumedInOrder ==
    \A i \in DOMAIN applied : applied[i] \in Canonical =>
        Nonce[applied[i]] =
            Cardinality({j \in 1..(i - 1) : /\ applied[j] \in Canonical
                                            /\ Sender[applied[j]] = Sender[applied[i]]})

(* No block describes a state that was later undone: the state roots along *)
(* the chain are successive versions of the one state, the stored state    *)
(* being the newest (the state has no rollback).                           *)
RootsNested ==
    \A i \in DOMAIN blocks : i > 1 =>
        /\ IsPrefix(blocks[i].header.state_root, applied)
        /\ i > 2 => IsPrefix(blocks[i - 1].header.state_root, blocks[i].header.state_root)

(* A process that starts over because no block was stored finds a state on *)
(* which the genesis changes give the configured root: the assert_eq! of   *)
(* moved_genesis::apply never fails, however often startup was interrupted.*)
GenesisReapplies == pc = "genesis_evm" => applied = <<Genesis>>

(* Every block's height resolves to some state version, so a query at      *)
(* `latest` is never answered with "unknown height".                       *)
HeightHasState == \A i \in DOMAIN blocks : i > 1 => i - 1 \in DOMAIN state_roots

(* getPayload keeps answering with the same block once it has answered:    *)
(* asking to build a known id again changes nothing.                       *)
PayloadsStable ==
    [][\A id \in DOMAIN payloads :
          id \in DOMAIN payloads' /\ payloads'[id] = payloads[id]]_vars

(* A receipt, once stored, is never replaced or lost.                      *)
ReceiptsStable ==
    [][\A t \in DOMAIN receipts :
          t \in DOMAIN receipts' /\ receipts'[t] = receipts[t]]_vars

(* The state version stored for a block's height is that block's root.     *)
VersionAtHeight ==
    \A i \in DOMAIN blocks : (i > 1 /\ i - 1 \in DOMAIN state_roots) =>
        state_roots[i - 1] = blocks[i].header.state_root

(* ... which no build that ran to its end violates.                        *)
CleanVersionAtHeight == ~torn => VersionAtHeight

(* What a block adds to its parent's state is among the transactions that  *)
(* it lists: nothing that an earlier, unfinished build did is part of it.  *)
CleanReplay ==
    ~torn => \A i \in DOMAIN blocks : i > 1 =>
        LET parent == IF i = 2 THEN <<Genesis>> ELSE blocks[i - 1].header.state_root
            root   == blocks[i].header.state_root
        IN  /\ IsPrefix(parent, root)
            /\ \A k \in (Len(parent) + 1)..Len(root) :
                   root[k] \in Range(blocks[i].header.transactions)

(* The chain of blocks, crashes and all, implements the ledger: a block is *)
(* added on top of the newest one or nothing happens to the chain.         *)
L == INSTANCE Ledger WITH
        versions <- [i \in DOMAIN blocks |->
                        IF i = 1 THEN <<Genesis>> ELSE blocks[i].header.state_root]

ImplementsLedger == L!Spec
=============================================================================
