# TLA+ specifications of op-move

op-move is a layer-2 execution engine of the OP stack that runs Move and EVM
code on one state. This directory holds TLA+ modules of its core, TLC
configurations that check them on small instances, and proofs, checked by
TLAPS, for all values of the constants. `PROJECT.json` maps every definition to
the lines it models, and lists components, runs, mutants, findings, hazards and
theorems.

## 1. The system

| Part | State it keeps | Operations | Interacts with |
|---|---|---|---|
| `server` | JWT secret, the queue handle, the kill signal | start, proxy and mirror requests, shut down | op-geth, `api`, `app` |
| `api` | none | engine and eth JSON-RPC methods | sends commands into the queue, queries the reader |
| `app` queue and actor | a bounded channel | `send`, `wait_for_pending_commands`, `work` | handlers (many) and the actor (one) |
| `app` Application | `mem_pool` and the databases below | `add_transaction`, `start_block_build`, `genesis_update` | `execution`, `blockchain`, storage |
| `blockchain`, `storage/*` | state trie and roots by height, EVM storage tries, receipts, transactions, blocks by hash and height, payload ids | one database transaction per write | written by Application, read by queries |
| `execution` | one Move VM session per transaction | verify, run, replicate transfers, refund | Move VM, `evm-ext` |
| `evm-ext` | EVM database, state changes, transfer log of the session | EVM call and create, extraction of changes | revm, Move VM |
| `state`, `trie` | trie nodes and roots, staged nodes of storage tries | apply a change set, open a trie at a root | written by Application through `evm-ext` and `State` |
| `genesis`, `genesis-builder` | the genesis change set | `build`, `apply` | state and EVM tries |

**What is hard.** Only one actor changes the chain, so the difficulties are
not data races: they are (1) a build that is seven and more separate durable
writes and may be cut off between any two; (2) answers given before anything is
done: a forkchoice update and the request for block zero return when their
command is queued, in memory; (3) a client that repeats itself; (4) a queue whose
`wait` competes with its `send` for the same slots; (5) one token kept by two
machines, whose agreement depends on steps at the end of a session that may not
be reached; (6) counters of their own (state heights, payload ids, nonces,
receipt and log indexes) that have to stay in step with the chain; (7) readers in
other threads that see one block appear in six structures one after the other;
(8) nested values that are validated and encoded by their type on one side and
by their layout on the other. `PROJECT.json` lists them as hazards, each
at its line and with the properties aimed at it.

## 2. Modules

`Application` is the centre. `Node` extends it with the queue and the outside
world, `Ledger` is the abstract specification it implements. The other modules
look closer at one side of it: `CommandQueue`, which implements `Mailbox`, at the queue, `Execution` at what
one transaction does to two machines, `Fees` at what it costs, `Tries` at what
"the state is written" means, `Reader` at what queries see meanwhile,
`Arguments` at what is passed to an entry function, and `AbiEcho`, which extends
`Arguments`, at the values that go to the EVM and come back.

| Module | Models | State and actions |
|---|---|---|
| `Application` | `app/src/command.rs` on the heed and rocksdb backends, `genesis::apply`, process start | a variable per database; one action per durable write of a build (`ApplyState`, `ApplyEvm`, `PushStateRoot`, `ExtendReceipts`, `ExtendTransactions`, `AddBlock`, `OnPayload`); `Crash` anywhere between them |
| `Ledger` | nothing: what the chain promises | `versions` of the state, to which one is only ever added |
| `Node` | the engine and transaction methods of `api`, `server::mirror`, the actor loop | `queue` and the consensus client (external); a handler is one action; `Handle` calls the actions of Application |
| `SeqOps` | iterator sums and filters of the code | operators: partial sums, totals over sequences and sets, selection, as recursive functions |
| `CommandQueue` | `app/src/queue.rs`, `actor.rs` | messages, permits and waiters of the tokio channel (external), clients, the actor; sends, waits, cancellation, panic, end of the loop |
| `Mailbox` | nothing: what handlers and actor rely on | accepted commands wait in order in at most so many slots, are taken and finished one at a time, or dropped when a handler breaks down |
| `Execution` | `execution/src/{canonical,deposited,eth_token,execute}.rs`, `evm-ext`, the token and EVM Move modules | balances in Move, account information and tries of EVM contracts; one action per step of a session |
| `Fees` | `blockchain/src/block/gas.rs`, `execution/src/gas.rs`, the prices, receipts and sums of `start_block_build` and `execute_transactions` | the parent block, the block under construction, the last sealed one; transactions are executed, skipped or filtered, a block is sealed |
| `Tries` | `state/src`, `trie/src`, `evm-ext/src/state`, the trie databases and state queries of heed and rocksdb | databases of trie nodes and the roots recorded beside them; one action per batch of nodes and per root, `Restart` between any two |
| `VersionedStore` | nothing: what the state databases promise | a current content and an append-only list of versions |
| `Reader` | the in-memory backend, `app/src/query.rs`, the query methods of `api` | five maps published one by one by the actor, the shared trie database, one query in progress with what it has read so far; every lookup of a query, each transaction of a block included, is a step of its own |
| `MoveValues` | Move types and values (mostly external) | operators: parts of types and values, and everything inside them down to the nesting limit of the VM (`Inside`, `TypesInside`), as recursive functions |
| `TagValidation` | `execution/src/tag_validation.rs`, `layout.rs` | operators: one turn of each loop of the validation |
| `SolidityAbi` | `evm-ext/src/solidity_abi.rs`, address conversions | operators: Move value to ABI words and back |
| `Arguments` | the validation of one argument in `execute_entry_function` | type, value and the place of the walk: over the type tag, over the layout, over the value with a stack; one action per turn |
| `AbiEcho` | the natives `abi_encode_params` and `abi_decode_params` | a value the program has made, or an argument `Arguments` has let in, is encoded for the EVM, returned as it is and decoded |

Main abstractions, each explained at the head of its module:

* a state root is the history of the transactions that led to it; keccak-256 is
  a free constructor; a payload id is a number built from head and timestamp;
* a transaction is a sender and a nonce in `Application`, a limit, an L1 cost
  and a choice of effects in `Execution`, prices, byte counts and a kind in
  `Fees`;
* gas used is a choice: what is metered may run out at any point;
* what an EVM call does (slots written, one payment, success) is a choice; a
  contract is there from the beginning, so a creation is its first call;
* `Application` and `Execution` are separate: an entry of `applied` stands for
  a whole session of `Execution`, whose two commits are `ApplyState` and
  `ApplyEvm`, and these in turn are the node and root writes of `Tries`;
* in `Tries` a root stands for the content it hashes and a trie is a root node
  with one leaf per key: sharing and loss of nodes show, the shape of paths does
  not. A predeployed account has storage from the genesis on;
* in `Reader` a block stands for its hash and its payload id by its number;
* in `SolidityAbi` an encoding is a sequence of words with offsets, integers and
  lengths are small, and what alloy does with a `DynSolValue` is external.

History variables (`crashes`, `torn`, `lost`, `changed`, `accepted`, `sent`,
`handled`, `target`, `fees`, `minted`, `written`, `events`, `known`,
`collected`) record what happened and are never read by a guard, but for the
bounds on crashes and transactions. Operators whose comment begins with "Faulty"
are deliberate faults for the mutants and not part of any specification.

## 3. Runs

| Run | Configuration | Distinct states | Result |
|---|---|---|---|
| `app` | 2 deposits, on one of which execution panics, 2 signed transactions of one account, 2 payload ids, 4 attribute lists, 1 crash | 1 810 444 | pass |
| `queue` | 2 clients, 2 slots, 3 operations each | 133 597 | pass |
| `node` | 2 deposits, one of them too short to begin a block, 1 signed and 1 unsupported transaction, 2 attribute lists, 2 slots, 1 crash | 1 244 811 | pass |
| `node_live` | 1 slot, no unsupported transaction, fairness | 131 356 | pass |
| `exec` | 1 user, 1 contract, 1 slot, 2 transactions, 2 EVM calls each, treasury = EVM native, anybody may be paid | 3 710 970 | pass |
| `exec_session` | 2 slots | | violation |
| `tries` | 2 accounts, 1 of them predeployed, 2 slots, 1 resource, 2 transactions of 2 calls, 2 heights, 1 crash | 423 986 | pass |
| `reader` | 2 transactions, 2 blocks on top of the genesis, BLOCKHASH reaches 1 block | 855 790 | pass |
| `reader_storage` | 1 transaction, 1 block | | violation |
| `fees` | 5 transactions of different kinds, any 2 of them in the attributes and 1 in the pool, repeated or not, any number of blocks, prices that saturate at 6 | 326 022 | pass |
| `values` | 5 primitive types, strings, objects, options, fixed bytes and arrays, fixed points, nested to three levels, vectors of up to 2; the nesting limit is 6; each as an argument and, where a program can make it, as a value of its own | 125 123 | pass |
| `echo_strings` | the same | | violation |

**Why the bounds are enough.** One crash falls between any two writes and lets
a build be repeated afterwards, which is where torn writes show. Two nonces of
one account give the wrong order, the gap and the replay; four lists give a
deposit alone, a deposit repeated next to a pooled transaction, undecodable bytes
and a deposit on which the build panics half way. Two slots of the queue let one wait compete with two sends and with
another wait. Two transactions let a deposit or a call give the contract what
the next session spends; two calls in a session let the second read what the
first wrote. Two slots of a trie let tries of different heights share one leaf
and differ in the other. Two blocks let a query that was begun under one be
answered under the next, and a skipped transaction be listed again. The base fee
is bounded by its saturation, so the fee run has no bound on blocks; the
transactions offer less and more than what the fee can become, the attributes
repeat each other and the pool, one deposit is too short to begin a block, and
the gas limit 1 makes the gas target zero. Three levels of nesting make every kind of
value contain every other. What does not depend on such a bound is proved
(section 5).

**What the properties say.**

* `app` — over any crash the chain is linked (`ChainLinked`), signed
  transactions apply in nonce order and so only once (`NoncesConsumedInOrder`,
  which implies `CanonicalOnce`), roots are successive versions of one state
  (`RootsNested`), startup can be repeated (`GenesisReapplies`), receipts and
  payloads never change (`ReceiptsStable`, `PayloadsStable`), and all of it
  implements `Ledger` (`ImplementsLedger`). Until a crash falls between two
  writes of a build, the version at a height is the block's
  (`CleanVersionAtHeight`) and what a block adds to its parent's state is among
  what it lists (`CleanReplay`).
* `queue` — slots are conserved over cancellation (`PermitsConserved`), nobody is
  stuck (`OperationsComplete`), nothing accepted is lost without a panic
  (`AcceptedIsHandled`), a wait leaves at most the command in progress
  (`WaitLeavesAtMostOne`), and to its users the queue is a `Mailbox`
  (`ImplementsMailbox`).
* `node` — a build finds its parent (`CleanParentExists`), the blocks the client
  relies on stay in the chain (`ClientBlocksStored`), accepted transactions are
  accounted for (`CleanAccounted`) and a client that repeats itself unchanged
  gets what it asked for (`CleanAsRequested`). `node_live`: it gets its payload,
  or comes to ask for a list on which execution panics (`PayloadDelivered`).
  Such a list has a deposit that cannot be executed, or begins, after what was
  processed before, with one too short for the L1 fee parameters: it is back
  with every retry, and the code never delivers it. Three more ways to go
  without a payload are not in the instance: unsupported transactions, each of
  which ends the process and drops the queue, so that users could keep a node
  from ever building; a kill that cost the node its genesis block
  (`CleanParentExists`); and a gas target of zero, which is the panic
  `StartPanics` of `Fees`.
* `exec` — transactions never make tokens (`NothingFromNothing`), the
  refund can be paid (`RefundSucceeds`), storage roots in the state are those of
  the tries (`RootsMatchTries`); the treasury keeps at least the fees, whoever pays it and
  wherever a session fails, in the account of the EVM native as long as deposits
  mint the value they hand on (`CleanTreasury`); while no session fails after an
  EVM call or makes several, EVM balances are covered in Move (`CleanReflected`)
  and the tries hold what the calls wrote (`CleanConsistent`).
* `tries` — every recorded root can be read to its last node over any process
  end (`RootsReadable`), and what a height answers never changes
  (`ImplementsVersionedStore`). Until a process ends between state and storage
  tries, slots can be proved at every height (`CleanProofs`) and a call at the
  latest height reads the storage of that height (`CleanCallAtTip`).
* `reader` — blocks and payloads are answered with all of their transactions and
  after their receipts (`AnswersComplete`), transactions say where they are
  (`CleanLocated`), no later answer falls behind what a client was told and no
  handler panics on a height it was told (`AnswersNeverRegress`), and a receipt
  is followed by its block in every map (`ReceiptLeadsToBlock`).
* `fees` — what senders pay is what receipts say, and the value of a block is the
  part above the base fee (`AccountsBalance`); logs are numbered without gap or
  repetition (`LogsNumbered`); the index of a receipt is never above that of
  the listing and the same until the block has skipped a transaction or listed a
  signed one twice, and its price is the listed one, or the base fee when less
  was offered (`CleanReceiptMatchesListing`); the base fee rises
  above the target, even from zero, and otherwise never rises
  (`FeeAnswersDemand`).
* `values` — the three walks of the validation let in exactly the arguments the
  comments allow (`ValidationExact`). The EVM can never return a signer
  (`NoSignerFromEvm`), and a value without strings inside that goes to the EVM
  and back is the same (`CleanEcho`), whether the program has made it or the
  validation has let it in.

**Fairness.** `CommandQueue!FairSpec`: weak fairness of the actor and of a client
whose operation is granted or failed, as the tokio runtime polls tasks that are
woken; no client has to begin, cancel or leave. `NodeFairSpec`: weak fairness of
the actor's work, which is one synchronous function, and of restarting; strong
fairness of the client's forkchoice update and fetch, because a request waits
for its slot in a first-come queue (`OperationsComplete` checks exactly this)
while others come and go. `Reader!Spec`: weak fairness of a command that the
actor has begun, nothing in which waits. Users and readers owe nothing.

**Deadlock** is checked except where the system really stops: the queue when all
clients have left, `fees` after the panic of a zero gas target or a short first deposit, `tries` at the
bounds, `values` with a refusal or the decoded value.

## 4. Findings

Each violating run shows a place where a comment says more than the code does:

| Run | What is said | What the code does |
|---|---|---|
| `exec_session` | EVM storage is consistent for the session | of two calls that write different slots of a contract only the last one's writes are kept |
| `reader_storage` | all reader handles are connected to write handles | a reader of the in-memory backend makes storage tries of its own, so proofs with slots are never found |
| `echo_strings` | values are encoded for a Solidity function | there is no case for strings: one inside a struct or vector is encoded as a tuple of bytes, and the outermost one comes out right because a tuple of one field is encoded as a parameter list |

The `Clean...` properties and the shape of others mark further limits of the code
that a reader of it should know. Each was found by checking the property without
its condition:

* State heights are a counter that a crash between root and block shifts for
  good (`CleanVersionAtHeight`), and such a crash between state and receipts
  makes a repeated build execute its deposits again, as only signed transactions
  have a nonce (`CanonicalOnce` is about these).
* `wait_for_pending_commands` returns while the last command is in progress
  (`WaitLeavesAtMostOne`).
* A crash loses the queued genesis update although block zero was answered; the
  next build finds no parent and panics (`CleanParentExists`).
* EVM changes are committed, but their transfers not repeated in Move, when the
  VM fails after a call (`CleanReflected`).
* A process end between the state and the storage tries leaves accounts whose
  storage root cannot be opened (`CleanProofs`). An EVM call at an earlier height
  reads the latest storage (`CleanCallAtTip`).
* A skipped transaction has no receipt, is accepted again and is then listed by
  two blocks, either of which a query may name (`CleanLocated`). Attributes and
  pool are chained without removing repetitions, so one block can list a
  transaction twice. Receipts number executed transactions, listings all
  (`CleanReceiptMatchesListing`).
* A deposit that creates a contract, one that uses its gas up before it is
  minted for, and a short one at the front of a block end the process, each time
  they are asked for (`PayloadDelivered`).
* A deposit whose value is above its mint takes the difference from the EVM
  native, which by default is the treasury (`CleanTreasury`).
* Transactions of the attributes pay no L1 data fee, since the bytes they are
  charged for have been consumed by decoding; nobody pays one when the first
  deposit of the list was processed before. The price may exceed the maximal fee
  of a transaction once the base fee does. A parent gas limit below the
  elasticity divides by zero (`StartPanics`). A fee smaller than the denominator
  never falls.

## 5. Proofs

Every safety property of the runs but the two of `AbiEcho` is proved, as are the
three refinements of abstract specifications.

| Module | Theorem | States, for all constants |
|---|---|---|
| `NodeProofs`, about `Application` | `TypeCorrect` | `TypeOK` |
| | `ChainIsLinked`, `CanonicalAppliedOnce`, `GenesisIsIdempotent`, `RootsAreNested`, `HeightsResolve` | the invariants of the same meaning |
| | `NoncesInOrder` | `NoncesConsumedInOrder` |
| | `VersionsAtHeight`, `BlocksReplay` | `CleanVersionAtHeight`, `CleanReplay` |
| | `PayloadsAreStable`, `ReceiptsAreStable` | action properties |
| | `ApplicationImplementsLedger` | `Spec => ImplementsLedger` |
| `NodeProofs`, about `Node` | `NodeTypeCorrect`, `NodeImplementsApplication` | typing; behind queue and handlers the node is `Application`, whose theorems it inherits |
| | `ClientBlocksAreStored`, `ParentsExist`, `AcceptedAccounted`, `BuiltAsRequested` | `ClientBlocksStored`, `CleanParentExists`, `CleanAccounted`, `CleanAsRequested` |
| `ExecutionProofs` | `RootsAlwaysMatch`, `RefundAlwaysSucceeds` | `RootsMatchTries`, `RefundSucceeds` |
| | `SingleCallsConsistent`, `BalancesReflected`, `TreasuryKeepsFees`, `NoTokensFromNothing` | `CleanConsistent`, `CleanReflected`, `CleanTreasury`, `NothingFromNothing` |
| `TriesProofs` | `RootsAlwaysReadable`, `ProofsAlwaysGiven`, `CallsReadTheTip` | `RootsReadable`, `CleanProofs`, `CleanCallAtTip` |
| | `TriesImplementVersionedStore` | `Spec => ImplementsVersionedStore` |
| `ReaderProofs` | `AnswersAreComplete`, `TransactionsLocated`, `NoAnswerRegresses` | `AnswersComplete`, `CleanLocated`, `AnswersNeverRegress` |
| `FeesProofs` | `BooksBalance`, `LogsAreNumbered`, `ReceiptsMatchListings`, `FeesAnswerDemand` | `AccountsBalance`, `LogsNumbered`, `CleanReceiptMatchesListing`, `FeeAnswersDemand` |
| `CommandQueueProofs` | `SlotsAreConserved`, `WaitsCoverCommands` | `PermitsConserved`, `WaitLeavesAtMostOne` |
| | `QueueImplementsMailbox` | `Spec => ImplementsMailbox` |
| `ArgumentsProofs` | `ArgumentsValidated` | `ValidationExact` |
| `SeqOpsProofs` | lemmas | what sums and selections of sequences and finite sets are, bound and keep |

**Assumptions** are the named `ASSUME`s of the modules, evaluated by TLC on every
run. Besides types of constants they say: markers (`None`, `Lost`, `Undecodable`,
`Genesis`) are none of the values they stand beside; the parties of `Execution`
are neither the EVM native nor the treasury, and finitely many, as are the
clients of the queue (a sum over them has to exist); the genesis block has a fee
that fits a u64; timestamps fit the numbering that stands for the SHA-256 payload
id (`IdAssumption`), so that ids are injective; a root that is recorded is not
the marker for a missing one (`RootAssumption`); what the Move VM loads is well
formed, a value has the shape of its type, and neither is nested deeper than the
limit of the VM (`ValuesAssumption`), on which the comments of
`execute_entry_function` rely as well. Nothing is assumed about the
number of accounts, transactions, payloads, blocks, crashes, slots or calls.

**Sums and induction.** The provers cannot instantiate an induction principle. A
statement about all prefixes of a sequence or all subsets of a finite set is
proved by its smallest counterexample instead: `LeastNat` and `LeastSet` give
one, and the recursive function (`Sums`, `Selected`) or the sum over a set
(`SumOver`, whose value does not depend on the order: `SumOrder`) is unfolded
once at it. `SumChanges` (one summand changes) and `SumBounds` (no summand exceeds
the sum) are what the proofs about tokens and permits use. In the same way
`DownUnfold` unfolds what is inside a value level by level, and `InsideLeast`
says that it is the least set with the value that has, with a value, its parts.

Inductive invariants, and why the properties alone do not do:

* `Typed` adds to `TypeOK` what the position of the actor implies: a build has
  a parent, the genesis is applied below the first block only (`PcOK`).
* `OnceInv`: that a transaction was applied has to be visible in the account
  nonce, since receipts, the other filter, may be missing after a crash
  (`NoncesSpent`).
* `NonceInv`: a nonce is the number of the account's transactions in the state
  (`NoncesCount`); order alone would not survive the next transaction.
* `GenesisInv`: as long as there is no block the state is empty or exactly the
  genesis, also after an interrupted start (`GenesisFirst`).
* `RootsInv`: every root is a prefix of the state, not only of the next root
  (`RootsBelow`), because a new block takes its root from the state.
* `AheadInv`: roots are pushed before blocks are added, so they may only be
  ahead (`StatesAhead`). `AlignedInv`: until a build is torn they are ahead by
  exactly the block that is being stored (`HeightsAligned`).
* `ReplayInv`: until a build is torn the state is that of the newest block plus
  what the build has executed so far, which is a part of what it lists
  (`StateFromTip`, `ExecutedListed`).
* `FreshInv`: the id and the transactions of a running build are new
  (`FreshBuild`), so storing them replaces nothing.
* `LedgerInv`: the conjunction of `RootsInv` and `OnceInv`, under which `AddBlock` is
  `AddVersion` and the first `GenesisUpdate` is `Create`.
* `NodeInv`: payload ids point to stored blocks and block hashes are never lost,
  so what the client was given stays valid. `GenesisAhead`: while there is no
  block, the genesis update is in front of every build in the queue.
* `ListsInv`: a receipt belongs to a listed transaction, and the lists of a build
  follow its position (`BuildLists`, `ReceiptsListed`), so nothing accepted falls
  between pool, build and chain.
* `RequestInv`: payload ids of stored blocks, of the running build and of queued
  ones are those of the head and timestamp they were asked for (`PayloadsNumbered`,
  `Position`, `QueueCurrent`): a repeated request meets its own build.
* `ExecutionProofs!RootsInv`: between the two halves of a commit the account
  information already has the roots the tries are about to get.
* `RefundInv`: the treasury holds the charged limit *and* what it still owes to
  the origins of EVM calls. The debt is a sum over the transfer log, expressed
  by a function `f` with `f[i]` owed after the first `i` origins (`IsOwed`),
  which appending a call and paying an origin transform pointwise.
* `ConsistentInv`: the single call of a session is the whole difference between
  the tries and what was written. `ReflectedInv`: the EVM balance of a contract
  is covered by its Move balance and what is still to be replicated (`Backed`).
* `TreasuryInv`: at every step of a session the treasury holds at least the
  fees, the charge and, when it is also the EVM native, the values of the calls
  that have not been handed back (`Banked`), with the same sum over the log
  (`Keeps`): other payments to it only add (`KeepsMore`).
* `TokensInv`: the balances of the session, with what the deposit may still
  mint, are bounded as well as those of the state.
* `TriesInv`: what is staged for the databases is complete before its root is
  recorded (`Staged`), the storage roots in the state are those of readable tries
  unless a crash came between (`InStep`, `RootsInChanges`, `HeightsProvable`).
* `ReaderInv`: the maps form one chain, and a block that is published is complete
  in the maps that are published before it (`Chain`, `Complete`); the query in
  progress has read prefixes of such a block (`FetchedInOrder`), heights it
  resolved stay resolvable (`HeightsResolved`), and so does what clients know
  (`KnownPublished`).
* `FeesInv`: the sums of the properties for the receipts so far (`BuildBooked`:
  `Collected`, `Tipped`, `Numbered`, `Metered`, `Placed`, `Priced`), and for the
  sealed block (`BlockBooked`). `Placed` gives every receipt a place in the
  list not before its own, and exactly its own while all transactions before it
  have run where they are listed (`ListedFor`), also when transactions repeat.
* `PermitsInv`: who waits is in line once and with its own need, and a closed
  channel has no line, so that a permit that comes back goes to exactly one
  place. `WaitInv`: what was sent is handled, in the actor's hands or queued, and
  whoever holds all slots knows the channel to be empty (`AllSlots`), already
  before it gives them back. `OpsCounted`: only a panic closes the channel, so
  nothing is taken from a broken mailbox; that a granted sender finds a free slot
  (`GrantedFits`) follows from `PermitsInv`.
* `ArgumentsInv`: each walk of the validation has dealt with a set of types or
  values that are in order and whose parts are in the set or still to come
  (`TagWalk`, `LayoutWalk`, `ValueWalk`). When nothing is to come the set is
  closed, so it has everything inside. The set is not a variable of the code:
  the walks skip what is inside strings, objects and fixed points, and the
  vector inside an option, which has to be shown to be harmless (`VisitCovers`).
  What is refused is inside the argument and not in order (`RefusedNotFine`).
  The theorem is about `Arguments!Spec`; the run checks it with the steps of
  `AbiEcho` added, which leave all variables of `Arguments` alone.

**Only model-checked.** Liveness (`OperationsComplete`, `AcceptedIsHandled`,
`PayloadDelivered`, `ReceiptLeadsToBlock`), which is out of the prover's reach;
`NoSignerFromEvm` and `CleanEcho`, about what the mutually recursive encoder and
decoder of the ABI compute, which takes induction over nested data. The
inductive invariants of the walks quantify over all sets and are not evaluated
by TLC; the property they imply is.

## 6. Not modelled

* JWT, CORS, the proxying of requests to op-geth, docker scripts, the hardhat
  plugin and the genesis builder: I/O and build tools.
* `eth_feeHistory`, `eth_gasPrice` and `eth_chainId`: constant answers. The
  field-by-field comparison of `engine_newPayloadV3`, JSON schemas, RLP and BCS
  encodings: conversions without protocol state.
* What the genesis contains: which packages are published in which order, and
  the bridged tokens, which are deployed by several EVM calls in one context and
  so are exposed to what `exec_session` shows.
* How the VM stores the vectors that the ABI decoder makes with
  `Value::vector_for_testing_only`, and the truncation of integers to the width of
  their layout, which cannot show when what is decoded was encoded from it.
* Event log conversion, session ids, and whether a Move function, script or
  deployment runs correctly: the Move VM is external.
* The list of nodes of a Merkle proof, and paths inside tries: eth_trie is
  external, a proof is modelled by whether its nodes can be found.
* revm, LMDB, RocksDB, evmap and tokio: external, by what the code relies on.
* The block gas limit is not enforced by the code; the model has none either.

## 7. Plan

1. done: block building with crashes, the ledger, the queue, the node, one
   transaction in the VMs, and the proofs above.
2. done: tries and their databases, readers of the in-memory backend, fees,
   argument validation and the Solidity ABI.
3. done: proofs of every safety property but those of `AbiEcho`, and of the
   refinements of `Ledger`, `VersionedStore` and `Mailbox`.
4. open: `NoSignerFromEvm` and `CleanEcho` for every nesting, once the prover can
   instantiate induction over data.

## 8. Running

    tlc -workers 2 -config MCApplication.cfg MCApplication
    tlapm NodeProofs.tla
