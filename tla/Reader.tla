------------------------------- MODULE Reader -------------------------------
(* The in-memory backend as its readers see it. The actor builds blocks and     *)
(* publishes each map on its own, with a refresh; handlers of queries run       *)
(* beside it, hold a reader of every map and answer in several reads. Maps may   *)
(* hold several values for a key, of which a reader gets any one. A block        *)
(* stands for its hash and its payload id by its number: memory holds one chain, *)
(* without forks, and a build for a known payload id does nothing.               *)
EXTENDS Integers, Sequences, FiniteSets, SeqOps

CONSTANTS
  Txs,        \* transaction hashes
  None,       \* no such thing
  MaxBlocks,  \* bound: blocks on top of the genesis
  MaxListed,  \* bound: transactions listed by all blocks
  Window      \* how many blocks back BLOCKHASH reaches, 256 in the code

ASSUME ReaderAssumption ==
  /\ MaxBlocks \in Nat /\ MaxListed \in Nat /\ Window \in Nat
  /\ None \notin Nat
  /\ None \notin [number : Nat, txs : Seq(Txs), root : Nat, executed : Seq(Txs)]
  /\ None \notin [hash : Txs, block : Nat, index : Nat]

VARIABLES
  hashes,       \* BlockMemory: published blocks by hash
  heights,      \* published blocks by number
  payload_ids,  \* published blocks by payload id
  transactions, \* TransactionMemory: published transactions, located in a block
  receipts,     \* ReceiptMemory: published receipts
  trie,         \* the state roots whose nodes are in the shared trie database
  build,        \* what the actor works on: a block, its receipts, what is left
  todo,         \* the maps the actor has still to publish
  request,      \* what a reader was asked and has read so far
  pc,           \* where the reader is
  known         \* the newest block it was given: by any way, by number or id

memory == <<hashes, heights, payload_ids, transactions, receipts, trie>>
actor == <<build, todo>>
reader == <<request, pc, known>>
vars == <<memory, actor, reader>>

-----------------------------------------------------------------------------
(* Blocks and the maps *)

\* ExtendedBlock: its header commits to the state and to the receipts.
NewBlock(number, txs, root, executed) ==
  [number |-> number, txs |-> txs, root |-> root, executed |-> executed]

GenesisBlock == NewBlock(0, <<>>, 0, <<>>)

\* A request that was not asked yet.
NoRequest == [method |-> None, at |-> <<None, None>>, full |-> FALSE,
              height |-> None, second |-> None, block |-> None, root |-> None,
              left |-> <<>>, txs |-> <<>>]

NoBuild == [block |-> None, receipts |-> <<>>, left |-> <<>>]

\* get_one: any of the values, None without one.
GetOne(values) == IF values = {} THEN {None} ELSE values

ByHash(n) == GetOne({b \in hashes : b.number = n})
ByHeight(n) == GetOne({b \in heights : b.number = n})
ByPayloadId(id) == GetOne({b \in payload_ids : b.number = id})
TransactionByHash(t) == GetOne({x \in transactions : x.hash = t})
ReceiptByHash(t) == GetOne({r \in receipts : r.hash = t})
ContainsReceipt(t) == \E r \in receipts : r.hash = t

\* BlockMemory::height: the number of heights, less one.
Height ==
  LET len == Cardinality({b.number : b \in heights})
  IN  IF len = 0 THEN None ELSE len - 1

\* InMemoryStateQueries::root_by_height reads the header of the block.
RootByHeight(n) ==
  IF n = 0 THEN {GenesisBlock.root}
  ELSE {IF b = None THEN None ELSE b.root : b \in ByHeight(n)}

\* The storage tries a reader sees: storage_trie_repository() makes a new map,
\* and the one of the reader is not the one the actor writes to.
ReaderTries == {}

-----------------------------------------------------------------------------
(* The actor *)

\* The server applies the genesis to the state before it serves requests.
Init ==
  /\ hashes = {} /\ heights = {} /\ payload_ids = {}
  /\ transactions = {} /\ receipts = {}
  /\ trie = {GenesisBlock.root}
  /\ build = NoBuild /\ todo = <<>>
  /\ pc = "idle"
  /\ request = NoRequest
  /\ known = [hash |-> None, height |-> None]

\* Faulty: payload ids first, and a map that is not refreshed.
RefreshIdsFirst == <<"payload_ids", "hashes", "heights">>
RefreshNoIds == <<"hashes", "heights">>

\* BlockMemory::add: three inserts, then a refresh of each map.
RefreshOrder == <<"hashes", "heights", "payload_ids">>

\* genesis_update: for the first request of block zero; the ones that follow
\* add a value the maps already hold.
GenesisUpdate ==
  /\ build = NoBuild /\ heights = {}
  /\ build' = [NoBuild EXCEPT !.block = GenesisBlock]
  /\ todo' = RefreshOrder
  /\ UNCHANGED <<memory, reader>>

\* start_block_build: a new payload id, transactions without a receipt, and the
\* last block as the parent.
StartBlockBuild(listed) ==
  /\ build = NoBuild
  /\ Height # None /\ Height < MaxBlocks
  /\ ByPayloadId(Height + 1) = {None}
  /\ \E parent \in ByHeight(Height) :
       LET txs == Selected(listed, {i \in DOMAIN listed : ~ContainsReceipt(listed[i])})
       IN  build' = [block |-> NewBlock(parent.number + 1, txs, parent.root, <<>>),
                     receipts |-> <<>>, left |-> txs]
  /\ UNCHANGED <<memory, todo, reader>>

\* ExtendedReceipt: counted among the executed transactions of the block.
NewReceipt(t) ==
  [hash |-> t, block |-> build.block.number, index |-> Len(build.receipts)]

Executing == build # NoBuild /\ todo = <<>> /\ build.left # <<>>

\* execute_transactions: the nodes of the state go to the shared database.
ExecuteTransaction ==
  /\ Executing
  /\ LET t == Head(build.left)
         root == build.block.root + 1
     IN  /\ trie' = trie \cup {root}
         /\ build' = [block |-> [build.block EXCEPT !.root = root, !.executed = Append(@, t)],
                      receipts |-> Append(build.receipts, NewReceipt(t)),
                      left |-> Tail(build.left)]
  /\ UNCHANGED <<hashes, heights, payload_ids, transactions, receipts, todo, reader>>

\* An invalid transaction stays in the block, without a receipt.
SkipTransaction ==
  /\ Executing
  /\ build' = [build EXCEPT !.left = Tail(@)]
  /\ UNCHANGED <<memory, todo, reader>>

\* Faulty: the block before what it lists.
PublishBlockFirst == RefreshOrder \o <<"receipts", "transactions">>

\* The rest of start_block_build: receipts, transactions, and the block.
PublishOrder == <<"receipts", "transactions">> \o RefreshOrder

FinishBuild ==
  /\ build # NoBuild /\ todo = <<>> /\ build.left = <<>>
  /\ todo' = PublishOrder
  /\ UNCHANGED <<memory, build, reader>>

\* Faulty: counted from one.
LocatedFromOne(b) ==
  {[hash |-> b.txs[i], block |-> b.number, index |-> i] : i \in DOMAIN b.txs}

\* ExtendedTransaction: all of the block, counted from zero.
Located(b) ==
  {[hash |-> b.txs[i], block |-> b.number, index |-> i - 1] : i \in DOMAIN b.txs}

\* One map is published; with the last one the command is done.
Refresh(map) ==
  /\ todo # <<>> /\ Head(todo) = map
  /\ todo' = Tail(todo)
  /\ build' = IF Len(todo) = 1 THEN NoBuild ELSE build
  /\ UNCHANGED <<trie, reader>>

ExtendReceipts ==
  /\ Refresh("receipts")
  /\ receipts' = receipts \cup {build.receipts[i] : i \in DOMAIN build.receipts}
  /\ UNCHANGED <<hashes, heights, payload_ids, transactions>>

ExtendTransactions ==
  /\ Refresh("transactions")
  /\ transactions' = transactions \cup Located(build.block)
  /\ UNCHANGED <<hashes, heights, payload_ids, receipts>>

RefreshHashes ==
  /\ Refresh("hashes")
  /\ hashes' = hashes \cup {build.block}
  /\ UNCHANGED <<heights, payload_ids, transactions, receipts>>

RefreshHeights ==
  /\ Refresh("heights")
  /\ heights' = heights \cup {build.block}
  /\ UNCHANGED <<hashes, payload_ids, transactions, receipts>>

RefreshPayloadIds ==
  /\ Refresh("payload_ids")
  /\ payload_ids' = payload_ids \cup {build.block}
  /\ UNCHANGED <<hashes, heights, transactions, receipts>>

Publish ==
  ExtendReceipts \/ ExtendTransactions \/ RefreshHashes \/ RefreshHeights \/ RefreshPayloadIds

-----------------------------------------------------------------------------
(* What can be asked. The tags latest, pending, safe and finalized are one. *)

Numbers == {<<"number", n>> : n \in 0..MaxBlocks}
Tags == {<<"latest", None>>}  \* and earliest, which is number zero
Hashes == {<<"hash", n>> : n \in 0..MaxBlocks}

\* full asks for whole transactions of a block, and for slots of a proof.
Query(method, places, fulls) == [method : {method}, at : places, full : fulls]

GetBlockByNumber == Query("block", Numbers \cup Tags, BOOLEAN)
GetBlockByHash == Query("block", Hashes, BOOLEAN)
GetPayload == Query("block", {<<"id", n>> : n \in 1..MaxBlocks}, {TRUE})
NewPayload == Query("block", Hashes, {TRUE})
GetTransactionByHash == Query("transaction", {<<"tx", t>> : t \in Txs}, {FALSE})
GetTransactionReceipt == Query("receipt", {<<"tx", t>> : t \in Txs}, {FALSE})
BlockNumber == Query("number", {<<"latest", None>>}, {FALSE})
GetBalance == Query("state", Numbers \cup Tags, {FALSE})
GetNonce == Query("state", Numbers \cup Tags, {FALSE})
GetProof == Query("proof", Numbers \cup Tags \cup Hashes, BOOLEAN)
Call == Query("call", Numbers \cup Tags, {FALSE})
EstimateGas == Query("estimate", Numbers \cup Tags, {FALSE})

Queries ==
  GetBlockByNumber \cup GetBlockByHash \cup GetPayload \cup NewPayload
    \cup GetTransactionByHash \cup GetTransactionReceipt \cup BlockNumber
    \cup GetBalance \cup GetNonce \cup GetProof \cup Call \cup EstimateGas

\* resolve_height and height_from_block_id.
ResolveHeight(at) ==
  CASE at[1] = "latest"   -> {Height}
    [] at[1] = "number"   -> {at[2]}
    [] at[1] = "hash"     -> {IF b = None THEN None ELSE b.number : b \in ByHash(at[2])}

\* These unwrap what the others return as not found.
Unwraps == {"number", "call", "estimate"}

-----------------------------------------------------------------------------
(* A reader *)

Newer(a, b) == IF a = None \/ (b # None /\ a < b) THEN b ELSE a

\* What a client learns from an answer: a block it was given, and whether it
\* was given it by its number or payload id.
Learned(rq) ==
  LET block == IF rq.method = "block" /\ rq.block # None THEN rq.block.number ELSE None
      height == IF rq.method = "number" THEN rq.height
                ELSE IF rq.at[1] = "hash" THEN None ELSE block
  IN  [hash |-> Newer(known.hash, block), height |-> Newer(known.height, height)]

Ask(q) ==
  /\ pc = "idle"
  /\ request' = [NoRequest EXCEPT !.method = q.method, !.at = q.at, !.full = q.full]
  /\ pc' = IF q.at[1] \in {"latest", "earliest", "number"} \/ q.method = "proof"
           THEN "resolve" ELSE "fetch"
  /\ UNCHANGED <<memory, actor, known>>

Reply(rq, next) ==
  /\ request' = rq /\ pc' = next
  /\ known' = IF next = "answered" THEN Learned(rq) ELSE known
  /\ UNCHANGED <<memory, actor>>

Resolve ==
  /\ pc = "resolve"
  /\ \E h \in ResolveHeight(request.at) :
       Reply([request EXCEPT !.height = h],
             IF h = None THEN IF request.method \in Unwraps THEN "panicked" ELSE "answered"
             ELSE IF request.method = "number" THEN "answered"
             ELSE IF request.method = "estimate" THEN "again" ELSE "fetch")

\* estimate_gas asks for the latest height a second time, for the header.
ResolveAgain ==
  /\ pc = "again"
  /\ \E h \in ResolveHeight(request.at) : Reply([request EXCEPT !.second = h], "fetch")

\* BlockResponse, with the hashes of the transactions or with all of them.
FetchBlock ==
  /\ pc = "fetch" /\ request.method = "block" /\ request.at[1] # "id"
  /\ \E b \in IF request.at[1] = "hash" THEN ByHash(request.at[2]) ELSE ByHeight(request.height) :
       IF b # None /\ request.full
       THEN Reply([request EXCEPT !.block = b, !.left = b.txs], "transactions")
       ELSE Reply([request EXCEPT !.block = b], "answered")

\* PayloadResponse: always with all of them.
FetchPayload ==
  /\ pc = "fetch" /\ request.at[1] = "id"
  /\ \E b \in ByPayloadId(request.at[2]) :
       IF b # None
       THEN Reply([request EXCEPT !.block = b, !.left = b.txs], "transactions")
       ELSE Reply(request, "answered")

\* by_hashes: one lookup after the other, leaving out what is missing.
FetchTransactions ==
  /\ pc = "transactions"
  /\ \/ /\ request.left # <<>>
        /\ \E x \in TransactionByHash(Head(request.left)) :
             Reply([request EXCEPT !.left = Tail(@), !.txs = IF x = None THEN @ ELSE Append(@, x)],
                   "transactions")
     \/ request.left = <<>> /\ Reply(request, "answered")

FetchTransaction ==
  /\ pc = "fetch" /\ request.method = "transaction"
  /\ \E x \in TransactionByHash(request.at[2]) :
       Reply([request EXCEPT !.txs = IF x = None THEN <<>> ELSE <<x>>], "answered")

FetchReceipt ==
  /\ pc = "fetch" /\ request.method = "receipt"
  /\ \E x \in ReceiptByHash(request.at[2]) :
       Reply([request EXCEPT !.txs = IF x = None THEN <<>> ELSE <<x>>], "answered")

\* balance_at, nonce_at and resolver_at; the last one unwraps.
FetchState ==
  /\ pc = "fetch" /\ request.method \in {"state", "call", "estimate"}
  /\ \E root \in RootByHeight(request.height) :
       Reply([request EXCEPT !.root = root],
             IF root = None /\ request.method \in Unwraps THEN "panicked"
             ELSE IF request.method \in Unwraps THEN "execute" ELSE "answered")

\* proof_at of an account with storage: when slots are asked for, its storage
\* trie is opened at the root the account has.
FetchProof ==
  /\ pc = "fetch" /\ request.method = "proof"
  /\ \E root \in RootByHeight(request.height) :
       Reply([request EXCEPT !.root = IF request.full /\ root \notin ReaderTries THEN None ELSE root],
             "answered")

\* block_hash_ref: the transaction may ask for the hash of a block in reach.
InReach(number, current) == current <= number + Window /\ number < current

\* hash_by_number: the zero hash for a block that is not found.
LookUpBlockHash(current) ==
  \E n \in {x \in 0..MaxBlocks : InReach(x, current)} : \E b \in ByHeight(n) :
    Reply([request EXCEPT !.block = b], IF b = None THEN "zero" ELSE "answered")

\* simulate_transaction: a canonical transaction in a header with the height
\* that was resolved last. It succeeds, fails or is invalid; its changes are
\* dropped.
SimulateTransaction ==
  /\ pc = "execute" /\ request.method = "estimate"
  /\ LookUpBlockHash(request.second) \/ Reply(request, "answered")

\* call_transaction: a session with the default id, that is in block zero, where
\* no number is in reach; no fees. Its changes are dropped.
CallTransaction ==
  /\ pc = "execute" /\ request.method = "call"
  /\ Reply(request, "answered")

\* The answer is sent, or the task of the handler ends with its panic.
Finish ==
  /\ pc \in {"answered", "panicked", "zero"}
  /\ pc' = "idle" /\ request' = NoRequest
  /\ UNCHANGED <<memory, actor, known>>

ActorStep ==
  \/ GenesisUpdate \/ ExecuteTransaction \/ SkipTransaction \/ FinishBuild \/ Publish
  \/ \E k \in 0..(MaxListed - Cardinality(transactions)) : \E listed \in [1..k -> Txs] : StartBlockBuild(listed)

Progress == ExecuteTransaction \/ SkipTransaction \/ FinishBuild \/ Publish

ReaderStep ==
  \/ \E q \in Queries : Ask(q)
  \/ Resolve \/ ResolveAgain \/ FetchBlock \/ FetchPayload \/ FetchTransactions
  \/ FetchTransaction \/ FetchReceipt \/ FetchState \/ FetchProof
  \/ SimulateTransaction \/ CallTransaction \/ Finish

Next == ActorStep \/ ReaderStep

\* The actor takes a command to its end: nothing in it waits.
Spec == Init /\ [][Next]_vars /\ WF_vars(Progress)

-----------------------------------------------------------------------------
(* Properties *)

(* A block or payload that is answered has all of its transactions, although    *)
(* by_hashes silently leaves out what it does not find, and every executed one  *)
(* has a receipt for that block by then: the order of publication, not a check. *)
AnswersComplete ==
  pc = "answered" /\ request.method = "block" /\ request.block # None
    => /\ request.full => [i \in DOMAIN request.txs |-> request.txs[i].hash] = request.block.txs
       /\ \A i \in DOMAIN request.block.executed :
            \E r \in receipts : /\ r.hash = request.block.executed[i]
                                /\ r.block = request.block.number

(* The transactions of a full block say that they are at their place of this    *)
(* block, unless one was listed again: a skipped transaction has no receipt, is *)
(* accepted once more, and then is found in either of its two blocks.           *)
CleanLocated ==
  /\ pc = "answered" /\ request.block # None /\ request.full
  /\ \A x, y \in transactions : x.hash = y.hash => x = y
  => \A i \in DOMAIN request.txs :
       request.txs[i] = [hash |-> request.block.txs[i], block |-> request.block.number, index |-> i - 1]

(* A client never loses what it was given: a later answer about a block it      *)
(* learned of is there, the latest height does not go back, and no query at or  *)
(* below a height it knows makes a handler panic or find no state or no hash.   *)
Found(rq) ==
  \/ rq.method \in {"transaction", "receipt"}
  \/ rq.method = "number" /\ rq.height # None
  \/ rq.method = "block" /\ rq.block # None
  \/ rq.method \in {"state", "call", "estimate"} /\ rq.root \in trie
  \/ rq.method = "proof" /\ (rq.full \/ rq.root \in trie)

AtMost(n, bound) == bound # None /\ n <= bound

Owed(rq) ==
  \/ rq.at[1] = "number" /\ AtMost(rq.at[2], known.height)
  \/ rq.at[1] = "latest" /\ known.height # None
  \/ rq.at[1] = "hash" /\ rq.method # "proof" /\ AtMost(rq.at[2], known.hash)
  \/ rq.at[1] = "hash" /\ AtMost(rq.at[2], known.height)

AnswersNeverRegress ==
  [][/\ pc' \in {"answered", "panicked", "zero"} /\ pc # pc' /\ Owed(request)
     => /\ pc' = "answered" /\ Found(request')
        /\ request.at[1] = "latest" => AtMost(known.height, request'.height)]_vars

(* A receipt is visible before its block, and the block by its hash before its  *)
(* number: but once a client sees a receipt, the block is published everywhere  *)
(* in the end.                                                                   *)
ReceiptLeadsToBlock ==
  \A n \in 1..MaxBlocks :
    (\E r \in receipts : r.block = n)
      ~> \E b \in payload_ids : b.number = n /\ b \in heights /\ b \in hashes

(* InMemoryDependencies::reader: "All reader handles are connected to write     *)
(* handles": a proof with slots is found wherever one without is.               *)
ReaderHandlesConnected ==
  pc = "answered" /\ request.method = "proof" /\ request.full /\ request.height # None
    => \A root \in RootByHeight(request.height) : request.root = root
=============================================================================
