---------------------------- MODULE ReaderProofs ----------------------------
(* Proofs about Reader, for any transactions, numbers of blocks and queries. *)
EXTENDS Reader, SeqOpsProofs, SequenceTheorems, FiniteSetTheorems

Block == [number : Nat, txs : Seq(Txs), root : Nat, executed : Seq(Txs)]
Entry == [hash : Txs, block : Nat, index : Nat]
Builds == [block : Block, receipts : Seq(Entry), left : Seq(Txs)]
MaybeNat == Nat \cup {None}

\* What is left to publish, from nothing to everything.
Todo0 == <<>>
Todo1 == <<"payload_ids">>
Todo2 == <<"heights", "payload_ids">>
Todo3 == <<"hashes", "heights", "payload_ids">>
Todo4 == <<"transactions", "hashes", "heights", "payload_ids">>
Todo5 == <<"receipts", "transactions", "hashes", "heights", "payload_ids">>

\* What a query may be about.
Sensible(rq) ==
  /\ rq.method \in {"block", "transaction", "receipt", "number", "state", "proof", "call", "estimate"}
  /\ rq.full => rq.method \in {"block", "proof"}
  /\ rq.method \in {"state", "call", "estimate"} => rq.at[1] \in {"number", "latest"}
  /\ rq.method = "proof" => rq.at[1] \in {"number", "latest", "hash"}
  /\ rq.method = "block" => rq.at[1] \in {"number", "latest", "hash", "id"}
  /\ rq.method = "number" => rq.at[1] = "latest"
  /\ rq.method \in {"transaction", "receipt"} => rq.at[1] = "tx"
  /\ rq.at[1] = "id" => rq.full
  /\ rq.at[1] \in {"number", "hash"} => rq.at[2] \in Nat

MemoryTyped ==
  /\ hashes \in SUBSET Block /\ heights \in SUBSET Block /\ payload_ids \in SUBSET Block
  /\ transactions \in SUBSET Entry /\ receipts \in SUBSET Entry
  /\ trie \in SUBSET Nat /\ 0 \in trie
  /\ build = NoBuild \/ build \in Builds
  /\ todo \in {Todo0, Todo1, Todo2, Todo3, Todo4, Todo5}
  /\ build = NoBuild => todo = Todo0

Published == {b.number : b \in heights}

\* Heights are published without a gap, a block by its hash before its height
\* and by its height before its id, and one at a time.
Chain ==
  /\ \E n \in Nat : Published = 0..(n - 1)
  /\ payload_ids \subseteq heights /\ heights \subseteq hashes
  /\ \A b, c \in hashes : b.number = c.number => b = c
  /\ hashes \subseteq heights \cup (IF todo = Todo2 THEN {build.block} ELSE {})
  /\ build # NoBuild =>
       /\ todo = Todo1 => build.block \in heights
       /\ todo # Todo1 => build.block.number \notin Published
       /\ todo = Todo2 => build.block \in hashes
       /\ build.block.number = 0 \/ build.block.number - 1 \in Published

\* Every executed transaction of b has a receipt that names b.
Receipted(b) ==
  \A i \in DOMAIN b.executed :
    \E r \in receipts : r.hash = b.executed[i] /\ r.block = b.number

\* A block is published after everything it names.
Complete ==
  /\ \A b \in hashes : Located(b) \subseteq transactions /\ Receipted(b) /\ b.root \in trie
  /\ build # NoBuild =>
       /\ build.block.root \in trie
       /\ todo \in {Todo0, Todo5} =>
            /\ Len(build.receipts) = Len(build.block.executed)
            /\ \A i \in DOMAIN build.block.executed :
                 /\ build.receipts[i].hash = build.block.executed[i]
                 /\ build.receipts[i].block = build.block.number
       /\ todo \in {Todo4, Todo3} => Receipted(build.block)
       /\ todo = Todo3 => Located(build.block) \subseteq transactions

ActorInv == MemoryTyped /\ Chain /\ Complete

Requests ==
  [method : {q.method : q \in Queries} \cup {None}, at : {q.at : q \in Queries} \cup {<<None, None>>},
   full : BOOLEAN, height : MaybeNat, second : MaybeNat, block : Block \cup {None},
   root : MaybeNat, left : Seq(Txs), txs : Seq(Entry)]

ReaderTyped ==
  /\ request \in Requests
  /\ known \in [hash : MaybeNat, height : MaybeNat]
  /\ pc \in {"idle", "resolve", "again", "fetch", "transactions", "execute",
             "answered", "panicked", "zero"}
  /\ pc # "idle" => Sensible(request)
  /\ pc \in {"idle", "resolve", "again", "fetch", "execute"}
       => request.block = None /\ request.left = <<>> /\ request.txs = <<>>
  /\ pc = "transactions" => request.block # None /\ request.method = "block" /\ request.full

\* What a client knows has been published.
KnownPublished ==
  /\ known.height # None => known.height \in Published
  /\ known.hash # None => \E b \in hashes : b.number = known.hash
  /\ request.block # None =>
       request.block \in hashes /\ (request.at[1] # "hash" => request.block \in heights)

\* The height a query works with is the one it named, or one that was the
\* latest after all the client knows.
Resolved(h) ==
  /\ h # None
  /\ request.at[1] \in {"number", "hash"} => h = request.at[2]
  /\ request.at[1] = "latest" =>
       h \in Published /\ (known.height # None => known.height <= h)

HeightsResolved ==
  /\ pc \in {"fetch", "again", "execute"} /\ request.method \in {"state", "call", "estimate", "proof"}
       => Resolved(request.height)
  /\ pc \in {"fetch", "transactions"} /\ request.method = "block" /\ request.at[1] \in {"number", "latest"}
       => Resolved(request.height)
  /\ pc \in {"fetch", "execute"} /\ request.method = "estimate" => Resolved(request.second)
  /\ pc = "execute" => request.root \in trie /\ request.method \in {"call", "estimate"}
  /\ pc \in {"again", "execute"} => request.method \in Unwraps \ {"number"}
  /\ pc = "again" => request.method = "estimate"
  /\ pc \in {"resolve", "again"} => request.at[1] \in {"latest", "number", "hash"}
  /\ pc = "fetch" => request.method # "number"

\* The transactions fetched so far are those the block lists first.
Fetched(n) ==
  /\ Len(request.txs) = n
  /\ \A i \in 1..n : request.txs[i] \in transactions
                     /\ request.txs[i].hash = request.block.txs[i]

FetchedInOrder ==
  /\ pc = "transactions" =>
       \E n \in Nat : /\ Fetched(n) /\ n + Len(request.left) = Len(request.block.txs)
                      /\ \A i \in 1..Len(request.left) : request.left[i] = request.block.txs[n + i]
  /\ pc = "answered" /\ request.full /\ request.block # None =>
       request.method = "block" /\ Fetched(Len(request.block.txs))

ReaderInv ==
  ActorInv /\ ReaderTyped /\ KnownPublished /\ HeightsResolved /\ FetchedInOrder

-----------------------------------------------------------------------------
(* Constants and operators *)

\* The orders of publication, and what remains of them after each step.
LEMMA Todos ==
  /\ Todo0 = <<>> /\ RefreshOrder = Todo3 /\ PublishOrder = Todo5
  /\ Len(Todo0) = 0 /\ Len(Todo1) = 1 /\ Len(Todo2) = 2
  /\ Len(Todo3) = 3 /\ Len(Todo4) = 4 /\ Len(Todo5) = 5
  /\ Head(Todo1) = "payload_ids" /\ Head(Todo2) = "heights" /\ Head(Todo3) = "hashes"
  /\ Head(Todo4) = "transactions" /\ Head(Todo5) = "receipts"
  /\ Tail(Todo1) = Todo0 /\ Tail(Todo2) = Todo1 /\ Tail(Todo3) = Todo2
  /\ Tail(Todo4) = Todo3 /\ Tail(Todo5) = Todo4
<1> USE DEF Todo0, Todo1, Todo2, Todo3, Todo4, Todo5
<1>0. PublishOrder = Todo5
  <2> DEFINE a == <<"receipts", "transactions">>
             b == <<"hashes", "heights", "payload_ids">>
             c == a \o b
             M == {"receipts", "transactions", "hashes", "heights", "payload_ids"}
  <2>1. a \in Seq(M) /\ b \in Seq(M) /\ Len(a) = 2 /\ Len(b) = 3
    OBVIOUS
  <2>2. /\ c \in Seq(M) /\ Len(c) = 5
        /\ \A i \in 1..5 : c[i] = IF i <= 2 THEN a[i] ELSE b[i - 2]
    <3> HIDE DEF a, b, M
    <3>1. /\ c \in Seq(M) /\ Len(c) = Len(a) + Len(b)
          /\ \A i \in 1..(Len(a) + Len(b)) : c[i] = IF i <= Len(a) THEN a[i] ELSE b[i - Len(a)]
      BY <2>1, ConcatProperties
    <3> QED  BY <2>1, <3>1
  <2> HIDE DEF c
  <2>3. c[1] = Todo5[1] /\ c[2] = Todo5[2] /\ c[3] = Todo5[3] /\ c[4] = Todo5[4] /\ c[5] = Todo5[5]
    BY <2>2
  <2>4. Todo5 \in Seq(M) /\ Len(Todo5) = 5
    OBVIOUS
  <2>5. \A i \in 1..5 : c[i] = Todo5[i]
    <3> HIDE DEF Todo5
    <3>1. \A i \in 1..5 : i = 1 \/ i = 2 \/ i = 3 \/ i = 4 \/ i = 5
      OBVIOUS
    <3> QED  BY <2>3, <3>1
  <2>6. c = Todo5
    <3> HIDE DEF Todo5, M
    <3> QED  BY <2>2, <2>4, <2>5
  <2> QED  BY <2>6 DEF c, PublishOrder, RefreshOrder
<1>1. Todo0 = <<>> /\ RefreshOrder = Todo3 /\ PublishOrder = Todo5
  BY <1>0 DEF RefreshOrder
<1>2. /\ Len(Todo0) = 0 /\ Len(Todo1) = 1 /\ Len(Todo2) = 2
      /\ Len(Todo3) = 3 /\ Len(Todo4) = 4 /\ Len(Todo5) = 5
  OBVIOUS
<1>3. /\ Head(Todo1) = "payload_ids" /\ Head(Todo2) = "heights" /\ Head(Todo3) = "hashes"
      /\ Head(Todo4) = "transactions" /\ Head(Todo5) = "receipts"
  OBVIOUS
<1>4. /\ Tail(Todo1) = Todo0 /\ Tail(Todo2) = Todo1 /\ Tail(Todo3) = Todo2
      /\ Tail(Todo4) = Todo3 /\ Tail(Todo5) = Todo4
  OBVIOUS
<1> QED  BY <1>1, <1>2, <1>3, <1>4

\* They are all different.
LEMMA TodosDiffer ==
  /\ Todo0 \notin {Todo1, Todo2, Todo3, Todo4, Todo5}
  /\ Todo1 \notin {Todo2, Todo3, Todo4, Todo5}
  /\ Todo2 \notin {Todo3, Todo4, Todo5} /\ Todo3 \notin {Todo4, Todo5} /\ Todo4 # Todo5
<1>1. /\ Len(Todo0) = 0 /\ Len(Todo1) = 1 /\ Len(Todo2) = 2
      /\ Len(Todo3) = 3 /\ Len(Todo4) = 4 /\ Len(Todo5) = 5
  BY Todos
<1>2. 0 # 1 /\ 0 # 2 /\ 0 # 3 /\ 0 # 4 /\ 0 # 5 /\ 1 # 2 /\ 1 # 3 /\ 1 # 4 /\ 1 # 5
      /\ 2 # 3 /\ 2 # 4 /\ 2 # 5 /\ 3 # 4 /\ 3 # 5 /\ 4 # 5
  OBVIOUS
<1> QED  BY <1>1, <1>2, Zenon

\* What is still to publish is known by what comes next.
LEMMA NextTodo ==
  ASSUME MemoryTyped, todo # <<>>
  PROVE  /\ Head(todo) = "payload_ids" => todo = Todo1
         /\ Head(todo) = "heights" => todo = Todo2
         /\ Head(todo) = "hashes" => todo = Todo3
         /\ Head(todo) = "transactions" => todo = Todo4
         /\ Head(todo) = "receipts" => todo = Todo5
         /\ build \in Builds /\ build # NoBuild
<1>1. todo \in {Todo1, Todo2, Todo3, Todo4, Todo5}
  BY Todos DEF MemoryTyped
<1>2. build # NoBuild /\ build \in Builds
  BY Todos DEF MemoryTyped
<1> QED  BY <1>1, <1>2, Todos

\* The marker is no block, no entry and no number.
LEMMA Marker ==
  /\ None \notin Block /\ None \notin Entry /\ None \notin Nat
  /\ NoBuild.block = None /\ NoBuild \notin Builds
  /\ GenesisBlock \in Block /\ GenesisBlock.number = 0 /\ GenesisBlock.root = 0
  /\ GenesisBlock.txs = <<>> /\ GenesisBlock.executed = <<>>
  BY ReaderAssumption DEF Block, Entry, NoBuild, Builds, GenesisBlock, NewBlock

\* The count of the heights, less one, is the last of them.
LEMMA HeightIsLast ==
  ASSUME NEW n \in Nat, Published = 0..(n - 1)
  PROVE  Height = IF n = 0 THEN None ELSE n - 1
<1>1. Cardinality(0..(n - 1)) = n
  BY FS_Interval
<1> QED  BY <1>1 DEF Height, Published

-----------------------------------------------------------------------------
(* The actor *)

\* Before the genesis nothing is published.
LEMMA ActorInit == Init => ActorInv
<1> SUFFICES ASSUME Init PROVE ActorInv
  OBVIOUS
<1> USE DEF Init
<1>1. MemoryTyped
  BY Marker, Todos DEF MemoryTyped
<1>2. Chain
  <2>1. Published = 0..(0 - 1)
    BY DEF Published
  <2> QED  BY <2>1 DEF Chain
<1>3. Complete
  BY DEF Complete
<1> QED  BY <1>1, <1>2, <1>3 DEF ActorInv

\* Outside of a build every block is published by hash and by height.
LEMMA ActorGenesis == ActorInv /\ GenesisUpdate => ActorInv'
<1> SUFFICES ASSUME ActorInv, GenesisUpdate PROVE ActorInv'
  OBVIOUS
<1> USE DEF ActorInv
<1> USE DEF memory
<1>a. build = NoBuild /\ heights = {} /\ todo' = RefreshOrder /\ UNCHANGED memory
  BY DEF GenesisUpdate
<1>b. todo = Todo0 /\ todo' = Todo3
  BY <1>a, Todos DEF MemoryTyped
<1>c. build' = [block |-> GenesisBlock, receipts |-> <<>>, left |-> <<>>]
  BY DEF GenesisUpdate, NoBuild
<1>d. build'.block = GenesisBlock /\ build' \in Builds /\ build' # NoBuild
  BY <1>c, Marker DEF Builds
<1>0. /\ build = NoBuild /\ heights = {} /\ todo = Todo0 /\ todo' = Todo3
      /\ build'.block = GenesisBlock /\ build' \in Builds /\ build' # NoBuild
      /\ UNCHANGED memory
  BY <1>a, <1>b, <1>d
<1>1. MemoryTyped'
  BY <1>0, Marker, Todos DEF MemoryTyped
<1>2. Published = {} /\ Published' = {}
  BY <1>0 DEF Published
<1>3. todo' # Todo2 /\ todo' # Todo1 /\ todo # Todo2 /\ todo' # Todo0 /\ todo' # Todo5
  BY <1>0, TodosDiffer, Zenon
<1>4. Chain'
  BY <1>0, <1>2, <1>3, Marker DEF Chain
<1>5. Complete'
  <2>1. Receipted(GenesisBlock)' /\ Located(GenesisBlock) = {}
    BY <1>0, Marker DEF Receipted, Located
  <2>2. \A b : Receipted(b) => Receipted(b)'
    BY <1>0 DEF Receipted
  <2> QED  BY <1>0, <1>3, <2>1, <2>2, Marker DEF Complete, MemoryTyped
<1> QED  BY <1>1, <1>4, <1>5

\* A build continues the last block.
LEMMA ActorStart ==
  ASSUME ActorInv, NEW k \in Nat, NEW listed \in [1..k -> Txs], StartBlockBuild(listed)
  PROVE  ActorInv'
<1> USE DEF ActorInv
<1>1. PICK n \in Nat : Published = 0..(n - 1)
  BY DEF Chain
<1>2. n # 0 /\ Height = n - 1
  BY <1>1, HeightIsLast DEF StartBlockBuild
<1> DEFINE txs == Selected(listed, {i \in DOMAIN listed : ~ContainsReceipt(listed[i])})
<1>3. PICK parent \in ByHeight(n - 1) :
        build' = [block |-> NewBlock(parent.number + 1, txs, parent.root, <<>>),
                  receipts |-> <<>>, left |-> txs]
  BY <1>2 DEF StartBlockBuild
<1>4. txs \in Seq(Txs)
  <2>1. listed \in Seq(Txs)
    OBVIOUS
  <2> QED  BY <2>1, SelectedTaken DEF TakenFrom
<1> HIDE DEF txs
<1> USE DEF memory
<1>a. build = NoBuild /\ todo' = todo /\ UNCHANGED memory
  BY DEF StartBlockBuild
<1>5. /\ build = NoBuild /\ todo = Todo0 /\ todo' = Todo0 /\ UNCHANGED memory
      /\ todo # Todo2 /\ todo # Todo1 /\ todo # Todo5 /\ todo # Todo4 /\ todo # Todo3
  <2>1. todo = Todo0
    BY <1>a DEF MemoryTyped
  <2> QED  BY <1>a, <2>1, TodosDiffer
<1>6. n - 1 \in Published
  BY <1>1, <1>2
<1>7. parent \in heights /\ parent.number = n - 1
  BY <1>6 DEF ByHeight, GetOne, Published
<1>8. parent \in Block /\ parent.root \in trie /\ parent.root \in Nat
  BY <1>7 DEF MemoryTyped, Chain, Complete, Block
<1>9. /\ build'.block.number = n /\ build'.block.txs = txs /\ build'.block.root = parent.root
      /\ build'.block.executed = <<>> /\ build'.receipts = <<>> /\ build' \in Builds
  BY <1>2, <1>3, <1>4, <1>7, <1>8 DEF NewBlock, Builds, Block
<1>10. build' # NoBuild
  BY <1>9, Marker
<1>11. MemoryTyped'
  BY <1>5, <1>9, <1>10 DEF MemoryTyped
<1>12. Published' = Published /\ n \notin Published
  BY <1>1, <1>5 DEF Published
<1>13. Chain'
  <2>1. n - 1 \in Published'
    BY <1>6, <1>12
  <2> QED  BY <1>5, <1>9, <1>12, <2>1 DEF Chain
<1>14. Complete'
  <2>1. \A b : Receipted(b) => Receipted(b)'
    BY <1>5 DEF Receipted
  <2>2. Len(build'.receipts) = Len(build'.block.executed) /\ DOMAIN build'.block.executed = {}
    BY <1>9
  <2> QED  BY <1>5, <1>8, <1>9, <2>1, <2>2 DEF Complete
<1> QED  BY <1>11, <1>13, <1>14

\* An executed transaction gets a receipt that will be published with the block.
LEMMA ActorExecute == ActorInv /\ ExecuteTransaction => ActorInv'
<1> SUFFICES ASSUME ActorInv, ExecuteTransaction PROVE ActorInv'
  OBVIOUS
<1> USE DEF ActorInv
<1>0. /\ build # NoBuild /\ todo = Todo0 /\ build.left # <<>>
      /\ UNCHANGED <<hashes, heights, payload_ids, transactions, receipts, todo>>
  BY Todos DEF ExecuteTransaction, Executing
<1>1. build \in Builds
  BY <1>0 DEF MemoryTyped
<1> DEFINE t == Head(build.left)
           root == build.block.root + 1
           b == build.block
           c == [b EXCEPT !.root = root, !.executed = Append(@, t)]
<1>2. /\ trie' = trie \cup {root}
      /\ build' = [block |-> c, receipts |-> Append(build.receipts, NewReceipt(t)),
                   left |-> Tail(build.left)]
  BY DEF ExecuteTransaction
<1>3. /\ b \in Block /\ build.receipts \in Seq(Entry) /\ build.left \in Seq(Txs)
  BY <1>1 DEF Builds
<1>4. /\ t \in Txs /\ Tail(build.left) \in Seq(Txs) /\ root \in Nat /\ b.number \in Nat
      /\ b.executed \in Seq(Txs)
  BY <1>0, <1>3 DEF Block
<1>5. /\ c \in Block /\ c.number = b.number /\ c.root = root
      /\ c.executed = Append(b.executed, t)
  <2> HIDE DEF t, root, b
  <2>1. Append(b.executed, t) \in Seq(Txs)
    BY <1>4
  <2>2. c = [b EXCEPT !.root = root, !.executed = Append(b.executed, t)]
    BY <1>3 DEF Block
  <2> HIDE DEF c
  <2> QED  BY <1>3, <1>4, <2>1, <2>2 DEF Block
<1>6. /\ NewReceipt(t) \in Entry /\ NewReceipt(t).hash = t /\ NewReceipt(t).block = b.number
  BY <1>3, <1>4 DEF NewReceipt, Entry
<1> DEFINE r == NewReceipt(t)
<1> HIDE DEF t, root, c, r, b
<1>7. /\ build' \in Builds /\ build'.block = c /\ build'.receipts = Append(build.receipts, r)
      /\ build' # NoBuild
  <2>1. build' \in Builds /\ build'.block = c /\ build'.receipts = Append(build.receipts, r)
    BY <1>2, <1>3, <1>4, <1>5, <1>6 DEF Builds, r
  <2> QED  BY <2>1, Marker
<1>8. MemoryTyped'
  BY <1>0, <1>2, <1>4, <1>7 DEF MemoryTyped
<1>9. Chain'
  <2>1. Published' = Published
    BY <1>0 DEF Published
  <2> QED  BY <1>0, <1>5, <1>7, <2>1, TodosDiffer DEF Chain, b
<1>10. Complete'
  <2>1. \A x : (Receipted(x) => Receipted(x)') /\ (Located(x) \subseteq transactions => Located(x)' \subseteq transactions')
    BY <1>0 DEF Receipted, Located
  <2>2. \A x \in hashes' : (Located(x) \subseteq transactions /\ Receipted(x) /\ x.root \in trie)'
    BY <1>0, <1>2, <2>1 DEF Complete
  <2>3. /\ Len(build.receipts) = Len(b.executed)
        /\ \A i \in 1..Len(b.executed) : /\ build.receipts[i].hash = b.executed[i]
                                         /\ build.receipts[i].block = b.number
    BY <1>0, <1>3, <1>4 DEF Complete, b
  <2> DEFINE n == Len(b.executed)
             q == Append(build.receipts, r)
             e == Append(b.executed, t)
  <2>4. /\ n \in Nat /\ Len(q) = n + 1 /\ Len(e) = n + 1 /\ q[n + 1] = r /\ e[n + 1] = t
        /\ \A i \in 1..n : q[i] = build.receipts[i] /\ e[i] = b.executed[i]
        /\ DOMAIN e = 1..(n + 1)
    BY <1>3, <1>4, <1>6, <2>3 DEF r
  <2> HIDE DEF n, q, e
  <2>5. \A i \in DOMAIN e : q[i].hash = e[i] /\ q[i].block = b.number
    <3> SUFFICES ASSUME NEW i \in 1..(n + 1) PROVE q[i].hash = e[i] /\ q[i].block = b.number
      BY <2>4
    <3>1. CASE i = n + 1
      BY <1>6, <2>4, <3>1 DEF r
    <3>2. CASE i \in 1..n
      BY <2>3, <2>4, <3>2 DEF n
    <3> QED  BY <2>4, <3>1, <3>2
  <2>6. Len(build'.receipts) = Len(build'.block.executed)
    BY <1>5, <1>7, <2>4 DEF q, e
  <2>7. \A i \in DOMAIN build'.block.executed :
          /\ build'.receipts[i].hash = build'.block.executed[i]
          /\ build'.receipts[i].block = build'.block.number
    BY <1>5, <1>7, <2>5 DEF q, e
  <2>8. build'.block.root \in trie'
    BY <1>2, <1>5, <1>7
  <2> QED  BY <1>0, <2>2, <2>6, <2>7, <2>8, TodosDiffer DEF Complete
<1> QED  BY <1>8, <1>9, <1>10

\* A skipped transaction leaves the block and its receipts alone, and so does the
\* end of the loop.
LEMMA ActorSkip == ActorInv /\ (SkipTransaction \/ FinishBuild) => ActorInv'
<1> SUFFICES ASSUME ActorInv, SkipTransaction \/ FinishBuild PROVE ActorInv'
  OBVIOUS
<1> USE DEF ActorInv, memory
<1>0. /\ build # NoBuild /\ todo = Todo0 /\ todo' \in {Todo0, Todo5}
      /\ UNCHANGED <<hashes, heights, payload_ids, transactions, receipts, trie>>
  BY Todos DEF SkipTransaction, FinishBuild, Executing
<1>1. build \in Builds
  BY <1>0 DEF MemoryTyped
<1>2. build' \in Builds /\ build'.block = build.block /\ build'.receipts = build.receipts
  <2>1. CASE SkipTransaction
    <3>1. build' = [build EXCEPT !.left = Tail(@)] /\ build.left # <<>>
      BY <2>1 DEF SkipTransaction, Executing
    <3>2. Tail(build.left) \in Seq(Txs)
      BY <1>1, <3>1 DEF Builds
    <3> QED  BY <1>1, <3>1, <3>2 DEF Builds
  <2>2. CASE FinishBuild
    BY <1>1, <2>2 DEF FinishBuild
  <2> QED  BY <2>1, <2>2
<1>3. build' # NoBuild
  BY <1>2, Marker
<1>4. MemoryTyped'
  BY <1>0, <1>2, <1>3 DEF MemoryTyped
<1>5. Chain'
  <2>1. Published' = Published
    BY <1>0 DEF Published
  <2> QED  BY <1>0, <1>2, <2>1, TodosDiffer DEF Chain
<1>6. Complete'
  <2>1. \A x : (Receipted(x) => Receipted(x)') /\ Located(x)' = Located(x)
    BY <1>0 DEF Receipted, Located
  <2> QED  BY <1>0, <1>2, <2>1, TodosDiffer DEF Complete
<1> QED  BY <1>4, <1>5, <1>6

\* Receipts are published while the block is not.
LEMMA ActorReceipts == ActorInv /\ ExtendReceipts => ActorInv'
<1> SUFFICES ASSUME ActorInv, ExtendReceipts PROVE ActorInv'
  OBVIOUS
<1> USE DEF ActorInv
<1>0. todo = Todo5 /\ build # NoBuild /\ build \in Builds
  BY NextTodo DEF ExtendReceipts, Refresh
<1>1. /\ todo' = Todo4 /\ build' = build
      /\ UNCHANGED <<hashes, heights, payload_ids, transactions, trie>>
      /\ receipts' = receipts \cup {build.receipts[i] : i \in DOMAIN build.receipts}
  BY <1>0, Todos DEF ExtendReceipts, Refresh
<1>2. build.receipts \in Seq(Entry)
  BY <1>0 DEF Builds
<1>3. MemoryTyped'
  <2>1. receipts' \in SUBSET Entry
    BY <1>1, <1>2 DEF MemoryTyped
  <2> QED  BY <1>0, <1>1, <2>1 DEF MemoryTyped
<1>4. Chain'
  <2>1. Published' = Published
    BY <1>1 DEF Published
  <2> QED  BY <1>0, <1>1, <2>1, TodosDiffer DEF Chain
<1>5. Complete'
  <2>1. \A x : (Receipted(x) => Receipted(x)') /\ Located(x)' = Located(x)
    BY <1>1 DEF Receipted, Located
  <2>2. Receipted(build.block)'
    <3>1. build.block.executed \in Seq(Txs)
      BY <1>0 DEF Builds, Block
    <3>2. DOMAIN build.receipts = DOMAIN build.block.executed
      BY <1>0, <1>2, <3>1 DEF Complete
    <3> QED  BY <1>0, <1>1, <3>2 DEF Complete, Receipted
  <2> QED  BY <1>0, <1>1, <2>1, <2>2, TodosDiffer DEF Complete
<1> QED  BY <1>3, <1>4, <1>5

\* Transactions too.
LEMMA ActorTransactions == ActorInv /\ ExtendTransactions => ActorInv'
<1> SUFFICES ASSUME ActorInv, ExtendTransactions PROVE ActorInv'
  OBVIOUS
<1> USE DEF ActorInv
<1>0. todo = Todo4 /\ build # NoBuild /\ build \in Builds
  BY NextTodo DEF ExtendTransactions, Refresh
<1>1. /\ todo' = Todo3 /\ build' = build
      /\ UNCHANGED <<hashes, heights, payload_ids, receipts, trie>>
      /\ transactions' = transactions \cup Located(build.block)
  BY <1>0, Todos DEF ExtendTransactions, Refresh
<1>2. build.block.txs \in Seq(Txs) /\ build.block.number \in Nat
  BY <1>0 DEF Builds, Block
<1>3. MemoryTyped'
  <2>1. Located(build.block) \in SUBSET Entry
    BY <1>2 DEF Located, Entry
  <2> QED  BY <1>0, <1>1, <2>1 DEF MemoryTyped
<1>4. Chain'
  <2>1. Published' = Published
    BY <1>1 DEF Published
  <2> QED  BY <1>0, <1>1, <2>1, TodosDiffer DEF Chain
<1>5. Complete'
  <2>1. \A x : (Receipted(x) => Receipted(x)') /\ Located(x)' = Located(x)
    BY <1>1 DEF Receipted, Located
  <2>2. Located(build.block)' = Located(build.block)
    BY <1>1 DEF Located
  <2>3. \A x \in hashes' : (Located(x) \subseteq transactions /\ Receipted(x) /\ x.root \in trie)'
    BY <1>1, <2>1 DEF Complete
  <2>4. Receipted(build.block)'
    BY <1>0, <1>1, <2>1 DEF Complete
  <2> QED  BY <1>0, <1>1, <2>2, <2>3, <2>4, TodosDiffer DEF Complete
<1> QED  BY <1>3, <1>4, <1>5

\* A block becomes visible by its hash once all it names is visible.
LEMMA ActorHashes == ActorInv /\ RefreshHashes => ActorInv'
<1> SUFFICES ASSUME ActorInv, RefreshHashes PROVE ActorInv'
  OBVIOUS
<1> USE DEF ActorInv
<1>0. todo = Todo3 /\ build # NoBuild /\ build \in Builds
  BY NextTodo DEF RefreshHashes, Refresh
<1>1. /\ todo' = Todo2 /\ build' = build
      /\ UNCHANGED <<heights, payload_ids, transactions, receipts, trie>>
      /\ hashes' = hashes \cup {build.block}
  BY <1>0, Todos DEF RefreshHashes, Refresh
<1>2. build.block \in Block
  BY <1>0 DEF Builds
<1>3. MemoryTyped'
  BY <1>0, <1>1, <1>2 DEF MemoryTyped
<1>4. Chain'
  <2>1. Published' = Published
    BY <1>1 DEF Published
  <2>2. hashes = heights /\ build.block.number \notin Published
    BY <1>0, TodosDiffer DEF Chain
  <2>3. \A b \in hashes : b.number # build.block.number
    BY <2>2 DEF Published
  <2>4. \A b, c \in hashes' : b.number = c.number => b = c
    BY <1>1, <2>3 DEF Chain
  <2> QED  BY <1>0, <1>1, <2>1, <2>2, <2>4, TodosDiffer DEF Chain
<1>5. Complete'
  <2>1. \A x : (Receipted(x) => Receipted(x)') /\ Located(x)' = Located(x)
    BY <1>1 DEF Receipted, Located
  <2>2. \A x \in hashes' : (Located(x) \subseteq transactions /\ Receipted(x) /\ x.root \in trie)'
    BY <1>0, <1>1, <2>1 DEF Complete
  <2> QED  BY <1>0, <1>1, <2>2, TodosDiffer DEF Complete
<1> QED  BY <1>3, <1>4, <1>5

\* The heights grow by one.
LEMMA ActorHeights == ActorInv /\ RefreshHeights => ActorInv'
<1> SUFFICES ASSUME ActorInv, RefreshHeights PROVE ActorInv'
  OBVIOUS
<1> USE DEF ActorInv
<1>0. todo = Todo2 /\ build # NoBuild /\ build \in Builds
  BY NextTodo DEF RefreshHeights, Refresh
<1>1. /\ todo' = Todo1 /\ build' = build
      /\ UNCHANGED <<hashes, payload_ids, transactions, receipts, trie>>
      /\ heights' = heights \cup {build.block}
  BY <1>0, Todos DEF RefreshHeights, Refresh
<1>2. build.block \in Block /\ build.block.number \in Nat
  BY <1>0 DEF Builds, Block
<1>3. MemoryTyped'
  BY <1>0, <1>1, <1>2 DEF MemoryTyped
<1>4. Chain'
  <2>1. Published' = Published \cup {build.block.number}
    BY <1>1 DEF Published
  <2>2. PICK n \in Nat : Published = 0..(n - 1)
    BY DEF Chain
  <2>3. build.block.number = n
    BY <1>0, <1>2, <2>2, TodosDiffer DEF Chain
  <2>4. Published' = 0..((n + 1) - 1) /\ n + 1 \in Nat
    BY <2>1, <2>2, <2>3
  <2>5. \E m \in Nat : Published' = 0..(m - 1)
    BY <2>4
  <2>6. build.block \in hashes /\ hashes \subseteq heights'
    BY <1>0, <1>1 DEF Chain
  <2>7. build.block.number = 0 \/ build.block.number - 1 \in Published'
    BY <1>0, <2>1 DEF Chain
  <2> QED  BY <1>0, <1>1, <2>5, <2>6, <2>7, TodosDiffer DEF Chain
<1>5. Complete'
  <2>1. \A x : (Receipted(x) => Receipted(x)') /\ Located(x)' = Located(x)
    BY <1>1 DEF Receipted, Located
  <2>2. \A x \in hashes' : (Located(x) \subseteq transactions /\ Receipted(x) /\ x.root \in trie)'
    BY <1>1, <2>1 DEF Complete
  <2> QED  BY <1>0, <1>1, <2>2, TodosDiffer DEF Complete
<1> QED  BY <1>3, <1>4, <1>5

\* With the payload id the build is done.
LEMMA ActorIds == ActorInv /\ RefreshPayloadIds => ActorInv'
<1> SUFFICES ASSUME ActorInv, RefreshPayloadIds PROVE ActorInv'
  OBVIOUS
<1> USE DEF ActorInv
<1>0. todo = Todo1 /\ build # NoBuild /\ build \in Builds
  BY NextTodo DEF RefreshPayloadIds, Refresh
<1>1. /\ todo' = Todo0 /\ build' = NoBuild
      /\ UNCHANGED <<hashes, heights, transactions, receipts, trie>>
      /\ payload_ids' = payload_ids \cup {build.block}
  BY <1>0, Todos DEF RefreshPayloadIds, Refresh
<1>2. build.block \in Block
  BY <1>0 DEF Builds
<1>3. MemoryTyped'
  BY <1>0, <1>1, <1>2 DEF MemoryTyped
<1>4. Chain'
  <2>1. Published' = Published
    BY <1>1 DEF Published
  <2> QED  BY <1>0, <1>1, <2>1, TodosDiffer DEF Chain
<1>5. Complete'
  <2>1. \A x : (Receipted(x) => Receipted(x)') /\ Located(x)' = Located(x)
    BY <1>1 DEF Receipted, Located
  <2>2. \A x \in hashes' : (Located(x) \subseteq transactions /\ Receipted(x) /\ x.root \in trie)'
    BY <1>1, <2>1 DEF Complete
  <2> QED  BY <1>1, <2>2 DEF Complete
<1> QED  BY <1>3, <1>4, <1>5

\* The actor never takes back what readers can see.
LEMMA ActorGrows ==
  ASSUME ActorInv, ActorStep
  PROVE  /\ ActorInv' /\ UNCHANGED reader
         /\ hashes \subseteq hashes' /\ heights \subseteq heights' /\ Published \subseteq Published'
         /\ transactions \subseteq transactions' /\ receipts \subseteq receipts'
         /\ trie \subseteq trie'
<1>1. ActorInv' /\ UNCHANGED reader
  <2>1. CASE \E k \in 0..(MaxListed - Cardinality(transactions)) :
               \E listed \in [1..k -> Txs] : StartBlockBuild(listed)
    <3>1. PICK k \in 0..(MaxListed - Cardinality(transactions)) :
               \E listed \in [1..k -> Txs] : StartBlockBuild(listed)
      BY <2>1
    <3>2. PICK listed \in [1..k -> Txs] : StartBlockBuild(listed)
      BY <3>1
    <3>3. k \in Nat
      OBVIOUS
    <3>4. ActorInv'
      BY <3>2, <3>3, ActorStart
    <3> QED  BY <3>2, <3>4 DEF StartBlockBuild
  <2>2. CASE GenesisUpdate
    BY <2>2, ActorGenesis DEF GenesisUpdate
  <2>3. CASE ExecuteTransaction
    BY <2>3, ActorExecute DEF ExecuteTransaction
  <2>4. CASE SkipTransaction
    BY <2>4, ActorSkip DEF SkipTransaction
  <2>5. CASE FinishBuild
    BY <2>5, ActorSkip DEF FinishBuild
  <2>6. CASE Publish
    BY <2>6, ActorReceipts, ActorTransactions, ActorHashes, ActorHeights, ActorIds
    DEF Publish, ExtendReceipts, ExtendTransactions, RefreshHashes, RefreshHeights,
        RefreshPayloadIds, Refresh
  <2> QED  BY <2>1, <2>2, <2>3, <2>4, <2>5, <2>6 DEF ActorStep
<1>2. /\ hashes \subseteq hashes' /\ heights \subseteq heights'
      /\ transactions \subseteq transactions' /\ receipts \subseteq receipts'
      /\ trie \subseteq trie'
  BY DEF ActorStep, GenesisUpdate, StartBlockBuild, ExecuteTransaction, SkipTransaction,
         FinishBuild, Publish, ExtendReceipts, ExtendTransactions, RefreshHashes,
         RefreshHeights, RefreshPayloadIds, Refresh, memory
<1>3. Published \subseteq Published'
  BY <1>2 DEF Published
<1> QED  BY <1>1, <1>2, <1>3

-----------------------------------------------------------------------------
(* Readers *)

\* Nothing a reader holds is disturbed by the actor.
LEMMA ReaderBesideActor ==
  ASSUME ReaderInv, ActorStep
  PROVE  ReaderInv'
<1> USE DEF ReaderInv
<1>1. /\ ActorInv' /\ request' = request /\ pc' = pc /\ known' = known
      /\ hashes \subseteq hashes' /\ heights \subseteq heights' /\ Published \subseteq Published'
      /\ transactions \subseteq transactions' /\ receipts \subseteq receipts'
      /\ trie \subseteq trie'
  BY ActorGrows DEF reader
<1>2. ReaderTyped'
  BY <1>1 DEF ReaderTyped, Sensible
<1>3. KnownPublished'
  BY <1>1 DEF KnownPublished
<1>4. HeightsResolved'
  <2>1. \A h : Resolved(h) => Resolved(h)'
    BY <1>1 DEF Resolved
  <2> QED  BY <1>1, <2>1 DEF HeightsResolved
<1>5. FetchedInOrder'
  <2>1. \A n : Fetched(n) => Fetched(n)'
    BY <1>1 DEF Fetched
  <2>2. pc' = "transactions" => pc = "transactions"
    BY <1>1
  <2> QED  BY <1>1, <2>1, <2>2 DEF FetchedInOrder
<1> QED  BY <1>1, <1>2, <1>3, <1>4, <1>5

\* The parts of a query.
LEMMA QueryParts ==
  ASSUME NEW m, NEW places, NEW fulls, NEW q \in Query(m, places, fulls)
  PROVE  q.method = m /\ q.at \in places /\ q.full \in fulls
  BY DEF Query

\* Where a query may look.
LEMMA PlaceParts ==
  /\ \A a \in Numbers : a[1] = "number" /\ a[2] \in Nat
  /\ \A a \in Hashes : a[1] = "hash" /\ a[2] \in Nat
  /\ \A a \in Tags : a[1] = "latest"
  /\ \A a \in {<<"id", n>> : n \in 1..MaxBlocks} : a[1] = "id"
  /\ \A a \in {<<"tx", t>> : t \in Txs} : a[1] = "tx"
  /\ \A a \in {<<"latest", None>>} : a[1] = "latest"
<1>0. \A n \in 0..MaxBlocks : n \in Nat
  BY ReaderAssumption
<1> QED  BY <1>0 DEF Numbers, Hashes, Tags

\* Every query is about something there is a handler for.
LEMMA QueriesSensible ==
  ASSUME NEW q \in Queries
  PROVE  Sensible(q) /\ q.full \in BOOLEAN
<1>1. CASE q \in GetBlockByNumber
  <2>1. q.method = "block" /\ q.at \in Numbers \cup Tags /\ q.full \in BOOLEAN
    BY <1>1, QueryParts, Zenon DEF GetBlockByNumber
  <2> QED  BY <2>1, PlaceParts DEF Sensible
<1>2. CASE q \in GetBlockByHash \cup NewPayload
  <2>1. q.method = "block" /\ q.at \in Hashes /\ q.full \in BOOLEAN
    <3>1. CASE q \in GetBlockByHash
      BY <3>1, QueryParts, Zenon DEF GetBlockByHash
    <3>2. CASE q \in NewPayload
      <4>1. q.method = "block" /\ q.at \in Hashes /\ q.full \in {TRUE}
        BY <3>2, QueryParts, Zenon DEF NewPayload
      <4> QED  BY <4>1
    <3> QED  BY <1>2, <3>1, <3>2
  <2> QED  BY <2>1, PlaceParts DEF Sensible
<1>3. CASE q \in GetPayload
  <2>1. q.method = "block" /\ q.at \in {<<"id", n>> : n \in 1..MaxBlocks} /\ q.full \in {TRUE}
    <3> DEFINE ids == {<<"id", n>> : n \in 1..MaxBlocks}
    <3>1. q \in Query("block", ids, {TRUE})
      BY <1>3 DEF GetPayload
    <3> HIDE DEF ids
    <3>2. q.method = "block" /\ q.at \in ids /\ q.full \in {TRUE}
      BY <3>1, QueryParts, Zenon
    <3> QED  BY <3>2 DEF ids
  <2> QED  BY <2>1, PlaceParts DEF Sensible
<1>4. CASE q \in GetTransactionByHash \cup GetTransactionReceipt
  <2>1. /\ q.method \in {"transaction", "receipt"} /\ q.full \in {FALSE}
        /\ q.at \in {<<"tx", t>> : t \in Txs}
    <3> DEFINE txs == {<<"tx", t>> : t \in Txs}
    <3>1. q \in Query("transaction", txs, {FALSE}) \/ q \in Query("receipt", txs, {FALSE})
      BY <1>4 DEF GetTransactionByHash, GetTransactionReceipt
    <3> HIDE DEF txs
    <3>2. q.method \in {"transaction", "receipt"} /\ q.full \in {FALSE} /\ q.at \in txs
      <4>1. CASE q \in Query("transaction", txs, {FALSE})
        <5>1. q.method = "transaction" /\ q.full \in {FALSE} /\ q.at \in txs
          BY <4>1, QueryParts, ZenonT(40)
        <5> QED  BY <5>1
      <4>2. CASE q \in Query("receipt", txs, {FALSE})
        <5>1. q.method = "receipt" /\ q.full \in {FALSE} /\ q.at \in txs
          BY <4>2, QueryParts, ZenonT(40)
        <5> QED  BY <5>1
      <4> QED  BY <3>1, <4>1, <4>2
    <3> QED  BY <3>2 DEF txs
  <2> QED  BY <2>1, PlaceParts DEF Sensible
<1>5. CASE q \in BlockNumber
  <2>1. q.method = "number" /\ q.at \in {<<"latest", None>>} /\ q.full \in {FALSE}
    BY <1>5, QueryParts, Zenon DEF BlockNumber
  <2> QED  BY <2>1, PlaceParts DEF Sensible
<1>6. CASE q \in GetBalance \cup GetNonce \cup Call \cup EstimateGas
  <2>1. /\ q.method \in {"state", "call", "estimate"} /\ q.at \in Numbers \cup Tags
        /\ q.full \in {FALSE}
    <3>1. CASE q \in GetBalance \cup GetNonce
      BY <3>1, QueryParts, Zenon DEF GetBalance, GetNonce
    <3>2. CASE q \in Call
      BY <3>2, QueryParts, ZenonT(40) DEF Call
    <3>3. CASE q \in EstimateGas
      BY <3>3, QueryParts, Zenon DEF EstimateGas
    <3> QED  BY <1>6, <3>1, <3>2, <3>3
  <2> QED  BY <2>1, PlaceParts DEF Sensible
<1>7. CASE q \in GetProof
  <2>1. q.method = "proof" /\ q.at \in Numbers \cup Tags \cup Hashes /\ q.full \in BOOLEAN
    BY <1>7, QueryParts, Zenon DEF GetProof
  <2> QED  BY <2>1, PlaceParts DEF Sensible
<1> QED  BY <1>1, <1>2, <1>3, <1>4, <1>5, <1>6, <1>7 DEF Queries

\* A reader leaves the actor and its maps alone.
LEMMA ActorSame ==
  ASSUME ActorInv, UNCHANGED <<memory, actor>>
  PROVE  /\ ActorInv' /\ Published' = Published
         /\ hashes' = hashes /\ heights' = heights /\ transactions' = transactions
         /\ trie' = trie
<1> USE DEF memory, actor
<1>1. Published' = Published
  BY DEF Published
<1>2. Chain'
  BY <1>1 DEF Chain, ActorInv
<1>3. \A x : Receipted(x)' = Receipted(x) /\ Located(x)' = Located(x)
  BY DEF Receipted, Located
<1>4. Complete'
  BY <1>3 DEF Complete, ActorInv
<1>5. MemoryTyped'
  BY DEF MemoryTyped, ActorInv
<1> QED  BY <1>1, <1>2, <1>4, <1>5 DEF ActorInv

\* What a lookup gives.
LEMMA Lookups ==
  ASSUME ActorInv
  PROVE  /\ \A n : \A b \in ByHeight(n) : b # None => b \in heights /\ b.number = n
         /\ \A n : \A b \in ByHash(n) : b # None => b \in hashes /\ b.number = n
         /\ \A n : \A b \in ByPayloadId(n) : b # None => b \in heights /\ b.number = n
         /\ \A n \in Published : \A b \in ByHeight(n) : b # None
         /\ \A n : (\E b \in hashes : b.number = n) => \A b \in ByHash(n) : b # None
         /\ heights \subseteq hashes /\ hashes \subseteq Block /\ None \notin hashes
<1>1. heights \subseteq hashes /\ payload_ids \subseteq heights /\ hashes \subseteq Block
  BY DEF ActorInv, Chain, MemoryTyped
<1>2. None \notin hashes
  BY <1>1, Marker
<1>3. \A n : \A b \in ByHeight(n) : b # None => b \in heights /\ b.number = n
  BY DEF ByHeight, GetOne
<1>4. \A n : \A b \in ByHash(n) : b # None => b \in hashes /\ b.number = n
  BY DEF ByHash, GetOne
<1>5. \A n : \A b \in ByPayloadId(n) : b # None => b \in heights /\ b.number = n
  BY <1>1 DEF ByPayloadId, GetOne
<1>6. \A n \in Published : \A b \in ByHeight(n) : b # None
  BY <1>1, <1>2 DEF ByHeight, GetOne, Published
<1>7. \A n : (\E b \in hashes : b.number = n) => \A b \in ByHash(n) : b # None
  BY <1>2 DEF ByHash, GetOne
<1> QED  BY <1>1, <1>2, <1>3, <1>4, <1>5, <1>6, <1>7

\* The state of every published height is in the trie.
LEMMA RootsStored ==
  ASSUME ActorInv
  PROVE  /\ \A n : \A root \in RootByHeight(n) : root # None => root \in trie
         /\ \A n \in Published : \A root \in RootByHeight(n) : root \in trie
         /\ trie \subseteq Nat
<1>0. 0 \in trie /\ trie \subseteq Nat /\ GenesisBlock.root = 0
  BY Marker DEF ActorInv, MemoryTyped
<1>1. \A b \in hashes : b.root \in trie
  BY DEF ActorInv, Complete
<1>2. \A n : \A root \in RootByHeight(n) : root # None => root \in trie
  BY <1>0, <1>1, Lookups DEF RootByHeight
<1>3. \A n \in Published : \A root \in RootByHeight(n) : root \in trie
  BY <1>0, <1>1, Lookups DEF RootByHeight
<1> QED  BY <1>0, <1>2, <1>3

\* There are no gaps.
LEMMA NoGaps ==
  ASSUME ActorInv
  PROVE  /\ Published \subseteq Nat
         /\ \A h \in Published, k \in Nat : k <= h => k \in Published
         /\ \A b \in hashes, k \in Nat : k <= b.number => \E c \in hashes : c.number = k
         /\ Published = {} => Height = None
         /\ Published # {} => Height \in Published /\ \A h \in Published : h <= Height
<1>1. PICK n \in Nat : Published = 0..(n - 1)
  BY DEF ActorInv, Chain
<1>2. Published \subseteq Nat /\ \A h \in Published, k \in Nat : k <= h => k \in Published
  BY <1>1
<1>3. Height = IF n = 0 THEN None ELSE n - 1
  BY <1>1, HeightIsLast
<1>4. /\ Published = {} => Height = None
      /\ Published # {} => Height \in Published /\ \A h \in Published : h <= Height
  BY <1>1, <1>3
<1>5. ASSUME NEW b \in hashes, NEW k \in Nat, k <= b.number
      PROVE  \E c \in hashes : c.number = k
  <2>1. b.number \in Nat
    BY DEF ActorInv, MemoryTyped, Block
  <2>2. k = b.number \/ k \in Published
    <3>1. CASE b \in heights
      BY <1>2, <1>5, <3>1 DEF Published
    <3>2. CASE b \notin heights
      <4>1. todo = Todo2 /\ b = build.block
        BY <3>2 DEF ActorInv, Chain
      <4>2. build # NoBuild
        BY <4>1, TodosDiffer DEF ActorInv, MemoryTyped
      <4>3. b.number = 0 \/ b.number - 1 \in Published
        BY <4>1, <4>2 DEF ActorInv, Chain
      <4> QED  BY <1>2, <1>5, <2>1, <4>3
    <3> QED  BY <3>1, <3>2
  <2>3. \A p \in Published : \E c \in hashes : c.number = p
    BY Lookups DEF Published
  <2> QED  BY <2>2, <2>3
<1> QED  BY <1>2, <1>4, <1>5

\* What an answer may teach a client.
Teaches(rq, next) ==
  /\ rq.block # None => rq.block \in hashes /\ (rq.at[1] # "hash" => rq.block \in heights)
  /\ next = "answered" /\ rq.method = "number" /\ rq.height # None => rq.height \in Published

\* A reply keeps to what is published.
LEMMA ReplyKnown ==
  ASSUME ReaderInv, NEW rq \in Requests, NEW next, Reply(rq, next), Teaches(rq, next)
  PROVE  /\ ActorInv' /\ KnownPublished' /\ known' \in [hash : MaybeNat, height : MaybeNat]
         /\ request' = rq /\ pc' = next /\ (next # "answered" => known' = known)
         /\ Published' = Published /\ transactions' = transactions /\ trie' = trie
<1> USE DEF ReaderInv
<1>1. /\ ActorInv' /\ Published' = Published /\ hashes' = hashes /\ heights' = heights
      /\ transactions' = transactions /\ trie' = trie
  BY ActorSame DEF Reply
<1>2. request' = rq /\ pc' = next /\ known' = IF next = "answered" THEN Learned(rq) ELSE known
  BY DEF Reply
<1>3. /\ known \in [hash : MaybeNat, height : MaybeNat]
      /\ known.height # None => known.height \in Published
      /\ known.hash # None => \E b \in hashes : b.number = known.hash
  BY DEF ReaderTyped, KnownPublished
<1>4. CASE next # "answered"
  BY <1>1, <1>2, <1>3, <1>4 DEF KnownPublished, Teaches
<1>5. CASE next = "answered"
  <2> DEFINE block == IF rq.method = "block" /\ rq.block # None THEN rq.block.number ELSE None
             height == IF rq.method = "number" THEN rq.height
                       ELSE IF rq.at[1] = "hash" THEN None ELSE block
  <2>1. known' = [hash |-> Newer(known.hash, block), height |-> Newer(known.height, height)]
    BY <1>2, <1>5 DEF Learned
  <2>2. block # None => block \in Nat /\ \E b \in hashes : b.number = block
    BY DEF Teaches, ActorInv, MemoryTyped, Block
  <2>3. height # None => height \in Published
    BY <1>5 DEF Teaches, Published
  <2>4. Published \subseteq Nat
    BY NoGaps
  <2> HIDE DEF block, height
  <2>5. Newer(known.hash, block) \in {known.hash, block} /\ Newer(known.height, height) \in {known.height, height}
    BY DEF Newer
  <2>6. known' \in [hash : MaybeNat, height : MaybeNat]
    <3>1. block \in MaybeNat /\ height \in MaybeNat /\ known.hash \in MaybeNat /\ known.height \in MaybeNat
      BY <1>3, <2>2, <2>3, <2>4 DEF MaybeNat
    <3> QED  BY <2>1, <2>5, <3>1
  <2>7. /\ known'.height # None => known'.height \in Published
        /\ known'.hash # None => \E b \in hashes : b.number = known'.hash
    BY <1>3, <2>1, <2>2, <2>3, <2>5
  <2> QED  BY <1>1, <1>2, <1>5, <2>6, <2>7 DEF KnownPublished, Teaches
<1> QED  BY <1>4, <1>5

\* Asking and finishing teach nothing.
LEMMA ReaderAsks ==
  ASSUME ReaderInv, (\E q \in Queries : Ask(q)) \/ Finish
  PROVE  ReaderInv'
<1> USE DEF ReaderInv
<1>0. UNCHANGED <<memory, actor>> /\ known' = known
  BY DEF Ask, Finish
<1>1. /\ ActorInv' /\ Published' = Published /\ hashes' = hashes /\ heights' = heights
      /\ transactions' = transactions /\ trie' = trie
  BY <1>0, ActorSame
<1>a. /\ <<>> \in Seq(Txs) /\ <<>> \in Seq(Entry) /\ None \in MaybeNat /\ None \in Block \cup {None}
  BY DEF MaybeNat
<1>2. CASE Finish
  <2>1. pc' = "idle" /\ request' = NoRequest
    BY <1>2 DEF Finish
  <2>2. NoRequest \in Requests /\ NoRequest.block = None /\ NoRequest.left = <<>> /\ NoRequest.txs = <<>>
    BY <1>a DEF NoRequest, Requests
  <2>3. ReaderTyped'
    BY <1>0, <2>1, <2>2 DEF ReaderTyped
  <2>4. KnownPublished'
    BY <1>0, <1>1, <2>1, <2>2 DEF KnownPublished
  <2>5. HeightsResolved' /\ FetchedInOrder'
    BY <2>1 DEF HeightsResolved, FetchedInOrder
  <2> QED  BY <1>1, <2>3, <2>4, <2>5
<1>3. ASSUME NEW q \in Queries, Ask(q) PROVE ReaderInv'
  <2>1. /\ request' = [NoRequest EXCEPT !.method = q.method, !.at = q.at, !.full = q.full]
        /\ pc' = IF q.at[1] \in {"latest", "earliest", "number"} \/ q.method = "proof"
                 THEN "resolve" ELSE "fetch"
    BY <1>3 DEF Ask
  <2>2. Sensible(q) /\ q.full \in BOOLEAN
    BY QueriesSensible
  <2>3. request' = [method |-> q.method, at |-> q.at, full |-> q.full, height |-> None,
                    second |-> None, block |-> None, root |-> None, left |-> <<>>, txs |-> <<>>]
    BY <2>1 DEF NoRequest
  <2>4. /\ request' \in Requests /\ request'.block = None /\ request'.left = <<>> /\ request'.txs = <<>>
        /\ request'.method = q.method /\ request'.at = q.at /\ request'.full = q.full
    BY <1>a, <2>2, <2>3 DEF Requests
  <2>5. Sensible(request)'
    BY <2>2, <2>4 DEF Sensible
  <2>6. pc' \in {"resolve", "fetch"}
    BY <2>1
  <2>7. ReaderTyped'
    BY <1>0, <2>4, <2>5, <2>6 DEF ReaderTyped
  <2>8. KnownPublished'
    BY <1>0, <1>1, <2>4 DEF KnownPublished
  <2>9. FetchedInOrder'
    BY <2>6 DEF FetchedInOrder
  <2>10. HeightsResolved'
    BY <2>1, <2>2, <2>4, <2>6 DEF HeightsResolved, Sensible
  <2> QED  BY <1>1, <2>7, <2>8, <2>9, <2>10
<1> QED  BY <1>2, <1>3

\* The latest height is one a client knows, or a later one.
LEMMA Resolves ==
  ASSUME ReaderInv, pc \in {"resolve", "again"}, NEW h \in ResolveHeight(request.at)
  PROVE  /\ h \in MaybeNat
         /\ h # None => Resolved(h)
         /\ request.at[1] = "latest" => h = Height
<1> USE DEF ReaderInv
<1>1. request.at[1] \in {"latest", "number", "hash"}
  BY DEF HeightsResolved
<1>2. Sensible(request)
  BY DEF ReaderTyped
<1>3. CASE request.at[1] = "latest"
  <2>1. h = Height
    BY <1>3 DEF ResolveHeight
  <2>2. Published # {} => Height \in Published /\ \A p \in Published : p <= Height
    BY NoGaps
  <2>3. Published = {} => Height = None
    BY NoGaps
  <2>4. Published \subseteq Nat
    BY NoGaps
  <2>5. known.height # None => known.height \in Published
    BY DEF KnownPublished
  <2>6. h \in MaybeNat
    BY <2>1, <2>2, <2>3, <2>4 DEF MaybeNat
  <2>7. h # None => Resolved(h)
    BY <1>3, <2>1, <2>2, <2>3, <2>5 DEF Resolved
  <2> QED  BY <2>1, <2>6, <2>7
<1>4. CASE request.at[1] = "number"
  <2>1. h = request.at[2]
    BY <1>4 DEF ResolveHeight
  <2> QED  BY <1>2, <1>4, <2>1 DEF Resolved, MaybeNat, Sensible
<1>5. CASE request.at[1] = "hash"
  <2>1. PICK b \in ByHash(request.at[2]) : h = IF b = None THEN None ELSE b.number
    BY <1>5 DEF ResolveHeight
  <2>2. h # None => h = request.at[2]
    BY <2>1, Lookups
  <2> QED  BY <1>2, <1>5, <2>2 DEF Resolved, MaybeNat, Sensible
<1> QED  BY <1>1, <1>3, <1>4, <1>5

\* Resolving a height, once or twice.
LEMMA ReaderResolves ==
  ASSUME ReaderInv, Resolve \/ ResolveAgain
  PROVE  ReaderInv'
<1> USE DEF ReaderInv
<1>0. request \in Requests /\ request.block = None /\ request.left = <<>> /\ request.txs = <<>>
      /\ Sensible(request)
  BY DEF ReaderTyped, Resolve, ResolveAgain
<1>1. CASE Resolve
  <2>1. PICK h \in ResolveHeight(request.at) :
          Reply([request EXCEPT !.height = h],
             IF h = None THEN IF request.method \in Unwraps THEN "panicked" ELSE "answered"
             ELSE IF request.method = "number" THEN "answered"
             ELSE IF request.method = "estimate" THEN "again" ELSE "fetch")
    BY <1>1 DEF Resolve
  <2> DEFINE rq == [request EXCEPT !.height = h]
             next == IF h = None THEN IF request.method \in Unwraps THEN "panicked" ELSE "answered"
                     ELSE IF request.method = "number" THEN "answered"
                     ELSE IF request.method = "estimate" THEN "again" ELSE "fetch"
  <2>2. pc = "resolve" /\ request.at[1] \in {"latest", "number", "hash"}
    BY <1>1 DEF Resolve, HeightsResolved
  <2>3. h \in MaybeNat /\ (h # None => Resolved(h)) /\ (request.at[1] = "latest" => h = Height)
    BY <2>2, Resolves
  <2>4. /\ rq \in Requests /\ rq.height = h /\ rq.block = None /\ rq.method = request.method
        /\ rq.at = request.at /\ rq.full = request.full /\ rq.left = <<>> /\ rq.txs = <<>>
    BY <1>0, <2>3 DEF Requests
  <2>5. next \in {"panicked", "answered", "again", "fetch"}
    OBVIOUS
  <2>6. Teaches(rq, next)
    BY <1>0, <2>3, <2>4 DEF Teaches, Sensible, Resolved
  <2>7. /\ next = "again" => h # None /\ request.method = "estimate"
        /\ next = "fetch" => h # None /\ request.method \notin {"number", "estimate"}
    OBVIOUS
  <2>8. Reply(rq, next)
    BY <2>1
  <2> HIDE DEF rq, next
  <2>9. /\ ActorInv' /\ KnownPublished' /\ known' \in [hash : MaybeNat, height : MaybeNat]
        /\ request' = rq /\ pc' = next /\ (next # "answered" => known' = known)
        /\ Published' = Published /\ transactions' = transactions /\ trie' = trie
    BY <2>4, <2>6, <2>8, ReplyKnown
  <2>10. Sensible(request)'
    BY <1>0, <2>4, <2>9 DEF Sensible
  <2>11. ReaderTyped'
    BY <2>4, <2>5, <2>9, <2>10 DEF ReaderTyped
  <2>12. FetchedInOrder'
    BY <2>4, <2>5, <2>9 DEF FetchedInOrder
  <2>13. next # "answered" /\ h # None => Resolved(h)'
    BY <2>3, <2>4, <2>9 DEF Resolved
  <2>14. HeightsResolved'
    BY <1>0, <2>2, <2>4, <2>5, <2>7, <2>9, <2>13 DEF HeightsResolved, Unwraps
  <2> QED  BY <2>9, <2>11, <2>12, <2>14
<1>2. CASE ResolveAgain
  <2>1. PICK h \in ResolveHeight(request.at) : Reply([request EXCEPT !.second = h], "fetch")
    BY <1>2 DEF ResolveAgain
  <2> DEFINE rq == [request EXCEPT !.second = h]
  <2>2. pc = "again" /\ request.method = "estimate" /\ Resolved(request.height)
    BY <1>2 DEF ResolveAgain, HeightsResolved
  <2>3. h \in MaybeNat /\ (h # None => Resolved(h)) /\ (request.at[1] = "latest" => h = Height)
    BY <2>2, Resolves
  <2>4. h # None
    <3>1. request.at[1] \in {"number", "latest"}
      BY <1>0, <2>2 DEF Sensible
    <3>2. CASE request.at[1] = "latest"
      <4>1. Published # {}
        BY <2>2, <3>2 DEF Resolved
      <4>2. Height \in Nat
        BY <4>1, NoGaps
      <4> QED  BY <2>3, <3>2, <4>2, Marker
    <3>3. CASE request.at[1] = "number"
      BY <1>0, <3>3, Marker DEF ResolveHeight, Sensible
    <3> QED  BY <3>1, <3>2, <3>3
  <2>5. /\ rq \in Requests /\ rq.second = h /\ rq.height = request.height
        /\ rq.block = None /\ rq.method = request.method
        /\ rq.at = request.at /\ rq.full = request.full /\ rq.left = <<>> /\ rq.txs = <<>>
    BY <1>0, <2>3 DEF Requests
  <2>6. Teaches(rq, "fetch")
    BY <2>5 DEF Teaches
  <2>7. Reply(rq, "fetch")
    BY <2>1
  <2> HIDE DEF rq
  <2>8. /\ ActorInv' /\ KnownPublished' /\ known' \in [hash : MaybeNat, height : MaybeNat]
        /\ request' = rq /\ pc' = "fetch" /\ known' = known
        /\ Published' = Published /\ transactions' = transactions /\ trie' = trie
    BY <2>5, <2>6, <2>7, ReplyKnown
  <2>9. Sensible(request)'
    BY <1>0, <2>5, <2>8 DEF Sensible
  <2>10. ReaderTyped'
    BY <2>5, <2>8, <2>9 DEF ReaderTyped
  <2>11. FetchedInOrder'
    BY <2>8 DEF FetchedInOrder
  <2>12. Resolved(request.height)' /\ Resolved(request.second)'
    BY <2>2, <2>3, <2>4, <2>5, <2>8 DEF Resolved
  <2>13. HeightsResolved'
    BY <2>2, <2>5, <2>8, <2>12 DEF HeightsResolved
  <2> QED  BY <2>8, <2>10, <2>11, <2>13
<1> QED  BY <1>1, <1>2

\* A block is fetched with what is needed to fetch its transactions.
LEMMA ReaderFetchesBlock ==
  ASSUME ReaderInv, FetchBlock \/ FetchPayload
  PROVE  ReaderInv'
<1> USE DEF ReaderInv
<1>0. /\ pc = "fetch" /\ request \in Requests /\ Sensible(request)
      /\ request.block = None /\ request.left = <<>> /\ request.txs = <<>>
  BY DEF ReaderTyped, FetchBlock, FetchPayload
<1>1. request.method = "block"
  BY <1>0 DEF FetchBlock, FetchPayload, Sensible
<1>2. PICK b \in Block \cup {None} :
        /\ b # None => b \in hashes /\ (request.at[1] # "hash" => b \in heights)
        /\ \/ /\ b # None /\ request.full
              /\ Reply([request EXCEPT !.block = b, !.left = b.txs], "transactions")
           \/ /\ b = None \/ ~request.full
              /\ Reply([request EXCEPT !.block = b], "answered")
  <2>1. CASE FetchBlock
    <3> DEFINE found == IF request.at[1] = "hash" THEN ByHash(request.at[2]) ELSE ByHeight(request.height)
    <3>1. PICK b \in found :
            IF b # None /\ request.full
            THEN Reply([request EXCEPT !.block = b, !.left = b.txs], "transactions")
            ELSE Reply([request EXCEPT !.block = b], "answered")
      BY <2>1 DEF FetchBlock
    <3>2. b # None => b \in hashes /\ (request.at[1] # "hash" => b \in heights)
      BY Lookups
    <3>3. b \in Block \cup {None}
      BY <3>2, Lookups
    <3> QED  BY <3>1, <3>2, <3>3
  <2>2. CASE FetchPayload
    <3>1. PICK b \in ByPayloadId(request.at[2]) :
            IF b # None
            THEN Reply([request EXCEPT !.block = b, !.left = b.txs], "transactions")
            ELSE Reply(request, "answered")
      BY <2>2 DEF FetchPayload
    <3>2. request.full
      BY <1>0, <2>2 DEF FetchPayload, Sensible
    <3>3. b # None => b \in hashes /\ b \in heights
      BY Lookups
    <3>4. b \in Block \cup {None}
      BY <3>3, Lookups
    <3>5. b = None => [request EXCEPT !.block = b] = request
      BY <1>0 DEF Requests
    <3> QED  BY <3>1, <3>2, <3>3, <3>4, <3>5
  <2> QED  BY <2>1, <2>2
<1>3. CASE b # None /\ request.full /\ Reply([request EXCEPT !.block = b, !.left = b.txs], "transactions")
  <2> DEFINE rq == [request EXCEPT !.block = b, !.left = b.txs]
  <2>1. b \in Block /\ b.txs \in Seq(Txs)
    BY <1>3 DEF Block
  <2>2. /\ rq \in Requests /\ rq.block = b /\ rq.left = b.txs /\ rq.txs = <<>>
        /\ rq.method = request.method /\ rq.at = request.at /\ rq.full = request.full
        /\ rq.height = request.height /\ rq.second = request.second
    BY <1>0, <2>1 DEF Requests
  <2>3. Teaches(rq, "transactions")
    BY <1>2, <2>2 DEF Teaches
  <2>4. Reply(rq, "transactions")
    BY <1>3
  <2> HIDE DEF rq
  <2>5. /\ ActorInv' /\ KnownPublished' /\ known' \in [hash : MaybeNat, height : MaybeNat]
        /\ request' = rq /\ pc' = "transactions" /\ known' = known
        /\ Published' = Published /\ transactions' = transactions /\ trie' = trie
    BY <2>2, <2>3, <2>4, ReplyKnown
  <2>6. Sensible(request)'
    BY <1>0, <2>2, <2>5 DEF Sensible
  <2>7. ReaderTyped'
    BY <1>1, <1>3, <2>2, <2>5, <2>6 DEF ReaderTyped
  <2>8. HeightsResolved'
    <3>1. request.at[1] \in {"number", "latest"} => Resolved(request.height)
      BY <1>0, <1>1 DEF HeightsResolved
    <3>2. Resolved(request.height) => Resolved(request.height)'
      BY <2>2, <2>5 DEF Resolved
    <3> QED  BY <2>2, <2>5, <3>1, <3>2 DEF HeightsResolved
  <2>9. FetchedInOrder'
    <3>1. Len(request'.txs) = 0 /\ 0 + Len(request'.left) = Len(request'.block.txs)
      BY <2>1, <2>2, <2>5
    <3>2. \A i \in 1..Len(request'.left) : request'.left[i] = request'.block.txs[0 + i]
      BY <2>1, <2>2, <2>5
    <3>3. Fetched(0)'
      BY <3>1 DEF Fetched
    <3>4. \E n \in Nat : /\ Fetched(n)' /\ n + Len(request'.left) = Len(request'.block.txs)
                         /\ \A i \in 1..Len(request'.left) : request'.left[i] = request'.block.txs[n + i]
      BY <3>1, <3>2, <3>3
    <3> QED  BY <2>5, <3>4 DEF FetchedInOrder
  <2> QED  BY <2>5, <2>7, <2>8, <2>9
<1>4. CASE (b = None \/ ~request.full) /\ Reply([request EXCEPT !.block = b], "answered")
  <2> DEFINE rq == [request EXCEPT !.block = b]
  <2>2. /\ rq \in Requests /\ rq.block = b /\ rq.left = <<>> /\ rq.txs = <<>>
        /\ rq.method = request.method /\ rq.at = request.at /\ rq.full = request.full
    BY <1>0 DEF Requests
  <2>3. Teaches(rq, "answered")
    BY <1>1, <1>2, <2>2 DEF Teaches
  <2>4. Reply(rq, "answered")
    BY <1>4
  <2> HIDE DEF rq
  <2>5. /\ ActorInv' /\ KnownPublished' /\ known' \in [hash : MaybeNat, height : MaybeNat]
        /\ request' = rq /\ pc' = "answered"
    BY <2>2, <2>3, <2>4, ReplyKnown
  <2>6. Sensible(request)'
    BY <1>0, <2>2, <2>5 DEF Sensible
  <2>7. ReaderTyped'
    BY <2>2, <2>5, <2>6 DEF ReaderTyped
  <2>8. HeightsResolved' /\ FetchedInOrder'
    BY <1>4, <2>2, <2>5 DEF HeightsResolved, FetchedInOrder
  <2> QED  BY <2>5, <2>7, <2>8
<1> QED  BY <1>2, <1>3, <1>4

\* Each lookup finds a transaction of the block: it was published before.
LEMMA ReaderFetchesTransactions ==
  ASSUME ReaderInv, FetchTransactions
  PROVE  ReaderInv'
<1> USE DEF ReaderInv
<1>0. /\ pc = "transactions" /\ request \in Requests /\ Sensible(request)
      /\ request.block # None /\ request.method = "block" /\ request.full
  BY DEF ReaderTyped, FetchTransactions
<1>1. PICK n \in Nat :
        /\ Fetched(n) /\ n + Len(request.left) = Len(request.block.txs)
        /\ \A i \in 1..Len(request.left) : request.left[i] = request.block.txs[n + i]
  BY <1>0 DEF FetchedInOrder
<1>2. /\ request.block \in hashes /\ request.block \in Block
      /\ request.at[1] # "hash" => request.block \in heights
  BY <1>0, Lookups DEF KnownPublished
<1>3. /\ request.left \in Seq(Txs) /\ request.txs \in Seq(Entry) /\ request.block.txs \in Seq(Txs)
      /\ Len(request.left) \in Nat /\ Len(request.block.txs) \in Nat
  BY <1>0, <1>2 DEF Requests, Block
<1>4. CASE request.left = <<>> /\ Reply(request, "answered")
  <2>1. Teaches(request, "answered")
    BY <1>0, <1>2 DEF Teaches
  <2>2. /\ ActorInv' /\ KnownPublished' /\ known' \in [hash : MaybeNat, height : MaybeNat]
        /\ request' = request /\ pc' = "answered" /\ transactions' = transactions
    BY <1>0, <1>4, <2>1, ReplyKnown
  <2>3. ReaderTyped'
    BY <1>0, <2>2 DEF ReaderTyped, Sensible
  <2>4. HeightsResolved'
    BY <2>2 DEF HeightsResolved
  <2>5. n = Len(request.block.txs)
    BY <1>1, <1>3, <1>4
  <2>6. Fetched(n)'
    BY <1>1, <2>2 DEF Fetched
  <2>7. FetchedInOrder'
    BY <1>0, <2>2, <2>5, <2>6 DEF FetchedInOrder
  <2> QED  BY <2>2, <2>3, <2>4, <2>7
<1>5. CASE /\ request.left # <<>>
           /\ \E x \in TransactionByHash(Head(request.left)) :
                Reply([request EXCEPT !.left = Tail(@), !.txs = IF x = None THEN @ ELSE Append(@, x)],
                      "transactions")
  <2>1. PICK x \in TransactionByHash(Head(request.left)) :
          Reply([request EXCEPT !.left = Tail(@), !.txs = IF x = None THEN @ ELSE Append(@, x)],
                "transactions")
    BY <1>5
  <2>2. /\ Head(request.left) = request.left[1] /\ 1 \in 1..Len(request.left)
        /\ n + 1 \in 1..Len(request.block.txs)
    BY <1>1, <1>3, <1>5
  <2>3. Head(request.left) = request.block.txs[n + 1]
    BY <1>1, <2>2
  <2>4. \E y \in transactions : y.hash = Head(request.left)
    <3> DEFINE y == [hash |-> request.block.txs[n + 1], block |-> request.block.number, index |-> (n + 1) - 1]
    <3>1. y \in Located(request.block)
      BY <1>3, <2>2 DEF Located
    <3>2. Located(request.block) \subseteq transactions
      BY <1>2 DEF ActorInv, Complete
    <3> QED  BY <2>3, <3>1, <3>2
  <2>5. x \in transactions /\ x.hash = request.block.txs[n + 1]
    BY <2>3, <2>4 DEF TransactionByHash, GetOne
  <2>6. x \in Entry /\ x # None
    BY <2>5, Marker DEF ActorInv, MemoryTyped
  <2> DEFINE rest == Tail(request.left)
             more == Append(request.txs, x)
             rq == [request EXCEPT !.left = rest, !.txs = more]
  <2>7. Reply(rq, "transactions")
    BY <1>0, <2>1, <2>6 DEF Requests
  <2>8. /\ rest \in Seq(Txs) /\ Len(rest) = Len(request.left) - 1
        /\ \A i \in 1..Len(rest) : rest[i] = request.left[i + 1]
    BY <1>3, <1>5
  <2>9. /\ more \in Seq(Entry) /\ Len(more) = n + 1 /\ more[n + 1] = x
        /\ \A i \in 1..n : more[i] = request.txs[i]
    BY <1>1, <1>3, <2>6 DEF Fetched
  <2> HIDE DEF rest, more
  <2>10. /\ rq \in Requests /\ rq.left = rest /\ rq.txs = more /\ rq.block = request.block
         /\ rq.method = request.method /\ rq.at = request.at /\ rq.full = request.full
         /\ rq.height = request.height
    BY <1>0, <2>8, <2>9 DEF Requests
  <2> HIDE DEF rq
  <2>11. Teaches(rq, "transactions")
    BY <1>2, <2>10 DEF Teaches
  <2>12. /\ ActorInv' /\ KnownPublished' /\ known' \in [hash : MaybeNat, height : MaybeNat]
         /\ request' = rq /\ pc' = "transactions" /\ known' = known
         /\ Published' = Published /\ transactions' = transactions /\ trie' = trie
    BY <2>7, <2>10, <2>11, ReplyKnown
  <2>13. ReaderTyped'
    BY <1>0, <2>10, <2>12 DEF ReaderTyped, Sensible
  <2>14. HeightsResolved'
    <3>1. request.at[1] \in {"number", "latest"} => Resolved(request.height)
      BY <1>0 DEF HeightsResolved
    <3>2. Resolved(request.height) => Resolved(request.height)'
      BY <2>10, <2>12 DEF Resolved
    <3> QED  BY <2>10, <2>12, <3>1, <3>2 DEF HeightsResolved
  <2>15. Fetched(n + 1)'
    <3>1. \A i \in 1..(n + 1) : more[i] \in transactions /\ more[i].hash = request.block.txs[i]
      <4> SUFFICES ASSUME NEW i \in 1..(n + 1)
                   PROVE  more[i] \in transactions /\ more[i].hash = request.block.txs[i]
        OBVIOUS
      <4>1. CASE i = n + 1
        BY <2>5, <2>9, <4>1
      <4>2. CASE i \in 1..n
        BY <1>1, <2>9, <4>2 DEF Fetched
      <4> QED  BY <4>1, <4>2
    <3> QED  BY <2>9, <2>10, <2>12, <3>1 DEF Fetched
  <2>16. (n + 1) + Len(rest) = Len(request.block.txs) /\ n + 1 \in Nat
    <3>1. PICK a \in Nat, b \in Nat, c \in Int :
            a = Len(request.left) /\ b = Len(request.block.txs) /\ c = Len(rest) /\ c = a - 1 /\ n + a = b
      BY <1>1, <1>3, <2>8
    <3>2. c = a - 1 /\ n + a = b
      BY <3>1
    <3>3. (n + 1) + c = b /\ n + 1 \in Nat
      BY <3>2
    <3> QED  BY <3>1, <3>3, Zenon
  <2>17. \A i \in 1..Len(rest) : rest[i] = request.block.txs[(n + 1) + i]
    <3> SUFFICES ASSUME NEW i \in 1..Len(rest) PROVE rest[i] = request.block.txs[(n + 1) + i]
      OBVIOUS
    <3>1. i + 1 \in 1..Len(request.left) /\ n + (i + 1) = (n + 1) + i
      BY <1>3, <2>8
    <3> QED  BY <1>1, <2>8, <3>1
  <2>18. PICK m \in Nat : m = n + 1
    BY <2>16
  <2>19. /\ Fetched(m)' /\ m + Len(request'.left) = Len(request'.block.txs)
         /\ \A i \in 1..Len(request'.left) : request'.left[i] = request'.block.txs[m + i]
    BY <2>10, <2>12, <2>15, <2>16, <2>17, <2>18
  <2>20. FetchedInOrder'
    <3>1. pc' = "transactions"
      BY <2>12
    <3> QED  BY <2>19, <3>1 DEF FetchedInOrder
  <2> QED  BY <2>12, <2>13, <2>14, <2>20
<1> QED  BY <1>4, <1>5 DEF FetchTransactions

\* A single transaction or receipt.
LEMMA ReaderFetchesOne ==
  ASSUME ReaderInv, FetchTransaction \/ FetchReceipt
  PROVE  ReaderInv'
<1> USE DEF ReaderInv
<1>0. /\ pc = "fetch" /\ request \in Requests /\ Sensible(request)
      /\ request.block = None /\ request.left = <<>> /\ request.txs = <<>>
      /\ request.method \in {"transaction", "receipt"}
  BY DEF ReaderTyped, FetchTransaction, FetchReceipt
<1>1. transactions \subseteq Entry /\ receipts \subseteq Entry
  BY DEF ActorInv, MemoryTyped
<1>2. PICK s \in Seq(Entry) : Reply([request EXCEPT !.txs = s], "answered")
  <2>1. CASE FetchTransaction
    <3>1. PICK x \in TransactionByHash(request.at[2]) :
            Reply([request EXCEPT !.txs = IF x = None THEN <<>> ELSE <<x>>], "answered")
      BY <2>1 DEF FetchTransaction
    <3>2. x # None => x \in Entry
      BY <1>1 DEF TransactionByHash, GetOne
    <3>3. (IF x = None THEN <<>> ELSE <<x>>) \in Seq(Entry)
      BY <3>2
    <3> QED  BY <3>1, <3>3
  <2>2. CASE FetchReceipt
    <3>1. PICK x \in ReceiptByHash(request.at[2]) :
            Reply([request EXCEPT !.txs = IF x = None THEN <<>> ELSE <<x>>], "answered")
      BY <2>2 DEF FetchReceipt
    <3>2. x # None => x \in Entry
      BY <1>1 DEF ReceiptByHash, GetOne
    <3>3. (IF x = None THEN <<>> ELSE <<x>>) \in Seq(Entry)
      BY <3>2
    <3> QED  BY <3>1, <3>3
  <2> QED  BY <2>1, <2>2
<1> DEFINE rq == [request EXCEPT !.txs = s]
<1>3. /\ rq \in Requests /\ rq.block = None /\ rq.method = request.method
      /\ rq.at = request.at /\ rq.full = request.full
  BY <1>0 DEF Requests
<1>4. Reply(rq, "answered")
  BY <1>2
<1> HIDE DEF rq
<1>5. Teaches(rq, "answered")
  BY <1>0, <1>3 DEF Teaches
<1>6. /\ ActorInv' /\ KnownPublished' /\ known' \in [hash : MaybeNat, height : MaybeNat]
      /\ request' = rq /\ pc' = "answered"
  BY <1>3, <1>4, <1>5, ReplyKnown
<1>7. ReaderTyped'
  BY <1>0, <1>3, <1>6 DEF ReaderTyped, Sensible
<1>8. HeightsResolved' /\ FetchedInOrder'
  BY <1>3, <1>6 DEF HeightsResolved, FetchedInOrder
<1> QED  BY <1>6, <1>7, <1>8

\* Reads of the state leave the heights as they were resolved.
LEMMA ReaderFetchesState ==
  ASSUME ReaderInv, FetchState \/ FetchProof
  PROVE  ReaderInv'
<1> USE DEF ReaderInv
<1>0. /\ pc = "fetch" /\ request \in Requests /\ Sensible(request)
      /\ request.block = None /\ request.left = <<>> /\ request.txs = <<>>
      /\ request.method \in {"state", "call", "estimate", "proof"}
  BY DEF ReaderTyped, FetchState, FetchProof
<1>1. PICK root \in MaybeNat, next \in {"panicked", "execute", "answered"} :
        /\ Reply([request EXCEPT !.root = root], next)
        /\ next = "execute" => root \in trie /\ request.method \in {"call", "estimate"}
  <2>0. \A h : \A r \in RootByHeight(h) : (r # None => r \in trie) /\ r \in MaybeNat
    BY RootsStored DEF MaybeNat
  <2>1. CASE FetchState
    <3>1. PICK root \in RootByHeight(request.height) :
            Reply([request EXCEPT !.root = root],
                  IF root = None /\ request.method \in Unwraps THEN "panicked"
                  ELSE IF request.method \in Unwraps THEN "execute" ELSE "answered")
      BY <2>1 DEF FetchState
    <3>2. request.method \in {"state", "call", "estimate"}
      BY <2>1 DEF FetchState
    <3> DEFINE next == IF root = None /\ request.method \in Unwraps THEN "panicked"
                       ELSE IF request.method \in Unwraps THEN "execute" ELSE "answered"
    <3>3. /\ next \in {"panicked", "execute", "answered"}
          /\ next = "execute" => root # None /\ request.method \in {"call", "estimate"}
      BY <3>2 DEF Unwraps
    <3>4. Reply([request EXCEPT !.root = root], next)
      BY <3>1
    <3> HIDE DEF next
    <3> QED  BY <2>0, <3>3, <3>4
  <2>2. CASE FetchProof
    <3>1. PICK root \in RootByHeight(request.height) :
            Reply([request EXCEPT !.root = IF request.full /\ root \notin ReaderTries THEN None ELSE root],
                  "answered")
      BY <2>2 DEF FetchProof
    <3> DEFINE r == IF request.full /\ root \notin ReaderTries THEN None ELSE root
    <3>2. r \in MaybeNat /\ Reply([request EXCEPT !.root = r], "answered")
      BY <2>0, <3>1 DEF MaybeNat
    <3> QED  BY <3>2
  <2> QED  BY <2>1, <2>2
<1> DEFINE rq == [request EXCEPT !.root = root]
<1>2. /\ rq \in Requests /\ rq.block = None /\ rq.left = <<>> /\ rq.txs = <<>> /\ rq.root = root
      /\ rq.method = request.method /\ rq.at = request.at /\ rq.full = request.full
      /\ rq.height = request.height /\ rq.second = request.second
  BY <1>0 DEF Requests
<1>3. Reply(rq, next)
  BY <1>1
<1> HIDE DEF rq
<1>4. Teaches(rq, next)
  BY <1>0, <1>2 DEF Teaches
<1>5. /\ ActorInv' /\ KnownPublished' /\ known' \in [hash : MaybeNat, height : MaybeNat]
      /\ request' = rq /\ pc' = next /\ (next # "answered" => known' = known)
      /\ Published' = Published /\ transactions' = transactions /\ trie' = trie
  BY <1>2, <1>3, <1>4, ReplyKnown
<1>6. ReaderTyped'
  BY <1>0, <1>2, <1>5 DEF ReaderTyped, Sensible
<1>7. FetchedInOrder'
  BY <1>2, <1>5 DEF FetchedInOrder
<1>8. \A h : next # "answered" /\ Resolved(h) => Resolved(h)'
  BY <1>2, <1>5 DEF Resolved
<1>9. /\ Resolved(request.height)
      /\ request.method = "estimate" => Resolved(request.second)
  BY <1>0 DEF HeightsResolved
<1>10. HeightsResolved'
  <2>1. CASE next = "execute"
    BY <1>1, <1>2, <1>5, <1>8, <1>9, <2>1 DEF HeightsResolved, Unwraps
  <2>2. CASE next # "execute"
    BY <1>5, <2>2 DEF HeightsResolved
  <2> QED  BY <2>1, <2>2
<1> QED  BY <1>5, <1>6, <1>7, <1>10

\* A simulated transaction may look up the hash of a published block.
LEMMA ReaderExecutes ==
  ASSUME ReaderInv, SimulateTransaction \/ CallTransaction
  PROVE  ReaderInv'
<1> USE DEF ReaderInv
<1>0. /\ pc = "execute" /\ request \in Requests /\ Sensible(request)
      /\ request.block = None /\ request.left = <<>> /\ request.txs = <<>>
      /\ request.method \in {"call", "estimate"} /\ ~request.full
      /\ request.at[1] \in {"number", "latest"}
  BY DEF ReaderTyped, SimulateTransaction, CallTransaction, Sensible
<1>1. PICK b \in Block \cup {None}, next \in {"zero", "answered"} :
        /\ Reply([request EXCEPT !.block = b], next)
        /\ b # None => b \in heights /\ b \in hashes
  <2>1. CASE Reply(request, "answered")
    <3>1. [request EXCEPT !.block = None] = request
      BY <1>0 DEF Requests
    <3> QED  BY <2>1, <3>1
  <2>2. CASE LookUpBlockHash(request.second)
    <3>1. PICK n \in {x \in 0..MaxBlocks : InReach(x, request.second)} : \E b \in ByHeight(n) :
            Reply([request EXCEPT !.block = b], IF b = None THEN "zero" ELSE "answered")
      BY <2>2 DEF LookUpBlockHash
    <3>2. PICK b \in ByHeight(n) :
            Reply([request EXCEPT !.block = b], IF b = None THEN "zero" ELSE "answered")
      BY <3>1
    <3>3. b # None => b \in heights /\ b \in hashes /\ b \in Block
      BY Lookups
    <3> QED  BY <3>2, <3>3
  <2> QED  BY <2>1, <2>2 DEF SimulateTransaction, CallTransaction
<1> DEFINE rq == [request EXCEPT !.block = b]
<1>2. /\ rq \in Requests /\ rq.block = b /\ rq.method = request.method
      /\ rq.at = request.at /\ rq.full = request.full
  BY <1>0 DEF Requests
<1>3. Reply(rq, next)
  BY <1>1
<1> HIDE DEF rq
<1>4. Teaches(rq, next)
  BY <1>0, <1>1, <1>2 DEF Teaches
<1>5. /\ ActorInv' /\ KnownPublished' /\ known' \in [hash : MaybeNat, height : MaybeNat]
      /\ request' = rq /\ pc' = next
  BY <1>2, <1>3, <1>4, ReplyKnown
<1>6. ReaderTyped'
  BY <1>0, <1>2, <1>5 DEF ReaderTyped, Sensible
<1>7. HeightsResolved' /\ FetchedInOrder'
  BY <1>0, <1>2, <1>5 DEF HeightsResolved, FetchedInOrder
<1> QED  BY <1>5, <1>6, <1>7

\* The invariant holds in every state.
LEMMA ReaderInvariant == Spec => []ReaderInv
<1>1. Init => ReaderInv
  <2> SUFFICES ASSUME Init PROVE ReaderInv
    OBVIOUS
  <2>1. ActorInv
    BY ActorInit
  <2>2. /\ NoRequest \in Requests /\ NoRequest.block = None /\ NoRequest.left = <<>>
        /\ NoRequest.txs = <<>>
    BY DEF NoRequest, Requests, MaybeNat
  <2>3. ReaderTyped
    BY <2>2 DEF Init, ReaderTyped, MaybeNat
  <2>4. KnownPublished /\ HeightsResolved /\ FetchedInOrder
    BY <2>2 DEF Init, KnownPublished, HeightsResolved, FetchedInOrder
  <2> QED  BY <2>1, <2>3, <2>4 DEF ReaderInv
<1>2. ReaderInv /\ [Next]_vars => ReaderInv'
  <2> SUFFICES ASSUME ReaderInv, [Next]_vars PROVE ReaderInv'
    OBVIOUS
  <2>1. CASE ActorStep
    BY <2>1, ReaderBesideActor
  <2>2. CASE ReaderStep
    BY <2>2, ReaderAsks, ReaderResolves, ReaderFetchesBlock, ReaderFetchesTransactions,
       ReaderFetchesOne, ReaderFetchesState, ReaderExecutes DEF ReaderStep
  <2>3. CASE UNCHANGED vars
    <3>1. ActorInv'
      BY <2>3, ActorSame DEF vars, ReaderInv
    <3>2. Published' = Published /\ UNCHANGED <<hashes, heights, transactions, trie, request, pc, known>>
      BY <2>3 DEF vars, memory, reader, Published
    <3>3. ReaderTyped' /\ KnownPublished'
      BY <3>2 DEF ReaderInv, ReaderTyped, KnownPublished, Sensible
    <3>4. HeightsResolved'
      <4>1. \A h : Resolved(h) => Resolved(h)'
        BY <3>2 DEF Resolved
      <4> QED  BY <3>2, <4>1 DEF ReaderInv, HeightsResolved
    <3>5. FetchedInOrder'
      <4>1. \A n : Fetched(n) => Fetched(n)'
        BY <3>2 DEF Fetched
      <4> QED  BY <3>2, <4>1 DEF ReaderInv, FetchedInOrder
    <3> QED  BY <3>1, <3>3, <3>4, <3>5 DEF ReaderInv
  <2> QED  BY <2>1, <2>2, <2>3 DEF Next
<1> QED  BY <1>1, <1>2, PTL DEF Spec

-----------------------------------------------------------------------------
(* The theorems *)

(* by_hashes leaves out what it does not find, and still a block or payload is  *)
(* answered with every transaction it lists, and its receipts are readable:     *)
(* because of the order in which the actor publishes the maps.                  *)
THEOREM AnswersAreComplete == Spec => []AnswersComplete
<1>1. ReaderInv => AnswersComplete
  <2> SUFFICES ASSUME ReaderInv, pc = "answered", request.method = "block", request.block # None
               PROVE  /\ request.full =>
                           [i \in DOMAIN request.txs |-> request.txs[i].hash] = request.block.txs
                      /\ Receipted(request.block)
    BY DEF AnswersComplete, Receipted
  <2>1. request.block \in hashes /\ request.block \in Block
    BY Lookups DEF ReaderInv, KnownPublished
  <2>2. Receipted(request.block)
    BY <2>1 DEF ReaderInv, ActorInv, Complete
  <2>3. request.txs \in Seq(Entry) /\ request.block.txs \in Seq(Txs)
    BY <2>1 DEF ReaderInv, ReaderTyped, Requests, Block
  <2>4. request.full => Fetched(Len(request.block.txs))
    BY DEF ReaderInv, FetchedInOrder
  <2>5. ASSUME request.full
        PROVE  [i \in DOMAIN request.txs |-> request.txs[i].hash] = request.block.txs
    BY <2>3, <2>4, <2>5 DEF Fetched
  <2> QED  BY <2>2, <2>5
<1> QED  BY <1>1, ReaderInvariant, PTL

(* While no transaction was listed twice, the transactions of a full block say  *)
(* that they are at their place of that block, whatever the actor published     *)
(* between the lookups.                                                         *)
THEOREM TransactionsLocated == Spec => []CleanLocated
<1>1. ReaderInv => CleanLocated
  <2> SUFFICES ASSUME ReaderInv, pc = "answered", request.block # None, request.full,
                      \A x, y \in transactions : x.hash = y.hash => x = y,
                      NEW i \in DOMAIN request.txs
               PROVE  request.txs[i] = [hash |-> request.block.txs[i],
                                        block |-> request.block.number, index |-> i - 1]
    BY DEF CleanLocated
  <2>1. request.block \in hashes /\ request.block \in Block
    BY Lookups DEF ReaderInv, KnownPublished
  <2>2. Located(request.block) \subseteq transactions
    BY <2>1 DEF ReaderInv, ActorInv, Complete
  <2>3. request.txs \in Seq(Entry) /\ request.block.txs \in Seq(Txs)
    BY <2>1 DEF ReaderInv, ReaderTyped, Requests, Block
  <2>4. Fetched(Len(request.block.txs))
    BY DEF ReaderInv, FetchedInOrder
  <2>5. i \in DOMAIN request.block.txs /\ request.txs[i] \in transactions
        /\ request.txs[i].hash = request.block.txs[i]
    BY <2>3, <2>4 DEF Fetched
  <2> DEFINE x == [hash |-> request.block.txs[i], block |-> request.block.number, index |-> i - 1]
  <2>6. x \in transactions /\ x.hash = request.block.txs[i]
    BY <2>2, <2>5 DEF Located
  <2> QED  BY <2>5, <2>6
<1> QED  BY <1>1, ReaderInvariant, PTL

\* What a client is owed was published, and is found.
LEMMA OwedPublished ==
  ASSUME ReaderInv, pc # "idle", Owed(request)
  PROVE  /\ request.at[1] \in {"number", "latest", "hash"}
         /\ request.at[1] = "number" => request.at[2] \in Published
         /\ request.at[1] = "latest" => known.height # None /\ known.height \in Published
         /\ request.at[1] = "hash" /\ request.method = "proof" => request.at[2] \in Published
         /\ request.at[1] = "hash" => \E b \in hashes : b.number = request.at[2]
<1> USE DEF ReaderInv
<1>1. Sensible(request) /\ known \in [hash : MaybeNat, height : MaybeNat]
  BY DEF ReaderTyped
<1>2. known.height # None => known.height \in Published
  BY DEF KnownPublished
<1>3. \A h \in Published, k \in Nat : k <= h => k \in Published
  BY NoGaps
<1>4. request.at[1] \in {"number", "hash"} => request.at[2] \in Nat
  BY <1>1 DEF Sensible
<1>5. request.at[1] \in {"number", "hash"} /\ AtMost(request.at[2], known.height)
        => request.at[2] \in Published
  BY <1>2, <1>3, <1>4 DEF AtMost
<1>6. \A n \in Published : \E b \in hashes : b.number = n
  BY Lookups DEF Published
<1>7. request.at[1] = "hash" /\ AtMost(request.at[2], known.hash)
        => \E b \in hashes : b.number = request.at[2]
  <2> SUFFICES ASSUME request.at[1] = "hash", AtMost(request.at[2], known.hash)
               PROVE  \E b \in hashes : b.number = request.at[2]
    OBVIOUS
  <2>1. PICK c \in hashes : c.number = known.hash
    BY DEF AtMost, KnownPublished
  <2> QED  BY <1>4, <2>1, NoGaps DEF AtMost
<1> QED  BY <1>2, <1>5, <1>6, <1>7 DEF Owed

\* An answer that keeps to what the client knew.
Kept ==
  /\ pc' = "answered" /\ Found(request')
  /\ request.at[1] = "latest" => AtMost(known.height, request'.height)

\* Resolving gives a height.
LEMMA ResolveKept ==
  ASSUME ReaderInv, Owed(request), Resolve, pc' \in {"answered", "panicked", "zero"}
  PROVE  Kept
<1>1. PICK h \in ResolveHeight(request.at) :
        Reply([request EXCEPT !.height = h],
           IF h = None THEN IF request.method \in Unwraps THEN "panicked" ELSE "answered"
           ELSE IF request.method = "number" THEN "answered"
           ELSE IF request.method = "estimate" THEN "again" ELSE "fetch")
  BY DEF Resolve
<1>2. pc = "resolve" /\ request \in Requests /\ Sensible(request)
  BY DEF Resolve, ReaderInv, ReaderTyped
<1>3. /\ h # None => Resolved(h)
      /\ request.at[1] = "latest" => h = Height
  BY <1>2, Resolves
<1>4. h # None
  <2>1. CASE request.at[1] = "latest"
    <3>1. Published # {}
      BY <1>2, <2>1, OwedPublished
    <3>2. Height \in Nat
      BY <3>1, NoGaps DEF ReaderInv
    <3> QED  BY <1>3, <2>1, <3>2, Marker
  <2>2. CASE request.at[1] = "number"
    BY <1>2, <2>2, Marker DEF ResolveHeight, Sensible
  <2>3. CASE request.at[1] = "hash"
    <3>1. \A b \in ByHash(request.at[2]) : b # None /\ b.number \in Nat
      BY <1>2, <2>3, OwedPublished, Lookups DEF ReaderInv, Block
    <3> QED  BY <2>3, <3>1, Marker DEF ResolveHeight
  <2> QED  BY <1>2, <2>1, <2>2, <2>3, OwedPublished
<1>5. request.method = "number" /\ pc' = "answered" /\ request' = [request EXCEPT !.height = h]
  BY <1>1, <1>4 DEF Reply
<1>6. request'.height = h /\ request'.method = "number"
  BY <1>2, <1>5 DEF Requests
<1>7. request.at[1] = "latest" => AtMost(known.height, h)
  BY <1>2, <1>3, <1>4, OwedPublished DEF Resolved, AtMost
<1> QED  BY <1>4, <1>5, <1>6, <1>7 DEF Kept, Found

\* The height that was resolved is as far as the client knew, at least.
LEMMA ResolvedKept ==
  ASSUME ReaderInv, pc # "idle", Owed(request), request.at[1] \in {"number", "latest"} \/ request.method = "proof",
         NEW h, Resolved(h)
  PROVE  /\ h \in Published
         /\ request.at[1] = "latest" => AtMost(known.height, h)
  BY OwedPublished DEF Resolved, AtMost

\* The block is found.
LEMMA FetchBlockKept ==
  ASSUME ReaderInv, Owed(request), FetchBlock \/ FetchPayload,
         pc' \in {"answered", "panicked", "zero"}
  PROVE  Kept
<1>1. pc = "fetch" /\ request \in Requests /\ Sensible(request)
  BY DEF FetchBlock, FetchPayload, ReaderInv, ReaderTyped
<1>2. FetchBlock /\ request.method = "block"
  BY <1>1, OwedPublished DEF FetchBlock, FetchPayload
<1> DEFINE found == IF request.at[1] = "hash" THEN ByHash(request.at[2]) ELSE ByHeight(request.height)
<1>3. PICK b \in found :
        IF b # None /\ request.full
        THEN Reply([request EXCEPT !.block = b, !.left = b.txs], "transactions")
        ELSE Reply([request EXCEPT !.block = b], "answered")
  BY <1>2 DEF FetchBlock
<1>4. request.at[1] # "hash" => request.height \in Published
        /\ (request.at[1] = "latest" => AtMost(known.height, request.height))
  <2>1. request.at[1] # "hash" => request.at[1] \in {"number", "latest"}
    BY <1>1, OwedPublished
  <2>2. request.at[1] # "hash" => Resolved(request.height)
    BY <1>1, <1>2, <2>1 DEF ReaderInv, HeightsResolved
  <2> QED  BY <1>1, <2>1, <2>2, ResolvedKept
<1>5. b # None
  <2>1. CASE request.at[1] = "hash"
    BY <1>1, <2>1, OwedPublished, Lookups DEF ReaderInv
  <2>2. CASE request.at[1] # "hash"
    BY <1>4, <2>2, Lookups DEF ReaderInv
  <2> QED  BY <2>1, <2>2
<1>6. pc' = "answered" /\ request' = [request EXCEPT !.block = b]
  BY <1>3 DEF Reply
<1>7. request'.block = b /\ request'.method = "block" /\ request'.height = request.height
  BY <1>1, <1>2, <1>6 DEF Requests
<1> QED  BY <1>4, <1>5, <1>6, <1>7 DEF Kept, Found

\* It stays found while its transactions are fetched.
LEMMA FetchTransactionsKept ==
  ASSUME ReaderInv, Owed(request), FetchTransactions,
         pc' \in {"answered", "panicked", "zero"}
  PROVE  Kept
<1>1. /\ pc = "transactions" /\ request.method = "block" /\ request.block # None
      /\ Sensible(request)
  BY DEF FetchTransactions, ReaderInv, ReaderTyped
<1>2. request' = request /\ pc' = "answered"
  BY DEF FetchTransactions, Reply
<1>3. request.at[1] = "latest" => AtMost(known.height, request.height)
  <2>1. request.at[1] = "latest" => Resolved(request.height)
    BY <1>1 DEF ReaderInv, HeightsResolved
  <2> QED  BY <1>1, <2>1, ResolvedKept
<1> QED  BY <1>1, <1>2, <1>3 DEF Kept, Found

\* The state of the height is in the trie, and nothing panics.
LEMMA FetchStateKept ==
  ASSUME ReaderInv, Owed(request), FetchState \/ FetchProof,
         pc' \in {"answered", "panicked", "zero"}
  PROVE  Kept
<1>1. /\ pc = "fetch" /\ request \in Requests /\ Sensible(request)
      /\ request.method \in {"state", "call", "estimate", "proof"}
  BY DEF FetchState, FetchProof, ReaderInv, ReaderTyped
<1>2. Resolved(request.height)
  BY <1>1 DEF ReaderInv, HeightsResolved
<1>3. /\ request.height \in Published
      /\ request.at[1] = "latest" => AtMost(known.height, request.height)
  BY <1>1, <1>2, ResolvedKept DEF Sensible
<1>4. \A root \in RootByHeight(request.height) : root \in trie /\ root # None
  BY <1>3, RootsStored, Marker DEF ReaderInv
<1>5. CASE FetchState
  <2>1. PICK root \in RootByHeight(request.height) :
          Reply([request EXCEPT !.root = root],
                IF root = None /\ request.method \in Unwraps THEN "panicked"
                ELSE IF request.method \in Unwraps THEN "execute" ELSE "answered")
    BY <1>5 DEF FetchState
  <2>2. /\ pc' = "answered" /\ request.method \notin Unwraps
        /\ request' = [request EXCEPT !.root = root] /\ trie' = trie
    BY <1>4, <2>1 DEF Reply, memory
  <2>3. request.method = "state"
    BY <1>5, <2>2 DEF FetchState, Unwraps
  <2>4. request'.root = root /\ request'.method = "state" /\ request'.height = request.height
    BY <1>1, <2>2, <2>3 DEF Requests
  <2> QED  BY <1>3, <1>4, <2>2, <2>4 DEF Kept, Found
<1>6. CASE FetchProof
  <2>1. PICK root \in RootByHeight(request.height) :
          Reply([request EXCEPT !.root = IF request.full /\ root \notin ReaderTries THEN None ELSE root],
                "answered")
    BY <1>6 DEF FetchProof
  <2> DEFINE r == IF request.full /\ root \notin ReaderTries THEN None ELSE root
  <2>2. request' = [request EXCEPT !.root = r] /\ pc' = "answered" /\ trie' = trie
    BY <2>1 DEF Reply, memory
  <2>3. request.method = "proof"
    BY <1>6 DEF FetchProof
  <2>4. request.full \/ r \in trie
    BY <1>4
  <2> HIDE DEF r
  <2>5. /\ request'.root = r /\ request'.method = "proof" /\ request'.full = request.full
        /\ request'.height = request.height
    BY <1>1, <2>2, <2>3 DEF Requests
  <2> QED  BY <1>3, <2>2, <2>4, <2>5 DEF Kept, Found
<1> QED  BY <1>5, <1>6

\* A hash in reach of a published height is found.
LEMMA ExecuteKept ==
  ASSUME ReaderInv, Owed(request), SimulateTransaction \/ CallTransaction,
         pc' \in {"answered", "panicked", "zero"}
  PROVE  Kept
<1>1. /\ pc = "execute" /\ request \in Requests /\ Sensible(request)
      /\ request.method \in {"call", "estimate"} /\ request.at[1] \in {"number", "latest"}
  BY DEF SimulateTransaction, CallTransaction, ReaderInv, ReaderTyped, Sensible
<1>2. /\ Resolved(request.height) /\ request.root \in trie
      /\ request.method = "estimate" => Resolved(request.second)
  BY <1>1 DEF ReaderInv, HeightsResolved
<1>3. /\ request.at[1] = "latest" => AtMost(known.height, request.height)
      /\ request.method = "estimate" => request.second \in Published
  BY <1>1, <1>2, ResolvedKept
<1>4. PICK b : pc' = "answered" /\ trie' = trie /\ request' = [request EXCEPT !.block = b]
  <2>1. CASE Reply(request, "answered")
    <3>1. [request EXCEPT !.block = request.block] = request
      BY <1>1 DEF Requests
    <3> QED  BY <2>1, <3>1 DEF Reply, memory
  <2>2. CASE LookUpBlockHash(request.second) /\ request.method = "estimate"
    <3>1. PICK n \in {x \in 0..MaxBlocks : InReach(x, request.second)} : \E b \in ByHeight(n) :
            Reply([request EXCEPT !.block = b], IF b = None THEN "zero" ELSE "answered")
      BY <2>2 DEF LookUpBlockHash
    <3>2. PICK b \in ByHeight(n) :
            Reply([request EXCEPT !.block = b], IF b = None THEN "zero" ELSE "answered")
      BY <3>1
    <3>3. n \in Nat /\ n < request.second
      BY <3>1, ReaderAssumption DEF InReach
    <3>4. request.second \in Nat /\ n \in Published
      BY <1>3, <2>2, <3>3, NoGaps DEF ReaderInv
    <3>5. b # None
      BY <3>4, Lookups DEF ReaderInv
    <3> QED  BY <3>2, <3>5 DEF Reply, memory
  <2> QED  BY <2>1, <2>2 DEF SimulateTransaction, CallTransaction
<1>5. /\ request'.root = request.root /\ request'.method = request.method
      /\ request'.height = request.height
  BY <1>1, <1>4 DEF Requests
<1> QED  BY <1>1, <1>2, <1>3, <1>4, <1>5 DEF Kept, Found

(* A client never loses what it was given: whatever the actor publishes in      *)
(* between, a later query at or below a height it knows is answered, finds the  *)
(* block and its state, and the latest height does not go back.                 *)
THEOREM NoAnswerRegresses == Spec => AnswersNeverRegress
<1>1. ReaderInv /\ [Next]_vars =>
        [/\ pc' \in {"answered", "panicked", "zero"} /\ pc # pc' /\ Owed(request)
         => /\ pc' = "answered" /\ Found(request')
            /\ request.at[1] = "latest" => AtMost(known.height, request'.height)]_vars
  <2> SUFFICES ASSUME ReaderInv, Next, pc' \in {"answered", "panicked", "zero"}, pc # pc', Owed(request)
               PROVE  Kept
    BY DEF Kept
  <2>1. ReaderStep
    <3>1. ActorStep => pc' = pc
      BY DEF ActorStep, GenesisUpdate, StartBlockBuild, ExecuteTransaction, SkipTransaction,
             FinishBuild, Publish, ExtendReceipts, ExtendTransactions, RefreshHashes,
             RefreshHeights, RefreshPayloadIds, Refresh, reader
    <3> QED  BY <3>1 DEF Next
  <2>2. ~(\E q \in Queries : Ask(q)) /\ ~ResolveAgain /\ ~Finish
    BY DEF Ask, ResolveAgain, Finish, Reply
  <2>3. CASE Resolve
    BY <2>3, ResolveKept
  <2>4. CASE FetchBlock \/ FetchPayload
    BY <2>4, FetchBlockKept
  <2>5. CASE FetchTransactions
    BY <2>5, FetchTransactionsKept
  <2>6. CASE FetchTransaction \/ FetchReceipt
    <3>1. request.at[1] = "tx" /\ pc # "idle"
      BY <2>6 DEF FetchTransaction, FetchReceipt, ReaderInv, ReaderTyped, Sensible
    <3> QED  BY <3>1, OwedPublished
  <2>7. CASE FetchState \/ FetchProof
    BY <2>7, FetchStateKept
  <2>8. CASE SimulateTransaction \/ CallTransaction
    BY <2>8, ExecuteKept
  <2> QED  BY <2>1, <2>2, <2>3, <2>4, <2>5, <2>6, <2>7, <2>8 DEF ReaderStep
<1> QED  BY <1>1, ReaderInvariant, PTL DEF Spec, AnswersNeverRegress
=============================================================================
