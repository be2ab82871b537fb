------------------------------- MODULE Tries -------------------------------
(* The state of the chain as it lies in the databases: one Merkle trie of Move  *)
(* resources and EVM accounts, and one storage trie for every account, whose    *)
(* root the account holds. Nodes are addressed by their hash and never removed, *)
(* so that one database holds the tries of all heights; a root is recorded      *)
(* after its nodes, in a write of its own, and the process may end between any  *)
(* two writes. Both persistent backends (heed, rocksdb) do the same; the map    *)
(* names the lines of one of them.                                              *)
EXTENDS Naturals, Sequences, FiniteSets

CONSTANTS
  Resources,   \* keys of Move modules and resources
  Values,      \* what a resource can be
  Accounts,    \* addresses of EVM accounts
  Predeployed, \* the accounts the genesis creates
  Slots,       \* storage slots of an account
  MaxWord,     \* the largest value of a slot
  None,        \* an absent value, a missing root
  Lost,        \* what is read where a node is missing
  MaxTxs,      \* bound: transactions
  MaxCalls,    \* bound: EVM calls of a transaction
  MaxHeight,   \* bound: published heights
  MaxCrashes   \* bound: process ends

ASSUME TriesAssumption ==
  /\ MaxWord \in Nat /\ MaxTxs \in Nat /\ MaxCalls \in Nat
  /\ MaxHeight \in Nat /\ MaxCrashes \in Nat
  /\ Resources \cap Accounts = {} /\ Predeployed \subseteq Accounts
  /\ Lost # None
  /\ \A mark \in {None, Lost} :
       /\ mark \notin Values /\ mark \notin {<<v>> : v \in Values}
       /\ mark \notin 0..MaxWord /\ mark \notin [Slots -> 0..MaxWord]

VARIABLES
  trie,          \* database "trie": the nodes of the state trie
  trie_root,     \* database "trie_root": the root found by the next process
  state_roots,   \* database "state": roots by height, from height 1
  storage_trie,  \* database "evm_storage_trie": nodes by account
  storage_root,  \* database "evm_storage_trie_root": a root by account
  state_root,    \* HeedState.state_root, in memory
  tx,            \* the transaction at work: its changes and storage tries
  pc,            \* what the process does next
  txs,           \* transactions so far
  crashes,       \* process ends so far
  torn           \* a process ended between a state root and its storage tries

databases == <<trie, trie_root, state_roots, storage_trie, storage_root>>
memory == <<state_root, tx, pc>>
vars == <<databases, memory, txs, crashes, torn>>

-----------------------------------------------------------------------------
(* Keys and values of the state trie *)

Keys == Resources \cup Accounts

Storages == [Slots -> 0..MaxWord]
EmptyStorage == [s \in Slots |-> 0]

\* evm_key_address: accounts of the EVM have a place of their own in the trie.
IsEvmKey(k) == k \in Accounts

\* TreeValue::serialize: a resource is wrapped as a StateValue, an account is
\* kept as the EVM wrote it, a deletion is empty.
Serialize(k, v) == IF v = None \/ IsEvmKey(k) THEN v ELSE <<v>>

\* EthTrieResolver: the value of a key out of the bytes of its leaf.
Deserialize(k, b) == IF b = None \/ IsEvmKey(k) THEN b ELSE b[1]

Bytes == {<<v>> : v \in Values} \cup Storages
TreeContents == [Keys -> Bytes \cup {None}]

\* A missing root is not a root.
ASSUME RootAssumption == None \notin TreeContents

\* Changes are the keys a transaction writes, with None for what it deletes.
ToTreeValues(changes) == [k \in DOMAIN changes |-> Serialize(k, changes[k])]

InsertChangeSet(tree, changes) ==
  LET values == ToTreeValues(changes)
  IN  [k \in Keys |-> IF k \in DOMAIN values THEN values[k] ELSE tree[k]]

-----------------------------------------------------------------------------
(* Tries over a database of nodes. A root stands for its hash; a leaf is the   *)
(* same node in every trie with the same value for its key.                    *)

RootNode(f) == <<"root", f>>
LeafNode(k, v) == <<"leaf", k, v>>

Nodes(f, absent) ==
  {RootNode(f)} \cup {LeafNode(k, f[k]) : k \in {x \in DOMAIN f : f[x] # absent}}

\* EthTrie::commit: the nodes a trie adds to the one it was opened at, and the
\* ones it no longer uses. A trie opened at no root adds all of its nodes.
NodesAt(root, absent) == IF root = None THEN {} ELSE Nodes(root, absent)
Added(root, f, absent) == Nodes(f, absent) \ NodesAt(root, absent)
Dropped(root, f, absent) == NodesAt(root, absent) \ Nodes(f, absent)

\* Faulty: the dropped nodes are removed.
CommittedDropping(db, added, dropped) == (db \cup added) \ dropped

\* The database of the state trie takes the new nodes in one batch and keeps
\* the dropped ones, which belong to earlier heights.
Committed(db, added, dropped) == db \cup added

\* StagingEthTrieDb: reads fall through to the inner database, writes stay.
StagingDb(a) == [memory |-> {}, inner |-> storage_trie[a]]
StagingCommitted(s, added, dropped) ==
  [s EXCEPT !.memory = (s.memory \cup added) \ dropped]
StagingNodes(s) == s.memory \cup s.inner

\* What is read through a root: nothing but nodes of the database.
Get(db, f, k, absent) ==
  IF /\ RootNode(f) \in db
     /\ f[k] # absent => LeafNode(k, f[k]) \in db
  THEN f[k]
  ELSE Lost

Readable(db, f, absent) == Nodes(f, absent) \subseteq db

-----------------------------------------------------------------------------
(* Queries *)

\* genesis_state_changes: the accounts of the L2 genesis, with their slots.
GenesisStorage == [s \in Slots |-> MaxWord]
Genesis == [k \in Keys |-> IF k \in Predeployed THEN GenesisStorage ELSE None]

RootByHeight(h) ==
  IF h = 0 THEN Genesis ELSE IF h \in DOMAIN state_roots THEN state_roots[h] ELSE None

\* tree: a height without a root is an empty trie.
Resolve(root, k) ==
  LET bytes == IF root = None THEN None ELSE Get(trie, root, k, None)
  IN  IF bytes = Lost THEN Lost ELSE Deserialize(k, bytes)

\* balance_at, nonce_at, resolver_at: a key at a height.
StateAt(h, k) == Resolve(RootByHeight(h), k)

\* proof_at: the storage of an account through the root its account holds.
StorageAt(h, a, s) ==
  LET account == StateAt(h, a)
  IN  IF account \in {None, Lost} THEN account ELSE Get(storage_trie[a], account, s, 0)

\* storage_ref: an EVM call reads the storage through the recorded root.
CallStorage(a, s) ==
  IF storage_root[a] = None THEN 0 ELSE Get(storage_trie[a], storage_root[a], s, 0)

-----------------------------------------------------------------------------
(* The process *)

Nothing == [k \in {} |-> None]
NoTx == [changes |-> Nothing, tries |-> Nothing, calls |-> 0, account |-> None]

\* The databases after the genesis: its trie, and the storage tries of its accounts.
Init ==
  /\ trie = Nodes(Genesis, None)
  /\ trie_root = Genesis
  /\ state_roots = <<>>
  /\ storage_trie = [a \in Accounts |-> NodesAt(Genesis[a], 0)]
  /\ storage_root = [a \in Accounts |-> Genesis[a]]
  /\ state_root = Genesis
  /\ tx = NoTx /\ pc = "idle"
  /\ txs = 0 /\ crashes = 0 /\ torn = FALSE

BeginTransaction ==
  /\ pc = "idle" /\ txs < MaxTxs
  /\ pc' = "exec" /\ txs' = txs + 1
  /\ UNCHANGED <<databases, state_root, tx, crashes, torn>>

\* A Move module writes or deletes a resource.
MoveWrite(r, v) ==
  /\ pc = "exec"
  /\ tx' = [tx EXCEPT !.changes =
       [k \in DOMAIN @ \cup {r} |-> IF k = r THEN v ELSE tx.changes[k]]]
  /\ UNCHANGED <<databases, state_root, pc, txs, crashes, torn>>

\* StorageTrie::insert: a zero removes the slot.
Inserted(f, s, x) == [f EXCEPT ![s] = x]

\* Faulty: nodes of the first call only, and its root.
MergedFirst(old, new) == [root |-> new.root, diff |-> old.diff]
MergedOldRoot(old, new) == [root |-> old.root, diff |-> old.diff \cup new.diff]

\* StorageTrieChanges + StorageTrieChanges: the later root, the nodes of both.
Merged(old, new) == [root |-> new.root, diff |-> old.diff \cup new.diff]

\* A call of the EVM writes a slot: the trie of the account is opened at its
\* recorded root over a staging database, changed and committed there; the
\* account in the state gets the new root.
EvmCall(a, s, x) ==
  /\ pc = "exec" /\ tx.calls < MaxCalls
  /\ LET base == IF storage_root[a] = None THEN EmptyStorage ELSE storage_root[a]
         f == Inserted(base, s, x)
         added == Added(storage_root[a], f, 0)
         staged == StagingCommitted(StagingDb(a), added, Dropped(storage_root[a], f, 0))
         change == [root |-> f, diff |-> added]
     IN  /\ Readable(StagingNodes(staged), f, 0)
         /\ tx' = [changes |-> [k \in DOMAIN tx.changes \cup {a} |->
                                  IF k = a THEN f ELSE tx.changes[k]],
                   tries |-> [k \in DOMAIN tx.tries \cup {a} |->
                                  IF k # a THEN tx.tries[k]
                                  ELSE IF a \in DOMAIN tx.tries THEN Merged(tx.tries[a], change)
                                  ELSE change],
                   calls |-> tx.calls + 1,
                   account |-> None]
         /\ storage_trie' = [storage_trie EXCEPT ![a] = staged.inner]
  /\ UNCHANGED <<trie, trie_root, state_roots, storage_root, state_root, pc, txs, crashes, torn>>

\* An invalid transaction, or a simulation, is dropped with all its changes.
Discard ==
  /\ pc = "exec"
  /\ pc' = "idle" /\ tx' = NoTx
  /\ UNCHANGED <<databases, state_root, txs, crashes, torn>>

\* HeedState::apply: the nodes of the new trie, then its root.
ApplyNodes ==
  /\ pc = "exec"
  /\ LET root == InsertChangeSet(state_root, tx.changes)
     IN  /\ trie' = Committed(trie, Added(state_root, root, None), Dropped(state_root, root, None))
         /\ state_root' = root
  /\ pc' = "root"
  /\ UNCHANGED <<trie_root, state_roots, storage_trie, storage_root, tx, txs, crashes, torn>>

PersistStateRoot ==
  /\ pc = "root"
  /\ trie_root' = state_root
  /\ pc' = "evm"
  /\ UNCHANGED <<trie, state_roots, storage_trie, storage_root, state_root, tx, txs, crashes, torn>>

\* StorageTrieRepository::apply, one account after the other in any order: the
\* nodes into the inner database, then the root.
ApplyStorageNodes(a) ==
  /\ pc = "evm" /\ a \in DOMAIN tx.tries
  /\ storage_trie' = [storage_trie EXCEPT ![a] = Committed(@, tx.tries[a].diff, {})]
  /\ tx' = [tx EXCEPT !.account = a]
  /\ pc' = "storage"
  /\ UNCHANGED <<trie, trie_root, state_roots, storage_root, state_root, txs, crashes, torn>>

PutStorageRoot ==
  /\ pc = "storage"
  /\ LET a == tx.account
     IN  /\ storage_root' = [storage_root EXCEPT ![a] = tx.tries[a].root]
         /\ tx' = [tx EXCEPT !.tries = [k \in DOMAIN @ \ {a} |-> tx.tries[k]],
                             !.account = None]
  /\ pc' = "evm"
  /\ UNCHANGED <<trie, trie_root, state_roots, storage_trie, state_root, txs, crashes, torn>>

EndTransaction ==
  /\ pc = "evm" /\ DOMAIN tx.tries = {}
  /\ pc' = "idle" /\ tx' = NoTx
  /\ UNCHANGED <<databases, state_root, txs, crashes, torn>>

\* Faulty: the last height gets the new root.
PushStateRootReplacing ==
  /\ pc = "idle" /\ Len(state_roots) < MaxHeight
  /\ state_roots' = IF state_roots = <<>> THEN <<state_root>>
                     ELSE [state_roots EXCEPT ![Len(state_roots)] = state_root]
  /\ UNCHANGED <<trie, trie_root, storage_trie, storage_root, memory, txs, crashes, torn>>

\* The block of the transactions so far is complete: its root gets a height.
PushStateRoot ==
  /\ pc = "idle" /\ Len(state_roots) < MaxHeight
  /\ state_roots' = Append(state_roots, state_root)
  /\ UNCHANGED <<trie, trie_root, storage_trie, storage_root, memory, txs, crashes, torn>>

\* The process ends; the next one opens the state at the recorded root.
Restart ==
  /\ crashes < MaxCrashes
  /\ crashes' = crashes + 1
  /\ torn' = (torn \/ (pc \in {"evm", "storage"} /\ DOMAIN tx.tries # {}))
  /\ state_root' = trie_root
  /\ pc' = "idle" /\ tx' = NoTx
  /\ UNCHANGED <<databases, txs>>

Next ==
  \/ BeginTransaction \/ Discard \/ ApplyNodes \/ PersistStateRoot
  \/ PutStorageRoot \/ EndTransaction \/ PushStateRoot \/ Restart
  \/ \E r \in Resources, v \in Values \cup {None} : MoveWrite(r, v)
  \/ \E a \in Accounts, s \in Slots, x \in 0..MaxWord : EvmCall(a, s, x)
  \/ \E a \in Accounts : ApplyStorageNodes(a)

Spec == Init /\ [][Next]_vars

-----------------------------------------------------------------------------
(* Properties *)

(* Every root that is recorded anywhere can be read to its last node: the root  *)
(* the next process starts from ("Root node should exist"), the root of every   *)
(* height ("State root should be valid") and the storage root of every account, *)
(* whatever later tries share, drop or leave half written.                      *)
RootsReadable ==
  /\ Readable(trie, trie_root, None)
  /\ Readable(trie, state_root, None)
  /\ \A h \in 0..Len(state_roots) : Readable(trie, RootByHeight(h), None)
  /\ \A a \in Accounts : storage_root[a] # None => Readable(storage_trie[a], storage_root[a], 0)

(* What can be read at a height never changes: seen through the nodes, the      *)
(* databases are a store that replaces its current content once per             *)
(* transaction and otherwise only appends versions, process ends included.      *)
Store == INSTANCE VersionedStore WITH
  Contents <- [Keys -> Values \cup Storages \cup {None}],
  current  <- [k \in Keys |-> Resolve(trie_root, k)],
  versions <- [h \in DOMAIN state_roots |-> [k \in Keys |-> Resolve(state_roots[h], k)]]

ImplementsVersionedStore == Store!StoreSpec

(* Until a process ends between the state and the storage tries, a proof for a  *)
(* slot can be given at every height: the root in the account leads to nodes    *)
(* of the account, however the calls of a transaction were merged.              *)
CleanProofs ==
  ~torn => \A h \in 0..Len(state_roots), a \in Accounts, s \in Slots : StorageAt(h, a, s) # Lost

(* Until then, and between transactions, an EVM call at the latest height reads *)
(* the storage that height has. At earlier heights it does not: the recorded    *)
(* storage root is always the latest.                                           *)
CleanCallAtTip ==
  ~torn /\ pc = "idle" /\ state_root = RootByHeight(Len(state_roots))
    => \A a \in Accounts, s \in Slots :
         LET proved == StorageAt(Len(state_roots), a, s)
         IN  CallStorage(a, s) = IF proved = None THEN 0 ELSE proved
=============================================================================
