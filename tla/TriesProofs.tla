----------------------------- MODULE TriesProofs -----------------------------
(* Proofs about Tries, for any resources, accounts, slots and words, and any    *)
(* number of transactions, calls, heights and process ends.                     *)
EXTENDS Tries, TLAPS, SequenceTheorems

-----------------------------------------------------------------------------
(* What the transaction at work may hold: resources and storages under their    *)
(* own keys.                                                                    *)
Leaves(k) == IF k \in Accounts THEN Storages \cup {None}
             ELSE {<<v>> : v \in Values} \cup {None}

Trees == {f \in TreeContents : \A k \in Keys : f[k] \in Leaves(k)}

Written(k) == IF k \in Accounts THEN Storages ELSE Values \cup {None}

\* The types of the databases and of the process.
DatabasesOK ==
  /\ trie_root \in Trees /\ state_roots \in Seq(Trees)
  /\ storage_trie = [a \in Accounts |-> storage_trie[a]]
  /\ storage_root \in [Accounts -> Storages \cup {None}]

ProcessOK ==
  /\ state_root \in Trees
  /\ pc \in {"idle", "exec", "root", "evm", "storage"}
  /\ tx = [changes |-> tx.changes, tries |-> tx.tries, calls |-> tx.calls,
           account |-> tx.account]
  /\ DOMAIN tx.changes \subseteq Keys
  /\ \A k \in DOMAIN tx.changes : tx.changes[k] \in Written(k)
  /\ DOMAIN tx.tries \subseteq Accounts
  /\ \A a \in DOMAIN tx.tries : tx.tries[a].root \in Storages
  /\ pc = "storage" => tx.account \in DOMAIN tx.tries

Typed == DatabasesOK /\ ProcessOK

\* The nodes behind every root, those of the transaction at work included: what
\* its tries still miss in the database is in their difference.
Staged ==
  /\ \A a \in DOMAIN tx.tries :
       Nodes(tx.tries[a].root, 0) \subseteq storage_trie[a] \cup tx.tries[a].diff
  /\ pc = "storage" => tx.tries[tx.account].diff \subseteq storage_trie[tx.account]

\* Only between its two writes are the root in memory and the recorded one apart.
RootKept == pc # "root" => state_root = trie_root

\* Until a process ends in the wrong place: the accounts of the state hold the
\* recorded storage roots, except where a storage trie is yet to be written.
Agrees(f) == \A a \in Accounts : f[a] = storage_root[a]

Pending ==
  \A a \in Accounts :
    state_root[a] = IF a \in DOMAIN tx.tries THEN tx.tries[a].root ELSE storage_root[a]

InStep ==
  ~torn =>
    /\ pc \in {"idle", "exec"} => Agrees(state_root)
    /\ pc = "root" => Agrees(trie_root)
    /\ pc \in {"root", "evm", "storage"} => Pending

\* An account has a new root exactly when it has a storage trie to be written.
RootsInChanges ==
  pc = "exec" =>
    \A a \in Accounts :
      /\ a \in DOMAIN tx.changes <=> a \in DOMAIN tx.tries
      /\ a \in DOMAIN tx.tries => tx.changes[a] = tx.tries[a].root

\* Every storage a published height names can be read.
Provable(f) == \A a \in Accounts : f[a] # None => Readable(storage_trie[a], f[a], 0)

HeightsProvable ==
  /\ \A a \in Predeployed : Readable(storage_trie[a], Genesis[a], 0)
  /\ ~torn => \A h \in DOMAIN state_roots : Provable(state_roots[h])

IdleTx == pc = "idle" => tx = NoTx

TriesInv ==
  /\ Typed /\ RootsReadable /\ Staged /\ RootKept /\ InStep
  /\ RootsInChanges /\ HeightsProvable /\ IdleTx

-----------------------------------------------------------------------------
(* Nodes and what is read through them. *)

\* Through a root whose nodes are all there, every key reads as it was written.
LEMMA GetReadable ==
  ASSUME NEW db, NEW f, NEW absent, Readable(db, f, absent), NEW k \in DOMAIN f
  PROVE  Get(db, f, k, absent) = f[k]
  BY DEF Get, Readable, Nodes

\* EthTrie::commit adds what its root needs on top of the trie it was opened at.
LEMMA AddedSuffices ==
  ASSUME NEW db, NEW root, NEW f, NEW absent, root # None => Readable(db, root, absent)
  PROVE  Nodes(f, absent) \subseteq db \cup Added(root, f, absent)
  BY DEF Readable, Added, NodesAt

\* What can be read stays readable when nodes are added.
LEMMA ReadableGrows ==
  ASSUME NEW db, NEW more, db \subseteq more, NEW f, NEW absent, Readable(db, f, absent)
  PROVE  Readable(more, f, absent)
  BY DEF Readable

\* A change set put into a tree gives a tree; the accounts in it are as the EVM
\* wrote them.
LEMMA InsertedTree ==
  ASSUME NEW f \in Trees, NEW changes, DOMAIN changes \subseteq Keys,
         \A k \in DOMAIN changes : changes[k] \in Written(k)
  PROVE  /\ InsertChangeSet(f, changes) \in Trees
         /\ \A a \in Accounts :
              InsertChangeSet(f, changes)[a] = IF a \in DOMAIN changes THEN changes[a] ELSE f[a]
<1> DEFINE g == InsertChangeSet(f, changes)
<1>1. /\ DOMAIN g = Keys /\ g = [k \in Keys |-> g[k]]
      /\ \A k \in Keys : g[k] = IF k \in DOMAIN changes THEN Serialize(k, changes[k]) ELSE f[k]
  BY DEF InsertChangeSet, ToTreeValues
<1>2. \A k \in Keys : f[k] \in Leaves(k)
  BY DEF Trees
<1>3. ASSUME NEW k \in DOMAIN changes PROVE Serialize(k, changes[k]) \in Leaves(k)
  BY <1>3 DEF Serialize, IsEvmKey, Leaves, Written
<1>4. \A k \in Keys : g[k] \in Leaves(k)
  BY <1>1, <1>2, <1>3
<1>5. \A k \in Keys : Leaves(k) \subseteq Bytes \cup {None}
  BY DEF Leaves, Bytes
<1>6. g \in TreeContents
  BY <1>1, <1>4, <1>5 DEF TreeContents
<1>7. ASSUME NEW a \in Accounts
      PROVE  g[a] = IF a \in DOMAIN changes THEN changes[a] ELSE f[a]
  BY <1>1 DEF Keys, Serialize, IsEvmKey
<1> QED  BY <1>4, <1>6, <1>7 DEF Trees

\* The genesis is a tree, and its accounts are those with a storage.
LEMMA GenesisTree ==
  /\ Genesis \in Trees
  /\ \A a \in Accounts : Genesis[a] = IF a \in Predeployed THEN GenesisStorage ELSE None
  /\ GenesisStorage \in Storages
<1>1. GenesisStorage \in Storages
  BY TriesAssumption, SMT DEF GenesisStorage, Storages
<1>2. Predeployed \subseteq Accounts
  BY TriesAssumption
<1>3. \A k \in Keys : Genesis[k] \in Leaves(k)
  BY <1>1, <1>2 DEF Genesis, Leaves
<1>4. Genesis \in TreeContents
  BY <1>1 DEF Genesis, TreeContents, Bytes
<1> QED  BY <1>1, <1>2, <1>3, <1>4 DEF Trees, Genesis, Keys

\* No tree, no storage and no word is one of the marks.
LEMMA Marks ==
  /\ None \notin Storages /\ Lost \notin Storages /\ Lost # None
  /\ None \notin 0..MaxWord /\ Lost \notin 0..MaxWord
  /\ None \notin Trees /\ \A k \in Keys : Lost \notin Leaves(k)
  BY TriesAssumption, RootAssumption DEF Storages, Trees, Leaves

-----------------------------------------------------------------------------
(* The inductive invariant. *)

\* The genesis satisfies it: its nodes and its root are written at the start.
LEMMA InitTries == Init => TriesInv
<1> SUFFICES ASSUME Init PROVE TriesInv
  OBVIOUS
<1> USE DEF Init
<1>0. DOMAIN tx.tries = {} /\ DOMAIN tx.changes = {} /\ tx = NoTx
  BY DEF NoTx, Nothing
<1>1. DatabasesOK
  BY GenesisTree, SMT DEF DatabasesOK, Storages
<1>2. ProcessOK
  BY <1>0, GenesisTree DEF ProcessOK, NoTx
<1>3. /\ Readable(trie, Genesis, None)
      /\ \A a \in Accounts : storage_root[a] # None => Readable(storage_trie[a], storage_root[a], 0)
  BY DEF Readable, NodesAt
<1>4. RootsReadable
  <2>1. Len(state_roots) = 0 /\ 0..Len(state_roots) = {0}
    BY SMT
  <2> QED  BY <1>3, <2>1 DEF RootsReadable, RootByHeight
<1>5. HeightsProvable
  <2>1. DOMAIN state_roots = {}
    BY SMT
  <2>2. \A a \in Predeployed : a \in Accounts /\ Genesis[a] # None
    BY GenesisTree, Marks, TriesAssumption
  <2> QED  BY <1>3, <2>1, <2>2 DEF HeightsProvable
<1> QED
  BY <1>0, <1>1, <1>2, <1>4, <1>5
  DEF TriesInv, Typed, Staged, RootKept, InStep, Agrees, RootsInChanges, IdleTx

\* A step that writes to no database leaves what must be readable there as it is.
LEMMA DatabasesKept ==
  ASSUME TriesInv, UNCHANGED databases, state_root' \in {state_root, trie_root}, torn => torn'
  PROVE  DatabasesOK' /\ RootsReadable' /\ HeightsProvable'
  BY DEF TriesInv, Typed, databases, DatabasesOK, RootsReadable, HeightsProvable,
     RootByHeight, Provable

\* Nothing at work is a well-typed transaction.
LEMMA NoTxOK == /\ NoTx.changes = Nothing /\ NoTx.tries = Nothing /\ DOMAIN Nothing = {}
                /\ NoTx = [changes |-> NoTx.changes, tries |-> NoTx.tries,
                           calls |-> NoTx.calls, account |-> NoTx.account]
  BY DEF NoTx, Nothing

\* Every step keeps the invariant.
LEMMA NextTries == TriesInv /\ [Next]_vars => TriesInv'
<1> SUFFICES ASSUME TriesInv, [Next]_vars PROVE TriesInv'
  OBVIOUS
<1>0. Typed /\ RootsReadable /\ Staged /\ RootKept /\ InStep /\ RootsInChanges
      /\ HeightsProvable /\ IdleTx
  BY DEF TriesInv
<1>1. CASE BeginTransaction
  <2>1. /\ pc = "idle" /\ pc' = "exec" /\ UNCHANGED databases
        /\ UNCHANGED <<state_root, tx, torn>>
    BY <1>1 DEF BeginTransaction
  <2>2. tx = NoTx
    BY <1>0, <2>1 DEF IdleTx
  <2>3. DatabasesOK' /\ RootsReadable' /\ HeightsProvable'
    BY <2>1, DatabasesKept
  <2>4. ProcessOK'
    BY <1>0, <2>1 DEF Typed, ProcessOK
  <2>5. Staged' /\ RootKept' /\ IdleTx' /\ RootsInChanges' /\ InStep'
    BY <1>0, <2>1, <2>2, NoTxOK
       DEF databases, Staged, RootKept, IdleTx, RootsInChanges, InStep, Agrees
  <2> QED  BY <2>3, <2>4, <2>5 DEF TriesInv, Typed
<1>2. CASE \E r \in Resources, v \in Values \cup {None} : MoveWrite(r, v)
  <2>1. PICK r \in Resources, v \in Values \cup {None} : MoveWrite(r, v)
    BY <1>2
  <2> DEFINE changes == [k \in DOMAIN tx.changes \cup {r} |->
                           IF k = r THEN v ELSE tx.changes[k]]
  <2>2. /\ pc = "exec" /\ pc' = "exec" /\ UNCHANGED databases
        /\ UNCHANGED <<state_root, torn>>
        /\ tx' = [tx EXCEPT !.changes = changes]
    BY <2>1 DEF MoveWrite
  <2>3. /\ tx'.changes = changes /\ tx'.tries = tx.tries
        /\ tx' = [changes |-> tx'.changes, tries |-> tx'.tries, calls |-> tx'.calls,
                  account |-> tx'.account]
    BY <1>0, <2>2 DEF Typed, ProcessOK
  <2>4. r \in Keys /\ r \notin Accounts /\ v \in Written(r)
    BY TriesAssumption DEF Keys, Written
  <2>5. DatabasesOK' /\ RootsReadable' /\ HeightsProvable'
    BY <2>2, DatabasesKept
  <2>6. ProcessOK'
    BY <1>0, <2>2, <2>3, <2>4 DEF Typed, ProcessOK
  <2>7. RootsInChanges'
    BY <1>0, <2>2, <2>3, <2>4 DEF RootsInChanges
  <2>8. Staged' /\ RootKept' /\ IdleTx' /\ InStep'
    BY <1>0, <2>2, <2>3 DEF databases, Staged, RootKept, IdleTx, InStep, Agrees
  <2> QED  BY <2>5, <2>6, <2>7, <2>8 DEF TriesInv, Typed
<1>3. CASE \E a \in Accounts, s \in Slots, x \in 0..MaxWord : EvmCall(a, s, x)
  <2>1. PICK a \in Accounts, s \in Slots, x \in 0..MaxWord : EvmCall(a, s, x)
    BY <1>3
  <2> DEFINE base == IF storage_root[a] = None THEN EmptyStorage ELSE storage_root[a]
             f == Inserted(base, s, x)
             added == Added(storage_root[a], f, 0)
             change == [root |-> f, diff |-> added]
             changes == [k \in DOMAIN tx.changes \cup {a} |-> IF k = a THEN f ELSE tx.changes[k]]
             tries == [k \in DOMAIN tx.tries \cup {a} |->
                         IF k # a THEN tx.tries[k]
                         ELSE IF a \in DOMAIN tx.tries THEN Merged(tx.tries[a], change)
                         ELSE change]
  <2>2. /\ pc = "exec" /\ pc' = "exec"
        /\ UNCHANGED <<trie, trie_root, state_roots, storage_root, state_root, torn>>
        /\ tx' = [changes |-> changes, tries |-> tries, calls |-> tx.calls + 1, account |-> None]
        /\ storage_trie' = [storage_trie EXCEPT ![a] = storage_trie[a]]
    BY <2>1 DEF EvmCall, StagingCommitted, StagingDb
  <2>3. storage_trie' = storage_trie
    BY <1>0, <2>2 DEF Typed, DatabasesOK
  <2>4. UNCHANGED databases
    BY <2>2, <2>3 DEF databases
  <2>5. f \in Storages
    <3>1. base \in Storages
      BY <1>0, TriesAssumption, SMT DEF Typed, DatabasesOK, EmptyStorage, Storages
    <3> QED  BY <3>1, SMT DEF Inserted, Storages
  <2>6. Nodes(f, 0) \subseteq storage_trie[a] \cup added
    BY <1>0, AddedSuffices DEF RootsReadable
  <2>7. /\ tx'.changes = changes /\ tx'.tries = tries
        /\ tx' = [changes |-> tx'.changes, tries |-> tx'.tries, calls |-> tx'.calls,
                  account |-> tx'.account]
        /\ tries[a].root = f /\ added \subseteq tries[a].diff
    BY <2>2 DEF Merged
  <2> HIDE DEF f, added
  <2>8. DatabasesOK' /\ RootsReadable' /\ HeightsProvable'
    BY <2>2, <2>4, DatabasesKept
  <2>9. ProcessOK'
    BY <1>0, <2>2, <2>5, <2>7 DEF Typed, ProcessOK, Written, Keys
  <2>10. RootsInChanges'
    BY <1>0, <2>2, <2>7 DEF RootsInChanges
  <2>11. Staged'
    BY <1>0, <2>2, <2>3, <2>6, <2>7 DEF Staged
  <2>12. RootKept' /\ IdleTx' /\ InStep'
    BY <1>0, <2>2 DEF RootKept, IdleTx, InStep, Agrees
  <2> QED  BY <2>8, <2>9, <2>10, <2>11, <2>12 DEF TriesInv, Typed
<1>4. CASE Discard
  <2>1. /\ pc = "exec" /\ pc' = "idle" /\ tx' = NoTx /\ UNCHANGED databases
        /\ UNCHANGED <<state_root, torn>>
    BY <1>4 DEF Discard
  <2>2. DatabasesOK' /\ RootsReadable' /\ HeightsProvable'
    BY <2>1, DatabasesKept
  <2>3. ProcessOK'
    BY <1>0, <2>1, NoTxOK DEF Typed, ProcessOK
  <2>4. Staged' /\ RootKept' /\ IdleTx' /\ RootsInChanges' /\ InStep'
    BY <1>0, <2>1, NoTxOK DEF databases, Staged, RootKept, IdleTx, RootsInChanges, InStep, Agrees
  <2> QED  BY <2>2, <2>3, <2>4 DEF TriesInv, Typed
<1>5. CASE ApplyNodes
  <2> DEFINE root == InsertChangeSet(state_root, tx.changes)
  <2>1. /\ pc = "exec" /\ pc' = "root" /\ state_root' = root
        /\ trie' = trie \cup Added(state_root, root, None)
        /\ UNCHANGED <<trie_root, state_roots, storage_trie, storage_root, tx, torn>>
    BY <1>5 DEF ApplyNodes, Committed
  <2>2. /\ root \in Trees
        /\ \A a \in Accounts :
             root[a] = IF a \in DOMAIN tx.changes THEN tx.changes[a] ELSE state_root[a]
    BY <1>0, InsertedTree DEF Typed, ProcessOK
  <2>3. Readable(trie', root, None)
    BY <1>0, <2>1, AddedSuffices DEF RootsReadable, Readable
  <2> HIDE DEF root
  <2>4. Typed'
    BY <1>0, <2>1, <2>2 DEF Typed, DatabasesOK, ProcessOK
  <2>5. trie \subseteq trie'
    BY <2>1
  <2>6. RootsReadable'
    BY <1>0, <2>1, <2>3, <2>5, ReadableGrows DEF RootsReadable, RootByHeight
  <2>7. InStep'
    BY <1>0, <2>1, <2>2 DEF InStep, Agrees, Pending, RootsInChanges, RootKept
  <2>8. Staged' /\ RootKept' /\ IdleTx' /\ RootsInChanges' /\ HeightsProvable'
    BY <1>0, <2>1 DEF Staged, RootKept, IdleTx, RootsInChanges, HeightsProvable, Provable
  <2> QED  BY <2>4, <2>6, <2>7, <2>8 DEF TriesInv
<1>6. CASE PersistStateRoot
  <2>1. /\ pc = "root" /\ pc' = "evm" /\ trie_root' = state_root
        /\ UNCHANGED <<trie, state_roots, storage_trie, storage_root, state_root, tx, torn>>
    BY <1>6 DEF PersistStateRoot
  <2>2. Typed' /\ RootsReadable'
    BY <1>0, <2>1 DEF Typed, DatabasesOK, ProcessOK, RootsReadable, RootByHeight
  <2>3. InStep' /\ Staged' /\ RootKept' /\ IdleTx' /\ RootsInChanges' /\ HeightsProvable'
    BY <1>0, <2>1 DEF InStep, Agrees, Pending, Staged, RootKept, IdleTx, RootsInChanges,
       HeightsProvable, Provable
  <2> QED  BY <2>2, <2>3 DEF TriesInv
<1>7. CASE \E a \in Accounts : ApplyStorageNodes(a)
  <2>1. PICK a \in Accounts : ApplyStorageNodes(a)
    BY <1>7
  <2>2. /\ pc = "evm" /\ pc' = "storage" /\ a \in DOMAIN tx.tries
        /\ storage_trie' = [storage_trie EXCEPT ![a] = @ \cup tx.tries[a].diff]
        /\ tx' = [tx EXCEPT !.account = a]
        /\ UNCHANGED <<trie, trie_root, state_roots, storage_root, state_root, torn>>
    BY <2>1 DEF ApplyStorageNodes, Committed
  <2>3. /\ tx'.changes = tx.changes /\ tx'.tries = tx.tries /\ tx'.account = a
        /\ tx' = [changes |-> tx'.changes, tries |-> tx'.tries, calls |-> tx'.calls,
                  account |-> tx'.account]
    BY <1>0, <2>2 DEF Typed, ProcessOK
  <2>4. /\ storage_trie'[a] = storage_trie[a] \cup tx.tries[a].diff
        /\ storage_trie' = [b \in Accounts |-> storage_trie'[b]]
        /\ \A b \in Accounts : storage_trie[b] \subseteq storage_trie'[b]
    BY <1>0, <2>2 DEF Typed, DatabasesOK
  <2>5. Typed'
    BY <1>0, <2>2, <2>3, <2>4 DEF Typed, DatabasesOK, ProcessOK
  <2>6. RootsReadable'
    BY <1>0, <2>2, <2>4, ReadableGrows DEF RootsReadable, RootByHeight
  <2>7. HeightsProvable'
    BY <1>0, <2>2, <2>4, ReadableGrows, TriesAssumption DEF HeightsProvable, Provable
  <2>8. Staged'
    <3>1. DOMAIN tx.tries \subseteq Accounts
      BY <1>0 DEF Typed, ProcessOK
    <3> QED  BY <1>0, <2>2, <2>3, <2>4, <3>1 DEF Staged
  <2>9. InStep' /\ RootKept' /\ IdleTx' /\ RootsInChanges'
    BY <1>0, <2>2, <2>3 DEF InStep, Agrees, Pending, RootKept, IdleTx, RootsInChanges
  <2> QED  BY <2>5, <2>6, <2>7, <2>8, <2>9 DEF TriesInv
<1>8. CASE PutStorageRoot
  <2> DEFINE a == tx.account
             tries == [k \in DOMAIN tx.tries \ {a} |-> tx.tries[k]]
  <2>1. /\ pc = "storage" /\ pc' = "evm"
        /\ storage_root' = [storage_root EXCEPT ![a] = tx.tries[a].root]
        /\ tx' = [tx EXCEPT !.tries = tries, !.account = None]
        /\ UNCHANGED <<trie, trie_root, state_roots, storage_trie, state_root, torn>>
    BY <1>8 DEF PutStorageRoot
  <2>2. /\ a \in DOMAIN tx.tries /\ a \in Accounts
        /\ tx.tries[a].root \in Storages
    BY <1>0, <2>1 DEF Typed, ProcessOK
  <2>3. /\ tx'.changes = tx.changes /\ tx'.tries = tries
        /\ tx' = [changes |-> tx'.changes, tries |-> tx'.tries, calls |-> tx'.calls,
                  account |-> tx'.account]
    BY <1>0, <2>1 DEF Typed, ProcessOK
  <2>4. Readable(storage_trie[a], tx.tries[a].root, 0)
    BY <1>0, <2>1, <2>2 DEF Staged, Readable
  <2> HIDE DEF a
  <2>5. /\ storage_root' \in [Accounts -> Storages \cup {None}]
        /\ storage_root'[a] = tx.tries[a].root
        /\ \A b \in Accounts \ {a} : storage_root'[b] = storage_root[b]
    BY <1>0, <2>1, <2>2 DEF Typed, DatabasesOK
  <2>6. Typed'
    BY <1>0, <2>1, <2>3, <2>5 DEF Typed, DatabasesOK, ProcessOK
  <2>7. RootsReadable'
    BY <1>0, <2>1, <2>4, <2>5 DEF RootsReadable, RootByHeight
  <2>8. InStep'
    BY <1>0, <2>1, <2>2, <2>3, <2>5 DEF InStep, Pending
  <2>9. Staged' /\ RootKept' /\ IdleTx' /\ RootsInChanges' /\ HeightsProvable'
    BY <1>0, <2>1, <2>3 DEF Staged, RootKept, IdleTx, RootsInChanges, HeightsProvable, Provable
  <2> QED  BY <2>6, <2>7, <2>8, <2>9 DEF TriesInv
<1>9. CASE EndTransaction
  <2>1. /\ pc = "evm" /\ DOMAIN tx.tries = {} /\ pc' = "idle" /\ tx' = NoTx
        /\ UNCHANGED databases /\ UNCHANGED <<state_root, torn>>
    BY <1>9 DEF EndTransaction
  <2>2. DatabasesOK' /\ RootsReadable' /\ HeightsProvable'
    BY <2>1, DatabasesKept
  <2>3. ProcessOK'
    BY <1>0, <2>1, NoTxOK DEF Typed, ProcessOK
  <2>4. InStep'
    BY <1>0, <2>1 DEF databases, InStep, Agrees, Pending
  <2>5. Staged' /\ RootKept' /\ IdleTx' /\ RootsInChanges'
    BY <1>0, <2>1, NoTxOK DEF databases, Staged, RootKept, IdleTx, RootsInChanges
  <2> QED  BY <2>2, <2>3, <2>4, <2>5 DEF TriesInv, Typed
<1>10. CASE PushStateRoot
  <2>1. /\ pc = "idle" /\ pc' = "idle" /\ state_roots' = Append(state_roots, state_root)
        /\ UNCHANGED <<trie, trie_root, storage_trie, storage_root, state_root, tx, torn>>
    BY <1>10 DEF PushStateRoot, memory
  <2>2. state_roots \in Seq(Trees) /\ state_root \in Trees
    BY <1>0 DEF Typed, DatabasesOK, ProcessOK
  <2>3. /\ state_roots' \in Seq(Trees) /\ Len(state_roots) \in Nat
        /\ Len(state_roots') = Len(state_roots) + 1
        /\ DOMAIN state_roots = 1..Len(state_roots)
        /\ DOMAIN state_roots' = 1..(Len(state_roots) + 1)
        /\ \A h \in 1..Len(state_roots) : state_roots'[h] = state_roots[h]
        /\ state_roots'[Len(state_roots) + 1] = state_root
    BY <2>1, <2>2, SMT
  <2>4. Typed'
    BY <1>0, <2>1, <2>3 DEF Typed, DatabasesOK, ProcessOK
  <2>5. RootsReadable'
    <3>1. ASSUME NEW h \in 0..Len(state_roots') PROVE Readable(trie, RootByHeight(h)', None)
      <4>1. h = 0 \/ h \in 1..Len(state_roots) \/ h = Len(state_roots) + 1
        BY <2>3, <3>1, SMT
      <4>2. CASE h = 0
        <5>1. 0 \in 0..Len(state_roots)
          BY <2>3, SMT
        <5> QED  BY <1>0, <4>2, <5>1 DEF RootsReadable, RootByHeight
      <4>3. CASE h \in 1..Len(state_roots)
        <5>1. h # 0 /\ h \in 0..Len(state_roots) /\ h \in DOMAIN state_roots'
          BY <2>3, <4>3, SMT
        <5> QED  BY <1>0, <2>3, <4>3, <5>1 DEF RootsReadable, RootByHeight
      <4>4. CASE h = Len(state_roots) + 1
        <5>1. h # 0 /\ h \in DOMAIN state_roots'
          BY <2>3, <4>4, SMT
        <5> QED  BY <1>0, <2>3, <4>4, <5>1 DEF RootsReadable, RootByHeight
      <4> QED  BY <4>1, <4>2, <4>3, <4>4
    <3> QED  BY <1>0, <2>1, <3>1 DEF RootsReadable
  <2>6. HeightsProvable'
    <3>1. ~torn => Provable(state_root)
      BY <1>0, <2>1 DEF InStep, Agrees, Provable, RootsReadable
    <3>2. \A h \in DOMAIN state_roots' : h \in DOMAIN state_roots \/ h = Len(state_roots) + 1
      BY <2>3, SMT
    <3> QED  BY <1>0, <2>1, <2>3, <3>1, <3>2 DEF HeightsProvable, Provable
  <2>7. InStep' /\ Staged' /\ RootKept' /\ IdleTx' /\ RootsInChanges'
    BY <1>0, <2>1 DEF InStep, Agrees, Staged, RootKept, IdleTx, RootsInChanges
  <2> QED  BY <2>4, <2>5, <2>6, <2>7 DEF TriesInv
<1>11. CASE Restart
  <2>1. /\ pc' = "idle" /\ tx' = NoTx /\ state_root' = trie_root /\ UNCHANGED databases
        /\ torn' = (torn \/ (pc \in {"evm", "storage"} /\ DOMAIN tx.tries # {}))
    BY <1>11 DEF Restart
  <2>2. DatabasesOK' /\ RootsReadable' /\ HeightsProvable'
    BY <2>1, DatabasesKept
  <2>3. ProcessOK'
    BY <1>0, <2>1, NoTxOK DEF Typed, DatabasesOK, ProcessOK
  <2>4. InStep'
    <3>1. SUFFICES ASSUME ~torn' PROVE Agrees(trie_root)
      BY <2>1 DEF databases, InStep, Agrees
    <3>2. ~torn /\ (pc \in {"evm", "storage"} => DOMAIN tx.tries = {})
      BY <2>1, <3>1
    <3>3. pc \in {"idle", "exec", "root", "evm", "storage"}
      BY <1>0 DEF Typed, ProcessOK
    <3> QED  BY <1>0, <3>2, <3>3 DEF InStep, Agrees, Pending, RootKept
  <2>5. Staged' /\ RootKept' /\ IdleTx' /\ RootsInChanges'
    BY <2>1, NoTxOK DEF databases, Staged, RootKept, IdleTx, RootsInChanges
  <2> QED  BY <2>2, <2>3, <2>4, <2>5 DEF TriesInv, Typed
<1>12. CASE UNCHANGED vars
  <2>1. UNCHANGED databases /\ UNCHANGED <<state_root, tx, pc, torn>>
    BY <1>12 DEF vars, memory
  <2>2. DatabasesOK' /\ RootsReadable' /\ HeightsProvable'
    BY <2>1, DatabasesKept
  <2> QED
    BY <1>0, <2>1, <2>2 DEF databases, TriesInv, Typed, ProcessOK, InStep, Agrees, Pending,
       Staged, RootKept, IdleTx, RootsInChanges
<1> QED
  BY <1>1, <1>2, <1>3, <1>4, <1>5, <1>6, <1>7, <1>8, <1>9, <1>10, <1>11, <1>12 DEF Next

\* The invariant holds in every state.
LEMMA TriesAlways == Spec => []TriesInv
  BY InitTries, NextTries, PTL DEF Spec

-----------------------------------------------------------------------------
(* What the queries read. *)

\* A readable root answers for every key with what was written for it.
LEMMA ResolveReadable ==
  ASSUME NEW f \in Trees, Readable(trie, f, None), NEW k \in Keys
  PROVE  /\ Resolve(f, k) = Deserialize(k, f[k])
         /\ Resolve(f, k) \in Values \cup Storages \cup {None}
         /\ k \in Accounts => Resolve(f, k) = f[k]
<1>1. f # None /\ DOMAIN f = Keys /\ f[k] \in Leaves(k) /\ f[k] # Lost
  BY Marks DEF Trees, TreeContents
<1>2. Get(trie, f, k, None) = f[k]
  BY <1>1, GetReadable
<1>3. Resolve(f, k) = Deserialize(k, f[k])
  BY <1>1, <1>2 DEF Resolve
<1>4. Deserialize(k, f[k]) \in Values \cup Storages \cup {None}
  BY <1>1, SMT DEF Deserialize, IsEvmKey, Leaves
<1>5. k \in Accounts => Deserialize(k, f[k]) = f[k]
  BY DEF Deserialize, IsEvmKey
<1> QED  BY <1>3, <1>4, <1>5

\* Every root of a height, that of the genesis included, is a readable tree.
LEMMA HeightsReadable ==
  ASSUME TriesInv, NEW h \in 0..Len(state_roots)
  PROVE  RootByHeight(h) \in Trees /\ Readable(trie, RootByHeight(h), None)
<1>1. state_roots \in Seq(Trees) /\ Readable(trie, RootByHeight(h), None)
  BY DEF TriesInv, Typed, DatabasesOK, RootsReadable
<1>2. h = 0 \/ (h # 0 /\ h \in DOMAIN state_roots /\ state_roots[h] \in Trees)
  BY <1>1, SMT
<1> QED  BY <1>1, <1>2, GenesisTree DEF RootByHeight

(* No root that is recorded in a database or kept in memory ever misses a node, *)
(* whatever transactions share, drop or stage and wherever processes end.       *)
THEOREM RootsAlwaysReadable == Spec => []RootsReadable
<1>1. TriesInv => RootsReadable
  BY DEF TriesInv
<1> QED  BY <1>1, TriesAlways, PTL

(* Unless a process ended between a state root and its storage tries, every     *)
(* slot of every account can be proved at every published height.               *)
THEOREM ProofsAlwaysGiven == Spec => []CleanProofs
<1>1. TriesInv => CleanProofs
  <2> SUFFICES ASSUME TriesInv, ~torn, NEW h \in 0..Len(state_roots), NEW a \in Accounts,
                      NEW s \in Slots
               PROVE  StorageAt(h, a, s) # Lost
    BY DEF CleanProofs
  <2> DEFINE f == RootByHeight(h)
  <2>1. f \in Trees /\ StateAt(h, a) = f[a]
    BY HeightsReadable, ResolveReadable DEF StateAt, Keys
  <2>2. f[a] \in Storages \cup {None}
    BY <2>1 DEF Trees, Keys, Leaves
  <2>3. CASE f[a] = None
    BY <2>1, <2>3, Marks DEF StorageAt
  <2>4. CASE f[a] \in Storages
    <3>1. Readable(storage_trie[a], f[a], 0)
      <4>1. CASE h = 0
        BY <2>4, <4>1, GenesisTree, Marks DEF RootByHeight, TriesInv, HeightsProvable
      <4>2. CASE h # 0
        <5>1. state_roots \in Seq(Trees)
          BY DEF TriesInv, Typed, DatabasesOK
        <5>2. h \in DOMAIN state_roots
          BY <4>2, <5>1, SMT
        <5> QED  BY <2>4, <4>2, <5>2, Marks DEF RootByHeight, TriesInv, HeightsProvable, Provable
      <4> QED  BY <4>1, <4>2
    <3>2. f[a][s] \in 0..MaxWord /\ s \in DOMAIN f[a]
      BY <2>4 DEF Storages
    <3>3. StorageAt(h, a, s) = f[a][s]
      BY <2>1, <2>4, <3>1, <3>2, Marks, GetReadable DEF StorageAt
    <3> QED  BY <3>2, <3>3, Marks
  <2> QED  BY <2>2, <2>3, <2>4
<1> QED  BY <1>1, TriesAlways, PTL

(* Unless a process ended there, an EVM call on the latest height reads the     *)
(* same storage that a proof at this height shows.                              *)
THEOREM CallsReadTheTip == Spec => []CleanCallAtTip
<1>1. TriesInv => CleanCallAtTip
  <2> SUFFICES ASSUME TriesInv, ~torn, pc = "idle",
                      state_root = RootByHeight(Len(state_roots)),
                      NEW a \in Accounts, NEW s \in Slots
               PROVE  CallStorage(a, s) =
                        IF StorageAt(Len(state_roots), a, s) = None THEN 0
                        ELSE StorageAt(Len(state_roots), a, s)
    BY DEF CleanCallAtTip
  <2>1. state_root \in Trees /\ Readable(trie, state_root, None) /\ state_root[a] = storage_root[a]
    BY DEF TriesInv, Typed, ProcessOK, RootsReadable, InStep, Agrees
  <2>2. StateAt(Len(state_roots), a) = storage_root[a]
    BY <2>1, ResolveReadable DEF StateAt, Keys
  <2>3. storage_root[a] \in Storages \cup {None}
    BY DEF TriesInv, Typed, DatabasesOK
  <2>4. CASE storage_root[a] = None
    BY <2>2, <2>4 DEF StorageAt, CallStorage
  <2>5. CASE storage_root[a] \in Storages
    <3>1. Readable(storage_trie[a], storage_root[a], 0) /\ s \in DOMAIN storage_root[a]
          /\ storage_root[a][s] \in 0..MaxWord
      BY <2>5, Marks DEF TriesInv, RootsReadable, Storages
    <3>2. Get(storage_trie[a], storage_root[a], s, 0) = storage_root[a][s]
      BY <3>1, GetReadable
    <3> QED  BY <2>2, <2>5, <3>1, <3>2, Marks DEF StorageAt, CallStorage
  <2> QED  BY <2>3, <2>4, <2>5
<1> QED  BY <1>1, TriesAlways, PTL

-----------------------------------------------------------------------------
(* The refinement of VersionedStore. *)

\* The contents a tree stands for.
Content(f) == [k \in Keys |-> Deserialize(k, f[k])]
Current == [k \in Keys |-> Resolve(trie_root, k)]
Versions == [h \in DOMAIN state_roots |-> [k \in Keys |-> Resolve(state_roots[h], k)]]
Contents == [Keys -> Values \cup Storages \cup {None}]

\* Read through the nodes, the databases hold the contents of their roots.
LEMMA ContentsRead ==
  ASSUME TriesInv
  PROVE  /\ Current = Content(trie_root) /\ Current \in Contents
         /\ Versions = [h \in DOMAIN state_roots |-> Content(state_roots[h])]
         /\ Versions \in Seq(Contents)
<1>1. ASSUME NEW f \in Trees, Readable(trie, f, None)
      PROVE  [k \in Keys |-> Resolve(f, k)] = Content(f)
             /\ [k \in Keys |-> Resolve(f, k)] \in Contents
  BY <1>1, ResolveReadable DEF Content, Contents
<1>2. trie_root \in Trees /\ Readable(trie, trie_root, None) /\ state_roots \in Seq(Trees)
  BY DEF TriesInv, Typed, DatabasesOK, RootsReadable
<1>3. ASSUME NEW h \in DOMAIN state_roots
      PROVE  state_roots[h] \in Trees /\ Readable(trie, state_roots[h], None)
  <2>1. h \in 0..Len(state_roots) /\ h # 0
    BY <1>2, <1>3, SMT
  <2> QED  BY <1>3, <2>1, HeightsReadable DEF RootByHeight
<1>4. Versions = [h \in DOMAIN state_roots |-> Content(state_roots[h])]
  BY <1>1, <1>3, Zenon DEF Versions
<1>5. \A h \in DOMAIN state_roots : Content(state_roots[h]) \in Contents
  BY <1>1, <1>3
<1>6. Versions \in Seq(Contents)
  <2>1. DOMAIN state_roots = 1..Len(state_roots) /\ Len(state_roots) \in Nat
    BY <1>2, SMT
  <2> HIDE DEF Contents
  <2> QED  BY <1>4, <1>5, <2>1, SMT
<1> QED  BY <1>1, <1>2, <1>4, <1>6 DEF Current

(* Seen through its nodes the state is a versioned store: a transaction         *)
(* replaces the current content at once, a block publishes it, and nothing that *)
(* was published ever changes, process ends included.                           *)
THEOREM TriesImplementVersionedStore == Spec => ImplementsVersionedStore
<1>1. Init => Store!StoreInit
  <2> SUFFICES ASSUME Init PROVE Current \in Contents /\ Versions = <<>>
    BY DEF Store!StoreInit, Current, Versions, Contents
  <2>1. TriesInv
    BY InitTries
  <2>2. DOMAIN state_roots = {}
    BY SMT DEF Init
  <2>3. Versions = <<>>
    BY <2>2, SMT DEF Versions
  <2> QED  BY <2>1, <2>3, ContentsRead
<1> DEFINE Read == /\ Current = Content(trie_root) /\ Current \in Contents
                   /\ Versions = [h \in DOMAIN state_roots |-> Content(state_roots[h])]
                   /\ Versions \in Seq(Contents)
<1>2. TriesInv => Read
  BY ContentsRead
<1>3. TriesInv' => Read'
  BY <1>2, PTL
<1>4. TriesInv /\ TriesInv' /\ [Next]_vars => [Store!Write \/ Store!Publish]_Store!storeVars
  <2> SUFFICES ASSUME TriesInv, TriesInv', [Next]_vars
               PROVE  \/ Current' \in Contents /\ Versions' = Versions
                      \/ Versions' = Append(Versions, Current) /\ Current' = Current
    BY DEF Store!Write, Store!Publish, Store!storeVars, Current, Versions, Contents
  <2>1. /\ Current = Content(trie_root) /\ Current' = Content(trie_root)'
        /\ Current' \in Contents
        /\ Versions = [h \in DOMAIN state_roots |-> Content(state_roots[h])]
        /\ Versions' = [h \in DOMAIN state_roots |-> Content(state_roots[h])]'
        /\ Versions \in Seq(Contents)
    BY <1>2, <1>3
  <2>2. CASE PushStateRoot
    <3>1. /\ state_roots' = Append(state_roots, trie_root) /\ UNCHANGED trie_root
      BY <2>2 DEF PushStateRoot, TriesInv, RootKept
    <3>2. state_roots \in Seq(Trees) /\ trie_root \in Trees
      BY DEF TriesInv, Typed, DatabasesOK
    <3>3. /\ Len(state_roots) \in Nat
          /\ DOMAIN state_roots = 1..Len(state_roots)
          /\ DOMAIN state_roots' = 1..(Len(state_roots) + 1)
          /\ \A h \in 1..Len(state_roots) : state_roots'[h] = state_roots[h]
          /\ state_roots'[Len(state_roots) + 1] = trie_root
      BY <3>1, <3>2, SMT
    <3>4. Current' = Current
      BY <2>1, <3>1 DEF Content
    <3>5. Len(Versions) = Len(state_roots)
      BY <2>1, <3>3, SMT
    <3>6. /\ DOMAIN Versions' = 1..(Len(state_roots) + 1)
          /\ \A h \in 1..Len(state_roots) : Versions'[h] = Versions[h]
          /\ Versions'[Len(state_roots) + 1] = Current
      <4>1. \A h \in 1..Len(state_roots) : h \in 1..(Len(state_roots) + 1)
        BY <3>3, SMT
      <4>2. Len(state_roots) + 1 \in 1..(Len(state_roots) + 1)
        BY <3>3, SMT
      <4>3. \A f : Content(f)' = Content(f)
        BY DEF Content
      <4> QED  BY <2>1, <3>3, <4>1, <4>2 DEF Content
    <3>7. Versions' = Append(Versions, Current)
      <4> DEFINE n == Len(state_roots)  v == Versions  w == Versions'  c == Current
      <4>1. /\ n \in Nat /\ v \in Seq(Contents) /\ Len(v) = n
            /\ w = [h \in 1..(n + 1) |-> w[h]]
            /\ \A h \in 1..n : w[h] = v[h]
            /\ w[n + 1] = c /\ c \in Contents
        BY <1>2, <2>1, <3>3, <3>5, <3>6
      <4> HIDE DEF n, v, w, c, Contents
      <4>2. /\ Append(v, c) \in Seq(Contents) /\ Len(Append(v, c)) = n + 1
            /\ \A h \in 1..n : Append(v, c)[h] = v[h]
            /\ Append(v, c)[n + 1] = c
        BY <4>1, AppendProperties
      <4>3. \A h \in 1..(n + 1) : h \in 1..n \/ h = n + 1
        BY <4>1, SMT
      <4>4. \A h \in 1..(n + 1) : w[h] = Append(v, c)[h]
        BY <4>1, <4>2, <4>3
      <4>5. w \in Seq(Contents) /\ Len(w) = n + 1
        <5>1. \A h \in 1..(n + 1) : Append(v, c)[h] \in Contents
          BY <4>1, <4>2, ElementOfSeq
        <5>2. n + 1 \in Nat /\ \A h \in 1..(n + 1) : w[h] \in Contents
          BY <4>1, <4>4, <5>1, SMT
        <5> QED  BY <4>1, <5>2, IsASeq
      <4>6. w = Append(v, c)
        BY <4>2, <4>4, <4>5, SeqEqual
      <4> QED  BY <4>6 DEF v, w, c
    <3> QED  BY <3>4, <3>7
  <2>3. CASE ~PushStateRoot
    <3>1. UNCHANGED state_roots
      <4>1. ASSUME NEW a \in Accounts, NEW s \in Slots, NEW x \in 0..MaxWord, EvmCall(a, s, x)
            PROVE  UNCHANGED state_roots
        BY <4>1, Zenon DEF EvmCall
      <4>2. CASE BeginTransaction \/ Discard \/ EndTransaction \/ Restart \/ UNCHANGED vars
        BY <4>2 DEF BeginTransaction, Discard, EndTransaction, Restart, vars, databases
      <4>3. CASE ApplyNodes \/ PersistStateRoot \/ PutStorageRoot
                 \/ (\E a \in Accounts : ApplyStorageNodes(a))
        BY <4>3, Zenon DEF ApplyNodes, PersistStateRoot, PutStorageRoot, ApplyStorageNodes
      <4>4. ASSUME NEW r \in Resources, NEW v \in Values \cup {None}, MoveWrite(r, v)
            PROVE  UNCHANGED state_roots
        BY <4>4, Zenon DEF MoveWrite, databases
      <4> QED  BY <2>3, <4>1, <4>2, <4>3, <4>4 DEF Next
    <3>2. Versions' = Versions
      BY <2>1, <3>1 DEF Content
    <3> QED  BY <2>1, <3>2
  <2> QED  BY <2>2, <2>3
<1> QED  BY <1>1, <1>4, TriesAlways, PTL DEF Spec, ImplementsVersionedStore, Store!StoreSpec
=============================================================================
