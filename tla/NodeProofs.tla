----------------------------- MODULE NodeProofs -----------------------------
(***************************************************************************)
(* Proofs about Application and Node, for all values of their constants:   *)
(* any number of transactions, accounts, payloads, requests and crashes.   *)
(* The first part is about Application alone.  The second is about Node:   *)
(* every behaviour of the node is a behaviour of Application, whose        *)
(* theorems it inherits, and what the consensus client holds on to stays   *)
(* in the chain.                                                           *)
(***************************************************************************)
EXTENDS Node, TLAPS, SequenceTheorems, FiniteSetTheorems

Building == {"execute", "evm", "receipts", "transactions", "block", "payload"}

(* What the actor's position says about the rest: a build has a parent     *)
(* block, the genesis is applied only below the first block, and a         *)
(* transaction whose EVM changes are due has been executed.                *)
PcOK ==
    /\ pc \in Building => blocks # <<>> /\ build.id \in PayloadId
    /\ pc = "evm" => executed # <<>>
    /\ pc \in {"genesis_state", "genesis_evm"} => blocks = <<>>

Typed == TypeOK /\ PcOK

-----------------------------------------------------------------------------
(* A sequence is a sequence over its own range, before and after Append.   *)
LEMMA AppendRange ==
    ASSUME NEW s, s \in Seq(Range(s)), NEW e
    PROVE  /\ Append(s, e) \in Seq(Range(Append(s, e)))
           /\ Len(Append(s, e)) = Len(s) + 1
           /\ \A i \in 1..Len(s) : Append(s, e)[i] = s[i]
           /\ Append(s, e)[Len(s) + 1] = e
<1> DEFINE S == Range(s) \cup {e}
<1>1. s \in Seq(S)
  BY SMT DEF Range
<1>2. /\ Append(s, e) \in Seq(S)
      /\ Len(Append(s, e)) = Len(s) + 1
      /\ \A i \in 1..Len(s) : Append(s, e)[i] = s[i]
      /\ Append(s, e)[Len(s) + 1] = e
  BY <1>1, SMT
<1>3. Append(s, e) \in Seq(Range(Append(s, e)))
  BY <1>2, SMT DEF Range
<1> QED  BY <1>2, <1>3

(* The genesis update neither shortens the chain nor touches other blocks. *)
LEMMA GenesisUpdateChain ==
    ASSUME TypeOK, GenesisUpdate
    PROVE  /\ blocks' \in Seq(Range(blocks'))
           /\ blocks' # <<>> /\ blocks'[1] = GenesisBlock
           /\ blocks # <<>> => /\ Len(blocks') = Len(blocks)
                               /\ \A i \in 2..Len(blocks) : blocks'[i] = blocks[i]
           /\ blocks = <<>> => blocks' = <<GenesisBlock>>
<1>1. CASE blocks = <<>>
  <2>1. blocks' = <<GenesisBlock>>
    BY <1>1 DEF GenesisUpdate
  <2> QED  BY <1>1, <2>1, SMT DEF Range
<1>2. CASE blocks # <<>>
  <2> DEFINE S == Range(blocks) \cup {GenesisBlock}
  <2>1. blocks' = [blocks EXCEPT ![1] = GenesisBlock]
    BY <1>2 DEF GenesisUpdate
  <2>2. blocks \in Seq(S) /\ Len(blocks) >= 1
    BY <1>2, SMT DEF TypeOK, Range
  <2> HIDE DEF S
  <2>3. DOMAIN blocks' = 1..Len(blocks) /\ blocks'[1] = GenesisBlock
        /\ \A i \in 2..Len(blocks) : blocks'[i] = blocks[i]
    BY <2>1, <2>2, SMT
  <2>4. blocks' \in [1..Len(blocks) -> Range(blocks')]
    BY <2>1, <2>2, <2>3, SMT DEF Range
  <2>5. blocks' \in Seq(Range(blocks')) /\ Len(blocks') = Len(blocks)
    BY <2>2, <2>3, <2>4, SMT
  <2> QED  BY <1>2, <2>2, <2>3, <2>5, SMT
<1> QED  BY <1>1, <1>2
-----------------------------------------------------------------------------
(* The order in which the pool is drained is a sequence of its elements.   *)
LEMMA DrainOrdersType ==
    ASSUME NEW S, NEW pool \in SUBSET S, IsFiniteSet(pool),
           NEW s \in DrainOrders(pool)
    PROVE  s \in Seq(S)
<1>1. Cardinality(pool) \in Nat
  BY FS_CardinalityType
<1> QED  BY <1>1, SMT DEF DrainOrders

(* The initial state is well typed. *)
LEMMA InitTyped == Init => Typed
<1> SUFFICES ASSUME Init PROVE Typed
  OBVIOUS
<1>1. IsFiniteSet(mem_pool)
  BY FS_EmptySet DEF Init
<1>2. applied \in Seq(Entry) /\ evm \in Seq(Entry) /\ state_roots \in Seq(Seq(Entry))
  BY SMT DEF Init
<1>3. blocks \in Seq(Range(blocks))
  BY SMT DEF Init, Range
<1>4. /\ build \in [id : PayloadId \cup {0}, timestamp : Nat]
      /\ pending \in Seq(Tx \cup {Undecodable})
      /\ included \in Seq(Tx) /\ executed \in Seq(Tx)
  BY SMT DEF Init, NoBuild
<1>5. /\ DOMAIN receipts \subseteq Tx /\ DOMAIN transactions \subseteq Tx
      /\ DOMAIN payloads \subseteq PayloadId
  BY SMT DEF Init
<1>6. nonces \in [Account -> Nat] /\ crashes \in 0..MaxCrashes
  BY CrashAssumption, SMT DEF Init
<1>7. PcOK
  BY SMT DEF Init, PcOK, Building
<1> QED  BY <1>1, <1>2, <1>3, <1>4, <1>5, <1>6, <1>7 DEF Typed, TypeOK, Init

(* Every step keeps the variables in their types. *)
LEMMA NextTyped == Typed /\ [Next]_vars => Typed'
<1> SUFFICES ASSUME Typed, [Next]_vars PROVE Typed'
  OBVIOUS
<1> USE DEF Typed
<1>1. CASE Start
  BY <1>1, SMT DEF Start, TypeOK, PcOK, Building, disk, state, repositories,
     memory, locals, history
<1>2. CASE GenesisState
  <2>1. applied' \in Seq(Entry)
    <3>1. applied' = <<Genesis>> \/ applied' = Append(applied, Genesis)
      BY <1>2 DEF GenesisState
    <3>2. applied \in Seq(Entry) /\ Genesis \in Entry
      BY DEF TypeOK, Entry
    <3>3. <<Genesis>> \in Seq(Entry) /\ Append(applied, Genesis) \in Seq(Entry)
      BY <3>2, SMT
    <3> QED  BY <3>1, <3>3
  <2> QED  BY <1>2, <2>1, SMT DEF GenesisState, TypeOK, PcOK, Building,
              repositories, memory, locals, history
<1>3. CASE GenesisEvm
  <2>1. evm' \in Seq(Entry)
    <3>1. evm' = <<Genesis>> \/ evm' = Append(evm, Genesis)
      BY <1>3 DEF GenesisEvm
    <3>2. evm \in Seq(Entry) /\ Genesis \in Entry
      BY DEF TypeOK, Entry
    <3>3. <<Genesis>> \in Seq(Entry) /\ Append(evm, Genesis) \in Seq(Entry)
      BY <3>2, SMT
    <3> QED  BY <3>1, <3>3
  <2> QED  BY <1>3, <2>1, SMT DEF GenesisEvm, TypeOK, PcOK, Building,
              repositories, memory, locals, history
<1>4. CASE \E tx \in Canonical : AddTransaction(tx)
  <2>1. IsFiniteSet(mem_pool') /\ mem_pool' \subseteq Canonical
    <3>1. PICK tx \in Canonical : AddTransaction(tx)
      BY <1>4
    <3>2. mem_pool' = mem_pool \cup {tx} /\ IsFiniteSet(mem_pool)
          /\ mem_pool \subseteq Canonical
      BY <3>1 DEF AddTransaction, TypeOK
    <3>3. IsFiniteSet(mem_pool \cup {tx})
      BY <3>2, FS_AddElement
    <3> QED  BY <3>2, <3>3
  <2> QED  BY <1>4, <2>1, SMT DEF AddTransaction, TypeOK, PcOK, Building,
              disk, state, repositories, locals, history
<1>5. CASE AddUnsupportedTransaction
  BY <1>5, FS_EmptySet, SMT DEF AddUnsupportedTransaction, TypeOK, PcOK, Building,
     disk, state, repositories, locals, history
<1>6. CASE GenesisUpdate
  <2>1. blocks' \in Seq(Range(blocks')) /\ blocks' # <<>>
    BY <1>6, GenesisUpdateChain
  <2> QED  BY <1>6, <2>1, SMT DEF GenesisUpdate, TypeOK, PcOK, Building,
              state, memory, locals, history
<1>7. CASE \E id \in PayloadId : BuildWithoutParent(id)
  BY <1>7, FS_EmptySet, SMT DEF BuildWithoutParent, TypeOK, PcOK,
     Building, disk, state, repositories, locals, history
<1>8. CASE \E p \in Payload, id \in PayloadId : StartBlockBuild(p, id)
  <2>1. PICK p \in Payload, id \in PayloadId : StartBlockBuild(p, id)
    BY <1>8
  <2>2. PICK drained \in DrainOrders(mem_pool) : pending' = p.transactions \o drained
    BY <2>1 DEF StartBlockBuild
  <2>3. drained \in Seq(Tx \cup {Undecodable})
    <3>1. mem_pool \in SUBSET (Tx \cup {Undecodable}) /\ IsFiniteSet(mem_pool)
      BY DEF TypeOK, Canonical
    <3> QED  BY <3>1, DrainOrdersType
  <2>4. p.timestamp \in Nat /\ p.transactions \in Seq(Tx \cup {Undecodable})
    BY PayloadAssumption
  <2>5. pending' \in Seq(Tx \cup {Undecodable})
    BY <2>2, <2>3, <2>4, SMT
  <2>6. /\ build' = [id |-> id, timestamp |-> p.timestamp]
        /\ included' = <<>> /\ executed' = <<>> /\ mem_pool' = {}
        /\ pc' = "execute" /\ blocks # <<>> /\ UNCHANGED <<disk, history>>
    BY <2>1 DEF StartBlockBuild
  <2> QED  BY <2>4, <2>5, <2>6, FS_EmptySet, SMT DEF TypeOK, PcOK, Building,
              disk, state, repositories, locals, history
<1>9. CASE DropPending
  BY <1>9, SMT DEF DropPending, TypeOK, PcOK, Building, disk, state, repositories, locals, history
<1>10. CASE SkipInvalid
  <2>1. next_tx \in Tx
    BY <1>10 DEF SkipInvalid, Canonical
  <2>2. pending' \in Seq(Tx \cup {Undecodable}) /\ included' \in Seq(Tx)
    BY <1>10, <2>1, SMT DEF SkipInvalid, TypeOK
  <2> QED  BY <1>10, <2>2, SMT DEF SkipInvalid, TypeOK, PcOK, Building,
              disk, state, repositories, locals, history
<1>11. CASE ApplyState
  <2>1. next_tx \in Tx
    BY <1>11, SMTT(30) DEF ApplyState, IsDropped, TypeOK, next_tx
  <2>2. /\ pending' \in Seq(Tx \cup {Undecodable}) /\ included' \in Seq(Tx)
        /\ executed' \in Seq(Tx) /\ executed' # <<>>
    <3>1. /\ pending \in Seq(Tx \cup {Undecodable}) /\ pending # <<>>
          /\ included \in Seq(Tx) /\ executed \in Seq(Tx)
          /\ pending' = Tail(pending) /\ included' = Append(included, next_tx)
          /\ executed' = Append(executed, next_tx)
      BY <1>11 DEF ApplyState, TypeOK
    <3>2. pending' \in Seq(Tx \cup {Undecodable})
      BY <3>1, SMT
    <3>3. included' \in Seq(Tx) /\ executed' \in Seq(Tx)
      BY <2>1, <3>1, SMT
    <3>4. executed' # <<>>
      BY <2>1, <3>1, SMTT(30)
    <3> QED  BY <3>2, <3>3, <3>4
  <2>3. applied' \in Seq(Entry)
    BY <1>11, <2>1, SMT DEF ApplyState, TypeOK, Entry
  <2>4. nonces' \in [Account -> Nat]
    BY <1>11, <2>1, TxAssumption, SMTT(30) DEF ApplyState, TypeOK
  <2>5. /\ pc = "execute" /\ pc' = "evm"
        /\ UNCHANGED <<evm, state_roots, repositories, mem_pool, build, history>>
    BY <1>11 DEF ApplyState
  <2> QED  BY <2>2, <2>3, <2>4, <2>5, SMTT(30) DEF TypeOK, PcOK, Building,
              repositories, locals, history
<1>12. CASE ApplyEvm
  <2>1. executed[Len(executed)] \in Entry
    BY <1>12, SMT DEF ApplyEvm, TypeOK, PcOK, Entry
  <2>2. evm' \in Seq(Entry)
    BY <1>12, <2>1, SMT DEF ApplyEvm, TypeOK
  <2> QED  BY <1>12, <2>2, SMT DEF ApplyEvm, TypeOK, PcOK, Building,
              repositories, memory, locals, history
<1>13. CASE PushStateRoot
  <2>1. state_roots' \in Seq(Seq(Entry))
    BY <1>13, SMT DEF PushStateRoot, TypeOK
  <2> QED  BY <1>13, <2>1, SMT DEF PushStateRoot, TypeOK, PcOK, Building,
              repositories, memory, locals, history
<1>14. CASE ExtendReceipts
  <2>1. DOMAIN receipts' \subseteq Tx
    BY <1>14, SMT DEF ExtendReceipts, Put, TypeOK, Range
  <2>2. pc = "receipts" /\ pc' = "transactions" /\ UNCHANGED <<state, transactions, blocks, payloads, memory, history>>
    BY <1>14 DEF ExtendReceipts
  <2> QED  BY <2>1, <2>2, SMT DEF TypeOK, PcOK, Building,
              state, memory, locals, history
<1>15. CASE ExtendTransactions
  <2>1. DOMAIN transactions' \subseteq Tx
    BY <1>15, SMT DEF ExtendTransactions, Put, TypeOK, Range
  <2>2. pc = "transactions" /\ pc' = "block" /\ UNCHANGED <<state, receipts, blocks, payloads, memory, history>>
    BY <1>15 DEF ExtendTransactions
  <2> QED  BY <2>1, <2>2, SMT DEF TypeOK, PcOK, Building,
              state, memory, locals, history
<1>16. CASE AddBlock
  <2>1. blocks' \in Seq(Range(blocks')) /\ blocks' # <<>>
    <3> DEFINE b == [header |-> NewHeader, payload_id |-> build.id]
    <3>1. blocks' = Append(blocks, b) /\ blocks \in Seq(Range(blocks))
      BY <1>16 DEF AddBlock, TypeOK
    <3> HIDE DEF b
    <3>2. blocks' \in Seq(Range(blocks')) /\ Len(blocks') = Len(blocks) + 1
      BY <3>1, AppendRange
    <3> QED  BY <3>1, <3>2, SMT
  <2> QED  BY <1>16, <2>1, SMT DEF AddBlock, TypeOK, PcOK, Building,
              state, memory, locals, history
<1>17. CASE OnPayload
  <2>1. DOMAIN payloads' \subseteq PayloadId
    <3>1. DOMAIN payloads' = DOMAIN payloads \cup {build.id}
      BY <1>17 DEF OnPayload, Put
    <3>2. DOMAIN payloads \subseteq PayloadId /\ build.id \in PayloadId
      BY <1>17 DEF OnPayload, TypeOK, PcOK, Building
    <3> QED  BY <3>1, <3>2
  <2>2. /\ pc' = "idle" /\ ForgetBuild
        /\ UNCHANGED <<state, receipts, transactions, blocks, mem_pool, history>>
    BY <1>17 DEF OnPayload
  <2> QED  BY <2>1, <2>2, SMT DEF ForgetBuild, NoBuild, TypeOK, PcOK, Building,
              state, history
<1>18. CASE Crash
  <2>1. /\ pc' \in {"down", "panicked"} /\ crashes' \in 0..MaxCrashes
        /\ mem_pool' = {} /\ ForgetBuild /\ UNCHANGED disk /\ torn' \in BOOLEAN
    BY <1>18, CrashAssumption, SMT DEF Crash, Kill, ExecutionPanics, TypeOK
  <2> QED  BY <2>1, FS_EmptySet, SMT DEF ForgetBuild, NoBuild, TypeOK, PcOK, Building, disk,
              state, repositories
<1>19. CASE UNCHANGED vars
  BY <1>19, SMT DEF vars, TypeOK, PcOK, disk, state, repositories, memory, locals, history
<1> QED
  BY <1>1, <1>2, <1>3, <1>4, <1>5, <1>6, <1>7, <1>8, <1>9, <1>10, <1>11, <1>12,
     <1>13, <1>14, <1>15, <1>16, <1>17, <1>18, <1>19
  DEF Next, Command, BuildStep, BuildKnownPayload

(* Whatever is sent and whenever the process dies, the databases and the   *)
(* handler's locals keep to their types.                                   *)
THEOREM TypeCorrect == Spec => []TypeOK
<1>1. Spec => []Typed
  BY InitTyped, NextTyped, PTL DEF Spec
<1> QED  BY <1>1, PTL DEF Typed

-----------------------------------------------------------------------------
(***************************************************************************)
(* What a step may do to one part of the state.                            *)
(***************************************************************************)

(* Only the genesis and an execution touch the world state. *)
LEMMA AppliedStep ==
    [Next]_vars => GenesisState \/ ApplyState \/ UNCHANGED <<applied, nonces>>
  BY DEF Next, Command, BuildStep, vars, disk, state, Start, GenesisEvm, AddTransaction,
     AddUnsupportedTransaction, GenesisUpdate, BuildKnownPayload, BuildWithoutParent,
     StartBlockBuild, DropPending, SkipInvalid, ApplyEvm, PushStateRoot,
     ExtendReceipts, ExtendTransactions, AddBlock, OnPayload, Crash

(* Only the genesis update and the end of a build touch the chain. *)
LEMMA BlocksStep ==
    [Next]_vars => GenesisUpdate \/ AddBlock \/ UNCHANGED blocks
  BY DEF Next, Command, BuildStep, vars, disk, repositories, Start, GenesisState,
     GenesisEvm, AddTransaction, AddUnsupportedTransaction, BuildKnownPayload,
     BuildWithoutParent, StartBlockBuild, DropPending, SkipInvalid, ApplyState, ApplyEvm,
     PushStateRoot, ExtendReceipts, ExtendTransactions, OnPayload, Crash

(* A new block goes on top and leaves the blocks below as they are. *)
LEMMA AddBlockChain ==
    ASSUME Typed, AddBlock
    PROVE  /\ Len(blocks) \in Nat \ {0}
           /\ DOMAIN blocks = 1..Len(blocks) /\ DOMAIN blocks' = 1..(Len(blocks) + 1)
           /\ \A i \in DOMAIN blocks : blocks'[i] = blocks[i]
           /\ blocks'[Len(blocks) + 1] = [header |-> NewHeader, payload_id |-> build.id]
<1> DEFINE b == [header |-> NewHeader, payload_id |-> build.id]
<1>1. blocks' = Append(blocks, b) /\ blocks \in Seq(Range(blocks)) /\ blocks # <<>>
  BY DEF AddBlock, Typed, TypeOK, PcOK, Building
<1> HIDE DEF b
<1>2. /\ blocks' \in Seq(Range(blocks'))
      /\ Len(blocks') = Len(blocks) + 1
      /\ \A i \in 1..Len(blocks) : blocks'[i] = blocks[i]
      /\ blocks'[Len(blocks) + 1] = b
  BY <1>1, AppendRange
<1> QED  BY <1>1, <1>2, SMT DEF b

-----------------------------------------------------------------------------
(* The blocks form one chain from the genesis block to the newest one, for *)
(* every sequence of commands and crashes.                                 *)
THEOREM ChainIsLinked == Spec => []ChainLinked
<1> DEFINE Inv == Typed /\ ChainLinked
<1>1. Init => Inv
  <2>1. Init => ChainLinked
    BY SMT DEF Init, ChainLinked
  <2> QED  BY <2>1, InitTyped
<1>2. Inv /\ [Next]_vars => Inv'
  <2> SUFFICES ASSUME Typed, ChainLinked, [Next]_vars PROVE ChainLinked'
    BY NextTyped
  <2>1. CASE GenesisUpdate
    <3>1. /\ blocks' # <<>> /\ blocks'[1] = GenesisBlock
          /\ blocks' \in Seq(Range(blocks')) /\ blocks \in Seq(Range(blocks))
          /\ blocks # <<>> => /\ Len(blocks') = Len(blocks)
                              /\ \A i \in 2..Len(blocks) : blocks'[i] = blocks[i]
          /\ blocks = <<>> => blocks' = <<GenesisBlock>>
      BY <2>1, GenesisUpdateChain DEF Typed, TypeOK
    <3>2. GenesisBlock.header.number = 0
      BY DEF GenesisBlock
    <3>3. CASE blocks = <<>>
      <4>1. DOMAIN blocks' = {1} /\ blocks'[1] = GenesisBlock
        BY <3>1, <3>3, SMT
      <4> QED  BY <4>1, <3>2, SMT DEF ChainLinked
    <3>4. CASE blocks # <<>>
      <4>1. blocks[1] = GenesisBlock
        BY <3>1, <3>4, SMT DEF ChainLinked
      <4>2. DOMAIN blocks' = DOMAIN blocks /\ \A i \in DOMAIN blocks : blocks'[i] = blocks[i]
        BY <3>1, <3>4, <4>1, SMT
      <4>3. \A i \in DOMAIN blocks : i > 1 => i - 1 \in DOMAIN blocks
        BY <3>1, SMT
      <4> QED  BY <4>2, <4>3 DEF ChainLinked
    <3> QED  BY <3>3, <3>4
  <2>2. CASE AddBlock
    <3> DEFINE n == Len(blocks)
    <3>1. /\ n \in Nat \ {0}
          /\ DOMAIN blocks = 1..n /\ DOMAIN blocks' = 1..(n + 1)
          /\ \A i \in DOMAIN blocks : blocks'[i] = blocks[i]
          /\ blocks'[n + 1] = [header |-> NewHeader, payload_id |-> build.id]
      BY <2>2, AddBlockChain
    <3> HIDE DEF n
    <3>2. /\ blocks'[n + 1].header.number = blocks[n].header.number + 1
          /\ blocks'[n + 1].header.parent_hash = BlockHash(blocks[n].header)
      BY <3>1 DEF NewHeader, latest, n
    <3>3. blocks[n].header.number = n - 1
      BY <3>1, SMT DEF ChainLinked
    <3>4. \A i \in 1..n : /\ blocks'[i].header.number = i - 1
                          /\ i = 1 => blocks'[i] = GenesisBlock
                          /\ i > 1 => blocks'[i].header.parent_hash
                                        = BlockHash(blocks'[i - 1].header)
      <4>1. \A i \in 1..n : i > 1 => i - 1 \in 1..n
        BY <3>1, SMT
      <4> QED  BY <3>1, <4>1 DEF ChainLinked
    <3>5. /\ blocks'[n + 1].header.number = (n + 1) - 1
          /\ n + 1 # 1
          /\ blocks'[n + 1].header.parent_hash = BlockHash(blocks'[(n + 1) - 1].header)
      <4>1. (n + 1) - 1 = n /\ n \in 1..n /\ n + 1 # 1 /\ (n - 1) + 1 = n
        BY <3>1, SMT
      <4> QED  BY <3>1, <3>2, <3>3, <4>1
    <3>6. \A i \in 1..(n + 1) : i \in 1..n \/ i = n + 1
      BY <3>1, SMT
    <3> QED  BY <3>1, <3>4, <3>5, <3>6 DEF ChainLinked
  <2>3. CASE UNCHANGED blocks
    BY <2>3 DEF ChainLinked
  <2> QED  BY <2>1, <2>2, <2>3, BlocksStep
<1>3. Inv => ChainLinked
  OBVIOUS
<1> QED  BY <1>1, <1>2, <1>3, PTL DEF Spec

-----------------------------------------------------------------------------
(* The nonce of every signed transaction in the state is spent: the reason *)
(* why none of them can run again.                                         *)
NoncesSpent ==
    \A i \in DOMAIN applied :
        applied[i] \in Canonical => Nonce[applied[i]] < nonces[Sender[applied[i]]]

OnceInv == Typed /\ NoncesSpent /\ CanonicalOnce

(* Every step keeps the applied nonces spent and canonical entries unique. *)
LEMMA OnceInductive == OnceInv /\ [Next]_vars => OnceInv'
<1> SUFFICES ASSUME Typed, NoncesSpent, CanonicalOnce, [Next]_vars
             PROVE  NoncesSpent' /\ CanonicalOnce'
  BY NextTyped DEF OnceInv
<1>0. applied \in Seq(Entry) /\ nonces \in [Account -> Nat]
  BY DEF Typed, TypeOK
<1>1. CASE GenesisState
  <2>1. UNCHANGED nonces
    BY <1>1 DEF GenesisState
  <2>2. Genesis \notin Canonical
    BY MarkerAssumption DEF Canonical
  <2>3. CASE applied' = <<Genesis>>
    BY <2>1, <2>2, <2>3, SMT DEF NoncesSpent, CanonicalOnce
  <2>4. CASE applied' = Append(applied, Genesis)
    <3>1. Genesis \in Entry
      BY DEF Entry
    <3>2. \A i \in DOMAIN applied' :
              \/ i \in DOMAIN applied /\ applied'[i] = applied[i]
              \/ applied'[i] = Genesis
      BY <1>0, <2>4, <3>1, SMT
    <3> QED  BY <2>1, <2>2, <3>2 DEF NoncesSpent, CanonicalOnce
  <2> QED  BY <1>1, <2>3, <2>4 DEF GenesisState
<1>2. CASE ApplyState
  <2> DEFINE tx == next_tx
  <2>1. tx \in Tx
    BY <1>2, SMT DEF ApplyState, IsDropped, Typed, TypeOK, next_tx
  <2>2. /\ applied' = Append(applied, tx)
        /\ tx \in Canonical => NonceMatches(tx)
        /\ nonces' = IF tx \in Canonical
                     THEN [nonces EXCEPT ![Sender[tx]] = @ + 1] ELSE nonces
    BY <1>2 DEF ApplyState
  <2> HIDE DEF tx
  <2>3. /\ DOMAIN applied = 1..Len(applied) /\ Len(applied) \in Nat
        /\ DOMAIN applied' = 1..(Len(applied) + 1)
        /\ \A i \in DOMAIN applied : applied'[i] = applied[i]
        /\ applied'[Len(applied) + 1] = tx
    BY <1>0, <2>1, <2>2, SMT DEF Entry
  <2>4. \A i \in DOMAIN applied' : i \in DOMAIN applied \/ i = Len(applied) + 1
    BY <2>3, SMT
  <2>5. \A t \in Tx : Sender[t] \in Account /\ Nonce[t] \in Nat
    BY TxAssumption
  <2>6. \A a \in Account : nonces'[a] >= nonces[a] /\ nonces'[a] \in Nat
    BY <1>0, <2>1, <2>2, <2>5, SMT
  <2>7. tx \in Canonical => Nonce[tx] = nonces[Sender[tx]]
                            /\ nonces'[Sender[tx]] = nonces[Sender[tx]] + 1
    BY <1>0, <2>1, <2>2, <2>5, SMT DEF NonceMatches
  <2>8. \A i \in DOMAIN applied : applied[i] \in Canonical => applied[i] # tx
    <3>1. \A a \in Account : ~(nonces[a] < nonces[a])
      BY <1>0, SMT
    <3> QED  BY <2>1, <2>5, <2>7, <3>1 DEF NoncesSpent
  <2>9. NoncesSpent'
    <3>1. ASSUME NEW i \in DOMAIN applied, applied[i] \in Canonical
          PROVE  Nonce[applied[i]] < nonces'[Sender[applied[i]]]
      <4>1. applied[i] \in Tx
        BY <3>1 DEF Canonical
      <4>2. Nonce[applied[i]] < nonces[Sender[applied[i]]]
        BY <3>1 DEF NoncesSpent
      <4> QED  BY <1>0, <2>5, <2>6, <4>1, <4>2, SMT
    <3>2. tx \in Canonical => Nonce[tx] < nonces'[Sender[tx]]
      BY <1>0, <2>1, <2>5, <2>7, SMT
    <3> QED  BY <2>3, <2>4, <3>1, <3>2 DEF NoncesSpent
  <2>10. CanonicalOnce'
    BY <2>3, <2>4, <2>8 DEF CanonicalOnce
  <2> QED  BY <2>9, <2>10
<1>3. CASE UNCHANGED <<applied, nonces>>
  BY <1>3 DEF NoncesSpent, CanonicalOnce
<1> QED  BY <1>1, <1>2, <1>3, AppliedStep

(* A signed transaction never changes the state twice, even when a crash   *)
(* loses its receipt and it is submitted again.                            *)
THEOREM CanonicalAppliedOnce == Spec => []CanonicalOnce
<1>1. Init => OnceInv
  <2>1. Init => NoncesSpent /\ CanonicalOnce
    BY SMT DEF Init, NoncesSpent, CanonicalOnce
  <2> QED  BY <2>1, InitTyped DEF OnceInv
<1>2. OnceInv => CanonicalOnce
  BY DEF OnceInv
<1> QED  BY <1>1, <1>2, OnceInductive, PTL DEF Spec

-----------------------------------------------------------------------------
(* Below the first block the state is empty or the genesis state; from     *)
(* then on, and while the actor runs, it starts with the genesis.          *)
GenesisFirst ==
    /\ blocks = <<>> => applied = <<>> \/ applied = <<Genesis>>
    /\ (blocks # <<>> \/ pc \in Building \cup {"idle", "genesis_evm"})
          => applied # <<>> /\ applied[1] = Genesis

GenesisInv == Typed /\ GenesisFirst

(* Every step keeps the state at the genesis until a block is stored.     *)
LEMMA GenesisInductive == GenesisInv /\ [Next]_vars => GenesisInv'
<1> SUFFICES ASSUME Typed, GenesisFirst, [Next]_vars PROVE GenesisFirst'
  BY NextTyped DEF GenesisInv
<1>0. applied \in Seq(Entry)
  BY DEF Typed, TypeOK
<1>1. CASE GenesisState
  <2>1. blocks = <<>> /\ UNCHANGED blocks
    BY <1>1 DEF GenesisState, Typed, PcOK, repositories
  <2>2. applied' = <<Genesis>>
    BY <1>1, <2>1 DEF GenesisState, GenesisFirst
  <2> QED  BY <2>1, <2>2, SMT DEF GenesisFirst
<1>2. CASE ApplyState
  <2>1. blocks # <<>> /\ UNCHANGED blocks /\ pc = "execute"
    BY <1>2 DEF ApplyState, Typed, PcOK, Building, repositories
  <2>2. next_tx \in Entry
    BY <1>2, SMT DEF ApplyState, IsDropped, Typed, TypeOK, next_tx, Entry
  <2>3. applied' = Append(applied, next_tx) /\ applied # <<>> /\ applied[1] = Genesis
    BY <1>2, <2>1 DEF ApplyState, GenesisFirst, Building
  <2>4. applied' # <<>> /\ applied'[1] = Genesis
    BY <1>0, <2>2, <2>3, SMT
  <2> QED  BY <2>1, <2>4 DEF GenesisFirst
<1>3. CASE UNCHANGED <<applied, nonces>>
  <2>1. CASE GenesisUpdate
    <3>1. pc = "idle" /\ pc' = "idle" /\ blocks' # <<>>
      BY <2>1, GenesisUpdateChain DEF GenesisUpdate, Typed
    <3> QED  BY <1>3, <3>1 DEF GenesisFirst
  <2>2. CASE AddBlock
    <3>1. pc \in Building /\ blocks # <<>>
      BY <2>2 DEF AddBlock, Typed, PcOK, Building
    <3>2. blocks' # <<>>
      BY <2>2, AddBlockChain, SMT
    <3> QED  BY <1>3, <3>1, <3>2 DEF GenesisFirst
  <2>3. CASE UNCHANGED blocks
    <3>1. pc' \in Building \cup {"idle", "genesis_evm"} =>
              \/ pc \in Building \cup {"idle", "genesis_evm"}
              \/ blocks # <<>>
              \/ GenesisState
      BY DEF Next, Command, BuildStep, vars, Start, GenesisEvm, AddTransaction,
         AddUnsupportedTransaction, GenesisUpdate, BuildKnownPayload, BuildWithoutParent,
         StartBlockBuild, DropPending, SkipInvalid, ApplyState, ApplyEvm, PushStateRoot,
         ExtendReceipts, ExtendTransactions, AddBlock, OnPayload, Crash, Kill,
         ExecutionPanics, Building
    <3>2. CASE GenesisState
      BY <1>1, <3>2
    <3> QED  BY <1>3, <2>3, <3>1, <3>2 DEF GenesisFirst
  <2> QED  BY <2>1, <2>2, <2>3, BlocksStep
<1> QED  BY <1>1, <1>2, <1>3, AppliedStep

(* Starting again after any number of interrupted starts gives the genesis *)
(* state: the assertion on the genesis root cannot fail.                   *)
THEOREM GenesisIsIdempotent == Spec => []GenesisReapplies
<1>1. Init => GenesisInv
  <2>1. Init => GenesisFirst
    BY SMT DEF Init, GenesisFirst, Building
  <2> QED  BY <2>1, InitTyped DEF GenesisInv
<1>2. GenesisInv => GenesisReapplies
  BY DEF GenesisInv, GenesisFirst, GenesisReapplies, Typed, PcOK
<1> QED  BY <1>1, <1>2, GenesisInductive, PTL DEF Spec

-----------------------------------------------------------------------------
(***************************************************************************)
(* Prefixes of histories.                                                  *)
(***************************************************************************)
(* A history is a prefix of itself. *)
LEMMA PrefixReflexive ==
    ASSUME NEW S, NEW s \in Seq(S) PROVE IsPrefix(s, s)
  BY SMT DEF IsPrefix

(* What was a prefix stays one when an entry is added. *)
LEMMA PrefixAppend ==
    ASSUME NEW S, NEW r \in Seq(S), NEW s \in Seq(S), IsPrefix(r, s), NEW e \in S
    PROVE  IsPrefix(r, Append(s, e))
<1>1. Len(r) \in Nat /\ Len(s) \in Nat /\ Len(r) <= Len(s) /\ SubSeq(s, 1, Len(r)) = r
  BY SMT DEF IsPrefix
<1>2. Append(s, e) \in Seq(S) /\ Len(Append(s, e)) = Len(s) + 1
      /\ \A i \in 1..Len(s) : Append(s, e)[i] = s[i]
  BY SMT
<1>3. SubSeq(Append(s, e), 1, Len(r)) = SubSeq(s, 1, Len(r))
  <2>1. SubSeq(Append(s, e), 1, Len(r)) = [i \in 1..Len(r) |-> Append(s, e)[i]]
    BY <1>1, <1>2, SMT
  <2>2. SubSeq(s, 1, Len(r)) = [i \in 1..Len(r) |-> s[i]]
    BY <1>1, SMT
  <2>3. \A i \in 1..Len(r) : Append(s, e)[i] = s[i]
    BY <1>1, <1>2, SMT
  <2> QED  BY <2>1, <2>2, <2>3, Zenon
<1> QED  BY <1>1, <1>2, <1>3, SMT DEF IsPrefix

(* Every block's root is an earlier version of the stored state. *)
RootsBelow ==
    \A i \in DOMAIN blocks : i > 1 =>
        /\ blocks[i].header.state_root \in Seq(Entry)
        /\ IsPrefix(blocks[i].header.state_root, applied)

RootsInv == GenesisInv /\ RootsBelow /\ RootsNested

(* The steps that touch the chain, index by index. *)
LEMMA GenesisUpdateKeeps ==
    ASSUME Typed, GenesisUpdate, NEW i \in DOMAIN blocks', i > 1
    PROVE  /\ i \in DOMAIN blocks /\ blocks'[i] = blocks[i]
           /\ i > 2 => /\ i - 1 \in DOMAIN blocks /\ i - 1 > 1
                       /\ blocks'[i - 1] = blocks[i - 1]
<1>1. /\ blocks' \in Seq(Range(blocks')) /\ blocks \in Seq(Range(blocks))
      /\ blocks # <<>> => /\ Len(blocks') = Len(blocks)
                          /\ \A j \in 2..Len(blocks) : blocks'[j] = blocks[j]
      /\ blocks = <<>> => blocks' = <<GenesisBlock>>
  BY GenesisUpdateChain DEF Typed, TypeOK
<1>2. CASE blocks = <<>>
  <2>1. DOMAIN blocks' = {1}
    BY <1>1, <1>2, SMT
  <2> QED  BY <2>1, SMT
<1>3. CASE blocks # <<>>
  BY <1>1, <1>3, SMT
<1> QED  BY <1>2, <1>3

(* Every step keeps the roots of the chain below the stored state.        *)
LEMMA RootsInductive == RootsInv /\ [Next]_vars => RootsInv'
<1> SUFFICES ASSUME Typed, GenesisFirst, RootsBelow, RootsNested, [Next]_vars
             PROVE  RootsBelow' /\ RootsNested'
  BY GenesisInductive DEF RootsInv, GenesisInv
<1>0. applied \in Seq(Entry) /\ applied' \in Seq(Entry)
  BY NextTyped DEF Typed, TypeOK
<1>1. CASE GenesisState
  <2>1. blocks = <<>> /\ blocks' = <<>>
    BY <1>1 DEF GenesisState, Typed, PcOK, repositories
  <2> QED  BY <2>1, SMT DEF RootsBelow, RootsNested
<1>2. CASE ApplyState
  <2>1. UNCHANGED blocks /\ applied' = Append(applied, next_tx)
    BY <1>2 DEF ApplyState, repositories
  <2>2. next_tx \in Entry
    BY <1>2, SMT DEF ApplyState, IsDropped, Typed, TypeOK, next_tx, Entry
  <2>3. \A i \in DOMAIN blocks : i > 1 => IsPrefix(blocks[i].header.state_root, applied')
    BY <1>0, <2>1, <2>2, PrefixAppend DEF RootsBelow
  <2> QED  BY <2>1, <2>3 DEF RootsBelow, RootsNested
<1>3. CASE UNCHANGED <<applied, nonces>>
  <2>1. CASE GenesisUpdate
    <3>1. ASSUME NEW i \in DOMAIN blocks', i > 1
          PROVE  /\ i \in DOMAIN blocks /\ blocks'[i] = blocks[i]
                 /\ i > 2 => blocks'[i - 1] = blocks[i - 1]
      BY <2>1, <3>1, GenesisUpdateKeeps
    <3> QED  BY <1>3, <3>1 DEF RootsBelow, RootsNested
  <2>2. CASE AddBlock
    <3> DEFINE n == Len(blocks)
    <3>1. /\ n \in Nat \ {0}
          /\ DOMAIN blocks = 1..n /\ DOMAIN blocks' = 1..(n + 1)
          /\ \A i \in DOMAIN blocks : blocks'[i] = blocks[i]
          /\ blocks'[n + 1] = [header |-> NewHeader, payload_id |-> build.id]
      BY <2>2, AddBlockChain
    <3>2. blocks'[n + 1].header.state_root = applied
      BY <3>1 DEF NewHeader
    <3> HIDE DEF n
    <3>3. IsPrefix(applied, applied)
      BY <1>0, PrefixReflexive
    <3>4. ASSUME NEW i \in 1..n, i > 1
          PROVE  /\ blocks'[i].header.state_root \in Seq(Entry)
                 /\ IsPrefix(blocks'[i].header.state_root, applied)
                 /\ i > 2 => IsPrefix(blocks'[i - 1].header.state_root,
                                      blocks'[i].header.state_root)
      <4>1. /\ i \in DOMAIN blocks /\ blocks'[i] = blocks[i]
            /\ i > 2 => blocks'[i - 1] = blocks[i - 1]
        BY <3>1, <3>4, SMT
      <4> QED  BY <3>4, <4>1 DEF RootsBelow, RootsNested
    <3>5. n + 1 > 2 => IsPrefix(blocks'[(n + 1) - 1].header.state_root, applied)
      <4>1. n + 1 > 2 => (n + 1) - 1 \in 1..n /\ (n + 1) - 1 > 1
        BY <3>1, SMT
      <4> QED  BY <3>4, <4>1
    <3>6. \A i \in DOMAIN blocks' : i \in 1..n \/ i = n + 1
      BY <3>1, SMT
    <3>7. RootsBelow'
      BY <1>0, <1>3, <3>2, <3>3, <3>4, <3>6 DEF RootsBelow
    <3>8. RootsNested'
      BY <1>0, <1>3, <3>2, <3>3, <3>4, <3>5, <3>6 DEF RootsNested
    <3> QED  BY <3>7, <3>8
  <2>3. CASE UNCHANGED blocks
    BY <1>3, <2>3 DEF RootsBelow, RootsNested
  <2> QED  BY <2>1, <2>2, <2>3, BlocksStep
<1> QED  BY <1>1, <1>2, <1>3, AppliedStep

(* Every block describes a version of the state that is still below the    *)
(* stored one, and the versions grow along the chain.                      *)
THEOREM RootsAreNested == Spec => []RootsNested
<1>1. Init => RootsInv
  <2>1. Init => RootsBelow /\ RootsNested
    BY SMT DEF Init, RootsBelow, RootsNested
  <2>2. Init => GenesisFirst
    BY SMT DEF Init, GenesisFirst, Building
  <2> QED  BY <2>1, <2>2, InitTyped DEF RootsInv, GenesisInv
<1>2. RootsInv => RootsNested
  BY DEF RootsInv
<1> QED  BY <1>1, <1>2, RootsInductive, PTL DEF Spec

-----------------------------------------------------------------------------
(* The heights of the states keep ahead of those of the blocks, also when  *)
(* crashes leave states without a block.                                   *)
StatesAhead ==
    /\ Len(blocks) <= Len(state_roots) + 1
    /\ pc \in {"receipts", "transactions", "block"} => Len(blocks) <= Len(state_roots)

AheadInv == Typed /\ StatesAhead

(* Every step keeps at least as many state roots as the chain needs.      *)
LEMMA AheadInductive == AheadInv /\ [Next]_vars => AheadInv'
<1> SUFFICES ASSUME Typed, StatesAhead, [Next]_vars PROVE StatesAhead'
  BY NextTyped DEF AheadInv
<1>0. /\ Len(blocks) \in Nat /\ Len(state_roots) \in Nat
      /\ state_roots \in Seq(Seq(Entry)) /\ applied \in Seq(Entry)
  BY SMT DEF Typed, TypeOK
<1>1. CASE PushStateRoot
  <2>1. state_roots' = Append(state_roots, applied) /\ UNCHANGED blocks
    BY <1>1 DEF PushStateRoot, repositories
  <2>2. Len(state_roots') = Len(state_roots) + 1
    BY <1>0, <2>1, SMT
  <2> QED  BY <1>0, <2>1, <2>2, SMT DEF StatesAhead
<1>2. CASE AddBlock
  <2>1. /\ pc = "block" /\ pc' = "payload" /\ UNCHANGED state_roots
        /\ blocks' \in Seq(Range(blocks'))
    BY <1>2, NextTyped DEF AddBlock, state, Typed, TypeOK
  <2>2. DOMAIN blocks' = 1..(Len(blocks) + 1)
    BY <1>2, AddBlockChain
  <2>3. Len(blocks') = Len(blocks) + 1
    BY <1>0, <2>1, <2>2, SMT
  <2> QED  BY <1>0, <2>1, <2>3, SMT DEF StatesAhead
<1>3. CASE GenesisUpdate
  <2>1. pc' = "idle" /\ UNCHANGED state_roots
    BY <1>3 DEF GenesisUpdate, state
  <2>2. Len(blocks') = Len(blocks) \/ blocks' = <<GenesisBlock>>
    BY <1>3, GenesisUpdateChain DEF Typed
  <2>3. Len(blocks') = Len(blocks) \/ Len(blocks') = 1
    BY <2>2, SMT
  <2>4. Len(blocks') <= Len(state_roots') + 1
    <3>1. Len(blocks) <= Len(state_roots) + 1 /\ Len(state_roots') = Len(state_roots)
      BY <2>1 DEF StatesAhead
    <3>2. \A b, b1, r \in Nat : b <= r + 1 /\ (b1 = b \/ b1 = 1) => b1 <= r + 1
      BY SMT
    <3>3. Len(blocks) \in Nat /\ Len(blocks') \in Nat /\ Len(state_roots) \in Nat
      BY <1>0, <2>3
    <3>4. Len(blocks') <= Len(state_roots) + 1
      BY <2>3, <3>1, <3>2, <3>3
    <3> QED  BY <3>1, <3>4
  <2> QED  BY <2>1, <2>4 DEF StatesAhead
<1>4. CASE ~PushStateRoot /\ UNCHANGED blocks
  <2>1. /\ UNCHANGED state_roots
        /\ pc' \in {"receipts", "transactions", "block"}
             => pc \in {"receipts", "transactions", "block"}
    BY <1>4 DEF Next, Command, BuildStep, vars, disk, state, Start, GenesisState,
       GenesisEvm, AddTransaction, AddUnsupportedTransaction, GenesisUpdate,
       BuildKnownPayload, BuildWithoutParent, StartBlockBuild, DropPending, SkipInvalid,
       ApplyState, ApplyEvm, ExtendReceipts, ExtendTransactions, AddBlock, OnPayload, Crash,
       Kill, ExecutionPanics
  <2> QED  BY <1>4, <2>1 DEF StatesAhead
<1> QED  BY <1>1, <1>2, <1>3, <1>4, BlocksStep

(* Every height of the chain resolves to a state version. *)
THEOREM HeightsResolve == Spec => []HeightHasState
<1>1. Init => AheadInv
  <2>1. Init => StatesAhead
    BY SMT DEF Init, StatesAhead
  <2> QED  BY <2>1, InitTyped DEF AheadInv
<1>2. AheadInv => HeightHasState
  BY SMT DEF AheadInv, StatesAhead, HeightHasState, Typed, TypeOK
<1> QED  BY <1>1, <1>2, AheadInductive, PTL DEF Spec

-----------------------------------------------------------------------------
(* The payload being built is not known yet, and nothing executed in the   *)
(* running build has a receipt before the receipts are written.            *)
FreshBuild ==
    /\ pc \in Building => build.id \notin DOMAIN payloads
    /\ pc \in {"execute", "evm", "receipts"} =>
           \A i \in DOMAIN executed : executed[i] \notin DOMAIN receipts

FreshInv == Typed /\ FreshBuild

(* Every step keeps the running build apart from what is already stored.  *)
LEMMA FreshInductive == FreshInv /\ [Next]_vars => FreshInv'
<1> SUFFICES ASSUME Typed, FreshBuild, [Next]_vars PROVE FreshBuild'
  BY NextTyped DEF FreshInv
<1>1. CASE \E q \in Payload, id \in PayloadId : StartBlockBuild(q, id)
  <2>1. PICK q \in Payload, id \in PayloadId : StartBlockBuild(q, id)
    BY <1>1
  <2>2. /\ build' = [id |-> id, timestamp |-> q.timestamp] /\ executed' = <<>>
        /\ id \notin DOMAIN payloads /\ UNCHANGED payloads
    BY <2>1 DEF StartBlockBuild, IsKnown, disk, repositories
  <2> QED  BY <2>2, SMT DEF FreshBuild
<1>2. CASE ApplyState
  <2>1. /\ pc = "execute" /\ next_tx \notin DOMAIN receipts
        /\ executed' = Append(executed, next_tx)
        /\ UNCHANGED <<payloads, receipts, build>>
    BY <1>2 DEF ApplyState, IsDropped, repositories
  <2>2. next_tx \in Tx /\ executed \in Seq(Tx)
    BY <1>2, SMT DEF ApplyState, IsDropped, Typed, TypeOK, next_tx
  <2>3. \A i \in DOMAIN executed' :
            \/ i \in DOMAIN executed /\ executed'[i] = executed[i]
            \/ executed'[i] = next_tx
    BY <2>1, <2>2, SMT
  <2> QED  BY <2>1, <2>3 DEF FreshBuild, Building
<1>3. CASE OnPayload
  <2>1. pc' = "idle"
    BY <1>3 DEF OnPayload
  <2> QED  BY <2>1 DEF FreshBuild, Building
<1>4. CASE ExtendReceipts
  <2>1. pc = "receipts" /\ pc' = "transactions" /\ UNCHANGED <<payloads, build>>
    BY <1>4 DEF ExtendReceipts, memory, locals
  <2> QED  BY <2>1 DEF FreshBuild, Building
<1>5. CASE DropPending \/ SkipInvalid \/ ApplyEvm \/ PushStateRoot \/ ExtendTransactions
           \/ AddBlock
  BY <1>5 DEF FreshBuild, Building, DropPending, SkipInvalid, ApplyEvm, PushStateRoot,
     ExtendTransactions, AddBlock, disk, repositories, memory, locals
<1>6. CASE Start \/ GenesisState \/ GenesisEvm \/ Crash \/ GenesisUpdate
           \/ AddUnsupportedTransaction \/ (\E tx \in Canonical : AddTransaction(tx))
           \/ (\E id \in PayloadId : BuildWithoutParent(id))
  <2>1. pc' \notin Building
    BY <1>6 DEF Start, GenesisState, GenesisEvm, Crash, Kill, ExecutionPanics, GenesisUpdate,
       Building,
       AddUnsupportedTransaction, AddTransaction, BuildWithoutParent
  <2> QED  BY <2>1 DEF FreshBuild, Building
<1>7. CASE UNCHANGED vars
  BY <1>7 DEF FreshBuild, vars, disk, repositories, memory, locals
<1> QED
  BY <1>1, <1>2, <1>3, <1>4, <1>5, <1>6, <1>7
  DEF Next, Command, BuildStep, BuildKnownPayload

(* So a build never works on a known payload or on processed transactions.*)
LEMMA FreshAlways == Spec => []FreshInv
<1>1. Init => FreshInv
  <2>1. Init => FreshBuild
    BY DEF Init, FreshBuild, Building
  <2> QED  BY <2>1, InitTyped DEF FreshInv
<1> QED  BY <1>1, FreshInductive, PTL DEF Spec

(* getPayload never changes its answer: a known id is never built again,   *)
(* and the id that is being built is not known.                            *)
THEOREM PayloadsAreStable == Spec => PayloadsStable
<1>1. FreshInv /\ [Next]_vars =>
          [\A id \in DOMAIN payloads :
              id \in DOMAIN payloads' /\ payloads'[id] = payloads[id]]_vars
  <2> SUFFICES ASSUME Typed, FreshBuild, [Next]_vars, NEW id \in DOMAIN payloads
               PROVE  id \in DOMAIN payloads' /\ payloads'[id] = payloads[id]
    BY DEF FreshInv
  <2>1. CASE OnPayload
    <3>1. id # build.id
      BY <2>1 DEF OnPayload, FreshBuild, Building
    <3> QED  BY <2>1, <3>1 DEF OnPayload, Put
  <2>2. CASE ~OnPayload
    <3>1. UNCHANGED payloads
      BY <2>2 DEF Next, Command, BuildStep, vars, disk, repositories, Start, GenesisState,
         GenesisEvm, AddTransaction, AddUnsupportedTransaction, GenesisUpdate,
         BuildKnownPayload, BuildWithoutParent, StartBlockBuild, DropPending, SkipInvalid,
         ApplyState, ApplyEvm, PushStateRoot, ExtendReceipts, ExtendTransactions,
         AddBlock, Crash
    <3> QED  BY <3>1
  <2> QED  BY <2>1, <2>2
<1> QED  BY <1>1, FreshAlways, PTL DEF Spec, PayloadsStable

(* A stored receipt is final: what has one is not executed again.          *)
THEOREM ReceiptsAreStable == Spec => ReceiptsStable
<1>1. FreshInv /\ [Next]_vars =>
          [\A t \in DOMAIN receipts :
              t \in DOMAIN receipts' /\ receipts'[t] = receipts[t]]_vars
  <2> SUFFICES ASSUME Typed, FreshBuild, [Next]_vars, NEW t \in DOMAIN receipts
               PROVE  t \in DOMAIN receipts' /\ receipts'[t] = receipts[t]
    BY DEF FreshInv
  <2>1. CASE ExtendReceipts
    <3>1. t \notin Range(executed)
      BY <2>1 DEF ExtendReceipts, FreshBuild, Range
    <3> QED  BY <2>1, <3>1 DEF ExtendReceipts, Put
  <2>2. CASE ~ExtendReceipts
    <3>1. UNCHANGED receipts
      BY <2>2 DEF Next, Command, BuildStep, vars, disk, repositories, Start, GenesisState,
         GenesisEvm, AddTransaction, AddUnsupportedTransaction, GenesisUpdate,
         BuildKnownPayload, BuildWithoutParent, StartBlockBuild, DropPending, SkipInvalid,
         ApplyState, ApplyEvm, PushStateRoot, ExtendTransactions, AddBlock, OnPayload, Crash
    <3> QED  BY <3>1
  <2> QED  BY <2>1, <2>2
<1> QED  BY <1>1, FreshAlways, PTL DEF Spec, ReceiptsStable

-----------------------------------------------------------------------------
(* Where in the state the transactions of one sender are. *)
Consumed(a) == {j \in DOMAIN applied : applied[j] \in Canonical /\ Sender[applied[j]] = a}

(* A sequence number counts the transactions of its account in the state. *)
NoncesCount == \A a \in Account : nonces[a] = Cardinality(Consumed(a))

NonceInv == Typed /\ NoncesCount /\ NoncesConsumedInOrder

(* Every step keeps the sequence numbers in line with the state. *)
LEMMA NonceInductive == NonceInv /\ [Next]_vars => NonceInv'
<1> SUFFICES ASSUME Typed, NoncesCount, NoncesConsumedInOrder, [Next]_vars
             PROVE  NoncesCount' /\ NoncesConsumedInOrder'
  BY NextTyped DEF NonceInv
<1>0. /\ applied \in Seq(Entry) /\ nonces \in [Account -> Nat]
      /\ Len(applied) \in Nat /\ DOMAIN applied = 1..Len(applied)
  BY SMT DEF Typed, TypeOK
<1> DEFINE n == Len(applied)
<1>a. \A a \in Account : IsFiniteSet(Consumed(a))
  <2>1. IsFiniteSet(1..n)
    BY <1>0, FS_Interval, SMT
  <2> QED  BY <1>0, <2>1, FS_Subset DEF Consumed
<1>b. ASSUME NEW e \in Entry, e \notin Canonical, applied' = Append(applied, e), UNCHANGED nonces
      PROVE  NoncesCount' /\ NoncesConsumedInOrder'
  <2>1. /\ DOMAIN applied' = 1..(n + 1) /\ applied'[n + 1] = e
        /\ \A i \in 1..n : applied'[i] = applied[i]
        /\ \A i \in 1..(n + 1) : i \in 1..n \/ i = n + 1
        /\ \A i \in 1..n : i \in 1..(n + 1) /\ \A j \in 1..(i - 1) : j \in 1..n
    BY <1>0, <1>b, SMT
  <2>2. \A a \in Account : Consumed(a)' = Consumed(a)
    BY <1>0, <1>b, <2>1 DEF Consumed
  <2>3. NoncesCount'
    BY <1>b, <2>2 DEF NoncesCount
  <2>4. ASSUME NEW i \in 1..n, applied[i] \in Canonical
        PROVE  Nonce[applied'[i]] =
                 Cardinality({j \in 1..(i - 1) : /\ applied'[j] \in Canonical
                                                 /\ Sender[applied'[j]] = Sender[applied'[i]]})
    <3>1. {j \in 1..(i - 1) : applied'[j] \in Canonical /\ Sender[applied'[j]] = Sender[applied'[i]]}
          = {j \in 1..(i - 1) : applied[j] \in Canonical /\ Sender[applied[j]] = Sender[applied[i]]}
      BY <2>1
    <3> QED  BY <1>0, <2>1, <2>4, <3>1 DEF NoncesConsumedInOrder
  <2>5. NoncesConsumedInOrder'
    BY <1>b, <2>1, <2>4 DEF NoncesConsumedInOrder
  <2> QED  BY <2>3, <2>5
<1>1. CASE GenesisState
  <2>1. UNCHANGED nonces /\ Genesis \in Entry /\ Genesis \notin Canonical
    BY <1>1, MarkerAssumption DEF GenesisState, Entry, Canonical
  <2>2. CASE applied \in {<<>>, <<Genesis>>}
    <3>1. /\ applied' = <<Genesis>> /\ DOMAIN applied' = {1} /\ applied'[1] = Genesis
          /\ \A i \in DOMAIN applied : applied[i] = Genesis
      BY <1>1, <2>2, SMT DEF GenesisState
    <3>2. \A a \in Account : Consumed(a)' = {} /\ Consumed(a) = {}
      BY <2>1, <3>1 DEF Consumed
    <3>3. NoncesCount'
      BY <2>1, <3>2 DEF NoncesCount
    <3>4. NoncesConsumedInOrder'
      BY <2>1, <3>1 DEF NoncesConsumedInOrder
    <3> QED  BY <3>3, <3>4
  <2>3. CASE applied \notin {<<>>, <<Genesis>>}
    <3>1. applied' = Append(applied, Genesis)
      BY <1>1, <2>3 DEF GenesisState
    <3> QED  BY <1>b, <2>1, <3>1
  <2> QED  BY <2>2, <2>3
<1>2. CASE ApplyState
  <2> DEFINE tx == next_tx
  <2>1. tx \in Tx /\ tx \in Entry
    BY <1>2, SMT DEF ApplyState, IsDropped, Typed, TypeOK, next_tx, Entry
  <2>2. /\ applied' = Append(applied, tx)
        /\ tx \in Canonical => NonceMatches(tx)
        /\ nonces' = IF tx \in Canonical
                     THEN [nonces EXCEPT ![Sender[tx]] = @ + 1] ELSE nonces
    BY <1>2 DEF ApplyState
  <2> HIDE DEF tx
  <2>3. CASE tx \notin Canonical
    BY <1>b, <2>1, <2>2, <2>3
  <2>4. CASE tx \in Canonical
    <3>0. PICK s \in Account : s = Sender[tx]
      BY <2>1, TxAssumption
    <3>1. /\ DOMAIN applied' = 1..(n + 1) /\ applied'[n + 1] = tx
          /\ \A i \in 1..n : applied'[i] = applied[i]
          /\ \A i \in 1..(n + 1) : i \in 1..n \/ i = n + 1
          /\ \A i \in 1..n : i \in 1..(n + 1) /\ \A j \in 1..(i - 1) : j \in 1..n
          /\ n + 1 \notin 1..n /\ (n + 1) - 1 = n /\ n + 1 \in 1..(n + 1)
      BY <1>0, <2>1, <2>2, SMT
    <3>2. s \in Account /\ Nonce[tx] = nonces[s]
          /\ nonces' = [nonces EXCEPT ![s] = nonces[s] + 1]
      BY <2>2, <2>4, <3>0 DEF NonceMatches
    <3>3. Consumed(s)' = Consumed(s) \cup {n + 1} /\ n + 1 \notin Consumed(s)
      <4>1. ASSUME NEW j
            PROVE  j \in Consumed(s)' <=> (j \in Consumed(s) \/ j = n + 1)
        <5>1. j \in Consumed(s)' <=> (j \in 1..(n + 1) /\ applied'[j] \in Canonical
                                      /\ Sender[applied'[j]] = s)
          BY <3>1 DEF Consumed
        <5>2. j \in Consumed(s) <=> (j \in 1..n /\ applied[j] \in Canonical
                                     /\ Sender[applied[j]] = s)
          BY <1>0 DEF Consumed
        <5> QED  BY <2>4, <3>0, <3>1, <5>1, <5>2
      <4>2. n + 1 \notin Consumed(s)
        BY <1>0, <3>1 DEF Consumed
      <4> QED  BY <4>1, <4>2
    <3>4. \A a \in Account \ {s} : Consumed(a)' = Consumed(a)
      <4>1. ASSUME NEW a \in Account \ {s}, NEW j
            PROVE  j \in Consumed(a)' <=> j \in Consumed(a)
        BY <1>0, <3>0, <3>1 DEF Consumed
      <4> QED  BY <4>1
    <3>5. Cardinality(Consumed(s)') = Cardinality(Consumed(s)) + 1
      BY <1>a, <3>2, <3>3, FS_AddElement
    <3>6. NoncesCount'
      <4>1. nonces'[s] = nonces[s] + 1 /\ \A a \in Account \ {s} : nonces'[a] = nonces[a]
        BY <1>0, <3>2
      <4>2. ASSUME NEW a \in Account PROVE nonces'[a] = Cardinality(Consumed(a)')
        <5>1. CASE a = s
          BY <3>2, <3>5, <4>1, <5>1 DEF NoncesCount
        <5>2. CASE a # s
          BY <3>4, <4>1, <5>2 DEF NoncesCount
        <5> QED  BY <5>1, <5>2
      <4> QED  BY <4>2 DEF NoncesCount
    <3>7. ASSUME NEW i \in 1..n, applied[i] \in Canonical
          PROVE  Nonce[applied'[i]] =
                   Cardinality({j \in 1..(i - 1) : /\ applied'[j] \in Canonical
                                                   /\ Sender[applied'[j]] = Sender[applied'[i]]})
      <4>1. {j \in 1..(i - 1) : applied'[j] \in Canonical /\ Sender[applied'[j]] = Sender[applied'[i]]}
            = {j \in 1..(i - 1) : applied[j] \in Canonical /\ Sender[applied[j]] = Sender[applied[i]]}
        BY <3>1
      <4> QED  BY <1>0, <3>1, <3>7, <4>1 DEF NoncesConsumedInOrder
    <3>8. Nonce[applied'[n + 1]] =
            Cardinality({j \in 1..((n + 1) - 1) : /\ applied'[j] \in Canonical
                                                  /\ Sender[applied'[j]] = Sender[applied'[n + 1]]})
      <4>1. {j \in 1..((n + 1) - 1) : /\ applied'[j] \in Canonical
                                      /\ Sender[applied'[j]] = Sender[applied'[n + 1]]}
            = Consumed(s)
        BY <1>0, <3>0, <3>1 DEF Consumed
      <4> QED  BY <3>0, <3>1, <3>2, <4>1 DEF NoncesCount
    <3>9. NoncesConsumedInOrder'
      BY <3>1, <3>7, <3>8 DEF NoncesConsumedInOrder
    <3> QED  BY <3>6, <3>9
  <2> QED  BY <2>3, <2>4
<1>3. CASE UNCHANGED <<applied, nonces>>
  BY <1>3 DEF NoncesCount, NoncesConsumedInOrder, Consumed
<1> QED  BY <1>1, <1>2, <1>3, AppliedStep

(* The nonces of every sender enter the state as 0, 1, 2, ..., whatever is  *)
(* submitted in which order and whatever crashes lose.                      *)
THEOREM NoncesInOrder == Spec => []NoncesConsumedInOrder
<1>1. Init => NonceInv
  <2> SUFFICES ASSUME Init PROVE NoncesCount /\ NoncesConsumedInOrder
    BY InitTyped DEF NonceInv
  <2>1. DOMAIN applied = {}
    BY SMT DEF Init
  <2>2. \A a \in Account : Consumed(a) = {} /\ nonces[a] = 0
    BY <2>1 DEF Consumed, Init
  <2> QED  BY <2>1, <2>2, FS_EmptySet DEF NoncesCount, NoncesConsumedInOrder
<1>2. NonceInv => NoncesConsumedInOrder
  BY DEF NonceInv
<1> QED  BY <1>1, <1>2, NonceInductive, PTL DEF Spec

-----------------------------------------------------------------------------
(* Where the state root of the running build is pushed and its block is    *)
(* not stored yet.                                                         *)
Pushed == {"receipts", "transactions", "block"}

(* As long as nothing was torn, the two height counters move together: one *)
(* state root per block above the genesis, and one more for the block      *)
(* about to be stored, which is the root of the state as it is.            *)
HeightsAligned ==
    ~torn => /\ pc \in Pushed => /\ Len(state_roots) = Len(blocks)
                                 /\ state_roots[Len(state_roots)] = applied
             /\ pc \notin Pushed => \/ Len(blocks) = Len(state_roots) + 1
                                    \/ blocks = <<>> /\ state_roots = <<>>

AlignedInv == Typed /\ HeightsAligned /\ CleanVersionAtHeight

(* A step outside the pushes and the chain keeps what they agreed on.      *)
LEMMA AlignedFrame ==
    ASSUME [Next]_vars, ~PushStateRoot, ~AddBlock
    PROVE  /\ UNCHANGED state_roots
           /\ pc' \in Pushed => pc \in Pushed /\ UNCHANGED applied
           /\ pc \in Pushed => pc' \in Pushed \/ torn'
           /\ torn => torn'
<1>1. CASE Crash
  <2>1. /\ pc' \in {"down", "panicked"} /\ UNCHANGED state_roots
        /\ torn' = (torn \/ pc \in {"receipts", "transactions", "block", "payload"}
                         \/ executed # <<>>)
    BY <1>1 DEF Crash, Kill, ExecutionPanics, disk, state
  <2> QED  BY <2>1 DEF Pushed
<1>2. CASE ~Crash
  <2>1. /\ UNCHANGED <<state_roots, torn>>
        /\ pc' \in Pushed => pc \in Pushed /\ UNCHANGED applied
        /\ pc \in Pushed => pc' \in Pushed
    BY <1>2 DEF Next, Command, BuildStep, vars, disk, state, history, Start, GenesisState,
       GenesisEvm, AddTransaction, AddUnsupportedTransaction, GenesisUpdate,
       BuildKnownPayload, BuildWithoutParent, StartBlockBuild, DropPending, SkipInvalid,
       ApplyState, ApplyEvm, ExtendReceipts, ExtendTransactions, OnPayload, Pushed
  <2> QED  BY <2>1
<1> QED  BY <1>1, <1>2

(* Every step keeps the height counters aligned.                           *)
LEMMA AlignedInductive == AlignedInv /\ [Next]_vars => AlignedInv'
<1> SUFFICES ASSUME Typed, HeightsAligned, CleanVersionAtHeight, [Next]_vars
             PROVE  HeightsAligned' /\ CleanVersionAtHeight'
  BY NextTyped DEF AlignedInv
<1>0. /\ blocks \in Seq(Range(blocks)) /\ Len(blocks) \in Nat /\ Len(state_roots) \in Nat
      /\ DOMAIN blocks = 1..Len(blocks) /\ DOMAIN state_roots = 1..Len(state_roots)
      /\ state_roots \in Seq(Seq(Entry)) /\ applied \in Seq(Entry)
  BY SMT DEF Typed, TypeOK
<1>1. CASE PushStateRoot
  <2>1. /\ state_roots' = Append(state_roots, applied) /\ UNCHANGED <<applied, blocks, torn>>
        /\ pc = "execute" /\ pc' = "receipts" /\ blocks # <<>>
    BY <1>1 DEF PushStateRoot, repositories, history, Typed, PcOK, Building
  <2>2. /\ Len(state_roots') = Len(state_roots) + 1
        /\ state_roots'[Len(state_roots) + 1] = applied
        /\ DOMAIN state_roots' = 1..(Len(state_roots) + 1)
        /\ \A i \in 1..Len(state_roots) : state_roots'[i] = state_roots[i]
    BY <1>0, <2>1, SMT
  <2>3. ~torn => Len(blocks) = Len(state_roots) + 1
    BY <2>1 DEF HeightsAligned, Pushed
  <2>4. HeightsAligned'
    BY <2>1, <2>2, <2>3 DEF HeightsAligned, Pushed
  <2>5. ASSUME ~torn, NEW i \in DOMAIN blocks, i > 1
        PROVE  state_roots'[i - 1] = blocks[i].header.state_root
    <3>1. i - 1 \in 1..Len(state_roots)
      BY <1>0, <2>3, <2>5, SMT
    <3> QED  BY <1>0, <2>2, <2>5, <3>1 DEF CleanVersionAtHeight, VersionAtHeight
  <2>6. CleanVersionAtHeight'
    BY <2>1, <2>5 DEF CleanVersionAtHeight, VersionAtHeight
  <2> QED  BY <2>4, <2>6
<1>2. CASE AddBlock
  <2> DEFINE n == Len(blocks)
  <2>1. /\ n \in Nat \ {0}
        /\ DOMAIN blocks' = 1..(n + 1)
        /\ \A i \in DOMAIN blocks : blocks'[i] = blocks[i]
        /\ blocks'[n + 1] = [header |-> NewHeader, payload_id |-> build.id]
    BY <1>2, AddBlockChain
  <2>2. blocks'[n + 1].header.state_root = applied
    BY <2>1 DEF NewHeader
  <2>3. pc = "block" /\ pc' = "payload" /\ UNCHANGED <<state_roots, applied, torn>>
    BY <1>2 DEF AddBlock, state, history
  <2>4. ~torn => Len(state_roots) = n /\ state_roots[n] = applied
    BY <2>3 DEF HeightsAligned, Pushed
  <2>5. Len(blocks') = n + 1
    <3>1. blocks' \in Seq(Range(blocks'))
      BY NextTyped DEF Typed, TypeOK
    <3> QED  BY <2>1, <3>1, SMT
  <2> HIDE DEF n
  <2>6. HeightsAligned'
    BY <2>3, <2>4, <2>5 DEF HeightsAligned, Pushed
  <2>7. ASSUME ~torn, NEW i \in DOMAIN blocks', i > 1
        PROVE  state_roots[i - 1] = blocks'[i].header.state_root
    <3>1. CASE i = n + 1
      <4>1. i - 1 = n
        BY <2>1, <3>1, SMT
      <4> QED  BY <2>2, <2>4, <2>7, <3>1, <4>1
    <3>2. CASE i # n + 1
      <4>1. i \in DOMAIN blocks /\ i - 1 \in DOMAIN state_roots
        BY <1>0, <2>1, <2>4, <2>7, <3>2, SMT DEF n
      <4> QED  BY <2>1, <2>7, <4>1 DEF CleanVersionAtHeight, VersionAtHeight
    <3> QED  BY <3>1, <3>2
  <2>8. CleanVersionAtHeight'
    BY <2>3, <2>7 DEF CleanVersionAtHeight, VersionAtHeight
  <2> QED  BY <2>6, <2>8
<1>3. CASE GenesisUpdate
  <2>1. pc = "idle" /\ pc' = "idle" /\ UNCHANGED <<state_roots, torn>>
    BY <1>3 DEF GenesisUpdate, state, history
  <2>2. /\ blocks # <<>> => Len(blocks') = Len(blocks)
        /\ blocks = <<>> => blocks' = <<GenesisBlock>>
    BY <1>3, GenesisUpdateChain DEF Typed
  <2>3. HeightsAligned'
    <3>1. CASE blocks = <<>>
      <4>1. ~torn => state_roots = <<>>
        BY <1>0, <2>1, <3>1, SMT DEF HeightsAligned, Pushed
      <4>2. Len(blocks') = 1 /\ Len(<<>>) = 0
        BY <2>2, <3>1, SMT
      <4> QED  BY <2>1, <4>1, <4>2 DEF HeightsAligned, Pushed
    <3>2. CASE blocks # <<>>
      BY <2>1, <2>2, <3>2 DEF HeightsAligned, Pushed
    <3> QED  BY <3>1, <3>2
  <2>4. ASSUME NEW i \in DOMAIN blocks', i > 1
        PROVE  i \in DOMAIN blocks /\ blocks'[i] = blocks[i]
    BY <1>3, <2>4, GenesisUpdateKeeps
  <2>5. CleanVersionAtHeight'
    BY <2>1, <2>4 DEF CleanVersionAtHeight, VersionAtHeight
  <2> QED  BY <2>3, <2>5
<1>4. CASE ~PushStateRoot /\ ~AddBlock /\ UNCHANGED blocks
  <2>1. /\ UNCHANGED state_roots
        /\ pc' \in Pushed => pc \in Pushed /\ UNCHANGED applied
        /\ pc \in Pushed => pc' \in Pushed \/ torn'
        /\ torn => torn'
    BY <1>4, AlignedFrame
  <2>2. HeightsAligned'
    BY <1>4, <2>1 DEF HeightsAligned
  <2>3. CleanVersionAtHeight'
    BY <1>4, <2>1 DEF CleanVersionAtHeight, VersionAtHeight
  <2> QED  BY <2>2, <2>3
<1> QED  BY <1>1, <1>2, <1>3, <1>4, BlocksStep

(* Without a torn build, the state version that a query at a block's       *)
(* height resolves to is the state of that block, at every height.         *)
THEOREM VersionsAtHeight == Spec => []CleanVersionAtHeight
<1>1. Init => AlignedInv
  <2>1. Init => HeightsAligned /\ CleanVersionAtHeight
    BY SMT DEF Init, HeightsAligned, CleanVersionAtHeight, VersionAtHeight, Pushed
  <2> QED  BY <2>1, InitTyped DEF AlignedInv
<1>2. AlignedInv => CleanVersionAtHeight
  BY DEF AlignedInv
<1> QED  BY <1>1, <1>2, AlignedInductive, PTL DEF Spec

-----------------------------------------------------------------------------
(* What follows a prefix that was extended is the extension.               *)
LEMMA ConcatReplays ==
    ASSUME NEW S, NEW s \in Seq(S), NEW t \in Seq(S)
    PROVE  /\ IsPrefix(s, s \o t)
           /\ \A k \in (Len(s) + 1)..Len(s \o t) : (s \o t)[k] \in Range(t)
<1>1. /\ s \o t \in Seq(S) /\ Len(s \o t) = Len(s) + Len(t)
      /\ \A i \in 1..(Len(s) + Len(t)) :
            (s \o t)[i] = IF i <= Len(s) THEN s[i] ELSE t[i - Len(s)]
      /\ Len(s) \in Nat /\ Len(t) \in Nat /\ DOMAIN t = 1..Len(t)
  BY ConcatProperties, SMT
<1>2. SubSeq(s \o t, 1, Len(s)) = s
  <2>1. SubSeq(s \o t, 1, Len(s)) = [i \in 1..Len(s) |-> (s \o t)[i]]
    BY <1>1, SMT
  <2>2. \A i \in 1..Len(s) : (s \o t)[i] = s[i]
    BY <1>1, SMT
  <2>3. s = [i \in 1..Len(s) |-> s[i]]
    BY SMT
  <2> QED  BY <2>1, <2>2, <2>3, Zenon
<1>3. IsPrefix(s, s \o t)
  BY <1>1, <1>2, SMT DEF IsPrefix
<1>4. ASSUME NEW k \in (Len(s) + 1)..Len(s \o t)
      PROVE  (s \o t)[k] \in Range(t)
  <2>1. k \in 1..(Len(s) + Len(t)) /\ ~(k <= Len(s)) /\ k - Len(s) \in 1..Len(t)
    BY <1>1, SMT
  <2>2. (s \o t)[k] = t[k - Len(s)]
    BY <1>1, <2>1
  <2> QED  BY <1>1, <2>1, <2>2 DEF Range
<1> QED  BY <1>3, <1>4

(* Executing one more transaction extends what was executed.               *)
LEMMA ConcatAppend ==
    \A s, t \in Seq(Entry), e \in Entry : Append(s \o t, e) = s \o Append(t, e)
<1> TAKE s, t \in Seq(Entry), e \in Entry
<1>1. <<e>> \in Seq(Entry) /\ s \o t \in Seq(Entry)
  BY ConcatProperties, SMT
<1> DEFINE u == <<e>>
<1>2. Append(s \o t, e) = (s \o t) \o u
  BY <1>1, AppendIsConcat, Zenon
<1>3. Append(t, e) = t \o u
  BY AppendIsConcat, Zenon
<1>4. u \in Seq(Entry)
  BY <1>1
<1> HIDE DEF u
<1>5. (s \o t) \o u = s \o (t \o u)
  BY <1>4, ConcatAssociative
<1> QED  BY <1>2, <1>3, <1>5, Zenon

(* A list that grew at its end. *)
LEMMA RangeOfAppend ==
    ASSUME NEW S, NEW s \in Seq(S), NEW e \in S
    PROVE  Range(Append(s, e)) = Range(s) \cup {e}
<1>1. /\ DOMAIN Append(s, e) = 1..(Len(s) + 1) /\ DOMAIN s = 1..Len(s)
      /\ \A i \in 1..Len(s) : Append(s, e)[i] = s[i]
      /\ Append(s, e)[Len(s) + 1] = e
      /\ 1..(Len(s) + 1) = 1..Len(s) \cup {Len(s) + 1}
  BY SMT
<1>2. ASSUME NEW x PROVE x \in Range(Append(s, e)) <=> x \in Range(s) \/ x = e
  BY <1>1 DEF Range
<1> QED  BY <1>2

(* Where a build may have changed the state beyond its newest block.       *)
Unstored == {"execute", "evm"} \cup Pushed

(* As long as nothing was torn, the stored state is the newest block's,    *)
(* changed by what the running build has executed.                         *)
StateFromTip ==
    ~torn => /\ pc \in Unstored => applied = TipState \o executed
             /\ (pc \notin Unstored /\ blocks # <<>>) => applied = TipState

(* What was executed is listed.                                            *)
ExecutedListed == Range(executed) \subseteq Range(included)

ReplayInv == RootsInv /\ StateFromTip /\ ExecutedListed /\ CleanReplay

(* The tip of a chain is a state. *)
LEMMA TipStateType == RootsInv => TipState \in Seq(Entry)
<1> SUFFICES ASSUME RootsInv PROVE TipState \in Seq(Entry)
  OBVIOUS
<1>1. CASE Len(blocks) <= 1
  BY <1>1, SMT DEF TipState, Entry
<1>2. CASE ~(Len(blocks) <= 1)
  <2>1. Len(blocks) \in DOMAIN blocks /\ Len(blocks) > 1
    BY <1>2, SMT DEF RootsInv, GenesisInv, Typed, TypeOK
  <2> QED  BY <1>2, <2>1 DEF RootsInv, RootsBelow, TipState, latest
<1> QED  BY <1>1, <1>2

(* What every step does to the lists of a build. *)
LEMMA ListedInductive ==
    ASSUME Typed, ExecutedListed, [Next]_vars
    PROVE  ExecutedListed'
<1>0. included \in Seq(Tx) /\ executed \in Seq(Tx)
  BY DEF Typed, TypeOK
<1>1. CASE ApplyState \/ SkipInvalid
  <2> DEFINE tx == next_tx
  <2>1. tx \in Tx
    BY <1>1, SMT DEF ApplyState, SkipInvalid, IsDropped, Typed, TypeOK, next_tx
  <2>2. /\ included' = Append(included, tx)
        /\ executed' = Append(executed, tx) \/ executed' = executed
    BY <1>1 DEF ApplyState, SkipInvalid
  <2> HIDE DEF tx
  <2>3. \A s \in Seq(Tx) : Range(Append(s, tx)) = Range(s) \cup {tx}
    BY <2>1, RangeOfAppend
  <2> QED  BY <1>0, <2>2, <2>3 DEF ExecutedListed
<1>2. CASE ~(ApplyState \/ SkipInvalid)
  <2>1. UNCHANGED <<included, executed>> \/ (included' = <<>> /\ executed' = <<>>)
    BY <1>2 DEF Next, Command, BuildStep, vars, memory, locals, Start, GenesisState,
       GenesisEvm, AddTransaction, AddUnsupportedTransaction, GenesisUpdate,
       BuildKnownPayload, BuildWithoutParent, StartBlockBuild, DropPending,
       ApplyEvm, PushStateRoot, ExtendReceipts, ExtendTransactions, AddBlock, OnPayload,
       ForgetBuild, Crash
  <2> QED  BY <2>1 DEF ExecutedListed
<1> QED  BY <1>1, <1>2

(* What the other steps do to the state, the chain and the running build.  *)
LEMMA TipFrame ==
    ASSUME Typed, [Next]_vars, ~GenesisState, ~ApplyState, UNCHANGED blocks
    PROVE  /\ UNCHANGED applied
           /\ torn => torn'
           /\ pc' \in Unstored => \/ pc \in Unstored /\ UNCHANGED executed
                                  \/ pc \notin Unstored /\ executed' = <<>> /\ blocks # <<>>
           /\ (pc' \notin Unstored /\ pc \in Unstored) => torn' \/ executed = <<>> \/ AddBlock
<1>1. CASE Crash
  <2>1. /\ pc' \in {"down", "panicked"} /\ UNCHANGED applied
        /\ torn' = (torn \/ pc \in {"receipts", "transactions", "block", "payload"}
                         \/ executed # <<>>)
    BY <1>1 DEF Crash, Kill, ExecutionPanics, disk, state
  <2> QED  BY <2>1 DEF Unstored, Pushed
<1>2. CASE ~Crash
  <2>1. /\ UNCHANGED <<applied, torn>>
        /\ pc' \in Unstored => \/ pc \in Unstored /\ UNCHANGED executed
                               \/ pc \notin Unstored /\ executed' = <<>> /\ blocks # <<>>
        /\ (pc' \notin Unstored /\ pc \in Unstored) => AddBlock
    BY <1>2 DEF Next, Command, BuildStep, vars, disk, state, memory, locals, history, Start,
       GenesisEvm, AddTransaction, AddUnsupportedTransaction, GenesisUpdate,
       BuildKnownPayload, BuildWithoutParent, StartBlockBuild, DropPending, SkipInvalid,
       ApplyEvm, PushStateRoot, ExtendReceipts, ExtendTransactions, AddBlock, OnPayload,
       Unstored, Pushed
  <2> QED  BY <2>1
<1> QED  BY <1>1, <1>2

(* Every step keeps the blocks replayable.                                 *)
LEMMA ReplayInductive == ReplayInv /\ [Next]_vars => ReplayInv'
<1> SUFFICES ASSUME RootsInv, StateFromTip, ExecutedListed, CleanReplay, [Next]_vars
             PROVE  StateFromTip' /\ CleanReplay'
  BY RootsInductive, ListedInductive DEF ReplayInv, RootsInv, GenesisInv
<1>0. /\ Typed /\ GenesisFirst /\ TipState \in Seq(Entry)
      /\ blocks \in Seq(Range(blocks)) /\ Len(blocks) \in Nat
      /\ DOMAIN blocks = 1..Len(blocks)
      /\ applied \in Seq(Entry) /\ executed \in Seq(Tx) /\ executed \in Seq(Entry)
  <2>1. Typed /\ GenesisFirst /\ TipState \in Seq(Entry)
    BY TipStateType DEF RootsInv, GenesisInv
  <2>2. /\ blocks \in Seq(Range(blocks)) /\ applied \in Seq(Entry) /\ executed \in Seq(Tx)
    BY <2>1 DEF Typed, TypeOK
  <2>3. executed \in Seq(Entry)
    BY <2>2, SeqMonotonic DEF Entry
  <2> QED  BY <2>1, <2>2, <2>3, SMT
<1>1. CASE GenesisState
  <2>1. /\ blocks = <<>> /\ UNCHANGED blocks /\ pc' = "genesis_evm"
    BY <1>0, <1>1 DEF GenesisState, Typed, PcOK, repositories
  <2>2. DOMAIN blocks' = {}
    BY <2>1, SMT
  <2> QED  BY <2>1, <2>2 DEF StateFromTip, CleanReplay, Unstored, Pushed
<1>2. CASE ApplyState
  <2>1. /\ UNCHANGED <<blocks, torn>> /\ pc = "execute" /\ pc' = "evm"
        /\ applied' = Append(applied, next_tx)
        /\ executed' = Append(executed, next_tx)
    BY <1>2 DEF ApplyState, repositories, history
  <2>2. next_tx \in Entry
    BY <1>0, <1>2, SMT DEF ApplyState, IsDropped, Typed, TypeOK, next_tx, Entry
  <2>3. UNCHANGED TipState
    BY <2>1 DEF TipState, latest
  <2>4. ~torn => applied' = TipState \o executed'
    <3>1. Append(TipState \o executed, next_tx) = TipState \o Append(executed, next_tx)
      <4>1. TipState \in Seq(Entry) /\ executed \in Seq(Entry)
        BY <1>0
      <4> QED  BY <2>2, <4>1, ConcatAppend, Zenon
    <3>2. ~torn => applied = TipState \o executed
      BY <2>1 DEF StateFromTip, Unstored
    <3> QED  BY <2>1, <3>1, <3>2, Zenon
  <2>5. StateFromTip'
    BY <2>1, <2>3, <2>4 DEF StateFromTip, Unstored, Pushed
  <2>6. CleanReplay'
    BY <2>1 DEF CleanReplay
  <2> QED  BY <2>5, <2>6
<1>3. CASE ~GenesisState /\ ~ApplyState
  <2>0. UNCHANGED applied
    BY <1>3, AppliedStep
  <2>1. CASE GenesisUpdate
    <3>1. pc = "idle" /\ pc' = "idle" /\ UNCHANGED torn
      BY <2>1 DEF GenesisUpdate, history
    <3>2. /\ blocks # <<>> => /\ Len(blocks') = Len(blocks)
                              /\ \A i \in 2..Len(blocks) : blocks'[i] = blocks[i]
          /\ blocks = <<>> => blocks' = <<GenesisBlock>>
      BY <1>0, <2>1, GenesisUpdateChain DEF Typed
    <3>3. ~torn => applied = TipState'
      <4>1. CASE blocks = <<>>
        <5>1. Len(blocks') <= 1
          <6>1. blocks' = <<GenesisBlock>>
            BY <3>2, <4>1
          <6>2. Len(<<GenesisBlock>>) = 1
            BY SMT
          <6> QED  BY <6>1, <6>2, SMT
        <5>2. TipState' = <<Genesis>>
          BY <5>1 DEF TipState
        <5>3. applied # <<>> /\ (applied = <<>> \/ applied = <<Genesis>>)
          BY <1>0, <3>1, <4>1 DEF GenesisFirst
        <5> QED  BY <5>2, <5>3
      <4>2. CASE blocks # <<>>
        <5>1. TipState' = TipState
          <6>1. CASE Len(blocks) <= 1
            BY <3>2, <4>2, <6>1 DEF TipState
          <6>2. CASE ~(Len(blocks) <= 1)
            <7>1. Len(blocks) \in 2..Len(blocks)
              BY <1>0, <6>2, SMT
            <7> QED  BY <3>2, <4>2, <6>2, <7>1 DEF TipState, latest
          <6> QED  BY <6>1, <6>2
        <5>2. ~torn => applied = TipState
          BY <3>1, <4>2 DEF StateFromTip, Unstored, Pushed
        <5> QED  BY <5>1, <5>2
      <4> QED  BY <4>1, <4>2
    <3>4. StateFromTip'
      BY <2>0, <3>1, <3>3 DEF StateFromTip, Unstored, Pushed
    <3>5. ASSUME NEW i \in DOMAIN blocks', i > 1
          PROVE  /\ i \in DOMAIN blocks /\ blocks'[i] = blocks[i]
                 /\ i # 2 => blocks'[i - 1] = blocks[i - 1]
      <4>1. i > 2 \/ i = 2
        <5>1. blocks' \in Seq(Range(blocks'))
          BY <1>0, NextTyped DEF Typed, TypeOK
        <5> QED  BY <3>5, <5>1, SMT
      <4> QED  BY <1>0, <2>1, <3>5, <4>1, GenesisUpdateKeeps
    <3>6. CleanReplay'
      BY <3>1, <3>5 DEF CleanReplay
    <3> QED  BY <3>4, <3>6
  <2>2. CASE AddBlock
    <3> DEFINE n == Len(blocks)
    <3>1. /\ n \in Nat \ {0}
          /\ DOMAIN blocks' = 1..(n + 1)
          /\ \A i \in DOMAIN blocks : blocks'[i] = blocks[i]
          /\ blocks'[n + 1] = [header |-> NewHeader, payload_id |-> build.id]
      BY <1>0, <2>2, AddBlockChain
    <3>2. blocks'[n + 1].header.state_root = applied
          /\ blocks'[n + 1].header.transactions = included
      BY <3>1 DEF NewHeader
    <3>3. pc = "block" /\ pc' = "payload" /\ UNCHANGED torn
      BY <2>2 DEF AddBlock, history
    <3>4. Len(blocks') = n + 1
      <4>1. blocks' \in Seq(Range(blocks'))
        BY <1>0, NextTyped DEF Typed, TypeOK
      <4> QED  BY <3>1, <4>1, SMT
    <3>5. TipState' = applied
      <4>1. ~(Len(blocks') <= 1)
        BY <3>1, <3>4, SMT
      <4> QED  BY <3>2, <3>4, <4>1 DEF TipState, latest
    <3>6. StateFromTip'
      BY <2>0, <3>3, <3>5 DEF StateFromTip, Unstored, Pushed
    <3>7. ~torn => applied = TipState \o executed
      BY <3>3 DEF StateFromTip, Unstored, Pushed
    <3>8. TipState = IF n + 1 = 2 THEN <<Genesis>> ELSE blocks'[(n + 1) - 1].header.state_root
      <4>1. /\ n + 1 = 2 <=> n <= 1 /\ (n + 1) - 1 = n
        BY <3>1, SMT
      <4>2. n \in DOMAIN blocks
        BY <1>0, <3>1, SMT
      <4> QED  BY <3>1, <4>1, <4>2 DEF TipState, latest
    <3> HIDE DEF n
    <3>9. ~torn => /\ IsPrefix(TipState, applied)
                   /\ \A k \in (Len(TipState) + 1)..Len(applied) : applied[k] \in Range(included)
      BY <1>0, <3>7, ConcatReplays DEF ExecutedListed
    <3>10. ASSUME ~torn, NEW i \in DOMAIN blocks', i > 1
           PROVE  LET parent == IF i = 2 THEN <<Genesis>> ELSE blocks'[i - 1].header.state_root
                      root   == blocks'[i].header.state_root
                  IN  /\ IsPrefix(parent, root)
                      /\ \A k \in (Len(parent) + 1)..Len(root) :
                             root[k] \in Range(blocks'[i].header.transactions)
      <4>1. CASE i = n + 1
        BY <3>2, <3>8, <3>9, <3>10, <4>1
      <4>2. CASE i # n + 1
        <5>1. i \in DOMAIN blocks /\ i - 1 \in DOMAIN blocks
          BY <1>0, <3>1, <3>10, <4>2, SMT DEF n
        <5>2. blocks'[i] = blocks[i] /\ blocks'[i - 1] = blocks[i - 1]
          BY <3>1, <5>1
        <5> QED  BY <3>10, <5>1, <5>2 DEF CleanReplay
      <4> QED  BY <4>1, <4>2
    <3>11. CleanReplay'
      BY <3>3, <3>10 DEF CleanReplay
    <3> QED  BY <3>6, <3>11
  <2>3. CASE UNCHANGED blocks /\ ~AddBlock
    <3>1. /\ torn => torn'
          /\ pc' \in Unstored => \/ pc \in Unstored /\ UNCHANGED executed
                                 \/ pc \notin Unstored /\ executed' = <<>> /\ blocks # <<>>
          /\ (pc' \notin Unstored /\ pc \in Unstored) => torn' \/ executed = <<>>
      BY <1>0, <1>3, <2>3, TipFrame
    <3>2. UNCHANGED TipState
      BY <2>3 DEF TipState, latest
    <3>3. TipState \o <<>> = TipState
      BY <1>0, ConcatEmptySeq
    <3>4. StateFromTip'
      <4>1. ASSUME ~torn', pc' \in Unstored PROVE applied = TipState \o executed'
        BY <3>1, <3>3, <4>1 DEF StateFromTip
      <4>2. ASSUME ~torn', pc' \notin Unstored, blocks # <<>> PROVE applied = TipState
        BY <3>1, <3>3, <4>2 DEF StateFromTip
      <4> QED  BY <2>0, <2>3, <3>2, <4>1, <4>2 DEF StateFromTip
    <3>5. CleanReplay'
      BY <2>3, <3>1 DEF CleanReplay
    <3> QED  BY <3>4, <3>5
  <2> QED  BY <2>1, <2>2, <2>3, BlocksStep
<1> QED  BY <1>1, <1>2, <1>3

(* Without a torn build, every block's state is its parent's state changed *)
(* by transactions the block lists: a node that replays the chain arrives  *)
(* at the same states.                                                     *)
THEOREM BlocksReplay == Spec => []CleanReplay
<1>1. Init => ReplayInv
  <2>1. Init => RootsBelow /\ RootsNested /\ CleanReplay
    BY SMT DEF Init, RootsBelow, RootsNested, CleanReplay
  <2>2. Init => GenesisFirst /\ StateFromTip
    BY SMT DEF Init, GenesisFirst, Building, StateFromTip, Unstored, Pushed
  <2>3. Init => ExecutedListed
    BY DEF Init, ExecutedListed
  <2> QED  BY <2>1, <2>2, <2>3, InitTyped DEF ReplayInv, RootsInv, GenesisInv
<1>2. ReplayInv => CleanReplay
  BY DEF ReplayInv
<1> QED  BY <1>1, <1>2, ReplayInductive, PTL DEF Spec

-----------------------------------------------------------------------------
(***************************************************************************)
(* Application implements Ledger: seen through the roots of the blocks,    *)
(* every step of the node, crashes included, adds one version or none.     *)
(***************************************************************************)
(* The refinement mapping. *)
Versions ==
    [i \in DOMAIN blocks |->
        IF i = 1 THEN <<Genesis>> ELSE blocks[i].header.state_root]

LedgerInv == RootsInv /\ OnceInv

(* The versions form a sequence as long as the chain. *)
LEMMA VersionsType ==
    ASSUME RootsInv
    PROVE  /\ Versions \in Seq(Seq(Entry)) /\ Len(Versions) = Len(blocks)
           /\ DOMAIN blocks = 1..Len(blocks) /\ Len(blocks) \in Nat
<1>1. DOMAIN blocks = 1..Len(blocks) /\ Len(blocks) \in Nat
  BY SMT DEF RootsInv, GenesisInv, Typed, TypeOK
<1>2. <<Genesis>> \in Seq(Entry)
  <2>1. Genesis \in Entry
    BY DEF Entry
  <2> QED  BY <2>1, SMT
<1>3. \A i \in DOMAIN blocks : Versions[i] \in Seq(Entry)
  <2>1. \A i \in 1..Len(blocks) : i = 1 \/ i > 1
    BY <1>1, SMT
  <2> QED  BY <1>1, <1>2, <2>1, Zenon DEF Versions, RootsInv, RootsBelow
<1> DEFINE S == Seq(Entry)
<1>4. Versions \in [1..Len(blocks) -> S]
  BY <1>1, <1>3, Zenon DEF Versions
<1> HIDE DEF S
<1>5. Versions \in Seq(S) /\ Len(Versions) = Len(blocks)
  BY <1>1, <1>4, SMT
<1> QED  BY <1>1, <1>5 DEF S

(* Genesis update: the first version, or nothing new. *)
LEMMA GenesisUpdateRefines ==
    ASSUME LedgerInv, GenesisUpdate
    PROVE  (Versions = <<>> /\ Versions' = <<<<Genesis>>>>) \/ Versions' = Versions
<1>0. Typed
  BY DEF LedgerInv, OnceInv
<1>1. CASE blocks = <<>>
  <2>1. blocks' = <<GenesisBlock>>
    BY <1>0, <1>1, GenesisUpdateChain DEF Typed
  <2>2. DOMAIN blocks = {} /\ DOMAIN blocks' = {1}
    BY <1>1, <2>1, SMT
  <2>3. Versions = <<>>
    BY <2>2, SMT DEF Versions
  <2>4. Versions' = [i \in {1} |-> <<Genesis>>]
    BY <2>2, Zenon DEF Versions
  <2>5. Versions' = <<<<Genesis>>>>
    BY <2>4, SMT
  <2> QED  BY <2>3, <2>5
<1>2. CASE blocks # <<>>
  <2>1. /\ blocks' \in Seq(Range(blocks')) /\ blocks \in Seq(Range(blocks))
        /\ Len(blocks') = Len(blocks)
        /\ \A i \in 2..Len(blocks) : blocks'[i] = blocks[i]
    BY <1>0, <1>2, GenesisUpdateChain DEF Typed, TypeOK
  <2>2. DOMAIN blocks' = DOMAIN blocks
        /\ \A i \in DOMAIN blocks : i = 1 \/ blocks'[i] = blocks[i]
    BY <2>1, SMT
  <2> QED  BY <2>2, Zenon DEF Versions
<1> QED  BY <1>1, <1>2

(* A new block adds the stored state as a version. *)
LEMMA AddBlockAppends ==
    ASSUME LedgerInv, AddBlock
    PROVE  Versions' = Append(Versions, applied)
<1> DEFINE n == Len(blocks)
<1>1. Typed /\ RootsInv
  BY DEF LedgerInv, OnceInv
<1>2. applied \in Seq(Entry)
  BY <1>1 DEF Typed, TypeOK
<1>3. /\ n \in Nat \ {0}
      /\ DOMAIN blocks = 1..n /\ DOMAIN blocks' = 1..(n + 1)
      /\ \A i \in DOMAIN blocks : blocks'[i] = blocks[i]
      /\ blocks'[n + 1].header.state_root = applied
  BY <1>1, AddBlockChain DEF NewHeader
<1>4. Versions \in Seq(Seq(Entry)) /\ Len(Versions) = n
  BY <1>1, VersionsType
<1>5. Versions = [i \in 1..n |->
                    IF i = 1 THEN <<Genesis>> ELSE blocks[i].header.state_root]
  BY <1>3 DEF Versions
<1>6. Versions' = [i \in 1..(n + 1) |->
                     IF i = 1 THEN <<Genesis>> ELSE blocks'[i].header.state_root]
  BY <1>3 DEF Versions
<1> HIDE DEF n
<1>7. /\ n + 1 # 1 /\ n + 1 \in 1..(n + 1)
      /\ \A i \in 1..n : i \in 1..(n + 1)
      /\ \A i \in 1..(n + 1) : i \in 1..n \/ i = n + 1
  BY <1>3, SMT
<1>8. Versions'[n + 1] = applied
  BY <1>3, <1>6, <1>7
<1>9. \A i \in 1..n : Versions'[i] = Versions[i]
  BY <1>3, <1>5, <1>6, <1>7, Zenon
<1> DEFINE S == Seq(Entry)
           V == Versions
           W == Versions'
<1>10. V \in Seq(S) /\ Len(V) = n /\ applied \in S
  BY <1>2, <1>4
<1>11. /\ W = [i \in 1..(n + 1) |-> W[i]] /\ W[n + 1] = applied
       /\ \A i \in 1..n : W[i] = V[i]
  <2>1. W = [i \in 1..(n + 1) |-> W[i]]
    BY <1>6, Zenon
  <2> QED  BY <2>1, <1>8, <1>9, Zenon
<1> HIDE DEF S, V, W
<1> DEFINE A == Append(V, applied)
<1>12. A = [i \in 1..(n + 1) |-> A[i]] /\ A[n + 1] = applied
  <2>1. A \in Seq(S) /\ Len(A) = Len(V) + 1 /\ A[Len(V) + 1] = applied
    BY <1>10, AppendProperties
  <2> HIDE DEF A
  <2>2. A \in [1..Len(A) -> S]
    BY <2>1, LenProperties
  <2>3. Len(A) = n + 1 /\ A[n + 1] = applied
    BY <1>10, <2>1
  <2>4. A = [i \in 1..(n + 1) |-> A[i]]
    BY <2>2, <2>3, Zenon
  <2> QED  BY <2>3, <2>4
<1>13. \A i \in 1..n : A[i] = V[i]
  BY <1>3, <1>10, SMT
<1> HIDE DEF A
<1>14. \A i \in 1..(n + 1) : W[i] = A[i]
  BY <1>7, <1>11, <1>12, <1>13, Zenon
<1>15. W = A
  <2>1. [i \in 1..(n + 1) |-> W[i]] = [i \in 1..(n + 1) |-> A[i]]
    BY <1>14, Zenon
  <2> QED  BY <1>11, <1>12, <2>1, Zenon
<1> QED  BY <1>15 DEF A, V, W

(* That version extends the one of the parent block and replays nothing. *)
LEMMA AddBlockRefines ==
    ASSUME LedgerInv, AddBlock
    PROVE  L!AddVersion
<1> DEFINE n == Len(blocks)
           S == Seq(Entry)
           V == Versions
           W == Versions'
<1>1. Typed /\ GenesisFirst /\ RootsInv /\ RootsBelow /\ CanonicalOnce
  BY DEF LedgerInv, RootsInv, OnceInv, GenesisInv
<1>2. applied \in S /\ applied # <<>> /\ applied[1] = Genesis
  BY <1>1 DEF Typed, TypeOK, GenesisFirst, AddBlock, Building
<1>3. n \in Nat \ {0} /\ DOMAIN blocks = 1..n
  BY <1>1, AddBlockChain
<1>4. V \in Seq(S) /\ Len(V) = n
  BY <1>1, VersionsType
<1>5. W = Append(V, applied)
  BY AddBlockAppends
<1>6. V[n] = IF n = 1 THEN <<Genesis>> ELSE blocks[n].header.state_root
  BY <1>3, SMT DEF Versions
<1>7. IsPrefix(V[n], applied)
  <2>1. CASE n = 1
    <3>1. V[n] = <<Genesis>>
      BY <1>6, <2>1
    <3>2. Len(applied) >= 1 /\ SubSeq(applied, 1, 1) = <<applied[1]>>
      <4>1. applied \in Seq(Entry) /\ applied # <<>>
        BY <1>2
      <4>2. Len(applied) \in Nat /\ Len(applied) >= 1
        BY <4>1, SMT
      <4>3. SubSeq(applied, 1, 1) = [i \in 1..1 |-> applied[i]]
        BY <4>1, <4>2, SMT
      <4>4. <<applied[1]>> = [i \in 1..1 |-> applied[1]]
        BY SMT
      <4>5. \A i \in 1..1 : i = 1
        BY SMT
      <4> QED  BY <4>2, <4>3, <4>4, <4>5, Zenon
    <3>3. Len(<<Genesis>>) = 1
      BY SMT
    <3> HIDE DEF V
    <3> QED  BY <1>2, <3>1, <3>2, <3>3, SMT DEF IsPrefix
  <2>2. CASE n # 1
    <3>1. n \in DOMAIN blocks /\ n > 1
      BY <1>3, <2>2, SMT
    <3> QED  BY <1>1, <1>6, <2>2, <3>1 DEF RootsBelow
  <2> QED  BY <2>1, <2>2
<1> HIDE DEF n, S, V, W
<1>8. V # <<>> /\ Len(W) = n + 1 /\ W[n + 1] = applied
  BY <1>2, <1>3, <1>4, <1>5, SMT
<1>9. IsPrefix(V, W)
  BY <1>2, <1>4, <1>5, PrefixReflexive, PrefixAppend
<1>10. /\ V # <<>>
       /\ Len(W) = Len(V) + 1
       /\ L!Extends(W, V)
       /\ L!Extends(W[Len(W)], V[Len(V)])
       /\ L!NoReplay(W[Len(W)])
  BY <1>1, <1>4, <1>7, <1>8, <1>9 DEF L!Extends, L!NoReplay, IsPrefix, CanonicalOnce
<1> QED  BY <1>10 DEF L!AddVersion, V, W, Versions

(* The node implements the ledger for every value of the constants. *)
THEOREM ApplicationImplementsLedger == Spec => ImplementsLedger
<1>1. Spec => []LedgerInv
  <2>1. Init => LedgerInv
    <3>1. Init => /\ RootsBelow /\ RootsNested /\ GenesisFirst
                  /\ NoncesSpent /\ CanonicalOnce
      BY SMT DEF Init, RootsBelow, RootsNested, GenesisFirst, Building, NoncesSpent,
         CanonicalOnce
    <3> QED  BY <3>1, InitTyped DEF LedgerInv, RootsInv, GenesisInv, OnceInv
  <2>2. LedgerInv /\ [Next]_vars => LedgerInv'
    BY RootsInductive, OnceInductive DEF LedgerInv
  <2> QED  BY <2>1, <2>2, PTL DEF Spec
<1>2. Init => L!Init
  <2>1. Init => DOMAIN blocks = {}
    BY SMT DEF Init
  <2>2. DOMAIN blocks = {} => Versions = <<>>
    BY SMT DEF Versions
  <2> QED  BY <2>1, <2>2 DEF L!Init, Versions
<1>3. LedgerInv /\ [Next]_vars => [L!Next]_Versions
  <2> SUFFICES ASSUME LedgerInv, [Next]_vars
               PROVE  L!Next \/ Versions' = Versions
    OBVIOUS
  <2>1. CASE GenesisUpdate
    <3>1. CASE Versions = <<>> /\ Versions' = <<<<Genesis>>>>
      BY <3>1 DEF L!Next, L!Create, Versions
    <3> QED  BY <2>1, <3>1, GenesisUpdateRefines
  <2>2. CASE AddBlock
    BY <2>2, AddBlockRefines DEF L!Next
  <2>3. CASE UNCHANGED blocks
    BY <2>3 DEF Versions
  <2> QED  BY <2>1, <2>2, <2>3, BlocksStep
<1>4. L!Init /\ [][L!Next]_Versions => ImplementsLedger
  BY DEF ImplementsLedger, L!Spec, Versions
<1> QED  BY <1>1, <1>2, <1>3, <1>4, PTL DEF Spec

-----------------------------------------------------------------------------
(***************************************************************************)
(* Node.                                                                   *)
(***************************************************************************)

(* Putting a command in the queue keeps it a queue of commands. *)
LEMMA EnqueueTyped ==
    ASSUME queue \in Seq(Message), NEW m \in Message, Enqueue(m)
    PROVE  queue' \in Seq(Message) /\ Len(queue') <= Capacity
<1>1. Capacity \in Nat
  BY NodeAssumption
<1>2. queue' = Append(queue, m) /\ Len(queue) < Capacity
  BY DEF Enqueue
<1> HIDE DEF Message
<1> QED  BY <1>1, <1>2, SMT

(* The initial state of the node is well typed. *)
LEMMA NodeInitTyped == NodeInit => NodeTypeOK
<1> SUFFICES ASSUME NodeInit PROVE NodeTypeOK
  OBVIOUS
<1>1. Capacity \in Nat
  BY NodeAssumption
<1>2. queue \in Seq(Message) /\ Len(queue) <= Capacity
  <2>1. queue = <<>>
    BY DEF NodeInit
  <2> HIDE DEF Message
  <2> QED  BY <1>1, <2>1, SMT
<1> QED  BY <1>2 DEF NodeTypeOK, NodeInit

(* Every step of the node keeps the queue and the client in their types. *)
LEMMA NodeNextTyped == NodeTypeOK /\ [NodeNext]_nodeVars => NodeTypeOK'
<1> SUFFICES ASSUME NodeTypeOK, [NodeNext]_nodeVars PROVE NodeTypeOK'
  OBVIOUS
<1>0. queue \in Seq(Message) /\ Len(queue) <= Capacity /\ Capacity \in Nat
  BY NodeAssumption DEF NodeTypeOK
<1>1. ASSUME NEW tx \in RawTx, SendRawTransaction(tx) PROVE NodeTypeOK'
  <2>1. [command |-> "AddTransaction", tx |-> tx] \in Message
    BY DEF Message
  <2>2. queue' \in Seq(Message) /\ Len(queue') <= Capacity
    BY <1>0, <1>1, <2>1, EnqueueTyped DEF SendRawTransaction
  <2> QED  BY <1>1, <2>2 DEF SendRawTransaction, client, NodeTypeOK
<1>2. CASE GetGenesisBlock
  <2>1. [command |-> "GenesisUpdate"] \in Message
    BY DEF Message
  <2>2. queue' \in Seq(Message) /\ Len(queue') <= Capacity
    BY <1>0, <1>2, <2>1, EnqueueTyped DEF GetGenesisBlock
  <2> QED  BY <1>2, <2>2 DEF GetGenesisBlock, seen, NodeTypeOK
<1>3. ASSUME NEW p \in Payload, ForkchoiceUpdated(p) PROVE NodeTypeOK'
  <2>1. /\ asked_id' \in PayloadId /\ asked' = p /\ phase' = "building"
        /\ Enqueue([command |-> "StartBlockBuild", attributes |-> p, id |-> asked_id'])
        /\ UNCHANGED <<accepted, lost>> /\ changed' \in BOOLEAN
    BY <1>3 DEF ForkchoiceUpdated, NodeTypeOK
  <2>2. [command |-> "StartBlockBuild", attributes |-> p, id |-> asked_id'] \in Message
    BY <2>1 DEF Message
  <2>3. queue' \in Seq(Message) /\ Len(queue') <= Capacity
    BY <1>0, <2>1, <2>2, EnqueueTyped
  <2> QED  BY <2>1, <2>3 DEF NodeTypeOK
<1>4. CASE GetPayload
  BY <1>4 DEF GetPayload, seen, NodeTypeOK
<1>5. CASE NewPayload
  BY <1>5 DEF NewPayload, seen, NodeTypeOK
<1>6. CASE HandleCommand
  <2>1. queue # <<>> /\ (queue' = <<>> \/ queue' = Tail(queue))
    BY <1>6 DEF HandleCommand
  <2>2. queue' \in Seq(Message) /\ Len(queue') <= Capacity
    <3> HIDE DEF Message
    <3>1. /\ Tail(queue) \in Seq(Message) /\ Len(Tail(queue)) = Len(queue) - 1
          /\ Len(queue) \in Nat
      BY <1>0, <2>1, SMT
    <3>2. <<>> \in Seq(Message) /\ Len(<<>>) = 0
      BY SMT
    <3>3. Len(queue) - 1 <= Capacity /\ 0 <= Capacity
      BY <1>0, <3>1, SMT
    <3> QED  BY <2>1, <3>1, <3>2, <3>3
  <2>3. UNCHANGED <<client, accepted, changed>> /\ lost' \in BOOLEAN
    BY <1>6 DEF HandleCommand, NodeTypeOK
  <2> QED  BY <2>2, <2>3 DEF NodeTypeOK, client
<1>7. CASE EndProcess
  <2>1. queue' = <<>> /\ lost' = TRUE /\ UNCHANGED <<client, accepted, changed>>
    BY <1>7 DEF EndProcess
  <2>2. queue' \in Seq(Message) /\ Len(queue') <= Capacity
    <3> HIDE DEF Message
    <3> QED  BY <1>0, <2>1, SMT
  <2> QED  BY <2>1, <2>2 DEF NodeTypeOK, client
<1>8. CASE UNCHANGED rpc
  BY <1>8 DEF rpc, client, seen, NodeTypeOK
<1> QED  BY <1>1, <1>2, <1>3, <1>4, <1>5, <1>6, <1>7, <1>8 DEF NodeNext, Work, nodeVars

(* The commands in the queue and the client's view of the node keep to     *)
(* their types, for every number of requests and crashes.                  *)
THEOREM NodeTypeCorrect == NodeSpec => []NodeTypeOK
  BY NodeInitTyped, NodeNextTyped, PTL DEF NodeSpec

-----------------------------------------------------------------------------
(* Whatever the actor takes from the queue is a command of the Application. *)
LEMMA HandleIsCommand ==
    ASSUME NodeTypeOK, HandleCommand PROVE Command
<1>1. Head(queue) \in Message
  <2>1. queue \in Seq(Message) /\ queue # <<>>
    BY DEF HandleCommand, NodeTypeOK
  <2> HIDE DEF Message
  <2> QED  BY <2>1, SMT
<1> DEFINE m == Head(queue)
<1>2. m \in Message /\ Handle(m)
  BY <1>1 DEF HandleCommand
<1> HIDE DEF m
<1>3. CASE m.command = "AddTransaction"
  <2>1. m.tx \in RawTx
    BY <1>2, <1>3 DEF Message
  <2>2. m.tx = Unsupported \/ m.tx \in Canonical
    BY <2>1, NodeAssumption
  <2>3. IF m.tx = Unsupported THEN AddUnsupportedTransaction ELSE AddTransaction(m.tx)
    BY <1>2, <1>3 DEF Handle
  <2> QED  BY <2>2, <2>3 DEF Command
<1>4. CASE m.command = "GenesisUpdate"
  BY <1>2, <1>4 DEF Handle, Command
<1>5. CASE m.command = "StartBlockBuild"
  <2>1. m.attributes \in Payload /\ m.id \in PayloadId
    BY <1>2, <1>5 DEF Message
  <2> QED  BY <1>2, <1>5, <2>1 DEF Handle, Command
<1> QED  BY <1>2, <1>3, <1>4, <1>5 DEF Handle

(* Each step of the node is a step of the Application or leaves it alone. *)
LEMMA NodeStepIsStep == NodeTypeOK /\ [NodeNext]_nodeVars => [Next]_vars
<1> SUFFICES ASSUME NodeTypeOK, [NodeNext]_nodeVars PROVE [Next]_vars
  OBVIOUS
<1>1. CASE HandleCommand
  BY <1>1, HandleIsCommand DEF Next
<1>2. CASE Work
  BY <1>2 DEF Work, Next
<1>3. CASE EndProcess
  BY <1>3 DEF EndProcess, Next
<1>4. CASE UNCHANGED vars
  BY <1>4
<1> QED  BY <1>1, <1>2, <1>3, <1>4 DEF NodeNext, nodeVars, SendRawTransaction,
            GetGenesisBlock, ForkchoiceUpdated, GetPayload, NewPayload

(* Behind the queue and the handlers the node is the Application: whatever *)
(* is proved of Application holds of the node.                             *)
THEOREM NodeImplementsApplication == NodeSpec => Spec
<1>1. NodeInit => Init
  BY DEF NodeInit
<1> QED  BY <1>1, NodeTypeCorrect, NodeStepIsStep, PTL DEF NodeSpec, Spec

-----------------------------------------------------------------------------
(* Every payload id resolves to a block of the chain. *)
PayloadsStored == \A id \in DOMAIN payloads : payloads[id] \in HashesOf(blocks)

ChainInv == Typed /\ ChainLinked /\ PayloadsStored

(* The blocks that are stored stay as they are: an update puts the same    *)
(* genesis block again.                                                    *)
LEMMA BlocksKept ==
    ASSUME Typed, ChainLinked, [Next]_vars
    PROVE  \A i \in DOMAIN blocks : i \in DOMAIN blocks' /\ blocks'[i] = blocks[i]
<1>1. CASE GenesisUpdate
  <2>1. /\ blocks' \in Seq(Range(blocks')) /\ blocks \in Seq(Range(blocks))
        /\ blocks'[1] = GenesisBlock
        /\ blocks # <<>> => /\ Len(blocks') = Len(blocks)
                            /\ \A i \in 2..Len(blocks) : blocks'[i] = blocks[i]
    BY <1>1, GenesisUpdateChain DEF Typed, TypeOK
  <2>2. ASSUME NEW i \in DOMAIN blocks
        PROVE  i \in DOMAIN blocks' /\ (i = 1 \/ i \in 2..Len(blocks)) /\ blocks # <<>>
    BY <2>1, SMT
  <2> QED  BY <2>1, <2>2 DEF ChainLinked
<1>2. CASE AddBlock
  BY <1>2, AddBlockChain, SMT
<1>3. CASE UNCHANGED blocks
  BY <1>3
<1> QED  BY <1>1, <1>2, <1>3, BlocksStep

(* A hash that a block of the chain has is never lost. *)
LEMMA HashesKept ==
    ASSUME Typed, ChainLinked, [Next]_vars
    PROVE  HashesOf(blocks) \subseteq HashesOf(blocks')
  BY BlocksKept DEF HashesOf

(* Only the end of a build touches the payloads. *)
LEMMA PayloadsStep == [Next]_vars => OnPayload \/ UNCHANGED payloads
  BY DEF Next, Command, BuildStep, vars, disk, repositories, Start, GenesisState,
     GenesisEvm, AddTransaction, AddUnsupportedTransaction, GenesisUpdate, BuildKnownPayload,
     BuildWithoutParent, StartBlockBuild, DropPending, SkipInvalid, ApplyState, ApplyEvm,
     PushStateRoot, ExtendReceipts, ExtendTransactions, AddBlock, Crash

(* A payload is recorded under the hash of the newest block, and stays. *)
LEMMA PayloadsStoredStep ==
    ASSUME Typed, ChainLinked, PayloadsStored, [Next]_vars PROVE PayloadsStored'
<1>1. HashesOf(blocks) \subseteq HashesOf(blocks')
  BY HashesKept
<1>2. CASE OnPayload
  <2>1. /\ payloads' = Put(payloads, {build.id}, LAMBDA id : BlockHash(latest.header))
        /\ UNCHANGED blocks
    BY <1>2 DEF OnPayload
  <2>2. BlockHash(latest.header) \in HashesOf(blocks)
    <3>1. blocks \in Seq(Range(blocks)) /\ blocks # <<>>
      BY <1>2 DEF OnPayload, Typed, TypeOK, PcOK, Building
    <3>2. Len(blocks) \in DOMAIN blocks
      BY <3>1, SMT
    <3> QED  BY <3>2 DEF HashesOf, latest
  <2>3. \A id \in DOMAIN payloads' :
            \/ payloads'[id] = BlockHash(latest.header)
            \/ id \in DOMAIN payloads /\ payloads'[id] = payloads[id]
    BY <2>1 DEF Put
  <2> QED  BY <2>1, <2>2, <2>3 DEF PayloadsStored
<1>3. CASE UNCHANGED payloads
  BY <1>1, <1>3 DEF PayloadsStored
<1> QED  BY <1>2, <1>3, PayloadsStep

NodeInv == NodeTypeOK /\ ChainInv /\ ClientBlocksStored

(* The node's steps preserve what the client relies on. *)
LEMMA ClientBlocksInductive == NodeInv /\ [NodeNext]_nodeVars => ClientBlocksStored'
<1> SUFFICES ASSUME NodeTypeOK, Typed, ChainLinked, PayloadsStored, ClientBlocksStored,
                    [NodeNext]_nodeVars
             PROVE  ClientBlocksStored'
  BY DEF NodeInv, ChainInv
<1>1. HashesOf(blocks) \subseteq HashesOf(blocks')
  BY HashesKept, NodeStepIsStep
<1>2. UNCHANGED <<NoHash, GenesisHash>>
  BY DEF NoHash, GenesisHash
<1>3. CASE GetPayload
  <2>1. /\ UNCHANGED head
        /\ phase' = "sealed" => asked_id \in DOMAIN payloads /\ fetched' = payloads[asked_id]
    BY <1>3 DEF GetPayload
  <2> QED  BY <1>1, <2>1 DEF ClientBlocksStored, PayloadsStored
<1>4. CASE NewPayload
  <2>1. head' = fetched /\ fetched \in HashesOf(blocks) /\ phase' = "ready"
    BY <1>4 DEF NewPayload
  <2> QED  BY <1>1, <2>1 DEF ClientBlocksStored
<1>5. CASE GetGenesisBlock
  <2>1. /\ UNCHANGED fetched
        /\ \/ UNCHANGED <<phase, head>>
           \/ phase' = "ready" /\ head' = GenesisHash
    BY <1>5 DEF GetGenesisBlock
  <2> QED  BY <1>1, <2>1 DEF ClientBlocksStored
<1>6. CASE \E p \in Payload : ForkchoiceUpdated(p)
  <2>1. UNCHANGED head /\ phase' = "building"
    BY <1>6 DEF ForkchoiceUpdated
  <2> QED  BY <1>1, <2>1 DEF ClientBlocksStored
<1>7. CASE UNCHANGED client
  BY <1>1, <1>7 DEF client, ClientBlocksStored
<1> QED  BY <1>3, <1>4, <1>5, <1>6, <1>7 DEF NodeNext, nodeVars, rpc, SendRawTransaction,
            HandleCommand, Work, EndProcess

(* What the consensus client takes for its head, and the payload it is     *)
(* about to submit, are blocks of the chain, whatever crashes, repeated    *)
(* genesis updates and changed requests come in between.                   *)
THEOREM ClientBlocksAreStored == NodeSpec => []ClientBlocksStored
<1>1. NodeInit => NodeInv
  <2>1. NodeInit => ChainLinked /\ PayloadsStored /\ ClientBlocksStored
    BY SMT DEF NodeInit, Init, ChainLinked, PayloadsStored, ClientBlocksStored
  <2>2. NodeInit => Typed
    BY InitTyped DEF NodeInit
  <2> QED  BY <2>1, <2>2, NodeInitTyped DEF NodeInv, ChainInv
<1>2. NodeSpec => []NodeTypeOK /\ [](Typed /\ ChainLinked)
  <2>1. Spec => []Typed
    BY InitTyped, NextTyped, PTL DEF Spec
  <2> QED  BY <2>1, NodeTypeCorrect, NodeImplementsApplication, ChainIsLinked, PTL
<1>3. NodeTypeOK /\ Typed /\ ChainLinked /\ PayloadsStored /\ [NodeNext]_nodeVars
         => PayloadsStored'
  BY NodeStepIsStep, PayloadsStoredStep
<1>4. NodeTypeOK /\ Typed /\ ChainLinked /\ PayloadsStored /\ ClientBlocksStored
        /\ [NodeNext]_nodeVars => ClientBlocksStored'
  BY ClientBlocksInductive DEF NodeInv, ChainInv
<1>5. NodeInv => PayloadsStored /\ ClientBlocksStored
  BY DEF NodeInv, ChainInv
<1> QED  BY <1>1, <1>2, <1>3, <1>4, <1>5, PTL DEF NodeSpec

-----------------------------------------------------------------------------
(* A transaction that some block lists. *)
InBlock(t) == \E i \in DOMAIN blocks : t \in Range(blocks[i].header.transactions)

(* A block keeps listing what it lists. *)
LEMMA InBlockKept ==
    ASSUME Typed, ChainLinked, [Next]_vars, NEW t, InBlock(t) PROVE InBlock(t)'
  BY BlocksKept DEF InBlock

(* The lists of a build: empty outside a build, all of it taken once the   *)
(* execution is over, and in the block once that is stored.                *)
BuildLists ==
    /\ pc \notin Building => pending = <<>> /\ included = <<>>
    /\ pc \in {"receipts", "transactions", "block", "payload"} => pending = <<>>
    /\ pc = "payload" => latest.header.transactions = included

(* As long as nothing was torn, what has a receipt is in a block or in the *)
(* one about to be stored, so the receipt filter drops nothing that is not *)
(* in the chain.                                                           *)
ReceiptsListed ==
    ~torn => \A t \in DOMAIN receipts :
        InBlock(t) \/ (pc \in {"transactions", "block"} /\ t \in Range(included))

ListsInv == Typed /\ ChainLinked /\ ExecutedListed /\ BuildLists /\ ReceiptsListed

(* Every step keeps the lists of the build in line with its position.      *)
LEMMA BuildListsStep ==
    ASSUME Typed, BuildLists, [Next]_vars PROVE BuildLists'
<1>1. CASE AddBlock
  <2>1. /\ blocks' = Append(blocks, [header |-> NewHeader, payload_id |-> build.id])
        /\ pc = "block" /\ pc' = "payload" /\ UNCHANGED <<pending, included>>
    BY <1>1 DEF AddBlock, memory, locals
  <2>2. latest'.header.transactions = included
    <3>1. /\ blocks' \in Seq(Range(blocks')) /\ Len(blocks) \in Nat
          /\ DOMAIN blocks' = 1..(Len(blocks) + 1)
          /\ blocks'[Len(blocks) + 1] = [header |-> NewHeader, payload_id |-> build.id]
      BY <1>1, AddBlockChain, NextTyped DEF Typed, TypeOK
    <3>2. Len(blocks') = Len(blocks) + 1
      BY <3>1, SMT
    <3> QED  BY <3>1, <3>2 DEF latest, NewHeader
  <2> QED  BY <2>1, <2>2 DEF BuildLists, Building
<1>2. CASE ~AddBlock
  <2>1. \/ /\ UNCHANGED <<pending, included>>
           /\ pc \notin Building /\ pc' \notin Building
        \/ pending' = <<>> /\ included' = <<>> /\ pc' \notin Building
        \/ pc' = "execute" \/ pc' = "evm"
        \/ PushStateRoot
        \/ /\ UNCHANGED <<pending, included>>
           /\ pc \in {"receipts", "transactions"} /\ pc' \in {"transactions", "block"}
        \/ UNCHANGED <<pending, included, blocks, pc>>
    BY <1>2, Zenon DEF Next, Command, BuildStep, vars, disk, repositories, memory, locals, Start,
       GenesisState, GenesisEvm, AddTransaction, AddUnsupportedTransaction, GenesisUpdate,
       BuildKnownPayload, BuildWithoutParent, StartBlockBuild, DropPending, SkipInvalid,
       ApplyState, ApplyEvm, ExtendReceipts, ExtendTransactions, OnPayload, ForgetBuild,
       Crash, Kill, ExecutionPanics, Building
  <2>2. PushStateRoot => pending' = <<>> /\ pc' = "receipts"
    BY DEF PushStateRoot, memory, locals
  <2>3. UNCHANGED <<blocks>> => UNCHANGED latest
    BY DEF latest
  <2> QED  BY <2>1, <2>2, <2>3 DEF BuildLists, Building
<1> QED  BY <1>1, <1>2

(* Every step keeps the receipts within the chain. *)
LEMMA ReceiptsListedStep ==
    ASSUME ListsInv, [Next]_vars PROVE ReceiptsListed'
<1>0. Typed /\ ChainLinked /\ ExecutedListed /\ BuildLists /\ ReceiptsListed
  BY DEF ListsInv
<1>1. \A t : InBlock(t) => InBlock(t)'
  BY <1>0, InBlockKept
<1>2. CASE ExtendReceipts
  <2>1. /\ receipts' = Put(receipts, Range(executed), LAMBDA t : Located(executed, t))
        /\ pc = "receipts" /\ pc' = "transactions" /\ UNCHANGED <<included, torn>>
    BY <1>2 DEF ExtendReceipts, memory, locals, history
  <2>2. DOMAIN receipts' = DOMAIN receipts \cup Range(executed)
    BY <2>1 DEF Put
  <2> QED  BY <1>0, <1>1, <2>1, <2>2 DEF ReceiptsListed, ExecutedListed
<1>3. CASE AddBlock
  <2>1. /\ UNCHANGED <<receipts, torn>> /\ Len(blocks) + 1 \in DOMAIN blocks'
        /\ blocks'[Len(blocks) + 1] = [header |-> NewHeader, payload_id |-> build.id]
    <3>1. /\ Len(blocks) \in Nat /\ DOMAIN blocks' = 1..(Len(blocks) + 1)
          /\ blocks'[Len(blocks) + 1] = [header |-> NewHeader, payload_id |-> build.id]
      BY <1>0, <1>3, AddBlockChain
    <3>2. Len(blocks) + 1 \in 1..(Len(blocks) + 1)
      BY <3>1, SMT
    <3> QED  BY <1>3, <3>1, <3>2 DEF AddBlock, history
  <2>2. \A t \in Range(included) : InBlock(t)'
    <3>1. blocks'[Len(blocks) + 1].header.transactions = included
      BY <2>1 DEF NewHeader
    <3> QED  BY <2>1, <3>1 DEF InBlock
  <2> QED  BY <1>0, <1>1, <2>1, <2>2 DEF ReceiptsListed
<1>4. CASE Crash
  <2>1. /\ UNCHANGED receipts
        /\ torn' = (torn \/ pc \in {"receipts", "transactions", "block", "payload"}
                         \/ executed # <<>>)
    BY <1>4 DEF Crash, disk, repositories
  <2> QED  BY <1>0, <1>1, <2>1 DEF ReceiptsListed
<1>5. CASE ~ExtendReceipts /\ ~AddBlock /\ ~Crash
  <2>1. /\ UNCHANGED <<receipts, torn>>
        /\ pc \in {"transactions", "block"} =>
              pc' \in {"transactions", "block"} /\ UNCHANGED included
    BY <1>5 DEF Next, Command, BuildStep, vars, disk, repositories, memory, locals, history,
       Start, GenesisState, GenesisEvm, AddTransaction, AddUnsupportedTransaction,
       GenesisUpdate, BuildKnownPayload, BuildWithoutParent, StartBlockBuild, DropPending,
       SkipInvalid, ApplyState, ApplyEvm, PushStateRoot, ExtendTransactions, OnPayload
  <2> QED  BY <1>0, <1>1, <2>1 DEF ReceiptsListed
<1> QED  BY <1>2, <1>3, <1>4, <1>5

(* The lists of the build and the receipts agree with the chain, always.   *)
LEMMA ListsAlways == Spec => []ListsInv
<1>1. Init => ExecutedListed /\ BuildLists /\ ReceiptsListed
  BY SMT DEF Init, ExecutedListed, BuildLists, ReceiptsListed, Building
<1>2. Spec => []Typed
  BY InitTyped, NextTyped, PTL DEF Spec
<1>3. Typed /\ ExecutedListed /\ [Next]_vars => ExecutedListed'
  BY ListedInductive
<1>4. Typed /\ BuildLists /\ [Next]_vars => BuildLists'
  BY BuildListsStep
<1>5. Typed /\ ChainLinked /\ ExecutedListed /\ BuildLists /\ ReceiptsListed /\ [Next]_vars
        => ReceiptsListed'
  BY ReceiptsListedStep DEF ListsInv
<1>6. ListsInv <=> Typed /\ ChainLinked /\ ExecutedListed /\ BuildLists /\ ReceiptsListed
  BY DEF ListsInv
<1> QED  BY <1>1, <1>2, <1>3, <1>4, <1>5, <1>6, ChainIsLinked, PTL DEF Spec

-----------------------------------------------------------------------------
(* As long as the process has not ended, the genesis update is ahead of    *)
(* every build in the queue until it is carried out.                       *)
GenesisAhead ==
    (~lost /\ blocks = <<>>) =>
        /\ \A i \in DOMAIN queue : queue[i].command = "StartBlockBuild" =>
              \E j \in 1..(i - 1) : queue[j].command = "GenesisUpdate"
        /\ phase # "syncing" => \E j \in DOMAIN queue : queue[j].command = "GenesisUpdate"

(* What is in the queue stays there, in its order, when a command is added. *)
LEMMA EnqueueKeeps ==
    ASSUME NodeTypeOK, NEW m \in Message, Enqueue(m)
    PROVE  /\ Len(queue) \in Nat /\ DOMAIN queue = 1..Len(queue)
           /\ DOMAIN queue' = 1..(Len(queue) + 1)
           /\ \A i \in DOMAIN queue : queue'[i] = queue[i]
           /\ queue'[Len(queue) + 1] = m
<1>1. queue \in Seq(Message) /\ queue' = Append(queue, m)
  BY DEF NodeTypeOK, Enqueue
<1> HIDE DEF Message
<1> QED  BY <1>1, SMT

(* Taking the oldest command moves the others up by one. *)
LEMMA DequeueKeeps ==
    ASSUME NodeTypeOK, queue # <<>>, queue' = Tail(queue)
    PROVE  /\ Len(queue) \in Nat \ {0} /\ DOMAIN queue = 1..Len(queue)
           /\ Head(queue) = queue[1] /\ Head(queue) \in Message
           /\ DOMAIN queue' = 1..(Len(queue) - 1)
           /\ \A i \in DOMAIN queue' : i + 1 \in DOMAIN queue /\ queue'[i] = queue[i + 1]
<1>1. queue \in Seq(Message)
  BY DEF NodeTypeOK
<1> HIDE DEF Message
<1> QED  BY <1>1, SMT

(* The chain never becomes empty again. *)
LEMMA ChainStays ==
    ASSUME Typed, [Next]_vars, blocks # <<>> PROVE blocks' # <<>>
<1>1. CASE GenesisUpdate
  BY <1>1, GenesisUpdateChain DEF Typed
<1>2. CASE AddBlock
  BY <1>2, AddBlockChain, SMT
<1>3. CASE UNCHANGED blocks
  BY <1>3
<1> QED  BY <1>1, <1>2, <1>3, BlocksStep

(* Every step keeps the genesis update ahead of the builds. *)
LEMMA GenesisAheadStep ==
    ASSUME NodeTypeOK, Typed, GenesisAhead, [NodeNext]_nodeVars PROVE GenesisAhead'
<1>0. blocks' = <<>> => blocks = <<>>
  BY ChainStays, NodeStepIsStep
<1>1. ASSUME NEW m \in Message, Enqueue(m), UNCHANGED lost,
             m.command = "StartBlockBuild" => phase # "syncing",
             phase' # "syncing" => phase # "syncing" \/ m.command = "GenesisUpdate"
      PROVE  GenesisAhead'
  <2> DEFINE n == Len(queue)
  <2>1. /\ n \in Nat /\ DOMAIN queue = 1..n /\ DOMAIN queue' = 1..(n + 1)
        /\ \A i \in DOMAIN queue : queue'[i] = queue[i]
        /\ queue'[n + 1] = m
    BY <1>1, EnqueueKeeps
  <2> HIDE DEF n
  <2>2. /\ \A i \in 1..(n + 1) : i \in 1..n \/ i = n + 1
        /\ \A i \in 1..n : i \in 1..(n + 1) /\ \A j \in 1..(i - 1) : j \in 1..n
        /\ (n + 1) - 1 = n /\ n + 1 \in 1..(n + 1)
    BY <2>1, SMT
  <2> SUFFICES ASSUME ~lost, blocks = <<>>
               PROVE  /\ \A i \in DOMAIN queue' : queue'[i].command = "StartBlockBuild" =>
                            \E j \in 1..(i - 1) : queue'[j].command = "GenesisUpdate"
                      /\ phase' # "syncing" =>
                            \E j \in DOMAIN queue' : queue'[j].command = "GenesisUpdate"
    BY <1>0, <1>1 DEF GenesisAhead
  <2>3. /\ \A i \in DOMAIN queue : queue[i].command = "StartBlockBuild" =>
              \E j \in 1..(i - 1) : queue[j].command = "GenesisUpdate"
        /\ phase # "syncing" => \E j \in DOMAIN queue : queue[j].command = "GenesisUpdate"
    BY DEF GenesisAhead
  <2>4. ASSUME NEW i \in DOMAIN queue', queue'[i].command = "StartBlockBuild"
        PROVE  \E j \in 1..(i - 1) : queue'[j].command = "GenesisUpdate"
    <3>1. CASE i \in 1..n
      BY <2>1, <2>2, <2>3, <2>4, <3>1
    <3>2. CASE i = n + 1
      BY <1>1, <2>1, <2>2, <2>3, <2>4, <3>2
    <3> QED  BY <2>1, <2>2, <3>1, <3>2
  <2>5. phase' # "syncing" => \E j \in DOMAIN queue' : queue'[j].command = "GenesisUpdate"
    BY <1>1, <2>1, <2>2, <2>3
  <2> QED  BY <2>4, <2>5
<1>2. ASSUME NEW tx \in RawTx, SendRawTransaction(tx) PROVE GenesisAhead'
  <2>1. [command |-> "AddTransaction", tx |-> tx] \in Message
    BY DEF Message
  <2> QED  BY <1>1, <1>2, <2>1 DEF SendRawTransaction, client
<1>3. CASE GetGenesisBlock
  <2>1. [command |-> "GenesisUpdate"] \in Message
    BY DEF Message
  <2> QED  BY <1>1, <1>3, <2>1 DEF GetGenesisBlock, seen
<1>4. ASSUME NEW p \in Payload, ForkchoiceUpdated(p) PROVE GenesisAhead'
  <2>1. /\ asked_id' \in PayloadId /\ phase = "ready" /\ UNCHANGED lost
        /\ Enqueue([command |-> "StartBlockBuild", attributes |-> p, id |-> asked_id'])
    BY <1>4 DEF ForkchoiceUpdated
  <2>2. [command |-> "StartBlockBuild", attributes |-> p, id |-> asked_id'] \in Message
    BY <2>1 DEF Message
  <2>3. PICK m \in Message :
             m = [command |-> "StartBlockBuild", attributes |-> p, id |-> asked_id']
    BY <2>2
  <2>4. phase # "syncing" /\ Enqueue(m)
    BY <2>1, <2>3
  <2> QED  BY <1>1, <2>1, <2>3, <2>4
<1>5. CASE HandleCommand
  <2>1. /\ queue # <<>> /\ Handle(Head(queue))
        /\ queue' = IF pc' = "panicked" THEN <<>> ELSE Tail(queue)
        /\ lost' = (lost \/ pc' = "panicked") /\ UNCHANGED phase
    BY <1>5 DEF HandleCommand, client
  <2> SUFFICES ASSUME ~lost, pc' # "panicked", blocks = <<>>, blocks' = <<>>
               PROVE  GenesisAhead'
    BY <1>0, <2>1 DEF GenesisAhead
  <2>2. queue' = Tail(queue)
    BY <2>1
  <2> DEFINE n == Len(queue)
  <2>3. /\ n \in Nat \ {0} /\ DOMAIN queue = 1..n /\ Head(queue) = queue[1]
        /\ DOMAIN queue' = 1..(n - 1)
        /\ \A i \in DOMAIN queue' : i + 1 \in DOMAIN queue /\ queue'[i] = queue[i + 1]
    BY <2>1, <2>2, DequeueKeeps
  <2> HIDE DEF n
  <2>4. queue[1].command # "GenesisUpdate"
    <3>1. GenesisUpdate => blocks' # <<>>
      BY GenesisUpdateChain DEF Typed
    <3> QED  BY <2>1, <2>3, <3>1 DEF Handle
  <2>5. /\ \A i \in DOMAIN queue : queue[i].command = "StartBlockBuild" =>
              \E j \in 1..(i - 1) : queue[j].command = "GenesisUpdate"
        /\ phase # "syncing" => \E j \in DOMAIN queue : queue[j].command = "GenesisUpdate"
    BY DEF GenesisAhead
  <2>6. ASSUME NEW i \in DOMAIN queue', queue'[i].command = "StartBlockBuild"
        PROVE  \E j \in 1..(i - 1) : queue'[j].command = "GenesisUpdate"
    <3>1. PICK j \in 1..((i + 1) - 1) : queue[j].command = "GenesisUpdate"
      BY <2>3, <2>5, <2>6
    <3>2. j # 1
      BY <2>4, <3>1
    <3>3. j - 1 \in 1..(i - 1) /\ j - 1 \in DOMAIN queue' /\ (j - 1) + 1 = j
      BY <2>3, <3>1, <3>2, SMT
    <3> QED  BY <2>3, <3>1, <3>3
  <2>7. phase # "syncing" => \E j \in DOMAIN queue' : queue'[j].command = "GenesisUpdate"
    <3>1. ASSUME NEW j \in DOMAIN queue, queue[j].command = "GenesisUpdate"
          PROVE  j - 1 \in DOMAIN queue' /\ queue'[j - 1].command = "GenesisUpdate"
      <4>1. j # 1
        BY <2>4, <3>1
      <4>2. j - 1 \in DOMAIN queue' /\ (j - 1) + 1 = j
        BY <2>3, <4>1, SMT
      <4> QED  BY <2>3, <3>1, <4>2
    <3> QED  BY <2>5, <3>1
  <2> QED  BY <2>1, <2>6, <2>7 DEF GenesisAhead
<1>6. CASE UNCHANGED <<queue, lost>> /\ (phase' # "syncing" => phase # "syncing")
  BY <1>0, <1>6 DEF GenesisAhead
<1>7. CASE EndProcess
  BY <1>7 DEF EndProcess, GenesisAhead
<1>8. GetPayload \/ NewPayload \/ Work \/ UNCHANGED nodeVars =>
        UNCHANGED <<queue, lost>> /\ (phase' # "syncing" => phase # "syncing")
  BY DEF GetPayload, NewPayload, Work, nodeVars, rpc, client, seen
<1> QED  BY <1>2, <1>3, <1>4, <1>5, <1>6, <1>7, <1>8 DEF NodeNext

(* As long as the process has not ended, no build finds an empty chain:    *)
(* the client learns the genesis block before it asks for a build, and the *)
(* queue keeps the order.                                                  *)
THEOREM ParentsExist == NodeSpec => []CleanParentExists
<1>1. NodeInit => GenesisAhead
  BY SMT DEF NodeInit, GenesisAhead
<1>2. NodeTypeOK /\ Typed /\ GenesisAhead /\ [NodeNext]_nodeVars => GenesisAhead'
  BY GenesisAheadStep
<1>3. NodeSpec => []Typed
  <2>1. Spec => []Typed
    BY InitTyped, NextTyped, PTL DEF Spec
  <2> QED  BY <2>1, NodeImplementsApplication, PTL
<1>4. NodeTypeOK /\ GenesisAhead => CleanParentExists
  <2> SUFFICES ASSUME NodeTypeOK, GenesisAhead, ~lost, queue # <<>>,
                      Head(queue).command = "StartBlockBuild", blocks = <<>>
               PROVE  FALSE
    BY DEF CleanParentExists, ParentExists
  <2>1. 1 \in DOMAIN queue /\ Head(queue) = queue[1] /\ 1..(1 - 1) = {}
    <3>1. queue \in Seq(Message)
      BY DEF NodeTypeOK
    <3> HIDE DEF Message
    <3> QED  BY <3>1, SMT
  <2> QED  BY <2>1 DEF GenesisAhead
<1> QED  BY <1>1, <1>2, <1>3, <1>4, NodeTypeCorrect, PTL DEF NodeSpec

-----------------------------------------------------------------------------
(***************************************************************************)
(* What was accepted is somewhere.                                         *)
(***************************************************************************)
(* A transaction the actor has taken: pooled, in the running build, stored. *)
Taken(tx) == tx \in mem_pool \cup Range(pending) \cup Range(included) \/ InBlock(tx)

(* The first entry of a list and the rest of it are all of it. *)
LEMMA RangeHeadTail ==
    ASSUME NEW S, NEW s \in Seq(S), s # <<>>
    PROVE  Range(s) = {Head(s)} \cup Range(Tail(s))
<1>1. /\ DOMAIN s = 1..Len(s) /\ Len(s) \in Nat \ {0} /\ Head(s) = s[1]
      /\ DOMAIN Tail(s) = 1..(Len(s) - 1)
      /\ \A i \in 1..(Len(s) - 1) : Tail(s)[i] = s[i + 1] /\ i + 1 \in 1..Len(s)
      /\ \A i \in 1..Len(s) : i = 1 \/ (i - 1 \in 1..(Len(s) - 1) /\ (i - 1) + 1 = i)
      /\ 1 \in 1..Len(s)
  BY SMT
<1>2. ASSUME NEW x PROVE x \in Range(s) <=> x = Head(s) \/ x \in Range(Tail(s))
  <2>1. ASSUME NEW i \in 1..Len(s), x = s[i] PROVE x = Head(s) \/ x \in Range(Tail(s))
    <3>1. CASE i = 1
      BY <1>1, <2>1, <3>1
    <3>2. CASE i # 1
      <4>1. i - 1 \in 1..(Len(s) - 1) /\ (i - 1) + 1 = i
        BY <1>1, <3>2
      <4>2. Tail(s)[i - 1] = x
        BY <1>1, <2>1, <4>1
      <4> QED  BY <1>1, <4>1, <4>2 DEF Range
    <3> QED  BY <3>1, <3>2
  <2>2. ASSUME NEW i \in 1..(Len(s) - 1), x = Tail(s)[i] PROVE x \in Range(s)
    BY <1>1, <2>2 DEF Range
  <2>3. Head(s) \in Range(s)
    BY <1>1 DEF Range
  <2> QED  BY <1>1, <2>1, <2>2, <2>3 DEF Range
<1> QED  BY <1>2

(* A transaction the running build is to list or the chain has. *)
Carried(tx) == InBlock(tx) \/ tx \in Range(pending) \cup Range(included)

(* Execution takes a transaction from the list to the block, or drops what *)
(* the chain has.                                                          *)
LEMMA ExecutionCarries ==
    ASSUME ListsInv, ~torn, [Next]_vars, DropPending \/ SkipInvalid \/ ApplyState,
           NEW tx \in Tx, Carried(tx)
    PROVE  Carried(tx)'
<1>0. /\ Typed /\ ChainLinked /\ ReceiptsListed
      /\ pending \in Seq(Tx \cup {Undecodable}) /\ included \in Seq(Tx)
  BY DEF ListsInv, Typed, TypeOK
<1>1. InBlock(tx) => InBlock(tx)'
  BY <1>0, InBlockKept
<1>2. pending # <<>> /\ pending' = Tail(pending) /\ pc = "execute"
  BY DEF DropPending, SkipInvalid, ApplyState
<1>3. Range(pending) = {next_tx} \cup Range(pending')
  BY <1>0, <1>2, RangeHeadTail DEF next_tx
<1>4. CASE DropPending
  <2>1. IsDropped(next_tx) /\ UNCHANGED included
    BY <1>4 DEF DropPending
  <2>2. next_tx = tx => InBlock(tx)
    <3>1. tx # Undecodable
      BY MarkerAssumption
    <3> QED  BY <1>0, <1>2, <2>1, <3>1 DEF IsDropped, ReceiptsListed
  <2> QED  BY <1>1, <1>3, <2>1, <2>2 DEF Carried
<1>5. CASE SkipInvalid \/ ApplyState
  <2>1. ~IsDropped(next_tx) /\ included' = Append(included, next_tx)
    BY <1>5 DEF SkipInvalid, ApplyState
  <2>2. next_tx \in Tx
    BY <1>0, <1>2, <2>1, SMT DEF IsDropped, next_tx
  <2>3. Range(included') = Range(included) \cup {next_tx}
    BY <1>0, <2>1, <2>2, RangeOfAppend
  <2> QED  BY <1>1, <1>3, <2>3 DEF Carried
<1> QED  BY <1>4, <1>5

(* What was taken stays taken, except over the end of the process. *)
LEMMA TakenStays ==
    ASSUME ListsInv, ~torn, [Next]_vars, ~Crash, ~AddUnsupportedTransaction,
           \A id \in PayloadId : ~BuildWithoutParent(id),
           NEW tx \in Tx, Taken(tx)
    PROVE  Taken(tx)'
<1>0. /\ Typed /\ ChainLinked /\ BuildLists /\ ReceiptsListed
      /\ pending \in Seq(Tx \cup {Undecodable}) /\ included \in Seq(Tx)
  BY DEF ListsInv, Typed, TypeOK
<1>1. InBlock(tx) => InBlock(tx)'
  BY <1>0, InBlockKept
<1>2. CASE \E q \in Payload, id \in PayloadId : StartBlockBuild(q, id)
  <2>1. PICK q \in Payload, id \in PayloadId : StartBlockBuild(q, id)
    BY <1>2
  <2>2. pc = "idle" /\ pending = <<>> /\ included = <<>>
    BY <1>0, <2>1 DEF StartBlockBuild, BuildLists, Building
  <2>3. PICK drained \in DrainOrders(mem_pool) : pending' = q.transactions \o drained
    BY <2>1 DEF StartBlockBuild
  <2>4. Range(drained) = mem_pool
    BY DEF DrainOrders
  <2>5. drained \in Seq(Tx \cup {Undecodable})
    <3>1. mem_pool \in SUBSET (Tx \cup {Undecodable}) /\ IsFiniteSet(mem_pool)
      BY <1>0 DEF Typed, TypeOK, Canonical
    <3> QED  BY <3>1, DrainOrdersType
  <2>6. mem_pool \subseteq Range(pending')
    <3>1. q.transactions \in Seq(Tx \cup {Undecodable})
      BY PayloadAssumption
    <3>2. PICK listed \in Seq(Tx \cup {Undecodable}) : listed = q.transactions
      BY <3>1
    <3>3. Range(listed \o drained) = Range(listed) \cup Range(drained)
      BY <2>5, RangeConcatenation
    <3> QED  BY <2>3, <2>4, <3>2, <3>3
  <2>7. Range(<<>>) = {}
    BY DEF Range
  <2> QED  BY <1>1, <2>2, <2>6, <2>7 DEF Taken
<1>3. CASE DropPending \/ SkipInvalid \/ ApplyState
  <2>1. UNCHANGED mem_pool
    BY <1>3 DEF DropPending, SkipInvalid, ApplyState
  <2> QED  BY <1>3, <2>1, ExecutionCarries DEF Taken, Carried
<1>4. CASE OnPayload
  <2>1. pc = "payload" /\ pending = <<>> /\ latest.header.transactions = included
        /\ UNCHANGED <<mem_pool, blocks>>
    BY <1>0, <1>4 DEF OnPayload, BuildLists
  <2>2. tx \in Range(included) => InBlock(tx)
    <3>1. Len(blocks) \in DOMAIN blocks
      BY <1>0, <2>1, SMT DEF Typed, TypeOK, PcOK, Building
    <3> QED  BY <2>1, <3>1 DEF InBlock, latest
  <2>3. Range(<<>>) = {}
    BY DEF Range
  <2> QED  BY <1>1, <2>1, <2>2, <2>3 DEF Taken
<1>5. CASE \E t \in Canonical : AddTransaction(t)
  BY <1>1, <1>5 DEF AddTransaction, locals, Taken
<1>6. CASE UNCHANGED <<mem_pool, pending, included>>
  BY <1>1, <1>6 DEF Taken
<1> QED
  BY <1>2, <1>3, <1>4, <1>5, <1>6 DEF Next, Command, BuildStep, vars, memory, locals,
     Start, GenesisState, GenesisEvm, GenesisUpdate, BuildKnownPayload, ApplyEvm,
     PushStateRoot, ExtendReceipts, ExtendTransactions, AddBlock

(* A transaction that waits in the queue. *)
InQueue(tx) == \E i \in DOMAIN queue : queue[i].command = "AddTransaction" /\ queue[i].tx = tx

(* Only the end of the process tears a build. *)
TornIsLost == torn => lost

(* The end of the process, or the torn flag is left alone. *)
LEMMA TornStep == [NodeNext]_nodeVars => EndProcess \/ UNCHANGED torn
<1>1. UNCHANGED vars => UNCHANGED torn
  BY DEF vars, history
<1>2. Work => UNCHANGED torn
  BY DEF Work, Start, GenesisState, GenesisEvm, BuildStep, DropPending, SkipInvalid,
     ApplyState, ApplyEvm, PushStateRoot, ExtendReceipts, ExtendTransactions, AddBlock,
     OnPayload, history
<1>3. HandleCommand => UNCHANGED torn
  BY DEF HandleCommand, Handle, AddUnsupportedTransaction, AddTransaction, GenesisUpdate,
     BuildKnownPayload, StartBlockBuild, BuildWithoutParent, history, vars
<1> QED  BY <1>1, <1>2, <1>3 DEF NodeNext, nodeVars, SendRawTransaction, GetGenesisBlock,
            ForkchoiceUpdated, GetPayload, NewPayload

(* Every step keeps track of what was accepted. *)
LEMMA AccountedStep ==
    ASSUME NodeTypeOK, ListsInv, TornIsLost, CleanAccounted, [NodeNext]_nodeVars
    PROVE  CleanAccounted'
<1>0. Typed /\ ChainLinked /\ queue \in Seq(Message) /\ [Next]_vars /\ accepted \subseteq RawTx
  BY NodeStepIsStep DEF ListsInv, NodeTypeOK
<1>1. CleanAccounted <=>
        (~lost => \A tx \in accepted \ {Unsupported} : InQueue(tx) \/ Taken(tx))
  BY DEF CleanAccounted, InQueue, Taken, InBlock
<1>2. CleanAccounted' <=>
        (~lost' => \A tx \in accepted' \ {Unsupported} : InQueue(tx)' \/ Taken(tx)')
  BY DEF CleanAccounted, InQueue, Taken, InBlock
<1>3. RawTx \ {Unsupported} \subseteq Canonical /\ Canonical \subseteq Tx
  BY NodeAssumption DEF Canonical
<1>4. ASSUME NEW m \in Message, Enqueue(m), NEW tx, InQueue(tx) PROVE InQueue(tx)'
  <2>1. /\ Len(queue) \in Nat /\ DOMAIN queue = 1..Len(queue)
        /\ DOMAIN queue' = 1..(Len(queue) + 1)
        /\ \A i \in DOMAIN queue : queue'[i] = queue[i]
    BY <1>4, EnqueueKeeps
  <2>2. \A i \in DOMAIN queue : i \in DOMAIN queue'
    BY <2>1, SMT
  <2> QED  BY <1>4, <2>1, <2>2 DEF InQueue
<1>5. UNCHANGED vars => \A tx : Taken(tx) => Taken(tx)'
  BY DEF vars, disk, repositories, memory, locals, Taken, InBlock
<1>6. ASSUME NEW tx \in RawTx, SendRawTransaction(tx) PROVE CleanAccounted'
  <2> DEFINE m == [command |-> "AddTransaction", tx |-> tx]
  <2>1. /\ m \in Message /\ Enqueue(m) /\ UNCHANGED <<vars, lost>>
        /\ accepted' = accepted \cup {tx}
    BY <1>6 DEF Message, SendRawTransaction
  <2>2. InQueue(tx)'
    <3>1. /\ Len(queue) \in Nat /\ DOMAIN queue' = 1..(Len(queue) + 1)
          /\ queue'[Len(queue) + 1] = m
      BY <2>1, EnqueueKeeps
    <3>2. Len(queue) + 1 \in DOMAIN queue'
      BY <3>1, SMT
    <3> QED  BY <3>1, <3>2 DEF InQueue
  <2> HIDE DEF m
  <2> QED  BY <1>1, <1>2, <1>4, <1>5, <2>1, <2>2
<1>7. CASE GetGenesisBlock
  <2>1. /\ [command |-> "GenesisUpdate"] \in Message /\ Enqueue([command |-> "GenesisUpdate"])
        /\ UNCHANGED <<vars, lost, accepted>>
    BY <1>7 DEF GetGenesisBlock, seen, Message
  <2> QED  BY <1>1, <1>2, <1>4, <1>5, <2>1
<1>8. ASSUME NEW p \in Payload, ForkchoiceUpdated(p) PROVE CleanAccounted'
  <2>1. /\ asked_id' \in PayloadId /\ UNCHANGED <<vars, lost, accepted>>
        /\ Enqueue([command |-> "StartBlockBuild", attributes |-> p, id |-> asked_id'])
    BY <1>8 DEF ForkchoiceUpdated
  <2>2. [command |-> "StartBlockBuild", attributes |-> p, id |-> asked_id'] \in Message
    BY <2>1 DEF Message
  <2>3. \A tx : InQueue(tx) => InQueue(tx)'
    <3>1. PICK m \in Message :
               m = [command |-> "StartBlockBuild", attributes |-> p, id |-> asked_id']
      BY <2>2
    <3> QED  BY <1>4, <2>1, <3>1
  <2> QED  BY <1>1, <1>2, <1>5, <2>1, <2>3
<1>9. CASE HandleCommand
  <2>1. /\ queue # <<>> /\ Handle(Head(queue))
        /\ queue' = IF pc' = "panicked" THEN <<>> ELSE Tail(queue)
        /\ lost' = (lost \/ pc' = "panicked") /\ UNCHANGED accepted
    BY <1>9 DEF HandleCommand
  <2> SUFFICES ASSUME ~lost, pc' # "panicked", NEW tx \in accepted, tx # Unsupported
               PROVE  InQueue(tx)' \/ Taken(tx)'
    BY <1>2, <2>1
  <2>2. queue' = Tail(queue) /\ (InQueue(tx) \/ Taken(tx))
    <3>1. queue' = Tail(queue)
      BY <2>1
    <3>2. tx \in accepted \ {Unsupported}
      OBVIOUS
    <3>3. InQueue(tx) \/ Taken(tx)
      BY <1>1, <3>2, Zenon
    <3> QED  BY <3>1, <3>3
  <2> DEFINE n == Len(queue)
  <2>3. /\ n \in Nat \ {0} /\ DOMAIN queue = 1..n /\ Head(queue) = queue[1]
        /\ Head(queue) \in Message /\ DOMAIN queue' = 1..(n - 1)
        /\ \A i \in DOMAIN queue' : i + 1 \in DOMAIN queue /\ queue'[i] = queue[i + 1]
    BY <2>1, <2>2, DequeueKeeps
  <2> HIDE DEF n
  <2>4. CASE Taken(tx)
    <3>1. ~Crash /\ ~AddUnsupportedTransaction /\ \A id \in PayloadId : ~BuildWithoutParent(id)
      <4>1. ~Crash
        BY <2>1 DEF Handle, Crash, Kill, ExecutionPanics, AddUnsupportedTransaction,
           AddTransaction, GenesisUpdate,
           BuildKnownPayload, StartBlockBuild, BuildWithoutParent, history, vars
      <4>2. ~AddUnsupportedTransaction
        BY DEF AddUnsupportedTransaction
      <4>3. ASSUME NEW id \in PayloadId PROVE ~BuildWithoutParent(id)
        BY DEF BuildWithoutParent
      <4> QED  BY <4>1, <4>2, <4>3
    <3>2. ~torn /\ tx \in Tx
      BY <1>0, <1>3 DEF TornIsLost
    <3> QED  BY <1>0, <2>4, <3>1, <3>2, TakenStays
  <2>5. CASE InQueue(tx)
    <3>1. PICK i \in DOMAIN queue : queue[i].command = "AddTransaction" /\ queue[i].tx = tx
      BY <2>5 DEF InQueue
    <3>2. CASE i = 1
      <4>1. AddTransaction(tx)
        BY <2>1, <2>3, <3>1, <3>2 DEF Handle
      <4> QED  BY <4>1 DEF AddTransaction, Taken
    <3>3. CASE i # 1
      <4>1. i - 1 \in DOMAIN queue' /\ (i - 1) + 1 = i
        BY <2>3, <3>3, SMT
      <4> QED  BY <2>3, <3>1, <4>1 DEF InQueue
    <3> QED  BY <3>2, <3>3
  <2> QED  BY <2>2, <2>4, <2>5
<1>10. CASE Work
  <2>1. UNCHANGED <<queue, lost, accepted>>
    BY <1>10 DEF Work, rpc, seen
  <2>2. ~Crash /\ ~AddUnsupportedTransaction /\ \A id \in PayloadId : ~BuildWithoutParent(id)
    <3>1. pc # "idle"
      BY <1>10 DEF Work, Start, GenesisState, GenesisEvm, BuildStep, DropPending, SkipInvalid,
         ApplyState, ApplyEvm, PushStateRoot, ExtendReceipts, ExtendTransactions, AddBlock,
         OnPayload
    <3>2. ~Crash
      <4>1. crashes' = crashes /\ (pc = "execute" => pc' # "panicked")
        BY <1>10 DEF Work, Start, GenesisState, GenesisEvm, BuildStep, DropPending,
           SkipInvalid, ApplyState, ApplyEvm, PushStateRoot, ExtendReceipts,
           ExtendTransactions, AddBlock, OnPayload, history
      <4>2. crashes \in Nat
        BY <1>0, CrashAssumption, SMT DEF Typed, TypeOK
      <4>3. ~Kill
        BY <4>1, <4>2, SMT DEF Kill
      <4> QED  BY <4>1, <4>3 DEF Crash, ExecutionPanics
    <3> QED  BY <3>1, <3>2 DEF AddUnsupportedTransaction, BuildWithoutParent
  <2>3. ASSUME ~lost, NEW tx \in accepted \ {Unsupported}, Taken(tx) PROVE Taken(tx)'
    <3>1. ~torn /\ tx \in Tx
      BY <1>0, <1>3, <2>3 DEF TornIsLost
    <3> QED  BY <1>0, <2>2, <2>3, <3>1, TakenStays
  <2>4. \A tx : InQueue(tx) => InQueue(tx)'
    BY <2>1 DEF InQueue
  <2> QED  BY <1>1, <1>2, <2>1, <2>3, <2>4
<1>11. CASE EndProcess
  BY <1>2, <1>11 DEF EndProcess
<1>12. CASE UNCHANGED <<vars, queue, lost, accepted>>
  <2>1. \A tx : InQueue(tx) => InQueue(tx)'
    BY <1>12 DEF InQueue
  <2> QED  BY <1>1, <1>2, <1>5, <1>12, <2>1
<1>13. GetPayload \/ NewPayload \/ UNCHANGED nodeVars => UNCHANGED <<vars, queue, lost, accepted>>
  BY DEF GetPayload, NewPayload, nodeVars, rpc, seen
<1> QED  BY <1>6, <1>7, <1>8, <1>9, <1>10, <1>11, <1>12, <1>13 DEF NodeNext

(* As long as the process has not ended, a transaction that was answered   *)
(* for is in the queue, in the pool, in the running build or in a block:   *)
(* no interleaving of submissions, builds and repeated requests loses it.  *)
THEOREM AcceptedAccounted == NodeSpec => []CleanAccounted
<1>1. NodeInit => CleanAccounted /\ TornIsLost
  BY DEF NodeInit, Init, CleanAccounted, TornIsLost
<1>2. TornIsLost /\ [NodeNext]_nodeVars => TornIsLost'
  <2>1. TornIsLost /\ UNCHANGED torn /\ [NodeNext]_nodeVars => TornIsLost'
    BY DEF NodeNext, nodeVars, rpc, seen, SendRawTransaction, GetGenesisBlock,
       ForkchoiceUpdated, GetPayload, NewPayload, HandleCommand, Work, EndProcess, TornIsLost
  <2>2. EndProcess => TornIsLost'
    BY DEF EndProcess, TornIsLost
  <2> QED  BY <2>1, <2>2, TornStep
<1>3. NodeTypeOK /\ ListsInv /\ TornIsLost /\ CleanAccounted /\ [NodeNext]_nodeVars
        => CleanAccounted'
  BY AccountedStep
<1> QED  BY <1>1, <1>2, <1>3, ListsAlways, NodeImplementsApplication, NodeTypeCorrect, PTL
         DEF NodeSpec

-----------------------------------------------------------------------------
(***************************************************************************)
(* The client gets what it asked for.                                      *)
(***************************************************************************)
(* Different heads or timestamps have different payload ids. *)
LEMMA IdInjective ==
    ASSUME NEW a \in Nat, NEW b \in Nat, NEW t \in 1..IdBase, NEW u \in 1..IdBase,
           a * IdBase + t = b * IdBase + u
    PROVE  a = b /\ t = u
<1>0. IdBase \in Nat /\ a * IdBase \in Nat /\ b * IdBase \in Nat
  BY NodeAssumption, SMT
<1>1. ASSUME NEW x \in Nat, NEW y \in Nat, x < y
      PROVE  x * IdBase + IdBase <= y * IdBase
  <2>1. PICK k \in Nat : y = x + 1 + k
    <3>1. y - x - 1 \in Nat /\ y = x + 1 + (y - x - 1)
      BY <1>1, SMT
    <3> QED  BY <3>1
  <2>2. y * IdBase = x * IdBase + IdBase + k * IdBase /\ k * IdBase \in Nat
        /\ x * IdBase \in Nat /\ y * IdBase \in Nat
    BY <1>0, <2>1, SMT
  <2> QED  BY <1>0, <2>2, SMT
<1>2. ~(a < b)
  BY <1>0, <1>1, SMT
<1>3. ~(b < a)
  BY <1>0, <1>1, SMT
<1> QED  BY <1>0, <1>2, <1>3, SMT

(* Nothing was torn and the client never changed a request. *)
Calm == ~torn /\ ~changed

(* Before the client knows the genesis block nothing can be built. *)
Synced ==
    phase = "syncing" =>
        /\ blocks = <<>> /\ asked = NoAttributes
        /\ \A i \in DOMAIN queue : queue[i].command = "AddTransaction"

(* The client waits for the id of what it asked for on its head. *)
AskedOK ==
    /\ phase \in {"building", "sealed"} => asked # NoAttributes
    /\ asked # NoAttributes =>
          asked \in Payload /\ asked_id = NewPayloadId(head, asked.timestamp)

(* A payload id is the one of its block's parent and timestamp. *)
PayloadsNumbered ==
    \A id \in DOMAIN payloads : \E i \in DOMAIN blocks :
        /\ i > 1 /\ blocks[i].header.timestamp \in 1..IdBase
        /\ id = (i - 2) * IdBase + blocks[i].header.timestamp
        /\ payloads[id] = BlockHash(blocks[i].header)

(* The client's head is the newest block ... *)
OnHead == head = IF blocks = <<>> THEN GenesisHash ELSE BlockHash(latest.header)

(* ... or the parent of the newest, which is what the client asked for.    *)
OnChild ==
    /\ Len(blocks) > 1 /\ asked # NoAttributes
    /\ head = latest.header.parent_hash
    /\ latest.header.timestamp = asked.timestamp
    /\ \A tx \in Range(asked.transactions) \ {Undecodable} : InBlock(tx)
    /\ asked_id \in DOMAIN payloads \/ pc = "payload"

(* The running build is the one the client asked for. *)
BuildsAsked ==
    /\ asked # NoAttributes
    /\ build.id = asked_id /\ build.timestamp = asked.timestamp
    /\ \A tx \in Range(asked.transactions) \ {Undecodable} : Carried(tx)

Position ==
    /\ phase # "syncing" => OnHead \/ OnChild
    /\ pc \in Building \ {"payload"} => OnHead /\ BuildsAsked
    /\ pc = "payload" => OnChild /\ build.id = asked_id
    /\ phase = "sealed" => /\ OnChild /\ asked_id \in DOMAIN payloads
                           /\ fetched = BlockHash(latest.header)

(* A build in the queue is done or is the one the client asked for. *)
QueueCurrent ==
    \A i \in DOMAIN queue : queue[i].command = "StartBlockBuild" =>
        \/ queue[i].id \in DOMAIN payloads
        \/ queue[i].id = asked_id /\ queue[i].attributes = asked /\ asked # NoAttributes

Requested == Calm => PayloadsNumbered /\ Position /\ QueueCurrent

RequestInv ==
    /\ NodeTypeOK /\ ListsInv /\ FreshBuild
    /\ Synced /\ AskedOK /\ Requested

(* Calm is never regained. *)
LEMMA CalmStep == [NodeNext]_nodeVars /\ Calm' => Calm
<1>1. [NodeNext]_nodeVars /\ changed => changed'
  BY DEF NodeNext, nodeVars, rpc, seen, SendRawTransaction, GetGenesisBlock,
     ForkchoiceUpdated, GetPayload, NewPayload, HandleCommand, Work, EndProcess
<1>2. EndProcess /\ torn => torn'
  BY DEF EndProcess, Crash
<1> QED  BY <1>1, <1>2, TornStep DEF Calm

(* Where the client's head is in the chain. *)
LEMMA HeadNumber ==
    ASSUME Typed, ChainLinked
    PROVE  /\ Len(blocks) \in Nat /\ DOMAIN blocks = 1..Len(blocks)
           /\ blocks # <<>> => Len(blocks) > 0
           /\ OnHead => head.keccak256.number = IF blocks = <<>> THEN 0 ELSE Len(blocks) - 1
           /\ OnChild => head.keccak256.number = Len(blocks) - 2
<1> DEFINE n == Len(blocks)
<1>1. n \in Nat /\ DOMAIN blocks = 1..n /\ (blocks # <<>> => n > 0)
  BY SMT DEF Typed, TypeOK
<1>2. OnHead => head.keccak256.number = IF blocks = <<>> THEN 0 ELSE n - 1
  <2>1. CASE blocks = <<>>
    BY <2>1 DEF OnHead, GenesisHash, GenesisBlock, BlockHash
  <2>2. CASE blocks # <<>>
    <3>1. n \in DOMAIN blocks
      BY <1>1, <2>2, SMT
    <3>2. latest.header.number = n - 1
      BY <3>1 DEF ChainLinked, latest
    <3> QED  BY <2>2, <3>2 DEF OnHead, BlockHash
  <2> QED  BY <2>1, <2>2
<1>3. OnChild => head.keccak256.number = n - 2
  <2> SUFFICES ASSUME OnChild PROVE head.keccak256.number = n - 2
    OBVIOUS
  <2>1. n \in DOMAIN blocks /\ n > 1 /\ n - 1 \in DOMAIN blocks /\ (n - 1) - 1 = n - 2
    BY <1>1, SMT DEF OnChild
  <2>2. /\ head = BlockHash(blocks[n - 1].header)
        /\ blocks[n - 1].header.number = n - 2
    BY <2>1 DEF OnChild, ChainLinked, latest
  <2> QED  BY <2>2 DEF BlockHash
<1> QED  BY <1>1, <1>2, <1>3

(* What a recorded id for the client's request can be: its head's child.   *)
LEMMA RecordedIsChild ==
    ASSUME NodeTypeOK, Typed, ChainLinked, AskedOK, PayloadsNumbered, OnHead \/ OnChild,
           asked # NoAttributes, asked_id \in DOMAIN payloads
    PROVE  OnChild /\ payloads[asked_id] = BlockHash(latest.header)
<1> DEFINE n == Len(blocks)
<1>1. /\ n \in Nat /\ DOMAIN blocks = 1..n /\ (blocks # <<>> => n > 0)
      /\ OnHead => head.keccak256.number = IF blocks = <<>> THEN 0 ELSE n - 1
      /\ OnChild => head.keccak256.number = n - 2
  BY HeadNumber
<1>2. PICK i \in DOMAIN blocks :
        /\ i > 1 /\ blocks[i].header.timestamp \in 1..IdBase
        /\ asked_id = (i - 2) * IdBase + blocks[i].header.timestamp
        /\ payloads[asked_id] = BlockHash(blocks[i].header)
  BY DEF PayloadsNumbered
<1>3. asked.timestamp \in 1..IdBase /\ asked_id = head.keccak256.number * IdBase + asked.timestamp
  BY IdAssumption DEF AskedOK, NewPayloadId
<1>4. blocks # <<>> /\ i - 2 \in Nat /\ i \in 1..n
  BY <1>1, <1>2, SMT
<1>5. OnHead \/ OnChild => head.keccak256.number \in Nat
  <2>1. n - 1 \in Nat
    BY <1>1, <1>4, SMT
  <2>2. OnChild => n - 2 \in Nat
    BY <1>1, SMT DEF OnChild
  <2> QED  BY <1>1, <1>4, <2>1, <2>2
<1>6. PICK k \in Nat : k = head.keccak256.number
  BY <1>5
<1>7. i - 2 = k
  BY <1>2, <1>3, <1>4, <1>6, IdInjective
<1>8. ~OnHead
  BY <1>1, <1>4, <1>6, <1>7, SMT
<1>9. i = n
  BY <1>1, <1>4, <1>6, <1>7, <1>8, SMT
<1> QED  BY <1>2, <1>8, <1>9 DEF latest

(* The head is never its own child. *)
LEMMA HeadNotChild ==
    ASSUME Typed, ChainLinked, OnHead, OnChild PROVE FALSE
<1>1. /\ Len(blocks) \in Nat /\ blocks # <<>>
      /\ head.keccak256.number = IF blocks = <<>> THEN 0 ELSE Len(blocks) - 1
      /\ head.keccak256.number = Len(blocks) - 2
  <2>1. blocks # <<>>
    BY SMT DEF OnChild
  <2> QED  BY <2>1, HeadNumber
<1> QED  BY <1>1, SMT

(* Every step keeps what is known before the client is synced. *)
LEMMA SyncedStep ==
    ASSUME NodeTypeOK, Typed, Synced, [NodeNext]_nodeVars PROVE Synced'
<1>1. ASSUME NEW tx \in RawTx, SendRawTransaction(tx) PROVE Synced'
  <2>1. [command |-> "AddTransaction", tx |-> tx] \in Message
    BY DEF Message
  <2>2. /\ Enqueue([command |-> "AddTransaction", tx |-> tx])
        /\ UNCHANGED <<blocks, phase, asked>>
    BY <1>1 DEF SendRawTransaction, vars, disk, repositories, client
  <2>3. /\ Len(queue) \in Nat /\ DOMAIN queue = 1..Len(queue)
        /\ DOMAIN queue' = 1..(Len(queue) + 1)
        /\ \A i \in DOMAIN queue : queue'[i] = queue[i]
        /\ queue'[Len(queue) + 1] = [command |-> "AddTransaction", tx |-> tx]
    BY <2>1, <2>2, EnqueueKeeps
  <2>4. \A i \in DOMAIN queue' : i \in DOMAIN queue \/ i = Len(queue) + 1
    BY <2>3, SMT
  <2> QED  BY <2>2, <2>3, <2>4 DEF Synced
<1>2. CASE HandleCommand
  <2>1. /\ queue # <<>> /\ Handle(Head(queue)) /\ UNCHANGED <<phase, asked>>
        /\ queue' = IF pc' = "panicked" THEN <<>> ELSE Tail(queue)
    BY <1>2 DEF HandleCommand, client
  <2> SUFFICES ASSUME phase = "syncing" PROVE Synced'
    BY <2>1 DEF Synced
  <2>2. /\ 1 \in DOMAIN queue /\ Head(queue) = queue[1]
        /\ \A i \in DOMAIN queue' : i + 1 \in DOMAIN queue /\ queue'[i] = queue[i + 1]
    <3>1. CASE queue' = Tail(queue)
      <4>1. /\ Len(queue) \in Nat \ {0} /\ DOMAIN queue = 1..Len(queue) /\ Head(queue) = queue[1]
            /\ \A i \in DOMAIN queue' : i + 1 \in DOMAIN queue /\ queue'[i] = queue[i + 1]
        BY <2>1, <3>1, DequeueKeeps
      <4> QED  BY <4>1, SMT
    <3>2. CASE queue' = <<>>
      <4>1. queue \in Seq(Message)
        BY DEF NodeTypeOK
      <4> HIDE DEF Message
      <4>2. 1 \in DOMAIN queue /\ Head(queue) = queue[1]
        BY <2>1, <4>1, SMT
      <4> QED  BY <3>2, <4>2, SMT
    <3> QED  BY <2>1, <3>1, <3>2
  <2>3. Head(queue).command = "AddTransaction"
    BY <2>2 DEF Synced
  <2>4. UNCHANGED blocks
    BY <2>1, <2>3 DEF Handle, AddUnsupportedTransaction, AddTransaction, disk, repositories
  <2> QED  BY <2>1, <2>2, <2>4 DEF Synced
<1>3. CASE Work
  <2>1. UNCHANGED <<phase, asked, queue>>
    BY <1>3 DEF Work, rpc, client
  <2>2. blocks = <<>> => UNCHANGED blocks
    BY <1>3 DEF Work, Start, GenesisState, GenesisEvm, BuildStep, DropPending, SkipInvalid,
       ApplyState, ApplyEvm, PushStateRoot, ExtendReceipts, ExtendTransactions, AddBlock,
       OnPayload, disk, repositories, Typed, PcOK, Building
  <2> QED  BY <2>1, <2>2 DEF Synced
<1>4. CASE EndProcess
  <2>1. UNCHANGED <<phase, asked, blocks>> /\ queue' = <<>>
    BY <1>4 DEF EndProcess, client, Crash, disk, repositories
  <2>2. DOMAIN queue' = {}
    BY <2>1, SMT
  <2> QED  BY <2>1, <2>2 DEF Synced
<1>5. GetGenesisBlock \/ (\E p \in Payload : ForkchoiceUpdated(p)) \/ GetPayload \/ NewPayload
        => phase' # "syncing"
  BY DEF GetGenesisBlock, ForkchoiceUpdated, GetPayload, NewPayload
<1>6. CASE UNCHANGED nodeVars
  BY <1>6 DEF nodeVars, vars, disk, repositories, rpc, client, Synced
<1> QED  BY <1>1, <1>2, <1>3, <1>4, <1>5, <1>6 DEF NodeNext, Synced

(* Every step keeps the client's id in line with its head and its request. *)
LEMMA AskedStep ==
    ASSUME NodeTypeOK, Synced, AskedOK, [NodeNext]_nodeVars PROVE AskedOK'
<1>1. ASSUME NEW p \in Payload, ForkchoiceUpdated(p) PROVE AskedOK'
  <2>1. /\ asked' = p /\ asked_id' = NewPayloadId(head, p.timestamp) /\ UNCHANGED head
    BY <1>1 DEF ForkchoiceUpdated
  <2>2. p # NoAttributes
    BY IdAssumption, SMT DEF NoAttributes
  <2> QED  BY <2>1, <2>2 DEF AskedOK, NewPayloadId, NoAttributes
<1>2. CASE GetGenesisBlock
  <2>1. /\ UNCHANGED <<asked, asked_id>>
        /\ \/ UNCHANGED <<phase, head>>
           \/ phase = "syncing" /\ phase' = "ready"
    BY <1>2 DEF GetGenesisBlock
  <2> QED  BY <2>1 DEF AskedOK, Synced, NewPayloadId, NoAttributes
<1>3. CASE GetPayload
  BY <1>3 DEF GetPayload, AskedOK, NewPayloadId, NoAttributes
<1>4. CASE NewPayload
  BY <1>4 DEF NewPayload, AskedOK, NoAttributes
<1>5. CASE UNCHANGED client
  BY <1>5 DEF client, AskedOK, NewPayloadId, NoAttributes
<1> QED  BY <1>1, <1>2, <1>3, <1>4, <1>5 DEF NodeNext, nodeVars, rpc, SendRawTransaction,
            HandleCommand, Work, EndProcess

(* Ids that are recorded stay recorded. *)
LEMMA PayloadsKept ==
    ASSUME [Next]_vars PROVE DOMAIN payloads \subseteq DOMAIN payloads'
<1>1. CASE OnPayload
  BY <1>1 DEF OnPayload, Put
<1>2. CASE UNCHANGED payloads
  BY <1>2
<1> QED  BY <1>1, <1>2, PayloadsStep

(* What the RPC handlers do. *)
Request ==
    \/ \E tx \in RawTx : SendRawTransaction(tx)
    \/ GetGenesisBlock
    \/ \E p \in Payload : ForkchoiceUpdated(p)
    \/ GetPayload \/ NewPayload

(* A request leaves the actor alone and the client's view of it intact.    *)
LEMMA RequestStep ==
    ASSUME RequestInv, Calm, Calm', Request
    PROVE  PayloadsNumbered' /\ Position' /\ QueueCurrent'
<1>0. /\ NodeTypeOK /\ Typed /\ ChainLinked /\ FreshBuild /\ Synced /\ AskedOK
      /\ PayloadsNumbered /\ Position /\ QueueCurrent
  BY DEF RequestInv, ListsInv, Requested
<1>1. UNCHANGED <<blocks, payloads, pc, build, pending, included, latest>>
  BY DEF Request, SendRawTransaction, GetGenesisBlock, ForkchoiceUpdated, GetPayload,
     NewPayload, vars, disk, repositories, memory, locals, latest
<1>2. PayloadsNumbered'
  BY <1>0, <1>1 DEF PayloadsNumbered
<1>3. \A tx : InBlock(tx)' <=> InBlock(tx)
  BY <1>1 DEF InBlock
<1>4. GenesisHash' = GenesisHash
  BY DEF GenesisHash
<1>5. ASSUME UNCHANGED client PROVE Position'
  BY <1>0, <1>1, <1>3, <1>4, <1>5 DEF client, Position, OnHead, OnChild, BuildsAsked, Carried,
     NoAttributes
<1>6. ASSUME NEW m \in Message, Enqueue(m), UNCHANGED <<asked, asked_id>>,
             m.command # "StartBlockBuild"
      PROVE  QueueCurrent'
  <2>1. /\ Len(queue) \in Nat /\ DOMAIN queue = 1..Len(queue)
        /\ DOMAIN queue' = 1..(Len(queue) + 1)
        /\ \A i \in DOMAIN queue : queue'[i] = queue[i]
        /\ queue'[Len(queue) + 1] = m
    BY <1>0, <1>6, EnqueueKeeps
  <2>2. \A i \in DOMAIN queue' : i \in DOMAIN queue \/ i = Len(queue) + 1
    BY <2>1, SMT
  <2> QED  BY <1>0, <1>1, <1>6, <2>1, <2>2 DEF QueueCurrent, NoAttributes
<1>7. ASSUME NEW tx \in RawTx, SendRawTransaction(tx) PROVE Position' /\ QueueCurrent'
  <2>1. /\ [command |-> "AddTransaction", tx |-> tx] \in Message
        /\ Enqueue([command |-> "AddTransaction", tx |-> tx]) /\ UNCHANGED client
    BY <1>7 DEF Message, SendRawTransaction
  <2> QED  BY <1>5, <1>6, <2>1 DEF client
<1>8. CASE GetGenesisBlock
  <2>1. /\ [command |-> "GenesisUpdate"] \in Message
        /\ Enqueue([command |-> "GenesisUpdate"]) /\ UNCHANGED <<asked, asked_id, fetched>>
        /\ \/ UNCHANGED <<phase, head>>
           \/ phase = "syncing" /\ phase' = "ready" /\ head' = GenesisHash
    BY <1>8 DEF Message, GetGenesisBlock
  <2>2. QueueCurrent'
    BY <1>6, <2>1
  <2>3. CASE UNCHANGED <<phase, head>>
    BY <1>2, <1>5, <2>1, <2>2, <2>3 DEF client
  <2>4. CASE phase = "syncing" /\ phase' = "ready" /\ head' = GenesisHash
    <3>1. blocks = <<>> /\ pc \notin Building
      BY <1>0, <2>4 DEF Synced, Typed, PcOK
    <3>2. OnHead'
      BY <1>1, <1>4, <2>4, <3>1 DEF OnHead
    <3> QED  BY <1>1, <1>2, <2>2, <2>4, <3>1, <3>2 DEF Position, Building
  <2> QED  BY <2>1, <2>3, <2>4
<1>9. ASSUME NEW p \in Payload, ForkchoiceUpdated(p) PROVE Position' /\ QueueCurrent'
  <2>1. /\ phase = "ready" /\ phase' = "building" /\ asked' = p
        /\ asked_id' = NewPayloadId(head, p.timestamp) /\ asked_id' \in PayloadId
        /\ UNCHANGED head
        /\ Enqueue([command |-> "StartBlockBuild", attributes |-> p, id |-> asked_id'])
        /\ changed' = (changed \/ asked \notin {NoAttributes, p})
    BY <1>9 DEF ForkchoiceUpdated
  <2>2. p # NoAttributes
    BY IdAssumption, SMT DEF NoAttributes
  <2>3. asked = NoAttributes \/ (asked = p /\ asked_id' = asked_id)
    BY <1>0, <2>1 DEF Calm, AskedOK
  <2>4. PICK m \in Message :
             m = [command |-> "StartBlockBuild", attributes |-> p, id |-> asked_id']
    BY <2>1 DEF Message
  <2>5. /\ Len(queue) \in Nat /\ DOMAIN queue = 1..Len(queue)
        /\ DOMAIN queue' = 1..(Len(queue) + 1)
        /\ \A i \in DOMAIN queue : queue'[i] = queue[i]
        /\ queue'[Len(queue) + 1] = m
    <3>1. Enqueue(m)
      BY <2>1, <2>4
    <3> QED  BY <1>0, <3>1, EnqueueKeeps
  <2>6. QueueCurrent'
    <3>1. \A i \in DOMAIN queue' : i \in DOMAIN queue \/ i = Len(queue) + 1
      BY <2>5, SMT
    <3>2. ASSUME NEW i \in DOMAIN queue', queue'[i].command = "StartBlockBuild"
          PROVE  \/ queue'[i].id \in DOMAIN payloads
                 \/ queue'[i].id = asked_id' /\ queue'[i].attributes = p
      <4>1. CASE i \in DOMAIN queue
        BY <1>0, <2>3, <2>5, <3>2, <4>1 DEF QueueCurrent
      <4>2. CASE i = Len(queue) + 1
        BY <2>4, <2>5, <4>2
      <4> QED  BY <3>1, <4>1, <4>2
    <3> QED  BY <1>1, <2>1, <2>2, <3>2 DEF QueueCurrent, NoAttributes
  <2>7. CASE asked = NoAttributes
    <3>1. OnHead /\ pc \notin Building
      BY <1>0, <2>1, <2>7 DEF Position, OnChild, BuildsAsked, Building
    <3>2. OnHead'
      BY <1>1, <1>4, <2>1, <3>1 DEF OnHead
    <3> QED  BY <1>1, <2>1, <2>6, <3>1, <3>2 DEF Position, Building
  <2>8. CASE asked = p /\ asked_id' = asked_id
    <3>1. (OnHead' <=> OnHead) /\ (OnChild' <=> OnChild) /\ (BuildsAsked' <=> BuildsAsked)
      BY <1>1, <1>3, <1>4, <2>1, <2>8 DEF OnHead, OnChild, BuildsAsked, Carried,
         NoAttributes
    <3> QED  BY <1>0, <1>1, <2>1, <2>6, <2>8, <3>1 DEF Position
  <2> QED  BY <2>3, <2>7, <2>8
<1>10. CASE GetPayload
  <2>1. /\ phase = "building" /\ UNCHANGED <<queue, head, asked, asked_id>>
        /\ \/ asked_id \in DOMAIN payloads /\ phase' = "sealed" /\ fetched' = payloads[asked_id]
           \/ phase' = "ready"
    BY <1>10 DEF GetPayload
  <2>2. QueueCurrent'
    BY <1>0, <1>1, <2>1 DEF QueueCurrent, NoAttributes
  <2>3. (OnHead' <=> OnHead) /\ (OnChild' <=> OnChild) /\ (BuildsAsked' <=> BuildsAsked)
    BY <1>1, <1>3, <1>4, <2>1 DEF OnHead, OnChild, BuildsAsked, Carried,
         NoAttributes
  <2>4. asked # NoAttributes /\ (OnHead \/ OnChild)
    BY <1>0, <2>1 DEF AskedOK, Position
  <2>5. asked_id \in DOMAIN payloads => OnChild /\ payloads[asked_id] = BlockHash(latest.header)
    BY <1>0, <2>4, RecordedIsChild
  <2> QED  BY <1>0, <1>1, <1>2, <2>1, <2>2, <2>3, <2>4, <2>5 DEF Position
<1>11. CASE NewPayload
  <2>1. /\ phase = "sealed" /\ phase' = "ready" /\ head' = fetched /\ asked' = NoAttributes
        /\ UNCHANGED <<queue, asked_id>>
    BY <1>11 DEF NewPayload
  <2>2. /\ OnChild /\ asked_id \in DOMAIN payloads /\ fetched = BlockHash(latest.header)
    BY <1>0, <2>1 DEF Position
  <2>3. pc \notin Building
    <3>1. ~OnHead
      BY <1>0, <2>2, HeadNotChild
    <3>2. pc # "payload"
      BY <1>0, <2>2 DEF Position, FreshBuild, Building
    <3> QED  BY <1>0, <3>1, <3>2 DEF Position
  <2>4. OnHead'
    <3>1. blocks # <<>>
      BY <2>2, SMT DEF OnChild
    <3> QED  BY <1>1, <2>1, <2>2, <3>1 DEF OnHead
  <2>5. QueueCurrent'
    BY <1>0, <1>1, <2>1, <2>2 DEF QueueCurrent
  <2> QED  BY <1>1, <1>2, <2>1, <2>3, <2>4, <2>5 DEF Position, Building
<1> QED  BY <1>2, <1>7, <1>8, <1>9, <1>10, <1>11 DEF Request

(* What the actor and the process do. *)
ActorStep == HandleCommand \/ Work \/ EndProcess

(* Recorded ids keep their block, and a new one is that of the newest.     *)
LEMMA NumberedStep ==
    ASSUME RequestInv, Calm, Calm', [NodeNext]_nodeVars PROVE PayloadsNumbered'
<1>0. /\ NodeTypeOK /\ Typed /\ ChainLinked /\ AskedOK /\ [Next]_vars
      /\ PayloadsNumbered /\ Position
  BY NodeStepIsStep DEF RequestInv, ListsInv, Requested
<1>1. \A i \in DOMAIN blocks : i \in DOMAIN blocks' /\ blocks'[i] = blocks[i]
  BY <1>0, BlocksKept
<1>2. CASE OnPayload
  <2>1. /\ payloads' = Put(payloads, {build.id}, LAMBDA id : BlockHash(latest.header))
        /\ pc = "payload" /\ UNCHANGED blocks
    BY <1>2 DEF OnPayload
  <2>2. OnChild /\ build.id = asked_id
    BY <1>0, <2>1 DEF Position
  <2> DEFINE n == Len(blocks)
  <2>3. /\ n \in Nat /\ DOMAIN blocks = 1..n /\ n > 1 /\ n \in DOMAIN blocks
        /\ head.keccak256.number = n - 2
    <3>1. n \in Nat /\ DOMAIN blocks = 1..n /\ head.keccak256.number = n - 2 /\ n > 1
      BY <1>0, <2>2, HeadNumber DEF OnChild
    <3> QED  BY <3>1, SMT
  <2>4. /\ asked_id = (n - 2) * IdBase + blocks[n].header.timestamp
        /\ blocks[n].header.timestamp \in 1..IdBase
    BY <1>0, <2>2, <2>3, IdAssumption DEF AskedOK, OnChild, NewPayloadId, latest
  <2>5. ASSUME NEW id \in DOMAIN payloads'
        PROVE  \/ id = asked_id /\ payloads'[id] = BlockHash(blocks[n].header)
               \/ id \in DOMAIN payloads /\ payloads'[id] = payloads[id]
    BY <2>1, <2>2 DEF Put, latest
  <2> QED  BY <1>0, <2>1, <2>3, <2>4, <2>5, ZenonT(40) DEF PayloadsNumbered
<1>3. CASE UNCHANGED payloads
  BY <1>0, <1>1, <1>3 DEF PayloadsNumbered
<1> QED  BY <1>0, <1>2, <1>3, PayloadsStep

(* The queue loses its oldest command, or all of them, or nothing. *)
LEMMA QueueStep ==
    ASSUME NodeTypeOK, ActorStep
    PROVE  \A i \in DOMAIN queue' : \E j \in DOMAIN queue : queue'[i] = queue[j]
<1>1. UNCHANGED queue \/ queue' = <<>> \/ (queue # <<>> /\ queue' = Tail(queue))
  BY DEF ActorStep, HandleCommand, Work, EndProcess, rpc
<1>2. CASE queue' = <<>>
  BY <1>2, SMT
<1>3. CASE queue # <<>> /\ queue' = Tail(queue)
  BY <1>3, DequeueKeeps
<1> QED  BY <1>1, <1>2, <1>3

(* The actor starts the build that the client asked for, and nothing else  *)
(* moves the client's head away from the newest block.                     *)
LEMMA PositionStep ==
    ASSUME RequestInv, Calm, Calm', [NodeNext]_nodeVars, ActorStep PROVE Position'
<1>0. /\ NodeTypeOK /\ Typed /\ ChainLinked /\ BuildLists /\ FreshBuild /\ Synced /\ AskedOK
      /\ PayloadsNumbered /\ Position /\ QueueCurrent /\ [Next]_vars
      /\ ListsInv /\ ~torn /\ ~torn'
  BY NodeStepIsStep DEF RequestInv, ListsInv, Requested, Calm
<1>1. /\ UNCHANGED client /\ GenesisHash' = GenesisHash /\ NoAttributes' = NoAttributes
      /\ DOMAIN payloads \subseteq DOMAIN payloads'
      /\ \A tx : InBlock(tx) => InBlock(tx)'
  BY <1>0, PayloadsKept, InBlockKept DEF ActorStep, HandleCommand, Work, EndProcess, rpc,
     GenesisHash, NoAttributes
<1>2. UNCHANGED <<phase, head, asked, asked_id, fetched>>
  BY <1>1 DEF client
<1>3. ASSUME UNCHANGED blocks
      PROVE  /\ latest' = latest /\ (OnHead' <=> OnHead)
             /\ OnChild /\ (asked_id \in DOMAIN payloads \/ pc' = "payload") => OnChild'
  BY <1>1, <1>2, <1>3 DEF OnHead, OnChild, latest
<1>4. CASE \E q \in Payload, id \in PayloadId : StartBlockBuild(q, id) /\ HandleCommand
  <2>1. queue # <<>> /\ Handle(Head(queue))
    BY <1>4 DEF HandleCommand
  <2>2. pc = "idle" /\ pc' = "execute" /\ UNCHANGED blocks
    BY <1>4 DEF StartBlockBuild, disk, repositories
  <2> DEFINE m == Head(queue)
  <2>3. m.command = "StartBlockBuild" /\ StartBlockBuild(m.attributes, m.id)
    BY <2>1, <2>2 DEF Handle, AddUnsupportedTransaction, AddTransaction, GenesisUpdate,
       BuildKnownPayload, BuildWithoutParent, vars
  <2>4. 1 \in DOMAIN queue /\ m = queue[1]
    <3>1. queue \in Seq(Message)
      BY <1>0 DEF NodeTypeOK
    <3> HIDE DEF Message
    <3> QED  BY <2>1, <3>1, SMT
  <2>5. m.id = asked_id /\ m.attributes = asked /\ asked # NoAttributes
        /\ asked_id \notin DOMAIN payloads
    BY <1>0, <2>3, <2>4 DEF QueueCurrent, StartBlockBuild, IsKnown
  <2> HIDE DEF m
  <2>6. OnHead
    <3>1. phase # "syncing"
      BY <1>0, <2>5 DEF Synced
    <3> QED  BY <1>0, <2>2, <2>5, <3>1 DEF Position, OnChild
  <2>7. build' = [id |-> asked_id, timestamp |-> asked.timestamp]
    BY <2>3, <2>5 DEF StartBlockBuild
  <2>8. Range(asked.transactions) \subseteq Range(pending')
    <3>1. PICK drained \in DrainOrders(mem_pool) : pending' = asked.transactions \o drained
      BY <2>3, <2>5 DEF StartBlockBuild
    <3>2. drained \in Seq(Tx \cup {Undecodable})
      <4>1. mem_pool \in SUBSET (Tx \cup {Undecodable}) /\ IsFiniteSet(mem_pool)
        BY <1>0 DEF Typed, TypeOK, Canonical
      <4> QED  BY <4>1, DrainOrdersType
    <3>3. PICK listed \in Seq(Tx \cup {Undecodable}) : listed = asked.transactions
      BY <1>0, <2>5, PayloadAssumption DEF AskedOK
    <3>4. Range(listed \o drained) = Range(listed) \cup Range(drained)
      BY <3>2, RangeConcatenation
    <3> QED  BY <3>1, <3>3, <3>4
  <2>9. BuildsAsked'
    BY <1>1, <1>2, <2>5, <2>7, <2>8 DEF BuildsAsked, Carried
  <2>10. phase # "sealed"
    BY <1>0, <2>5 DEF Position
  <2> QED  BY <1>2, <1>3, <2>2, <2>6, <2>9, <2>10 DEF Position, Building
<1>5. CASE DropPending \/ SkipInvalid \/ ApplyState
  <2>1. /\ pc = "execute" /\ pc' \in {"execute", "evm"} /\ UNCHANGED <<blocks, build, payloads>>
    BY <1>5 DEF DropPending, SkipInvalid, ApplyState, disk, repositories
  <2>2. OnHead /\ BuildsAsked /\ ~OnChild
    <3>1. OnHead /\ BuildsAsked
      BY <1>0, <2>1 DEF Position, Building
    <3> QED  BY <1>0, <3>1, HeadNotChild
  <2>3. \A tx \in Range(asked.transactions) \ {Undecodable} : Carried(tx)'
    <3>1. asked.transactions \in Seq(Tx \cup {Undecodable})
      BY <1>0, <2>2, PayloadAssumption DEF AskedOK, BuildsAsked
    <3>2. Range(asked.transactions) \ {Undecodable} \subseteq Tx
      BY <3>1, RangeOfSeq
    <3> QED  BY <1>0, <1>5, <2>2, <3>2, ExecutionCarries DEF BuildsAsked
  <2>4. BuildsAsked'
    BY <1>1, <1>2, <2>1, <2>2, <2>3 DEF BuildsAsked
  <2> QED  BY <1>0, <1>2, <1>3, <2>1, <2>2, <2>4 DEF Position, Building
<1>6. CASE AddBlock
  <2>1. /\ pc = "block" /\ pc' = "payload" /\ UNCHANGED <<payloads, build>>
    BY <1>6 DEF AddBlock, memory, locals
  <2>2. OnHead /\ BuildsAsked /\ ~OnChild /\ pending = <<>> /\ blocks # <<>>
    <3>1. OnHead /\ BuildsAsked /\ pending = <<>> /\ blocks # <<>>
      BY <1>0, <2>1 DEF Position, Building, BuildLists, Typed, PcOK
    <3> QED  BY <1>0, <3>1, HeadNotChild
  <2> DEFINE n == Len(blocks)
  <2>3. /\ n \in Nat \ {0} /\ DOMAIN blocks' = 1..(n + 1)
        /\ blocks'[n + 1] = [header |-> NewHeader, payload_id |-> build.id]
        /\ n + 1 > 1
    <3>1. /\ n \in Nat \ {0} /\ DOMAIN blocks' = 1..(n + 1)
          /\ blocks'[n + 1] = [header |-> NewHeader, payload_id |-> build.id]
      BY <1>0, <1>6, AddBlockChain
    <3> QED  BY <3>1, SMT
  <2>4. Len(blocks') = n + 1 /\ n + 1 \in DOMAIN blocks'
    <3>1. blocks' \in Seq(Range(blocks'))
      BY <1>0, NextTyped DEF Typed, TypeOK
    <3> QED  BY <2>3, <3>1, SMT
  <2> HIDE DEF n
  <2>5. /\ latest'.header.parent_hash = head
        /\ latest'.header.timestamp = asked.timestamp
        /\ latest'.header.transactions = included
    BY <2>2, <2>3, <2>4 DEF latest, NewHeader, OnHead, BuildsAsked
  <2>6. \A tx \in Range(asked.transactions) \ {Undecodable} : InBlock(tx)'
    <3>1. \A tx \in Range(included) : InBlock(tx)'
      BY <2>4, <2>5 DEF InBlock, latest
    <3>2. Range(pending) = {}
      BY <2>2 DEF Range
    <3> QED  BY <1>1, <2>2, <3>1, <3>2 DEF BuildsAsked, Carried
  <2>7. OnChild'
    BY <1>1, <1>2, <2>1, <2>2, <2>3, <2>4, <2>5, <2>6 DEF OnChild, BuildsAsked
  <2>8. phase # "sealed"
    BY <1>0, <2>2 DEF Position
  <2> QED  BY <1>2, <2>1, <2>2, <2>7, <2>8 DEF Position, Building, BuildsAsked
<1>7. CASE OnPayload
  <2>1. /\ pc = "payload" /\ pc' = "idle" /\ UNCHANGED blocks
        /\ payloads' = Put(payloads, {build.id}, LAMBDA id : BlockHash(latest.header))
    BY <1>7 DEF OnPayload
  <2>2. OnChild /\ build.id = asked_id
    BY <1>0, <2>1 DEF Position
  <2>3. asked_id \in DOMAIN payloads'
    BY <2>1, <2>2 DEF Put
  <2>4. OnChild' /\ latest' = latest
    BY <1>1, <1>2, <2>1, <2>2, <2>3 DEF OnChild, latest
  <2> QED  BY <1>0, <1>2, <2>1, <2>3, <2>4 DEF Position, Building
<1>8. CASE GenesisUpdate
  <2>1. pc = "idle" /\ pc' = "idle"
    BY <1>8 DEF GenesisUpdate
  <2>2. /\ blocks # <<>> => Len(blocks') = Len(blocks)
        /\ blocks = <<>> => blocks' = <<GenesisBlock>>
        /\ blocks' # <<>>
    BY <1>0, <1>8, GenesisUpdateChain DEF Typed
  <2>3. CASE blocks = <<>>
    <3>1. ~OnChild
      BY <2>3, SMT DEF OnChild
    <3>2. latest' = GenesisBlock
      <4>1. Len(blocks') = 1 /\ blocks'[1] = GenesisBlock
        BY <2>2, <2>3, SMT
      <4> QED  BY <4>1 DEF latest
    <3>3. OnHead => OnHead'
      BY <1>2, <2>2, <2>3, <3>2 DEF OnHead, GenesisHash
    <3> QED  BY <1>0, <1>2, <2>1, <3>1, <3>3 DEF Position, Building
  <2>4. CASE blocks # <<>>
    <3>1. latest' = latest
      <4>1. Len(blocks) \in DOMAIN blocks
        BY <1>0, <2>4, SMT DEF Typed, TypeOK
      <4> QED  BY <1>0, <2>2, <2>4, <4>1, BlocksKept DEF latest
    <3>2. OnHead => OnHead'
      BY <1>2, <2>2, <2>4, <3>1 DEF OnHead
    <3>3. OnChild => OnChild'
      BY <1>1, <1>2, <2>1, <2>2, <2>4, <3>1 DEF OnChild
    <3> QED  BY <1>0, <1>1, <1>2, <2>1, <3>1, <3>2, <3>3 DEF Position, Building
  <2> QED  BY <2>3, <2>4
<1>9. ASSUME UNCHANGED blocks, pc' \in Building => UNCHANGED <<build, pending, included>>,
             pc' \in Building => pc \in Building, pc # "payload", pc' # "payload"
      PROVE  Position'
  <2>1. OnChild => OnChild'
    BY <1>3, <1>9 DEF OnChild
  <2>2. pc' \in Building /\ BuildsAsked => BuildsAsked'
    BY <1>1, <1>2, <1>9 DEF BuildsAsked, Carried
  <2> QED  BY <1>0, <1>1, <1>2, <1>3, <1>9, <2>1, <2>2 DEF Position
<1>10. CASE Crash
  <2>1. /\ UNCHANGED blocks /\ pc' \in {"down", "panicked"}
        /\ torn' = (torn \/ pc \in {"receipts", "transactions", "block", "payload"}
                         \/ executed # <<>>)
    BY <1>10 DEF Crash, Kill, ExecutionPanics, disk, repositories
  <2>2. pc # "payload"
    BY <1>0, <2>1
  <2> QED  BY <1>9, <2>1, <2>2 DEF Building
<1>11. CASE Start \/ GenesisState \/ GenesisEvm \/ ApplyEvm \/ PushStateRoot
             \/ ExtendReceipts \/ ExtendTransactions
  <2>1. /\ UNCHANGED <<blocks, build, pending, included>>
        /\ pc' \in Building => pc \in Building
        /\ pc # "payload" /\ pc' # "payload"
    BY <1>11 DEF Start, GenesisState, GenesisEvm, ApplyEvm, PushStateRoot, ExtendReceipts,
       ExtendTransactions, disk, repositories, memory, locals, Building
  <2> QED  BY <1>9, <2>1
<1>12. CASE HandleCommand /\ ~(\E q \in Payload, id \in PayloadId : StartBlockBuild(q, id))
            /\ ~GenesisUpdate
  <2>1. \/ AddUnsupportedTransaction
        \/ \E t \in Canonical : AddTransaction(t)
        \/ \E id \in PayloadId : BuildKnownPayload(id) \/ BuildWithoutParent(id)
    BY <1>0, <1>12, HandleIsCommand DEF Command
  <2>2. UNCHANGED blocks /\ pc = "idle" /\ pc' \in {"idle", "panicked"}
    BY <2>1 DEF AddUnsupportedTransaction, AddTransaction, BuildKnownPayload,
       BuildWithoutParent, disk, repositories, vars
  <2> QED  BY <1>9, <2>2 DEF Building
<1> QED  BY <1>4, <1>5, <1>6, <1>7, <1>8, <1>10, <1>11, <1>12 DEF ActorStep, Work, BuildStep,
            EndProcess

(* Every step keeps the client's request in line with what is built.       *)
LEMMA RequestedStep ==
    ASSUME RequestInv, [NodeNext]_nodeVars PROVE Requested'
<1> SUFFICES ASSUME Calm' PROVE PayloadsNumbered' /\ Position' /\ QueueCurrent'
  BY DEF Requested
<1>1. Calm
  BY CalmStep
<1>2. CASE Request
  BY <1>1, <1>2, RequestStep
<1>3. CASE ActorStep
  <2>1. PayloadsNumbered' /\ Position'
    BY <1>1, <1>3, NumberedStep, PositionStep
  <2>2. /\ \A i \in DOMAIN queue' : \E j \in DOMAIN queue : queue'[i] = queue[j]
        /\ DOMAIN payloads \subseteq DOMAIN payloads'
    BY <1>3, QueueStep, PayloadsKept, NodeStepIsStep DEF RequestInv
  <2>3. UNCHANGED <<asked, asked_id>> /\ QueueCurrent
    BY <1>1, <1>3 DEF ActorStep, HandleCommand, Work, EndProcess, rpc, client, RequestInv,
       Requested
  <2>4. QueueCurrent'
    BY <2>2, <2>3 DEF QueueCurrent, NoAttributes
  <2> QED  BY <2>1, <2>4
<1>4. CASE UNCHANGED nodeVars
  <2>1. /\ UNCHANGED <<blocks, payloads, pc, build, pending, included, queue>>
        /\ UNCHANGED <<phase, head, asked, asked_id, fetched>>
    BY <1>4 DEF nodeVars, vars, disk, repositories, memory, locals, rpc, client
  <2>2. PayloadsNumbered /\ Position /\ QueueCurrent
    BY <1>1 DEF RequestInv, Requested
  <2>3. PayloadsNumbered' /\ QueueCurrent'
    BY <2>1, <2>2 DEF PayloadsNumbered, QueueCurrent, NoAttributes
  <2>4. Position'
    BY <2>1, <2>2 DEF Position, OnHead, OnChild, BuildsAsked, Carried, InBlock, latest,
       GenesisHash, NoAttributes
  <2> QED  BY <2>3, <2>4
<1> QED  BY <1>2, <1>3, <1>4 DEF NodeNext, Request, ActorStep

(* A client that repeats its requests unchanged gets, as long as no build  *)
(* was torn, the block it asked for: on the head it named, with its        *)
(* timestamp and its transactions, whatever others submit in between and   *)
(* however often it asks again or the process restarts.                    *)
THEOREM BuiltAsRequested == NodeSpec => []CleanAsRequested
<1>1. NodeInit => Synced /\ AskedOK /\ Requested /\ FreshBuild
  <2>1. NodeInit => Synced /\ AskedOK /\ FreshBuild
    BY SMT DEF NodeInit, Init, Synced, AskedOK, FreshBuild, Building
  <2>2. NodeInit => Requested
    BY SMT DEF NodeInit, Init, Requested, PayloadsNumbered, Position, QueueCurrent, Building
  <2> QED  BY <2>1, <2>2
<1>2. NodeSpec => []NodeTypeOK /\ []ListsInv /\ []FreshInv
  BY NodeTypeCorrect, NodeImplementsApplication, ListsAlways, FreshAlways, PTL
<1>3. FreshInv => FreshBuild
  BY DEF FreshInv
<1>4. ListsInv => Typed
  BY DEF ListsInv
<1>5. NodeTypeOK /\ Typed /\ Synced /\ [NodeNext]_nodeVars => Synced'
  BY SyncedStep
<1>6. NodeTypeOK /\ Synced /\ AskedOK /\ [NodeNext]_nodeVars => AskedOK'
  BY AskedStep
<1>7. NodeTypeOK /\ ListsInv /\ FreshBuild /\ Synced /\ AskedOK /\ Requested
        /\ [NodeNext]_nodeVars => Requested'
  BY RequestedStep DEF RequestInv
<1>8. ListsInv /\ Requested => CleanAsRequested
  <2> SUFFICES ASSUME ListsInv, Requested, Calm, phase = "sealed"
               PROVE  \E i \in DOMAIN blocks :
                         /\ fetched = BlockHash(blocks[i].header)
                         /\ blocks[i].header.parent_hash = head
                         /\ blocks[i].header.timestamp = asked.timestamp
                         /\ \A tx \in Range(asked.transactions) \ {Undecodable} :
                               \E j \in 1..i : tx \in Range(blocks[j].header.transactions)
    BY DEF CleanAsRequested, Calm
  <2>1. OnChild /\ fetched = BlockHash(latest.header)
    BY DEF Requested, Position
  <2>2. Len(blocks) \in DOMAIN blocks /\ DOMAIN blocks = 1..Len(blocks)
    BY <2>1, SMT DEF ListsInv, Typed, TypeOK, OnChild
  <2> QED  BY <2>1, <2>2 DEF OnChild, InBlock, latest
<1> QED  BY <1>1, <1>2, <1>3, <1>4, <1>5, <1>6, <1>7, <1>8, PTL DEF NodeSpec
=============================================================================
