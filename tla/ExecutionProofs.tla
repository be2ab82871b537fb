--------------------------- MODULE ExecutionProofs ---------------------------
(***************************************************************************)
(* Proofs about Execution, for any number of accounts, contracts, slots,   *)
(* calls and transactions, and whether or not the treasury shares the      *)
(* account of the EVM native.                                              *)
(***************************************************************************)
EXTENDS Execution, TLAPS, SequenceTheorems, FiniteSetTheorems, SeqOpsProofs

-----------------------------------------------------------------------------
(***************************************************************************)
(* Storage roots.  Between the two halves of a commit the account          *)
(* information is ahead: it has the roots that the tries are about to get. *)
(***************************************************************************)
RootsInv ==
    \A c \in Contract :
        info[c].storage_root =
            IF pc = "tries" /\ TouchedBy(c) # {} THEN NewRoot(c) ELSE tries[c]

(* All steps but the two of a commit leave roots and tries alone. *)
LEMMA OnlyCommitsTouchRoots ==
    ASSUME Next, ~CommitState, ~CommitTries
    PROVE  \/ pc' # "tries" /\ pc # "tries" /\ UNCHANGED <<info, tries>>
           \/ UNCHANGED vars
<1>1. CASE \E u \in User, limit \in IntrinsicGas..MaxLimit, l1 \in Amount :
              VerifyTransaction(u, limit, l1)
  BY <1>1 DEF VerifyTransaction, state
<1>2. CASE \E to \in Account, n \in Amount : TransferToken(to, n)
  BY <1>2 DEF TransferToken, state
<1>3. CASE \E to \in Account, n \in Amount : \E e \in Effects(to) :
              EvmCall(to, n, e)
  BY <1>3 DEF EvmCall, state
<1>4. CASE \E to \in Account, n \in Amount : \E e \in Effects(to) :
              \E u \in User, mint \in Amount : Deposit(u, to, n, mint, e)
  BY <1>4 DEF Deposit, state
<1>5. CASE EndVm \/ AbortVm \/ InvalidInVm
  BY <1>5 DEF EndVm, AbortVm, InvalidInVm, state
<1>6. CASE MintEth \/ MintFails \/ DepositAborts
  BY <1>6 DEF MintEth, MintFails, DepositAborts, state
<1>7. CASE ReplicateTransfer \/ ReplicateFails \/ ReplicateDone
  BY <1>7 DEF ReplicateTransfer, ReplicateFails, ReplicateDone, state
<1>8. CASE \E used \in IntrinsicGas..MaxLimit : Refund(used)
  BY <1>8 DEF Refund, state
<1>9. CASE RejectTransaction
  BY <1>9 DEF RejectTransaction
<1> QED  BY <1>1, <1>2, <1>3, <1>4, <1>5, <1>6, <1>7, <1>8, <1>9, Zenon DEF Next

(* The first half of a commit gives touched contracts their new roots. *)
LEMMA CommitStateKeepsRoots ==
    ASSUME RootsInv, CommitState PROVE RootsInv'
<1>1. /\ pc = "commit" /\ pc' = "tries" /\ UNCHANGED <<tries, calls>>
      /\ info' = [c \in Contract |->
                   IF TouchedBy(c) = {} THEN info[c]
                   ELSE [balance |-> LastChange(c).balance, storage_root |-> NewRoot(c)]]
  BY DEF CommitState, log
<1> SUFFICES ASSUME NEW c \in Contract
             PROVE  info'[c].storage_root =
                        IF TouchedBy(c)' # {} THEN NewRoot(c)' ELSE tries'[c]
  BY <1>1 DEF RootsInv
<1>2. TouchedBy(c)' = TouchedBy(c) /\ NewRoot(c)' = NewRoot(c)
  BY <1>1 DEF TouchedBy, NewRoot, LastChange, Overlay
<1>3. info[c].storage_root = tries[c]
  BY <1>1 DEF RootsInv
<1> HIDE DEF TouchedBy, NewRoot, LastChange
<1> QED  BY <1>1, <1>2, <1>3

(* The second half brings the tries up to them. *)
LEMMA CommitTriesKeepsRoots ==
    ASSUME RootsInv, CommitTries PROVE RootsInv'
<1>1. /\ pc = "tries" /\ pc' = "idle" /\ UNCHANGED info
      /\ tries' = [c \in Contract |-> IF TouchedBy(c) = {} THEN tries[c] ELSE NewRoot(c)]
  BY DEF CommitTries
<1> HIDE DEF TouchedBy, NewRoot
<1> QED  BY <1>1 DEF RootsInv

(* The storage root that the state holds for a contract is the root of its *)
(* storage trie whenever no commit is half done: after sessions with one   *)
(* EVM call, several, or failed ones (extract_evm_changes, command.rs).    *)
THEOREM RootsAlwaysMatch == Spec => []RootsMatchTries
<1>1. Init => RootsInv
  BY DEF Init, RootsInv
<1>2. RootsInv /\ [Next]_vars => RootsInv'
  <2> SUFFICES ASSUME RootsInv, [Next]_vars PROVE RootsInv'
    OBVIOUS
  <2>1. CASE CommitState
    BY <2>1, CommitStateKeepsRoots
  <2>2. CASE CommitTries
    BY <2>2, CommitTriesKeepsRoots
  <2>3. CASE UNCHANGED vars
    <3>1. UNCHANGED <<pc, info, tries, calls>>
      BY <2>3 DEF vars, state, session, log
    <3> QED  BY <3>1 DEF RootsInv, TouchedBy, NewRoot, LastChange, Overlay
  <2>4. CASE Next /\ ~CommitState /\ ~CommitTries
    <3>1. CASE pc' # "tries" /\ pc # "tries" /\ UNCHANGED <<info, tries>>
      BY <3>1 DEF RootsInv
    <3> QED  BY <2>3, <2>4, <3>1, OnlyCommitsTouchRoots
  <2> QED  BY <2>1, <2>2, <2>3, <2>4
<1>3. RootsInv => RootsMatchTries
  BY DEF RootsInv, RootsMatchTries
<1> QED  BY <1>1, <1>2, <1>3, PTL DEF Spec

-----------------------------------------------------------------------------
(***************************************************************************)
(* The refund.  The treasury may be the account from which the values of   *)
(* EVM calls are handed back, so what it is charged for gas has to be kept *)
(* apart from what it still owes to the origins of calls: f[i] is what it  *)
(* owes after the first i of them.                                         *)
(***************************************************************************)
Party == User \cup Contract
OriginRecord == [from : {Native}, to : User, amount : Nat]
TransferRecord == [from : Party, to : Account, amount : Nat]
TxRecord == [kind : {"none", "canonical", "deposit"}, sender : User \cup {Native},
             limit : Nat, l1 : Nat, mint : Nat]

MoneyTyped ==
    /\ token \in [Account -> Nat] /\ balances \in [Account -> Nat]
    /\ tx \in TxRecord
    /\ origins \in Seq(OriginRecord) /\ transfers \in Seq(TransferRecord)

PhaseOK ==
    /\ pc \in {"vm", "refund"} => tx.kind = "canonical"
    /\ pc = "mint" => tx.kind = "deposit"
    /\ tx.kind = "canonical" => tx.sender \in User
    /\ pc = "vm" => token[tx.sender] >= tx.l1 + tx.limit
    /\ pc = "idle" => origins = <<>>

IsOwed(f, s) ==
    /\ f \in [0..Len(s) -> Nat]
    /\ f[Len(s)] = 0
    /\ \A i \in 1..Len(s) : f[i - 1] = f[i] + s[i].amount

Keeps(b, m, f) == b[Treasury] >= m + (IF Treasury = Native THEN f[0] ELSE 0)

Covered ==
    (pc \in {"vm", "replicate"} /\ tx.kind = "canonical") =>
        \E f : IsOwed(f, origins) /\ Keeps(balances, tx.limit, f)

RefundInv == MoneyTyped /\ PhaseOK /\ Covered /\ RefundSucceeds

(* Nothing is owed when there is no origin. *)
LEMMA OwedNothing == IsOwed([i \in 0..0 |-> 0], <<>>)
BY DEF IsOwed

(* One more call: its value is owed from the beginning. *)
LEMMA OwedAppend ==
    ASSUME NEW s \in Seq(OriginRecord), NEW f, IsOwed(f, s), NEW x \in OriginRecord
    PROVE  \E g : IsOwed(g, Append(s, x)) /\ g[0] = f[0] + x.amount
<1> DEFINE n == Len(s)
           t == Append(s, x)
           g == [i \in 0..(n + 1) |-> IF i = n + 1 THEN 0 ELSE f[i] + x.amount]
<1>1. /\ n \in Nat /\ x.amount \in Nat /\ f \in [0..n -> Nat] /\ f[n] = 0
      /\ \A i \in 1..n : f[i - 1] = f[i] + s[i].amount
  BY DEF IsOwed, OriginRecord
<1>2. /\ Len(t) = n + 1 /\ t[n + 1] = x
      /\ \A i \in 1..n : t[i] = s[i]
  BY <1>1
<1>3. \A i \in 1..n : s[i].amount \in Nat
  <2>1. \A i \in 1..n : s[i] \in OriginRecord
    OBVIOUS
  <2> QED  BY <2>1 DEF OriginRecord
<1> HIDE DEF n, t
<1>4. g \in [0..(n + 1) -> Nat] /\ g[n + 1] = 0 /\ g[0] = f[0] + x.amount
  BY <1>1
<1>5. ASSUME NEW i \in 1..(n + 1) PROVE g[i - 1] = g[i] + t[i].amount
  <2>1. CASE i = n + 1
    BY <1>1, <1>2, <2>1
  <2>2. CASE i # n + 1
    <3>1. i \in 1..n /\ i - 1 \in 0..n /\ i \in 0..n
      BY <1>1, <2>2
    <3>2. f[i - 1] = f[i] + s[i].amount /\ t[i] = s[i] /\ s[i].amount \in Nat
      BY <1>1, <1>2, <1>3, <3>1
    <3>3. f[i - 1] \in Nat /\ f[i] \in Nat
      BY <1>1, <3>1
    <3>4. g[i - 1] = f[i - 1] + x.amount /\ g[i] = f[i] + x.amount
      BY <1>1, <3>1
    <3> HIDE DEF g
    <3>5. x.amount \in Nat
      BY <1>1
    <3> QED  BY <3>2, <3>3, <3>4, <3>5
  <2> QED  BY <2>1, <2>2
<1> HIDE DEF g
<1>6. IsOwed(g, t)
  BY <1>2, <1>4, <1>5 DEF IsOwed
<1> QED  BY <1>4, <1>6 DEF t

(* One origin is paid: that much less is owed. *)
LEMMA OwedTail ==
    ASSUME NEW s \in Seq(OriginRecord), s # <<>>, NEW f, IsOwed(f, s)
    PROVE  \E g : IsOwed(g, Tail(s)) /\ f[0] = g[0] + Head(s).amount /\ g[0] \in Nat
<1> DEFINE n == Len(s)
           t == Tail(s)
           g == [i \in 0..(n - 1) |-> f[i + 1]]
<1>1. /\ n \in Nat /\ n >= 1 /\ f \in [0..n -> Nat] /\ f[n] = 0
      /\ \A i \in 1..n : f[i - 1] = f[i] + s[i].amount
  BY DEF IsOwed
<1>2. /\ Len(t) = n - 1 /\ Head(s) = s[1]
      /\ \A i \in 1..(n - 1) : t[i] = s[i + 1]
  BY <1>1
<1> HIDE DEF n, t
<1>3. g \in [0..(n - 1) -> Nat] /\ g[n - 1] = 0 /\ f[0] = g[0] + Head(s).amount
  BY <1>1, <1>2
<1>4. ASSUME NEW i \in 1..(n - 1) PROVE g[i - 1] = g[i] + t[i].amount
  <2>1. i + 1 \in 1..n /\ (i + 1) - 1 = i /\ (i - 1) + 1 = i /\ i \in 0..(n - 1)
        /\ i - 1 \in 0..(n - 1)
    BY <1>1
  <2>2. f[i] = f[i + 1] + s[i + 1].amount
    BY <1>1, <2>1
  <2>3. g[i - 1] = f[i] /\ g[i] = f[i + 1]
    BY <2>1
  <2> QED  BY <1>2, <2>2, <2>3
<1>5. g[0] \in Nat
  BY <1>1, <1>3
<1> HIDE DEF g
<1>6. IsOwed(g, t)
  BY <1>2, <1>3, <1>4 DEF IsOwed
<1> QED  BY <1>3, <1>5, <1>6 DEF t

(* A payment that the payer can make keeps balances natural numbers; the   *)
(* payer loses the amount and nobody else loses anything.                  *)
LEMMA PaidTyped ==
    ASSUME NEW b \in [Account -> Nat], NEW from \in Account, NEW to \in Account,
           NEW n \in Nat, b[from] >= n
    PROVE  /\ Paid(b, from, to, n) \in [Account -> Nat]
           /\ Paid(b, from, to, n)[from] >= b[from] - n
           /\ \A a \in Account \ {from} : Paid(b, from, to, n)[a] >= b[a]
           /\ from # to => Paid(b, from, to, n)[to] = b[to] + n
BY DEF Paid

(* What the environment chooses is of the right kind. *)
LEMMA InputsTyped ==
    /\ Amount \subseteq Nat
    /\ IntrinsicGas..MaxLimit \subseteq Nat
    /\ \A to \in Account : \A e \in Effects(to) :
          e.amount \in Nat /\ e.payee \in Account /\ (to \notin Contract => e.amount = 0)
<1>1. MaxAmount \in Nat /\ MaxLimit \in Nat /\ IntrinsicGas \in Nat
  BY AmountAssumption
<1>2. Amount \subseteq Nat /\ IntrinsicGas..MaxLimit \subseteq Nat
  BY <1>1 DEF Amount
<1>3. ASSUME NEW to \in Account, NEW e \in Effects(to)
      PROVE  e.amount \in Nat /\ e.payee \in Account /\ (to \notin Contract => e.amount = 0)
  <2>1. CASE e \in {Idle(TRUE, to), Idle(FALSE, to)}
    BY <2>1 DEF Idle
  <2>2. CASE to \in Contract /\ e \in [success : {TRUE}, writes : Writes,
                                       payee : Account, amount : Amount]
    BY <1>2, <2>2
  <2> QED  BY <2>1, <2>2 DEF Effects
<1> QED  BY <1>2, <1>3

(* Parties, the EVM native and the treasury are accounts, and neither of   *)
(* the last two is a party.                                                *)
LEMMA Accounts ==
    /\ Party \subseteq Account /\ User \subseteq Party
    /\ Native \in Account \ Party /\ Treasury \in Account \ Party
BY AccountAssumption DEF Party, Account

(* What a call notes: its origin, and payments that parties make. *)
LEMMA TransactTyped ==
    ASSUME MoneyTyped, NEW from \in User, NEW to \in Account, NEW value \in Amount,
           NEW e \in Effects(to), Transact(from, to, value, e)
    PROVE  /\ [from |-> Native, to |-> from, amount |-> value] \in OriginRecord
           /\ origins' = Append(origins, [from |-> Native, to |-> from, amount |-> value])
           /\ origins' \in Seq(OriginRecord)
           /\ transfers' \in Seq(TransferRecord)
<1>1. /\ value \in Nat /\ e.amount \in Nat /\ e.payee \in Account /\ from \in Party
      /\ e.amount = 0 \/ to \in Party
  BY InputsTyped, Accounts DEF Party
<1>2. [from |-> Native, to |-> from, amount |-> value] \in OriginRecord
  BY <1>1 DEF OriginRecord
<1>3. origins' = Append(origins, [from |-> Native, to |-> from, amount |-> value])
  BY DEF Transact
<1>4. origins \in Seq(OriginRecord) /\ transfers \in Seq(TransferRecord)
  BY DEF MoneyTyped
<1>5. origins' \in Seq(OriginRecord)
  BY <1>2, <1>3, <1>4, AppendProperties
<1>6. ASSUME NEW p, NEW q \in Account, NEW n \in Nat, n = 0 \/ p \in Party
      PROVE  Moved(p, q, n) \in Seq(TransferRecord)
  <2> DEFINE r == [from |-> p, to |-> q, amount |-> n]
  <2>1. n # 0 => r \in TransferRecord
    BY <1>6 DEF TransferRecord
  <2> HIDE DEF r
  <2>2. (n # 0 => <<r>> \in Seq(TransferRecord)) /\ <<>> \in Seq(TransferRecord)
    BY <2>1
  <2> QED  BY <2>2 DEF Moved, r
<1>7. Journal(from, to, value, e) \in Seq(TransferRecord)
  BY <1>1, <1>6, ConcatProperties DEF Journal
<1>8. transfers' \in Seq(TransferRecord)
  BY <1>4, <1>7, ConcatProperties DEF Transact
<1> QED  BY <1>2, <1>3, <1>5, <1>8

(* A canonical transaction starts with the treasury charged and no origin. *)
LEMMA VerifyKeepsRefund ==
    ASSUME RefundInv, NEW u \in User, NEW limit \in IntrinsicGas..MaxLimit,
           NEW l1 \in Amount, VerifyTransaction(u, limit, l1)
    PROVE  RefundInv'
<1>1. limit \in Nat /\ l1 \in Nat /\ l1 + limit \in Nat
  BY InputsTyped
<1>2. /\ tx' = [kind |-> "canonical", sender |-> u, limit |-> limit, l1 |-> l1, mint |-> 0]
      /\ balances' = Paid(token, u, Treasury, l1 + limit)
      /\ pc = "idle" /\ pc' = "vm" /\ UNCHANGED <<token, origins, transfers>>
      /\ token[u] >= l1 + limit
  BY DEF VerifyTransaction, state, log
<1>3. token \in [Account -> Nat] /\ origins = <<>>
  BY <1>2 DEF RefundInv, MoneyTyped, PhaseOK
<1>4. u \in Account /\ Treasury \in Account /\ u # Treasury
  BY Accounts
<1>5. balances' \in [Account -> Nat] /\ balances'[Treasury] = token[Treasury] + (l1 + limit)
  BY <1>1, <1>2, <1>3, <1>4, PaidTyped
<1>6. MoneyTyped'
  BY <1>1, <1>2, <1>5 DEF RefundInv, MoneyTyped, TxRecord
<1>7. PhaseOK'
  BY <1>1, <1>2 DEF PhaseOK
<1>8. Covered'
  <2> DEFINE f == [i \in 0..0 |-> 0]
  <2>1. IsOwed(f, origins') /\ f[0] = 0
    BY <1>2, <1>3, OwedNothing
  <2>2. token[Treasury] \in Nat
    BY <1>3, <1>4
  <2>3. Keeps(balances', tx'.limit, f)
    BY <1>1, <1>2, <1>5, <2>1, <2>2 DEF Keeps
  <2> HIDE DEF f
  <2> QED  BY <2>1, <2>3 DEF Covered
<1>9. RefundSucceeds'
  BY <1>2 DEF RefundSucceeds
<1> QED  BY <1>6, <1>7, <1>8, <1>9 DEF RefundInv

(* A transfer takes nothing from the treasury. *)
LEMMA TransferKeepsRefund ==
    ASSUME RefundInv, NEW to \in Account, NEW n \in Amount, TransferToken(to, n)
    PROVE  RefundInv'
<1>1. /\ pc = "vm" /\ balances[tx.sender] >= n
      /\ balances' = Paid(balances, tx.sender, to, n)
      /\ UNCHANGED <<token, pc, tx, origins, transfers>>
  BY DEF TransferToken, state, log
<1>2. n \in Nat /\ balances \in [Account -> Nat]
  BY InputsTyped DEF RefundInv, MoneyTyped
<1>3. tx.sender \in User /\ tx.kind = "canonical" /\ tx.limit \in Nat
  BY <1>1 DEF RefundInv, PhaseOK, MoneyTyped, TxRecord
<1>4. tx.sender \in Account /\ to \in Account /\ Treasury \in Account \ {tx.sender}
  BY <1>3, Accounts
<1>5. balances' \in [Account -> Nat] /\ balances'[Treasury] >= balances[Treasury]
  BY <1>1, <1>2, <1>4, PaidTyped
<1>6. MoneyTyped'
  BY <1>1, <1>5 DEF RefundInv, MoneyTyped
<1>7. PhaseOK'
  BY <1>1 DEF RefundInv, PhaseOK
<1>8. Covered'
  <2>1. PICK f : IsOwed(f, origins) /\ Keeps(balances, tx.limit, f)
    BY <1>1, <1>3 DEF RefundInv, Covered
  <2>2. f[0] \in Nat
    <3>1. Len(origins) \in Nat
      BY DEF RefundInv, MoneyTyped
    <3> QED  BY <2>1, <3>1 DEF IsOwed
  <2>3. balances[Treasury] \in Nat /\ balances'[Treasury] \in Nat
    BY <1>2, <1>4, <1>5
  <2>4. IsOwed(f, origins') /\ Keeps(balances', tx'.limit, f)
    BY <1>1, <1>3, <1>5, <2>1, <2>2, <2>3 DEF Keeps
  <2> QED  BY <2>4 DEF Covered
<1>9. RefundSucceeds'
  BY <1>1 DEF RefundSucceeds
<1> QED  BY <1>6, <1>7, <1>8, <1>9 DEF RefundInv

(* An EVM call: if the value comes to the treasury, it is owed from then on. *)
LEMMA EvmCallKeepsRefund ==
    ASSUME RefundInv, NEW to \in Account, NEW n \in Amount, NEW e \in Effects(to),
           EvmCall(to, n, e)
    PROVE  RefundInv'
<1> DEFINE x == [from |-> Native, to |-> tx.sender, amount |-> n]
<1>1. /\ pc = "vm" /\ balances[tx.sender] >= n
      /\ balances' = Paid(balances, tx.sender, Native, n)
      /\ Transact(tx.sender, to, n, e)
      /\ UNCHANGED <<token, pc, tx>>
  BY DEF EvmCall, EvmPaid, state
<1>2. n \in Nat /\ balances \in [Account -> Nat] /\ origins \in Seq(OriginRecord)
  BY InputsTyped DEF RefundInv, MoneyTyped
<1>3. tx.sender \in User /\ tx.kind = "canonical" /\ tx.limit \in Nat
  BY <1>1 DEF RefundInv, PhaseOK, MoneyTyped, TxRecord
<1>4. tx.sender \in Account /\ Native \in Account /\ Treasury \in Account \ {tx.sender}
      /\ tx.sender # Native
  BY <1>3, Accounts
<1>5. /\ balances' \in [Account -> Nat] /\ balances'[Treasury] >= balances[Treasury]
      /\ balances'[Native] = balances[Native] + n
  <2> DEFINE paid == Paid(balances, tx.sender, Native, n)
  <2>1. /\ paid \in [Account -> Nat]
        /\ \A a \in Account \ {tx.sender} : paid[a] >= balances[a]
    BY <1>1, <1>2, <1>4, PaidTyped
  <2>2. paid[Native] = balances[Native] + n
    BY <1>2, <1>4 DEF Paid
  <2> HIDE DEF paid
  <2>3. balances' = paid
    BY <1>1 DEF paid
  <2> QED  BY <1>4, <2>1, <2>2, <2>3
<1>6. /\ origins' = Append(origins, x) /\ x \in OriginRecord
      /\ origins' \in Seq(OriginRecord) /\ transfers' \in Seq(TransferRecord)
  BY <1>1, <1>3, TransactTyped DEF RefundInv
<1>7. MoneyTyped'
  BY <1>1, <1>5, <1>6 DEF RefundInv, MoneyTyped
<1>8. PhaseOK'
  BY <1>1 DEF RefundInv, PhaseOK
<1>9. Covered'
  <2>1. PICK f : IsOwed(f, origins) /\ Keeps(balances, tx.limit, f)
    BY <1>1, <1>3 DEF RefundInv, Covered
  <2>2. x.amount = n
    OBVIOUS
  <2> HIDE DEF x
  <2>3. PICK g : IsOwed(g, origins') /\ g[0] = f[0] + n
    BY <1>2, <1>6, <2>1, <2>2, OwedAppend
  <2>4. f[0] \in Nat
    <3>1. Len(origins) \in Nat
      BY <1>2
    <3> QED  BY <2>1, <3>1 DEF IsOwed
  <2>5. balances[Treasury] \in Nat /\ balances'[Treasury] \in Nat
    BY <1>2, <1>4, <1>5
  <2>6. Keeps(balances', tx'.limit, g)
    BY <1>1, <1>2, <1>3, <1>5, <2>1, <2>3, <2>4, <2>5 DEF Keeps
  <2> QED  BY <2>3, <2>6 DEF Covered
<1>10. RefundSucceeds'
  BY <1>1 DEF RefundSucceeds
<1> QED  BY <1>7, <1>8, <1>9, <1>10 DEF RefundInv

(* However the function ends, the charge for gas is still there. *)
LEMMA EndKeepsRefund ==
    ASSUME RefundInv, EndVm \/ AbortVm \/ InvalidInVm PROVE RefundInv'
<1>1. CASE EndVm
  <2>1. pc = "vm" /\ pc' = "replicate" /\ UNCHANGED <<token, tx, balances, origins, transfers>>
    BY <1>1 DEF EndVm, state, log
  <2> QED  BY <2>1 DEF RefundInv, MoneyTyped, PhaseOK, Covered, Keeps, RefundSucceeds
<1>2. CASE AbortVm
  <2>1. /\ pc = "vm" /\ pc' = "refund" /\ UNCHANGED <<token, tx, origins, transfers>>
        /\ \/ balances' = Paid(token, tx.sender, Treasury, tx.l1 + tx.limit)
           \/ \E n \in Amount : /\ n <= balances[tx.sender]
                                /\ balances' = [balances EXCEPT ![tx.sender] = @ - n]
    BY <1>2 DEF AbortVm, state, log
  <2>2. /\ token \in [Account -> Nat] /\ balances \in [Account -> Nat]
        /\ tx.limit \in Nat /\ tx.l1 \in Nat /\ tx.l1 + tx.limit \in Nat
        /\ tx.sender \in User /\ tx.kind = "canonical"
        /\ token[tx.sender] >= tx.l1 + tx.limit
        /\ Len(origins) \in Nat
    BY <2>1 DEF RefundInv, MoneyTyped, PhaseOK, TxRecord
  <2>3. tx.sender \in Account /\ Treasury \in Account /\ tx.sender # Treasury
    BY <2>2, Accounts
  <2>4. balances' \in [Account -> Nat] /\ balances'[Treasury] >= tx.limit
    <3>1. ASSUME NEW n \in Amount, n <= balances[tx.sender],
                 balances' = [balances EXCEPT ![tx.sender] = @ - n]
          PROVE  balances' \in [Account -> Nat] /\ balances'[Treasury] >= tx.limit
      <4>1. PICK f : IsOwed(f, origins) /\ Keeps(balances, tx.limit, f)
        BY <2>1, <2>2 DEF RefundInv, Covered
      <4>2. f[0] \in Nat
        BY <2>2, <4>1 DEF IsOwed
      <4>3. balances[Treasury] \in Nat /\ n \in Nat /\ balances[tx.sender] \in Nat
        BY <2>2, <2>3, InputsTyped
      <4>4. balances' \in [Account -> Nat] /\ balances'[Treasury] = balances[Treasury]
        BY <2>2, <2>3, <3>1, <4>3
      <4> QED  BY <2>2, <4>1, <4>2, <4>3, <4>4 DEF Keeps
    <3>2. CASE balances' = Paid(token, tx.sender, Treasury, tx.l1 + tx.limit)
      <4> DEFINE paid == Paid(token, tx.sender, Treasury, tx.l1 + tx.limit)
      <4>0. paid \in [Account -> Nat]
        BY <2>2, <2>3, PaidTyped
      <4>1. /\ balances' \in [Account -> Nat]
            /\ balances'[Treasury] = token[Treasury] + (tx.l1 + tx.limit)
        BY <2>2, <2>3, <3>2, <4>0 DEF Paid
      <4>2. token[Treasury] \in Nat
        BY <2>2, <2>3
      <4> QED  BY <2>2, <4>1, <4>2
    <3> QED  BY <2>1, <3>1, <3>2
  <2> QED  BY <2>1, <2>2, <2>4 DEF RefundInv, MoneyTyped, PhaseOK, Covered, RefundSucceeds
<1>3. CASE InvalidInVm
  BY <1>3 DEF InvalidInVm, Cleared, state, RefundInv, MoneyTyped, PhaseOK, Covered,
              RefundSucceeds, NoTx, TxRecord
<1> QED  BY <1>1, <1>2, <1>3

(* Deposits are not charged; minting only adds. *)
LEMMA DepositKeepsRefund ==
    ASSUME RefundInv, NEW u \in User, NEW to \in Account, NEW n \in Amount,
           NEW mint \in Amount, NEW e \in Effects(to), Deposit(u, to, n, mint, e)
    PROVE  RefundInv'
<1>1. /\ tx' = [kind |-> "deposit", sender |-> u, limit |-> 0, l1 |-> 0,
                mint |-> IF e.success THEN mint ELSE 0]
      /\ pc' \in {"mint", "commit"} /\ balances' = token /\ UNCHANGED token
      /\ Transact(u, to, n, e)
  BY DEF Deposit, state
<1>2. mint \in Nat
  BY InputsTyped
<1>3. origins' \in Seq(OriginRecord) /\ transfers' \in Seq(TransferRecord)
  BY <1>1, TransactTyped DEF RefundInv
<1> QED  BY <1>1, <1>2, <1>3
         DEF RefundInv, MoneyTyped, PhaseOK, Covered, RefundSucceeds, TxRecord

(* The same for the steps between a deposit's call and its commit. *)
LEMMA MintKeepsRefund ==
    ASSUME RefundInv, MintEth \/ MintFails \/ DepositAborts PROVE RefundInv'
<1>1. CASE MintEth
  <2>1. /\ pc = "mint" /\ pc' = "replicate" /\ UNCHANGED <<token, tx, origins, transfers>>
        /\ balances' = [balances EXCEPT ![Native] = @ + tx.mint]
    BY <1>1 DEF MintEth, state, log
  <2>2. tx.mint \in Nat /\ balances \in [Account -> Nat] /\ tx.kind = "deposit"
    BY <2>1 DEF RefundInv, MoneyTyped, TxRecord, PhaseOK
  <2>3. balances' \in [Account -> Nat]
    BY <2>1, <2>2, Accounts
  <2> QED  BY <2>1, <2>2, <2>3
           DEF RefundInv, MoneyTyped, PhaseOK, Covered, RefundSucceeds
<1>2. CASE MintFails
  BY <1>2 DEF MintFails, Cleared, state, RefundInv, MoneyTyped, PhaseOK, Covered,
              RefundSucceeds, NoTx, TxRecord
<1>3. CASE DepositAborts
  <2>1. /\ pc = "mint" /\ pc' = "commit" /\ tx' = [tx EXCEPT !.mint = 0]
        /\ UNCHANGED <<token, balances, origins, transfers>>
    BY <1>3 DEF DepositAborts, state, log
  <2>2. tx \in TxRecord /\ tx.kind = "deposit"
    BY <2>1 DEF RefundInv, MoneyTyped, PhaseOK
  <2>3. tx' \in TxRecord /\ tx'.kind = "deposit"
    BY <2>1, <2>2 DEF TxRecord
  <2> QED  BY <2>1, <2>3 DEF RefundInv, MoneyTyped, PhaseOK, Covered, RefundSucceeds
<1> QED  BY <1>1, <1>2, <1>3

(* The next payment is that of the first origin, or of the first transfer  *)
(* once there is no origin left.                                           *)
LEMMA PaymentTyped ==
    ASSUME MoneyTyped, Replicated # <<>>
    PROVE  /\ payment.from \in Account /\ payment.to \in Account /\ payment.amount \in Nat
           /\ origins # <<>> => payment = Head(origins) /\ payment.from = Native
                                /\ payment.to # Native /\ Tail(origins) \in Seq(OriginRecord)
           /\ origins = <<>> => payment.from \in Party /\ Tail(transfers) \in Seq(TransferRecord)
<1>1. origins \in Seq(OriginRecord) /\ transfers \in Seq(TransferRecord)
  BY DEF MoneyTyped
<1>2. CASE origins # <<>>
  <2>1. Head(origins) \in OriginRecord /\ Tail(origins) \in Seq(OriginRecord)
    BY <1>1, <1>2
  <2>2. payment = Head(origins)
    BY <1>1, <1>2 DEF payment, Replicated
  <2> QED  BY <1>2, <2>1, <2>2, Accounts DEF OriginRecord
<1>3. CASE origins = <<>>
  <2>1. Replicated = transfers
    BY <1>1, <1>3 DEF Replicated
  <2>2. Head(transfers) \in TransferRecord /\ Tail(transfers) \in Seq(TransferRecord)
    BY <1>1, <2>1
  <2>3. payment = Head(transfers)
    BY <2>1 DEF payment
  <2> QED  BY <1>3, <2>2, <2>3, Accounts DEF TransferRecord
<1> QED  BY <1>2, <1>3

(* What a payment, completed or cut off after the withdrawal, leaves in    *)
(* the treasury covers the limit and what is owed to the other origins.    *)
LEMMA PaymentCovered ==
    ASSUME MoneyTyped, Replicated # <<>>,
           NEW m \in Nat, NEW f, IsOwed(f, origins), Keeps(balances, m, f),
           balances[payment.from] >= payment.amount, NEW b \in [Account -> Nat],
           b[payment.from] >= balances[payment.from] - payment.amount,
           \A a \in Account \ {payment.from} : b[a] >= balances[a]
    PROVE  \E g : /\ IsOwed(g, IF origins # <<>> THEN Tail(origins) ELSE origins)
                  /\ g[0] \in Nat
                  /\ Keeps(b, m, g)
<1>1. IsOwed(f, origins) /\ Keeps(balances, m, f)
  OBVIOUS
<1>2. /\ origins \in Seq(OriginRecord)
      /\ balances \in [Account -> Nat] /\ Len(origins) \in Nat
  BY DEF MoneyTyped
<1>3. f[0] \in Nat
  BY <1>1, <1>2 DEF IsOwed
<1>4. /\ payment.from \in Account /\ payment.amount \in Nat
      /\ origins # <<>> => payment = Head(origins) /\ payment.from = Native
      /\ origins = <<>> => payment.from \in Party
  BY PaymentTyped
<1>5. Treasury \in Account \ Party /\ Native \in Account
  BY Accounts
<1>6. b[Treasury] \in Nat /\ balances[Treasury] \in Nat
  BY <1>2, <1>5
<1>7. CASE origins # <<>>
  <2>1. PICK g : IsOwed(g, Tail(origins)) /\ f[0] = g[0] + payment.amount /\ g[0] \in Nat
    BY <1>1, <1>2, <1>4, <1>7, OwedTail
  <2>2. CASE Treasury = Native
    <3>1. b[Treasury] >= balances[Treasury] - payment.amount
      BY <1>4, <1>7, <2>2
    <3>2. balances[Treasury] >= m + f[0]
      BY <1>1, <2>2 DEF Keeps
    <3>3. b[Treasury] >= m + g[0]
      <4>1. PICK x \in Nat, y \in Nat, z \in Nat, w \in Nat :
               x = b[Treasury] /\ y = balances[Treasury] /\ z = g[0] /\ w = payment.amount
        BY <1>4, <1>6, <2>1
      <4>2. x >= y - w /\ y >= m + (z + w)
        BY <2>1, <3>1, <3>2, <4>1
      <4>3. x >= m + z
        BY <4>2
      <4> QED  BY <4>1, <4>3
    <3> QED  BY <1>7, <2>1, <2>2, <3>3 DEF Keeps
  <2>3. CASE Treasury # Native
    <3>1. b[Treasury] >= balances[Treasury]
      BY <1>4, <1>5, <1>7, <2>3
    <3>2. balances[Treasury] >= m
      BY <1>1, <1>2, <2>3 DEF Keeps
    <3> QED  BY <1>2, <1>6, <1>7, <2>1, <2>3, <3>1, <3>2 DEF Keeps
  <2> QED  BY <2>2, <2>3
<1>8. CASE origins = <<>>
  <2>1. b[Treasury] >= balances[Treasury]
    BY <1>4, <1>5, <1>8
  <2>2. Keeps(b, m, f)
    BY <1>1, <1>2, <1>3, <1>6, <2>1 DEF Keeps
  <2> QED  BY <1>1, <1>3, <1>8, <2>2
<1> QED  BY <1>7, <1>8

(* Handing back values and repeating payments leaves the charge alone. *)
LEMMA ReplicateKeepsRefund ==
    ASSUME RefundInv, ReplicateTransfer PROVE RefundInv'
<1>1. /\ pc = "replicate" /\ Replicated # <<>> /\ UNCHANGED <<token, pc, tx>>
      /\ balances[payment.from] >= payment.amount
      /\ balances' = Paid(balances, payment.from, payment.to, payment.amount)
      /\ origins' = IF origins # <<>> THEN Tail(origins) ELSE origins
      /\ transfers' = IF origins # <<>> THEN transfers ELSE Tail(transfers)
  BY DEF ReplicateTransfer, state
<1>2. /\ payment.from \in Account /\ payment.to \in Account /\ payment.amount \in Nat
      /\ origins # <<>> => Tail(origins) \in Seq(OriginRecord)
      /\ origins = <<>> => Tail(transfers) \in Seq(TransferRecord)
  BY <1>1, PaymentTyped DEF RefundInv
<1>3. balances \in [Account -> Nat]
  BY DEF RefundInv, MoneyTyped
<1> HIDE DEF payment
<1>4. /\ balances' \in [Account -> Nat]
      /\ balances'[payment.from] >= balances[payment.from] - payment.amount
      /\ \A a \in Account \ {payment.from} : balances'[a] >= balances[a]
  BY <1>1, <1>2, <1>3, PaidTyped
<1>5. MoneyTyped'
  BY <1>1, <1>2, <1>4 DEF RefundInv, MoneyTyped
<1>6. PhaseOK'
  BY <1>1 DEF RefundInv, PhaseOK
<1>7. Covered'
  <2>1. CASE tx.kind = "canonical"
    <3>1. PICK f : IsOwed(f, origins) /\ Keeps(balances, tx.limit, f)
      BY <1>1, <2>1 DEF RefundInv, Covered
    <3>2. MoneyTyped /\ tx.limit \in Nat
      BY DEF RefundInv, MoneyTyped, TxRecord
    <3>3. PICK g : /\ IsOwed(g, origins') /\ g[0] \in Nat
                   /\ Keeps(balances', tx.limit, g)
      BY <1>1, <1>4, <3>1, <3>2, PaymentCovered
    <3> QED  BY <1>1, <3>3 DEF Covered
  <2> QED  BY <1>1, <2>1 DEF Covered
<1>8. RefundSucceeds'
  BY <1>1 DEF RefundSucceeds
<1> QED  BY <1>5, <1>6, <1>7, <1>8 DEF RefundInv

(* ... even when it is cut off. *)
LEMMA ReplicateFailsKeepsRefund ==
    ASSUME RefundInv, ReplicateFails PROVE RefundInv'
<1>1. /\ pc = "replicate" /\ Replicated # <<>> /\ UNCHANGED <<token, tx, origins, transfers>>
      /\ pc' = IF tx.kind = "canonical" THEN "refund" ELSE "commit"
      /\ balances' \in {balances} \cup
          (IF balances[payment.from] >= payment.amount
           THEN {[balances EXCEPT ![payment.from] = @ - payment.amount]} ELSE {})
  BY DEF ReplicateFails, state, log
<1>2. payment.from \in Account /\ payment.amount \in Nat
  BY <1>1, PaymentTyped DEF RefundInv
<1>3. /\ balances \in [Account -> Nat] /\ tx.limit \in Nat /\ Len(origins) \in Nat
      /\ Treasury \in Account
  BY Accounts DEF RefundInv, MoneyTyped, TxRecord
<1> HIDE DEF payment
<1>4. /\ balances' \in [Account -> Nat]
      /\ tx.kind = "canonical" => balances'[Treasury] >= tx.limit
  <2>1. CASE balances' = balances
    <3>1. ASSUME tx.kind = "canonical" PROVE balances[Treasury] >= tx.limit
      <4>1. PICK f : IsOwed(f, origins) /\ Keeps(balances, tx.limit, f)
        BY <1>1, <3>1 DEF RefundInv, Covered
      <4>2. f[0] \in Nat /\ balances[Treasury] \in Nat
        BY <1>3, <4>1 DEF IsOwed
      <4> QED  BY <1>3, <4>1, <4>2 DEF Keeps
    <3> QED  BY <1>3, <2>1, <3>1
  <2>2. CASE /\ balances[payment.from] >= payment.amount
             /\ balances' = [balances EXCEPT ![payment.from] = @ - payment.amount]
    <3>1. /\ balances' \in [Account -> Nat]
          /\ balances'[payment.from] >= balances[payment.from] - payment.amount
          /\ \A a \in Account \ {payment.from} : balances'[a] >= balances[a]
      BY <1>2, <1>3, <2>2
    <3>2. ASSUME tx.kind = "canonical" PROVE balances'[Treasury] >= tx.limit
      <4>0. PICK f : IsOwed(f, origins) /\ Keeps(balances, tx.limit, f)
        BY <1>1, <3>2 DEF RefundInv, Covered
      <4>1. PICK g : g[0] \in Nat /\ Keeps(balances', tx.limit, g)
        BY <1>1, <1>3, <2>2, <3>1, <4>0, PaymentCovered DEF RefundInv
      <4>2. balances'[Treasury] \in Nat
        BY <1>3, <3>1
      <4> QED  BY <1>3, <4>1, <4>2 DEF Keeps
    <3> QED  BY <3>1, <3>2
  <2> QED  BY <1>1, <2>1, <2>2
<1> QED  BY <1>1, <1>4 DEF RefundInv, MoneyTyped, PhaseOK, Covered, RefundSucceeds

(* The end of a transaction: replication done, refund, the two commits. *)
LEMMA FinishKeepsRefund ==
    ASSUME RefundInv,
           \/ ReplicateDone \/ CommitState \/ CommitTries
           \/ \E used \in IntrinsicGas..MaxLimit : Refund(used)
    PROVE  RefundInv'
<1>1. CASE ReplicateDone
  <2>1. /\ pc = "replicate" /\ Replicated = <<>>
        /\ UNCHANGED <<token, tx, balances, origins, transfers>>
        /\ pc' = IF tx.kind = "canonical" THEN "refund" ELSE "commit"
    BY <1>1 DEF ReplicateDone, state, log
  <2>2. ASSUME tx.kind = "canonical" PROVE balances[Treasury] >= tx.limit
    <3>1. PICK f : IsOwed(f, origins) /\ Keeps(balances, tx.limit, f)
      BY <2>1, <2>2 DEF RefundInv, Covered
    <3>2. /\ tx.limit \in Nat /\ balances \in [Account -> Nat] /\ Len(origins) \in Nat
          /\ Treasury \in Account
      BY Accounts DEF RefundInv, MoneyTyped, TxRecord
    <3>3. f[0] \in Nat /\ balances[Treasury] \in Nat
      BY <3>1, <3>2 DEF IsOwed
    <3> QED  BY <3>1, <3>2, <3>3 DEF Keeps
  <2> QED  BY <2>1, <2>2 DEF RefundInv, MoneyTyped, PhaseOK, Covered, RefundSucceeds
<1>2. ASSUME NEW used \in IntrinsicGas..MaxLimit, Refund(used) PROVE RefundInv'
  <2>1. /\ pc = "refund" /\ pc' = "commit" /\ UNCHANGED <<token, tx, origins, transfers>>
        /\ used \in IntrinsicGas..tx.limit /\ balances[Treasury] >= tx.limit - used
        /\ balances' = Paid(balances, Treasury, tx.sender, tx.limit - used)
    BY <1>2 DEF Refund, state, log
  <2>2. /\ balances \in [Account -> Nat] /\ tx.limit \in Nat /\ used \in Nat
        /\ tx.sender \in Account /\ Treasury \in Account
    BY <2>1, InputsTyped, Accounts DEF RefundInv, MoneyTyped, TxRecord
  <2>3. tx.limit - used \in Nat
    BY <2>1, <2>2, AmountAssumption
  <2>4. balances' \in [Account -> Nat]
    BY <2>1, <2>2, <2>3, PaidTyped
  <2> QED  BY <2>1, <2>4 DEF RefundInv, MoneyTyped, PhaseOK, Covered, RefundSucceeds
<1>3. CASE CommitState
  <2>1. /\ pc = "commit" /\ pc' = "tries" /\ token' = balances
        /\ UNCHANGED <<tx, balances, origins, transfers>>
    BY <1>3 DEF CommitState, log
  <2> QED  BY <2>1 DEF RefundInv, MoneyTyped, PhaseOK, Covered, RefundSucceeds
<1>4. CASE CommitTries
  <2>1. /\ pc' = "idle" /\ UNCHANGED <<token, balances>> /\ Cleared
    BY <1>4 DEF CommitTries
  <2> QED  BY <2>1 DEF Cleared, RefundInv, MoneyTyped, PhaseOK, Covered, RefundSucceeds,
                       NoTx, TxRecord
<1> QED  BY <1>1, <1>2, <1>3, <1>4

(* Every step keeps money typed and the charge for gas covered. *)
LEMMA RefundInvariant == Spec => []RefundInv
<1>1. Init => RefundInv
  <2> SUFFICES ASSUME Init PROVE RefundInv
    OBVIOUS
  <2>1. Initial \in Nat
    BY AmountAssumption
  <2>2. token \in [Account -> Nat] /\ balances = token
    BY <2>1 DEF Init
  <2>3. origins = <<>> /\ transfers = <<>> /\ pc = "idle" /\ tx = NoTx
    BY DEF Init
  <2> QED  BY <2>2, <2>3
           DEF RefundInv, MoneyTyped, PhaseOK, Covered, RefundSucceeds, NoTx, TxRecord
<1>2. RefundInv /\ [Next]_vars => RefundInv'
  <2> SUFFICES ASSUME RefundInv, [Next]_vars PROVE RefundInv'
    OBVIOUS
  <2>1. CASE UNCHANGED vars
    BY <2>1 DEF vars, state, session, log, RefundInv, MoneyTyped, PhaseOK, Covered,
                Keeps, RefundSucceeds
  <2>2. CASE RejectTransaction
    BY <2>1, <2>2 DEF RejectTransaction
  <2>3. CASE \E u \in User, limit \in IntrinsicGas..MaxLimit, l1 \in Amount :
                VerifyTransaction(u, limit, l1)
    BY <2>3, VerifyKeepsRefund
  <2>4. CASE \E to \in Account, n \in Amount : TransferToken(to, n)
    BY <2>4, TransferKeepsRefund DEF Party
  <2>5. CASE \E to \in Account, n \in Amount : \E e \in Effects(to) :
                EvmCall(to, n, e)
    BY <2>5, EvmCallKeepsRefund DEF Party
  <2>6. CASE \E to \in Account, n \in Amount : \E e \in Effects(to) :
                \E u \in User, mint \in Amount : Deposit(u, to, n, mint, e)
    BY <2>6, DepositKeepsRefund DEF Party
  <2>7. CASE EndVm \/ AbortVm \/ InvalidInVm
    BY <2>7, EndKeepsRefund
  <2>8. CASE MintEth \/ MintFails \/ DepositAborts
    BY <2>8, MintKeepsRefund
  <2>9. CASE ReplicateTransfer
    BY <2>9, ReplicateKeepsRefund
  <2>10. CASE ReplicateFails
    BY <2>10, ReplicateFailsKeepsRefund
  <2>11. CASE \/ ReplicateDone \/ CommitState \/ CommitTries
              \/ \E used \in IntrinsicGas..MaxLimit : Refund(used)
    BY <2>11, FinishKeepsRefund
  <2> QED  BY <2>1, <2>2, <2>3, <2>4, <2>5, <2>6, <2>7, <2>8, <2>9, <2>10, <2>11, Zenon
           DEF Next
<1> QED  BY <1>1, <1>2, PTL DEF Spec

(* "Refunds ... are supposed to always succeed": when a transaction comes  *)
(* to its refund, the treasury has at least what the transaction was       *)
(* charged, whatever the transaction did and however it failed, also when  *)
(* the treasury is the account that pays EVM values back.                  *)
THEOREM RefundAlwaysSucceeds == Spec => []RefundSucceeds
<1>1. RefundInv => RefundSucceeds
  BY DEF RefundInv
<1> QED  BY <1>1, RefundInvariant, PTL

-----------------------------------------------------------------------------
(***************************************************************************)
(* EVM storage.  With at most one EVM call in a session, the storage that  *)
(* the session is going to commit is the one the calls have written.       *)
(***************************************************************************)
Single == events \cap (Aborts \cup {"several"}) = {}

StorageAfter ==
    [c \in Contract |-> IF TouchedBy(c) = {} THEN tries[c] ELSE NewRoot(c)]

IdleHasNoCalls == pc = "idle" => calls = <<>>

StorageShaped == tries = [c \in Contract |-> [s \in Slot |-> tries[c][s]]]

ConsistentInv == IdleHasNoCalls /\ StorageShaped /\ (Single => written = StorageAfter)

(* A call that fails writes and pays nothing, nor does one to an account   *)
(* without code.                                                           *)
LEMMA EffectOfNoCode ==
    ASSUME NEW to, NEW e \in Effects(to), ~e.success \/ to \notin Contract
    PROVE  e.writes = NoWrite /\ e.amount = 0 /\ e.payee = to
<1>1. CASE e \in {Idle(TRUE, to), Idle(FALSE, to)}
  BY <1>1 DEF Idle
<1>2. CASE to \in Contract /\ e \in [success : {TRUE}, writes : Writes,
                                     payee : Account, amount : Amount]
  BY <1>2
<1> QED  BY <1>1, <1>2 DEF Effects

(* Without writes storage stays as it is, and writes that change nothing   *)
(* make no difference.                                                     *)
LEMMA OverlayChanged ==
    ASSUME StorageShaped, NEW c \in Contract
    PROVE  /\ Overlay(tries[c], NoWrite) = tries[c]
           /\ \A w : Overlay(tries[c], ChangedSlots(c, w)) = Overlay(tries[c], w)
<1>1. tries[c] = [s \in Slot |-> tries[c][s]]
  BY DEF StorageShaped
<1>2. Overlay(tries[c], NoWrite) = tries[c]
  BY <1>1 DEF Overlay, NoWrite
<1>3. ASSUME NEW w PROVE Overlay(tries[c], ChangedSlots(c, w)) = Overlay(tries[c], w)
  BY DEF Overlay, ChangedSlots
<1> QED  BY <1>2, <1>3

(* What one call has changed when it is the first of its session. *)
LEMMA FirstCall ==
    ASSUME NEW x, calls' = Append(<<>>, x), NEW c
    PROVE  /\ TouchedBy(c)' = IF c \in DOMAIN x THEN {1} ELSE {}
           /\ c \in DOMAIN x => LastChange(c)' = x[c]
<1>1. DOMAIN calls' = {1} /\ calls'[1] = x
  OBVIOUS
<1>2. TouchedBy(c)' = IF c \in DOMAIN x THEN {1} ELSE {}
  BY <1>1 DEF TouchedBy
<1>3. Max({1}) = 1
  BY DEF Max
<1> QED  BY <1>1, <1>2, <1>3 DEF LastChange

(* The first call of a session: what it writes is what will be committed,  *)
(* for the contract called, one that it only pays, and all others.         *)
LEMMA CallConsistent ==
    ASSUME StorageShaped, written = StorageAfter, calls = <<>>, UNCHANGED tries,
           NEW from, NEW to, NEW value, NEW e \in Effects(to), Transact(from, to, value, e)
    PROVE  written' = StorageAfter'
<1> DEFINE x == IF e.success THEN Touched(to, value, e) ELSE <<>>
<1>1. calls' = Append(<<>>, x) /\ written' = Written(to, e)
  BY DEF Transact
<1>2. \A c \in Contract : TouchedBy(c) = {}
  BY DEF TouchedBy
<1>3. written = [c \in Contract |-> tries[c]]
  BY <1>2 DEF StorageAfter
<1>4. \A c \in Contract : Written(to, e)[c] = IF c = to THEN Overlay(tries[c], e.writes)
                                             ELSE tries[c]
  BY <1>3 DEF Written
<1>5. Written(to, e) = [c \in Contract |-> Written(to, e)[c]]
  BY <1>3 DEF Written
<1>6. ASSUME NEW c \in Contract
      PROVE  (IF TouchedBy(c)' = {} THEN tries[c] ELSE NewRoot(c)') = Written(to, e)[c]
  <2>1. /\ TouchedBy(c)' = IF c \in DOMAIN x THEN {1} ELSE {}
        /\ c \in DOMAIN x => LastChange(c)' = x[c]
    BY <1>1, FirstCall
  <2>2. c \in DOMAIN x => NewRoot(c)' = Overlay(tries[c], x[c].slots)
    BY <2>1 DEF NewRoot
  <2>3. CASE ~e.success
    <3>1. e.writes = NoWrite /\ c \notin DOMAIN x
      BY <2>3, EffectOfNoCode
    <3> QED  BY <1>4, <2>1, <3>1, OverlayChanged
  <2>4. CASE e.success /\ c = to
    <3>1. c \in DOMAIN x /\ x[c].slots = ChangedSlots(c, e.writes)
      BY <2>4 DEF Touched
    <3> HIDE DEF x
    <3> QED  BY <1>4, <2>1, <2>2, <2>4, <3>1, OverlayChanged
  <2>5. CASE e.success /\ c # to
    <3>1. c \in DOMAIN x => x[c].slots = NoWrite
      BY <2>5 DEF Touched
    <3> HIDE DEF x
    <3> QED  BY <1>4, <2>1, <2>2, <2>5, <3>1, OverlayChanged
  <2> QED  BY <2>3, <2>4, <2>5
<1>7. StorageAfter' = [c \in Contract |-> IF TouchedBy(c)' = {} THEN tries[c] ELSE NewRoot(c)']
  BY DEF StorageAfter
<1>8. StorageAfter' = [c \in Contract |-> Written(to, e)[c]]
  BY <1>6, <1>7, Zenon
<1> QED  BY <1>1, <1>5, <1>8

(* The tries change in the second half of a commit only, and keep their    *)
(* shape; calls and what they wrote in the steps named here only.          *)
LEMMA QuietSteps ==
    ASSUME Next, ~CommitTries, ~MintFails, ~InvalidInVm,
           ~\E to \in Account, n \in Amount : \E e \in Effects(to) :
               \/ EvmCall(to, n, e)
               \/ \E u \in User, mint \in Amount : Deposit(u, to, n, mint, e)
    PROVE  /\ UNCHANGED <<tries, calls, written>>
           /\ pc' = "idle" => pc = "idle"
           /\ events \subseteq events'
<1>1. CASE RejectTransaction
  BY <1>1 DEF RejectTransaction, vars, state, session, log, history
<1>2. CASE \E u \in User, limit \in IntrinsicGas..MaxLimit, l1 \in Amount :
              VerifyTransaction(u, limit, l1)
  BY <1>2 DEF VerifyTransaction, state, log
<1>3. CASE \E to \in Account, n \in Amount : TransferToken(to, n)
  BY <1>3 DEF TransferToken, state, log, history
<1>4. CASE EndVm \/ AbortVm
  BY <1>4 DEF EndVm, AbortVm, state, log, history
<1>5. CASE MintEth \/ DepositAborts
  BY <1>5 DEF MintEth, DepositAborts, state, log, history
<1>6. CASE ReplicateTransfer \/ ReplicateFails \/ ReplicateDone
  BY <1>6 DEF ReplicateTransfer, ReplicateFails, ReplicateDone, state, log, history
<1>7. CASE \E used \in IntrinsicGas..MaxLimit : Refund(used)
  BY <1>7 DEF Refund, state, log
<1>8. CASE CommitState
  BY <1>8 DEF CommitState, log
<1> QED  BY <1>1, <1>2, <1>3, <1>4, <1>5, <1>6, <1>7, <1>8, Zenon DEF Next, Party

(* A session without calls commits the storage it found. *)
LEMMA NothingWritten ==
    ASSUME StorageShaped, calls = <<>> PROVE StorageAfter = tries
<1>1. \A c \in Contract : TouchedBy(c) = {}
  BY DEF TouchedBy
<1>2. tries = [c \in Contract |-> tries[c]]
  BY DEF StorageShaped
<1> QED  BY <1>1, <1>2 DEF StorageAfter

(* Sessions with one EVM call that end well leave the storage that the     *)
(* calls of all sessions, made one after the other, would have left.       *)
THEOREM SingleCallsConsistent == Spec => []CleanConsistent
<1>1. Init => ConsistentInv
  <2> SUFFICES ASSUME Init PROVE ConsistentInv
    OBVIOUS
  <2>1. calls = <<>> /\ written = tries /\ StorageShaped
    BY DEF Init, StorageShaped, EmptyStorage
  <2> QED  BY <2>1, NothingWritten DEF ConsistentInv, IdleHasNoCalls
<1>2. ConsistentInv /\ [Next]_vars => ConsistentInv'
  <2> SUFFICES ASSUME ConsistentInv, [Next]_vars PROVE ConsistentInv'
    OBVIOUS
  <2> USE DEF ConsistentInv, IdleHasNoCalls
  <2>1. CASE UNCHANGED vars
    <3>1. UNCHANGED <<tries, calls, written, pc, events>>
      BY <2>1 DEF vars, state, session, log, history
    <3> QED  BY <3>1 DEF StorageShaped, StorageAfter, TouchedBy, NewRoot, LastChange, Single
  <2>2. ASSUME NEW to \in Account, NEW n \in Amount, NEW e \in Effects(to),
               \/ EvmCall(to, n, e)
               \/ \E u \in User, mint \in Amount : Deposit(u, to, n, mint, e)
        PROVE  ConsistentInv'
    <3>1. /\ UNCHANGED tries /\ pc' # "idle" /\ events \subseteq events'
          /\ \E from : Transact(from, to, n, e)
          /\ Single' => calls = <<>>
      BY <2>2 DEF EvmCall, Deposit, state, Single
    <3>2. Single' => written' = StorageAfter'
      BY <3>1, CallConsistent DEF Single
    <3> QED  BY <3>1, <3>2 DEF StorageShaped
  <2>3. ASSUME calls' = <<>>, written' = tries', StorageShaped'
        PROVE  ConsistentInv'
    <3>1. \A c \in Contract : TouchedBy(c)' = {}
      BY <2>3 DEF TouchedBy
    <3>2. tries' = [c \in Contract |-> tries'[c]]
      BY <2>3 DEF StorageShaped
    <3>3. StorageAfter' = tries'
      BY <3>1, <3>2 DEF StorageAfter
    <3> QED  BY <2>3, <3>3
  <2>4. CASE MintFails
    BY <2>3, <2>4 DEF MintFails, Cleared, state, StorageShaped
  <2>5. CASE InvalidInVm
    <3>1. /\ calls = <<>> /\ calls' = <<>> /\ UNCHANGED <<tries, written, events>>
      BY <2>5 DEF InvalidInVm, Cleared, state, history
    <3>2. StorageShaped' /\ (Single' => written' = tries')
      BY <3>1, NothingWritten DEF StorageShaped, Single
    <3> QED  BY <2>3, <3>1, <3>2
  <2>6. CASE CommitTries
    <3>1. /\ calls' = <<>> /\ UNCHANGED <<written, events>> /\ tries' = StorageAfter
      BY <2>6 DEF CommitTries, Cleared, history, StorageAfter
    <3>2. StorageAfter = [c \in Contract |-> [s \in Slot |-> StorageAfter[c][s]]]
      <4>1. ASSUME NEW c \in Contract
            PROVE  StorageAfter[c] = [s \in Slot |-> StorageAfter[c][s]]
        BY DEF StorageAfter, NewRoot, Overlay, StorageShaped
      <4>2. StorageAfter = [c \in Contract |-> StorageAfter[c]]
        BY DEF StorageAfter
      <4> HIDE DEF StorageAfter
      <4> QED  BY <4>1, <4>2
    <3>3. StorageShaped' /\ (Single' => written' = tries')
      BY <3>1, <3>2 DEF StorageShaped, Single
    <3> QED  BY <2>3, <3>1, <3>3
  <2>7. CASE /\ Next /\ ~CommitTries /\ ~MintFails /\ ~InvalidInVm
             /\ ~\E to \in Account, n \in Amount : \E e \in Effects(to) :
                    \/ EvmCall(to, n, e)
                    \/ \E u \in User, mint \in Amount : Deposit(u, to, n, mint, e)
    <3>1. /\ UNCHANGED <<tries, calls, written>>
          /\ pc' = "idle" => pc = "idle"
          /\ events \subseteq events'
      BY <2>7, QuietSteps
    <3>2. Single' => Single
      BY <3>1 DEF Single
    <3> QED  BY <3>1, <3>2 DEF StorageShaped, StorageAfter, TouchedBy, NewRoot, LastChange
  <2> QED  BY <2>1, <2>2, <2>4, <2>5, <2>6, <2>7
<1>3. ConsistentInv => CleanConsistent
  BY NothingWritten DEF ConsistentInv, IdleHasNoCalls, CleanConsistent, Single
<1> QED  BY <1>1, <1>2, <1>3, PTL DEF Spec

-----------------------------------------------------------------------------
(***************************************************************************)
(* EVM balances.  With at most one call in a session, what a contract is   *)
(* going to have in the EVM is covered by its tokens in the session and    *)
(* the payments that are still to be repeated, of which there are at most  *)
(* two.                                                                    *)
(***************************************************************************)
NetOf(p, c) == (IF p.to = c THEN p.amount ELSE 0) - (IF p.from = c THEN p.amount ELSE 0)

Net(c) ==
    (IF Len(transfers) >= 1 THEN NetOf(transfers[1], c) ELSE 0)
        + (IF Len(transfers) >= 2 THEN NetOf(transfers[2], c) ELSE 0)

NewBalance(c) == IF TouchedBy(c) = {} THEN info[c].balance ELSE LastChange(c).balance

OneJournal == Len(transfers) <= 2 /\ (calls = <<>> => transfers = <<>>)

Backed(c) ==
    /\ OneJournal
    /\ info[c].balance \in Int /\ NewBalance(c) \in Int
    /\ info[c].balance <= token[c]
    /\ pc \in {"vm", "mint", "replicate"} => NewBalance(c) <= balances[c] + Net(c)
    /\ pc \in {"refund", "commit"} => NewBalance(c) <= balances[c]
    /\ pc = "vm" => token[c] <= balances[c]

ReflectedInv ==
    IdleHasNoCalls /\ (Single => \A c \in Contract : Backed(c))

(* A payment changes every balance by what it says. *)
LEMMA PaidNet ==
    ASSUME NEW b \in [Account -> Nat], NEW p, p.from \in Account, p.to \in Account,
           p.amount \in Nat, NEW a \in Account
    PROVE  Paid(b, p.from, p.to, p.amount)[a] = b[a] + NetOf(p, a)
BY DEF Paid, NetOf

(* Net effects are numbers; the net effect of one payment less. *)
LEMMA NetTyped ==
    ASSUME transfers \in Seq(TransferRecord), NEW c
    PROVE  /\ Net(c) \in Int
           /\ transfers = <<>> => Net(c) = 0
           /\ (transfers # <<>> /\ Len(transfers) <= 2 /\ transfers' = Tail(transfers)) =>
                 /\ Net(c) = NetOf(Head(transfers), c) + Net(c)'
                 /\ NetOf(Head(transfers), c) \in Int /\ Net(c)' \in Int
                 /\ Len(transfers') <= 2
<1>1. \A i \in 1..Len(transfers) : transfers[i].amount \in Nat
  <2>1. \A i \in 1..Len(transfers) : transfers[i] \in TransferRecord
    OBVIOUS
  <2> QED  BY <2>1 DEF TransferRecord
<1>2. \A i \in 1..Len(transfers) : NetOf(transfers[i], c) \in Int
  BY <1>1 DEF NetOf
<1>3. Len(transfers) \in Nat
  OBVIOUS
<1>4. Net(c) \in Int /\ (transfers = <<>> => Net(c) = 0)
  BY <1>2, <1>3 DEF Net
<1>5. ASSUME transfers # <<>>, Len(transfers) <= 2, transfers' = Tail(transfers)
      PROVE  /\ Net(c) = NetOf(Head(transfers), c) + Net(c)'
             /\ NetOf(Head(transfers), c) \in Int /\ Net(c)' \in Int
             /\ Len(transfers') <= 2
  <2>1. Len(transfers) >= 1 /\ Head(transfers) = transfers[1]
    BY <1>5
  <2>2. /\ Len(transfers') = Len(transfers) - 1
        /\ Len(transfers) = 2 => transfers'[1] = transfers[2]
    BY <1>5
  <2>3. NetOf(transfers[1], c) \in Int
    BY <1>2, <1>3, <2>1
  <2>4. CASE Len(transfers) = 1
    BY <2>1, <2>2, <2>3, <2>4 DEF Net
  <2>5. CASE Len(transfers) = 2
    <3>1. NetOf(transfers[2], c) \in Int /\ NetOf(transfers'[1], c) = NetOf(transfers[2], c)
      BY <1>2, <2>2, <2>5
    <3> QED  BY <2>1, <2>2, <2>3, <2>5, <3>1 DEF Net
  <2>6. Len(transfers) = 1 \/ Len(transfers) = 2
    <3>1. \A n \in Nat : n >= 1 /\ n <= 2 => n = 1 \/ n = 2
      OBVIOUS
    <3> QED  BY <1>3, <1>5, <2>1, <3>1, Zenon
  <2> QED  BY <2>4, <2>5, <2>6, Zenon
<1> QED  BY <1>4, <1>5

(* Sequences of up to two elements. *)
LEMMA OneOrTwo ==
    \A a, b : /\ <<>> \o <<>> = <<>> /\ <<>> \o <<b>> = <<b>> /\ <<a>> \o <<>> = <<a>>
             /\ <<a>> \o <<b>> = <<a, b>>
<1> TAKE a, b
<1> DEFINE S == {a, b}
<1>1. <<a>> \in Seq(S) /\ <<b>> \in Seq(S) /\ <<a, b>> \in Seq(S)
  OBVIOUS
<1>2. <<>> \o <<>> = <<>> /\ <<>> \o <<b>> = <<b>> /\ <<a>> \o <<>> = <<a>>
  BY <1>1, ConcatEmptySeq
<1> DEFINE s == <<a>> \o <<b>>
           t == <<a, b>>
<1>3. s \in Seq(S) /\ Len(s) = 2 /\ s[1] = a /\ s[2] = b
  BY <1>1, ConcatProperties
<1>4. <<a>> \o <<b>> = <<a, b>>
  <2>1. t \in Seq(S) /\ Len(t) = 2 /\ t[1] = a /\ t[2] = b
    BY <1>1
  <2> HIDE DEF s, t
  <2>2. \A i \in 1..Len(s) : s[i] = t[i]
    BY <1>3, <2>1
  <2>3. s = t
    BY <1>3, <2>1, <2>2, SeqEqual
  <2> QED  BY <2>3 DEF s, t
<1> QED  BY <1>2, <1>4

(* The journal of the first call of a session says how the balances of     *)
(* contracts are going to change.                                          *)
LEMMA CallJournaled ==
    ASSUME calls = <<>>, transfers = <<>>, UNCHANGED info,
           NEW from \in User, NEW to \in Account, NEW value \in Amount, NEW e \in Effects(to),
           Transact(from, to, value, e), NEW c \in Contract, info[c].balance \in Int
    PROVE  /\ Len(transfers') <= 2 /\ calls' # <<>>
           /\ Net(c)' \in Int
           /\ NewBalance(c)' = info[c].balance + Net(c)'
           /\ ~e.success => transfers' = <<>> /\ NewBalance(c)' = info[c].balance
<1> DEFINE x == IF e.success THEN Touched(to, value, e) ELSE <<>>
           first == [from |-> from, to |-> to, amount |-> value]
           second == [from |-> to, to |-> e.payee, amount |-> e.amount]
           net == IF e.success THEN NetOf(first, c) + NetOf(second, c) ELSE 0
<1>1. calls' = Append(<<>>, x)
  BY DEF Transact
<1>2. /\ TouchedBy(c)' = IF c \in DOMAIN x THEN {1} ELSE {}
      /\ c \in DOMAIN x => LastChange(c)' = x[c]
  BY <1>1, FirstCall
<1>3. value \in Nat /\ e.amount \in Nat
  BY InputsTyped
<1>4. c # from
  BY AccountAssumption
<1>5. Len(transfers') <= 2 /\ Net(c)' = net
  <2>1. CASE ~e.success
    BY <2>1 DEF Transact, Net
  <2>2. CASE e.success
    <3>1. transfers' = Moved(from, to, value) \o Moved(to, e.payee, e.amount)
      BY <2>2 DEF Transact, Journal
    <3>2. value = 0 => NetOf(first, c) = 0
      BY DEF NetOf
    <3>3. e.amount = 0 => NetOf(second, c) = 0
      BY DEF NetOf
    <3>4. NetOf(first, c) \in Int /\ NetOf(second, c) \in Int
      BY <1>3 DEF NetOf
    <3>5. Moved(from, to, value) = IF value = 0 THEN <<>> ELSE <<first>>
      BY DEF Moved
    <3>6. Moved(to, e.payee, e.amount) = IF e.amount = 0 THEN <<>> ELSE <<second>>
      BY DEF Moved
    <3> HIDE DEF first, second
    <3>7. transfers' = IF value = 0
                       THEN IF e.amount = 0 THEN <<>> ELSE <<second>>
                       ELSE IF e.amount = 0 THEN <<first>> ELSE <<first, second>>
      BY <3>1, <3>5, <3>6, OneOrTwo
    <3> QED  BY <2>2, <3>2, <3>3, <3>4, <3>7 DEF Net
  <2> QED  BY <2>1, <2>2
<1>6. NewBalance(c)' = info[c].balance + net
  <2>1. CASE ~e.success
    BY <1>2, <2>1 DEF NewBalance
  <2>2. CASE e.success
    <3>1. c \in DOMAIN x <=> c = to \/ (e.amount > 0 /\ c = e.payee)
      BY <2>2 DEF Touched
    <3>2. c \in DOMAIN x => x[c].balance = EvmBalance(c, to, value, e)
      BY <2>2 DEF Touched
    <3>3. NewBalance(c)' = IF c \in DOMAIN x THEN x[c].balance ELSE info[c].balance
      BY <1>2 DEF NewBalance
    <3>4. net = (IF c = to THEN value ELSE 0) + (IF c = e.payee THEN e.amount ELSE 0)
                    - (IF c = to THEN e.amount ELSE 0)
      BY <1>3, <1>4, <2>2 DEF NetOf
    <3> HIDE DEF x, net
    <3>5. CASE c \in DOMAIN x
      BY <1>3, <3>2, <3>3, <3>4, <3>5 DEF EvmBalance
    <3>6. CASE c \notin DOMAIN x
      BY <1>3, <3>1, <3>3, <3>4, <3>6
    <3> QED  BY <3>5, <3>6
  <2> QED  BY <2>1, <2>2
<1>7. net \in Int
  <2>1. NetOf(first, c) \in Int /\ NetOf(second, c) \in Int
    BY <1>3 DEF NetOf
  <2> HIDE DEF first, second
  <2> QED  BY <2>1
<1>8. calls' # <<>>
  BY <1>1
<1>9. ~e.success => transfers' = <<>> /\ net = 0
  BY DEF Transact
<1> HIDE DEF net
<1> QED  BY <1>5, <1>6, <1>7, <1>8, <1>9

(* A contract is an account that is neither a user nor one of the two of   *)
(* the system.                                                             *)
LEMMA ContractApart ==
    ASSUME NEW c \in Contract
    PROVE  c \in Account /\ c \notin User /\ c # Native /\ c # Treasury
BY AccountAssumption DEF Account

(* Others' payments leave a contract's tokens alone. *)
LEMMA PaidApart ==
    ASSUME NEW b \in [Account -> Nat], NEW c \in Account, NEW from \in Account,
           NEW to \in Account, NEW n \in Int, c # from, c # to
    PROVE  Paid(b, from, to, n)[c] = b[c]
BY DEF Paid

(* The beginning of a transaction: nothing is pending. *)
LEMMA BeginBacked ==
    ASSUME RefundInv, IdleHasNoCalls, NEW c \in Contract, Backed(c),
           NEW u \in User, NEW limit \in IntrinsicGas..MaxLimit, NEW l1 \in Amount,
           VerifyTransaction(u, limit, l1)
    PROVE  Backed(c)'
<1>1. /\ pc = "idle" /\ pc' = "vm" /\ UNCHANGED <<token, info, calls, transfers>>
      /\ balances' = Paid(token, u, Treasury, l1 + limit)
  BY DEF VerifyTransaction, state, log
<1>2. calls = <<>> /\ transfers = <<>> /\ TouchedBy(c) = {} /\ TouchedBy(c)' = {}
  BY <1>1 DEF IdleHasNoCalls, Backed, OneJournal, TouchedBy
<1>3. Net(c)' = 0
  BY <1>1, <1>2 DEF Net
<1>4. token[c] \in Nat
  BY ContractApart DEF RefundInv, MoneyTyped
<1>5. balances'[c] = token[c]
  <2>1. c \in Account /\ u \in Account /\ Treasury \in Account /\ c # u /\ c # Treasury
    BY ContractApart, Accounts
  <2>2. token \in [Account -> Nat] /\ l1 + limit \in Int
    BY InputsTyped DEF RefundInv, MoneyTyped
  <2> QED  BY <1>1, <2>1, <2>2, PaidApart
<1> QED  BY <1>1, <1>2, <1>3, <1>4, <1>5 DEF Backed, OneJournal, NewBalance

(* Transfers, the return of the function and its abort before any call     *)
(* take nothing from a contract.                                           *)
LEMMA VmBacked ==
    ASSUME RefundInv, NEW c \in Contract, Backed(c), Single',
           \/ \E to \in Account, n \in Amount : TransferToken(to, n)
           \/ EndVm \/ AbortVm \/ InvalidInVm
    PROVE  Backed(c)'
<1>0. c \in Account /\ c \notin User /\ c # Native /\ c # Treasury
  BY ContractApart
<1>1. token[c] \in Nat /\ balances[c] \in Nat /\ Net(c) \in Int /\ tx.sender \in User
      /\ transfers \in Seq(TransferRecord)
  BY <1>0, NetTyped DEF RefundInv, MoneyTyped, PhaseOK, TransferToken, EndVm, AbortVm,
                        InvalidInVm
<1>2. ASSUME NEW to \in Account, NEW n \in Amount, TransferToken(to, n) PROVE Backed(c)'
  <2>1. /\ UNCHANGED <<token, info, pc, calls, transfers>> /\ balances[tx.sender] >= n
        /\ balances' = Paid(balances, tx.sender, to, n)
    BY <1>2 DEF TransferToken, state, log
  <2>2. n \in Nat /\ balances \in [Account -> Nat] /\ tx.sender \in Account /\ to \in Account
    BY <1>1, InputsTyped, Accounts DEF RefundInv, MoneyTyped
  <2>3. balances'[c] >= balances[c] /\ balances'[c] \in Nat
    <3>1. c \in Account \ {tx.sender}
      BY <1>0, <1>1
    <3>2. /\ balances' \in [Account -> Nat]
          /\ \A a \in Account \ {tx.sender} : balances'[a] >= balances[a]
      BY <2>1, <2>2, PaidTyped
    <3> QED  BY <3>1, <3>2
  <2>4. NewBalance(c)' = NewBalance(c) /\ Net(c)' = Net(c) /\ OneJournal' = OneJournal
    BY <2>1 DEF NewBalance, TouchedBy, LastChange, Net, OneJournal
  <2> QED  BY <1>1, <2>1, <2>3, <2>4 DEF Backed
<1>3. CASE EndVm
  <2>1. /\ UNCHANGED <<token, info, calls, transfers, balances>>
        /\ pc = "vm" /\ pc' = "replicate"
    BY <1>3 DEF EndVm, state, log
  <2>2. NewBalance(c)' = NewBalance(c) /\ Net(c)' = Net(c) /\ OneJournal' = OneJournal
    BY <2>1 DEF NewBalance, TouchedBy, LastChange, Net, OneJournal
  <2> QED  BY <2>1, <2>2 DEF Backed
<1>4. CASE AbortVm
  <2>1. /\ UNCHANGED <<token, info, calls, transfers>> /\ pc = "vm" /\ pc' = "refund"
        /\ \/ balances' = Paid(token, tx.sender, Treasury, tx.l1 + tx.limit)
           \/ \E n \in Amount : /\ n <= balances[tx.sender]
                                /\ balances' = [balances EXCEPT ![tx.sender] = @ - n]
        /\ calls = <<>>
    BY <1>4 DEF AbortVm, state, log, Single, Aborts
  <2>2. NewBalance(c)' = info[c].balance /\ OneJournal' = OneJournal
    BY <2>1 DEF NewBalance, TouchedBy, OneJournal
  <2>3. balances'[c] >= token[c] /\ balances'[c] \in Nat
    <3>1. /\ token \in [Account -> Nat] /\ tx.l1 + tx.limit \in Int
          /\ tx.sender \in Account /\ Treasury \in Account /\ c # tx.sender
      BY <1>0, <1>1, Accounts, SMTT(30) DEF RefundInv, MoneyTyped, TxRecord
    <3>2. Paid(token, tx.sender, Treasury, tx.l1 + tx.limit)[c] = token[c]
      BY <1>0, <3>1, PaidApart
    <3>3. ASSUME NEW n, balances' = [balances EXCEPT ![tx.sender] = @ - n]
          PROVE  balances'[c] = balances[c]
      <4>1. balances \in [Account -> Nat]
        BY DEF RefundInv, MoneyTyped
      <4> QED  BY <1>0, <3>1, <3>3, <4>1
    <3>4. balances'[c] = token[c] \/ balances'[c] = balances[c]
      BY <2>1, <3>2, <3>3
    <3>5. balances[c] >= token[c]
      BY <2>1 DEF Backed
    <3> QED  BY <1>1, <3>4, <3>5
  <2> QED  BY <1>1, <2>1, <2>2, <2>3 DEF Backed
<1>5. CASE InvalidInVm
  <2>1. UNCHANGED <<token, info>> /\ pc' = "idle" /\ calls' = <<>> /\ transfers' = <<>>
    BY <1>5 DEF InvalidInVm, Cleared, state
  <2>2. NewBalance(c)' = info[c].balance /\ OneJournal'
    BY <2>1 DEF NewBalance, TouchedBy, OneJournal
  <2> QED  BY <2>1, <2>2 DEF Backed
<1> QED  BY <1>2, <1>3, <1>4, <1>5

(* The call of a session, canonical or deposited. *)
LEMMA CallBacked ==
    ASSUME RefundInv, IdleHasNoCalls, NEW c \in Contract, Backed(c), Single',
           NEW to \in Account, NEW n \in Amount, NEW e \in Effects(to),
           \/ EvmCall(to, n, e)
           \/ \E u \in User, mint \in Amount : Deposit(u, to, n, mint, e)
    PROVE  Backed(c)'
<1>0. c \in Account /\ c \notin User /\ c # Native /\ c # Treasury
  BY ContractApart
<1>1. token[c] \in Nat /\ balances[c] \in Nat
  BY <1>0 DEF RefundInv, MoneyTyped
<1>2. calls = <<>> /\ transfers = <<>> /\ UNCHANGED <<token, info>>
  BY DEF EvmCall, Deposit, state, Single, IdleHasNoCalls, Backed, OneJournal
<1>3. info[c].balance \in Int /\ info[c].balance <= token[c]
  BY DEF Backed
<1>4. \E from \in User : Transact(from, to, n, e)
  BY DEF EvmCall, Deposit, RefundInv, PhaseOK
<1>5. /\ Len(transfers') <= 2 /\ calls' # <<>>
      /\ Net(c)' \in Int
      /\ NewBalance(c)' = info[c].balance + Net(c)'
      /\ ~e.success => transfers' = <<>> /\ NewBalance(c)' = info[c].balance
  BY <1>2, <1>3, <1>4, CallJournaled
<1>6. CASE EvmCall(to, n, e)
  <2>1. pc = "vm" /\ pc' = "vm" /\ balances' = Paid(balances, tx.sender, Native, n)
    BY <1>6 DEF EvmCall, EvmPaid
  <2>2. balances'[c] = balances[c]
    <3>1. /\ balances \in [Account -> Nat] /\ n \in Int
          /\ tx.sender \in Account /\ Native \in Account /\ c # tx.sender
      BY <1>0, <2>1, Accounts, InputsTyped DEF RefundInv, MoneyTyped, PhaseOK
    <3> QED  BY <1>0, <2>1, <3>1, PaidApart
  <2> QED  BY <1>1, <1>2, <1>3, <1>5, <2>1, <2>2 DEF Backed, OneJournal
<1>7. CASE \E u \in User, mint \in Amount : Deposit(u, to, n, mint, e)
  <2>1. balances' = token /\ pc' = IF e.success THEN "mint" ELSE "commit"
    BY <1>7 DEF Deposit
  <2> QED  BY <1>1, <1>2, <1>3, <1>5, <2>1 DEF Backed, OneJournal
<1> QED  BY <1>6, <1>7

(* Minting gives nothing to contracts yet. *)
LEMMA MintBacked ==
    ASSUME RefundInv, NEW c \in Contract, Backed(c), Single',
           MintEth \/ MintFails \/ DepositAborts
    PROVE  Backed(c)'
<1>0. c \in Account /\ c \notin User /\ c # Native /\ c # Treasury
  BY ContractApart
<1>1. CASE MintEth
  <2>1. /\ UNCHANGED <<token, info, calls, transfers>> /\ pc = "mint" /\ pc' = "replicate"
        /\ balances' = [balances EXCEPT ![Native] = @ + tx.mint]
    BY <1>1 DEF MintEth, state, log
  <2>2. balances'[c] = balances[c]
    BY <1>0, <2>1
  <2>3. NewBalance(c)' = NewBalance(c) /\ Net(c)' = Net(c) /\ OneJournal' = OneJournal
    BY <2>1 DEF NewBalance, TouchedBy, LastChange, Net, OneJournal
  <2> QED  BY <2>1, <2>2, <2>3 DEF Backed
<1>2. CASE MintFails
  <2>1. UNCHANGED <<token, info>> /\ pc' = "idle" /\ calls' = <<>> /\ transfers' = <<>>
    BY <1>2 DEF MintFails, Cleared, state
  <2>2. NewBalance(c)' = info[c].balance /\ OneJournal'
    BY <2>1 DEF NewBalance, TouchedBy, OneJournal
  <2> QED  BY <2>1, <2>2 DEF Backed
<1>3. ~DepositAborts
  BY DEF DepositAborts, Single, Aborts
<1> QED  BY <1>1, <1>2, <1>3

(* Repeating a payment moves it from what is pending into the balance. *)
LEMMA ReplicateBacked ==
    ASSUME RefundInv, NEW c \in Contract, Backed(c), ReplicateTransfer
    PROVE  Backed(c)'
<1>0. c \in Account /\ c \notin User /\ c # Native /\ c # Treasury
  BY ContractApart
<1>1. /\ pc = "replicate" /\ Replicated # <<>> /\ UNCHANGED <<token, info, pc, calls>>
      /\ balances' = Paid(balances, payment.from, payment.to, payment.amount)
      /\ origins # <<>> => UNCHANGED transfers
      /\ origins = <<>> => transfers' = Tail(transfers)
  BY DEF ReplicateTransfer, state
<1>2. /\ balances \in [Account -> Nat] /\ transfers \in Seq(TransferRecord)
      /\ origins \in Seq(OriginRecord) /\ token \in [Account -> Nat]
  BY DEF RefundInv, MoneyTyped
<1>3. payment.from \in Account /\ payment.to \in Account /\ payment.amount \in Nat
  BY <1>1, PaymentTyped DEF RefundInv
<1>4. balances'[c] = balances[c] + NetOf(payment, c)
  BY <1>0, <1>1, <1>2, <1>3, PaidNet
<1>5. balances[c] \in Nat /\ token[c] \in Nat
  BY <1>0, <1>2
<1>6. NewBalance(c)' = NewBalance(c)
  BY <1>1 DEF NewBalance, TouchedBy, LastChange
<1>7. NetOf(payment, c) + Net(c)' = Net(c) /\ OneJournal' /\ NetOf(payment, c) \in Int
      /\ Net(c)' \in Int
  <2>1. CASE origins # <<>>
    <3>1. payment = Head(origins) /\ Head(origins) \in OriginRecord
      BY <1>1, <1>2, <2>1, PaymentTyped DEF RefundInv
    <3>2. NetOf(payment, c) = 0
      BY <1>0, <3>1 DEF NetOf, OriginRecord
    <3>3. Net(c)' = Net(c) /\ Net(c) \in Int
      BY <1>1, <1>2, <2>1, NetTyped DEF Net
    <3> QED  BY <1>1, <2>1, <3>2, <3>3 DEF Backed, OneJournal
  <2>2. CASE origins = <<>>
    <3>1. Replicated = transfers
      BY <1>2, <2>2 DEF Replicated
    <3>2. payment = Head(transfers) /\ transfers # <<>>
      BY <1>1, <3>1 DEF payment
    <3>3. Len(transfers) <= 2 /\ calls # <<>>
      BY <3>2 DEF Backed, OneJournal
    <3> QED  BY <1>1, <1>2, <2>2, <3>2, <3>3, NetTyped DEF OneJournal
  <2> QED  BY <2>1, <2>2
<1>8. NewBalance(c) <= balances[c] + Net(c) /\ NewBalance(c) \in Int
  BY <1>1 DEF Backed
<1>9. NewBalance(c)' <= balances'[c] + Net(c)'
  BY <1>4, <1>5, <1>6, <1>7, <1>8
<1> QED  BY <1>1, <1>6, <1>7, <1>9 DEF Backed

(* The end of the transaction. *)
LEMMA FinishBacked ==
    ASSUME RefundInv, NEW c \in Contract, Backed(c), Single',
           \/ ReplicateFails \/ ReplicateDone \/ CommitState \/ CommitTries
           \/ \E used \in IntrinsicGas..MaxLimit : Refund(used)
    PROVE  Backed(c)'
<1>0. c \in Account /\ c \notin User /\ c # Native /\ c # Treasury
  BY ContractApart
<1>1. token[c] \in Nat /\ balances[c] \in Nat /\ transfers \in Seq(TransferRecord)
      /\ origins \in Seq(OriginRecord)
  BY <1>0 DEF RefundInv, MoneyTyped
<1>2. ~ReplicateFails
  BY DEF ReplicateFails, Single, Aborts
<1>3. CASE ReplicateDone
  <2>1. /\ UNCHANGED <<token, info, calls, transfers, balances>>
        /\ pc = "replicate" /\ pc' \in {"refund", "commit"} /\ Replicated = <<>>
    BY <1>3 DEF ReplicateDone, state, log
  <2>2. transfers = <<>>
    <3>1. Len(origins \o transfers) = Len(origins) + Len(transfers)
      BY <1>1
    <3>2. Len(transfers) = 0
      BY <1>1, <2>1, <3>1 DEF Replicated
    <3> QED  BY <1>1, <3>2
  <2>3. NewBalance(c)' = NewBalance(c) /\ OneJournal' = OneJournal
    BY <2>1 DEF NewBalance, TouchedBy, LastChange, OneJournal
  <2>4. Net(c) = 0
    BY <1>1, <2>2, NetTyped
  <2> QED  BY <1>1, <2>1, <2>3, <2>4 DEF Backed
<1>4. ASSUME NEW used \in IntrinsicGas..MaxLimit, Refund(used) PROVE Backed(c)'
  <2>1. /\ UNCHANGED <<token, info, calls, transfers>> /\ pc = "refund" /\ pc' = "commit"
        /\ balances' = Paid(balances, Treasury, tx.sender, tx.limit - used)
    BY <1>4 DEF Refund, state, log
  <2>2. balances'[c] = balances[c]
    <3>1. /\ balances \in [Account -> Nat] /\ tx.limit - used \in Int
          /\ tx.sender \in Account /\ Treasury \in Account /\ c # tx.sender
      BY <1>0, <2>1, Accounts, InputsTyped, SMTT(30) DEF RefundInv, MoneyTyped, TxRecord, PhaseOK
    <3> QED  BY <1>0, <2>1, <3>1, PaidApart
  <2>3. NewBalance(c)' = NewBalance(c) /\ OneJournal' = OneJournal
    BY <2>1 DEF NewBalance, TouchedBy, LastChange, OneJournal
  <2> QED  BY <2>1, <2>2, <2>3 DEF Backed
<1>5. CASE CommitState
  <2>1. /\ UNCHANGED <<calls, transfers>> /\ pc = "commit" /\ pc' = "tries"
        /\ token' = balances
        /\ info'[c] = IF TouchedBy(c) = {} THEN info[c]
                      ELSE [balance |-> LastChange(c).balance, storage_root |-> NewRoot(c)]
    BY <1>5 DEF CommitState, log
  <2>2. info'[c].balance = NewBalance(c)
    BY <2>1 DEF NewBalance
  <2>3. NewBalance(c)' = NewBalance(c) /\ OneJournal' = OneJournal
    <3>1. TouchedBy(c)' = TouchedBy(c) /\ LastChange(c)' = LastChange(c)
      BY <2>1 DEF TouchedBy, LastChange
    <3> QED  BY <2>1, <2>2, <3>1 DEF NewBalance, OneJournal
  <2> QED  BY <1>1, <2>1, <2>2, <2>3 DEF Backed
<1>6. CASE CommitTries
  <2>1. UNCHANGED <<token, info>> /\ pc' = "idle" /\ calls' = <<>> /\ transfers' = <<>>
    BY <1>6 DEF CommitTries, Cleared
  <2>2. NewBalance(c)' = info[c].balance /\ OneJournal'
    BY <2>1 DEF NewBalance, TouchedBy, OneJournal
  <2> QED  BY <2>1, <2>2 DEF Backed
<1> QED  BY <1>2, <1>3, <1>4, <1>5, <1>6

(* What the code expects never goes from a history. *)
LEMMA EventsStay ==
    ASSUME [Next]_vars PROVE events \subseteq events'
<1>1. CASE UNCHANGED vars
  BY <1>1 DEF vars, history
<1>2. CASE CommitTries \/ MintFails \/ InvalidInVm
  BY <1>2 DEF CommitTries, MintFails, InvalidInVm, history
<1>3. CASE \E to \in Account, n \in Amount : \E e \in Effects(to) :
               \/ EvmCall(to, n, e)
               \/ \E u \in User, mint \in Amount : Deposit(u, to, n, mint, e)
  BY <1>3 DEF EvmCall, Deposit
<1> QED  BY <1>1, <1>2, <1>3, QuietSteps

(* "Ensure any base token balance changes in EVM are reflected in Move     *)
(* too": what a contract can spend in the EVM it has in Move, as long as   *)
(* no session fails after a call, or makes more than one.                  *)
THEOREM BalancesReflected == Spec => []CleanReflected
<1>1. Init => ReflectedInv
  <2> SUFFICES ASSUME Init PROVE ReflectedInv
    OBVIOUS
  <2>1. /\ calls = <<>> /\ transfers = <<>> /\ pc = "idle"
        /\ \A c \in Contract : info[c].balance = 0
    BY DEF Init
  <2>2. \A c \in Contract : token[c] \in Nat
    BY AmountAssumption DEF Init, Account
  <2> QED  BY <2>1, <2>2 DEF ReflectedInv, IdleHasNoCalls, Backed, OneJournal, NewBalance,
                             TouchedBy
<1>2. RefundInv /\ ReflectedInv /\ [Next]_vars => ReflectedInv'
  <2> SUFFICES ASSUME RefundInv, ReflectedInv, [Next]_vars PROVE ReflectedInv'
    OBVIOUS
  <2>1. IdleHasNoCalls'
    <3>1. CASE UNCHANGED vars
      BY <3>1 DEF vars, session, log, ReflectedInv, IdleHasNoCalls
    <3>2. CASE CommitTries \/ MintFails \/ InvalidInVm
      BY <3>2 DEF CommitTries, MintFails, InvalidInVm, Cleared, IdleHasNoCalls
    <3>3. CASE \E to \in Account, n \in Amount : \E e \in Effects(to) :
                   \/ EvmCall(to, n, e)
                   \/ \E u \in User, mint \in Amount : Deposit(u, to, n, mint, e)
      BY <3>3 DEF EvmCall, Deposit, IdleHasNoCalls
    <3> QED  BY <3>1, <3>2, <3>3, QuietSteps DEF ReflectedInv, IdleHasNoCalls
  <2>2. ASSUME Single', NEW c \in Contract PROVE Backed(c)'
    <3>1. Backed(c) /\ IdleHasNoCalls
      BY <2>2, EventsStay DEF ReflectedInv, Single
    <3>2. CASE UNCHANGED vars
      BY <3>1, <3>2 DEF vars, state, session, log, Backed, OneJournal, NewBalance, TouchedBy,
                        LastChange, Net
    <3>3. CASE RejectTransaction
      BY <3>2, <3>3 DEF RejectTransaction
    <3>4. CASE \E u \in User, limit \in IntrinsicGas..MaxLimit, l1 \in Amount :
                  VerifyTransaction(u, limit, l1)
      BY <3>1, <3>4, BeginBacked
    <3>5. CASE \/ \E to \in Account, n \in Amount : TransferToken(to, n)
               \/ EndVm \/ AbortVm \/ InvalidInVm
      BY <2>2, <3>1, <3>5, VmBacked DEF Party
    <3>6. CASE \E to \in Account, n \in Amount : \E e \in Effects(to) :
                  \/ EvmCall(to, n, e)
                  \/ \E u \in User, mint \in Amount : Deposit(u, to, n, mint, e)
      BY <2>2, <3>1, <3>6, CallBacked DEF Party
    <3>7. CASE MintEth \/ MintFails \/ DepositAborts
      BY <2>2, <3>1, <3>7, MintBacked
    <3>8. CASE ReplicateTransfer
      BY <3>1, <3>8, ReplicateBacked
    <3>9. CASE \/ ReplicateFails \/ ReplicateDone \/ CommitState \/ CommitTries
               \/ \E used \in IntrinsicGas..MaxLimit : Refund(used)
      BY <2>2, <3>1, <3>9, FinishBacked
    <3> QED  BY <3>2, <3>3, <3>4, <3>5, <3>6, <3>7, <3>8, <3>9, Zenon DEF Next
  <2> QED  BY <2>1, <2>2 DEF ReflectedInv
<1>3. ReflectedInv => CleanReflected
  BY DEF ReflectedInv, CleanReflected, Single, Backed
<1> QED  BY <1>1, <1>2, <1>3, RefundInvariant, PTL DEF Spec

-----------------------------------------------------------------------------
(***************************************************************************)
(* The fees of the treasury.  Its account may be the one that hands back   *)
(* the values of EVM calls: it has the fees of earlier transactions, what  *)
(* this one was charged, and the values still owed to origins.             *)
(***************************************************************************)
Funded == Treasury = Native => "underfunded" \notin events

Banked ==
    /\ pc # "commit" => token[Treasury] >= fees
    /\ pc \in {"vm", "replicate"} =>
          \E f : IsOwed(f, origins) /\ Keeps(balances, fees + (tx.l1 + tx.limit), f)
    /\ pc = "mint" => /\ balances = token /\ tx.l1 = 0 /\ tx.limit = 0
                      /\ \E f : IsOwed(f, origins) /\ (Treasury = Native => f[0] <= tx.mint)
    /\ pc = "refund" => balances[Treasury] >= fees + (tx.l1 + tx.limit)
    /\ pc = "replicate" /\ tx.kind # "canonical" => tx.l1 = 0 /\ tx.limit = 0
    /\ pc = "commit" => balances[Treasury] >= fees

TreasuryInv == fees \in Nat /\ (Funded => Banked)

(* What is owed for a single origin. *)
LEMMA OwedOnce ==
    \A x \in OriginRecord : \E f : IsOwed(f, Append(<<>>, x)) /\ f[0] = x.amount
<1> SUFFICES ASSUME NEW x \in OriginRecord
             PROVE  \E f : IsOwed(f, Append(<<>>, x)) /\ f[0] = x.amount
  OBVIOUS
<1> DEFINE nothing == [i \in 0..0 |-> 0]
<1>1. IsOwed(nothing, <<>>) /\ nothing[0] = 0
  BY OwedNothing
<1> HIDE DEF nothing
<1>2. <<>> \in Seq(OriginRecord) /\ x.amount \in Nat
  BY DEF OriginRecord
<1>3. PICK g : IsOwed(g, Append(<<>>, x)) /\ g[0] = nothing[0] + x.amount
  BY <1>1, <1>2, OwedAppend
<1> QED  BY <1>1, <1>2, <1>3

(* A treasury that keeps m and the values it owes has m; one that gets     *)
(* richer still keeps them.                                                *)
LEMMA KeepsMore ==
    ASSUME MoneyTyped, NEW m \in Nat, NEW f, IsOwed(f, origins), Keeps(balances, m, f),
           NEW n \in Int, n >= balances[Treasury]
    PROVE  /\ balances[Treasury] >= m
           /\ n >= m + (IF Treasury = Native THEN f[0] ELSE 0)
<1>1. balances[Treasury] \in Nat /\ Len(origins) \in Nat
  BY Accounts DEF MoneyTyped
<1>2. f[0] \in Nat
  BY <1>1 DEF IsOwed
<1> QED  BY <1>1, <1>2 DEF Keeps

(* The fee for the whole limit is added when a transaction begins. *)
LEMMA BeginBanked ==
    ASSUME RefundInv, fees \in Nat, Banked, NEW u \in User,
           NEW limit \in IntrinsicGas..MaxLimit, NEW l1 \in Amount,
           VerifyTransaction(u, limit, l1)
    PROVE  Banked'
<1>1. /\ pc = "idle" /\ pc' = "vm" /\ UNCHANGED <<token, origins, fees>>
      /\ token[u] >= l1 + limit
      /\ balances' = Paid(token, u, Treasury, l1 + limit)
      /\ tx' = [kind |-> "canonical", sender |-> u, limit |-> limit, l1 |-> l1, mint |-> 0]
  BY DEF VerifyTransaction, state, log
<1>2. origins = <<>> /\ token \in [Account -> Nat] /\ l1 + limit \in Nat
  BY <1>1, InputsTyped DEF RefundInv, PhaseOK, MoneyTyped
<1>3. token[Treasury] >= fees /\ token[Treasury] \in Nat
  BY <1>1, <1>2, Accounts DEF Banked
<1>4. balances'[Treasury] = token[Treasury] + (l1 + limit)
  <2>1. u \in Account /\ Treasury \in Account /\ u # Treasury
    BY Accounts
  <2> QED  BY <1>1, <1>2, <2>1, PaidTyped
<1> DEFINE f == [i \in 0..0 |-> 0]
<1>5. IsOwed(f, origins') /\ f[0] = 0
  BY <1>1, <1>2, OwedNothing
<1> HIDE DEF f
<1>6. balances'[Treasury] >= fees + (l1 + limit)
  BY <1>2, <1>3, <1>4
<1>7. Keeps(balances', fees' + (tx'.l1 + tx'.limit), f)
  BY <1>1, <1>2, <1>5, <1>6 DEF Keeps
<1> QED  BY <1>1, <1>3, <1>5, <1>7 DEF Banked

(* A function in the VM pays out of its sender's account, and takes nothing*)
(* from the treasury's when it aborts.                                     *)
LEMMA VmBanked ==
    ASSUME RefundInv, fees \in Nat, Banked,
           \/ \E to \in Account, n \in Amount : TransferToken(to, n)
           \/ EndVm \/ AbortVm \/ InvalidInVm
    PROVE  Banked'
<1>1. /\ pc = "vm" /\ tx.sender \in User /\ tx.l1 \in Nat /\ tx.limit \in Nat
      /\ tx.kind = "canonical" /\ UNCHANGED <<token, fees>>
      /\ token[tx.sender] >= tx.l1 + tx.limit
  BY DEF TransferToken, EndVm, AbortVm, InvalidInVm, RefundInv, PhaseOK, MoneyTyped, TxRecord,
         state, history
<1>2. /\ token \in [Account -> Nat] /\ balances \in [Account -> Nat] /\ MoneyTyped
      /\ tx.sender \in Account /\ Treasury \in Account \ {tx.sender}
  BY <1>1, Accounts DEF RefundInv, MoneyTyped
<1>3. PICK m \in Nat : m = fees + (tx.l1 + tx.limit)
  BY <1>1
<1>4. PICK f : IsOwed(f, origins) /\ Keeps(balances, m, f)
  BY <1>1, <1>3 DEF Banked
<1>5. /\ token[Treasury] >= fees /\ token[Treasury] \in Nat
      /\ balances[Treasury] \in Nat /\ balances[Treasury] >= m
  BY <1>1, <1>2, <1>4, KeepsMore DEF Banked
<1>6. ASSUME NEW to \in Account, NEW n \in Amount, TransferToken(to, n) PROVE Banked'
  <2>1. /\ UNCHANGED <<pc, tx, origins>> /\ balances[tx.sender] >= n
        /\ balances' = Paid(balances, tx.sender, to, n)
    BY <1>6 DEF TransferToken, log
  <2>2. balances'[Treasury] >= balances[Treasury] /\ balances'[Treasury] \in Int
    <3>1. n \in Nat
      BY InputsTyped
    <3>2. /\ balances' \in [Account -> Nat]
          /\ \A a \in Account \ {tx.sender} : balances'[a] >= balances[a]
      BY <1>2, <2>1, <3>1, PaidTyped
    <3> QED  BY <1>2, <3>2
  <2>3. Keeps(balances', m, f)
    BY <1>2, <1>4, <2>2, KeepsMore DEF Keeps
  <2> QED  BY <1>1, <1>3, <1>4, <1>5, <2>1, <2>3 DEF Banked
<1>7. CASE EndVm
  <2>1. pc' = "replicate" /\ UNCHANGED <<tx, origins, balances>>
    BY <1>7 DEF EndVm, log
  <2>2. Keeps(balances', m, f) /\ IsOwed(f, origins')
    BY <1>4, <2>1 DEF Keeps
  <2> QED  BY <1>1, <1>3, <1>5, <2>1, <2>2 DEF Banked
<1>8. CASE AbortVm
  <2>1. /\ pc' = "refund" /\ UNCHANGED tx
        /\ \/ balances' = Paid(token, tx.sender, Treasury, tx.l1 + tx.limit)
           \/ \E n \in Amount : /\ n <= balances[tx.sender]
                                /\ balances' = [balances EXCEPT ![tx.sender] = @ - n]
    BY <1>8 DEF AbortVm
  <2>2. CASE balances' = Paid(token, tx.sender, Treasury, tx.l1 + tx.limit)
    <3>1. PICK n \in Nat : n = tx.l1 + tx.limit
      BY <1>1
    <3>2. balances'[Treasury] = token[Treasury] + n
      BY <1>1, <1>2, <2>2, <3>1, PaidTyped
    <3> QED  BY <1>1, <1>5, <2>1, <3>1, <3>2 DEF Banked
  <2>3. CASE \E n \in Amount : balances' = [balances EXCEPT ![tx.sender] = @ - n]
    <3>1. balances'[Treasury] = balances[Treasury]
      BY <1>2, <2>3
    <3> QED  BY <1>1, <1>3, <1>5, <2>1, <3>1 DEF Banked
  <2> QED  BY <2>1, <2>2, <2>3
<1>9. CASE InvalidInVm
  <2>1. pc' = "idle"
    BY <1>9 DEF InvalidInVm
  <2> QED  BY <1>1, <1>5, <2>1 DEF Banked
<1> QED  BY <1>6, <1>7, <1>8, <1>9

(* The value of a call is owed to its origin. *)
LEMMA CallBanked ==
    ASSUME RefundInv, fees \in Nat, Banked, NEW to \in Account, NEW n \in Amount,
           NEW e \in Effects(to), EvmCall(to, n, e)
    PROVE  Banked'
<1> DEFINE x == [from |-> Native, to |-> tx.sender, amount |-> n]
<1>1. /\ pc = "vm" /\ tx.sender \in User /\ tx.l1 \in Nat /\ tx.limit \in Nat
      /\ UNCHANGED <<token, fees, pc, tx>> /\ n \in Nat /\ balances[tx.sender] >= n
      /\ balances' = Paid(balances, tx.sender, Native, n)
      /\ Transact(tx.sender, to, n, e)
  BY InputsTyped DEF EvmCall, EvmPaid, RefundInv, PhaseOK, MoneyTyped, TxRecord, state
<1>2. /\ balances \in [Account -> Nat] /\ origins \in Seq(OriginRecord) /\ MoneyTyped
      /\ tx.sender \in Account /\ Treasury \in Account \ {tx.sender}
      /\ Native \in Account \ {tx.sender}
  BY <1>1, Accounts DEF RefundInv, MoneyTyped
<1>3. PICK m \in Nat : m = fees + (tx.l1 + tx.limit)
  BY <1>1
<1>4. PICK f : IsOwed(f, origins) /\ Keeps(balances, m, f)
  BY <1>1, <1>3 DEF Banked
<1>5. f[0] \in Nat /\ balances[Treasury] \in Nat
  <2>1. Len(origins) \in Nat
    BY <1>2
  <2> QED  BY <1>2, <1>4, <2>1 DEF IsOwed
<1>6. origins' = Append(origins, x) /\ x \in OriginRecord /\ x.amount = n
  BY <1>1, TransactTyped DEF RefundInv
<1> HIDE DEF x
<1>7. PICK g : IsOwed(g, origins') /\ g[0] = f[0] + n
  BY <1>2, <1>4, <1>6, OwedAppend
<1>8. /\ balances'[Treasury] \in Nat /\ balances'[Treasury] >= balances[Treasury]
      /\ Treasury = Native => balances'[Treasury] = balances[Treasury] + n
  <2>1. /\ balances' \in [Account -> Nat]
        /\ \A a \in Account \ {tx.sender} : balances'[a] >= balances[a]
    BY <1>1, <1>2, PaidTyped
  <2>2. balances'[Native] = balances[Native] + n
    <3>1. PICK u \in Account : u = tx.sender /\ u # Native
      BY <1>2
    <3>2. Native \in Account /\ balances[u] >= n /\ balances' = Paid(balances, u, Native, n)
      BY <1>1, <1>2, <3>1
    <3> QED  BY <1>1, <1>2, <3>1, <3>2 DEF Paid
  <2> QED  BY <1>2, <2>1, <2>2
<1>9. Keeps(balances', m, g)
  BY <1>1, <1>4, <1>5, <1>7, <1>8 DEF Keeps
<1> QED  BY <1>1, <1>3, <1>7, <1>9 DEF Banked

(* A deposit that ends well is about to mint what it hands on. *)
LEMMA DepositBanked ==
    ASSUME RefundInv, fees \in Nat, Banked, Funded', NEW to \in Account, NEW n \in Amount,
           NEW e \in Effects(to), NEW u \in User, NEW mint \in Amount,
           Deposit(u, to, n, mint, e)
    PROVE  Banked'
<1> DEFINE x == [from |-> Native, to |-> u, amount |-> n]
<1>1. /\ pc = "idle" /\ UNCHANGED <<token, fees>> /\ balances' = token
      /\ Transact(u, to, n, e) /\ pc' = IF e.success THEN "mint" ELSE "commit"
      /\ tx' = [kind |-> "deposit", sender |-> u, limit |-> 0, l1 |-> 0,
                mint |-> IF e.success THEN mint ELSE 0]
      /\ events' = IF e.success /\ mint < n THEN events \cup {"underfunded"} ELSE events
  BY DEF Deposit, state
<1>2. mint \in Nat /\ n \in Nat
  BY InputsTyped
<1>3. (Treasury = Native /\ e.success) => n <= mint
  BY <1>1, <1>2 DEF Funded
<1>4. origins = <<>> /\ token[Treasury] >= fees
  BY <1>1 DEF RefundInv, PhaseOK, Banked
<1>5. origins' = Append(<<>>, x) /\ x \in OriginRecord /\ x.amount = n
  BY <1>1, <1>4, TransactTyped DEF RefundInv
<1> HIDE DEF x
<1>6. PICK f : IsOwed(f, origins') /\ f[0] = n
  BY <1>5, OwedOnce
<1>7. tx'.l1 = 0 /\ tx'.limit = 0 /\ (e.success => tx'.mint = mint)
  BY <1>1
<1> QED  BY <1>1, <1>3, <1>4, <1>6, <1>7 DEF Banked

(* Minting covers the value that the deposit hands on. *)
LEMMA MintBanked ==
    ASSUME RefundInv, fees \in Nat, Banked, MintEth \/ MintFails \/ DepositAborts
    PROVE  Banked'
<1>1. CASE MintEth
  <2>1. /\ pc = "mint" /\ pc' = "replicate" /\ UNCHANGED <<token, tx, origins, fees>>
        /\ balances' = [balances EXCEPT ![Native] = @ + tx.mint]
    BY <1>1 DEF MintEth, state, log, history
  <2>2. /\ balances = token /\ tx.l1 = 0 /\ tx.limit = 0 /\ token[Treasury] >= fees
        /\ balances \in [Account -> Nat] /\ tx.mint \in Nat /\ Native \in Account
        /\ Treasury \in Account /\ Len(origins) \in Nat
    BY <2>1, Accounts DEF Banked, RefundInv, MoneyTyped, TxRecord
  <2>3. PICK f : IsOwed(f, origins) /\ (Treasury = Native => f[0] <= tx.mint)
    BY <2>1 DEF Banked
  <2>4. f[0] \in Nat /\ balances[Treasury] \in Nat
    BY <2>2, <2>3 DEF IsOwed
  <2>5. balances'[Treasury] = balances[Treasury] + (IF Treasury = Native THEN tx.mint ELSE 0)
    BY <2>1, <2>2, <2>4
  <2>6. Keeps(balances', fees, f)
    BY <2>2, <2>3, <2>4, <2>5 DEF Keeps
  <2>7. fees' + (tx'.l1 + tx'.limit) = fees
    BY <2>1, <2>2
  <2> QED  BY <2>1, <2>2, <2>3, <2>6, <2>7 DEF Banked
<1>2. CASE MintFails
  BY <1>2 DEF MintFails, state, Banked
<1>3. CASE DepositAborts
  BY <1>3 DEF DepositAborts, state, Banked
<1> QED  BY <1>1, <1>2, <1>3

(* Handing back a value takes as much as was owed, and repeating a payment *)
(* of the EVM takes from a party, completed or not.                        *)
LEMMA ReplicateBanked ==
    ASSUME RefundInv, fees \in Nat, Banked, ReplicateTransfer \/ ReplicateFails
    PROVE  Banked'
<1>1. pc = "replicate" /\ Replicated # <<>> /\ UNCHANGED <<token, tx, fees>>
  BY DEF ReplicateTransfer, ReplicateFails, state, history
<1>2. /\ balances \in [Account -> Nat] /\ MoneyTyped /\ tx.l1 \in Nat /\ tx.limit \in Nat
      /\ payment.from \in Account /\ payment.to \in Account /\ payment.amount \in Nat
      /\ Treasury \in Account
  BY <1>1, PaymentTyped, Accounts DEF RefundInv, MoneyTyped, TxRecord
<1>3. PICK m \in Nat : m = fees + (tx.l1 + tx.limit)
  BY <1>2
<1>4. PICK f : IsOwed(f, origins) /\ Keeps(balances, m, f)
  BY <1>1, <1>3 DEF Banked
<1>5. token[Treasury] >= fees /\ (tx.kind # "canonical" => tx.l1 = 0 /\ tx.limit = 0)
  BY <1>1 DEF Banked
<1> HIDE DEF payment
<1>6. CASE ReplicateTransfer
  <2>1. /\ UNCHANGED pc /\ balances[payment.from] >= payment.amount
        /\ balances' = Paid(balances, payment.from, payment.to, payment.amount)
        /\ origins' = IF origins # <<>> THEN Tail(origins) ELSE origins
    BY <1>6 DEF ReplicateTransfer
  <2>2. /\ balances' \in [Account -> Nat]
        /\ balances'[payment.from] >= balances[payment.from] - payment.amount
        /\ \A a \in Account \ {payment.from} : balances'[a] >= balances[a]
    BY <1>2, <2>1, PaidTyped
  <2>3. PICK g : IsOwed(g, origins') /\ Keeps(balances', m, g)
    BY <1>1, <1>2, <1>4, <2>1, <2>2, PaymentCovered
  <2> QED  BY <1>1, <1>3, <1>5, <2>1, <2>3 DEF Banked
<1>7. CASE ReplicateFails
  <2>1. /\ pc' = IF tx.kind = "canonical" THEN "refund" ELSE "commit"
        /\ balances' \in {balances} \cup
              (IF balances[payment.from] >= payment.amount
               THEN {[balances EXCEPT ![payment.from] = @ - payment.amount]} ELSE {})
    BY <1>7 DEF ReplicateFails
  <2>2. balances'[Treasury] >= m
    <3>1. CASE balances' = balances
      <4>1. balances[Treasury] \in Int /\ balances[Treasury] >= balances[Treasury]
        BY <1>2
      <4> QED  BY <1>2, <1>4, <3>1, <4>1, KeepsMore
    <3>2. CASE /\ balances[payment.from] >= payment.amount
               /\ balances' = [balances EXCEPT ![payment.from] = @ - payment.amount]
      <4>1. /\ balances' \in [Account -> Nat]
            /\ balances'[payment.from] >= balances[payment.from] - payment.amount
            /\ \A a \in Account \ {payment.from} : balances'[a] >= balances[a]
        BY <1>2, <3>2
      <4>2. PICK g : g[0] \in Nat /\ Keeps(balances', m, g)
        BY <1>1, <1>2, <1>4, <3>2, <4>1, PaymentCovered
      <4>3. balances'[Treasury] \in Nat
        BY <1>2, <4>1
      <4> QED  BY <4>2, <4>3 DEF Keeps
    <3> QED  BY <2>1, <3>1, <3>2
  <2>3. tx.kind # "canonical" => m = fees
    BY <1>3, <1>5
  <2> QED  BY <1>1, <1>3, <1>5, <2>1, <2>2, <2>3 DEF Banked
<1> QED  BY <1>6, <1>7

(* The end of a transaction: of what was charged the refund is returned. *)
LEMMA FinishBanked ==
    ASSUME RefundInv, fees \in Nat, Banked,
           \/ ReplicateDone \/ CommitState \/ CommitTries
           \/ \E used \in IntrinsicGas..MaxLimit : Refund(used)
    PROVE  Banked'
<1>1. CASE ReplicateDone
  <2>1. /\ pc = "replicate" /\ UNCHANGED <<token, tx, balances, fees>>
        /\ pc' = IF tx.kind = "canonical" THEN "refund" ELSE "commit"
    BY <1>1 DEF ReplicateDone, state, history
  <2>2. MoneyTyped /\ tx.l1 \in Nat /\ tx.limit \in Nat /\ balances[Treasury] \in Int
    BY Accounts DEF RefundInv, MoneyTyped, TxRecord
  <2>3. PICK m \in Nat : m = fees + (tx.l1 + tx.limit)
    BY <2>2
  <2>4. PICK f : IsOwed(f, origins) /\ Keeps(balances, m, f)
    BY <2>1, <2>3 DEF Banked
  <2>5. balances[Treasury] >= m
    BY <2>2, <2>4, KeepsMore
  <2>6. tx.kind # "canonical" => m = fees
    BY <2>1, <2>3 DEF Banked
  <2> QED  BY <2>1, <2>3, <2>5, <2>6 DEF Banked
<1>2. ASSUME NEW used \in IntrinsicGas..MaxLimit, Refund(used) PROVE Banked'
  <2>1. /\ pc = "refund" /\ pc' = "commit" /\ used \in IntrinsicGas..tx.limit
        /\ balances[Treasury] >= tx.limit - used
        /\ balances' = Paid(balances, Treasury, tx.sender, tx.limit - used)
        /\ fees' = fees + tx.l1 + used
    BY <1>2 DEF Refund
  <2>2. /\ tx.sender \in Account /\ tx.limit \in Nat /\ tx.l1 \in Nat /\ used \in Nat
        /\ balances \in [Account -> Nat] /\ Treasury \in Account
        /\ balances[Treasury] \in Nat
    BY <2>1, InputsTyped, Accounts DEF RefundInv, PhaseOK, MoneyTyped, TxRecord
  <2>3. PICK n \in Nat : n = tx.limit - used
    BY <2>1, <2>2, AmountAssumption
  <2>4. balances'[Treasury] >= balances[Treasury] - n /\ balances'[Treasury] \in Nat
    BY <2>1, <2>2, <2>3, PaidTyped
  <2>5. balances[Treasury] >= fees + (tx.l1 + tx.limit)
    BY <2>1 DEF Banked
  <2>6. balances'[Treasury] >= fees'
    BY <2>1, <2>2, <2>3, <2>4, <2>5
  <2> QED  BY <2>1, <2>6 DEF Banked
<1>3. CASE CommitState
  BY <1>3 DEF CommitState, Banked
<1>4. CASE CommitTries
  BY <1>4 DEF CommitTries, Banked, history
<1> QED  BY <1>1, <1>2, <1>3, <1>4

(* The treasury keeps the fees for the gas that transactions used and for  *)
(* their L1 data, whoever pays it, however often sessions call the EVM and *)
(* wherever they fail; when its account is that of the EVM native, as long *)
(* as deposits mint the value they hand on.                                *)
THEOREM TreasuryKeepsFees == Spec => []CleanTreasury
<1>1. Init => TreasuryInv
  <2> SUFFICES ASSUME Init PROVE TreasuryInv
    OBVIOUS
  <2>1. fees = 0 /\ pc = "idle" /\ token[Treasury] = 0
    BY Accounts DEF Init, Party
  <2> QED  BY <2>1 DEF TreasuryInv, Banked
<1>2. RefundInv /\ TreasuryInv /\ [Next]_vars => TreasuryInv'
  <2> SUFFICES ASSUME RefundInv, TreasuryInv, [Next]_vars PROVE TreasuryInv'
    OBVIOUS
  <2>1. fees' \in Nat
    <3>1. ASSUME NEW used \in IntrinsicGas..MaxLimit, Refund(used) PROVE fees' \in Nat
      <4>1. fees \in Nat /\ tx.l1 \in Nat /\ used \in Nat
        BY InputsTyped DEF TreasuryInv, RefundInv, MoneyTyped, TxRecord
      <4> QED  BY <3>1, <4>1 DEF Refund
    <3>2. CASE ~\E used \in IntrinsicGas..MaxLimit : Refund(used)
      <4>1. fees' = fees
        BY <3>2, ZenonT(40)
           DEF Next, vars, history, RejectTransaction, VerifyTransaction, TransferToken,
               EvmCall, Deposit, EndVm, AbortVm, InvalidInVm, MintEth, MintFails,
               DepositAborts, ReplicateTransfer, ReplicateFails, ReplicateDone,
               CommitState, CommitTries
      <4> QED  BY <4>1 DEF TreasuryInv
    <3> QED  BY <3>1, <3>2
  <2>2. ASSUME Funded' PROVE Banked'
    <3>1. Banked /\ fees \in Nat
      BY <2>2, EventsStay DEF TreasuryInv, Funded
    <3>2. CASE UNCHANGED vars
      BY <3>1, <3>2 DEF vars, state, session, log, history, Banked, Keeps
    <3>3. CASE RejectTransaction
      BY <3>2, <3>3 DEF RejectTransaction
    <3>4. CASE \E u \in User, limit \in IntrinsicGas..MaxLimit, l1 \in Amount :
                  VerifyTransaction(u, limit, l1)
      BY <3>1, <3>4, BeginBanked
    <3>5. CASE \/ \E to \in Account, n \in Amount : TransferToken(to, n)
               \/ EndVm \/ AbortVm \/ InvalidInVm
      BY <3>1, <3>5, VmBanked
    <3>6. CASE \E to \in Account, n \in Amount : \E e \in Effects(to) :
                  EvmCall(to, n, e)
      BY <3>1, <3>6, CallBanked
    <3>7. CASE \E to \in Account, n \in Amount : \E e \in Effects(to) :
                  \E u \in User, mint \in Amount : Deposit(u, to, n, mint, e)
      BY <2>2, <3>1, <3>7, DepositBanked
    <3>8. CASE MintEth \/ MintFails \/ DepositAborts
      BY <3>1, <3>8, MintBanked
    <3>9. CASE ReplicateTransfer \/ ReplicateFails
      BY <3>1, <3>9, ReplicateBanked
    <3>10. CASE \/ ReplicateDone \/ CommitState \/ CommitTries
                \/ \E used \in IntrinsicGas..MaxLimit : Refund(used)
      BY <3>1, <3>10, FinishBanked
    <3> QED  BY <3>2, <3>3, <3>4, <3>5, <3>6, <3>7, <3>8, <3>9, <3>10, Zenon DEF Next
  <2> QED  BY <2>1, <2>2 DEF TreasuryInv
<1>3. TreasuryInv => CleanTreasury
  BY DEF TreasuryInv, CleanTreasury, Funded, Banked
<1> QED  BY <1>1, <1>2, <1>3, RefundInvariant, PTL DEF Spec

-----------------------------------------------------------------------------
(* There are finitely many accounts. *)
LEMMA AccountsFinite == IsFiniteSet(Account)
<1>1. IsFiniteSet(User \cup Contract)
  BY AccountAssumption, FS_Union
<1>2. IsFiniteSet((User \cup Contract) \cup {Native})
  BY <1>1, FS_AddElement
<1>3. IsFiniteSet(((User \cup Contract) \cup {Native}) \cup {Treasury})
  BY <1>2, FS_AddElement
<1>4. Account = ((User \cup Contract) \cup {Native}) \cup {Treasury}
  BY DEF Account
<1> QED  BY <1>3, <1>4

(* When one account gets n more, so does the total. *)
LEMMA TotalChanges ==
    ASSUME NEW b \in [Account -> Int], NEW c \in [Account -> Int], NEW a \in Account,
           NEW n \in Int, c[a] = b[a] + n, \A x \in Account \ {a} : c[x] = b[x]
    PROVE  Tokens(b) \in Int /\ Tokens(c) = Tokens(b) + n
  BY AccountsFinite, SumChanges DEF Tokens

-----------------------------------------------------------------------------
(***************************************************************************)
(* Tokens.  The balances of the state, and those of the session with what  *)
(* it may still mint, never add up to more than was minted.                *)
(***************************************************************************)
TokensInv ==
    /\ minted \in Nat
    /\ Tokens(token) <= minted
    /\ pc \in {"vm", "mint"} => Tokens(balances) <= minted
    /\ pc \in {"replicate", "refund", "commit"} => Tokens(balances) <= minted + tx.mint

(* A payment leaves the total as it is. *)
LEMMA TotalPaid ==
    ASSUME NEW b \in [Account -> Nat], NEW from \in Account, NEW to \in Account,
           NEW n \in Nat
    PROVE  Tokens(b) \in Int /\ Tokens(Paid(b, from, to, n)) = Tokens(b)
<1>1. PICK m \in Int : m = 0 - n
  OBVIOUS
<1>2. PICK debited : debited = [b EXCEPT ![from] = @ + m]
  OBVIOUS
<1>3. PICK credited : credited = [debited EXCEPT ![to] = @ + n]
  OBVIOUS
<1>4. /\ b \in [Account -> Int] /\ debited \in [Account -> Int] /\ n \in Int
      /\ debited[from] = b[from] + m /\ \A x \in Account \ {from} : debited[x] = b[x]
  BY <1>2
<1>5. /\ credited \in [Account -> Int] /\ credited[to] = debited[to] + n
      /\ \A x \in Account \ {to} : credited[x] = debited[x]
  BY <1>3, <1>4
<1>6. Tokens(b) \in Int /\ Tokens(debited) = Tokens(b) + m
  BY <1>4, TotalChanges
<1>7. Tokens(debited) \in Int /\ Tokens(credited) = Tokens(debited) + n
  BY <1>4, <1>5, TotalChanges
<1>8. from # to => Paid(b, from, to, n) = credited
  <2> SUFFICES ASSUME from # to PROVE Paid(b, from, to, n) = credited
    OBVIOUS
  <2>1. Paid(b, from, to, n) = [b EXCEPT ![from] = @ - n, ![to] = @ + n]
    BY DEF Paid
  <2>2. \A x \in Account : [b EXCEPT ![from] = @ - n, ![to] = @ + n][x] = credited[x]
    BY <1>1, <1>4, <1>5
  <2>3. credited = [x \in Account |-> credited[x]]
    BY <1>5
  <2> QED  BY <2>1, <2>2, <2>3
<1>9. from = to => Paid(b, from, to, n) = b
  BY DEF Paid
<1>10. Tokens(credited) = Tokens(b)
  BY <1>1, <1>6, <1>7
<1> QED  BY <1>6, <1>8, <1>9, <1>10

(* All the tokens at the beginning are those given to users. *)
LEMMA TotalAtGenesis ==
    ASSUME NEW b, b = [a \in Account |-> IF a \in User THEN Initial ELSE 0]
    PROVE  Tokens(b) = Initial * Cardinality(User)
<1>1. Initial \in Nat /\ b \in [Account -> Int]
  BY AmountAssumption
<1>2. PICK h : SetSums(h, b, Account) /\ Tokens(b) = h[Account]
  BY <1>1, AccountsFinite, SumOverSums DEF Tokens
<1> DEFINE size(s) == Cardinality(s \cap User)
<1>3. \A s \in SUBSET Account : h[s] = Initial * size(s)
  <2> DEFINE bad == {s \in SUBSET Account : h[s] # Initial * size(s)}
  <2> SUFFICES ASSUME bad # {} PROVE FALSE
    OBVIOUS
  <2>1. bad \subseteq SUBSET Account
    OBVIOUS
  <2>2. PICK s \in bad : \A t \in bad : Cardinality(s) <= Cardinality(t)
    BY <2>1, AccountsFinite, LeastSet
  <2>3. s \in SUBSET Account /\ h[s] # Initial * size(s)
    BY <2>2
  <2>4. s # {}
    <3>1. h[{}] = 0 /\ size({}) = 0
      BY <1>2, FS_EmptySet DEF SetSums
    <3>2. Initial * 0 = 0
      BY <1>1
    <3> QED  BY <2>3, <3>1, <3>2
  <2>5. PICK x \in s : TRUE
    BY <2>4
  <2> DEFINE t == s \ {x}
  <2>6. /\ t \in SUBSET Account /\ Cardinality(t) = Cardinality(s) - 1
        /\ Cardinality(s) \in Nat
    BY <2>3, <2>5, AccountsFinite, Smaller
  <2>7. h[t] = Initial * size(t)
    <3>1. ~(Cardinality(s) <= Cardinality(t))
      BY <2>6
    <3>2. t \notin bad
      BY <2>2, <3>1, Zenon
    <3> QED  BY <2>6, <3>2
  <2>8. h[s] = b[x] + h[t]
    BY <1>2, <2>3, <2>5 DEF SetSums
  <2>9. /\ s \cap User \in SUBSET Account /\ t \cap User = (s \cap User) \ {x}
        /\ Cardinality(s \cap User) \in Nat
    BY <2>3, AccountsFinite, Smaller
  <2>10. CASE x \in User
    <3>1. size(t) = size(s) - 1
      BY <2>5, <2>9, <2>10, AccountsFinite, Smaller
    <3>2. b[x] = Initial
      BY <2>3, <2>5, <2>10
    <3>3. \A k \in Nat : Initial + Initial * (k - 1) = Initial * k
      BY <1>1
    <3>4. PICK k \in Nat : k = size(s)
      BY <2>9
    <3>5. h[s] = Initial + Initial * (k - 1)
      BY <2>7, <2>8, <3>1, <3>2, <3>4
    <3> QED  BY <2>3, <3>3, <3>4, <3>5
  <2>11. CASE x \notin User
    <3>1. t \cap User = s \cap User
      BY <2>11
    <3>2. b[x] = 0
      BY <2>3, <2>5, <2>11
    <3>3. PICK k \in Int : k = Initial * size(s)
      BY <1>1, <2>9
    <3>4. h[t] = k
      BY <2>7, <3>1, <3>3
    <3>5. h[s] = k
      BY <2>8, <3>2, <3>4
    <3> QED  BY <2>3, <3>3, <3>5
  <2> QED  BY <2>10, <2>11
<1>4. Account \cap User = User
  BY DEF Account
<1> QED  BY <1>2, <1>3, <1>4

(* The totals of the session at its beginning, in the VM and in a deposit. *)
LEMMA SessionKeepsTokens ==
    ASSUME RefundInv, TokensInv,
           \/ \E u \in User, limit \in IntrinsicGas..MaxLimit, l1 \in Amount :
                 VerifyTransaction(u, limit, l1)
           \/ \E to \in Account, n \in Amount : TransferToken(to, n)
           \/ \E to \in Account, n \in Amount : \E e \in Effects(to) : EvmCall(to, n, e)
           \/ EndVm \/ AbortVm
    PROVE  TokensInv'
<1>1. /\ token \in [Account -> Nat] /\ balances \in [Account -> Nat]
      /\ minted \in Nat /\ tx \in TxRecord
  BY DEF RefundInv, MoneyTyped, TokensInv
<1>2. Treasury \in Account /\ Native \in Account /\ Party \subseteq Account
      /\ User \subseteq Account
  BY Accounts
<1>3. Tokens(token) \in Int /\ Tokens(balances) \in Int
  BY <1>1, <1>2, TotalPaid
<1>4. ASSUME NEW u \in User, NEW limit \in IntrinsicGas..MaxLimit, NEW l1 \in Amount,
             VerifyTransaction(u, limit, l1)
      PROVE  TokensInv'
  <2>1. /\ balances' = Paid(token, u, Treasury, l1 + limit) /\ pc' = "vm"
        /\ UNCHANGED <<token, minted>>
    BY <1>4 DEF VerifyTransaction, state
  <2>2. PICK n \in Nat : n = l1 + limit
    BY InputsTyped
  <2>3. Tokens(Paid(token, u, Treasury, n)) = Tokens(token)
    BY <1>1, <1>2, TotalPaid
  <2> QED  BY <2>1, <2>2, <2>3 DEF TokensInv
<1>5. ASSUME pc = "vm", tx.sender \in User, UNCHANGED <<token, minted, pc>>,
             NEW to \in Account, NEW n \in Amount,
             balances' = Paid(balances, tx.sender, to, n)
      PROVE  TokensInv'
  <2>1. n \in Nat /\ tx.sender \in Account
    BY <1>2, <1>5, InputsTyped
  <2>2. Tokens(Paid(balances, tx.sender, to, n)) = Tokens(balances)
    BY <1>1, <2>1, TotalPaid
  <2> QED  BY <1>5, <2>2 DEF TokensInv
<1>6. ASSUME NEW to \in Account, NEW n \in Amount, TransferToken(to, n) PROVE TokensInv'
  BY <1>2, <1>5, <1>6 DEF TransferToken, RefundInv, PhaseOK, state, history
<1>7. ASSUME NEW to \in Account, NEW n \in Amount, NEW e \in Effects(to), EvmCall(to, n, e)
      PROVE  TokensInv'
  BY <1>2, <1>5, <1>7 DEF EvmCall, EvmPaid, RefundInv, PhaseOK, state
<1>8. CASE EndVm
  <2>1. tx.mint \in Nat
    BY <1>1 DEF TxRecord
  <2> QED  BY <1>1, <1>3, <1>8, <2>1 DEF EndVm, TokensInv, state, history
<1>9. CASE AbortVm
  <2>1. /\ UNCHANGED <<token, minted, tx>> /\ pc = "vm" /\ pc' = "refund"
        /\ \/ balances' = Paid(token, tx.sender, Treasury, tx.l1 + tx.limit)
           \/ \E n \in Amount : /\ n <= balances[tx.sender]
                                /\ balances' = [balances EXCEPT ![tx.sender] = @ - n]
    BY <1>9 DEF AbortVm, state
  <2>2. tx.mint \in Nat /\ tx.l1 + tx.limit \in Nat /\ tx.sender \in Account
    BY <1>1, <1>2 DEF TxRecord
  <2>3. PICK n \in Nat : n = tx.l1 + tx.limit
    BY <2>2
  <2>4. Tokens(Paid(token, tx.sender, Treasury, n)) = Tokens(token)
    BY <1>1, <1>2, <2>2, TotalPaid
  <2>5. ASSUME NEW k \in Amount, balances' = [balances EXCEPT ![tx.sender] = @ - k]
        PROVE  Tokens(balances') <= Tokens(balances) /\ Tokens(balances') \in Int
    <3>1. PICK b \in [Account -> Int], u \in Account, m \in Int :
             b = balances /\ u = tx.sender /\ m = 0 - k /\ m <= 0
      BY <1>1, <2>2, InputsTyped
    <3>2. balances[u] - k = balances[u] + m
      BY <1>1, <3>1, InputsTyped
    <3>3. PICK c : c = [b EXCEPT ![u] = @ + m]
      OBVIOUS
    <3>4. /\ c \in [Account -> Int]
          /\ c[u] = b[u] + m /\ \A x \in Account \ {u} : c[x] = b[x]
      BY <3>3
    <3>5. Tokens(c) = Tokens(b) + m /\ Tokens(b) \in Int
      BY <3>4, TotalChanges
    <3>6. balances' = c
      BY <2>5, <3>1, <3>2, <3>3
    <3> QED  BY <3>1, <3>5, <3>6
  <2>6. Tokens(balances') <= minted /\ Tokens(balances') \in Int
    <3>1. Tokens(token) <= minted /\ Tokens(balances) <= minted
      BY <2>1 DEF TokensInv
    <3>2. CASE balances' = Paid(token, tx.sender, Treasury, tx.l1 + tx.limit)
      BY <1>3, <2>3, <2>4, <3>1, <3>2
    <3>3. CASE \E k \in Amount : balances' = [balances EXCEPT ![tx.sender] = @ - k]
      <4>1. Tokens(balances') <= Tokens(balances) /\ Tokens(balances') \in Int
        BY <2>5, <3>3
      <4> QED  BY <1>1, <1>3, <3>1, <4>1
    <3> QED  BY <2>1, <3>2, <3>3
  <2> QED  BY <1>1, <2>1, <2>2, <2>6 DEF TokensInv
<1> QED  BY <1>4, <1>6, <1>7, <1>8, <1>9

(* Deposits mint once, into the balances and, in the end, into the state. *)
LEMMA DepositKeepsTokens ==
    ASSUME RefundInv, TokensInv,
           \/ \E to \in Account, n \in Amount : \E e \in Effects(to) :
                 \E u \in User, mint \in Amount : Deposit(u, to, n, mint, e)
           \/ MintEth \/ MintFails \/ DepositAborts
    PROVE  TokensInv'
<1>1. /\ token \in [Account -> Nat] /\ balances \in [Account -> Nat]
      /\ minted \in Nat /\ tx \in TxRecord /\ tx.mint \in Nat
  BY DEF RefundInv, MoneyTyped, TokensInv, TxRecord
<1>2. Native \in Account
  BY Accounts
<1>3. Tokens(token) \in Int /\ Tokens(balances) \in Int
  BY <1>1, <1>2, TotalPaid
<1>4. ASSUME NEW to \in Account, NEW n \in Amount, NEW e \in Effects(to), NEW u \in User,
             NEW mint \in Amount, Deposit(u, to, n, mint, e)
      PROVE  TokensInv'
  <2>1. /\ UNCHANGED <<token, minted>> /\ balances' = token
        /\ pc' = IF e.success THEN "mint" ELSE "commit"
        /\ ~e.success => tx'.mint = 0
    BY <1>4 DEF Deposit, state
  <2> QED  BY <1>1, <1>3, <2>1 DEF TokensInv
<1>5. CASE MintEth
  <2>1. /\ pc = "mint" /\ pc' = "replicate" /\ UNCHANGED <<token, minted, tx>>
        /\ balances' = [balances EXCEPT ![Native] = @ + tx.mint]
    BY <1>5 DEF MintEth, state, history
  <2>2. balances \in [Account -> Int] /\ balances' \in [Account -> Int] /\ tx.mint \in Int
    BY <1>1, <1>2, <2>1
  <2>3. PICK c \in [Account -> Int] : c = balances'
    BY <2>2
  <2>4. Tokens(c) = Tokens(balances) + tx.mint
    <3>1. PICK b \in [Account -> Int], n \in Int : b = balances /\ n = tx.mint
      BY <2>2
    <3>2. c[Native] = b[Native] + n /\ \A x \in Account \ {Native} : c[x] = b[x]
      BY <1>2, <2>1, <2>3, <3>1
    <3>3. Tokens(c) = Tokens(b) + n
      BY <1>2, <3>2, TotalChanges
    <3> QED  BY <3>1, <3>3
  <2>5. Tokens(balances') <= minted + tx.mint
    BY <1>1, <1>3, <2>1, <2>3, <2>4 DEF TokensInv
  <2> QED  BY <2>1, <2>5 DEF TokensInv
<1>6. CASE MintFails
  BY <1>6 DEF MintFails, TokensInv, state
<1>7. CASE DepositAborts
  <2>1. /\ pc = "mint" /\ pc' = "commit" /\ UNCHANGED <<token, minted, balances>>
        /\ tx'.mint = 0
    BY <1>1, <1>7 DEF DepositAborts, state, TxRecord
  <2> QED  BY <1>1, <1>3, <2>1 DEF TokensInv
<1> QED  BY <1>4, <1>5, <1>6, <1>7

(* The rest of the session pays, loses a payment at worst, and commits. *)
LEMMA FinishKeepsTokens ==
    ASSUME RefundInv, TokensInv,
           \/ ReplicateTransfer \/ ReplicateFails \/ ReplicateDone
           \/ InvalidInVm \/ CommitState \/ CommitTries
           \/ \E used \in IntrinsicGas..MaxLimit : Refund(used)
    PROVE  TokensInv'
<1>1. /\ token \in [Account -> Nat] /\ balances \in [Account -> Nat]
      /\ minted \in Nat /\ tx \in TxRecord /\ tx.mint \in Nat
  BY DEF RefundInv, MoneyTyped, TokensInv, TxRecord
<1>2. Treasury \in Account /\ Native \in Account /\ User \subseteq Account
  BY Accounts
<1>3. Tokens(token) \in Int /\ Tokens(balances) \in Int
  BY <1>1, <1>2, TotalPaid
<1>4. CASE ReplicateTransfer
  <2>1. /\ pc = "replicate" /\ Replicated # <<>> /\ UNCHANGED <<token, minted, pc, tx>>
        /\ balances' = Paid(balances, payment.from, payment.to, payment.amount)
    BY <1>4 DEF ReplicateTransfer, state, history
  <2>2. PICK p \in Account, q \in Account, n \in Nat :
           p = payment.from /\ q = payment.to /\ n = payment.amount
    BY <2>1, PaymentTyped DEF RefundInv
  <2>3. Tokens(Paid(balances, p, q, n)) = Tokens(balances)
    BY <1>1, TotalPaid
  <2>4. Tokens(balances') = Tokens(balances)
    BY <2>1, <2>2, <2>3
  <2> QED  BY <2>1, <2>4 DEF TokensInv
<1>5. CASE ReplicateFails
  <2>1. /\ pc = "replicate" /\ Replicated # <<>> /\ UNCHANGED <<token, minted, tx>>
        /\ pc' \in {"refund", "commit"}
        /\ \/ balances' = balances
           \/ balances' = [balances EXCEPT ![payment.from] = @ - payment.amount]
    BY <1>5 DEF ReplicateFails, state
  <2>2. PICK p \in Account, n \in Nat : p = payment.from /\ n = payment.amount
    BY <2>1, PaymentTyped DEF RefundInv
  <2>3. Tokens(balances') <= minted + tx.mint
    <3>1. CASE balances' = balances
      BY <2>1, <3>1 DEF TokensInv
    <3>2. CASE balances' = [balances EXCEPT ![payment.from] = @ - payment.amount]
      <4>1. PICK m \in Int : m = 0 - n
        OBVIOUS
      <4>2. PICK b \in [Account -> Int] : b = balances
        BY <1>1
      <4>3. PICK c : c = [b EXCEPT ![p] = @ + m]
        OBVIOUS
      <4>4. /\ c \in [Account -> Int]
            /\ c[p] = b[p] + m /\ \A x \in Account \ {p} : c[x] = b[x]
        BY <4>3
      <4>5. Tokens(c) = Tokens(balances) + m
        BY <4>2, <4>4, TotalChanges
      <4>6. balances' = c
        <5>1. [balances EXCEPT ![p] = @ - n] = [balances EXCEPT ![p] = @ + m]
          <6>1. balances[p] - n = balances[p] + m
            BY <1>1, <4>1
          <6> QED  BY <6>1
        <5> QED  BY <2>2, <3>2, <4>2, <4>3, <5>1
      <4> QED  BY <1>1, <1>3, <2>1, <4>1, <4>5, <4>6, SMTT(30) DEF TokensInv
    <3> QED  BY <2>1, <3>1, <3>2
  <2> QED  BY <2>1, <2>3 DEF TokensInv
<1>6. CASE ReplicateDone
  BY <1>6 DEF ReplicateDone, TokensInv, state, history
<1>7. CASE InvalidInVm
  BY <1>7 DEF InvalidInVm, TokensInv, state, history
<1>8. CASE CommitState
  <2>1. /\ pc = "commit" /\ pc' = "tries" /\ token' = balances
        /\ minted' = minted + tx.mint
    BY <1>8 DEF CommitState
  <2> QED  BY <1>1, <2>1 DEF TokensInv
<1>9. CASE CommitTries
  BY <1>9 DEF CommitTries, TokensInv, history
<1>10. ASSUME NEW used \in IntrinsicGas..MaxLimit, Refund(used) PROVE TokensInv'
  <2>1. /\ pc = "refund" /\ pc' = "commit" /\ UNCHANGED <<token, minted, tx>>
        /\ used \in IntrinsicGas..tx.limit
        /\ balances' = Paid(balances, Treasury, tx.sender, tx.limit - used)
    BY <1>10 DEF Refund, state
  <2>2. tx.limit \in Nat /\ used \in Nat /\ tx.sender \in Account
    BY <1>1, <1>2, InputsTyped DEF TxRecord
  <2>3. PICK n \in Nat : n = tx.limit - used
    BY <2>1, <2>2, AmountAssumption
  <2>4. Tokens(Paid(balances, Treasury, tx.sender, n)) = Tokens(balances)
    BY <1>1, <1>2, <2>2, TotalPaid
  <2>5. Tokens(balances') = Tokens(balances)
    BY <2>1, <2>3, <2>4
  <2> QED  BY <2>1, <2>5 DEF TokensInv
<1> QED  BY <1>4, <1>5, <1>6, <1>7, <1>8, <1>9, <1>10

(* No transaction makes tokens: whatever mixture of fees, transfers, EVM   *)
(* values, repeated or half repeated payments, mints, refunds and failures *)
(* it is, the balances never add up to more than was minted.               *)
THEOREM NoTokensFromNothing == Spec => []NothingFromNothing
<1>1. Init => TokensInv
  <2> SUFFICES ASSUME Init PROVE TokensInv
    OBVIOUS
  <2>1. /\ token = [a \in Account |-> IF a \in User THEN Initial ELSE 0]
        /\ minted = Initial * Cardinality(User) /\ pc = "idle"
    BY DEF Init
  <2>2. PICK b : b = [a \in Account |-> IF a \in User THEN Initial ELSE 0]
    OBVIOUS
  <2>3. Tokens(b) = Initial * Cardinality(User)
    BY <2>2, TotalAtGenesis
  <2>4. Cardinality(User) \in Nat /\ Initial \in Nat
    BY AccountAssumption, AmountAssumption, FS_CardinalityType
  <2>5. Initial * Cardinality(User) \in Nat
    BY <2>4
  <2>6. minted \in Nat /\ Tokens(token) <= minted
    BY <2>1, <2>2, <2>3, <2>5
  <2> QED  BY <2>1, <2>6 DEF TokensInv
<1>2. RefundInv /\ TokensInv /\ [Next]_vars => TokensInv'
  <2> SUFFICES ASSUME RefundInv, TokensInv, [Next]_vars PROVE TokensInv'
    OBVIOUS
  <2>1. CASE UNCHANGED vars
    BY <2>1 DEF vars, state, session, history, TokensInv
  <2>2. CASE RejectTransaction
    BY <2>1, <2>2 DEF RejectTransaction
  <2>3. CASE \/ \E u \in User, limit \in IntrinsicGas..MaxLimit, l1 \in Amount :
                   VerifyTransaction(u, limit, l1)
             \/ \E to \in Account, n \in Amount : TransferToken(to, n)
             \/ \E to \in Account, n \in Amount : \E e \in Effects(to) :
                   EvmCall(to, n, e)
             \/ EndVm \/ AbortVm
    BY <2>3, SessionKeepsTokens DEF Party
  <2>4. CASE \/ \E to \in Account, n \in Amount : \E e \in Effects(to) :
                   \E u \in User, mint \in Amount : Deposit(u, to, n, mint, e)
             \/ MintEth \/ MintFails \/ DepositAborts
    BY <2>4, DepositKeepsTokens DEF Party
  <2>5. CASE \/ ReplicateTransfer \/ ReplicateFails \/ ReplicateDone
             \/ InvalidInVm \/ CommitState \/ CommitTries
             \/ \E used \in IntrinsicGas..MaxLimit : Refund(used)
    BY <2>5, FinishKeepsTokens
  <2> QED  BY <2>1, <2>2, <2>3, <2>4, <2>5, Zenon DEF Next
<1>3. TokensInv => NothingFromNothing
  BY DEF TokensInv, NothingFromNothing
<1> QED  BY <1>1, <1>2, <1>3, RefundInvariant, PTL DEF Spec
=============================================================================
