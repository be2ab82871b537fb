----------------------------- MODULE FeesProofs -----------------------------
(* Proofs about Fees, for any transactions, prices and gas limits. *)
EXTENDS Fees, SeqOpsProofs, SequenceTheorems

-----------------------------------------------------------------------------
(* Arithmetic *)

\* Of two numbers.
LEMMA MaxOfTwo ==
  ASSUME NEW a \in Int, NEW b \in Int
  PROVE  Max({a, b}) = IF a >= b THEN a ELSE b
<1> DEFINE m == IF a >= b THEN a ELSE b
<1>1. m \in {a, b} /\ \A y \in {a, b} : m >= y
  OBVIOUS
<1>2. \A x \in {a, b} : (\A y \in {a, b} : x >= y) => x = m
  OBVIOUS
<1> QED  BY <1>1, <1>2 DEF Max

LEMMA MinOfTwo ==
  ASSUME NEW a \in Int, NEW b \in Int
  PROVE  Min({a, b}) = IF a <= b THEN a ELSE b
<1> DEFINE m == IF a <= b THEN a ELSE b
<1>1. m \in {a, b} /\ \A y \in {a, b} : m <= y
  OBVIOUS
<1>2. \A x \in {a, b} : (\A y \in {a, b} : x <= y) => x = m
  OBVIOUS
<1> QED  BY <1>1, <1>2 DEF Min

\* Products of natural numbers.
LEMMA Products ==
  ASSUME NEW a \in Nat, NEW b \in Nat, NEW p \in Nat
  PROVE  /\ p * a \in Nat /\ a * p = p * a
         /\ a <= b => p * a <= p * b
<1>1. p * a \in Nat /\ a * p = p * a
  OBVIOUS
<1>2. ASSUME a <= b PROVE p * a <= p * b
  <2>1. PICK d \in Nat : b = a + d
    <3>1. b - a \in Nat /\ b = a + (b - a)
      BY <1>2
    <3> QED  BY <3>1
  <2>2. p * b = p * a + p * d /\ p * d \in Nat
    BY <2>1
  <2> QED  BY <2>2
<1> QED  BY <1>1, <1>2

\* Division of natural numbers.
LEMMA Quotients ==
  ASSUME NEW x \in Nat, NEW t \in Nat \ {0}
  PROVE  /\ x \div t \in Nat
         /\ (x \div t) * t <= x /\ x < (x \div t) * t + t
  OBVIOUS

\* A quotient of a bounded product is bounded.
LEMMA QuotientBounded ==
  ASSUME NEW f \in Nat, NEW x \in Nat, NEW t \in Nat \ {0}, x <= f * t
  PROVE  x \div t <= f
<1>1. PICK q \in Nat : q = x \div t
  BY Quotients
<1>2. q * t <= x
  BY <1>1, Quotients
<1>3. ASSUME f + 1 <= q PROVE FALSE
  <2>1. t * (f + 1) <= t * q
    BY <1>3, Products
  <2>2. t * (f + 1) = f * t + t /\ t * q = q * t
    OBVIOUS
  <2> QED  BY <1>2, <2>1, <2>2
<1> QED  BY <1>1, <1>3

-----------------------------------------------------------------------------
(* Prices *)

Parents == [gas_limit : Nat, gas_used : Nat, base_fee : Nat]

\* The constants, one by one.
LEMMA ConstantsTyped ==
  /\ Elasticity \in Nat \ {0} /\ Denominator \in Nat \ {0}
  /\ U64Max \in Nat /\ GenesisFee \in Nat /\ Intrinsic \in Nat /\ MaxLogs \in Nat
  /\ GenesisFee <= U64Max /\ GasLimits \subseteq Nat
  BY FeesAssumption

LEMMA TxTyped ==
  ASSUME NEW tx \in Txs
  PROVE  /\ tx.kind \in Kinds /\ tx.gas_limit \in Nat /\ tx.max_fee \in Nat
         /\ tx.priority_fee \in Nat /\ tx.zero \in Nat /\ tx.non_zero \in Nat
         /\ tx.kind \in {"legacy", "eip2930"} => tx.priority_fee = tx.max_fee
         /\ tx.kind = "deposit" =>
              tx.l1 \in [base_fee : Nat, base_fee_scalar : Nat, blob_base_fee : Nat, blob_scalar : Nat] \cup {None}
  BY TxsAssumption

\* The change of the base fee is a natural number, and at most the fee itself
\* for a distance below the target; less than the fee, when it is divided.
LEMMA DeltaBounded ==
  ASSUME NEW p \in Parents, GasTarget(p) # 0, NEW d \in Nat
  PROVE  /\ GasTarget(p) \in Nat
         /\ FeeDelta(p, d) \in Nat
         /\ d <= GasTarget(p) => FeeDelta(p, d) <= p.base_fee
         /\ d <= GasTarget(p) /\ p.base_fee > 0 /\ Denominator > 1 => FeeDelta(p, d) < p.base_fee
<1>1. PICK f \in Nat : f = p.base_fee
  BY DEF Parents
<1>2. PICK t \in Nat \ {0} : t = GasTarget(p)
  <2>1. p.gas_limit \in Nat
    BY DEF Parents
  <2>2. p.gas_limit \div Elasticity \in Nat
    BY <2>1, ConstantsTyped, Quotients
  <2> QED  BY <2>2 DEF GasTarget
<1>3. PICK x \in Nat : x = f * d
  BY Products
<1>4. PICK q \in Nat : q = x \div t
  BY Quotients
<1>5. PICK e \in Nat : e = q \div Denominator
  BY ConstantsTyped, Quotients
<1>6. FeeDelta(p, d) = e
  BY <1>1, <1>2, <1>3, <1>4, <1>5 DEF FeeDelta
<1>7. e * Denominator <= q
  BY <1>5, ConstantsTyped, Quotients
<1>8. e <= q
  <2>1. e * 1 <= e * Denominator
    BY ConstantsTyped, Products
  <2> QED  BY <1>7, <2>1, ConstantsTyped
<1>9. ASSUME d <= t PROVE q <= f
  <2>1. x <= f * t
    BY <1>3, <1>9, Products
  <2> QED  BY <1>4, <2>1, QuotientBounded
<1>10. ASSUME d <= t, f > 0, Denominator > 1 PROVE e < f
  <2>1. e * 2 <= e * Denominator
    BY <1>10, ConstantsTyped, Products
  <2>2. e * 2 <= q
    BY <1>7, <2>1, ConstantsTyped
  <2> QED  BY <1>9, <1>10, <2>2
<1> QED  BY <1>1, <1>2, <1>6, <1>8, <1>9, <1>10

\* The base fee of the next block: above the target it rises, otherwise it does
\* not, and nothing brings it to zero at once.
LEMMA BaseFeeMoves ==
  ASSUME NEW p \in Parents, ~DividesByZero(p)
  PROVE  /\ BaseFeePerGas(p) \in Nat
         /\ p.gas_used > GasTarget(p) => BaseFeePerGas(p) > p.base_fee
         /\ p.gas_used <= GasTarget(p) => BaseFeePerGas(p) <= p.base_fee
         /\ p.base_fee > 0 /\ Denominator > 1 => BaseFeePerGas(p) > 0
<1>0. PICK f \in Nat, u \in Nat, t \in Nat : f = p.base_fee /\ u = p.gas_used /\ t = GasTarget(p)
  <2>1. p.gas_limit \in Nat /\ p.base_fee \in Nat /\ p.gas_used \in Nat
    BY DEF Parents
  <2>2. p.gas_limit \div Elasticity \in Nat
    BY <2>1, ConstantsTyped, Quotients
  <2> QED  BY <2>1, <2>2 DEF GasTarget
<1>1. CASE u > t
  <2>1. t # 0
    BY <1>0, <1>1 DEF DividesByZero
  <2>2. PICK d \in Nat : d = u - t
    BY <1>1
  <2>3. PICK e \in Nat : e = FeeDelta(p, d)
    BY <1>0, <2>1, DeltaBounded
  <2>4. BaseFeePerGas(p) = f + Max({e, 1})
    BY <1>0, <1>1, <2>2, <2>3 DEF BaseFeePerGas
  <2>5. Max({e, 1}) = IF e >= 1 THEN e ELSE 1
    BY MaxOfTwo
  <2> QED  BY <1>0, <1>1, <2>4, <2>5
<1>2. CASE u < t
  <2>1. t # 0
    BY <1>2
  <2>2. PICK d \in Nat : d = t - u /\ d <= t
    BY <1>2
  <2>3. PICK e \in Nat : e = FeeDelta(p, d) /\ e <= f /\ (f > 0 /\ Denominator > 1 => e < f)
    BY <1>0, <2>1, <2>2, DeltaBounded
  <2>4. BaseFeePerGas(p) = Max({f - e, 0})
    BY <1>0, <1>2, <2>2, <2>3 DEF BaseFeePerGas
  <2>5. Max({f - e, 0}) = IF f - e >= 0 THEN f - e ELSE 0
    BY MaxOfTwo
  <2> QED  BY <1>0, <1>2, <2>3, <2>4, <2>5
<1>3. CASE u = t
  <2>1. BaseFeePerGas(p) = f
    BY <1>0, <1>3 DEF BaseFeePerGas
  <2> QED  BY <1>0, <1>3, <2>1
<1> QED  BY <1>1, <1>2, <1>3

\* The tip is what remains of the maximal fee, and no more than was offered.
LEMMA TipTyped ==
  ASSUME NEW tx \in Txs, NEW base_fee \in Nat
  PROVE  /\ TipPerGas(tx, base_fee) \in Nat /\ EffectiveGasPrice(tx, base_fee) \in Nat
         /\ IsCanonical(tx) =>
              TipPerGas(tx, base_fee) = EffectiveGasPrice(tx, base_fee) - base_fee
         /\ ~IsCanonical(tx) => TipPerGas(tx, base_fee) = 0 /\ EffectiveGasPrice(tx, base_fee) = 0
         /\ IsCanonical(tx) =>
              EffectiveGasPrice(tx, base_fee) =
                IF tx.max_fee - base_fee > tx.priority_fee THEN base_fee + tx.priority_fee
                ELSE IF tx.max_fee >= base_fee THEN tx.max_fee ELSE base_fee
<1>1. PICK m \in Nat, p \in Nat : m = tx.max_fee /\ p = tx.priority_fee
  BY TxTyped
<1>2. PICK r \in Nat : r = Max({m - base_fee, 0}) /\ r = IF m - base_fee >= 0 THEN m - base_fee ELSE 0
  <2>1. Max({m - base_fee, 0}) = IF m - base_fee >= 0 THEN m - base_fee ELSE 0
    BY MaxOfTwo
  <2> QED  BY <2>1
<1>3. Min({p, r}) = IF p <= r THEN p ELSE r
  BY MinOfTwo
<1>4. TipPerGas(tx, base_fee) = IF IsCanonical(tx) THEN Min({p, r}) ELSE 0
  BY <1>1, <1>2 DEF TipPerGas
<1>5. EffectiveGasPrice(tx, base_fee) = IF IsCanonical(tx) THEN TipPerGas(tx, base_fee) + base_fee ELSE 0
  BY DEF EffectiveGasPrice
<1>6. CASE IsCanonical(tx)
  <2>1. PICK i \in Nat : i = TipPerGas(tx, base_fee) /\ i = IF p <= r THEN p ELSE r
    BY <1>3, <1>4, <1>6
  <2>2. PICK e \in Nat : e = EffectiveGasPrice(tx, base_fee) /\ e = i + base_fee
    BY <1>5, <1>6, <2>1
  <2>3. i = e - base_fee /\ e = IF m - base_fee > p THEN base_fee + p
                                ELSE IF m >= base_fee THEN m ELSE base_fee
    BY <1>2, <2>1, <2>2
  <2> QED  BY <1>1, <1>6, <2>1, <2>2, <2>3
<1>7. CASE ~IsCanonical(tx)
  BY <1>4, <1>5, <1>7
<1> QED  BY <1>6, <1>7

\* The price a receipt has is the one the listing shows, but not less than the
\* base fee.
LEMMA PricesAgree ==
  ASSUME NEW tx \in Txs, NEW base_fee \in Nat, IsSupported(tx)
  PROVE  EffectiveGasPrice(tx, base_fee) =
           Max({ListedPrice(tx, base_fee), IF IsCanonical(tx) THEN base_fee ELSE 0})
<1>1. PICK m \in Nat, p \in Nat : m = tx.max_fee /\ p = tx.priority_fee
  BY TxTyped
<1>2. CASE tx.kind = "deposit"
  <2>1. ListedPrice(tx, base_fee) = 0 /\ ~IsCanonical(tx)
    BY <1>2 DEF ListedPrice, IsCanonical
  <2>2. Max({0, 0}) = 0
    BY MaxOfTwo
  <2> QED  BY <2>1, <2>2, TipTyped
<1>3. CASE tx.kind # "deposit"
  <2>1. IsCanonical(tx)
    BY <1>3 DEF IsCanonical
  <2>2. PICK e \in Nat : e = EffectiveGasPrice(tx, base_fee)
                         /\ e = IF m - base_fee > p THEN base_fee + p
                                ELSE IF m >= base_fee THEN m ELSE base_fee
    BY <1>1, <2>1, TipTyped
  <2>3. PICK l \in Nat : /\ l = ListedPrice(tx, base_fee)
                         /\ (l = m /\ p = m) \/ l = IF m - base_fee > p THEN base_fee + p ELSE m
    <3>1. CASE tx.kind \in {"legacy", "eip2930"}
      BY <1>1, <1>3, <3>1, TxTyped DEF ListedPrice
    <3>2. CASE tx.kind \notin {"legacy", "eip2930"}
      BY <1>1, <1>3, <3>2 DEF ListedPrice
    <3> QED  BY <3>1, <3>2
  <2>4. Max({l, base_fee}) = IF l >= base_fee THEN l ELSE base_fee
    BY MaxOfTwo
  <2>5. e = IF l >= base_fee THEN l ELSE base_fee
    BY <2>2, <2>3
  <2> QED  BY <2>1, <2>2, <2>3, <2>4, <2>5
<1> QED  BY <1>2, <1>3

-----------------------------------------------------------------------------
(* The invariant *)

L1Costs == [base_fee : Nat, base_fee_scalar : Nat, blob_base_fee : Nat, blob_scalar : Nat] \cup {None}
Entries == [tx : Txs, zero : Nat, non_zero : Nat]
Receipts ==
  [tx : Txs, index : Nat, cumulative_gas_used : Nat, gas_used : Nat, logs : Nat,
   logs_offset : Nat, l2_gas_price : Nat, l1_fee : Nat]
Builds ==
  [gas_limit : Nat, base_fee : Nat, l1 : L1Costs, list : Seq(Entries), next : Nat,
   receipts : Seq(Receipts), cumulative_gas_used : Nat, log_offset : Nat, tx_index : Nat,
   total_tip : Int, collected : Int]

\* The fee of the block is derived from the parent, and deposits are decoded
\* from the attributes.
FeesTyped ==
  /\ parent \in Parents /\ parent.base_fee <= U64Max
  /\ Building =>
       /\ build \in Builds /\ build.next >= 1 /\ build.tx_index = Len(build.receipts)
       /\ ~DividesByZero(parent) /\ build.base_fee = BaseFeePerGas(parent)
       /\ \A i \in DOMAIN build.list :
            build.list[i].tx.kind = "deposit" => build.list[i].zero = 0 /\ build.list[i].non_zero = 0

\* What was collected, tipped, logged and metered is what the receipts sum up to.
Collected(receipts, amount) == amount = Total(Charges(receipts))

Tipped(receipts, base_fee, amount) == amount = Total(Tips(receipts, base_fee))

Numbered(receipts, offset) ==
  /\ offset = Total(Logs(receipts))
  /\ UNION {LogIndexes(receipts[i]) : i \in 1..Len(receipts)} = 0..(offset - 1)
  /\ \A i, j \in 1..Len(receipts) : i < j => LogIndexes(receipts[i]) \cap LogIndexes(receipts[j]) = {}

Metered(receipts, gas) ==
  /\ gas = Total(GasUsed(receipts))
  /\ \A i \in 1..Len(receipts) : receipts[i].cumulative_gas_used = Sums(GasUsed(receipts))[i]

\* The transaction at k has a receipt and, unless it is a deposit, no other place.
ListedFor(receipts, list, k) ==
  /\ \E i \in DOMAIN receipts : receipts[i].tx = list[k].tx
  /\ list[k].tx.kind # "deposit" => \A l \in DOMAIN list \ {k} : list[l].tx # list[k].tx

\* The receipts follow the list, deposits have one, and there is no gap as long
\* as nothing was skipped or listed twice.
Placed(receipts, list, next) ==
  /\ Len(receipts) < next
  /\ \A i \in DOMAIN receipts :
       /\ receipts[i].index = i - 1
       /\ \E p \in DOMAIN list : p < next /\ i <= p /\ receipts[i].tx = list[p].tx
  /\ \A p \in DOMAIN list :
       p < next /\ list[p].tx.kind = "deposit" => \E i \in DOMAIN receipts : receipts[i].tx = list[p].tx
  /\ \A p \in DOMAIN list :
       p < next /\ (\A k \in 1..p : ListedFor(receipts, list, k))
         => p <= Len(receipts) /\ receipts[p].tx = list[p].tx

Priced(receipts, base_fee) ==
  \A i \in DOMAIN receipts :
    /\ IsSupported(receipts[i].tx)
    /\ receipts[i].l2_gas_price = EffectiveGasPrice(receipts[i].tx, base_fee)

BuildBooked ==
  Building =>
    /\ Collected(build.receipts, build.collected)
    /\ Tipped(build.receipts, build.base_fee, build.total_tip)
    /\ Numbered(build.receipts, build.log_offset)
    /\ Metered(build.receipts, build.cumulative_gas_used)
    /\ Placed(build.receipts, build.list, build.next)
    /\ Priced(build.receipts, build.base_fee)

BlockBooked ==
  /\ block.receipts \in Seq(Receipts)
  /\ Collected(block.receipts, block.collected)
  /\ block.base_fee < U64Max => Tipped(block.receipts, block.base_fee, block.value)
  /\ \E offset \in Nat : Numbered(block.receipts, offset)
  /\ Metered(block.receipts, block.gas_used)
  /\ CleanReceiptMatchesListing

FeesInv == FeesTyped /\ BuildBooked /\ BlockBooked

-----------------------------------------------------------------------------
(* One more receipt *)

\* The fee of a publication.
LEMMA L1FeeTyped ==
  ASSUME NEW l1 \in L1Costs, NEW e \in Entries
  PROVE  /\ L1Fee(l1, e) \in Nat
         /\ e.zero = 0 /\ e.non_zero = 0 => L1Fee(l1, e) = 0
<1>1. CASE l1 = None
  BY <1>1 DEF L1Fee
<1>2. CASE l1 # None
  <2>1. PICK a \in Nat, b \in Nat, c \in Nat, d \in Nat :
          a = l1.base_fee_scalar /\ b = l1.base_fee /\ c = l1.blob_scalar /\ d = l1.blob_base_fee
    BY <1>2 DEF L1Costs
  <2>2. PICK z \in Nat, n \in Nat : z = e.zero /\ n = e.non_zero
    BY DEF Entries
  <2>3. PICK g \in Nat : g = 16 * a * b + c * d
    <3>1. a * b \in Nat /\ c * d \in Nat
      BY Products
    <3>2. PICK x \in Nat, y \in Nat : x = a * b /\ y = c * d
      BY <3>1
    <3>3. 16 * a * b = 16 * x
      BY <3>2
    <3> QED  BY <3>2, <3>3
  <2>4. PICK w \in Nat : w = (z * 4 + n * 16) \div 16 /\ (z = 0 /\ n = 0 => w = 0)
    OBVIOUS
  <2>5. L1Fee(l1, e) = w * g
    BY <1>2, <2>1, <2>2, <2>3, <2>4 DEF L1Fee
  <2>6. w * g \in Nat /\ (w = 0 => w * g = 0)
    BY Products
  <2> QED  BY <2>2, <2>4, <2>5, <2>6
<1> QED  BY <1>1, <1>2

\* What the sender has paid in the end is the price of what it used: the refund
\* is the rest of what was charged in advance.
LEMMA PaidIsUsed ==
  ASSUME build \in Builds, NEW e \in Entries, NEW gas_used \in Nat,
         e.tx.kind = "deposit" => e.zero = 0 /\ e.non_zero = 0,
         gas_used <= e.tx.gas_limit, IsSupported(e.tx)
  PROVE  Paid(e, gas_used) =
           gas_used * EffectiveGasPrice(e.tx, build.base_fee) + L1Fee(build.l1, e)
<1>0. build.base_fee \in Nat /\ build.l1 \in L1Costs /\ e.tx \in Txs
  BY DEF Builds, Entries
<1>1. PICK p \in Nat : p = EffectiveGasPrice(e.tx, build.base_fee)
  BY <1>0, TipTyped
<1>2. PICK l \in Nat : l = L1Fee(build.l1, e)
  BY <1>0, L1FeeTyped
<1>3. CASE IsCanonical(e.tx)
  <2>1. PICK g \in Nat : g = e.tx.gas_limit
    BY <1>0, TxTyped
  <2>2. PICK x \in Nat, y \in Nat : x = p * g /\ y = p * gas_used /\ y <= x
    BY <2>1, Products
  <2>3. Max({x - y, 0}) = x - y
    <3>1. Max({x - y, 0}) = IF x - y >= 0 THEN x - y ELSE 0
      BY MaxOfTwo
    <3> QED  BY <2>2, <3>1
  <2>4. Paid(e, gas_used) = ((0 + l) + x) - Max({x - y, 0})
    BY <1>1, <1>2, <1>3, <2>1, <2>2 DEF Paid, L2Fee, ChargeGasCost, RefundGasCost
  <2>5. y = gas_used * p
    BY <2>2
  <2> QED  BY <1>1, <1>2, <2>2, <2>3, <2>4, <2>5
<1>4. CASE ~IsCanonical(e.tx)
  <2>1. e.tx.kind = "deposit"
    BY <1>4 DEF IsCanonical
  <2>2. l = 0
    BY <1>0, <1>2, <2>1, L1FeeTyped
  <2>3. p = 0
    BY <1>0, <1>1, <1>4, TipTyped
  <2>4. Paid(e, gas_used) = 0
    BY <1>4 DEF Paid
  <2>5. gas_used * p + l = 0
    BY <2>2, <2>3
  <2> QED  BY <1>1, <1>2, <2>4, <2>5
<1> QED  BY <1>3, <1>4

\* A sequence with one more element.
LEMMA OneMore ==
  ASSUME NEW s \in Seq(Int), NEW m \in Seq(Int), NEW v \in Int, NEW n \in Nat,
         Len(s) = n, Len(m) = n + 1, m[n + 1] = v, \A i \in 1..n : m[i] = s[i]
  PROVE  m = Append(s, v)
<1>1. /\ Append(s, v) \in Seq(Int) /\ Len(Append(s, v)) = n + 1
      /\ Append(s, v)[n + 1] = v /\ \A i \in 1..n : Append(s, v)[i] = s[i]
  OBVIOUS
<1>2. PICK t \in Seq(Int) : t = Append(s, v)
  BY <1>1
<1>3. ASSUME NEW i \in 1..(n + 1) PROVE m[i] = t[i]
  <2>1. i \in 1..n \/ i = n + 1
    OBVIOUS
  <2>2. CASE i \in 1..n
    BY <1>1, <1>2, <2>2
  <2>3. CASE i = n + 1
    BY <1>1, <1>2, <2>3
  <2> QED  BY <2>1, <2>2, <2>3
<1>4. Len(m) = n + 1 /\ Len(t) = n + 1 /\ \A i \in 1..(n + 1) : m[i] = t[i]
  BY <1>1, <1>2, <1>3
<1>5. m = t
  BY <1>4
<1> QED  BY <1>2, <1>5

\* The four columns of the receipts.
LEMMA Columns ==
  ASSUME NEW rs \in Seq(Receipts), NEW base_fee \in Nat
  PROVE  /\ Charges(rs) \in Seq(Int) /\ Tips(rs, base_fee) \in Seq(Int)
         /\ GasUsed(rs) \in Seq(Int) /\ Logs(rs) \in Seq(Int)
         /\ Len(Charges(rs)) = Len(rs) /\ Len(Tips(rs, base_fee)) = Len(rs)
         /\ Len(GasUsed(rs)) = Len(rs) /\ Len(Logs(rs)) = Len(rs)
<1>0. PICK n \in Nat : n = Len(rs) /\ DOMAIN rs = 1..n
  OBVIOUS
<1>1. \A i \in 1..n : /\ rs[i].gas_used \in Nat /\ rs[i].l2_gas_price \in Nat /\ rs[i].l1_fee \in Nat
                      /\ rs[i].logs \in Nat
  <2>1. \A i \in 1..n : rs[i] \in Receipts
    BY <1>0
  <2>2. \A x \in Receipts : /\ x.gas_used \in Nat /\ x.l2_gas_price \in Nat /\ x.l1_fee \in Nat
                            /\ x.logs \in Nat
    BY DEF Receipts
  <2> QED  BY <2>1, <2>2, Zenon
<1>2. \A i \in 1..n : /\ rs[i].gas_used * rs[i].l2_gas_price + rs[i].l1_fee \in Int
                      /\ rs[i].gas_used * (rs[i].l2_gas_price - base_fee) \in Int
  <2>1. \A a, b, c \in Nat : a * b + c \in Int /\ a * (b - base_fee) \in Int
    OBVIOUS
  <2> QED  BY <1>1, <2>1, Zenon
<1>3. Charges(rs) \in [1..n -> Int] /\ Tips(rs, base_fee) \in [1..n -> Int]
      /\ GasUsed(rs) \in [1..n -> Int] /\ Logs(rs) \in [1..n -> Int]
  BY <1>0, <1>1, <1>2 DEF Charges, Tips, GasUsed, Logs
<1>4. \A f \in [1..n -> Int] : f \in Seq(Int) /\ Len(f) = n
  OBVIOUS
<1> QED  BY <1>0, <1>3, <1>4

\* Each column grows by what the new receipt says.
LEMMA ColumnsGrow ==
  ASSUME NEW rs \in Seq(Receipts), NEW r \in Receipts, NEW base_fee \in Nat
  PROVE  /\ Charges(Append(rs, r)) = Append(Charges(rs), r.gas_used * r.l2_gas_price + r.l1_fee)
         /\ Tips(Append(rs, r), base_fee) =
              Append(Tips(rs, base_fee),
                     IF IsCanonical(r.tx) THEN r.gas_used * (r.l2_gas_price - base_fee) ELSE 0)
         /\ GasUsed(Append(rs, r)) = Append(GasUsed(rs), r.gas_used)
         /\ Logs(Append(rs, r)) = Append(Logs(rs), r.logs)
<1>0. PICK n \in Nat : n = Len(rs) /\ DOMAIN rs = 1..n
  OBVIOUS
<1>1. PICK t \in Seq(Receipts) :
        /\ t = Append(rs, r) /\ DOMAIN t = 1..(n + 1) /\ t[n + 1] = r
        /\ \A i \in 1..n : t[i] = rs[i]
  <2> DEFINE t == Append(rs, r)
  <2>1. /\ t \in Seq(Receipts) /\ Len(t) = Len(rs) + 1 /\ t[Len(rs) + 1] = r
        /\ \A i \in 1..Len(rs) : t[i] = rs[i]
    OBVIOUS
  <2>2. DOMAIN t = 1..Len(t)
    BY <2>1
  <2> HIDE DEF t
  <2>3. /\ DOMAIN t = 1..(n + 1) /\ t[n + 1] = r /\ \A i \in 1..n : t[i] = rs[i]
    BY <1>0, <2>1, <2>2
  <2> QED  BY <2>1, <2>3 DEF t
<1>2. /\ Charges(rs) \in Seq(Int) /\ Tips(rs, base_fee) \in Seq(Int)
      /\ GasUsed(rs) \in Seq(Int) /\ Logs(rs) \in Seq(Int)
      /\ Len(Charges(rs)) = n /\ Len(Tips(rs, base_fee)) = n
      /\ Len(GasUsed(rs)) = n /\ Len(Logs(rs)) = n
  BY <1>0, Columns
<1>3. /\ Charges(t) \in Seq(Int) /\ Tips(t, base_fee) \in Seq(Int)
      /\ GasUsed(t) \in Seq(Int) /\ Logs(t) \in Seq(Int)
      /\ Len(Charges(t)) = n + 1 /\ Len(Tips(t, base_fee)) = n + 1
      /\ Len(GasUsed(t)) = n + 1 /\ Len(Logs(t)) = n + 1
  <2>1. Len(t) = n + 1
    BY <1>1
  <2> QED  BY <2>1, Columns
<1>4. n + 1 \in 1..(n + 1) /\ \A i \in 1..n : i \in 1..(n + 1)
  OBVIOUS
<1>5. PICK g \in Nat, p \in Nat, l \in Nat, k \in Nat :
        g = r.gas_used /\ p = r.l2_gas_price /\ l = r.l1_fee /\ k = r.logs
  BY DEF Receipts
<1>6. PICK v \in Int, w \in Int :
        v = g * p + l /\ w = IF IsCanonical(r.tx) THEN g * (p - base_fee) ELSE 0
  <2>1. g * p + l \in Int /\ g * (p - base_fee) \in Int
    OBVIOUS
  <2> QED  BY <2>1
<1>7. /\ Charges(t)[n + 1] = v /\ Tips(t, base_fee)[n + 1] = w
      /\ GasUsed(t)[n + 1] = g /\ Logs(t)[n + 1] = k
  BY <1>1, <1>4, <1>5, <1>6 DEF Charges, Tips, GasUsed, Logs
<1>8. \A i \in 1..n : /\ Charges(t)[i] = Charges(rs)[i] /\ Tips(t, base_fee)[i] = Tips(rs, base_fee)[i]
                      /\ GasUsed(t)[i] = GasUsed(rs)[i] /\ Logs(t)[i] = Logs(rs)[i]
  BY <1>0, <1>1, <1>4 DEF Charges, Tips, GasUsed, Logs
<1>9. Charges(t) = Append(Charges(rs), v)
  BY <1>2, <1>3, <1>7, <1>8, OneMore, SMTT(30)
<1>10. Tips(t, base_fee) = Append(Tips(rs, base_fee), w)
  BY <1>2, <1>3, <1>7, <1>8, OneMore, SMTT(30)
<1>11. GasUsed(t) = Append(GasUsed(rs), g) /\ Logs(t) = Append(Logs(rs), k)
  BY <1>2, <1>3, <1>7, <1>8, OneMore, SMTT(30)
<1> QED  BY <1>1, <1>5, <1>6, <1>9, <1>10, <1>11

\* The sums keep up.
LEMMA SumsGrow ==
  ASSUME NEW rs \in Seq(Receipts), NEW r \in Receipts, NEW base_fee \in Nat,
         NEW amount \in Int, NEW tips \in Int, NEW gas \in Nat,
         Collected(rs, amount), Tipped(rs, base_fee, tips), Metered(rs, gas),
         r.cumulative_gas_used = gas + r.gas_used
  PROVE  /\ Collected(Append(rs, r), amount + (r.gas_used * r.l2_gas_price + r.l1_fee))
         /\ Tipped(Append(rs, r), base_fee,
                   tips + (IF IsCanonical(r.tx) THEN r.gas_used * (r.l2_gas_price - base_fee) ELSE 0))
         /\ Metered(Append(rs, r), gas + r.gas_used)
<1>1. PICK v \in Int, w \in Int, g \in Nat :
        /\ v = r.gas_used * r.l2_gas_price + r.l1_fee
        /\ w = IF IsCanonical(r.tx) THEN r.gas_used * (r.l2_gas_price - base_fee) ELSE 0
        /\ g = r.gas_used
  <2>1. PICK g \in Nat, p \in Nat, l \in Nat : g = r.gas_used /\ p = r.l2_gas_price /\ l = r.l1_fee
    BY DEF Receipts
  <2>2. g * p + l \in Int /\ g * (p - base_fee) \in Int
    OBVIOUS
  <2> QED  BY <2>1, <2>2
<1>2. /\ Charges(Append(rs, r)) = Append(Charges(rs), v)
      /\ Tips(Append(rs, r), base_fee) = Append(Tips(rs, base_fee), w)
      /\ GasUsed(Append(rs, r)) = Append(GasUsed(rs), g)
  BY <1>1, ColumnsGrow
<1>3. /\ Charges(rs) \in Seq(Int) /\ Tips(rs, base_fee) \in Seq(Int)
      /\ GasUsed(rs) \in Seq(Int) /\ Len(GasUsed(rs)) = Len(rs)
  BY Columns
<1>4. Total(Append(Charges(rs), v)) = Total(Charges(rs)) + v
  BY <1>3, TotalAppend
<1>5. Total(Append(Tips(rs, base_fee), w)) = Total(Tips(rs, base_fee)) + w
  BY <1>3, TotalAppend
<1>6. /\ Total(Append(GasUsed(rs), g)) = Total(GasUsed(rs)) + g
      /\ \A i \in 0..Len(rs) : Sums(Append(GasUsed(rs), g))[i] = Sums(GasUsed(rs))[i]
  BY <1>3, TotalAppend
<1>7. Collected(Append(rs, r), amount + v) /\ Tipped(Append(rs, r), base_fee, tips + w)
  BY <1>2, <1>4, <1>5 DEF Collected, Tipped
<1>8. Metered(Append(rs, r), gas + g)
  <2>1. gas + g = Total(GasUsed(Append(rs, r)))
    BY <1>2, <1>6 DEF Metered
  <2>2. PICK n \in Nat : n = Len(rs)
    OBVIOUS
  <2> DEFINE t == Append(rs, r)
  <2>3. /\ t \in Seq(Receipts) /\ Len(t) = n + 1 /\ t[n + 1] = r /\ \A i \in 1..n : t[i] = rs[i]
    BY <2>2
  <2>4. Total(GasUsed(t)) = Sums(GasUsed(t))[n + 1]
    <3>1. Len(GasUsed(t)) = n + 1
      BY <2>3, Columns
    <3> QED  BY <3>1 DEF Total
  <2> HIDE DEF t
  <2>5. ASSUME NEW i \in 1..(n + 1)
        PROVE  t[i].cumulative_gas_used = Sums(GasUsed(t))[i]
    <3>1. CASE i = n + 1
      <4>1. t[n + 1].cumulative_gas_used = gas + g
        BY <1>1, <2>3
      <4>2. Sums(GasUsed(t))[n + 1] = gas + g
        BY <2>1, <2>4 DEF t
      <4> QED  BY <3>1, <4>1, <4>2
    <3>2. CASE i \in 1..n
      <4>1. rs[i].cumulative_gas_used = Sums(GasUsed(rs))[i]
        BY <2>2, <3>2 DEF Metered
      <4>2. i \in 0..Len(rs)
        BY <2>2, <3>2
      <4>3. Sums(GasUsed(t))[i] = Sums(GasUsed(rs))[i]
        BY <1>2, <1>6, <4>2, Zenon DEF t
      <4> QED  BY <2>3, <3>2, <4>1, <4>3
    <3> QED  BY <3>1, <3>2
  <2>6. \A i \in 1..Len(t) : t[i].cumulative_gas_used = Sums(GasUsed(t))[i]
    BY <2>3, <2>5
  <2> QED  BY <2>1, <2>6 DEF Metered, t
<1> QED  BY <1>1, <1>7, <1>8

\* Logs that start where the last ones ended.
LEMMA LogsGrow ==
  ASSUME NEW rs \in Seq(Receipts), NEW r \in Receipts, NEW offset \in Nat,
         Numbered(rs, offset), r.logs_offset = offset
  PROVE  Numbered(Append(rs, r), offset + r.logs)
<1>1. PICK k \in Nat : k = r.logs
  BY DEF Receipts
<1>2. PICK n \in Nat : n = Len(rs)
  OBVIOUS
<1>3. offset + k = Total(Logs(Append(rs, r)))
  <2>1. Logs(Append(rs, r)) = Append(Logs(rs), k)
    <3>1. 0 \in Nat
      OBVIOUS
    <3> QED  BY <1>1, <3>1, ColumnsGrow
  <2>2. Logs(rs) \in Seq(Int)
    <3>1. 0 \in Nat
      OBVIOUS
    <3> QED  BY <3>1, Columns
  <2>3. Total(Append(Logs(rs), k)) = Total(Logs(rs)) + k
    BY <2>2, TotalAppend
  <2> QED  BY <2>1, <2>3 DEF Numbered
<1> DEFINE t == Append(rs, r)
<1>4. /\ t \in Seq(Receipts) /\ Len(t) = n + 1 /\ t[n + 1] = r /\ \A i \in 1..n : t[i] = rs[i]
  BY <1>2
<1> HIDE DEF t
<1>5. \A x : x \in LogIndexes(r) <=> x \in offset..(offset + k - 1)
  <2>1. LogIndexes(r) = {offset + j : j \in 0..(k - 1)}
    BY <1>1 DEF LogIndexes
  <2>2. \A j \in 0..(k - 1) : offset + j \in offset..(offset + k - 1)
    OBVIOUS
  <2>3. \A x \in offset..(offset + k - 1) : x - offset \in 0..(k - 1) /\ x = offset + (x - offset)
    OBVIOUS
  <2> QED  BY <2>1, <2>2, <2>3
<1> DEFINE old == UNION {LogIndexes(rs[i]) : i \in 1..n}
           new == UNION {LogIndexes(t[i]) : i \in 1..(n + 1)}
<1>6. old = 0..(offset - 1)
  BY <1>2 DEF Numbered
<1>7. \A i \in 1..(n + 1) : i \in 1..n \/ i = n + 1
  OBVIOUS
<1>8. \A i \in 1..n : i \in 1..(n + 1)
  OBVIOUS
<1>9. n + 1 \in 1..(n + 1)
  OBVIOUS
<1>10. new = old \cup LogIndexes(r)
  BY <1>4, <1>7, <1>8, <1>9
<1>11. \A i \in 1..n : LogIndexes(t[i]) \subseteq old
  BY <1>4
<1> HIDE DEF old, new
<1>12. new = 0..(offset + k - 1)
  <2>1. \A x : x \in 0..(offset + k - 1) <=> x \in 0..(offset - 1) \/ x \in offset..(offset + k - 1)
    OBVIOUS
  <2> QED  BY <1>5, <1>6, <1>10, <2>1
<1>13. old \cap LogIndexes(r) = {}
  <2>1. \A x \in 0..(offset - 1) : x \notin offset..(offset + k - 1)
    OBVIOUS
  <2> QED  BY <1>5, <1>6, <2>1
<1>14. ASSUME NEW i \in 1..(n + 1), NEW j \in 1..(n + 1), i < j
       PROVE  LogIndexes(t[i]) \cap LogIndexes(t[j]) = {}
  <2>1. i \in 1..n
    BY <1>14
  <2>2. CASE j \in 1..n
    BY <1>2, <1>4, <1>14, <2>1, <2>2 DEF Numbered
  <2>3. CASE j = n + 1
    <3>1. t[j] = r /\ LogIndexes(t[i]) \subseteq old
      BY <1>4, <1>11, <2>1, <2>3
    <3> QED  BY <1>13, <3>1
  <2> QED  BY <1>7, <2>2, <2>3
<1>15. /\ UNION {LogIndexes(t[i]) : i \in 1..Len(t)} = 0..(offset + k - 1)
       /\ \A i, j \in 1..Len(t) : i < j => LogIndexes(t[i]) \cap LogIndexes(t[j]) = {}
  BY <1>4, <1>12, <1>14 DEF new
<1>16. PICK o \in Nat : o = offset + k
  OBVIOUS
<1>17. /\ o = Total(Logs(t)) /\ UNION {LogIndexes(t[i]) : i \in 1..Len(t)} = 0..(o - 1)
  BY <1>3, <1>15, <1>16 DEF t
<1>18. Numbered(t, o)
  BY <1>15, <1>17, Zenon DEF Numbered
<1> QED  BY <1>1, <1>16, <1>18 DEF t

\* A skipped transaction has no receipt unless it is listed twice.
LEMMA PlacedSkips ==
  ASSUME NEW rs \in Seq(Receipts), NEW list \in Seq(Entries), NEW next \in DOMAIN list,
         list[next].tx.kind # "deposit",
         Placed(rs, list, next), NEW after \in Nat, after = next + 1
  PROVE  Placed(rs, list, after)
<1>1. next \in Nat /\ Len(rs) \in Nat /\ DOMAIN list \subseteq Nat
  OBVIOUS
<1>2. \A p \in DOMAIN list : p < next => p < after
  BY <1>1
<1>3. \A p \in DOMAIN list : p < after => p < next \/ p = next
  BY <1>1
<1>4. next \in 1..next
  OBVIOUS
<1>5. Len(rs) < after
  BY <1>1 DEF Placed
<1>6. ~ListedFor(rs, list, next)
  <2> SUFFICES ASSUME ListedFor(rs, list, next) PROVE FALSE
    OBVIOUS
  <2>1. PICK i \in DOMAIN rs : rs[i].tx = list[next].tx
    BY DEF ListedFor
  <2>2. PICK p \in DOMAIN list : p < next /\ rs[i].tx = list[p].tx
    BY DEF Placed
  <2>3. p \in DOMAIN list \ {next}
    BY <1>1, <2>2
  <2> QED  BY <2>1, <2>2, <2>3 DEF ListedFor
<1>7. \A i \in DOMAIN rs :
        /\ rs[i].index = i - 1
        /\ \E p \in DOMAIN list : p < after /\ i <= p /\ rs[i].tx = list[p].tx
  BY <1>2 DEF Placed
<1>8. ASSUME NEW p \in DOMAIN list, p < after, \A k \in 1..p : ListedFor(rs, list, k)
      PROVE  p <= Len(rs) /\ rs[p].tx = list[p].tx
  <2>1. p # next
    BY <1>4, <1>6, <1>8
  <2>2. p < next
    BY <1>3, <1>8, <2>1
  <2> QED  BY <1>8, <2>2 DEF Placed
<1>9. \A p \in DOMAIN list :
        p < after /\ list[p].tx.kind = "deposit" => \E i \in DOMAIN rs : rs[i].tx = list[p].tx
  BY <1>3 DEF Placed
<1> QED  BY <1>5, <1>7, <1>8, <1>9 DEF Placed

\* An executed one has the next receipt.
LEMMA PlacedGrows ==
  ASSUME NEW rs \in Seq(Receipts), NEW list \in Seq(Entries), NEW next \in DOMAIN list,
         Placed(rs, list, next), NEW after \in Nat, after = next + 1,
         NEW r \in Receipts, r.tx = list[next].tx, r.index = Len(rs)
  PROVE  Placed(Append(rs, r), list, after)
<1>0. PICK n \in Nat : n = Len(rs) /\ DOMAIN rs = 1..n
  OBVIOUS
<1> DEFINE t == Append(rs, r)
<1>1. /\ t \in Seq(Receipts) /\ Len(t) = n + 1 /\ t[n + 1] = r /\ \A i \in 1..n : t[i] = rs[i]
  BY <1>0
<1> HIDE DEF t
<1>2. DOMAIN t = 1..(n + 1)
  BY <1>1
<1>3. next \in Nat /\ n < next /\ next # 0 /\ DOMAIN list \subseteq Nat
  BY <1>0 DEF Placed
<1>4. \A i \in 1..(n + 1) : i \in 1..n \/ i = n + 1
  OBVIOUS
<1>5. n + 1 \in DOMAIN t /\ \A i \in DOMAIN rs : i \in DOMAIN t /\ t[i] = rs[i]
  BY <1>0, <1>1, <1>2
<1>6. Len(t) < after
  BY <1>1, <1>3
<1>7. ASSUME NEW p \in DOMAIN list, p < after, list[p].tx.kind = "deposit"
      PROVE  \E i \in DOMAIN t : t[i].tx = list[p].tx
  <2>1. CASE p = next
    BY <1>1, <1>5, <2>1
  <2>2. CASE p # next
    <3>1. p < next
      BY <1>3, <1>7, <2>2
    <3>2. PICK i \in DOMAIN rs : rs[i].tx = list[p].tx
      BY <1>7, <3>1 DEF Placed
    <3> QED  BY <1>5, <3>2
  <2> QED  BY <2>1, <2>2
<1>8. ASSUME NEW i \in DOMAIN t
      PROVE  /\ t[i].index = i - 1
             /\ \E p \in DOMAIN list : p < after /\ i <= p /\ t[i].tx = list[p].tx
  <2>1. CASE i \in 1..n
    <3>1. PICK p \in DOMAIN list : p < next /\ i <= p /\ rs[i].tx = list[p].tx
      BY <1>0, <2>1 DEF Placed
    <3>2. p < after
      BY <1>3, <3>1
    <3>3. rs[i].index = i - 1
      BY <1>0, <2>1 DEF Placed
    <3> QED  BY <1>1, <2>1, <3>1, <3>2, <3>3
  <2>2. CASE i = n + 1
    <3>1. next < after /\ i <= next /\ i - 1 = n
      BY <1>3, <2>2
    <3>2. t[i] = r
      BY <1>1, <2>2
    <3> QED  BY <1>0, <3>1, <3>2
  <2> QED  BY <1>2, <1>4, <2>1, <2>2
<1>9. ASSUME NEW p \in DOMAIN list, p < after, \A k \in 1..p : ListedFor(t, list, k)
      PROVE  p <= Len(t) /\ t[p].tx = list[p].tx
  <2>0. p \in Nat /\ p # 0 /\ \A k \in 1..p : k \in DOMAIN list
    OBVIOUS
  <2>1. ASSUME NEW k \in 1..p, k < next PROVE ListedFor(rs, list, k)
    <3>0. k \in DOMAIN list /\ next \in DOMAIN list \ {k} /\ ListedFor(t, list, k)
      BY <1>3, <1>9, <2>0, <2>1
    <3>1. PICK i \in DOMAIN t : t[i].tx = list[k].tx
      BY <3>0 DEF ListedFor
    <3>2. CASE list[k].tx.kind = "deposit"
      BY <2>1, <3>0, <3>2 DEF Placed, ListedFor
    <3>3. CASE list[k].tx.kind # "deposit"
      <4>1. list[next].tx # list[k].tx
        BY <3>0, <3>3 DEF ListedFor
      <4>2. i # n + 1
        BY <1>1, <3>1, <4>1
      <4>3. i \in DOMAIN rs /\ t[i] = rs[i]
        BY <1>0, <1>1, <1>2, <1>4, <4>2
      <4> QED  BY <3>0, <3>1, <4>3 DEF ListedFor
    <3> QED  BY <3>2, <3>3
  <2>2. CASE p < next
    <3>1. \A k \in 1..p : k < next
      BY <1>3, <2>0, <2>2
    <3>2. p <= Len(rs) /\ rs[p].tx = list[p].tx
      BY <2>1, <2>2, <3>1 DEF Placed
    <3>3. p \in 1..n /\ p <= n + 1
      BY <1>0, <2>0, <3>2
    <3> QED  BY <1>1, <3>2, <3>3
  <2>3. CASE p = next
    <3>1. n + 1 = next
      <4>1. CASE next = 1
        BY <1>3, <4>1
      <4>2. CASE next # 1
        <5>1. PICK q \in Nat : q = next - 1
          BY <1>3
        <5>2. q \in DOMAIN list /\ q < next /\ \A k \in 1..q : k \in 1..p /\ k < next
          BY <1>3, <2>3, <4>2, <5>1
        <5>3. q <= Len(rs)
          BY <2>1, <5>2 DEF Placed
        <5> QED  BY <1>0, <1>3, <5>1, <5>3
      <4> QED  BY <4>1, <4>2
    <3> QED  BY <1>1, <2>3, <3>1
  <2>4. p < next \/ p = next
    BY <1>3, <1>9, <2>0
  <2> QED  BY <2>2, <2>3, <2>4
<1>10. Placed(t, list, after)
  BY <1>6, <1>7, <1>8, <1>9 DEF Placed
<1> QED  BY <1>10 DEF t

-----------------------------------------------------------------------------
(* The steps *)

\* What is said of a sealed block depends on nothing else.
LEMMA BlockSame ==
  ASSUME BlockBooked, block' = block
  PROVE  BlockBooked'
<1>1. CleanReceiptMatchesListing'
  <2>1. /\ Stored(block.receipts)' = Stored(block.receipts)
        /\ Stored(block.transactions)' = Stored(block.transactions)
    BY DEF Stored
  <2>2. \A j : Unskipped(j)' = Unskipped(j)
    BY Zenon DEF Unskipped
  <2> QED  BY <2>1, <2>2 DEF BlockBooked, CleanReceiptMatchesListing
<1>2. \A rs, a, b : /\ Collected(rs, a)' = Collected(rs, a) /\ Tipped(rs, a, b)' = Tipped(rs, a, b)
                    /\ Numbered(rs, a)' = Numbered(rs, a) /\ Metered(rs, a)' = Metered(rs, a)
  BY DEF Collected, Tipped, Numbered, Metered
<1> QED  BY <1>1, <1>2 DEF BlockBooked

\* The transaction at hand.
LEMMA CurrentTyped ==
  ASSUME FeesTyped, Executing
  PROVE  /\ Building /\ build \in Builds /\ build.next \in DOMAIN build.list
         /\ Current = build.list[build.next] /\ Current \in Entries /\ Current.tx \in Txs
         /\ Current.tx.kind = "deposit" => Current.zero = 0 /\ Current.non_zero = 0
<1>1. Building /\ build \in Builds /\ build.next >= 1 /\ build.next <= Len(build.list)
  BY DEF FeesTyped, Executing
<1>2. build.list \in Seq(Entries) /\ build.next \in Nat
  BY <1>1 DEF Builds
<1>3. build.next \in DOMAIN build.list
  BY <1>1, <1>2
<1>4. Current = build.list[build.next] /\ Current \in Entries
  BY <1>2, <1>3 DEF Current
<1> QED  BY <1>1, <1>3, <1>4 DEF FeesTyped, Entries

\* Leaving out a transaction leaves the sums alone.
LEMMA SkipKeeps ==
  ASSUME FeesInv, SkipTransaction
  PROVE  FeesInv'
<1>1. Executing /\ build' = [build EXCEPT !.next = @ + 1] /\ UNCHANGED <<parent, processed, block>>
  BY DEF SkipTransaction
<1>2. Building /\ build \in Builds /\ build.next \in DOMAIN build.list
  BY <1>1, CurrentTyped DEF FeesInv
<1>3. PICK n \in Nat : n = build.next
  BY <1>2 DEF Builds
<1>4. PICK after \in Nat : after = n + 1
  OBVIOUS
<1>5. build' = [build EXCEPT !.next = after]
  BY <1>1, <1>2, <1>3, <1>4 DEF Builds
<1>6. /\ build' \in Builds /\ build'.next = after /\ build'.list = build.list
      /\ build'.receipts = build.receipts /\ build'.base_fee = build.base_fee
      /\ build'.tx_index = build.tx_index /\ build'.collected = build.collected
      /\ build'.total_tip = build.total_tip /\ build'.log_offset = build.log_offset
      /\ build'.cumulative_gas_used = build.cumulative_gas_used
  BY <1>2, <1>5 DEF Builds
<1>7. FeesTyped'
  <2>1. after >= 1
    BY <1>4
  <2>2. DividesByZero(parent)' = DividesByZero(parent) /\ BaseFeePerGas(parent)' = BaseFeePerGas(parent)
    BY <1>1 DEF DividesByZero, BaseFeePerGas, GasTarget, FeeDelta
  <2> QED  BY <1>1, <1>2, <1>6, <2>1, <2>2 DEF FeesTyped, FeesInv
<1>8. Placed(build.receipts, build.list, after)
  <2>1. build.receipts \in Seq(Receipts) /\ build.list \in Seq(Entries)
    BY <1>2 DEF Builds
  <2>2. Placed(build.receipts, build.list, n) /\ n \in DOMAIN build.list
    BY <1>2, <1>3 DEF FeesInv, BuildBooked
  <2>3. build.list[n].tx.kind # "deposit"
    BY <1>3 DEF SkipTransaction, Current
  <2> QED  BY <1>4, <2>1, <2>2, <2>3, PlacedSkips
<1>9. BuildBooked'
  <2>1. /\ Collected(build.receipts, build.collected)'
        /\ Tipped(build.receipts, build.base_fee, build.total_tip)'
        /\ Numbered(build.receipts, build.log_offset)'
        /\ Metered(build.receipts, build.cumulative_gas_used)'
        /\ Priced(build.receipts, build.base_fee)'
    BY <1>2, <1>6, ZenonT(40) DEF FeesInv, BuildBooked, Collected, Tipped, Numbered, Metered, Priced
  <2>2. Placed(build.receipts, build.list, build.next)'
    BY <1>6, <1>8
  <2> QED  BY <2>1, <2>2 DEF BuildBooked
<1> QED  BY <1>1, <1>7, <1>9, BlockSame DEF FeesInv

\* An executed transaction adds its receipt to everything.
LEMMA ExecuteKeeps ==
  ASSUME FeesInv, Executing, NEW gas_used \in Nat, NEW logs \in Nat,
         gas_used <= Current.tx.gas_limit, IsSupported(Current.tx),
         build' = Recorded(Current, gas_used, logs), UNCHANGED <<parent, processed, block>>
  PROVE  FeesInv'
<1>1. /\ Building /\ build \in Builds /\ build.next \in DOMAIN build.list
      /\ Current = build.list[build.next] /\ Current \in Entries /\ Current.tx \in Txs
      /\ Current.tx.kind = "deposit" => Current.zero = 0 /\ Current.non_zero = 0
  BY CurrentTyped DEF FeesInv
<1>2. PICK e \in Entries : e = Current
  BY <1>1
<1>3. PICK rs \in Seq(Receipts), base_fee \in Nat, n \in Nat, gas \in Nat, offset \in Nat, tips \in Int,
        amount \in Int :
        /\ rs = build.receipts /\ base_fee = build.base_fee /\ n = build.next
        /\ gas = build.cumulative_gas_used /\ offset = build.log_offset
        /\ tips = build.total_tip /\ amount = build.collected
  BY <1>1 DEF Builds
<1>4. PICK price \in Nat, tip \in Nat, l1_fee \in Nat, paid \in Int :
        /\ price = EffectiveGasPrice(e.tx, base_fee) /\ tip = TipPerGas(e.tx, base_fee)
        /\ l1_fee = L1Fee(build.l1, e) /\ paid = Paid(e, gas_used)
        /\ paid = gas_used * price + l1_fee
        /\ tip = IF IsCanonical(e.tx) THEN price - base_fee ELSE 0
  <2>1. /\ EffectiveGasPrice(e.tx, base_fee) \in Nat /\ TipPerGas(e.tx, base_fee) \in Nat
        /\ TipPerGas(e.tx, base_fee) =
             IF IsCanonical(e.tx) THEN EffectiveGasPrice(e.tx, base_fee) - base_fee ELSE 0
    BY <1>1, <1>2, TipTyped
  <2>2. L1Fee(build.l1, e) \in Nat
    <3>1. build.l1 \in L1Costs
      BY <1>1 DEF Builds
    <3> QED  BY <3>1, L1FeeTyped
  <2>3. Paid(e, gas_used) = gas_used * EffectiveGasPrice(e.tx, base_fee) + L1Fee(build.l1, e)
    BY <1>1, <1>2, <1>3, PaidIsUsed
  <2>4. PICK p \in Nat, l \in Nat : p = EffectiveGasPrice(e.tx, base_fee) /\ l = L1Fee(build.l1, e)
    BY <2>1, <2>2
  <2>5. gas_used * p + l \in Int
    OBVIOUS
  <2> QED  BY <2>1, <2>2, <2>3, <2>4, <2>5
<1> DEFINE r == [tx |-> e.tx, index |-> build.tx_index, cumulative_gas_used |-> gas + gas_used,
                 gas_used |-> gas_used, logs |-> logs, logs_offset |-> offset,
                 l2_gas_price |-> price, l1_fee |-> l1_fee]
<1>5. /\ r \in Receipts /\ r.tx = e.tx /\ r.index = Len(rs) /\ r.cumulative_gas_used = gas + gas_used
      /\ r.gas_used = gas_used /\ r.logs = logs /\ r.logs_offset = offset
      /\ r.l2_gas_price = price /\ r.l1_fee = l1_fee
  <2>1. build.tx_index = Len(build.receipts) /\ build.tx_index \in Nat /\ e.tx \in Txs
    BY <1>1, <1>2 DEF FeesInv, FeesTyped, Builds
  <2>2. gas + gas_used \in Nat
    OBVIOUS
  <2> QED  BY <1>3, <2>1, <2>2 DEF Receipts
<1>6. build' = [build EXCEPT
        !.next = n + 1, !.tx_index = build.tx_index + 1, !.log_offset = offset + logs,
        !.cumulative_gas_used = gas + gas_used, !.total_tip = tips + gas_used * tip,
        !.collected = amount + paid, !.receipts = Append(rs, r)]
  BY <1>1, <1>2, <1>3, <1>4 DEF Recorded, Builds
<1> HIDE DEF r
<1>7. PICK after \in Nat, w \in Int :
        /\ after = n + 1 /\ w = gas_used * tip
        /\ w = IF IsCanonical(r.tx) THEN r.gas_used * (r.l2_gas_price - base_fee) ELSE 0
  <2>1. gas_used * tip \in Int /\ n + 1 \in Nat /\ gas_used * 0 = 0
    OBVIOUS
  <2> QED  BY <1>4, <1>5, <2>1
<1> DEFINE more == Append(rs, r)
<1>8. more \in Seq(Receipts) /\ Len(more) = Len(rs) + 1
  BY <1>5
<1> HIDE DEF more
<1>9. /\ build' \in Builds /\ build'.next = after /\ build'.list = build.list
      /\ build'.receipts = more /\ build'.base_fee = base_fee
      /\ build'.tx_index = build.tx_index + 1 /\ build'.collected = amount + paid
      /\ build'.total_tip = tips + w /\ build'.log_offset = offset + logs
      /\ build'.cumulative_gas_used = gas + gas_used
  <2>1. build' = [build EXCEPT
          !.next = after, !.tx_index = build.tx_index + 1, !.log_offset = offset + logs,
          !.cumulative_gas_used = gas + gas_used, !.total_tip = tips + w,
          !.collected = amount + paid, !.receipts = more]
    BY <1>6, <1>7 DEF more
  <2>2. /\ build.tx_index + 1 \in Nat /\ offset + logs \in Nat /\ gas + gas_used \in Nat
        /\ tips + w \in Int /\ amount + paid \in Int
    BY <1>1 DEF Builds
  <2> QED  BY <1>1, <1>3, <1>8, <2>1, <2>2, ZenonT(40) DEF Builds
<1>10. FeesTyped'
  <2>1. after >= 1
    BY <1>7
  <2>2. DividesByZero(parent)' = DividesByZero(parent) /\ BaseFeePerGas(parent)' = BaseFeePerGas(parent)
    BY DEF DividesByZero, BaseFeePerGas, GasTarget, FeeDelta
  <2>3. build'.tx_index = Len(build'.receipts)
    BY <1>1, <1>3, <1>8, <1>9 DEF FeesInv, FeesTyped
  <2>4. /\ parent \in Parents /\ parent.base_fee <= U64Max
        /\ ~DividesByZero(parent) /\ build.base_fee = BaseFeePerGas(parent)
        /\ \A i \in DOMAIN build.list :
             build.list[i].tx.kind = "deposit" => build.list[i].zero = 0 /\ build.list[i].non_zero = 0
    BY <1>1, Zenon DEF FeesTyped, FeesInv
  <2>5. /\ parent' = parent /\ build' \in Builds /\ build'.next >= 1
        /\ build'.list = build.list /\ build'.base_fee = build.base_fee
    BY <1>1, <1>3, <1>9, <2>1
  <2> QED  BY <2>2, <2>3, <2>4, <2>5, Zenon DEF FeesTyped
<1>11. /\ Collected(rs, amount) /\ Tipped(rs, base_fee, tips) /\ Numbered(rs, offset)
       /\ Metered(rs, gas) /\ Placed(rs, build.list, n) /\ Priced(rs, base_fee)
  BY <1>1, <1>3 DEF FeesInv, BuildBooked
<1>12. Collected(more, amount + paid) /\ Tipped(more, base_fee, tips + w) /\ Metered(more, gas + gas_used)
  BY <1>4, <1>5, <1>7, <1>11, SumsGrow DEF more
<1>13. Numbered(more, offset + logs)
  BY <1>5, <1>11, LogsGrow DEF more
<1>14. Placed(more, build.list, after)
  <2>1. build.list \in Seq(Entries) /\ n \in DOMAIN build.list /\ r.tx = build.list[n].tx
    BY <1>1, <1>2, <1>3, <1>5 DEF Builds
  <2> QED  BY <1>5, <1>7, <1>11, <2>1, PlacedGrows DEF more
<1>15. Priced(more, base_fee)
  <2>1. \A i \in DOMAIN more : (i \in DOMAIN rs /\ more[i] = rs[i]) \/ more[i] = r
    BY <1>5 DEF more
  <2> QED  BY <1>2, <1>4, <1>5, <1>11, <2>1 DEF Priced
<1>16. BuildBooked'
  <2>1. /\ Collected(build.receipts, build.collected)'
        /\ Tipped(build.receipts, build.base_fee, build.total_tip)'
        /\ Numbered(build.receipts, build.log_offset)'
        /\ Metered(build.receipts, build.cumulative_gas_used)'
        /\ Placed(build.receipts, build.list, build.next)'
        /\ Priced(build.receipts, build.base_fee)'
    BY <1>9, <1>12, <1>13, <1>14, <1>15
  <2> QED  BY <2>1 DEF BuildBooked
<1> QED  BY <1>10, <1>16, BlockSame DEF FeesInv

\* The transactions of the attributes and then of the pool, with what is counted
\* of their bytes.
Decoded(attributes, pool) ==
  [i \in 1..Len(attributes) |-> FromAttributes(attributes[i])] \o [i \in 1..Len(pool) |-> FromPool(pool[i])]

LEMMA AllDecoded ==
  ASSUME NEW attributes \in Seq(Txs), NEW pool \in Seq(Txs), NEW all,
         all = Decoded(attributes, pool),
         \A i \in 1..Len(pool) : pool[i].kind # "deposit"
  PROVE  /\ all \in Seq(Entries)
         /\ \A i \in DOMAIN all :
              all[i].tx.kind = "deposit" => all[i].zero = 0 /\ all[i].non_zero = 0
<1>1. PICK k \in Nat, m \in Nat : k = Len(attributes) /\ m = Len(pool)
  OBVIOUS
<1> DEFINE a == [i \in 1..k |-> FromAttributes(attributes[i])]
           p == [i \in 1..m |-> FromPool(pool[i])]
<1>2. \A tx \in Txs : FromAttributes(tx) \in Entries /\ FromPool(tx) \in Entries
  BY TxTyped DEF FromAttributes, FromPool, Entries
<1>3. a \in Seq(Entries) /\ Len(a) = k
  <2>1. \A i \in 1..k : attributes[i] \in Txs
    BY <1>1
  <2> QED  BY <1>2, <2>1
<1>4. p \in Seq(Entries) /\ Len(p) = m
  <2>1. \A i \in 1..m : pool[i] \in Txs
    BY <1>1
  <2>2. p \in [1..m -> Entries]
    BY <1>2, <2>1
  <2>3. \A f \in [1..m -> Entries] : f \in Seq(Entries) /\ Len(f) = m
    OBVIOUS
  <2> QED  BY <2>2, <2>3
<1>5. all = a \o p
  BY <1>1 DEF Decoded
<1>6. \A i \in 1..k : a[i].zero = 0 /\ a[i].non_zero = 0
  BY DEF FromAttributes
<1>7. \A i \in 1..m : p[i].tx.kind # "deposit"
  BY <1>1 DEF FromPool
<1> HIDE DEF a, p
<1>8. /\ all \in Seq(Entries) /\ Len(all) = k + m
      /\ \A i \in 1..(k + m) : all[i] = IF i <= k THEN a[i] ELSE p[i - k]
  <2>1. /\ a \o p \in Seq(Entries) /\ Len(a \o p) = Len(a) + Len(p)
        /\ \A i \in 1..(Len(a) + Len(p)) : (a \o p)[i] = IF i <= Len(a) THEN a[i] ELSE p[i - Len(a)]
    BY <1>3, <1>4, ConcatProperties
  <2> QED  BY <1>3, <1>4, <1>5, <2>1
<1>9. ASSUME NEW i \in 1..(k + m), all[i].tx.kind = "deposit"
      PROVE  all[i].zero = 0 /\ all[i].non_zero = 0
  <2>1. CASE i <= k
    <3>1. i \in 1..k /\ all[i] = a[i]
      BY <1>1, <1>8, <2>1
    <3> QED  BY <1>6, <3>1
  <2>2. CASE ~(i <= k)
    <3>1. i - k \in 1..m
      BY <1>1, <2>2
    <3>2. all[i] = p[i - k]
      BY <1>8, <2>2
    <3> QED  BY <1>7, <1>9, <3>1, <3>2
  <2> QED  BY <2>1, <2>2
<1>10. DOMAIN all = 1..(k + m)
  BY <1>8
<1> QED  BY <1>8, <1>9, <1>10

\* Without receipts there is nothing to sum up.
LEMMA NothingBooked ==
  /\ <<>> \in Seq(Receipts) /\ Collected(<<>>, 0) /\ Numbered(<<>>, 0) /\ Metered(<<>>, 0)
  /\ \A base_fee : Tipped(<<>>, base_fee, 0) /\ Priced(<<>>, base_fee)
<1>1. <<>> \in Seq(Receipts) /\ Len(<<>>) = 0 /\ DOMAIN <<>> = {}
  OBVIOUS
<1>2. /\ Charges(<<>>) = <<>> /\ GasUsed(<<>>) = <<>> /\ Logs(<<>>) = <<>>
      /\ \A base_fee : Tips(<<>>, base_fee) = <<>>
  BY DEF Charges, GasUsed, Logs, Tips
<1>3. UNION {LogIndexes(<<>>[i]) : i \in 1..0} = 0..(0 - 1)
  OBVIOUS
<1>4. Collected(<<>>, 0) /\ Metered(<<>>, 0) /\ \A base_fee : Tipped(<<>>, base_fee, 0)
  BY <1>1, <1>2, TotalEmpty DEF Collected, Metered, Tipped
<1>5. Numbered(<<>>, 0)
  BY <1>1, <1>2, <1>3, TotalEmpty DEF Numbered
<1>6. \A base_fee : Priced(<<>>, base_fee)
  BY <1>1 DEF Priced
<1> QED  BY <1>1, <1>4, <1>5, <1>6

\* Nor in a block that is not there yet.
LEMMA NoBlockBooked ==
  /\ block = NoBlock => BlockBooked
  /\ block' = NoBlock => BlockBooked'
<1>0. /\ NoBlock.receipts = <<>> /\ NoBlock.collected = 0 /\ NoBlock.value = 0 /\ NoBlock.gas_used = 0
      /\ DOMAIN NoBlock.receipts = {}
  BY DEF NoBlock
<1>1. \E offset \in Nat : Numbered(NoBlock.receipts, offset)
  BY <1>0, NothingBooked
<1>2. ASSUME block = NoBlock PROVE BlockBooked
  <2>1. CleanReceiptMatchesListing
    BY <1>0, <1>2 DEF CleanReceiptMatchesListing, Stored
  <2> QED  BY <1>0, <1>1, <1>2, <2>1, NothingBooked DEF BlockBooked
<1>3. ASSUME block' = NoBlock PROVE BlockBooked'
  <2>1. CleanReceiptMatchesListing'
    BY <1>0, <1>3 DEF CleanReceiptMatchesListing, Stored
  <2> QED  BY <1>0, <1>1, <1>3, <2>1, NothingBooked DEF BlockBooked
<1> QED  BY <1>2, <1>3

\* What is left of the transactions once those with a receipt are left out.
LEMMA ListFiltered ==
  ASSUME NEW all \in Seq(Entries), NEW K,
         \A i \in DOMAIN all : all[i].tx.kind = "deposit" => all[i].zero = 0 /\ all[i].non_zero = 0
  PROVE  /\ Selected(all, K) \in Seq(Entries)
         /\ \A i \in DOMAIN Selected(all, K) : Selected(all, K)[i].tx.kind = "deposit" =>
              Selected(all, K)[i].zero = 0 /\ Selected(all, K)[i].non_zero = 0
         /\ L1FeeOf(Selected(all, K)) \in L1Costs
<1> DEFINE s == Selected(all, K)
<1>1. TakenFrom(s, all, K, Len(all), Entries)
  BY SelectedTaken
<1> HIDE DEF s
<1>2. s \in Seq(Entries)
  BY <1>1 DEF TakenFrom
<1>3. PICK n \in Nat, m \in Nat : n = Len(s) /\ m = Len(all) /\ DOMAIN s = 1..n /\ DOMAIN all = 1..m
  BY <1>2
<1>4. PICK g \in [1..n -> 1..m] :
        \A j \in 1..n : s[j] = all[g[j]]
  BY <1>1, <1>3 DEF TakenFrom
<1>5. \A i \in DOMAIN s : s[i].tx.kind = "deposit" => s[i].zero = 0 /\ s[i].non_zero = 0
  <2>1. \A i \in DOMAIN s : g[i] \in DOMAIN all /\ s[i] = all[g[i]]
    BY <1>3, <1>4
  <2> QED  BY <2>1
<1>6. L1FeeOf(s) \in L1Costs
  <2>1. CASE s # <<>> /\ Head(s).tx.kind = "deposit"
    <3>1. Head(s) \in Entries
      BY <1>2, <2>1
    <3>2. Head(s).tx \in Txs
      BY <3>1 DEF Entries
    <3>3. Head(s).tx.l1 \in L1Costs
      BY <2>1, <3>2, TxTyped DEF L1Costs
    <3> QED  BY <2>1, <3>3 DEF L1FeeOf, StartsWithDeposit
  <2>2. CASE ~(s # <<>> /\ Head(s).tx.kind = "deposit")
    BY <2>2 DEF L1FeeOf, StartsWithDeposit, L1Costs
  <2> QED  BY <2>1, <2>2
<1> QED  BY <1>2, <1>5, <1>6 DEF s

\* A build starts with empty books.
LEMMA StartKeeps ==
  ASSUME FeesInv, NEW limit \in GasLimits, NEW attributes \in Lists(Txs, MaxAttributes),
         NEW pool \in Pools, StartBlockBuild(limit, attributes, pool)
  PROVE  FeesInv'
<1>1. /\ attributes \in Seq(Txs) /\ pool \in Seq(Txs)
      /\ \A i \in 1..Len(pool) : pool[i].kind # "deposit"
  <2>1. PICK q \in 0..MaxAttributes : attributes \in [1..q -> Txs]
    BY DEF Lists
  <2>2. PICK m \in 0..MaxPool : pool \in [1..m -> {tx \in Txs : tx.kind # "deposit"}]
    BY DEF Pools, Lists
  <2>3. q \in Nat /\ m \in Nat
    BY <2>1, <2>2, FeesAssumption
  <2>4. attributes \in Seq(Txs)
    BY <2>1, <2>3
  <2>5. pool \in [1..m -> Txs] /\ \A i \in 1..m : pool[i].kind # "deposit"
    BY <2>2
  <2>6. pool \in Seq(Txs) /\ Len(pool) = m
    BY <2>3, <2>5
  <2> QED  BY <2>4, <2>5, <2>6
<1> DEFINE all == Decoded(attributes, pool)
           K == {i \in DOMAIN all : all[i].tx \notin processed}
           sel == Selected(all, K)
           new == [gas_limit |-> limit, base_fee |-> BaseFeePerGas(parent),
                   l1 |-> L1FeeOf(sel), list |-> sel, next |-> 1,
                   receipts |-> <<>>, cumulative_gas_used |-> 0, log_offset |-> 0,
                   tx_index |-> 0, total_tip |-> 0, collected |-> 0]
<1>2. /\ build' = new /\ block' = NoBlock /\ parent' = parent /\ ~DividesByZero(parent)
  <2>1. Included(attributes, pool) = sel
    BY DEF Included, Decoded
  <2> HIDE DEF sel
  <2> QED  BY <2>1 DEF StartBlockBuild
<1>3. /\ all \in Seq(Entries)
      /\ \A i \in DOMAIN all : all[i].tx.kind = "deposit" => all[i].zero = 0 /\ all[i].non_zero = 0
  <2> HIDE DEF all
  <2>1. all = Decoded(attributes, pool)
    BY DEF all
  <2> QED  BY <1>1, <2>1, AllDecoded
<1> HIDE DEF all, K
<1>6. /\ sel \in Seq(Entries)
      /\ \A i \in DOMAIN sel : sel[i].tx.kind = "deposit" => sel[i].zero = 0 /\ sel[i].non_zero = 0
      /\ L1FeeOf(sel) \in L1Costs
  BY <1>3, ListFiltered
<1> HIDE DEF sel
<1>7. parent \in Parents /\ parent.base_fee <= U64Max
  BY DEF FeesInv, FeesTyped
<1>8. BaseFeePerGas(parent) \in Nat
  BY <1>2, <1>7, BaseFeeMoves
<1>9. /\ build' \in Builds /\ build'.next = 1 /\ build'.list = sel /\ build'.receipts = <<>>
      /\ build'.base_fee = BaseFeePerGas(parent) /\ build'.tx_index = 0 /\ build'.collected = 0
      /\ build'.total_tip = 0 /\ build'.log_offset = 0 /\ build'.cumulative_gas_used = 0
  <2>1. limit \in Nat
    BY ConstantsTyped
  <2> QED  BY <1>2, <1>6, <1>8, <2>1, NothingBooked DEF Builds
<1>10. FeesTyped'
  <2>1. DividesByZero(parent)' = DividesByZero(parent) /\ BaseFeePerGas(parent)' = BaseFeePerGas(parent)
    BY <1>2 DEF DividesByZero, BaseFeePerGas, GasTarget, FeeDelta
  <2>2. Len(<<>>) = 0
    OBVIOUS
  <2> QED  BY <1>2, <1>6, <1>7, <1>9, <2>1, <2>2 DEF FeesTyped
<1>11. Placed(<<>>, sel, 1)
  <2>1. Len(<<>>) < 1 /\ DOMAIN <<>> = {} /\ \A p \in DOMAIN sel : ~(p < 1)
    BY <1>6
  <2> QED  BY <1>6, <2>1 DEF Placed
<1>12. BuildBooked'
  <2>1. /\ Collected(build.receipts, build.collected)'
        /\ Tipped(build.receipts, build.base_fee, build.total_tip)'
        /\ Numbered(build.receipts, build.log_offset)'
        /\ Metered(build.receipts, build.cumulative_gas_used)'
        /\ Placed(build.receipts, build.list, build.next)'
        /\ Priced(build.receipts, build.base_fee)'
    BY <1>9, <1>11, NothingBooked
  <2> QED  BY <2>1 DEF BuildBooked
<1>13. BlockBooked'
  BY <1>2, NoBlockBooked
<1> QED  BY <1>10, <1>12, <1>13 DEF FeesInv

\* The header takes the fee of the build, up to what it can hold.
LEMMA SealedFee ==
  ASSUME NEW fee \in Nat
  PROVE  /\ Min({fee, U64Max}) \in Nat /\ Min({fee, U64Max}) <= U64Max /\ Min({fee, U64Max}) <= fee
         /\ Min({fee, U64Max}) < U64Max => Min({fee, U64Max}) = fee
         /\ Min({fee, U64Max}) \in {fee, U64Max}
<1>1. Min({fee, U64Max}) = IF fee <= U64Max THEN fee ELSE U64Max
  BY ConstantsTyped, MinOfTwo
<1> QED  BY <1>1, ConstantsTyped

\* The listed price, or the base fee.
PriceOf(tx, base_fee) ==
  Max({ListedPrice(tx, base_fee), IF IsCanonical(tx) THEN base_fee ELSE 0})

\* Receipt i and listing j of one transaction.
Matches(rs, list, base_fee, i, j) ==
  /\ rs[i].index <= j - 1
  /\ (\A k \in 1..j : ListedFor(rs, list, k)) => rs[i].index = j - 1
  /\ base_fee < U64Max => rs[i].l2_gas_price = PriceOf(list[j].tx, base_fee)

\* Receipts and listing of a sealed block agree.
LEMMA SealedMatches ==
  ASSUME NEW rs \in Seq(Receipts), NEW list \in Seq(Entries), NEW fee \in Nat, NEW base_fee \in Nat,
         NEW next \in Nat, next > Len(list), Placed(rs, list, next), Priced(rs, fee),
         base_fee < U64Max => base_fee = fee,
         NEW i \in Stored(rs), NEW j \in Stored(list), rs[i].tx = list[j].tx
  PROVE  Matches(rs, list, base_fee, i, j)
<1>0. /\ i \in DOMAIN rs /\ \A k \in DOMAIN rs : rs[k].tx = rs[i].tx => k <= i
      /\ j \in DOMAIN list /\ \A k \in DOMAIN list : list[k].tx = list[j].tx => k <= j
  BY DEF Stored
<1>1. i \in Nat /\ j \in Nat /\ j < next /\ Len(list) \in Nat
  BY <1>0
<1>2. rs[i].index = i - 1
  BY <1>0 DEF Placed
<1>3. i <= j
  <2>1. PICK p \in DOMAIN list : i <= p /\ rs[i].tx = list[p].tx
    BY <1>0 DEF Placed
  <2>2. p <= j /\ p \in Nat
    BY <1>0, <2>1
  <2> QED  BY <1>1, <2>1, <2>2
<1>4. ASSUME \A k \in 1..j : ListedFor(rs, list, k) PROVE i = j
  <2>1. j <= Len(rs) /\ rs[j].tx = list[j].tx
    BY <1>0, <1>1, <1>4 DEF Placed
  <2>2. j \in DOMAIN rs
    BY <1>0, <1>1, <2>1
  <2>3. j <= i
    BY <1>0, <2>1, <2>2
  <2> QED  BY <1>1, <1>3, <2>3
<1>5. ASSUME base_fee < U64Max PROVE rs[i].l2_gas_price = PriceOf(list[j].tx, base_fee)
  <2>1. PICK tx \in Txs : tx = list[j].tx
    <3>1. list[j] \in Entries
      BY <1>0
    <3>2. list[j].tx \in Txs
      BY <3>1 DEF Entries
    <3> QED  BY <3>2
  <2>2. IsSupported(tx) /\ rs[i].l2_gas_price = EffectiveGasPrice(tx, base_fee)
    BY <1>0, <1>5, <2>1 DEF Priced
  <2> QED  BY <2>1, <2>2, PricesAgree DEF PriceOf
<1> QED  BY <1>1, <1>2, <1>3, <1>4, <1>5 DEF Matches

\* Sealing moves the books to the block.
LEMMA SealKeeps ==
  ASSUME FeesInv, SealBlock
  PROVE  FeesInv'
<1>1. Building /\ build \in Builds /\ build.next > Len(build.list)
  BY DEF SealBlock, FeesInv, FeesTyped
<1>2. PICK rs \in Seq(Receipts), list \in Seq(Entries), fee \in Nat, next \in Nat, gas \in Nat :
        /\ rs = build.receipts /\ list = build.list /\ fee = build.base_fee /\ next = build.next
        /\ gas = build.cumulative_gas_used /\ build.gas_limit \in Nat
  BY <1>1 DEF Builds
<1>3. PICK base_fee \in Nat : /\ base_fee = Min({fee, U64Max}) /\ base_fee <= U64Max
                              /\ base_fee < U64Max => base_fee = fee
  BY SealedFee
<1> DEFINE transactions ==
      [i \in 1..Len(list) |-> [tx |-> list[i].tx, index |-> i - 1, price |-> ListedPrice(list[i].tx, base_fee)]]
<1>4. /\ parent' = [gas_limit |-> build.gas_limit, gas_used |-> gas, base_fee |-> base_fee]
      /\ block' = [gas_used |-> gas, base_fee |-> base_fee, value |-> build.total_tip,
                   collected |-> build.collected, receipts |-> rs, transactions |-> transactions]
      /\ build' = None
  BY <1>2, <1>3 DEF SealBlock
<1>5. ~Building'
  BY <1>4 DEF Building
<1>6. FeesTyped'
  BY <1>2, <1>3, <1>4, <1>5 DEF FeesTyped, Parents
<1>7. /\ Collected(rs, build.collected) /\ Tipped(rs, fee, build.total_tip)
      /\ Numbered(rs, build.log_offset) /\ Metered(rs, gas) /\ Placed(rs, list, next) /\ Priced(rs, fee)
      /\ build.log_offset \in Nat
  BY <1>1, <1>2 DEF FeesInv, BuildBooked, Builds
<1>8. CleanReceiptMatchesListing'
  <2>0. /\ block'.receipts = rs /\ block'.transactions = transactions /\ block'.base_fee = base_fee
        /\ DOMAIN transactions = 1..Len(list) /\ DOMAIN list = 1..Len(list)
        /\ \A k \in DOMAIN list :
             /\ transactions[k].tx = list[k].tx /\ transactions[k].index = k - 1
             /\ transactions[k].price = ListedPrice(list[k].tx, base_fee)
    BY <1>4
  <2> HIDE DEF transactions
  <2> SUFFICES ASSUME NEW i \in Stored(rs), NEW j \in Stored(transactions),
                      rs[i].tx = transactions[j].tx
               PROVE  /\ rs[i].index <= transactions[j].index
                      /\ Unskipped(j)' => rs[i].index = transactions[j].index
                      /\ base_fee < U64Max =>
                           rs[i].l2_gas_price =
                             Max({transactions[j].price,
                                  IF IsCanonical(transactions[j].tx) THEN base_fee ELSE 0})
    <3>1. Stored(block.receipts)' = Stored(rs) /\ Stored(block.transactions)' = Stored(transactions)
      BY <2>0 DEF Stored
    <3> QED  BY <2>0, <3>1 DEF CleanReceiptMatchesListing
  <2>1. j \in Stored(list) /\ j \in DOMAIN list
    BY <2>0 DEF Stored
  <2>2. Unskipped(j)' => \A k \in 1..j : ListedFor(rs, list, k)
    <3> SUFFICES ASSUME Unskipped(j)', NEW k \in 1..j PROVE ListedFor(rs, list, k)
      OBVIOUS
    <3>1. k \in DOMAIN list
      BY <2>1
    <3>2. /\ transactions[k].tx \in {receipt.tx : receipt \in Range(rs)}
          /\ transactions[k].tx.kind # "deposit" =>
               \A l \in DOMAIN transactions \ {k} : transactions[l].tx # transactions[k].tx
      BY <2>0 DEF Unskipped
    <3>3. \E q \in DOMAIN rs : rs[q].tx = list[k].tx
      BY <2>0, <3>1, <3>2 DEF Range
    <3> QED  BY <2>0, <3>1, <3>2, <3>3 DEF ListedFor
  <2>3. next > Len(list) /\ rs[i].tx = list[j].tx
    BY <1>1, <1>2, <2>0, <2>1
  <2>4. Matches(rs, list, base_fee, i, j)
    <3>1. /\ Placed(rs, list, next) /\ Priced(rs, fee) /\ (base_fee < U64Max => base_fee = fee)
      BY <1>3, <1>7
    <3>2. /\ rs \in Seq(Receipts) /\ list \in Seq(Entries)
          /\ fee \in Nat /\ base_fee \in Nat /\ next \in Nat
      OBVIOUS
    <3>3. i \in Stored(rs) /\ j \in Stored(list) /\ next > Len(list) /\ rs[i].tx = list[j].tx
      BY <2>1, <2>3
    <3> QED  BY ONLY <3>1, <3>2, <3>3, SealedMatches
  <2>5. /\ transactions[j].index = j - 1 /\ transactions[j].tx = list[j].tx
        /\ PriceOf(list[j].tx, base_fee) =
             Max({transactions[j].price, IF IsCanonical(transactions[j].tx) THEN base_fee ELSE 0})
    BY <2>0, <2>1 DEF PriceOf
  <2> QED  BY ONLY <2>2, <2>4, <2>5 DEF Matches
<1>9. BlockBooked'
  <2>1. /\ block'.receipts = rs /\ block'.base_fee = base_fee /\ block'.value = build.total_tip
        /\ block'.collected = build.collected /\ block'.gas_used = gas
    BY <1>4
  <2>2. /\ Collected(block.receipts, block.collected)' /\ Metered(block.receipts, block.gas_used)'
        /\ \E offset \in Nat : Numbered(block.receipts, offset)'
    BY <1>7, <2>1
  <2>3. (block.base_fee < U64Max => Tipped(block.receipts, block.base_fee, block.value))'
    BY <1>3, <1>7, <2>1
  <2> QED  BY <1>8, <2>1, <2>2, <2>3 DEF BlockBooked
<1> QED  BY <1>5, <1>6, <1>9 DEF FeesInv, BuildBooked

\* The books are kept in every state.
LEMMA FeesInvariant == Spec => []FeesInv
<1>1. Init => FeesInv
  <2> SUFFICES ASSUME Init PROVE FeesInv
    OBVIOUS
  <2>1. ~Building
    BY DEF Init, Building
  <2>2. parent \in Parents /\ parent.base_fee <= U64Max
    <3>1. parent \in [gas_limit : GasLimits, gas_used : {0}, base_fee : {GenesisFee}]
      BY DEF Init
    <3>2. PICK l \in GasLimits : parent = [gas_limit |-> l, gas_used |-> 0, base_fee |-> GenesisFee]
      BY <3>1
    <3>3. l \in Nat /\ GenesisFee \in Nat /\ GenesisFee <= U64Max
      BY ConstantsTyped
    <3> QED  BY <3>2, <3>3 DEF Parents
  <2>3. BlockBooked
    BY NoBlockBooked DEF Init
  <2> QED  BY <2>1, <2>2, <2>3 DEF FeesInv, FeesTyped, BuildBooked
<1>2. FeesInv /\ [Next]_vars => FeesInv'
  <2> SUFFICES ASSUME FeesInv, [Next]_vars PROVE FeesInv'
    OBVIOUS
  <2>1. ASSUME NEW limit \in GasLimits, NEW attributes \in Lists(Txs, MaxAttributes),
               NEW pool \in Pools, StartBlockBuild(limit, attributes, pool)
        PROVE  FeesInv'
    BY <2>1, StartKeeps
  <2>2. ASSUME NEW attributes, NEW pool, StartPanics(attributes, pool) PROVE FeesInv'
    <3>1. ~Building' /\ parent' = parent /\ block' = block
      BY <2>2 DEF StartPanics, Building
    <3> QED  BY <3>1, BlockSame DEF FeesInv, FeesTyped, BuildBooked
  <2>3. CASE SkipTransaction
    BY <2>3, SkipKeeps
  <2>4. ASSUME NEW logs \in 0..MaxLogs, NEW gas_used, ExecuteCanonical(gas_used, logs) \/ ExecuteDeposit(gas_used, logs)
        PROVE  FeesInv'
    <3>1. /\ Executing /\ build' = Recorded(Current, gas_used, logs)
          /\ UNCHANGED <<parent, processed, block>>
      BY <2>4 DEF ExecuteCanonical, ExecuteDeposit
    <3>2. IsSupported(Current.tx)
      BY <2>4 DEF ExecuteCanonical, ExecuteDeposit, IsCanonical, IsSupported
    <3>3. Current.tx.gas_limit \in Nat
      BY <3>1, CurrentTyped, TxTyped DEF FeesInv
    <3>4. gas_used \in Nat /\ gas_used <= Current.tx.gas_limit /\ logs \in Nat
      BY <2>4, <3>3, ConstantsTyped DEF ExecuteCanonical, ExecuteDeposit
    <3> QED  BY <3>1, <3>2, <3>4, ExecuteKeeps
  <2>5. CASE SealBlock
    BY <2>5, SealKeeps
  <2>6. CASE UNCHANGED vars
    <3>1. parent' = parent /\ build' = build /\ block' = block
      BY <2>6 DEF vars
    <3>2. FeesTyped'
      BY <3>1 DEF FeesInv, FeesTyped, Building, DividesByZero, BaseFeePerGas, GasTarget, FeeDelta
    <3>3. BuildBooked'
      BY <3>1 DEF FeesInv, BuildBooked, Building
    <3> QED  BY <3>1, <3>2, <3>3, BlockSame DEF FeesInv
  <2> QED  BY <2>1, <2>2, <2>3, <2>4, <2>5, <2>6 DEF Next
<1> QED  BY <1>1, <1>2, PTL DEF Spec

-----------------------------------------------------------------------------
(* The theorems *)

(* What the senders of a block paid, charged in advance and refunded, is what   *)
(* the receipts add up to, and the value of the block is what they add up to    *)
(* above the base fee: for any list, prices, gas and whatever is skipped.       *)
THEOREM BooksBalance == Spec => []AccountsBalance
<1>1. FeesInv => AccountsBalance
  <2> SUFFICES ASSUME FeesInv, NEW b \in Blocks
               PROVE  /\ Collected(b.receipts, b.collected)
                      /\ b.base_fee < U64Max => Tipped(b.receipts, b.base_fee, b.value)
    BY DEF AccountsBalance, Collected, Tipped
  <2>1. CASE b = block
    BY <2>1 DEF FeesInv, BlockBooked
  <2>2. CASE b # block
    <3>1. /\ Building
          /\ b.receipts = build.receipts /\ b.collected = build.collected
          /\ b.base_fee = build.base_fee /\ b.value = build.total_tip
      BY <2>2 DEF Blocks
    <3> QED  BY <3>1 DEF FeesInv, BuildBooked
  <2> QED  BY <2>1, <2>2
<1> QED  BY <1>1, FeesInvariant, PTL

(* The log indexes of a block leave no gap and repeat none, and the cumulative  *)
(* gas of its receipts are the partial sums of what they used, up to the gas of *)
(* the block, however transactions are skipped in between.                      *)
THEOREM LogsAreNumbered == Spec => []LogsNumbered
<1>1. FeesInv => LogsNumbered
  <2> SUFFICES ASSUME FeesInv, NEW b \in Blocks
               PROVE  LET n == Len(b.receipts)
                          indexes(i) == LogIndexes(b.receipts[i])
                      IN /\ UNION {indexes(i) : i \in 1..n} = 0..(Total(Logs(b.receipts)) - 1)
                         /\ \A i, j \in 1..n : i < j => indexes(i) \cap indexes(j) = {}
                         /\ \A i \in 1..n : b.receipts[i].cumulative_gas_used = Sums(GasUsed(b.receipts))[i]
                         /\ b.gas_used = IF n = 0 THEN 0 ELSE b.receipts[n].cumulative_gas_used
    BY DEF LogsNumbered
  <2>1. PICK rs \in Seq(Receipts), offset \in Nat :
          rs = b.receipts /\ Numbered(rs, offset) /\ Metered(rs, b.gas_used)
    <3>1. CASE b = block
      BY <3>1 DEF FeesInv, BlockBooked
    <3>2. CASE b # block
      <4>1. /\ Building /\ b.receipts = build.receipts /\ b.gas_used = build.cumulative_gas_used
        BY <3>2 DEF Blocks
      <4>2. build.log_offset \in Nat /\ build.receipts \in Seq(Receipts)
        BY <4>1 DEF FeesInv, FeesTyped, Builds
      <4>3. Numbered(build.receipts, build.log_offset) /\ Metered(build.receipts, build.cumulative_gas_used)
        BY <4>1 DEF FeesInv, BuildBooked
      <4> QED  BY <4>1, <4>2, <4>3
    <3> QED  BY <3>1, <3>2
  <2>2. PICK n \in Nat : n = Len(rs)
    OBVIOUS
  <2>3. GasUsed(rs) \in Seq(Int) /\ Len(GasUsed(rs)) = n
    <3>1. 0 \in Nat
      OBVIOUS
    <3> QED  BY <2>2, <3>1, Columns
  <2>4. b.gas_used = IF n = 0 THEN 0 ELSE rs[n].cumulative_gas_used
    <3>1. b.gas_used = Sums(GasUsed(rs))[n]
      BY <2>1, <2>3 DEF Metered, Total
    <3>2. CASE n = 0
      <4>1. Sums(GasUsed(rs))[0] = 0
        BY <2>3, SumsUnfold
      <4> QED  BY <3>1, <3>2, <4>1
    <3>3. CASE n # 0
      <4>1. n \in 1..Len(rs)
        BY <2>2, <3>3
      <4>2. rs[n].cumulative_gas_used = Sums(GasUsed(rs))[n]
        BY <2>1, <4>1 DEF Metered
      <4> QED  BY <3>1, <3>3, <4>2
    <3> QED  BY <3>2, <3>3
  <2>5. /\ UNION {LogIndexes(rs[i]) : i \in 1..Len(rs)} = 0..(Total(Logs(rs)) - 1)
        /\ \A i, j \in 1..Len(rs) : i < j => LogIndexes(rs[i]) \cap LogIndexes(rs[j]) = {}
        /\ \A i \in 1..Len(rs) : rs[i].cumulative_gas_used = Sums(GasUsed(rs))[i]
    <3>1. /\ offset = Total(Logs(rs))
          /\ UNION {LogIndexes(rs[i]) : i \in 1..Len(rs)} = 0..(offset - 1)
      BY <2>1 DEF Numbered
    <3>2. UNION {LogIndexes(rs[i]) : i \in 1..Len(rs)} = 0..(Total(Logs(rs)) - 1)
      BY <3>1
    <3> QED  BY <2>1, <3>2 DEF Numbered, Metered
  <2> QED  BY <2>1, <2>2, <2>4, <2>5
<1> QED  BY <1>1, FeesInvariant, PTL

(* The stored receipt of a transaction never has a greater index than its       *)
(* stored listing, and has the same one until the block skipped a transaction   *)
(* or listed a signed one twice; its price is the listed one or, when the       *)
(* transaction offered less, the base fee: for any attributes, pool and prices. *)
THEOREM ReceiptsMatchListings == Spec => []CleanReceiptMatchesListing
<1>1. FeesInv => CleanReceiptMatchesListing
  BY DEF FeesInv, BlockBooked
<1> QED  BY <1>1, FeesInvariant, PTL

(* The base fee rises after a block above its gas target, does not rise after   *)
(* another one, and does not fall from a positive value to zero, for every      *)
(* elasticity and every denominator above one, whatever the divisions round.    *)
THEOREM FeesAnswerDemand == Spec => FeeAnswersDemand
<1>1. FeesInv /\ [Next]_vars =>
        [parent' # parent =>
           LET fee == parent.base_fee  next == parent'.base_fee
           IN /\ parent.gas_used > GasTarget(parent) /\ fee < U64Max => next > fee
              /\ parent.gas_used <= GasTarget(parent) => next <= fee
              /\ fee > 0 /\ Denominator > 1 => next > 0]_vars
  <2> SUFFICES ASSUME FeesInv, Next, parent' # parent
               PROVE  LET fee == parent.base_fee  next == parent'.base_fee
                      IN /\ parent.gas_used > GasTarget(parent) /\ fee < U64Max => next > fee
                         /\ parent.gas_used <= GasTarget(parent) => next <= fee
                         /\ fee > 0 /\ Denominator > 1 => next > 0
    OBVIOUS
  <2>1. SealBlock
    BY ZenonT(40) DEF Next, StartBlockBuild, StartPanics, SkipTransaction, ExecuteCanonical, ExecuteDeposit
  <2>2. /\ Building /\ parent \in Parents /\ parent.base_fee <= U64Max
        /\ ~DividesByZero(parent) /\ build.base_fee = BaseFeePerGas(parent)
    BY <2>1 DEF SealBlock, FeesInv, FeesTyped
  <2>3. PICK old \in Nat, new \in Nat : old = parent.base_fee /\ new = BaseFeePerGas(parent)
    BY <2>2, BaseFeeMoves DEF Parents
  <2>4. PICK fee \in Nat : /\ fee = Min({new, U64Max}) /\ fee <= new /\ fee \in {new, U64Max}
    BY SealedFee
  <2>5. parent'.base_fee = fee
    BY <2>1, <2>2, <2>3, <2>4 DEF SealBlock
  <2>6. /\ parent.gas_used > GasTarget(parent) => new > old
        /\ parent.gas_used <= GasTarget(parent) => new <= old
        /\ old > 0 /\ Denominator > 1 => new > 0
    BY <2>2, <2>3, BaseFeeMoves
  <2>7. old <= U64Max /\ U64Max \in Nat
    BY <2>2, <2>3, ConstantsTyped
  <2> QED  BY <2>3, <2>4, <2>5, <2>6, <2>7
<1> QED  BY <1>1, FeesInvariant, PTL DEF Spec, FeeAnswersDemand
=============================================================================
