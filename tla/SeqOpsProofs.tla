---------------------------- MODULE SeqOpsProofs ----------------------------
(* What the operators of SeqOps compute, for sequences of any length.        *)
EXTENDS SeqOps, TLAPS, WellFoundedInduction, FiniteSetTheorems

\* A set of numbers has a smallest one: the form of induction used here.
LEMMA LeastNat ==
  ASSUME NEW T, T \subseteq Nat, T # {}
  PROVE  \E n \in T : \A m \in T : n <= m
<1>1. PICK n \in T : \A m \in T : ~(<<m, n>> \in OpToRel(<, Nat))
  BY WFMin, NatLessThanWellFounded, Zenon
<1>2. \A m \in Nat, k \in Nat : m < k => <<m, k>> \in OpToRel(<, Nat)
  BY DEF OpToRel
<1>3. \A m \in T : ~(m < n)
  BY <1>1, <1>2, Zenon
<1> QED  BY <1>3

\* f holds the sums of the first n elements of s.
IsSums(f, s, n) == f = [i \in 0..n |-> IF i = 0 THEN 0 ELSE f[i - 1] + s[i]]

\* A recursive definition of sums has a solution: the prefixes have one.
LEMMA SumsExist ==
  ASSUME NEW s
  PROVE  \A n \in Nat : \E f : IsSums(f, s, n)
<1> DEFINE bad == {n \in Nat : ~\E f : IsSums(f, s, n)}
<1> SUFFICES ASSUME bad # {} PROVE FALSE
  OBVIOUS
<1>1. bad \subseteq Nat
  OBVIOUS
<1>2. PICK n \in bad : \A m \in bad : n <= m
  BY <1>1, LeastNat
<1>3. n \in Nat /\ ~\E f : IsSums(f, s, n)
  BY <1>2
<1>4. n # 0
  <2> SUFFICES ASSUME n = 0 PROVE FALSE
    OBVIOUS
  <2> DEFINE f == [i \in 0..n |-> 0]
  <2>1. \A i \in 0..n : i = 0
    OBVIOUS
  <2>2. IsSums(f, s, n)
    BY <2>1 DEF IsSums
  <2> QED  BY <1>3, <2>2
<1>5. PICK k \in Nat : n = k + 1
  <2>1. n - 1 \in Nat /\ n = (n - 1) + 1
    BY <1>3, <1>4
  <2> QED  BY <2>1
<1>6. k \notin bad
  BY <1>2, <1>3, <1>5
<1>7. PICK f : IsSums(f, s, k)
  BY <1>6
<1> DEFINE g == [i \in 0..n |-> IF i = n THEN f[k] + s[n] ELSE f[i]]
<1>8. \A i \in 0..k : f[i] = IF i = 0 THEN 0 ELSE f[i - 1] + s[i]
  BY <1>7 DEF IsSums
<1>9. \A i \in 0..n : g[i] = IF i = 0 THEN 0 ELSE g[i - 1] + s[i]
  <2> SUFFICES ASSUME NEW i \in 0..n PROVE g[i] = IF i = 0 THEN 0 ELSE g[i - 1] + s[i]
    OBVIOUS
  <2>1. CASE i = n
    <3>1. g[i] = f[k] + s[n] /\ g[k] = f[k] /\ i # 0 /\ i - 1 = k
      BY <1>3, <1>5, <2>1
    <3> QED  BY <3>1, <2>1
  <2>2. CASE i # n /\ i # 0
    <3>1. i \in 0..k /\ i - 1 \in 0..n /\ i - 1 # n
      BY <1>3, <1>5, <2>2
    <3>2. g[i] = f[i] /\ g[i - 1] = f[i - 1]
      BY <2>2, <3>1
    <3> QED  BY <1>8, <2>2, <3>1, <3>2
  <2>3. CASE i = 0
    <3>1. 0 \in 0..k /\ 0 # n
      BY <1>3, <1>5
    <3> QED  BY <1>8, <2>3, <3>1
  <2> QED  BY <2>1, <2>2, <2>3
<1>10. IsSums(g, s, n)
  <2> HIDE DEF g
  <2>1. g = [i \in 0..n |-> g[i]]
    BY DEF g
  <2> QED  BY <1>9, <2>1 DEF IsSums
<1> QED  BY <1>3, <1>10

\* Sums, unfolded once.
LEMMA SumsUnfold ==
  ASSUME NEW s \in Seq(Int)
  PROVE  /\ Sums(s)[0] = 0
         /\ \A i \in 1..Len(s) : Sums(s)[i] = Sums(s)[i - 1] + s[i]
         /\ \A i \in 0..Len(s) : Sums(s)[i] \in Int
         /\ Total(s) = Sums(s)[Len(s)] /\ Total(s) \in Int
<1> DEFINE f == Sums(s)
           n == Len(s)
<1>1. n \in Nat /\ \A i \in 1..n : s[i] \in Int
  OBVIOUS
<1>2. f = CHOOSE g : IsSums(g, s, n)
  BY DEF Sums, IsSums
<1>3. IsSums(f, s, n)
  BY <1>1, <1>2, SumsExist
<1> HIDE DEF f, n
<1>4. f[0] = 0 /\ \A i \in 1..n : f[i] = f[i - 1] + s[i]
  BY <1>1, <1>3 DEF IsSums
<1>5. \A i \in 0..n : f[i] \in Int
  <2> DEFINE bad == {i \in 0..n : f[i] \notin Int}
  <2> SUFFICES ASSUME bad # {} PROVE FALSE
    OBVIOUS
  <2>1. bad \subseteq Nat
    BY <1>1
  <2>2. PICK i \in bad : \A j \in bad : i <= j
    BY <2>1, LeastNat
  <2>3. i \in 1..n /\ f[i] \notin Int
    BY <1>1, <1>4, <2>2
  <2>4. i - 1 \in 0..n /\ i - 1 \notin bad
    BY <1>1, <2>2, <2>3
  <2>5. f[i - 1] \in Int
    BY <2>4
  <2>6. f[i] = f[i - 1] + s[i] /\ s[i] \in Int
    BY <1>1, <1>4, <2>3
  <2>7. PICK a \in Int, b \in Int : f[i] = a + b
    BY <2>5, <2>6
  <2> QED  BY <2>3, <2>7
<1> QED  BY <1>1, <1>4, <1>5 DEF f, n, Total

\* One step of the sums, with the two places named.
LEMMA SumsStep ==
  ASSUME NEW s \in Seq(Int), NEW i \in 0..Len(s), NEW j \in 1..Len(s), j = i + 1
  PROVE  /\ Sums(s)[j] = Sums(s)[i] + s[j]
         /\ Sums(s)[i] \in Int /\ Sums(s)[j] \in Int /\ s[j] \in Int
<1>1. j - 1 = i /\ j \in 0..Len(s) /\ s[j] \in Int
  OBVIOUS
<1> QED  BY <1>1, SumsUnfold

\* The empty sequence sums up to nothing.
LEMMA TotalEmpty == Total(<<>>) = 0
<1>1. <<>> \in Seq(Int) /\ Len(<<>>) = 0
  OBVIOUS
<1> QED  BY <1>1, SumsUnfold

\* The first n elements of t are those of s after the first m.
Agree(s, t, m, n) == \A i \in 1..n : s[m + i] = t[i]

\* Elements that agree have sums that differ by what came before them.
LEMMA SumsShift ==
  ASSUME NEW s \in Seq(Int), NEW t \in Seq(Int), NEW m \in Nat, NEW n \in Nat,
         m + n <= Len(s), n <= Len(t), Agree(s, t, m, n)
  PROVE  \A i \in 0..n : Sums(s)[m + i] = Sums(s)[m] + Sums(t)[i]
<1> DEFINE bad == {i \in 0..n : Sums(s)[m + i] # Sums(s)[m] + Sums(t)[i]}
<1> SUFFICES ASSUME bad # {} PROVE FALSE
  OBVIOUS
<1>0. Len(s) \in Nat /\ Len(t) \in Nat
  OBVIOUS
<1>1. bad \subseteq Nat
  OBVIOUS
<1>2. PICK i \in bad : \A j \in bad : i <= j
  BY <1>1, LeastNat
<1>3. i \in 0..n /\ i \in Nat
  BY <1>2
<1>3a. Sums(s)[m + i] # Sums(s)[m] + Sums(t)[i]
  BY <1>2
<1> HIDE DEF bad
<1>4. PICK a \in Int : a = Sums(s)[m]
  <2>1. m \in 0..Len(s)
    BY <1>0
  <2> QED  BY <2>1, SumsUnfold
<1>5. CASE i = 0
  <2>1. Sums(t)[i] = 0 /\ m + i = m
    BY <1>5, SumsUnfold
  <2> QED  BY <1>3a, <1>4, <2>1
<1>6. CASE i # 0
  <2>1. PICK k \in 0..n : i = k + 1 /\ k \notin bad
    <3>1. i - 1 \in 0..n /\ i = (i - 1) + 1 /\ ~(i <= i - 1)
      BY <1>3, <1>6
    <3> QED  BY <1>2, <3>1
  <2>2. PICK p \in 1..Len(s), q \in 0..Len(s) : p = m + i /\ q = m + k /\ p = q + 1
    BY <1>0, <1>3, <1>6, <2>1
  <2>3. Sums(s)[q] = Sums(s)[m] + Sums(t)[k]
    BY <2>1, <2>2 DEF bad
  <2>4. i \in 1..Len(t) /\ k \in 0..Len(t) /\ i \in 1..n
    BY <1>0, <1>3, <1>6, <2>1, SMTT(30)
  <2>5. Sums(s)[p] = Sums(s)[q] + s[p] /\ s[p] \in Int
    BY <2>2, SumsStep, Zenon
  <2>6. Sums(t)[i] = Sums(t)[k] + t[i] /\ Sums(t)[k] \in Int /\ t[i] \in Int
    BY <2>1, <2>4, SumsStep, Zenon
  <2>7. PICK b \in Int, d \in Int : b = Sums(t)[k] /\ d = t[i]
    BY <2>6
  <2>8. s[p] = d
    BY <2>2, <2>4, <2>7 DEF Agree
  <2>9. PICK u \in Int, v \in Int : u = Sums(s)[p] /\ v = Sums(s)[q]
    BY <2>2, SumsStep, Zenon
  <2>10. u = v + d /\ v = a + b /\ Sums(t)[i] = b + d
    BY <1>4, <2>3, <2>5, <2>6, <2>7, <2>8, <2>9, Zenon
  <2>11. u # a + Sums(t)[i]
    BY <1>3a, <1>4, <2>2, <2>9, Zenon
  <2> QED  BY <2>10, <2>11
<1> QED  BY <1>5, <1>6

\* A new element adds itself.
LEMMA TotalAppend ==
  ASSUME NEW s \in Seq(Int), NEW e \in Int
  PROVE  /\ Total(Append(s, e)) = Total(s) + e
         /\ \A i \in 0..Len(s) : Sums(Append(s, e))[i] = Sums(s)[i]
<1> DEFINE t == Append(s, e)
<1>1. /\ t \in Seq(Int) /\ Len(t) = Len(s) + 1 /\ Len(s) \in Nat /\ t[Len(s) + 1] = e
      /\ \A i \in 1..Len(s) : t[i] = s[i]
  OBVIOUS
<1> HIDE DEF t
<1>2. PICK m \in Nat, n \in Nat : /\ m = 0 /\ n = Len(s) /\ m + n <= Len(t) /\ n <= Len(s)
                                /\ Agree(t, s, m, n)
  <2>1. 0 \in Nat /\ 0 + Len(s) <= Len(t) /\ Agree(t, s, 0, Len(s))
    BY <1>1 DEF Agree
  <2> QED  BY <1>1, <2>1
<1>3. \A i \in 0..n : Sums(t)[m + i] = Sums(t)[m] + Sums(s)[i]
  BY <1>1, <1>2, SumsShift, ZenonT(40)
<1>4. \A i \in 0..Len(s) : Sums(s)[i] \in Int
  BY SumsUnfold
<1>5. Sums(t)[0] = 0
  BY <1>1, SumsUnfold
<1>6. \A i \in 0..Len(s) : Sums(t)[i] = Sums(s)[i]
  <2>1. \A i \in 0..Len(s) : 0 + i = i
    OBVIOUS
  <2> QED  BY <1>2, <1>3, <1>4, <1>5, <2>1
<1>7. Sums(t)[Len(s) + 1] = Sums(t)[Len(s)] + e
  <2>1. PICK i \in 0..Len(t), j \in 1..Len(t) : i = Len(s) /\ j = Len(s) + 1 /\ j = i + 1
    BY <1>1
  <2>2. Sums(t)[j] = Sums(t)[i] + t[j]
    BY <1>1, <2>1, SumsStep, Zenon
  <2> QED  BY <1>1, <2>1, <2>2
<1>8. Total(t) = Sums(t)[Len(s) + 1] /\ Total(s) = Sums(s)[Len(s)]
  BY <1>1 DEF Total
<1>9. Total(t) = Total(s) + e
  BY <1>1, <1>6, <1>7, <1>8
<1> QED  BY <1>6, <1>9 DEF t

\* Sequences that add up place by place have sums that do.
LEMMA SumsAdd ==
  ASSUME NEW a \in Seq(Int), NEW b \in Seq(Int), NEW c \in Seq(Int),
         Len(b) = Len(a), Len(c) = Len(a), \A i \in 1..Len(a) : a[i] = b[i] + c[i]
  PROVE  \A i \in 0..Len(a) : Sums(a)[i] = Sums(b)[i] + Sums(c)[i]
<1> DEFINE bad == {i \in 0..Len(a) : Sums(a)[i] # Sums(b)[i] + Sums(c)[i]}
<1> SUFFICES ASSUME bad # {} PROVE FALSE
  OBVIOUS
<1>1. bad \subseteq Nat /\ Len(a) \in Nat
  OBVIOUS
<1>2. PICK i \in bad : \A j \in bad : i <= j
  BY <1>1, LeastNat
<1>3. i \in 0..Len(a) /\ i \in Nat /\ Sums(a)[i] # Sums(b)[i] + Sums(c)[i]
  BY <1>2
<1>4. i # 0
  BY <1>3, SumsUnfold
<1>5. PICK k \in 0..Len(a) : i = k + 1 /\ k \notin bad
  <2>1. i - 1 \in 0..Len(a) /\ i = (i - 1) + 1 /\ ~(i <= i - 1)
    BY <1>1, <1>3, <1>4
  <2> QED  BY <1>2, <2>1
<1>6. Sums(a)[k] = Sums(b)[k] + Sums(c)[k]
  BY <1>5
<1> HIDE DEF bad
<1>7. i \in 1..Len(a)
  BY <1>1, <1>3, <1>4
<1>8. /\ Sums(a)[i] = Sums(a)[k] + a[i] /\ Sums(a)[k] \in Int /\ a[i] \in Int
  BY <1>5, <1>7, SumsStep, Zenon
<1>9. k \in 0..Len(b) /\ i \in 1..Len(b) /\ k \in 0..Len(c) /\ i \in 1..Len(c)
  BY <1>5, <1>7
<1>10. Sums(b)[i] = Sums(b)[k] + b[i] /\ Sums(b)[k] \in Int /\ b[i] \in Int
  BY <1>5, <1>9, SumsStep, Zenon
<1>11. Sums(c)[i] = Sums(c)[k] + c[i] /\ Sums(c)[k] \in Int /\ c[i] \in Int
  BY <1>5, <1>9, SumsStep, Zenon
<1>12. a[i] = b[i] + c[i]
  BY <1>7
<1>13. PICK p \in Int, q \in Int, v \in Int, w \in Int :
         p = Sums(b)[k] /\ q = Sums(c)[k] /\ v = b[i] /\ w = c[i]
  BY <1>10, <1>11
<1>14. Sums(a)[i] = (p + q) + (v + w) /\ Sums(b)[i] = p + v /\ Sums(c)[i] = q + w
  BY <1>6, <1>8, <1>10, <1>11, <1>12, <1>13, Zenon
<1> QED  BY <1>3, <1>14

\* Sums of the same elements are the same.
LEMMA SumsPrefix ==
  ASSUME NEW s \in Seq(Int), NEW t \in Seq(Int), NEW n \in Nat,
         n <= Len(s), n <= Len(t), \A i \in 1..n : s[i] = t[i]
  PROVE  \A i \in 0..n : Sums(s)[i] = Sums(t)[i]
<1>1. PICK m \in Nat : m = 0 /\ m + n <= Len(s) /\ Agree(s, t, m, n)
  <2>1. 0 \in Nat /\ 0 + n <= Len(s) /\ Agree(s, t, 0, n)
    BY DEF Agree
  <2> QED  BY <2>1
<1>2. \A i \in 0..n : Sums(s)[m + i] = Sums(s)[m] + Sums(t)[i]
  BY <1>1, SumsShift, Zenon
<1>3. Sums(s)[0] = 0 /\ \A i \in 0..n : Sums(t)[i] \in Int
  <2>1. \A i \in 0..n : i \in 0..Len(t)
    OBVIOUS
  <2> QED  BY <2>1, SumsUnfold
<1>4. \A i \in 0..n : 0 + i = i
  OBVIOUS
<1> QED  BY <1>1, <1>2, <1>3, <1>4

\* The total is that of the first m elements and that of the others.
LEMMA TotalSplit ==
  ASSUME NEW s \in Seq(Int), NEW t \in Seq(Int), NEW m \in 0..Len(s),
         m + Len(t) = Len(s), \A i \in 1..Len(t) : s[m + i] = t[i]
  PROVE  Total(s) = Sums(s)[m] + Total(t)
<1>1. PICK n \in Nat : n = Len(t)
  OBVIOUS
<1>2. m \in Nat /\ m + n <= Len(s) /\ n <= Len(t) /\ Agree(s, t, m, n) /\ n \in 0..n
  BY <1>1 DEF Agree
<1>3. \A i \in 0..n : Sums(s)[m + i] = Sums(s)[m] + Sums(t)[i]
  BY <1>2, SumsShift, Zenon
<1>4. Sums(s)[m + n] = Sums(s)[m] + Sums(t)[n]
  BY <1>2, <1>3
<1>5. m + n = Len(s)
  BY <1>1
<1> QED  BY <1>1, <1>4, <1>5 DEF Total

\* Sums of natural numbers are natural numbers.
LEMMA SumsNat ==
  ASSUME NEW s \in Seq(Nat)
  PROVE  \A i \in 0..Len(s) : Sums(s)[i] \in Nat
<1> DEFINE bad == {i \in 0..Len(s) : Sums(s)[i] \notin Nat}
<1> SUFFICES ASSUME bad # {} PROVE FALSE
  OBVIOUS
<1>1. bad \subseteq Nat /\ Len(s) \in Nat /\ s \in Seq(Int)
  OBVIOUS
<1>2. PICK i \in bad : \A j \in bad : i <= j
  BY <1>1, LeastNat
<1>3. i \in 0..Len(s) /\ i \in Nat /\ Sums(s)[i] \notin Nat
  BY <1>2
<1>4. i # 0
  BY <1>1, <1>3, SumsUnfold
<1>5. PICK k \in 0..Len(s) : i = k + 1 /\ k \notin bad
  <2>1. i - 1 \in 0..Len(s) /\ i = (i - 1) + 1 /\ ~(i <= i - 1)
    BY <1>1, <1>3, <1>4
  <2> QED  BY <1>2, <2>1
<1>6. Sums(s)[k] \in Nat
  BY <1>5
<1> HIDE DEF bad
<1>7. i \in 1..Len(s)
  BY <1>1, <1>3, <1>4
<1>8. Sums(s)[i] = Sums(s)[k] + s[i]
  BY <1>1, <1>5, <1>7, SumsStep, Zenon
<1>9. s[i] \in Nat
  BY <1>7
<1> QED  BY <1>3, <1>6, <1>8, <1>9

\* When the first element grows by n, so does the total.
LEMMA TotalFirst ==
  ASSUME NEW s \in Seq(Int), NEW t \in Seq(Int), NEW n \in Int, Len(s) = Len(t),
         s # <<>>, t[1] = s[1] + n, \A i \in 2..Len(s) : t[i] = s[i]
  PROVE  Total(t) = Total(s) + n
<1>0. PICK m \in Nat : Len(s) = 1 + m
  <2>1. Len(s) \in Nat /\ Len(s) # 0
    OBVIOUS
  <2>2. Len(s) - 1 \in Nat /\ Len(s) = 1 + (Len(s) - 1)
    BY <2>1
  <2> QED  BY <2>2
<1>1. PICK r \in Seq(Int) : Len(r) = m /\ \A i \in 1..m : r[i] = s[i + 1]
  <2>1. \A i \in 1..m : i + 1 \in 1..Len(s)
    BY <1>0
  <2>2. \A i \in 1..m : s[i + 1] \in Int
    BY <2>1
  <2> DEFINE r == [i \in 1..m |-> s[i + 1]]
  <2>3. r \in Seq(Int) /\ Len(r) = m
    BY <2>2
  <2> QED  BY <2>3
<1>2. /\ 1 \in 1..Len(s) /\ 1 \in 0..Len(s) /\ 0 \in 0..Len(s) /\ 1 = 0 + 1
      /\ 1 + Len(r) = Len(s)
  BY <1>0, <1>1
<1>3. \A i \in 1..Len(r) : s[1 + i] = r[i] /\ t[1 + i] = r[i]
  <2> SUFFICES ASSUME NEW i \in 1..Len(r) PROVE s[1 + i] = r[i] /\ t[1 + i] = r[i]
    OBVIOUS
  <2>1. r[i] = s[i + 1]
    BY <1>1
  <2>2. i + 1 = 1 + i /\ 1 + i \in 2..Len(s)
    BY <1>2
  <2> QED  BY <2>1, <2>2
<1>4. PICK k \in 0..Len(s) : k = 1
  BY <1>2
<1>5. Total(s) = Sums(s)[k] + Total(r) /\ Total(t) = Sums(t)[k] + Total(r)
  BY <1>2, <1>3, <1>4, TotalSplit, ZenonT(40)
<1>6. Sums(s)[1] = Sums(s)[0] + s[1] /\ Sums(t)[1] = Sums(t)[0] + t[1]
  BY <1>2, SumsStep
<1>7. Sums(s)[0] = 0 /\ Sums(t)[0] = 0 /\ Total(r) \in Int
  BY SumsUnfold
<1>8. s[1] \in Int
  BY <1>2
<1> QED  BY <1>4, <1>5, <1>6, <1>7, <1>8

\* r is s without its element at place k.
Removed(s, r, k) ==
  /\ Len(s) = Len(r) + 1
  /\ \A i \in 1..(k - 1) : r[i] = s[i]
  /\ \A i \in k..Len(r) : r[i] = s[i + 1]

\* What is removed is missing from the total.
LEMMA TotalRemoved ==
  ASSUME NEW s \in Seq(Int), NEW r \in Seq(Int), NEW k \in 1..Len(s), Removed(s, r, k)
  PROVE  Total(s) = Total(r) + s[k]
<1>1. PICK j \in 0..Len(r) : k = j + 1
  <2>1. k - 1 \in 0..Len(r) /\ k = (k - 1) + 1
    BY DEF Removed
  <2> QED  BY <2>1
<1>2. PICK n \in Nat : k + n = Len(s)
  <2>1. Len(s) - k \in Nat /\ k + (Len(s) - k) = Len(s)
    OBVIOUS
  <2> QED  BY <2>1
<1>3. PICK u \in Seq(Int) : Len(u) = n /\ \A i \in 1..n : u[i] = s[k + i]
  <2>1. \A i \in 1..n : k + i \in 1..Len(s)
    BY <1>2
  <2>2. \A i \in 1..n : s[k + i] \in Int
    <3>1. \A i \in 1..Len(s) : s[i] \in Int
      OBVIOUS
    <3> QED  BY <2>1, <3>1, Zenon
  <2> DEFINE u == [i \in 1..n |-> s[k + i]]
  <2>3. u \in Seq(Int) /\ Len(u) = n
    BY <2>2
  <2> QED  BY <2>3
<1>4. \A i \in 1..Len(u) : r[j + i] = u[i]
  <2> SUFFICES ASSUME NEW i \in 1..Len(u) PROVE r[j + i] = u[i]
    OBVIOUS
  <2>1. j + i \in k..Len(r) /\ (j + i) + 1 = k + i
    BY <1>1, <1>2, <1>3 DEF Removed
  <2>2. r[j + i] = s[(j + i) + 1]
    BY <2>1 DEF Removed
  <2> QED  BY <1>3, <2>1, <2>2
<1>5. /\ j + Len(u) = Len(r) /\ k + Len(u) = Len(s) /\ k \in 0..Len(s)
      /\ j \in Nat /\ j <= Len(s) /\ j <= Len(r) /\ j \in 0..Len(s) /\ j \in 0..j
  BY <1>1, <1>2, <1>3 DEF Removed
<1>6. Total(r) = Sums(r)[j] + Total(u) /\ Total(s) = Sums(s)[k] + Total(u)
  BY <1>3, <1>4, <1>5, TotalSplit
<1>7. Sums(r)[j] = Sums(s)[j]
  <2>1. \A i \in 1..j : r[i] = s[i]
    BY <1>1 DEF Removed
  <2> QED  BY <1>5, <2>1, SumsPrefix
<1>8. Sums(s)[k] = Sums(s)[j] + s[k] /\ Sums(s)[j] \in Int /\ s[k] \in Int
  BY <1>1, <1>5, SumsStep
<1>9. Total(u) \in Int
  BY SumsUnfold
<1> QED  BY <1>6, <1>7, <1>8, <1>9

-----------------------------------------------------------------------------
(* Selections *)

\* f holds the selections from the first i elements of s, up to n.
IsSelected(f, s, K, n) ==
  f = [i \in 0..n |-> IF i = 0 THEN <<>>
                      ELSE IF i \in K THEN Append(f[i - 1], s[i]) ELSE f[i - 1]]

\* ... which says this of every place.
Selects(f, s, K, n) ==
  /\ f[0] = <<>>
  /\ \A i \in 1..n : f[i] = IF i \in K THEN Append(f[i - 1], s[i]) ELSE f[i - 1]

\* The two forms of the definition.
LEMMA SelectionsUnfold ==
  ASSUME NEW f, NEW s, NEW K, NEW n \in Nat, IsSelected(f, s, K, n)
  PROVE  Selects(f, s, K, n)
<1>1. 0 \in 0..n /\ \A i \in 1..n : i \in 0..n /\ i # 0
  OBVIOUS
<1>2. \A i \in 0..n : f[i] = IF i = 0 THEN <<>>
                             ELSE IF i \in K THEN Append(f[i - 1], s[i]) ELSE f[i - 1]
  BY Zenon DEF IsSelected
<1> QED  BY <1>1, <1>2, Zenon DEF Selects

\* The recursive definition of a selection has a solution.
LEMMA SelectionsExist ==
  ASSUME NEW s, NEW K
  PROVE  \A n \in Nat : \E f : IsSelected(f, s, K, n)
<1> DEFINE bad == {n \in Nat : ~\E f : IsSelected(f, s, K, n)}
<1> SUFFICES ASSUME bad # {} PROVE FALSE
  OBVIOUS
<1>1. bad \subseteq Nat
  OBVIOUS
<1>2. PICK n \in bad : \A m \in bad : n <= m
  BY <1>1, LeastNat
<1>3. n \in Nat /\ ~\E f : IsSelected(f, s, K, n)
  BY <1>2
<1>4. n # 0
  <2> SUFFICES ASSUME n = 0 PROVE FALSE
    OBVIOUS
  <2> DEFINE f == [i \in 0..n |-> <<>>]
  <2>1. \A i \in 0..n : i = 0
    OBVIOUS
  <2>2. IsSelected(f, s, K, n)
    BY <2>1 DEF IsSelected
  <2> QED  BY <1>3, <2>2
<1>5. PICK k \in Nat : n = k + 1
  <2>1. n - 1 \in Nat /\ n = (n - 1) + 1
    BY <1>3, <1>4
  <2> QED  BY <2>1
<1>6. k \notin bad
  BY <1>2, <1>3, <1>5
<1>7. PICK f : IsSelected(f, s, K, k)
  BY <1>6
<1> DEFINE last == IF n \in K THEN Append(f[k], s[n]) ELSE f[k]
           g == [i \in 0..n |-> IF i = n THEN last ELSE f[i]]
<1>8. Selects(f, s, K, k)
  BY <1>7, SelectionsUnfold, Zenon
<1> HIDE DEF last
<1>9. g[0] = <<>>
  <2>1. 0 \in 0..n /\ 0 # n
    BY <1>3, <1>5
  <2> QED  BY <1>8, <2>1 DEF Selects
<1>10. \A i \in 1..n : g[i] = IF i \in K THEN Append(g[i - 1], s[i]) ELSE g[i - 1]
  <2> SUFFICES ASSUME NEW i \in 1..n
               PROVE  g[i] = IF i \in K THEN Append(g[i - 1], s[i]) ELSE g[i - 1]
    OBVIOUS
  <2>1. CASE i = n
    <3>1. g[i] = last /\ g[k] = f[k] /\ i - 1 = k
      BY <1>3, <1>5, <2>1
    <3> QED  BY <3>1, <2>1 DEF last
  <2>2. CASE i # n
    <3>1. i \in 1..k /\ i - 1 \in 0..n /\ i - 1 # n /\ i \in 0..n
      BY <1>3, <1>5, <2>2
    <3>2. g[i] = f[i] /\ g[i - 1] = f[i - 1]
      BY <2>2, <3>1
    <3> QED  BY <1>8, <3>1, <3>2 DEF Selects
  <2> QED  BY <2>1, <2>2
<1>11. IsSelected(g, s, K, n)
  <2>1. g = [i \in 0..n |-> g[i]]
    OBVIOUS
  <2> HIDE DEF g
  <2>2. \A i \in 0..n : g[i] = IF i = 0 THEN <<>>
                               ELSE IF i \in K THEN Append(g[i - 1], s[i]) ELSE g[i - 1]
    <3>1. \A i \in 0..n : i = 0 \/ i \in 1..n
      BY <1>3
    <3> QED  BY <1>9, <1>10, <3>1
  <2> QED  BY <2>1, <2>2 DEF IsSelected
<1> QED  BY <1>3, <1>11

\* r are elements of s, at places of K up to n, in their order.
TakenFrom(r, s, K, n, T) ==
  /\ r \in Seq(T)
  /\ \E g \in [1..Len(r) -> 1..n] :
       /\ \A j \in 1..Len(r) : g[j] \in K /\ r[j] = s[g[j]]
       /\ \A j, k \in 1..Len(r) : j < k => g[j] < g[k]

\* Taking nothing, one more element, or one place more.
LEMMA TakenMore ==
  ASSUME NEW T, NEW s \in Seq(T), NEW K, NEW r, NEW n \in Nat, NEW m \in 1..Len(s), m = n + 1,
         TakenFrom(r, s, K, n, T)
  PROVE  /\ TakenFrom(r, s, K, m, T)
         /\ m \in K => TakenFrom(Append(r, s[m]), s, K, m, T)
<1>1. PICK g \in [1..Len(r) -> 1..n] :
        /\ \A j \in 1..Len(r) : g[j] \in K /\ r[j] = s[g[j]]
        /\ \A j, k \in 1..Len(r) : j < k => g[j] < g[k]
  BY DEF TakenFrom
<1>2. r \in Seq(T) /\ Len(r) \in Nat /\ s[m] \in T
  BY DEF TakenFrom
<1>3. TakenFrom(r, s, K, m, T)
  <2>1. g \in [1..Len(r) -> 1..m]
    BY <1>1, <1>2
  <2> QED  BY <1>1, <1>2, <2>1 DEF TakenFrom
<1>4. ASSUME m \in K PROVE TakenFrom(Append(r, s[m]), s, K, m, T)
  <2> DEFINE q == Append(r, s[m])
             h == [j \in 1..(Len(r) + 1) |-> IF j = Len(r) + 1 THEN m ELSE g[j]]
  <2>1. /\ q \in Seq(T) /\ Len(q) = Len(r) + 1 /\ q[Len(r) + 1] = s[m]
        /\ \A j \in 1..Len(r) : q[j] = r[j]
    BY <1>2
  <2>2. \A j \in 1..Len(r) : h[j] = g[j] /\ g[j] \in 1..n
    <3>1. \A j \in 1..Len(r) : j \in 1..(Len(r) + 1) /\ j # Len(r) + 1
      BY <1>2
    <3> QED  BY <1>1, <3>1, Zenon
  <2>3. h[Len(r) + 1] = m
    BY <1>2
  <2>4. \A j \in 1..(Len(r) + 1) : j = Len(r) + 1 \/ j \in 1..Len(r)
    BY <1>2
  <2>5. h \in [1..Len(q) -> 1..m]
    <3>1. \A j \in 1..(Len(r) + 1) : h[j] \in 1..m
      BY <2>2, <2>3, <2>4
    <3> QED  BY <2>1, <3>1
  <2> HIDE DEF q, h
  <2>6. \A j \in 1..Len(q) : h[j] \in K /\ q[j] = s[h[j]]
    BY <1>1, <1>4, <2>1, <2>2, <2>3, <2>4
  <2>7. \A j, k \in 1..Len(q) : j < k => h[j] < h[k]
    <3> SUFFICES ASSUME NEW j \in 1..Len(q), NEW k \in 1..Len(q), j < k PROVE h[j] < h[k]
      OBVIOUS
    <3>1. j \in 1..Len(r)
      BY <1>2, <2>1
    <3>2. CASE k = Len(r) + 1
      BY <2>2, <2>3, <3>1, <3>2
    <3>3. CASE k \in 1..Len(r)
      BY <1>1, <2>2, <3>1, <3>3
    <3> QED  BY <2>1, <2>4, <3>2, <3>3
  <2>8. TakenFrom(q, s, K, m, T)
    BY <2>1, <2>5, <2>6, <2>7 DEF TakenFrom
  <2> QED  BY <2>8 DEF q
<1> QED  BY <1>3, <1>4

\* A selection has the chosen elements in their order.
LEMMA SelectedTaken ==
  ASSUME NEW T, NEW s \in Seq(T), NEW K
  PROVE  TakenFrom(Selected(s, K), s, K, Len(s), T)
<1> DEFINE n == Len(s)
<1>1. n \in Nat
  OBVIOUS
<1> DEFINE f == CHOOSE g : IsSelected(g, s, K, n)
<1>2. Selected(s, K) = f[n]
  BY DEF Selected, IsSelected
<1>3. IsSelected(f, s, K, n)
  BY <1>1, SelectionsExist
<1> HIDE DEF f, n
<1>4. Selects(f, s, K, n)
  BY <1>1, <1>3, SelectionsUnfold, Zenon
<1>5. TakenFrom(f[0], s, K, 0, T)
  <2>1. <<>> \in Seq(T) /\ Len(<<>>) = 0 /\ <<>> \in [1..0 -> 1..0]
    OBVIOUS
  <2>2. \A j \in 1..0 : FALSE
    OBVIOUS
  <2> QED  BY <1>4, <2>1, <2>2, Zenon DEF TakenFrom, Selects
<1> DEFINE bad == {i \in 0..n : ~TakenFrom(f[i], s, K, i, T)}
<1>6. bad = {}
  <2> SUFFICES ASSUME bad # {} PROVE FALSE
    OBVIOUS
  <2>1. bad \subseteq Nat
    BY <1>1
  <2>2. PICK i \in bad : \A j \in bad : i <= j
    BY <2>1, LeastNat
  <2>3. i \in 0..n /\ ~TakenFrom(f[i], s, K, i, T)
    BY <2>2
  <2>4. i # 0
    BY <1>5, <2>3
  <2>5. PICK k \in Nat : k \in 0..n /\ i = k + 1 /\ k \notin bad /\ i \in 1..n /\ i - 1 = k
    <3>1. i - 1 \in 0..n /\ i = (i - 1) + 1 /\ ~(i <= i - 1) /\ i \in 1..n /\ i - 1 \in Nat
      BY <1>1, <2>3, <2>4
    <3> QED  BY <2>2, <3>1
  <2>6. TakenFrom(f[k], s, K, k, T)
    BY <2>5
  <2>7. i \in 1..Len(s)
    BY <2>5 DEF n
  <2>8. f[i] = IF i \in K THEN Append(f[k], s[i]) ELSE f[k]
    BY <1>4, <2>5 DEF Selects
  <2>9. /\ TakenFrom(f[k], s, K, i, T)
        /\ i \in K => TakenFrom(Append(f[k], s[i]), s, K, i, T)
    <3> HIDE DEF bad
    <3> QED  BY <2>5, <2>6, <2>7, TakenMore, Zenon
  <2>10. TakenFrom(f[i], s, K, i, T)
    BY <2>8, <2>9, Zenon
  <2> QED  BY <2>3, <2>10
<1>7. n \in 0..n
  BY <1>1
<1> QED  BY <1>2, <1>6, <1>7 DEF n

-----------------------------------------------------------------------------
(* SumOver takes the elements of a set in an order that is not known. The sum *)
(* over a finite set exists and does not depend on it, by the argument about  *)
(* a smallest counterexample.                                                 *)
One(s) == CHOOSE x \in s : TRUE

Small(S, n) == {s \in SUBSET S : Cardinality(s) <= n}

IsSum(h, b, S, n) ==
    h = [s \in Small(S, n) |-> IF s = {} THEN 0 ELSE b[One(s)] + h[s \ {One(s)}]]

\* One may argue about a smallest counterexample among the subsets of S.
LEMMA LeastSet ==
  ASSUME NEW S, IsFiniteSet(S), NEW bad, bad \subseteq SUBSET S, bad # {}
  PROVE  \E s \in bad : \A t \in bad : Cardinality(s) <= Cardinality(t)
<1> DEFINE sizes == {Cardinality(s) : s \in bad}
<1>1. \A s \in bad : Cardinality(s) \in Nat
  BY FS_Subset, FS_CardinalityType
<1>2. sizes \subseteq Nat /\ sizes # {}
  BY <1>1
<1> HIDE DEF sizes
<1>3. PICK n \in sizes : \A m \in sizes : n <= m
  BY <1>2, LeastNat
<1> QED  BY <1>3 DEF sizes

\* A set without one of its members is smaller.
LEMMA Smaller ==
  ASSUME NEW S, IsFiniteSet(S), NEW s \in SUBSET S
  PROVE  /\ IsFiniteSet(s) /\ Cardinality(s) \in Nat
         /\ s # {} => One(s) \in s
         /\ \A x \in s : /\ s \ {x} \in SUBSET S
                         /\ Cardinality(s \ {x}) = Cardinality(s) - 1
         /\ Cardinality(s) = 0 => s = {}
<1>1. IsFiniteSet(s)
  BY FS_Subset
<1>2. Cardinality(s) \in Nat
  BY <1>1, FS_CardinalityType
<1>3. s # {} => One(s) \in s
  BY DEF One
<1>4. \A x \in s : Cardinality(s \ {x}) = Cardinality(s) - 1
  BY <1>1, FS_RemoveElement
<1>5. Cardinality(s) = 0 => s = {}
  BY <1>1, FS_EmptySet
<1> QED  BY <1>1, <1>2, <1>3, <1>4, <1>5

\* Sums exist, of sets of any size.
LEMMA SumExists ==
  ASSUME NEW S, IsFiniteSet(S), NEW b
  PROVE  \A n \in Nat : \E h : IsSum(h, b, S, n)
<1> DEFINE bad == {n \in Nat : ~\E h : IsSum(h, b, S, n)}
<1> SUFFICES ASSUME bad # {} PROVE FALSE
  OBVIOUS
<1>1. bad \subseteq Nat
  OBVIOUS
<1>2. PICK n \in bad : \A m \in bad : n <= m
  BY <1>1, LeastNat
<1>3. n \in Nat /\ ~\E h : IsSum(h, b, S, n)
  BY <1>2
<1>4. CASE n = 0
  <2> DEFINE h == [s \in Small(S, n) |-> 0]
  <2>1. \A s \in Small(S, n) : s = {}
    <3> SUFFICES ASSUME NEW s \in Small(S, n) PROVE s = {}
    OBVIOUS
    <3>1. s \in SUBSET S /\ Cardinality(s) <= 0
    BY <1>4 DEF Small
    <3> QED  BY <3>1, Smaller
  <2>2. h = [s \in Small(S, n) |-> IF s = {} THEN 0 ELSE b[One(s)] + h[s \ {One(s)}]]
    BY <2>1
  <2> QED  BY <1>3, <2>2 DEF IsSum
<1>5. CASE n # 0
  <2>1. n - 1 \in Nat /\ ~(n <= n - 1)
    BY <1>3, <1>5
  <2>2. PICK h : IsSum(h, b, S, n - 1)
    BY <1>2, <2>1
  <2> DEFINE g == [s \in Small(S, n) |-> IF s = {} THEN 0 ELSE b[One(s)] + h[s \ {One(s)}]]
  <2>3. ASSUME NEW s \in Small(S, n), s # {} PROVE h[s \ {One(s)}] = g[s \ {One(s)}]
    <3> DEFINE t == s \ {One(s)}
    <3>1. s \in SUBSET S /\ Cardinality(s) <= n
    BY DEF Small
    <3>2. One(s) \in s /\ t \in SUBSET S /\ Cardinality(t) = Cardinality(s) - 1
        /\ Cardinality(s) \in Nat
    BY <2>3, <3>1, Smaller
    <3>3. t \in Small(S, n - 1) /\ t \in Small(S, n)
    BY <1>3, <3>1, <3>2 DEF Small
    <3> HIDE DEF t
    <3>4. h[t] = IF t = {} THEN 0 ELSE b[One(t)] + h[t \ {One(t)}]
    BY <2>2, <3>3 DEF IsSum
    <3>5. g[t] = IF t = {} THEN 0 ELSE b[One(t)] + h[t \ {One(t)}]
    BY <3>3
    <3>6. h[t] = g[t]
    BY <3>4, <3>5
    <3> QED  BY <3>6 DEF t
  <2>4. g = [s \in Small(S, n) |-> IF s = {} THEN 0 ELSE b[One(s)] + g[s \ {One(s)}]]
    BY <2>3
  <2> HIDE DEF g
  <2> QED  BY <1>3, <2>4 DEF IsSum
<1> QED  BY <1>4, <1>5

SetSums(h, b, S) ==
    /\ \A s \in SUBSET S : h[s] \in Int
    /\ h[{}] = 0
    /\ \A s \in SUBSET S : \A x \in s : h[s] = b[x] + h[s \ {x}]

\* In which order a sum is taken makes no difference.
LEMMA SumOrder ==
  ASSUME NEW S, IsFiniteSet(S), NEW b \in [S -> Int], NEW h,
         h = [s \in SUBSET S |-> IF s = {} THEN 0 ELSE b[One(s)] + h[s \ {One(s)}]]
  PROVE  SetSums(h, b, S)
<1>0. \A s \in SUBSET S : s # {} => h[s] = b[One(s)] + h[s \ {One(s)}]
  OBVIOUS
<1>1. h[{}] = 0
  OBVIOUS
<1>2. \A s \in SUBSET S : h[s] \in Int
  <2> DEFINE bad == {s \in SUBSET S : h[s] \notin Int}
  <2> SUFFICES ASSUME bad # {} PROVE FALSE
    OBVIOUS
  <2>1. bad \subseteq SUBSET S
    OBVIOUS
  <2>2. PICK s \in bad : \A t \in bad : Cardinality(s) <= Cardinality(t)
    BY <2>1, LeastSet
  <2>3. s \in SUBSET S /\ h[s] \notin Int /\ s # {}
    BY <1>1, <2>2
  <2> DEFINE t == s \ {One(s)}
  <2>4. /\ One(s) \in s /\ t \in SUBSET S /\ Cardinality(t) = Cardinality(s) - 1
      /\ Cardinality(s) \in Nat
    BY <2>3, Smaller
  <2>5. h[t] \in Int
    <3>1. ~(Cardinality(s) <= Cardinality(t))
    BY <2>4
    <3>2. t \notin bad
    BY <2>2, <3>1, Zenon
    <3> QED  BY <2>4, <3>2
  <2>6. b[One(s)] \in Int
    BY <2>3, <2>4
  <2>7. h[s] = b[One(s)] + h[t]
    BY <1>0, <2>3
  <2> QED  BY <2>3, <2>5, <2>6, <2>7
<1>3. \A s \in SUBSET S : \A x \in s : h[s] = b[x] + h[s \ {x}]
  <2> DEFINE bad == {s \in SUBSET S : ~\A x \in s : h[s] = b[x] + h[s \ {x}]}
  <2> SUFFICES ASSUME bad # {} PROVE FALSE
    OBVIOUS
  <2>1. bad \subseteq SUBSET S
    OBVIOUS
  <2>2. PICK s \in bad : \A t \in bad : Cardinality(s) <= Cardinality(t)
    BY <2>1, LeastSet
  <2>3. s \in SUBSET S
    BY <2>2
  <2>4. PICK x \in s : h[s] # b[x] + h[s \ {x}]
    BY <2>2
  <2> DEFINE y == One(s)
           u == s \ {x, y}
  <2>5. /\ y \in s /\ Cardinality(s) \in Nat
      /\ s \ {x} \in SUBSET S /\ Cardinality(s \ {x}) = Cardinality(s) - 1
      /\ s \ {y} \in SUBSET S /\ Cardinality(s \ {y}) = Cardinality(s) - 1
    BY <2>3, <2>4, Smaller
  <2>6. h[s] = b[y] + h[s \ {y}]
    BY <1>0, <2>3, <2>4
  <2> HIDE DEF y
  <2>7. x # y
    BY <2>4, <2>6
  <2>8. ~(Cardinality(s) <= Cardinality(s) - 1)
    BY <2>5
  <2>9. \A z \in s \ {x} : h[s \ {x}] = b[z] + h[(s \ {x}) \ {z}]
    BY <2>2, <2>5, <2>8, ZenonT(40)
  <2>10. \A z \in s \ {y} : h[s \ {y}] = b[z] + h[(s \ {y}) \ {z}]
    BY <2>2, <2>5, <2>8, ZenonT(40)
  <2>11. (s \ {x}) \ {y} = u /\ (s \ {y}) \ {x} = u
    OBVIOUS
  <2>12. h[s \ {x}] = b[y] + h[u] /\ h[s \ {y}] = b[x] + h[u]
    BY <2>4, <2>5, <2>7, <2>9, <2>10, <2>11
  <2>13. b[x] \in Int /\ b[y] \in Int /\ u \in SUBSET S
    BY <2>3, <2>4, <2>5
  <2> HIDE DEF u
  <2>14. h[u] \in Int
    BY <1>2, <2>13
  <2> QED  BY <2>4, <2>6, <2>12, <2>13, <2>14
<1> QED  BY <1>1, <1>2, <1>3 DEF SetSums

\* SumOver is such a sum.
LEMMA SumOverSums ==
  ASSUME NEW S, IsFiniteSet(S), NEW b \in [S -> Int]
  PROVE  \E h : SetSums(h, b, S) /\ SumOver(b, S) = h[S]
<1> DEFINE f == CHOOSE h : h = [s \in SUBSET S |->
                                 IF s = {} THEN 0 ELSE b[One(s)] + h[s \ {One(s)}]]
<1>1. SumOver(b, S) = f[S]
  BY DEF SumOver, MapThenSumSet, MapThenFoldSet, One
<1>2. Cardinality(S) \in Nat /\ Small(S, Cardinality(S)) = SUBSET S
  <2>1. Cardinality(S) \in Nat
    BY FS_CardinalityType
  <2>2. \A s \in SUBSET S : Cardinality(s) <= Cardinality(S)
    BY FS_Subset
  <2> QED  BY <2>1, <2>2 DEF Small
<1>3. \E h : h = [s \in SUBSET S |-> IF s = {} THEN 0 ELSE b[One(s)] + h[s \ {One(s)}]]
  <2>1. PICK h : IsSum(h, b, S, Cardinality(S))
    BY <1>2, SumExists
  <2> QED  BY <1>2, <2>1 DEF IsSum
<1>4. f = [s \in SUBSET S |-> IF s = {} THEN 0 ELSE b[One(s)] + f[s \ {One(s)}]]
  BY <1>3
<1> HIDE DEF f
<1>5. SetSums(f, b, S)
  BY <1>4, SumOrder
<1> QED  BY <1>1, <1>5

\* When b grows by n at one place, so does the sum.
LEMMA SumChanges ==
  ASSUME NEW S, IsFiniteSet(S), NEW b \in [S -> Int], NEW c \in [S -> Int], NEW a \in S,
         NEW n \in Int, c[a] = b[a] + n, \A x \in S \ {a} : c[x] = b[x]
  PROVE  SumOver(b, S) \in Int /\ SumOver(c, S) = SumOver(b, S) + n
<1>1. PICK h : SetSums(h, b, S) /\ SumOver(b, S) = h[S]
  BY SumOverSums
<1>2. PICK k : SetSums(k, c, S) /\ SumOver(c, S) = k[S]
  BY SumOverSums
<1>3. \A s \in SUBSET S : a \notin s => h[s] = k[s]
  <2> DEFINE bad == {s \in SUBSET S : a \notin s /\ h[s] # k[s]}
  <2> SUFFICES ASSUME bad # {} PROVE FALSE
    OBVIOUS
  <2>1. bad \subseteq SUBSET S
    OBVIOUS
  <2>2. PICK s \in bad : \A t \in bad : Cardinality(s) <= Cardinality(t)
    BY <2>1, LeastSet
  <2>3. s \in SUBSET S /\ a \notin s /\ h[s] # k[s]
    BY <2>2
  <2>4. s # {}
    BY <1>1, <1>2, <2>3 DEF SetSums
  <2>5. PICK x \in s : TRUE
    BY <2>4
  <2>6. /\ s \ {x} \in SUBSET S /\ Cardinality(s \ {x}) = Cardinality(s) - 1
      /\ Cardinality(s) \in Nat
    BY <2>3, <2>5, Smaller
  <2>7. h[s \ {x}] = k[s \ {x}]
    BY <2>2, <2>3, <2>6
  <2>8. h[s] = b[x] + h[s \ {x}] /\ k[s] = c[x] + k[s \ {x}]
    BY <1>1, <1>2, <2>3, <2>5 DEF SetSums
  <2>9. b[x] = c[x]
    BY <2>3, <2>5
  <2> QED  BY <2>3, <2>7, <2>8, <2>9
<1>4. h[S] = b[a] + h[S \ {a}] /\ k[S] = c[a] + k[S \ {a}]
  BY <1>1, <1>2 DEF SetSums
<1>5. h[S \ {a}] = k[S \ {a}] /\ h[S \ {a}] \in Int /\ h[S] \in Int
  BY <1>1, <1>3 DEF SetSums
<1>6. c[a] = b[a] + n /\ b[a] \in Int
  OBVIOUS
<1> QED  BY <1>1, <1>2, <1>4, <1>5, <1>6

\* A sum of natural numbers is no less than any of them.
LEMMA SumBounds ==
  ASSUME NEW S, IsFiniteSet(S), NEW b \in [S -> Nat]
  PROVE  SumOver(b, S) \in Nat /\ \A x \in S : b[x] <= SumOver(b, S)
<1>0. b \in [S -> Int]
  OBVIOUS
<1>1. PICK h : SetSums(h, b, S) /\ SumOver(b, S) = h[S]
  BY <1>0, SumOverSums
<1>2. \A s \in SUBSET S : h[s] \in Nat
  <2> DEFINE bad == {s \in SUBSET S : h[s] \notin Nat}
  <2> SUFFICES ASSUME bad # {} PROVE FALSE
    OBVIOUS
  <2>1. bad \subseteq SUBSET S
    OBVIOUS
  <2>2. PICK s \in bad : \A t \in bad : Cardinality(s) <= Cardinality(t)
    BY <2>1, LeastSet
  <2>3. s \in SUBSET S /\ h[s] \notin Nat
    BY <2>2
  <2>4. s # {}
    <3>1. h[{}] = 0 /\ 0 \in Nat
      BY <1>1 DEF SetSums
    <3> QED  BY <2>3, <3>1
  <2>5. PICK x \in s : TRUE
    BY <2>4
  <2>6. /\ s \ {x} \in SUBSET S /\ Cardinality(s \ {x}) = Cardinality(s) - 1
        /\ Cardinality(s) \in Nat
    BY <2>3, <2>5, Smaller
  <2>7. h[s \ {x}] \in Nat
    BY <2>2, <2>3, <2>6
  <2>8. h[s] = b[x] + h[s \ {x}] /\ b[x] \in Nat
    BY <1>1, <2>3, <2>5 DEF SetSums
  <2> QED  BY <2>3, <2>7, <2>8
<1>3. ASSUME NEW x \in S PROVE b[x] <= h[S]
  <2>1. S \in SUBSET S /\ S \ {x} \in SUBSET S
    OBVIOUS
  <2>2. h[S] = b[x] + h[S \ {x}]
    BY <1>1, <2>1 DEF SetSums
  <2>3. h[S \ {x}] \in Nat /\ b[x] \in Nat
    BY <1>2, <2>1
  <2> QED  BY <2>2, <2>3
<1> QED  BY <1>1, <1>2, <1>3

\* Zeros add up to zero.
LEMMA SumZero ==
  ASSUME NEW S, IsFiniteSet(S), NEW b \in [S -> Int], \A x \in S : b[x] = 0
  PROVE  SumOver(b, S) = 0
<1>1. PICK h : SetSums(h, b, S) /\ SumOver(b, S) = h[S]
  BY SumOverSums
<1>2. \A s \in SUBSET S : h[s] = 0
  <2> DEFINE bad == {s \in SUBSET S : h[s] # 0}
  <2> SUFFICES ASSUME bad # {} PROVE FALSE
    OBVIOUS
  <2>1. bad \subseteq SUBSET S
    OBVIOUS
  <2>2. PICK s \in bad : \A t \in bad : Cardinality(s) <= Cardinality(t)
    BY <2>1, LeastSet
  <2>3. s \in SUBSET S /\ h[s] # 0
    BY <2>2
  <2>4. s # {}
    BY <1>1, <2>3 DEF SetSums
  <2>5. PICK x \in s : TRUE
    BY <2>4
  <2>6. /\ s \ {x} \in SUBSET S /\ Cardinality(s \ {x}) = Cardinality(s) - 1
        /\ Cardinality(s) \in Nat
    BY <2>3, <2>5, Smaller
  <2>7. h[s \ {x}] = 0
    BY <2>2, <2>3, <2>6
  <2>8. h[s] = b[x] + h[s \ {x}] /\ b[x] = 0
    BY <1>1, <2>3, <2>5 DEF SetSums
  <2> QED  BY <2>3, <2>7, <2>8
<1> QED  BY <1>1, <1>2

\* Numbers up to n have a greatest one.
LEMMA MaxExists ==
  ASSUME NEW n \in Nat, NEW T, T \subseteq 0..n, T # {}
  PROVE  Max(T) \in T /\ \A x \in T : x <= Max(T)
<1> DEFINE U == {n - x : x \in T}
<1>0. \A x \in T : x \in Int /\ n - x \in Nat
  OBVIOUS
<1>1. U \subseteq Nat /\ U # {}
  BY <1>0
<1>2. PICK u \in U : \A v \in U : u <= v
  BY <1>1, LeastNat
<1>3. PICK m \in T : u = n - m
  BY <1>2
<1>4. \A x \in T : m >= x
  <2> SUFFICES ASSUME NEW x \in T PROVE m >= x
    OBVIOUS
  <2>1. n - x \in U
    OBVIOUS
  <2>2. n - m <= n - x
    BY <1>2, <1>3, <2>1
  <2>3. x \in Int /\ m \in Int
    OBVIOUS
  <2> QED  BY <2>2, <2>3
<1>5. Max(T) \in T /\ \A x \in T : Max(T) >= x
  BY <1>4 DEF Max
<1>6. PICK k \in T : k = Max(T)
  BY <1>5
<1>7. \A x \in T : x <= k
  BY <1>0, <1>5, <1>6
<1> QED  BY <1>6, <1>7
=============================================================================
