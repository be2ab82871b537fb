-------------------------- MODULE ArgumentsProofs ---------------------------
(***************************************************************************)
(* Proofs about Arguments: the validation of an entry argument is exact    *)
(* for every type and value the Move VM can nest.                          *)
(***************************************************************************)
EXTENDS Arguments, SeqOpsProofs, SequenceTheorems

-----------------------------------------------------------------------------
(***************************************************************************)
(* What is inside a value, and inside a type.                              *)
(***************************************************************************)

\* f holds what is at most i levels inside x, for i up to n.
IsDown(f, x, n) ==
  f = [i \in 0..n |-> IF i = 0 THEN {x} ELSE UNION {{y} \cup Parts(y) : y \in f[i - 1]}]

\* The recursive definition of the levels has a solution: each first few have.
LEMMA DownExists ==
  ASSUME NEW x
  PROVE  \A n \in Nat : \E f : IsDown(f, x, n)
<1> DEFINE bad == {n \in Nat : ~\E f : IsDown(f, x, n)}
           step(S) == UNION {{y} \cup Parts(y) : y \in S}
<1> SUFFICES ASSUME bad # {} PROVE FALSE
  OBVIOUS
<1>1. bad \subseteq Nat
  OBVIOUS
<1>2. PICK n \in bad : \A m \in bad : n <= m
  BY <1>1, LeastNat
<1>3. n \in Nat /\ ~\E f : IsDown(f, x, n)
  BY <1>2
<1> HIDE DEF step
<1>4. n # 0
  <2> SUFFICES ASSUME n = 0 PROVE FALSE
    OBVIOUS
  <2> DEFINE f == [i \in 0..n |-> {x}]
  <2>1. \A i \in 0..n : i = 0
    OBVIOUS
  <2>2. f = [i \in 0..n |-> IF i = 0 THEN {x} ELSE step(f[i - 1])]
    BY <2>1
  <2>3. IsDown(f, x, n)
    BY <2>2 DEF IsDown, step
  <2> QED  BY <1>3, <2>3
<1>5. PICK k \in Nat : n = k + 1
  <2>1. n - 1 \in Nat /\ n = (n - 1) + 1
    BY <1>3, <1>4
  <2> QED  BY <2>1
<1>6. k \notin bad
  BY <1>2, <1>3, <1>5
<1>7. PICK f : IsDown(f, x, k)
  BY <1>6
<1> HIDE DEF bad
<1> DEFINE g == [i \in 0..n |-> IF i = n THEN step(f[k]) ELSE f[i]]
<1>8. \A i \in 0..k : f[i] = IF i = 0 THEN {x} ELSE step(f[i - 1])
  <2>1. f = [i \in 0..k |-> IF i = 0 THEN {x} ELSE step(f[i - 1])]
    BY <1>7 DEF IsDown, step
  <2> QED  BY <2>1
<1>9. \A i \in 0..n : g[i] = IF i = 0 THEN {x} ELSE step(g[i - 1])
  <2> SUFFICES ASSUME NEW i \in 0..n PROVE g[i] = IF i = 0 THEN {x} ELSE step(g[i - 1])
    OBVIOUS
  <2>1. CASE i = n
    <3>1. g[i] = step(f[k]) /\ g[k] = f[k] /\ i # 0 /\ i - 1 = k
      BY <1>3, <1>5, <2>1
    <3> QED  BY <3>1, <2>1
  <2>2. CASE i # n /\ i # 0
    <3>1. i \in 0..k /\ i - 1 \in 0..n /\ i - 1 # n
      BY <1>3, <1>5, <2>2
    <3>2. g[i] = f[i] /\ g[i - 1] = f[i - 1]
      BY <2>2, <3>1
    <3> QED  BY <1>8, <2>2, <3>1, <3>2
  <2>3. CASE i = 0
    <3>1. 0 \in 0..k /\ 0 # n
      BY <1>3, <1>5
    <3> QED  BY <1>8, <2>3, <3>1
  <2> QED  BY <2>1, <2>2, <2>3
<1>10. IsDown(g, x, n)
  <2> HIDE DEF g
  <2>1. g = [i \in 0..n |-> g[i]]
    BY DEF g
  <2>2. g = [i \in 0..n |-> IF i = 0 THEN {x} ELSE step(g[i - 1])]
    BY <1>9, <2>1
  <2> QED  BY <2>2 DEF IsDown, step
<1> QED  BY <1>3, <1>10

\* The levels, unfolded once.
LEMMA DownUnfold ==
  ASSUME NEW x
  PROVE  /\ DownTo(x)[0] = {x}
         /\ \A n \in 1..MaxDepth :
              DownTo(x)[n] = UNION {{y} \cup Parts(y) : y \in DownTo(x)[n - 1]}
<1> DEFINE f == DownTo(x)
<1>1. MaxDepth \in Nat
  BY ValuesAssumption
<1>2. f = CHOOSE g : IsDown(g, x, MaxDepth)
  BY DEF DownTo, IsDown
<1>3. IsDown(f, x, MaxDepth)
  BY <1>1, <1>2, DownExists
<1> HIDE DEF f
<1>4. \A n \in 0..MaxDepth :
        f[n] = IF n = 0 THEN {x} ELSE UNION {{y} \cup Parts(y) : y \in f[n - 1]}
  BY <1>3 DEF IsDown
<1>5. 0 \in 0..MaxDepth /\ \A n \in 1..MaxDepth : n \in 0..MaxDepth /\ n # 0
  BY <1>1
<1>6. f[0] = {x}
  BY <1>4, <1>5
<1>7. \A n \in 1..MaxDepth : f[n] = UNION {{y} \cup Parts(y) : y \in f[n - 1]}
  BY <1>4, <1>5
<1> QED  BY <1>6, <1>7 DEF f

\* What is inside a value is in every set that has the value and, with a value,
\* its parts.
LEMMA InsideLeast ==
  ASSUME NEW t, NEW v, NEW S, <<t, v>> \in S, \A y \in S : Parts(y) \subseteq S
  PROVE  Inside(t, v) \subseteq S
<1> DEFINE x == <<t, v>>
           bad == {n \in 0..MaxDepth : ~(DownTo(x)[n] \subseteq S)}
<1>0. MaxDepth \in Nat
  BY ValuesAssumption
<1>1. bad = {}
  <2> SUFFICES ASSUME bad # {} PROVE FALSE
    OBVIOUS
  <2>1. bad \subseteq Nat
    BY <1>0
  <2>2. PICK n \in bad : \A m \in bad : n <= m
    BY <2>1, LeastNat
  <2>3. n \in 0..MaxDepth /\ ~(DownTo(x)[n] \subseteq S)
    BY <2>2
  <2> HIDE DEF x
  <2>4. n # 0
    <3>1. DownTo(x)[0] = {x}
      BY DownUnfold
    <3> QED  BY <2>3, <3>1 DEF x
  <2>5. n \in 1..MaxDepth /\ n - 1 \in 0..MaxDepth /\ ~(n <= n - 1)
    BY <1>0, <2>3, <2>4
  <2>6. DownTo(x)[n - 1] \subseteq S
    BY <2>2, <2>5
  <2>7. DownTo(x)[n] = UNION {{y} \cup Parts(y) : y \in DownTo(x)[n - 1]}
    BY <2>5, DownUnfold
  <2> QED  BY <2>3, <2>6, <2>7
<1>2. MaxDepth \in 0..MaxDepth
  BY <1>0
<1> QED  BY <1>1, <1>2 DEF Inside

\* A value is inside itself.
LEMMA InsideSelf ==
  ASSUME NEW t, NEW v
  PROVE  <<t, v>> \in Inside(t, v)
<1> DEFINE x == <<t, v>>
           bad == {n \in 0..MaxDepth : x \notin DownTo(x)[n]}
<1>0. MaxDepth \in Nat
  BY ValuesAssumption
<1>1. bad = {}
  <2> SUFFICES ASSUME bad # {} PROVE FALSE
    OBVIOUS
  <2>1. bad \subseteq Nat
    BY <1>0
  <2>2. PICK n \in bad : \A m \in bad : n <= m
    BY <2>1, LeastNat
  <2>3. n \in 0..MaxDepth /\ x \notin DownTo(x)[n]
    BY <2>2
  <2> HIDE DEF x
  <2>4. n # 0
    <3>1. DownTo(x)[0] = {x}
      BY DownUnfold
    <3> QED  BY <2>3, <3>1
  <2>5. n \in 1..MaxDepth /\ n - 1 \in 0..MaxDepth /\ ~(n <= n - 1)
    BY <1>0, <2>3, <2>4
  <2>6. x \in DownTo(x)[n - 1]
    BY <2>2, <2>5
  <2>7. DownTo(x)[n] = UNION {{y} \cup Parts(y) : y \in DownTo(x)[n - 1]}
    BY <2>5, DownUnfold
  <2> QED  BY <2>3, <2>6, <2>7
<1>2. MaxDepth \in 0..MaxDepth
  BY <1>0
<1> QED  BY <1>1, <1>2 DEF Inside

\* f holds the types at most i levels inside x, for i up to n.
IsTypesDown(f, x, n) ==
  f = [i \in 0..n |-> IF i = 0 THEN {x} ELSE UNION {{y} \cup TypeParts(y) : y \in f[i - 1]}]

\* The recursive definition of the levels has a solution: each first few have.
LEMMA TypesDownExist ==
  ASSUME NEW x
  PROVE  \A n \in Nat : \E f : IsTypesDown(f, x, n)
<1> DEFINE bad == {n \in Nat : ~\E f : IsTypesDown(f, x, n)}
           step(S) == UNION {{y} \cup TypeParts(y) : y \in S}
<1> SUFFICES ASSUME bad # {} PROVE FALSE
  OBVIOUS
<1>1. bad \subseteq Nat
  OBVIOUS
<1>2. PICK n \in bad : \A m \in bad : n <= m
  BY <1>1, LeastNat
<1>3. n \in Nat /\ ~\E f : IsTypesDown(f, x, n)
  BY <1>2
<1> HIDE DEF step
<1>4. n # 0
  <2> SUFFICES ASSUME n = 0 PROVE FALSE
    OBVIOUS
  <2> DEFINE f == [i \in 0..n |-> {x}]
  <2>1. \A i \in 0..n : i = 0
    OBVIOUS
  <2>2. f = [i \in 0..n |-> IF i = 0 THEN {x} ELSE step(f[i - 1])]
    BY <2>1
  <2>3. IsTypesDown(f, x, n)
    BY <2>2 DEF IsTypesDown, step
  <2> QED  BY <1>3, <2>3
<1>5. PICK k \in Nat : n = k + 1
  <2>1. n - 1 \in Nat /\ n = (n - 1) + 1
    BY <1>3, <1>4
  <2> QED  BY <2>1
<1>6. k \notin bad
  BY <1>2, <1>3, <1>5
<1>7. PICK f : IsTypesDown(f, x, k)
  BY <1>6
<1> HIDE DEF bad
<1> DEFINE g == [i \in 0..n |-> IF i = n THEN step(f[k]) ELSE f[i]]
<1>8. \A i \in 0..k : f[i] = IF i = 0 THEN {x} ELSE step(f[i - 1])
  <2>1. f = [i \in 0..k |-> IF i = 0 THEN {x} ELSE step(f[i - 1])]
    BY <1>7 DEF IsTypesDown, step
  <2> QED  BY <2>1
<1>9. \A i \in 0..n : g[i] = IF i = 0 THEN {x} ELSE step(g[i - 1])
  <2> SUFFICES ASSUME NEW i \in 0..n PROVE g[i] = IF i = 0 THEN {x} ELSE step(g[i - 1])
    OBVIOUS
  <2>1. CASE i = n
    <3>1. g[i] = step(f[k]) /\ g[k] = f[k] /\ i # 0 /\ i - 1 = k
      BY <1>3, <1>5, <2>1
    <3> QED  BY <3>1, <2>1
  <2>2. CASE i # n /\ i # 0
    <3>1. i \in 0..k /\ i - 1 \in 0..n /\ i - 1 # n
      BY <1>3, <1>5, <2>2
    <3>2. g[i] = f[i] /\ g[i - 1] = f[i - 1]
      BY <2>2, <3>1
    <3> QED  BY <1>8, <2>2, <3>1, <3>2
  <2>3. CASE i = 0
    <3>1. 0 \in 0..k /\ 0 # n
      BY <1>3, <1>5
    <3> QED  BY <1>8, <2>3, <3>1
  <2> QED  BY <2>1, <2>2, <2>3
<1>10. IsTypesDown(g, x, n)
  <2> HIDE DEF g
  <2>1. g = [i \in 0..n |-> g[i]]
    BY DEF g
  <2>2. g = [i \in 0..n |-> IF i = 0 THEN {x} ELSE step(g[i - 1])]
    BY <1>9, <2>1
  <2> QED  BY <2>2 DEF IsTypesDown, step
<1> QED  BY <1>3, <1>10

\* The levels, unfolded once.
LEMMA TypesDownUnfold ==
  ASSUME NEW x
  PROVE  /\ TypesDownTo(x)[0] = {x}
         /\ \A n \in 1..MaxDepth :
              TypesDownTo(x)[n] = UNION {{y} \cup TypeParts(y) : y \in TypesDownTo(x)[n - 1]}
<1> DEFINE f == TypesDownTo(x)
<1>1. MaxDepth \in Nat
  BY ValuesAssumption
<1>2. f = CHOOSE g : IsTypesDown(g, x, MaxDepth)
  BY DEF TypesDownTo, IsTypesDown
<1>3. IsTypesDown(f, x, MaxDepth)
  BY <1>1, <1>2, TypesDownExist
<1> HIDE DEF f
<1>4. \A n \in 0..MaxDepth :
        f[n] = IF n = 0 THEN {x} ELSE UNION {{y} \cup TypeParts(y) : y \in f[n - 1]}
  BY <1>3 DEF IsTypesDown
<1>5. 0 \in 0..MaxDepth /\ \A n \in 1..MaxDepth : n \in 0..MaxDepth /\ n # 0
  BY <1>1
<1>6. f[0] = {x}
  BY <1>4, <1>5
<1>7. \A n \in 1..MaxDepth : f[n] = UNION {{y} \cup TypeParts(y) : y \in f[n - 1]}
  BY <1>4, <1>5
<1> QED  BY <1>6, <1>7 DEF f

\* The same for types: the least set with the type that has, with a type, those
\* of its elements or fields.
LEMMA TypesLeast ==
  ASSUME NEW t, NEW S, t \in S, \A y \in S : TypeParts(y) \subseteq S
  PROVE  TypesInside(t) \subseteq S
<1> DEFINE x == t
           bad == {n \in 0..MaxDepth : ~(TypesDownTo(x)[n] \subseteq S)}
<1>0. MaxDepth \in Nat
  BY ValuesAssumption
<1>1. bad = {}
  <2> SUFFICES ASSUME bad # {} PROVE FALSE
    OBVIOUS
  <2>1. bad \subseteq Nat
    BY <1>0
  <2>2. PICK n \in bad : \A m \in bad : n <= m
    BY <2>1, LeastNat
  <2>3. n \in 0..MaxDepth /\ ~(TypesDownTo(x)[n] \subseteq S)
    BY <2>2
  <2> HIDE DEF x
  <2>4. n # 0
    <3>1. TypesDownTo(x)[0] = {x}
      BY TypesDownUnfold
    <3> QED  BY <2>3, <3>1 DEF x
  <2>5. n \in 1..MaxDepth /\ n - 1 \in 0..MaxDepth /\ ~(n <= n - 1)
    BY <1>0, <2>3, <2>4
  <2>6. TypesDownTo(x)[n - 1] \subseteq S
    BY <2>2, <2>5
  <2>7. TypesDownTo(x)[n] = UNION {{y} \cup TypeParts(y) : y \in TypesDownTo(x)[n - 1]}
    BY <2>5, TypesDownUnfold
  <2> QED  BY <2>3, <2>6, <2>7
<1>2. MaxDepth \in 0..MaxDepth
  BY <1>0
<1> QED  BY <1>1, <1>2 DEF TypesInside

\* A type is one of its types.
LEMMA TypesSelf ==
  ASSUME NEW t
  PROVE  t \in TypesInside(t)
<1> DEFINE x == t
           bad == {n \in 0..MaxDepth : x \notin TypesDownTo(x)[n]}
<1>0. MaxDepth \in Nat
  BY ValuesAssumption
<1>1. bad = {}
  <2> SUFFICES ASSUME bad # {} PROVE FALSE
    OBVIOUS
  <2>1. bad \subseteq Nat
    BY <1>0
  <2>2. PICK n \in bad : \A m \in bad : n <= m
    BY <2>1, LeastNat
  <2>3. n \in 0..MaxDepth /\ x \notin TypesDownTo(x)[n]
    BY <2>2
  <2> HIDE DEF x
  <2>4. n # 0
    <3>1. TypesDownTo(x)[0] = {x}
      BY TypesDownUnfold
    <3> QED  BY <2>3, <3>1
  <2>5. n \in 1..MaxDepth /\ n - 1 \in 0..MaxDepth /\ ~(n <= n - 1)
    BY <1>0, <2>3, <2>4
  <2>6. x \in TypesDownTo(x)[n - 1]
    BY <2>2, <2>5
  <2>7. TypesDownTo(x)[n] = UNION {{y} \cup TypeParts(y) : y \in TypesDownTo(x)[n - 1]}
    BY <2>5, TypesDownUnfold
  <2> QED  BY <2>3, <2>6, <2>7
<1>2. MaxDepth \in 0..MaxDepth
  BY <1>0
<1> QED  BY <1>1, <1>2 DEF TypesInside

-----------------------------------------------------------------------------
(***************************************************************************)
(* The structs that are let in.                                            *)
(***************************************************************************)

\* The five structs, told apart by name alone once the type is allowed.
LEMMA AllowedStructs ==
  ASSUME NEW t, WellFormed(t), IsStruct(t), InAllowed(t)
  PROVE  \/ t.name = "String" /\ IsNamed(t, String)
         \/ t.name = "FixedPoint32" /\ IsNamed(t, FixedPoint32)
         \/ t.name = "FixedPoint64" /\ IsNamed(t, FixedPoint64)
         \/ t.name = "Object" /\ IsNamed(t, Object(U8))
         \/ t.name = "Option" /\ IsNamed(t, Option(U8)) /\ t.args # <<>>
<1>1. PICK m, n, a : m = t.module /\ n = t.name /\ a = t.args
  OBVIOUS
<1>2. t = [t |-> "struct", module |-> m, name |-> n, args |-> a]
  BY <1>1 DEF WellFormed, StructAt, IsStruct, IsVector, Primitives, Uints
<1>3. Info(t) = [t |-> "struct", module |-> m, name |-> n, args |-> <<>>]
  BY <1>2 DEF Info
<1>4. \/ m = "string" /\ n = "String"
      \/ m = "fixed_point32" /\ n = "FixedPoint32"
      \/ m = "fixed_point64" /\ n = "FixedPoint64"
      \/ m = "object" /\ n = "Object"
      \/ m = "option" /\ n = "Option"
  <2>1. [Object(U8) EXCEPT !.args = <<>>] = StructAt("object", "Object", <<>>)
    BY DEF Object, StructAt
  <2>2. [Option(U8) EXCEPT !.args = <<>>] = StructAt("option", "Option", <<>>)
    BY DEF Option, StructAt
  <2>3. Info(t) \in {String, FixedPoint32, FixedPoint64, StructAt("object", "Object", <<>>),
                     StructAt("option", "Option", <<>>)}
    BY <2>1, <2>2 DEF InAllowed, Allowed
  <2> QED  BY <1>3, <2>3 DEF String, FixedPoint32, FixedPoint64, StructAt
<1>5. n = "Option" => a # <<>>
  BY <1>1 DEF WellFormed, IsStruct, IsVector, Primitives, Uints
<1>6. IsStruct(t) /\ t.module = m /\ t.name = n /\ t.args = a
  BY <1>1
<1> QED
  BY <1>4, <1>5, <1>6
     DEF IsNamed, String, FixedPoint32, FixedPoint64, Object, Option, StructAt

\* A type is of one kind.
LEMMA Kinds ==
  ASSUME NEW t, WellFormed(t)
  PROVE  /\ t.t \in Primitives \/ IsVector(t) \/ IsStruct(t)
         /\ t.t \in Primitives => ~IsVector(t) /\ ~IsStruct(t)
         /\ ~(IsVector(t) /\ IsStruct(t))
         /\ IsStruct(t) \/ IsVector(t) => t.t # "signer"
  BY DEF WellFormed, IsVector, IsStruct, Primitives, Uints

\* What they are made of.
LEMMA AllowedFields ==
  ASSUME NEW t, IsStruct(t)
  PROVE  /\ t.name = "String" => FieldTypes(t) = <<Vector(U8)>>
         /\ t.name = "FixedPoint32" => FieldTypes(t) = <<Prim("u64")>>
         /\ t.name = "FixedPoint64" => FieldTypes(t) = <<Prim("u128")>>
         /\ t.name = "Object" => FieldTypes(t) = <<Prim("address")>>
         /\ t.name = "Option" => FieldTypes(t) = <<Vector(t.args[1])>>
<1>1. PICK n : n = t.name
  OBVIOUS
<1> QED  BY <1>1 DEF FieldTypes

\* The parts of a vector, of a struct with one field, and of anything else.
LEMMA PartsOf ==
  ASSUME NEW t, NEW v
  PROVE  /\ IsVector(t) => Parts(<<t, v>>) = {<<t.of, v[i]>> : i \in DOMAIN v}
         /\ \A u : (~IsVector(t) /\ IsStruct(t) /\ FieldTypes(t) = <<u>>
                   /\ DOMAIN v = DOMAIN FieldTypes(t)) => Parts(<<t, v>>) = {<<u, v[1]>>}
         /\ ~IsVector(t) /\ ~IsStruct(t) => Parts(<<t, v>>) = {}
<1>1. IsVector(t) => Parts(<<t, v>>) = {<<t.of, v[i]>> : i \in DOMAIN v}
  BY DEF Parts
<1>2. \A u : (~IsVector(t) /\ IsStruct(t) /\ FieldTypes(t) = <<u>>
               /\ DOMAIN v = DOMAIN FieldTypes(t)) => Parts(<<t, v>>) = {<<u, v[1]>>}
  <2> SUFFICES ASSUME NEW u, ~IsVector(t), IsStruct(t), FieldTypes(t) = <<u>>,
                      DOMAIN v = DOMAIN FieldTypes(t)
               PROVE  Parts(<<t, v>>) = {<<u, v[1]>>}
    OBVIOUS
  <2>1. DOMAIN v = {1} /\ FieldTypes(t)[1] = u
    OBVIOUS
  <2>2. Parts(<<t, v>>) = {<<FieldTypes(t)[i], v[i]>> : i \in DOMAIN v}
    BY DEF Parts
  <2> QED  BY <2>1, <2>2
<1>3. ~IsVector(t) /\ ~IsStruct(t) => Parts(<<t, v>>) = {}
  BY DEF Parts
<1> QED  BY <1>1, <1>2, <1>3, Zenon

LEMMA PrimParts ==
  ASSUME NEW p \in Primitives, NEW v
  PROVE  /\ Parts(<<Prim(p), v>>) = {} /\ TypeParts(Prim(p)) = {}
         /\ ~IsVector(Prim(p)) /\ ~IsStruct(Prim(p))
         /\ p # "signer" => Fine(Prim(p), v)
<1>1. Prim(p).t = p /\ p # "vector" /\ p # "struct"
  BY DEF Prim, Primitives, Uints
<1>2. ~IsVector(Prim(p)) /\ ~IsStruct(Prim(p))
  BY <1>1 DEF IsVector, IsStruct
<1>3. p # "signer" => Fine(Prim(p), v)
  BY <1>1 DEF Fine
<1> QED  BY <1>2, <1>3, PartsOf DEF TypeParts

LEMMA VectorParts ==
  ASSUME NEW u, NEW v
  PROVE  /\ Parts(<<Vector(u), v>>) = {<<u, v[i]>> : i \in DOMAIN v}
         /\ TypeParts(Vector(u)) = {u}
         /\ IsVector(Vector(u)) /\ ~IsStruct(Vector(u)) /\ Fine(Vector(u), v)
<1>1. Vector(u).t = "vector" /\ Vector(u).of = u
  BY DEF Vector
<1>2. IsVector(Vector(u)) /\ ~IsStruct(Vector(u))
  BY <1>1 DEF IsVector, IsStruct
<1>3. Fine(Vector(u), v)
  BY <1>1 DEF Fine
<1> QED  BY <1>1, <1>2, <1>3, PartsOf DEF TypeParts

\* What the VM gives out: the types and values inside are whole, and so are
\* theirs.
LEMMA TypesWhole ==
  ASSUME NEW t \in Types, NEW u \in TypesInside(t)
  PROVE  WellFormed(u) /\ TypeParts(u) \subseteq TypesInside(t)
  BY ValuesAssumption, Zenon

LEMMA ValuesWhole ==
  ASSUME NEW t \in Types, NEW v \in Values(t), NEW y \in Inside(t, v)
  PROVE  HasShape(y[1], y[2]) /\ Parts(y) \subseteq Inside(t, v)
  BY ValuesAssumption, Zenon

\* The values inside a value have types inside its type.
LEMMA InsideTyped ==
  ASSUME NEW t \in Types, NEW v \in Values(t)
  PROVE  \A y \in Inside(t, v) : y = <<y[1], y[2]>> /\ y[1] \in TypesInside(t)
<1> DEFINE S == {y \in Inside(t, v) : y = <<y[1], y[2]>> /\ y[1] \in TypesInside(t)}
<1>1. <<t, v>> \in S
  <2>1. <<t, v>> \in Inside(t, v) /\ t \in TypesInside(t)
    BY InsideSelf, TypesSelf
  <2> QED  BY <2>1
<1>2. ASSUME NEW y \in S, NEW z \in Parts(y) PROVE z \in S
  <2>1. /\ y \in Inside(t, v) /\ y[1] \in TypesInside(t)
    OBVIOUS
  <2>2. z \in Inside(t, v) /\ HasShape(y[1], y[2])
    BY <1>2, <2>1, ValuesWhole
  <2>3. TypeParts(y[1]) \subseteq TypesInside(t)
    BY <2>1, TypesWhole
  <2> HIDE DEF S
  <2>4. CASE IsVector(y[1])
    <3>1. PICK i \in DOMAIN y[2] : z = <<y[1].of, y[2][i]>>
      BY <1>2, <2>4 DEF Parts
    <3>2. TypeParts(y[1]) = {y[1].of}
      BY <2>4 DEF TypeParts
    <3>3. z[1] = y[1].of /\ z = <<z[1], z[2]>>
      BY <3>1
    <3> QED  BY <2>2, <2>3, <3>2, <3>3 DEF S
  <2>5. CASE ~IsVector(y[1]) /\ IsStruct(y[1])
    <3>1. PICK i \in DOMAIN y[2] : z = <<FieldTypes(y[1])[i], y[2][i]>>
      BY <1>2, <2>5 DEF Parts
    <3>2. TypeParts(y[1]) = Range(FieldTypes(y[1])) /\ DOMAIN y[2] = DOMAIN FieldTypes(y[1])
      BY <2>2, <2>5 DEF TypeParts, HasShape
    <3>3. FieldTypes(y[1])[i] \in TypeParts(y[1])
      BY <3>1, <3>2 DEF Range
    <3>4. z[1] = FieldTypes(y[1])[i] /\ z = <<z[1], z[2]>>
      BY <3>1
    <3> QED  BY <2>2, <2>3, <3>3, <3>4 DEF S
  <2>6. CASE ~IsVector(y[1]) /\ ~IsStruct(y[1])
    BY <1>2, <2>6 DEF Parts
  <2> QED  BY <2>4, <2>5, <2>6
<1>3. \A y \in S : Parts(y) \subseteq S
  BY <1>2
<1> HIDE DEF S
<1>4. Inside(t, v) \subseteq S
  BY <1>1, <1>3, InsideLeast
<1> QED  BY <1>4 DEF S

-----------------------------------------------------------------------------
(***************************************************************************)
(* One turn of the loop over the value.                                    *)
(***************************************************************************)
Whole(C, seq) == \A z \in C : Fine(z[1], z[2]) /\ Parts(z) \subseteq C \cup Range(seq)

\* What the loop refuses is not fine.
LEMMA RefusedNotFine ==
  ASSUME NEW a, NEW b, WellFormed(a), IsStruct(a) => InAllowed(a), Refused(a, b)
  PROVE  ~Fine(a, b)
<1>1. CASE a.t = "signer"
  <2>1. ~IsStruct(a)
    BY <1>1 DEF IsStruct
  <2> QED  BY <1>1, <2>1 DEF Refused, Fine
<1>2. CASE IsStruct(a)
  <2>1. a.t = "struct"
    BY <1>2 DEF IsStruct
  <2>2. PICK n : n = a.name
    OBVIOUS
  <2>3. n \in {"String", "FixedPoint32", "FixedPoint64", "Object", "Option"}
    BY <1>2, <2>2, AllowedStructs
  <2>4. n \in {c.name : c \in Allowed}
    <3>1. /\ String.name = "String" /\ FixedPoint32.name = "FixedPoint32"
          /\ FixedPoint64.name = "FixedPoint64"
          /\ [Object(U8) EXCEPT !.args = <<>>].name = "Object"
          /\ [Option(U8) EXCEPT !.args = <<>>].name = "Option"
      BY DEF String, FixedPoint32, FixedPoint64, Object, Option, StructAt
    <3> QED  BY <2>3, <3>1 DEF Allowed
  <2>5. /\ IsNamed(a, String) => n = "String"
        /\ IsNamed(a, FixedPoint32) => n = "FixedPoint32"
        /\ IsNamed(a, FixedPoint64) => n = "FixedPoint64"
        /\ IsNamed(a, Object(U8)) => n = "Object"
        /\ IsNamed(a, Option(U8)) => n = "Option"
    BY <2>2 DEF IsNamed, String, FixedPoint32, FixedPoint64, Object, Option, StructAt
  <2>6. \/ n = "String" /\ ~IsUtf8(b[1])
        \/ n = "Object" /\ ~(<<b[1], ObjectCore>> \in Resources /\ <<b[1], a.args[1]>> \in Resources)
        \/ n = "Option" /\ ~(Len(b[1]) <= 1)
    BY <2>1, <2>2, <2>4, Zenon DEF Refused, ValidateString, ValidateObject, ValidateOption, ResourceExists
  <2>7. Len(b[1]) \in {0, 1} => Len(b[1]) <= 1
    <3>1. \A k : k \in {0, 1} => k <= 1
      OBVIOUS
    <3> QED  BY <3>1, Zenon
  <2> QED  BY <2>1, <2>5, <2>6, <2>7 DEF Fine
<1> QED  BY <1>1, <1>2 DEF Refused

\* What the loop lets pass is fine, and so is everything inside that it does not
\* push; what it pushes is inside.
LEMMA VisitCovers ==
  ASSUME NEW t \in Types, NEW v \in Values(t),
         \A u \in TypesInside(t) : IsStruct(u) => Info(u) \in Allowed,
         NEW y \in Inside(t, v), ~Refused(y[1], y[2])
  PROVE  /\ Pushed(y[1], y[2]) \in Seq(Inside(t, v))
         /\ \E C : y \in C /\ Whole(C, Pushed(y[1], y[2]))
<1>1. PICK a, b : y = <<a, b>> /\ a \in TypesInside(t)
  BY InsideTyped
<1>2. y[1] = a /\ y[2] = b
  BY <1>1
<1>3. /\ WellFormed(a) /\ HasShape(a, b) /\ Parts(<<a, b>>) \subseteq Inside(t, v)
      /\ IsStruct(a) => InAllowed(a)
  BY <1>1, <1>2, TypesWhole, ValuesWhole DEF InAllowed
<1>4. PICK pushed : pushed = Pushed(a, b)
  OBVIOUS
<1> SUFFICES /\ pushed \in Seq(Inside(t, v))
             /\ \E C : y \in C /\ Whole(C, pushed)
  BY <1>2, <1>4, Zenon
<1>5. ~Refused(a, b)
  BY <1>2
<1>6. CASE IsVector(a)
  <2>1. b \in Seq(Range(b))
    BY <1>3, <1>6 DEF HasShape
  <2>2. PICK n \in Nat : n = Len(b) /\ DOMAIN b = 1..n
    BY <2>1
  <2>3. pushed = [i \in 1..n |-> <<a.of, b[i]>>]
    BY <1>4, <1>6, <2>2 DEF Pushed
  <2>4. Parts(<<a, b>>) = {<<a.of, b[i]>> : i \in 1..n}
    BY <1>6, <2>2, PartsOf
  <2>5. pushed \in Seq(Inside(t, v))
    <3>1. \A i \in 1..n : <<a.of, b[i]>> \in Inside(t, v)
      BY <1>3, <2>4
    <3> QED  BY <2>3, <3>1
  <2>6. Parts(<<a, b>>) \subseteq Range(pushed)
    BY <2>3, <2>4 DEF Range
  <2>7. Fine(a, b)
    BY <1>6 DEF Fine, IsVector
  <2>8. y \in {y} /\ Whole({y}, pushed)
    BY <1>1, <1>2, <2>6, <2>7 DEF Whole
  <2> QED  BY <2>5, <2>8
<1>7. CASE ~IsVector(a) /\ ~IsStruct(a)
  <2>1. pushed = <<>> /\ Parts(<<a, b>>) = {}
    BY <1>4, <1>7, PartsOf DEF Pushed
  <2>2. Fine(a, b)
    BY <1>5, <1>7 DEF Fine, Refused, IsStruct
  <2>3. y \in {y} /\ Whole({y}, pushed)
    BY <1>1, <1>2, <2>1, <2>2 DEF Whole
  <2>4. <<>> \in Seq(Inside(t, v))
    OBVIOUS
  <2> QED  BY <2>1, <2>3, <2>4
<1>8. CASE IsStruct(a) /\ a.name = "Option"
  <2>1. ~IsVector(a) /\ IsNamed(a, Option(U8)) /\ DOMAIN b = DOMAIN FieldTypes(a)
    BY <1>3, <1>8, AllowedStructs, Kinds DEF HasShape
  <2>2. PICK e, l : e = a.args[1] /\ l = b[1]
    OBVIOUS
  <2>3. FieldTypes(a) = <<Vector(e)>>
    BY <1>8, <2>2, AllowedFields
  <2>4. PICK w : w = <<Vector(e), l>>
    OBVIOUS
  <2>5. Parts(<<a, b>>) = {w}
    BY <1>8, <2>1, <2>2, <2>3, <2>4, PartsOf
  <2>6. w \in Inside(t, v) /\ w[1] = Vector(e) /\ w[2] = l
    BY <1>3, <2>4, <2>5
  <2>7. l \in Seq(Range(l)) /\ Parts(w) \subseteq Inside(t, v)
    <3>1. HasShape(Vector(e), l) /\ Parts(w) \subseteq Inside(t, v)
      BY <2>6, ValuesWhole
    <3> QED  BY <3>1, VectorParts DEF HasShape
  <2>8. PICK n \in Nat : n = Len(l) /\ DOMAIN l = 1..n
    BY <2>7
  <2>9. pushed = [i \in 1..n |-> <<e, l[i]>>]
    BY <1>4, <1>8, <2>1, <2>2, <2>8 DEF Pushed
  <2>10. Parts(w) = {<<e, l[i]>> : i \in 1..n}
    BY <2>4, <2>8, VectorParts
  <2>11. pushed \in Seq(Inside(t, v))
    <3>1. \A i \in 1..n : <<e, l[i]>> \in Inside(t, v)
      BY <2>7, <2>10
    <3> QED  BY <2>9, <3>1
  <2>12. Parts(w) \subseteq Range(pushed)
    BY <2>9, <2>10 DEF Range
  <2>13. Fine(a, b)
    <3>1. n <= 1
      BY <1>5, <1>8, <2>2, <2>8 DEF Refused, ValidateOption
    <3>2. n \in {0, 1}
      BY <3>1
    <3> QED  BY <1>8, <2>1, <2>2, <2>8, <3>2 DEF Fine, IsStruct
  <2>14. Fine(w[1], w[2])
    <3>1. Fine(Vector(e), l)
      BY VectorParts
    <3> QED  BY <2>6, <3>1
  <2>15. y \in {y, w} /\ Whole({y, w}, pushed)
    BY <1>1, <1>2, <2>5, <2>12, <2>13, <2>14 DEF Whole
  <2> QED  BY <2>11, <2>15
<1>9. CASE IsStruct(a) /\ a.name # "Option"
  <2>1. ~IsVector(a) /\ DOMAIN b = DOMAIN FieldTypes(a)
    BY <1>3, <1>9, Kinds DEF HasShape
  <2>2. pushed = <<>> /\ <<>> \in Seq(Inside(t, v))
    BY <1>4, <1>9, <2>1 DEF Pushed
  <2>3. Fine(a, b)
    <3>1. \/ a.name = "String" /\ IsNamed(a, String)
          \/ IsNamed(a, FixedPoint32) \/ IsNamed(a, FixedPoint64)
          \/ a.name = "Object" /\ IsNamed(a, Object(U8))
      BY <1>3, <1>9, AllowedStructs
    <3>2. /\ a.name = "String" => IsUtf8(b[1])
          /\ a.name = "Object" => <<b[1], ObjectCore>> \in Resources /\ <<b[1], a.args[1]>> \in Resources
      BY <1>5, <1>9, Zenon DEF Refused, ValidateString, ValidateObject, ResourceExists
    <3>3. a.t = "struct"
      BY <1>9 DEF IsStruct
    <3> QED  BY <3>1, <3>2, <3>3 DEF Fine
  <2>4. CASE a.name = "String"
    <3>1. PICK w : w = <<Vector(U8), b[1]>>
      OBVIOUS
    <3>2. Parts(<<a, b>>) = {w}
      BY <1>9, <2>1, <2>4, <3>1, AllowedFields, PartsOf
    <3>3. Fine(w[1], w[2]) /\ Parts(w) = {<<U8, b[1][i]>> : i \in DOMAIN b[1]}
      BY <3>1, VectorParts
    <3>4. \A z \in Parts(w) : Fine(z[1], z[2]) /\ Parts(z) = {}
      <4>1. \A q : Fine(Prim("u8"), q) /\ Parts(<<Prim("u8"), q>>) = {}
        BY PrimParts DEF Primitives, Uints
      <4> SUFFICES ASSUME NEW i \in DOMAIN b[1]
                   PROVE  Fine(U8, b[1][i]) /\ Parts(<<U8, b[1][i]>>) = {}
        BY <3>3
      <4> QED  BY <4>1, Zenon DEF U8
    <3>5. Whole({y, w} \cup Parts(w), pushed)
      BY <1>1, <1>2, <2>3, <3>2, <3>3, <3>4 DEF Whole
    <3> QED  BY <2>2, <3>5
  <2>5. CASE a.name # "String"
    <3>1. PICK p \in {"u64", "u128", "address"} : FieldTypes(a) = <<Prim(p)>>
      BY <1>3, <1>9, <2>5, AllowedStructs, AllowedFields
    <3>2. PICK w : w = <<Prim(p), b[1]>>
      OBVIOUS
    <3>3. Parts(<<a, b>>) = {w}
      BY <1>9, <2>1, <3>1, <3>2, PartsOf
    <3>4. Fine(w[1], w[2]) /\ Parts(w) = {}
      <4>1. p \in Primitives /\ p # "signer"
        BY <3>1 DEF Primitives, Uints
      <4> QED  BY <3>2, <4>1, PrimParts
    <3>5. Whole({y, w}, pushed)
      BY <1>1, <1>2, <2>3, <3>3, <3>4 DEF Whole
    <3> QED  BY <2>2, <3>5
  <2> QED  BY <2>4, <2>5
<1> QED  BY <1>6, <1>7, <1>8, <1>9

-----------------------------------------------------------------------------
(***************************************************************************)
(* The walks.  Each keeps a set of what it has dealt with: everything in   *)
(* it is in order, and what it is made of is in it or still to come.       *)
(***************************************************************************)
TypesDone(S) ==
  /\ type \in S \cup {current}
  /\ \A t \in S : TypeParts(t) \subseteq S \cup {current}

TagWalk == \E S : TypesDone(S) /\ \A t \in S : IsStruct(t) => Info(t) \in Allowed

LayoutWalk == \E S : TypesDone(S) /\ \A t \in S : ~IsStruct(t) /\ t.t # "signer"

ValueWalk ==
  /\ stack \in Seq(Inside(type, value))
  /\ \E S : <<type, value>> \in S \cup Range(stack) /\ Whole(S, stack)

AllFine == \A x \in Inside(type, value) : Fine(x[1], x[2])

\* What each phase knows.
ArgumentsInv ==
  /\ type \in Types /\ value \in Values(type)
  /\ phase \in {"tag", "layout"} => current \in TypesInside(type)
  /\ phase = "tag" => TagWalk
  /\ phase \in {"layout", "value", "accepted"} => AllAllowed
  /\ phase = "layout" => LayoutWalk
  /\ phase = "value" => ValueWalk
  /\ phase = "accepted" => AllFine
  /\ phase = "refused" => ~AllAllowed \/ ~AllFine

LEMMA ArgumentsInit == Init => ArgumentsInv
<1> SUFFICES ASSUME Init PROVE ArgumentsInv
  OBVIOUS
<1>1. type \in Types /\ value \in Values(type) /\ phase = "tag" /\ current = type
  BY DEF Init
<1>2. current \in TypesInside(type)
  BY <1>1, TypesSelf
<1>3. TypesDone({})
  BY <1>1 DEF TypesDone
<1>4. TagWalk
  BY <1>3 DEF TagWalk
<1> QED  BY <1>1, <1>2, <1>4 DEF ArgumentsInv

\* A finished walk over types has seen all of them.
LEMMA TypesSeen ==
  ASSUME NEW S, type \in S, \A t \in S : TypeParts(t) \subseteq S
  PROVE  TypesInside(type) \subseteq S
  BY TypesLeast

\* The types C may pass when those in D do.
Passes(C, D) ==
  \A t \in C : (IsStruct(t) => Info(t) \in Allowed) /\ TypeParts(t) \subseteq C \cup D

LEMMA TagStep ==
  ASSUME ArgumentsInv, DescendTag
  PROVE  ArgumentsInv'
<1>1. /\ type \in Types /\ value \in Values(type) /\ phase = "tag" /\ TagWalk
      /\ current \in TypesInside(type) /\ current' \in NextTags(current)
      /\ type' = type /\ value' = value /\ phase' = phase
  BY DEF ArgumentsInv, DescendTag
<1>2. PICK S : TypesDone(S) /\ \A t \in S : IsStruct(t) => Info(t) \in Allowed
  BY <1>1 DEF TagWalk
<1>3. WellFormed(current) /\ TypeParts(current) \subseteq TypesInside(type)
  BY <1>1, TypesWhole
<1>4. PICK c, d : c = current /\ d = current'
  OBVIOUS
<1>5. d \in TypesInside(type) /\ \E C : c \in C /\ Passes(C, {d})
  <2>1. CASE IsVector(c)
    <3>1. NextTags(c) = {c.of} /\ TypeParts(c) = {c.of} /\ ~IsStruct(c)
      BY <1>3, <1>4, <2>1, Kinds DEF NextTags, TypeParts
    <3>2. d = c.of /\ d \in TypesInside(type)
      BY <1>1, <1>3, <1>4, <3>1
    <3>3. Passes({c}, {d})
      BY <3>1, <3>2 DEF Passes
    <3>4. c \in {c}
      OBVIOUS
    <3> QED  BY <3>2, <3>3, <3>4
  <2>2. CASE ~IsVector(c)
    <3>1. /\ IsStruct(c) /\ InAllowed(c) /\ c.name = "Option" /\ d = c.args[1]
      BY <1>1, <1>4, <2>2 DEF NextTags
    <3>2. FieldTypes(c) = <<Vector(d)>>
      BY <3>1, AllowedFields
    <3>3. TypeParts(c) = {Vector(d)}
      <4>1. TypeParts(c) = Range(<<Vector(d)>>)
        BY <2>2, <3>1, <3>2 DEF TypeParts
      <4> QED  BY <4>1 DEF Range
    <3>4. TypeParts(Vector(d)) = {d} /\ ~IsStruct(Vector(d))
      BY VectorParts
    <3>5. Vector(d) \in TypesInside(type)
      BY <1>3, <1>4, <3>3
    <3>6. d \in TypesInside(type)
      BY <1>1, <3>4, <3>5, TypesWhole
    <3>7. Info(c) \in Allowed
      BY <3>1 DEF InAllowed
    <3>8. c \in {c, Vector(d)} /\ Passes({c, Vector(d)}, {d})
      BY <3>3, <3>4, <3>7 DEF Passes
    <3> QED  BY <3>6, <3>8
  <2> QED  BY <2>1, <2>2
<1>6. PICK C : c \in C /\ Passes(C, {d})
  BY <1>5
<1>7. TypesDone(S \cup C)'
  BY <1>1, <1>2, <1>4, <1>6 DEF TypesDone, Passes
<1>8. \A t \in S \cup C : IsStruct(t) => Info(t) \in Allowed
  BY <1>2, <1>6 DEF Passes
<1>9. TagWalk'
  BY <1>7, <1>8 DEF TagWalk
<1> QED  BY <1>1, <1>4, <1>5, <1>9 DEF ArgumentsInv

LEMMA AllowStep ==
  ASSUME ArgumentsInv, AllowType
  PROVE  ArgumentsInv'
<1>1. /\ type \in Types /\ value \in Values(type) /\ phase = "tag" /\ TagWalk
      /\ current \in TypesInside(type) /\ NextTags(current) = {}
      /\ IsStruct(current) => InAllowed(current)
      /\ type' = type /\ value' = value /\ phase' = "layout" /\ current' = type
  BY DEF ArgumentsInv, AllowType
<1>2. PICK S : TypesDone(S) /\ \A t \in S : IsStruct(t) => Info(t) \in Allowed
  BY <1>1 DEF TagWalk
<1>3. WellFormed(current)
  BY <1>1, TypesWhole
<1>4. PICK c : c = current
  OBVIOUS
<1>5. \E C : c \in C /\ Passes(C, {})
  <2>0. ~IsVector(c)
    BY <1>1, <1>4 DEF NextTags
  <2>1. CASE ~IsStruct(c)
    <3>1. TypeParts(c) = {}
      BY <2>0, <2>1 DEF TypeParts
    <3>2. c \in {c} /\ Passes({c}, {})
      BY <2>1, <3>1 DEF Passes
    <3> QED  BY <3>2
  <2>2. CASE IsStruct(c)
    <3>1. InAllowed(c) /\ Info(c) \in Allowed
      BY <1>1, <1>4, <2>2 DEF InAllowed
    <3>2. c.name # "Option"
      <4>1. c.name = "Option" => c.args # <<>>
        BY <1>3, <1>4, <2>2, <3>1, AllowedStructs
      <4> QED  BY <1>1, <1>4, <2>0, <2>2, <3>1, <4>1 DEF NextTags
    <3>3. CASE c.name = "String"
      <4>1. TypeParts(c) = Range(<<Vector(U8)>>)
        BY <2>0, <2>2, <3>3, AllowedFields DEF TypeParts
      <4>2. TypeParts(c) = {Vector(U8)}
        BY <4>1 DEF Range
      <4>3. TypeParts(Vector(U8)) = {U8} /\ ~IsStruct(Vector(U8))
        BY VectorParts
      <4>4. TypeParts(U8) = {} /\ ~IsStruct(U8)
        BY PrimParts DEF U8, Primitives, Uints
      <4>5. c \in {c, Vector(U8), U8} /\ Passes({c, Vector(U8), U8}, {})
        BY <3>1, <4>2, <4>3, <4>4 DEF Passes
      <4> QED  BY <4>5
    <3>4. CASE c.name # "String"
      <4>1. PICK p \in {"u64", "u128", "address"} : FieldTypes(c) = <<Prim(p)>>
        BY <1>3, <1>4, <2>2, <3>1, <3>2, <3>4, AllowedStructs, AllowedFields
      <4>2. TypeParts(c) = Range(<<Prim(p)>>)
        BY <2>0, <2>2, <4>1 DEF TypeParts
      <4>3. TypeParts(c) = {Prim(p)}
        BY <4>2 DEF Range
      <4>4. TypeParts(Prim(p)) = {} /\ ~IsStruct(Prim(p))
        BY PrimParts DEF Primitives, Uints
      <4>5. c \in {c, Prim(p)} /\ Passes({c, Prim(p)}, {})
        BY <3>1, <4>3, <4>4 DEF Passes
      <4> QED  BY <4>5
    <3> QED  BY <3>3, <3>4
  <2> QED  BY <2>1, <2>2
<1>6. PICK C : c \in C /\ Passes(C, {})
  BY <1>5
<1>7. type \in S \cup C /\ \A t \in S \cup C : TypeParts(t) \subseteq S \cup C
  BY <1>2, <1>4, <1>6 DEF TypesDone, Passes
<1>8. TypesInside(type) \subseteq S \cup C
  BY <1>7, TypesSeen
<1>9. AllAllowed'
  BY <1>1, <1>2, <1>6, <1>8 DEF AllAllowed, Passes
<1>10. TypesDone({})'
  BY <1>1 DEF TypesDone
<1>11. LayoutWalk'
  BY <1>10 DEF LayoutWalk
<1>12. current' \in TypesInside(type)
  BY <1>1, TypesSelf
<1> QED  BY <1>1, <1>9, <1>11, <1>12 DEF ArgumentsInv

LEMMA LayoutStep ==
  ASSUME ArgumentsInv, DescendLayout
  PROVE  ArgumentsInv'
<1>1. /\ type \in Types /\ value \in Values(type) /\ phase = "layout" /\ LayoutWalk
      /\ AllAllowed /\ current \in TypesInside(type) /\ IsVector(current) /\ current' = current.of
      /\ type' = type /\ value' = value /\ phase' = phase
  BY DEF ArgumentsInv, DescendLayout
<1>2. PICK S : TypesDone(S) /\ \A t \in S : ~IsStruct(t) /\ t.t # "signer"
  BY <1>1 DEF LayoutWalk
<1>3. WellFormed(current) /\ TypeParts(current) \subseteq TypesInside(type)
  BY <1>1, TypesWhole
<1>4. PICK c, d : c = current /\ d = current'
  OBVIOUS
<1>5. TypeParts(c) = {d} /\ ~IsStruct(c) /\ c.t # "signer"
  BY <1>1, <1>3, <1>4, Kinds DEF TypeParts
<1>6. d \in TypesInside(type)
  BY <1>3, <1>4, <1>5
<1>7. TypesDone(S \cup {c})'
  BY <1>1, <1>2, <1>4, <1>5 DEF TypesDone
<1>8. LayoutWalk'
  BY <1>2, <1>5, <1>7 DEF LayoutWalk
<1>9. AllAllowed'
  BY <1>1 DEF AllAllowed
<1> QED  BY <1>1, <1>4, <1>6, <1>8, <1>9 DEF ArgumentsInv

LEMMA SkipStep ==
  ASSUME ArgumentsInv, SkipValue
  PROVE  ArgumentsInv'
<1>1. /\ type \in Types /\ value \in Values(type) /\ phase = "layout" /\ LayoutWalk
      /\ AllAllowed /\ ~IsVector(current) /\ ~HasValueInvariants(current)
      /\ type' = type /\ value' = value /\ phase' = "accepted"
  BY DEF ArgumentsInv, SkipValue
<1>2. PICK S : TypesDone(S) /\ \A t \in S : ~IsStruct(t) /\ t.t # "signer"
  BY <1>1 DEF LayoutWalk
<1>3. ~IsStruct(current) /\ current.t # "signer" /\ TypeParts(current) = {}
  BY <1>1 DEF HasValueInvariants, TypeParts
<1>4. PICK T : T = S \cup {current}
  OBVIOUS
<1>5. type \in T /\ \A t \in T : TypeParts(t) \subseteq T
  BY <1>2, <1>3, <1>4 DEF TypesDone
<1>6. TypesInside(type) \subseteq T
  BY <1>5, TypesSeen
<1>7. \A t \in T : ~IsStruct(t) /\ t.t # "signer"
  BY <1>2, <1>3, <1>4
<1>8. AllFine
  <2> SUFFICES ASSUME NEW x \in Inside(type, value) PROVE Fine(x[1], x[2])
    BY DEF AllFine
  <2>1. x[1] \in T
    BY <1>1, <1>6, InsideTyped
  <2>2. ~IsStruct(x[1]) /\ x[1].t # "signer"
    BY <1>7, <2>1
  <2> QED  BY <2>2 DEF Fine, IsStruct
<1>9. AllAllowed' /\ AllFine'
  BY <1>1, <1>8 DEF AllAllowed, AllFine
<1> QED  BY <1>1, <1>9 DEF ArgumentsInv

LEMMA StartStep ==
  ASSUME ArgumentsInv, StartValue
  PROVE  ArgumentsInv'
<1>1. /\ type \in Types /\ value \in Values(type) /\ AllAllowed
      /\ stack' = << <<type, value>> >>
      /\ type' = type /\ value' = value /\ phase' = "value"
  BY DEF ArgumentsInv, StartValue
<1>2. PICK x : x = <<type, value>> /\ x \in Inside(type, value)
  BY InsideSelf
<1>3. <<x>> \in Seq(Inside(type, value)) /\ x \in Range(<<x>>)
  BY <1>2 DEF Range
<1>4. Whole({}, <<x>>)
  BY DEF Whole
<1>5. \E S : <<type, value>> \in S \cup Range(<<x>>) /\ Whole(S, <<x>>)
  BY <1>2, <1>3, <1>4
<1>6. ValueWalk'
  BY <1>1, <1>2, <1>3, <1>5 DEF ValueWalk
<1>7. AllAllowed'
  BY <1>1 DEF AllAllowed
<1> QED  BY <1>1, <1>6, <1>7 DEF ArgumentsInv

LEMMA AcceptStep ==
  ASSUME ArgumentsInv, Accept
  PROVE  ArgumentsInv'
<1>1. /\ type \in Types /\ value \in Values(type) /\ AllAllowed /\ ValueWalk /\ stack = <<>>
      /\ type' = type /\ value' = value /\ phase' = "accepted"
  BY DEF ArgumentsInv, Accept
<1>2. PICK S : <<type, value>> \in S \cup Range(stack) /\ Whole(S, stack)
  BY <1>1 DEF ValueWalk
<1>3. Range(stack) = {}
  BY <1>1 DEF Range
<1>4. <<type, value>> \in S /\ \A y \in S : Parts(y) \subseteq S
  BY <1>2, <1>3 DEF Whole
<1>5. Inside(type, value) \subseteq S
  BY <1>4, InsideLeast
<1>6. AllFine
  BY <1>2, <1>5 DEF AllFine, Whole
<1>7. AllAllowed' /\ AllFine'
  BY <1>1, <1>6 DEF AllAllowed, AllFine
<1> QED  BY <1>1, <1>7 DEF ArgumentsInv

LEMMA RefuseTypeStep ==
  ASSUME ArgumentsInv, RefuseType
  PROVE  ArgumentsInv'
<1>1. /\ type \in Types /\ value \in Values(type) /\ current \in TypesInside(type)
      /\ IsStruct(current) /\ ~InAllowed(current)
      /\ type' = type /\ value' = value /\ phase' = "refused"
  BY DEF ArgumentsInv, RefuseType
<1>2. ~AllAllowed
  BY <1>1 DEF AllAllowed, InAllowed
<1>3. ~AllAllowed'
  BY <1>1, <1>2 DEF AllAllowed
<1> QED  BY <1>1, <1>3 DEF ArgumentsInv

\* A stack without its top, and what is on it after a push of several.
LEMMA StackParts ==
  ASSUME NEW I, NEW s \in Seq(I), s # <<>>
  PROVE  /\ Last(s) \in I /\ Front(s) \in Seq(I)
         /\ Range(s) \subseteq Range(Front(s)) \cup {Last(s)}
<1>1. PICK n \in Nat : n = Len(s) /\ DOMAIN s = 1..n
  OBVIOUS
<1>2. n # 0
  BY <1>1
<1>3. Last(s) = s[n] /\ n \in 1..n
  BY <1>1, <1>2 DEF Last
<1>4. PICK k \in Nat : k = n - 1
  BY <1>2
<1>5. Front(s) = [i \in 1..k |-> s[i]]
  <2>1. Front(s) = SubSeq(s, 1, k)
    BY <1>1, <1>4 DEF Front
  <2>2. SubSeq(s, 1, k) = [i \in 1..k |-> s[i]]
    <3>1. SubSeq(s, 1, k) = [i \in 1..((k - 1) + 1) |-> s[(i + 1) - 1]]
      BY <1>4
    <3>2. (k - 1) + 1 = k /\ \A i \in 1..k : (i + 1) - 1 = i
      BY <1>4
    <3> QED  BY <3>1, <3>2
  <2> QED  BY <2>1, <2>2
<1>6. \A i \in 1..n : s[i] \in I
  BY <1>1
<1>7. \A i \in 1..k : i \in 1..n
  BY <1>1, <1>4
<1>8. Front(s) \in Seq(I)
  BY <1>5, <1>6, <1>7
<1>9. \A i \in 1..n : i \in 1..k \/ i = n
  BY <1>4
<1>10. Range(s) \subseteq Range(Front(s)) \cup {Last(s)}
  BY <1>1, <1>3, <1>5, <1>9 DEF Range
<1> QED  BY <1>3, <1>6, <1>8, <1>10

LEMMA ConcatRange ==
  ASSUME NEW I, NEW s \in Seq(I), NEW p \in Seq(I)
  PROVE  s \o p \in Seq(I) /\ Range(s) \cup Range(p) \subseteq Range(s \o p)
<1>1. PICK m \in Nat, n \in Nat : m = Len(s) /\ n = Len(p) /\ DOMAIN s = 1..m /\ DOMAIN p = 1..n
  OBVIOUS
<1>2. PICK q : q = s \o p
  OBVIOUS
<1>3. q \in Seq(I) /\ Len(q) = m + n /\ DOMAIN q = 1..(m + n)
  BY <1>1, <1>2
<1>4. \A i \in 1..m : q[i] = s[i] /\ i \in DOMAIN q
  BY <1>1, <1>2, <1>3
<1>5. \A i \in 1..n : q[m + i] = p[i] /\ m + i \in DOMAIN q
  <2> SUFFICES ASSUME NEW i \in 1..n PROVE q[m + i] = p[i] /\ m + i \in DOMAIN q
    OBVIOUS
  <2>1. PICK j \in Nat : j = m + i /\ j > m /\ j <= m + n /\ j - m = i
    <3>1. m + i \in Nat /\ m + i > m /\ m + i <= m + n /\ (m + i) - m = i
      BY <1>1
    <3> QED  BY <3>1
  <2>2. q[j] = p[j - m]
    BY <1>1, <1>2, <2>1
  <2>3. j \in DOMAIN q
    BY <1>1, <1>3, <2>1
  <2> QED  BY <2>1, <2>2, <2>3
<1>6. Range(s) \subseteq Range(q)
  BY <1>1, <1>4 DEF Range
<1>7. Range(p) \subseteq Range(q)
  BY <1>1, <1>5 DEF Range
<1> QED  BY <1>2, <1>3, <1>6, <1>7

LEMMA VisitStep ==
  ASSUME ArgumentsInv, Visit
  PROVE  ArgumentsInv'
<1>1. /\ type \in Types /\ value \in Values(type) /\ AllAllowed /\ ValueWalk
      /\ phase = "value" /\ stack # <<>> /\ type' = type /\ value' = value
  BY DEF ArgumentsInv, Visit
<1>2. PICK I : I = Inside(type, value) /\ stack \in Seq(I)
  BY <1>1 DEF ValueWalk
<1>3. PICK y : y = Last(stack)
  OBVIOUS
<1>4. PICK front : front = Front(stack)
  OBVIOUS
<1>5. y \in I /\ front \in Seq(I) /\ Range(stack) \subseteq Range(front) \cup {y}
  BY <1>1, <1>2, <1>3, <1>4, StackParts
<1>6. AllAllowed'
  BY <1>1 DEF AllAllowed
<1>7. CASE Refused(y[1], y[2])
  <2>1. phase' = "refused"
    BY <1>3, <1>7 DEF Visit
  <2>2. y[1] \in TypesInside(type)
    BY <1>1, <1>2, <1>5, InsideTyped
  <2>3. WellFormed(y[1]) /\ (IsStruct(y[1]) => InAllowed(y[1]))
    BY <1>1, <2>2, TypesWhole DEF AllAllowed, InAllowed
  <2>4. ~Fine(y[1], y[2])
    BY <1>7, <2>3, RefusedNotFine
  <2>5. ~AllFine'
    BY <1>1, <1>2, <1>5, <2>4 DEF AllFine
  <2> QED  BY <1>1, <2>1, <2>5 DEF ArgumentsInv
<1>8. CASE ~Refused(y[1], y[2])
  <2>1. PICK pushed : pushed = Pushed(y[1], y[2])
    OBVIOUS
  <2>2. phase' = "value" /\ stack' = front \o pushed
    BY <1>1, <1>3, <1>4, <1>8, <2>1 DEF Visit
  <2>3. pushed \in Seq(I) /\ \E C : y \in C /\ Whole(C, pushed)
    BY <1>1, <1>2, <1>5, <1>8, <2>1, VisitCovers DEF AllAllowed
  <2>4. PICK C : y \in C /\ Whole(C, pushed)
    BY <2>3
  <2>5. PICK S : <<type, value>> \in S \cup Range(stack) /\ Whole(S, stack)
    BY <1>1 DEF ValueWalk
  <2>6. PICK next : next = front \o pushed
    OBVIOUS
  <2>7. next \in Seq(I) /\ Range(front) \subseteq Range(next) /\ Range(pushed) \subseteq Range(next)
    BY <1>5, <2>3, <2>6, ConcatRange
  <2>8. <<type, value>> \in (S \cup C) \cup Range(next)
    BY <1>5, <2>4, <2>5, <2>7
  <2>9. Whole(S \cup C, next)
    BY <1>5, <2>4, <2>5, <2>7 DEF Whole
  <2>10. ValueWalk'
    BY <1>1, <1>2, <2>2, <2>6, <2>7, <2>8, <2>9 DEF ValueWalk
  <2> QED  BY <1>1, <1>6, <2>2, <2>10 DEF ArgumentsInv
<1> QED  BY <1>7, <1>8

\* The validation of arguments is exact for every set of types, every set of
\* values and resources, every sender and every limit on the nesting: no
\* argument that contains something its module would not have made gets in, and
\* none that is in order is turned away.
THEOREM ArgumentsValidated == Spec => []ValidationExact
<1>1. ArgumentsInv /\ [Next]_vars => ArgumentsInv'
  <2> SUFFICES ASSUME ArgumentsInv, [Next]_vars PROVE ArgumentsInv'
    OBVIOUS
  <2>1. CASE UNCHANGED vars
    BY <2>1 DEF vars, ArgumentsInv, TagWalk, LayoutWalk, ValueWalk, TypesDone, AllAllowed, AllFine
  <2> QED
    BY <2>1, TagStep, RefuseTypeStep, AllowStep, LayoutStep, SkipStep, StartStep, VisitStep,
       AcceptStep DEF Next
<1>2. ArgumentsInv => ValidationExact
  BY DEF ArgumentsInv, ValidationExact, AllFine
<1> QED  BY <1>1, <1>2, ArgumentsInit, PTL DEF Spec
=============================================================================
