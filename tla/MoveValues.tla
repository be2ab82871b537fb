----------------------------- MODULE MoveValues -----------------------------
(***************************************************************************)
(* Move types and values as the validation of entry arguments and the      *)
(* Solidity ABI see them: a type is a record with a field t, a value is    *)
(* what bcs reads for that type.  Bytes keep one distinction, whether they *)
(* can occur in UTF-8; an address keeps its upper twelve bytes apart from  *)
(* the twenty an Ethereum address has.                                     *)
(***************************************************************************)
EXTENDS Integers, Sequences, FiniteSets, SequencesExt

CONSTANTS
  Types,     \* types of arguments and of values sent to the EVM
  Values(_), \* what is deserialized for a type
  MaxDepth   \* how deep the Move VM lets types and values be nested

Uints == {"u8", "u16", "u32", "u64", "u128", "u256"}
Primitives == Uints \cup {"bool", "address", "signer"}

Prim(name) == [t |-> name]
Vector(type) == [t |-> "vector", of |-> type]
StructAt(module, name, args) == [t |-> "struct", module |-> module, name |-> name, args |-> args]

U8 == Prim("u8")
String == StructAt("string", "String", <<>>)
Object(type) == StructAt("object", "Object", <<type>>)
Option(type) == StructAt("option", "Option", <<type>>)
FixedPoint32 == StructAt("fixed_point32", "FixedPoint32", <<>>)
FixedPoint64 == StructAt("fixed_point64", "FixedPoint64", <<>>)
SolidityFixedBytes == StructAt("evm", "SolidityFixedBytes", <<>>)
SolidityFixedArray(type) == StructAt("evm", "SolidityFixedArray", <<type>>)

IsVector(type) == type.t = "vector"
IsStruct(type) == type.t = "struct"
IsNamed(type, struct) == IsStruct(type) /\ type.module = struct.module /\ type.name = struct.name

\* The types of the fields of a struct; a user struct wraps its arguments, or
\* a number when it has none.
FieldTypes(type) ==
  CASE type.name \in {"String", "SolidityFixedBytes"} -> <<Vector(U8)>>
    [] type.name \in {"Option", "SolidityFixedArray"} -> <<Vector(type.args[1])>>
    [] type.name = "Object"       -> <<Prim("address")>>
    [] type.name = "FixedPoint32" -> <<Prim("u64")>>
    [] type.name = "FixedPoint64" -> <<Prim("u128")>>
    [] OTHER -> IF type.args = <<>> THEN <<Prim("u64")>> ELSE type.args

-----------------------------------------------------------------------------
(* What types and values are made of: the parts, the parts of those, and   *)
(* so on, down to the nesting the VM allows.                               *)

\* The typed values a typed value is put together from.
Parts(x) ==
  IF IsVector(x[1]) THEN {<<x[1].of, x[2][i]>> : i \in DOMAIN x[2]}
  ELSE IF IsStruct(x[1]) THEN {<<FieldTypes(x[1])[i], x[2][i]>> : i \in DOMAIN x[2]}
  ELSE {}

\* What is at most so many levels inside a typed value.
DownTo(x) ==
  LET down[n \in 0..MaxDepth] ==
        IF n = 0 THEN {x} ELSE UNION {{y} \cup Parts(y) : y \in down[n - 1]}
  IN down

\* All the typed values inside a typed value, itself included.
Inside(type, value) == DownTo(<<type, value>>)[MaxDepth]

\* The types of the elements or fields.
TypeParts(type) ==
  IF IsVector(type) THEN {type.of}
  ELSE IF IsStruct(type) THEN Range(FieldTypes(type))
  ELSE {}

TypesDownTo(type) ==
  LET down[n \in 0..MaxDepth] ==
        IF n = 0 THEN {type} ELSE UNION {{t} \cup TypeParts(t) : t \in down[n - 1]}
  IN down

\* All the types a value of a type is made of.
TypesInside(type) == TypesDownTo(type)[MaxDepth]

\* A type as the VM loads it, and a value that has the shape of its type.
WellFormed(type) ==
  \/ type.t \in Primitives
  \/ IsVector(type)
  \/ /\ IsStruct(type) /\ type = StructAt(type.module, type.name, type.args)
     /\ type.args \in Seq(Range(type.args))
     /\ type.name \in {"Option", "SolidityFixedArray"} => type.args # <<>>

HasShape(type, value) ==
  /\ IsVector(type) => value \in Seq(Range(value))
  /\ IsStruct(type) => DOMAIN value = DOMAIN FieldTypes(type)

\* The VM gives out types and values that are nested no deeper than its limit.
ASSUME ValuesAssumption ==
  /\ MaxDepth \in Nat
  /\ \A type \in Types :
       LET all == TypesInside(type)
       IN \A t \in all : WellFormed(t) /\ TypeParts(t) \subseteq all
  /\ \A type \in Types : \A value \in Values(type) :
       LET all == Inside(type, value)
       IN \A y \in all : HasShape(y[1], y[2]) /\ Parts(y) \subseteq all

IsUtf8(bytes) == \A i \in DOMAIN bytes : bytes[i] # 255
=============================================================================
