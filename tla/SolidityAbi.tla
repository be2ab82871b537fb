----------------------------- MODULE SolidityAbi -----------------------------
(***************************************************************************)
(* evm-ext/src/solidity_abi.rs: Move values to Solidity values to bytes,   *)
(* and back.  The two directions are separate functions in the code: one   *)
(* looks at the value, the other at the layout only.  Bytes on the wire    *)
(* are a sequence of words: numbers, packed data, and references to the    *)
(* words of a dynamic value (an offset).                                   *)
(***************************************************************************)
EXTENDS MoveValues

Sol(s, v) == [s |-> s, v |-> v]

\* A Move address loses its upper bytes.
ToEthAddress(a)  == a.low
ToMoveAddress(n) == [high |-> 0, low |-> n]

RECURSIVE MoveValueToSolValue(_, _)
MoveValueToSolValue(type, value) ==
  CASE type.t \in {"address", "signer"} -> Sol("address", ToEthAddress(value))
    [] type.t = "bool"   -> Sol("bool", value)
    [] type.t \in Uints  -> Sol("uint", value)
    [] type.t = "vector" ->
         IF value # <<>> /\ type.of.t = "u8"
           THEN Sol("bytes", value)
           ELSE Sol("array", [i \in DOMAIN value |-> MoveValueToSolValue(type.of, value[i])])
    [] IsNamed(type, SolidityFixedBytes) -> Sol("fixed_bytes", value[1])
    [] IsNamed(type, SolidityFixedArray(U8)) ->
         Sol("fixed_array", [i \in DOMAIN value[1] |-> MoveValueToSolValue(type.args[1], value[1][i])])
    [] OTHER -> Sol("tuple", [i \in DOMAIN value |-> MoveValueToSolValue(FieldTypes(type)[i], value[i])])

\* Faulty: byte vectors are arrays like any other.
IsBytesNever(type) == FALSE

\* The special case for byte arrays.
IsBytes(type) == IsVector(type) /\ type.of.t = "u8"

\* The Solidity type of a layout, or none (<<>>) for a fixed array.
RECURSIVE LayoutToSolType(_)
LayoutToSolType(type) ==
  CASE type.t \in Uints -> <<Sol("uint", type.t)>>
    [] type.t = "bool" -> <<Sol("bool", type.t)>>
    [] type.t \in {"address", "signer"} -> <<Sol("address", type.t)>>
    [] IsBytes(type) -> <<Sol("bytes", "u8")>>
    [] IsVector(type) -> LET inner == LayoutToSolType(type.of)
                         IN IF inner = <<>> THEN <<>> ELSE <<Sol("array", inner[1])>>
    [] IsNamed(type, SolidityFixedBytes) -> <<Sol("fixed_bytes", "u8")>>
    [] IsNamed(type, SolidityFixedArray(U8)) -> <<>>
    [] IsNamed(type, String) -> <<Sol("string", "u8")>>
    [] OTHER -> LET inner == [i \in DOMAIN FieldTypes(type) |-> LayoutToSolType(FieldTypes(type)[i])]
                IN IF \E i \in DOMAIN inner : inner[i] = <<>> THEN <<>>
                   ELSE <<Sol("tuple", [i \in DOMAIN inner |-> inner[i][1]])>>

-----------------------------------------------------------------------------
(* The encoding of alloy's dynamic values *)

Num(n)  == [w |-> "num", v |-> n]
Data(b) == [w |-> "data", v |-> b]
Ref(c)  == [w |-> "ref", v |-> c]

RECURSIVE IsDynamic(_)
IsDynamic(sol) ==
  \/ sol.s \in {"bytes", "string", "array"}
  \/ sol.s \in {"tuple", "fixed_array"} /\ \E i \in DOMAIN sol.v : IsDynamic(sol.v[i])

RECURSIVE Words(_)
Words(sol) ==
  LET all == FoldLeft(LAMBDA acc, x : acc \o Words(x), <<>>, sol.v)
  IN CASE sol.s = "fixed_bytes" -> <<Data(sol.v)>>
       [] sol.s = "bytes" -> <<Ref(<<Num(Len(sol.v)), Data(sol.v)>>)>>
       [] sol.s = "array" -> <<Ref(<<Num(Len(sol.v))>> \o all)>>
       [] sol.s \in {"tuple", "fixed_array"} -> IF IsDynamic(sol) THEN <<Ref(all)>> ELSE all
       [] sol.s = "bool" -> <<Num(IF sol.v THEN 1 ELSE 0)>>
       [] OTHER -> <<Num(sol.v)>>

\* A tuple is a list of parameters, anything else is the only one.
AbiEncodeParams(sol) ==
  IF sol.s = "tuple" THEN FoldLeft(LAMBDA acc, x : acc \o Words(x), <<>>, sol.v) ELSE Words(sol)

\* Head words a value of a Solidity type takes.
RECURSIVE Width(_)
Width(type) ==
  IF type.s = "tuple" /\ ~ IsDynamic(type)
    THEN FoldLeft(LAMBDA acc, x : acc + Width(x), 0, type.v) ELSE 1

\* Reads a value of a type at position i: <<value>>, or <<>> when the words do
\* not have that shape (an error, or a value made of something else).
RECURSIVE Read(_, _, _), ReadAll(_, _, _)
Read(type, words, i) ==
  IF i > Len(words) THEN <<>>
  ELSE LET word == words[i]
       IN CASE type.s \in {"uint", "address"} ->
                 IF word.w = "num" THEN <<Sol(type.s, word.v)>> ELSE <<>>
            [] type.s = "bool" ->
                 IF word.w = "num" THEN <<Sol(type.s, word.v # 0)>> ELSE <<>>
            [] type.s = "fixed_bytes" ->
                 IF word.w = "data" THEN <<Sol(type.s, word.v)>> ELSE <<>>
            [] type.s \in {"bytes", "string"} ->
                 IF word.w # "ref" THEN <<>>
                 ELSE IF word.v[1].w = "num" /\ word.v[1].v = 0 THEN <<Sol(type.s, <<>>)>>
                 ELSE IF Len(word.v) = 2 /\ word.v[1].w = "num" /\ word.v[2].w = "data"
                   THEN <<Sol(type.s, word.v[2].v)>> ELSE <<>>
            [] type.s = "array" ->
                 IF word.w # "ref" \/ word.v[1].w # "num" THEN <<>>
                 ELSE LET items == ReadAll([k \in 1..word.v[1].v |-> type.v], word.v, 2)
                      IN IF items = <<>> THEN <<>> ELSE <<Sol("array", items[1])>>
            [] type.s = "tuple" ->
                 IF IsDynamic(type) /\ word.w # "ref" THEN <<>>
                 ELSE LET items == IF IsDynamic(type) THEN ReadAll(type.v, word.v, 1)
                                                      ELSE ReadAll(type.v, words, i)
                      IN IF items = <<>> THEN <<>> ELSE <<Sol("tuple", items[1])>>

\* Reads values of the types in a row: <<values>> or <<>>.
ReadAll(types, words, i) ==
  IF types = <<>> THEN << <<>> >>
  ELSE LET first == Read(Head(types), words, i)
           rest  == ReadAll(Tail(types), words, i + Width(Head(types)))
       IN IF first = <<>> \/ rest = <<>> THEN <<>> ELSE <<first \o rest[1]>>

AbiDecodeParams(type, words) ==
  IF type.s = "tuple"
    THEN LET fields == ReadAll(type.v, words, 1)
         IN IF fields = <<>> THEN <<>> ELSE <<Sol("tuple", fields[1])>>
    ELSE Read(type, words, 1)

-----------------------------------------------------------------------------
(* Back to Move *)

\* Faulty: a signer is decoded like an address.
AddressToValueAny(type, n) == <<ToMoveAddress(n)>>

\* An address may become an address, never a signer.
AddressToValue(type, n) == IF type.t = "address" THEN <<ToMoveAddress(n)>> ELSE <<>>

\* sol_to_value.  Arrays are built with Value::vector_for_testing_only whatever
\* their elements are; how the VM then stores them is external, so they are
\* sequences here.  Integers are truncated to the width of the layout, which
\* changes nothing in an echo: what is decoded was encoded from that layout.
RECURSIVE SolToValue(_, _)
SolToValue(sol, type) ==
  CASE sol.s \in {"bool", "uint", "bytes"} -> <<sol.v>>
    [] sol.s = "address" -> AddressToValue(type, sol.v)
    [] sol.s \in {"string", "fixed_bytes"} -> << <<sol.v>> >>
    [] sol.s \in {"array", "tuple"} ->
         LET inner == [i \in DOMAIN sol.v |->
                         SolToValue(sol.v[i], IF sol.s = "array" THEN type.of ELSE FieldTypes(type)[i])]
         IN IF \E i \in DOMAIN inner : inner[i] = <<>> THEN <<>>
            ELSE << [i \in DOMAIN inner |-> inner[i][1]] >>

\* inner_abi_encode_params; the shortcuts for small numbers and for an empty
\* vector give the words of the general case.
InnerAbiEncodeParams(type, value) == AbiEncodeParams(MoveValueToSolValue(type, value))

\* inner_abi_decode_params: <<value>>, or <<>> for an abort.
InnerAbiDecodeParams(type, words) ==
  LET sol_type == LayoutToSolType(type)
  IN IF sol_type = <<>> THEN <<>>
     ELSE LET sol == AbiDecodeParams(sol_type[1], words)
          IN IF sol = <<>> THEN <<>> ELSE SolToValue(sol[1], type)
=============================================================================
