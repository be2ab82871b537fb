------------------------------ MODULE MCValues -------------------------------
(* Types of up to three levels, and every value of them over two bytes, two    *)
(* numbers of each width and two addresses.                                    *)
EXTENDS MoveValues

CONSTANT MaxLen  \* bound: length of a vector

Alice == [high |-> 0, low |-> 1]
Wide  == [high |-> 1, low |-> 2]
Token == StructAt("token", "Token", <<>>)
Fake  == StructAt("token", "String", <<>>)

Base == {Prim(p) : p \in {"u8", "u16", "bool", "address", "signer"}}
        \cup {String, Object(Token), FixedPoint32, FixedPoint64, Token, Fake, SolidityFixedBytes}

Over(S) == {Vector(t) : t \in S} \cup {Option(t) : t \in S}

MCTypes == Base \cup Over(Base) \cup Over(Over(Base \ {Prim("u16"), SolidityFixedBytes, Fake, FixedPoint64}))
         \cup {SolidityFixedArray(t) : t \in Base}
         \cup {StructAt("token", "Pair", <<s, t>>) : s \in {U8, String, Vector(U8)}, t \in Base}

\* 65 is ASCII, 255 occurs in no UTF-8 text.
Bytes == {65, 255}

\* Stands for the largest number of the type.
MaxUint == [t \in Uints |-> CASE t = "u8" -> 255 [] t = "u16" -> 65535 [] OTHER -> 2147483647]

RECURSIVE ValuesOf(_)
ValuesOf(type) ==
  CASE type.t = "u8"     -> Bytes
    [] type.t \in Uints \ {"u8"} -> {0, MaxUint[type.t]}
    [] type.t = "bool"   -> BOOLEAN
    [] type.t \in {"address", "signer"} -> {Alice, Wide}
    [] type.t = "vector" -> SeqOf(ValuesOf(type.of), MaxLen)
    [] type.t = "struct" ->
         FoldLeft(LAMBDA acc, field : {Append(s, v) : s \in acc, v \in ValuesOf(field)},
                  {<<>>}, FieldTypes(type))
=============================================================================
