---------------------------- MODULE TagValidation ----------------------------
(***************************************************************************)
(* execution/src/tag_validation.rs: which types an argument of an entry    *)
(* function may have, and which values of them.  Values are checked with   *)
(* an explicit stack of typed values; Visit is one turn of that loop.      *)
(***************************************************************************)
EXTENDS MoveValues

CONSTANTS
  Sender,    \* the signer of the transaction
  Resources  \* pairs <<address, type>>: the resources in storage

\* ALLOWED_STRUCTS; the type arguments are not part of the comparison.
Allowed == {String, FixedPoint32, FixedPoint64,
            [Object(U8) EXCEPT !.args = <<>>], [Option(U8) EXCEPT !.args = <<>>]}

ObjectCore == StructAt("object", "ObjectCore", <<>>)

\* MoveStructInfo: address (part of the module here), module and name.
Info(type) == [type EXCEPT !.args = <<>>]

\* Faulty: any module may have a struct of that name.
InAllowedByName(type) == type.name \in {a.name : a \in Allowed}

InAllowed(type) == Info(type) \in Allowed

\* One turn of the loop of validate_entry_type_tag, which goes into vectors and
\* options, not into the phantom argument of an object: the tags it goes on to.
NextTags(tag) ==
  IF IsVector(tag) THEN {tag.of}
  ELSE IF IsStruct(tag) /\ InAllowed(tag) /\ tag.name = "Option" /\ tag.args # <<>>
    THEN {tag.args[1]}
  ELSE {}

\* has_value_invariants, where it does not go into a vector: primitives other
\* than signers are not even read.
HasValueInvariants(layout) == layout.t = "signer" \/ IsStruct(layout)

ResourceExists(addr, type) == <<addr, type>> \in Resources

ValidateString(fields) == IsUtf8(fields[1])
ValidateObject(fields, inner) == ResourceExists(fields[1], ObjectCore) /\ ResourceExists(fields[1], inner)
ValidateOption(fields) == Len(fields[1]) <= 1

\* One turn of the loop of validate_entry_value: what is refused at once, and
\* what is pushed for later turns.
Refused(type, value) ==
  \/ type.t = "signer" /\ value # Sender
  \/ /\ IsStruct(type)
     /\ \/ type.name = "String" /\ ~ ValidateString(value)
        \/ type.name = "Object" /\ ~ ValidateObject(value, type.args[1])
        \/ type.name = "Option" /\ ~ ValidateOption(value)
        \/ type.name \notin {a.name : a \in Allowed}

Pushed(type, value) ==
  IF IsVector(type)
    THEN [i \in DOMAIN value |-> <<type.of, value[i]>>]
  ELSE IF IsStruct(type) /\ type.name = "Option"
    THEN [i \in DOMAIN value[1] |-> <<type.args[1], value[1][i]>>]
  ELSE <<>>
=============================================================================
