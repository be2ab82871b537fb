------------------------------ MODULE Arguments ------------------------------
(***************************************************************************)
(* An argument of an entry function comes from the bytes of a transaction  *)
(* and is validated before the call (execute_entry_function): first its    *)
(* type, then, when the layout calls for it, its value.  Each of the three *)
(* is a walk, one step per turn.                                           *)
(***************************************************************************)
EXTENDS TagValidation

VARIABLES
  type,    \* type of the argument, from the signature of the function
  value,   \* what its bytes are deserialized to
  phase,   \* "tag", "layout", "value"; then "accepted" or "refused"
  current, \* type the walk over tag or layout is at
  stack    \* of validate_entry_value

vars == <<type, value, phase, current, stack>>

Init ==
  /\ type \in Types
  /\ value \in Values(type)
  /\ phase = "tag"
  /\ current = type
  /\ stack = <<>>

\* The loop of validate_entry_type_tag.
DescendTag ==
  /\ phase = "tag"
  /\ current' \in NextTags(current)
  /\ UNCHANGED <<type, value, phase, stack>>

RefuseType ==
  /\ phase = "tag" /\ IsStruct(current) /\ ~ InAllowed(current)
  /\ phase' = "refused"
  /\ UNCHANGED <<type, value, current, stack>>

AllowType ==
  /\ phase = "tag" /\ NextTags(current) = {}
  /\ IsStruct(current) => InAllowed(current)
  /\ phase' = "layout"
  /\ current' = type
  /\ UNCHANGED <<type, value, stack>>

\* has_value_invariants, and what follows from its answer.
DescendLayout ==
  /\ phase = "layout" /\ IsVector(current)
  /\ current' = current.of
  /\ UNCHANGED <<type, value, phase, stack>>

SkipValue ==
  /\ phase = "layout" /\ ~ IsVector(current) /\ ~ HasValueInvariants(current)
  /\ phase' = "accepted"
  /\ UNCHANGED <<type, value, current, stack>>

StartValue ==
  /\ phase = "layout" /\ HasValueInvariants(current)
  /\ phase' = "value"
  /\ stack' = << <<type, value>> >>
  /\ UNCHANGED <<type, value, current>>

\* The loop of validate_entry_value.
Visit ==
  /\ phase = "value" /\ stack # <<>>
  /\ LET top == Last(stack)
     IN IF Refused(top[1], top[2])
          THEN phase' = "refused" /\ UNCHANGED stack
          ELSE stack' = Front(stack) \o Pushed(top[1], top[2]) /\ UNCHANGED phase
  /\ UNCHANGED <<type, value, current>>

Accept ==
  /\ phase = "value" /\ stack = <<>>
  /\ phase' = "accepted"
  /\ UNCHANGED <<type, value, current, stack>>

Next ==
  \/ DescendTag \/ RefuseType \/ AllowType
  \/ DescendLayout \/ SkipValue \/ StartValue
  \/ Visit \/ Accept

Spec == Init /\ [][Next]_vars

-----------------------------------------------------------------------------
(* Properties *)

\* Nothing of a type is a struct that only its own module may make.
AllAllowed == \A t \in TypesInside(type) : IsStruct(t) => Info(t) \in Allowed

\* A value its own module would have made: the sender's signature, a string of
\* UTF-8, an option of at most one value, an object that exists.
Fine(t, v) ==
  CASE t.t = "signer" -> v = Sender
    [] t.t = "struct" ->
         \/ IsNamed(t, String) /\ IsUtf8(v[1])
         \/ IsNamed(t, FixedPoint32) \/ IsNamed(t, FixedPoint64)
         \/ IsNamed(t, Option(U8)) /\ Len(v[1]) \in {0, 1}
         \/ IsNamed(t, Object(U8)) /\ {<<v[1], ObjectCore>>, <<v[1], t.args[1]>>} \subseteq Resources
    [] OTHER -> TRUE

\* The validation, three walks that look at names and know the layout of the
\* structs they let in, decides exactly what the comments of the code ask for,
\* however deep the value is: an argument gets in when nothing inside it is a
\* struct that only its own module may make, a foreign signer, a string that is
\* not UTF-8, an option of two values or an object that does not exist
\* (validate_entry_type_tag, has_value_invariants, validate_entry_value).
ValidationExact ==
  /\ phase = "accepted" => /\ AllAllowed
                           /\ \A x \in Inside(type, value) : Fine(x[1], x[2])
  /\ phase = "refused" => \/ ~ AllAllowed
                          \/ \E x \in Inside(type, value) : ~ Fine(x[1], x[2])
=============================================================================
