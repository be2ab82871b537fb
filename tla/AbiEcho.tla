------------------------------- MODULE AbiEcho -------------------------------
(***************************************************************************)
(* A value of a Move program goes to the EVM and comes back through the    *)
(* ABI natives (abi_encode_params, abi_decode_params); here a contract     *)
(* echoes it.  The program has made the value itself, or it is an argument *)
(* that the validation has let in.                                         *)
(***************************************************************************)
EXTENDS Arguments, SolidityAbi

VARIABLES
  wire,     \* words given to the EVM: <<>> before, <<words>> after encoding
  returned, \* whether abi_decode_params has returned
  result    \* what it returned: <<value>>, or <<>> for an abort

abi == <<wire, returned, result>>

\* What the modules of the framework guarantee of the values a Move program
\* makes: the constructors of strings and options check.
HeldByMove(t, v) ==
  \A x \in Inside(t, v) :
    /\ IsNamed(x[1], String) => IsUtf8(x[2][1])
    /\ IsNamed(x[1], Option(U8)) => Len(x[2][1]) <= 1

\* A value the program has made is not validated: its phase is "held".
HeldInit ==
  /\ type \in Types
  /\ value \in Values(type)
  /\ HeldByMove(type, value)
  /\ phase = "held"
  /\ current = type
  /\ stack = <<>>

EchoInit ==
  /\ Init \/ HeldInit
  /\ wire = <<>>
  /\ returned = FALSE
  /\ result = <<>>

EncodeParams ==
  /\ phase \in {"held", "accepted"} /\ wire = <<>>
  /\ wire' = <<InnerAbiEncodeParams(type, value)>>
  /\ UNCHANGED <<vars, returned, result>>

DecodeParams ==
  /\ wire # <<>> /\ ~ returned
  /\ returned' = TRUE
  /\ result' = InnerAbiDecodeParams(type, wire[1])
  /\ UNCHANGED <<vars, wire>>

EchoNext ==
  \/ Next /\ UNCHANGED abi
  \/ EncodeParams
  \/ DecodeParams

EchoSpec == EchoInit /\ [][EchoNext]_<<vars, abi>>

-----------------------------------------------------------------------------
(* Properties *)

\* No signer is ever made from bytes the EVM returns, at any depth
\* (sol_to_value: signatures could be forged for any address).
NoSignerFromEvm ==
  result # <<>> => \A x \in Inside(type, result[1]) : x[1].t # "signer"

\* The values whose type can be decoded at all, and whose addresses are Ethereum
\* addresses.
Echoable ==
  /\ \A t \in TypesInside(type) : t.t # "signer" /\ ~ IsNamed(t, SolidityFixedArray(U8))
  /\ \A x \in Inside(type, value) : x[1].t = "address" => x[2].high = 0

\* A value sent to the EVM and returned unchanged is the same value, although
\* the encoding follows the value and the decoding the layout, as long as it has
\* no string below the top; so is an argument that was let in, whatever bytes it
\* came from (inner_abi_encode_params, inner_abi_decode_params).
CleanEcho ==
  returned /\ Echoable /\ (type = String \/ String \notin TypesInside(type)) =>
    result = <<value>>

\* The same for every value.  Does not hold: a string inside a struct or a vector
\* is encoded as a tuple of bytes and decoded as a string.
EchoedUnchanged == returned /\ Echoable => result = <<value>>
=============================================================================
