\* Strings inside structs and vectors do not survive the way to the EVM and back.
SPECIFICATION EchoSpec
CONSTANTS
  Types <- MCTypes
  Values <- ValuesOf
  MaxDepth = 6
  Sender <- Alice
  Resources <- MCResources
  MaxLen = 2
\* The behaviours end with a refusal or a decoded value.
CHECK_DEADLOCK FALSE
INVARIANT
  EchoedUnchanged
