\* Values of up to three levels, vectors of up to two elements.
SPECIFICATION EchoSpec
CONSTANTS
  Types <- MCTypes
  Values <- ValuesOf
  MaxDepth = 6
  Sender <- Alice
  Resources <- MCResources
  MaxLen = 2
\* The behaviours end with a refusal or a decoded value.
CHECK_DEADLOCK FALSE
INVARIANTS
  ValidationExact
  NoSignerFromEvm
  CleanEcho
