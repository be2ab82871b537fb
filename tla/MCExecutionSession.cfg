SPECIFICATION Spec
CONSTANTS
    alice = alice
    c = c
    s1 = s1
    s2 = s2
    native = native
    User <- MCUser
    Contract <- MCContract
    Slot <- MCSlot
    Native = native
    Treasury = native
    Value = {0, 1}
    Initial = 3
    MaxAmount = 1
    MaxLimit = 2
    IntrinsicGas = 1
    MaxCalls = 2
    MaxTx = 3
INVARIANTS
    SessionConsistent
