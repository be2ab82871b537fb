SPECIFICATION Spec
CONSTANTS
    alice = alice
    c = c
    s1 = s1
    s2 = s2
    native = native
    User <- MCUser
    Contract <- MCContract
    Slot <- MCOneSlot
    Native = native
    Treasury = native
    Value = {0, 1}
    Initial = 4
    MaxAmount = 1
    MaxLimit = 2
    IntrinsicGas = 1
    MaxCalls = 2
    MaxTx = 2
INVARIANTS
    NothingFromNothing
    RefundSucceeds
    RootsMatchTries
    CleanReflected
    CleanTreasury
    CleanConsistent
