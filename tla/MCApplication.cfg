SPECIFICATION Spec
CONSTANTS
    d1 = d1
    dx = dx
    c1 = c1
    c2 = c2
    alice = alice
    Tx <- MCTx
    Deposit <- MCDeposit
    Unexecutable = {dx}
    Short = {}
    Account <- MCAccount
    Sender <- MCSender
    Nonce <- MCNonce
    MaxNonce = 3
    Undecodable = Undecodable
    Genesis = Genesis
    PayloadId = {1, 2}
    Payload <- MCPayload
    MaxCrashes = 1
INVARIANTS
    ChainLinked
    NoncesConsumedInOrder
    RootsNested
    GenesisReapplies
    CleanVersionAtHeight
    CleanReplay
PROPERTIES
    PayloadsStable
    ReceiptsStable
    ImplementsLedger
