SPECIFICATION NodeSpec
CONSTANTS
    d1 = d1
    d2 = d2
    c1 = c1
    alice = alice
    Tx <- MCTx
    Deposit <- MCDeposit
    Unexecutable = {}
    Short = {d2}
    Account <- MCAccount
    Sender <- MCSender
    Nonce <- MCNonce
    MaxNonce = 3
    Undecodable = Undecodable
    Genesis = Genesis
    PayloadId <- MCPayloadId
    Payload <- MCPayload
    MaxCrashes = 1
    RawTx <- MCRawTx
    Unsupported = Unsupported
    Capacity = 2
    IdBase = 2
INVARIANTS
    CleanParentExists
    ClientBlocksStored
    CleanAccounted
    CleanAsRequested
