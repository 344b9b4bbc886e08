CONSTANTS
    p1 = p1
    p2 = p2
    l1 = l1
    wallet = wallet
    zero = zero
    Pools <- MCPools
    Lines <- MCLines
    Receipts = {}
    Underwriters <- MCWallets
    Auditors <- MCWallets
    Borrowers <- MCWallets
    ZeroKey = zero
    Terms = {1, 2}
    NoTerms = none
    MaxU32 = 2
    MaxSlot = 3
    Approver = wallet
    Client = wallet
    PoolSize = 2
    MaxSpend = 2
    MaxEdits = 4
SPECIFICATION UnderwriterSpec
INVARIANT LinesKeepTheirPoolsMaturity
CHECK_DEADLOCK FALSE
