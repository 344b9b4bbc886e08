CONSTANTS
    p1 = p1
    l1 = l1
    wallet = wallet
    zero = zero
    terms = terms
    none = none
    t1 = t1
    Pools <- MCPools
    Lines <- MCLines
    Receipts = {}
    Underwriters <- MCWallets
    Auditors <- MCWallets
    Borrowers <- MCWallets
    ZeroKey = zero
    Terms <- MCTerms
    NoTerms = none
    MaxU32 = 2
    MaxSlot = 7
    Tabs <- MCTabs
    Wallet = wallet
    PoolNotes = 2
    LineNotes = 2
    PoolTerm = 6
    Margin = 1
    MaxSent = 5
SPECIFICATION PageSpec
PROPERTY RefreshKeepsNotes
CHECK_DEADLOCK FALSE
