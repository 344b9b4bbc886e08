CONSTANTS
    poolOnly = poolOnly
    anyType = anyType
    noPool = noPool
    under = under
    borrow = borrow
    zero = zero
    terms = terms
    none = none
    Pools <- MCPools
    Lines <- MCLines
    Receipts <- MCReceipts
    Underwriters <- MCUnderwriters
    Auditors <- MCUnderwriters
    Borrowers <- MCBorrowers
    ZeroKey = zero
    Terms <- MCTerms
    NoTerms = none
    MaxU32 = 2
    MaxSlot = 2
SPECIFICATION Spec
INVARIANTS
    TypeOK
    LineAccounting
    PoolConserved
    LineMatchesPool
    PoolAccounting
    DebtCanAlwaysLeave
CHECK_DEADLOCK FALSE
PROPERTIES
    CountersOnlyGrow
    StoppedLinesWait
    ImplementsLedger
