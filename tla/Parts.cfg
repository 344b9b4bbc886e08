CONSTANTS
    Markets = {m1, m2}
    Signers = {"auditor", "stranger"}
    NoteSizes = {100}
    Rates = {0, 75}
    MaxNotes = 3
    LastSlot = 3
    MaxReceipts = 1
    Resources = {report, quote}
    Nonces = {n1, n2}
    MaxUsd = 2
    MaxDay = 2
    NoteIds = {note1, note2}
    Owners = {a, b}
    MaxOrders = 2
    MaxVisits = 3
    p1 = p1
    p2 = p2
    l1 = l1
    l2 = l2
    wallet = wallet
    zero = zero
    Pools <- MCPools
    Lines <- MCLines
    Receipts = {}
    Underwriters <- MCWallets
    Auditors <- MCWallets
    Borrowers <- MCWallets
    ZeroKey = zero
    Terms = {1, 2}
    NoTerms = none
    MaxU32 = 2
    MaxSlot = 3
    Self = wallet
    NoteLimit = 2
    Term = 2
    Ahead = 1
    Mints = {t1, t2}
    Supply = 2
    MaxClicks = 4
    Approver = wallet
    Client = wallet
    PoolSize = 2
    MaxSpend = 3
    MaxEdits = 3
    SlotsPassed = 2
    Clients = {c1, c2}
    HitLimit = 2
    VerifyLimit = 2
    Window = 2
    PruneAbove = 0
    TrackCap = 1
    FeedCap = 1
    MaxProofs = 2
    MaxTime = 3
    MaxHits = 4
    Deals <- MCDeals
    MaxLetters = 2
    RiskInputs <- MCInputs
    Mandates <- MCMandates
    MaxChecks = 2
    Moments = {1, 2}
    SlotsPerYear = 1000
    Readers = {r1, r2}
    SpotTtl = 3
    CandleTtl = 4
    FetchLimit = 2
    DaysAsked = {0, 30}
    LastTime = 7
SPECIFICATION PartsSpec
INVARIANTS
    PartsTypeOK
    AmountsAddUp
    StatusTellsDebt
    WorkerTellsTheDebt
    SpendingIsCounted
    NotesAreKept
    OfferedOnce
    DashboardKeepsAccounts
    MandateKept
    ScriptsExpectWhatHappens
    ClientsSpeakTheProgramsBytes
    LimitsAreKept
    VerifierBudgetKept
    SealedStaysWhole
    RiskIsJudgedAlike
    AnswersKeepTheirTime
PROPERTIES
    EndedLinesStayEnded
    RepaidStaysRepaid
CHECK_DEADLOCK FALSE
