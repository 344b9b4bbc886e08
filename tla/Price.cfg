CONSTANTS
    Chains = {c1, c2}
    Stale = 2
    Grace = 1
    MaxDelay = 2

SPECIFICATION Spec

INVARIANTS
    PriceTypeOK
    LiveMeansDelivering
    SourcesAreOpened

PROPERTY
    ReturnsToPrimary
