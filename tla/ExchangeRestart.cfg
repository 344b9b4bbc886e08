CONSTANTS
    Wallets = {w1, w2}
    Markets = {m1}
    Asks = {0, 1, 2}
    Face = 3
    Demo = demo
    DemoLots = 1
    Funds = 2
    MaxOrders = 1
    MaxBuys = 2
    MaxOutside = 0
    MaxRestarts = 1

SYMMETRY Symmetry

SPECIFICATION Spec

INVARIANT
    PaymentReachesTheSeller

CHECK_DEADLOCK FALSE
