CONSTANTS
    Wallets = {w1, w2}
    Markets = {m1}
    Asks = {0, 2}
    Face = 3
    Demo = demo
    DemoLots = 1
    Funds = 2
    MaxOrders = 1
    MaxBuys = 2
    MaxOutside = 1
    MaxRestarts = 1

SYMMETRY Symmetry

SPECIFICATION Spec

INVARIANTS
    ExchangeTypeOK
    OrdersSellOnce
    PaymentsAreTrue
    PaymentsMeetTheirTrades
    QuoteTellsTrades

PROPERTY
    OrdersEndOnce

CHECK_DEADLOCK FALSE
