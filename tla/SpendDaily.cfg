CONSTANTS
    Resources = {report, quote}
    Nonces = {n1, n2}
    MaxUsd = 2
    MaxDay = 2
SPECIFICATION GatewaySpec
INVARIANT UsedTodayIsOfToday
CHECK_DEADLOCK FALSE
