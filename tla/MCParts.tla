------------------------------- MODULE MCParts -------------------------------
(* Values for the constants of Parts. *)
EXTENDS Parts

CONSTANTS p1, p2, l1, l2, wallet, zero

MCPools == {p1, p2}
MCLines == {l1, l2}
MCWallets == {wallet}
MCDeals ==
    {[line |-> "A", to |-> "X", kind |-> "draw", notes |-> 1],
     [line |-> "A", to |-> "Y", kind |-> "draw", notes |-> 1],
     [line |-> "B", to |-> "X", kind |-> "repay", notes |-> 2]}
MCInputs ==
    [inventory : {0, 3, 12}, exposure : {1, 3, 12}, drawdown : {0, 4, 13},
     venues : {3, 7}]
MCMandates == [maxDrawdown : {0, 12}, maxDailySpend : {1}]

=============================================================================
