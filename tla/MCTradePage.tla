---------------------------- MODULE MCTradePage ----------------------------
(* TradePage with one wallet. *)
EXTENDS TradePage

CONSTANTS p1, l1, wallet, zero, terms, none, t1

MCPools == {p1}
MCLines == {l1}
MCWallets == {wallet}
MCTerms == {terms}
MCTabs == {t1}

============================================================================
