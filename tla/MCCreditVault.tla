---------------------------- MODULE MCCreditVault ----------------------------
(***************************************************************************)
(* CreditVault on three addresses: one that is only ever passed as a pool, *)
(* one that is passed as any of the three types, and one that is passed as *)
(* a line or as a receipt.                                                 *)
(***************************************************************************)
EXTENDS CreditVault

CONSTANTS poolOnly, anyType, noPool, under, borrow, zero, terms, none

MCPools == {poolOnly, anyType}
MCLines == {anyType, noPool}
MCReceipts == {anyType, noPool}
MCUnderwriters == {under}
MCBorrowers == {borrow}
MCTerms == {terms}

==============================================================================
