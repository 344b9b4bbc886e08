------------------------------ MODULE MCExchange ------------------------------
(***************************************************************************)
(* Exchange with interchangeable wallets, for its model-checking runs.     *)
(***************************************************************************)
EXTENDS Exchange

Symmetry == Permutations(Wallets)
=============================================================================
