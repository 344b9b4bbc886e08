-------------------------- MODULE MCUnderwriterPage --------------------------
(* Two pools that the underwriter may type, and one line. *)
EXTENDS UnderwriterPage

CONSTANTS p1, p2, l1, wallet, zero

MCPools == {p1, p2}
MCLines == {l1}
MCWallets == {wallet}

=============================================================================
