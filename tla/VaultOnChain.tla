---------------------------- MODULE VaultOnChain ----------------------------
(***************************************************************************)
(* The credit-vault program on a chain whose slot advances on its own.     *)
(* The program does not read the slot: every instruction that depends on   *)
(* the time carries it as the argument current_slot, and the handlers      *)
(* compare that argument with the maturity.  The chain accepts any value.  *)
(***************************************************************************)
EXTENDS CreditVault

\* The clients of the program make a new key pair for every account they create
\* (Keypair.generate) and size it for its type, so no address is used as two.
\* CreditVault itself does not assume this.
ASSUME FreshKeyAssumption ==
    /\ Pools \cap Lines = {}
    /\ Lines \cap Receipts = {}
    /\ Receipts \cap Pools = {}

VARIABLE slot  \* the slot the chain is at

chainVars == <<pool, line, receipt, spoilt, slot>>

ChainInit == Init /\ slot = 0

\* Time passes.  MaxSlot bounds the model only.
Tick ==
    /\ slot < MaxSlot
    /\ slot' = slot + 1
    /\ UNCHANGED vars

ChainNext == (Next /\ UNCHANGED slot) \/ Tick

ChainSpec == ChainInit /\ [][ChainNext]_chainVars

=============================================================================
