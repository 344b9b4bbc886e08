----------------------------- MODULE WireFormat -----------------------------
(***************************************************************************)
(* The bytes between the clients and the program.  A layout is a sequence  *)
(* of <<field, width>>: what a cursor writes or reads one after another.   *)
(* The program's side is state.rs and instruction.rs; the clients' are     *)
(* program.ts (builders, parsers, table of offsets) and the scripts, which *)
(* write their own bytes and read numbers at offsets of their own.         *)
(*                                                                         *)
(* Then the receipt that seals a line's commitments, in an account that    *)
(* the web client makes as large as its own copy of the layout says.       *)
(***************************************************************************)
EXTENDS Integers, Sequences

Each(fields, width) == [i \in 1..Len(fields) |-> <<fields[i], width>>]

\* The offset of the i-th field: the sum of the widths before it.
OffsetAt(layout, i) ==
    LET sum[k \in Nat] == IF k = 0 THEN 0 ELSE sum[k - 1] + layout[k][2]
    IN  sum[i - 1]

Size(layout) == OffsetAt(layout, Len(layout) + 1)

\* Where a layout has a field, and how wide.
Places(layout) ==
    {<<layout[i][1], OffsetAt(layout, i), layout[i][2]>> : i \in 1..Len(layout)}

-----------------------------------------------------------------------------
(* The program: PoolAccount::pack, CreditLineAccount::pack, ReceiptAccount::pack *)
(* and CreditVaultInstruction::unpack.                                           *)

PoolPacked ==
    Each(<<"discriminator", "version", "bump", "status">>, 1)
    \o Each(<<"poolId", "admin", "underwriter", "auditor", "reserveMint", "vault">>, 32)
    \o Each(<<"noteSizeUsd">>, 8)
    \o Each(<<"totalLimit", "allocated", "outstanding", "drawn", "repaid", "defaulted">>, 4)
    \o Each(<<"interestBps">>, 2) \o Each(<<"maturity", "receiptInterval">>, 8)
    \o Each(<<"privacyPolicy">>, 1)

LinePacked ==
    Each(<<"discriminator", "version", "status">>, 1)
    \o Each(<<"pool", "borrower", "underwriter", "auditor">>, 32)
    \o Each(<<"limit", "drawn", "repaid", "defaulted">>, 4)
    \o Each(<<"noteSizeUsd">>, 8) \o Each(<<"interestBps">>, 2)
    \o Each(<<"opened", "maturity", "lastReceipt">>, 8)
    \o Each(<<"termsHash", "mandateHash">>, 32) \o Each(<<"privacyPolicy">>, 1)

ReceiptPacked ==
    Each(<<"discriminator", "version">>, 1) \o Each(<<"line", "signer">>, 32)
    \o Each(<<"periodStart", "periodEnd", "accepted">>, 8)
    \o Each(<<"receiptHash">>, 32)

Reserved == 32
AccountLEN ==
    [pool |-> Size(PoolPacked) + Reserved, line |-> Size(LinePacked) + Reserved,
     receipt |-> Size(ReceiptPacked) + Reserved]

Unpacked ==
    << Each(<<"tag", "bump", "privacyPolicy">>, 1)
         \o Each(<<"underwriter", "auditor", "reserveMint", "vault">>, 32)
         \o Each(<<"noteSizeUsd">>, 8) \o Each(<<"totalLimit">>, 4)
         \o Each(<<"interestBps">>, 2) \o Each(<<"maturity", "receiptInterval">>, 8),
       Each(<<"tag">>, 1) \o Each(<<"borrower">>, 32) \o Each(<<"limit">>, 4)
         \o Each(<<"termsHash", "mandateHash">>, 32) \o Each(<<"opened", "maturity">>, 8),
       Each(<<"tag">>, 1) \o Each(<<"notes">>, 4) \o Each(<<"currentSlot">>, 8),
       Each(<<"tag">>, 1) \o Each(<<"notes">>, 4) \o Each(<<"currentSlot">>, 8),
       Each(<<"tag">>, 1) \o Each(<<"periodStart", "periodEnd", "accepted">>, 8)
         \o Each(<<"receiptHash">>, 32),
       Each(<<"tag">>, 1) \o Each(<<"currentSlot">>, 8),
       Each(<<"tag", "targetStatus">>, 1) >>

\* mb.rs: the accounts that delegate_account and the two commits take apart, in this
\* order, with what each must be: "s" signs, "w" is written, by the calls they make.
\* (The line itself is also to sign the delegation, by the seeds of the program.)
DelegateTakes ==
    << <<"payer", {"s", "w"}>>, <<"line", {"w"}>>, <<"owner program", {}>>,
       <<"buffer", {"w"}>>, <<"delegation record", {"w"}>>,
       <<"delegation metadata", {"w"}>>, <<"system program", {}>> >>
CommitTakes ==
    << <<"payer", {"s", "w"}>>, <<"line", {"w"}>>,
       <<"magic program", {}>>, <<"magic context", {"w"}>> >>
DelegationTags == [delegate |-> 7, commit |-> 8, undelegate |-> 9]

\* mb.rs: seed and program of the derived accounts.
DelegationSeeds ==
    [record |-> <<"delegation", "delegation program">>,
     metadata |-> <<"delegation-metadata", "delegation program">>,
     buffer |-> <<"buffer", "owner program">>]

-----------------------------------------------------------------------------
(* program.ts and magicblock.ts. *)

\* createInitializePoolIx and createApproveCreditLineIx; createDrawTrancheIx to
\* createPauseLineIx.
InitAndApproveWritten ==
    << Each(<<"tag", "bump", "privacyPolicy">>, 1)
         \o Each(<<"underwriter", "auditor", "reserveMint", "vault">>, 32)
         \o Each(<<"noteSizeUsd">>, 8) \o Each(<<"totalLimit">>, 4)
         \o Each(<<"interestBps">>, 2) \o Each(<<"maturity", "receiptInterval">>, 8),
       Each(<<"tag">>, 1) \o Each(<<"borrower">>, 32) \o Each(<<"limit">>, 4)
         \o Each(<<"termsHash", "mandateHash">>, 32) \o Each(<<"opened", "maturity">>, 8) >>

NotesAndSlot == Each(<<"tag">>, 1) \o Each(<<"notes">>, 4) \o Each(<<"currentSlot">>, 8)

PeriodThenHash ==
    Each(<<"tag">>, 1) \o Each(<<"periodStart", "periodEnd", "accepted">>, 8)
    \o Each(<<"receiptHash">>, 32)

\* Slip: a repayment puts the slot first.
RepaySlotFirst ==
    << NotesAndSlot,
       Each(<<"tag">>, 1) \o Each(<<"currentSlot">>, 8) \o Each(<<"notes">>, 4),
       PeriodThenHash, Each(<<"tag">>, 1) \o Each(<<"currentSlot">>, 8),
       Each(<<"tag", "targetStatus">>, 1) >>

OthersWritten ==
    << NotesAndSlot, NotesAndSlot, PeriodThenHash,
       Each(<<"tag">>, 1) \o Each(<<"currentSlot">>, 8),
       Each(<<"tag", "targetStatus">>, 1) >>

PoolParsed ==
    Each(<<"discriminator", "version", "bump", "status">>, 1)
    \o Each(<<"poolId", "admin", "underwriter", "auditor", "reserveMint", "vault">>, 32)
    \o Each(<<"noteSizeUsd">>, 8)
    \o Each(<<"totalLimit", "allocated", "outstanding", "drawn", "repaid", "defaulted">>, 4)
    \o Each(<<"interestBps">>, 2) \o Each(<<"maturity", "receiptInterval">>, 8)
    \o Each(<<"privacyPolicy">>, 1)

LineParsed ==
    Each(<<"discriminator", "version", "status">>, 1)
    \o Each(<<"pool", "borrower", "underwriter", "auditor">>, 32)
    \o Each(<<"limit", "drawn", "repaid", "defaulted">>, 4)
    \o Each(<<"noteSizeUsd">>, 8) \o Each(<<"interestBps">>, 2)
    \o Each(<<"opened", "maturity", "lastReceipt">>, 8)
    \o Each(<<"termsHash", "mandateHash">>, 32) \o Each(<<"privacyPolicy">>, 1)

\* The tables of offsets; the widths are those of the readers that use them.
PoolOffsets ==
    { <<"status", 3, 1>>, <<"noteSizeUsd", 196, 8>>, <<"totalLimit", 204, 4>>,
      <<"allocated", 208, 4>>, <<"outstanding", 212, 4>>, <<"drawn", 216, 4>>,
      <<"repaid", 220, 4>>, <<"interestBps", 228, 2>>, <<"maturity", 230, 8>>,
      <<"privacyPolicy", 246, 1>> }
LineOffsets ==
    { <<"status", 2, 1>>, <<"pool", 3, 32>>, <<"borrower", 35, 32>>,
      <<"underwriter", 67, 32>>, <<"auditor", 99, 32>>, <<"limit", 131, 4>>,
      <<"drawn", 135, 4>>, <<"repaid", 139, 4>>, <<"defaulted", 143, 4>>,
      <<"noteSizeUsd", 147, 8>>, <<"interestBps", 155, 2>>, <<"maturity", 165, 8>>,
      <<"lastReceipt", 173, 8>> }
ClientLEN == [pool |-> 279, line |-> 278, receipt |-> 122]

\* delegateCreditLine, commitCreditLine and commitAndUndelegate: one byte of data.
DelegateSent ==
    [tag |-> 7,
     keys |-> << <<"payer", {"s", "w"}>>, <<"line", {"w"}>>, <<"owner program", {}>>,
                 <<"buffer", {"w"}>>, <<"delegation record", {"w"}>>,
                 <<"delegation metadata", {"w"}>>, <<"system program", {}>> >>]
CommitSent ==
    [tag |-> 8,
     keys |-> << <<"payer", {"s", "w"}>>, <<"line", {"w"}>>,
                 <<"magic program", {}>>, <<"magic context", {"w"}>> >>]
UndelegateSent ==
    [tag |-> 9,
     keys |-> << <<"payer", {"s", "w"}>>, <<"line", {"w"}>>,
                 <<"magic program", {}>>, <<"magic context", {"w"}>> >>]
ClientSeeds ==
    [record |-> <<"delegation", "delegation program">>,
     metadata |-> <<"delegation-metadata", "delegation program">>,
     buffer |-> <<"buffer", "owner program">>]

-----------------------------------------------------------------------------
(* The scripts. *)

SmokeWritten ==
    << Each(<<"tag", "bump", "privacyPolicy">>, 1)
         \o Each(<<"underwriter", "auditor", "reserveMint", "vault">>, 32)
         \o Each(<<"noteSizeUsd">>, 8) \o Each(<<"totalLimit">>, 4)
         \o Each(<<"interestBps">>, 2) \o Each(<<"maturity", "receiptInterval">>, 8),
       Each(<<"tag">>, 1) \o Each(<<"borrower">>, 32) \o Each(<<"limit">>, 4)
         \o Each(<<"termsHash", "mandateHash">>, 32) \o Each(<<"opened", "maturity">>, 8),
       NotesAndSlot, NotesAndSlot, PeriodThenHash,
       Each(<<"tag">>, 1) \o Each(<<"currentSlot">>, 8) >>
DevnetWritten == SmokeWritten

\* decodePool, decodeLine, decodeReceipt of surfpool-smoke; the reads of devnet-smoke.
SmokePoolReads ==
    { <<"status", 3, 1>>, <<"allocated", 208, 4>>, <<"outstanding", 212, 4>>,
      <<"drawn", 216, 4>>, <<"repaid", 220, 4>>, <<"defaulted", 224, 4>> }
SmokeLineReads ==
    { <<"status", 2, 1>>, <<"limit", 131, 4>>, <<"drawn", 135, 4>>,
      <<"repaid", 139, 4>>, <<"defaulted", 143, 4>>, <<"lastReceipt", 173, 8>> }
SmokeReceiptReads ==
    { <<"signer", 34, 32>>, <<"periodStart", 66, 8>>, <<"periodEnd", 74, 8>>,
      <<"accepted", 82, 8>>, <<"receiptHash", 90, 32>> }
DevnetPoolReads ==
    { <<"outstanding", 212, 4>>, <<"drawn", 216, 4>>, <<"repaid", 220, 4>>,
      <<"defaulted", 224, 4>> }
DevnetLineReads == { <<"status", 2, 1>>, <<"defaulted", 143, 4>> }
ScriptLEN == [pool |-> 279, line |-> 278, receipt |-> 154]

\* What scripts/test-flow.mjs of the web app expects to read in program.ts, and
\* what magicblock-test.ts expects of the builders.
TestFlowLEN == [pool |-> 279, line |-> 278]
MagicBlockTestKeys == [delegate |-> 7, commit |-> 4, undelegate |-> 4]

-----------------------------------------------------------------------------
(* What a client means by some bytes, and what the program takes them for. *)

InstructionsOf ==
    [web |-> InitAndApproveWritten \o OthersWritten, surfpool |-> SmokeWritten,
     devnet |-> DevnetWritten]
PlacesRead ==
    [pool    |-> {Places(PoolParsed), PoolOffsets, SmokePoolReads, DevnetPoolReads},
     line    |-> {Places(LineParsed), LineOffsets, SmokeLineReads, DevnetLineReads},
     receipt |-> {SmokeReceiptReads}]
Packed == [pool |-> PoolPacked, line |-> LinePacked, receipt |-> ReceiptPacked]

\* The accounts that clients make, other than the receipt of a seal, and the sizes
\* that test-flow expects.
SpacesMade ==
    {[pool |-> ClientLEN.pool, line |-> ClientLEN.line], ScriptLEN, TestFlowLEN}

VARIABLES
    wire,           \* what was sent or read last: as meant, and as taken
    receiptSpace,   \* bytes of the account at the derived address, -1: no account
    sealed,         \* has it been written
    answer          \* what the last seal came to

registryVars == <<wire, receiptSpace, sealed, answer>>

NoReceipt == -1

RegistryInit ==
    /\ wire = [meant |-> <<>>, taken |-> <<>>]
    /\ receiptSpace = NoReceipt /\ sealed = FALSE /\ answer = "none"

Crosses(meant, taken) ==
    wire' = [meant |-> meant, taken |-> taken] /\ UNCHANGED <<receiptSpace, sealed, answer>>

SendBytes ==
    \E c \in DOMAIN InstructionsOf : \E i \in DOMAIN InstructionsOf[c] :
        Crosses(InstructionsOf[c][i], Unpacked[i])

\* The fields a client wants, at its places and at the program's.
ReadAccount ==
    \E a \in DOMAIN PlacesRead : \E wanted \in PlacesRead[a] :
        Crosses(wanted, {f \in Places(Packed[a]) : \E w \in wanted : w[1] = f[1]})

AllocateAccount ==
    \E made \in SpacesMade : \E a \in DOMAIN made : Crosses(made[a], AccountLEN[a])

\* The accounts of a delegation in their order with their privileges, and the
\* derived ones; the test counts the accounts.
CallMagicBlock ==
    \/ Crosses(DelegateSent, [tag |-> DelegationTags.delegate, keys |-> DelegateTakes])
    \/ Crosses(CommitSent, [tag |-> DelegationTags.commit, keys |-> CommitTakes])
    \/ Crosses(UndelegateSent, [tag |-> DelegationTags.undelegate, keys |-> CommitTakes])
    \/ Crosses(ClientSeeds, DelegationSeeds)
    \/ Crosses(MagicBlockTestKeys, [delegate |-> Len(DelegateSent.keys),
                                    commit |-> Len(CommitSent.keys),
                                    undelegate |-> Len(UndelegateSent.keys)])

-----------------------------------------------------------------------------
(* Sealing: sealCommitmentsOnChain for one line. *)

\* PostReceipt on an account of this many bytes: an error reverts the transaction,
\* the creation of the account with it.
PostReceiptAnswers(signer, space) ==
    IF signer \notin {"auditor", "underwriter"} THEN "IncorrectAuthority"
    ELSE IF space < AccountLEN.receipt THEN "AccountDataTooSmall" ELSE "sealed"

Seal(signer) ==
    LET space == IF receiptSpace = NoReceipt THEN ClientLEN.receipt ELSE receiptSpace
    IN  /\ answer' = IF receiptSpace # NoReceipt /\ receiptSpace < ClientLEN.receipt
                     THEN "not usable"
                     ELSE IF sealed THEN "already sealed"
                     ELSE PostReceiptAnswers(signer, space)
        /\ IF answer' = "sealed" THEN sealed' = TRUE /\ receiptSpace' = space
           ELSE UNCHANGED <<receiptSpace, sealed>>
        /\ UNCHANGED wire

\* Anyone may send lamports to the derived address first.
FundAddress ==
    /\ receiptSpace = NoReceipt
    /\ receiptSpace' = 0
    /\ UNCHANGED <<wire, sealed, answer>>

RegistryNext ==
    \/ SendBytes \/ ReadAccount \/ AllocateAccount \/ CallMagicBlock
    \/ FundAddress
    \/ \E s \in {"auditor", "underwriter", "stranger"} : Seal(s)

RegistrySpec == RegistryInit /\ [][RegistryNext]_registryVars

-----------------------------------------------------------------------------

\* Whatever a client writes is what the program takes apart, field by field, and
\* whatever a client reads is where the program put it: builders, parsers, tables of
\* offsets, the hand-written bytes of the scripts, and the accounts of a delegation
\* in their order and with their privileges (program.ts: "Matches the binary
\* serialization format from programs/credit-vault/src/instruction.rs").
ClientsSpeakTheProgramsBytes == wire.meant = wire.taken

\* program.ts: "Account layouts (from state.rs)".  So an account that a client makes
\* for a receipt is large enough for one.
SealsAreNotTooSmall == answer # "AccountDataTooSmall"

=============================================================================
