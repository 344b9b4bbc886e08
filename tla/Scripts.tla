------------------------------- MODULE Scripts -------------------------------
(***************************************************************************)
(* The scripts of apps/localnet as clients of the program: each makes new  *)
(* accounts, sends instructions one after another, waits for each to be    *)
(* confirmed, and compares what it reads with the numbers in its text.     *)
(* The accounts are CreditVault's, with the values the scripts really use. *)
(*                                                                         *)
(* A script gives up at the first step that does not go as it says: an     *)
(* instruction that is refused, one that goes through where the script     *)
(* says it must not, a confirmation that is lost, or an unexpected number. *)
(* The off-chain half of e2e-flow (exchange, envelopes) is not here.       *)
(***************************************************************************)
EXTENDS Integers, Sequences

CONSTANT SlotsPassed   \* slots that pass during a script

Start == 1000           \* the slot of the chain when a script begins
Now == -1               \* the slot argument of a step that asks the node
Widest == 2147483647    \* the largest u32 and slot of the model, far from any script

ASSUME ScriptsAssumption == SlotsPassed \in Nat /\ Start + SlotsPassed <= Widest

VARIABLES
    poolAt, lineAt, receiptAt,   \* the accounts the script made
    script,                      \* its steps, of which `step` were done
    step,
    result,                      \* "running", "passed" or "failed"
    now,                         \* the slot the node answers
    excuse                       \* history: what the script could not foresee

scriptVars == <<poolAt, lineAt, receiptAt, script, step, result, now, excuse>>

\* Every account has a key of its own (Keypair.generate), so none is spoilt.
V == INSTANCE CreditVault WITH
    pool <- poolAt, line <- lineAt, receipt <- receiptAt, spoilt <- {},
    Pools <- {"pool"}, Lines <- {"line", "overLine"}, Receipts <- {"receipt"},
    Underwriters <- {"underwriter"}, Auditors <- {"auditor"},
    Borrowers <- {"borrower"}, ZeroKey <- "nobody",
    Terms <- {"1000 USD, 75 bps"}, NoTerms <- "no terms",
    MaxU32 <- Widest, MaxSlot <- Widest

Sends(op, l, notes, at) == [op |-> op, line |-> l, notes |-> notes, at |-> at, ok |-> TRUE]
Refused(instruction) == [instruction EXCEPT !.ok = FALSE]
Reads(status, drawn, repaid, defaulted) ==
    [op |-> "read", status |-> status, drawn |-> drawn, repaid |-> repaid,
     defaulted |-> defaulted, ok |-> TRUE]

End == Start + 50000

\* local-integration.ts: tests 1 and 2, 3 to 5, 6, 7, and 8.
LocalOpening ==
    << Sends("pool", "line", 100, End),
       Sends("line", "line", 30, End - 5000), Reads("Active", 0, 0, 0) >>
LocalUse ==
    << Sends("draw", "line", 6, Now), Reads("Active", 6, 0, 0),
       Sends("repay", "line", 2, Now), Reads("Active", 6, 2, 0),
       Sends("receipt", "line", 0, Start) >>
LocalPause ==
    << Sends("pause", "line", 0, Now), Reads("Paused", 6, 2, 0),
       Refused(Sends("draw", "line", 1, Now)),
       Sends("resume", "line", 0, Now), Reads("Active", 6, 2, 0) >>
LocalSettle ==
    << Sends("warp", "line", 0, End + 1),
       Sends("settle", "line", 0, End + 1), Reads("Defaulted", 6, 2, 4) >>
LocalErrors ==
    << Refused(Sends("pool", "line", 100, End)),
       Sends("line", "overLine", 5, End - 5000),
       Refused(Sends("draw", "overLine", 6, Now)) >>

LocalIntegration == LocalOpening \o LocalUse \o LocalPause \o LocalSettle \o LocalErrors

\* surfpool-smoke.ts and devnet-smoke.ts send the same bytes, slots included.
SmokeOpening ==
    << Sends("pool", "line", 100, 50000), Sends("line", "line", 10, 45000) >>
SmokeUse ==
    << Sends("draw", "line", 6, 20100), Sends("repay", "line", 2, 20500),
       Sends("receipt", "line", 0, 20100), Sends("settle", "line", 0, 45001) >>
SmokeReads == << Reads("Defaulted", 6, 2, 4) >>

SurfpoolSmoke == SmokeOpening \o SmokeUse \o SmokeReads
DevnetSmoke == SmokeOpening \o SmokeUse \o SmokeReads

\* e2e-flow.ts, steps 1 to 3.
E2eFlow ==
    << Sends("pool", "line", 50, Start + 100000),
       Sends("line", "line", 50, Start + 90000),
       Sends("draw", "line", 8, Now), Reads("Active", 8, 0, 0) >>

-----------------------------------------------------------------------------

ScriptsInit ==
    /\ V!Init
    /\ script \in {LocalIntegration, SurfpoolSmoke, DevnetSmoke, E2eFlow}
    /\ step = 0
    /\ result = "running"
    /\ now = Start
    /\ excuse = "none"

Instruction == script[step + 1]
Slot(s) == IF s.at = Now THEN now ELSE s.at

\* The instruction of a step, with the signers the script gives it.  The smoke
\* scripts open their line at a slot of their own, which changes nothing.
Effect(s) ==
    \/ s.op = "pool" /\ V!InitializePool("pool", "underwriter", "auditor",
                             "1000 USD, 75 bps", s.notes, s.at)
    \/ s.op = "line" /\ V!ApproveCreditLine("underwriter", "pool", s.line,
                             "borrower", s.notes, now, s.at)
    \/ s.op = "draw" /\ V!DrawTranche("borrower", "pool", s.line, s.notes, Slot(s))
    \/ s.op = "repay" /\ V!RepayTranche("borrower", "pool", s.line, s.notes)
    \/ s.op = "receipt" /\ V!PostReceipt("auditor", s.line, "receipt",
                             s.at, s.at + 100, s.at + 101)
    \/ s.op = "pause" /\ V!PauseLine("underwriter", s.line, "Paused")
    \/ s.op = "resume" /\ V!PauseLine("underwriter", s.line, "Active")
    \/ s.op = "settle" /\ V!SettleMaturity("pool", s.line, s.at)

Accounts == <<poolAt, lineAt, receiptAt>>

Goes(well) ==
    /\ step' = step + 1
    /\ result' = IF ~well THEN "failed"
                 ELSE IF step + 1 = Len(script) THEN "passed" ELSE "running"

\* sendAndConfirmTransaction throws on an instruction that is refused; a script
\* that expects this catches it.
SendInstruction ==
    LET accepted == ENABLED Effect(Instruction) IN
    /\ result = "running" /\ Instruction.op \notin {"read", "warp"}
    /\ IF accepted THEN Effect(Instruction) ELSE UNCHANGED Accounts
    /\ Goes(accepted = Instruction.ok)
    /\ UNCHANGED <<script, now, excuse>>

\* The instruction goes through and its confirmation is lost.
ConfirmationLost ==
    /\ result = "running" /\ Instruction.op \notin {"read", "warp"}
    /\ Effect(Instruction)
    /\ Goes(FALSE)
    /\ excuse' = "confirmation lost"
    /\ UNCHANGED <<script, now>>

\* getAccountInfo and the parsers of program.ts (WireFormat), and the comparison.
ReadAccounts ==
    /\ result = "running" /\ Instruction.op = "read"
    /\ Goes(/\ lineAt["line"].status = Instruction.status
            /\ lineAt["line"].drawn = Instruction.drawn
            /\ lineAt["line"].repaid = Instruction.repaid
            /\ lineAt["line"].defaulted = Instruction.defaulted
            /\ poolAt["pool"].drawn = Instruction.drawn
            /\ poolAt["pool"].repaid = Instruction.repaid
            /\ poolAt["pool"].defaulted = Instruction.defaulted
            /\ poolAt["pool"].outstanding =
                  Instruction.drawn - Instruction.repaid - Instruction.defaulted)
    /\ UNCHANGED <<Accounts, script, now, excuse>>

\* The setSlot call of local-integration: the validator may know it or not, and
\* either answer is ignored.
WarpClock ==
    /\ result = "running" /\ Instruction.op = "warp"
    /\ Goes(TRUE)
    /\ \/ UNCHANGED <<now, excuse>>
       \/ now' = Instruction.at /\ excuse' = "clock warped"
    /\ UNCHANGED <<Accounts, script>>

\* The chain goes on while a script waits; SlotsPassed bounds the model only.
SlotsPass ==
    /\ result = "running"
    /\ now < Start + SlotsPassed
    /\ now' = now + 1
    /\ UNCHANGED <<Accounts, script, step, result, excuse>>

ScriptsNext ==
    \/ SendInstruction \/ ConfirmationLost \/ ReadAccounts \/ WarpClock \/ SlotsPass

ScriptsSpec == ScriptsInit /\ [][ScriptsNext]_scriptVars

-----------------------------------------------------------------------------

ScriptsTypeOK ==
    /\ V!TypeOK
    /\ step \in 0..Len(script)
    /\ result \in {"running", "passed", "failed"}

\* Every number and every refusal that the scripts expect is what the program
\* does, whatever slots pass between the steps: a script fails only when it loses a
\* confirmation, or when the validator really moves its clock past the maturity.
\* In the second case the new line of test 8 is opened after its maturity, where
\* the comment on setSlot says that the "test will still work".
ScriptsExpectWhatHappens ==
    /\ result = "failed" => excuse # "none"
    /\ result = "passed" => step = Len(script) /\ excuse = "none"

=============================================================================
