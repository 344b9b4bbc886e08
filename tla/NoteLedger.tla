------------------------------ MODULE NoteLedger ------------------------------
(***************************************************************************)
(* What the credit vault promises, without accounts, keys, statuses or     *)
(* slots.  A facility grants a borrower a number of notes.  Granted notes  *)
(* are lent, and a lent note leaves the facility's exposure exactly once:  *)
(* recovered from the borrower or written off.  A grant is used up by      *)
(* lending, never replenished by recovery, and once a facility is over     *)
(* nothing is lent or recovered on it.  The books of a pool may be lost,   *)
(* with those of its facilities and of no other; nothing is promised of    *)
(* that pool from then on.                                                 *)
(***************************************************************************)
EXTENDS Integers

CONSTANTS
    Pools,   \* sources of credit
    Lines,   \* facilities
    NoPool,  \* the source of a facility that was not granted yet
    Notes    \* the numbers of notes one operation may move

VARIABLES
    home,     \* home[l]: the pool facility l draws on, or NoPool
    unused,   \* unused[l]: the granted notes of l that were not lent yet
    owed,     \* owed[l]: the notes lent on l and not accounted for yet
    over,     \* over[l]: facility l is finished
    exposure, \* exposure[p]: the notes pool p has at stake
    lost      \* the pools whose books were lost

ledgerVars == <<home, unused, owed, over, exposure, lost>>

Init ==
    /\ home = [l \in Lines |-> NoPool]
    /\ unused = [l \in Lines |-> 0]
    /\ owed = [l \in Lines |-> 0]
    /\ over = [l \in Lines |-> FALSE]
    /\ exposure = [p \in Pools |-> 0]
    /\ lost = {}

\* The books without the pools in Q.
Kept(f, Q, blank) == [l \in Lines |-> IF home[l] \in Q THEN blank ELSE f[l]]
Exposures(Q) == [p \in Pools |-> IF p \in Q THEN 0 ELSE exposure[p]]

Lose(Q) ==
    /\ lost' = lost \cup Q
    /\ home' = Kept(home, Q, NoPool)
    /\ unused' = Kept(unused, Q, 0)
    /\ owed' = Kept(owed, Q, 0)
    /\ over' = Kept(over, Q, FALSE)
    /\ exposure' = Exposures(Q)

\* Room for the facility may be made by losing the books of other pools.
Grant(p, l, n, Q) ==
    /\ p \notin lost \cup Q
    /\ home[l] = NoPool
    /\ n > 0
    /\ lost' = lost \cup Q
    /\ home' = [Kept(home, Q, NoPool) EXCEPT ![l] = p]
    /\ unused' = [Kept(unused, Q, 0) EXCEPT ![l] = n]
    /\ owed' = Kept(owed, Q, 0)
    /\ over' = Kept(over, Q, FALSE)
    /\ exposure' = Exposures(Q)

Lend(p, l, n) ==
    /\ home[l] = p
    /\ ~over[l]
    /\ 0 < n /\ n <= unused[l]
    /\ unused' = [unused EXCEPT ![l] = @ - n]
    /\ owed' = [owed EXCEPT ![l] = @ + n]
    /\ exposure' = [exposure EXCEPT ![p] = @ + n]
    /\ UNCHANGED <<home, over, lost>>

\* The facility is over when the borrower has paid everything back.
Recover(p, l, n) ==
    /\ home[l] = p
    /\ ~over[l]
    /\ 0 < n /\ n <= owed[l]
    /\ owed' = [owed EXCEPT ![l] = @ - n]
    /\ over' = [over EXCEPT ![l] = n = owed[l]]
    /\ exposure' = [exposure EXCEPT ![p] = @ - n]
    /\ UNCHANGED <<home, unused, lost>>

\* The facility ends with whatever is still owed, possibly nothing, lost.
Finish(p, l) ==
    /\ home[l] = p
    /\ ~over[l]
    /\ owed' = [owed EXCEPT ![l] = 0]
    /\ over' = [over EXCEPT ![l] = TRUE]
    /\ exposure' = [exposure EXCEPT ![p] = @ - owed[l]]
    /\ UNCHANGED <<home, unused, lost>>

Next ==
    \/ \E p \in Pools, l \in Lines :
        \/ \E n \in Notes, Q \in SUBSET Pools : Grant(p, l, n, Q)
        \/ \E n \in Notes : Lend(p, l, n) \/ Recover(p, l, n)
        \/ Finish(p, l)
    \/ \E Q \in SUBSET Pools : Lose(Q)

Spec == Init /\ [][Next]_ledgerVars

===============================================================================
