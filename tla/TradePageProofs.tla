--------------------------- MODULE TradePageProofs ---------------------------
(***************************************************************************)
(* Proofs about the trade page over the credit-vault program, for any      *)
(* limits, terms and numbers of pools and lines: whatever lands, is        *)
(* dropped, fails or is reloaded, no id is given to two notes and no line  *)
(* is written off early; and in one tab that never lost track of a         *)
(* transaction the notes tell the debt, note for note, and the debt can be *)
(* repaid.                                                                 *)
(*                                                                         *)
(* ENABLED is opaque to the provers: nothing below needs to know when the  *)
(* simulation of a transaction succeeds.                                   *)
(***************************************************************************)
EXTENDS TradePage, CreditVaultProofs

\* What the handlers put in a transaction.
TxFits(tx) ==
    /\ tx.kind \in {"pool", "line", "draw", "repay"} => tx.pool \in Pools
    /\ tx.kind \in {"line", "draw", "repay"} => tx.line \in Lines
    /\ tx.kind = "pool" => tx.slot + PoolTerm <= MaxSlot

HandlersFit ==
    /\ \A tx \in flight : TxFits(tx)
    /\ \A t \in Tabs :
          /\ TxFits(tab[t].tx)
          /\ tab[t].at \in {"closed", "restoring", "ready"} => tab[t].tx.kind = "none"
          /\ tab[t].at = "proving" => tab[t].tx.kind = "draw"

PageInv == PageTypeOK /\ HandlersFit /\ RefinementInv

-----------------------------------------------------------------------------
(* Ids. *)

SameId(a, b) == [a EXCEPT !.status = "drawn"] = [b EXCEPT !.status = "drawn"]

\* The notes of a list are apart, and from draws sampled before slot s.
ApartBefore(notes, s) ==
    /\ \A j, k \in DOMAIN notes : j # k => ~SameId(notes[j], notes[k])
    /\ \A j \in DOMAIN notes : notes[j].slot < s

\* A draw that is confirmed landed after the slot it sampled; what the page held
\* before was sampled earlier.
TabIds(t) ==
    /\ ApartBefore(tab[t].held.notes, slot)
    /\ tab[t].tx.kind = "draw" => ApartBefore(tab[t].held.notes, tab[t].tx.slot)
    /\ \/ tab[t].at = "confirming" /\ tab[t].fate # "pending"
       \/ tab[t].at = "proving"
       => tab[t].tx.slot < slot

IdsInv == ApartBefore(saved.notes, slot) /\ \A t \in Tabs : TabIds(t)

-----------------------------------------------------------------------------
(* One tab. *)

\* What the wallet has: in the storage, but for the moment of a reload.
Kept(t) == IF tab[t].at = "restoring" THEN tab[t].held ELSE saved

\* What a handler works on is what is kept; setup runs while no line is.
InStep(t) ==
    /\ tab[t].at = "restoring" => saved = Nothing
    /\ tab[t].at \notin {"closed", "restoring"} => saved = tab[t].held
    /\ tab[t].tx.kind \in {"pool", "line"} => saved.line = ZeroKey
    /\ tab[t].tx.kind = "line" => tab[t].tx.pool = saved.pool
    /\ tab[t].tx.kind \in {"draw", "repay"} => tab[t].tx.line = saved.line
    /\ tab[t].at = "confirming" => tab[t].fate # "none"

Landed(t, kind) ==
    tab[t].at = "confirming" /\ tab[t].fate = "ok" /\ tab[t].tx.kind = kind

\* The notes of l that the page has yet to mint, or to mark.
Unminted(t, l) ==
    IF /\ tab[t].tx.line = l
       /\ Landed(t, "draw") \/ tab[t].at = "proving" THEN tab[t].tx.notes ELSE 0
Unmarked(t, l) ==
    IF tab[t].tx.line = l /\ Landed(t, "repay") THEN tab[t].tx.notes ELSE 0

\* The transaction in flight is the one the page waits for.
Followed(t) ==
    flight # {} => /\ tab[t].at = "confirming" /\ tab[t].fate = "pending"
                   /\ flight = {tab[t].tx}

\* There is at most one line, and the page knows it or will.
OneLine(t) ==
    \A l \in Lines : Initialized(line[l]) =>
        /\ line[l].pool = Kept(t).pool
        /\ \/ Kept(t).line = l
           \/ Landed(t, "line") /\ tab[t].tx.line = l /\ line[l].drawn = 0

NotesAreDebt(t) ==
    \A l \in Lines :
        line[l].defaulted = 0 =>
            Cardinality(DrawnNotes(Kept(t).notes, l)) + Unminted(t, l)
                = Outstanding(l) + Unmarked(t, l)

DebtInv(t) ==
    ~mishap => Followed(t) /\ OneLine(t) /\ NotesAreDebt(t)

TabInv(t) == InStep(t) /\ DebtInv(t)

-----------------------------------------------------------------------------
(* Types. *)

LEMMA NumbersTyped ==
    /\ MaxU32 \in Nat \ {0} /\ MaxSlot \in Nat \ {0}
    /\ PoolNotes \in 0..MaxU32 /\ LineNotes \in 0..MaxU32
    /\ PoolTerm \in Nat /\ Margin \in Nat /\ MaxSent \in Nat
  BY BoundsAssumption, NumbersAssumption DEF U32

LEMMA NothingTyped == Nothing \in Saved /\ NoTx \in Tx /\ Closed \in Page
  <1>1. << >> \in Seq(Note)
    OBVIOUS
  <1>2. Nothing \in Saved
    BY <1>1 DEF Nothing, Saved
  <1>3. NoTx \in Tx
    BY NumbersTyped DEF NoTx, Tx, U32, Slots
  <1>4. Closed \in Page
    BY <1>2, <1>3, EmptyAccountsTyped DEF Closed, Page, Phase
  <1> QED BY <1>2, <1>3, <1>4

\* The fields of what a tab holds.
LEMMA TabFields ==
    ASSUME PageTypeOK, NEW t \in Tabs
    PROVE  /\ tab[t].at \in Phase /\ tab[t].held \in Saved
           /\ tab[t].seen \in CreditLineAccount /\ tab[t].tx \in Tx
           /\ tab[t].fate \in {"none", "pending", "ok", "failed"}
  <1>1. tab[t] \in Page
    BY DEF PageTypeOK
  <1> QED BY <1>1 DEF Page

LEMMA SavedFields ==
    ASSUME NEW held \in Saved
    PROVE  /\ held.pool \in Pools \cup {ZeroKey}
           /\ held.line \in Lines \cup {ZeroKey}
           /\ held.notes \in Seq(Note)
  BY DEF Saved

LEMMA TxFields ==
    ASSUME NEW tx \in Tx
    PROVE  /\ tx.id \in 0..MaxSent
           /\ tx.kind \in {"none", "pool", "line", "draw", "repay"}
           /\ tx.pool \in Pools \cup {ZeroKey} /\ tx.line \in Lines \cup {ZeroKey}
           /\ tx.notes \in U32 /\ tx.slot \in Slots
  BY DEF Tx

\* What a page becomes in a step of its handler.
Becomes(t, at, held, seen, tx, fate) ==
    \E page \in Page :
        /\ tab' = [tab EXCEPT ![t] = page]
        /\ page.at = at /\ page.held = held /\ page.seen = seen
        /\ page.tx = tx /\ page.fate = fate

\* The other tabs stay.
LEMMA BecomesTyped ==
    ASSUME PageTypeOK, NEW t \in Tabs, NEW at, NEW held, NEW seen, NEW tx, NEW fate,
           Becomes(t, at, held, seen, tx, fate)
    PROVE  /\ tab' \in [Tabs -> Page]
           /\ tab'[t].at = at /\ tab'[t].held = held /\ tab'[t].seen = seen
           /\ tab'[t].tx = tx /\ tab'[t].fate = fate
           /\ \A u \in Tabs : u # t => tab'[u] = tab[u]
  BY DEF Becomes, PageTypeOK

\* The lists of addresses and notes that the page shows and saves.
LEMMA WithAddressesTyped ==
    ASSUME saved \in Saved, NEW before, NEW after \in Saved
    PROVE  /\ WithAddresses(before, after) \in Saved
           /\ WithAddresses(before, after).notes = saved.notes
           /\ saved.pool = before.pool /\ saved.line = before.line
                => /\ WithAddresses(before, after).pool = after.pool
                   /\ WithAddresses(before, after).line = after.line
  BY DEF WithAddresses, Saved

LEMMA RefetchedTyped ==
    ASSUME PageTypeOK, NEW t \in Tabs, NEW address, NEW data \in Refetched(t, address)
    PROVE  data \in CreditLineAccount
  <1>1. Fetched(address) \in CreditLineAccount
    BY EmptyAccountsTyped DEF Fetched, PageTypeOK, TypeOK
  <1> QED BY <1>1, TabFields DEF Refetched

-----------------------------------------------------------------------------
(* The lists of notes. *)

LEMMA NoteFields ==
    ASSUME NEW note \in Note
    PROVE  /\ note.line \in Lines /\ note.slot \in Slots
           /\ note.i \in 0..(MaxU32 - 1) /\ note.status \in NoteStatus
  BY DEF Note

\* A new note has the line and the slot of its draw, and is drawn.
LEMMA MintedList ==
    ASSUME NEW tx \in Tx, tx.line \in Lines
    PROVE  /\ Minted(tx) \in Seq(Note) /\ Len(Minted(tx)) = tx.notes
           /\ \A j \in 1..tx.notes :
                 /\ Minted(tx)[j].line = tx.line /\ Minted(tx)[j].slot = tx.slot
                 /\ Minted(tx)[j].i = j - 1 /\ Minted(tx)[j].status = "drawn"
  <1>1. tx.notes \in 0..MaxU32 /\ MaxU32 \in Nat /\ tx.slot \in Slots
    BY TxFields, NumbersTyped DEF U32
  <1>2. ASSUME NEW j \in 1..tx.notes
        PROVE  [line |-> tx.line, slot |-> tx.slot, i |-> j - 1, status |-> "drawn"] \in Note
    <2>1. j - 1 \in 0..(MaxU32 - 1)
      BY <1>1
    <2> QED BY <1>1, <2>1 DEF Note, NoteStatus
  <1>3. Minted(tx) \in [1..tx.notes -> Note]
    BY <1>2 DEF Minted
  <1>4. Minted(tx) \in Seq(Note) /\ Len(Minted(tx)) = tx.notes
    BY <1>1, <1>3
  <1> QED BY <1>4 DEF Minted

\* Marking keeps the list: its notes only change status.
LEMMA MarkedList ==
    ASSUME NEW notes \in Seq(Note), NEW n
    PROVE  /\ MarkRepaid(notes, n) \in Seq(Note)
           /\ DOMAIN MarkRepaid(notes, n) = DOMAIN notes
           /\ \A j \in DOMAIN notes :
                 /\ MarkRepaid(notes, n)[j].line = notes[j].line
                 /\ MarkRepaid(notes, n)[j].slot = notes[j].slot
                 /\ MarkRepaid(notes, n)[j].i = notes[j].i
                 /\ MarkRepaid(notes, n)[j].status =
                       IF Cardinality(DrawnUpTo(notes, j)) <= n
                       THEN "repaid" ELSE notes[j].status
  <1>1. Len(notes) \in Nat /\ DOMAIN notes = 1..Len(notes)
    OBVIOUS
  <1>2. ASSUME NEW j \in DOMAIN notes
        PROVE  /\ MarkRepaid(notes, n)[j] \in Note
               /\ MarkRepaid(notes, n)[j].line = notes[j].line
               /\ MarkRepaid(notes, n)[j].slot = notes[j].slot
               /\ MarkRepaid(notes, n)[j].i = notes[j].i
               /\ MarkRepaid(notes, n)[j].status =
                     IF Cardinality(DrawnUpTo(notes, j)) <= n
                     THEN "repaid" ELSE notes[j].status
    <2>1. notes[j] \in Note
      BY <1>1
    <2>2. PICK late : late = (Cardinality(DrawnUpTo(notes, j)) <= n)
      OBVIOUS
    <2>3. PICK note : note = [notes[j] EXCEPT !.status = "repaid"]
      OBVIOUS
    <2>4. /\ note \in Note /\ note.status = "repaid" /\ note.line = notes[j].line
          /\ note.slot = notes[j].slot /\ note.i = notes[j].i
      BY <2>1, <2>3 DEF Note, NoteStatus
    <2>5. MarkRepaid(notes, n)[j] =
            IF Cardinality(DrawnUpTo(notes, j)) <= n THEN note ELSE notes[j]
      BY <2>3 DEF MarkRepaid
    <2> QED BY <2>1, <2>4, <2>5
  <1>3. DOMAIN MarkRepaid(notes, n) = DOMAIN notes
    BY DEF MarkRepaid
  <1>4. MarkRepaid(notes, n) \in [1..Len(notes) -> Note]
    <2>1. MarkRepaid(notes, n) =
            [j \in DOMAIN notes |-> MarkRepaid(notes, n)[j]]
      BY DEF MarkRepaid
    <2> QED BY <1>1, <1>2, <2>1
  <1>5. MarkRepaid(notes, n) \in Seq(Note)
    BY <1>1, <1>4
  <1> QED BY <1>2, <1>3, <1>5

\* Two lists joined: what stands where.
LEMMA JoinedNotes ==
    ASSUME NEW head \in Seq(Note), NEW tail \in Seq(Note)
    PROVE  /\ head \o tail \in Seq(Note)
           /\ DOMAIN (head \o tail) = 1..(Len(head) + Len(tail))
           /\ \A j \in 1..Len(head) : (head \o tail)[j] = head[j]
           /\ \A j \in 1..Len(tail) : (head \o tail)[Len(head) + j] = tail[j]
  <1>1. /\ head \o tail \in Seq(Note) /\ Len(head \o tail) = Len(head) + Len(tail)
        /\ Len(head) \in Nat /\ Len(tail) \in Nat
    OBVIOUS
  <1>2. DOMAIN (head \o tail) = 1..(Len(head) + Len(tail))
    BY <1>1
  <1>3. ASSUME NEW j \in 1..Len(head) PROVE (head \o tail)[j] = head[j]
    OBVIOUS
  <1>4. ASSUME NEW j \in 1..Len(tail) PROVE (head \o tail)[Len(head) + j] = tail[j]
    <2>1. PICK k : k = Len(head) + j
      OBVIOUS
    <2>2. k \in 1..(Len(head) + Len(tail)) /\ k > Len(head) /\ k - Len(head) = j
      BY <1>1, <2>1
    <2>3. (head \o tail)[k] = tail[k - Len(head)]
      BY <1>1, <2>2
    <2> QED BY <2>1, <2>2, <2>3
  <1> QED BY <1>1, <1>2, <1>3, <1>4

LEMMA DrawnNotesFinite ==
    ASSUME NEW notes \in Seq(Note), NEW l
    PROVE  /\ DrawnNotes(notes, l) \subseteq DOMAIN notes
           /\ IsFiniteSet(DrawnNotes(notes, l))
           /\ Cardinality(DrawnNotes(notes, l)) \in Nat
  <1>1. DOMAIN notes = 1..Len(notes) /\ Len(notes) \in Int /\ 1 \in Int
    OBVIOUS
  <1>2. IsFiniteSet(DOMAIN notes)
    BY <1>1, FS_Interval
  <1>3. DrawnNotes(notes, l) \subseteq DOMAIN notes
    BY DEF DrawnNotes
  <1> QED BY <1>2, <1>3, FS_Subset, FS_CardinalityType

LEMMA DisjointCardinality ==
    ASSUME NEW S, NEW T, IsFiniteSet(S), IsFiniteSet(T), S \cap T = {}
    PROVE  Cardinality(S \cup T) = Cardinality(S) + Cardinality(T)
  <1>1. Cardinality(S \cup T) = Cardinality(S) + Cardinality(T) - Cardinality(S \cap T)
    BY FS_Union
  <1>2. Cardinality(S \cap T) = 0 /\ Cardinality(S) \in Nat /\ Cardinality(T) \in Nat
    BY FS_EmptySet, FS_CardinalityType
  <1> QED BY <1>1, <1>2

\* The drawn notes of two lists joined.
LEMMA DrawnOfJoined ==
    ASSUME NEW head \in Seq(Note), NEW tail \in Seq(Note), NEW l
    PROVE  Cardinality(DrawnNotes(head \o tail, l)) =
             Cardinality(DrawnNotes(head, l)) + Cardinality(DrawnNotes(tail, l))
  <1> DEFINE S == DrawnNotes(head, l)
             T == DrawnNotes(tail, l)
             f == [j \in T |-> Len(head) + j]
             U == {Len(head) + j : j \in T}
  <1>1. /\ IsFiniteSet(S) /\ IsFiniteSet(T)
        /\ S \subseteq 1..Len(head) /\ T \subseteq 1..Len(tail)
        /\ Len(head) \in Nat /\ Len(tail) \in Nat
    <2>1. /\ DOMAIN head = 1..Len(head) /\ DOMAIN tail = 1..Len(tail)
          /\ Len(head) \in Nat /\ Len(tail) \in Nat
      OBVIOUS
    <2> QED BY <2>1, DrawnNotesFinite
  <1>2. f \in Bijection(T, U)
    <2>1. f \in [T -> U]
      OBVIOUS
    <2>2. \A a, b \in T : f[a] = f[b] => a = b
      BY <1>1
    <2>3. \A u \in U : \E a \in T : f[a] = u
      OBVIOUS
    <2> QED BY <2>1, <2>2, <2>3 DEF Bijection, Injection, Surjection, IsInjective
  <1>3. IsFiniteSet(U) /\ Cardinality(U) = Cardinality(T)
    BY <1>1, <1>2, FS_Bijection DEF ExistsBijection
  <1>4. S \cap U = {}
    BY <1>1
  <1>5. DrawnNotes(head \o tail, l) = S \cup U
    <2> PICK both : both = head \o tail
      OBVIOUS
    <2>1. /\ DOMAIN both = 1..(Len(head) + Len(tail))
          /\ \A j \in 1..Len(head) : both[j] = head[j]
          /\ \A j \in 1..Len(tail) : both[Len(head) + j] = tail[j]
      BY JoinedNotes
    <2>2. /\ S = {j \in 1..Len(head) : head[j].line = l /\ head[j].status = "drawn"}
          /\ T = {j \in 1..Len(tail) : tail[j].line = l /\ tail[j].status = "drawn"}
      BY DEF DrawnNotes
    <2>3. \A j \in 1..(Len(head) + Len(tail)) :
             \/ j \in 1..Len(head)
             \/ j - Len(head) \in 1..Len(tail) /\ j = Len(head) + (j - Len(head))
      BY <1>1
    <2>4. ASSUME NEW j \in DrawnNotes(both, l) PROVE j \in S \cup U
      <3>1. j \in 1..(Len(head) + Len(tail)) /\ both[j].line = l /\ both[j].status = "drawn"
        BY <2>1 DEF DrawnNotes
      <3>2. CASE j \in 1..Len(head)
        BY <2>1, <2>2, <3>1, <3>2
      <3>3. ASSUME NEW k \in 1..Len(tail), j = Len(head) + k PROVE j \in U
        BY <2>1, <2>2, <3>1, <3>3
      <3> QED BY <2>3, <3>1, <3>2, <3>3
    <2>5. ASSUME NEW j \in S PROVE j \in DrawnNotes(both, l)
      BY <1>1, <2>1, <2>2 DEF DrawnNotes
    <2>6. ASSUME NEW k \in T PROVE Len(head) + k \in DrawnNotes(both, l)
      <3>1. k \in 1..Len(tail) /\ tail[k].line = l /\ tail[k].status = "drawn"
        BY <2>2
      <3>2. both[Len(head) + k] = tail[k] /\ Len(head) + k \in DOMAIN both
        BY <1>1, <2>1, <3>1
      <3> QED BY <3>1, <3>2 DEF DrawnNotes
    <2> QED BY <2>4, <2>5, <2>6
  <1>6. Cardinality(S \cup U) = Cardinality(S) + Cardinality(U)
    <2> HIDE DEF S, U
    <2> QED BY <1>1, <1>3, <1>4, DisjointCardinality
  <1> QED BY <1>3, <1>5, <1>6

\* All the notes of a draw are drawn on its line.
LEMMA DrawnOfMinted ==
    ASSUME NEW tx \in Tx, tx.line \in Lines, NEW l
    PROVE  Cardinality(DrawnNotes(Minted(tx), l)) = IF l = tx.line THEN tx.notes ELSE 0
  <1>1. /\ DOMAIN Minted(tx) = 1..tx.notes /\ tx.notes \in Nat
        /\ \A j \in 1..tx.notes : Minted(tx)[j].line = tx.line /\ Minted(tx)[j].status = "drawn"
    BY MintedList, TxFields, NumbersTyped DEF U32, Minted
  <1>2. DrawnNotes(Minted(tx), l) = IF l = tx.line THEN 1..tx.notes ELSE {}
    BY <1>1 DEF DrawnNotes
  <1>3. Cardinality(1..tx.notes) = IF 1 > tx.notes THEN 0 ELSE tx.notes - 1 + 1
    BY <1>1, FS_Interval, SMTT(30)
  <1> QED BY <1>1, <1>2, <1>3, FS_EmptySet

\* Of the drawn notes of a list, in order, marking n takes the first n.
LEMMA FirstDrawn ==
    ASSUME NEW notes \in Seq(Note), NEW n \in Nat,
           n <= Cardinality({j \in DOMAIN notes : notes[j].status = "drawn"})
    PROVE  Cardinality({j \in DOMAIN notes :
                          /\ notes[j].status = "drawn"
                          /\ Cardinality(DrawnUpTo(notes, j)) <= n}) = n
  <1> DEFINE D == {j \in DOMAIN notes : notes[j].status = "drawn"}
             rank == [j \in D |-> Cardinality(DrawnUpTo(notes, j))]
             d == Cardinality(D)
             S == {j \in D : rank[j] <= n}
  <1>1. DOMAIN notes = 1..Len(notes) /\ Len(notes) \in Nat /\ 1 \in Int /\ Len(notes) \in Int
    OBVIOUS
  <1>2. IsFiniteSet(D) /\ d \in Nat
    <2>1. IsFiniteSet(1..Len(notes))
      BY <1>1, FS_Interval
    <2>2. D \in SUBSET (1..Len(notes))
      BY <1>1
    <2> HIDE DEF D
    <2> QED BY <2>1, <2>2, FS_Subset, FS_CardinalityType
  <1>3. \A j \in D : DrawnUpTo(notes, j) = {k \in D : k <= j}
    BY <1>1 DEF DrawnUpTo
  <1>4. \A j \in D : IsFiniteSet(DrawnUpTo(notes, j)) /\ rank[j] \in 1..d
    <2> SUFFICES ASSUME NEW j \in D
                 PROVE  IsFiniteSet(DrawnUpTo(notes, j)) /\ rank[j] \in 1..d
      OBVIOUS
    <2>1. PICK R : R = DrawnUpTo(notes, j)
      OBVIOUS
    <2>2. R \in SUBSET D /\ j \in R
      BY <1>1, <1>3, <2>1
    <2>3. IsFiniteSet(R) /\ Cardinality(R) <= d /\ Cardinality(R) \in Nat
      BY <1>2, <2>2, FS_Subset, FS_CardinalityType
    <2>4. Cardinality(R) # 0
      BY <2>2, <2>3, FS_EmptySet
    <2> QED BY <1>2, <2>1, <2>3, <2>4
  <1>5. \A j, k \in D : rank[j] = rank[k] => j = k
    <2>1. ASSUME NEW j \in D, NEW k \in D, j < k PROVE rank[j] # rank[k]
      <3>1. PICK R, Q : R = DrawnUpTo(notes, j) /\ Q = DrawnUpTo(notes, k)
        OBVIOUS
      <3>2. R \in SUBSET Q /\ k \in Q /\ k \notin R
        BY <1>1, <1>3, <2>1, <3>1
      <3>3. IsFiniteSet(Q)
        BY <1>4, <3>1
      <3>4. Cardinality(Q) = Cardinality(R) => Q = R
        BY <3>2, <3>3, FS_Subset
      <3> QED BY <3>1, <3>2, <3>4
    <2>2. \A j, k \in D : j \in Nat /\ k \in Nat
      BY <1>1
    <2> HIDE DEF D, rank
    <2> QED BY <2>1, <2>2
  <1>6. rank \in Injection(D, 1..d)
    BY <1>4, <1>5 DEF Injection, IsInjective
  <1>7. IsFiniteSet(1..d) /\ Cardinality(1..d) = d
    BY <1>2, FS_Interval
  <1>8. rank \in Surjection(D, 1..d)
    BY <1>6, <1>7, FS_Injection
  <1>9. \A i \in 1..n : \E j \in S : rank[j] = i
    <2>1. ASSUME NEW i \in 1..n PROVE \E j \in S : rank[j] = i
      <3>1. i \in 1..d /\ i <= n
        BY <1>2
      <3>2. PICK j \in D : rank[j] = i
        BY <1>8, <3>1 DEF Surjection
      <3> QED BY <3>1, <3>2
    <2> QED BY <2>1
  <1>10. [j \in S |-> rank[j]] \in Bijection(S, 1..n)
    <2> HIDE DEF rank
    <2>1. \A j \in S : rank[j] \in 1..n /\ j \in D
      BY <1>2, <1>4
    <2> HIDE DEF S
    <2>2. [j \in S |-> rank[j]] \in [S -> 1..n]
      BY <2>1
    <2> QED BY <1>5, <1>9, <2>1, <2>2 DEF Bijection, Injection, Surjection, IsInjective
  <1>11. IsFiniteSet(S)
    BY <1>2, FS_Subset
  <1>12. Cardinality(S) = Cardinality(1..n)
    BY <1>10, <1>11, FS_Bijection DEF ExistsBijection
  <1>13. Cardinality(1..n) = n
    BY FS_Interval
  <1>14. S = {j \in DOMAIN notes : /\ notes[j].status = "drawn"
                                   /\ Cardinality(DrawnUpTo(notes, j)) <= n}
    OBVIOUS
  <1> QED BY <1>12, <1>13, <1>14

\* When every drawn note is drawn on l, marking n of them leaves the others.
LEMMA DrawnOfMarked ==
    ASSUME NEW notes \in Seq(Note), NEW n \in Nat, NEW l,
           \A j \in DOMAIN notes : notes[j].status = "drawn" => notes[j].line = l
    PROVE  /\ n <= Cardinality(DrawnNotes(notes, l)) =>
                Cardinality(DrawnNotes(MarkRepaid(notes, n), l))
                  = Cardinality(DrawnNotes(notes, l)) - n
           /\ \A other : other # l => DrawnNotes(MarkRepaid(notes, n), other) = {}
  <1> DEFINE D == {j \in DOMAIN notes : notes[j].status = "drawn"}
             S == {j \in DOMAIN notes : /\ notes[j].status = "drawn"
                                        /\ Cardinality(DrawnUpTo(notes, j)) <= n}
  <1>1. DrawnNotes(notes, l) = D
    BY DEF DrawnNotes
  <1>2. PICK marked : marked = MarkRepaid(notes, n)
    OBVIOUS
  <1>3. /\ DOMAIN marked = DOMAIN notes
        /\ \A j \in DOMAIN notes :
              /\ marked[j].line = notes[j].line
              /\ marked[j].status = IF Cardinality(DrawnUpTo(notes, j)) <= n
                                    THEN "repaid" ELSE notes[j].status
    BY <1>2, MarkedList
  <1>4. DrawnNotes(marked, l) = D \ S
    BY <1>3 DEF DrawnNotes
  <1>5. \A other : other # l => DrawnNotes(marked, other) = {}
    BY <1>3 DEF DrawnNotes
  <1>6. ASSUME n <= Cardinality(D) PROVE Cardinality(D \ S) = Cardinality(D) - n
    <2>1. Cardinality(S) = n
      BY <1>6, FirstDrawn
    <2>2. IsFiniteSet(D)
      BY <1>1, DrawnNotesFinite
    <2>3. D \cap S = S
      OBVIOUS
    <2> HIDE DEF D, S
    <2> QED BY <2>1, <2>2, <2>3, FS_Difference
  <1> QED BY <1>1, <1>2, <1>4, <1>5, <1>6

-----------------------------------------------------------------------------
(* The steps of a handler, by what the page becomes. *)

LEMMA OpenBecomes ==
    ASSUME PageTypeOK, NEW t \in Tabs, Open(t)
    PROVE  Becomes(t, "restoring", saved, tab[t].seen, tab[t].tx, tab[t].fate)
  <1>1. PICK page : page = [[tab[t] EXCEPT !.at = "restoring"] EXCEPT !.held = saved]
    OBVIOUS
  <1>2. /\ page \in Page
        /\ page.at = "restoring" /\ page.held = saved /\ page.seen = tab[t].seen
        /\ page.tx = tab[t].tx /\ page.fate = tab[t].fate
    BY <1>1 DEF PageTypeOK, Page, Phase
  <1>3. tab' = [tab EXCEPT ![t] = page]
    BY <1>1 DEF Open, PageTypeOK
  <1> QED BY <1>2, <1>3 DEF Becomes

LEMMA RestoreBecomes ==
    ASSUME PageTypeOK, NEW t \in Tabs, Restore(t)
    PROVE  \E data : Becomes(t, "ready", tab[t].held, data, tab[t].tx, tab[t].fate)
  <1>1. PICK data \in Refetched(t, tab[t].held.line) :
            tab' = [tab EXCEPT ![t].at = "ready", ![t].seen = data]
    BY DEF Restore
  <1>2. PICK page : page = [[tab[t] EXCEPT !.at = "ready"] EXCEPT !.seen = data]
    OBVIOUS
  <1>3. /\ page \in Page
        /\ page.at = "ready" /\ page.held = tab[t].held /\ page.seen = data
        /\ page.tx = tab[t].tx /\ page.fate = tab[t].fate
    BY <1>2, RefetchedTyped DEF PageTypeOK, Page, Phase
  <1>4. tab' = [tab EXCEPT ![t] = page]
    BY <1>1, <1>2 DEF PageTypeOK
  <1> QED BY <1>3, <1>4 DEF Becomes

LEMMA LeaveBecomes ==
    ASSUME PageTypeOK, NEW t \in Tabs, Leave(t)
    PROVE  Becomes(t, "closed", Nothing, EmptyLine, NoTx, "none")
  <1>1. PICK page : page = Closed
    OBVIOUS
  <1>2. /\ page.at = "closed" /\ page.held = Nothing /\ page.seen = EmptyLine
        /\ page.tx = NoTx /\ page.fate = "none"
    BY <1>1 DEF Closed
  <1> QED BY <1>1, <1>2, NothingTyped DEF Leave, Becomes

\* What a failing handler leaves: an address may be taken back.
LEMMA FailBecomes ==
    ASSUME PageTypeOK, NEW t \in Tabs, Fail(t)
    PROVE  \E held \in Saved :
             /\ Becomes(t, "ready", held, tab[t].seen, NoTx, "none")
             /\ saved' = WithAddresses(tab[t].held, held)
             /\ held.notes = tab[t].held.notes
             /\ held.pool = IF tab[t].tx.kind = "pool" THEN ZeroKey ELSE tab[t].held.pool
             /\ held.line = IF tab[t].tx.kind \in {"pool", "line"} THEN ZeroKey
                            ELSE tab[t].held.line
  <1>1. PICK held : held = CASE tab[t].tx.kind = "pool" ->
                                  [tab[t].held EXCEPT !.pool = ZeroKey, !.line = ZeroKey]
                             [] tab[t].tx.kind = "line" -> [tab[t].held EXCEPT !.line = ZeroKey]
                             [] OTHER -> tab[t].held
    OBVIOUS
  <1>2. /\ saved' = WithAddresses(tab[t].held, held)
        /\ tab' = [tab EXCEPT ![t].at = "ready", ![t].held = held,
                              ![t].tx = NoTx, ![t].fate = "none"]
    BY <1>1 DEF Fail
  <1>3. /\ held \in Saved /\ held.notes = tab[t].held.notes
        /\ held.pool = IF tab[t].tx.kind = "pool" THEN ZeroKey ELSE tab[t].held.pool
        /\ held.line = IF tab[t].tx.kind \in {"pool", "line"} THEN ZeroKey
                       ELSE tab[t].held.line
    <2>1. tab[t].held \in Saved
      BY TabFields
    <2>2. PICK was : was = tab[t].held
      OBVIOUS
    <2>3. /\ [[was EXCEPT !.pool = ZeroKey] EXCEPT !.line = ZeroKey] \in Saved
          /\ [was EXCEPT !.line = ZeroKey] \in Saved
      BY <2>1, <2>2 DEF Saved
    <2>4. CASE tab[t].tx.kind = "pool"
      <3>1. held = [[was EXCEPT !.pool = ZeroKey] EXCEPT !.line = ZeroKey]
        BY <1>1, <2>2, <2>4
      <3> QED BY <2>1, <2>2, <2>3, <2>4, <3>1 DEF Saved
    <2>5. CASE tab[t].tx.kind = "line"
      <3>1. held = [was EXCEPT !.line = ZeroKey]
        BY <1>1, <2>2, <2>5
      <3> QED BY <2>1, <2>2, <2>3, <2>5, <3>1 DEF Saved
    <2>6. CASE tab[t].tx.kind \notin {"pool", "line"}
      BY <1>1, <2>1, <2>6
    <2> QED BY <2>4, <2>5, <2>6
  <1>4. PICK page : page = [[[[tab[t] EXCEPT !.at = "ready"] EXCEPT !.held = held]
                              EXCEPT !.tx = NoTx] EXCEPT !.fate = "none"]
    OBVIOUS
  <1>5. /\ page \in Page
        /\ page.at = "ready" /\ page.held = held /\ page.seen = tab[t].seen
        /\ page.tx = NoTx /\ page.fate = "none"
    BY <1>3, <1>4, NothingTyped DEF PageTypeOK, Page, Phase
  <1>6. tab' = [tab EXCEPT ![t] = page]
    BY <1>2, <1>4 DEF PageTypeOK
  <1>7. Becomes(t, "ready", held, tab[t].seen, NoTx, "none")
    BY <1>5, <1>6 DEF Becomes
  <1> QED BY <1>2, <1>3, <1>7

LEMMA SendBecomes ==
    ASSUME PageTypeOK, NEW t \in Tabs, Send(t)
    PROVE  \E tx \in Tx :
             /\ Becomes(t, "confirming", tab[t].held, tab[t].seen, tx, "pending")
             /\ flight' = flight \cup {tx} /\ sent' \in 0..MaxSent
             /\ tx.kind = tab[t].tx.kind /\ tx.pool = tab[t].tx.pool
             /\ tx.line = tab[t].tx.line /\ tx.notes = tab[t].tx.notes
             /\ tx.slot = tab[t].tx.slot
  <1>1. PICK tx : tx = [tab[t].tx EXCEPT !.id = sent + 1]
    OBVIOUS
  <1>2. sent + 1 \in 0..MaxSent
    BY NumbersTyped DEF Send, PageTypeOK
  <1>3. /\ tx \in Tx
        /\ tx.kind = tab[t].tx.kind /\ tx.pool = tab[t].tx.pool
        /\ tx.line = tab[t].tx.line /\ tx.notes = tab[t].tx.notes
        /\ tx.slot = tab[t].tx.slot
    <2>1. tab[t].tx \in Tx
      BY TabFields
    <2> QED BY <1>1, <1>2, <2>1 DEF Tx
  <1>4. PICK page : page = [[[tab[t] EXCEPT !.at = "confirming"] EXCEPT !.tx = tx]
                             EXCEPT !.fate = "pending"]
    OBVIOUS
  <1>5. /\ page \in Page
        /\ page.at = "confirming" /\ page.held = tab[t].held /\ page.seen = tab[t].seen
        /\ page.tx = tx /\ page.fate = "pending"
    BY <1>3, <1>4 DEF PageTypeOK, Page, Phase
  <1>6. /\ tab' = [tab EXCEPT ![t] = page]
        /\ flight' = flight \cup {tx}
    BY <1>1, <1>4 DEF Send, PageTypeOK
  <1>7. sent' = sent + 1
    BY DEF Send
  <1>8. Becomes(t, "confirming", tab[t].held, tab[t].seen, tx, "pending")
    BY <1>5, <1>6 DEF Becomes
  <1> QED BY <1>2, <1>3, <1>6, <1>7, <1>8

\* A handler begins: what it will sign.
LEMMA BeginBecomes ==
    ASSUME PageTypeOK, NEW t \in Tabs, NEW tx \in Tx, NEW data \in CreditLineAccount,
           Begin(t, tx, data)
    PROVE  Becomes(t, "signing", tab[t].held, data, tx, tab[t].fate)
  <1>1. PICK page : page = [[[tab[t] EXCEPT !.at = "signing"] EXCEPT !.tx = tx]
                             EXCEPT !.seen = data]
    OBVIOUS
  <1>2. /\ page \in Page
        /\ page.at = "signing" /\ page.held = tab[t].held /\ page.seen = data
        /\ page.tx = tx /\ page.fate = tab[t].fate
    BY <1>1 DEF PageTypeOK, Page, Phase
  <1>3. tab' = [tab EXCEPT ![t] = page]
    BY <1>1 DEF Begin, PageTypeOK
  <1> QED BY <1>2, <1>3 DEF Becomes

LEMMA SetupBecomes ==
    ASSUME PageTypeOK, NEW t \in Tabs, NEW p \in Pools, Setup(t, p)
    PROVE  \E tx \in Tx :
             /\ Becomes(t, "signing", tab[t].held, tab[t].seen, tx, tab[t].fate)
             /\ tx.kind = "pool" /\ tx.pool = p /\ tx.slot = slot
             /\ tx.slot + PoolTerm <= MaxSlot
  <1>1. PICK tx : tx = [NoTx EXCEPT !.kind = "pool", !.pool = p, !.slot = slot]
    OBVIOUS
  <1>2. slot \in Slots
    BY DEF PageTypeOK
  <1>3. tx \in Tx /\ tx.kind = "pool" /\ tx.pool = p /\ tx.slot = slot
    BY <1>1, <1>2, NothingTyped DEF Tx
  <1>4. Begin(t, tx, tab[t].seen) /\ tx.slot + PoolTerm <= MaxSlot
    BY <1>1, <1>3 DEF Setup
  <1> QED BY <1>3, <1>4, TabFields, BeginBecomes

LEMMA PoolConfirmedBecomes ==
    ASSUME PageTypeOK, HandlersFit, NEW t \in Tabs, NEW l \in Lines, PoolConfirmed(t, l)
    PROVE  \E tx \in Tx, held \in Saved :
             /\ Becomes(t, "signing", held, tab[t].seen, tx, "none")
             /\ saved' = WithAddresses(tab[t].held, held)
             /\ held.pool = tab[t].tx.pool /\ held.line = tab[t].held.line
             /\ held.notes = tab[t].held.notes
             /\ tx.kind = "line" /\ tx.pool = tab[t].tx.pool /\ tx.line = l
             /\ tx.slot = slot /\ tx.pool \in Pools
  <1>1. PICK tx, held : /\ tx = [tab[t].tx EXCEPT !.kind = "line", !.line = l, !.slot = slot]
                        /\ held = [tab[t].held EXCEPT !.pool = tab[t].tx.pool]
    OBVIOUS
  <1>2. slot \in Slots /\ tab[t].tx \in Tx /\ tab[t].held \in Saved /\ tab[t].tx.pool \in Pools
    BY TabFields DEF PageTypeOK, HandlersFit, TxFits, PoolConfirmed, Confirmed
  <1>3. /\ tx \in Tx /\ tx.kind = "line" /\ tx.pool = tab[t].tx.pool /\ tx.line = l
        /\ tx.slot = slot
    BY <1>1, <1>2 DEF Tx
  <1>4. /\ held \in Saved /\ held.pool = tab[t].tx.pool /\ held.line = tab[t].held.line
        /\ held.notes = tab[t].held.notes
    BY <1>1, <1>2 DEF Saved
  <1>5. PICK page : page = [[[[tab[t] EXCEPT !.at = "signing"] EXCEPT !.held = held]
                              EXCEPT !.fate = "none"] EXCEPT !.tx = tx]
    OBVIOUS
  <1>6. /\ page \in Page
        /\ page.at = "signing" /\ page.held = held /\ page.seen = tab[t].seen
        /\ page.tx = tx /\ page.fate = "none"
    BY <1>3, <1>4, <1>5 DEF PageTypeOK, Page, Phase
  <1>7. /\ tab' = [tab EXCEPT ![t] = page]
        /\ saved' = WithAddresses(tab[t].held, held)
    BY <1>1, <1>5 DEF PoolConfirmed, PageTypeOK
  <1>8. Becomes(t, "signing", held, tab[t].seen, tx, "none")
    BY <1>6, <1>7 DEF Becomes
  <1> QED BY <1>2, <1>3, <1>4, <1>7, <1>8

LEMMA LineConfirmedBecomes ==
    ASSUME PageTypeOK, NEW t \in Tabs, LineConfirmed(t)
    PROVE  \E held \in Saved : \E data :
             /\ Becomes(t, "ready", held, data, NoTx, "none")
             /\ saved' = WithAddresses(tab[t].held, held)
             /\ held.pool = tab[t].held.pool /\ held.line = tab[t].tx.line
             /\ held.notes = tab[t].held.notes
  <1>1. PICK held : held = [tab[t].held EXCEPT !.line = tab[t].tx.line]
    OBVIOUS
  <1>2. tab[t].held \in Saved /\ tab[t].tx.line \in Lines \cup {ZeroKey}
    BY TabFields, TxFields
  <1>3. /\ held \in Saved /\ held.pool = tab[t].held.pool /\ held.line = tab[t].tx.line
        /\ held.notes = tab[t].held.notes
    BY <1>1, <1>2 DEF Saved
  <1>4. PICK data \in Refetched(t, held.line) :
            tab' = [tab EXCEPT ![t].at = "ready", ![t].held = held,
                               ![t].seen = data, ![t].tx = NoTx, ![t].fate = "none"]
    BY <1>1 DEF LineConfirmed
  <1>5. data \in CreditLineAccount
    BY RefetchedTyped
  <1>6. PICK page : page = [[[[[tab[t] EXCEPT !.at = "ready"] EXCEPT !.held = held]
                      EXCEPT !.seen = data] EXCEPT !.tx = NoTx] EXCEPT !.fate = "none"]
    OBVIOUS
  <1>7. /\ page \in Page
        /\ page.at = "ready" /\ page.held = held /\ page.seen = data
        /\ page.tx = NoTx /\ page.fate = "none"
    BY <1>3, <1>5, <1>6, NothingTyped DEF PageTypeOK, Page, Phase
  <1>8. tab' = [tab EXCEPT ![t] = page]
    BY <1>4, <1>6 DEF PageTypeOK
  <1>9. saved' = WithAddresses(tab[t].held, held)
    BY <1>1 DEF LineConfirmed
  <1>10. Becomes(t, "ready", held, data, NoTx, "none")
    BY <1>7, <1>8 DEF Becomes
  <1> QED BY <1>3, <1>9, <1>10

\* A draw or a repayment is for the line the page holds.
LEMMA OperationBecomes ==
    ASSUME PageTypeOK, NEW t \in Tabs, HasLine(t), NEW kind \in {"draw", "repay"},
           NEW notes \in U32, NEW data \in CreditLineAccount,
           Begin(t, Operation(t, kind, notes), data)
    PROVE  \E tx \in Tx :
             /\ Becomes(t, "signing", tab[t].held, data, tx, tab[t].fate)
             /\ tx.kind = kind /\ tx.pool = tab[t].held.pool /\ tx.line = tab[t].held.line
             /\ tx.slot = slot /\ tx.pool \in Pools /\ tx.line \in Lines
  <1>1. PICK tx : tx = Operation(t, kind, notes)
    OBVIOUS
  <1>2. /\ slot \in Slots /\ tab[t].held.pool \in Pools /\ tab[t].held.line \in Lines
    BY TabFields, SavedFields DEF PageTypeOK, HasLine
  <1>3. /\ tx \in Tx /\ tx.kind = kind /\ tx.pool = tab[t].held.pool
        /\ tx.line = tab[t].held.line /\ tx.slot = slot
    BY <1>1, <1>2, NothingTyped DEF Operation, Tx
  <1>4. Becomes(t, "signing", tab[t].held, data, tx, tab[t].fate)
    BY <1>1, <1>3, BeginBecomes
  <1> QED BY <1>2, <1>3, <1>4

LEMMA LineDataTyped ==
    ASSUME PageTypeOK, NEW t \in Tabs, NEW data \in LineData(t)
    PROVE  data \in CreditLineAccount
  BY TabFields, EmptyAccountsTyped DEF LineData, Fetched, PageTypeOK, TypeOK

LEMMA DrawBecomes ==
    ASSUME PageTypeOK, NEW t \in Tabs, NEW n \in U32, Draw(t, n) \/ Repay(t, n)
    PROVE  \E tx \in Tx : \E data :
             /\ Becomes(t, "signing", tab[t].held, data, tx, tab[t].fate)
             /\ tab[t].at = "ready"
             /\ tx.kind \in {"draw", "repay"}
             /\ tx.pool = tab[t].held.pool /\ tx.line = tab[t].held.line
             /\ tx.slot = slot /\ tx.pool \in Pools /\ tx.line \in Lines
  <1>1. CASE Draw(t, n)
    <2>1. PICK data \in LineData(t) : Begin(t, Operation(t, "draw", n), data)
      BY <1>1 DEF Draw
    <2>2. HasLine(t) /\ tab[t].at = "ready"
      BY <1>1 DEF Draw, HasLine
    <2> QED BY <2>1, <2>2, LineDataTyped, OperationBecomes
  <1>2. CASE Repay(t, n)
    <2>1. PICK data \in LineData(t) :
             LET owed == data.drawn - data.repaid - data.defaulted IN
             /\ owed > 0
             /\ Begin(t, Operation(t, "repay", IF n <= owed THEN n ELSE owed), data)
      BY <1>2 DEF Repay
    <2>2. HasLine(t) /\ tab[t].at = "ready"
      BY <1>2 DEF Repay, HasLine
    <2>3. data \in CreditLineAccount
      BY LineDataTyped
    <2>4. data.drawn \in 0..MaxU32 /\ data.repaid \in 0..MaxU32 /\ data.defaulted \in 0..MaxU32
      BY <2>3 DEF CreditLineAccount, U32
    <2>5. PICK m : m = IF n <= data.drawn - data.repaid - data.defaulted THEN n
                       ELSE data.drawn - data.repaid - data.defaulted
      OBVIOUS
    <2>6. m \in U32
      BY <2>1, <2>4, <2>5, NumbersTyped DEF U32
    <2>7. Begin(t, Operation(t, "repay", m), data)
      BY <2>1, <2>5
    <2> QED BY <2>2, <2>3, <2>6, <2>7, OperationBecomes
  <1> QED BY <1>1, <1>2

LEMMA DrawConfirmedBecomes ==
    ASSUME PageTypeOK, NEW t \in Tabs, DrawConfirmed(t)
    PROVE  Becomes(t, "proving", tab[t].held, tab[t].seen, tab[t].tx, "none")
  <1>1. PICK page : page = [[tab[t] EXCEPT !.at = "proving"] EXCEPT !.fate = "none"]
    OBVIOUS
  <1>2. /\ page \in Page
        /\ page.at = "proving" /\ page.held = tab[t].held /\ page.seen = tab[t].seen
        /\ page.tx = tab[t].tx /\ page.fate = "none"
    BY <1>1 DEF PageTypeOK, Page, Phase
  <1>3. tab' = [tab EXCEPT ![t] = page]
    BY <1>1 DEF DrawConfirmed, PageTypeOK
  <1> QED BY <1>2, <1>3 DEF Becomes

\* The notes of a page are replaced, in the storage and on the page.
LEMMA NotesBecome ==
    ASSUME PageTypeOK, NEW t \in Tabs, NEW notes \in Seq(Note),
           \/ KeepNotes(t) /\ notes = Minted(tab[t].tx) \o tab[t].held.notes
           \/ RepayConfirmed(t) /\ notes = MarkRepaid(tab[t].held.notes, tab[t].tx.notes)
    PROVE  \E held \in Saved : \E data, fate :
             /\ Becomes(t, "ready", held, data, NoTx, fate)
             /\ held.notes = notes
             /\ held.pool = tab[t].held.pool /\ held.line = tab[t].held.line
             /\ saved' \in Saved /\ saved'.notes = notes
             /\ saved'.pool = saved.pool /\ saved'.line = saved.line
  <1>1. /\ tab[t].held \in Saved /\ saved \in Saved
        /\ tab[t].fate \in {"none", "pending", "ok", "failed"}
    BY TabFields DEF PageTypeOK
  <1>2. PICK held, after : /\ held = [tab[t].held EXCEPT !.notes = notes]
                           /\ after = [saved EXCEPT !.notes = notes]
    OBVIOUS
  <1>3. /\ held \in Saved /\ held.notes = notes
        /\ held.pool = tab[t].held.pool /\ held.line = tab[t].held.line
        /\ after \in Saved /\ after.notes = notes
        /\ after.pool = saved.pool /\ after.line = saved.line
    BY <1>1, <1>2 DEF Saved
  <1>4. saved' = after
    BY <1>2 DEF KeepNotes, RepayConfirmed
  <1>5. \E data, fate : Becomes(t, "ready", held, data, NoTx, fate)
    <2>1. CASE KeepNotes(t) /\ notes = Minted(tab[t].tx) \o tab[t].held.notes
      <3>1. PICK data \in Refetched(t, tab[t].held.line) :
               tab' = [tab EXCEPT ![t].at = "ready", ![t].held.notes = notes,
                                  ![t].seen = data, ![t].tx = NoTx]
        BY <2>1 DEF KeepNotes
      <3>2. PICK page : page = [[[[tab[t] EXCEPT !.at = "ready"] EXCEPT !.held = held]
                                 EXCEPT !.seen = data] EXCEPT !.tx = NoTx]
        OBVIOUS
      <3>3. /\ page \in Page
            /\ page.at = "ready" /\ page.held = held /\ page.seen = data
            /\ page.tx = NoTx /\ page.fate = tab[t].fate
        BY <1>3, <3>2, NothingTyped, RefetchedTyped DEF PageTypeOK, Page, Phase
      <3>4. tab' = [tab EXCEPT ![t] = page]
        BY <1>2, <3>1, <3>2 DEF PageTypeOK, Page
      <3> QED BY <1>1, <3>3, <3>4 DEF Becomes
    <2>2. CASE /\ RepayConfirmed(t)
               /\ notes = MarkRepaid(tab[t].held.notes, tab[t].tx.notes)
      <3>1. PICK data \in Refetched(t, tab[t].held.line) :
               tab' = [tab EXCEPT ![t].at = "ready", ![t].held.notes = notes,
                                  ![t].seen = data, ![t].tx = NoTx, ![t].fate = "none"]
        BY <2>2 DEF RepayConfirmed
      <3>2. PICK page : page = [[[[[tab[t] EXCEPT !.at = "ready"] EXCEPT !.held = held]
                       EXCEPT !.seen = data] EXCEPT !.tx = NoTx] EXCEPT !.fate = "none"]
        OBVIOUS
      <3>3. /\ page \in Page
            /\ page.at = "ready" /\ page.held = held /\ page.seen = data
            /\ page.tx = NoTx /\ page.fate = "none"
        BY <1>3, <3>2, NothingTyped, RefetchedTyped DEF PageTypeOK, Page, Phase
      <3>4. tab' = [tab EXCEPT ![t] = page]
        BY <1>2, <3>1, <3>2, ZenonT(60) DEF PageTypeOK, Page
      <3> QED BY <3>3, <3>4 DEF Becomes
    <2> QED BY <2>1, <2>2
  <1> QED BY <1>3, <1>4, <1>5

-----------------------------------------------------------------------------
(* The steps of the page are steps of the program. *)

\* What a transaction of the page does on the chain.
LEMMA ExecuteIsStep ==
    ASSUME PageTypeOK, NEW tx \in Tx, TxFits(tx), Execute(tx)
    PROVE  Next
  <1>a. Wallet \in Underwriters /\ Wallet \in Auditors /\ Wallet \in Borrowers /\ Wallet \in Keys
    BY WalletAssumption DEF Keys
  <1>b. tx.slot \in Slots /\ tx.notes \in U32 /\ PoolNotes \in U32 /\ LineNotes \in U32
    BY TxFields, NumbersAssumption
  <1>1. CASE /\ tx.kind = "pool"
             /\ \E t \in Terms :
                   InitializePool(tx.pool, Wallet, Wallet, t, PoolNotes, tx.slot + PoolTerm)
    <2>1. tx.pool \in Pools /\ tx.slot + PoolTerm \in Slots
      BY <1>1, <1>b, NumbersTyped DEF TxFits, Slots
    <2>2. PICK t \in Terms, m \in Slots :
             InitializePool(tx.pool, Wallet, Wallet, t, PoolNotes, m)
      BY <1>1, <2>1
    <2> QED BY <1>a, <1>b, <2>1, <2>2 DEF Next
  <1>2. CASE /\ tx.kind = "line"
             /\ ApproveCreditLine(Wallet, tx.pool, tx.line, Wallet, LineNotes,
                                  tx.slot, pool[tx.pool].maturity - Margin)
    <2>1. tx.pool \in Pools /\ tx.line \in Lines
      BY <1>2 DEF TxFits
    <2>2. pool[tx.pool].maturity \in Slots
      BY <2>1 DEF PageTypeOK, TypeOK, PoolAccount
    <2>3. tx.slot < pool[tx.pool].maturity - Margin
      BY <1>2 DEF ApproveCreditLine
    <2>4. pool[tx.pool].maturity - Margin \in Slots
      BY <1>b, <2>2, <2>3, NumbersTyped DEF Slots
    <2>5. PICK m \in Slots :
             ApproveCreditLine(Wallet, tx.pool, tx.line, Wallet, LineNotes, tx.slot, m)
      BY <1>2, <2>4
    <2> QED BY <1>a, <1>b, <2>1, <2>5 DEF Next
  <1>3. CASE /\ tx.kind = "draw"
             /\ DrawTranche(Wallet, tx.pool, tx.line, tx.notes, tx.slot)
    <2>1. tx.pool \in Pools /\ tx.line \in Lines
      BY <1>3 DEF TxFits
    <2> QED BY <1>3, <1>a, <1>b, <2>1 DEF Next
  <1>4. CASE tx.kind = "repay" /\ RepayTranche(Wallet, tx.pool, tx.line, tx.notes)
    <2>1. tx.pool \in Pools /\ tx.line \in Lines
      BY <1>4 DEF TxFits
    <2> QED BY <1>4, <1>a, <1>b, <2>1 DEF Next
  <1> QED BY <1>1, <1>2, <1>3, <1>4 DEF Execute

\* A settlement is the program's own, whatever slot its caller names.
LEMMA SettleIsStep ==
    ASSUME NEW p \in Pools, NEW l \in Lines, Settle(p, l)
    PROVE  Next
  BY DEF Settle, Next

\* A step of the page is one of the program or leaves its accounts alone.
LEMMA PageStepsTheChain ==
    ASSUME PageTypeOK, HandlersFit, [PageNext]_allVars
    PROVE  [Next]_vars
  <1>1. ASSUME NEW t \in Tabs, TabStep(t) PROVE UNCHANGED vars
    BY <1>1 DEF TabStep, Open, Restore, Leave, Send, Refuse, TimeOut, Setup, PoolConfirmed,
                LineConfirmed, Draw, Repay, DrawConfirmed, KeepNotes, RepayConfirmed,
                chainVars, vars
  <1>2. ASSUME NEW tx \in flight, Land(tx) PROVE Next \/ UNCHANGED vars
    <2>1. tx \in Tx /\ TxFits(tx)
      BY DEF PageTypeOK, HandlersFit
    <2> QED BY <1>2, <2>1, ExecuteIsStep DEF Land
  <1>3. ASSUME NEW tx \in flight, Drop(tx) PROVE UNCHANGED vars
    BY <1>3 DEF Drop, chainVars, vars
  <1>4. TimePasses => UNCHANGED vars
    BY DEF TimePasses, Tick
  <1>5. UNCHANGED allVars => UNCHANGED vars
    BY DEF allVars, chainVars, vars
  <1> QED BY <1>1, <1>2, <1>3, <1>4, <1>5, SettleIsStep DEF PageNext

\* A tab that waits for a transaction learns what became of it.
LEMMA ReportTells ==
    ASSUME PageTypeOK, NEW tx \in Tx, NEW fate \in {"ok", "failed"},
           tab' = Report(tx, fate)
    PROVE  /\ tab' \in [Tabs -> Page]
           /\ \A t \in Tabs :
                 /\ tab'[t].at = tab[t].at /\ tab'[t].held = tab[t].held
                 /\ tab'[t].seen = tab[t].seen /\ tab'[t].tx = tab[t].tx
                 /\ tab'[t].fate = IF WaitsFor(t, tx) THEN fate ELSE tab[t].fate
  <1>1. ASSUME NEW t \in Tabs
        PROVE  \E page \in Page :
                  /\ page = IF WaitsFor(t, tx) THEN [tab[t] EXCEPT !.fate = fate] ELSE tab[t]
                  /\ page.at = tab[t].at /\ page.held = tab[t].held
                  /\ page.seen = tab[t].seen /\ page.tx = tab[t].tx
                  /\ page.fate = IF WaitsFor(t, tx) THEN fate ELSE tab[t].fate
    <2>1. tab[t] \in Page
      BY DEF PageTypeOK
    <2>2. PICK told : told = [tab[t] EXCEPT !.fate = fate]
      OBVIOUS
    <2>3. /\ told \in Page /\ told.fate = fate
          /\ told.at = tab[t].at /\ told.held = tab[t].held
          /\ told.seen = tab[t].seen /\ told.tx = tab[t].tx
      BY <2>1, <2>2 DEF Page
    <2> QED BY <2>1, <2>2, <2>3
  <1>2. /\ tab' = [t \in Tabs |-> tab'[t]]
        /\ \A t \in Tabs : tab'[t] =
             IF WaitsFor(t, tx) THEN [tab[t] EXCEPT !.fate = fate] ELSE tab[t]
    BY DEF Report
  <1> HIDE DEF Page
  <1>3. \A t \in Tabs : tab'[t] \in Page
    BY <1>1, <1>2
  <1>4. tab' \in [Tabs -> Page]
    BY <1>2, <1>3
  <1> QED BY <1>1, <1>2, <1>4

-----------------------------------------------------------------------------
(* PageInv. *)

LEMMA NoTxFits == TxFits(NoTx) /\ NoTx.kind = "none"
  BY DEF NoTx, TxFits

\* The list that a confirmed draw or repayment leaves.
LEMMA NewNotesTyped ==
    ASSUME PageTypeOK, HandlersFit, NEW t \in Tabs, KeepNotes(t) \/ RepayConfirmed(t)
    PROVE  \E notes \in Seq(Note) :
             \/ KeepNotes(t) /\ notes = Minted(tab[t].tx) \o tab[t].held.notes
             \/ RepayConfirmed(t) /\ notes = MarkRepaid(tab[t].held.notes, tab[t].tx.notes)
  <1>1. tab[t].held.notes \in Seq(Note) /\ tab[t].tx \in Tx
    BY TabFields, SavedFields
  <1>2. CASE KeepNotes(t)
    <2>1. tab[t].tx.line \in Lines
      BY <1>2 DEF KeepNotes, HandlersFit, TxFits
    <2>2. Minted(tab[t].tx) \in Seq(Note)
      BY <1>1, <2>1, MintedList
    <2>3. Minted(tab[t].tx) \o tab[t].held.notes \in Seq(Note)
      BY <1>1, <2>2, JoinedNotes
    <2> QED BY <1>2, <2>3
  <1>3. CASE RepayConfirmed(t)
    <2>1. MarkRepaid(tab[t].held.notes, tab[t].tx.notes) \in Seq(Note)
      BY <1>1, MarkedList
    <2> QED BY <1>3, <2>1
  <1> QED BY <1>2, <1>3

\* What a step of one tab has to show.
LEMMA BecomesFits ==
    ASSUME PageTypeOK, HandlersFit, NEW t \in Tabs,
           NEW at, NEW held, NEW seen, NEW tx, NEW fate,
           Becomes(t, at, held, seen, tx, fate), TxFits(tx),
           at \in {"closed", "restoring", "ready"} => tx.kind = "none",
           at = "proving" => tx.kind = "draw",
           \A x \in flight' : x \in flight \/ x = tx
    PROVE  tab' \in [Tabs -> Page] /\ HandlersFit'
  <1>1. /\ tab' \in [Tabs -> Page]
        /\ tab'[t].at = at /\ tab'[t].tx = tx
        /\ \A u \in Tabs : u # t => tab'[u] = tab[u]
    BY BecomesTyped
  <1>2. \A x \in flight' : TxFits(x)
    BY DEF HandlersFit
  <1>3. ASSUME NEW u \in Tabs
        PROVE  /\ TxFits(tab'[u].tx)
               /\ tab'[u].at \in {"closed", "restoring", "ready"} => tab'[u].tx.kind = "none"
               /\ tab'[u].at = "proving" => tab'[u].tx.kind = "draw"
    BY <1>1 DEF HandlersFit
  <1>4. /\ TxFits(tab[t].tx)' <=> TxFits(tab'[t].tx)
        /\ \A x : TxFits(x)' <=> TxFits(x)
    BY DEF TxFits
  <1> QED BY <1>1, <1>2, <1>3 DEF HandlersFit, TxFits

\* The variables of the page keep their types, and the handlers fit.
PageKept ==
    /\ slot' \in Slots /\ saved' \in Saved /\ tab' \in [Tabs -> Page]
    /\ flight' \subseteq Tx /\ sent' \in 0..MaxSent /\ mishap' \in BOOLEAN
    /\ HandlersFit'

LEMMA TabStepKeepsPage ==
    ASSUME PageTypeOK, HandlersFit, NEW t \in Tabs, TabStep(t)
    PROVE  PageKept
  <1>a. /\ slot \in Slots /\ saved \in Saved /\ flight \subseteq Tx
        /\ sent \in 0..MaxSent /\ mishap \in BOOLEAN
    BY DEF PageTypeOK
  <1>b. /\ tab[t].held \in Saved /\ TxFits(tab[t].tx) /\ tab[t].tx \in Tx
        /\ tab[t].at \in {"closed", "restoring", "ready"} => tab[t].tx.kind = "none"
        /\ tab[t].at = "proving" => tab[t].tx.kind = "draw"
    BY TabFields DEF HandlersFit
  <1>1. CASE Open(t)
    <2>1. /\ saved' = Nothing /\ flight' = flight /\ sent' = sent /\ mishap' = mishap
          /\ slot' = slot /\ tab[t].at = "closed"
      BY <1>1 DEF Open, chainVars
    <2> QED BY <1>1, <1>a, <1>b, <2>1, OpenBecomes, BecomesFits, NothingTyped DEF PageKept
  <1>2. CASE Restore(t)
    <2>1. /\ flight' = flight /\ sent' = sent /\ mishap' = mishap
          /\ slot' = slot /\ tab[t].at = "restoring"
          /\ saved' = [WithAddresses(Nothing, tab[t].held) EXCEPT !.notes = tab[t].held.notes]
      BY <1>2 DEF Restore, chainVars
    <2>2. PICK mid : mid = WithAddresses(Nothing, tab[t].held)
      OBVIOUS
    <2>3. mid \in Saved
      BY <1>a, <1>b, <2>2, WithAddressesTyped
    <2>4. saved' \in Saved
      BY <1>b, <2>1, <2>2, <2>3 DEF Saved
    <2> QED BY <1>2, <1>a, <1>b, <2>1, <2>4, RestoreBecomes, BecomesFits DEF PageKept
  <1>3. CASE Leave(t)
    <2>1. /\ flight' = flight /\ sent' = sent /\ mishap' \in BOOLEAN
          /\ slot' = slot /\ saved' = saved
      BY <1>3, <1>a DEF Leave, chainVars
    <2> QED BY <1>3, <1>a, <2>1, LeaveBecomes, BecomesFits, NoTxFits DEF PageKept
  <1>4. CASE Send(t)
    <2>1. PICK tx \in Tx :
             /\ Becomes(t, "confirming", tab[t].held, tab[t].seen, tx, "pending")
             /\ flight' = flight \cup {tx} /\ sent' \in 0..MaxSent
             /\ tx.kind = tab[t].tx.kind /\ tx.pool = tab[t].tx.pool
             /\ tx.line = tab[t].tx.line /\ tx.slot = tab[t].tx.slot
      BY <1>4, SendBecomes
    <2>2. slot' = slot /\ saved' = saved /\ mishap' = mishap
      BY <1>4 DEF Send, chainVars
    <2>3. TxFits(tx)
      BY <1>b, <2>1 DEF TxFits
    <2>4. \A x \in flight' : x \in flight \/ x = tx
      BY <2>1
    <2>5. tab' \in [Tabs -> Page] /\ HandlersFit'
      BY <2>1, <2>3, <2>4, BecomesFits
    <2> QED BY <1>a, <2>1, <2>2, <2>5 DEF PageKept
  <1>5. CASE Refuse(t) \/ TimeOut(t)
    <2>1. /\ Fail(t) /\ flight' = flight /\ sent' = sent /\ mishap' \in BOOLEAN /\ slot' = slot
      BY <1>5, <1>a DEF Refuse, TimeOut, chainVars
    <2>2. PICK held \in Saved : /\ Becomes(t, "ready", held, tab[t].seen, NoTx, "none")
                                /\ saved' = WithAddresses(tab[t].held, held)
      BY <2>1, FailBecomes
    <2>3. saved' \in Saved
      BY <1>a, <2>2, WithAddressesTyped
    <2>4. tab' \in [Tabs -> Page] /\ HandlersFit'
      BY <2>1, <2>2, BecomesFits, NoTxFits
    <2> QED BY <1>a, <2>1, <2>3, <2>4 DEF PageKept
  <1>6. ASSUME NEW p \in Pools, Setup(t, p) PROVE PageKept
    <2>1. PICK tx \in Tx :
             /\ Becomes(t, "signing", tab[t].held, tab[t].seen, tx, tab[t].fate)
             /\ tx.kind = "pool" /\ tx.pool = p /\ tx.slot + PoolTerm <= MaxSlot
      BY <1>6, SetupBecomes
    <2>2. /\ flight' = flight /\ sent' = sent /\ mishap' = mishap
          /\ slot' = slot /\ saved' = saved
      BY <1>6 DEF Setup, chainVars
    <2>3. TxFits(tx)
      BY <2>1 DEF TxFits
    <2>4. tab' \in [Tabs -> Page] /\ HandlersFit'
      BY <2>1, <2>2, <2>3, BecomesFits
    <2> QED BY <1>a, <2>2, <2>4 DEF PageKept
  <1>7. ASSUME NEW l \in Lines, PoolConfirmed(t, l) PROVE PageKept
    <2>1. PICK tx \in Tx, held \in Saved :
             /\ Becomes(t, "signing", held, tab[t].seen, tx, "none")
             /\ saved' = WithAddresses(tab[t].held, held)
             /\ tx.kind = "line" /\ tx.line = l /\ tx.pool \in Pools
      BY <1>7, PoolConfirmedBecomes
    <2>2. flight' = flight /\ sent' = sent /\ mishap' \in BOOLEAN /\ slot' = slot
      BY <1>7, <1>a DEF PoolConfirmed, Confirmed, chainVars
    <2>3. TxFits(tx)
      BY <2>1 DEF TxFits
    <2>4. saved' \in Saved
      BY <1>a, <2>1, WithAddressesTyped
    <2>5. tab' \in [Tabs -> Page] /\ HandlersFit'
      BY <2>1, <2>2, <2>3, BecomesFits
    <2> QED BY <1>a, <2>2, <2>4, <2>5 DEF PageKept
  <1>8. CASE LineConfirmed(t)
    <2>1. PICK held \in Saved : \E data : /\ Becomes(t, "ready", held, data, NoTx, "none")
                                          /\ saved' = WithAddresses(tab[t].held, held)
      BY <1>8, LineConfirmedBecomes
    <2>2. flight' = flight /\ sent' = sent /\ mishap' \in BOOLEAN /\ slot' = slot
      BY <1>8, <1>a DEF LineConfirmed, Confirmed, chainVars
    <2>3. saved' \in Saved
      BY <1>a, <2>1, WithAddressesTyped
    <2>4. tab' \in [Tabs -> Page] /\ HandlersFit'
      BY <2>1, <2>2, BecomesFits, NoTxFits
    <2> QED BY <1>a, <2>2, <2>3, <2>4 DEF PageKept
  <1>9. ASSUME NEW n \in U32, Draw(t, n) \/ Repay(t, n) PROVE PageKept
    <2>1. PICK tx \in Tx :
             /\ \E data : Becomes(t, "signing", tab[t].held, data, tx, tab[t].fate)
             /\ tx.kind \in {"draw", "repay"} /\ tx.pool \in Pools /\ tx.line \in Lines
      BY <1>9, DrawBecomes
    <2>2. /\ flight' = flight /\ sent' = sent /\ mishap' = mishap
          /\ slot' = slot /\ saved' = saved
      BY <1>9 DEF Draw, Repay, chainVars
    <2>3. TxFits(tx)
      BY <2>1 DEF TxFits
    <2>4. tab' \in [Tabs -> Page] /\ HandlersFit'
      BY <2>1, <2>2, <2>3, BecomesFits
    <2> QED BY <1>a, <2>2, <2>4 DEF PageKept
  <1>10. CASE DrawConfirmed(t)
    <2>1. /\ flight' = flight /\ sent' = sent /\ mishap' \in BOOLEAN
          /\ slot' = slot /\ saved' = saved /\ tab[t].tx.kind = "draw"
      BY <1>10, <1>a DEF DrawConfirmed, Confirmed, chainVars
    <2>2. tab' \in [Tabs -> Page] /\ HandlersFit'
      BY <1>10, <1>b, <2>1, DrawConfirmedBecomes, BecomesFits
    <2> QED BY <1>a, <2>1, <2>2 DEF PageKept
  <1>11. CASE KeepNotes(t) \/ RepayConfirmed(t)
    <2>1. PICK notes \in Seq(Note) :
             \/ KeepNotes(t) /\ notes = Minted(tab[t].tx) \o tab[t].held.notes
             \/ RepayConfirmed(t) /\ notes = MarkRepaid(tab[t].held.notes, tab[t].tx.notes)
      BY <1>11, NewNotesTyped
    <2>2. PICK held \in Saved : \E data, fate : /\ Becomes(t, "ready", held, data, NoTx, fate)
                                                /\ saved' \in Saved
      BY <2>1, NotesBecome
    <2>3. flight' = flight /\ sent' = sent /\ mishap' \in BOOLEAN /\ slot' = slot
      BY <1>11, <1>a DEF KeepNotes, RepayConfirmed, Confirmed, chainVars
    <2>4. tab' \in [Tabs -> Page] /\ HandlersFit'
      BY <2>2, <2>3, BecomesFits, NoTxFits
    <2> QED BY <1>a, <2>2, <2>3, <2>4 DEF PageKept
  <1> QED BY <1>1, <1>2, <1>3, <1>4, <1>5, <1>6, <1>7, <1>8, <1>9, <1>10, <1>11 DEF TabStep

\* What a transaction does to a line.
LineUntouched(l) ==
    /\ SameIdentity(l) /\ SameCounters(l)
    /\ line'[l].status = line[l].status

LineApproved(l, p) ==
    /\ ~Initialized(line[l])
    /\ line'[l].status = "Active" /\ line'[l].pool = p
    /\ line'[l].drawn = 0 /\ line'[l].repaid = 0 /\ line'[l].defaulted = 0

LineDrawn(l, n) ==
    /\ ActiveLine(l) /\ SameIdentity(l)
    /\ line'[l].status = "Active"
    /\ line'[l].drawn = line[l].drawn + n
    /\ line'[l].repaid = line[l].repaid /\ line'[l].defaulted = line[l].defaulted

LineRepaid(l, n) ==
    /\ ActiveLine(l) /\ SameIdentity(l)
    /\ line'[l].status \in {"Active", "Closed"}
    /\ n <= Outstanding(l)
    /\ line'[l].repaid = line[l].repaid + n
    /\ line'[l].drawn = line[l].drawn /\ line'[l].defaulted = line[l].defaulted

LEMMA ExecuteTells ==
    ASSUME TypeOK, NEW tx, TxFits(tx), Execute(tx), NEW l \in Lines
    PROVE  \/ /\ LineUntouched(l)
              /\ tx.kind = "pool" \/ tx.line # l
           \/ tx.kind = "line" /\ tx.line = l /\ LineApproved(l, tx.pool)
           \/ tx.kind = "draw" /\ tx.line = l /\ LineDrawn(l, tx.notes)
           \/ tx.kind = "repay" /\ tx.line = l /\ LineRepaid(l, tx.notes)
  <1> USE DEF TypeOK, CreditLineAccount, LineUntouched, SameIdentity, SameCounters
  <1>1. CASE /\ tx.kind = "pool"
             /\ \E t \in Terms :
                   InitializePool(tx.pool, Wallet, Wallet, t, PoolNotes, tx.slot + PoolTerm)
    <2>1. tx.pool \in Pools /\ line' = LinesWithout(tx.pool)
      BY <1>1 DEF InitializePool, TxFits
    <2>2. pool = [p \in Pools |-> pool[p]] /\ line = [k \in Lines |-> line[k]]
      OBVIOUS
    <2>3. LinesWithout(tx.pool) = line
      BY <2>1, <2>2, FreshKeyAssumption, FreshKeysAreNotTaken
    <2> QED BY <1>1, <2>1, <2>3
  <1>2. CASE /\ tx.kind = "line"
             /\ ApproveCreditLine(Wallet, tx.pool, tx.line, Wallet, LineNotes,
                                  tx.slot, pool[tx.pool].maturity - Margin)
    <2>1. PICK n, o, m : ApproveCreditLine(Wallet, tx.pool, tx.line, Wallet, n, o, m)
      BY <1>2
    <2>2. CASE tx.line = l
      <3>1. LineApproved(l, tx.pool)
        BY <2>1, <2>2 DEF ApproveCreditLine, LineApproved
      <3> QED BY <1>2, <2>2, <3>1
    <2>3. CASE tx.line # l
      BY <2>1, <2>3 DEF ApproveCreditLine
    <2> QED BY <2>2, <2>3
  <1>3. CASE /\ tx.kind = "draw"
             /\ DrawTranche(Wallet, tx.pool, tx.line, tx.notes, tx.slot)
    <2>1. CASE tx.line = l
      <3>1. LineDrawn(l, tx.notes)
        BY <1>3, <2>1 DEF DrawTranche, LineDrawn, ActiveLine
      <3> QED BY <1>3, <2>1, <3>1
    <2>2. CASE tx.line # l
      BY <1>3, <2>2 DEF DrawTranche
    <2> QED BY <2>1, <2>2
  <1>4. CASE tx.kind = "repay" /\ RepayTranche(Wallet, tx.pool, tx.line, tx.notes)
    <2>1. CASE tx.line = l
      <3>1. LineRepaid(l, tx.notes)
        BY <1>4, <2>1 DEF RepayTranche, LineRepaid, ActiveLine
      <3> QED BY <1>4, <2>1, <3>1
    <2>2. CASE tx.line # l
      BY <1>4, <2>2 DEF RepayTranche
    <2> QED BY <2>1, <2>2
  <1> QED BY <1>1, <1>2, <1>3, <1>4 DEF Execute

\* What landing tells: the transaction took its effect, or failed without one.
LEMMA LandTells ==
    ASSUME PageTypeOK, NEW tx \in flight, Land(tx)
    PROVE  \E fate \in {"ok", "failed"} :
             /\ fate = "ok" => Execute(tx)
             /\ fate = "failed" => UNCHANGED vars
             /\ tab' \in [Tabs -> Page]
             /\ \A t \in Tabs :
                   /\ tab'[t].at = tab[t].at /\ tab'[t].held = tab[t].held
                   /\ tab'[t].seen = tab[t].seen /\ tab'[t].tx = tab[t].tx
                   /\ tab'[t].fate = IF WaitsFor(t, tx) THEN fate ELSE tab[t].fate
             /\ tx \in Tx /\ tx.slot < slot
             /\ flight' = flight \ {tx}
             /\ UNCHANGED <<slot, saved, sent, mishap>>
  <1>1. tx \in Tx
    BY DEF PageTypeOK
  <1>2. tx.slot < slot /\ flight' = flight \ {tx} /\ UNCHANGED <<slot, saved, sent, mishap>>
    BY DEF Land
  <1>3. PICK fate \in {"ok", "failed"} :
           /\ fate = "ok" => Execute(tx)
           /\ fate = "failed" => UNCHANGED vars
           /\ tab' = Report(tx, fate)
    <2>1. CASE Execute(tx) /\ tab' = Report(tx, "ok")
      BY <2>1
    <2>2. CASE UNCHANGED vars /\ tab' = Report(tx, "failed")
      BY <2>2
    <2> QED BY <2>1, <2>2 DEF Land
  <1> QED BY <1>1, <1>2, <1>3, ReportTells

LEMMA PageInvNext == PageInv /\ [PageNext]_allVars => PageInv'
  <1> SUFFICES ASSUME PageInv, [PageNext]_allVars PROVE PageInv'
    OBVIOUS
  <1>a. PageTypeOK /\ HandlersFit /\ RefinementInv
    BY DEF PageInv
  <1>b. /\ slot \in Slots /\ saved \in Saved /\ flight \subseteq Tx
        /\ sent \in 0..MaxSent /\ mishap \in BOOLEAN /\ tab \in [Tabs -> Page]
    BY <1>a DEF PageTypeOK
  <1>1. RefinementInv'
    <2>1. [Next]_vars
      BY <1>a, PageStepsTheChain
    <2> QED BY <1>a, <2>1, TypeOKNext, LineAccountingNext, LineMatchesPoolNext, BlankNext
            DEF RefinementInv
  <1>2. ASSUME NEW tx \in flight, Land(tx) PROVE PageKept
    <2>1. /\ tab' \in [Tabs -> Page] /\ flight' = flight \ {tx}
          /\ \A t \in Tabs : tab'[t].at = tab[t].at /\ tab'[t].tx = tab[t].tx
          /\ slot' = slot /\ saved' = saved /\ sent' = sent /\ mishap' = mishap
      BY <1>2, <1>a, LandTells
    <2>2. HandlersFit'
      BY <1>a, <2>1 DEF HandlersFit, TxFits
    <2> QED BY <1>b, <2>1, <2>2 DEF PageKept
  <1>3. ASSUME NEW tx \in flight, Drop(tx) PROVE PageKept
    <2>1. /\ flight' = flight \ {tx} /\ tab' = tab
          /\ slot' = slot /\ saved' = saved /\ sent' = sent /\ mishap' = mishap
      BY <1>3 DEF Drop, chainVars
    <2>2. HandlersFit'
      BY <1>a, <2>1 DEF HandlersFit, TxFits
    <2> QED BY <1>b, <2>1, <2>2 DEF PageKept
  <1>4. ASSUME (\E p \in Pools, l \in Lines : Settle(p, l)) \/ TimePasses \/ UNCHANGED allVars
        PROVE  PageKept
    <2>1. UNCHANGED pageVars /\ slot' \in Slots
      BY <1>4, <1>b, NumbersTyped
      DEF Settle, TimePasses, Tick, allVars, chainVars, pageVars, Slots
    <2>2. HandlersFit'
      BY <1>a, <2>1 DEF HandlersFit, TxFits, pageVars
    <2> QED BY <1>b, <2>1, <2>2 DEF PageKept, pageVars
  <1>5. PageKept
    BY <1>2, <1>3, <1>4, <1>a, TabStepKeepsPage DEF PageNext
  <1>6. PageTypeOK'
    BY <1>1, <1>5 DEF PageTypeOK, PageKept, RefinementInv
  <1> QED BY <1>1, <1>5, <1>6 DEF PageInv, PageKept

LEMMA PageInvHolds == PageSpec => []PageInv
  <1>1. PageInit => PageInv
    <2> SUFFICES ASSUME PageInit PROVE PageInv
      OBVIOUS
    <2>1. /\ Init /\ slot = 0 /\ tab = [t \in Tabs |-> Closed] /\ saved = Nothing
          /\ flight = {} /\ sent = 0 /\ mishap = FALSE
      BY DEF PageInit, ChainInit
    <2>2. RefinementInv
      BY <2>1, TypeOKInit, LineAccountingInit, LineMatchesPoolInit
      DEF Init, EmptyLine, BlankUntilOpened, RefinementInv
    <2>3. PageTypeOK
      <3>1. tab \in [Tabs -> Page]
        BY <2>1, NothingTyped
      <3>2. slot \in Slots /\ sent \in 0..MaxSent
        BY <2>1, NumbersTyped DEF Slots
      <3>3. saved \in Saved /\ flight \subseteq Tx /\ mishap \in BOOLEAN
        BY <2>1, NothingTyped
      <3> QED BY <2>2, <3>1, <3>2, <3>3 DEF RefinementInv, PageTypeOK
    <2>4. Closed.tx = NoTx /\ Closed.at = "closed"
      BY DEF Closed
    <2>5. HandlersFit
      BY <2>1, <2>4, NoTxFits DEF HandlersFit
    <2> QED BY <2>2, <2>3, <2>5 DEF PageInv
  <1> QED BY <1>1, PageInvNext, PTL DEF PageSpec

\* Pages, transactions and storage keep values of their types, whatever lands, is
\* dropped or times out (tab, saved, flight; the accounts of the program too).
THEOREM PageTypeCorrect == PageSpec => []PageTypeOK
  BY PageInvHolds, PTL DEF PageInv

-----------------------------------------------------------------------------
(* Ids are never given twice. *)

LEMMA SameIdTells ==
    ASSUME NEW a \in Note, NEW b \in Note
    PROVE  SameId(a, b) <=> a.line = b.line /\ a.slot = b.slot /\ a.i = b.i
  <1>1. PICK c, d : c = [a EXCEPT !.status = "drawn"] /\ d = [b EXCEPT !.status = "drawn"]
    OBVIOUS
  <1>2. /\ c \in Note /\ c.line = a.line /\ c.slot = a.slot /\ c.i = a.i /\ c.status = "drawn"
        /\ d \in Note /\ d.line = b.line /\ d.slot = b.slot /\ d.i = b.i /\ d.status = "drawn"
    BY <1>1 DEF Note, NoteStatus
  <1>3. c = d <=> c.line = d.line /\ c.slot = d.slot /\ c.i = d.i
    BY <1>2 DEF Note
  <1> QED BY <1>1, <1>2, <1>3 DEF SameId

LEMMA ApartEmpty == ASSUME NEW s PROVE ApartBefore(Nothing.notes, s)
  <1>1. Nothing.notes = << >> /\ DOMAIN << >> = {}
    BY DEF Nothing
  <1> QED BY <1>1 DEF ApartBefore

LEMMA ApartLater ==
    ASSUME NEW notes \in Seq(Note), NEW s \in Int, NEW later \in Int, s <= later,
           ApartBefore(notes, s)
    PROVE  ApartBefore(notes, later)
  <1>1. \A j \in DOMAIN notes : notes[j].slot \in Int
    <2>1. \A j \in DOMAIN notes : notes[j] \in Note
      OBVIOUS
    <2> QED BY <2>1, NoteFields, NumbersTyped DEF Slots
  <1> QED BY <1>1 DEF ApartBefore

\* The notes of a draw sampled after those of the list have new ids.
LEMMA ApartMinted ==
    ASSUME NEW notes \in Seq(Note), NEW tx \in Tx, tx.line \in Lines,
           NEW s \in Int, tx.slot < s, ApartBefore(notes, tx.slot)
    PROVE  ApartBefore(Minted(tx) \o notes, s)
  <1>1. PICK new, all : new = Minted(tx) /\ all = new \o notes
    OBVIOUS
  <1>2. /\ new \in Seq(Note) /\ Len(new) = tx.notes
        /\ \A j \in 1..tx.notes : new[j].slot = tx.slot /\ new[j].i = j - 1
    BY <1>1, MintedList
  <1>3. tx.slot \in Int /\ tx.notes \in Nat /\ Len(notes) \in Nat /\ DOMAIN notes = 1..Len(notes)
    BY TxFields, NumbersTyped DEF Slots, U32
  <1>4. /\ DOMAIN all = 1..(tx.notes + Len(notes))
        /\ \A j \in 1..tx.notes : all[j] = new[j]
        /\ \A j \in 1..Len(notes) : all[tx.notes + j] = notes[j]
        /\ all \in Seq(Note)
    BY <1>1, <1>2, JoinedNotes, SMTT(60)
  <1>5. \A j \in DOMAIN all :
           \/ j \in 1..tx.notes
           \/ j - tx.notes \in DOMAIN notes /\ j = tx.notes + (j - tx.notes)
    BY <1>3, <1>4
  <1> DEFINE IsNew(j) == j \in 1..tx.notes /\ all[j].slot = tx.slot /\ all[j].i = j - 1
             IsOld(j) == /\ j - tx.notes \in DOMAIN notes /\ all[j] = notes[j - tx.notes]
                         /\ all[j].slot < tx.slot
  <1>6. /\ \A j \in DOMAIN all : IsNew(j) \/ IsOld(j)
        /\ \A j \in DOMAIN all : all[j] \in Note
    <2>1. ASSUME NEW j \in 1..tx.notes PROVE all[j].slot = tx.slot /\ all[j].i = j - 1
      BY <1>2, <1>4
    <2>2. ASSUME NEW k \in DOMAIN notes
          PROVE  all[tx.notes + k] = notes[k] /\ notes[k].slot < tx.slot
      BY <1>3, <1>4 DEF ApartBefore
    <2>3. \A j \in DOMAIN all : all[j] \in Note
      <3>1. all \in Seq(Note)
        BY <1>4
      <3> QED BY <3>1
    <2> QED BY <1>5, <2>1, <2>2, <2>3
  <1>7. \A j \in DOMAIN all : all[j].slot < s
    <2>1. \A j \in DOMAIN all : all[j].slot \in Int
      BY <1>6, NoteFields, NumbersTyped DEF Slots
    <2> QED BY <1>3, <1>6, <2>1
  <1>8. ASSUME NEW j \in DOMAIN all, NEW k \in DOMAIN all, j # k, SameId(all[j], all[k])
        PROVE  FALSE
    <2>1. all[j].slot = all[k].slot /\ all[j].i = all[k].i /\ all[j] \in Note /\ all[k] \in Note
      BY <1>6, <1>8, SameIdTells
    <2>2. all[j].slot \in Int /\ all[k].slot \in Int /\ j \in Int /\ k \in Int
      BY <1>3, <1>4, <2>1, NoteFields, NumbersTyped DEF Slots
    <2>3. CASE IsNew(j)
      <3>1. ~IsOld(k)
        BY <1>3, <2>1, <2>2, <2>3
      <3>2. IsNew(k)
        BY <1>6, <3>1
      <3>3. all[j].i = j - 1 /\ all[k].i = k - 1
        BY <2>3, <3>2
      <3>4. j - 1 = k - 1
        BY <2>1, <3>3
      <3> QED BY <1>8, <2>2, <3>4
    <2>4. CASE IsOld(j)
      <3>1. IsOld(k)
        <4>1. ~IsNew(k)
          BY <1>3, <2>1, <2>2, <2>4
        <4> QED BY <1>6, <4>1
      <3>2. j - tx.notes # k - tx.notes
        BY <1>3, <1>8, <2>2
      <3> QED BY <1>8, <2>4, <3>1, <3>2 DEF ApartBefore
    <2> QED BY <1>6, <2>3, <2>4
  <1> QED BY <1>1, <1>7, <1>8 DEF ApartBefore

\* Marking changes no id.
LEMMA ApartMarked ==
    ASSUME NEW notes \in Seq(Note), NEW n, NEW s, ApartBefore(notes, s)
    PROVE  ApartBefore(MarkRepaid(notes, n), s)
  <1>1. PICK marked : marked = MarkRepaid(notes, n)
    OBVIOUS
  <1>2. /\ marked \in Seq(Note) /\ DOMAIN marked = DOMAIN notes
        /\ \A j \in DOMAIN notes : /\ marked[j].line = notes[j].line
                                   /\ marked[j].slot = notes[j].slot
                                   /\ marked[j].i = notes[j].i
    BY <1>1, MarkedList
  <1>3. \A j \in DOMAIN notes : marked[j] \in Note /\ notes[j] \in Note
    BY <1>2
  <1>4. ASSUME NEW j \in DOMAIN marked, NEW k \in DOMAIN marked, SameId(marked[j], marked[k])
        PROVE  SameId(notes[j], notes[k])
    BY <1>2, <1>3, <1>4, SameIdTells
  <1> QED BY <1>1, <1>2, <1>4 DEF ApartBefore

\* What a step of one tab has to show.
LEMMA BecomesApart ==
    ASSUME PageTypeOK, IdsInv, slot' = slot, NEW t \in Tabs,
           NEW at, NEW held, NEW seen, NEW tx, NEW fate,
           Becomes(t, at, held, seen, tx, fate),
           ApartBefore(held.notes, slot), ApartBefore(saved'.notes, slot),
           tx.kind = "draw" => ApartBefore(held.notes, tx.slot),
           \/ at = "proving"
           \/ at = "confirming" /\ fate # "pending"
           => tx.slot < slot
    PROVE  IdsInv'
  <1>1. /\ tab'[t].at = at /\ tab'[t].held = held /\ tab'[t].tx = tx /\ tab'[t].fate = fate
        /\ \A u \in Tabs : u # t => tab'[u] = tab[u]
    BY BecomesTyped
  <1>2. TabIds(t)'
    BY <1>1 DEF TabIds, ApartBefore
  <1>3. ASSUME NEW u \in Tabs, u # t PROVE TabIds(u)'
    BY <1>1, <1>3 DEF IdsInv, TabIds, ApartBefore
  <1>4. ApartBefore(saved.notes, slot)'
    BY DEF ApartBefore
  <1> QED BY <1>2, <1>3, <1>4 DEF IdsInv

LEMMA TabStepKeepsIds ==
    ASSUME PageInv, IdsInv, NEW t \in Tabs, TabStep(t)
    PROVE  IdsInv'
  <1>a. PageTypeOK /\ HandlersFit
    BY DEF PageInv
  <1>b. /\ tab[t].held \in Saved /\ tab[t].held.notes \in Seq(Note) /\ saved \in Saved
        /\ tab[t].tx \in Tx /\ TxFits(tab[t].tx) /\ slot \in Int
        /\ tab[t].at \in {"closed", "restoring", "ready"} => tab[t].tx.kind = "none"
        /\ tab[t].at = "proving" => tab[t].tx.kind = "draw"
    BY <1>a, TabFields, SavedFields, NumbersTyped DEF PageTypeOK, HandlersFit, Slots
  <1>c. TabIds(t) /\ ApartBefore(saved.notes, slot)
    BY DEF IdsInv
  <1>d. slot' = slot
    BY DEF TabStep, Open, Restore, Leave, Send, Refuse, TimeOut, Setup, PoolConfirmed,
           LineConfirmed, Draw, Repay, DrawConfirmed, KeepNotes, RepayConfirmed, chainVars
  <1>1. CASE Open(t)
    <2>1. saved' = Nothing /\ tab[t].at = "closed" /\ tab[t].tx.kind # "draw"
      BY <1>1, <1>b DEF Open
    <2> QED BY <1>1, <1>a, <1>c, <1>d, <2>1, OpenBecomes, BecomesApart, ApartEmpty
  <1>2. CASE Restore(t)
    <2>1. /\ tab[t].at = "restoring" /\ tab[t].tx.kind # "draw"
          /\ saved' = [WithAddresses(Nothing, tab[t].held) EXCEPT !.notes = tab[t].held.notes]
      BY <1>2, <1>b DEF Restore
    <2>2. WithAddresses(Nothing, tab[t].held) \in Saved
      BY <1>b, WithAddressesTyped
    <2>3. saved'.notes = tab[t].held.notes
      BY <2>1, <2>2 DEF Saved
    <2> QED BY <1>2, <1>a, <1>c, <1>d, <2>1, <2>3, RestoreBecomes, BecomesApart DEF TabIds
  <1>3. CASE Leave(t)
    <2>1. saved' = saved
      BY <1>3 DEF Leave
    <2> QED BY <1>3, <1>a, <1>c, <1>d, <2>1, LeaveBecomes, BecomesApart, ApartEmpty, NoTxFits
  <1>4. CASE Send(t)
    <2>1. PICK tx \in Tx :
             /\ Becomes(t, "confirming", tab[t].held, tab[t].seen, tx, "pending")
             /\ tx.kind = tab[t].tx.kind /\ tx.slot = tab[t].tx.slot
      BY <1>4, <1>a, SendBecomes
    <2>2. saved' = saved
      BY <1>4 DEF Send
    <2> QED BY <1>a, <1>c, <1>d, <2>1, <2>2, BecomesApart DEF TabIds
  <1>5. CASE Refuse(t) \/ TimeOut(t)
    <2>1. Fail(t)
      BY <1>5 DEF Refuse, TimeOut
    <2>2. PICK held \in Saved : /\ Becomes(t, "ready", held, tab[t].seen, NoTx, "none")
                                /\ saved' = WithAddresses(tab[t].held, held)
                                /\ held.notes = tab[t].held.notes
      BY <1>a, <2>1, FailBecomes
    <2>3. saved'.notes = saved.notes
      BY <1>b, <2>2, WithAddressesTyped
    <2> QED BY <1>a, <1>c, <1>d, <2>2, <2>3, BecomesApart, NoTxFits DEF TabIds
  <1>6. ASSUME NEW p \in Pools, Setup(t, p) PROVE IdsInv'
    <2>1. PICK tx \in Tx :
             /\ Becomes(t, "signing", tab[t].held, tab[t].seen, tx, tab[t].fate)
             /\ tx.kind = "pool"
      BY <1>6, <1>a, SetupBecomes
    <2>2. saved' = saved
      BY <1>6 DEF Setup
    <2> QED BY <1>a, <1>c, <1>d, <2>1, <2>2, BecomesApart DEF TabIds
  <1>7. ASSUME NEW l \in Lines, PoolConfirmed(t, l) PROVE IdsInv'
    <2>1. PICK tx \in Tx, held \in Saved :
             /\ Becomes(t, "signing", held, tab[t].seen, tx, "none")
             /\ saved' = WithAddresses(tab[t].held, held)
             /\ held.notes = tab[t].held.notes /\ tx.kind = "line"
      BY <1>7, <1>a, PoolConfirmedBecomes
    <2>2. saved'.notes = saved.notes
      BY <1>b, <2>1, WithAddressesTyped
    <2> QED BY <1>a, <1>c, <1>d, <2>1, <2>2, BecomesApart DEF TabIds
  <1>8. CASE LineConfirmed(t)
    <2>1. PICK held \in Saved : /\ \E data : Becomes(t, "ready", held, data, NoTx, "none")
                                /\ saved' = WithAddresses(tab[t].held, held)
                                /\ held.notes = tab[t].held.notes
      BY <1>8, <1>a, LineConfirmedBecomes
    <2>2. saved'.notes = saved.notes
      BY <1>b, <2>1, WithAddressesTyped
    <2> QED BY <1>a, <1>c, <1>d, <2>1, <2>2, BecomesApart, NoTxFits DEF TabIds
  <1>9. ASSUME NEW n \in U32, Draw(t, n) \/ Repay(t, n) PROVE IdsInv'
    <2>1. PICK tx \in Tx :
             /\ \E data : Becomes(t, "signing", tab[t].held, data, tx, tab[t].fate)
             /\ tx.slot = slot
      BY <1>9, <1>a, DrawBecomes
    <2>2. saved' = saved
      BY <1>9 DEF Draw, Repay
    <2> QED BY <1>a, <1>c, <1>d, <2>1, <2>2, BecomesApart DEF TabIds
  <1>10. CASE DrawConfirmed(t)
    <2>1. saved' = saved /\ tab[t].at = "confirming" /\ tab[t].fate # "pending"
      BY <1>10 DEF DrawConfirmed, Confirmed
    <2> QED BY <1>10, <1>a, <1>c, <1>d, <2>1, DrawConfirmedBecomes, BecomesApart DEF TabIds
  <1>11. CASE KeepNotes(t)
    <2>1. tab[t].at = "proving" /\ tab[t].tx.line \in Lines /\ tab[t].tx.kind = "draw"
      BY <1>11, <1>b DEF KeepNotes, TxFits
    <2>2. PICK notes : notes = Minted(tab[t].tx) \o tab[t].held.notes
      OBVIOUS
    <2>3. notes \in Seq(Note)
      BY <1>b, <2>1, <2>2, MintedList, JoinedNotes
    <2>4. ApartBefore(notes, slot)
      BY <1>b, <1>c, <2>1, <2>2, ApartMinted DEF TabIds
    <2>5. PICK held \in Saved : \E data, fate :
             /\ Becomes(t, "ready", held, data, NoTx, fate)
             /\ held.notes = notes /\ saved'.notes = notes
      BY <1>11, <1>a, <2>2, <2>3, NotesBecome
    <2> QED BY <1>a, <1>d, <2>4, <2>5, BecomesApart, NoTxFits
  <1>12. CASE RepayConfirmed(t)
    <2>1. PICK notes : notes = MarkRepaid(tab[t].held.notes, tab[t].tx.notes)
      OBVIOUS
    <2>2. notes \in Seq(Note) /\ ApartBefore(notes, slot)
      BY <1>b, <1>c, <2>1, MarkedList, ApartMarked DEF TabIds
    <2>3. PICK held \in Saved : \E data, fate :
             /\ Becomes(t, "ready", held, data, NoTx, fate)
             /\ held.notes = notes /\ saved'.notes = notes
      BY <1>12, <1>a, <2>1, <2>2, NotesBecome
    <2> QED BY <1>a, <1>d, <2>2, <2>3, BecomesApart, NoTxFits
  <1> QED BY <1>1, <1>2, <1>3, <1>4, <1>5, <1>6, <1>7, <1>8, <1>9, <1>10, <1>11, <1>12
          DEF TabStep

LEMMA IdsInvNext == PageInv /\ IdsInv /\ [PageNext]_allVars => IdsInv'
  <1> SUFFICES ASSUME PageInv, IdsInv, [PageNext]_allVars PROVE IdsInv'
    OBVIOUS
  <1>a. PageTypeOK
    BY DEF PageInv
  <1>b. slot \in Nat /\ saved.notes \in Seq(Note)
    BY <1>a, SavedFields, NumbersTyped DEF PageTypeOK, Slots
  <1>1. ASSUME NEW tx \in flight, Land(tx) PROVE IdsInv'
    <2>1. /\ \A t \in Tabs :
                /\ tab'[t].at = tab[t].at /\ tab'[t].held = tab[t].held
                /\ tab'[t].tx = tab[t].tx
                /\ WaitsFor(t, tx) \/ tab'[t].fate = tab[t].fate
          /\ tx.slot < slot /\ slot' = slot /\ saved' = saved
      BY <1>1, <1>a, LandTells
    <2>2. ASSUME NEW t \in Tabs PROVE TabIds(t)'
      BY <2>1 DEF IdsInv, TabIds, ApartBefore, WaitsFor
    <2> QED BY <2>1, <2>2 DEF IdsInv, ApartBefore
  <1>2. CASE \E tx \in flight : Drop(tx)
    <2>1. tab' = tab /\ saved' = saved /\ slot' = slot
      BY <1>2 DEF Drop, chainVars
    <2> QED BY <2>1 DEF IdsInv, TabIds, ApartBefore
  <1>3. CASE (\E p \in Pools, l \in Lines : Settle(p, l)) \/ TimePasses \/ UNCHANGED allVars
    <2>1. tab' = tab /\ saved' = saved /\ slot' \in Nat /\ slot <= slot'
      BY <1>3, <1>b DEF Settle, TimePasses, Tick, pageVars, allVars, chainVars
    <2>2. ApartBefore(saved.notes, slot')
      BY <1>b, <2>1, ApartLater DEF IdsInv
    <2>3. ASSUME NEW t \in Tabs
          PROVE  /\ ApartBefore(tab[t].held.notes, slot')
                 /\ \/ tab[t].at = "confirming" /\ tab[t].fate # "pending"
                    \/ tab[t].at = "proving"
                    => tab[t].tx.slot < slot'
      <3>1. tab[t].held.notes \in Seq(Note) /\ tab[t].tx.slot \in Int
        BY <1>a, TabFields, SavedFields, TxFields, NumbersTyped DEF Slots
      <3> QED BY <1>b, <2>1, <3>1, ApartLater DEF IdsInv, TabIds
    <2> QED BY <2>1, <2>2, <2>3 DEF IdsInv, TabIds, ApartBefore
  <1> QED BY <1>1, <1>2, <1>3, TabStepKeepsIds DEF PageNext

\* In any number of tabs, no two notes a page holds have one id: the slot of a
\* draw is sampled before its transaction lands, so what the page held by then was
\* sampled earlier (the ids of mintNotes, tab[t].held.notes).
THEOREM NoIdIsGivenTwice == PageSpec => []NoteIdsAreUnique
  <1>1. PageInit => IdsInv
    <2> SUFFICES ASSUME PageInit PROVE IdsInv
      OBVIOUS
    <2>1. tab = [t \in Tabs |-> Closed] /\ saved = Nothing
      BY DEF PageInit
    <2>2. Closed.held = Nothing /\ Closed.at = "closed" /\ Closed.tx.kind = "none"
      BY NoTxFits DEF Closed
    <2>3. ASSUME NEW t \in Tabs PROVE TabIds(t)
      BY <2>1, <2>2, ApartEmpty DEF TabIds
    <2> QED BY <2>1, <2>3, ApartEmpty DEF IdsInv
  <1>2. IdsInv => NoteIdsAreUnique
    BY DEF IdsInv, TabIds, ApartBefore, SameId, NoteIdsAreUnique
  <1> QED BY <1>1, <1>2, IdsInvNext, PageInvHolds, PTL DEF PageSpec

-----------------------------------------------------------------------------
(* One tab: what it works on is what is kept. *)

LEMMA SavedSame ==
    ASSUME NEW a \in Saved, NEW b \in Saved,
           a.pool = b.pool, a.line = b.line, a.notes = b.notes
    PROVE  a = b
  BY DEF Saved

\* What a step of the tab has to show.
LEMMA BecomesInStep ==
    ASSUME PageTypeOK, NEW t \in Tabs,
           NEW at, NEW held, NEW seen, NEW tx, NEW fate,
           Becomes(t, at, held, seen, tx, fate),
           at = "restoring" => saved' = Nothing,
           at \notin {"closed", "restoring"} => saved' = held,
           tx.kind \in {"pool", "line"} => saved'.line = ZeroKey,
           tx.kind = "line" => tx.pool = saved'.pool,
           tx.kind \in {"draw", "repay"} => tx.line = saved'.line,
           at = "confirming" => fate # "none"
    PROVE  InStep(t)'
  <1>1. /\ tab'[t].at = at /\ tab'[t].held = held /\ tab'[t].tx = tx /\ tab'[t].fate = fate
    BY BecomesTyped
  <1> QED BY <1>1 DEF InStep

LEMMA TabStepKeepsInStep ==
    ASSUME PageInv, NEW t \in Tabs, InStep(t), TabStep(t)
    PROVE  InStep(t)'
  <1>a. PageTypeOK /\ HandlersFit
    BY DEF PageInv
  <1>b. /\ tab[t].held \in Saved /\ saved \in Saved
        /\ tab[t].at \in {"closed", "restoring", "ready"} => tab[t].tx.kind = "none"
    BY <1>a, TabFields DEF PageTypeOK, HandlersFit
  <1>1. CASE Open(t)
    <2>1. saved' = Nothing /\ tab[t].tx.kind = "none"
      BY <1>1, <1>b DEF Open
    <2> QED BY <1>1, <1>a, <2>1, OpenBecomes, BecomesInStep
  <1>2. CASE Restore(t)
    <2>1. /\ tab[t].at = "restoring" /\ tab[t].tx.kind = "none" /\ saved = Nothing
          /\ saved' = [WithAddresses(Nothing, tab[t].held) EXCEPT !.notes = tab[t].held.notes]
      BY <1>2, <1>b DEF Restore, InStep
    <2>2. PICK mid : mid = WithAddresses(Nothing, tab[t].held)
      OBVIOUS
    <2>3. mid \in Saved /\ mid.pool = tab[t].held.pool /\ mid.line = tab[t].held.line
      BY <1>b, <2>1, <2>2, WithAddressesTyped
    <2>4. /\ saved' \in Saved /\ saved'.notes = tab[t].held.notes
          /\ saved'.pool = mid.pool /\ saved'.line = mid.line
      BY <1>b, <2>1, <2>2, <2>3 DEF Saved
    <2>5. saved' = tab[t].held
      BY <1>b, <2>3, <2>4, SavedSame
    <2> QED BY <1>2, <1>a, <2>1, <2>5, RestoreBecomes, BecomesInStep
  <1>3. CASE Leave(t)
    BY <1>3, <1>a, LeaveBecomes, BecomesInStep, NoTxFits
  <1>4. CASE Send(t)
    <2>1. PICK tx \in Tx :
             /\ Becomes(t, "confirming", tab[t].held, tab[t].seen, tx, "pending")
             /\ tx.kind = tab[t].tx.kind /\ tx.pool = tab[t].tx.pool /\ tx.line = tab[t].tx.line
      BY <1>4, <1>a, SendBecomes
    <2>2. saved' = saved /\ tab[t].at = "signing"
      BY <1>4 DEF Send
    <2> QED BY <1>a, <2>1, <2>2, BecomesInStep DEF InStep
  <1>5. CASE Refuse(t) \/ TimeOut(t)
    <2>1. Fail(t) /\ tab[t].at \notin {"closed", "restoring"}
      BY <1>5 DEF Refuse, TimeOut
    <2>2. PICK held \in Saved : /\ Becomes(t, "ready", held, tab[t].seen, NoTx, "none")
                                /\ saved' = WithAddresses(tab[t].held, held)
                                /\ held.notes = tab[t].held.notes
      BY <1>a, <2>1, FailBecomes
    <2>3. saved' = held
      BY <1>b, <2>1, <2>2, WithAddressesTyped, SavedSame DEF InStep
    <2> QED BY <1>a, <2>2, <2>3, BecomesInStep, NoTxFits
  <1>6. ASSUME NEW p \in Pools, Setup(t, p) PROVE InStep(t)'
    <2>1. PICK tx \in Tx :
             /\ Becomes(t, "signing", tab[t].held, tab[t].seen, tx, tab[t].fate)
             /\ tx.kind = "pool"
      BY <1>6, <1>a, SetupBecomes
    <2>2. saved' = saved /\ tab[t].at = "ready" /\ tab[t].held.line = ZeroKey
      BY <1>6 DEF Setup
    <2> QED BY <1>a, <2>1, <2>2, BecomesInStep DEF InStep
  <1>7. ASSUME NEW l \in Lines, PoolConfirmed(t, l) PROVE InStep(t)'
    <2>1. PICK tx \in Tx, held \in Saved :
             /\ Becomes(t, "signing", held, tab[t].seen, tx, "none")
             /\ saved' = WithAddresses(tab[t].held, held)
             /\ held.pool = tab[t].tx.pool /\ held.line = tab[t].held.line
             /\ held.notes = tab[t].held.notes
             /\ tx.kind = "line" /\ tx.pool = tab[t].tx.pool
      BY <1>7, <1>a, PoolConfirmedBecomes
    <2>2. tab[t].at = "confirming" /\ tab[t].tx.kind = "pool"
      BY <1>7 DEF PoolConfirmed, Confirmed
    <2>3. saved = tab[t].held /\ saved.line = ZeroKey
      BY <2>2 DEF InStep
    <2>4. saved' = held
      BY <1>b, <2>1, <2>3, WithAddressesTyped, SavedSame
    <2> QED BY <1>a, <2>1, <2>3, <2>4, BecomesInStep
  <1>8. CASE LineConfirmed(t)
    <2>1. PICK held \in Saved : /\ \E data : Becomes(t, "ready", held, data, NoTx, "none")
                                /\ saved' = WithAddresses(tab[t].held, held)
                                /\ held.notes = tab[t].held.notes
      BY <1>8, <1>a, LineConfirmedBecomes
    <2>2. saved = tab[t].held
      BY <1>8 DEF LineConfirmed, Confirmed, InStep
    <2>3. saved' = held
      BY <1>b, <2>1, <2>2, WithAddressesTyped, SavedSame
    <2> QED BY <1>a, <2>1, <2>3, BecomesInStep, NoTxFits
  <1>9. ASSUME NEW n \in U32, Draw(t, n) \/ Repay(t, n) PROVE InStep(t)'
    <2>1. PICK tx \in Tx :
             /\ \E data : Becomes(t, "signing", tab[t].held, data, tx, tab[t].fate)
             /\ tab[t].at = "ready" /\ tx.line = tab[t].held.line /\ tx.kind \in {"draw", "repay"}
      BY <1>9, <1>a, DrawBecomes
    <2>2. saved' = saved /\ saved = tab[t].held
      BY <1>9, <2>1 DEF Draw, Repay, InStep
    <2> QED BY <1>a, <2>1, <2>2, BecomesInStep
  <1>10. CASE DrawConfirmed(t)
    <2>1. saved' = saved /\ tab[t].at = "confirming"
      BY <1>10 DEF DrawConfirmed, Confirmed
    <2> QED BY <1>10, <1>a, <2>1, DrawConfirmedBecomes, BecomesInStep DEF InStep
  <1>11. CASE KeepNotes(t) \/ RepayConfirmed(t)
    <2>1. tab[t].at \notin {"closed", "restoring"} /\ saved = tab[t].held
      BY <1>11 DEF KeepNotes, RepayConfirmed, Confirmed, InStep
    <2>2. PICK notes \in Seq(Note) :
             \/ KeepNotes(t) /\ notes = Minted(tab[t].tx) \o tab[t].held.notes
             \/ RepayConfirmed(t) /\ notes = MarkRepaid(tab[t].held.notes, tab[t].tx.notes)
      BY <1>11, <1>a, NewNotesTyped
    <2>3. PICK held \in Saved : \E data, fate :
             /\ Becomes(t, "ready", held, data, NoTx, fate)
             /\ held.notes = notes
             /\ held.pool = tab[t].held.pool /\ held.line = tab[t].held.line
             /\ saved' \in Saved /\ saved'.notes = notes
             /\ saved'.pool = saved.pool /\ saved'.line = saved.line
      BY <1>a, <2>2, NotesBecome
    <2>4. saved' = held
      BY <2>1, <2>3, SavedSame
    <2> QED BY <1>a, <2>3, <2>4, BecomesInStep, NoTxFits
  <1> QED BY <1>1, <1>2, <1>3, <1>4, <1>5, <1>6, <1>7, <1>8, <1>9, <1>10, <1>11 DEF TabStep

-----------------------------------------------------------------------------
(* One tab: the notes tell the debt. *)

\* The values the argument counts with.
LEMMA DebtNumbers ==
    ASSUME PageInv, NEW t \in Tabs, NEW l \in Lines
    PROVE  /\ Kept(t) \in Saved /\ Kept(t).notes \in Seq(Note)
           /\ Cardinality(DrawnNotes(Kept(t).notes, l)) \in Nat
           /\ tab[t].tx.notes \in Nat
           /\ line[l].drawn \in Nat /\ line[l].repaid \in Nat /\ line[l].defaulted \in Nat
           /\ Outstanding(l) \in Nat
           /\ ~Initialized(line[l]) =>
                 line[l].drawn = 0 /\ line[l].repaid = 0 /\ line[l].defaulted = 0
  <1>a. PageTypeOK /\ TypeOK /\ LineAccounting /\ BlankUntilOpened
    BY DEF PageInv, RefinementInv
  <1>1. Kept(t) \in Saved /\ Kept(t).notes \in Seq(Note)
    BY <1>a, TabFields, SavedFields DEF Kept, PageTypeOK
  <1>2. Cardinality(DrawnNotes(Kept(t).notes, l)) \in Nat
    BY <1>1, DrawnNotesFinite
  <1>3. tab[t].tx.notes \in Nat
    BY <1>a, TabFields, TxFields, NumbersTyped DEF U32
  <1>4. line[l].drawn \in Nat /\ line[l].repaid \in Nat /\ line[l].defaulted \in Nat
    BY <1>a, LineFields, NumbersTyped DEF U32
  <1>5. Outstanding(l) \in Nat
    BY <1>a, <1>4 DEF LineAccounting, LineWithinLimit, OutstandingDefined, Outstanding
  <1>6. ~Initialized(line[l]) =>
           line[l].drawn = 0 /\ line[l].repaid = 0 /\ line[l].defaulted = 0
    BY <1>a DEF BlankUntilOpened, EmptyLine
  <1> QED BY <1>1, <1>2, <1>3, <1>4, <1>5, <1>6

\* Before the line that a setup sent is there, no line is.
LEMMA NoLineYet ==
    ASSUME NEW t \in Tabs, OneLine(t), Kept(t).line = ZeroKey, ~Landed(t, "line")
    PROVE  \A l \in Lines : ~Initialized(line[l])
  BY AddressAssumption DEF OneLine

\* Where no step changes lines or notes, the account stays.
LEMMA DebtStays ==
    ASSUME NEW t \in Tabs, NotesAreDebt(t), line' = line, Kept(t)'.notes = Kept(t).notes,
           \A l \in Lines : Unminted(t, l)' = Unminted(t, l)
                            /\ Unmarked(t, l)' = Unmarked(t, l)
    PROVE  NotesAreDebt(t)'
  BY DEF NotesAreDebt, Outstanding, DrawnNotes

LEMMA LineStays ==
    ASSUME NEW t \in Tabs, OneLine(t), line' = line, ~Landed(t, "line"),
           Kept(t)'.pool = Kept(t).pool, Kept(t)'.line = Kept(t).line
    PROVE  OneLine(t)'
  BY DEF OneLine, Initialized

\* Steps between which nothing is under way.
Resting(t) == tab[t].at \in {"closed", "restoring", "ready", "signing"}

LEMMA RestingOwesNothing ==
    ASSUME NEW t \in Tabs, Resting(t)
    PROVE  /\ \A l : Unminted(t, l) = 0 /\ Unmarked(t, l) = 0
           /\ \A kind : ~Landed(t, kind)
  BY DEF Resting, Unminted, Unmarked, Landed

LEMMA RestingNext ==
    ASSUME NEW t \in Tabs, Resting(t)'
    PROVE  \A l : Unminted(t, l)' = 0 /\ Unmarked(t, l)' = 0
  BY DEF Resting, Unminted, Unmarked, Landed

\* From rest to rest, with what is kept as it was.
LEMMA QuietStep ==
    ASSUME NEW t \in Tabs, OneLine(t), NotesAreDebt(t), line' = line,
           Resting(t), Resting(t)', Kept(t)' = Kept(t)
    PROVE  OneLine(t)' /\ NotesAreDebt(t)'
  <1>1. /\ \A l : Unminted(t, l) = 0 /\ Unmarked(t, l) = 0
        /\ ~Landed(t, "line")
    BY RestingOwesNothing
  <1>2. \A l : Unminted(t, l)' = 0 /\ Unmarked(t, l)' = 0
    BY RestingNext
  <1>3. OneLine(t)'
    BY <1>1, LineStays
  <1>4. NotesAreDebt(t)'
    BY <1>1, <1>2, DebtStays
  <1> QED BY <1>3, <1>4

\* The account of a page that comes to rest with a list of notes.
LEMMA RestingAccount ==
    ASSUME NEW t \in Tabs, NEW notes, line' = line, Resting(t)', Kept(t)'.notes = notes,
           \A l \in Lines : /\ Outstanding(l) \in Nat
                            /\ line[l].defaulted = 0
                                 => Cardinality(DrawnNotes(notes, l)) = Outstanding(l)
    PROVE  NotesAreDebt(t)'
  <1>1. \A l : Unminted(t, l)' = 0 /\ Unmarked(t, l)' = 0
    BY RestingNext
  <1> SUFFICES ASSUME NEW l \in Lines, line'[l].defaulted = 0
               PROVE  Cardinality(DrawnNotes(Kept(t).notes, l))' + Unminted(t, l)'
                        = Outstanding(l)' + Unmarked(t, l)'
    BY DEF NotesAreDebt
  <1>2. Cardinality(DrawnNotes(Kept(t).notes, l))' = Cardinality(DrawnNotes(notes, l))
    BY DEF DrawnNotes
  <1>3. Outstanding(l)' = Outstanding(l)
    BY DEF Outstanding
  <1> QED BY <1>1, <1>2, <1>3

LEMMA TabStepKeepsDebt ==
    ASSUME PageInv, PageInv', NEW t \in Tabs, InStep(t), InStep(t)', DebtInv(t), TabStep(t)
    PROVE  DebtInv(t)'
  <1> SUFFICES ASSUME ~mishap'
               PROVE  Followed(t)' /\ OneLine(t)' /\ NotesAreDebt(t)'
    BY DEF DebtInv
  <1>a. PageTypeOK /\ HandlersFit
    BY DEF PageInv
  <1>b. ~mishap /\ line' = line
    <2>1. line' = line
      BY DEF TabStep, Open, Restore, Leave, Send, Refuse, TimeOut, Setup, PoolConfirmed,
             LineConfirmed, Draw, Repay, DrawConfirmed, KeepNotes, RepayConfirmed, chainVars
    <2>2. mishap => mishap'
      BY DEF TabStep, Open, Restore, Leave, Send, Refuse, TimeOut, Setup, PoolConfirmed,
             LineConfirmed, Draw, Repay, DrawConfirmed, Confirmed, KeepNotes, RepayConfirmed
    <2> QED BY <2>1, <2>2
  <1>c. Followed(t) /\ OneLine(t) /\ NotesAreDebt(t)
    BY <1>b DEF DebtInv
  <1>d. /\ tab[t].held \in Saved /\ saved \in Saved
        /\ tab[t].fate \in {"none", "pending", "ok", "failed"}
        /\ tab[t].at \in {"closed", "restoring", "ready"} => tab[t].tx.kind = "none"
        /\ tab[t].at = "proving" => tab[t].tx.kind = "draw"
    BY <1>a, TabFields DEF PageTypeOK, HandlersFit
  <1>1. CASE Open(t)
    <2>1. /\ tab[t].at = "closed" /\ flight' = flight
      BY <1>1 DEF Open
    <2>4. tab'[t].at = "restoring" /\ tab'[t].held = saved
      BY <1>1, <1>a, OpenBecomes, BecomesTyped
    <2>2. Kept(t)' = Kept(t) /\ Resting(t) /\ Resting(t)' /\ Followed(t)'
      BY <1>c, <2>1, <2>4 DEF Kept, Resting, Followed
    <2>3. OneLine(t)' /\ NotesAreDebt(t)'
      BY <1>b, <1>c, <2>2, QuietStep
    <2> QED BY <2>2, <2>3
  <1>2. CASE Restore(t)
    <2>1. tab[t].at = "restoring" /\ flight' = flight
      BY <1>2 DEF Restore
    <2>2. tab'[t].at = "ready" /\ tab'[t].held = tab[t].held
      BY <1>2, <1>a, RestoreBecomes, BecomesTyped
    <2>3. Kept(t)' = Kept(t) /\ Resting(t) /\ Resting(t)' /\ Followed(t)'
      BY <1>c, <2>1, <2>2 DEF Kept, Resting, Followed, InStep
    <2>4. OneLine(t)' /\ NotesAreDebt(t)'
      BY <1>b, <1>c, <2>3, QuietStep
    <2> QED BY <2>3, <2>4
  <1>3. CASE Leave(t)
    <2>1. tab[t].at \in {"ready", "signing"} /\ flight' = flight /\ saved' = saved
      BY <1>3 DEF Leave
    <2>2. tab'[t].at = "closed"
      BY <1>3, <1>a, LeaveBecomes, BecomesTyped
    <2>3. Kept(t)' = Kept(t) /\ Resting(t) /\ Resting(t)' /\ Followed(t)'
      BY <1>c, <2>1, <2>2 DEF Kept, Resting, Followed
    <2>4. OneLine(t)' /\ NotesAreDebt(t)'
      BY <1>b, <1>c, <2>3, QuietStep
    <2> QED BY <2>3, <2>4
  <1>4. CASE Send(t)
    <2>1. PICK tx \in Tx :
             /\ Becomes(t, "confirming", tab[t].held, tab[t].seen, tx, "pending")
             /\ flight' = flight \cup {tx}
      BY <1>4, <1>a, SendBecomes
    <2>2. tab[t].at = "signing" /\ saved' = saved
      BY <1>4 DEF Send
    <2>3. tab'[t].at = "confirming" /\ tab'[t].fate = "pending" /\ tab'[t].tx = tx
      BY <1>a, <2>1, BecomesTyped
    <2>4. Kept(t)' = Kept(t) /\ Resting(t) /\ Followed(t)'
      BY <1>c, <2>1, <2>2, <2>3 DEF Kept, Resting, Followed
    <2>5. \A l : Unminted(t, l)' = 0 /\ Unmarked(t, l)' = 0
      BY <2>3 DEF Unminted, Unmarked, Landed
    <2>6. /\ \A l : Unminted(t, l) = 0 /\ Unmarked(t, l) = 0
          /\ ~Landed(t, "line")
      BY <2>4, RestingOwesNothing
    <2>7. OneLine(t)'
      BY <1>b, <1>c, <2>4, <2>6, LineStays
    <2>8. NotesAreDebt(t)'
      BY <1>b, <1>c, <2>4, <2>5, <2>6, DebtStays
    <2> QED BY <2>4, <2>7, <2>8
  <1>5. CASE Refuse(t) \/ TimeOut(t)
    <2>1. Fail(t) /\ flight' = flight /\ tab[t].at \in {"signing", "confirming"}
      BY <1>5 DEF Refuse, TimeOut
    <2>2. PICK held \in Saved :
             /\ Becomes(t, "ready", held, tab[t].seen, NoTx, "none")
             /\ held.notes = tab[t].held.notes
             /\ held.pool = IF tab[t].tx.kind = "pool" THEN ZeroKey ELSE tab[t].held.pool
             /\ held.line = IF tab[t].tx.kind \in {"pool", "line"} THEN ZeroKey
                            ELSE tab[t].held.line
      BY <1>a, <2>1, FailBecomes
    <2>3. tab'[t].at = "ready" /\ tab'[t].held = held
      BY <1>a, <2>2, BecomesTyped
    <2>4. /\ flight = {}
          /\ \A l : Unminted(t, l) = 0 /\ Unmarked(t, l) = 0
          /\ ~Landed(t, "line")
      <3>1. CASE Refuse(t)
        BY <1>c, <3>1 DEF Refuse, Followed, Unminted, Unmarked, Landed
      <3>2. CASE TimeOut(t)
        <4>1. tab[t].at = "confirming" /\ tab[t].fate = "pending" /\ tab[t].tx \notin flight
          BY <3>2 DEF TimeOut
        <4> QED BY <1>c, <4>1 DEF Followed, Unminted, Unmarked, Landed
      <3> QED BY <1>5, <3>1, <3>2
    <2>5. Kept(t) = tab[t].held /\ Kept(t)' = held /\ Resting(t)' /\ Followed(t)'
      BY <2>1, <2>3, <2>4 DEF Kept, Resting, Followed, InStep
    <2>6. NotesAreDebt(t)'
      <3>1. \A l : Unminted(t, l)' = 0 /\ Unmarked(t, l)' = 0
        BY <2>5, RestingNext
      <3>2. Kept(t)'.notes = Kept(t).notes
        BY <2>2, <2>5
      <3> QED BY <1>b, <1>c, <2>4, <3>1, <3>2, DebtStays
    <2>7. OneLine(t)'
      <3>1. CASE tab[t].tx.kind = "pool"
        <4>1. Kept(t).line = ZeroKey
          BY <2>1, <2>5, <3>1 DEF InStep
        <4>2. \A l \in Lines : ~Initialized(line[l])
          BY <1>c, <2>4, <4>1, NoLineYet
        <4> QED BY <1>b, <4>2 DEF OneLine, Initialized
      <3>2. CASE tab[t].tx.kind # "pool"
        <4>1. held.pool = Kept(t).pool /\ held.line = Kept(t).line
          BY <2>1, <2>2, <2>5, <3>2 DEF InStep
        <4> QED BY <1>b, <1>c, <2>4, <2>5, <4>1, LineStays
      <3> QED BY <3>1, <3>2
    <2> QED BY <2>5, <2>6, <2>7
  <1>6. ASSUME NEW x, tab[t].at = "ready", saved' = saved, flight' = flight,
               \E tx, data : Becomes(t, "signing", tab[t].held, data, tx, tab[t].fate)
        PROVE  Followed(t)' /\ OneLine(t)' /\ NotesAreDebt(t)'
    <2>1. tab'[t].at = "signing"
      BY <1>6, <1>a, BecomesTyped
    <2>2. Kept(t)' = Kept(t) /\ Resting(t) /\ Resting(t)' /\ Followed(t)'
      BY <1>6, <1>c, <2>1 DEF Kept, Resting, Followed
    <2>3. OneLine(t)' /\ NotesAreDebt(t)'
      BY <1>b, <1>c, <2>2, QuietStep
    <2> QED BY <2>2, <2>3
  <1>7. ASSUME NEW p \in Pools, Setup(t, p)
        PROVE  Followed(t)' /\ OneLine(t)' /\ NotesAreDebt(t)'
    <2>1. tab[t].at = "ready" /\ saved' = saved /\ flight' = flight
      BY <1>7 DEF Setup
    <2> QED BY <1>6, <1>7, <1>a, <2>1, SetupBecomes
  <1>8. ASSUME NEW n \in U32, Draw(t, n) \/ Repay(t, n)
        PROVE  Followed(t)' /\ OneLine(t)' /\ NotesAreDebt(t)'
    <2>1. tab[t].at = "ready" /\ saved' = saved /\ flight' = flight
      BY <1>8 DEF Draw, Repay, HasLine
    <2> QED BY <1>6, <1>8, <1>a, <2>1, DrawBecomes
  \* A confirmation that is no mishap is that of a transaction that took effect.
  <1>9. ASSUME NEW kind, Confirmed(t, kind)
        PROVE  /\ tab[t].at = "confirming" /\ tab[t].fate = "ok" /\ tab[t].tx.kind = kind
               /\ flight = {} /\ saved = tab[t].held /\ Kept(t) = saved
               /\ Landed(t, kind)
    <2>1. tab[t].at = "confirming" /\ tab[t].tx.kind = kind /\ tab[t].fate \notin {"pending", "failed"}
      BY <1>9 DEF Confirmed
    <2>2. tab[t].fate = "ok"
      BY <1>d, <2>1 DEF InStep
    <2> QED BY <1>c, <2>1, <2>2 DEF Followed, InStep, Kept, Landed
  <1>10. ASSUME NEW l \in Lines, PoolConfirmed(t, l)
         PROVE  Followed(t)' /\ OneLine(t)' /\ NotesAreDebt(t)'
    <2>1. Confirmed(t, "pool") /\ flight' = flight
      BY <1>10 DEF PoolConfirmed
    <2>2. PICK tx \in Tx, held \in Saved :
             /\ Becomes(t, "signing", held, tab[t].seen, tx, "none")
             /\ held.line = tab[t].held.line /\ held.notes = tab[t].held.notes
      BY <1>10, <1>a, PoolConfirmedBecomes
    <2>3. tab'[t].at = "signing" /\ tab'[t].held = held
      BY <1>a, <2>2, BecomesTyped
    <2>4. Resting(t)' /\ Followed(t)' /\ Kept(t)' = held
      BY <1>9, <2>1, <2>3 DEF Resting, Followed, Kept, InStep
    <2>5. /\ \A l1 : Unminted(t, l1) = 0 /\ Unmarked(t, l1) = 0
          /\ ~Landed(t, "line") /\ Kept(t).line = ZeroKey
      BY <1>9, <2>1 DEF Unminted, Unmarked, Landed, InStep
    <2>6. OneLine(t)'
      BY <1>b, <1>c, <2>5, NoLineYet DEF OneLine, Initialized
    <2>7. NotesAreDebt(t)'
      <3>1. \A l1 : Unminted(t, l1)' = 0 /\ Unmarked(t, l1)' = 0
        BY <2>4, RestingNext
      <3>2. Kept(t)'.notes = Kept(t).notes
        BY <1>9, <2>1, <2>2, <2>4
      <3> QED BY <1>b, <1>c, <2>5, <3>1, <3>2, DebtStays
    <2> QED BY <2>4, <2>6, <2>7
  <1>11. CASE LineConfirmed(t)
    <2>1. Confirmed(t, "line") /\ flight' = flight
      BY <1>11 DEF LineConfirmed
    <2>2. PICK held \in Saved :
             /\ \E data : Becomes(t, "ready", held, data, NoTx, "none")
             /\ held.pool = tab[t].held.pool /\ held.line = tab[t].tx.line
             /\ held.notes = tab[t].held.notes
      BY <1>11, <1>a, LineConfirmedBecomes
    <2>3. tab'[t].at = "ready" /\ tab'[t].held = held
      BY <1>a, <2>2, BecomesTyped
    <2>4. Resting(t)' /\ Followed(t)' /\ Kept(t)' = held
      BY <1>9, <2>1, <2>3 DEF Resting, Followed, Kept, InStep
    <2>5. /\ \A l : Unminted(t, l) = 0 /\ Unmarked(t, l) = 0
          /\ Kept(t).line = ZeroKey
      BY <1>9, <2>1 DEF Unminted, Unmarked, Landed, InStep
    <2>6. ASSUME NEW l \in Lines, Initialized(line[l])
          PROVE  line[l].pool = held.pool /\ held.line = l
      BY <1>9, <1>c, <2>1, <2>2, <2>5, <2>6, AddressAssumption DEF OneLine
    <2>7. OneLine(t)'
      BY <1>b, <2>4, <2>6 DEF OneLine, Initialized
    <2>8. NotesAreDebt(t)'
      <3>1. \A l1 : Unminted(t, l1)' = 0 /\ Unmarked(t, l1)' = 0
        BY <2>4, RestingNext
      <3>2. Kept(t)'.notes = Kept(t).notes
        BY <1>9, <2>1, <2>2, <2>4
      <3> QED BY <1>b, <1>c, <2>5, <3>1, <3>2, DebtStays
    <2> QED BY <2>4, <2>7, <2>8
  <1>12. CASE DrawConfirmed(t)
    <2>1. Confirmed(t, "draw") /\ flight' = flight /\ saved' = saved
      BY <1>12 DEF DrawConfirmed
    <2>2. tab'[t].at = "proving" /\ tab'[t].tx = tab[t].tx
      BY <1>12, <1>a, DrawConfirmedBecomes, BecomesTyped
    <2>3. Followed(t)' /\ Kept(t)' = Kept(t) /\ ~Landed(t, "line")
      BY <1>9, <2>1, <2>2 DEF Followed, Kept, Landed
    <2>4. \A l : Unminted(t, l)' = Unminted(t, l) /\ Unmarked(t, l)' = Unmarked(t, l)
      BY <1>9, <2>1, <2>2 DEF Unminted, Unmarked, Landed
    <2> QED BY <1>b, <1>c, <2>3, <2>4, LineStays, DebtStays
  <1>13. CASE KeepNotes(t)
    <2>1. /\ tab[t].at = "proving" /\ tab[t].tx.kind = "draw" /\ flight' = flight
          /\ saved = tab[t].held /\ tab[t].tx \in Tx /\ tab[t].tx.line \in Lines
      BY <1>13, <1>a, <1>d, TabFields DEF KeepNotes, InStep, HandlersFit, TxFits
    <2>2. PICK notes, old : notes = Minted(tab[t].tx) \o old /\ old = tab[t].held.notes
      OBVIOUS
    <2>3. /\ Minted(tab[t].tx) \in Seq(Note) /\ old \in Seq(Note) /\ notes \in Seq(Note)
      BY <1>d, <2>1, <2>2, MintedList, JoinedNotes, SavedFields
    <2>4. PICK held \in Saved :
             /\ \E data, fate : Becomes(t, "ready", held, data, NoTx, fate)
             /\ held.notes = notes
             /\ held.pool = tab[t].held.pool /\ held.line = tab[t].held.line
      BY <1>13, <1>a, <2>2, <2>3, NotesBecome, ZenonT(60)
    <2>5. tab'[t].at = "ready" /\ tab'[t].held = held
      BY <1>a, <2>4, BecomesTyped
    <2>6. /\ Followed(t)' /\ Resting(t)' /\ Kept(t)' = held /\ Kept(t) = tab[t].held
          /\ ~Landed(t, "line")
      BY <1>c, <2>1, <2>5 DEF Followed, Resting, Kept, Landed, InStep
    <2>7. OneLine(t)'
      BY <1>b, <1>c, <2>4, <2>6, LineStays
    <2>8. ASSUME NEW l \in Lines, line[l].defaulted = 0
          PROVE  Cardinality(DrawnNotes(notes, l)) = Outstanding(l)
      <3>1. Cardinality(DrawnNotes(notes, l)) =
              (IF l = tab[t].tx.line THEN tab[t].tx.notes ELSE 0)
                + Cardinality(DrawnNotes(old, l))
        BY <2>1, <2>2, <2>3, DrawnOfJoined, DrawnOfMinted
      <3>2. /\ Unminted(t, l) = IF l = tab[t].tx.line THEN tab[t].tx.notes ELSE 0
            /\ Unmarked(t, l) = 0
        BY <2>1 DEF Unminted, Unmarked, Landed
      <3>3. Cardinality(DrawnNotes(old, l)) + Unminted(t, l) = Outstanding(l) + Unmarked(t, l)
        BY <1>c, <2>2, <2>6, <2>8 DEF NotesAreDebt
      <3>4. /\ Cardinality(DrawnNotes(old, l)) \in Nat /\ tab[t].tx.notes \in Nat
            /\ Outstanding(l) \in Nat
        BY <2>2, <2>6, DebtNumbers
      <3> QED BY <3>1, <3>2, <3>3, <3>4
    <2>9. NotesAreDebt(t)'
      <3>1. Kept(t)'.notes = notes
        BY <2>4, <2>6
      <3>2. \A l \in Lines : Outstanding(l) \in Nat
        BY DebtNumbers
      <3> QED BY <1>b, <2>6, <2>8, <3>1, <3>2, RestingAccount
    <2> QED BY <2>6, <2>7, <2>9
  <1>14. CASE RepayConfirmed(t)
    <2>1. Confirmed(t, "repay") /\ flight' = flight
      BY <1>14 DEF RepayConfirmed
    <2>2. PICK notes, old, n, x : /\ notes = MarkRepaid(old, n) /\ old = tab[t].held.notes
                                  /\ n = tab[t].tx.notes /\ x = tab[t].tx.line
      OBVIOUS
    <2>3. old \in Seq(Note) /\ notes \in Seq(Note) /\ n \in Nat /\ x \in Lines
      <3>1. TxFits(tab[t].tx) /\ tab[t].tx \in Tx
        BY <1>a, TabFields DEF HandlersFit
      <3>2. x \in Lines
        BY <1>9, <2>1, <2>2, <3>1 DEF TxFits
      <3>3. n \in Nat
        BY <2>2, <3>1, TxFields, NumbersTyped DEF U32
      <3> QED BY <1>d, <2>2, <3>2, <3>3, MarkedList, SavedFields
    <2>4. PICK held \in Saved :
             /\ \E data, fate : Becomes(t, "ready", held, data, NoTx, fate)
             /\ held.notes = notes
             /\ held.pool = tab[t].held.pool /\ held.line = tab[t].held.line
      BY <1>14, <1>a, <2>2, <2>3, NotesBecome, ZenonT(60)
    <2>5. tab'[t].at = "ready" /\ tab'[t].held = held
      BY <1>a, <2>4, BecomesTyped
    <2>6. /\ Followed(t)' /\ Resting(t)' /\ Kept(t)' = held /\ Kept(t) = tab[t].held
          /\ ~Landed(t, "line") /\ Kept(t).line = x
      BY <1>9, <2>1, <2>2, <2>5 DEF Followed, Resting, Kept, Landed, InStep
    <2>7. OneLine(t)'
      BY <1>b, <1>c, <2>4, <2>6, LineStays
    <2>8. ASSUME NEW l \in Lines
          PROVE  /\ Unminted(t, l) = 0
                 /\ Unmarked(t, l) = IF l = x THEN n ELSE 0
      BY <1>9, <2>1, <2>2 DEF Unminted, Unmarked, Landed
    \* Nothing is drawn but on the one line there is.
    <2>9. \A j \in DOMAIN old : old[j].status = "drawn" => old[j].line = x
      <3> SUFFICES ASSUME NEW j \in DOMAIN old, old[j].status = "drawn", old[j].line # x
                   PROVE  FALSE
        OBVIOUS
      <3>1. PICK l \in Lines : l = old[j].line
        <4>1. old[j] \in Note
          BY <2>3
        <4> QED BY <4>1, NoteFields
      <3>2. ~Initialized(line[l])
        BY <1>c, <2>6, <3>1 DEF OneLine
      <3>3. line[l].drawn = 0 /\ line[l].repaid = 0 /\ line[l].defaulted = 0
        BY <3>2, DebtNumbers
      <3>4. Cardinality(DrawnNotes(old, l)) = 0
        <4>1. Cardinality(DrawnNotes(old, l)) + Unminted(t, l) = Outstanding(l) + Unmarked(t, l)
          BY <1>c, <2>2, <2>6, <3>3 DEF NotesAreDebt
        <4>2. Cardinality(DrawnNotes(old, l)) \in Nat
          BY <2>3, DrawnNotesFinite
        <4> QED BY <2>8, <3>1, <3>3, <4>1, <4>2 DEF Outstanding
      <3>5. DrawnNotes(old, l) = {}
        BY <2>3, <3>4, DrawnNotesFinite, FS_EmptySet
      <3>6. j \in DrawnNotes(old, l)
        BY <3>1 DEF DrawnNotes
      <3> QED BY <3>5, <3>6
    <2>10. ASSUME NEW l \in Lines, line[l].defaulted = 0
           PROVE  Cardinality(DrawnNotes(notes, l)) = Outstanding(l)
      <3>1. /\ Cardinality(DrawnNotes(old, l)) + Unminted(t, l)
                 = Outstanding(l) + Unmarked(t, l)
            /\ Outstanding(l) \in Nat
        BY <1>c, <2>2, <2>6, <2>10, DebtNumbers DEF NotesAreDebt
      <3>2. Cardinality(DrawnNotes(old, l)) \in Nat
        BY <2>3, DrawnNotesFinite
      <3>3. CASE l = x
        <4>1. Cardinality(DrawnNotes(old, l)) = Outstanding(l) + n
          BY <2>3, <2>8, <3>1, <3>2, <3>3
        <4>2. n <= Cardinality(DrawnNotes(old, l))
          BY <2>3, <3>1, <4>1
        <4>3. Cardinality(DrawnNotes(notes, l)) = Cardinality(DrawnNotes(old, l)) - n
          BY <2>2, <2>3, <2>9, <3>3, <4>2, DrawnOfMarked
        <4> QED BY <2>3, <3>1, <4>1, <4>3
      <3>4. CASE l # x
        <4>1. DrawnNotes(notes, l) = {}
          <5>1. \A other : other # x => DrawnNotes(MarkRepaid(old, n), other) = {}
            BY <2>3, <2>9, DrawnOfMarked
          <5> QED BY <2>2, <3>4, <5>1
        <4>2. DrawnNotes(old, l) = {}
          BY <2>9, <3>4 DEF DrawnNotes
        <4> QED BY <2>8, <3>1, <3>4, <4>1, <4>2, FS_EmptySet
      <3> QED BY <3>3, <3>4
    <2>11. NotesAreDebt(t)'
      <3>1. Kept(t)'.notes = notes
        BY <2>4, <2>6
      <3>2. \A l \in Lines : Outstanding(l) \in Nat
        BY DebtNumbers
      <3> QED BY <1>b, <2>6, <2>10, <3>1, <3>2, RestingAccount
    <2> QED BY <2>6, <2>7, <2>11
  <1> QED BY <1>1, <1>2, <1>3, <1>4, <1>5, <1>7, <1>8, <1>10, <1>11, <1>12, <1>13, <1>14
          DEF TabStep


\* A transaction that lands is the one the page waits for.
LEMMA LandKeepsDebt ==
    ASSUME PageInv, PageInv', NEW t \in Tabs, InStep(t), DebtInv(t),
           NEW tx \in flight, Land(tx)
    PROVE  InStep(t)' /\ DebtInv(t)'
  <1>a. PageTypeOK /\ HandlersFit /\ TypeOK /\ TxFits(tx)
    BY DEF PageInv, PageTypeOK, HandlersFit
  <1>1. PICK fate \in {"ok", "failed"} :
             /\ fate = "ok" => Execute(tx)
             /\ fate = "failed" => UNCHANGED vars
             /\ tab'[t].at = tab[t].at /\ tab'[t].held = tab[t].held
             /\ tab'[t].tx = tab[t].tx
             /\ tab'[t].fate = IF WaitsFor(t, tx) THEN fate ELSE tab[t].fate
             /\ flight' = flight \ {tx}
             /\ saved' = saved /\ mishap' = mishap
    <2>1. \E fate \in {"ok", "failed"} :
             /\ fate = "ok" => Execute(tx)
             /\ fate = "failed" => UNCHANGED vars
             /\ \A u \in Tabs :
                   /\ tab'[u].at = tab[u].at /\ tab'[u].held = tab[u].held
                   /\ tab'[u].tx = tab[u].tx
                   /\ tab'[u].fate = IF WaitsFor(u, tx) THEN fate ELSE tab[u].fate
             /\ flight' = flight \ {tx}
             /\ UNCHANGED <<saved, mishap>>
      BY <1>a, LandTells
    <2> QED BY <2>1
  <1>2. InStep(t)'
    BY <1>1 DEF InStep
  <1> SUFFICES ASSUME ~mishap'
               PROVE  Followed(t)' /\ OneLine(t)' /\ NotesAreDebt(t)'
    BY <1>2 DEF DebtInv
  <1>3. Followed(t) /\ OneLine(t) /\ NotesAreDebt(t)
    BY <1>1 DEF DebtInv
  <1>4. /\ tab[t].at = "confirming" /\ tab[t].fate = "pending"
        /\ tx = tab[t].tx /\ flight = {tx}
    BY <1>3 DEF Followed
  <1>5. /\ tab'[t].at = "confirming" /\ tab'[t].fate = fate /\ tab'[t].tx = tx
        /\ flight' = {} /\ saved = tab[t].held
        /\ Kept(t) = saved /\ Kept(t)' = Kept(t)
    BY <1>1, <1>4 DEF WaitsFor, Kept, InStep
  <1>6. /\ \A l : Unminted(t, l) = 0 /\ Unmarked(t, l) = 0
        /\ ~Landed(t, "line") /\ Followed(t)'
    BY <1>4, <1>5 DEF Unminted, Unmarked, Landed, Followed
  <1>7. CASE fate = "failed"
    <2>1. line' = line
      BY <1>1, <1>7 DEF vars
    <2>2. \A l : Unminted(t, l)' = 0 /\ Unmarked(t, l)' = 0
      BY <1>5, <1>7 DEF Unminted, Unmarked, Landed
    <2>3. OneLine(t)'
      BY <1>3, <1>5, <1>6, <2>1, LineStays
    <2>4. NotesAreDebt(t)'
      BY <1>3, <1>5, <1>6, <2>1, <2>2, DebtStays
    <2> QED BY <1>6, <2>3, <2>4
  <1>8. CASE fate = "ok"
    <2>1. ASSUME NEW l \in Lines
          PROVE  \/ /\ LineUntouched(l)
                    /\ tx.kind = "pool" \/ tx.line # l
                 \/ tx.kind = "line" /\ tx.line = l /\ LineApproved(l, tx.pool)
                 \/ tx.kind = "draw" /\ tx.line = l /\ LineDrawn(l, tx.notes)
                 \/ tx.kind = "repay" /\ tx.line = l /\ LineRepaid(l, tx.notes)
      BY <1>1, <1>8, <1>a, ExecuteTells
    <2>2. tx.kind = "line" => tx.pool = Kept(t).pool
      BY <1>4, <1>5 DEF InStep
    <2>3. ASSUME NEW l \in Lines, Initialized(line'[l])
          PROVE  /\ line'[l].pool = Kept(t).pool
                 /\ \/ Kept(t).line = l
                    \/ Landed(t, "line")' /\ tab'[t].tx.line = l /\ line'[l].drawn = 0
      <3>1. CASE tx.kind = "line" /\ tx.line = l /\ LineApproved(l, tx.pool)
        BY <1>5, <1>8, <2>2, <3>1 DEF LineApproved, Landed
      <3>2. CASE SameIdentity(l) /\ Initialized(line[l])
        BY <1>3, <1>6, <3>2 DEF OneLine, SameIdentity
      <3> QED BY <2>1, <2>3, <3>1, <3>2
              DEF LineUntouched, LineDrawn, LineRepaid, ActiveLine, Initialized
    <2>4. OneLine(t)'
      BY <1>5, <2>3 DEF OneLine, Initialized
    <2>5. ASSUME NEW l \in Lines, line'[l].defaulted = 0
          PROVE  Cardinality(DrawnNotes(Kept(t).notes, l)) + Unminted(t, l)'
                   = line'[l].drawn - line'[l].repaid - line'[l].defaulted + Unmarked(t, l)'
      <3> DEFINE card == Cardinality(DrawnNotes(Kept(t).notes, l))
      <3>1. /\ card \in Nat /\ tx.notes \in Nat
            /\ line[l].drawn \in Nat /\ line[l].repaid \in Nat /\ line[l].defaulted \in Nat
            /\ ~Initialized(line[l]) =>
                  line[l].drawn = 0 /\ line[l].repaid = 0 /\ line[l].defaulted = 0
        BY <1>4, DebtNumbers
      <3>2. line[l].defaulted = 0 => card = line[l].drawn - line[l].repaid - line[l].defaulted
        BY <1>3, <1>6, <3>1 DEF NotesAreDebt, Outstanding
      <3>3. /\ Unminted(t, l)' = IF tx.line = l /\ tx.kind = "draw" THEN tx.notes ELSE 0
            /\ Unmarked(t, l)' = IF tx.line = l /\ tx.kind = "repay" THEN tx.notes ELSE 0
        BY <1>5, <1>8 DEF Unminted, Unmarked, Landed
      <3> SUFFICES card + Unminted(t, l)' =
                     line'[l].drawn - line'[l].repaid - line'[l].defaulted + Unmarked(t, l)'
        OBVIOUS
      <3> HIDE DEF card
      <3>4. CASE LineUntouched(l) /\ (tx.kind = "pool" \/ tx.line # l)
        BY <2>5, <3>1, <3>2, <3>3, <3>4 DEF LineUntouched, SameCounters
      <3>5. CASE tx.kind = "line" /\ tx.line = l /\ LineApproved(l, tx.pool)
        BY <3>1, <3>2, <3>3, <3>5 DEF LineApproved
      <3>6. CASE tx.kind = "draw" /\ tx.line = l /\ LineDrawn(l, tx.notes)
        BY <2>5, <3>1, <3>2, <3>3, <3>6 DEF LineDrawn
      <3>7. CASE tx.kind = "repay" /\ tx.line = l /\ LineRepaid(l, tx.notes)
        BY <2>5, <3>1, <3>2, <3>3, <3>7 DEF LineRepaid
      <3> QED BY <2>1, <3>4, <3>5, <3>6, <3>7
    <2>6. NotesAreDebt(t)'
      <3> SUFFICES ASSUME NEW l \in Lines, line'[l].defaulted = 0
                   PROVE  Cardinality(DrawnNotes(Kept(t).notes, l))' + Unminted(t, l)'
                            = Outstanding(l)' + Unmarked(t, l)'
        BY DEF NotesAreDebt
      <3>1. Cardinality(DrawnNotes(Kept(t).notes, l))'
              = Cardinality(DrawnNotes(Kept(t).notes, l))
        BY <1>5 DEF DrawnNotes
      <3> QED BY <2>5, <3>1 DEF Outstanding
    <2> QED BY <1>6, <2>4, <2>6
  <1> QED BY <1>7, <1>8

\* What a settlement leaves of a line.
LEMMA SettleTells ==
    ASSUME TypeOK, NEW p \in Pools, NEW x \in Lines, NEW c, SettleMaturity(p, x, c),
           NEW l \in Lines
    PROVE  /\ line'[l].pool = line[l].pool /\ line'[l].drawn = line[l].drawn
           /\ Initialized(line'[l]) => Initialized(line[l])
           /\ line'[l].defaulted = 0 =>
                 line[l].defaulted = 0 /\ line'[l].repaid = line[l].repaid
  <1>1. line \in [Lines -> CreditLineAccount] /\ line[l] \in CreditLineAccount
        /\ line[x] \in CreditLineAccount
    BY DEF TypeOK
  <1>2. CASE l # x
    BY <1>1, <1>2 DEF SettleMaturity, SettleClean, SettleDefault
  <1>3. CASE l = x /\ SettleClean(p, x, c)
    BY <1>1, <1>3 DEF SettleClean, CreditLineAccount
  <1>4. CASE l = x /\ SettleDefault(p, x, c)
    <2>1. /\ line'[l].pool = line[l].pool /\ line'[l].drawn = line[l].drawn
          /\ line'[l].defaulted = line[l].defaulted + Outstanding(l)
          /\ Initialized(line[l]) /\ Outstanding(l) > 0
      BY <1>1, <1>4 DEF SettleDefault, CreditLineAccount
    <2>2. line[l].defaulted \in Nat /\ line[l].drawn \in Nat /\ line[l].repaid \in Nat
      BY <1>1, LineFields, NumbersTyped DEF U32
    <2>3. line'[l].defaulted # 0
      BY <2>1, <2>2 DEF Outstanding
    <2> QED BY <2>1, <2>3
  <1> QED BY <1>2, <1>3, <1>4 DEF SettleMaturity

LEMMA SettleKeepsDebt ==
    ASSUME PageInv, NEW t \in Tabs, InStep(t), DebtInv(t),
           NEW p \in Pools, NEW x \in Lines, Settle(p, x)
    PROVE  InStep(t)' /\ DebtInv(t)'
  <1>1. PICK c \in Slots : SettleMaturity(p, x, c)
    BY DEF Settle
  <1>2. TypeOK
    BY DEF PageInv, PageTypeOK
  <1>3. \A l \in Lines :
           /\ line'[l].pool = line[l].pool /\ line'[l].drawn = line[l].drawn
           /\ Initialized(line'[l]) => Initialized(line[l])
           /\ line'[l].defaulted = 0 =>
                 line[l].defaulted = 0 /\ line'[l].repaid = line[l].repaid
    BY <1>1, <1>2, SettleTells
  <1>4. tab' = tab /\ saved' = saved /\ flight' = flight /\ mishap' = mishap
    BY DEF Settle, pageVars
  <1>5. InStep(t)'
    BY <1>4 DEF InStep
  <1>6. /\ Followed(t)' <=> Followed(t)
        /\ Kept(t)' = Kept(t)
        /\ Landed(t, "line")' <=> Landed(t, "line")
        /\ \A l : Unminted(t, l)' = Unminted(t, l) /\ Unmarked(t, l)' = Unmarked(t, l)
    BY <1>4 DEF Followed, Kept, Landed, Unminted, Unmarked
  <1>7. OneLine(t) => OneLine(t)'
    BY <1>3, <1>4, <1>6 DEF OneLine, Initialized
  <1>8. NotesAreDebt(t) => NotesAreDebt(t)'
    BY <1>3, <1>6 DEF NotesAreDebt, Outstanding, DrawnNotes
  <1> QED BY <1>4, <1>5, <1>6, <1>7, <1>8 DEF DebtInv

\* With one tab, whatever happens next.
LEMMA TabInvNext ==
    ASSUME NEW t, Tabs = {t}
    PROVE  PageInv /\ PageInv' /\ TabInv(t) /\ [PageNext]_allVars => TabInv(t)'
  <1> SUFFICES ASSUME PageInv, PageInv', TabInv(t), [PageNext]_allVars PROVE TabInv(t)'
    OBVIOUS
  <1>a. t \in Tabs /\ InStep(t) /\ DebtInv(t)
    BY DEF TabInv
  <1>1. ASSUME NEW u \in Tabs, TabStep(u) PROVE TabInv(t)'
    <2>1. TabStep(t)
      BY <1>1
    <2> QED BY <1>a, <2>1, TabStepKeepsInStep, TabStepKeepsDebt DEF TabInv
  <1>2. ASSUME NEW tx \in flight, Land(tx) PROVE TabInv(t)'
    BY <1>2, <1>a, LandKeepsDebt DEF TabInv
  <1>3. ASSUME NEW tx \in flight, Drop(tx) PROVE TabInv(t)'
    <2>1. /\ tab' = tab /\ saved' = saved /\ mishap' = mishap /\ line' = line
          /\ flight' = flight \ {tx}
      BY <1>3 DEF Drop, chainVars
    <2>2. InStep(t)' /\ (Followed(t) => Followed(t)')
      BY <1>a, <2>1 DEF InStep, Followed
    <2>3. (OneLine(t) => OneLine(t)') /\ (NotesAreDebt(t) => NotesAreDebt(t)')
      BY <2>1 DEF OneLine, Initialized, NotesAreDebt, Outstanding, DrawnNotes, Kept, Landed,
                  Unminted, Unmarked
    <2> QED BY <1>a, <2>1, <2>2, <2>3 DEF TabInv, DebtInv
  <1>4. ASSUME NEW p \in Pools, NEW l \in Lines, Settle(p, l) PROVE TabInv(t)'
    BY <1>4, <1>a, SettleKeepsDebt DEF TabInv
  <1>5. CASE TimePasses \/ UNCHANGED allVars
    <2>1. /\ tab' = tab /\ saved' = saved /\ mishap' = mishap /\ line' = line
          /\ flight' = flight
      BY <1>5 DEF TimePasses, Tick, vars, pageVars, allVars, chainVars
    <2>2. InStep(t)' /\ (Followed(t) => Followed(t)')
      BY <1>a, <2>1 DEF InStep, Followed
    <2>3. (OneLine(t) => OneLine(t)') /\ (NotesAreDebt(t) => NotesAreDebt(t)')
      BY <2>1 DEF OneLine, Initialized, NotesAreDebt, Outstanding, DrawnNotes, Kept, Landed,
                  Unminted, Unmarked
    <2> QED BY <1>a, <2>1, <2>2, <2>3 DEF TabInv, DebtInv
  <1> QED BY <1>1, <1>2, <1>3, <1>4, <1>5 DEF PageNext

LEMMA TabInvHolds ==
    ASSUME NEW t, Tabs = {t}
    PROVE  PageSpec => []TabInv(t)
  <1>1. PageInit => TabInv(t)
    <2> SUFFICES ASSUME PageInit PROVE TabInv(t)
      OBVIOUS
    <2>1. /\ Init /\ tab[t] = Closed /\ saved = Nothing /\ flight = {} /\ mishap = FALSE
      BY DEF PageInit, ChainInit
    <2>2. tab[t].at = "closed" /\ tab[t].tx.kind = "none"
      BY <2>1, NoTxFits DEF Closed
    <2>3. InStep(t) /\ Followed(t)
      BY <2>1, <2>2 DEF InStep, Followed
    <2>4. \A l \in Lines : /\ ~Initialized(line[l])
                           /\ line[l].drawn = 0 /\ line[l].repaid = 0 /\ line[l].defaulted = 0
      BY <2>1 DEF Init, EmptyLine, Initialized
    <2>5. OneLine(t)
      BY <2>4 DEF OneLine
    <2>6. ASSUME NEW l \in Lines
          PROVE  /\ Cardinality(DrawnNotes(Kept(t).notes, l)) = 0
                 /\ Unminted(t, l) = 0 /\ Unmarked(t, l) = 0 /\ Outstanding(l) = 0
      <3>1. Kept(t).notes = << >> /\ DOMAIN << >> = {}
        BY <2>1, <2>2 DEF Kept, Nothing
      <3>2. DrawnNotes(Kept(t).notes, l) = {}
        BY <3>1 DEF DrawnNotes
      <3> QED BY <2>2, <2>4, <3>2, FS_EmptySet DEF Unminted, Unmarked, Landed, Outstanding
    <2>7. NotesAreDebt(t)
      BY <2>6 DEF NotesAreDebt
    <2> QED BY <2>3, <2>5, <2>7 DEF TabInv, DebtInv
  <1>2. PageInv /\ PageInv' /\ TabInv(t) /\ [PageNext]_allVars => TabInv(t)'
    BY TabInvNext
  <1> QED BY <1>1, <1>2, PageInvHolds, PTL DEF PageSpec

\* With one tab that lost track of nothing, the notes shown as drawn are the debt
\* of their line, note for note, in the page and in localStorage, and no id is
\* given twice (handleDraw, handleRepay, mintNotes and the effects that persist).
THEOREM NotesTellTheDebtInOneTab ==
    ASSUME NEW t, Tabs = {t}
    PROVE  PageSpec => []NotesTellTheDebt
  <1>1. PageInv /\ TabInv(t) => NotesMatchDebt
    <2> SUFFICES ASSUME PageInv, TabInv(t), tab[t].at \in {"ready", "signing"}, ~mishap
                 PROVE  /\ saved.notes = tab[t].held.notes
                        /\ \A l \in Lines : line[l].defaulted = 0 =>
                              Cardinality(DrawnNotes(saved.notes, l)) = Outstanding(l)
      BY DEF NotesMatchDebt
    <2>1. saved = tab[t].held /\ Kept(t) = saved /\ Resting(t) /\ NotesAreDebt(t)
      BY DEF TabInv, InStep, DebtInv, Kept, Resting
    <2>2. ASSUME NEW l \in Lines, line[l].defaulted = 0
          PROVE  Cardinality(DrawnNotes(saved.notes, l)) = Outstanding(l)
      <3>1. /\ Cardinality(DrawnNotes(saved.notes, l)) \in Nat /\ Outstanding(l) \in Nat
        BY <2>1, DebtNumbers
      <3>2. Unminted(t, l) = 0 /\ Unmarked(t, l) = 0
        BY <2>1, RestingOwesNothing
      <3> QED BY <2>1, <2>2, <3>1, <3>2 DEF NotesAreDebt
    <2> QED BY <2>1, <2>2
  <1> QED BY <1>1, TabInvHolds, PageInvHolds, NoIdIsGivenTwice, PTL DEF NotesTellTheDebt

\* With one tab that lost track of nothing, a line that owes something is the one
\* localStorage names, or the one a page just opened read from it: the borrower
\* can repay it.
THEOREM DebtStaysReachable ==
    ASSUME NEW t, Tabs = {t}
    PROVE  PageSpec => []DebtIsReachable
  <1>1. PageInv /\ TabInv(t) => DebtIsReachable
    <2> SUFFICES ASSUME PageInv, TabInv(t), NEW l \in Lines, Outstanding(l) > 0, ~mishap
                 PROVE  \/ saved.pool = line[l].pool /\ saved.line = l
                        \/ tab[t].at = "restoring" /\ tab[t].held.line = l
      BY DEF DebtIsReachable
    <2>1. /\ line[l].drawn \in Nat /\ line[l].repaid \in Nat /\ line[l].defaulted \in Nat
          /\ ~Initialized(line[l]) =>
                line[l].drawn = 0 /\ line[l].repaid = 0 /\ line[l].defaulted = 0
      BY DebtNumbers
    <2>2. Initialized(line[l]) /\ line[l].drawn # 0
      BY <2>1 DEF Outstanding
    <2>3. line[l].pool = Kept(t).pool /\ Kept(t).line = l
      BY <2>2 DEF TabInv, DebtInv, OneLine
    <2> QED BY <2>3 DEF Kept
  <1> QED BY <1>1, TabInvHolds, PageInvHolds, PTL

==============================================================================
