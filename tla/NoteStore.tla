----------------------------- MODULE NoteStore -----------------------------
(***************************************************************************)
(* The confidential notes of the wallets of one browser.  Each wallet has  *)
(* one entry in localStorage; losing it loses the notes.  Four pages of    *)
(* one tab read and write it, each from what it last read: the home page,  *)
(* the trade page, the exchange and the vault.  A handler that waits (a    *)
(* purchase, a sale, an import) goes on when its page is left or the       *)
(* wallet is changed, with the wallet and the notes it had.                *)
(*                                                                         *)
(* A note is a model value: its value, blinding and commitment do not      *)
(* change.  A list of notes is a function from notes to statuses: the code *)
(* keeps ids unique, and what order matters to (which of the drawn notes a *)
(* repayment marks or a sale locks) is any choice here.                    *)
(***************************************************************************)
EXTENDS Integers, Sequences, FiniteSets, Functions

CONSTANTS
    NoteIds,     \* the notes there may ever be
    Owners,      \* the wallets
    MaxOrders,   \* live orders; bounds the model only
    MaxVisits    \* pages opened and wallets connected; bounds the model only

NoWallet == "no wallet"
ASSUME StoreAssumption == NoWallet \notin Owners /\ MaxOrders \in Nat /\ MaxVisits \in Nat

VARIABLES
    entry,     \* localStorage: the entry of each wallet
    page,      \* the page shown, its wallet, and the notes in its React state
    job,       \* the handler that waits, with what it captured
    backup,    \* the backup file that was last written
    order,     \* the orders that lock notes, as the store keeps them
    \* History, of which the code knows nothing:
    owned,     \* the notes each wallet was ever given
    owed,      \* the notes that each entry should hold
    loose,     \* notes whose lock the pages lost track of, or that a page copied
    overtaken  \* did a handler outlive its page, or a reload tear a restore

storeVars == <<entry, page, job, backup, order, owned, owed, loose, overtaken>>
history == <<owned, owed, loose, overtaken>>

NoteState == {"drawn", "listed", "repaid"}
NoteLists == UNION {[S -> NoteState] : S \in SUBSET NoteIds}
NoNotes == [n \in {} |-> "drawn"]

-----------------------------------------------------------------------------
(* The entry of a wallet.                                                   *)

Absent == [kind |-> "absent", notes |-> NoNotes]
Corrupt == [kind |-> "corrupt", notes |-> NoNotes]
Kept(notes) == [kind |-> "kept", notes |-> notes]

\* loadUserState gives null for an entry that is absent or whose HMAC or shape
\* does not fit.
Readable(w) == entry[w].kind = "kept"

GetNotes(w) == IF w \in Owners /\ Readable(w) THEN entry[w].notes ELSE NoNotes

\* saveUserState merges into what it can read, and so replaces the rest.
SaveNotes(w, notes) == entry' = [entry EXCEPT ![w] = Kept(notes)]

\* Saving addresses only: the notes stay, or become none.
SaveAddresses(w) == SaveNotes(w, GetNotes(w))

Marked(notes, ids, status) ==
    [n \in DOMAIN notes |-> IF n \in ids THEN status ELSE notes[n]]

\* Slip: what is merged comes back with the status of a new note.
MergedAnew(notes, more) == [n \in DOMAIN notes \cup DOMAIN more |-> "drawn"]

Merged(notes, more) ==
    [n \in DOMAIN notes \cup DOMAIN more |->
        IF n \in DOMAIN more THEN more[n] ELSE notes[n]]

WithStatus(notes, status) == {n \in DOMAIN notes : notes[n] = status}

-----------------------------------------------------------------------------
(* Pages.  `restore` is the list that the effects of the trade page have read  *)
(* and that its next render will show.                                         *)

Pages == {"home", "trade", "exchange", "vault"}
NoJob == [kind |-> "none"]
NoRestore == Absent

StoreInit ==
    /\ entry = [w \in Owners |-> Absent]
    /\ page = [name |-> "home", wallet |-> NoWallet, notes |-> NoNotes,
               restore |-> NoRestore, visits |-> 0]
    /\ job = NoJob
    /\ backup = [made |-> FALSE, notes |-> NoNotes]
    /\ order = << >>
    /\ owned = [w \in Owners |-> {}]
    /\ owed = [w \in Owners |-> {}]
    /\ loose = {}
    /\ overtaken = FALSE

\* What a page shows when it is mounted or its wallet changes, with `held` in its
\* state.  The vault and the exchange read the entry while they render.  The trade
\* page shows what it held; its effects read the entry, write what it holds into
\* it, and show what was read only in the next render.
Shown(name, w, held) ==
    CASE name \in {"vault", "exchange"} -> GetNotes(w)
      [] name = "trade" -> held
      [] OTHER -> NoNotes

Restoring(name, w) ==
    IF name = "trade" /\ w \in Owners /\ Readable(w) THEN entry[w] ELSE NoRestore

MountEffects(name, w, held) ==
    CASE name = "home" /\ w # NoWallet -> SaveAddresses(w)
      [] name = "trade" /\ w # NoWallet -> SaveNotes(w, held)
      [] OTHER -> UNCHANGED entry

\* What the trade page held of another wallet, and saves for this one.
Copied(name, w, held) ==
    IF name = "trade" /\ w \in Owners THEN DOMAIN held \ owned[w] ELSE {}

Show(name, w, held) ==
    /\ page.visits < MaxVisits
    /\ page' = [name |-> name, wallet |-> w, notes |-> Shown(name, w, held),
                restore |-> Restoring(name, w), visits |-> page.visits + 1]
    /\ MountEffects(name, w, held)
    /\ loose' = loose \cup Copied(name, w, held)
    /\ overtaken' = (overtaken \/ page.restore # NoRestore \/ job # NoJob)
    /\ UNCHANGED <<job, backup, order, owned, owed>>

\* Going to a page, or reloading it with no handler at work.
Visit(name) == Show(name, page.wallet, NoNotes)

\* The wallet adapter connects, disconnects or switches to another wallet.
Connect(w) == w # page.wallet /\ Show(page.name, w, page.notes)

\* A reload ends the handlers of the page.
Reload ==
    /\ job # NoJob
    /\ page.visits < MaxVisits
    /\ job' = NoJob
    /\ page' = [page EXCEPT !.notes = Shown(page.name, page.wallet, NoNotes),
                            !.restore = Restoring(page.name, page.wallet),
                            !.visits = @ + 1]
    /\ MountEffects(page.name, page.wallet, NoNotes)
    /\ overtaken' = (overtaken \/ page.restore # NoRestore)
    /\ UNCHANGED <<backup, order, owned, owed, loose>>

\* The render after the effects: the notes restored are shown, and saved again.
Rerender ==
    /\ page.restore # NoRestore
    /\ page' = [page EXCEPT !.notes = page.restore.notes, !.restore = NoRestore]
    /\ SaveNotes(page.wallet, page.restore.notes)
    /\ UNCHANGED <<job, backup, order, history>>

On(name) == page.name = name /\ page.wallet # NoWallet /\ page.restore = NoRestore

-----------------------------------------------------------------------------
(* The trade page.  Its persist effect saves the notes it shows.            *)

Unborn == NoteIds \ UNION Range(owned)

Give(w, n) ==
    /\ owned' = [owned EXCEPT ![w] = @ \cup {n}]
    /\ owed' = [owed EXCEPT ![w] = @ \cup {n}]

\* handleDraw, once the draw is confirmed.
Mint(n) ==
    /\ On("trade") /\ n \in Unborn
    /\ LET notes == Merged(page.notes, [x \in {n} |-> "drawn"]) IN
       /\ page' = [page EXCEPT !.notes = notes]
       /\ SaveNotes(page.wallet, notes)
    /\ Give(page.wallet, n)
    /\ UNCHANGED <<job, backup, order, loose, overtaken>>

\* handleRepay, once the repayment is confirmed: drawn notes are marked, bought
\* ones like those of the line.
Repay(ids) ==
    /\ On("trade") /\ ids # {} /\ ids \subseteq WithStatus(page.notes, "drawn")
    /\ LET notes == Marked(page.notes, ids, "repaid") IN
       /\ page' = [page EXCEPT !.notes = notes]
       /\ SaveNotes(page.wallet, notes)
    /\ UNCHANGED <<job, backup, order, history>>

-----------------------------------------------------------------------------
(* The exchange.  The page keeps the notes of its wallet that it may lock.  *)

Begin(kind, file, ids) ==
    /\ job = NoJob
    /\ job' = [kind |-> kind, wallet |-> page.wallet, notes |-> page.notes,
               file |-> file, ids |-> ids]

\* The page re-reads the notes of its wallet once a handler of it changed them.
Reread(w, notes) ==
    page' = IF page.name = "exchange" /\ page.wallet = w
            THEN [page EXCEPT !.notes = notes] ELSE page

StillThere(name) == page.name = name /\ page.wallet = job.wallet

\* handleBuy until the order is filled, and the delivery of its notes after that.
Buy == /\ On("exchange")
       /\ Begin("buy", NoNotes, {})
       /\ UNCHANGED <<entry, page, backup, order, history>>

\* Slip: delivery replaces the list with the notes it delivers.
DeliverOnly(n) ==
    /\ job.kind = "buy" /\ n \in Unborn
    /\ LET notes == [x \in {n} |-> "drawn"] IN
       SaveNotes(job.wallet, notes) /\ Reread(job.wallet, notes)
    /\ Give(job.wallet, n)
    /\ job' = NoJob
    /\ overtaken' = (overtaken \/ ~StillThere("exchange"))
    /\ UNCHANGED <<backup, order, loose>>

Deliver(n) ==
    /\ job.kind = "buy" /\ n \in Unborn
    /\ LET notes == Merged(GetNotes(job.wallet), [x \in {n} |-> "drawn"]) IN
       SaveNotes(job.wallet, notes) /\ Reread(job.wallet, notes)
    /\ Give(job.wallet, n)
    /\ job' = NoJob
    /\ overtaken' = (overtaken \/ ~StillThere("exchange"))
    /\ UNCHANGED <<backup, order, loose>>

\* handleSell with escrow: some of the drawn notes the page shows are named in the
\* order, and are marked in the entry as it is once the store has answered.
Sell(ids) ==
    /\ On("exchange")
    /\ ids # {} /\ ids \subseteq WithStatus(page.notes, "drawn")
    /\ Begin("sell", NoNotes, ids)
    /\ UNCHANGED <<entry, page, backup, order, history>>

Place ==
    /\ job.kind = "sell" /\ Len(order) < MaxOrders
    /\ order' = Append(order, job.ids)

\* Slip: the notes of an accepted order stay drawn.
PlaceUnmarked ==
    /\ Place
    /\ job' = NoJob
    /\ UNCHANGED <<entry, page, backup, history>>

SellAccepted ==
    /\ Place
    /\ LET notes == Marked(GetNotes(job.wallet), job.ids, "listed") IN
       SaveNotes(job.wallet, notes) /\ Reread(job.wallet, notes)
    /\ job' = NoJob
    /\ loose' = IF StillThere("exchange") THEN loose ELSE loose \cup job.ids
    /\ overtaken' = (overtaken \/ ~StillThere("exchange"))
    /\ UNCHANGED <<backup, owned, owed>>

\* The store has the order and the answer is lost: nothing is marked.
SellUnanswered ==
    /\ Place
    /\ job' = NoJob
    /\ loose' = loose \cup job.ids
    /\ UNCHANGED <<entry, page, backup, owned, owed, overtaken>>

\* A handler gives up: refused, no answer, or a wrong password.
GiveUp ==
    /\ job # NoJob
    /\ job' = NoJob
    /\ UNCHANGED <<entry, page, backup, order, history>>

\* The order is bought or cancelled.  No page tells the entry of the seller.
OrderEnds(i) ==
    /\ i \in DOMAIN order
    /\ order' = SubSeq(order, 1, i - 1) \o SubSeq(order, i + 1, Len(order))
    /\ UNCHANGED <<entry, page, job, backup, history>>

-----------------------------------------------------------------------------
(* The vault.                                                               *)

Refresh ==
    /\ On("vault")
    /\ page' = [page EXCEPT !.notes = GetNotes(page.wallet)]
    /\ UNCHANGED <<entry, job, backup, order, history>>

\* releaseFromListing does not ask for the order that locks the note.
Release(n) ==
    /\ On("vault") /\ n \in WithStatus(page.notes, "listed")
    /\ LET notes == Marked(page.notes, {n}, "drawn") IN
       /\ page' = [page EXCEPT !.notes = notes]
       /\ SaveNotes(page.wallet, notes)
    /\ loose' = loose \cup {n}
    /\ UNCHANGED <<job, backup, order, owned, owed, overtaken>>

Export ==
    /\ On("vault")
    /\ backup' = [made |-> TRUE, notes |-> page.notes]
    /\ UNCHANGED <<entry, page, job, order, history>>

\* handleImport decrypts for a second.  The file is not bound to a wallet.
Import ==
    /\ On("vault") /\ backup.made
    /\ Begin("import", backup.notes, {})
    /\ UNCHANGED <<entry, page, backup, order, history>>

\* The notes of the file go over the notes the page showed at the click.
Imported ==
    /\ job.kind = "import"
    /\ LET notes == Merged(job.notes, job.file) IN
       /\ SaveNotes(job.wallet, notes)
       /\ page' = IF page.name = "vault" THEN [page EXCEPT !.notes = notes] ELSE page
    /\ owed' = [owed EXCEPT ![job.wallet] = @ \cup DOMAIN job.file]
    /\ loose' = loose \cup DOMAIN job.file
                  \cup (IF StillThere("vault") THEN {} ELSE DOMAIN job.notes)
    /\ job' = NoJob
    /\ overtaken' = (overtaken \/ ~StillThere("vault") \/ job.notes # page.notes)
    /\ UNCHANGED <<backup, order, owned>>

\* The user clears the data of the browser, or an entry is damaged.
Damage(w, e) ==
    /\ Readable(w)
    /\ entry' = [entry EXCEPT ![w] = e]
    /\ owed' = [owed EXCEPT ![w] = {}]
    /\ UNCHANGED <<page, job, backup, order, owned, loose, overtaken>>

StoreNext ==
    \/ \E name \in Pages : Visit(name)
    \/ \E w \in Owners \cup {NoWallet} : Connect(w)
    \/ Reload \/ Rerender
    \/ \E n \in NoteIds : Mint(n) \/ Deliver(n) \/ Release(n)
    \/ \E ids \in SUBSET NoteIds : Repay(ids) \/ Sell(ids)
    \/ Buy \/ SellAccepted \/ SellUnanswered \/ GiveUp
    \/ \E i \in 1..MaxOrders : OrderEnds(i)
    \/ Refresh \/ Export \/ Import \/ Imported
    \/ \E w \in Owners, e \in {Absent, Corrupt} : Damage(w, e)

StoreSpec == StoreInit /\ [][StoreNext]_storeVars

-----------------------------------------------------------------------------
(* What the store promises.                                                 *)

StoreTypeOK ==
    /\ entry \in [Owners -> {Absent, Corrupt} \cup {Kept(l) : l \in NoteLists}]
    /\ page.name \in Pages /\ page.wallet \in Owners \cup {NoWallet}
    /\ page.notes \in NoteLists
    /\ job # NoJob => job.wallet \in Owners /\ job.notes \in NoteLists
    /\ \A i \in DOMAIN order : order[i] \subseteq NoteIds

\* What the entry of a wallet holds, or will hold again at the next render.
Holding(w) ==
    IF page.restore # NoRestore /\ page.wallet = w
    THEN page.restore.notes ELSE GetNotes(w)

\* "Losing this record loses the note": through every page, purchase, sale, import
\* and change of wallet, the entry of a wallet keeps what was put into it.  Not
\* claimed once a handler outlived its page or a restore was torn.
NotesAreKept ==
    overtaken \/ \A w \in Owners : owed[w] \subseteq DOMAIN Holding(w)

\* A note is offered by two live orders at a time only if its owner released it or
\* restored it from a backup, the page missed the answer to the first order, or a
\* change of wallet left it in the entries of two.
OfferedOnce ==
    \A i, j \in DOMAIN order :
        i # j => order[i] \cap order[j] \subseteq loose

\* "A confidential note owned by this wallet": an entry holds what its wallet was
\* given, and what a backup brought.  The trade page breaks this when the wallet
\* changes to one that has no entry: it saves for it the notes it shows.
NotesStayWithTheirWallet ==
    \A w \in Owners : DOMAIN GetNotes(w) \subseteq owned[w] \cup owed[w]

\* A note that was repaid is never offered or drawn again, except from a backup
\* that is older than the repayment.
RepaidStaysRepaid ==
    [][\A w \in Owners : \A n \in WithStatus(Holding(w), "repaid") \ loose' :
          n \in DOMAIN Holding(w)' =>
              Holding(w)'[n] = "repaid" \/ overtaken']_storeVars

=============================================================================
