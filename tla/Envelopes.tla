----------------------------- MODULE Envelopes -----------------------------
(***************************************************************************)
(* Sealed data and the checks that open it: the shielded envelope of a     *)
(* sale (stealth-settlement.ts), the settlement of a draw or a repayment   *)
(* (shielded-settlement.ts), the deal room (privacy-adapter), a note that  *)
(* is revealed or transferred (note-vault.ts) and the range proof of its   *)
(* value (zk-proof.ts).                                                    *)
(*                                                                         *)
(* Cryptography is symbolic: a hash is an injection, a random value is a   *)
(* fresh number, a ciphertext tells its key, nonce, authenticated data and *)
(* text, and opens only with these.  What is modelled is which fields each *)
(* scheme binds to which: a reader is handed fields that were kept, sent   *)
(* or joined wrongly, so that some are of another envelope of the scheme.  *)
(*                                                                         *)
(* A reader claims a recipient or a line.  The key of a shielded envelope  *)
(* is made of public values, so that anybody may claim to be its           *)
(* recipient; the keys of the others also of a secret that their module    *)
(* holds for every caller.  What is checked is that fields belong          *)
(* together, never that only the recipient can read them.                  *)
(***************************************************************************)
EXTENDS Integers, Sequences

CONSTANTS
    Deals,       \* what is sealed: records [line, to, kind, notes]
    MaxLetters   \* bounds the model only

ASSUME EnvelopesAssumption ==
    /\ \A d \in Deals : d.kind \in {"draw", "repay"} /\ d.notes \in Nat
    /\ MaxLetters \in Nat

VARIABLES
    hour,      \* the clock the envelopes are stamped with
    letters,   \* what was sealed: [scheme, deal, fields]
    handed     \* for each field of the scheme, the letter it was taken from

envelopeVars == <<hour, letters, handed>>

\* sha256Hex and its shortened forms, sha512 for the proofs.
Hash(x) == [hash |-> x]

\* AES-256-GCM: ciphertext and tag are two halves of this.
Sealed(key, nonce, aad, text) == [key |-> key, nonce |-> nonce, aad |-> aad, text |-> text]
Unseals(f, key, aad) ==
    /\ f.ciphertext = f.tag
    /\ f.ciphertext = Sealed(key, f.nonce, aad, f.ciphertext.text)

-----------------------------------------------------------------------------
(* createShieldedEnvelope and its readers. *)

\* Slip: the commitment is left out of the authenticated data.
StealthAadShort(id, commitment, at) == <<id, id, at>>
StealthAad(id, commitment, at) == <<id, commitment, at>>

\* deriveSharedSecretKey, the only derivation the code calls: a hash of the ephemeral
\* public key, which the envelope carries, and of the recipient's address.  The
\* recipient's identity key (recipientIdentityPubHex) is not read.
StealthKey(ephemeral, to) == <<ephemeral, to>>

StealthReceiptHash(id, commitment, ciphertext, nonce, tag) ==
    Hash(<<id, commitment, ciphertext, nonce, tag>>)

ShieldedEnvelope(deal, at, fresh) ==
    LET text       == [deal |-> deal, at |-> at]
        commitment == Hash(text)
        id         == Hash(<<commitment, at>>)
        sealed     == Sealed(StealthKey(fresh, deal.to), fresh,
                             StealthAad(id, commitment, at), text)
        hash       == StealthReceiptHash(id, commitment, sealed, fresh, sealed)
    IN  [id |-> id, commitment |-> commitment, createdAt |-> at,
         nonce |-> fresh, ephemeral |-> fresh, ciphertext |-> sealed, tag |-> sealed,
         receipt |-> [id |-> id, hash |-> hash]]

\* By whoever claims to be, or just names, the recipient.
DecryptShielded(f, claim) ==
    Unseals(f, StealthKey(f.ephemeral, claim.to), StealthAad(f.id, f.commitment, f.createdAt))

VerifyShieldedReceipt(f) ==
    f.receipt = [id |-> f.id,
                 hash |-> StealthReceiptHash(f.id, f.commitment, f.ciphertext, f.nonce, f.tag)]

\* verifyCommitment, on the text that was decrypted.
VerifyCommitment(f) == f.commitment = Hash(f.ciphertext.text)

-----------------------------------------------------------------------------
(* createSettlementEnvelope, revealSettlement, executeSettlement. *)

NoteDelta(deal) == IF deal.kind = "draw" THEN deal.notes ELSE -deal.notes

SettlementReceiptHash(commitment, noteDelta) == Hash(<<commitment, noteDelta>>)

\* createWithdrawalProof: what the auditor is given besides.
WithdrawalProof(deal, id, commitment) ==
    LET grant == Hash(<<deal.to, deal.notes, commitment>>)
    IN  [grant |-> grant, proof |-> Hash(<<id, grant>>)]

SettlementEnvelope(deal, at, fresh) ==
    LET text       == [deal |-> [deal EXCEPT !.line = "not in the text"], at |-> at]
        commitment == Hash(text)
        delta      == NoteDelta(deal)
        id         == Hash(<<deal.line, deal.kind, deal.notes, at>>)
        sealed     == Sealed(deal.line, fresh, <<id, deal.kind, delta>>, text)
    IN  [id |-> id, kind |-> deal.kind, noteDelta |-> delta, commitment |-> commitment,
         nonce |-> fresh, ciphertext |-> sealed, tag |-> sealed,
         receipt |-> [id |-> id, commitment |-> commitment,
                      hash |-> SettlementReceiptHash(commitment, delta)],
         withdrawal |-> WithdrawalProof(deal, id, commitment)]

\* The key is derived from the line the reader names.
RevealSettlement(f, claim) ==
    Unseals(f, claim.line, <<f.id, f.kind, f.noteDelta>>)

VerifySettlementReceipt(f) ==
    f.receipt = [id |-> f.id, commitment |-> f.commitment,
                 hash |-> SettlementReceiptHash(f.commitment, f.noteDelta)]

-----------------------------------------------------------------------------
(* createDealRoomEnvelope and revealToAuditor.  One secret for all rooms. *)

DealRoomSecret == "deal room secret"

DealRoom(deal, at, fresh) ==
    LET record == [borrower |-> Hash(deal.line), auditor |-> deal.to, terms |-> Hash(deal)]
        sealed == Sealed(DealRoomSecret, fresh, record, deal)
    IN  [publicRecord |-> record, aad |-> record, nonce |-> fresh,
         ciphertext |-> sealed, tag |-> sealed,
         commitment |-> Hash(<<record.borrower, record.terms, sealed>>)]

\* The auditor is looked up in the public record; the authenticated data is the
\* copy kept with the nonce, not made from the record again.
RevealToAuditor(f, claim) ==
    f.publicRecord.auditor = claim.to /\ Unseals(f, DealRoomSecret, f.aad)

-----------------------------------------------------------------------------
(* Notes: computeCommitment, mintNotes, verifyNote, confidentialTransfer. *)

ComputeCommitment(value, blinding) == Hash(<<value, blinding>>)

NoteMinted(deal, at, fresh) ==
    [value |-> deal.notes, blinding |-> fresh,
     commitment |-> ComputeCommitment(deal.notes, fresh)]

VerifyNote(f) == f.commitment = ComputeCommitment(f.value, f.blinding)

\* confidentialTransfer of the note of a letter, and openTransfer: the same value
\* under a fresh blinding; the recipient is given value and blinding.
Transferred(f, fresh) ==
    [f EXCEPT !.blinding = fresh, !.commitment = ComputeCommitment(f.value, fresh)]

-----------------------------------------------------------------------------
(* proveRange: every challenge is a hash over the context, the commitment and *)
(* the commitments of the bits, and answered by who knows the value.          *)

ProofChallenge(part, context, C, bits) == <<part, context, C, bits>>

ProveNoteValue(deal, at, fresh) ==
    LET C    == <<deal.notes, fresh>>
        bits == <<"bits of", C>>
    IN  [noteId |-> deal.line, context |-> deal.line, commitment |-> C,
         bitCommitments |-> bits,
         zero |-> ProofChallenge("zero", deal.line, C, bits),
         bits |-> ProofChallenge("bits", deal.line, C, bits)]

VerifyRangeProof(f) ==
    /\ f.zero = ProofChallenge("zero", f.context, f.commitment, f.bitCommitments)
    /\ f.bits = ProofChallenge("bits", f.context, f.commitment, f.bitCommitments)

\* What the verifier's route asks of an attestation.
AttestationValid(f) == VerifyRangeProof(f) /\ f.context = f.noteId

-----------------------------------------------------------------------------

Schemes == {"shielded", "settlement", "dealRoom", "note", "proof"}

Make(scheme, deal, at, fresh) ==
    CASE scheme = "shielded"   -> ShieldedEnvelope(deal, at, fresh)
      [] scheme = "settlement" -> SettlementEnvelope(deal, at, fresh)
      [] scheme = "dealRoom"   -> DealRoom(deal, at, fresh)
      [] scheme = "note"       -> NoteMinted(deal, at, fresh)
      [] scheme = "proof"      -> ProveNoteValue(deal, at, fresh)

NotHanded == [f \in {} |-> 1]

EnvelopesInit == hour = 0 /\ letters = <<>> /\ handed = NotHanded

\* One scheme at a time: envelopes of two schemes have no field in common.
SealDeal(scheme, deal) ==
    /\ Len(letters) < MaxLetters /\ handed = NotHanded
    /\ letters # <<>> => letters[1].scheme = scheme
    /\ letters' = Append(letters,
           [scheme |-> scheme, deal |-> deal,
            fields |-> Make(scheme, deal, hour, Len(letters) + 1)])
    /\ UNCHANGED <<hour, handed>>

Retransfer(i) ==
    /\ Len(letters) < MaxLetters /\ handed = NotHanded
    /\ letters[i].scheme = "note"
    /\ letters' = Append(letters,
           [letters[i] EXCEPT !.fields = Transferred(@, Len(letters) + 1)])
    /\ UNCHANGED <<hour, handed>>

HandOver(from) ==
    /\ letters # <<>> /\ handed = NotHanded
    /\ handed' = from
    /\ UNCHANGED <<hour, letters>>

HourPasses == hour = 0 /\ hour' = 1 /\ handed = NotHanded /\ UNCHANGED <<letters, handed>>

EnvelopesNext ==
    \/ HourPasses
    \/ \E scheme \in Schemes, deal \in Deals : SealDeal(scheme, deal)
    \/ \E i \in 1..Len(letters) : Retransfer(i)
    \/ letters # <<>> /\
          \E from \in [DOMAIN letters[1].fields -> 1..Len(letters)] : HandOver(from)

EnvelopesSpec == EnvelopesInit /\ [][EnvelopesNext]_envelopeVars

-----------------------------------------------------------------------------

Received == [f \in DOMAIN handed |-> letters[handed[f]].fields[f]]

\* The fields that are those of one letter, once the reader's check accepts them.
Bound ==
    [ shielded     |-> {"id", "commitment", "createdAt", "nonce", "ephemeral",
                        "ciphertext", "tag"},
      settlement   |-> {"id", "kind", "noteDelta", "nonce", "ciphertext", "tag"},
      note         |-> {"value", "blinding", "commitment"},
      proof        |-> {"noteId", "context", "commitment", "bitCommitments", "zero", "bits"},
      dealRoom     |-> {"aad", "nonce", "ciphertext", "tag"} ]

Opens(scheme, f, claim) ==
    CASE scheme = "shielded"   -> DecryptShielded(f, claim)
      [] scheme = "settlement" -> RevealSettlement(f, claim)
      [] scheme = "dealRoom"   -> RevealToAuditor(f, claim)
      [] scheme = "note"       -> VerifyNote(f)
      [] scheme = "proof"      -> AttestationValid(f)

\* Whether the claim names what the key is made of: the recipient, or the line.
IsFor(scheme, deal, claim) ==
    CASE scheme = "shielded"   -> deal.to = claim.to
      [] scheme = "settlement" -> deal.line = claim.line
      [] OTHER -> TRUE

\* What opens is one letter: the fields that the check covers were made together,
\* and for the name the reader claims, however the fields that arrived were joined.
OpenedIsWhole ==
    handed # NotHanded =>
        LET scheme == letters[1].scheme IN
        \A claim \in Deals :
            Opens(scheme, Received, claim) =>
                \E i \in 1..Len(letters) :
                    /\ \A f \in Bound[scheme] : Received[f] = letters[i].fields[f]
                    /\ IsFor(scheme, letters[i].deal, claim)

\* Two settlements of one line, kind and number of notes in one millisecond.
SameId(i, j) == letters[i].fields.id = letters[j].fields.id

\* The commitment that goes on the chain is that of the text that opens.  In the
\* shielded envelope the authenticated data sees to it; in the settlement it does
\* not cover the commitment, and it takes the receipt as well, and ids that differ.
CommitmentIsOfText ==
    handed # NotHanded =>
        \A claim \in Deals :
            CASE letters[1].scheme = "shielded" ->
                   DecryptShielded(Received, claim) => VerifyCommitment(Received)
              [] letters[1].scheme = "settlement" ->
                   \/ ~RevealSettlement(Received, claim)
                   \/ ~VerifySettlementReceipt(Received)
                   \/ VerifyCommitment(Received)
                   \/ \E i, j \in 1..Len(letters) : i # j /\ SameId(i, j)
              [] OTHER -> TRUE

\* A receipt of the shielded envelope is for every field that it was made over.
ReceiptIsForItsEnvelope ==
    handed # NotHanded /\ letters[1].scheme = "shielded" =>
        (VerifyShieldedReceipt(Received) <=>
            \A f \in {"id", "commitment", "ciphertext", "nonce", "tag"} :
                Received[f] = letters[handed["receipt"]].fields[f])

\* Two notes never share a commitment, not even a note and its transfer.
NotesAreUnlinked ==
    \A i, j \in 1..Len(letters) :
        letters[i].scheme = "note" /\ i # j =>
            letters[i].fields.commitment # letters[j].fields.commitment

\* A letter whose fields all arrive opens for whoever names its recipient and its
\* line.  The recipient's address is public: of the shielded envelope the docs say
\* that only the holder of the recipient's private key opens it
\* (stealth-settlement.ts:9-14), and that is not so.
WholeLettersOpen ==
    \A i \in 1..Len(letters) :
        handed = [f \in DOMAIN letters[i].fields |-> i] =>
            Opens(letters[i].scheme, Received, letters[i].deal)

\* Whatever opens is what was sealed, whatever vouches for it was made with it, and
\* what was sealed opens: see the five parts.
SealedStaysWhole ==
    /\ OpenedIsWhole /\ WholeLettersOpen
    /\ CommitmentIsOfText /\ ReceiptIsForItsEnvelope /\ NotesAreUnlinked

=============================================================================
