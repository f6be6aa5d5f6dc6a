-------------------------------- MODULE Chain --------------------------------
(***************************************************************************)
(* The hash chain of chain.py: what an entry row holds, how its entry_hash *)
(* is computed, and what a walk over the table checks.                     *)
(*                                                                         *)
(* SHA-256 over canonical JSON is modelled as a perfect hash.  The digest  *)
(* of a row commits to the tuple of fields that are hashed and, through    *)
(* previous_hash, to every earlier row, so a digest IS the sequence of the *)
(* tuples it commits to: two digests are equal exactly when their inputs   *)
(* are.  The 64 zeros of the genesis link are the empty sequence.          *)
(***************************************************************************)
EXTENDS Integers, Sequences

CONSTANTS
    Body,         \* the timestamp, actor, action and payload of a row, as one value
    EventType,    \* event_type discriminators
    Key,          \* signing key ids
    NoSignature,  \* the NULL signature and signing_key_id columns
    NoVerifier    \* verify_chain() without a Verifier: signatures are not checked

CurrentFormatVersion == 2

\* What one row contributes to its digest: format 1 leaves event_type out.
HashedFields == (Nat \X Body) \cup (Nat \X Body \X EventType)

Digest == Seq(HashedFields)

GenesisPreviousHash == << >>

Fields(entry_id, body, event_type, format_version) ==
    IF format_version >= 2 THEN <<entry_id, body, event_type>>
                           ELSE <<entry_id, body>>

EntryHash(entry_id, body, event_type, format_version, previous_hash) ==
    Append(previous_hash, Fields(entry_id, body, event_type, format_version))

Signature == Key \X Digest

Row == [entry_id: Nat, body: Body, event_type: EventType, format_version: Nat,
        previous_hash: Digest, entry_hash: Digest,
        signature: Signature \cup {NoSignature}]

-----------------------------------------------------------------------------
\* The three checks verify_chain makes of a row, given the entry_hash of the
\* row before it.
LinkHolds(row, expected_previous) == row.previous_hash = expected_previous

HashHolds(row) ==
    row.entry_hash = EntryHash(row.entry_id, row.body, row.event_type,
                               row.format_version, row.previous_hash)

\* verifier: the set of keys a Verifier holds.  An unknown key does not verify.
SignatureHolds(row, verifier) ==
    verifier # NoVerifier /\ row.signature # NoSignature =>
        /\ row.signature[1] \in verifier
        /\ row.signature[2] = row.entry_hash

ExpectedPrevious(rows, i) ==
    IF i = 1 THEN GenesisPreviousHash ELSE rows[i - 1].entry_hash

RowHolds(rows, i, verifier) ==
    /\ LinkHolds(rows[i], ExpectedPrevious(rows, i))
    /\ HashHolds(rows[i])
    /\ SignatureHolds(rows[i], verifier)

\* A table that verify_chain accepts.
ValidChain(rows, verifier) == \A i \in 1..Len(rows) : RowHolds(rows, i, verifier)

=============================================================================
