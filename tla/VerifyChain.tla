---------------------------- MODULE VerifyChain -----------------------------
(***************************************************************************)
(* One run of verify_chain() over an entries table that may have been      *)
(* edited with other means after this code wrote it: the loop, row by row, *)
(* and what its verdict says about the table that was written.             *)
(***************************************************************************)
EXTENDS Chain

CONSTANTS
    Written,    \* the table as log() left it
    Tables,     \* the tables that may be found in its place, by entry_id
    Verifiers   \* what is passed as verifier: a set of keys, or NoVerifier

FieldsOf(row) == Fields(row.entry_id, row.body, row.event_type, row.format_version)

\* What the entry_hash of row n of an intact table commits to.
History(rows, n) == [k \in 1..n |-> FieldsOf(rows[k])]

\* log() wrote the table.
ASSUME WrittenAssumption == Written \in Seq(Row) /\ ValidChain(Written, Key)

\* Ed25519: a signature by one of the keys was made by log().
ASSUME TablesAssumption ==
    \A rows \in Tables :
        /\ rows \in Seq(Row)
        /\ \A i \in 1..Len(rows) : rows[i].signature # NoSignature =>
               \E n \in 1..Len(Written) : Written[n].signature = rows[i].signature

ASSUME VerifiersAssumption == NoVerifier # Key

VARIABLES
    rows, verifier,      \* the table fetched, and the argument
    at,                  \* how many rows have passed
    expected_previous,   \* the entry_hash of the last of them
    verdict              \* "walking", then "valid" (returned at) or "tampered" (raised)

vars == <<rows, verifier, at, expected_previous, verdict>>

Init ==
    /\ rows \in Tables /\ verifier \in Verifiers
    /\ at = 0 /\ expected_previous = GenesisPreviousHash
    /\ verdict = "walking"

\* Mutants: no link check; a signature is checked for its key only.
PassesUnlinked(row) == HashHolds(row) /\ SignatureHolds(row, verifier)

PassesForKey(row) ==
    /\ LinkHolds(row, expected_previous) /\ HashHolds(row)
    /\ verifier # NoVerifier /\ row.signature # NoSignature => row.signature[1] \in verifier

Passes(row) ==
    /\ LinkHolds(row, expected_previous)
    /\ HashHolds(row)
    /\ SignatureHolds(row, verifier)

WalkRow ==
    /\ verdict = "walking" /\ at < Len(rows) /\ Passes(rows[at + 1])
    /\ at' = at + 1
    /\ expected_previous' = rows[at + 1].entry_hash
    /\ UNCHANGED <<rows, verifier, verdict>>

Raise ==
    /\ verdict = "walking" /\ at < Len(rows) /\ ~ Passes(rows[at + 1])
    /\ verdict' = "tampered"
    /\ UNCHANGED <<rows, verifier, at, expected_previous>>

\* Mutant: the walk stops one row early.
ReturnEarly ==
    /\ verdict = "walking" /\ at + 1 >= Len(rows)
    /\ verdict' = "valid"
    /\ UNCHANGED <<rows, verifier, at, expected_previous>>

Return ==
    /\ verdict = "walking" /\ at = Len(rows)
    /\ verdict' = "valid"
    /\ UNCHANGED <<rows, verifier, at, expected_previous>>

Next == WalkRow \/ Raise \/ Return

Spec == Init /\ [][Next]_vars

-----------------------------------------------------------------------------
\* The inductive invariant: the rows that have passed hold one by one, and
\* expected_previous commits to all of them.
WalkInvariant ==
    /\ rows \in Tables /\ verifier \in Verifiers
    /\ at \in 0..Len(rows)
    /\ expected_previous = ExpectedPrevious(rows, at + 1)
    /\ \A i \in 1..at : RowHolds(rows, i, verifier) /\ rows[i].entry_hash = History(rows, i)
    /\ verdict = "valid" => at = Len(rows)
    /\ verdict = "tampered" => at < Len(rows) /\ ~ RowHolds(rows, at + 1, verifier)

\* A table that is accepted and has a row whose entry_hash is that of a
\* written row (a head that was anchored or attested, a hash noted elsewhere)
\* has the written rows up to there, field by field: no edit of a hashed
\* field, insertion, deletion or swap before that row is accepted.
HashBindsHistory ==
    verdict = "valid" =>
        \A i \in 1..Len(rows), n \in 1..Len(Written) :
            rows[i].entry_hash = Written[n].entry_hash =>
                i = n /\ History(rows, i) = History(Written, n)

\* With a Verifier, an accepted row that is signed is a row that was written,
\* after the same rows: a signature cannot be moved to a rebuilt chain.
SignedHistoryIsWritten ==
    verdict = "valid" /\ verifier # NoVerifier =>
        \A i \in 1..Len(rows) : rows[i].signature # NoSignature =>
            i <= Len(Written) /\ History(rows, i) = History(Written, i)

=============================================================================
