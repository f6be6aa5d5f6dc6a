--------------------------- MODULE MCVerifyChain ---------------------------
(* A three-row table, each way to edit it, and the edits whose hashes were *)
(* recomputed from some row on.                                            *)
EXTENDS VerifyChain, SequencesExt

CONSTANTS b1, b2, b3, request, drift, k1, k2

NewRow(id, body, format, prev, key) ==
    LET hash == EntryHash(id, body, request, format, prev)
    IN  [entry_id |-> id, body |-> body, event_type |-> request,
         format_version |-> format, previous_hash |-> prev, entry_hash |-> hash,
         signature |-> IF key = NoSignature THEN NoSignature ELSE <<key, hash>>]

MCWritten ==
    LET r1 == NewRow(1, b1, 1, << >>, NoSignature)
        r2 == NewRow(2, b2, 2, r1.entry_hash, k1)
    IN  <<r1, r2, NewRow(3, b1, 2, r2.entry_hash, k2)>>

Hashes == {<< >>} \cup {r.entry_hash : r \in ToSet(MCWritten)}
Signatures == {NoSignature} \cup {r.signature : r \in ToSet(MCWritten)}

FieldEdits(r) ==
    {[r EXCEPT !.body = v] : v \in Body}
    \cup {[r EXCEPT !.event_type = v] : v \in EventType}
    \cup {[r EXCEPT !.format_version = v] : v \in 1..3}
    \cup {[r EXCEPT !.previous_hash = v] : v \in Hashes}
    \cup {[r EXCEPT !.entry_hash = v] : v \in Hashes}
    \cup {[r EXCEPT !.signature = v] : v \in Signatures}

\* The table is read ORDER BY entry_id.
ById(s) == SortSeq(s, LAMBDA r, q : r.entry_id < q.entry_id)

Renumbered(s) == {[s EXCEPT ![i].entry_id = 4] : i \in DOMAIN s}
                 \cup {[k \in DOMAIN s |-> [s[k] EXCEPT !.entry_id =
                            IF k = i THEN j ELSE IF k = j THEN i ELSE @]] : i, j \in DOMAIN s}

Edits(s) ==
    {s, << >>}
    \cup {ReplaceAt(s, i, r) : i \in DOMAIN s, r \in UNION {FieldEdits(q) : q \in ToSet(s)}}
    \cup {RemoveAt(s, i) : i \in DOMAIN s}
    \cup {SubSeq(s, 1, i) : i \in DOMAIN s}
    \cup {Append(s, [r EXCEPT !.entry_id = 4]) : r \in ToSet(s)}
    \cup {ById(t) : t \in Renumbered(s)}

Ascending(s) == \A i \in 2..Len(s) : s[i - 1].entry_id < s[i].entry_id

\* Links and hashes recomputed from row i on; signatures cannot be.
Rehashed(s, i) ==
    FoldLeft(LAMBDA done, r :
                IF Len(done) + 1 < i THEN Append(done, r)
                ELSE LET prev == ExpectedPrevious(Append(done, r), Len(done) + 1)
                     IN  Append(done, [r EXCEPT !.previous_hash = prev,
                             !.entry_hash = EntryHash(r.entry_id, r.body, r.event_type,
                                                      r.format_version, prev)]),
             << >>, s)

MCTables ==
    LET edited == {s \in Edits(MCWritten) : Ascending(s)}
    IN  edited \cup {Rehashed(s, i) : s \in edited, i \in 1..3}

MCVerifiers == {NoVerifier, {k1}, {k1, k2}}
=============================================================================
