------------------------------ MODULE MCLedger ------------------------------
(* Instances of Ledger for TLC: who calls what on which Ledger. *)
EXTENDS LedgerRefinement, TLC

CONSTANTS a, b, log1, log2, log3, anchor1, update1, verify1, old1, old2,
          request, drift, k1

MCOneLedger == [c \in Calls |-> a]

\* log1 and anchor1 on a, the rest on b.
MCTwoLedgers == [c \in Calls |-> IF c \in {log1, anchor1} THEN a ELSE b]

MCEventTypeOf == [c \in LogCalls |-> IF c = log1 THEN request ELSE drift]

MCSignerOf == [c \in LogCalls |-> IF c = log1 THEN k1 ELSE NoSignature]

OldRow(id, body, format, prev) ==
    LET hash == EntryHash(id, body, request, format, prev)
    IN  [entry_id |-> id, body |-> body, event_type |-> request,
         format_version |-> format, previous_hash |-> prev, entry_hash |-> hash,
         signature |-> NoSignature]

\* A new file, and a migrated v0.1.0 file that was written to since.
MCLegacyTable ==
    LET r1 == OldRow(1, old1, 1, << >>)
    IN  <<r1, OldRow(2, old2, 2, r1.entry_hash)>>

MCInitialTables == {<< >>, MCLegacyTable}
MCEmptyTable == {<< >>}
=============================================================================
