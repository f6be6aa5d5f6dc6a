------------------------------ MODULE MCSchema ------------------------------
(* The files earlier versions left. *)
EXTENDS Schema

CONSTANTS a, b

Legacy == [hashed |-> 1, stored |-> NoColumn]
Migrated == [hashed |-> 1, stored |-> 1]
Current == [hashed |-> 2, stored |-> 2]

NewFile == [columns |-> {}, indexes |-> {}, rows |-> << >>]

V010Columns == {"entries"} \X {"actor", "timestamp"}

V010 == [columns |-> V010Columns, indexes |-> V010Columns, rows |-> <<Legacy>>]

\* A development build: anchors without the TSA columns, no witnesses.
Phase4Anchors == {"anchors"} \X {"chain_head_hash", "confirmed_at"}

Phase4 == [columns |-> ColumnsOf("entries") \cup Phase4Anchors,
           indexes |-> V010Columns \cup Phase4Anchors, rows |-> <<Migrated, Current>>]

MCInitialFiles == {NewFile, V010, Phase4}
=============================================================================
