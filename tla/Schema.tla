------------------------------- MODULE Schema -------------------------------
(***************************************************************************)
(* Ledger.init() on a file of any earlier version: create the tables,      *)
(* add the columns that are missing, create the indexes.  Each statement   *)
(* of DDL commits by itself (Python's sqlite3 opens transactions for DML   *)
(* only), so the file passes through every state in between, other         *)
(* processes may open it there, and an init() may stop there.              *)
(***************************************************************************)
EXTENDS Naturals, Sequences

CONSTANTS
    Openers,         \* Ledgers, in one process or several, over one file
    InitialFiles,    \* [columns, indexes, rows] as earlier versions left them
    MaxRows,         \* bound: rows in the table
    MaxInterrupts    \* bound: crashes, refused statements, cancellations, closes

VARIABLES
    columns, indexes,   \* the file: sets of <<table, column>>
    rows,               \* its entries: [hashed, stored], formats; stored is NoColumn
                        \* while the table has no format_version column
    state,              \* state[o]: "closed", "running", "open" or "raised"
    step,               \* step[o]: the statement of init() that is next
    known,              \* known[o]: what the last PRAGMA table_info returned
    alone,              \* alone[o]: no other opener has altered a table since it began
    interrupts

file == <<columns, indexes, rows>>
vars == <<columns, indexes, rows, state, step, known, alone, interrupts>>

NoColumn == 0

\* The columns that some version lacks or some index needs.
TableColumns ==
    [entries |-> {"actor", "timestamp", "event_type", "format_version"},
     anchors |-> {"chain_head_hash", "confirmed_at", "tst_blob", "tsa_url", "tsa_gen_time"},
     witnesses |-> {"retired_at"},
     witness_attestations |-> {"witness_id", "chain_head_entry_id"}]

ColumnsOf(table) == {table} \X TableColumns[table]

AllColumns == UNION {ColumnsOf(table) : table \in DOMAIN TableColumns}

Create(table)        == [op |-> "create", table |-> table, column |-> "none"]
Info(table)          == [op |-> "info", table |-> table, column |-> "none"]
Alter(table, column) == [op |-> "alter", table |-> table, column |-> column]
Index(table, column) == [op |-> "index", table |-> table, column |-> column]

\* Mutant: the indexes of entries are created before the migration.
ProgramIndexFirst == <<
    Create("entries"), Index("entries", "event_type"), Info("entries"),
    Alter("entries", "event_type"), Alter("entries", "format_version"),
    Index("entries", "actor"), Index("entries", "timestamp"),
    Create("anchors"), Info("anchors"), Alter("anchors", "tst_blob"),
    Alter("anchors", "tsa_url"), Alter("anchors", "tsa_gen_time")>>

\* The statements of init(), in order; commit() finds nothing to commit.
Program == <<
    Create("entries"), Info("entries"),
    Alter("entries", "event_type"), Alter("entries", "format_version"),
    Index("entries", "actor"), Index("entries", "timestamp"), Index("entries", "event_type"),
    Create("anchors"), Index("anchors", "chain_head_hash"), Index("anchors", "confirmed_at"),
    Info("anchors"), Alter("anchors", "tst_blob"), Alter("anchors", "tsa_url"),
    Alter("anchors", "tsa_gen_time"),
    Create("witnesses"), Index("witnesses", "retired_at"),
    Create("witness_attestations"), Index("witness_attestations", "witness_id"),
    Index("witness_attestations", "chain_head_entry_id")>>

\* The columns that init() adds to a table of an earlier version.
AddedColumns ==
    {<<Program[k].table, Program[k].column>> : k \in {j \in DOMAIN Program : Program[j].op = "alter"}}

FormatColumn == <<"entries", "format_version">>

\* A file of any earlier version, half-migrated or not: a table lacks at most
\* columns that init() adds, and before format_version there was one format.
ASSUME InitialFilesAssumption ==
    \A f \in InitialFiles :
        /\ f.columns \subseteq AllColumns
        /\ \A table \in DOMAIN TableColumns :
              \/ f.columns \cap ColumnsOf(table) = {}
              \/ ColumnsOf(table) \ AddedColumns \subseteq f.columns
        /\ f.columns \cap ColumnsOf("entries") = {} => f.rows = << >>
        /\ f.rows \in Seq([hashed: {1, 2}, stored: {NoColumn, 1, 2}])
        /\ \A i \in 1..Len(f.rows) :
              IF FormatColumn \in f.columns THEN f.rows[i].stored = f.rows[i].hashed
              ELSE f.rows[i] = [hashed |-> 1, stored |-> NoColumn]

-----------------------------------------------------------------------------
Init ==
    /\ \E f \in InitialFiles : columns = f.columns /\ indexes = f.indexes /\ rows = f.rows
    /\ state = [o \in Openers |-> "closed"]
    /\ step = [o \in Openers |-> 1]
    /\ known = [o \in Openers |-> {}]
    /\ alone = [o \in Openers |-> TRUE]
    /\ interrupts = 0

\* init() on a new Ledger, or again after it has raised.
Begin(o) ==
    /\ state[o] \in {"closed", "raised"}
    /\ state' = [state EXCEPT ![o] = "running"]
    /\ step' = [step EXCEPT ![o] = 1]
    /\ known' = [known EXCEPT ![o] = {}]
    /\ alone' = [alone EXCEPT ![o] = TRUE]
    /\ UNCHANGED <<file, interrupts>>

Running(o, op) ==
    /\ state[o] = "running" /\ step[o] \in DOMAIN Program
    /\ Program[step[o]].op = op

Statement(o) == Program[step[o]]
Column(o) == <<Statement(o).table, Statement(o).column>>

Advance(o) == step' = [step EXCEPT ![o] = @ + 1] /\ UNCHANGED <<state, interrupts>>

\* CREATE TABLE IF NOT EXISTS leaves a table of an earlier version as it is.
CreateTable(o) ==
    /\ Running(o, "create") /\ Advance(o)
    /\ columns' = IF \E c \in columns : c[1] = Statement(o).table THEN columns
                  ELSE columns \cup ColumnsOf(Statement(o).table)
    /\ UNCHANGED <<indexes, rows, known, alone>>

TableInfo(o) ==
    /\ Running(o, "info") /\ Advance(o)
    /\ known' = [known EXCEPT ![o] = {c \in columns : c[1] = Statement(o).table}]
    /\ UNCHANGED <<file, alone>>

\* Mutants: no check against table_info; one check for both columns of entries.
MissingUnchecked(o) == TRUE

MissingBoth(o) == \/ Column(o) # <<"entries", "format_version">> /\ Column(o) \notin known[o]
                  \/ <<"entries", "event_type">> \notin known[o] /\ Statement(o).table = "entries"

Missing(o) == Column(o) \notin known[o]

SkipAlter(o) ==
    /\ Running(o, "alter") /\ ~ Missing(o) /\ Advance(o)
    /\ UNCHANGED <<file, known, alone>>

\* Mutant: rows that are there get the current format.
LegacyFormatCurrent(row) == [row EXCEPT !.stored = 2]

\* DEFAULT 1: a row that is there was hashed by v0.1.0.
LegacyFormat(row) == [row EXCEPT !.stored = 1]

AddColumn(o) ==
    /\ Running(o, "alter") /\ Missing(o) /\ Column(o) \notin columns /\ Advance(o)
    /\ columns' = columns \cup {Column(o)}
    /\ rows' = IF Column(o) = FormatColumn
               THEN [i \in DOMAIN rows |-> LegacyFormat(rows[i])] ELSE rows
    /\ alone' = [p \in Openers |-> alone[p] /\ p = o]
    /\ UNCHANGED <<indexes, known>>

CreateIndex(o) ==
    /\ Running(o, "index") /\ Column(o) \in columns /\ Advance(o)
    /\ indexes' = indexes \cup {Column(o)}
    /\ UNCHANGED <<columns, rows, known, alone>>

\* "duplicate column name", or "no such column".
Refused(o) ==
    \/ Statement(o).op = "alter" /\ Missing(o) /\ Column(o) \in columns
    \/ Statement(o).op = "index" /\ Column(o) \notin columns

SchemaError(o) ==
    /\ state[o] = "running" /\ step[o] \in DOMAIN Program /\ Refused(o)
    /\ state' = [state EXCEPT ![o] = "raised"]
    /\ UNCHANGED <<file, step, known, alone, interrupts>>

\* _initialised = True
Return(o) ==
    /\ state[o] = "running" /\ step[o] > Len(Program)
    /\ state' = [state EXCEPT ![o] = "open"]
    /\ UNCHANGED <<file, step, known, alone, interrupts>>

\* The database is locked, the task is cancelled, the process dies, or close().
Interrupt(o) ==
    /\ interrupts < MaxInterrupts /\ interrupts' = interrupts + 1
    /\ state[o] \in {"running", "open"}
    /\ state' = [state EXCEPT ![o] = "closed"]
    /\ UNCHANGED <<file, step, known, alone>>

\* log() names event_type and format_version in its INSERT.
Log(o) ==
    /\ state[o] = "open" /\ Len(rows) < MaxRows
    /\ rows' = Append(rows, [hashed |-> 2, stored |-> 2])
    /\ UNCHANGED <<columns, indexes, state, step, known, alone, interrupts>>

Open(o) == \/ Begin(o) \/ CreateTable(o) \/ TableInfo(o) \/ SkipAlter(o) \/ AddColumn(o)
           \/ CreateIndex(o) \/ SchemaError(o) \/ Return(o)

Next == \E o \in Openers : Open(o) \/ Interrupt(o) \/ Log(o)

Spec == Init /\ [][Next]_vars

\* A caller that is not opened tries again, and its statements are executed.
FairSpec == Spec /\ \A o \in Openers : WF_vars(Open(o))

-----------------------------------------------------------------------------
\* A Ledger whose init() has returned finds every table, column and index
\* it will ever name, whoever else was migrating the file or died doing so.
OpenedIsComplete ==
    \A o \in Openers : state[o] = "open" =>
        /\ AllColumns \subseteq columns
        /\ \A k \in DOMAIN Program : Program[k].op = "index" =>
               <<Program[k].table, Program[k].column>> \in indexes

\* verify_chain() reads a row that has no format_version as format 1.
FormatRead(row) == IF row.stored = NoColumn THEN 1 ELSE row.stored

\* Before, during and after the migration a row is read in the format it was
\* hashed in, the rows that others log meanwhile included.
RowsReadAsHashed == \A i \in DOMAIN rows : FormatRead(rows[i]) = rows[i].hashed

\* init() fails for the schema only when another opener altered a table
\* while it ran: a lone opener migrates any file, half-migrated or not.
LoneOpenerSucceeds == \A o \in Openers : state[o] = "raised" => ~ alone[o]

\* Whoever keeps trying gets the file open, through every crash and every
\* collision with another migration.
EveryOpenerOpens == \A o \in Openers : <>[](state[o] = "open")

=============================================================================
