---------------------------- MODULE SchemaProofs ----------------------------
(***************************************************************************)
(* The migration in Ledger.init(), for any number of openers, any file an  *)
(* earlier version can have left, and any number of interruptions.         *)
(***************************************************************************)
EXTENDS Schema, TLAPS

-----------------------------------------------------------------------------
(* What the proofs need to know of the order of the statements.            *)

\* The statements, one by one.
LEMMA Statements ==
    /\ DOMAIN Program = 1..19 /\ Len(Program) = 19
    /\ Program[1] = Create("entries") /\ Program[2] = Info("entries")
    /\ Program[3] = Alter("entries", "event_type")
    /\ Program[4] = Alter("entries", "format_version")
    /\ Program[5] = Index("entries", "actor") /\ Program[6] = Index("entries", "timestamp")
    /\ Program[7] = Index("entries", "event_type")
    /\ Program[8] = Create("anchors")
    /\ Program[9] = Index("anchors", "chain_head_hash")
    /\ Program[10] = Index("anchors", "confirmed_at")
    /\ Program[11] = Info("anchors")
    /\ Program[12] = Alter("anchors", "tst_blob") /\ Program[13] = Alter("anchors", "tsa_url")
    /\ Program[14] = Alter("anchors", "tsa_gen_time")
    /\ Program[15] = Create("witnesses") /\ Program[16] = Index("witnesses", "retired_at")
    /\ Program[17] = Create("witness_attestations")
    /\ Program[18] = Index("witness_attestations", "witness_id")
    /\ Program[19] = Index("witness_attestations", "chain_head_entry_id")
BY DEF Program

\* Which statement is of which kind.
LEMMA Alters ==
    ASSUME NEW k \in 1..19
    PROVE  /\ Program[k].op = "alter" <=> k \in {3, 4, 12, 13, 14}
           /\ Program[k].op = "info" <=> k \in {2, 11}
           /\ Program[k].op = "create" <=> k \in {1, 8, 15, 17}
           /\ Program[k].op = "index" <=> k \in {5, 6, 7, 9, 10, 16, 18, 19}
<1>1. k \in {1, 2, 3, 4, 5, 6, 7, 8, 9, 10, 11, 12, 13, 14, 15, 16, 17, 18, 19}
  OBVIOUS
<1>2. CASE k \in {3, 4, 12, 13, 14}
  <2>1. Program[k].op = "alter"
    BY <1>2, Statements DEF Alter
  <2> QED
    BY <1>2, <2>1
<1>3. CASE k \in {2, 11}
  <2>1. Program[2].op = "info" /\ Program[11].op = "info"
    BY Statements DEF Info
  <2> QED
    BY <1>3, <2>1
<1>4. CASE k \in {1, 8, 15, 17}
  <2>1. /\ Program[1].op = "create" /\ Program[8].op = "create"
        /\ Program[15].op = "create" /\ Program[17].op = "create"
    BY Statements DEF Create
  <2> QED
    BY <1>4, <2>1
<1>5. CASE k \in {5, 6, 7, 9, 10, 16, 18, 19}
  <2>1. Program[k].op = "index"
    BY <1>5, Statements DEF Index
  <2> QED
    BY <1>5, <2>1
<1> QED
  BY <1>1, <1>2, <1>3, <1>4, <1>5

LEMMA Added ==
    AddedColumns = {<<"entries", "event_type">>, <<"entries", "format_version">>,
                    <<"anchors", "tst_blob">>, <<"anchors", "tsa_url">>,
                    <<"anchors", "tsa_gen_time">>}
<1>1. {j \in DOMAIN Program : Program[j].op = "alter"} = {3, 4, 12, 13, 14}
  BY Statements, Alters
<1>2. AddedColumns = {<<Program[k].table, Program[k].column>> : k \in {3, 4, 12, 13, 14}}
  BY <1>1 DEF AddedColumns
<1> QED
  BY <1>2, Statements DEF Alter

LEMMA Columns ==
    /\ DOMAIN TableColumns = {"entries", "anchors", "witnesses", "witness_attestations"}
    /\ ColumnsOf("entries") = {<<"entries", "actor">>, <<"entries", "timestamp">>,
                               <<"entries", "event_type">>, <<"entries", "format_version">>}
    /\ ColumnsOf("anchors") = {<<"anchors", "chain_head_hash">>, <<"anchors", "confirmed_at">>,
                               <<"anchors", "tst_blob">>, <<"anchors", "tsa_url">>,
                               <<"anchors", "tsa_gen_time">>}
    /\ ColumnsOf("witnesses") = {<<"witnesses", "retired_at">>}
    /\ ColumnsOf("witness_attestations") = {<<"witness_attestations", "witness_id">>,
                                            <<"witness_attestations", "chain_head_entry_id">>}
BY DEF TableColumns, ColumnsOf

\* Every table has a column that no statement adds.
LEMMA BaseColumn ==
    ASSUME NEW table \in DOMAIN TableColumns
    PROVE  \E c \in ColumnsOf(table) : c \notin AddedColumns
<1>1. /\ <<"entries", "actor">> \notin AddedColumns
      /\ <<"anchors", "confirmed_at">> \notin AddedColumns
      /\ <<"witnesses", "retired_at">> \notin AddedColumns
      /\ <<"witness_attestations", "witness_id">> \notin AddedColumns
  BY Added
<1>2. CASE table = "entries"
  BY <1>1, <1>2, Columns
<1>3. CASE table = "anchors"
  BY <1>1, <1>3, Columns
<1>4. CASE table = "witnesses"
  BY <1>1, <1>4, Columns
<1>5. CASE table = "witness_attestations"
  BY <1>1, <1>5, Columns
<1> QED
  BY <1>2, <1>3, <1>4, <1>5, Columns

\* The table a statement names, and its column, when it has one.
Col(k) == <<Program[k].table, Program[k].column>>

\* Each statement's table has been created before, and each index's column is of
\* the table as it was first created, or has been added before.
LEMMA Prerequisites ==
    ASSUME NEW k \in 1..19
    PROVE  /\ Program[k].table \in DOMAIN TableColumns
           /\ Program[k].op # "create" => \E j \in 1..k - 1 : Program[j] = Create(Program[k].table)
           /\ Program[k].op = "alter" => Col(k) \in ColumnsOf(Program[k].table)
           /\ Program[k].op = "index" =>
                 \/ Col(k) \in ColumnsOf(Program[k].table) \ AddedColumns
                 \/ \E j \in 1..k - 1 : Program[j].op = "alter" /\ Col(j) = Col(k)
<1>1. CASE k \in 1..7
  <2>1. Program[k].table = "entries"
    <3>1. k \in {1, 2, 3, 4, 5, 6, 7}
      BY <1>1
    <3> QED
      BY <3>1, Statements DEF Create, Info, Alter, Index
  <2>2. Program[k].op # "create" => 1 \in 1..k - 1 /\ Program[1] = Create("entries")
    BY <1>1, Alters, Statements
  <2>3. CASE k \in {3, 4}
    BY <2>1, <2>2, <2>3, Statements, Alters, Columns DEF Alter, Col
  <2>4. CASE k \in {5, 6}
    BY <2>1, <2>2, <2>4, Statements, Alters, Columns, Added DEF Index, Col
  <2>5. CASE k = 7
    <3>1. Program[3].op = "alter" /\ Col(3) = Col(7) /\ 3 \in 1..7 - 1
      BY Statements DEF Alter, Index, Col
    <3> QED
      BY <2>1, <2>2, <2>5, <3>1, Alters, Columns
  <2>6. CASE k \in {1, 2}
    BY <2>1, <2>2, <2>6, Alters, Columns
  <2> QED
    BY <1>1, <2>3, <2>4, <2>5, <2>6
<1>2. CASE k \in 8..14
  <2>1. Program[k].table = "anchors"
    <3>1. k \in {8, 9, 10, 11, 12, 13, 14}
      BY <1>2
    <3> QED
      BY <3>1, Statements DEF Create, Info, Alter, Index
  <2>2. Program[k].op # "create" => 8 \in 1..k - 1 /\ Program[8] = Create("anchors")
    BY <1>2, Alters, Statements
  <2>3. CASE k \in {12, 13, 14}
    BY <2>1, <2>2, <2>3, Statements, Alters, Columns DEF Alter, Col
  <2>4. CASE k \in {9, 10}
    BY <2>1, <2>2, <2>4, Statements, Alters, Columns, Added DEF Index, Col
  <2>5. CASE k \in {8, 11}
    BY <2>1, <2>2, <2>5, Alters, Columns
  <2> QED
    BY <1>2, <2>3, <2>4, <2>5
<1>3. CASE k \in {15, 16}
  <2>1. Program[k].table = "witnesses"
    BY <1>3, Statements DEF Create, Index
  <2>2. Program[k].op # "create" => 15 \in 1..k - 1 /\ Program[15] = Create("witnesses")
    BY <1>3, Alters, Statements
  <2>3. CASE k = 16
    BY <2>1, <2>2, <2>3, Statements, Alters, Columns, Added DEF Index, Col
  <2> QED
    BY <1>3, <2>1, <2>2, <2>3, Alters, Columns
<1>4. CASE k \in {17, 18, 19}
  <2>1. Program[k].table = "witness_attestations"
    BY <1>4, Statements DEF Create, Index
  <2>2. Program[k].op # "create"
        => 17 \in 1..k - 1 /\ Program[17] = Create("witness_attestations")
    BY <1>4, Alters, Statements
  <2>3. CASE k \in {18, 19}
    BY <2>1, <2>2, <2>3, Statements, Alters, Columns, Added DEF Index, Col
  <2> QED
    BY <1>4, <2>1, <2>2, <2>3, Alters, Columns
<1> QED
  BY <1>1, <1>2, <1>3, <1>4

\* A column is added by one statement; the columns of a table are read before
\* the first is added, and once.
LEMMA InfoOrder ==
    /\ \A j, k \in 1..19 : Program[j].op = "alter" /\ Program[k].op = "alter"
                           /\ Col(j) = Col(k) => j = k
    /\ \A i, j, k \in 1..19 : Program[i].op = "info" /\ Program[j].op = "info" /\ i < j
                              /\ Program[k].op = "alter"
                              /\ Program[k].table = Program[i].table => k < j
<1>1. ASSUME NEW j \in {3, 4, 12, 13, 14}, NEW k \in {3, 4, 12, 13, 14}, Col(j) = Col(k)
      PROVE  j = k
  <2>1. /\ Col(3) = <<"entries", "event_type">> /\ Col(4) = <<"entries", "format_version">>
        /\ Col(12) = <<"anchors", "tst_blob">> /\ Col(13) = <<"anchors", "tsa_url">>
        /\ Col(14) = <<"anchors", "tsa_gen_time">>
    BY Statements DEF Alter, Col
  <2> QED
    BY <1>1, <2>1
<1>2. ASSUME NEW i \in {2, 11}, NEW j \in {2, 11}, i < j, NEW k \in {3, 4, 12, 13, 14},
             Program[k].table = Program[i].table
      PROVE  k < j
  <2>1. i = 2 /\ j = 11
    BY <1>2
  <2>2. /\ Program[2].table = "entries" /\ Program[12].table = "anchors"
        /\ Program[13].table = "anchors" /\ Program[14].table = "anchors"
    BY Statements DEF Info, Alter
  <2> QED
    BY <1>2, <2>1, <2>2
<1>3. \A j \in 1..19 : /\ Program[j].op = "alter" => j \in {3, 4, 12, 13, 14}
                       /\ Program[j].op = "info" => j \in {2, 11}
  BY Alters
<1>4. ASSUME NEW j \in 1..19, NEW k \in 1..19, Program[j].op = "alter",
             Program[k].op = "alter", Col(j) = Col(k)
      PROVE  j = k
  BY <1>1, <1>3, <1>4
<1>5. ASSUME NEW i \in 1..19, NEW j \in 1..19, NEW k \in 1..19, Program[i].op = "info",
             Program[j].op = "info", i < j, Program[k].op = "alter",
             Program[k].table = Program[i].table
      PROVE  k < j
  <2>1. i \in {2, 11} /\ j \in {2, 11} /\ k \in {3, 4, 12, 13, 14}
    BY <1>3, <1>5
  <2> QED
    BY <1>2, <1>5, <2>1
<1> QED
  BY <1>4, <1>5

\* Every column is added by a statement or created with its table.
LEMMA Complete ==
    ASSUME NEW c \in AllColumns
    PROVE  /\ c \in ColumnsOf(c[1]) /\ c[1] \in DOMAIN TableColumns
           /\ \E k \in 1..19 : Program[k] = Create(c[1])
           /\ c \in AddedColumns => \E k \in 1..19 : Program[k].op = "alter" /\ Col(k) = c
<1>1. PICK table \in DOMAIN TableColumns : c \in ColumnsOf(table)
  BY DEF AllColumns
<1>2. c[1] = table
  BY <1>1, Columns
<1>3. \E k \in 1..19 : Program[k] = Create(table)
  BY <1>1, Columns, Statements
<1>4. ASSUME c \in AddedColumns PROVE \E k \in 1..19 : Program[k].op = "alter" /\ Col(k) = c
  <2>1. PICK k \in DOMAIN Program : Program[k].op = "alter" /\ c = Col(k)
    BY <1>4 DEF AddedColumns, Col
  <2> QED
    BY <2>1, Statements
<1> QED
  BY <1>1, <1>2, <1>3, <1>4

-----------------------------------------------------------------------------
(* The invariant.                                                          *)

States == {"closed", "running", "open", "raised"}

EntryFormat == [hashed: {1, 2}, stored: {NoColumn, 1, 2}]

SchemaType ==
    /\ columns \subseteq AllColumns
    /\ rows \in Seq(EntryFormat)
    /\ state \in [Openers -> States]
    /\ step \in [Openers -> 1..20]
    /\ known \in [Openers -> SUBSET columns]
    /\ alone \in [Openers -> BOOLEAN]

\* The table exists, with every column that no statement adds.
Whole(table, cols) == ColumnsOf(table) \ AddedColumns \subseteq cols

\* A table is there whole, but for columns that are added later, or not at all.
TablesWhole ==
    \A table \in DOMAIN TableColumns :
        columns \cap ColumnsOf(table) = {} \/ Whole(table, columns)

\* What the k-th statement leaves in the file when it was not refused.
Effect(k, cols, idx) ==
    /\ Program[k].op = "create" => Whole(Program[k].table, cols)
    /\ Program[k].op = "alter" => Col(k) \in cols
    /\ Program[k].op = "index" => Col(k) \in idx

\* The statements an init() is past have had their effects.
Executed ==
    \A o \in Openers : state[o] \in {"running", "open"} =>
        /\ \A k \in 1..step[o] - 1 : Effect(k, columns, indexes)
        /\ state[o] = "open" => step[o] = 20

\* There is one format while the column is missing, and no row without a table.
Formats ==
    /\ columns \cap ColumnsOf("entries") = {} => rows = << >>
    /\ \A i \in 1..Len(rows) :
          IF FormatColumn \in columns THEN rows[i].stored = rows[i].hashed
          ELSE rows[i] = [hashed |-> 1, stored |-> NoColumn]

HasInfo(o, k) ==
    \E j \in 1..step[o] - 1 : Program[j].op = "info" /\ Program[j].table = Program[k].table

\* What a lone opener has read of a table is what the table is, as far as the
\* columns go that it has still to decide on.
InfoFresh ==
    \A o \in Openers : state[o] = "running" /\ alone[o] =>
        \A k \in step[o]..19 :
            Program[k].op = "alter" /\ HasInfo(o, k) /\ Col(k) \in columns => Col(k) \in known[o]

SchemaInv ==
    SchemaType /\ TablesWhole /\ Executed /\ Formats /\ InfoFresh /\ LoneOpenerSucceeds

\* What a statement has left in the file stays there.
LEMMA EffectKept ==
    ASSUME NEW k, NEW cols, NEW idx, Effect(k, cols, idx),
           NEW more, NEW moreIdx, cols \subseteq more, idx \subseteq moreIdx
    PROVE  Effect(k, more, moreIdx)
<1>1. \A table : Whole(table, cols) => Whole(table, more)
  BY DEF Whole
<1> QED
  BY <1>1 DEF Effect

\* An init() whose statements have all been executed finds everything.
LEMMA ExecutedIsComplete ==
    ASSUME SchemaInv, NEW o \in Openers, state[o] = "open"
    PROVE  /\ AllColumns \subseteq columns
           /\ \A k \in DOMAIN Program : Program[k].op = "index" => Col(k) \in indexes
<1>1. step[o] = 20 /\ \A k \in 1..19 : Effect(k, columns, indexes)
  BY DEF SchemaInv, Executed
<1>2. ASSUME NEW c \in AllColumns PROVE c \in columns
  <2>1. CASE c \in AddedColumns
    BY <1>1, <2>1, Complete DEF Effect
  <2>2. CASE c \notin AddedColumns
    <3>1. PICK k \in 1..19 : Program[k] = Create(c[1])
      BY Complete
    <3>2. Program[k].op = "create" /\ Program[k].table = c[1]
      BY <3>1 DEF Create
    <3>3. ColumnsOf(c[1]) \ AddedColumns \subseteq columns
      BY <1>1, <3>2 DEF Effect, Whole
    <3> QED
      BY <2>2, <3>3, Complete
  <2> QED
    BY <2>1, <2>2
<1> QED
  BY <1>1, <1>2, Statements DEF Effect

\* The next statement of an init() that is running, and its prerequisites.
LEMMA NextStatement ==
    ASSUME SchemaInv, NEW o \in Openers, state[o] = "running", step[o] \in DOMAIN Program
    PROVE  /\ step[o] \in 1..19
           /\ Column(o) = Col(step[o]) /\ Statement(o) = Program[step[o]]
           /\ Program[step[o]].table \in DOMAIN TableColumns
           /\ Program[step[o]].op # "create" => Whole(Program[step[o]].table, columns)
           /\ Program[step[o]].op = "alter" => Col(step[o]) \in ColumnsOf(Program[step[o]].table)
           /\ Program[step[o]].op = "index" => Col(step[o]) \in columns
<1> DEFINE k == step[o]
<1>1. k \in 1..19 /\ \A j \in 1..k - 1 : Effect(j, columns, indexes)
  BY Statements DEF SchemaInv, Executed
<1>2. \A j \in 1..k - 1 : j \in 1..19
  BY <1>1
<1>3. ASSUME NEW j \in 1..k - 1, NEW table, Program[j] = Create(table)
      PROVE  Whole(table, columns)
  <2>1. Program[j].op = "create" /\ Program[j].table = table
    BY <1>3 DEF Create
  <2> QED
    BY <1>1, <2>1 DEF Effect
<1>4. Program[k].op # "create" => Whole(Program[k].table, columns)
  BY <1>1, <1>3, Prerequisites
<1>5. Program[k].op = "index" => Col(k) \in columns
  <2> SUFFICES ASSUME Program[k].op = "index" PROVE Col(k) \in columns
    OBVIOUS
  <2>1. CASE Col(k) \in ColumnsOf(Program[k].table) \ AddedColumns
    BY <1>4, <2>1 DEF Whole
  <2>2. CASE \E j \in 1..k - 1 : Program[j].op = "alter" /\ Col(j) = Col(k)
    BY <1>1, <2>2 DEF Effect
  <2> QED
    BY <1>1, <2>1, <2>2, Prerequisites
<1> QED
  BY <1>1, <1>4, <1>5, Prerequisites DEF Column, Statement, Col

-----------------------------------------------------------------------------
(* The steps.                                                              *)

\* An init() that goes on to the next statement, with the effect of the last
\* one left in the file, has executed what it is past; so have the others.
LEMMA AdvanceExecuted ==
    ASSUME SchemaInv, NEW o \in Openers, state[o] = "running", step[o] \in 1..19, Advance(o),
           columns \subseteq columns', indexes \subseteq indexes',
           Effect(step[o], columns', indexes')
    PROVE  Executed' /\ step' \in [Openers -> 1..20]
<1>1. step' = [step EXCEPT ![o] = @ + 1] /\ state' = state
  BY DEF Advance
<1>2. step \in [Openers -> 1..20]
  BY DEF SchemaInv, SchemaType
<1>3. \A p \in Openers : step'[p] = IF p = o THEN step[o] + 1 ELSE step[p]
  BY <1>1, <1>2
<1>4. step' \in [Openers -> 1..20]
  BY <1>1, <1>2
<1>5. ASSUME NEW p \in Openers, state'[p] \in {"running", "open"}, NEW k \in 1..step'[p] - 1
      PROVE  Effect(k, columns', indexes')
  <2>1. CASE p = o /\ k = step[o]
    BY <2>1
  <2>2. CASE p # o \/ k # step[o]
    <3>1. k \in 1..step[p] - 1
      BY <1>2, <1>3, <2>2
    <3>2. Effect(k, columns, indexes)
      BY <1>1, <1>5, <3>1 DEF SchemaInv, Executed
    <3> QED
      BY <3>2, EffectKept
  <2> QED
    BY <2>1, <2>2
<1>6. \A p \in Openers : state'[p] = "open" => step'[p] = 20
  BY <1>1, <1>3 DEF SchemaInv, Executed
<1>7. \A p \in Openers : state'[p] \in {"running", "open"} =>
          \A k \in 1..step'[p] - 1 : Effect(k, columns', indexes')
  BY <1>5
<1>8. \A k : Effect(k, columns', indexes') <=> Effect(k, columns, indexes)'
  BY DEF Effect, Whole, Col
<1> QED
  BY <1>4, <1>6, <1>7, <1>8 DEF Executed

\* Going past a statement other than table_info, nothing new to know appears in
\* the tables that anyone has read.
LEMMA AdvanceInfo ==
    ASSUME SchemaInv, NEW o \in Openers, state[o] = "running", step[o] \in 1..19, Advance(o),
           Program[step[o]].op # "info", UNCHANGED known,
           \A p \in Openers : alone'[p] => alone[p],
           \A p \in Openers : \A k \in step'[p]..19 :
               state[p] = "running" /\ alone'[p] /\ Program[k].op = "alter"
               /\ HasInfo(p, k) /\ Col(k) \in columns' => Col(k) \in columns
    PROVE  InfoFresh'
<1>1. step' = [step EXCEPT ![o] = @ + 1] /\ state' = state /\ step \in [Openers -> 1..20]
  BY DEF Advance, SchemaInv, SchemaType
<1>2. \A p \in Openers : step'[p] = IF p = o THEN step[o] + 1 ELSE step[p]
  BY <1>1
<1> SUFFICES ASSUME NEW p \in Openers, state[p] = "running", alone'[p],
                    NEW k \in step'[p]..19, Program[k].op = "alter",
                    NEW j \in 1..step'[p] - 1, Program[j].op = "info",
                    Program[j].table = Program[k].table, Col(k) \in columns'
             PROVE  Col(k) \in known[p]
  BY <1>1 DEF InfoFresh, HasInfo, Col
<1>3. j \in 1..step[p] - 1 /\ k \in step[p]..19
  BY <1>1, <1>2
<1>4. HasInfo(p, k)
  BY <1>3 DEF HasInfo
<1>5. Col(k) \in columns
  BY <1>4
<1> QED
  BY <1>3, <1>4, <1>5 DEF SchemaInv, InfoFresh

\* A raised opener stays raised, and accompanied.
LEMMA RaisedKept ==
    ASSUME SchemaInv, \A p \in Openers : alone'[p] => alone[p], UNCHANGED state
    PROVE  LoneOpenerSucceeds'
BY DEF SchemaInv, LoneOpenerSucceeds

\* The columns of a table, and those of another.
LEMMA Disjoint ==
    ASSUME NEW t, NEW u, t # u PROVE ColumnsOf(t) \cap ColumnsOf(u) = {}
BY DEF ColumnsOf

LEMMA CreateKeeps ==
    ASSUME SchemaInv, NEW o \in Openers, CreateTable(o)
    PROVE  SchemaInv'
<1> DEFINE k == step[o]
           t == Program[k].table
<1>1. /\ k \in 1..19 /\ state[o] = "running" /\ Program[k].op = "create"
      /\ t \in DOMAIN TableColumns /\ Statement(o) = Program[k]
  BY Statements, NextStatement DEF CreateTable, Running
<1>2. /\ Advance(o) /\ UNCHANGED <<indexes, rows, known, alone, state>>
      /\ columns' = IF \E c \in columns : c[1] = t THEN columns ELSE columns \cup ColumnsOf(t)
  BY <1>1 DEF CreateTable, Advance
<1>3. ColumnsOf(t) \subseteq AllColumns /\ columns \subseteq AllColumns
  BY <1>1 DEF AllColumns, SchemaInv, SchemaType
<1>4. \A c \in AllColumns : c[1] = t => c \in ColumnsOf(t)
  BY Complete
<1>5. \A c \in ColumnsOf(t) : c[1] = t
  BY DEF ColumnsOf
<1>6. \/ columns' = columns /\ Whole(t, columns)
      \/ columns' = columns \cup ColumnsOf(t) /\ columns \cap ColumnsOf(t) = {}
  <2>1. CASE \E c \in columns : c[1] = t
    <3>1. columns \cap ColumnsOf(t) # {}
      BY <1>3, <1>4, <2>1
    <3> QED
      BY <1>1, <1>2, <2>1, <3>1 DEF SchemaInv, TablesWhole
  <2>2. CASE ~ \E c \in columns : c[1] = t
    BY <1>2, <1>5, <2>2
  <2> QED
    BY <2>1, <2>2
<1> HIDE DEF t
<1>7. columns \subseteq columns' /\ columns' \subseteq AllColumns /\ Whole(t, columns')
  BY <1>3, <1>6 DEF Whole
<1>8. Executed' /\ step' \in [Openers -> 1..20]
  <2>1. Effect(k, columns', indexes')
    BY <1>1, <1>7 DEF Effect, t
  <2> QED
    BY <1>1, <1>2, <1>7, <2>1, AdvanceExecuted
<1>9. SchemaType'
  <2>1. known' \in [Openers -> SUBSET columns']
    BY <1>2, <1>7 DEF SchemaInv, SchemaType
  <2> QED
    BY <1>2, <1>7, <1>8, <2>1 DEF SchemaInv, SchemaType
<1>10. TablesWhole'
  <2> SUFFICES ASSUME NEW u \in DOMAIN TableColumns
               PROVE  columns' \cap ColumnsOf(u) = {} \/ Whole(u, columns')
    BY DEF TablesWhole, Whole
  <2>1. columns \cap ColumnsOf(u) = {} \/ Whole(u, columns)
    BY DEF SchemaInv, TablesWhole
  <2>2. CASE u = t
    BY <1>7, <2>2
  <2>3. CASE u # t
    <3>1. ColumnsOf(t) \cap ColumnsOf(u) = {}
      BY <2>3, Disjoint
    <3> QED
      BY <1>6, <1>7, <2>1, <3>1 DEF Whole
  <2> QED
    BY <2>2, <2>3
<1>11. Formats'
  <2>1. CASE columns' = columns
    BY <1>2, <2>1 DEF SchemaInv, Formats
  <2>2. CASE columns' # columns /\ t = "entries"
    <3>1. rows = << >>
      BY <1>6, <2>2 DEF SchemaInv, Formats
    <3> QED
      BY <1>2, <3>1 DEF Formats
  <2>3. CASE columns' # columns /\ t # "entries"
    <3>1. ColumnsOf(t) \cap ColumnsOf("entries") = {}
      BY <2>3, Disjoint
    <3>2. FormatColumn \in ColumnsOf("entries")
      BY Columns DEF FormatColumn
    <3>3. /\ FormatColumn \in columns' <=> FormatColumn \in columns
          /\ columns' \cap ColumnsOf("entries") = columns \cap ColumnsOf("entries")
      BY <1>6, <2>3, <3>1, <3>2
    <3> QED
      BY <1>2, <3>3 DEF SchemaInv, Formats
  <2> QED
    BY <1>6, <2>1, <2>2, <2>3
<1>12. InfoFresh'
  <2>1. ASSUME NEW p \in Openers, state[p] = "running", NEW q \in step'[p]..19,
               Program[q].op = "alter", HasInfo(p, q), Col(q) \in columns'
        PROVE  Col(q) \in columns
    <3>1. PICK j \in 1..step[p] - 1 :
              Program[j].op = "info" /\ Program[j].table = Program[q].table
      BY <2>1 DEF HasInfo
    <3>2. step[p] \in 1..20 /\ step'[p] \in 1..20
      BY <1>8 DEF SchemaInv, SchemaType
    <3>3. j \in 1..19 /\ q \in 1..19
      BY <3>1, <3>2
    <3>4. PICK i \in 1..j - 1 : Program[i] = Create(Program[q].table)
      BY <3>1, <3>3, Prerequisites
    <3>5. Effect(i, columns, indexes)
      BY <2>1, <3>1, <3>2, <3>4 DEF SchemaInv, Executed
    <3>6. Whole(Program[q].table, columns)
      BY <3>4, <3>5 DEF Effect, Create
    <3>7. Col(q) \in ColumnsOf(Program[q].table) /\ Program[q].table \in DOMAIN TableColumns
      BY <2>1, <3>3, Prerequisites
    <3>8. CASE Program[q].table = t
      <4>1. columns \cap ColumnsOf(t) # {}
        <5>1. \E c \in ColumnsOf(t) : c \notin AddedColumns
          BY <3>7, <3>8, BaseColumn
        <5> QED
          BY <3>6, <3>8, <5>1 DEF Whole
      <4> QED
        BY <1>6, <2>1, <4>1
    <3>9. CASE Program[q].table # t
      BY <1>6, <2>1, <3>7, <3>9, Disjoint
    <3> QED
      BY <3>8, <3>9
  <2> QED
    BY <1>1, <1>2, <2>1, AdvanceInfo
<1>13. LoneOpenerSucceeds'
  BY <1>2, RaisedKept
<1> QED
  BY <1>8, <1>9, <1>10, <1>11, <1>12, <1>13 DEF SchemaInv

LEMMA InfoKeeps ==
    ASSUME SchemaInv, NEW o \in Openers, TableInfo(o)
    PROVE  SchemaInv'
<1> DEFINE k == step[o]
           t == Program[k].table
<1>1. /\ k \in 1..19 /\ state[o] = "running" /\ Program[k].op = "info"
      /\ Statement(o) = Program[k]
  BY Statements, NextStatement DEF TableInfo, Running
<1>2. /\ Advance(o) /\ UNCHANGED <<columns, indexes, rows, alone, state>>
      /\ known' = [known EXCEPT ![o] = {c \in columns : c[1] = t}]
  BY <1>1 DEF TableInfo, Advance, file
<1>3. Executed' /\ step' \in [Openers -> 1..20]
  <2>1. Effect(k, columns', indexes')
    BY <1>1 DEF Effect
  <2> QED
    BY <1>1, <1>2, <2>1, AdvanceExecuted
<1>4. SchemaType'
  <2>1. known' \in [Openers -> SUBSET columns']
    BY <1>2 DEF SchemaInv, SchemaType
  <2> QED
    BY <1>2, <1>3, <2>1 DEF SchemaInv, SchemaType
<1>5. TablesWhole' /\ Formats'
  BY <1>2 DEF SchemaInv, TablesWhole, Whole, Formats
<1>6. InfoFresh'
  <2>1. step \in [Openers -> 1..20] /\ step' = [step EXCEPT ![o] = @ + 1]
    BY <1>2 DEF SchemaInv, SchemaType, Advance
  <2>2. \A p \in Openers : step'[p] = IF p = o THEN k + 1 ELSE step[p]
    BY <2>1
  <2> SUFFICES ASSUME NEW p \in Openers, state[p] = "running", alone[p],
                      NEW q \in step'[p]..19, Program[q].op = "alter",
                      NEW j \in 1..step'[p] - 1, Program[j].op = "info",
                      Program[j].table = Program[q].table, Col(q) \in columns
               PROVE  Col(q) \in known'[p]
    BY <1>2 DEF InfoFresh, HasInfo, Col
  <2>3. CASE p # o
    <3>1. j \in 1..step[p] - 1 /\ q \in step[p]..19 /\ known'[p] = known[p]
      BY <1>2, <2>2, <2>3 DEF SchemaInv, SchemaType
    <3> QED
      BY <3>1 DEF SchemaInv, InfoFresh, HasInfo
  <2>4. CASE p = o /\ j = k
    <3>1. known'[p] = {c \in columns : c[1] = t}
      BY <1>2, <2>4 DEF SchemaInv, SchemaType
    <3>2. Col(q)[1] = t
      BY <2>4 DEF Col
    <3> QED
      BY <3>1, <3>2
  <2>5. CASE p = o /\ j # k
    <3>1. j \in 1..19 /\ q \in 1..19 /\ j < k /\ k < q
      BY <1>1, <2>2, <2>5
    <3>2. Program[j].op = "info" /\ Program[q].table = Program[j].table
      OBVIOUS
    <3>3. q < k
      BY <1>1, <3>1, <3>2, InfoOrder, Zenon
    <3> QED
      BY <1>1, <3>1, <3>3
  <2> QED
    BY <2>3, <2>4, <2>5
<1>7. LoneOpenerSucceeds'
  BY <1>2, RaisedKept
<1> QED
  BY <1>3, <1>4, <1>5, <1>6, <1>7 DEF SchemaInv

LEMMA SkipKeeps ==
    ASSUME SchemaInv, NEW o \in Openers, SkipAlter(o) \/ CreateIndex(o)
    PROVE  SchemaInv'
<1> DEFINE k == step[o]
<1>1. /\ k \in 1..19 /\ state[o] = "running" /\ Program[k].op \in {"alter", "index"}
      /\ Column(o) = Col(k)
  BY Statements, NextStatement DEF SkipAlter, CreateIndex, Running
<1>2. /\ Advance(o) /\ UNCHANGED <<columns, rows, known, alone, state>>
      /\ indexes \subseteq indexes'
      /\ Program[k].op = "index" => Col(k) \in indexes'
      /\ Program[k].op = "alter" => Col(k) \in known[o]
  BY <1>1 DEF SkipAlter, CreateIndex, Advance, file, Running, Missing
<1>3. Executed' /\ step' \in [Openers -> 1..20]
  <2>1. Program[k].op = "alter" => Col(k) \in columns
    BY <1>2 DEF SchemaInv, SchemaType
  <2>2. Effect(k, columns', indexes')
    BY <1>1, <1>2, <2>1 DEF Effect
  <2> QED
    BY <1>1, <1>2, <2>2, AdvanceExecuted
<1>4. SchemaType'
  BY <1>2, <1>3 DEF SchemaInv, SchemaType
<1>5. TablesWhole' /\ Formats'
  BY <1>2 DEF SchemaInv, TablesWhole, Whole, Formats
<1>6. InfoFresh'
  BY <1>1, <1>2, AdvanceInfo
<1>7. LoneOpenerSucceeds'
  BY <1>2, RaisedKept
<1> QED
  BY <1>3, <1>4, <1>5, <1>6, <1>7 DEF SchemaInv

LEMMA AddKeeps ==
    ASSUME SchemaInv, NEW o \in Openers, AddColumn(o)
    PROVE  SchemaInv'
<1> DEFINE k == step[o]
           t == Program[k].table
<1>1. /\ k \in 1..19 /\ state[o] = "running" /\ Program[k].op = "alter"
      /\ Column(o) = Col(k) /\ t \in DOMAIN TableColumns
      /\ Whole(t, columns) /\ Col(k) \in ColumnsOf(t)
  BY Statements, NextStatement DEF AddColumn, Running
<1>2. /\ Advance(o) /\ UNCHANGED <<indexes, known, state>>
      /\ Col(k) \notin columns /\ columns' = columns \cup {Col(k)}
      /\ alone' = [p \in Openers |-> alone[p] /\ p = o]
      /\ rows' = IF Col(k) = FormatColumn
                 THEN [i \in DOMAIN rows |-> LegacyFormat(rows[i])] ELSE rows
  BY <1>1 DEF AddColumn, Advance
<1> HIDE DEF t
<1>3. columns \subseteq columns' /\ columns' \subseteq AllColumns /\ Col(k) \in columns'
  BY <1>1, <1>2 DEF AllColumns, SchemaInv, SchemaType
<1>4. Executed' /\ step' \in [Openers -> 1..20]
  <2>1. Effect(k, columns', indexes')
    BY <1>1, <1>3 DEF Effect
  <2> QED
    BY <1>1, <1>2, <1>3, <2>1, AdvanceExecuted
<1>5. rows' \in Seq(EntryFormat) /\ Formats'
  <2>1. FormatColumn \in ColumnsOf("entries")
    BY Columns DEF FormatColumn
  <2>2. rows \in Seq(EntryFormat)
    BY DEF SchemaInv, SchemaType
  <2>3. CASE Col(k) # FormatColumn
    <3>1. /\ rows' = rows
          /\ FormatColumn \in columns' <=> FormatColumn \in columns
          /\ columns' \cap ColumnsOf("entries") = {} => columns \cap ColumnsOf("entries") = {}
      BY <1>2, <2>3
    <3> QED
      BY <2>2, <3>1 DEF SchemaInv, Formats
  <2>4. CASE Col(k) = FormatColumn
    <3>1. \A i \in 1..Len(rows) : rows[i] = [hashed |-> 1, stored |-> NoColumn]
      BY <1>2, <2>4 DEF SchemaInv, Formats
    <3>2. DOMAIN rows = 1..Len(rows) /\ Len(rows) \in Nat
      BY <2>2
    <3>3. rows' = [i \in 1..Len(rows) |-> LegacyFormat(rows[i])]
      BY <1>2, <2>4, <3>2
    <3>4. \A i \in 1..Len(rows) : LegacyFormat(rows[i]) = [hashed |-> 1, stored |-> 1]
      BY <3>1 DEF LegacyFormat
    <3>5. rows' = [i \in 1..Len(rows) |-> [hashed |-> 1, stored |-> 1]]
      BY <3>3, <3>4
    <3>6. [hashed |-> 1, stored |-> 1] \in EntryFormat
      BY DEF EntryFormat
    <3>7. rows' \in Seq(EntryFormat) /\ Len(rows') = Len(rows)
      BY <3>2, <3>5, <3>6
    <3>8. \A i \in 1..Len(rows') : rows'[i].stored = rows'[i].hashed
      BY <3>5, <3>7
    <3>9. FormatColumn \in columns' /\ columns' \cap ColumnsOf("entries") # {}
      BY <1>3, <2>1, <2>4
    <3> QED
      BY <3>7, <3>8, <3>9 DEF Formats
  <2> QED
    BY <2>3, <2>4
<1>6. SchemaType'
  <2>1. known' \in [Openers -> SUBSET columns']
    BY <1>2, <1>3 DEF SchemaInv, SchemaType
  <2>2. alone' \in [Openers -> BOOLEAN]
    BY <1>2
  <2> QED
    BY <1>2, <1>3, <1>4, <1>5, <2>1, <2>2 DEF SchemaInv, SchemaType
<1>7. TablesWhole'
  <2> SUFFICES ASSUME NEW u \in DOMAIN TableColumns
               PROVE  columns' \cap ColumnsOf(u) = {} \/ Whole(u, columns')
    BY DEF TablesWhole, Whole
  <2>1. CASE u = t
    BY <1>1, <1>3, <2>1 DEF Whole
  <2>2. CASE u # t
    <3>1. Col(k) \notin ColumnsOf(u)
      BY <1>1, <2>2, Disjoint
    <3>2. columns \cap ColumnsOf(u) = {} \/ Whole(u, columns)
      BY DEF SchemaInv, TablesWhole
    <3> QED
      BY <1>2, <3>1, <3>2 DEF Whole
  <2> QED
    BY <2>1, <2>2
<1>8. \A p \in Openers : alone'[p] => alone[p] /\ p = o
  BY <1>2
<1>9. InfoFresh'
  <2>1. ASSUME NEW p \in Openers, NEW q \in step'[p]..19, alone'[p],
               Program[q].op = "alter", Col(q) \in columns'
        PROVE  Col(q) \in columns
    <3>1. step'[o] = k + 1 /\ p = o
      BY <1>2, <1>8, <2>1 DEF Advance, SchemaInv, SchemaType
    <3>2. q \in 1..19 /\ q # k
      BY <1>1, <3>1
    <3>3. Col(q) # Col(k)
      BY <1>1, <2>1, <3>2, InfoOrder
    <3> QED
      BY <1>2, <2>1, <3>3
  <2> QED
    BY <1>1, <1>2, <1>8, <2>1, AdvanceInfo
<1>10. LoneOpenerSucceeds'
  BY <1>2, <1>8, RaisedKept
<1> QED
  BY <1>4, <1>5, <1>6, <1>7, <1>9, <1>10 DEF SchemaInv

\* The columns of a table are read before any is added.
LEMMA InfoFirst ==
    ASSUME NEW k \in 1..19, Program[k].op = "alter"
    PROVE  \E j \in 1..k - 1 : Program[j].op = "info" /\ Program[j].table = Program[k].table
<1>1. k \in {3, 4, 12, 13, 14}
  BY Alters
<1>2. CASE k \in {3, 4}
  <2>1. 2 \in 1..k - 1 /\ Program[2].op = "info" /\ Program[2].table = "entries"
    BY <1>2, Statements DEF Info
  <2>2. Program[k].table = "entries"
    BY <1>2, Statements DEF Alter
  <2> QED
    BY <2>1, <2>2
<1>3. CASE k \in {12, 13, 14}
  <2>1. 11 \in 1..k - 1 /\ Program[11].op = "info" /\ Program[11].table = "anchors"
    BY <1>3, Statements DEF Info
  <2>2. Program[k].table = "anchors"
    BY <1>3, Statements DEF Alter
  <2> QED
    BY <2>1, <2>2
<1> QED
  BY <1>1, <1>2, <1>3

\* An init() that starts, raises, returns or is interrupted leaves the file.
LEMMA StateKeeps ==
    ASSUME SchemaInv, NEW o \in Openers, UNCHANGED file,
           NEW s \in States, state' = [state EXCEPT ![o] = s],
           \/ s = "running" /\ step' = [step EXCEPT ![o] = 1]
                            /\ known' = [known EXCEPT ![o] = {}]
                            /\ alone' = [alone EXCEPT ![o] = TRUE]
           \/ /\ UNCHANGED <<step, known, alone>>
              /\ \/ s = "closed"
                 \/ s = "raised" /\ ~ alone[o]
                 \/ s = "open" /\ state[o] = "running" /\ step[o] = 20
    PROVE  SchemaInv'
<1>1. SchemaType'
  <2>1. UNCHANGED <<columns, rows>> /\ state' \in [Openers -> States]
    BY DEF file, SchemaInv, SchemaType
  <2>2. step' \in [Openers -> 1..20]
    <3>1. CASE step' = step
      BY <3>1 DEF SchemaInv, SchemaType
    <3>2. CASE step' = [step EXCEPT ![o] = 1]
      BY <3>2 DEF SchemaInv, SchemaType
    <3> QED
      BY <3>1, <3>2
  <2>3. known' \in [Openers -> SUBSET columns']
    BY <2>1 DEF SchemaInv, SchemaType
  <2>4. alone' \in [Openers -> BOOLEAN]
    <3>1. CASE alone' = alone
      BY <3>1 DEF SchemaInv, SchemaType
    <3>2. CASE alone' = [alone EXCEPT ![o] = TRUE]
      BY <3>2 DEF SchemaInv, SchemaType
    <3> QED
      BY <3>1, <3>2
  <2> QED
    BY <2>1, <2>2, <2>3, <2>4 DEF SchemaInv, SchemaType
<1>2. TablesWhole' /\ Formats'
  BY DEF file, SchemaInv, TablesWhole, Whole, Formats
<1>3. \A p \in Openers \ {o} : /\ state'[p] = state[p] /\ step'[p] = step[p]
                               /\ known'[p] = known[p] /\ alone'[p] = alone[p]
  BY DEF SchemaInv, SchemaType
<1>4. /\ state'[o] = s
      /\ s = "running" => step'[o] = 1
      /\ s = "open" => state[o] = "running" /\ step'[o] = step[o] /\ step[o] = 20
      /\ s = "raised" => alone'[o] = alone[o] /\ ~ alone[o]
  BY DEF SchemaInv, SchemaType
<1>5. \A p : \A k : Effect(k, columns, indexes) <=> Effect(k, columns, indexes)'
  BY DEF file, Effect, Whole, Col
<1>6. Executed'
  <2> SUFFICES ASSUME NEW p \in Openers, state'[p] \in {"running", "open"}
               PROVE  /\ \A k \in 1..step'[p] - 1 : Effect(k, columns, indexes)
                      /\ state'[p] = "open" => step'[p] = 20
    BY <1>5 DEF Executed
  <2>1. CASE p # o
    BY <1>3, <2>1 DEF SchemaInv, Executed
  <2>2. CASE p = o /\ s = "running"
    BY <1>4, <2>2
  <2>3. CASE p = o /\ s = "open"
    BY <1>4, <2>3 DEF SchemaInv, Executed
  <2> QED
    BY <1>4, <2>1, <2>2, <2>3
<1>7. InfoFresh'
  <2> SUFFICES ASSUME NEW p \in Openers, state'[p] = "running", alone'[p],
                      NEW k \in step'[p]..19, Program[k].op = "alter",
                      NEW j \in 1..step'[p] - 1, Program[j].op = "info",
                      Program[j].table = Program[k].table, Col(k) \in columns
               PROVE  Col(k) \in known'[p]
    BY DEF file, InfoFresh, HasInfo, Col
  <2>1. CASE p # o
    BY <1>3, <2>1 DEF SchemaInv, InfoFresh, HasInfo
  <2>2. CASE p = o
    BY <1>4, <2>2
  <2> QED
    BY <2>1, <2>2
<1>8. LoneOpenerSucceeds'
  <2> SUFFICES ASSUME NEW p \in Openers, state'[p] = "raised" PROVE ~ alone'[p]
    BY DEF LoneOpenerSucceeds
  <2>1. CASE p # o
    BY <1>3, <2>1 DEF SchemaInv, LoneOpenerSucceeds
  <2>2. CASE p = o
    BY <1>4, <2>2
  <2> QED
    BY <2>1, <2>2
<1> QED
  BY <1>1, <1>2, <1>6, <1>7, <1>8 DEF SchemaInv

\* No step of an opener disturbs the invariant.
LEMMA SchemaStep ==
    ASSUME SchemaInv, NEW o \in Openers, Open(o) \/ Interrupt(o) \/ Log(o)
    PROVE  SchemaInv'
<1>1. CASE Begin(o) \/ Interrupt(o)
  BY <1>1, StateKeeps DEF Begin, Interrupt, States
<1>2. CASE SchemaError(o)
  <2> DEFINE k == step[o]
  <2>1. state[o] = "running" /\ k \in DOMAIN Program /\ Refused(o)
    BY <1>2 DEF SchemaError
  <2>2. /\ k \in 1..19 /\ Column(o) = Col(k) /\ Statement(o) = Program[k]
        /\ Program[k].op = "index" => Col(k) \in columns
    BY <2>1, NextStatement
  <2>3. Program[k].op = "alter" /\ Col(k) \notin known[o] /\ Col(k) \in columns
    BY <2>1, <2>2 DEF Refused, Missing
  <2>4. HasInfo(o, k)
    BY <2>2, <2>3, InfoFirst DEF HasInfo
  <2>5. ~ alone[o]
    BY <2>1, <2>2, <2>3, <2>4 DEF SchemaInv, InfoFresh
  <2> QED
    BY <1>2, <2>5, StateKeeps DEF SchemaError, States
<1>3. CASE Return(o)
  <2> DEFINE n == Len(Program)
  <2>2. n = 19 /\ step[o] \in 1..20
    BY Statements DEF SchemaInv, SchemaType
  <2>3. step[o] > n
    BY <1>3 DEF Return
  <2> HIDE DEF n
  <2>1. step[o] = 20
    BY <2>2, <2>3
  <2> QED
    BY <1>3, <2>1, StateKeeps DEF Return, States
<1>4. CASE Log(o)
  <2>1. /\ state[o] = "open" /\ rows' = Append(rows, [hashed |-> 2, stored |-> 2])
        /\ UNCHANGED <<columns, indexes, state, step, known, alone>>
    BY <1>4 DEF Log
  <2>2. AllColumns \subseteq columns
    BY <2>1, ExecutedIsComplete
  <2>3. FormatColumn \in ColumnsOf("entries") /\ FormatColumn \in AllColumns
    BY Columns DEF FormatColumn, AllColumns
  <2>4. FormatColumn \in columns /\ columns \cap ColumnsOf("entries") # {}
    BY <2>2, <2>3
  <2> DEFINE new == [hashed |-> 2, stored |-> 2]
  <2>5. new \in EntryFormat /\ new.stored = new.hashed
    BY DEF EntryFormat
  <2>6. rows \in Seq(EntryFormat)
    BY DEF SchemaInv, SchemaType
  <2>7. rows' = Append(rows, new)
    BY <2>1
  <2> HIDE DEF new
  <2>8. /\ rows' \in Seq(EntryFormat) /\ Len(rows') = Len(rows) + 1
        /\ rows'[Len(rows) + 1] = new /\ \A i \in 1..Len(rows) : rows'[i] = rows[i]
    BY <2>5, <2>6, <2>7
  <2>9. \A i \in 1..Len(rows) : rows[i].stored = rows[i].hashed
    BY <2>4 DEF SchemaInv, Formats
  <2>10. \A i \in 1..Len(rows') : rows'[i].stored = rows'[i].hashed
    <3>1. \A i \in 1..Len(rows') : i \in 1..Len(rows) \/ i = Len(rows) + 1
      BY <2>6, <2>8
    <3> QED
      BY <2>5, <2>8, <2>9, <3>1
  <2>11. Formats'
    BY <2>1, <2>4, <2>10 DEF Formats
  <2>12. SchemaType'
    BY <2>1, <2>8 DEF SchemaInv, SchemaType
  <2>13. TablesWhole' /\ Executed' /\ InfoFresh' /\ LoneOpenerSucceeds'
    BY <2>1 DEF SchemaInv, TablesWhole, Whole, Executed, Effect, Col, InfoFresh, HasInfo,
       LoneOpenerSucceeds
  <2> QED
    BY <2>11, <2>12, <2>13 DEF SchemaInv
<1> QED
  BY <1>1, <1>2, <1>3, <1>4, CreateKeeps, InfoKeeps, SkipKeeps, AddKeeps DEF Open

\* Wherever an init() stops, whoever else runs one: the file is a file of some
\* version, whole table by whole table.
LEMMA SchemaInvariant == Spec => []SchemaInv
<1>1. Init => SchemaInv
  <2> SUFFICES ASSUME Init PROVE SchemaInv
    OBVIOUS
  <2>1. PICK f \in InitialFiles : columns = f.columns /\ indexes = f.indexes /\ rows = f.rows
    BY DEF Init
  <2>2. /\ columns \subseteq AllColumns
        /\ rows \in Seq([hashed: {1, 2}, stored: {NoColumn, 1, 2}])
    BY <2>1, InitialFilesAssumption
  <2>3. SchemaType
    <3>1. known \in [Openers -> SUBSET columns] /\ alone \in [Openers -> BOOLEAN]
      BY DEF Init
    <3> QED
      BY <2>2, <3>1 DEF Init, SchemaType, States, EntryFormat
  <2>4. TablesWhole
    BY <2>1, InitialFilesAssumption DEF TablesWhole, Whole
  <2>5. Formats
    BY <2>1, InitialFilesAssumption DEF Formats
  <2>6. Executed /\ InfoFresh /\ LoneOpenerSucceeds
    BY DEF Init, Executed, InfoFresh, LoneOpenerSucceeds
  <2> QED
    BY <2>3, <2>4, <2>5, <2>6 DEF SchemaInv
<1>2. SchemaInv /\ [Next]_vars => SchemaInv'
  <2> SUFFICES ASSUME SchemaInv, [Next]_vars PROVE SchemaInv'
    OBVIOUS
  <2>1. CASE UNCHANGED vars
    BY <2>1 DEF vars, file, SchemaInv, SchemaType, TablesWhole, Whole, Executed, Effect, Col,
       Formats, InfoFresh, HasInfo, LoneOpenerSucceeds
  <2> QED
    BY <2>1, SchemaStep DEF Next
<1> QED
  BY <1>1, <1>2, PTL DEF Spec

-----------------------------------------------------------------------------
\* An init() that has returned has left, or found, every table, column and index
\* the Ledger names, whatever was interrupted and whoever migrated beside it.
THEOREM OpenedStaysComplete == Spec => []OpenedIsComplete
<1>1. SchemaInv => OpenedIsComplete
  BY ExecutedIsComplete DEF OpenedIsComplete, Col
<1> QED
  BY <1>1, SchemaInvariant, PTL

\* At every point of a migration verify_chain() reads each row in the format
\* that its hash was computed in.
THEOREM ReadsAsHashed == Spec => []RowsReadAsHashed
<1>1. SchemaInv => RowsReadAsHashed
  <2> SUFFICES ASSUME SchemaInv, NEW i \in DOMAIN rows
               PROVE  FormatRead(rows[i]) = rows[i].hashed
    BY DEF RowsReadAsHashed
  <2>1. i \in 1..Len(rows) /\ rows[i] \in EntryFormat
    BY DEF SchemaInv, SchemaType
  <2>2. rows[i].stored = rows[i].hashed \/ rows[i] = [hashed |-> 1, stored |-> NoColumn]
    BY <2>1 DEF SchemaInv, Formats
  <2> QED
    BY <2>1, <2>2 DEF FormatRead, EntryFormat, NoColumn
<1> QED
  BY <1>1, SchemaInvariant, PTL

\* An init() is refused for the schema only when another one has added a column
\* since it began: alone, it migrates a file of any version.
THEOREM LoneMigrates == Spec => []LoneOpenerSucceeds
<1>1. SchemaInv => LoneOpenerSucceeds
  BY DEF SchemaInv
<1> QED
  BY <1>1, SchemaInvariant, PTL
=============================================================================
