------------------------------- MODULE Ledger -------------------------------
(***************************************************************************)
(* chain.py's Ledger: coroutines that share an asyncio.Lock and one SQLite *)
(* connection, and several Ledgers (processes, or instances in one) over   *)
(* one database file.                                                      *)
(*                                                                         *)
(* A call is one run of log(), anchor(), verify_chain() or of a writer     *)
(* that only updates rows (confirm_anchor, retire_witness).  Its awaits    *)
(* are the points where other calls run.  A statement executes in the      *)
(* connection's worker thread whether or not the task that awaits it is    *)
(* cancelled meanwhile, so every statement has two outcomes for the task:  *)
(* it goes on, or it raises.  No path of the code rolls back.              *)
(*                                                                         *)
(* The file locks are SQLite's, rollback-journal mode (the library is      *)
(* external: what is modelled is what the code's statements meet).         *)
(***************************************************************************)
EXTENDS Chain, FiniteSets

CONSTANTS
    Ledgers, LogCalls, AnchorCalls, UpdateCalls, VerifyCalls,
    Owner,          \* Owner[c]: the Ledger a call runs on
    EventTypeOf,    \* EventTypeOf[c]: the event_type a log() call passes
    SignerOf,       \* SignerOf[c]: the key of its signer, or NoSignature
    NoCall,         \* nobody holds the asyncio lock
    InitialTables   \* entries tables a Ledger may be opened on

Calls == LogCalls \cup AnchorCalls \cup UpdateCalls \cup VerifyCalls

ASSUME CallsAssumption ==
    /\ LogCalls \subseteq Body
    /\ LogCalls \cap (AnchorCalls \cup UpdateCalls \cup VerifyCalls) = {}
    /\ AnchorCalls \cap (UpdateCalls \cup VerifyCalls) = {}
    /\ UpdateCalls \cap VerifyCalls = {}
    /\ NoCall \notin Calls
    /\ Owner \in [Calls -> Ledgers]
    /\ EventTypeOf \in [LogCalls -> EventType]
    /\ SignerOf \in [LogCalls -> Key \cup {NoSignature}]
    /\ NoSignature \notin Key

\* A table written by earlier runs of the code: a valid chain whose ids are
\* 1..n, of calls that are not ours, some of it possibly in format 1.
ASSUME InitialTablesAssumption ==
    \A rows \in InitialTables :
        /\ rows \in Seq(Row)
        /\ ValidChain(rows, Key)
        /\ \A i \in 1..Len(rows) : /\ rows[i].entry_id = i
                                   /\ rows[i].body \notin LogCalls

VARIABLES
    entries,       \* the committed entries table
    anchors,       \* the committed anchors table: the heads its rows bind
    open,          \* open[l]: the Ledger has its connection
    tx,            \* tx[l]: the connection's transaction and the file lock it holds
    pend,          \* pend[l]: entries rows of the open transaction
    pendAnchors,   \* pendAnchors[l]: anchors rows of the open transaction
    mutex,         \* mutex[l]: the call that holds self._lock
    pc,            \* pc[c]: where a call is
    stale,         \* calls whose captured connection has been closed
    tip,           \* tip[c]: the head a log() or anchor() call has read
    base, seen     \* committed rows when a verify_chain() started; rows it walked

dbVars == <<entries, anchors, open, tx, pend, pendAnchors>>
vars == <<entries, anchors, open, tx, pend, pendAnchors, mutex, pc, stale, tip, base, seen>>

-----------------------------------------------------------------------------
(* SQLite, as the statements of one connection see it. *)

\* "off": no transaction.  "none": BEGIN was issued, no file lock yet.
TxStates == {"off", "none", "shared", "reserved", "pending"}

View(l) == entries \o pend[l]

\* A SELECT whose cursor is still open holds SHARED by itself.
CursorOpen(l) ==
    \E c \in Calls \ stale : Owner[c] = l /\ pc[c] \in {"fetching", "reading"}

HoldsShared(l) == tx[l] \in {"shared", "reserved", "pending"} \/ CursorOpen(l)

MayRead(l) == HoldsShared(l) \/ \A m \in Ledgers \ {l} : tx[m] # "pending"

MayReserve(l) == \A m \in Ledgers \ {l} : tx[m] \notin {"reserved", "pending"}

MayCommit(l) == \A m \in Ledgers \ {l} : ~ HoldsShared(m)

\* A SELECT in a transaction keeps SHARED until the transaction ends.
AfterSelect(l) == IF tx[l] = "none" THEN "shared" ELSE tx[l]

AfterDml(l) == IF tx[l] = "pending" THEN "pending" ELSE "reserved"

\* The implicit BEGIN of a DML statement inherits the SHARED of an open cursor.
AfterBegin(l) ==
    IF tx[l] = "off" THEN (IF CursorOpen(l) THEN "shared" ELSE "none") ELSE tx[l]

-----------------------------------------------------------------------------
(* Calls. *)

Done == {"done", "none", "tampered", "raised", "lost"}

Active(c) == pc[c] # "idle" /\ pc[c] \notin Done

\* Mutant: log() looks its connection up again at each statement.
LogRecaptures(c) == c \in LogCalls \cup AnchorCalls /\ pc[c] \in {"locked", "writing"}

\* anchor() looks its connection up again for the read and for the insert;
\* the others keep the one they captured when they started.
Recaptures(c) == c \in AnchorCalls /\ pc[c] \in {"locked", "writing"}

Connected(c) == open[Owner[c]] /\ (c \in stale => Recaptures(c))

NoHead == [entry_id |-> 0, entry_hash |-> GenesisPreviousHash]

\* Mutant: the head of an empty table is NULL.
TipOfNull(rows) == IF rows = << >> THEN [entry_id |-> 0, entry_hash |-> NoSignature]
                  ELSE [entry_id   |-> rows[Len(rows)].entry_id,
                        entry_hash |-> rows[Len(rows)].entry_hash]

TipOf(rows) == IF rows = << >> THEN NoHead
              ELSE [entry_id   |-> rows[Len(rows)].entry_id,
                    entry_hash |-> rows[Len(rows)].entry_hash]

Sign(key, entry_hash) ==
    IF key = NoSignature THEN NoSignature ELSE <<key, entry_hash>>

\* Mutant: stamped with the current format, hashed in the old one.
RowOfHashedAsV1(c, t) ==
    LET hash == EntryHash(t.entry_id + 1, c, EventTypeOf[c], 1, t.entry_hash)
    IN  [entry_id |-> t.entry_id + 1, body |-> c, event_type |-> EventTypeOf[c],
         format_version |-> CurrentFormatVersion, previous_hash |-> t.entry_hash,
         entry_hash |-> hash, signature |-> Sign(SignerOf[c], hash)]

\* The row log() builds from the tip it read.
RowOf(c, t) ==
    LET hash == EntryHash(t.entry_id + 1, c, EventTypeOf[c],
                          CurrentFormatVersion, t.entry_hash)
    IN  [entry_id |-> t.entry_id + 1, body |-> c, event_type |-> EventTypeOf[c],
         format_version |-> CurrentFormatVersion, previous_hash |-> t.entry_hash,
         entry_hash |-> hash, signature |-> Sign(SignerOf[c], hash)]

Goto(c, label) == pc' = [pc EXCEPT ![c] = label] /\ UNCHANGED mutex

\* Mutant: acquire() and release() without a finally.
LeaveKeepingLock(c, label) ==
    /\ pc' = [pc EXCEPT ![c] = label]
    /\ mutex' = IF mutex[Owner[c]] = c /\ label # "raised"
                THEN [mutex EXCEPT ![Owner[c]] = NoCall] ELSE mutex

\* Leaving `async with self._lock`, by a return or by an exception.
Leave(c, label) ==
    /\ pc' = [pc EXCEPT ![c] = label]
    /\ mutex' = IF mutex[Owner[c]] = c THEN [mutex EXCEPT ![Owner[c]] = NoCall] ELSE mutex

\* Mutant: log() tries again after a statement that was interrupted.
GotoOrRetry(c, label) ==
    Goto(c, label) \/ (IF c \in LogCalls THEN Goto(c, "locked") ELSE Leave(c, "raised"))

\* The statement has run; its task goes on, or was cancelled while it ran.
GotoOrRaise(c, label) == Goto(c, label) \/ Leave(c, "raised")

Recapture(c) == stale' = stale \ {c}

-----------------------------------------------------------------------------
Init ==
    /\ entries \in InitialTables
    /\ anchors = {}
    /\ open = [l \in Ledgers |-> TRUE]
    /\ tx = [l \in Ledgers |-> "off"]
    /\ pend = [l \in Ledgers |-> << >>]
    /\ pendAnchors = [l \in Ledgers |-> {}]
    /\ mutex = [l \in Ledgers |-> NoCall]
    /\ pc = [c \in Calls |-> "idle"]
    /\ stale = {}
    /\ tip = [c \in LogCalls \cup AnchorCalls |-> NoHead]
    /\ base = [c \in VerifyCalls |-> 0]
    /\ seen = [c \in VerifyCalls |-> 0]

\* The call begins: _require_db() raises on a closed Ledger (anchor() asks
\* only once it has the lock).  verify_chain never takes the lock.
Start(c) ==
    /\ pc[c] = "idle"
    /\ IF open[Owner[c]] \/ c \in AnchorCalls
       THEN Goto(c, IF c \in VerifyCalls THEN "selecting" ELSE "waiting")
       ELSE Goto(c, "raised")
    /\ base' = IF c \in VerifyCalls THEN [base EXCEPT ![c] = Len(entries)] ELSE base
    /\ UNCHANGED <<entries, anchors, open, tx, pend, pendAnchors, stale, tip, seen>>

\* Mutant: log() without the lock.
AcquireUnlocked(c) ==
    /\ pc[c] = "waiting"
    /\ pc' = [pc EXCEPT ![c] = IF c \in UpdateCalls THEN "writing" ELSE "locked"]
    /\ UNCHANGED <<mutex, dbVars, stale, tip, base, seen>>

Acquire(c) ==
    /\ pc[c] = "waiting"
    /\ mutex[Owner[c]] = NoCall
    /\ mutex' = [mutex EXCEPT ![Owner[c]] = c]
    /\ pc' = [pc EXCEPT ![c] = IF c \in UpdateCalls THEN "writing" ELSE "locked"]
    /\ UNCHANGED <<dbVars, stale, tip, base, seen>>

\* log() and anchor() execute SELECT ... ORDER BY entry_id DESC LIMIT 1: the
\* row is fixed now, the cursor stays open until it is fetched.
SelectTip(c) ==
    /\ pc[c] = "locked" /\ Connected(c) /\ MayRead(Owner[c])
    /\ tip' = [tip EXCEPT ![c] = TipOf(View(Owner[c]))]
    /\ tx' = [tx EXCEPT ![Owner[c]] = AfterSelect(Owner[c])]
    /\ GotoOrRaise(c, "fetching")
    /\ Recapture(c)
    /\ UNCHANGED <<entries, anchors, open, pend, pendAnchors, base, seen>>

\* fetchone() and the cursor's close.  anchor() returns None on an empty ledger.
FetchTip(c) ==
    /\ pc[c] = "fetching" /\ Connected(c)
    /\ IF c \in LogCalls THEN GotoOrRaise(c, "writing")
       ELSE IF tip[c] = NoHead THEN Leave(c, "none") \/ Leave(c, "raised")
       ELSE GotoOrRaise(c, "submitting")
    /\ UNCHANGED <<dbVars, stale, tip, base, seen>>

\* anchor()'s network phase, the lock held: a track succeeds, or both fail.
Submit(c) ==
    /\ c \in AnchorCalls /\ pc[c] = "submitting"
    /\ GotoOrRaise(c, "writing")
    /\ UNCHANGED <<dbVars, stale, tip, base, seen>>

\* Mutant: entry_id is no primary key.
InsertEntryUnchecked(c) ==
    LET l == Owner[c] IN
    /\ c \in LogCalls /\ pc[c] = "writing" /\ Connected(c) /\ MayReserve(l)
    /\ tx' = [tx EXCEPT ![l] = AfterDml(l)]
    /\ pend' = [pend EXCEPT ![l] = Append(@, RowOf(c, tip[c]))]
    /\ GotoOrRaise(c, "committing")
    /\ UNCHANGED <<entries, anchors, open, pendAnchors, stale, tip, base, seen>>

\* log(): the insert names its entry_id, so the primary key refuses an id the
\* connection already sees.  A refused insert has begun the transaction all
\* the same, and nothing ends it.
InsertEntry(c) ==
    LET l == Owner[c] IN
    /\ c \in LogCalls /\ pc[c] = "writing" /\ Connected(c) /\ MayReserve(l)
    /\ tx' = [tx EXCEPT ![l] = AfterDml(l)]
    /\ IF \A i \in 1..Len(View(l)) : View(l)[i].entry_id # tip[c].entry_id + 1
       THEN /\ pend' = [pend EXCEPT ![l] = Append(@, RowOf(c, tip[c]))]
            /\ GotoOrRaise(c, "committing")
       ELSE /\ UNCHANGED pend
            /\ Leave(c, "raised")
    /\ UNCHANGED <<entries, anchors, open, pendAnchors, stale, tip, base, seen>>

\* Mutant: PRAGMA foreign_keys is off.
InsertAnchorUnchecked(c) ==
    LET l == Owner[c] IN
    /\ c \in AnchorCalls /\ pc[c] = "writing" /\ Connected(c) /\ MayReserve(l)
    /\ tx' = [tx EXCEPT ![l] = AfterDml(l)]
    /\ pendAnchors' = [pendAnchors EXCEPT ![l] = @ \cup {tip[c]}]
    /\ GotoOrRaise(c, "committing")
    /\ Recapture(c)
    /\ UNCHANGED <<entries, anchors, open, pend, tip, base, seen>>

\* anchor(): chain_head_entry_id is a foreign key to the entries table.
InsertAnchor(c) ==
    LET l == Owner[c] IN
    /\ c \in AnchorCalls /\ pc[c] = "writing" /\ Connected(c) /\ MayReserve(l)
    /\ tx' = [tx EXCEPT ![l] = AfterDml(l)]
    /\ IF \E i \in 1..Len(View(l)) : View(l)[i].entry_id = tip[c].entry_id
       THEN /\ pendAnchors' = [pendAnchors EXCEPT ![l] = @ \cup {tip[c]}]
            /\ GotoOrRaise(c, "committing")
       ELSE /\ UNCHANGED pendAnchors
            /\ Leave(c, "raised")
    /\ Recapture(c)
    /\ UNCHANGED <<entries, anchors, open, pend, tip, base, seen>>

\* confirm_anchor(), retire_witness(): an UPDATE of a table that is not modelled
\* here.  The SELECT confirm_anchor() ends with, the lock released and the
\* transaction committed, is one of the reads of SelectAll to the others.
UpdateRow(c) ==
    LET l == Owner[c] IN
    /\ c \in UpdateCalls /\ pc[c] = "writing" /\ Connected(c) /\ MayReserve(l)
    /\ tx' = [tx EXCEPT ![l] = AfterDml(l)]
    /\ GotoOrRaise(c, "committing")
    /\ UNCHANGED <<entries, anchors, open, pend, pendAnchors, stale, tip, base, seen>>

\* COMMIT publishes whatever the transaction holds, rows that raised calls
\* left in it included.
Commit(c) ==
    LET l == Owner[c] IN
    /\ pc[c] = "committing" /\ Connected(c) /\ MayCommit(l)
    /\ entries' = View(l)
    /\ anchors' = anchors \cup pendAnchors[l]
    /\ pend' = [pend EXCEPT ![l] = << >>]
    /\ pendAnchors' = [pendAnchors EXCEPT ![l] = {}]
    /\ tx' = [tx EXCEPT ![l] = "off"]
    /\ Leave(c, "done") \/ Leave(c, "raised")
    /\ UNCHANGED <<open, stale, tip, base, seen>>

\* Mutant: verify_chain reads one page, as get_entries does.
SelectPage(c) ==
    LET l == Owner[c] IN
    /\ c \in VerifyCalls /\ pc[c] = "selecting" /\ Connected(c) /\ MayRead(l)
    /\ seen' = [seen EXCEPT ![c] = IF View(l) = << >> THEN 0 ELSE 1]
    /\ tx' = [tx EXCEPT ![l] = AfterSelect(l)]
    /\ GotoOrRaise(c, "reading")
    /\ UNCHANGED <<entries, anchors, open, pend, pendAnchors, stale, tip, base>>

\* verify_chain(): the cursor yields the rows there were when it was opened,
\* and those its own connection appends before it is exhausted.
SelectAll(c) ==
    LET l == Owner[c] IN
    /\ c \in VerifyCalls /\ pc[c] = "selecting" /\ Connected(c) /\ MayRead(l)
    /\ seen' = [seen EXCEPT ![c] = Len(View(l))]
    /\ tx' = [tx EXCEPT ![l] = AfterSelect(l)]
    /\ GotoOrRaise(c, "reading")
    /\ UNCHANGED <<entries, anchors, open, pend, pendAnchors, stale, tip, base>>

FetchAll(c) ==
    LET rows == View(Owner[c]) IN
    /\ c \in VerifyCalls /\ pc[c] = "reading" /\ Connected(c)
    /\ \E n \in seen[c] .. (IF seen[c] = 0 THEN 0 ELSE Len(rows)) :
          /\ seen' = [seen EXCEPT ![c] = n]
          /\ \/ Leave(c, IF ValidChain(SubSeq(rows, 1, n), Key) THEN "done" ELSE "tampered")
             \/ Leave(c, "raised")
    /\ UNCHANGED <<dbVars, stale, tip, base>>

-----------------------------------------------------------------------------
(* What can go wrong under a call: it raises, and the lock is released. *)

\* "database is locked", after the busy timeout.
BusyRead(c) ==
    /\ pc[c] \in {"locked", "selecting"} /\ Connected(c) /\ ~ MayRead(Owner[c])
    /\ Leave(c, "raised")
    /\ UNCHANGED <<dbVars, stale, tip, base, seen>>

BusyWrite(c) ==
    LET l == Owner[c] IN
    /\ pc[c] = "writing" /\ Connected(c) /\ ~ MayReserve(l)
    /\ tx' = [tx EXCEPT ![l] = AfterBegin(l)]
    /\ Leave(c, "raised")
    /\ UNCHANGED <<entries, anchors, open, pend, pendAnchors, stale, tip, base, seen>>

\* Mutant: log() returns its entry although the commit was refused.
BusyCommitSwallowed(c) ==
    LET l == Owner[c] IN
    /\ pc[c] = "committing" /\ Connected(c) /\ ~ MayCommit(l)
    /\ tx' = [tx EXCEPT ![l] = "pending"]
    /\ Leave(c, "done")
    /\ UNCHANGED <<entries, anchors, open, pend, pendAnchors, stale, tip, base, seen>>

BusyCommit(c) ==
    LET l == Owner[c] IN
    /\ pc[c] = "committing" /\ Connected(c) /\ ~ MayCommit(l)
    /\ tx' = [tx EXCEPT ![l] = "pending"]
    /\ Leave(c, "raised")
    /\ UNCHANGED <<entries, anchors, open, pend, pendAnchors, stale, tip, base, seen>>

\* The connection the call holds has been closed under it.
OnClosed(c) ==
    /\ pc[c] \in {"locked", "fetching", "writing", "committing", "selecting", "reading"}
    /\ ~ Connected(c)
    /\ Leave(c, "raised")
    /\ UNCHANGED <<dbVars, stale, tip, base, seen>>

\* The task is cancelled while it waits for the lock.
CancelWaiting(c) ==
    /\ pc[c] = "waiting"
    /\ Goto(c, "raised")
    /\ UNCHANGED <<dbVars, stale, tip, base, seen>>

Discard(l) ==
    /\ open' = [open EXCEPT ![l] = FALSE]
    /\ tx' = [tx EXCEPT ![l] = "off"]
    /\ pend' = [pend EXCEPT ![l] = << >>]
    /\ pendAnchors' = [pendAnchors EXCEPT ![l] = {}]
    /\ UNCHANGED <<entries, anchors>>

\* close() does not take the lock; sqlite3's close rolls the transaction back.
Close(l) ==
    /\ open[l]
    /\ Discard(l)
    /\ stale' = stale \cup {c \in Calls : Owner[c] = l /\ Active(c)}
    /\ UNCHANGED <<mutex, pc, tip, base, seen>>

\* The process dies; the journal is rolled back by the next to open the file.
Crash(l) ==
    /\ open[l] \/ \E c \in Calls : Owner[c] = l /\ Active(c)
    /\ Discard(l)
    /\ pc' = [c \in Calls |-> IF Owner[c] = l /\ Active(c) THEN "lost" ELSE pc[c]]
    /\ mutex' = [mutex EXCEPT ![l] = NoCall]
    /\ UNCHANGED <<stale, tip, base, seen>>

\* init() on a table that exists reads the schema and changes nothing.
Reopen(l) ==
    /\ ~ open[l] /\ \A m \in Ledgers \ {l} : tx[m] # "pending"
    /\ open' = [open EXCEPT ![l] = TRUE]
    /\ UNCHANGED <<entries, anchors, tx, pend, pendAnchors, mutex, pc, stale, tip, base, seen>>

-----------------------------------------------------------------------------
Step(c) ==
    \/ Acquire(c)
    \/ SelectTip(c)
    \/ FetchTip(c)
    \/ Submit(c)
    \/ InsertEntry(c)
    \/ InsertAnchor(c)
    \/ UpdateRow(c)
    \/ Commit(c)
    \/ SelectAll(c)
    \/ FetchAll(c)
    \/ BusyRead(c)
    \/ BusyWrite(c)
    \/ BusyCommit(c)
    \/ OnClosed(c)

Next ==
    \/ \E c \in Calls : Start(c) \/ Step(c) \/ CancelWaiting(c)
    \/ \E l \in Ledgers : Close(l) \/ Crash(l) \/ Reopen(l)

Spec == Init /\ [][Next]_vars

\* The event loop and the worker thread run whatever can run, and every
\* network request times out; nobody has to start a call, or to close.
FairSpec == Spec /\ \A c \in Calls : WF_vars(Step(c))

-----------------------------------------------------------------------------
PcLabels == {"idle", "waiting", "locked", "fetching", "submitting", "writing",
             "committing", "selecting", "reading"} \cup Done

HeadRow == [entry_id: Nat, entry_hash: Digest]

\* Every variable keeps its type.
TypeOK ==
    /\ entries \in Seq(Row)
    /\ anchors \in SUBSET HeadRow
    /\ open \in [Ledgers -> BOOLEAN]
    /\ tx \in [Ledgers -> TxStates]
    /\ pend \in [Ledgers -> Seq(Row)]
    /\ pendAnchors \in [Ledgers -> SUBSET HeadRow]
    /\ mutex \in [Ledgers -> Calls \cup {NoCall}]
    /\ pc \in [Calls -> PcLabels]
    /\ stale \in SUBSET Calls
    /\ tip \in [LogCalls \cup AnchorCalls -> HeadRow]
    /\ base \in [VerifyCalls -> Nat]
    /\ seen \in [VerifyCalls -> Nat]

\* What any connection can read is at every moment a chain verify_chain
\* accepts, with ids 1..n: whatever calls were cancelled, refused, or died,
\* and however many Ledgers write the file (chain.py log).
ChainIntact ==
    \A l \in Ledgers :
        /\ ValidChain(View(l), Key)
        /\ \A i \in 1..Len(View(l)) : View(l)[i].entry_id = i

\* A LedgerEntry that log() has returned is the row the table holds at that
\* id from then on, through closes and crashes.
ReturnedIsDurable ==
    \A c \in LogCalls : pc[c] = "done" =>
        /\ tip[c].entry_id < Len(entries)
        /\ entries[tip[c].entry_id + 1] = RowOf(c, tip[c])

\* One log() call writes at most one row, also when it raised and its row was
\* published by a later call's commit.
OneRowPerCall ==
    \A l \in Ledgers : \A i, j \in 1..Len(View(l)) :
        View(l)[i].body \in LogCalls /\ View(l)[i].body = View(l)[j].body => i = j

\* verify_chain() never reports tampering of a table only this code wrote,
\* although it reads without the lock, rows of open transactions included.
NoFalseAlarm == \A c \in VerifyCalls : pc[c] # "tampered"

\* The count verify_chain() returns covers every row committed before it began.
VerifyCoversCommitted == \A c \in VerifyCalls : pc[c] = "done" => seen[c] >= base[c]

\* Every anchors row binds a head the entries table really holds, although
\* anchor() reads the head and inserts its row in two separate transactions.
AnchorsBindEntries ==
    \A a \in anchors : \E i \in 1..Len(entries) :
        entries[i].entry_id = a.entry_id /\ entries[i].entry_hash = a.entry_hash

\* The tip a log() call has read is still the tip when it inserts.
TipIsObserved ==
    \A c \in LogCalls : pc[c] = "writing" /\ Connected(c) => tip[c] = TipOf(View(Owner[c]))

\* Every call that waits for the lock gets an answer, a result or an
\* exception: no error path keeps the lock.
CallsFinish == \A c \in Calls : pc[c] = "waiting" ~> pc[c] \in Done

=============================================================================
