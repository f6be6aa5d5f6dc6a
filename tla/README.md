# Nexuscone in TLA+

Nexuscone (`src/nexuscone`) is a tamper-evident audit log: an asyncio class,
`Ledger`, over one SQLite file. This directory models it in TLA+, checks the
models with TLC on small instances, and proves the main theorems with TLAPS
for instances of any size.

## 1. The system

| Component | Code | State | Operations |
|---|---|---|---|
| hash chain | `chain.py` (`_compute_entry_hash`, `verify_chain`), `canonical.py` | `entries` rows | hash a row, walk a table |
| Ledger | `chain.py` | an `aiosqlite` connection, an `asyncio.Lock`, the `entries` table | `init`, `log`, `verify_chain`, `close` |
| schema | `chain.py` (`init`, `_migrate_*`), `schema.py` | tables, columns, indexes | create, migrate |
| anchoring | `chain.py` (`anchor`, `_submit_ots_track`, `_submit_tsa_track`), `anchors.py` | the `anchors` table; what a call has collected so far | `anchor` |
| anchor schedule | `anchor_schedule.py` | the caller's counter and clock | `should_anchor` |
| RFC 3161 client | `rfc3161.py` | none | `submit_to_tsa`, `verify_tst` |
| confirmation | `poller.py`, `chain.py` (`list_unconfirmed_anchors`, `confirm_anchor`) | the proof, height and hash of an anchors row; a run's list | `upgrade_pending_anchors` |
| witnesses | `chain.py`, `witnesses.py`, `schema.py` | `witnesses`, `witness_attestations` | `register_witness`, `retire_witness`, `attest_with_witness`, `verify_witness_attestations` |
| signing | `signing.py` | keys | `sign`, `verify` |
| verifier CLI | `verifier.py` | none | the checks above, on a file |
| queries | `chain.py` (`get_*`, `count`, `list_witnesses`) | none | SELECTs |

**How they interact.** Every writer of one `Ledger` object (`log`, `anchor`,
`confirm_anchor`, the witness writers) runs under `self._lock`; the readers,
`verify_chain` included, and `close` do not take it. All calls of one object share one
connection, and so one SQLite transaction: a row that one call has inserted and
not committed is visible to the next call, and is published by whichever commit
comes first. The lock belongs to the object. A second `Ledger` on the file, in
the same process or another (`nexuscone-verify --upgrade-pending` is one),
is held off by SQLite's file locks and the primary key only. The poller and
the CLI reach the tables through a `Ledger`. Nothing in the package calls
`should_anchor`: an application's loop does, and calls `anchor()`.

**What is hard here.**

- *Cancellation and failure between statements.* Each statement is an `await`
  on a worker thread. If the awaiting task is cancelled the statement runs all
  the same; if a commit is refused ("database is locked") the transaction stays
  open. No path of the code rolls back. A caller that was told its `log()` failed may find
  its row in the chain later.
- *Reads before awaits.* The tip of the chain, the head to anchor, the previous
  attestation and the list of pending anchors are all read in one statement and used in a
  later one.
- *Close under running calls*, followed by a reopen: some calls keep the connection they
  captured, others look it up again.
- *Several ledgers on a file*, each with its own lock.
- *DDL outside transactions.* A migration commits statement by statement, so that
  another process, or the next start after a crash, finds the file half-migrated.
- *Third parties* that fail in any combination, late or never.
- *An editor of the file.* `verify_chain` sees one row and one hash at a time; what its
  verdict means for the whole table is a statement about histories.

## 2. The modules

| Module | Models |
|---|---|
| `Chain` | rows, digests, the per-row checks of a walk |
| `VerifyChain` | the loop of `verify_chain()` over a table anyone may have edited |
| `Ledger` | `log`, `anchor`, `verify_chain`, a row update (`confirm_anchor`), `init`, `close`, crash: coroutines, lock and SQLite |
| `AuditLog` | the abstract append-only log that callers of `log()` rely on |
| `LedgerRefinement` | the mapping from `Ledger` to `AuditLog` |
| `Schema` | `init()` and its migrations, statement by statement |
| `Rfc3161` | the answers of a TSA, `submit_to_tsa` and `verify_tst` |
| `AnchorTracks` | the steps of one `anchor()` call |
| `Anchoring` | the application's loop around `should_anchor`, which makes the calls |
| `Poller` | calendars, pollers, `confirm_anchor`, `--check-anchors` |
| `Witness` | the witness registry, the sub-chains, their verification |
| `DataLemmas` | facts about sequences and naturals that the proofs share |
| `LedgerProofs`, `LedgerRefinementProofs`, `VerifyChainProofs`, `SchemaProofs`, `AnchoringProofs`, `PollerProofs`, `WitnessProofs` | the theorems about the module each names |
| `MCLedger`, `MCVerifyChain`, `MCSchema`, `MCAnchoring`, `MCPoller`, `MCWitness` | values for the constants |

`Anchoring` extends `AnchorTracks`, which extends `Rfc3161`; `Ledger` and
`VerifyChain` extend `Chain`; `LedgerRefinement` instantiates `AuditLog`.

An operator marked "Mutant" in a module is a wrong version of the definition
that follows it: a bug the code could plausibly have. Replacing the definition by it makes
TLC refute the property that PROJECT.json pairs it with, which shows that the property
depends on that piece of code.

### Chain

SHA-256 over canonical JSON is a perfect hash: a digest *is* the sequence of
tuples it commits to. `entry_hash` appends the row's hashed fields to
`previous_hash`; format 1 leaves `event_type` out. Timestamp, actor, action and
payload are one value, `body`. A signature is the pair of the key and the message it
signs; a verifier is the set of keys it holds.

### VerifyChain

`rows` is the table the SELECT returned, `expected_previous` the loop's variable, `at` its
position. `WalkRow`, `Raise` and `Return` are the loop's body and its ends. `Written` is the
table as `log()` left it, `Tables` what may be found in its place, restricted only by
`TablesAssumption`: a signature in it was made by `log()` (Ed25519).
`HashBindsHistory` and
`SignedHistoryIsWritten` say what an accepted table has to do with the one that was
written: one `entry_hash` that is known from elsewhere, or one signature, binds every
row up to it. Without either an edit whose hashes were recomputed to the end is
accepted, as the design says. So are edits of columns that no hash covers (section 4). A signature that is not hex makes
`bytes.fromhex` raise ValueError instead of ChainVerificationError; that case is left out.

### Ledger

`pc[c]` is the await at which call `c` stands, `mutex[l]` the holder of
`self._lock`, `entries` the committed table, `pend[l]` the rows of ledger `l`'s
open transaction, `tx[l]` how far that transaction has come with the file lock
(none, SHARED, RESERVED, PENDING). What a connection reads is
`View(l) == entries \o pend[l]`.

| Action | Code |
|---|---|
| `Start`, `Acquire` | `_require_db()`, `async with self._lock` |
| `SelectTip`, `FetchTip` | the SELECT of the tip and its `fetchone` (an open cursor keeps SHARED) |
| `Submit` | `anchor()`'s network phase |
| `InsertEntry`, `InsertAnchor`, `UpdateRow` | the INSERTs, with the primary and the foreign key, and an UPDATE |
| `Commit` | `await db.commit()` and the return |
| `SelectAll`, `FetchAll` | `verify_chain` |
| `BusyRead`, `BusyWrite`, `BusyCommit` | "database is locked" |
| `OnClosed` | a statement on a connection that has been closed |
| `CancelWaiting`, and the raising branch of `GotoOrRaise` | cancellation |
| `Close`, `Crash`, `Reopen` | `close()`, the death of the process, `init()` |

The SQLite definitions are external: they model rollback-journal mode, the
sqlite3 module's implicit BEGIN before a DML statement, and its commit. A
commit that meets a reader's SHARED fails and leaves PENDING.
`UpdateRow` stands for `confirm_anchor`: what matters of it to the chain is its lock and its commit;
its trailing SELECT, which runs after both, is left out.

Properties: `ChainIntact` (every view is a valid chain with ids 1..n),
`ReturnedIsDurable`, `OneRowPerCall`, `NoFalseAlarm` and
`VerifyCoversCommitted` (about `verify_chain`), `AnchorsBindEntries`,
`TipIsObserved`, and `CallsFinish` (no error path keeps the lock).

`AuditLog` says the same to a caller in five actions: a call is made, fails, dies,
or returns at the moment its row becomes durable; the log grows only by sound rows of calls
that were made, each once, a failed call's row possibly among them.
`ImplementsAuditLog` is the refinement.

### Schema

The file is a set of `<<table, column>>` pairs (only columns that some version lacks or
some index needs), a set of indexes and the format of each row. `Program` is the list of
statements `init()` executes; `step[o]` is where an opener stands, `known[o]` the set its last
`PRAGMA table_info` returned. Each statement commits by itself: Python's sqlite3 begins transactions
for INSERT, UPDATE and DELETE only. `SchemaError` is "duplicate column name" and
"no such column"; `Interrupt` stands for a locked database, a cancellation, a crash, a close.
`RowsReadAsHashed` relates the format a row was hashed in to the one `verify_chain` will take, while one
process migrates and another logs. `LoneOpenerSucceeds`, `OpenedIsComplete` and
`EveryOpenerOpens` are about collisions: two openers may make each other fail, but a retry gets
through. Column types and constraints are not modelled; the NOT NULL on `ots_proof_blob` that an
`anchors` table of an early development build keeps (`chain.py:411-415`) is in `Anchoring`.

### Rfc3161, AnchorTracks, Anchoring

An answer is its HTTP status, whether it decodes, its PKIStatus, whether it has a
TSTInfo that can be read, and the imprint in it. `submit_to_tsa` does not compare the imprint with the request, so
`Answers` lets a TSA stamp something else; `StoredTokensVerify` says that this is the only reason
for `--check-tst` to report FAILED.

`AnchorTracks` has the steps of one call and no specification of its own:
`AskCalendar` and `CalendarsAsked` are the OTS track, `Granted`, `Refused`, `Escapes` and `TsasExhausted` the
TSA track, `BothFailed` the end of both. A row takes two awaits: `Insert` executes the INSERT, `Commit` the
commit, and after either the task may have been cancelled (`GoesOn`), so that the call raises and its row is there.
`DatabaseRefuses` is a locked file, a closed connection or a head that was rolled back, at the SELECT, the INSERT or the
commit; `Cancel` a cancellation at any await before the INSERT. `Escapes` is what leaves `submit_to_tsa` as
another exception than TSAError: `urllib.request.Request` refuses the URLs in `Unparseable` with a
ValueError, and the accessors of a TSTInfo may raise, both outside any `try`. `ConstraintFails` is the
NOT NULL on `ots_proof_blob` of an old table.

`Anchoring` composes those steps with a table, a chain that grows, a clock, and a loop: `CallDue` is taken
when `ShouldAnchor` says so, of the two values its parameters are documented to be; `CallUnasked`
is a call that nobody asked for. `rows` is what the Ledger's connection sees, `durable` how much of it is committed.
`Store` is the INSERT, `Publish` the commit, which a connection closed meanwhile refuses. A call that was cancelled or refused
may leave its row uncommitted: `LogEntry` and `OtherCommit` publish it, `Close` takes it away.
`AnchoredIsDurable` says that a returned anchor is committed nevertheless. The head is read by the call and
`submitted_at` is the time of the insert, so both
are later than the decision. `AnchorsAreSpaced` says that the distance the
schedule asks for holds between the *rows* nevertheless; `AnchorsAdvance` that no anchor goes back, and that
one the loop asked for covers something new unless the schedule's threshold is 0 or
less. `EitherTrackSuffices` lists every reason for which a call with a proof in hand may raise:
a track that fails is not one of them, except with the old NOT NULL.

Assumed of the application, which is the user's code: it makes one call at a time, so that no `anchor()` waits for
the lock behind another one between its decision and its head, and it reads the last
anchor through the Ledger it anchors with, so that it sees the rows that Ledger has not committed. With two such loops a head may be
anchored twice. `pc = "start"` stands for the wait for the lock, held by other calls than `anchor()`, and the SELECT of the head.
The file locks of these steps are in `Ledger`.

### Poller

A stored proof is two sets of calendars: those with a pending attestation in it, and
those whose Bitcoin attestation has been merged. `Mine` is the calendars' work, `Age` the
passing of `max_age_minutes`. A run (`run[p]`) holds the list as it was read,
and the proof it is building; `Confirm` is the unconditional UPDATE.
`CheckFails` is what `--check-anchors` reports of a row, `Walked` the rows it looks at. Confirming a row, committing
and the next turn of the loop are one step. `FailOne` is an anchor counted as failed: `confirm_anchor` may have stored
the row all the same, when its last SELECT raised or when its commit was refused and a later one of the
connection publishes the UPDATE; the model stores it at once, as the connection itself sees it. `Ledger` is the module about what can
happen between an UPDATE and its commit.

### Witness

Like `Ledger`, one level up: the SQLite part is reduced to one writer at a time
(`writer`, `work`), committed tables (`db`) and busy errors. An attestation's
hash is the sequence it commits to. `signed_at` is the call. `Subchain(t, w)` is
the set of attestation ids of witness `w`, and `HashBefore(t, w, n)` the hash of the newest
of them below `n`: `ORDER BY attestation_id DESC LIMIT 1`, and the link the walk expects of
row `n`. `got[c].known` is `witnesses_by_id`: the walk takes each witness's key from
its first statement and the attestations from its second. Between them (`listed`) it has no cursor open, so any
Ledger may commit; while it walks, other Ledgers may not (`MayCommit`).
A signer's `key_id` is a label that its constructor takes: `KeyOf` is the label, which is compared with the registered key, and
`SignsWith` the key that signs, which is compared with nothing. `PublicKeys` is the mapping a verifier is
built from; a label that is not in it does not verify. A walk that fails says why: `mismatch` (a link or
hash), `unsigned`, `unknown`. `WalkGroup` is one witness's group of
rows in `ORDER BY witness_id, attestation_id`: the index on
`(witness_id, signed_at)` gives the groups, SQLite sorts a group as the cursor
enters it, and it does not look for further groups once in the last.
aiosqlite fetches 64 rows at a time; the model interleaves at every group, a chunk of one.

## 3. The runs

| Run | Shows |
|---|---|
| `VerifyChain` | a table of three rows, both formats, two signed; every edit of a field, removal, insertion, swap and renumbering, and each of these with the hashes recomputed from any row on; no verifier, one key, both keys: `WalkInvariant`, `HashBindsHistory`, `SignedHistoryIsWritten` |
| `Ledger_one` | one ledger on an empty or a migrated file (a format-1 row, then a format-2 row); two `log()`, `anchor()`, `verify_chain()` with every cancellation, close, reopen, crash: `TypeOK`, `ChainIntact`, `OneRowPerCall`, `VerifyCoversCommitted`, `AnchorsBindEntries`, `TipIsObserved` |
| `Ledger_two` | two ledgers on an empty file, one `log()` on one, two and a `verify_chain()` on the other: `ChainIntact`, `ReturnedIsDurable`, `NoFalseAlarm`, and the refinement `ImplementsAuditLog` |
| `Ledger_live` | two ledgers, `log()`, `anchor()` and a row update: `CallsFinish` under `FairSpec` |
| `Schema` | two openers of a new file, a v0.1.0 file and a development build's, with two interruptions: `OpenedIsComplete`, `RowsReadAsHashed`, `LoneOpenerSucceeds`, and `EveryOpenerOpens` under `FairSpec` |
| `Anchoring_any` | six schedules over two calendars and three TSAs, one of them unparseable, with and without the old NOT NULL: `TypeOK`, `RowCarriesProofs`, `AnchoredIsDurable`, `EitherTrackSuffices`, `FallbackInOrder`, `StoredTokensVerify`, `AnchorsAdvance`, `AnchorsAreSpaced`, and `CallEnds` under `FairSpec` |
| `Poller_race` | two pollers, one anchor, two calendars that land in different blocks, one failure or crash: `TypeOK`, `ConfirmedRowsPass`, `ProofsAreObtained` |
| `Poller_one` | one poller, three anchors, a list cut at two, ageing: `ConfirmedIsFinal`, and `MinedIsConfirmed` under `FairSpec` |
| `Poller_kept` | violation of `AttestationsKept` |
| `Poller_checked` | violation of `ConfirmedIsReported` |
| `Witness_one` | any four of a registration, two retirements, three attestations of two witnesses and a walk; each witness attests on a ledger of its own, and the first one's ledger registers and retires the second witness, whose signer has the right name and another key: `TypeOK`, `SubchainsLinked`, `HeadsAscend`, `LinksVerify`, `SignatureFailuresExplained`, `UnknownIsNew`, `RetiredNeverAttests`, `RetirementIsKept` |
| `Witness_fork` | violation of `SubchainsLinked` |

**Bounds.** The calls of a `Ledger` or `Witness` instance are its constants; each runs once. The
shortest failures of the ledger take a call that is abandoned with its row in
the transaction, one that builds on that row, and a close or a second ledger: two or three
calls. `Ledger_two` has three `log()` calls so that two rows of one
transaction, one of an abandoned call, become durable in one commit. Closes, reopens and crashes are
not bounded. In `Witness`, `MaxCalls` is how many of the calls start in a behaviour; four is a register, attest, retire
and verify, the shortest that could lose a witness to the walk, or two attestations around a retirement; `HeadsAscend` needs two heads
(`MaxHead`). There the two retirements and two of the attestations are the same call
made twice, so they are symmetric; that run has no liveness property. The walk is on the other ledger than the registration, so
TLC reaches `unknown` and `unsigned`. Both retirements are on one ledger there; that a retirement made on two
is kept too is `RetirementStays` (section 5). In `Poller`, `MaxRows`
bounds the anchors and `MaxFailures` the failures and crashes; three anchors and a `Limit` of two are the
least that leave one behind the list, and a race on a proof needs two calendars.
In `Anchoring`, `MaxEntries` (3) and `MaxMinutes` (3) let both thresholds of a schedule
be met in either order, `MaxRows` is two because the properties of rows relate an anchor to the one before it, which
may be one that no call returned; the schedules
are both tracks, each alone, no track at all, a threshold of 0, and a disabled one. In `Schema`, a third
opener would do nothing a second cannot; `MaxInterrupts` is two so that a migration is left half-done twice.
`VerifyChain` has three rows: an edit in the middle has a row before and after it.

**Deadlock.** TLC checks for it except where an instance really ends:
an `Anchoring` instance at its bounds, a `Schema` instance when everyone has the file open and its rows
are in, a `Poller` instance when all its anchors are
confirmed or too old, a `VerifyChain` walk at its verdict.

**Fairness.** `Ledger`: weak fairness of `Step(c)` for each call, since
the event loop resumes whatever can run, every SQLite statement answers or
times out, and `Submit` ends because every request has a timeout. Starting a
call, cancelling and closing are not fair. `Anchoring`: the same, for
the steps of the call that runs (`Read`, `Submit`, `Store`, `Publish`, `Fail`). `Schema`: an opener's statements are executed,
and a caller whose `init()` raised calls it again; it is about callers that do.
`Poller`: `upgrade_pending_anchors` works through its
list and is started again and again (weak), and a calendar that has
an upgrade, and the block explorer, answer now and then although any single
request may fail (strong). New anchors, blocks, failures and crashes are not fair.

**What the poller promises.** `MinedIsConfirmed` holds of an anchor once fewer than `Limit` older
ones are waiting. Without that condition it is false: anchors that stay pending keep a
later one out of the list when `max_age_minutes` is None.

## 4. Disagreements between the code and what is said of it

Each is a run in which TLC finds a violation.

1. `Poller_kept`. `poller.py:8-9`: "merges the upgrade back into the stored
   tree". Two pollers: the later `confirm_anchor` replaces the tree with the one it
   built on an older copy, and drops an attestation.
2. `Poller_checked`. `verifier.py:48`: "Walk every anchor". `--check-anchors` and
   `--check-tst` look at what `get_anchors()` returns by default, the 500 oldest.
3. `Witness_fork`. `witnesses.py:87-90`: `prev_attestation_hash` is the
   "attestation_hash of the previous attestation from this same witness". Two
   ledgers attesting for one witness write the same one twice, and
   verification fails from then on.

Met on the way and not kept as runs:

- `README.md:14` ("any later edit to a stored row ... breaks verification"), `README.md:148` ("any post-write edit to any field
  on any row produces a hash mismatch") and `chain.py:10-12` hold of the hashed fields only. `verify_chain()` accepts an edit of
  `event_type` on a format-1 row, which its hash leaves out; of `format_version` between values of 2 and above; and a
  `signature` set to NULL, since unsigned rows are valid. `HashBindsHistory` and `SignedHistoryIsWritten` are about the hashed
  fields, and their run has those edits among its tables.
- `README.md:114` and `chain.py:472` promise that either anchor track may fail without blocking the other: on an
  `anchors` table with the old NOT NULL (`chain.py:411-415`) the TSA's token alone is refused.
- `signing.py` lets a signer's `key_id` differ from its key, and `attest_with_witness` compares the `key_id` only
  (`chain.py:1131`): what such a signer attests is stored, and fails in `verify_witness_attestations`.
  `SignatureFailuresExplained` names it.
- A TSA URL without a scheme raises ValueError out of `submit_to_tsa` (`rfc3161.py:117`), as may a TSTInfo whose
  accessors cannot read it (`rfc3161.py:146-156`), and the
  calendars' proof is lost, against `chain.py:472` ("Either track may fail entirely without blocking
  the other") and `rfc3161.py:105` ("Raises TSAError on any failure"). `EitherTrackSuffices` names this exception.
- `chain.py:1266-1267` reports a witness "which does not exist" that was
  registered, and attested, between the two reads of `verify_witness_attestations`;
  `UnknownIsNew` says it happens in no other way.
- The README's "makes concurrent writes safe under contention" holds of one `Ledger` object (`TipIsObserved` in `Ledger_one`);
  with two on a file the tip can move, and the writer that loses gets an IntegrityError, never
  a broken chain (`Ledger_two`).
- A row confirmed without a block hash never gets one, although `poller.py:14-16` speaks of a retry.
- `anchor_schedule.py:46-47` says only the first TSA is contacted; the code falls
  back to the others.
- `--upgrade-pending` exits with 0 when upgrades failed; `verifier.py:17` promises 1 on any failure.
- With two ledgers and a close and reopen during
  `anchor()`, an anchors row can bind a head that was rolled back and replaced at its id; no command
  compares the head of an anchor or an attestation with the entries.

## 5. The proofs

All of them are for every value of the constants, from the named assumptions of the modules only:
any number of ledgers, calls, rows, calendars, TSAs, schedules, pollers, openers and witnesses. The
bounds (`MaxRows` and its like) are constants too, so they may be as large as one likes.

| Module | Theorem | Says |
|---|---|---|
| `LedgerProofs` | `TypeCorrect` | `Spec => []TypeOK` |
| | `LocksExclude` | `Spec => []LockInv` |
| | `ChainInvariant` | `Spec => []ChainInv` |
| | `ChainStaysIntact` | `Spec => []ChainIntact` |
| | `ReturnedStaysDurable` | `Spec => []ReturnedIsDurable` |
| | `VerifyIsSound` | `Spec => []NoFalseAlarm` |
| | `OncePerCall` | `Spec => []OneRowPerCall` |
| | `VerifyCountCovers` | `Spec => []VerifyCoversCommitted` |
| | `TipStaysObserved` | `Spec => []TipIsObserved`, if one ledger logs |
| | `AnchorsStayBound` | `Spec => []AnchorsBindEntries`, if one ledger logs |
| `LedgerRefinementProofs` | `LedgersImplementAuditLog` | `Spec => ImplementsAuditLog` |
| `VerifyChainProofs` | `WalkIsInvariant` | `Spec => []WalkInvariant` |
| | `HashesBind` | `Spec => []HashBindsHistory` |
| | `SignaturesBind` | `Spec => []SignedHistoryIsWritten` |
| `SchemaProofs` | `OpenedStaysComplete` | `Spec => []OpenedIsComplete` |
| | `ReadsAsHashed` | `Spec => []RowsReadAsHashed` |
| | `LoneMigrates` | `Spec => []LoneOpenerSucceeds` |
| `AnchoringProofs` | `TypeCorrect` | `Spec => []TypeOK` |
| | `RowsCarryProofs` | `Spec => []RowCarriesProofs` |
| | `AnchoredStaysDurable` | `Spec => []AnchoredIsDurable` |
| | `EitherTrackIsEnough` | `Spec => []EitherTrackSuffices` |
| | `TokensVerify` | `Spec => []StoredTokensVerify` |
| | `TsasInOrder` | `Spec => []FallbackInOrder` |
| | `AnchorsGoForward` | `Spec => []AnchorsAdvance` |
| | `AnchorsKeepDistance` | `Spec => []AnchorsAreSpaced` |
| `PollerProofs` | `TypeCorrect` | `Spec => []TypeOK` |
| | `ConfirmedPass` | `Spec => []ConfirmedRowsPass` |
| | `AttestationsAreReal` | `Spec => []ProofsAreObtained` |
| | `OnePollerConfirmsOnce` | `Spec => ConfirmedIsFinal`, if there is one poller |
| `WitnessProofs` | `TypeCorrect` | `Spec => []TypeOK` |
| | `RetirementStays` | `Spec => RetirementIsKept` |
| | `RetiredWitnessesAttestNothing` | `Spec => []RetiredNeverAttests` |
| | `UnknownWitnessesAreNew` | `Spec => []UnknownIsNew` |
| | `SignatureFailuresHaveCause` | `Spec => []SignatureFailuresExplained` |
| | `SubchainsStayLinked` | `Spec => []SubchainsLinked`, if each witness attests on one ledger |
| | `HeadsStayAscending` | `Spec => []HeadsAscend`, if each witness attests on one ledger |
| | `LinksAlwaysVerify` | `Spec => []LinksVerify`, if each witness attests on one ledger |
| | `AttestationsStayGenuine` | `Spec => []AttestationsGenuine`: the hash, the name and the key of every attestation, whoever attests |

The assumptions: `CallsAssumption` (the kinds of call are disjoint and each runs on
some ledger); `InitialTablesAssumption` (a table found on disk is a
valid chain with ids 1..n); `WrittenAssumption`, `TablesAssumption` and `VerifiersAssumption` (what was written is a valid
chain, signatures cannot be forged); `TracksAssumption` and `SchedulesAssumption` (types, and that None
is no row or token); `PollerAssumption` (types); `InitialFilesAssumption` (a file found on disk lacks
whole tables, or only columns that `init()` adds, and a row stored without
`format_version` was hashed in format 1); `WitnessAssumption` (the kinds of call are
disjoint, and the keys of earlier registrations differ, as `public_key_hex` is UNIQUE).

**Hypotheses.** Six theorems have one besides the assumptions, and each is needed.
`TipStaysObserved` and `AnchorsStayBound` have `OneLogger`: all `log()` calls are on one ledger,
while any others anchor, confirm, verify, close and crash, as an application's
ledger does with `nexuscone-verify --upgrade-pending` beside it. A second logger's row can
take the id after a tip that was read, or the place of a head that was rolled back (section 4).
`SubchainsStayLinked`, `HeadsStayAscending` and `LinksAlwaysVerify` have `OneLedgerPerWitness`: calls that attest for
one witness run on one ledger. The other ledgers may register, retire, verify and attest for
other witnesses. `Witness_fork` is what happens otherwise. `OnePollerConfirmsOnce` is about
one poller: two of them may both have a row in their lists.

**Ledger.** `ChainIntact` is not inductive: an insert is sound because of
what the call read earlier and what nobody did since. Two invariants are needed.

*LockInv*, about locks alone: at most one call of a ledger is between
acquiring the lock and its end (`Exclusive`); at most one connection holds
RESERVED or PENDING (`OneWriter`); only it has uncommitted rows
(`PendIsWriting`); and a call at its commit has it, unless closed under it
(`CommittingIsWriting`).

*ChainInv*: every view is sound; the head a live call has read is *covered* by its
connection's view (its id is in the view and its hash is that row's, `TipsCovered`);
a row inserted by a call at its commit is in its view (`RowsKept`); returned rows are
in the table. Coverage, not equality, is what survives a second ledger: rows may have
been committed since the tip was read. It is enough, because ids are 1..n: if the id after a covered
head is free, the head is the last row (`FreeIdIsNext`), so an insert that the
primary key does not refuse extends the chain (`AppendSound`). A commit publishes a view and
leaves the other views alone, since only the writer has rows pending
(`PendIsWriting`). A close drops a connection's rows and makes every live call on it
stale at the same moment, which is why heads read from them do no harm.

`verify_chain` walks a prefix of a sound view, and a prefix of a sound
chain is sound (`PrefixSound`).

`OnceInv` is what `OneRowPerCall` rests on: a row's call was made and is past its insert, so
it inserts no other, and no two rows of a view have one call. A row of an abandoned call moves from a
connection's transaction to the table but is never in both. `CountInv` keeps what `verify_chain`
will count at least as large as the table was at its start.

When one ledger logs, the tip is not only covered: `LoggerInv` says that a live `log()` call's
tip *is* the last row of the view, since only the logger has rows pending
(`PendIsLogged`), so that nobody else's commit changes what it reads (`LoggerView`). An `anchor()` call may hold
a head through a close and a reopen (its reads look the connection up again). On the logger
the invariant about it is therefore weaker, that no row
has its id and another hash, and a foreign key that finds the id then finds the head. On another ledger the
head was read from committed rows and stays there.

**The refinement.** A step of the ledgers is one of `AuditLog`'s five actions or a
stutter. The commit is the hard step: the rows it publishes are of calls that
`AuditLog` must still know as made and unanswered, or as failed. `PendInv` supplies it, on top of `LockInv`,
`ChainInv` and `OnceInv`: a row in an open transaction has a call that is at its commit
or has raised, on that ledger, and the row a live call is about to commit is not in
the table yet.

**Schema.** `SchemaInv` follows the program counter: what the statements up to
`step[o]` are there to leave behind is in the file (`Executed`), and stays, since nothing is
dropped (`EffectKept`). No table is ever half there but for the columns to be added
(`TablesWhole`), and a row has no `format_version` exactly as long as the column is missing
(`Formats`). `InfoFresh` is about an opener that has been alone since it began: a column that is there
and that it has yet to consider was there when it asked `table_info`. The statements of
`init()` are a constant sequence, so what the argument needs of their
order (a table before its indexes, `table_info` before the ALTERs of its table) is read off it once
(`Prerequisites`, `InfoOrder`, `Complete`).

**VerifyChain.** `WalkInvariant` says that `expected_previous` commits to the history of all rows
that passed (`HistoryGrows` is its step). Two rows with one hash then have one history, so they are at one
position (`HistoriesAgree`). That the written table has the same property is `ValidHistories`, an
induction over its rows.

**Anchoring.** `ProofsInv` and `QueueInv` are about one call: what it has in hand and why it raised, and that the
TSAs contacted and those to try are successive parts of the schedule's list. The spacing of
rows rests on `DueInv`: from the decision to the insert, an anchor of the head that will be used *stays* as
far from the newest row as the schedule asked. It does because entries and the clock only grow, and because
only the call itself adds a row; a `Close` that takes rows away moves the newest back, which makes the
distance larger. `DurableInv` says that while a row at its commit is uncommitted it is the newest, so that a commit
that finds something to publish publishes that one.

**Poller.** A poller's copy of a proof outlives the row it was read from, which others may confirm
meanwhile. `RunOK` keeps what stays true of the copy: its calendars are the row's (a confirmation does not
change them), its attestations are real (a calendar does not take one back), and the height and hash about to
be stored are those of the copy. `RunsKept` shows that it survives any step of the others,
whatever `Grows` allows. `OnePollerConfirmsOnce` needs more of the list: it is in ascending order, so
no anchor comes twice (`ListedItems`, from `Ranks`).

**Witness.** `KeepInv`: types, which call can be where and with what lock, and that an open
transaction has lost nothing that is committed, no witness, key or retirement.
From it follow `RetirementIsKept`, that a call which started after a retirement never gets past its check
(`RetiredInv`), and that a walk knows the witnesses committed before it (`KnownInv`).
`AttestInv` is the argument about sub-chains. Every row of the tables and
of the open transaction is good (`RowsOK`: it is named for its witness's key, it links to the row before it,
its hash is its fields', its head is not below an earlier one). A live call that has read a head and a previous hash
still has them right at its insert (`PendingOK`), because no other ledger's transaction holds rows of
its witness (`OthersAttestNothing`) and its own ledger's lock is its. The lock is not
enough alone: rows that a cancelled call left in the transaction are in the view it reads from, and
a close makes the call stale in the same step in which those rows vanish. A walk takes no lock, yet every view
it can meet is good, so it reports no broken link or hash.

`KnownInv` makes no use of what may commit between the walk's two reads: the registry only grows in what is committed, so
a witness that was there when the walk began is in what its first read returned.

`GenuineInv` is what holds with no condition on who attests, so also after the fork of
`Witness_fork`: an attestation has the hash of its own fields, was made under the registered key's name, and with that key
unless its signer is `Mislabelled`. A `witness_id` may get another key, when the registration that used it is rolled back, but the
witness that a live `attest()` has looked up is still in its connection's view when it signs and inserts
(`KeyChecked`), since what drops it from there makes the call stale.
`SignatureFailuresHaveCause` follows with `KeysInv`, that the keys a walk has read are those of the rows it will meet, whatever commits or
closes in between, and `MadeInv`, that the call of an attestation is past its insert: if the verifier holds the registered key, the row that
fails is one a mislabelled signer made.

**Induction.** The provers do not take the library's induction theorems. Where a proof needs one (`Ranks`, `ValidHistories`) it
takes the least counterexample: `MinNat` in `DataLemmas` derives it from the library's
`NatLessThanWellFounded` and `WFMin`.

## 6. What is only model-checked, and what is not modelled

Model-checked only, as out of the prover's reach: the liveness properties `CallsFinish`,
`CallEnds`, `MinedIsConfirmed` and `EveryOpenerOpens`. Every safety property
of a passing run is a theorem. The three violations are TLC's.

Not modelled:

- canonical JSON and SHA-256 (a perfect hash stands for them), Ed25519 (unforgeable pairs), the ASN.1 of RFC 3161 and the
  signature inside a token, which the code does not check either;
- the merge of OpenTimestamps trees beyond which attestations are in it;
- read-only queries, each of them one SELECT that changes and keeps nothing; output and exit codes of the CLI;
- types and constraints of columns, except the primary and foreign keys that decide races and the old NOT NULL of `ots_proof_blob`;
- a clock that goes back (`submitted_at` is wall-clock time; the model's is monotone);
- an application that runs two anchoring loops, or decides on another connection's view of the anchors.

## 7. Plan

1. Done: the modules and runs above; the proofs of section 5, the refinement of `AuditLog`
   and all safety properties among them.
2. Proofs: a form of `SubchainsStayLinked` for each witness by itself, so that a fork of one sub-chain
   leaves the others linked.
