----------------------------- MODULE Anchoring ------------------------------
(***************************************************************************)
(* Anchoring on a schedule: an application asks should_anchor from time to *)
(* time, and calls Ledger.anchor() when it is told to, or whenever it      *)
(* likes.  It passes what should_anchor asks for: the entries since the    *)
(* last anchor, and that anchor's submitted_at, which it reads through the *)
(* Ledger it anchors with.  Entries come from any Ledger on the file, also *)
(* while a call runs.  The application, which the package leaves to its    *)
(* user, has one loop: it makes one call at a time.                        *)
(***************************************************************************)
EXTENDS AnchorTracks, Integers

CONSTANTS
    Schedules,      \* the AnchorSchedules an application may configure
    MaxEntries,     \* bound: entries in the chain
    MaxMinutes,     \* bound: minutes on the clock
    MaxRows         \* bound: rows of the anchors table

\* A schedule names the first calendars and the first TSAs of Calendars and Tsas.
ASSUME SchedulesAssumption ==
    /\ Schedules \subseteq [enabled: BOOLEAN, every_n_entries: Int, every_m_minutes: Int,
                            calendars: 0..Len(Calendars), tsas: 0..Len(Tsas)]
    /\ MaxEntries \in Nat /\ MaxMinutes \in Nat /\ MaxRows \in Nat

VARIABLES
    schedule,
    entries,      \* how many entries the chain has
    now,          \* the clock, in minutes
    blobRequired, \* whether the table found has NOT NULL on ots_proof_blob
    scheduled,    \* whether should_anchor asked for the call that runs
    rows,         \* the anchors the connection sees: head, submitted_at, who asked
    durable       \* how many of them are committed

setup == <<schedule, blobRequired>>
vars == <<tracks, setup, entries, now, scheduled, rows, durable>>

Init ==
    /\ TracksInit
    /\ schedule \in Schedules /\ blobRequired \in BOOLEAN
    /\ entries = 0 /\ now = 0 /\ scheduled = FALSE
    /\ rows = << >> /\ durable = 0

EntriesSinceLast == entries - (IF rows = << >> THEN 0 ELSE Last(rows).head)

\* Mutants: the caller may be told to anchor what is anchored; seconds for minutes.
ShouldAnchorAgain(since) ==
    /\ schedule.enabled
    /\ \/ since >= schedule.every_n_entries
       \/ rows # << >> => now - Last(rows).submitted_at >= schedule.every_m_minutes

ShouldAnchorInSeconds(since) ==
    /\ schedule.enabled
    /\ \/ since >= schedule.every_n_entries
       \/ /\ since > 0
          /\ rows # << >> => (now - Last(rows).submitted_at) * 60 >= schedule.every_m_minutes

ShouldAnchor(since) ==
    /\ schedule.enabled
    /\ \/ since >= schedule.every_n_entries
       \/ /\ since > 0
          /\ rows # << >> => now - Last(rows).submitted_at >= schedule.every_m_minutes

-----------------------------------------------------------------------------
\* anchor() waits for the lock at its start.
LockFree == pc \in Between \cup {"start"}

\* log(): on this Ledger, its commit publishes rows that an anchor() left; on
\* another one it cannot write before they are published or gone.
LogEntry ==
    /\ entries < MaxEntries
    /\ LockFree \/ durable = Len(rows)
    /\ entries' = entries + 1
    /\ durable' = Len(rows)
    /\ UNCHANGED <<tracks, setup, now, scheduled, rows>>

\* Any other writer of this Ledger commits.
OtherCommit ==
    /\ LockFree /\ durable < Len(rows)
    /\ durable' = Len(rows)
    /\ UNCHANGED <<tracks, setup, entries, now, scheduled, rows>>

\* close() takes no lock: the open transaction is rolled back.  The Ledger may
\* be opened again at once.
Close ==
    /\ durable < Len(rows)
    /\ rows' = SubSeq(rows, 1, durable)
    /\ UNCHANGED <<tracks, setup, entries, now, scheduled, durable>>

Tick ==
    /\ now < MaxMinutes
    /\ now' = now + 1
    /\ UNCHANGED <<tracks, setup, entries, scheduled, rows, durable>>

CallAnchor(asked) ==
    /\ Len(rows) < MaxRows
    /\ Call(SubSeq(Calendars, 1, schedule.calendars), SubSeq(Tsas, 1, schedule.tsas))
    /\ scheduled' = asked
    /\ UNCHANGED <<setup, entries, now, rows, durable>>

\* The loop calls anchor() when it is due; somebody calls it anyway.
CallDue == ShouldAnchor(EntriesSinceLast) /\ CallAnchor(TRUE)

CallUnasked == CallAnchor(FALSE)

\* The head is the last entry there is when the call reads it.
Read ==
    /\ NothingToDo(schedule.enabled, entries) \/ Begin(schedule.enabled, entries)
    /\ UNCHANGED <<setup, entries, now, scheduled, rows, durable>>

Submit == Submissions /\ UNCHANGED <<setup, entries, now, scheduled, rows, durable>>

\* submitted_at is the time of the insert, after every request.
Store ==
    /\ Insert(blobRequired)
    /\ rows' = Append(rows, [head |-> head, submitted_at |-> now, scheduled |-> scheduled])
    /\ UNCHANGED <<setup, entries, now, scheduled, durable>>

\* Mutant: the connection is looked up again for the commit, which a connection
\* without a transaction does not refuse.
PublishRecaptured ==
    /\ Commit
    /\ durable' = Len(rows)
    /\ UNCHANGED <<setup, entries, now, scheduled, rows>>

\* A connection that was closed since the insert refuses to commit.
Publish ==
    /\ Commit /\ durable < Len(rows)
    /\ durable' = Len(rows)
    /\ UNCHANGED <<setup, entries, now, scheduled, rows>>

Fail ==
    /\ ConstraintFails(blobRequired) \/ DatabaseRefuses
    /\ UNCHANGED <<setup, entries, now, scheduled, rows, durable>>

Cancelled == Cancel /\ UNCHANGED <<setup, entries, now, scheduled, rows, durable>>

Next ==
    \/ LogEntry \/ OtherCommit \/ Close \/ Tick \/ CallDue \/ CallUnasked
    \/ Read \/ Submit \/ Store \/ Publish \/ Fail \/ Cancelled

Spec == Init /\ [][Next]_vars

\* Requests and the busy timeout end, so a call that has begun keeps going.
FairSpec == Spec /\ WF_vars(Read \/ Submit \/ Store \/ Publish \/ Fail)

-----------------------------------------------------------------------------
\* Every variable keeps its type.
TypeOK ==
    /\ TracksTypeOK
    /\ schedule \in Schedules /\ blobRequired \in BOOLEAN
    /\ entries \in Nat /\ now \in Nat
    /\ scheduled \in BOOLEAN
    /\ rows \in Seq([head: 1..entries, submitted_at: 0..now, scheduled: BOOLEAN])
    /\ durable \in 0..Len(rows)

\* Once a call has a proof in hand, only a cancellation, an exception that is no
\* TSAError or a refusal of the database makes it fail: a track that fails
\* leaves the other its row (anchor: "Either track may fail entirely without
\* blocking the other").  In a table with the old NOT NULL it does not: the
\* TSA's token alone is not stored (_ensure_anchors_table).
EitherTrackSuffices ==
    pc = "raised" /\ InHand => fault # "none" \/ (blobRequired /\ accepted = << >>)

\* An anchor that was returned is in the committed table, although the Ledger
\* may be closed between its insert and its commit (_insert_anchor_locked).
AnchoredIsDurable ==
    pc = "anchored" => durable = Len(rows) /\ rows # << >> /\ Last(rows).head = row.head

\* Heads are anchored in the order of the chain, and by a call that
\* should_anchor asked for only when there is something new, unless the
\* schedule says every 0 entries or fewer (should_anchor: "at least one new entry").
AnchorsAdvance ==
    \A i, j \in 1..Len(rows) : i < j =>
        /\ rows[i].head <= rows[j].head
        /\ rows[i].submitted_at <= rows[j].submitted_at
        /\ rows[j].scheduled /\ schedule.every_n_entries > 0 => rows[i].head < rows[j].head

\* Two successive anchors, the second asked for by should_anchor, are
\* every_n_entries or every_m_minutes apart, however long the calls in between
\* take, and though calls that raised may leave rows that a later commit
\* publishes or a close takes away.
AnchorsAreSpaced ==
    \A i \in 2..Len(rows) : rows[i].scheduled =>
        \/ rows[i].head - rows[i - 1].head >= schedule.every_n_entries
        \/ rows[i].submitted_at - rows[i - 1].submitted_at >= schedule.every_m_minutes

\* A call that has read its head ends, with a row or an exception.
CallEnds == pc = "ots" ~> pc \in {"anchored", "raised"}

=============================================================================
