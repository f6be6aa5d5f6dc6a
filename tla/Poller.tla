------------------------------- MODULE Poller -------------------------------
(***************************************************************************)
(* The life of an anchors row after anchor() has inserted it: calendars    *)
(* roll its commitments into Bitcoin blocks, pollers (a background task,   *)
(* nexuscone-verify --upgrade-pending) upgrade its proof and confirm it,   *)
(* and nexuscone-verify --check-anchors checks what they stored.           *)
(*                                                                         *)
(* A stored proof is the set of calendars whose PendingAttestation it      *)
(* holds and the set of those whose Bitcoin attestation has been merged    *)
(* in.  A merge keeps the pending attestation.  Calendars are numbered in  *)
(* the order a walk of the serialised tree meets them.                     *)
(***************************************************************************)
EXTENDS Integers, Sequences, FiniteSets, FiniteSetsExt

CONSTANTS
    Pollers,
    Calendars,    \* positions in the tree: a finite set of naturals
    HeightOf,     \* HeightOf[k]: the block calendar k's commitments land in
    Limit,        \* the LIMIT of list_unconfirmed_anchors and get_anchors (500)
    UseMaxAge,    \* whether max_age_minutes is given (24 h by default)
    MaxRows,      \* bound: anchors rows of a behaviour
    MaxFailures,  \* bound: upgrades that raise and pollers that die
    Null

ASSUME PollerAssumption ==
    /\ Calendars \subseteq Nat /\ IsFiniteSet(Calendars)
    /\ HeightOf \in [Calendars -> Nat]
    /\ Limit \in Nat /\ MaxRows \in Nat /\ MaxFailures \in Nat
    /\ UseMaxAge \in BOOLEAN
    /\ Null \notin Nat

VARIABLES
    rows,     \* the anchors table, in anchor_id order
    rolled,   \* rolled[i]: the calendars that have row i's commitment in a block
    run,      \* run[p]: poller p's progress
    failures  \* how many upgrades raised and pollers died

vars == <<rows, rolled, run, failures>>

Proof == [pending: SUBSET Calendars, bitcoin: SUBSET Calendars]

\* An anchor whose calendars all refused has a NULL ots_proof_blob.
IsNull(proof) == proof.pending = {}

\* The attestation _first_bitcoin_attestation finds, by the height it carries.
FirstBitcoinHeight(proof) == HeightOf[Min(proof.bitcoin)]

\* Mutant: confirmed_at is NULL and taken as it is.
NewRowNull(accepted) ==
    [proof |-> [pending |-> accepted, bitcoin |-> {}], confirmed |-> Null,
     height |-> Null, hash |-> Null, aged |-> FALSE]

NewRow(accepted) ==
    [proof |-> [pending |-> accepted, bitcoin |-> {}], confirmed |-> FALSE,
     height |-> Null, hash |-> Null, aged |-> FALSE]

NoProof == [pending |-> {}, bitcoin |-> {}]

\* todo: the rows list_unconfirmed_anchors returned, as they were then.
Idle == [at |-> "idle", todo |-> << >>, ts |-> NoProof, pairs |-> {}, hash |-> Null]

Init ==
    /\ rows = << >>
    /\ rolled = << >>
    /\ run = [p \in Pollers |-> Idle]
    /\ failures = 0

-----------------------------------------------------------------------------
(* The world: anchor() adds a row, time passes, calendars get mined. *)

Anchor(accepted) ==
    /\ Len(rows) < MaxRows
    /\ rows' = Append(rows, NewRow(accepted))
    /\ rolled' = Append(rolled, {})
    /\ UNCHANGED <<run, failures>>

\* submitted_at falls behind the cutoff.
Age(i) ==
    /\ UseMaxAge /\ ~ rows[i].aged
    /\ rows' = [rows EXCEPT ![i].aged = TRUE]
    /\ UNCHANGED <<rolled, run, failures>>

Mine(i, k) ==
    /\ k \in rows[i].proof.pending \ rolled[i]
    /\ rolled' = [rolled EXCEPT ![i] = @ \cup {k}]
    /\ UNCHANGED <<rows, run, failures>>

-----------------------------------------------------------------------------
(* upgrade_pending_anchors. *)

\* Mutant: without "confirmed_at IS NULL".
AnyYoung == {i \in 1..Len(rows) : ~ IsNull(rows[i].proof) /\ ~ rows[i].aged}

Unconfirmed ==
    {i \in 1..Len(rows) : /\ ~ rows[i].confirmed
                          /\ ~ IsNull(rows[i].proof)
                          /\ ~ rows[i].aged}

\* Mutant: the newest first.
ListedNewest ==
    LET ids == {i \in Unconfirmed : Cardinality({j \in Unconfirmed : j > i}) < Limit}
    IN  [n \in 1..Cardinality(ids) |->
            LET i == CHOOSE i \in ids : Cardinality({j \in ids : j > i}) = n - 1
            IN  [id |-> i, proof |-> rows[i].proof]]

\* The Limit smallest ids, in ascending order, with the proof each row holds.
Listed ==
    LET ids == {i \in Unconfirmed : Cardinality({j \in Unconfirmed : j < i}) < Limit}
    IN  [n \in 1..Cardinality(ids) |->
            LET i == CHOOSE i \in ids : Cardinality({j \in ids : j < i}) = n - 1
            IN  [id |-> i, proof |-> rows[i].proof]]

\* What a poller does next: the anchor at the head of todo, or the end of the run.
Turn(todo) ==
    IF todo = << >> THEN Idle
    ELSE LET ts == todo[1].proof
         IN  [at |-> "querying", todo |-> todo, ts |-> ts, pairs |-> ts.pending, hash |-> Null]

\* _upgrade_one has returned or raised; the loop goes on either way.
NextAnchor(p) == run' = [run EXCEPT ![p] = Turn(Tail(@.todo))]

List(p) ==
    /\ run[p].at = "idle" /\ Unconfirmed # {}
    /\ run' = [run EXCEPT ![p] = Turn(Listed)]
    /\ UNCHANGED <<rows, rolled, failures>>

\* Mutant: a calendar's "not found" is merged in like an upgrade.
UpgradedAlways(p) ==
    LET k == Min(run[p].pairs) IN
    /\ run[p].at = "querying" /\ run[p].pairs # {}
    /\ run' = [run EXCEPT ![p].pairs = @ \ {k}, ![p].ts.bitcoin = @ \cup {k}]
    /\ UNCHANGED <<rows, rolled, failures>>

\* Ask the next calendar in the tree: its upgrade is merged in ...
Upgraded(p) ==
    LET k == Min(run[p].pairs) IN
    /\ run[p].at = "querying" /\ run[p].pairs # {}
    /\ k \in rolled[run[p].todo[1].id]
    /\ run' = [run EXCEPT ![p].pairs = @ \ {k}, ![p].ts.bitcoin = @ \cup {k}]
    /\ UNCHANGED <<rows, rolled, failures>>

\* ... or it does not know the commitment yet, or fails: on to the next.
NotUpgraded(p) ==
    /\ run[p].at = "querying" /\ run[p].pairs # {}
    /\ run' = [run EXCEPT ![p].pairs = @ \ {Min(@)}]
    /\ UNCHANGED <<rows, rolled, failures>>

\* Mutant: the run ends at the first anchor that is still pending.
StillPendingEndsRun(p) ==
    /\ run[p].at = "querying" /\ run[p].pairs = {}
    /\ run[p].ts.bitcoin = {}
    /\ run' = [run EXCEPT ![p] = Idle]
    /\ UNCHANGED <<rows, rolled, failures>>

StillPending(p) ==
    /\ run[p].at = "querying" /\ run[p].pairs = {}
    /\ run[p].ts.bitcoin = {}
    /\ NextAnchor(p)
    /\ UNCHANGED <<rows, rolled, failures>>

\* mempool.space answers with the block's hash, or the lookup returns None.
LookUp(p, hash) ==
    /\ run[p].at = "querying" /\ run[p].pairs = {}
    /\ run[p].ts.bitcoin # {}
    /\ run' = [run EXCEPT ![p].at = "confirming", ![p].hash = hash]
    /\ UNCHANGED <<rows, rolled, failures>>

BlockHash(height) == height

\* Mutant: bitcoin_block_height = COALESCE(bitcoin_block_height, ?).
StoredCoalescing(p) ==
    LET i == run[p].todo[1].id
        ts == run[p].ts
    IN  [rows EXCEPT ![i].proof = ts, ![i].confirmed = TRUE,
                     ![i].height = IF @ = Null THEN FirstBitcoinHeight(ts) ELSE @,
                     ![i].hash = run[p].hash]

\* The table after UPDATE anchors SET ... WHERE anchor_id = ?.
Stored(p) ==
    LET i == run[p].todo[1].id
        ts == run[p].ts
    IN  [rows EXCEPT ![i].proof = ts, ![i].confirmed = TRUE,
                     ![i].height = FirstBitcoinHeight(ts),
                     ![i].hash = run[p].hash]

\* confirm_anchor: the UPDATE and its COMMIT.
Confirm(p) ==
    /\ run[p].at = "confirming"
    /\ rows' = Stored(p)
    /\ NextAnchor(p)
    /\ UNCHANGED <<rolled, failures>>

Fails == failures < MaxFailures /\ failures' = failures + 1

\* A merge or confirm_anchor raised: counted as failed.  The row is as it was,
\* or confirm_anchor has stored it all the same: its SELECT after the commit
\* raised, or the commit was refused and the UPDATE waits in the transaction
\* for the next commit of this connection.  Taking the wait for over loses
\* nothing: the connection reads its own UPDATE at once, no other connection
\* can write before that commit, and one that closes first takes the UPDATE
\* back, which is the case of the row left as it was.
FailOne(p) ==
    /\ run[p].at \in {"querying", "confirming"} /\ Fails
    /\ \/ UNCHANGED rows
       \/ run[p].at = "confirming" /\ rows' = Stored(p)
    /\ NextAnchor(p)
    /\ UNCHANGED rolled

\* The poller's process ends in the middle of a run.
Crash(p) ==
    /\ run[p].at # "idle" /\ Fails
    /\ run' = [run EXCEPT ![p] = Idle]
    /\ UNCHANGED <<rows, rolled>>

FoundHash(p) == BlockHash(FirstBitcoinHeight(run[p].ts))

Work(p) ==
    \/ List(p)
    \/ Upgraded(p)
    \/ NotUpgraded(p)
    \/ StillPending(p)
    \/ LookUp(p, Null)
    \/ LookUp(p, FoundHash(p))
    \/ Confirm(p)

Next ==
    \/ \E accepted \in SUBSET Calendars : Anchor(accepted)
    \/ \E i \in 1..Len(rows) : Age(i) \/ \E k \in Calendars : Mine(i, k)
    \/ \E p \in Pollers : Work(p) \/ FailOne(p) \/ Crash(p)

Spec == Init /\ [][Next]_vars

AskedAbout(p, i) == run[p].todo # << >> /\ run[p].todo[1].id = i

\* The poller is started again and again and works through its list; a
\* calendar that has an upgrade, and mempool.space, answer now and then.
FairSpec ==
    /\ Spec
    /\ \A p \in Pollers :
          /\ WF_vars(Work(p))
          /\ SF_vars(LookUp(p, FoundHash(p)))
          /\ \A i \in 1..MaxRows : SF_vars(AskedAbout(p, i) /\ Upgraded(p))

-----------------------------------------------------------------------------
Row == [proof: Proof, confirmed: BOOLEAN, height: Nat \cup {Null},
        hash: Nat \cup {Null}, aged: BOOLEAN]

\* Every variable keeps its type.
TypeOK ==
    /\ rows \in Seq(Row)
    /\ rolled \in Seq(SUBSET Calendars) /\ Len(rolled) = Len(rows)
    /\ run \in [Pollers -> [at: {"idle", "querying", "confirming"},
                            todo: Seq([id: Nat, proof: Proof]), ts: Proof,
                            pairs: SUBSET Calendars, hash: Nat \cup {Null}]]
    /\ failures \in 0..MaxFailures

\* What --check-anchors calls FAILED (verifier.py _check_anchors).
CheckFails(row) ==
    /\ row.confirmed /\ ~ IsNull(row.proof)
    /\ \/ row.proof.bitcoin = {}
       \/ row.height # FirstBitcoinHeight(row.proof)

\* The rows get_anchors() gives --check-anchors and --check-tst: LIMIT again.
Walked == {i \in 1..Len(rows) : i <= Limit}

\* Every confirmed row passes --check-anchors at every moment, although
\* pollers race: the stored height is that of the first attestation of the
\* proof stored with it, and a stored hash is that block's.
ConfirmedRowsPass ==
    \A i \in 1..Len(rows) :
        /\ ~ CheckFails(rows[i])
        /\ rows[i].hash # Null => rows[i].hash = BlockHash(rows[i].height)

\* A stored attestation was really obtained from its calendar.
ProofsAreObtained ==
    \A i \in 1..Len(rows) : rows[i].proof.bitcoin \subseteq rolled[i] \cap rows[i].proof.pending

\* A confirmed row is never written again
\* (test_poller.py test_confirmed_anchor_is_not_reprocessed).
ConfirmedIsFinal ==
    [][\A i \in 1..Len(rows) :
          rows[i].confirmed => rows'[i] = [rows[i] EXCEPT !.aged = rows'[i].aged]]_vars

\* A Bitcoin attestation that has been merged into a stored proof stays in it.
AttestationsKept ==
    [][\A i \in 1..Len(rows) : rows[i].proof.bitcoin \subseteq rows'[i].proof.bitcoin]_vars

\* --check-anchors reports on every confirmed anchor (verifier.py
\* _check_anchors: "Walk every anchor; verify confirmed proofs").
ConfirmedIsReported == \A i \in 1..Len(rows) : rows[i].confirmed => i \in Walked

\* Every anchor some calendar has in a block is confirmed in the end, once
\* fewer than Limit older ones are waiting and unless it grows too old, and
\* whatever becomes of the others (list_unconfirmed_anchors, upgrade_pending_anchors).
MinedIsConfirmed ==
    \A i \in 1..MaxRows :
        (/\ i <= Len(rows) /\ rolled[i] # {}
         /\ Cardinality({j \in Unconfirmed : j < i}) < Limit)
            ~> (i <= Len(rows) /\ (rows[i].confirmed \/ rows[i].aged))

=============================================================================
