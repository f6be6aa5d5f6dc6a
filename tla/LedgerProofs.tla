---------------------------- MODULE LedgerProofs ----------------------------
(* Theorems of Ledger, for any number of Ledgers, calls and initial rows. *)
EXTENDS Ledger, TLAPS

\* Moving a call, within the lock or out of it, keeps pc and mutex typed.
LEMMA GotoType ==
    ASSUME TypeOK, NEW c \in Calls, NEW label \in PcLabels,
           Goto(c, label) \/ Leave(c, label)
    PROVE  /\ pc' \in [Calls -> PcLabels]
           /\ mutex' \in [Ledgers -> Calls \cup {NoCall}]
<1>1. Owner[c] \in Ledgers
  BY CallsAssumption
<1>2. pc \in [Calls -> PcLabels] /\ mutex \in [Ledgers -> Calls \cup {NoCall}]
  BY DEF TypeOK
<1>3. CASE Goto(c, label)
  BY <1>2, <1>3 DEF Goto
<1>4. CASE Leave(c, label)
  <2>1. pc' \in [Calls -> PcLabels]
    BY <1>2, <1>4 DEF Leave
  <2>2. mutex' \in [Ledgers -> Calls \cup {NoCall}]
    BY <1>1, <1>2, <1>4 DEF Leave
  <2> QED
    BY <2>1, <2>2
<1> QED
  BY <1>3, <1>4

\* What a SELECT of the tip returns is a head, on an empty table too.
LEMMA TipOfType ==
    ASSUME NEW rows \in Seq(Row)
    PROVE  TipOf(rows) \in HeadRow
<1>1. CASE rows = << >>
  <2>1. GenesisPreviousHash \in Digest
    BY DEF GenesisPreviousHash, Digest
  <2> QED
    BY <1>1, <2>1 DEF TipOf, NoHead, HeadRow
<1>2. CASE rows # << >>
  <2>1. Len(rows) \in 1..Len(rows)
    BY <1>2
  <2>2. rows[Len(rows)] \in Row
    BY <2>1
  <2> QED
    BY <1>2, <2>2 DEF TipOf, HeadRow, Row
<1> QED
  BY <1>1, <1>2

\* A connection reads a sequence of rows.
LEMMA ViewType ==
    ASSUME TypeOK, NEW l \in Ledgers
    PROVE  View(l) \in Seq(Row)
BY DEF TypeOK, View

\* log() builds a row of the table's type from any head.
LEMMA RowOfType ==
    ASSUME NEW c \in LogCalls, NEW t \in HeadRow
    PROVE  RowOf(c, t) \in Row
<1>1. Fields(t.entry_id + 1, c, EventTypeOf[c], CurrentFormatVersion) \in HashedFields
  BY CallsAssumption DEF Fields, CurrentFormatVersion, HashedFields, HeadRow
<1>2. EntryHash(t.entry_id + 1, c, EventTypeOf[c], CurrentFormatVersion, t.entry_hash) \in Digest
  BY <1>1 DEF EntryHash, Digest, HeadRow
<1> DEFINE hash == EntryHash(t.entry_id + 1, c, EventTypeOf[c], CurrentFormatVersion, t.entry_hash)
<1>3. Sign(SignerOf[c], hash) \in Signature \cup {NoSignature}
  <2> HIDE DEF hash
  <2>1. SignerOf[c] \in Key \cup {NoSignature}
    BY CallsAssumption
  <2>2. hash \in Digest
    BY <1>2 DEF hash
  <2> QED
    BY <2>1, <2>2 DEF Sign, Signature
<1> QED
  <2> HIDE DEF hash
  <2>1. t.entry_id + 1 \in Nat /\ t.entry_hash \in Digest /\ c \in Body
        /\ EventTypeOf[c] \in EventType /\ CurrentFormatVersion \in Nat
    BY CallsAssumption DEF HeadRow, CurrentFormatVersion
  <2>2. hash \in Digest
    BY <1>2 DEF hash
  <2>3. RowOf(c, t) = [entry_id |-> t.entry_id + 1, body |-> c, event_type |-> EventTypeOf[c],
         format_version |-> CurrentFormatVersion, previous_hash |-> t.entry_hash,
         entry_hash |-> hash, signature |-> Sign(SignerOf[c], hash)]
    BY DEF RowOf, hash
  <2> QED
    BY <1>3, <2>1, <2>2, <2>3 DEF Row
-----------------------------------------------------------------------------
\* Each step of a call keeps the types.
LEMMA StepType ==
    ASSUME TypeOK, NEW c \in Calls, Step(c)
    PROVE  TypeOK'
<1> USE DEF PcLabels, Done
<1> DEFINE l == Owner[c]
<1>0. l \in Ledgers
  BY CallsAssumption
<1>1. CASE Acquire(c)
  BY <1>0, <1>1 DEF TypeOK, Acquire, dbVars
<1>2. CASE SelectTip(c)
  <2>1. TipOf(View(l)) \in HeadRow
    BY <1>0, ViewType, TipOfType
  <2>2. AfterSelect(l) \in TxStates
    BY <1>0 DEF AfterSelect, TypeOK, TxStates
  <2>3. tip' \in [LogCalls \cup AnchorCalls -> HeadRow]
    BY <1>2, <2>1 DEF SelectTip, TypeOK
  <2>4. tx' \in [Ledgers -> TxStates]
    BY <1>2, <2>2 DEF SelectTip, TypeOK
  <2>5. pc' \in [Calls -> PcLabels] /\ mutex' \in [Ledgers -> Calls \cup {NoCall}]
    BY <1>2, GotoType DEF SelectTip, GotoOrRaise
  <2> QED
    BY <1>2, <2>3, <2>4, <2>5 DEF SelectTip, Recapture, TypeOK
<1>3. CASE FetchTip(c)
  <2>1. pc' \in [Calls -> PcLabels] /\ mutex' \in [Ledgers -> Calls \cup {NoCall}]
    BY <1>3, GotoType DEF FetchTip, GotoOrRaise
  <2> QED
    BY <1>3, <2>1 DEF FetchTip, TypeOK, dbVars
<1>4. CASE Submit(c)
  <2>1. pc' \in [Calls -> PcLabels] /\ mutex' \in [Ledgers -> Calls \cup {NoCall}]
    BY <1>4, GotoType DEF Submit, GotoOrRaise
  <2> QED
    BY <1>4, <2>1 DEF Submit, TypeOK, dbVars
<1>5. CASE InsertEntry(c)
  <2>1. pc' \in [Calls -> PcLabels] /\ mutex' \in [Ledgers -> Calls \cup {NoCall}]
    BY <1>5, GotoType DEF InsertEntry, GotoOrRaise
  <2>2. tx' \in [Ledgers -> TxStates]
    BY <1>5 DEF InsertEntry, AfterDml, TypeOK, TxStates
  <2>3. RowOf(c, tip[c]) \in Row
    BY <1>5, RowOfType DEF InsertEntry, TypeOK
  <2>4. pend' \in [Ledgers -> Seq(Row)]
    <3>1. pend[l] \in Seq(Row)
      BY <1>0 DEF TypeOK
    <3>2. Append(pend[l], RowOf(c, tip[c])) \in Seq(Row)
      BY <2>3, <3>1
    <3>3. pend' = pend \/ pend' = [pend EXCEPT ![l] = Append(@, RowOf(c, tip[c]))]
      BY <1>5 DEF InsertEntry
    <3> QED
      <4>1. CASE pend' = pend
        BY <4>1 DEF TypeOK
      <4>2. CASE pend' = [pend EXCEPT ![l] = Append(@, RowOf(c, tip[c]))]
        BY <1>0, <3>2, <4>2 DEF TypeOK
      <4> QED
        BY <3>3, <4>1, <4>2
  <2> QED
    BY <1>5, <2>1, <2>2, <2>4 DEF InsertEntry, TypeOK
<1>6. CASE InsertAnchor(c)
  <2>1. pc' \in [Calls -> PcLabels] /\ mutex' \in [Ledgers -> Calls \cup {NoCall}]
    BY <1>6, GotoType DEF InsertAnchor, GotoOrRaise
  <2>2. tx' \in [Ledgers -> TxStates]
    BY <1>6 DEF InsertAnchor, AfterDml, TypeOK, TxStates
  <2>3. pendAnchors' \in [Ledgers -> SUBSET HeadRow]
    <3>1. tip[c] \in HeadRow
      BY <1>6 DEF InsertAnchor, TypeOK
    <3>2. pendAnchors[l] \in SUBSET HeadRow
      BY <1>0 DEF TypeOK
    <3>3. pendAnchors' = pendAnchors
          \/ pendAnchors' = [pendAnchors EXCEPT ![l] = pendAnchors[l] \cup {tip[c]}]
      BY <1>6 DEF InsertAnchor
    <3>4. pendAnchors[l] \cup {tip[c]} \in SUBSET HeadRow
      BY <3>1, <3>2
    <3> QED
      BY <1>0, <3>3, <3>4 DEF TypeOK
  <2> QED
    BY <1>6, <2>1, <2>2, <2>3 DEF InsertAnchor, Recapture, TypeOK
<1>7. CASE UpdateRow(c)
  <2>1. pc' \in [Calls -> PcLabels] /\ mutex' \in [Ledgers -> Calls \cup {NoCall}]
    BY <1>7, GotoType DEF UpdateRow, GotoOrRaise
  <2>2. tx' \in [Ledgers -> TxStates]
    BY <1>7 DEF UpdateRow, AfterDml, TypeOK, TxStates
  <2> QED
    BY <1>7, <2>1, <2>2 DEF UpdateRow, TypeOK
<1>8. CASE Commit(c)
  <2>1. pc' \in [Calls -> PcLabels] /\ mutex' \in [Ledgers -> Calls \cup {NoCall}]
    BY <1>8, GotoType DEF Commit
  <2>2. entries' \in Seq(Row)
    BY <1>0, <1>8, ViewType DEF Commit
  <2>3. /\ tx' \in [Ledgers -> TxStates]
        /\ pend' \in [Ledgers -> Seq(Row)]
    <3>1. << >> \in Seq(Row)
      OBVIOUS
    <3>2. pend' = [pend EXCEPT ![l] = << >>] /\ tx' = [tx EXCEPT ![l] = "off"]
      BY <1>8 DEF Commit
    <3>3. pend' \in [Ledgers -> Seq(Row)]
      BY <3>1, <3>2 DEF TypeOK
    <3> QED
      BY <3>2, <3>3 DEF TypeOK, TxStates
  <2>4. /\ anchors' \in SUBSET HeadRow
        /\ pendAnchors' \in [Ledgers -> SUBSET HeadRow]
    <3>1. pendAnchors[l] \in SUBSET HeadRow
      BY <1>0 DEF TypeOK
    <3> QED
      BY <1>8, <3>1 DEF Commit, TypeOK
  <2> QED
    BY <1>8, <2>1, <2>2, <2>3, <2>4 DEF Commit, TypeOK
<1>9. CASE SelectAll(c)
  <2>1. pc' \in [Calls -> PcLabels] /\ mutex' \in [Ledgers -> Calls \cup {NoCall}]
    BY <1>9, GotoType DEF SelectAll, GotoOrRaise
  <2>2. tx' \in [Ledgers -> TxStates]
    BY <1>9 DEF SelectAll, AfterSelect, TypeOK, TxStates
  <2>3. seen' \in [VerifyCalls -> Nat]
    <3>1. Len(View(l)) \in Nat
      BY <1>0, ViewType
    <3> QED
      BY <1>9, <3>1 DEF SelectAll, TypeOK
  <2> QED
    BY <1>9, <2>1, <2>2, <2>3 DEF SelectAll, TypeOK
<1>10. CASE FetchAll(c)
  <2>1. pc' \in [Calls -> PcLabels] /\ mutex' \in [Ledgers -> Calls \cup {NoCall}]
    BY <1>10, GotoType DEF FetchAll
  <2>2. seen' \in [VerifyCalls -> Nat]
    <3>1. PICK n \in seen[c] .. (IF seen[c] = 0 THEN 0 ELSE Len(View(l))) :
              seen' = [seen EXCEPT ![c] = n]
      BY <1>10 DEF FetchAll
    <3>2. c \in VerifyCalls => n \in Nat
      BY <1>0, <3>1, ViewType DEF TypeOK
    <3> QED
      BY <3>1, <3>2 DEF TypeOK
  <2> QED
    BY <1>10, <2>1, <2>2 DEF FetchAll, TypeOK, dbVars
<1>11. CASE BusyRead(c) \/ OnClosed(c)
  <2>1. pc' \in [Calls -> PcLabels] /\ mutex' \in [Ledgers -> Calls \cup {NoCall}]
    BY <1>11, GotoType DEF BusyRead, OnClosed
  <2> QED
    BY <1>11, <2>1 DEF BusyRead, OnClosed, TypeOK, dbVars
<1>12. CASE BusyWrite(c) \/ BusyCommit(c)
  <2>1. pc' \in [Calls -> PcLabels] /\ mutex' \in [Ledgers -> Calls \cup {NoCall}]
    BY <1>12, GotoType DEF BusyWrite, BusyCommit
  <2>2. tx' \in [Ledgers -> TxStates]
    BY <1>0, <1>12 DEF BusyWrite, BusyCommit, AfterBegin, TypeOK, TxStates
  <2> QED
    BY <1>12, <2>1, <2>2 DEF BusyWrite, BusyCommit, TypeOK
<1> QED
  BY <1>1, <1>2, <1>3, <1>4, <1>5, <1>6, <1>7, <1>8, <1>9, <1>10, <1>11, <1>12 DEF Step

-----------------------------------------------------------------------------
\* Every reachable state of the Ledgers is well typed.
THEOREM TypeCorrect == Spec => []TypeOK
<1> USE DEF PcLabels, Done
<1>1. Init => TypeOK
  <2> SUFFICES ASSUME Init PROVE TypeOK
    OBVIOUS
  <2>1. entries \in Seq(Row)
    BY InitialTablesAssumption DEF Init
  <2>2. NoHead \in HeadRow
    BY DEF NoHead, HeadRow, GenesisPreviousHash, Digest
  <2>3. << >> \in Seq(Row)
    OBVIOUS
  <2>4. pend \in [Ledgers -> Seq(Row)] /\ tip \in [LogCalls \cup AnchorCalls -> HeadRow]
    BY <2>2, <2>3 DEF Init
  <2> QED
    BY <2>1, <2>4 DEF Init, TypeOK, TxStates
<1>2. TypeOK /\ [Next]_vars => TypeOK'
  <2> SUFFICES ASSUME TypeOK, [Next]_vars PROVE TypeOK'
    OBVIOUS
  <2>1. ASSUME NEW c \in Calls, Start(c) PROVE TypeOK'
    <3>1. pc' \in [Calls -> PcLabels] /\ mutex' \in [Ledgers -> Calls \cup {NoCall}]
      BY <2>1, GotoType DEF Start
    <3>2. base' \in [VerifyCalls -> Nat]
      <4>1. Len(entries) \in Nat
        BY DEF TypeOK
      <4> QED
        BY <2>1, <4>1 DEF Start, TypeOK
    <3> QED
      BY <2>1, <3>1, <3>2 DEF Start, TypeOK
  <2>2. ASSUME NEW c \in Calls, Step(c) PROVE TypeOK'
    BY <2>2, StepType
  <2>3. ASSUME NEW c \in Calls, CancelWaiting(c) PROVE TypeOK'
    <3>1. pc' \in [Calls -> PcLabels] /\ mutex' \in [Ledgers -> Calls \cup {NoCall}]
      BY <2>3, GotoType DEF CancelWaiting
    <3> QED
      BY <2>3, <3>1 DEF CancelWaiting, TypeOK, dbVars
  <2>4. ASSUME NEW l \in Ledgers, Discard(l)
        PROVE  /\ entries' \in Seq(Row) /\ anchors' \in SUBSET HeadRow
               /\ open' \in [Ledgers -> BOOLEAN] /\ tx' \in [Ledgers -> TxStates]
               /\ pend' \in [Ledgers -> Seq(Row)]
               /\ pendAnchors' \in [Ledgers -> SUBSET HeadRow]
    <3>1. << >> \in Seq(Row)
      OBVIOUS
    <3>2. pend' \in [Ledgers -> Seq(Row)]
      BY <2>4, <3>1 DEF Discard, TypeOK
    <3> QED
      BY <2>4, <3>2 DEF Discard, TypeOK, TxStates
  <2>5. ASSUME NEW l \in Ledgers, Close(l) PROVE TypeOK'
    <3>1. stale' \in SUBSET Calls
      BY <2>5 DEF Close, TypeOK
    <3> QED
      BY <2>4, <2>5, <3>1 DEF Close, TypeOK
  <2>6. ASSUME NEW l \in Ledgers, Crash(l) PROVE TypeOK'
    <3>1. pc' \in [Calls -> PcLabels] /\ mutex' \in [Ledgers -> Calls \cup {NoCall}]
      BY <2>6 DEF Crash, TypeOK
    <3> QED
      BY <2>4, <2>6, <3>1 DEF Crash, TypeOK
  <2>7. ASSUME NEW l \in Ledgers, Reopen(l) PROVE TypeOK'
    BY <2>7 DEF Reopen, TypeOK
  <2>8. CASE UNCHANGED vars
    BY <2>8 DEF vars, TypeOK
  <2> QED
    BY <2>1, <2>2, <2>3, <2>5, <2>6, <2>7, <2>8 DEF Next
<1> QED
  BY <1>1, <1>2, PTL DEF Spec

-----------------------------------------------------------------------------
(* The asyncio lock and the file locks.                                    *)

Critical == {"locked", "fetching", "submitting", "writing", "committing"}

Writing(l) == tx[l] \in {"reserved", "pending"}

\* A call between acquiring and releasing self._lock is the one that holds it.
Exclusive == \A c \in Calls : pc[c] \in Critical => mutex[Owner[c]] = c

\* At most one connection has the right to write the file ...
OneWriter == \A l, m \in Ledgers : Writing(l) /\ Writing(m) => l = m

\* ... and only that one has uncommitted rows.
PendIsWriting == \A l \in Ledgers : pend[l] # << >> => Writing(l)

\* A call about to commit still has its transaction, unless closed under it.
CommittingIsWriting ==
    \A c \in Calls : pc[c] = "committing" /\ c \notin stale => Writing(Owner[c])

LockInv == Exclusive /\ OneWriter /\ PendIsWriting /\ CommittingIsWriting

\* A call that leaves the lock, or moves on within it, leaves it exclusive.
LEMMA MoveExclusive ==
    ASSUME TypeOK, Exclusive, NEW c \in Calls, NEW label,
           \/ Leave(c, label) /\ label \notin Critical
           \/ Goto(c, label) /\ (label \in Critical => pc[c] \in Critical)
    PROVE  Exclusive'
<1> USE DEF Exclusive
<1>1. CASE Goto(c, label) /\ (label \in Critical => pc[c] \in Critical)
  BY <1>1 DEF Goto, TypeOK
<1>2. CASE Leave(c, label) /\ label \notin Critical
  <2> SUFFICES ASSUME NEW d \in Calls, pc'[d] \in Critical
               PROVE  mutex'[Owner[d]] = d
    OBVIOUS
  <2>1. d # c /\ pc[d] \in Critical
    BY <1>2 DEF Leave, TypeOK
  <2>2. mutex[Owner[d]] = d
    BY <2>1
  <2> QED
    BY <1>2, <2>1, <2>2 DEF Leave
<1> QED
  BY <1>1, <1>2

\* A step that leaves the uncommitted rows alone and takes no writer's right away.
LEMMA TxKept ==
    ASSUME TypeOK, LockInv, NEW c \in Calls,
           UNCHANGED pend,
           NEW v, tx' = [tx EXCEPT ![Owner[c]] = v],
           Writing(Owner[c]) => v \in {"reserved", "pending"},
           v \in {"reserved", "pending"} => Writing(Owner[c]) \/ MayReserve(Owner[c])
    PROVE  /\ OneWriter' /\ PendIsWriting'
           /\ \A l \in Ledgers : Writing(l) => Writing(l)'
<1> DEFINE l == Owner[c]
<1>1. l \in Ledgers /\ tx \in [Ledgers -> TxStates]
  BY CallsAssumption DEF TypeOK
<1>2. \A m \in Ledgers : tx'[m] = IF m = l THEN v ELSE tx[m]
  BY <1>1
<1>3. \A m \in Ledgers : Writing(m) => Writing(m)'
  BY <1>2 DEF Writing
<1>4. OneWriter'
  BY <1>1, <1>2 DEF LockInv, OneWriter, Writing, MayReserve
<1>5. PendIsWriting'
  BY <1>3 DEF LockInv, PendIsWriting
<1> QED
  BY <1>3, <1>4, <1>5

\* No step of a call disturbs the lock invariant.
LEMMA StepLockInv ==
    ASSUME TypeOK, LockInv, NEW c \in Calls, Step(c)
    PROVE  LockInv'
<1> USE DEF Critical
<1> DEFINE l == Owner[c]
<1>0. l \in Ledgers /\ Exclusive
  BY CallsAssumption DEF LockInv
<1>1. CASE Acquire(c)
  <2>1. Exclusive'
    <3>1. NoCall \notin Calls /\ mutex[l] = NoCall
      BY <1>1, CallsAssumption DEF Acquire
    <3>2. \A d \in Calls : d # c /\ pc'[d] \in Critical => Owner[d] # l
      BY <1>0, <1>1, <3>1 DEF Acquire, Exclusive, TypeOK
    <3> QED
      BY <1>0, <1>1, <3>2, CallsAssumption DEF Acquire, Exclusive, TypeOK
  <2>2. UNCHANGED <<tx, pend, stale>> /\ \A d \in Calls : pc'[d] = "committing" => pc[d] = "committing"
    BY <1>1 DEF Acquire, dbVars, TypeOK
  <2> QED
    BY <2>1, <2>2 DEF LockInv, OneWriter, PendIsWriting, CommittingIsWriting, Writing
<1>2. ASSUME Exclusive', OneWriter', PendIsWriting',
             \A d \in Calls : pc'[d] = "committing" => pc[d] = "committing",
             \A m \in Ledgers : Writing(m) => Writing(m)',
             \A d \in Calls : pc'[d] = "committing" => (d \in stale' <=> d \in stale)
      PROVE  LockInv'
  BY <1>2, CallsAssumption DEF LockInv, CommittingIsWriting
<1>3. CASE SelectTip(c)
  <2>1. Exclusive'
    BY <1>0, <1>3, MoveExclusive DEF SelectTip, GotoOrRaise
  <2>2. OneWriter' /\ PendIsWriting' /\ \A m \in Ledgers : Writing(m) => Writing(m)'
    BY <1>3, TxKept DEF SelectTip, AfterSelect, Writing
  <2>3. \A d \in Calls : pc'[d] = "committing" => pc[d] = "committing" /\ d # c
    BY <1>3 DEF SelectTip, GotoOrRaise, Goto, Leave, TypeOK
  <2> QED
    BY <1>2, <1>3, <2>1, <2>2, <2>3 DEF SelectTip, Recapture
<1>4. CASE FetchTip(c) \/ Submit(c) \/ FetchAll(c) \/ BusyRead(c) \/ OnClosed(c)
  <2>1. Exclusive'
    BY <1>0, <1>4, MoveExclusive DEF FetchTip, Submit, FetchAll, BusyRead, OnClosed, GotoOrRaise
  <2>2. UNCHANGED <<tx, pend, stale>>
    BY <1>4 DEF FetchTip, Submit, FetchAll, BusyRead, OnClosed, dbVars
  <2>3. \A d \in Calls : pc'[d] = "committing" => pc[d] = "committing"
    BY <1>4 DEF FetchTip, Submit, FetchAll, BusyRead, OnClosed, GotoOrRaise, Goto, Leave, TypeOK
  <2>4. OneWriter' /\ PendIsWriting' /\ \A m \in Ledgers : Writing(m) => Writing(m)'
    BY <2>2 DEF LockInv, OneWriter, PendIsWriting, Writing
  <2> QED
    BY <1>2, <2>1, <2>2, <2>3, <2>4
<1>5. CASE SelectAll(c)
  <2>1. Exclusive'
    BY <1>0, <1>5, MoveExclusive DEF SelectAll, GotoOrRaise
  <2>2. OneWriter' /\ PendIsWriting' /\ \A m \in Ledgers : Writing(m) => Writing(m)'
    BY <1>5, TxKept DEF SelectAll, AfterSelect, Writing
  <2>3. \A d \in Calls : pc'[d] = "committing" => pc[d] = "committing"
    BY <1>5 DEF SelectAll, GotoOrRaise, Goto, Leave, TypeOK
  <2> QED
    BY <1>2, <1>5, <2>1, <2>2, <2>3 DEF SelectAll
<1>6. CASE BusyWrite(c) \/ BusyCommit(c)
  <2>1. Exclusive'
    BY <1>0, <1>6, MoveExclusive DEF BusyWrite, BusyCommit
  <2>2. OneWriter' /\ PendIsWriting' /\ \A m \in Ledgers : Writing(m) => Writing(m)'
    <3>1. CASE BusyWrite(c)
      BY <3>1, TxKept DEF BusyWrite, AfterBegin, Writing
    <3>2. CASE BusyCommit(c)
      <4>1. Writing(l)
        <5>1. c \notin stale /\ pc[c] = "committing"
          BY <3>2 DEF BusyCommit, Connected, Recaptures
        <5> QED
          BY <5>1 DEF LockInv, CommittingIsWriting
      <4> QED
        BY <3>2, <4>1, TxKept DEF BusyCommit
    <3> QED
      BY <1>6, <3>1, <3>2
  <2>3. \A d \in Calls : pc'[d] = "committing" => pc[d] = "committing"
    BY <1>6 DEF BusyWrite, BusyCommit, Leave, TypeOK
  <2> QED
    BY <1>2, <1>6, <2>1, <2>2, <2>3 DEF BusyWrite, BusyCommit
<1>7. CASE InsertEntry(c) \/ InsertAnchor(c) \/ UpdateRow(c)
  <2>1. Exclusive'
    BY <1>0, <1>7, MoveExclusive DEF InsertEntry, InsertAnchor, UpdateRow, GotoOrRaise
  <2>2. /\ MayReserve(l) /\ tx' = [tx EXCEPT ![l] = AfterDml(l)]
        /\ pend' = pend \/ pend' = [pend EXCEPT ![l] = Append(@, RowOf(c, tip[c]))]
        /\ pc[c] = "writing"
    BY <1>7 DEF InsertEntry, InsertAnchor, UpdateRow
  <2>3. \A m \in Ledgers : tx'[m] = IF m = l THEN AfterDml(l) ELSE tx[m]
    BY <2>2 DEF TypeOK
  <2>4. AfterDml(l) \in {"reserved", "pending"}
    BY DEF AfterDml
  <2>5. OneWriter'
    BY <1>0, <2>2, <2>3, <2>4 DEF LockInv, OneWriter, MayReserve, Writing
  <2>6. Writing(l)' /\ \A m \in Ledgers : Writing(m) => Writing(m)'
    BY <1>0, <2>3, <2>4 DEF Writing
  <2>7. \A m \in Ledgers \ {l} : pend'[m] = pend[m]
    BY <2>2 DEF TypeOK
  <2>8. PendIsWriting'
    BY <2>6, <2>7 DEF LockInv, PendIsWriting
  <2>9. \A d \in Calls \ {c} : pc'[d] = pc[d] /\ (d \in stale' <=> d \in stale)
    BY <1>7 DEF InsertEntry, InsertAnchor, UpdateRow, Recapture, GotoOrRaise, Goto, Leave, TypeOK
  <2>10. CommittingIsWriting'
    BY <2>6, <2>9, CallsAssumption DEF LockInv, CommittingIsWriting
  <2> QED
    BY <2>1, <2>5, <2>8, <2>10 DEF LockInv
<1>8. CASE Commit(c)
  <2>1. Exclusive'
    BY <1>0, <1>8, MoveExclusive DEF Commit
  <2>2. \A m \in Ledgers : /\ tx'[m] = IF m = l THEN "off" ELSE tx[m]
                           /\ pend'[m] = IF m = l THEN << >> ELSE pend[m]
    BY <1>8 DEF Commit, TypeOK
  <2>3. OneWriter' /\ PendIsWriting'
    BY <1>0, <2>2 DEF LockInv, OneWriter, PendIsWriting, Writing
  <2>4. \A d \in Calls : pc'[d] = "committing" => pc[d] = "committing" /\ Owner[d] # l
    <3> SUFFICES ASSUME NEW d \in Calls, pc'[d] = "committing"
                 PROVE  pc[d] = "committing" /\ Owner[d] # l
      OBVIOUS
    <3>1. d # c /\ pc[d] = "committing" /\ pc[c] = "committing"
      BY <1>8 DEF Commit, Leave, TypeOK
    <3> QED
      BY <1>0, <3>1 DEF Exclusive
  <2>5. CommittingIsWriting'
    BY <1>8, <2>2, <2>4, CallsAssumption DEF Commit, LockInv, CommittingIsWriting, Writing
  <2> QED
    BY <2>1, <2>3, <2>5 DEF LockInv
<1> QED
  BY <1>1, <1>3, <1>4, <1>5, <1>6, <1>7, <1>8 DEF Step

\* The asyncio lock excludes, and only one connection at a time holds rows
\* that are not committed.
THEOREM LocksExclude == Spec => []LockInv
<1> USE DEF Critical
<1>1. Init => LockInv
  BY CallsAssumption DEF Init, LockInv, Exclusive, OneWriter, PendIsWriting,
     CommittingIsWriting, Writing
<1>2. TypeOK /\ LockInv /\ [Next]_vars => LockInv'
  <2> SUFFICES ASSUME TypeOK, LockInv, [Next]_vars PROVE LockInv'
    OBVIOUS
  <2>1. ASSUME UNCHANGED <<tx, pend>>, stale' = stale, UNCHANGED mutex,
               \A c \in Calls : pc'[c] \in Critical => pc'[c] = pc[c]
        PROVE  LockInv'
    BY <2>1, CallsAssumption DEF LockInv, Exclusive, OneWriter, PendIsWriting,
       CommittingIsWriting, Writing
  <2>2. ASSUME NEW c \in Calls, Start(c) \/ CancelWaiting(c) PROVE LockInv'
    BY <2>1, <2>2 DEF Start, CancelWaiting, dbVars, Goto, TypeOK
  <2>3. ASSUME NEW c \in Calls, Step(c) PROVE LockInv'
    BY <2>3, StepLockInv
  <2>4. ASSUME NEW l \in Ledgers, Discard(l)
        PROVE  /\ OneWriter' /\ PendIsWriting'
               /\ \A m \in Ledgers \ {l} : Writing(m) => Writing(m)'
    <3>1. \A m \in Ledgers : /\ tx'[m] = IF m = l THEN "off" ELSE tx[m]
                             /\ pend'[m] = IF m = l THEN << >> ELSE pend[m]
      BY <2>4 DEF Discard, TypeOK
    <3> QED
      BY <3>1 DEF LockInv, OneWriter, PendIsWriting, Writing
  <2>5. ASSUME NEW l \in Ledgers, Close(l) PROVE LockInv'
    <3>1. Exclusive'
      BY <2>5 DEF Close, LockInv, Exclusive
    <3>2. \A c \in Calls : pc[c] = "committing" /\ c \notin stale'
                           => c \notin stale /\ Owner[c] # l
      BY <2>5 DEF Close, Active, Done
    <3> QED
      BY <2>4, <2>5, <3>1, <3>2, CallsAssumption DEF Close, LockInv, CommittingIsWriting
  <2>6. ASSUME NEW l \in Ledgers, Crash(l) PROVE LockInv'
    <3>1. \A c \in Calls : pc'[c] \in Critical => pc'[c] = pc[c] /\ Owner[c] # l
      BY <2>6 DEF Crash, Active, Done
    <3>2. Exclusive'
      BY <2>6, <3>1 DEF Crash, LockInv, Exclusive, TypeOK
    <3> QED
      BY <2>4, <2>6, <3>1, <3>2, CallsAssumption DEF Crash, LockInv, CommittingIsWriting
  <2>7. ASSUME NEW l \in Ledgers, Reopen(l) PROVE LockInv'
    BY <2>1, <2>7 DEF Reopen
  <2>8. CASE UNCHANGED vars
    BY <2>1, <2>8 DEF vars
  <2> QED
    BY <2>2, <2>3, <2>5, <2>6, <2>7, <2>8 DEF Next
<1> QED
  BY <1>1, <1>2, TypeCorrect, PTL DEF Spec

-----------------------------------------------------------------------------
(* Chains of rows.                                                         *)

Sound(rows) == ValidChain(rows, Key) /\ \A i \in 1..Len(rows) : rows[i].entry_id = i

Extends(r, s) == Len(r) <= Len(s) /\ \A i \in 1..Len(r) : s[i] = r[i]

\* The head t was once the last row of what is now rows.
Covers(rows, t) ==
    /\ t.entry_id <= Len(rows)
    /\ t.entry_hash = IF t.entry_id = 0 THEN GenesisPreviousHash
                      ELSE rows[t.entry_id].entry_hash

\* Appending rows extends a table.
LEMMA ConcatExtends ==
    ASSUME NEW r \in Seq(Row), NEW s \in Seq(Row)
    PROVE  Extends(r, r \o s)
BY DEF Extends

\* Appending one row extends a table.
LEMMA AppendExtends ==
    ASSUME NEW r \in Seq(Row), NEW row \in Row
    PROVE  Extends(r, Append(r, row))
BY DEF Extends

\* Every prefix of a sound table is sound: what a walk of part of it sees.
LEMMA PrefixSound ==
    ASSUME NEW r \in Seq(Row), NEW s \in Seq(Row), Extends(r, s), Sound(s)
    PROVE  Sound(r)
<1> SUFFICES ASSUME NEW i \in 1..Len(r)
             PROVE  RowHolds(r, i, Key) /\ r[i].entry_id = i
  BY DEF Sound, ValidChain
<1>1. i \in 1..Len(s) /\ r[i] = s[i] /\ (i # 1 => r[i - 1] = s[i - 1])
  BY DEF Extends
<1>2. RowHolds(s, i, Key) /\ s[i].entry_id = i
  BY <1>1 DEF Sound, ValidChain
<1> QED
  BY <1>1, <1>2 DEF RowHolds, ExpectedPrevious

\* A head that a table covers stays covered when the table grows.
LEMMA ExtendsCovers ==
    ASSUME NEW r \in Seq(Row), NEW s \in Seq(Row), Extends(r, s),
           NEW t \in HeadRow, Covers(r, t)
    PROVE  Covers(s, t)
BY DEF Extends, Covers, HeadRow

\* The tip read from a sound table is covered by it.
LEMMA TipCovered ==
    ASSUME NEW rows \in Seq(Row), Sound(rows)
    PROVE  Covers(rows, TipOf(rows))
<1>1. CASE rows = << >>
  BY <1>1 DEF TipOf, NoHead, Covers
<1>2. CASE rows # << >>
  <2>1. Len(rows) \in 1..Len(rows)
    BY <1>2
  <2>2. rows[Len(rows)].entry_id = Len(rows)
    BY <2>1 DEF Sound
  <2> QED
    BY <1>2, <2>1, <2>2 DEF TipOf, Covers
<1> QED
  BY <1>1, <1>2

\* Ids are 1..n, so an id that follows a covered head and is free is n + 1.
LEMMA FreeIdIsNext ==
    ASSUME NEW rows \in Seq(Row), Sound(rows), NEW t \in HeadRow, Covers(rows, t),
           \A i \in 1..Len(rows) : rows[i].entry_id # t.entry_id + 1
    PROVE  t.entry_id = Len(rows)
<1>1. t.entry_id \in Nat /\ t.entry_id <= Len(rows) /\ Len(rows) \in Nat
  BY DEF Covers, HeadRow
<1>2. t.entry_id + 1 \notin 1..Len(rows)
  BY DEF Sound
<1> QED
  BY <1>1, <1>2

\* A row built from a head whose successor's id is free extends the chain.
LEMMA AppendSound ==
    ASSUME NEW rows \in Seq(Row), Sound(rows), NEW c \in LogCalls, NEW t \in HeadRow,
           Covers(rows, t), \A i \in 1..Len(rows) : rows[i].entry_id # t.entry_id + 1
    PROVE  Sound(Append(rows, RowOf(c, t)))
<1> DEFINE new == Append(rows, RowOf(c, t))
           n == Len(rows) + 1
<1>1. t.entry_id = Len(rows)
  BY FreeIdIsNext
<1>2. RowOf(c, t) \in Row
  BY RowOfType
<1>3. new[n] = RowOf(c, t) /\ Len(new) = n /\ \A i \in 1..Len(rows) : new[i] = rows[i]
  BY <1>2
<1>4. RowOf(c, t).entry_id = n
  BY <1>1 DEF RowOf
<1>5. LinkHolds(RowOf(c, t), ExpectedPrevious(new, n))
  <2>1. ExpectedPrevious(new, n) = t.entry_hash
    <3>1. CASE n = 1
      BY <1>1, <3>1 DEF ExpectedPrevious, Covers
    <3>2. CASE n # 1
      <4>1. n - 1 = Len(rows) /\ Len(rows) \in 1..Len(rows)
        BY <3>2
      <4> QED
        BY <1>1, <1>3, <3>2, <4>1 DEF ExpectedPrevious, Covers
    <3> QED
      BY <3>1, <3>2
  <2> QED
    BY <2>1 DEF LinkHolds, RowOf
<1>6. HashHolds(RowOf(c, t))
  BY DEF HashHolds, RowOf
<1>7. SignatureHolds(RowOf(c, t), Key)
  BY CallsAssumption DEF SignatureHolds, RowOf, Sign
<1>8. RowHolds(new, n, Key)
  BY <1>3, <1>5, <1>6, <1>7 DEF RowHolds
<1>9. ASSUME NEW i \in 1..Len(rows) PROVE RowHolds(new, i, Key) /\ new[i].entry_id = i
  <2>1. RowHolds(rows, i, Key) /\ rows[i].entry_id = i
    BY DEF Sound, ValidChain
  <2>2. new[i] = rows[i] /\ (i # 1 => new[i - 1] = rows[i - 1])
    BY <1>3
  <2> QED
    BY <2>1, <2>2 DEF RowHolds, ExpectedPrevious
<1> QED
  <2>1. \A i \in 1..n : i = n \/ i \in 1..Len(rows)
    OBVIOUS
  <2> QED
    BY <1>3, <1>4, <1>8, <1>9, <2>1 DEF Sound, ValidChain

-----------------------------------------------------------------------------
(* The chain invariant.                                                    *)

\* The head a log() call has read is still in its view, perhaps no longer last.
TipsCovered ==
    \A c \in LogCalls : pc[c] \in {"fetching", "writing"} /\ c \notin stale
                        => Covers(View(Owner[c]), tip[c])

HasRow(rows, c) ==
    tip[c].entry_id < Len(rows) /\ rows[tip[c].entry_id + 1] = RowOf(c, tip[c])

\* A log() call about to commit still has its row to publish.
RowsKept ==
    \A c \in LogCalls : pc[c] = "committing" /\ c \notin stale => HasRow(View(Owner[c]), c)

ChainInv == ChainIntact /\ TipsCovered /\ RowsKept /\ ReturnedIsDurable

\* ChainIntact, in the words of Sound.
LEMMA ChainIntactSound ==
    ChainIntact <=> \A l \in Ledgers : Sound(View(l))
BY DEF ChainIntact, Sound

\* An insert that is not refused appends to its connection's view.
LEMMA InsertAppends ==
    ASSUME TypeOK, ChainInv, NEW c \in Calls, InsertEntry(c), UNCHANGED pend => FALSE
    PROVE  LET rows == View(Owner[c]) IN
           /\ View(Owner[c])' = Append(rows, RowOf(c, tip[c]))
           /\ RowOf(c, tip[c]) \in Row
           /\ Sound(Append(rows, RowOf(c, tip[c])))
           /\ tip[c].entry_id = Len(rows)
           /\ pend' = [pend EXCEPT ![Owner[c]] = Append(@, RowOf(c, tip[c]))]
<1> DEFINE l == Owner[c]
<1>1. c \in LogCalls /\ pc[c] = "writing" /\ c \notin stale
  BY CallsAssumption DEF InsertEntry, Connected, Recaptures
<1>2. l \in Ledgers /\ View(l) \in Seq(Row) /\ Sound(View(l))
  BY CallsAssumption, ViewType, ChainIntactSound DEF ChainInv
<1>3. tip[c] \in HeadRow /\ RowOf(c, tip[c]) \in Row
  BY <1>1, RowOfType DEF TypeOK
<1>4. Covers(View(l), tip[c])
  BY <1>1 DEF ChainInv, TipsCovered
<1>5. /\ pend' = [pend EXCEPT ![l] = Append(@, RowOf(c, tip[c]))]
      /\ \A i \in 1..Len(View(l)) : View(l)[i].entry_id # tip[c].entry_id + 1
      /\ entries' = entries
  BY DEF InsertEntry
<1>6. View(l)' = Append(View(l), RowOf(c, tip[c]))
  <2>1. entries \in Seq(Row) /\ pend[l] \in Seq(Row)
    BY <1>2 DEF TypeOK
  <2>2. pend'[l] = Append(pend[l], RowOf(c, tip[c]))
    BY <1>2, <1>5 DEF TypeOK
  <2>3. entries \o Append(pend[l], RowOf(c, tip[c]))
        = Append(entries \o pend[l], RowOf(c, tip[c]))
    BY <1>3, <2>1
  <2> QED
    BY <1>5, <2>2, <2>3 DEF View
<1>7. Sound(Append(View(l), RowOf(c, tip[c]))) /\ tip[c].entry_id = Len(View(l))
  BY <1>1, <1>2, <1>3, <1>4, <1>5, AppendSound, FreeIdIsNext
<1> QED
  BY <1>3, <1>5, <1>6, <1>7

\* Rows only ever get added to what a connection sees, unless it is closed.
LEMMA StepViews ==
    ASSUME TypeOK, LockInv, ChainInv, NEW c \in Calls, Step(c),
           NEW m \in Ledgers
    PROVE  Extends(View(m), View(m)') /\ Sound(View(m)')
<1> DEFINE l == Owner[c]
<1>1. l \in Ledgers /\ Sound(View(l)) /\ Sound(View(m))
  BY CallsAssumption, ChainIntactSound DEF ChainInv
<1>2. View(l) \in Seq(Row) /\ View(m) \in Seq(Row)
  BY <1>1, ViewType
<1>3. CASE UNCHANGED <<entries, pend>>
  <2>1. View(m)' = View(m)
    BY <1>3 DEF View
  <2> QED
    BY <1>1, <1>2, <2>1 DEF Extends
<1>4. CASE InsertEntry(c) /\ ~ UNCHANGED pend
  <2>1. CASE m # l
    <3>1. View(m)' = View(m)
      BY <1>1, <1>4, <2>1, InsertAppends DEF InsertEntry, View, TypeOK
    <3> QED
      BY <1>1, <1>2, <3>1 DEF Extends
  <2>2. CASE m = l
    BY <1>2, <1>4, <2>2, InsertAppends, AppendExtends
  <2> QED
    BY <2>1, <2>2
<1>5. CASE Commit(c)
  <2>1. entries' = View(l) /\ pend' = [pend EXCEPT ![l] = << >>]
    BY <1>5 DEF Commit
  <2>2. entries \in Seq(Row) /\ pend[l] \in Seq(Row) /\ pend[m] \in Seq(Row)
    BY <1>1 DEF TypeOK
  <2>3. CASE pend[l] = << >>
    <3>1. View(m)' = View(m)
      BY <1>1, <2>1, <2>2, <2>3 DEF View, TypeOK
    <3> QED
      BY <1>1, <1>2, <3>1 DEF Extends
  <2>4. CASE pend[l] # << >>
    <3>1. m # l => pend[m] = << >>
      BY <1>1, <2>4 DEF LockInv, OneWriter, PendIsWriting
    <3>2. pend'[m] = << >>
      BY <1>1, <2>1, <3>1 DEF TypeOK
    <3>3. View(m)' = View(l)
      <4>1. View(m)' = View(l) \o << >>
        <5>1. View(m)' = entries' \o pend'[m]
          BY DEF View
        <5> QED
          BY <2>1, <3>2, <5>1
      <4> QED
        BY <1>2, <4>1
    <3>4. Extends(View(m), View(l))
      <4>1. CASE m = l
        BY <1>2, <4>1 DEF Extends
      <4>2. CASE m # l
        <5>1. View(m) = entries
          BY <2>2, <3>1, <4>2 DEF View
        <5> QED
          BY <2>2, <5>1, ConcatExtends DEF View
      <4> QED
        BY <4>1, <4>2
    <3> QED
      BY <1>1, <3>3, <3>4
  <2> QED
    BY <2>3, <2>4
<1> QED
  BY <1>3, <1>4, <1>5 DEF Step, Acquire, SelectTip, FetchTip, Submit, InsertEntry,
     InsertAnchor, UpdateRow, SelectAll, FetchAll, BusyRead, BusyWrite, BusyCommit,
     OnClosed, dbVars

\* No step changes or removes a committed row.
LEMMA StepEntries ==
    ASSUME TypeOK, NEW c \in Calls, Step(c)
    PROVE  \/ entries' = entries
           \/ Commit(c) /\ entries' = View(Owner[c])
BY DEF Step, Acquire, SelectTip, FetchTip, Submit, InsertEntry, InsertAnchor, UpdateRow,
   Commit, SelectAll, FetchAll, BusyRead, BusyWrite, BusyCommit, OnClosed, dbVars

\* The committed table only ever grows: a commit appends the open rows.
LEMMA EntriesExtend ==
    ASSUME TypeOK, NEW c \in Calls, Step(c)
    PROVE  Extends(entries, entries')
<1> DEFINE l == Owner[c]
<1>1. entries \in Seq(Row) /\ pend[l] \in Seq(Row)
  BY CallsAssumption DEF TypeOK
<1>2. CASE entries' = entries
  BY <1>1, <1>2 DEF Extends
<1>3. CASE entries' = View(l)
  BY <1>1, <1>3, ConcatExtends DEF View
<1> QED
  BY <1>2, <1>3, StepEntries

\* Where a log() call can have come from, and what it keeps.
LEMMA StepCalls ==
    ASSUME TypeOK, NEW c \in Calls, Step(c), NEW d \in LogCalls, d # c \/ ~ SelectTip(c)
    PROVE  /\ tip'[d] = tip[d]
           /\ pc'[d] \in {"fetching", "writing", "committing"} /\ d \notin stale'
              => d \notin stale
           /\ pc'[d] \in {"fetching", "writing"} => pc[d] \in {"fetching", "writing"}
           /\ pc'[d] = "committing" => \/ pc[d] = "committing"
                                       \/ d = c /\ InsertEntry(c) /\ ~ UNCHANGED pend
           /\ pc'[d] = "done" => \/ pc[d] = "done"
                                 \/ d = c /\ Commit(c)
<1>0. d \in Calls /\ d \notin AnchorCalls \cup UpdateCalls \cup VerifyCalls
  BY CallsAssumption DEF Calls
<1> USE <1>0 DEF GotoOrRaise, Goto, Leave, TypeOK
<1>1. CASE Acquire(c)
  BY <1>1 DEF Acquire, dbVars
<1>2. CASE SelectTip(c)
  BY <1>2 DEF SelectTip, Recapture
<1>3. CASE FetchTip(c)
  BY <1>3 DEF FetchTip, dbVars
<1>4. CASE Submit(c)
  BY <1>4 DEF Submit, dbVars
<1>5. CASE InsertEntry(c)
  <2>1. CASE UNCHANGED pend
    <3>1. Leave(c, "raised")
      <4>1. c \in LogCalls /\ Owner[c] \in Ledgers
        BY <1>5, CallsAssumption DEF InsertEntry
      <4>2. RowOf(c, tip[c]) \in Row /\ pend[Owner[c]] \in Seq(Row)
        BY <4>1, RowOfType
      <4>3. Len(Append(pend[Owner[c]], RowOf(c, tip[c]))) # Len(pend[Owner[c]])
        BY <4>2
      <4>4. pend' # [pend EXCEPT ![Owner[c]] = Append(@, RowOf(c, tip[c]))]
        BY <2>1, <4>1, <4>3
      <4> QED
        BY <1>5, <4>4 DEF InsertEntry
    <3> QED
      BY <1>5, <3>1 DEF InsertEntry
  <2>2. CASE ~ UNCHANGED pend
    BY <1>5, <2>2 DEF InsertEntry
  <2> QED
    BY <2>1, <2>2
<1>6. CASE InsertAnchor(c)
  BY <1>6 DEF InsertAnchor, Recapture
<1>7. CASE UpdateRow(c)
  BY <1>7 DEF UpdateRow
<1>8. CASE Commit(c)
  BY <1>8 DEF Commit
<1>9. CASE SelectAll(c)
  BY <1>9 DEF SelectAll
<1>10. CASE FetchAll(c)
  BY <1>10 DEF FetchAll, dbVars
<1>11. CASE BusyRead(c) \/ OnClosed(c)
  BY <1>11 DEF BusyRead, OnClosed, dbVars
<1>12. CASE BusyWrite(c) \/ BusyCommit(c)
  BY <1>12 DEF BusyWrite, BusyCommit
<1> QED
  BY <1>1, <1>2, <1>3, <1>4, <1>5, <1>6, <1>7, <1>8, <1>9, <1>10, <1>11, <1>12 DEF Step

\* What a call has read or written stays covered by what it sees later.
LEMMA StepChainInv ==
    ASSUME TypeOK, TypeOK', LockInv, ChainInv, NEW c \in Calls, Step(c)
    PROVE  ChainInv'
<1> DEFINE l == Owner[c]
<1>1. \A m \in Ledgers : /\ View(m) \in Seq(Row) /\ View(m)' \in Seq(Row)
                         /\ Extends(View(m), View(m)') /\ Sound(View(m)')
  <2> SUFFICES ASSUME NEW m \in Ledgers
               PROVE  /\ View(m) \in Seq(Row) /\ View(m)' \in Seq(Row)
                      /\ Extends(View(m), View(m)') /\ Sound(View(m)')
    OBVIOUS
  <2>1. entries' \in Seq(Row) /\ pend'[m] \in Seq(Row)
    BY DEF TypeOK
  <2> QED
    BY <2>1, StepViews, ViewType DEF View
<1>2. l \in Ledgers /\ \A d \in LogCalls : d \in Calls /\ Owner[d] \in Ledgers
  BY CallsAssumption DEF Calls
<1>3. ChainIntact'
  BY <1>1 DEF ChainIntact, Sound
<1>4. ASSUME NEW d \in LogCalls, pc'[d] \in {"fetching", "writing"}, d \notin stale'
      PROVE  Covers(View(Owner[d])', tip'[d])
  <2> DEFINE m == Owner[d]
  <2>1. Covers(View(m), tip'[d]) /\ tip'[d] \in HeadRow
    <3>1. CASE d = c /\ SelectTip(c)
      <4>1. tip'[d] = TipOf(View(l))
        BY <3>1 DEF SelectTip, TypeOK
      <4>2. Sound(View(l)) /\ View(l) \in Seq(Row)
        BY <1>1, <1>2, ChainIntactSound DEF ChainInv
      <4> QED
        BY <3>1, <4>1, <4>2, TipCovered, TipOfType
    <3>2. CASE d # c \/ ~ SelectTip(c)
      BY <1>4, <3>2, StepCalls DEF ChainInv, TipsCovered, TypeOK
    <3> QED
      BY <3>1, <3>2
  <2> QED
    BY <1>1, <1>2, <2>1, ExtendsCovers
<1>5. ASSUME NEW d \in LogCalls, NEW r \in Seq(Row), NEW s \in Seq(Row),
             Extends(r, s), HasRow(r, d), tip'[d] = tip[d]
      PROVE  HasRow(s, d)'
  <2>1. tip[d].entry_id \in Nat
    BY DEF TypeOK, HeadRow
  <2>2. RowOf(d, tip[d])' = RowOf(d, tip[d])
    BY <1>5 DEF RowOf
  <2> QED
    BY <1>5, <2>1, <2>2 DEF HasRow, Extends
<1>6. ASSUME NEW d \in LogCalls, pc'[d] = "committing", d \notin stale'
      PROVE  HasRow(View(Owner[d]), d)'
  <2>1. d # c \/ ~ SelectTip(c)
    BY <1>6 DEF SelectTip, GotoOrRaise, Goto, Leave, TypeOK
  <2>2. CASE pc[d] = "committing"
    BY <1>1, <1>2, <1>5, <1>6, <2>1, <2>2, StepCalls DEF ChainInv, RowsKept
  <2>3. CASE d = c /\ InsertEntry(c) /\ ~ UNCHANGED pend
    <3>1. tip' = tip
      BY <2>3 DEF InsertEntry
    <3> QED
      BY <1>1, <1>2, <2>3, <3>1, InsertAppends DEF HasRow
  <2> QED
    BY <1>6, <2>1, <2>2, <2>3, StepCalls
<1>7. ASSUME NEW d \in LogCalls, pc'[d] = "done"
      PROVE  HasRow(entries, d)'
  <2>1. d # c \/ ~ SelectTip(c)
    BY <1>7 DEF SelectTip, GotoOrRaise, Goto, Leave, TypeOK
  <2>2. entries \in Seq(Row) /\ entries' \in Seq(Row)
    BY DEF TypeOK
  <2>3. CASE pc[d] = "done"
    <3>1. HasRow(entries, d)
      BY <2>3 DEF ChainInv, ReturnedIsDurable, HasRow
    <3> QED
      BY <1>5, <2>1, <2>2, <3>1, StepCalls, EntriesExtend
  <2>4. CASE d = c /\ Commit(c)
    <3>1. HasRow(View(l), d)
      <4>1. pc[d] = "committing" /\ d \notin stale
        BY <2>4 DEF Commit, Connected, Recaptures
      <4> QED
        BY <2>4, <4>1 DEF ChainInv, RowsKept
    <3>2. entries' = View(l) /\ tip' = tip
      BY <2>4 DEF Commit
    <3> QED
      BY <3>1, <3>2 DEF HasRow
  <2> QED
    BY <1>7, <2>1, <2>3, <2>4, StepCalls
<1> QED
  BY <1>3, <1>4, <1>6, <1>7 DEF ChainInv, TipsCovered, RowsKept, ReturnedIsDurable, HasRow

\* Closing a connection takes away rows that were not committed, and every log()
\* call that relied on them.
LEMMA DiscardChainInv ==
    ASSUME TypeOK, ChainInv, NEW l \in Ledgers, Discard(l), UNCHANGED tip,
           \A c \in LogCalls : pc'[c] = pc[c] \/ pc'[c] = "lost",
           \A c \in LogCalls : c \notin stale' => c \notin stale,
           \A c \in LogCalls : Owner[c] = l /\ Active(c) => pc'[c] = "lost" \/ c \in stale'
    PROVE  ChainInv'
<1>1. entries' = entries /\ \A m \in Ledgers \ {l} : pend'[m] = pend[m]
  BY DEF Discard, TypeOK
<1>2. \A m \in Ledgers \ {l} : View(m)' = View(m)
  BY <1>1 DEF View
<1>3. Sound(View(l)')
  <2>1. entries \in Seq(Row) /\ pend[l] \in Seq(Row) /\ pend'[l] = << >>
    BY DEF Discard, TypeOK
  <2>2. View(l)' = entries
    <3>1. View(l)' = entries' \o pend'[l]
      BY DEF View
    <3> QED
      BY <1>1, <2>1, <3>1
  <2>3. Extends(entries, View(l)) /\ View(l) \in Seq(Row)
    BY <2>1, ConcatExtends, ViewType DEF View
  <2>4. Sound(View(l))
    BY ChainIntactSound DEF ChainInv
  <2> QED
    BY <2>1, <2>2, <2>3, <2>4, PrefixSound
<1>4. \A m \in Ledgers : Sound(View(m)')
  BY <1>2, <1>3, ChainIntactSound DEF ChainInv
<1>5. ChainIntact'
  BY <1>4 DEF ChainIntact, Sound
<1>6. \A c \in LogCalls : c \in Calls /\ Owner[c] \in Ledgers
  BY CallsAssumption DEF Calls
<1>7. ASSUME NEW c \in LogCalls, pc'[c] \in {"fetching", "writing", "committing"},
             c \notin stale'
      PROVE  pc[c] = pc'[c] /\ c \notin stale /\ View(Owner[c])' = View(Owner[c])
  <2>1. pc[c] = pc'[c] /\ Active(c)
    BY <1>7 DEF Active, Done
  <2> QED
    BY <1>2, <1>6, <1>7, <2>1
<1>8. TipsCovered'
  BY <1>7 DEF ChainInv, TipsCovered
<1>9. \A c \in LogCalls : RowOf(c, tip[c])' = RowOf(c, tip[c])
  BY DEF RowOf
<1>10. RowsKept'
  BY <1>7, <1>9 DEF ChainInv, RowsKept, HasRow
<1>11. ReturnedIsDurable'
  BY <1>1, <1>9 DEF ChainInv, ReturnedIsDurable
<1> QED
  BY <1>5, <1>8, <1>10, <1>11 DEF ChainInv

\* The chain is intact on every connection, at every moment.  ChainIntact is
\* not inductive alone: an append is sound because the tip that was read is
\* still in the view (TipsCovered) and its successor's id is free.
THEOREM ChainInvariant == Spec => []ChainInv
<1>1. Init => ChainInv
  <2> SUFFICES ASSUME Init PROVE ChainInv
    OBVIOUS
  <2>1. entries \in Seq(Row) /\ Sound(entries)
    BY InitialTablesAssumption DEF Init, Sound
  <2>2. ASSUME NEW l \in Ledgers PROVE View(l) = entries
    BY <2>1 DEF Init, View
  <2>3. ChainIntact
    BY <2>1, <2>2 DEF ChainIntact, Sound
  <2>4. \A c \in LogCalls : pc[c] = "idle"
    BY DEF Init, Calls
  <2> QED
    BY <2>3, <2>4 DEF ChainInv, TipsCovered, RowsKept, ReturnedIsDurable
<1>2. TypeOK /\ TypeOK' /\ LockInv /\ ChainInv /\ [Next]_vars => ChainInv'
  <2> SUFFICES ASSUME TypeOK, TypeOK', LockInv, ChainInv, [Next]_vars PROVE ChainInv'
    OBVIOUS
  <2>0. \A c \in LogCalls : c \in Calls
    BY DEF Calls
  <2>1. ASSUME UNCHANGED <<entries, pend, tip, stale>>,
               \A c \in LogCalls : \/ pc'[c] = pc[c]
                                   \/ pc'[c] \in {"waiting", "raised", "selecting"}
        PROVE  ChainInv'
    <3>1. \A l \in Ledgers : View(l)' = View(l)
      BY <2>1 DEF View
    <3>2. \A c \in LogCalls : Owner[c] \in Ledgers /\ RowOf(c, tip[c])' = RowOf(c, tip[c])
      BY <2>1, CallsAssumption DEF RowOf, Calls
    <3>3. ChainIntact'
      BY <3>1 DEF ChainInv, ChainIntact
    <3>4. TipsCovered' /\ RowsKept'
      BY <2>1, <3>1, <3>2 DEF ChainInv, TipsCovered, RowsKept, HasRow
    <3>5. ReturnedIsDurable'
      BY <2>1, <3>2 DEF ChainInv, ReturnedIsDurable
    <3> QED
      BY <3>3, <3>4, <3>5 DEF ChainInv
  <2>2. ASSUME NEW c \in Calls, Start(c) \/ CancelWaiting(c) PROVE ChainInv'
    <3>1. \A d \in LogCalls : \/ pc'[d] = pc[d]
                              \/ pc'[d] \in {"waiting", "raised", "selecting"}
      BY <2>0, <2>2 DEF Start, CancelWaiting, Goto, TypeOK
    <3> QED
      BY <2>1, <2>2, <3>1 DEF Start, CancelWaiting, dbVars
  <2>3. ASSUME NEW c \in Calls, Step(c) PROVE ChainInv'
    BY <2>3, StepChainInv
  <2>4. ASSUME NEW l \in Ledgers, Close(l) PROVE ChainInv'
    BY <2>0, <2>4, DiscardChainInv DEF Close
  <2>5. ASSUME NEW l \in Ledgers, Crash(l) PROVE ChainInv'
    <3>1. \A c \in LogCalls : /\ pc'[c] = pc[c] \/ pc'[c] = "lost"
                              /\ Owner[c] = l /\ Active(c) => pc'[c] = "lost"
      BY <2>0, <2>5 DEF Crash
    <3> QED
      BY <2>5, <3>1, DiscardChainInv DEF Crash
  <2>6. ASSUME NEW l \in Ledgers, Reopen(l) PROVE ChainInv'
    BY <2>1, <2>6 DEF Reopen
  <2>7. CASE UNCHANGED vars
    BY <2>1, <2>7 DEF vars
  <2> QED
    BY <2>2, <2>3, <2>4, <2>5, <2>6, <2>7 DEF Next
<1> QED
  BY <1>1, <1>2, TypeCorrect, LocksExclude, PTL DEF Spec

\* Whatever calls are cancelled, refused or lost, and however many Ledgers
\* write the file, what any connection reads is an intact chain (log, verify_chain).
THEOREM ChainStaysIntact == Spec => []ChainIntact
<1>1. ChainInv => ChainIntact
  BY DEF ChainInv
<1> QED
  BY <1>1, ChainInvariant, PTL

\* A LedgerEntry that log() returned is in the committed table for good.
THEOREM ReturnedStaysDurable == Spec => []ReturnedIsDurable
<1>1. ChainInv => ReturnedIsDurable
  BY DEF ChainInv
<1> QED
  BY <1>1, ChainInvariant, PTL

\* verify_chain(), which takes no lock, never reports a table as tampered with
\* that only Ledgers wrote.
THEOREM VerifyIsSound == Spec => []NoFalseAlarm
<1>1. Init => NoFalseAlarm
  BY DEF Init, NoFalseAlarm, Calls
<1>2. TypeOK /\ ChainInv /\ NoFalseAlarm /\ [Next]_vars => NoFalseAlarm'
  <2> SUFFICES ASSUME TypeOK, ChainInv, NoFalseAlarm, [Next]_vars,
                      NEW v \in VerifyCalls
               PROVE  pc'[v] # "tampered"
    BY DEF NoFalseAlarm
  <2>0. v \in Calls /\ pc[v] # "tampered"
    BY DEF Calls, NoFalseAlarm
  <2> USE <2>0 DEF TypeOK
  <2>1. ASSUME NEW c \in Calls, FetchAll(c) PROVE pc'[v] # "tampered"
    <3> DEFINE rows == View(Owner[c])
    <3>1. PICK n \in seen[c] .. (IF seen[c] = 0 THEN 0 ELSE Len(rows)) :
              \/ Leave(c, IF ValidChain(SubSeq(rows, 1, n), Key) THEN "done" ELSE "tampered")
              \/ Leave(c, "raised")
      BY <2>1 DEF FetchAll
    <3>2. Owner[c] \in Ledgers /\ c \in VerifyCalls /\ seen[c] \in Nat
      BY <2>1, CallsAssumption DEF FetchAll
    <3>3. rows \in Seq(Row) /\ ValidChain(rows, Key)
      BY <3>2, ViewType, ChainIntactSound DEF ChainInv, Sound
    <3>4. n \in 0..Len(rows)
      BY <3>1, <3>2, <3>3
    <3>5. ValidChain(SubSeq(rows, 1, n), Key)
      <4>1. /\ Len(SubSeq(rows, 1, n)) = n
            /\ \A i \in 1..n : SubSeq(rows, 1, n)[i] = rows[i]
        BY <3>3, <3>4
      <4>2. \A i \in 1..n : i \in 1..Len(rows) /\ (i # 1 => i - 1 \in 1..n)
        BY <3>3, <3>4
      <4> QED
        BY <3>3, <4>1, <4>2 DEF ValidChain, RowHolds, ExpectedPrevious
    <3>6. Leave(c, "done") \/ Leave(c, "raised")
      BY <3>1, <3>5
    <3> QED
      BY <3>6 DEF Leave
  <2>2. ASSUME NEW c \in Calls, Step(c), ~ FetchAll(c) PROVE pc'[v] # "tampered"
    BY <2>2 DEF Step, Acquire, SelectTip, FetchTip, Submit, InsertEntry, InsertAnchor,
       UpdateRow, Commit, SelectAll, BusyRead, BusyWrite, BusyCommit, OnClosed,
       GotoOrRaise, Goto, Leave
  <2>3. ASSUME NEW c \in Calls, Start(c) \/ CancelWaiting(c) PROVE pc'[v] # "tampered"
    BY <2>3 DEF Start, CancelWaiting, Goto
  <2>4. ASSUME NEW l \in Ledgers, Close(l) \/ Crash(l) \/ Reopen(l)
        PROVE  pc'[v] # "tampered"
    BY <2>4 DEF Close, Crash, Reopen
  <2>5. CASE UNCHANGED vars
    BY <2>5 DEF vars
  <2> QED
    BY <2>1, <2>2, <2>3, <2>4, <2>5 DEF Next
<1> QED
  BY <1>1, <1>2, TypeCorrect, ChainInvariant, PTL DEF Spec

-----------------------------------------------------------------------------
(* One row per call.                                                       *)

\* Where a log() call that has executed its insert can be.
Inserted == {"committing", "done", "raised", "lost"}

\* A row with the body of one of our log() calls is there because that call
\* has executed its insert, and it never comes back to it.
BodiesInserted(rows) ==
    \A i \in 1..Len(rows) : rows[i].body \in LogCalls => pc[rows[i].body] \in Inserted

BodiesOnce(rows) ==
    \A i, j \in 1..Len(rows) :
        rows[i].body \in LogCalls /\ rows[i].body = rows[j].body => i = j

OnceInv == \A l \in Ledgers : BodiesOnce(View(l)) /\ BodiesInserted(View(l))

\* A log() call that has executed its insert moves on to an end, and no further.
LEMMA InsertedStays ==
    ASSUME TypeOK, NEW c \in Calls, Step(c), NEW d \in LogCalls, pc[d] \in Inserted
    PROVE  pc'[d] \in Inserted
<1>0. d \in Calls /\ d \notin AnchorCalls \cup UpdateCalls \cup VerifyCalls
  BY CallsAssumption DEF Calls
<1> USE <1>0 DEF GotoOrRaise, Goto, Leave, TypeOK, Inserted
<1>1. CASE Acquire(c)
  BY <1>1 DEF Acquire
<1>2. CASE SelectTip(c)
  BY <1>2 DEF SelectTip
<1>3. CASE FetchTip(c)
  BY <1>3 DEF FetchTip
<1>4. CASE Submit(c) \/ UpdateRow(c)
  BY <1>4 DEF Submit, UpdateRow
<1>5. CASE InsertEntry(c) \/ InsertAnchor(c)
  BY <1>5 DEF InsertEntry, InsertAnchor
<1>6. CASE Commit(c)
  BY <1>6 DEF Commit
<1>7. CASE SelectAll(c) \/ FetchAll(c)
  BY <1>7 DEF SelectAll, FetchAll
<1>8. CASE BusyRead(c) \/ OnClosed(c) \/ BusyWrite(c) \/ BusyCommit(c)
  BY <1>8 DEF BusyRead, OnClosed, BusyWrite, BusyCommit
<1> QED
  BY <1>1, <1>2, <1>3, <1>4, <1>5, <1>6, <1>7, <1>8 DEF Step

\* Part of a table that has each body once has each body once.
LEMMA PrefixOnce ==
    ASSUME NEW r \in Seq(Row), NEW s \in Seq(Row), Extends(r, s),
           BodiesOnce(s), BodiesInserted(s)
    PROVE  BodiesOnce(r) /\ BodiesInserted(r)
<1>1. \A i \in 1..Len(r) : i \in 1..Len(s) /\ s[i] = r[i]
  BY DEF Extends
<1>2. BodiesOnce(r)
  BY <1>1 DEF BodiesOnce
<1> QED
  BY <1>1, <1>2 DEF BodiesInserted

\* A step of a call changes what a connection reads by that call's own row, or
\* to what another connection read already.
LEMMA StepViewsFrom ==
    ASSUME TypeOK, LockInv, ChainInv, NEW c \in Calls, Step(c), NEW m \in Ledgers
    PROVE  \/ View(m)' = View(m)
           \/ View(m)' = View(Owner[c])
           \/ /\ c \in LogCalls /\ pc[c] = "writing" /\ m = Owner[c]
              /\ pc'[c] \in {"committing", "raised"}
              /\ RowOf(c, tip[c]) \in Row
              /\ View(m)' = Append(View(m), RowOf(c, tip[c]))
<1> DEFINE l == Owner[c]
<1>1. l \in Ledgers
  BY CallsAssumption
<1>2. View(l) \in Seq(Row) /\ View(m) \in Seq(Row)
  BY <1>1, ViewType
<1>3. CASE UNCHANGED <<entries, pend>>
  BY <1>3 DEF View
<1>4. CASE InsertEntry(c) /\ ~ UNCHANGED pend
  <2>1. CASE m # l
    BY <1>1, <1>4, <2>1, InsertAppends DEF InsertEntry, View, TypeOK
  <2>2. CASE m = l
    <3>1. c \in LogCalls /\ pc[c] = "writing" /\ pc'[c] \in {"committing", "raised"}
      BY <1>4 DEF InsertEntry, GotoOrRaise, Goto, Leave, TypeOK
    <3> QED
      BY <1>4, <2>2, <3>1, InsertAppends
  <2> QED
    BY <2>1, <2>2
<1>5. CASE Commit(c)
  <2>1. entries' = View(l) /\ pend' = [pend EXCEPT ![l] = << >>]
    BY <1>5 DEF Commit
  <2>2. entries \in Seq(Row) /\ pend[l] \in Seq(Row) /\ pend[m] \in Seq(Row)
    BY <1>1 DEF TypeOK
  <2>3. CASE pend[l] = << >>
    BY <1>1, <2>1, <2>2, <2>3 DEF View, TypeOK
  <2>4. CASE pend[l] # << >>
    <3>1. m # l => pend[m] = << >>
      BY <1>1, <2>4 DEF LockInv, OneWriter, PendIsWriting
    <3>2. pend'[m] = << >>
      BY <1>1, <2>1, <3>1 DEF TypeOK
    <3>3. View(m)' = entries' \o pend'[m]
      BY DEF View
    <3>4. View(m)' = View(l) \o << >>
      BY <2>1, <3>2, <3>3
    <3> QED
      BY <1>2, <3>4
  <2> QED
    BY <2>3, <2>4
<1> QED
  BY <1>3, <1>4, <1>5 DEF Step, Acquire, SelectTip, FetchTip, Submit, InsertEntry,
     InsertAnchor, UpdateRow, SelectAll, FetchAll, BusyRead, BusyWrite, BusyCommit,
     OnClosed, dbVars

\* An inserted row's body is new to the table, because a call inserts once.
LEMMA StepOnceInv ==
    ASSUME TypeOK, LockInv, ChainInv, OnceInv, NEW c \in Calls, Step(c)
    PROVE  OnceInv'
<1> SUFFICES ASSUME NEW m \in Ledgers
             PROVE  BodiesOnce(View(m))' /\ BodiesInserted(View(m))'
  BY DEF OnceInv
<1>1. \A d \in LogCalls : pc[d] \in Inserted => pc'[d] \in Inserted
  BY InsertedStays
<1>2. ASSUME NEW k \in Ledgers, View(m)' = View(k)
      PROVE  BodiesOnce(View(m))' /\ BodiesInserted(View(m))'
  <2>1. BodiesOnce(View(k)) /\ BodiesInserted(View(k))
    BY DEF OnceInv
  <2> QED
    BY <1>1, <1>2, <2>1 DEF BodiesOnce, BodiesInserted
<1>3. ASSUME c \in LogCalls, pc[c] = "writing", pc'[c] \in {"committing", "raised"},
             RowOf(c, tip[c]) \in Row, View(m)' = Append(View(m), RowOf(c, tip[c]))
      PROVE  BodiesOnce(View(m))' /\ BodiesInserted(View(m))'
  <2> DEFINE old == View(m)
             row == RowOf(c, tip[c])
             new == Append(old, row)
             n == Len(old)
  <2>1. old \in Seq(Row) /\ BodiesOnce(old) /\ BodiesInserted(old)
    BY ViewType DEF OnceInv
  <2>2. row.body = c
    BY DEF RowOf
  <2>3. row \in Row /\ View(m)' = new
    BY <1>3
  <2> HIDE DEF old, row
  <2>4. /\ Len(new) = n + 1 /\ new[n + 1] = row
        /\ \A i \in 1..n : new[i] = old[i]
    BY <2>1, <2>3
  <2>5. \A i \in 1..n : old[i].body # c
    BY <1>3, <2>1 DEF BodiesInserted, Inserted
  <2>6. \A i \in 1..Len(new) : i \in 1..n \/ i = n + 1
    BY <2>1, <2>4
  <2> HIDE DEF new
  <2>7. BodiesOnce(new)
    BY <2>1, <2>2, <2>4, <2>5, <2>6 DEF BodiesOnce
  <2>8. \A i \in 1..Len(new) : new[i].body \in LogCalls => pc'[new[i].body] \in Inserted
    BY <1>1, <1>3, <2>1, <2>2, <2>4, <2>6 DEF BodiesInserted, Inserted
  <2> QED
    BY <2>3, <2>7, <2>8 DEF BodiesOnce, BodiesInserted
<1>4. Owner[c] \in Ledgers
  BY CallsAssumption
<1> QED
  BY <1>2, <1>3, <1>4, StepViewsFrom

\* A call's body is in a table once, and only when it has inserted it.
LEMMA OnceInvariant == Spec => []OnceInv
<1>1. Init => OnceInv
  <2> SUFFICES ASSUME Init, NEW l \in Ledgers
               PROVE  BodiesOnce(View(l)) /\ BodiesInserted(View(l))
    BY DEF OnceInv
  <2>1. entries \in Seq(Row) /\ \A i \in 1..Len(entries) : entries[i].body \notin LogCalls
    BY InitialTablesAssumption DEF Init
  <2>2. View(l) = entries
    BY <2>1 DEF Init, View
  <2> QED
    BY <2>1, <2>2 DEF BodiesOnce, BodiesInserted
<1>2. TypeOK /\ LockInv /\ ChainInv /\ OnceInv /\ [Next]_vars => OnceInv'
  <2> SUFFICES ASSUME TypeOK, LockInv, ChainInv, OnceInv, [Next]_vars PROVE OnceInv'
    OBVIOUS
  <2>1. ASSUME \A l \in Ledgers : View(l)' = View(l) \/ View(l)' = entries,
               \A d \in LogCalls : pc[d] \in Inserted => pc'[d] \in Inserted
        PROVE  OnceInv'
    <3> SUFFICES ASSUME NEW l \in Ledgers
                 PROVE  BodiesOnce(View(l))' /\ BodiesInserted(View(l))'
      BY DEF OnceInv
    <3>1. /\ View(l) \in Seq(Row) /\ entries \in Seq(Row)
          /\ BodiesOnce(View(l)) /\ BodiesInserted(View(l))
      BY ViewType DEF OnceInv, TypeOK
    <3>2. Extends(entries, View(l))
      BY ConcatExtends DEF View, TypeOK
    <3>3. BodiesOnce(entries) /\ BodiesInserted(entries)
      BY <3>1, <3>2, PrefixOnce
    <3> QED
      BY <2>1, <3>1, <3>3 DEF BodiesOnce, BodiesInserted
  <2>2. \A d \in LogCalls : d \in Calls
    BY DEF Calls
  <2>3. ASSUME NEW c \in Calls, Start(c) \/ CancelWaiting(c) PROVE OnceInv'
    <3>1. \A l \in Ledgers : View(l)' = View(l)
      BY <2>3 DEF Start, CancelWaiting, dbVars, View
    <3>2. \A d \in LogCalls : pc[d] \in Inserted => pc'[d] \in Inserted
      BY <2>2, <2>3 DEF Start, CancelWaiting, Goto, Inserted, TypeOK
    <3> QED
      BY <2>1, <3>1, <3>2
  <2>4. ASSUME NEW c \in Calls, Step(c) PROVE OnceInv'
    BY <2>4, StepOnceInv
  <2>5. ASSUME NEW l \in Ledgers, Discard(l)
        PROVE  \A m \in Ledgers : View(m)' = View(m) \/ View(m)' = entries
    <3>1. entries' = entries /\ pend' = [pend EXCEPT ![l] = << >>]
      BY <2>5 DEF Discard
    <3>2. \A m \in Ledgers : pend'[m] = IF m = l THEN << >> ELSE pend[m]
      BY <3>1 DEF TypeOK
    <3>3. entries \o << >> = entries
      BY DEF TypeOK
    <3> QED
      BY <3>1, <3>2, <3>3 DEF View
  <2>6. ASSUME NEW l \in Ledgers, Close(l) PROVE OnceInv'
    BY <2>1, <2>5, <2>6 DEF Close
  <2>7. ASSUME NEW l \in Ledgers, Crash(l) PROVE OnceInv'
    <3>1. \A d \in LogCalls : pc[d] \in Inserted => pc'[d] \in Inserted
      BY <2>2, <2>7 DEF Crash, Inserted
    <3> QED
      BY <2>1, <2>5, <2>7, <3>1 DEF Crash
  <2>8. CASE (\E l \in Ledgers : Reopen(l)) \/ UNCHANGED vars
    BY <2>1, <2>8 DEF Reopen, vars, View
  <2> QED
    BY <2>3, <2>4, <2>6, <2>7, <2>8 DEF Next
<1> QED
  BY <1>1, <1>2, TypeCorrect, LocksExclude, ChainInvariant, PTL DEF Spec

\* One log() call writes at most one row, in any connection's view: also the
\* call that was cancelled or refused and whose row another call published.
THEOREM OncePerCall == Spec => []OneRowPerCall
<1>1. OnceInv => OneRowPerCall
  BY DEF OnceInv, BodiesOnce, OneRowPerCall
<1> QED
  BY <1>1, OnceInvariant, PTL

-----------------------------------------------------------------------------
(* What verify_chain() counts.                                             *)

\* verify_chain() never takes the lock; the rows committed when it started are
\* there still; and what its cursor was opened on holds them.
CountInv ==
    \A c \in VerifyCalls :
        /\ pc[c] \in {"idle", "selecting", "reading"} \cup Done
        /\ base[c] <= Len(entries)
        /\ pc[c] \in {"reading", "done"} => seen[c] >= base[c]

\* A step of a call keeps the count invariant: a walk of n rows starts with
\* the rows of its cursor, and goes on to those appended meanwhile.
LEMMA StepCountInv ==
    ASSUME TypeOK, TypeOK', CountInv, NEW c \in Calls, Step(c)
    PROVE  CountInv'
<1> SUFFICES ASSUME NEW v \in VerifyCalls
             PROVE  /\ pc'[v] \in {"idle", "selecting", "reading"} \cup Done
                    /\ base'[v] <= Len(entries')
                    /\ pc'[v] \in {"reading", "done"} => seen'[v] >= base'[v]
  BY DEF CountInv
<1>0. /\ v \in Calls /\ v \notin LogCalls \cup AnchorCalls \cup UpdateCalls
      /\ pc[v] \in {"idle", "selecting", "reading"} \cup Done
      /\ base[v] <= Len(entries) /\ base[v] \in Nat /\ seen[v] \in Nat
      /\ pc[v] \in {"reading", "done"} => seen[v] >= base[v]
  BY CallsAssumption DEF Calls, CountInv, TypeOK
<1>1. base'[v] = base[v]
  BY DEF Step, Acquire, SelectTip, FetchTip, Submit, InsertEntry, InsertAnchor, UpdateRow,
     Commit, SelectAll, FetchAll, BusyRead, BusyWrite, BusyCommit, OnClosed
<1>2. base'[v] <= Len(entries')
  <2>1. Len(entries) \in Nat /\ Len(entries') \in Nat /\ Len(entries) <= Len(entries')
    BY EntriesExtend DEF Extends, TypeOK
  <2> QED
    BY <1>0, <1>1, <2>1
<1> SUFFICES /\ pc'[v] \in {"idle", "selecting", "reading"} \cup Done
             /\ pc'[v] \in {"reading", "done"} => seen'[v] >= base[v]
  BY <1>1, <1>2
<1> USE <1>0 DEF Done
<1>3. CASE v # c
  <2>1. pc'[v] = pc[v] /\ seen'[v] = seen[v]
    BY <1>3 DEF Step, Acquire, SelectTip, FetchTip, Submit, InsertEntry, InsertAnchor,
       UpdateRow, Commit, SelectAll, FetchAll, BusyRead, BusyWrite, BusyCommit, OnClosed,
       GotoOrRaise, Goto, Leave, TypeOK
  <2> QED
    BY <2>1
<1>4. CASE v = c /\ SelectAll(c)
  <2>1. pc'[v] \in {"reading", "raised"}
    BY <1>4 DEF SelectAll, GotoOrRaise, Goto, Leave, TypeOK
  <2>2. seen'[v] = Len(View(Owner[c]))
    BY <1>4 DEF SelectAll, TypeOK
  <2>3. Len(View(Owner[c])) >= Len(entries)
    <3>1. Owner[c] \in Ledgers
      BY CallsAssumption
    <3>2. Extends(entries, View(Owner[c]))
      BY <3>1, ConcatExtends DEF View, TypeOK
    <3> QED
      BY <3>2 DEF Extends
  <2>4. Len(entries) \in Nat /\ Len(View(Owner[c])) \in Nat
    BY CallsAssumption, ViewType DEF TypeOK
  <2> QED
    BY <2>1, <2>2, <2>3, <2>4
<1>5. CASE v = c /\ FetchAll(c)
  <2>1. PICK n \in seen[c] .. (IF seen[c] = 0 THEN 0 ELSE Len(View(Owner[c]))) :
            /\ seen' = [seen EXCEPT ![c] = n]
            /\ \/ Leave(c, IF ValidChain(SubSeq(View(Owner[c]), 1, n), Key)
                           THEN "done" ELSE "tampered")
               \/ Leave(c, "raised")
    BY <1>5 DEF FetchAll
  <2>2. pc'[v] \in {"done", "tampered", "raised"}
    BY <1>5, <2>1 DEF Leave, TypeOK
  <2>3. seen'[v] = n /\ pc[v] = "reading"
    BY <1>5, <2>1 DEF FetchAll, TypeOK
  <2>4. n >= seen[v] /\ n \in Int
    BY <1>5, <2>1, CallsAssumption, ViewType
  <2> QED
    BY <2>2, <2>3, <2>4
<1>6. CASE v = c /\ (BusyRead(c) \/ OnClosed(c))
  BY <1>6 DEF BusyRead, OnClosed, Leave, TypeOK
<1> QED
  BY <1>3, <1>4, <1>5, <1>6 DEF Step, Acquire, SelectTip, FetchTip, Submit, InsertEntry,
     InsertAnchor, UpdateRow, Commit, BusyWrite, BusyCommit

\* The count that verify_chain() returns covers every row committed before it
\* began, whatever is written while it walks the table.
THEOREM VerifyCountCovers == Spec => []VerifyCoversCommitted
<1>1. Init => CountInv
  <2> SUFFICES ASSUME Init PROVE CountInv
    OBVIOUS
  <2>1. Len(entries) \in Nat
    BY InitialTablesAssumption DEF Init
  <2> QED
    BY <2>1 DEF Init, CountInv, Calls
<1>2. TypeOK /\ TypeOK' /\ CountInv /\ [Next]_vars => CountInv'
  <2> SUFFICES ASSUME TypeOK, TypeOK', CountInv, [Next]_vars PROVE CountInv'
    OBVIOUS
  <2>0. \A v \in VerifyCalls : v \in Calls
    BY DEF Calls
  <2>1. ASSUME NEW c \in Calls, Step(c) PROVE CountInv'
    BY <2>1, StepCountInv
  <2>2. ASSUME UNCHANGED <<entries, base, seen>>,
               \A v \in VerifyCalls : pc'[v] = pc[v] \/ pc'[v] \in {"raised", "lost"}
        PROVE  CountInv'
    BY <2>2 DEF CountInv, Done
  <2>3. ASSUME NEW c \in Calls, Start(c) PROVE CountInv'
    <3>1. Len(entries) \in Nat /\ entries' = entries /\ seen' = seen
      BY <2>3 DEF Start, TypeOK
    <3>2. ASSUME NEW v \in VerifyCalls
          PROVE  \/ pc'[v] = pc[v] /\ base'[v] = base[v]
                 \/ /\ pc'[v] \in {"selecting", "raised"}
                    /\ base'[v] = base[v] \/ base'[v] = Len(entries)
      <4>1. v \notin AnchorCalls
        BY CallsAssumption
      <4>2. CASE v = c
        BY <2>0, <2>3, <4>1, <4>2 DEF Start, Goto, TypeOK
      <4>3. CASE v # c
        BY <2>0, <2>3, <4>3 DEF Start, Goto, TypeOK
      <4> QED
        BY <4>2, <4>3
    <3> SUFFICES ASSUME NEW v \in VerifyCalls
                 PROVE  /\ pc'[v] \in {"idle", "selecting", "reading"} \cup Done
                        /\ base'[v] <= Len(entries')
                        /\ pc'[v] \in {"reading", "done"} => seen'[v] >= base'[v]
      BY DEF CountInv
    <3>3. /\ pc[v] \in {"idle", "selecting", "reading"} \cup Done
          /\ base[v] <= Len(entries)
          /\ pc[v] \in {"reading", "done"} => seen[v] >= base[v]
      BY DEF CountInv
    <3> QED
      BY <3>1, <3>2, <3>3 DEF Done
  <2>4. ASSUME NEW c \in Calls, CancelWaiting(c) PROVE CountInv'
    <3>1. \A v \in VerifyCalls : pc'[v] = pc[v] \/ pc'[v] \in {"raised", "lost"}
      BY <2>0, <2>4 DEF CancelWaiting, Goto, TypeOK
    <3> QED
      BY <2>2, <2>4, <3>1 DEF CancelWaiting, dbVars
  <2>5. ASSUME NEW l \in Ledgers, Close(l) \/ Crash(l) \/ Reopen(l) PROVE CountInv'
    <3>1. \A v \in VerifyCalls : pc'[v] = pc[v] \/ pc'[v] \in {"raised", "lost"}
      BY <2>0, <2>5 DEF Close, Crash, Reopen
    <3> QED
      BY <2>2, <2>5, <3>1 DEF Close, Crash, Reopen, Discard
  <2>6. CASE UNCHANGED vars
    BY <2>2, <2>6 DEF vars
  <2> QED
    BY <2>1, <2>3, <2>4, <2>5, <2>6 DEF Next
<1>3. CountInv => VerifyCoversCommitted
  BY DEF CountInv, VerifyCoversCommitted
<1> QED
  BY <1>1, <1>2, <1>3, TypeCorrect, PTL DEF Spec

-----------------------------------------------------------------------------
(* One Ledger logs; others may anchor, confirm, verify, close and crash.   *)

Logs(l) == \E c \in LogCalls : Owner[c] = l

OneLogger == \A c, d \in LogCalls : Owner[c] = Owner[d]

\* Only the Ledger that logs has uncommitted rows of entries.
PendIsLogged == \A l \in Ledgers : pend[l] # << >> => Logs(l)

\* The tip that a log() call has read is the tip still.
TipsAreLast ==
    \A c \in LogCalls : pc[c] \in {"fetching", "writing"} /\ c \notin stale
                        => tip[c] = TipOf(View(Owner[c]))

Contradicts(row, head) == row.entry_id = head.entry_id /\ row.entry_hash # head.entry_hash

Binds(rows, head) ==
    \E i \in 1..Len(rows) : rows[i].entry_id = head.entry_id
                            /\ rows[i].entry_hash = head.entry_hash

\* An anchor() call on the Ledger that logs: no row has the id of the head it
\* holds, and another hash.  The head may have been rolled back, and then nothing
\* has taken its place.  On another Ledger the head it holds is committed.
HeadsUncontradicted ==
    \A c \in AnchorCalls : pc[c] \in {"fetching", "submitting", "writing"} =>
        IF Logs(Owner[c])
        THEN \A i \in 1..Len(View(Owner[c])) : ~ Contradicts(View(Owner[c])[i], tip[c])
        ELSE tip[c] = NoHead \/ Binds(entries, tip[c])

\* What an open transaction binds, its connection sees.
PendingBind == \A l \in Ledgers : \A a \in pendAnchors[l] : Binds(View(l), a)

LoggerInv ==
    /\ PendIsLogged /\ TipsAreLast /\ HeadsUncontradicted /\ PendingBind
    /\ AnchorsBindEntries

\* A row that binds a head stays where it is.
LEMMA ExtendsBinds ==
    ASSUME NEW r \in Seq(Row), NEW s \in Seq(Row), Extends(r, s), NEW a, Binds(r, a)
    PROVE  Binds(s, a)
BY DEF Extends, Binds

\* The row that has the id of a sound table's tip is that tip.
LEMMA TipUncontradicted ==
    ASSUME NEW rows \in Seq(Row), Sound(rows), NEW i \in 1..Len(rows)
    PROVE  ~ Contradicts(rows[i], TipOf(rows))
<1>1. rows # << >> /\ Len(rows) \in 1..Len(rows)
  OBVIOUS
<1>2. rows[i].entry_id = i /\ rows[Len(rows)].entry_id = Len(rows)
  BY <1>1 DEF Sound
<1> QED
  BY <1>1, <1>2 DEF Contradicts, TipOf

\* Where an anchor() call that holds a head can have come from.
LEMMA StepAnchorCalls ==
    ASSUME TypeOK, NEW c \in Calls, Step(c), NEW d \in AnchorCalls,
           d # c \/ ~ SelectTip(c),
           pc'[d] \in {"fetching", "submitting", "writing"}
    PROVE  tip'[d] = tip[d] /\ pc[d] \in {"fetching", "submitting", "writing"}
<1>0. d \in Calls /\ d \notin LogCalls \cup UpdateCalls \cup VerifyCalls
  BY CallsAssumption DEF Calls
<1> USE <1>0 DEF GotoOrRaise, Goto, Leave, TypeOK
<1>1. CASE Acquire(c)
  BY <1>1 DEF Acquire
<1>2. CASE SelectTip(c)
  BY <1>2 DEF SelectTip
<1>3. CASE FetchTip(c)
  BY <1>3 DEF FetchTip
<1>4. CASE Submit(c)
  BY <1>4 DEF Submit
<1>5. CASE InsertEntry(c) \/ InsertAnchor(c)
  BY <1>5 DEF InsertEntry, InsertAnchor
<1>6. CASE Commit(c) \/ UpdateRow(c)
  BY <1>6 DEF Commit, UpdateRow
<1>7. CASE SelectAll(c) \/ FetchAll(c)
  BY <1>7 DEF SelectAll, FetchAll
<1>8. CASE BusyRead(c) \/ OnClosed(c) \/ BusyWrite(c) \/ BusyCommit(c)
  BY <1>8 DEF BusyRead, OnClosed, BusyWrite, BusyCommit
<1> QED
  BY <1>1, <1>2, <1>3, <1>4, <1>5, <1>6, <1>7, <1>8 DEF Step

\* The head of a sound table is in it.
LEMMA TipBound ==
    ASSUME NEW rows \in Seq(Row)
    PROVE  TipOf(rows) = NoHead \/ Binds(rows, TipOf(rows))
<1>1. CASE rows = << >>
  BY <1>1 DEF TipOf
<1>2. CASE rows # << >>
  <2>1. Len(rows) \in 1..Len(rows)
    BY <1>2
  <2> QED
    BY <1>2, <2>1 DEF TipOf, Binds
<1> QED
  BY <1>1, <1>2

\* A Ledger that does not log reads the committed rows.
LEMMA OthersReadEntries ==
    ASSUME TypeOK, PendIsLogged, NEW l \in Ledgers, ~ Logs(l)
    PROVE  View(l) = entries
<1>1. pend[l] = << >> /\ entries \in Seq(Row)
  BY DEF PendIsLogged, TypeOK
<1> QED
  BY <1>1 DEF View

\* What the Ledger that logs reads is changed by the insert of a log() call only.
LEMMA LoggerView ==
    ASSUME TypeOK, LockInv, ChainInv, PendIsLogged, OneLogger,
           NEW l \in Ledgers, Logs(l), NEW c \in Calls, Step(c),
           ~ (c \in LogCalls /\ pc[c] = "writing")
    PROVE  View(l)' = View(l)
<1>1. Owner[c] \in Ledgers
  BY CallsAssumption
<1>2. View(l)' = View(l) \/ View(l)' = View(Owner[c])
  BY StepViewsFrom
<1>3. CASE Logs(Owner[c])
  BY <1>2, <1>3 DEF Logs, OneLogger
<1>4. CASE ~ Logs(Owner[c]) /\ View(l)' = View(Owner[c])
  <2>1. View(l)' = entries /\ entries \in Seq(Row) /\ pend[l] \in Seq(Row) /\ View(l) = entries \o pend[l]
    BY <1>1, <1>4, OthersReadEntries DEF TypeOK, View
  <2>2. Len(View(l)) <= Len(View(l)')
    BY StepViews DEF Extends
  <2>3. pend[l] = << >>
    BY <2>1, <2>2
  <2> QED
    BY <2>1, <2>3
<1> QED
  BY <1>2, <1>3, <1>4

\* A step of a call on any Ledger.
LEMMA StepLoggerInv ==
    ASSUME TypeOK, TypeOK', LockInv, ChainInv, LoggerInv, OneLogger, NEW c \in Calls, Step(c)
    PROVE  LoggerInv'
<1>1. \A d \in Calls : Owner[d] \in Ledgers
  BY CallsAssumption
<1>2. /\ \A d \in LogCalls \cup AnchorCalls : d \in Calls
      /\ LogCalls \cap AnchorCalls = {}
  BY CallsAssumption DEF Calls
<1>3. ASSUME NEW l \in Ledgers
      PROVE  /\ View(l) \in Seq(Row) /\ View(l)' \in Seq(Row)
             /\ Extends(View(l), View(l)') /\ Sound(View(l)) /\ Sound(View(l)')
  <2>1. entries' \in Seq(Row) /\ pend'[l] \in Seq(Row)
    BY DEF TypeOK
  <2> QED
    BY <2>1, StepViews, ViewType, ChainIntactSound DEF View, ChainInv
<1>4. entries \in Seq(Row) /\ entries' \in Seq(Row) /\ Extends(entries, entries')
  BY EntriesExtend DEF TypeOK
<1>5. PendIsLogged /\ PendIsLogged'
  <2>1. ASSUME NEW l \in Ledgers, pend'[l] # << >> PROVE Logs(l)
    <3>1. CASE pend'[l] = pend[l]
      BY <2>1, <3>1 DEF LoggerInv, PendIsLogged
    <3>2. CASE c \in LogCalls /\ Owner[c] = l
      BY <3>2 DEF Logs
    <3>3. CASE Commit(c) /\ pend'[l] # pend[l]
      BY <2>1, <3>3 DEF Commit, TypeOK
    <3>4. CASE ~ Commit(c) /\ pend'[l] # pend[l]
      <4>1. InsertEntry(c)
        BY <3>4 DEF Step, Acquire, SelectTip, FetchTip, Submit, InsertAnchor,
           UpdateRow, SelectAll, FetchAll, BusyRead, BusyWrite, BusyCommit, OnClosed, dbVars
      <4> QED
        BY <3>2, <3>4, <4>1 DEF InsertEntry, TypeOK
    <3> QED
      BY <3>1, <3>3, <3>4
  <2> QED
    BY <2>1 DEF LoggerInv, PendIsLogged, Logs
<1>6. ASSUME NEW d \in LogCalls \cup AnchorCalls, d # c, pc[d] \in Critical, Logs(Owner[d])
      PROVE  View(Owner[d])' = View(Owner[d])
  <2>1. ~ (c \in LogCalls /\ pc[c] = "writing")
    BY <1>2, <1>6 DEF LockInv, Exclusive, Critical, Logs, OneLogger
  <2> QED
    BY <1>1, <1>2, <1>5, <1>6, <2>1, LoggerView
<1>7. TipsAreLast'
  <2> SUFFICES ASSUME NEW d \in LogCalls, pc'[d] \in {"fetching", "writing"}, d \notin stale'
               PROVE  tip'[d] = TipOf(View(Owner[d])')
    BY <1>2 DEF TipsAreLast
  <2>0. Logs(Owner[d]) /\ Owner[d] \in Ledgers
    BY <1>1, <1>2 DEF Logs
  <2>1. CASE d = c /\ SelectTip(c)
    <3>1. tip'[d] = TipOf(View(Owner[d])) /\ View(Owner[d])' = View(Owner[d])
      BY <2>1 DEF SelectTip, View, TypeOK
    <3> QED
      BY <3>1
  <2>2. CASE d # c \/ ~ SelectTip(c)
    <3>1. tip'[d] = tip[d] /\ pc[d] \in {"fetching", "writing"} /\ d \notin stale
      BY <2>2, StepCalls
    <3>2. tip[d] = TipOf(View(Owner[d]))
      BY <3>1 DEF LoggerInv, TipsAreLast
    <3>3. View(Owner[d])' = View(Owner[d])
      <4>1. CASE d # c
        BY <1>6, <2>0, <3>1, <4>1 DEF Critical
      <4>2. CASE d = c
        BY <2>0, <4>2, StepViewsFrom
      <4> QED
        BY <4>1, <4>2
    <3> QED
      BY <3>1, <3>2, <3>3
  <2> QED
    BY <2>1, <2>2
<1>8. HeadsUncontradicted'
  <2> SUFFICES ASSUME NEW d \in AnchorCalls, pc'[d] \in {"fetching", "submitting", "writing"}
               PROVE  /\ Logs(Owner[d]) =>
                            \A i \in 1..Len(View(Owner[d])') :
                                ~ Contradicts(View(Owner[d])'[i], tip'[d])
                      /\ ~ Logs(Owner[d]) => tip'[d] = NoHead \/ Binds(entries', tip'[d])
    BY DEF HeadsUncontradicted, Contradicts, Binds, Logs
  <2> DEFINE l == Owner[d]
  <2>0. l \in Ledgers
    BY <1>1, <1>2
  <2> HIDE DEF l
  <2>1. CASE d = c /\ SelectTip(c)
    <3>1. tip'[d] = TipOf(View(l)) /\ View(l)' = View(l) /\ entries' = entries
      BY <2>1 DEF SelectTip, View, TypeOK, l
    <3>2. Logs(l) => \A i \in 1..Len(View(l)') : ~ Contradicts(View(l)'[i], tip'[d])
      BY <1>3, <2>0, <3>1, TipUncontradicted
    <3>3. ~ Logs(l) => tip'[d] = NoHead \/ Binds(entries', tip'[d])
      BY <1>4, <1>5, <2>0, <3>1, OthersReadEntries, TipBound
    <3> QED
      BY <3>2, <3>3 DEF l
  <2>2. CASE d # c \/ ~ SelectTip(c)
    <3>1. tip'[d] = tip[d] /\ pc[d] \in {"fetching", "submitting", "writing"}
      BY <2>2, StepAnchorCalls
    <3>2. ASSUME Logs(l)
          PROVE  \A i \in 1..Len(View(l)') : ~ Contradicts(View(l)'[i], tip'[d])
      <4>1. \A i \in 1..Len(View(l)) : ~ Contradicts(View(l)[i], tip[d])
        BY <3>1, <3>2 DEF LoggerInv, HeadsUncontradicted, l
      <4>2. View(l)' = View(l)
        <5>1. CASE d # c
          BY <1>6, <3>1, <3>2, <5>1 DEF Critical, l
        <5>2. CASE d = c
          BY <1>2, <2>0, <5>2, StepViewsFrom DEF l
        <5> QED
          BY <5>1, <5>2
      <4> QED
        BY <3>1, <4>1, <4>2
    <3>3. ASSUME ~ Logs(l)
          PROVE  tip'[d] = NoHead \/ Binds(entries', tip'[d])
      <4>1. tip[d] = NoHead \/ Binds(entries, tip[d])
        BY <3>1, <3>3 DEF LoggerInv, HeadsUncontradicted, l
      <4> QED
        BY <1>4, <3>1, <4>1, ExtendsBinds
    <3> QED
      BY <3>2, <3>3 DEF l
  <2> QED
    BY <2>1, <2>2
<1>9. \A m \in Ledgers : \A a \in pendAnchors[m] : Binds(View(m)', a)
  BY <1>3, ExtendsBinds DEF LoggerInv, PendingBind
<1>10. \A a \in anchors : Binds(entries', a)
  <2>1. \A a \in anchors : Binds(entries, a)
    BY DEF LoggerInv, AnchorsBindEntries, Binds
  <2> QED
    BY <1>4, <2>1, ExtendsBinds
<1>11. PendingBind' /\ AnchorsBindEntries'
  <2> DEFINE l == Owner[c]
  <2>0. l \in Ledgers
    BY <1>1
  <2>1. CASE InsertAnchor(c) /\ ~ UNCHANGED pendAnchors
    <3>1. /\ pendAnchors' = [pendAnchors EXCEPT ![l] = @ \cup {tip[c]}]
          /\ \E i \in 1..Len(View(l)) : View(l)[i].entry_id = tip[c].entry_id
          /\ UNCHANGED <<entries, anchors, pend>>
          /\ c \in AnchorCalls /\ pc[c] = "writing"
      BY <2>1 DEF InsertAnchor
    <3>2. View(l)' = View(l)
      BY <3>1 DEF View
    <3>3. Binds(View(l), tip[c])
      <4>1. CASE Logs(l)
        BY <3>1, <4>1 DEF LoggerInv, HeadsUncontradicted, Contradicts, Binds
      <4>2. CASE ~ Logs(l)
        <5>1. tip[c] # NoHead
          BY <1>3, <2>0, <3>1 DEF Sound, NoHead
        <5> QED
          BY <1>5, <2>0, <3>1, <4>2, <5>1, OthersReadEntries DEF LoggerInv, HeadsUncontradicted
      <4> QED
        BY <4>1, <4>2
    <3>4. \A m \in Ledgers : \A a \in pendAnchors'[m] : a \in pendAnchors[m] \/ (m = l /\ a = tip[c])
      BY <3>1 DEF TypeOK
    <3>5. \A m \in Ledgers : \A a \in pendAnchors'[m] : Binds(View(m)', a)
      BY <1>9, <3>2, <3>3, <3>4
    <3>6. PendingBind'
      BY <3>5 DEF PendingBind, Binds
    <3> QED
      BY <3>1, <3>6 DEF LoggerInv, AnchorsBindEntries
  <2>2. CASE Commit(c)
    <3>1. /\ anchors' = anchors \cup pendAnchors[l] /\ entries' = View(l)
          /\ pendAnchors' = [pendAnchors EXCEPT ![l] = {}]
      BY <2>2 DEF Commit
    <3>2. \A m \in Ledgers : pendAnchors'[m] \subseteq pendAnchors[m]
      BY <3>1 DEF TypeOK
    <3>3. \A a \in pendAnchors[l] : Binds(entries', a)
      BY <2>0, <3>1 DEF LoggerInv, PendingBind
    <3>4. AnchorsBindEntries'
      BY <1>10, <3>1, <3>3 DEF AnchorsBindEntries, Binds
    <3>5. \A m \in Ledgers : \A a \in pendAnchors'[m] : Binds(View(m)', a)
      BY <1>9, <3>2
    <3> QED
      BY <3>4, <3>5 DEF PendingBind, Binds
  <2>3. CASE ~ Commit(c) /\ (InsertAnchor(c) => UNCHANGED pendAnchors)
    <3>1. UNCHANGED <<pendAnchors, anchors>>
      BY <2>3 DEF Step, Acquire, SelectTip, FetchTip, Submit, InsertEntry, InsertAnchor,
         UpdateRow, SelectAll, FetchAll, BusyRead, BusyWrite, BusyCommit, OnClosed, dbVars
    <3> QED
      BY <1>9, <1>10, <3>1 DEF PendingBind, AnchorsBindEntries, Binds
  <2> QED
    BY <2>1, <2>2, <2>3
<1> QED
  BY <1>5, <1>7, <1>8, <1>11 DEF LoggerInv

\* Closing a connection, or losing its process, takes the uncommitted rows and
\* the transaction's anchors with them, and no other connection's.
LEMMA DiscardLoggerInv ==
    ASSUME TypeOK, LoggerInv, NEW l \in Ledgers, Discard(l), UNCHANGED tip,
           stale \subseteq stale',
           \A c \in Calls : pc'[c] = pc[c] \/ pc'[c] = "lost",
           \A c \in Calls : Owner[c] = l /\ Active(c) => pc'[c] = "lost" \/ c \in stale'
    PROVE  LoggerInv'
<1>1. \A d \in LogCalls \cup AnchorCalls : d \in Calls /\ Owner[d] \in Ledgers
  BY CallsAssumption DEF Calls
<1>2. entries \in Seq(Row) /\ entries' = entries /\ anchors' = anchors
  BY DEF Discard, TypeOK
<1>3. /\ pend'[l] = << >> /\ pendAnchors'[l] = {}
      /\ \A m \in Ledgers \ {l} : pend'[m] = pend[m] /\ pendAnchors'[m] = pendAnchors[m]
  BY DEF Discard, TypeOK
<1>4. View(l)' = entries
  <2>1. View(l)' = entries' \o pend'[l]
    BY DEF View
  <2> QED
    BY <1>2, <1>3, <2>1
<1>5. \A m \in Ledgers \ {l} : View(m)' = View(m)
  BY <1>2, <1>3 DEF View
<1>6. Extends(entries, View(l))
  BY ConcatExtends DEF View, TypeOK
<1>7. PendIsLogged'
  BY <1>3 DEF LoggerInv, PendIsLogged, Logs
<1>8. TipsAreLast'
  <2> SUFFICES ASSUME NEW d \in LogCalls, pc'[d] \in {"fetching", "writing"}, d \notin stale'
               PROVE  tip[d] = TipOf(View(Owner[d])')
    BY DEF TipsAreLast
  <2>1. pc[d] \in {"fetching", "writing"} /\ d \notin stale /\ Owner[d] # l
    BY <1>1 DEF Active, Done
  <2> QED
    BY <1>1, <1>5, <2>1 DEF LoggerInv, TipsAreLast
<1>9. HeadsUncontradicted'
  <2> SUFFICES ASSUME NEW d \in AnchorCalls, pc'[d] \in {"fetching", "submitting", "writing"}
               PROVE  /\ Logs(Owner[d]) =>
                            \A i \in 1..Len(View(Owner[d])') :
                                ~ Contradicts(View(Owner[d])'[i], tip[d])
                      /\ ~ Logs(Owner[d]) => tip[d] = NoHead \/ Binds(entries, tip[d])
    BY <1>2 DEF HeadsUncontradicted, Contradicts, Binds, Logs
  <2>1. pc[d] \in {"fetching", "submitting", "writing"} /\ Owner[d] \in Ledgers
    BY <1>1
  <2>2. ~ Logs(Owner[d]) => tip[d] = NoHead \/ Binds(entries, tip[d])
    BY <2>1 DEF LoggerInv, HeadsUncontradicted
  <2>3. Logs(Owner[d]) => \A i \in 1..Len(View(Owner[d])) : ~ Contradicts(View(Owner[d])[i], tip[d])
    BY <2>1 DEF LoggerInv, HeadsUncontradicted
  <2>4. CASE Owner[d] # l
    BY <1>5, <2>1, <2>2, <2>3, <2>4
  <2>5. CASE Owner[d] = l
    <3>1. \A i \in 1..Len(entries) : i \in 1..Len(View(l)) /\ View(l)[i] = entries[i]
      BY <1>2, <1>6 DEF Extends, View
    <3> QED
      BY <1>4, <2>2, <2>3, <2>5, <3>1
  <2> QED
    BY <2>4, <2>5
<1>10. PendingBind'
  <2>1. \A m \in Ledgers : \A a \in pendAnchors'[m] : Binds(View(m)', a)
    BY <1>3, <1>5 DEF LoggerInv, PendingBind
  <2> QED
    BY <2>1 DEF PendingBind, Binds
<1>11. AnchorsBindEntries'
  BY <1>2 DEF LoggerInv, AnchorsBindEntries
<1> QED
  BY <1>7, <1>8, <1>9, <1>10, <1>11 DEF LoggerInv

LEMMA LoggerInvariant ==
    ASSUME OneLogger
    PROVE  Spec => []LoggerInv
<1>1. Init => LoggerInv
  BY DEF Init, LoggerInv, PendIsLogged, TipsAreLast, HeadsUncontradicted, PendingBind,
     AnchorsBindEntries, Calls
<1>2. TypeOK /\ TypeOK' /\ LockInv /\ ChainInv /\ LoggerInv /\ [Next]_vars => LoggerInv'
  <2> SUFFICES ASSUME TypeOK, TypeOK', LockInv, ChainInv, LoggerInv, [Next]_vars
               PROVE  LoggerInv'
    OBVIOUS
  <2>1. ASSUME UNCHANGED <<entries, anchors, pend, pendAnchors, tip, stale>>,
               \A c \in Calls : \/ pc'[c] = pc[c]
                                \/ pc'[c] \in {"waiting", "raised", "selecting"}
        PROVE  LoggerInv'
    <3>1. \A d \in LogCalls \cup AnchorCalls : d \in Calls
      BY DEF Calls
    <3>2. \A l : View(l)' = View(l)
      BY <2>1 DEF View
    <3>3. TipsAreLast' /\ PendIsLogged'
      BY <2>1, <3>1, <3>2 DEF LoggerInv, TipsAreLast, PendIsLogged, Logs
    <3>4. HeadsUncontradicted'
      BY <2>1, <3>1, <3>2 DEF LoggerInv, HeadsUncontradicted, Contradicts, Binds, Logs
    <3>5. PendingBind' /\ AnchorsBindEntries'
      BY <2>1, <3>2 DEF LoggerInv, PendingBind, AnchorsBindEntries, Binds
    <3> QED
      BY <3>3, <3>4, <3>5 DEF LoggerInv
  <2>2. ASSUME NEW c \in Calls, Start(c) \/ CancelWaiting(c) PROVE LoggerInv'
    <3>1. \A d \in Calls : pc'[d] = pc[d] \/ pc'[d] \in {"waiting", "raised", "selecting"}
      BY <2>2 DEF Start, CancelWaiting, Goto, TypeOK
    <3> QED
      BY <2>1, <2>2, <3>1 DEF Start, CancelWaiting, dbVars
  <2>3. ASSUME NEW c \in Calls, Step(c) PROVE LoggerInv'
    BY <2>3, StepLoggerInv
  <2>4. ASSUME NEW l \in Ledgers, Close(l) \/ Crash(l) PROVE LoggerInv'
    <3>1. /\ Discard(l) /\ UNCHANGED tip /\ stale \subseteq stale'
          /\ \A c \in Calls :
                /\ pc'[c] = pc[c] \/ pc'[c] = "lost"
                /\ Owner[c] = l /\ Active(c) => pc'[c] = "lost" \/ c \in stale'
      BY <2>4 DEF Close, Crash
    <3> QED
      BY <3>1, DiscardLoggerInv
  <2>5. ASSUME NEW l \in Ledgers, Reopen(l) PROVE LoggerInv'
    BY <2>1, <2>5 DEF Reopen
  <2>6. CASE UNCHANGED vars
    BY <2>1, <2>6 DEF vars
  <2> QED
    BY <2>2, <2>3, <2>4, <2>5, <2>6 DEF Next
<1> QED
  BY <1>1, <1>2, TypeCorrect, LocksExclude, ChainInvariant, PTL DEF Spec

\* While one Ledger logs, and whatever others anchor, confirm and verify, the tip
\* a log() call inserts after is the tip it read: only a second Ledger that logs
\* makes the primary key refuse an id.
THEOREM TipStaysObserved ==
    ASSUME OneLogger
    PROVE  Spec => []TipIsObserved
<1>1. LoggerInv => TipIsObserved
  <2> SUFFICES ASSUME LoggerInv, NEW c \in LogCalls, pc[c] = "writing", Connected(c)
               PROVE  tip[c] = TipOf(View(Owner[c]))
    BY DEF TipIsObserved
  <2>1. c \notin stale
    BY CallsAssumption DEF Connected, Recaptures
  <2> QED
    BY <2>1 DEF LoggerInv, TipsAreLast
<1> QED
  BY <1>1, LoggerInvariant, PTL

\* While one Ledger logs, each anchor of any Ledger binds a head that the committed
\* table holds, whatever was closed or rolled back between the read and the insert.
THEOREM AnchorsStayBound ==
    ASSUME OneLogger
    PROVE  Spec => []AnchorsBindEntries
<1>1. LoggerInv => AnchorsBindEntries
  BY DEF LoggerInv
<1> QED
  BY <1>1, LoggerInvariant, PTL
=============================================================================
