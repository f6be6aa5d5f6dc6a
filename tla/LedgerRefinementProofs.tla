----------------------- MODULE LedgerRefinementProofs -----------------------
(***************************************************************************)
(* The Ledgers over one file implement AuditLog, for any number of them,   *)
(* of calls and of initial rows.                                           *)
(***************************************************************************)
EXTENDS LedgerRefinement, LedgerProofs

\* The two specifications mean the same by a valid chain.
LEMMA SameChains ==
    ASSUME NEW rows PROVE Audit!ValidChain(rows, Key) <=> ValidChain(rows, Key)
BY DEF Audit!ValidChain, Audit!RowHolds, Audit!LinkHolds, Audit!HashHolds,
   Audit!SignatureHolds, Audit!ExpectedPrevious, Audit!EntryHash, Audit!Fields,
   Audit!GenesisPreviousHash, ValidChain, RowHolds, LinkHolds, HashHolds,
   SignatureHolds, ExpectedPrevious, EntryHash, Fields, GenesisPreviousHash

-----------------------------------------------------------------------------
(* What an open transaction holds.                                         *)

\* An uncommitted row is of a log() call of that connection which has not been
\* answered, or only with an exception.
PendUnanswered ==
    \A l \in Ledgers : \A i \in 1..Len(pend[l]) :
        /\ pend[l][i].body \in LogCalls
        /\ Owner[pend[l][i].body] = l
        /\ pc[pend[l][i].body] \in {"committing", "raised"}

\* The row a call is about to commit is not committed yet.
RowsOpen ==
    \A c \in LogCalls : pc[c] = "committing" /\ c \notin stale
                        => Len(entries) <= tip[c].entry_id

PendInv == PendUnanswered /\ RowsOpen

\* A step of a call other than a commit publishes nothing, and leaves each
\* log() call on its way, or raises it.
LEMMA StepStatus ==
    ASSUME TypeOK, NEW c \in Calls, Step(c), ~ Commit(c), NEW d \in LogCalls
    PROVE  /\ entries' = entries
           /\ d # c => pc'[d] = pc[d]
           /\ d = c => /\ pc[d] \notin {"idle"} \cup Done
                       /\ pc'[d] = "raised" \/ pc'[d] \notin {"idle"} \cup Done
<1>0. d \in Calls /\ d \notin AnchorCalls \cup UpdateCalls \cup VerifyCalls
  BY CallsAssumption DEF Calls
<1> USE <1>0 DEF GotoOrRaise, Goto, Leave, TypeOK, dbVars, Done
<1>1. CASE Acquire(c)
  BY <1>1 DEF Acquire
<1>2. CASE SelectTip(c)
  BY <1>2 DEF SelectTip
<1>3. CASE FetchTip(c)
  BY <1>3 DEF FetchTip
<1>4. CASE Submit(c) \/ UpdateRow(c)
  BY <1>4 DEF Submit, UpdateRow
<1>5. CASE InsertEntry(c)
  BY <1>5 DEF InsertEntry
<1>6. CASE InsertAnchor(c)
  BY <1>6 DEF InsertAnchor
<1>7. CASE SelectAll(c) \/ FetchAll(c)
  BY <1>7 DEF SelectAll, FetchAll
<1>8. CASE BusyRead(c) \/ OnClosed(c)
  BY <1>8 DEF BusyRead, OnClosed
<1>9. CASE BusyWrite(c) \/ BusyCommit(c)
  BY <1>9 DEF BusyWrite, BusyCommit
<1> QED
  BY <1>1, <1>2, <1>3, <1>4, <1>5, <1>6, <1>7, <1>8, <1>9 DEF Step

\* Which log() calls a commit answers, and what it leaves open.
LEMMA CommitStatus ==
    ASSUME TypeOK, NEW c \in Calls, Commit(c)
    PROVE  /\ pc[c] = "committing" /\ pc'[c] \in {"done", "raised"}
           /\ \A d \in LogCalls : d # c => pc'[d] = pc[d]
           /\ \A l \in Ledgers : pend'[l] = IF l = Owner[c] THEN << >> ELSE pend[l]
<1>1. \A d \in LogCalls : d \in Calls
  BY DEF Calls
<1> QED
  BY <1>1 DEF Commit, Leave, TypeOK

\* Where a call between its insert and its commit has come from.
LEMMA StepCommitting ==
    ASSUME TypeOK, NEW c \in Calls, Step(c), NEW d \in LogCalls, pc[d] = "committing",
           ~ Commit(c) \/ d # c
    PROVE  pc'[d] \in {"committing", "raised"}
<1>1. CASE d # c
  BY <1>1, StepStatus, CommitStatus
<1>2. CASE d = c /\ ~ Commit(c)
  <2>1. pc'[d] \in {"raised"}
    BY <1>2 DEF Step, Acquire, SelectTip, FetchTip, Submit, InsertEntry, InsertAnchor,
       UpdateRow, SelectAll, FetchAll, BusyRead, BusyWrite, BusyCommit, OnClosed,
       Leave, TypeOK, Calls
  <2> QED
    BY <2>1
<1> QED
  BY <1>1, <1>2

\* A step of a call keeps both.
LEMMA StepPendInv ==
    ASSUME TypeOK, LockInv, ChainInv, PendInv, NEW c \in Calls, Step(c)
    PROVE  PendInv'
<1>0. Owner[c] \in Ledgers /\ \A d \in LogCalls : d \in Calls /\ Owner[d] \in Ledgers
  BY CallsAssumption DEF Calls
<1>1. ASSUME NEW d \in LogCalls, pc[d] \in {"committing", "raised"}, ~ Commit(c) \/ d # c
      PROVE  pc'[d] \in {"committing", "raised"}
  <2>1. CASE pc[d] = "committing"
    BY <1>1, <2>1, StepCommitting
  <2>2. CASE pc[d] = "raised" /\ Commit(c)
    BY <1>1, <2>2, CommitStatus
  <2>3. CASE pc[d] = "raised" /\ ~ Commit(c)
    BY <2>3, StepStatus DEF Done
  <2> QED
    BY <1>1, <2>1, <2>2, <2>3
<1>2. PendUnanswered'
  <2> SUFFICES ASSUME NEW l \in Ledgers, NEW i \in 1..Len(pend'[l])
               PROVE  /\ pend'[l][i].body \in LogCalls
                      /\ Owner[pend'[l][i].body] = l
                      /\ pc'[pend'[l][i].body] \in {"committing", "raised"}
    BY DEF PendUnanswered
  <2>1. CASE Commit(c)
    <3>1. l # Owner[c] /\ pend'[l] = pend[l]
      BY <2>1, CommitStatus
    <3>2. /\ pend[l][i].body \in LogCalls /\ Owner[pend[l][i].body] = l
          /\ pc[pend[l][i].body] \in {"committing", "raised"}
      BY <3>1 DEF PendInv, PendUnanswered
    <3> QED
      BY <1>1, <3>1, <3>2
  <2>2. CASE ~ Commit(c) /\ pend'[l] = pend[l]
    <3>1. /\ pend[l][i].body \in LogCalls /\ Owner[pend[l][i].body] = l
          /\ pc[pend[l][i].body] \in {"committing", "raised"}
      BY <2>2 DEF PendInv, PendUnanswered
    <3> QED
      BY <1>1, <2>2, <3>1
  <2>3. CASE ~ Commit(c) /\ pend'[l] # pend[l]
    <3>1. InsertEntry(c)
      BY <2>3 DEF Step, Acquire, SelectTip, FetchTip, Submit, InsertAnchor,
         UpdateRow, SelectAll, FetchAll, BusyRead, BusyWrite, BusyCommit, OnClosed, dbVars
    <3>2. /\ pend' = [pend EXCEPT ![Owner[c]] = Append(@, RowOf(c, tip[c]))]
          /\ RowOf(c, tip[c]) \in Row
      BY <2>3, <3>1, InsertAppends
    <3>3. l = Owner[c] /\ pend'[l] = Append(pend[l], RowOf(c, tip[c]))
      BY <1>0, <2>3, <3>2 DEF TypeOK
    <3>4. c \in LogCalls /\ pc'[c] \in {"committing", "raised"}
      BY <3>1 DEF InsertEntry, GotoOrRaise, Goto, Leave, TypeOK
    <3>5. RowOf(c, tip[c]).body = c
      BY DEF RowOf
    <3> DEFINE row == RowOf(c, tip[c])
    <3>6. pend[l] \in Seq(Row) /\ row \in Row /\ row.body = c
      BY <3>2, <3>5 DEF TypeOK
    <3> HIDE DEF row
    <3>7. pend'[l] = Append(pend[l], row)
      BY <3>3 DEF row
    <3>8. CASE i = Len(pend[l]) + 1
      BY <3>3, <3>4, <3>6, <3>7, <3>8
    <3>9. CASE i # Len(pend[l]) + 1
      <4>1. i \in 1..Len(pend[l]) /\ pend'[l][i] = pend[l][i]
        BY <3>6, <3>7, <3>9
      <4>2. /\ pend[l][i].body \in LogCalls /\ Owner[pend[l][i].body] = l
            /\ pc[pend[l][i].body] \in {"committing", "raised"}
        BY <4>1 DEF PendInv, PendUnanswered
      <4> QED
        BY <1>1, <2>3, <4>1, <4>2
    <3> QED
      BY <3>8, <3>9
  <2> QED
    BY <2>1, <2>2, <2>3
<1>3. RowsOpen'
  <2> SUFFICES ASSUME NEW d \in LogCalls, pc'[d] = "committing", d \notin stale'
               PROVE  Len(entries') <= tip'[d].entry_id
    BY DEF RowsOpen
  <2>1. d # c \/ ~ SelectTip(c)
    BY <1>0 DEF SelectTip, GotoOrRaise, Goto, Leave, TypeOK
  <2>2. /\ tip'[d] = tip[d] /\ d \notin stale
        /\ \/ pc[d] = "committing"
           \/ d = c /\ InsertEntry(c) /\ ~ UNCHANGED pend
    BY <2>1, StepCalls
  <2>3. CASE pc[d] = "committing"
    <3>1. Len(entries) <= tip[d].entry_id
      BY <2>2, <2>3 DEF PendInv, RowsOpen
    <3>2. entries' = entries
      <4>1. CASE ~ Commit(c)
        BY <4>1, StepStatus
      <4>2. CASE Commit(c)
        <5>1. d # c /\ pc[c] = "committing"
          BY <4>2, CommitStatus
        <5>2. Owner[d] # Owner[c]
          BY <1>0, <2>3, <5>1 DEF LockInv, Exclusive, Critical
        <5>3. Writing(Owner[d])
          BY <1>0, <2>2, <2>3 DEF LockInv, CommittingIsWriting
        <5>4. pend[Owner[c]] = << >>
          BY <1>0, <5>2, <5>3 DEF LockInv, OneWriter, PendIsWriting
        <5>5. entries' = entries \o << >>
          BY <4>2, <5>4 DEF Commit, View
        <5> QED
          BY <5>5 DEF TypeOK
      <4> QED
        BY <4>1, <4>2
    <3> QED
      BY <2>2, <3>1, <3>2
  <2>4. CASE d = c /\ InsertEntry(c) /\ ~ UNCHANGED pend
    <3>1. tip[c].entry_id = Len(View(Owner[c])) /\ entries' = entries
      BY <2>4, InsertAppends DEF InsertEntry
    <3>2. Len(entries) <= Len(View(Owner[c]))
      <4>1. Extends(entries, View(Owner[c]))
        BY <1>0, ConcatExtends DEF View, TypeOK
      <4> QED
        BY <4>1 DEF Extends
    <3> QED
      BY <2>2, <2>4, <3>1, <3>2
  <2> QED
    BY <2>2, <2>3, <2>4
<1> QED
  BY <1>2, <1>3 DEF PendInv

\* Uncommitted rows are of calls that nobody has been told have succeeded, and
\* the row a call is about to commit is among them.
LEMMA PendInvariant == Spec => []PendInv
<1>1. Init => PendInv
  <2> SUFFICES ASSUME Init PROVE PendInv
    OBVIOUS
  <2>1. \A l \in Ledgers : pend[l] = << >>
    BY DEF Init
  <2>2. \A c \in LogCalls : pc[c] # "committing"
    BY DEF Init, Calls
  <2> QED
    BY <2>1, <2>2 DEF PendInv, PendUnanswered, RowsOpen
<1>2. TypeOK /\ LockInv /\ ChainInv /\ PendInv /\ [Next]_vars => PendInv'
  <2> SUFFICES ASSUME TypeOK, LockInv, ChainInv, PendInv, [Next]_vars PROVE PendInv'
    OBVIOUS
  <2>0. \A d \in LogCalls : d \in Calls
    BY DEF Calls
  <2>1. ASSUME UNCHANGED <<entries, pend, tip, stale>>,
               \A d \in LogCalls : /\ pc'[d] = "committing" <=> pc[d] = "committing"
                                   /\ pc[d] = "raised" => pc'[d] = "raised"
        PROVE  PendInv'
    BY <2>1 DEF PendInv, PendUnanswered, RowsOpen
  <2>2. ASSUME NEW c \in Calls, Start(c) \/ CancelWaiting(c) PROVE PendInv'
    <3>1. \A d \in LogCalls : /\ pc'[d] = "committing" <=> pc[d] = "committing"
                              /\ pc[d] = "raised" => pc'[d] = "raised"
      BY <2>0, <2>2 DEF Start, CancelWaiting, Goto, TypeOK
    <3> QED
      BY <2>1, <2>2, <3>1 DEF Start, CancelWaiting, dbVars
  <2>3. ASSUME NEW c \in Calls, Step(c) PROVE PendInv'
    BY <2>3, StepPendInv
  <2>4. ASSUME NEW l \in Ledgers, Discard(l), UNCHANGED tip,
               \A d \in LogCalls : pc'[d] = pc[d] \/ pc'[d] = "lost",
               \A d \in LogCalls : Owner[d] # l => pc'[d] = pc[d],
               \A d \in LogCalls : d \notin stale' => d \notin stale
        PROVE  PendInv'
    <3>1. /\ entries' = entries
          /\ \A m \in Ledgers : pend'[m] = IF m = l THEN << >> ELSE pend[m]
      BY <2>4 DEF Discard, TypeOK
    <3>2. PendUnanswered'
      BY <2>4, <3>1 DEF PendInv, PendUnanswered
    <3>3. RowsOpen'
      BY <2>4, <3>1 DEF PendInv, RowsOpen
    <3> QED
      BY <3>2, <3>3 DEF PendInv
  <2>5. ASSUME NEW l \in Ledgers, Close(l) PROVE PendInv'
    BY <2>4, <2>5 DEF Close
  <2>6. ASSUME NEW l \in Ledgers, Crash(l) PROVE PendInv'
    <3>1. \A d \in LogCalls : /\ pc'[d] = pc[d] \/ pc'[d] = "lost"
                              /\ Owner[d] # l => pc'[d] = pc[d]
      BY <2>0, <2>6 DEF Crash
    <3> QED
      BY <2>4, <2>6, <3>1 DEF Crash
  <2>7. CASE (\E l \in Ledgers : Reopen(l)) \/ UNCHANGED vars
    BY <2>1, <2>7 DEF Reopen, vars
  <2> QED
    BY <2>2, <2>3, <2>5, <2>6, <2>7 DEF Next
<1> QED
  BY <1>1, <1>2, TypeCorrect, LocksExclude, ChainInvariant, PTL DEF Spec

-----------------------------------------------------------------------------
(* The refinement mapping.                                                 *)

\* What the caller of each log() call has been told.
Told == [c \in LogCalls |-> Status(pc[c])]

\* The labels of a call on its way, and what its caller has been told.
LEMMA StatusOfLabels ==
    /\ Status("idle") = "idle" /\ Status("done") = "returned"
    /\ Status("raised") = "raised" /\ Status("lost") = "lost"
    /\ \A label : label \notin {"idle", "done", "raised", "lost"} => Status(label) = "called"
BY DEF Status

\* A step that changes no committed row and tells no caller anything.
LEMMA MapsToStutter ==
    ASSUME entries' = entries, \A d \in LogCalls : Status(pc'[d]) = Status(pc[d])
    PROVE  UNCHANGED Audit!logVars
<1>1. Told' = Told
  BY DEF Told
<1> QED
  BY <1>1 DEF Audit!logVars, Told

\* A step that tells the caller of one call that it raised.
LEMMA MapsToFail ==
    ASSUME entries' = entries, NEW c \in LogCalls, Status(pc[c]) \in {"idle", "called"},
           pc'[c] = "raised", \A d \in LogCalls \ {c} : pc'[d] = pc[d]
    PROVE  Audit!Fail(c)
<1>1. Told' = [Told EXCEPT ![c] = "raised"]
  BY StatusOfLabels DEF Told
<1>2. Told[c] \in {"idle", "called"}
  BY DEF Told
<1> QED
  BY <1>1, <1>2 DEF Audit!Fail, Told

\* A commit that publishes rows is a Grows of the abstract chain.
LEMMA MapsToGrows ==
    ASSUME TypeOK, LockInv, ChainInv, OnceInv, PendInv, NEW c \in Calls, Commit(c),
           pend[Owner[c]] # << >>
    PROVE  Audit!Grows
<1> DEFINE l == Owner[c]
           old == entries
           new == View(l)
           add == pend[l]
<1>1. l \in Ledgers /\ entries' = new
  BY CallsAssumption DEF Commit
<1>2. old \in Seq(Row) /\ add \in Seq(Row) /\ new = old \o add /\ new \in Seq(Row)
  BY <1>1, ViewType DEF TypeOK, View
<1>3. ValidChain(new, Key) /\ \A i \in 1..Len(new) : new[i].entry_id = i
  BY <1>1 DEF ChainInv, ChainIntact
<1>4. ASSUME NEW i \in Len(old) + 1 .. Len(new)
      PROVE  /\ i \in 1..Len(new)
             /\ i - Len(old) \in 1..Len(add)
             /\ new[i] = add[i - Len(old)]
  BY <1>2
<1>5. ASSUME NEW i \in Len(old) + 1 .. Len(new)
      PROVE  /\ new[i].body \in LogCalls
             /\ Told[new[i].body] \in {"called", "raised"}
  <2>1. /\ new[i].body \in LogCalls
        /\ pc[new[i].body] \in {"committing", "raised"}
    BY <1>1, <1>4 DEF PendInv, PendUnanswered
  <2> QED
    BY <2>1, StatusOfLabels DEF Told
<1>6. ASSUME NEW i \in Len(old) + 1 .. Len(new), NEW j \in 1 .. i - 1
      PROVE  new[j].body # new[i].body
  <2>1. i \in 1..Len(new) /\ j \in 1..Len(new) /\ i # j
    BY <1>2
  <2>2. BodiesOnce(new)
    BY <1>1 DEF OnceInv
  <2> QED
    BY <1>5, <2>1, <2>2 DEF BodiesOnce
<1>7. Audit!IsStrictPrefix(old, new)
  <2>1. Len(old) < Len(new)
    <3>1. Len(add) # 0
      BY <1>2
    <3> QED
      BY <1>2, <3>1
  <2>2. SubSeq(old, 1, Len(old)) = SubSeq(new, 1, Len(old))
    <3> HIDE DEF old, add, new
    <3>1. Len(old) \in Nat /\ \A i \in 1..Len(old) : new[i] = old[i]
      BY <1>2
    <3>2. /\ SubSeq(old, 1, Len(old)) \in Seq(Row)
          /\ Len(SubSeq(old, 1, Len(old))) = Len(old)
          /\ \A i \in 1..Len(old) : SubSeq(old, 1, Len(old))[i] = old[i]
      BY <1>2, <3>1
    <3>3. /\ SubSeq(new, 1, Len(old)) \in Seq(Row)
          /\ Len(SubSeq(new, 1, Len(old))) = Len(old)
          /\ \A i \in 1..Len(old) : SubSeq(new, 1, Len(old))[i] = new[i]
      BY <1>2, <2>1, <3>1
    <3> QED
      BY <3>1, <3>2, <3>3
  <2>3. old # new
    BY <2>1
  <2> QED
    BY <2>1, <2>2, <2>3, <1>2 DEF Audit!IsStrictPrefix, Audit!IsPrefix
<1>8. Audit!ValidChain(new, Key)
  BY <1>3, SameChains
<1> HIDE DEF new, add
<1>9. \A i \in Len(old) + 1 .. Len(new) :
         /\ new[i].entry_id = i
         /\ new[i].body \in LogCalls
         /\ Told[new[i].body] \in {"called", "raised"}
         /\ \A j \in 1 .. i - 1 : new[j].body # new[i].body
  BY <1>3, <1>4, <1>5, <1>6
<1> QED
  BY <1>1, <1>7, <1>8, <1>9 DEF Audit!Grows, Told

\* A commit maps to Grows with the answer its call gets, or to nothing when it
\* is of a writer that only updated rows and there is nothing left to publish.
LEMMA MapsCommit ==
    ASSUME TypeOK, LockInv, ChainInv, OnceInv, PendInv, NEW c \in Calls, Commit(c)
    PROVE  Audit!AuditNext \/ UNCHANGED Audit!logVars
<1> DEFINE l == Owner[c]
<1>1. l \in Ledgers /\ entries' = View(l)
  BY CallsAssumption DEF Commit
<1>2. /\ pc[c] = "committing" /\ pc'[c] \in {"done", "raised"}
      /\ \A d \in LogCalls : d # c => pc'[d] = pc[d]
  BY CommitStatus
<1>3. entries \in Seq(Row) /\ pend[l] \in Seq(Row)
  BY <1>1 DEF TypeOK
<1>4. CASE c \notin LogCalls
  <2>1. \A d \in LogCalls : pc'[d] = pc[d]
    BY <1>2, <1>4
  <2>2. CASE pend[l] = << >>
    <3>1. entries' = entries
      BY <1>1, <1>3, <2>2 DEF View
    <3> QED
      BY <2>1, <3>1, MapsToStutter
  <2>3. CASE pend[l] # << >>
    <3>1. Audit!Grows
      BY <2>3, MapsToGrows
    <3>2. Told' = Told
      BY <2>1 DEF Told
    <3>3. Audit!Settle
      BY <3>2 DEF Audit!Settle, Told
    <3> QED
      BY <3>1, <3>3 DEF Audit!AuditNext
  <2> QED
    BY <2>2, <2>3
<1>5. CASE c \in LogCalls
  <2> DEFINE k == tip[c].entry_id + 1
  <2>1. c \notin stale
    BY <1>5, CallsAssumption DEF Commit, Connected, Recaptures
  <2>2. /\ k <= Len(View(l)) /\ View(l)[k] = RowOf(c, tip[c])
        /\ k > Len(entries) /\ k \in Nat
    <3>1. HasRow(View(l), c) /\ tip[c].entry_id \in Nat
      BY <1>2, <1>5, <2>1 DEF ChainInv, RowsKept, TypeOK, HeadRow
    <3>2. Len(entries) <= tip[c].entry_id
      BY <1>2, <1>5, <2>1 DEF PendInv, RowsOpen
    <3>3. Len(entries) \in Nat /\ Len(View(l)) \in Nat
      BY <1>1, <1>3, ViewType
    <3> QED
      BY <3>1, <3>2, <3>3 DEF HasRow
  <2>3. View(l)[k].body = c /\ k \in 1..Len(View(l))
    BY <1>1, <2>2, ViewType DEF RowOf
  <2>4. pend[l] # << >>
    BY <1>3, <2>2 DEF View
  <2>5. Audit!Grows
    BY <2>4, MapsToGrows
  <2>6. Audit!Recorded(c, entries')
    BY <1>1, <2>3 DEF Audit!Recorded
  <2>7. ~ Audit!Recorded(c, entries)
    <3> SUFFICES ASSUME NEW i \in 1..Len(entries), entries[i].body = c PROVE FALSE
      BY DEF Audit!Recorded
    <3>1. i \in 1..Len(View(l)) /\ View(l)[i] = entries[i]
      BY <1>3 DEF View
    <3>2. BodiesOnce(View(l))
      BY <1>1 DEF OnceInv
    <3>3. i = k
      BY <1>5, <2>3, <3>1, <3>2 DEF BodiesOnce
    <3> QED
      BY <1>3, <2>2, <3>3
  <2>8. Told[c] = "called"
    BY <1>2, <1>5, StatusOfLabels DEF Told
  <2>9. CASE pc'[c] = "done"
    <3>1. Told' = [Told EXCEPT ![c] = "returned"]
      BY <1>2, <1>5, <2>9, StatusOfLabels DEF Told
    <3>2. Audit!Return(c)
      BY <2>6, <2>7, <2>8, <3>1 DEF Audit!Return, Told
    <3> QED
      BY <1>5, <2>5, <3>2 DEF Audit!AuditNext
  <2>10. CASE pc'[c] = "raised"
    <3>1. Told' = [Told EXCEPT ![c] = "raised"]
      BY <1>2, <1>5, <2>10, StatusOfLabels DEF Told
    <3>2. Audit!Settle
      BY <1>5, <2>8, <3>1 DEF Audit!Settle, Told
    <3> QED
      BY <2>5, <3>2 DEF Audit!AuditNext
  <2> QED
    BY <1>2, <2>9, <2>10
<1> QED
  BY <1>4, <1>5

\* The process dies: those of its log() calls that were on their way are lost.
LEMMA MapsCrash ==
    ASSUME TypeOK, NEW l \in Ledgers, Crash(l)
    PROVE  Audit!AuditNext \/ UNCHANGED Audit!logVars
<1> DEFINE S == {c \in LogCalls : Owner[c] = l /\ Active(c)}
<1>1. \A c \in LogCalls : pc'[c] = IF c \in S THEN "lost" ELSE pc[c]
  BY DEF Crash, Calls
<1>2. entries' = entries
  BY DEF Crash, Discard
<1>3. CASE S = {}
  BY <1>1, <1>2, <1>3, MapsToStutter
<1>4. CASE S # {}
  <2>1. \A c \in S : c \in LogCalls /\ Told[c] = "called"
    BY StatusOfLabels DEF Told, Active, Done
  <2>2. Told' = [c \in LogCalls |-> IF c \in S THEN "lost" ELSE Told[c]]
    BY <1>1, StatusOfLabels DEF Told
  <2>3. Audit!Die(S)
    BY <1>2, <1>4, <2>1, <2>2 DEF Audit!Die, Told
  <2>4. S \in SUBSET LogCalls
    OBVIOUS
  <2> HIDE DEF S
  <2> QED
    BY <2>3, <2>4 DEF Audit!AuditNext
<1> QED
  BY <1>3, <1>4

\* Any number of Ledgers on one file, with their locks, statements, refusals,
\* cancellations and crashes, behave for the callers of log() as one durable
\* chain (chain.py log, commit and close).
THEOREM LedgersImplementAuditLog == Spec => ImplementsAuditLog
<1>1. Init => Audit!AuditInit
  BY DEF Init, Audit!AuditInit, Status, Calls
<1>2. TypeOK /\ LockInv /\ ChainInv /\ OnceInv /\ PendInv /\ [Next]_vars
      => [Audit!AuditNext]_(Audit!logVars)
  <2> SUFFICES ASSUME TypeOK, LockInv, ChainInv, OnceInv, PendInv, [Next]_vars
               PROVE  Audit!AuditNext \/ UNCHANGED Audit!logVars
    OBVIOUS
  <2>0. \A d \in LogCalls : d \in Calls /\ d \notin AnchorCalls \cup VerifyCalls
    BY CallsAssumption DEF Calls
  <2>1. ASSUME NEW c \in LogCalls, Audit!Call(c) \/ Audit!Fail(c) PROVE Audit!AuditNext
    BY <2>1 DEF Audit!AuditNext
  <2>2. ASSUME NEW c \in Calls, Start(c)
        PROVE  Audit!AuditNext \/ UNCHANGED Audit!logVars
    <3>1. /\ entries' = entries /\ pc[c] = "idle"
          /\ \A d \in LogCalls \ {c} : pc'[d] = pc[d]
      BY <2>0, <2>2 DEF Start, Goto, TypeOK
    <3>2. CASE c \notin LogCalls
      BY <3>1, <3>2, MapsToStutter
    <3>3. CASE c \in LogCalls /\ pc'[c] = "waiting"
      <4>1. Told' = [Told EXCEPT ![c] = "called"] /\ Told[c] = "idle"
        BY <3>1, <3>3, StatusOfLabels DEF Told
      <4>2. Audit!Call(c)
        BY <3>1, <4>1 DEF Audit!Call, Told
      <4> QED
        BY <2>1, <3>3, <4>2
    <3>4. CASE c \in LogCalls /\ pc'[c] = "raised"
      BY <2>1, <3>1, <3>4, MapsToFail, StatusOfLabels
    <3>5. c \in LogCalls => pc'[c] \in {"waiting", "raised"}
      BY <2>0, <2>2 DEF Start, Goto, TypeOK
    <3> QED
      BY <3>2, <3>3, <3>4, <3>5
  <2>3. ASSUME NEW c \in Calls, CancelWaiting(c)
        PROVE  Audit!AuditNext \/ UNCHANGED Audit!logVars
    <3>1. /\ entries' = entries /\ pc[c] = "waiting"
          /\ \A d \in LogCalls \ {c} : pc'[d] = pc[d]
          /\ pc'[c] = "raised"
      BY <2>0, <2>3 DEF CancelWaiting, Goto, TypeOK, dbVars
    <3>2. CASE c \notin LogCalls
      BY <3>1, <3>2, MapsToStutter
    <3>3. CASE c \in LogCalls
      BY <2>1, <3>1, <3>3, MapsToFail, StatusOfLabels
    <3> QED
      BY <3>2, <3>3
  <2>4. ASSUME NEW c \in Calls, Step(c), ~ Commit(c)
        PROVE  Audit!AuditNext \/ UNCHANGED Audit!logVars
    <3>1. CASE c \notin LogCalls
      <4>1. \A d \in LogCalls : pc'[d] = pc[d]
        BY <2>4, <3>1, StepStatus
      <4>2. entries' = entries
        BY <2>4 DEF Step, Acquire, SelectTip, FetchTip, Submit, InsertEntry, InsertAnchor,
           UpdateRow, SelectAll, FetchAll, BusyRead, BusyWrite, BusyCommit, OnClosed, dbVars
      <4> QED
        BY <4>1, <4>2, MapsToStutter
    <3>2. CASE c \in LogCalls
      <4>1. /\ entries' = entries
            /\ \A d \in LogCalls \ {c} : pc'[d] = pc[d]
            /\ pc[c] \notin {"idle"} \cup Done
            /\ pc'[c] = "raised" \/ pc'[c] \notin {"idle"} \cup Done
        BY <2>4, <3>2, StepStatus
      <4>2. Status(pc[c]) = "called"
        BY <4>1, StatusOfLabels DEF Done
      <4>3. CASE pc'[c] = "raised"
        BY <2>1, <3>2, <4>1, <4>2, <4>3, MapsToFail
      <4>4. CASE pc'[c] \notin {"idle"} \cup Done
        <5>1. Status(pc'[c]) = "called"
          BY <4>4, StatusOfLabels DEF Done
        <5> QED
          BY <4>1, <4>2, <5>1, MapsToStutter
      <4> QED
        BY <4>1, <4>3, <4>4
    <3> QED
      BY <3>1, <3>2
  <2>5. ASSUME NEW c \in Calls, Commit(c)
        PROVE  Audit!AuditNext \/ UNCHANGED Audit!logVars
    BY <2>5, MapsCommit
  <2>6. ASSUME NEW l \in Ledgers, Crash(l)
        PROVE  Audit!AuditNext \/ UNCHANGED Audit!logVars
    BY <2>6, MapsCrash
  <2>7. ASSUME UNCHANGED <<entries, pc>> PROVE UNCHANGED Audit!logVars
    BY <2>7, MapsToStutter
  <2>8. ASSUME NEW l \in Ledgers, Close(l) \/ Reopen(l) PROVE UNCHANGED Audit!logVars
    BY <2>7, <2>8 DEF Close, Reopen, Discard
  <2>9. CASE UNCHANGED vars
    BY <2>7, <2>9 DEF vars
  <2> QED
    BY <2>2, <2>3, <2>4, <2>5, <2>6, <2>8, <2>9 DEF Next
<1> QED
  BY <1>1, <1>2, TypeCorrect, LocksExclude, ChainInvariant, OnceInvariant, PendInvariant,
     PTL DEF Spec, ImplementsAuditLog, Audit!AuditSpec
=============================================================================
