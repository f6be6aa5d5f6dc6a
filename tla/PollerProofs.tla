---------------------------- MODULE PollerProofs ----------------------------
(***************************************************************************)
(* What holds of the anchors table for any number of pollers, calendars    *)
(* and anchors.  RunOK is what a poller's snapshot keeps of the row it was *)
(* taken from, although other pollers confirm that row meanwhile; RowOK is *)
(* what a stored row keeps.  With one poller, FinalInv also says that what *)
(* the poller still has to do is not confirmed.                            *)
(***************************************************************************)
EXTENDS Poller, DataLemmas, FiniteSetTheorems, TLAPS

-----------------------------------------------------------------------------
(* Finite sets of naturals. *)

Below(S, i) == {j \in S : j < i}

\* In a finite set of naturals some element has any number of others below it.
LEMMA Ranks ==
    ASSUME NEW S, S \subseteq Nat, IsFiniteSet(S), NEW n \in 1..Cardinality(S)
    PROVE  \E i \in S : Cardinality(Below(S, i)) = n - 1
<1> DEFINE c == Cardinality(S)
           bad == {m \in 0..c - 1 : \A i \in S : Cardinality(Below(S, i)) # m}
<1>1. c \in Nat
  BY FS_CardinalityType
<1>2. \A i \in S : IsFiniteSet(Below(S, i)) /\ Cardinality(Below(S, i)) \in Nat
  BY FS_Subset, FS_CardinalityType DEF Below
<1>3. \A i \in S : Cardinality(Below(S, i) \cup {i}) = Cardinality(Below(S, i)) + 1
  BY <1>2, FS_AddElement DEF Below
<1>4. SUFFICES ASSUME bad # {} PROVE FALSE
  <2>1. n - 1 \in 0..c - 1
    BY <1>1
  <2> QED
    BY <1>4, <2>1
<1>5. bad \subseteq Nat
  OBVIOUS
<1> DEFINE m == Min(bad)
<1>6. m \in bad /\ \A y \in bad : m <= y
  BY <1>4, <1>5, MinNat
<1>7. m \in 0..c - 1 /\ \A i \in S : Cardinality(Below(S, i)) # m
  BY <1>6
<1>8. m # 0
  <2> SUFFICES ASSUME m = 0 PROVE FALSE
    OBVIOUS
  <2>1. S # {}
    BY <1>1, <1>7, FS_EmptySet
  <2>2. Min(S) \in S /\ \A y \in S : Min(S) <= y
    BY <2>1, MinNat
  <2>3. Below(S, Min(S)) = {}
    <3> SUFFICES ASSUME NEW j \in S, j < Min(S) PROVE FALSE
      BY DEF Below
    <3>1. Min(S) <= j /\ j \in Nat /\ Min(S) \in Nat
      BY <2>2
    <3> QED
      BY <3>1
  <2> QED
    BY <1>7, <2>2, <2>3, FS_EmptySet
<1>9. PICK i \in S : Cardinality(Below(S, i)) = m - 1
  <2>1. m - 1 \in 0..c - 1 /\ ~ (m <= m - 1)
    BY <1>1, <1>7, <1>8
  <2>2. m - 1 \notin bad
    BY <1>6, <2>1
  <2> QED
    BY <2>1, <2>2
<1> DEFINE above == {j \in S : j > i}
<1>10. above # {}
  <2> SUFFICES ASSUME above = {} PROVE FALSE
    OBVIOUS
  <2>1. S = Below(S, i) \cup {i}
    <3> SUFFICES ASSUME NEW j \in S, j # i PROVE j < i
      BY DEF Below
    <3>1. ~ (j > i) /\ j \in Nat /\ i \in Nat
      OBVIOUS
    <3> QED
      BY <3>1
  <2>2. c = m - 1 + 1
    BY <1>3, <1>9, <2>1
  <2> HIDE DEF m
  <2> QED
    BY <1>1, <1>7, <2>2
<1> DEFINE k == Min(above)
<1>11. k \in S /\ k > i /\ \A y \in above : k <= y
  BY <1>10, MinNat
<1> HIDE DEF k, m
<1>12. Below(S, k) = Below(S, i) \cup {i}
  <2>1. k \in Nat /\ i \in Nat
    BY <1>11
  <2>2. ASSUME NEW j \in S, j < k PROVE j <= i
    <3> SUFFICES ASSUME j > i PROVE FALSE
      BY <2>1
    <3>1. k <= j /\ j \in Nat
      BY <1>11
    <3> QED
      BY <2>1, <2>2, <3>1
  <2>3. ASSUME NEW j \in S, j <= i PROVE j < k
    BY <1>11, <2>1, <2>3
  <2>4. \A j \in S : j < k <=> j < i \/ j = i
    BY <2>1, <2>2, <2>3
  <2> QED
    BY <2>4 DEF Below
<1>13. Cardinality(Below(S, k)) = m
  BY <1>3, <1>7, <1>9, <1>12
<1> QED
  BY <1>7, <1>11, <1>13

\* Elements with more below them are greater.
LEMMA RanksAscend ==
    ASSUME NEW S, S \subseteq Nat, IsFiniteSet(S), NEW i \in S, NEW k \in S,
           Cardinality(Below(S, i)) < Cardinality(Below(S, k))
    PROVE  i < k
<1>1. SUFFICES ASSUME k <= i PROVE FALSE
  OBVIOUS
<1>2. Below(S, k) \subseteq Below(S, i)
  <2> SUFFICES ASSUME NEW j \in S, j < k PROVE j < i
    BY DEF Below
  <2>1. j \in Nat /\ k \in Nat /\ i \in Nat
    OBVIOUS
  <2> QED
    BY <1>1, <2>1
<1>3. IsFiniteSet(Below(S, i)) /\ IsFiniteSet(S)
  BY FS_Subset DEF Below
<1>4. /\ Cardinality(Below(S, k)) \in Nat /\ Cardinality(Below(S, i)) \in Nat
      /\ Cardinality(Below(S, k)) <= Cardinality(Below(S, i))
  BY <1>2, <1>3, FS_Subset, FS_CardinalityType
<1> QED
  BY <1>4

-----------------------------------------------------------------------------
(* The invariant. *)

Item == [id: Nat, proof: Proof]

Run == [at: {"idle", "querying", "confirming"}, todo: Seq(Item), ts: Proof,
        pairs: SUBSET Calendars, hash: Nat \cup {Null}]

\* A proof read from row i: its attestations are real, its calendars the row's.
ReadFrom(i, proof, table, mined) ==
    /\ i \in 1..Len(table)
    /\ proof.pending = table[i].proof.pending /\ proof.pending # {}
    /\ proof.bitcoin \subseteq mined[i] \cap proof.pending

RunOK(r, table, mined) ==
    /\ \A n \in 1..Len(r.todo) : ReadFrom(r.todo[n].id, r.todo[n].proof, table, mined)
    /\ r.at # "idle" => /\ r.todo # << >> /\ r.pairs \subseteq r.ts.pending
                        /\ ReadFrom(r.todo[1].id, r.ts, table, mined)
    /\ r.at = "confirming" => /\ r.ts.bitcoin # {}
                              /\ r.hash # Null => r.hash = FirstBitcoinHeight(r.ts)

RowOK(r, mined) ==
    /\ ~ CheckFails(r)
    /\ r.hash # Null => r.hash = r.height
    /\ r.proof.bitcoin \subseteq mined \cap r.proof.pending

TableOK(table, mined) ==
    /\ table \in Seq(Row) /\ mined \in Seq(SUBSET Calendars) /\ Len(mined) = Len(table)
    /\ \A i \in 1..Len(table) : RowOK(table[i], mined[i])

IInv ==
    /\ TableOK(rows, rolled)
    /\ run \in [Pollers -> Run]
    /\ \A p \in Pollers : RunOK(run[p], rows, rolled)
    /\ failures \in 0..MaxFailures

\* What a step does to the table: rows and attestations are added, and the
\* calendars of a row stay what they are.
Grows(table, mined, table2, mined2) ==
    /\ Len(table2) \in Nat /\ Len(table2) >= Len(table)
    /\ \A i \in 1..Len(table) : /\ table2[i].proof.pending = table[i].proof.pending
                                /\ mined[i] \subseteq mined2[i]

\* What a poller has read stays true of a table that grows.
LEMMA RunsKept ==
    ASSUME NEW r \in Run, NEW table, NEW mined, NEW table2, NEW mined2, Len(table) \in Nat,
           RunOK(r, table, mined), Grows(table, mined, table2, mined2)
    PROVE  RunOK(r, table2, mined2)
<1>1. ASSUME NEW i, NEW proof, ReadFrom(i, proof, table, mined)
      PROVE  ReadFrom(i, proof, table2, mined2)
  <2>1. i \in 1..Len(table) /\ i \in 1..Len(table2)
    BY <1>1 DEF ReadFrom, Grows
  <2> QED
    BY <1>1, <2>1 DEF ReadFrom, Grows
<1> QED
  BY <1>1 DEF RunOK

\* The next anchor of a list of anchors that were read.
LEMMA Turns ==
    ASSUME NEW table, NEW mined, NEW todo \in Seq(Item),
           \A n \in 1..Len(todo) : ReadFrom(todo[n].id, todo[n].proof, table, mined)
    PROVE  Turn(todo) \in Run /\ RunOK(Turn(todo), table, mined)
<1>1. CASE todo = << >>
  BY <1>1 DEF Turn, Idle, NoProof, Proof, Run, RunOK
<1>2. CASE todo # << >>
  <2> DEFINE ts == todo[1].proof
  <2>1. 1 \in 1..Len(todo) /\ todo[1] \in Item
    BY <1>2, Tails
  <2>2. ts \in Proof /\ ReadFrom(todo[1].id, ts, table, mined)
    BY <2>1 DEF Item
  <2>3. Turn(todo) = [at |-> "querying", todo |-> todo, ts |-> ts, pairs |-> ts.pending,
                      hash |-> Null]
    BY <1>2 DEF Turn
  <2> HIDE DEF ts
  <2>4. Turn(todo) \in Run
    BY <2>2, <2>3 DEF Run, Proof
  <2> QED
    BY <1>2, <2>2, <2>3, <2>4 DEF RunOK
<1> QED
  BY <1>1, <1>2

\* list_unconfirmed_anchors: rows that are not confirmed, in ascending order.
LEMMA ListedItems ==
    ASSUME rows \in Seq(Row)
    PROVE  /\ Listed \in Seq(Item)
           /\ \A n \in 1..Len(Listed) : /\ Listed[n].id \in Unconfirmed
                                        /\ Listed[n].proof = rows[Listed[n].id].proof
           /\ \A n, m \in 1..Len(Listed) : n < m => Listed[n].id < Listed[m].id
<1> DEFINE ids == {i \in Unconfirmed : Cardinality({j \in Unconfirmed : j < i}) < Limit}
           pick(n) == CHOOSE i \in ids : Cardinality({j \in ids : j < i}) = n - 1
<1>1. ids \subseteq 1..Len(rows) /\ Len(rows) \in Nat
  BY DEF Unconfirmed
<1>2. IsFiniteSet(ids) /\ ids \subseteq Nat /\ ids \subseteq Unconfirmed
  <2> ids \subseteq Unconfirmed
    OBVIOUS
  <2> HIDE DEF ids
  <2>1. IsFiniteSet(1..Len(rows))
    BY <1>1, FS_Interval
  <2>2. ids \in SUBSET (1..Len(rows))
    BY <1>1
  <2>3. IsFiniteSet(ids)
    BY <2>1, <2>2, FS_Subset
  <2>4. ids \subseteq Nat
    BY <1>1
  <2> QED
    BY <2>3, <2>4
<1>3. Cardinality(ids) \in Nat
  BY <1>2, FS_CardinalityType
<1>4. Listed = [n \in 1..Cardinality(ids) |-> [id |-> pick(n), proof |-> rows[pick(n)].proof]]
  BY DEF Listed
<1> HIDE DEF ids
<1>5. \A n \in 1..Cardinality(ids) : pick(n) \in ids /\ Cardinality(Below(ids, pick(n))) = n - 1
  <2> TAKE n \in 1..Cardinality(ids)
  <2>1. \E i \in ids : Cardinality(Below(ids, i)) = n - 1
    BY <1>2, Ranks
  <2> QED
    BY <2>1 DEF Below
<1> HIDE DEF pick
<1>6. \A n \in 1..Cardinality(ids) : [id |-> pick(n), proof |-> rows[pick(n)].proof] \in Item
  <2> TAKE n \in 1..Cardinality(ids)
  <2>1. pick(n) \in 1..Len(rows) /\ pick(n) \in Nat
    BY <1>1, <1>2, <1>5
  <2>2. rows[pick(n)] \in Row
    BY <2>1, ElementsOf
  <2> QED
    BY <2>1, <2>2 DEF Item, Row
<1>7. Listed \in Seq(Item) /\ Len(Listed) = Cardinality(ids)
  BY <1>3, <1>4, <1>6
<1>8. \A n \in 1..Len(Listed) : Listed[n].id = pick(n) /\ Listed[n].proof = rows[pick(n)].proof
  BY <1>4, <1>7
<1>9. ASSUME NEW n \in 1..Len(Listed), NEW m \in 1..Len(Listed), n < m
      PROVE  Listed[n].id < Listed[m].id
  <2>1. Cardinality(Below(ids, pick(n))) < Cardinality(Below(ids, pick(m)))
    BY <1>3, <1>5, <1>7, <1>9
  <2>2. pick(n) < pick(m)
    BY <1>2, <1>5, <1>7, <2>1, RanksAscend
  <2> QED
    BY <1>8, <2>2
<1> QED
  BY <1>2, <1>5, <1>7, <1>8, <1>9

\* The height of a proof that has a Bitcoin attestation.
LEMMA Heights ==
    ASSUME NEW proof \in Proof, proof.bitcoin # {}
    PROVE  FirstBitcoinHeight(proof) \in Nat
<1>1. proof.bitcoin \subseteq Calendars /\ Calendars \subseteq Nat
  BY PollerAssumption DEF Proof
<1>2. Min(proof.bitcoin) \in Calendars
  BY <1>1, MinNat
<1> QED
  BY <1>2, PollerAssumption DEF FirstBitcoinHeight

LEMMA InitOK == Init => IInv
<1> SUFFICES ASSUME Init PROVE IInv
  OBVIOUS
<1>1. TableOK(rows, rolled)
  BY DEF Init, TableOK
<1>2. Idle \in Run /\ RunOK(Idle, rows, rolled)
  BY DEF Idle, NoProof, Proof, Run, RunOK
<1> QED
  BY <1>1, <1>2, PollerAssumption DEF Init, IInv

\* A step of the world leaves the pollers as they are.
LEMMA WorldStep ==
    ASSUME IInv, TableOK(rows, rolled)', Grows(rows, rolled, rows', rolled'),
           UNCHANGED <<run, failures>>
    PROVE  IInv'
<1>1. Len(rows) \in Nat
  BY DEF IInv, TableOK
<1>2. ASSUME NEW p \in Pollers PROVE RunOK(run[p], rows', rolled')
  BY <1>1, RunsKept DEF IInv
<1> QED
  BY <1>2 DEF IInv

\* A step of poller p that leaves the table as it is.
LEMMA PollerStep ==
    ASSUME IInv, NEW p \in Pollers, NEW r \in Run, RunOK(r, rows, rolled),
           run' = [run EXCEPT ![p] = r], UNCHANGED <<rows, rolled>>,
           failures' \in 0..MaxFailures
    PROVE  IInv'
<1>1. run' \in [Pollers -> Run] /\ \A q \in Pollers : RunOK(run'[q], rows, rolled)
  BY DEF IInv
<1> QED
  BY <1>1 DEF IInv

\* The item a poller is at, while it is not idle.
LEMMA AtWork ==
    ASSUME IInv, NEW p \in Pollers, run[p].at # "idle"
    PROVE  /\ run[p] \in Run /\ run[p].todo \in Seq(Item) /\ run[p].ts \in Proof
           /\ RunOK(run[p], rows, rolled)
           /\ run[p].todo # << >>
           /\ run[p].todo[1].id \in 1..Len(rows) /\ run[p].todo[1].id \in Nat
           /\ Turn(Tail(run[p].todo)) \in Run /\ RunOK(Turn(Tail(run[p].todo)), rows, rolled)
<1>1. run[p] \in Run /\ RunOK(run[p], rows, rolled)
  BY DEF IInv
<1>2. run[p].todo \in Seq(Item) /\ run[p].ts \in Proof /\ run[p].todo # << >>
  BY <1>1 DEF Run, RunOK
<1>3. run[p].todo[1].id \in 1..Len(rows) /\ run[p].todo[1].id \in Nat
  <2>1. 1 \in 1..Len(run[p].todo) /\ run[p].todo[1] \in Item
    BY <1>2, Tails
  <2> QED
    BY <1>1, <2>1 DEF RunOK, ReadFrom, Item
<1>4. \A n \in 1..Len(Tail(run[p].todo)) :
         ReadFrom(Tail(run[p].todo)[n].id, Tail(run[p].todo)[n].proof, rows, rolled)
  <2> TAKE n \in 1..Len(Tail(run[p].todo))
  <2>1. n + 1 \in 1..Len(run[p].todo) /\ Tail(run[p].todo)[n] = run[p].todo[n + 1]
    BY <1>2, Tails
  <2> QED
    BY <1>1, <2>1 DEF RunOK
<1>5. Tail(run[p].todo) \in Seq(Item)
  BY <1>2, Tails
<1> QED
  BY <1>1, <1>2, <1>3, <1>4, <1>5, Turns

\* The steps that store the upgraded proof: confirm_anchor returns, or raises
\* and has stored it all the same.
Stores(p) == Confirm(p) \/ (FailOne(p) /\ run[p].at = "confirming" /\ rows' = Stored(p))

LEMMA StepOK == IInv /\ [Next]_vars => IInv'
<1> SUFFICES ASSUME IInv, [Next]_vars PROVE IInv'
  OBVIOUS
<1>0. /\ rows \in Seq(Row) /\ rolled \in Seq(SUBSET Calendars) /\ Len(rolled) = Len(rows)
      /\ Len(rows) \in Nat /\ failures \in 0..MaxFailures /\ run \in [Pollers -> Run]
  BY DEF IInv, TableOK
<1>1. ASSUME NEW accepted \in SUBSET Calendars, Anchor(accepted) PROVE IInv'
  <2> DEFINE e == NewRow(accepted)
  <2>1. e \in Row /\ RowOK(e, {})
    BY DEF NewRow, Row, Proof, RowOK, CheckFails, IsNull
  <2>2. /\ rows' = Append(rows, e) /\ rolled' = Append(rolled, {})
        /\ UNCHANGED <<run, failures>>
    BY <1>1 DEF Anchor
  <2> HIDE DEF e
  <2>3. /\ rows' \in Seq(Row) /\ Len(rows') = Len(rows) + 1
        /\ rows'[Len(rows) + 1] = e
        /\ \A i \in 1..Len(rows) : rows'[i] = rows[i]
    BY <1>0, <2>1, <2>2, Appends
  <2>4. /\ rolled' \in Seq(SUBSET Calendars) /\ Len(rolled') = Len(rows) + 1
        /\ rolled'[Len(rows) + 1] = {}
        /\ \A i \in 1..Len(rows) : rolled'[i] = rolled[i]
    <3>1. {} \in SUBSET Calendars
      OBVIOUS
    <3> QED
      BY <1>0, <2>2, <3>1, Appends
  <2>5. TableOK(rows', rolled')
    <3>1. ASSUME NEW i \in 1..Len(rows') PROVE RowOK(rows'[i], rolled'[i])
      <4>1. CASE i = Len(rows) + 1
        BY <2>1, <2>3, <2>4, <4>1
      <4>2. CASE i \in 1..Len(rows)
        BY <2>3, <2>4, <4>2 DEF IInv, TableOK
      <4> QED
        BY <1>0, <2>3, <4>1, <4>2
    <3> QED
      BY <2>3, <2>4, <3>1 DEF TableOK
  <2>6. Grows(rows, rolled, rows', rolled')
    BY <1>0, <2>3, <2>4 DEF Grows
  <2> QED
    BY <2>2, <2>5, <2>6, WorldStep
<1>2. ASSUME NEW i \in 1..Len(rows), Age(i) PROVE IInv'
  <2> DEFINE e == [rows[i] EXCEPT !.aged = TRUE]
  <2>1. /\ rows' = [rows EXCEPT ![i] = e] /\ rolled' = rolled /\ UNCHANGED <<run, failures>>
    BY <1>2 DEF Age
  <2>2. rows[i] \in Row /\ RowOK(rows[i], rolled[i])
    BY <1>0, ElementsOf DEF IInv, TableOK
  <2>3. e \in Row /\ e.proof = rows[i].proof /\ RowOK(e, rolled[i])
    BY <2>2 DEF Row, RowOK, CheckFails, IsNull
  <2> HIDE DEF e
  <2>4. /\ rows' \in Seq(Row) /\ Len(rows') = Len(rows) /\ rows'[i] = e
        /\ \A j \in 1..Len(rows) \ {i} : rows'[j] = rows[j]
    BY <1>0, <2>1, <2>3, Updates
  <2>5. TableOK(rows', rolled')
    BY <1>0, <2>1, <2>3, <2>4 DEF IInv, TableOK
  <2>6. Grows(rows, rolled, rows', rolled')
    BY <1>0, <2>1, <2>3, <2>4 DEF Grows
  <2> QED
    BY <2>1, <2>5, <2>6, WorldStep
<1>3. ASSUME NEW i \in 1..Len(rows), NEW k \in Calendars, Mine(i, k) PROVE IInv'
  <2> DEFINE e == rolled[i] \cup {k}
  <2>1. /\ rolled' = [rolled EXCEPT ![i] = e] /\ rows' = rows /\ UNCHANGED <<run, failures>>
    BY <1>3 DEF Mine
  <2>2. rolled[i] \in SUBSET Calendars /\ e \in SUBSET Calendars
    BY <1>0, ElementsOf
  <2>3. RowOK(rows[i], e)
    BY DEF IInv, TableOK, RowOK
  <2>4. rolled[i] \subseteq e
    OBVIOUS
  <2> HIDE DEF e
  <2>5. /\ rolled' \in Seq(SUBSET Calendars) /\ Len(rolled') = Len(rows) /\ rolled'[i] = e
        /\ \A j \in 1..Len(rows) \ {i} : rolled'[j] = rolled[j]
    BY <1>0, <2>1, <2>2, Updates
  <2>6. TableOK(rows', rolled')
    BY <1>0, <2>1, <2>3, <2>5 DEF IInv, TableOK
  <2>7. Grows(rows, rolled, rows', rolled')
    BY <1>0, <2>1, <2>4, <2>5 DEF Grows
  <2> QED
    BY <2>1, <2>6, <2>7, WorldStep
<1>4. ASSUME NEW p \in Pollers, List(p) PROVE IInv'
  <2>1. Listed \in Seq(Item) /\ \A n \in 1..Len(Listed) : /\ Listed[n].id \in Unconfirmed
                                                          /\ Listed[n].proof = rows[Listed[n].id].proof
    BY <1>0, ListedItems
  <2>2. ASSUME NEW n \in 1..Len(Listed)
        PROVE  ReadFrom(Listed[n].id, Listed[n].proof, rows, rolled)
    <3>1. Listed[n].id \in 1..Len(rows) /\ rows[Listed[n].id].proof.pending # {}
      BY <2>1 DEF Unconfirmed, IsNull
    <3>2. RowOK(rows[Listed[n].id], rolled[Listed[n].id])
      BY <3>1 DEF IInv, TableOK
    <3> QED
      BY <2>1, <3>1, <3>2 DEF RowOK, ReadFrom
  <2>3. Turn(Listed) \in Run /\ RunOK(Turn(Listed), rows, rolled)
    BY <2>1, <2>2, Turns
  <2> QED
    BY <1>0, <1>4, <2>3, PollerStep DEF List
<1>5. ASSUME NEW p \in Pollers, Upgraded(p) \/ NotUpgraded(p) PROVE IInv'
  <2> DEFINE k == Min(run[p].pairs)
  <2>1. run[p].at = "querying" /\ run[p].pairs # {}
    BY <1>5 DEF Upgraded, NotUpgraded
  <2>2. run[p] \in Run /\ RunOK(run[p], rows, rolled)
    BY <2>1, AtWork
  <2>3. k \in run[p].pairs /\ k \in Calendars
    <3>1. run[p].pairs \subseteq Calendars /\ Calendars \subseteq Nat
      BY <2>2, PollerAssumption DEF Run
    <3> QED
      BY <2>1, <3>1, MinNat
  <2>4. CASE Upgraded(p)
    <3> DEFINE r == [run[p] EXCEPT !.pairs = @ \ {k}, !.ts.bitcoin = @ \cup {k}]
    <3>1. /\ run' = [run EXCEPT ![p] = r] /\ UNCHANGED <<rows, rolled, failures>>
          /\ k \in rolled[run[p].todo[1].id]
      BY <1>0, <2>4 DEF Upgraded
    <3>2. /\ r.at = "querying" /\ r.todo = run[p].todo /\ r.pairs = run[p].pairs \ {k}
          /\ r.ts.pending = run[p].ts.pending /\ r.ts.bitcoin = run[p].ts.bitcoin \cup {k}
          /\ r \in Run
      BY <2>1, <2>2, <2>3 DEF Run, Proof
    <3>3. RunOK(r, rows, rolled)
      <4>1. /\ run[p].todo # << >> /\ run[p].pairs \subseteq run[p].ts.pending
            /\ ReadFrom(run[p].todo[1].id, run[p].ts, rows, rolled)
        BY <2>1, <2>2 DEF RunOK
      <4>2. ReadFrom(r.todo[1].id, r.ts, rows, rolled)
        BY <2>3, <3>1, <3>2, <4>1 DEF ReadFrom
      <4> HIDE DEF r
      <4> QED
        BY <2>2, <3>2, <4>1, <4>2 DEF RunOK
    <3> HIDE DEF r
    <3> QED
      BY <1>0, <3>1, <3>2, <3>3, PollerStep
  <2>5. CASE NotUpgraded(p)
    <3> DEFINE r == [run[p] EXCEPT !.pairs = @ \ {k}]
    <3>1. run' = [run EXCEPT ![p] = r] /\ UNCHANGED <<rows, rolled, failures>>
      BY <1>0, <2>5 DEF NotUpgraded
    <3>2. r \in Run /\ RunOK(r, rows, rolled)
      BY <2>1, <2>2 DEF Run, RunOK
    <3> HIDE DEF r
    <3> QED
      BY <1>0, <3>1, <3>2, PollerStep
  <2> QED
    BY <1>5, <2>4, <2>5
<1>6. ASSUME NEW p \in Pollers, StillPending(p) \/ (FailOne(p) /\ UNCHANGED rows) PROVE IInv'
  <2>1. /\ run[p].at # "idle" /\ run' = [run EXCEPT ![p] = Turn(Tail(run[p].todo))]
        /\ UNCHANGED <<rows, rolled>> /\ failures' \in 0..MaxFailures
    BY <1>0, <1>6, PollerAssumption DEF StillPending, FailOne, NextAnchor, Fails
  <2> QED
    BY <2>1, AtWork, PollerStep
<1>7. ASSUME NEW p \in Pollers, NEW hash \in {Null, FoundHash(p)}, LookUp(p, hash) PROVE IInv'
  <2> DEFINE r == [run[p] EXCEPT !.at = "confirming", !.hash = hash]
  <2>1. /\ run[p].at = "querying" /\ run[p].ts.bitcoin # {}
        /\ run' = [run EXCEPT ![p] = r] /\ UNCHANGED <<rows, rolled, failures>>
    BY <1>0, <1>7 DEF LookUp
  <2>2. run[p] \in Run /\ RunOK(run[p], rows, rolled) /\ run[p].ts \in Proof
    BY <2>1, AtWork
  <2>3. FoundHash(p) = FirstBitcoinHeight(run[p].ts) /\ FirstBitcoinHeight(run[p].ts) \in Nat
    BY <2>1, <2>2, Heights DEF FoundHash, BlockHash
  <2>4. r \in Run
    BY <2>2, <2>3 DEF Run
  <2>5. /\ r.at = "confirming" /\ r.todo = run[p].todo /\ r.ts = run[p].ts
        /\ r.pairs = run[p].pairs /\ r.hash = hash
    BY <2>2 DEF Run
  <2> HIDE DEF r
  <2>6. RunOK(r, rows, rolled)
    BY <2>1, <2>2, <2>3, <2>5 DEF RunOK
  <2> QED
    BY <1>0, <2>1, <2>4, <2>6, PollerStep
<1>8. ASSUME NEW p \in Pollers, Stores(p) PROVE IInv'
  <2> DEFINE i == run[p].todo[1].id
             ts == run[p].ts
             e == [rows[i] EXCEPT !.proof = ts, !.confirmed = TRUE,
                                  !.height = FirstBitcoinHeight(ts), !.hash = run[p].hash]
  <2>1. /\ run[p].at = "confirming"
        /\ run' = [run EXCEPT ![p] = Turn(Tail(run[p].todo))]
        /\ rolled' = rolled /\ failures' \in 0..MaxFailures
    BY <1>0, <1>8, PollerAssumption DEF Stores, Confirm, FailOne, NextAnchor, Fails
  <2>2. /\ run[p] \in Run /\ ts \in Proof /\ RunOK(run[p], rows, rolled)
        /\ i \in 1..Len(rows)
        /\ Turn(Tail(run[p].todo)) \in Run /\ RunOK(Turn(Tail(run[p].todo)), rows, rolled)
    BY <2>1, AtWork
  <2>3. /\ ts.bitcoin # {}
        /\ run[p].hash # Null => run[p].hash = FirstBitcoinHeight(ts)
        /\ ReadFrom(i, ts, rows, rolled)
    BY <2>1, <2>2 DEF RunOK
  <2>4. rows[i] \in Row /\ FirstBitcoinHeight(ts) \in Nat /\ run[p].hash \in Nat \cup {Null}
    BY <1>0, <2>2, <2>3, Heights, ElementsOf DEF Run
  <2>5. rows' = [rows EXCEPT ![i] = e]
    BY <1>0, <1>8, <2>2, <2>4 DEF Stores, Confirm, Stored
  <2>6. /\ e.proof = ts /\ e.height = FirstBitcoinHeight(ts) /\ e.hash = run[p].hash
        /\ e \in Row
    BY <2>2, <2>4 DEF Row
  <2> HIDE DEF e, i, ts
  <2>7. RowOK(e, rolled[i]) /\ e.proof.pending = rows[i].proof.pending
    BY <2>3, <2>6 DEF RowOK, CheckFails, ReadFrom
  <2>8. /\ rows' \in Seq(Row) /\ Len(rows') = Len(rows) /\ rows'[i] = e
        /\ \A j \in 1..Len(rows) \ {i} : rows'[j] = rows[j]
    BY <1>0, <2>2, <2>5, <2>6, Updates
  <2>9. TableOK(rows', rolled')
    BY <1>0, <2>1, <2>7, <2>8 DEF IInv, TableOK
  <2>10. Grows(rows, rolled, rows', rolled')
    BY <1>0, <2>1, <2>7, <2>8 DEF Grows
  <2>11. run' \in [Pollers -> Run]
    BY <1>0, <2>1, <2>2
  <2>12. ASSUME NEW q \in Pollers PROVE RunOK(run'[q], rows', rolled')
    <3>1. run'[q] \in Run /\ RunOK(run'[q], rows, rolled)
      BY <1>0, <2>1, <2>2 DEF IInv
    <3> QED
      BY <1>0, <2>10, <3>1, RunsKept
  <2> QED
    BY <1>0, <2>1, <2>9, <2>11, <2>12 DEF IInv
<1>9. ASSUME NEW p \in Pollers, Crash(p) PROVE IInv'
  <2>1. Idle \in Run /\ RunOK(Idle, rows, rolled)
    BY DEF Idle, NoProof, Proof, Run, RunOK
  <2>2. /\ run' = [run EXCEPT ![p] = Idle] /\ UNCHANGED <<rows, rolled>>
        /\ failures' \in 0..MaxFailures
    BY <1>0, <1>9, PollerAssumption DEF Crash, Fails
  <2> QED
    BY <2>1, <2>2, PollerStep
<1>10. CASE UNCHANGED vars
  BY <1>10 DEF vars, IInv
<1>11. ASSUME NEW p \in Pollers, FailOne(p)
       PROVE  (FailOne(p) /\ UNCHANGED rows) \/ Stores(p)
  BY <1>11 DEF FailOne, Stores
<1> QED
  BY <1>1, <1>2, <1>3, <1>4, <1>5, <1>6, <1>7, <1>8, <1>9, <1>10, <1>11
  DEF Next, Work, Stores

LEMMA IInvHolds == Spec => []IInv
  BY InitOK, StepOK, PTL DEF Spec

\* The type invariant, for any number of pollers, calendars and anchors.
THEOREM TypeCorrect == Spec => []TypeOK
<1>1. IInv => TypeOK
  BY DEF IInv, TableOK, TypeOK, Run, Item
<1> QED
  BY <1>1, IInvHolds, PTL

\* Every confirmed row passes --check-anchors, however many pollers race.
THEOREM ConfirmedPass == Spec => []ConfirmedRowsPass
<1>1. IInv => ConfirmedRowsPass
  BY DEF IInv, TableOK, RowOK, ConfirmedRowsPass, BlockHash
<1> QED
  BY <1>1, IInvHolds, PTL

\* No attestation is stored that its calendar did not have.
THEOREM AttestationsAreReal == Spec => []ProofsAreObtained
<1>1. IInv => ProofsAreObtained
  BY DEF IInv, TableOK, RowOK, ProofsAreObtained
<1> QED
  BY <1>1, IInvHolds, PTL

-----------------------------------------------------------------------------
(* One poller. *)

\* What is still to be done is not confirmed, and no anchor comes twice.
Waiting(todo, table) ==
    /\ \A n, m \in 1..Len(todo) : n < m => todo[n].id < todo[m].id
    /\ \A n \in 1..Len(todo) : ~ table[todo[n].id].confirmed

FinalInv == \A p \in Pollers : Waiting(run[p].todo, rows)

LEMMA WaitingTail ==
    ASSUME NEW table, NEW todo \in Seq(Item), todo # << >>, Waiting(todo, table)
    PROVE  /\ Waiting(Tail(todo), table)
           /\ \A n \in 1..Len(Tail(todo)) : Tail(todo)[n].id # todo[1].id
           /\ ~ table[todo[1].id].confirmed
<1>1. /\ Len(todo) \in Nat \ {0} /\ Len(Tail(todo)) = Len(todo) - 1
      /\ \A i \in 1..Len(Tail(todo)) : Tail(todo)[i] = todo[i + 1]
      /\ \A i \in 1..Len(todo) : todo[i].id \in Nat
  <2>1. \A i \in 1..Len(todo) : todo[i] \in Item
    BY ElementsOf
  <2> QED
    BY <2>1, Tails DEF Item
<1>2. ASSUME NEW n \in 1..Len(Tail(todo)), NEW m \in 1..Len(Tail(todo)), n < m
      PROVE  Tail(todo)[n].id < Tail(todo)[m].id
  BY <1>1, <1>2 DEF Waiting
<1>3. ASSUME NEW n \in 1..Len(Tail(todo))
      PROVE  ~ table[Tail(todo)[n].id].confirmed /\ Tail(todo)[n].id # todo[1].id
  <2>1. n + 1 \in 1..Len(todo) /\ 1 \in 1..Len(todo) /\ 1 < n + 1 /\ Tail(todo)[n] = todo[n + 1]
    BY <1>1
  <2>2. todo[1].id < todo[n + 1].id /\ todo[1].id \in Nat /\ todo[n + 1].id \in Nat
    BY <1>1, <2>1 DEF Waiting
  <2>3. todo[1].id # todo[n + 1].id
    BY <2>2
  <2> QED
    BY <2>1, <2>3 DEF Waiting
<1> QED
  BY <1>1, <1>2, <1>3 DEF Waiting

LEMMA TurnTodo == ASSUME NEW todo PROVE Turn(todo).todo = todo
  BY DEF Turn, Idle

\* A single poller writes no confirmed row again: the rows it has listed are
\* not confirmed until it comes to them itself.
THEOREM OnePollerConfirmsOnce ==
    ASSUME NEW p, Pollers = {p}
    PROVE  Spec => ConfirmedIsFinal
<1> DEFINE Final == \A i \in 1..Len(rows) :
              rows[i].confirmed => rows'[i] = [rows[i] EXCEPT !.aged = rows'[i].aged]
<1>1. Init => FinalInv
  BY DEF Init, Idle, FinalInv, Waiting
<1>2. IInv /\ FinalInv /\ [Next]_vars => FinalInv' /\ Final
  <2> SUFFICES ASSUME IInv, FinalInv, [Next]_vars PROVE FinalInv' /\ Final
    OBVIOUS
  <2>0. /\ rows \in Seq(Row) /\ Len(rows) \in Nat /\ run \in [Pollers -> Run] /\ p \in Pollers
        /\ \A i \in 1..Len(rows) : rows[i] \in Row
    BY ElementsOf DEF IInv, TableOK
  <2>1. /\ run[p] \in Run /\ run[p].todo \in Seq(Item) /\ Waiting(run[p].todo, rows)
        /\ \A n \in 1..Len(run[p].todo) : run[p].todo[n].id \in 1..Len(rows)
    BY <2>0 DEF FinalInv, IInv, Run, RunOK, ReadFrom
  <2>2. ASSUME rows' = rows PROVE Final
    <3>1. \A i \in 1..Len(rows) : rows[i] = [rows[i] EXCEPT !.aged = rows[i].aged]
      BY <2>0 DEF Row
    <3> QED
      BY <2>2, <3>1
  <2>3. ASSUME Waiting(run'[p].todo, rows') PROVE FinalInv'
    BY <2>3 DEF FinalInv
  <2> HIDE DEF Final
  <2>4. CASE \/ \E accepted \in SUBSET Calendars : Anchor(accepted)
             \/ \E i \in 1..Len(rows) : Age(i)
    <3>1. /\ run' = run
          /\ \A i \in 1..Len(rows) : /\ rows'[i] = [rows[i] EXCEPT !.aged = rows'[i].aged]
                                     /\ rows'[i].confirmed = rows[i].confirmed
      <4>1. ASSUME NEW accepted \in SUBSET Calendars, Anchor(accepted)
            PROVE  run' = run /\ \A i \in 1..Len(rows) : rows'[i] = rows[i]
        BY <2>0, <4>1 DEF Anchor
      <4>2. ASSUME NEW k \in 1..Len(rows), Age(k)
            PROVE  run' = run /\ \A i \in 1..Len(rows) : \/ rows'[i] = rows[i]
                                                         \/ rows'[i] = [rows[i] EXCEPT !.aged = TRUE]
        <5>1. /\ rows' = [rows EXCEPT ![k] = [rows[k] EXCEPT !.aged = TRUE]] /\ run' = run
              /\ DOMAIN rows = 1..Len(rows)
          BY <2>0, <4>2 DEF Age
        <5> QED
          BY <5>1
      <4>3. /\ run' = run
            /\ \A i \in 1..Len(rows) : \/ rows'[i] = rows[i]
                                       \/ rows'[i] = [rows[i] EXCEPT !.aged = TRUE]
        BY <2>4, <4>1, <4>2
      <4> QED
        BY <2>0, <4>3 DEF Row
    <3> QED
      BY <2>1, <2>3, <3>1 DEF Waiting, Final
  <2>5. CASE \E i \in 1..Len(rows), k \in Calendars : Mine(i, k)
    BY <2>1, <2>2, <2>3, <2>5 DEF Mine
  <2>6. CASE List(p)
    <3>1. rows' = rows /\ run'[p].todo = Listed
      BY <2>0, <2>6, TurnTodo DEF List
    <3>2. Waiting(Listed, rows)
      BY <2>0, ListedItems DEF Waiting, Unconfirmed
    <3> QED
      BY <2>2, <2>3, <3>1, <3>2
  <2>7. CASE \/ Upgraded(p) \/ NotUpgraded(p) \/ LookUp(p, Null) \/ LookUp(p, FoundHash(p))
    <3>1. rows' = rows /\ run'[p].todo = run[p].todo
      BY <2>0, <2>1, <2>7 DEF Upgraded, NotUpgraded, LookUp, Run
    <3> QED
      BY <2>1, <2>2, <2>3, <3>1
  <2>8. CASE StillPending(p) \/ (FailOne(p) /\ UNCHANGED rows)
    <3>1. run[p].at # "idle" /\ rows' = rows /\ run'[p].todo = Tail(run[p].todo)
      BY <2>0, <2>8, TurnTodo DEF StillPending, FailOne, NextAnchor
    <3>2. run[p].todo # << >>
      BY <2>0, <3>1, AtWork
    <3> QED
      BY <2>1, <2>2, <2>3, <3>1, <3>2, WaitingTail
  <2>9. CASE Stores(p)
    <3> DEFINE k == run[p].todo[1].id
    <3>1. /\ run[p].at = "confirming" /\ run'[p].todo = Tail(run[p].todo)
          /\ \A i \in 1..Len(rows) \ {k} : rows'[i] = rows[i]
      <4>1. run[p].at = "confirming" /\ run'[p].todo = Tail(run[p].todo)
        BY <2>0, <2>9, TurnTodo DEF Stores, Confirm, FailOne, NextAnchor
      <4>2. \E e : rows' = [rows EXCEPT ![k] = e]
        BY <2>9 DEF Stores, Confirm, Stored
      <4>3. DOMAIN rows = 1..Len(rows)
        BY <2>0
      <4> QED
        BY <4>1, <4>2, <4>3
    <3>2. run[p].todo # << >>
      BY <2>0, <3>1, AtWork
    <3>3. /\ Waiting(Tail(run[p].todo), rows) /\ ~ rows[k].confirmed
          /\ \A n \in 1..Len(Tail(run[p].todo)) : Tail(run[p].todo)[n].id # k
      BY <2>1, <3>2, WaitingTail
    <3>4. \A n \in 1..Len(Tail(run[p].todo)) : Tail(run[p].todo)[n].id \in 1..Len(rows)
      BY <2>1, <3>2, Tails
    <3> HIDE DEF k
    <3>5. Waiting(run'[p].todo, rows')
      BY <3>1, <3>3, <3>4 DEF Waiting
    <3>6. \A i \in 1..Len(rows) \ {k} : rows'[i] = [rows[i] EXCEPT !.aged = rows'[i].aged]
      BY <2>0, <3>1 DEF Row
    <3> QED
      BY <2>3, <3>3, <3>5, <3>6 DEF Final
  <2>10. CASE Crash(p)
    <3>1. rows' = rows /\ run'[p].todo = << >>
      BY <2>0, <2>10 DEF Crash, Idle
    <3> QED
      BY <2>2, <2>3, <3>1 DEF Waiting
  <2>11. CASE UNCHANGED vars
    BY <2>1, <2>2, <2>3, <2>11 DEF vars
  <2> QED
    BY <2>4, <2>5, <2>6, <2>7, <2>8, <2>9, <2>10, <2>11 DEF Next, Work, FailOne, Stores
<1> QED
  BY <1>1, <1>2, IInvHolds, PTL DEF Spec, ConfirmedIsFinal
=============================================================================
