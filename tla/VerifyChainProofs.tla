------------------------- MODULE VerifyChainProofs -------------------------
(***************************************************************************)
(* For every table, every edit of it and every verifier: what              *)
(* verify_chain() accepts is bound to what log() wrote by any one hash or  *)
(* signature that is still there.                                          *)
(***************************************************************************)
EXTENDS VerifyChain, DataLemmas, TLAPS

\* A row that holds after rows that commit to their history commits to its own.
LEMMA HistoryGrows ==
    ASSUME NEW r \in Seq(Row), NEW i \in 1..Len(r),
           ExpectedPrevious(r, i) = History(r, i - 1),
           LinkHolds(r[i], ExpectedPrevious(r, i)), HashHolds(r[i])
    PROVE  r[i].entry_hash = History(r, i)
<1>1. r[i].entry_hash = Append(History(r, i - 1), FieldsOf(r[i]))
  BY DEF LinkHolds, HashHolds, EntryHash, FieldsOf
<1>2. Append(History(r, i - 1), FieldsOf(r[i])) = History(r, i)
  <2> DEFINE h == History(r, i - 1)
             f == FieldsOf(r[i])
  <2>1. i \in Nat \ {0} /\ i - 1 \in Nat
    OBVIOUS
  <2>2. h = [k \in 1..(i - 1) |-> FieldsOf(r[k])] /\ Len(h) = i - 1
    BY <2>1 DEF History
  <2>3. Append(h, f) = [k \in 1..(i - 1) + 1 |-> IF k = (i - 1) + 1 THEN f ELSE h[k]]
    BY <2>1, <2>2
  <2>4. \A k \in 1..i : (IF k = (i - 1) + 1 THEN f ELSE h[k]) = FieldsOf(r[k])
    BY <2>1, <2>2
  <2> QED
    BY <2>1, <2>3, <2>4 DEF History
<1> QED
  BY <1>1, <1>2

\* Two equal histories are of the same length.
LEMMA HistoriesAgree ==
    ASSUME NEW r, NEW w, NEW i \in Nat, NEW n \in Nat, History(r, i) = History(w, n)
    PROVE  i = n
<1>1. DOMAIN History(r, i) = 1..i /\ DOMAIN History(w, n) = 1..n
  BY DEF History
<1>2. 1..i = 1..n
  BY <1>1
<1> QED
  BY <1>2

\* The rows of a valid chain commit to their histories: there is no first one
\* that does not.
LEMMA ValidHistories ==
    ASSUME NEW r \in Seq(Row), NEW keys, ValidChain(r, keys)
    PROVE  \A n \in 1..Len(r) : r[n].entry_hash = History(r, n)
<1> DEFINE bad == {n \in 1..Len(r) : r[n].entry_hash # History(r, n)}
<1>1. Len(r) \in Nat
  OBVIOUS
<1>2. SUFFICES ASSUME bad # {} PROVE FALSE
  OBVIOUS
<1> DEFINE i == Min(bad)
<1>3. i \in bad /\ \A n \in bad : i <= n
  <2> HIDE DEF bad
  <2>1. bad \subseteq Nat
    BY <1>1 DEF bad
  <2> QED
    BY <1>2, <2>1, MinNat
<1>4. i \in 1..Len(r) /\ r[i].entry_hash # History(r, i)
  BY <1>3
<1>5. i # 1 => i - 1 \in 1..Len(r) /\ r[i - 1].entry_hash = History(r, i - 1)
  <2>1. i # 1 => i - 1 \in 1..Len(r) /\ ~ (i <= i - 1)
    BY <1>1, <1>4
  <2> QED
    BY <1>3, <2>1
<1> HIDE DEF i, bad
<1>6. ExpectedPrevious(r, i) = History(r, i - 1)
  BY <1>4, <1>5 DEF ExpectedPrevious, History, GenesisPreviousHash
<1>7. LinkHolds(r[i], ExpectedPrevious(r, i)) /\ HashHolds(r[i])
  BY <1>4 DEF ValidChain, RowHolds
<1> QED
  BY <1>4, <1>6, <1>7, HistoryGrows

LEMMA WrittenHistories ==
    \A n \in 1..Len(Written) : Written[n].entry_hash = History(Written, n)
  BY WrittenAssumption, ValidHistories

\* The inductive invariant: what has passed is a valid chain that commits to
\* its own history, and expected_previous is its last hash.
THEOREM WalkIsInvariant == Spec => []WalkInvariant
<1>1. Init => WalkInvariant
  <2> SUFFICES ASSUME Init PROVE WalkInvariant
    OBVIOUS
  <2>1. rows \in Seq(Row)
    BY TablesAssumption DEF Init
  <2>2. 0 \in 0..Len(rows) /\ 1..0 = {}
    BY <2>1
  <2> QED
    BY <2>2 DEF Init, WalkInvariant, ExpectedPrevious
<1>2. WalkInvariant /\ [Next]_vars => WalkInvariant'
  <2> SUFFICES ASSUME WalkInvariant, [Next]_vars PROVE WalkInvariant'
    OBVIOUS
  <2> DEFINE i == at + 1
  <2>1. rows \in Seq(Row) /\ Len(rows) \in Nat /\ at \in Nat
    BY TablesAssumption DEF WalkInvariant
  <2>2. Passes(rows[i]) /\ at < Len(rows) <=> RowHolds(rows, i, verifier) /\ at < Len(rows)
    BY DEF WalkInvariant, Passes, RowHolds
  <2>3. CASE WalkRow
    <3>1. i \in 1..Len(rows) /\ i - 1 = at /\ RowHolds(rows, i, verifier)
      BY <2>1, <2>2, <2>3 DEF WalkRow
    <3>2. ExpectedPrevious(rows, i) = History(rows, i - 1)
      <4>1. CASE at = 0
        BY <4>1, <3>1 DEF ExpectedPrevious, History, GenesisPreviousHash
      <4>2. CASE at # 0
        BY <4>2, <2>1, <3>1 DEF ExpectedPrevious, WalkInvariant
      <4> QED
        BY <4>1, <4>2
    <3>3. rows[i].entry_hash = History(rows, i)
      BY <2>1, <3>1, <3>2, HistoryGrows DEF RowHolds
    <3>4. at' = i /\ at' \in 0..Len(rows) /\ verdict' = "walking"
          /\ rows' = rows /\ verifier' = verifier
          /\ expected_previous' = rows[i].entry_hash
      BY <2>1, <2>3, <3>1 DEF WalkRow
    <3>5. ExpectedPrevious(rows, i + 1) = rows[i].entry_hash
      BY <2>1 DEF ExpectedPrevious
    <3>6. \A k \in 1..i : RowHolds(rows, k, verifier) /\ rows[k].entry_hash = History(rows, k)
      <4> SUFFICES ASSUME NEW k \in 1..i
                   PROVE  RowHolds(rows, k, verifier) /\ rows[k].entry_hash = History(rows, k)
        OBVIOUS
      <4>1. k = i \/ k \in 1..at
        BY <2>1
      <4> QED
        BY <4>1, <3>1, <3>3 DEF WalkInvariant
    <3> QED
      BY <3>4, <3>5, <3>6 DEF WalkInvariant
  <2>4. CASE Raise
    BY <2>2, <2>4 DEF Raise, WalkInvariant
  <2>5. CASE Return
    BY <2>5 DEF Return, WalkInvariant
  <2>6. CASE UNCHANGED vars
    BY <2>6 DEF vars, WalkInvariant
  <2> QED
    BY <2>3, <2>4, <2>5, <2>6 DEF Next
<1> QED
  BY <1>1, <1>2, PTL DEF Spec

\* One hash that is still known binds the whole history before it.
THEOREM HashesBind == Spec => []HashBindsHistory
<1>1. WalkInvariant => HashBindsHistory
  <2> SUFFICES ASSUME WalkInvariant, verdict = "valid",
                      NEW i \in 1..Len(rows), NEW n \in 1..Len(Written),
                      rows[i].entry_hash = Written[n].entry_hash
               PROVE  i = n /\ History(rows, i) = History(Written, n)
    BY DEF HashBindsHistory
  <2>1. i \in Nat /\ n \in Nat
    BY TablesAssumption, WrittenAssumption, WrittenHistories DEF WalkInvariant
  <2>2. rows[i].entry_hash = History(rows, i)
    BY DEF WalkInvariant
  <2>3. Written[n].entry_hash = History(Written, n)
    BY WrittenAssumption, WrittenHistories
  <2> QED
    BY <2>1, <2>2, <2>3, HistoriesAgree
<1> QED
  BY <1>1, WalkIsInvariant, PTL

\* One signature that verifies binds the whole history before it.
THEOREM SignaturesBind == Spec => []SignedHistoryIsWritten
<1>1. WalkInvariant => SignedHistoryIsWritten
  <2> SUFFICES ASSUME WalkInvariant, verdict = "valid", verifier # NoVerifier,
                      NEW i \in 1..Len(rows), rows[i].signature # NoSignature
               PROVE  i <= Len(Written) /\ History(rows, i) = History(Written, i)
    BY DEF SignedHistoryIsWritten
  <2>1. PICK n \in 1..Len(Written) : Written[n].signature = rows[i].signature
    BY TablesAssumption DEF WalkInvariant
  <2>2. rows[i].signature[2] = rows[i].entry_hash
    BY DEF WalkInvariant, RowHolds, SignatureHolds
  <2>3. Written[n].signature[2] = Written[n].entry_hash
    <3>1. SignatureHolds(Written[n], Key)
      BY WrittenAssumption DEF ValidChain, RowHolds
    <3>2. Key # NoVerifier
      BY VerifiersAssumption
    <3> QED
      BY <2>1, <3>1, <3>2 DEF SignatureHolds
  <2>4. i \in Nat /\ n \in Nat /\ n <= Len(Written)
    BY TablesAssumption, WrittenAssumption, WrittenHistories DEF WalkInvariant
  <2>5. rows[i].entry_hash = Written[n].entry_hash
    BY <2>1, <2>2, <2>3
  <2>6. rows[i].entry_hash = History(rows, i) /\ Written[n].entry_hash = History(Written, n)
    BY WrittenAssumption, WrittenHistories DEF WalkInvariant
  <2> QED
    BY <2>4, <2>5, <2>6, HistoriesAgree
<1> QED
  BY <1>1, WalkIsInvariant, PTL

=============================================================================
