---------------------------- MODULE WitnessProofs ----------------------------
(***************************************************************************)
(* The witness registry for any number of Ledgers and calls, any witnesses *)
(* registered before, and any length of the chain.                         *)
(***************************************************************************)
EXTENDS Witness, DataLemmas

-----------------------------------------------------------------------------
(* Types. *)

Labels == {"idle", "waiting", "writing", "committing", "witness", "head",
           "prev", "witnesses", "listed", "walking"} \cup Done

\* What an attest or a verify call can have read.
Readings == [head: Nat, prev: AttestationDigest, before: Nat, at: Nat,
             known: Seq(Keys), last: BOOLEAN]

TypeInv ==
    /\ db \in Tables /\ work \in Tables
    /\ writer \in Ledgers \cup {Nobody}
    /\ head \in 0..MaxHead
    /\ open \in [Ledgers -> BOOLEAN]
    /\ mutex \in [Ledgers -> Calls \cup {Nobody}]
    /\ pc \in [Calls -> Labels]
    /\ stale \in SUBSET Calls
    /\ got \in [AttestCalls \cup VerifyCalls -> Readings]
    /\ wasRetired \in [AttestCalls -> BOOLEAN]

\* Which call can be where, and the lock it holds there.
CallInv ==
    \A c \in Calls :
        /\ pc[c] \in {"witnesses", "listed", "walking", "unknown", "mismatch", "unsigned"}
           => c \in VerifyCalls
        /\ pc[c] \in {"waiting", "writing", "committing"} => c \notin VerifyCalls
        /\ pc[c] \in {"witness", "head", "prev"} => c \in AttestCalls
        /\ pc[c] \in {"writing", "committing", "witness", "head", "prev"} => mutex[Owner[c]] = c

\* The newest of some rows is one of them.
LEMMA MaxRow ==
    ASSUME NEW n \in Nat, NEW T, T \subseteq 1..n, T # {}
    PROVE  Max(T) \in T /\ \A y \in T : y <= Max(T)
<1> DEFINE U == {n - y : y \in T}
<1>1. U \subseteq Nat /\ U # {}
  <2>1. \A y \in T : n - y \in Nat
    OBVIOUS
  <2> QED
    BY <2>1
<1>2. Min(U) \in U /\ \A z \in U : Min(U) <= z
  BY <1>1, MinNat
<1>3. PICK m \in T : Min(U) = n - m
  BY <1>2
<1>4. \A y \in T : n - y \in U
  OBVIOUS
<1>5. \A y \in T : n - m <= n - y
  BY <1>2, <1>3, <1>4
<1>6. \A y \in T : y <= m
  BY <1>5
<1>7. \E x \in T : \A y \in T : x >= y
  BY <1>6
<1> QED
  BY <1>7 DEF Max

LEMMA ViewType == ASSUME TypeInv, NEW l PROVE View(l) \in Tables
  BY DEF TypeInv, View

\* The parts of the tables, and the types of their rows.
LEMMA RowTypes ==
    ASSUME NEW t \in Tables
    PROVE  /\ t.witnesses \in Seq(WitnessRow) /\ t.attestations \in Seq(AttestationRow)
           /\ Len(t.witnesses) \in Nat /\ Len(t.attestations) \in Nat
           /\ \A w \in 1..Len(t.witnesses) : t.witnesses[w] \in WitnessRow
           /\ \A i \in 1..Len(t.attestations) : t.attestations[i] \in AttestationRow
<1>1. t.witnesses \in Seq(WitnessRow) /\ t.attestations \in Seq(AttestationRow)
  BY DEF Tables
<1>2. \A w \in 1..Len(t.witnesses) : t.witnesses[w] \in WitnessRow
  BY <1>1, ElementsOf
<1>3. \A i \in 1..Len(t.attestations) : t.attestations[i] \in AttestationRow
  BY <1>1, ElementsOf
<1> QED
  BY <1>1, <1>2, <1>3

LEMMA HashType ==
    ASSUME NEW t \in Tables, NEW w, NEW n \in Nat
    PROVE  HashBefore(t, w, n) \in AttestationDigest
<1> DEFINE older == {i \in Subchain(t, w) : i < n}
<1>1. older \subseteq 1..Len(t.attestations) /\ Len(t.attestations) \in Nat
  BY RowTypes DEF Subchain
<1>2. CASE older = {}
  BY <1>2 DEF HashBefore, GenesisWitnessPrevHash, AttestationDigest
<1>3. CASE older # {}
  <2>1. Max(older) \in older
    BY <1>1, <1>3, MaxRow
  <2>2. Max(older) \in 1..Len(t.attestations)
    BY <1>1, <2>1
  <2>3. t.attestations[Max(older)] \in AttestationRow
    BY <2>2, RowTypes
  <2>4. t.attestations[Max(older)].hash \in AttestationDigest
    BY <2>3 DEF AttestationRow
  <2> QED
    BY <1>3, <2>4 DEF HashBefore
<1> QED
  BY <1>2, <1>3

LEMMA KeysType ==
    ASSUME NEW t \in Tables
    PROVE  /\ KeysOf(t) \in Seq(Keys) /\ DOMAIN KeysOf(t) = 1..Len(t.witnesses)
           /\ \A w \in 1..Len(t.witnesses) : KeysOf(t)[w] = t.witnesses[w].key
<1>1. \A w \in 1..Len(t.witnesses) : t.witnesses[w].key \in Keys
  BY RowTypes DEF WitnessRow
<1>2. KeysOf(t) = [w \in 1..Len(t.witnesses) |-> t.witnesses[w].key] /\ Len(t.witnesses) \in Nat
  BY RowTypes DEF KeysOf
<1>3. KeysOf(t) \in [1..Len(t.witnesses) -> Keys]
  BY <1>1, <1>2
<1> QED
  BY <1>2, <1>3

\* u has every witness of t, with its key, and retired if it was.
Keeps(t, u) ==
    /\ Len(t.witnesses) <= Len(u.witnesses)
    /\ \A w \in 1..Len(t.witnesses) :
          /\ u.witnesses[w].key = t.witnesses[w].key
          /\ IsRetired(t, w) => u.witnesses[w].retired_at = t.witnesses[w].retired_at

LEMMA KeepsItself == ASSUME NEW t \in Tables PROVE Keeps(t, t)
  BY RowTypes DEF Keeps

LEMMA KeepsOn ==
    ASSUME NEW t \in Tables, NEW u \in Tables, NEW x \in Tables, Keeps(t, u), Keeps(u, x)
    PROVE  Keeps(t, x)
<1>1. /\ Len(t.witnesses) \in Nat /\ Len(u.witnesses) \in Nat /\ Len(x.witnesses) \in Nat
      /\ Len(t.witnesses) <= Len(u.witnesses) /\ Len(u.witnesses) <= Len(x.witnesses)
  BY RowTypes DEF Keeps
<1>2. \A w \in 1..Len(t.witnesses) : w \in 1..Len(u.witnesses)
  BY <1>1
<1>3. ASSUME NEW w \in 1..Len(t.witnesses)
      PROVE  /\ x.witnesses[w].key = t.witnesses[w].key
             /\ IsRetired(t, w) => x.witnesses[w].retired_at = t.witnesses[w].retired_at
  <2>1. /\ u.witnesses[w].key = t.witnesses[w].key /\ x.witnesses[w].key = u.witnesses[w].key
        /\ IsRetired(t, w) => u.witnesses[w].retired_at = t.witnesses[w].retired_at
        /\ IsRetired(u, w) => x.witnesses[w].retired_at = u.witnesses[w].retired_at
    BY <1>2 DEF Keeps
  <2>2. IsRetired(t, w) => IsRetired(u, w)
    BY <1>2, <2>1 DEF IsRetired
  <2> QED
    BY <2>1, <2>2
<1> QED
  BY <1>1, <1>3 DEF Keeps

LEMMA KeepsRetired ==
    ASSUME NEW t \in Tables, NEW u \in Tables, Keeps(t, u), NEW w, IsRetired(t, w)
    PROVE  IsRetired(u, w)
<1>1. w \in 1..Len(t.witnesses) /\ t.witnesses[w].retired_at # NotRetired
  BY DEF IsRetired
<1>2. w \in 1..Len(u.witnesses)
  BY <1>1, RowTypes DEF Keeps
<1> QED
  BY <1>1, <1>2 DEF Keeps, IsRetired

-----------------------------------------------------------------------------
(* What the three statements write. *)

LEMMA RegisterWrites ==
    ASSUME TypeInv, NEW c \in Calls, Register(c)
    PROVE  \E t \in Tables : /\ Write(c, t) /\ Keeps(View(Owner[c]), t)
                             /\ t.attestations = View(Owner[c]).attestations
<1> DEFINE t == View(Owner[c])
           new == NewWitness(KeyOf[c])
           u == [t EXCEPT !.witnesses = Append(@, new)]
<1>1. t \in Tables
  BY ViewType
<1>2. CASE Write(c, t)
  BY <1>1, <1>2, KeepsItself
<1>3. CASE Write(c, u)
  <2>1. new \in WitnessRow
    BY DEF Register, NewWitness, WitnessRow, Keys
  <2>2. t.witnesses \in Seq(WitnessRow) /\ Len(t.witnesses) \in Nat
    BY <1>1, RowTypes
  <2> HIDE DEF t, new
  <2>3. u.witnesses = Append(t.witnesses, new) /\ u.attestations = t.attestations
    BY <1>1 DEF Tables
  <2>4. /\ u.witnesses \in Seq(WitnessRow) /\ Len(u.witnesses) = Len(t.witnesses) + 1
        /\ \A i \in 1..Len(t.witnesses) : u.witnesses[i] = t.witnesses[i]
    BY <2>1, <2>2, <2>3, Appends
  <2>5. u \in Tables
    BY <1>1, <2>4 DEF Tables
  <2> HIDE DEF u
  <2>6. Keeps(t, u)
    BY <2>2, <2>4 DEF Keeps
  <2> QED
    BY <1>3, <2>3, <2>5, <2>6 DEF t
<1> QED
  BY <1>2, <1>3 DEF Register

LEMMA RetireWrites ==
    ASSUME TypeInv, NEW c \in Calls, Retire(c)
    PROVE  \E t \in Tables : /\ Write(c, t) /\ Keeps(View(Owner[c]), t)
                             /\ t.attestations = View(Owner[c]).attestations
<1> DEFINE t == View(Owner[c])
           w == WitnessOf[c]
           u == [t EXCEPT !.witnesses[w].retired_at = c]
<1>1. t \in Tables
  BY ViewType
<1>2. CASE Write(c, t)
  BY <1>1, <1>2, KeepsItself
<1>3. CASE Write(c, u) /\ w \in 1..Len(t.witnesses) /\ ~ IsRetired(t, w)
  <2> DEFINE new == [t.witnesses[w] EXCEPT !.retired_at = c]
  <2>1. t.witnesses \in Seq(WitnessRow) /\ Len(t.witnesses) \in Nat
        /\ t.witnesses[w] \in WitnessRow
    BY <1>1, <1>3, RowTypes
  <2>2. new \in WitnessRow /\ new.key = t.witnesses[w].key
    BY <2>1 DEF WitnessRow, Retire
  <2>3. u.witnesses = [t.witnesses EXCEPT ![w] = new] /\ u.attestations = t.attestations
    BY <1>1, <2>1 DEF Tables
  <2> HIDE DEF t, new, w
  <2>4. /\ u.witnesses \in Seq(WitnessRow) /\ Len(u.witnesses) = Len(t.witnesses)
        /\ u.witnesses[w] = new
        /\ \A i \in 1..Len(t.witnesses) \ {w} : u.witnesses[i] = t.witnesses[i]
    BY <1>3, <2>1, <2>2, <2>3, Updates
  <2>5. u \in Tables
    BY <1>1, <2>4 DEF Tables
  <2> HIDE DEF u
  <2>6. Keeps(t, u)
    <3>1. ASSUME NEW i \in 1..Len(t.witnesses)
          PROVE  /\ u.witnesses[i].key = t.witnesses[i].key
                 /\ IsRetired(t, i) => u.witnesses[i].retired_at = t.witnesses[i].retired_at
      <4>1. CASE i = w
        BY <1>3, <2>2, <2>4, <4>1
      <4>2. CASE i # w
        BY <2>4, <4>2
      <4> QED
        BY <4>1, <4>2
    <3> QED
      BY <2>1, <2>4, <3>1 DEF Keeps
  <2> QED
    BY <1>3, <2>3, <2>5, <2>6 DEF t
<1> QED
  BY <1>2, <1>3 DEF Retire

\* The row that attest_with_witness inserts.
NewRow(c) ==
    [witness |-> WitnessOf[c], head |-> got[c].head, call |-> c, prev |-> got[c].prev,
     hash |-> AttestationHash(WitnessOf[c], got[c].head, c, got[c].prev), key |-> SignsWith[c]]

LEMMA NewRowType ==
    ASSUME TypeInv, NEW c \in AttestCalls
    PROVE  NewRow(c) \in AttestationRow
<1>1. WitnessOf[c] \in Nat
  BY WitnessAssumption
<1>2. got[c] \in Readings
  BY DEF TypeInv
<1>3. got[c].head \in Nat /\ got[c].prev \in Seq(Nat \X Nat \X AttestCalls)
  BY <1>2 DEF Readings, AttestationDigest
<1> DEFINE x == <<WitnessOf[c], got[c].head, c>>
<1>4. x \in Nat \X Nat \X AttestCalls
  BY <1>1, <1>3
<1> HIDE DEF x
<1>5. Append(got[c].prev, x) \in Seq(Nat \X Nat \X AttestCalls)
  BY <1>3, <1>4, Appends
<1>6. AttestationHash(WitnessOf[c], got[c].head, c, got[c].prev) \in AttestationDigest
  BY <1>5 DEF AttestationHash, AttestationDigest, x
<1> HIDE DEF x
<1>7. got[c].prev \in AttestationDigest /\ SignsWith[c] \in Range(SignsWith)
  BY <1>3, WitnessAssumption DEF AttestationDigest, Range
<1> QED
  BY <1>1, <1>3, <1>6, <1>7 DEF NewRow, AttestationRow

LEMMA AttestWrites ==
    ASSUME TypeInv, NEW c \in AttestCalls, Attest(c)
    PROVE  \E t \in Tables :
              /\ Write(c, t) /\ Keeps(View(Owner[c]), t)
              /\ t.witnesses = View(Owner[c]).witnesses
              /\ t.attestations = Append(View(Owner[c]).attestations, NewRow(c))
<1> DEFINE t == View(Owner[c])
           new == NewRow(c)
           u == [t EXCEPT !.attestations = Append(@, new)]
<1>1. t \in Tables
  BY ViewType
<1>2. new \in AttestationRow
  BY NewRowType
<1>3. Write(c, u)
  BY DEF Attest, NewRow
<1>4. t.attestations \in Seq(AttestationRow)
  BY <1>1, RowTypes
<1> HIDE DEF t, new
<1>5. u.witnesses = t.witnesses /\ u.attestations = Append(t.attestations, new)
  BY <1>1 DEF Tables
<1>6. u.attestations \in Seq(AttestationRow)
  BY <1>2, <1>4, <1>5, Appends
<1>7. u \in Tables
  BY <1>1, <1>5, <1>6 DEF Tables
<1> HIDE DEF u
<1>8. Keeps(t, u)
  BY <1>1, <1>5, RowTypes DEF Keeps, IsRetired
<1> QED
  BY <1>3, <1>5, <1>7, <1>8 DEF t, new

\* A statement that changes no attestation, and one that inserts one.
Plain(c, t) == /\ Write(c, t) /\ Keeps(View(Owner[c]), t)
               /\ t.attestations = View(Owner[c]).attestations

Inserts(c, t) == /\ c \in AttestCalls /\ Attest(c) /\ Write(c, t) /\ Keeps(View(Owner[c]), t)
                 /\ t.witnesses = View(Owner[c]).witnesses
                 /\ t.attestations = Append(View(Owner[c]).attestations, NewRow(c))

\* Every step leaves the tables, writes, commits or closes.
LEMMA TablesStep ==
    ASSUME TypeInv, [Next]_vars
    PROVE  \/ UNCHANGED tables
           \/ \E c \in Calls : \E t \in Tables : Plain(c, t) \/ Inserts(c, t)
           \/ \E c \in Calls : Commit(c)
           \/ \E l \in Ledgers : Close(l)
<1>1. ASSUME NEW c \in Calls, Register(c) \/ Retire(c)
      PROVE  \E t \in Tables : Plain(c, t)
  BY <1>1, RegisterWrites, RetireWrites DEF Plain
<1>2. ASSUME NEW c \in Calls, Attest(c)
      PROVE  \E t \in Tables : Inserts(c, t)
  <2>1. c \in AttestCalls
    BY <1>2 DEF Attest
  <2> QED
    BY <1>2, <2>1, AttestWrites DEF Inserts
<1>3. ASSUME NEW c \in Calls,
             \/ Start(c) \/ Acquire(c) \/ ReadWitness(c) \/ ReadHead(c) \/ ReadPrev(c)
             \/ ReadWitnesses(c) \/ WalkGroup(c) \/ Busy(c) \/ OnClosed(c) \/ CancelWaiting(c)
      PROVE  UNCHANGED tables
  BY <1>3 DEF Start, Acquire, ReadWitness, ReadHead, ReadPrev, ReadWitnesses, WalkGroup,
              Busy, OnClosed, CancelWaiting
<1>4. Log \/ UNCHANGED vars \/ (\E l \in Ledgers : Reopen(l)) => UNCHANGED tables
  BY DEF Log, Reopen, vars, tables
<1> QED
  BY <1>1, <1>2, <1>3, <1>4 DEF Next

-----------------------------------------------------------------------------
(* Where the calls are. *)

\* A call may be at label, with the lock it needs there.
MayBe(c, label) ==
    /\ label \in {"witnesses", "listed", "walking", "unknown", "mismatch", "unsigned"}
       => c \in VerifyCalls
    /\ label \in {"waiting", "writing", "committing"} => c \notin VerifyCalls
    /\ label \in {"witness", "head", "prev"} => c \in AttestCalls
    /\ label \in {"writing", "committing", "witness", "head", "prev"} => mutex[Owner[c]] = c

PlaceInv == CallInv /\ pc \in [Calls -> Labels] /\ mutex \in [Ledgers -> Calls \cup {Nobody}]

LEMMA OwnerType == ASSUME NEW c \in Calls PROVE Owner[c] \in Ledgers
  BY WitnessAssumption

LEMMA GotoKeeps ==
    ASSUME TypeInv, CallInv, NEW c \in Calls, NEW label \in Labels,
           Goto(c, label), MayBe(c, label)
    PROVE  PlaceInv'
<1>1. pc' = [pc EXCEPT ![c] = label] /\ mutex' = mutex
  BY DEF Goto
<1>2. pc' \in [Calls -> Labels] /\ pc'[c] = label /\ \A d \in Calls \ {c} : pc'[d] = pc[d]
  BY <1>1 DEF TypeInv
<1>3. ASSUME NEW d \in Calls PROVE MayBe(d, pc[d])
  BY DEF CallInv, MayBe
<1>4. ASSUME NEW d \in Calls PROVE MayBe(d, pc'[d])
  BY <1>2, <1>3
<1>5. CallInv'
  BY <1>1, <1>4 DEF CallInv, MayBe
<1> QED
  BY <1>1, <1>2, <1>5 DEF PlaceInv, TypeInv

LEMMA LeaveKeeps ==
    ASSUME TypeInv, CallInv, NEW c \in Calls, NEW label \in Done, Leave(c, label),
           label \in {"unknown", "mismatch", "unsigned"} => c \in VerifyCalls
    PROVE  PlaceInv'
<1>1. pc' = [pc EXCEPT ![c] = label]
  BY DEF Leave
<1>2. pc' \in [Calls -> Labels] /\ pc'[c] = label /\ \A d \in Calls \ {c} : pc'[d] = pc[d]
  BY <1>1 DEF TypeInv, Labels
<1>3. \/ mutex' = mutex
      \/ mutex[Owner[c]] = c /\ mutex' = [mutex EXCEPT ![Owner[c]] = Nobody]
  BY DEF Leave
<1>4. mutex' \in [Ledgers -> Calls \cup {Nobody}]
  BY <1>3 DEF TypeInv
<1>5. ASSUME NEW d \in Calls \ {c}, mutex[Owner[d]] = d
      PROVE  mutex'[Owner[d]] = d
  <2>1. Owner[d] \in Ledgers /\ Owner[c] \in Ledgers
    BY OwnerType
  <2>2. CASE mutex' = mutex
    BY <1>5, <2>2
  <2>3. CASE mutex[Owner[c]] = c /\ mutex' = [mutex EXCEPT ![Owner[c]] = Nobody]
    <3>1. Owner[d] # Owner[c]
      BY <1>5, <2>3
    <3> QED
      BY <1>5, <2>1, <2>3, <3>1 DEF TypeInv
  <2> QED
    BY <1>3, <2>2, <2>3
<1>6. ASSUME NEW d \in Calls \ {c}
      PROVE  /\ pc'[d] \in {"witnesses", "listed", "walking", "unknown", "mismatch", "unsigned"}
                => d \in VerifyCalls
             /\ pc'[d] \in {"waiting", "writing", "committing"} => d \notin VerifyCalls
             /\ pc'[d] \in {"witness", "head", "prev"} => d \in AttestCalls
             /\ pc'[d] \in {"writing", "committing", "witness", "head", "prev"}
                => mutex'[Owner[d]] = d
  BY <1>2, <1>5 DEF CallInv
<1>7. CallInv'
  <2>1. ASSUME NEW d \in Calls
        PROVE  /\ pc'[d] \in {"witnesses", "listed", "walking", "unknown", "mismatch", "unsigned"}
                  => d \in VerifyCalls
               /\ pc'[d] \in {"waiting", "writing", "committing"} => d \notin VerifyCalls
               /\ pc'[d] \in {"witness", "head", "prev"} => d \in AttestCalls
               /\ pc'[d] \in {"writing", "committing", "witness", "head", "prev"}
                  => mutex'[Owner[d]] = d
    <3>1. CASE d = c
      BY <1>2, <3>1 DEF Done
    <3>2. CASE d # c
      BY <1>6, <3>2
    <3> QED
      BY <3>1, <3>2
  <2> QED
    BY <2>1 DEF CallInv
<1> QED
  BY <1>2, <1>4, <1>7 DEF PlaceInv

LEMMA MoveKeeps ==
    ASSUME TypeInv, CallInv, NEW c \in Calls, NEW label \in Labels,
           GotoOrRaise(c, label), MayBe(c, label)
    PROVE  PlaceInv'
<1>1. CASE Goto(c, label)
  BY <1>1, GotoKeeps
<1>2. CASE Leave(c, "raised")
  BY <1>2, LeaveKeeps DEF Done
<1> QED
  BY <1>1, <1>2 DEF GotoOrRaise

LEMMA AcquireKeeps ==
    ASSUME TypeInv, CallInv, NEW c \in Calls, Acquire(c)
    PROVE  PlaceInv'
<1> DEFINE label == IF c \in AttestCalls THEN "witness" ELSE "writing"
<1>1. /\ pc' = [pc EXCEPT ![c] = label] /\ mutex' = [mutex EXCEPT ![Owner[c]] = c]
      /\ mutex[Owner[c]] = Nobody /\ pc[c] = "waiting"
  BY DEF Acquire
<1>2. label \in {"witness", "writing"} /\ (label = "witness" => c \in AttestCalls)
  OBVIOUS
<1> HIDE DEF label
<1>3. /\ pc' \in [Calls -> Labels] /\ pc'[c] = label
      /\ \A d \in Calls \ {c} : pc'[d] = pc[d]
  BY <1>1, <1>2 DEF TypeInv, Labels
<1>4. c \notin VerifyCalls
  BY <1>1 DEF CallInv
<1>5. /\ mutex' \in [Ledgers -> Calls \cup {Nobody}] /\ mutex'[Owner[c]] = c
      /\ \A l \in Ledgers \ {Owner[c]} : mutex'[l] = mutex[l]
  BY <1>1, OwnerType DEF TypeInv
<1>6. ASSUME NEW d \in Calls \ {c}, mutex[Owner[d]] = d PROVE mutex'[Owner[d]] = d
  <2>1. Owner[d] # Owner[c]
    BY <1>1, <1>6, WitnessAssumption
  <2> QED
    BY <1>5, <1>6, <2>1, OwnerType
<1>7. ASSUME NEW d \in Calls
      PROVE  /\ pc'[d] \in {"witnesses", "listed", "walking", "unknown", "mismatch", "unsigned"}
                => d \in VerifyCalls
             /\ pc'[d] \in {"waiting", "writing", "committing"} => d \notin VerifyCalls
             /\ pc'[d] \in {"witness", "head", "prev"} => d \in AttestCalls
             /\ pc'[d] \in {"writing", "committing", "witness", "head", "prev"}
                => mutex'[Owner[d]] = d
  <2>1. CASE d = c
    BY <1>2, <1>3, <1>4, <1>5, <2>1
  <2>2. CASE d # c
    BY <1>3, <1>6, <2>2 DEF CallInv
  <2> QED
    BY <2>1, <2>2
<1> QED
  BY <1>3, <1>5, <1>7 DEF PlaceInv, CallInv

\* No step puts a call where it may not be.
LEMMA PlaceStep ==
    ASSUME TypeInv, CallInv, [Next]_vars
    PROVE  PlaceInv'
<1>1. CASE UNCHANGED <<pc, mutex>>
  BY <1>1 DEF PlaceInv, CallInv, TypeInv
<1>2. ASSUME NEW c \in Calls, Start(c) PROVE PlaceInv'
  <2> DEFINE label == IF c \in VerifyCalls THEN "witnesses" ELSE "waiting"
  <2>1. Goto(c, label)
    BY <1>2 DEF Start
  <2>2. MayBe(c, label) /\ label \in Labels
    BY DEF MayBe, Labels
  <2> QED
    BY <2>1, <2>2, GotoKeeps
<1>3. ASSUME NEW c \in Calls, Acquire(c) PROVE PlaceInv'
  BY <1>3, AcquireKeeps
<1>4. ASSUME NEW c \in Calls, Register(c) \/ Retire(c) \/ Attest(c) PROVE PlaceInv'
  <2>1. pc[c] = "writing" /\ (GotoOrRaise(c, "committing") \/ Leave(c, "raised"))
    BY <1>4 DEF Register, Retire, Attest
  <2>2. MayBe(c, "committing") /\ "committing" \in Labels
    BY <2>1 DEF MayBe, CallInv, Labels
  <2> QED
    BY <2>1, <2>2, MoveKeeps, LeaveKeeps DEF Done
<1>5. ASSUME NEW c \in Calls, ReadWitness(c) PROVE PlaceInv'
  <2>1. pc[c] = "witness" /\ (GotoOrRaise(c, "head") \/ Leave(c, "raised"))
    BY <1>5 DEF ReadWitness
  <2>2. MayBe(c, "head") /\ "head" \in Labels
    BY <2>1 DEF MayBe, CallInv, Labels
  <2> QED
    BY <2>1, <2>2, MoveKeeps, LeaveKeeps DEF Done
<1>6. ASSUME NEW c \in Calls, ReadHead(c) PROVE PlaceInv'
  <2>1. pc[c] = "head" /\ (GotoOrRaise(c, "prev") \/ Leave(c, "none"))
    BY <1>6 DEF ReadHead
  <2>2. MayBe(c, "prev") /\ "prev" \in Labels
    BY <2>1 DEF MayBe, CallInv, Labels
  <2> QED
    BY <2>1, <2>2, MoveKeeps, LeaveKeeps DEF Done
<1>7. ASSUME NEW c \in Calls, ReadPrev(c) PROVE PlaceInv'
  <2>1. pc[c] = "prev" /\ GotoOrRaise(c, "writing")
    BY <1>7 DEF ReadPrev
  <2>2. c \in AttestCalls /\ c \notin VerifyCalls
    BY <2>1, WitnessAssumption DEF CallInv
  <2>3. MayBe(c, "writing") /\ "writing" \in Labels
    BY <2>1, <2>2 DEF MayBe, CallInv, Labels
  <2> QED
    BY <2>1, <2>3, MoveKeeps
<1>8. ASSUME NEW c \in Calls, ReadWitnesses(c) PROVE PlaceInv'
  <2>1. pc[c] = "witnesses" /\ GotoOrRaise(c, "listed")
    BY <1>8 DEF ReadWitnesses
  <2>2. MayBe(c, "listed") /\ "listed" \in Labels
    BY <2>1 DEF MayBe, CallInv, Labels
  <2> QED
    BY <2>1, <2>2, MoveKeeps
<1>9. ASSUME NEW c \in Calls, WalkGroup(c) PROVE PlaceInv'
  <2>1. /\ pc[c] \in {"listed", "walking"}
        /\ \/ GotoOrRaise(c, "walking") \/ Leave(c, "done")
           \/ Leave(c, "unknown") \/ Leave(c, "mismatch") \/ Leave(c, "unsigned")
    BY <1>9 DEF WalkGroup
  <2>2. MayBe(c, "walking") /\ "walking" \in Labels /\ c \in VerifyCalls
    BY <2>1 DEF MayBe, CallInv, Labels
  <2> QED
    BY <2>1, <2>2, MoveKeeps, LeaveKeeps DEF Done
<1>10. ASSUME NEW c \in Calls, Commit(c) \/ Busy(c) \/ OnClosed(c) PROVE PlaceInv'
  <2>1. Leave(c, "raised") \/ Leave(c, "done")
    BY <1>10 DEF Commit, Busy, OnClosed
  <2> QED
    BY <2>1, LeaveKeeps DEF Done
<1>11. ASSUME NEW c \in Calls, CancelWaiting(c) PROVE PlaceInv'
  <2>1. Goto(c, "raised")
    BY <1>11 DEF CancelWaiting
  <2>2. MayBe(c, "raised") /\ "raised" \in Labels
    BY DEF MayBe, Labels, Done
  <2> QED
    BY <2>1, <2>2, GotoKeeps
<1>12. Log \/ UNCHANGED vars \/ (\E l \in Ledgers : Close(l) \/ Reopen(l))
       => UNCHANGED <<pc, mutex>>
  BY DEF Log, vars, Close, Reopen
<1> QED
  BY <1>1, <1>2, <1>3, <1>4, <1>5, <1>6, <1>7, <1>8, <1>9, <1>10, <1>11, <1>12 DEF Next

-----------------------------------------------------------------------------
(* Every variable keeps its type. *)

LEMMA WriteType ==
    ASSUME TypeInv, NEW c \in Calls, NEW t \in Tables, Write(c, t)
    PROVE  db' \in Tables /\ work' \in Tables /\ writer' \in Ledgers \cup {Nobody}
  BY OwnerType DEF TypeInv, Write

LEMMA NoTablesType == NoTables \in Tables
<1>1. << >> \in Seq(WitnessRow) /\ << >> \in Seq(AttestationRow)
  OBVIOUS
<1> QED
  BY <1>1 DEF NoTables, Tables

LEMMA TablesKeep ==
    ASSUME TypeInv, [Next]_vars
    PROVE  db' \in Tables /\ work' \in Tables /\ writer' \in Ledgers \cup {Nobody}
<1>1. CASE UNCHANGED tables
  BY <1>1 DEF tables, TypeInv
<1>2. ASSUME NEW c \in Calls, NEW t \in Tables, Plain(c, t) \/ Inserts(c, t)
      PROVE  db' \in Tables /\ work' \in Tables /\ writer' \in Ledgers \cup {Nobody}
  BY <1>2, WriteType DEF Plain, Inserts
<1>3. ASSUME NEW c \in Calls, Commit(c)
      PROVE  db' \in Tables /\ work' \in Tables /\ writer' \in Ledgers \cup {Nobody}
  BY <1>3, ViewType, NoTablesType DEF Commit, TypeInv
<1>4. ASSUME NEW l \in Ledgers, Close(l)
      PROVE  db' \in Tables /\ work' \in Tables /\ writer' \in Ledgers \cup {Nobody}
  BY <1>4, NoTablesType DEF Close, TypeInv
<1> QED
  BY <1>1, <1>2, <1>3, <1>4, TablesStep

\* The readings of one call change.
LEMMA Reads ==
    ASSUME TypeInv, NEW c \in AttestCalls \cup VerifyCalls, NEW g \in Readings,
           got' = [got EXCEPT ![c] = g]
    PROVE  /\ got' \in [AttestCalls \cup VerifyCalls -> Readings] /\ got'[c] = g
           /\ \A d \in (AttestCalls \cup VerifyCalls) \ {c} : got'[d] = got[d]
  BY DEF TypeInv

LEMMA ReadsHead ==
    ASSUME TypeInv, CallInv, NEW c \in Calls, ReadHead(c)
    PROVE  /\ c \in AttestCalls /\ got' = [got EXCEPT ![c] = [got[c] EXCEPT !.head = head]]
           /\ [got[c] EXCEPT !.head = head] \in Readings
<1>1. c \in AttestCalls
  BY DEF ReadHead, CallInv
<1>2. got[c] \in Readings /\ head \in Nat
  BY <1>1, WitnessAssumption DEF TypeInv
<1>3. [got[c] EXCEPT !.head = head] \in Readings
  BY <1>2 DEF Readings
<1> QED
  BY <1>1, <1>3 DEF ReadHead

LEMMA ReadsPrev ==
    ASSUME TypeInv, CallInv, NEW c \in Calls, ReadPrev(c)
    PROVE  LET h == LastHash(View(Owner[c]), WitnessOf[c])
           IN  /\ c \in AttestCalls /\ got' = [got EXCEPT ![c] = [got[c] EXCEPT !.prev = h]]
               /\ [got[c] EXCEPT !.prev = h] \in Readings
<1> DEFINE h == LastHash(View(Owner[c]), WitnessOf[c])
<1>1. c \in AttestCalls
  BY DEF ReadPrev, CallInv
<1>2. View(Owner[c]) \in Tables
  BY ViewType
<1>3. Len(View(Owner[c]).attestations) + 1 \in Nat
  BY <1>2, RowTypes
<1>4. h \in AttestationDigest
  BY <1>2, <1>3, HashType DEF LastHash
<1>5. got' = [got EXCEPT ![c] = [got[c] EXCEPT !.prev = h]]
  BY DEF ReadPrev
<1> HIDE DEF h
<1>6. got[c] \in Readings
  BY <1>1 DEF TypeInv
<1>7. [got[c] EXCEPT !.prev = h] \in Readings
  BY <1>4, <1>6 DEF Readings
<1> QED
  BY <1>1, <1>5, <1>7 DEF h

LEMMA ReadsWitnesses ==
    ASSUME TypeInv, CallInv, NEW c \in Calls, ReadWitnesses(c)
    PROVE  LET k == KeysOf(View(Owner[c]))
           IN  /\ c \in VerifyCalls /\ got' = [got EXCEPT ![c] = [got[c] EXCEPT !.known = k]]
               /\ [got[c] EXCEPT !.known = k] \in Readings
<1> DEFINE k == KeysOf(View(Owner[c]))
<1>1. c \in VerifyCalls
  BY DEF ReadWitnesses, CallInv
<1>2. k \in Seq(Keys)
  BY ViewType, KeysType
<1>3. got' = [got EXCEPT ![c] = [got[c] EXCEPT !.known = k]]
  BY DEF ReadWitnesses
<1> HIDE DEF k
<1>4. got[c] \in Readings
  BY <1>1 DEF TypeInv
<1>5. [got[c] EXCEPT !.known = k] \in Readings
  BY <1>2, <1>4 DEF Readings
<1> QED
  BY <1>1, <1>3, <1>5 DEF k

LEMMA Starts ==
    ASSUME TypeInv, NEW c \in Calls, Start(c), c \in VerifyCalls
    PROVE  LET n == Len(db.witnesses)
           IN  /\ got' = [got EXCEPT ![c] = [got[c] EXCEPT !.before = n]]
               /\ [got[c] EXCEPT !.before = n] \in Readings
<1> DEFINE n == Len(db.witnesses)
<1>1. n \in Nat
  BY RowTypes DEF TypeInv
<1>2. got' = [got EXCEPT ![c] = [got[c] EXCEPT !.before = n]]
  BY DEF Start
<1> HIDE DEF n
<1>3. got[c] \in Readings
  BY DEF TypeInv
<1>4. [got[c] EXCEPT !.before = n] \in Readings
  BY <1>1, <1>3 DEF Readings
<1> QED
  BY <1>2, <1>4 DEF n

\* The witnesses whose groups a walk has not reached.
Ahead(t, at) == {a \in {t.attestations[i].witness : i \in 1..Len(t.attestations)} : a > at}

LEMMA Walks ==
    ASSUME TypeInv, CallInv, NEW c \in Calls, WalkGroup(c)
    PROVE  LET ahead == Ahead(View(Owner[c]), got[c].at)
           IN  /\ c \in VerifyCalls
               /\ \/ got' = got /\ Leave(c, "done")
                  \/ \E g \in Readings :
                        /\ ahead # {} /\ ahead \subseteq Nat /\ Min(ahead) \in ahead
                        /\ got' = [got EXCEPT ![c] = g] /\ g.at = Min(ahead)
                        /\ g.before = got[c].before /\ g.known = got[c].known
                        /\ \/ Leave(c, "unknown") /\ Min(ahead) \notin DOMAIN got[c].known
                           \/ Leave(c, "mismatch") \/ Leave(c, "unsigned")
                           \/ GotoOrRaise(c, "walking")
<1> DEFINE t == View(Owner[c])
           ahead == Ahead(t, got[c].at)
           w == Min(ahead)
<1>1. c \in VerifyCalls /\ got[c] \in Readings
  BY DEF WalkGroup, CallInv, TypeInv
<1> DEFINE end == ahead = {w}
           Ends == \/ Leave(c, "unknown") /\ w \notin DOMAIN got[c].known
                   \/ Leave(c, "mismatch") \/ Leave(c, "unsigned")
<1>2. \/ got' = got /\ Leave(c, "done")
      \/ /\ ahead # {}
         /\ \/ got' = [got EXCEPT ![c] = [got[c] EXCEPT !.at = w]] /\ Ends
            \/ /\ got' = [got EXCEPT ![c] = [got[c] EXCEPT !.at = w, !.last = end]]
               /\ GotoOrRaise(c, "walking")
  BY DEF WalkGroup, Ahead
<1>3. CASE got' = got /\ Leave(c, "done")
  BY <1>1, <1>3
<1>4. CASE ~ (got' = got /\ Leave(c, "done"))
  <2>1. ahead \subseteq Nat
    <3>1. \A i \in 1..Len(t.attestations) : t.attestations[i].witness \in Nat
      BY ViewType, RowTypes DEF AttestationRow
    <3> QED
      BY <3>1 DEF Ahead
  <2>2. ahead # {} /\ w \in ahead /\ w \in Nat
    BY <1>2, <1>4, <2>1, MinNat
  <2>3. end \in BOOLEAN
    BY Zenon
  <2> DEFINE g1 == [got[c] EXCEPT !.at = w]
             g2 == [got[c] EXCEPT !.at = w, !.last = end]
  <2>4. \/ got' = [got EXCEPT ![c] = g1] /\ Ends
        \/ got' = [got EXCEPT ![c] = g2] /\ GotoOrRaise(c, "walking")
    BY <1>2, <1>4
  <2> HIDE DEF w, end, ahead
  <2>5. g1 \in Readings /\ g1.at = w /\ g1.before = got[c].before /\ g1.known = got[c].known
    BY <1>1, <2>2 DEF Readings
  <2>6. g2 \in Readings /\ g2.at = w /\ g2.before = got[c].before /\ g2.known = got[c].known
    BY <1>1, <2>2, <2>3 DEF Readings
  <2> HIDE DEF g1, g2
  <2> QED
    BY <1>1, <2>1, <2>2, <2>4, <2>5, <2>6 DEF ahead, w
<1> QED
  BY <1>3, <1>4

\* Only these steps change what a call has read.
LEMMA GotKept ==
    ASSUME TypeInv, CallInv, [Next]_vars, got' # got
    PROVE  \E c \in Calls : \/ ReadHead(c) \/ ReadPrev(c) \/ ReadWitnesses(c) \/ WalkGroup(c)
                            \/ Start(c) /\ c \in VerifyCalls
<1>1. ASSUME NEW c \in Calls,
             \/ Acquire(c) \/ Register(c) \/ Retire(c) \/ ReadWitness(c) \/ Attest(c)
             \/ Commit(c) \/ Busy(c) \/ OnClosed(c) \/ CancelWaiting(c)
      PROVE  FALSE
  BY <1>1 DEF Acquire, Register, Retire, ReadWitness, Attest, Commit, Busy, OnClosed,
              CancelWaiting
<1>2. ASSUME NEW c \in Calls, Start(c), c \notin VerifyCalls PROVE FALSE
  BY <1>2 DEF Start
<1>3. ~ (Log \/ UNCHANGED vars \/ \E l \in Ledgers : Close(l) \/ Reopen(l))
  BY DEF Log, vars, Close, Reopen
<1> QED
  BY <1>1, <1>2, <1>3 DEF Next

LEMMA GotStep ==
    ASSUME TypeInv, CallInv, [Next]_vars
    PROVE  got' \in [AttestCalls \cup VerifyCalls -> Readings]
<1>1. CASE got' = got
  BY <1>1 DEF TypeInv
<1>2. ASSUME NEW c \in Calls, got' # got,
             \/ ReadHead(c) \/ ReadPrev(c) \/ ReadWitnesses(c) \/ WalkGroup(c)
             \/ Start(c) /\ c \in VerifyCalls
      PROVE  got' \in [AttestCalls \cup VerifyCalls -> Readings]
  <2>1. \E d \in AttestCalls \cup VerifyCalls : \E g \in Readings : got' = [got EXCEPT ![d] = g]
    <3>1. CASE ReadHead(c)
      BY <3>1, ReadsHead
    <3>2. CASE ReadPrev(c)
      BY <3>2, ReadsPrev
    <3>3. CASE ReadWitnesses(c)
      BY <3>3, ReadsWitnesses
    <3>4. CASE WalkGroup(c)
      BY <1>2, <3>4, Walks
    <3>5. CASE Start(c) /\ c \in VerifyCalls
      BY <3>5, Starts
    <3> QED
      BY <1>2, <3>1, <3>2, <3>3, <3>4, <3>5
  <2> QED
    BY <2>1, Reads
<1> QED
  BY <1>1, <1>2, GotKept

LEMMA OthersStep ==
    ASSUME TypeInv, CallInv, [Next]_vars
    PROVE  /\ head' \in 0..MaxHead /\ head <= head' /\ stale' \in SUBSET Calls
           /\ open' \in [Ledgers -> BOOLEAN] /\ wasRetired' \in [AttestCalls -> BOOLEAN]
<1>1. head' \in 0..MaxHead /\ head <= head'
  <2>1. CASE Log
    BY <2>1, WitnessAssumption DEF Log, TypeInv
  <2>2. CASE ~ Log
    <3>1. head' = head
      BY <2>2 DEF Next, vars, Start, Acquire, Register, Retire, ReadWitness, ReadHead, ReadPrev,
                  Attest, Commit, ReadWitnesses, WalkGroup, Busy, OnClosed, CancelWaiting, Close,
                  Reopen
    <3> QED
      BY <3>1, WitnessAssumption DEF TypeInv
  <2> QED
    BY <2>1, <2>2
<1>2. stale' \in SUBSET Calls
  <2>1. CASE \E c \in Calls : OnClosed(c) \/ CancelWaiting(c)
    BY <2>1 DEF OnClosed, CancelWaiting, TypeInv
  <2>2. CASE \E l \in Ledgers : Close(l)
    BY <2>2 DEF Close, TypeInv
  <2>3. CASE ~ (\E c \in Calls : OnClosed(c) \/ CancelWaiting(c)) /\ ~ (\E l \in Ledgers : Close(l))
    <3>1. stale' = stale
      BY <2>3 DEF Next, vars, Log, Start, Acquire, Register, Retire, ReadWitness, ReadHead,
                  ReadPrev, Attest, Commit, ReadWitnesses, WalkGroup, Busy, Reopen
    <3> QED
      BY <3>1 DEF TypeInv
  <2> QED
    BY <2>1, <2>2, <2>3
<1>3. open' \in [Ledgers -> BOOLEAN]
  <2>1. CASE \E l \in Ledgers : Close(l) \/ Reopen(l)
    BY <2>1 DEF Close, Reopen, TypeInv
  <2>2. CASE ~ (\E l \in Ledgers : Close(l) \/ Reopen(l))
    <3>1. open' = open
      BY <2>2 DEF Next, vars, Log, Start, Acquire, Register, Retire, ReadWitness, ReadHead,
                  ReadPrev, Attest, Commit, ReadWitnesses, WalkGroup, Busy, OnClosed,
                  CancelWaiting
    <3> QED
      BY <3>1 DEF TypeInv
  <2> QED
    BY <2>1, <2>2
<1>4. wasRetired' \in [AttestCalls -> BOOLEAN]
  <2>1. ASSUME NEW c \in AttestCalls, Start(c) PROVE wasRetired' \in [AttestCalls -> BOOLEAN]
    <3> DEFINE r == IsRetired(db, WitnessOf[c])
    <3>1. r \in BOOLEAN
      BY DEF IsRetired
    <3>2. wasRetired' = [wasRetired EXCEPT ![c] = r]
      BY <2>1 DEF Start
    <3> HIDE DEF r
    <3> QED
      BY <3>1, <3>2 DEF TypeInv
  <2>2. CASE ~ (\E c \in AttestCalls : Start(c))
    <3>1. \A c \in Calls : Start(c) => wasRetired' = wasRetired
      BY <2>2 DEF Start
    <3>2. wasRetired' = wasRetired
      BY <3>1 DEF Next, vars, Log, Acquire, Register, Retire, ReadWitness, ReadHead, ReadPrev,
                  Attest, Commit, ReadWitnesses, WalkGroup, Busy, OnClosed, CancelWaiting, Close,
                  Reopen
    <3> QED
      BY <3>2 DEF TypeInv
  <2> QED
    BY <2>1, <2>2
<1> QED
  BY <1>1, <1>2, <1>3, <1>4

BaseInv == TypeInv /\ CallInv

LEMMA BaseStep ==
    ASSUME BaseInv, [Next]_vars
    PROVE  BaseInv'
<1>1. CallInv' /\ pc' \in [Calls -> Labels] /\ mutex' \in [Ledgers -> Calls \cup {Nobody}]
  BY PlaceStep DEF BaseInv, PlaceInv
<1>2. /\ db' \in Tables /\ work' \in Tables /\ writer' \in Ledgers \cup {Nobody}
      /\ got' \in [AttestCalls \cup VerifyCalls -> Readings]
  BY TablesKeep, GotStep DEF BaseInv
<1>3. /\ head' \in 0..MaxHead /\ stale' \in SUBSET Calls
      /\ open' \in [Ledgers -> BOOLEAN] /\ wasRetired' \in [AttestCalls -> BOOLEAN]
  BY OthersStep DEF BaseInv
<1> QED
  BY <1>1, <1>2, <1>3 DEF BaseInv, TypeInv

LEMMA InitialTablesType == InitialTables \in Tables
<1> DEFINE row(w) == NewWitness(Registered[w])
           rows == [w \in DOMAIN Registered |-> row(w)]
<1>1. DOMAIN Registered = 1..Len(Registered) /\ Len(Registered) \in Nat
  BY WitnessAssumption
<1>2. \A w \in 1..Len(Registered) : row(w) \in WitnessRow
  <2>1. \A w \in 1..Len(Registered) : Registered[w] \in Keys
    BY WitnessAssumption, ElementsOf
  <2> QED
    BY <2>1 DEF NewWitness, WitnessRow
<1> HIDE DEF row
<1>3. rows = [w \in 1..Len(Registered) |-> row(w)]
  BY <1>1
<1> HIDE DEF rows
<1>4. rows \in Seq(WitnessRow)
  BY <1>1, <1>2, <1>3
<1>5. << >> \in Seq(AttestationRow)
  OBVIOUS
<1>6. InitialTables = [witnesses |-> rows, attestations |-> << >>]
  BY DEF InitialTables, rows, row
<1> QED
  BY <1>4, <1>5, <1>6 DEF Tables

LEMMA BaseInit == Init => BaseInv
<1> SUFFICES ASSUME Init PROVE BaseInv
  OBVIOUS
<1>1. db \in Tables /\ work \in Tables /\ writer \in Ledgers \cup {Nobody}
  BY InitialTablesType, NoTablesType DEF Init
<1>2. Nothing \in Readings
  BY DEF Nothing, Readings, AttestationDigest
<1>3. got \in [AttestCalls \cup VerifyCalls -> Readings]
  BY <1>2 DEF Init
<1>4. pc \in [Calls -> Labels] /\ stale \in SUBSET Calls /\ mutex \in [Ledgers -> Calls \cup {Nobody}]
  BY DEF Init, Labels
<1>5. /\ open \in [Ledgers -> BOOLEAN] /\ wasRetired \in [AttestCalls -> BOOLEAN]
      /\ head \in 0..MaxHead
  BY WitnessAssumption DEF Init
<1>6. CallInv
  BY DEF Init, CallInv
<1> QED
  BY <1>1, <1>3, <1>4, <1>5, <1>6 DEF BaseInv, TypeInv

LEMMA BaseInvariant == Spec => []BaseInv
<1>1. BaseInv /\ [Next]_vars => BaseInv'
  BY BaseStep
<1> QED
  BY BaseInit, <1>1, PTL DEF Spec

LEMMA TypeEnough == TypeInv => TypeOK
<1> SUFFICES ASSUME TypeInv PROVE TypeOK
  OBVIOUS
<1>1. DOMAIN got = AttestCalls \cup VerifyCalls
  BY DEF TypeInv
<1>2. ASSUME NEW c \in DOMAIN got
      PROVE  /\ got[c].head \in Nat /\ got[c].at \in Nat /\ got[c].before \in Nat
             /\ got[c].prev \in AttestationDigest /\ got[c].last \in BOOLEAN
             /\ DOMAIN got[c].known \subseteq Nat /\ Range(got[c].known) \subseteq Keys
  <2>1. got[c] \in Readings
    BY <1>1, <1>2 DEF TypeInv
  <2>2. got[c].last \in BOOLEAN
    BY <2>1, Zenon DEF Readings
  <2>3. got[c].known \in Seq(Keys)
    BY <2>1 DEF Readings
  <2>4. /\ DOMAIN got[c].known \subseteq Nat
        /\ \A i \in DOMAIN got[c].known : got[c].known[i] \in Keys
    BY <2>3
  <2>5. /\ got[c].head \in Nat /\ got[c].at \in Nat /\ got[c].before \in Nat
        /\ got[c].prev \in AttestationDigest
    BY <2>1 DEF Readings
  <2>6. Range(got[c].known) \subseteq Keys
    BY <2>4 DEF Range
  <2> QED
    BY <2>2, <2>4, <2>5, <2>6
<1>3. pc \in [Calls -> {"idle", "waiting", "writing", "committing", "witness", "head",
                        "prev", "witnesses", "listed", "walking"} \cup Done]
  BY DEF TypeInv, Labels
<1>4. /\ db \in Tables /\ work \in Tables /\ writer \in Ledgers \cup {Nobody}
      /\ head \in 0..MaxHead /\ open \in [Ledgers -> BOOLEAN]
      /\ mutex \in [Ledgers -> Calls \cup {Nobody}]
      /\ stale \in SUBSET Calls /\ wasRetired \in [AttestCalls -> BOOLEAN]
  BY DEF TypeInv
<1> QED
  BY <1>2, <1>3, <1>4 DEF TypeOK

\* Every variable keeps its type.
THEOREM TypeCorrect == Spec => []TypeOK
<1>1. BaseInv => TypeOK
  BY TypeEnough DEF BaseInv
<1> QED
  BY BaseInvariant, <1>1, PTL

-----------------------------------------------------------------------------
(* What is registered and retired stays so. *)

\* An open transaction has lost nothing that is committed.
WorkKeeps == writer # Nobody => Keeps(db, work)

LEMMA ViewKeeps ==
    ASSUME BaseInv, WorkKeeps, NEW l \in Ledgers
    PROVE  Keeps(db, View(l)) /\ View(l) \in Tables
<1>1. db \in Tables /\ View(l) \in Tables
  BY ViewType DEF BaseInv, TypeInv
<1>2. CASE writer = l
  BY <1>1, <1>2, WitnessAssumption DEF WorkKeeps, View
<1>3. CASE writer # l
  BY <1>1, <1>3, KeepsItself DEF View
<1> QED
  BY <1>1, <1>2, <1>3

\* A statement writes what its connection sees, and more.
LEMMA Writes ==
    ASSUME BaseInv, WorkKeeps, NEW c \in Calls, NEW t \in Tables, Plain(c, t) \/ Inserts(c, t)
    PROVE  /\ writer \in {Nobody, Owner[c]} /\ writer' = Owner[c] /\ work' = t /\ db' = db
           /\ Keeps(View(Owner[c]), t) /\ Keeps(db, t)
<1>1. /\ writer \in {Nobody, Owner[c]} /\ writer' = Owner[c] /\ work' = t /\ db' = db
      /\ Keeps(View(Owner[c]), t)
  BY DEF Plain, Inserts, Write
<1>2. Keeps(db, View(Owner[c])) /\ View(Owner[c]) \in Tables /\ db \in Tables
  BY ViewKeeps, OwnerType DEF BaseInv, TypeInv
<1> QED
  BY <1>1, <1>2, KeepsOn

LEMMA KeepStep ==
    ASSUME BaseInv, WorkKeeps, [Next]_vars
    PROVE  WorkKeeps' /\ Keeps(db, db')
<1>0. db \in Tables /\ Keeps(db, db)
  BY KeepsItself DEF BaseInv, TypeInv
<1>1. CASE UNCHANGED tables
  BY <1>0, <1>1 DEF tables, WorkKeeps
<1>2. ASSUME NEW c \in Calls, NEW t \in Tables, Plain(c, t) \/ Inserts(c, t)
      PROVE  WorkKeeps' /\ Keeps(db, db')
  BY <1>0, <1>2, Writes DEF WorkKeeps
<1>3. ASSUME NEW c \in Calls, Commit(c)
      PROVE  WorkKeeps' /\ Keeps(db, db')
  <2>1. Keeps(db, View(Owner[c]))
    BY ViewKeeps, OwnerType
  <2>2. CASE writer = Owner[c]
    BY <1>3, <2>1, <2>2 DEF Commit, WorkKeeps
  <2>3. CASE writer # Owner[c]
    BY <1>0, <1>3, <2>3 DEF Commit, WorkKeeps, View
  <2> QED
    BY <2>2, <2>3
<1>4. ASSUME NEW l \in Ledgers, Close(l)
      PROVE  WorkKeeps' /\ Keeps(db, db')
  BY <1>0, <1>4 DEF Close, WorkKeeps
<1> QED
  BY <1>1, <1>2, <1>3, <1>4, TablesStep DEF BaseInv

\* A connection loses sight of something only when it is closed.
LEMMA ViewStep ==
    ASSUME BaseInv, WorkKeeps, [Next]_vars, NEW q \in Ledgers, ~ Close(q)
    PROVE  Keeps(View(q), View(q)')
<1>0. View(q) \in Tables /\ Keeps(View(q), View(q)) /\ q # Nobody
  BY ViewKeeps, KeepsItself, WitnessAssumption
<1>1. CASE UNCHANGED tables
  BY <1>0, <1>1 DEF tables, View
<1>2. ASSUME NEW c \in Calls, NEW t \in Tables, Plain(c, t) \/ Inserts(c, t)
      PROVE  Keeps(View(q), View(q)')
  <2>1. /\ writer \in {Nobody, Owner[c]} /\ writer' = Owner[c] /\ work' = t /\ db' = db
        /\ Keeps(View(Owner[c]), t)
    BY <1>2, Writes
  <2>2. CASE Owner[c] = q
    <3>1. View(q)' = t
      BY <2>1, <2>2 DEF View
    <3> QED
      BY <2>1, <2>2, <3>1
  <2>3. CASE Owner[c] # q
    <3>1. View(q)' = db /\ View(q) = db
      BY <1>0, <2>1, <2>3 DEF View
    <3> QED
      BY <1>0, <3>1
  <2> QED
    BY <2>2, <2>3
<1>3. ASSUME NEW c \in Calls, Commit(c)
      PROVE  Keeps(View(q), View(q)')
  <2>1. Keeps(db, db')
    BY KeepStep
  <2>2. CASE Owner[c] = q
    <3>1. View(q)' = View(q)
      BY <1>0, <1>3, <2>2 DEF Commit, View
    <3> QED
      BY <1>0, <3>1
  <2>3. CASE Owner[c] # q /\ writer = q
    <3>1. View(q)' = View(q)
      BY <1>3, <2>3 DEF Commit, View
    <3> QED
      BY <1>0, <3>1
  <2>4. CASE Owner[c] # q /\ writer # q
    <3>1. View(q)' = db' /\ View(q) = db
      BY <1>0, <1>3, <2>4 DEF Commit, View
    <3> QED
      BY <2>1, <3>1
  <2> QED
    BY <2>2, <2>3, <2>4
<1>4. ASSUME NEW l \in Ledgers, Close(l)
      PROVE  Keeps(View(q), View(q)')
  <2>1. l # q
    BY <1>4
  <2>2. View(q)' = View(q)
    BY <1>0, <1>4, <2>1 DEF Close, View
  <2> QED
    BY <1>0, <2>2
<1> QED
  BY <1>1, <1>2, <1>3, <1>4, TablesStep DEF BaseInv

KeepInv == BaseInv /\ WorkKeeps

LEMMA KeepInvariant == Spec => []KeepInv
<1>1. Init => KeepInv
  BY BaseInit DEF Init, KeepInv, WorkKeeps
<1>2. KeepInv /\ [Next]_vars => KeepInv'
  BY BaseStep, KeepStep DEF KeepInv
<1> QED
  BY <1>1, <1>2, PTL DEF Spec

\* A committed retirement is never cleared or overwritten, by whichever call
\* or Ledger (retire_witness).
THEOREM RetirementStays == Spec => RetirementIsKept
<1>1. ASSUME KeepInv, [Next]_vars, NEW w \in 1..Len(db.witnesses), IsRetired(db, w)
      PROVE  w <= Len(db'.witnesses) /\ db'.witnesses[w].retired_at = db.witnesses[w].retired_at
  <2>1. Keeps(db, db') /\ db \in Tables /\ db' \in Tables
    BY <1>1, KeepStep, BaseStep DEF KeepInv, BaseInv, TypeInv
  <2>2. Len(db.witnesses) \in Nat /\ Len(db'.witnesses) \in Nat
    BY <2>1, RowTypes
  <2> QED
    BY <1>1, <2>1, <2>2 DEF Keeps
<1>2. KeepInv /\ [Next]_vars =>
        [\A w \in 1..Len(db.witnesses) : IsRetired(db, w) =>
            /\ w <= Len(db'.witnesses)
            /\ db'.witnesses[w].retired_at = db.witnesses[w].retired_at]_vars
  BY <1>1
<1> QED
  BY KeepInvariant, <1>2, PTL DEF Spec, RetirementIsKept

-----------------------------------------------------------------------------
(* One call moves at a time. *)

CallStep(c) ==
    \/ Start(c) \/ Acquire(c) \/ Register(c) \/ Retire(c) \/ ReadWitness(c) \/ ReadHead(c)
    \/ ReadPrev(c) \/ Attest(c) \/ Commit(c) \/ ReadWitnesses(c) \/ WalkGroup(c) \/ Busy(c)
    \/ OnClosed(c) \/ CancelWaiting(c)

LEMMA Movers ==
    ASSUME [Next]_vars
    PROVE  \/ \E c \in Calls : CallStep(c)
           \/ Log /\ UNCHANGED <<pc, got, wasRetired, stale>>
           \/ (\E l \in Ledgers : Close(l)) /\ UNCHANGED <<pc, got, wasRetired>>
           \/ (\E l \in Ledgers : Reopen(l)) /\ UNCHANGED <<pc, got, wasRetired, stale>>
           \/ UNCHANGED vars
  BY DEF Next, CallStep, Log, Close, Reopen

\* The other calls are where they were.
LEMMA OthersStay ==
    ASSUME BaseInv, NEW d \in Calls, CallStep(d), NEW c \in Calls \ {d}
    PROVE  /\ pc'[c] = pc[c] /\ (c \in AttestCalls \cup VerifyCalls => got'[c] = got[c])
           /\ (c \in AttestCalls => wasRetired'[c] = wasRetired[c])
           /\ c \in stale' <=> c \in stale
<1>1. pc'[c] = pc[c]
  <2>1. \E label : pc' = [pc EXCEPT ![d] = label]
    BY DEF CallStep, Start, Acquire, Register, Retire, ReadWitness, ReadHead, ReadPrev, Attest,
           Commit, ReadWitnesses, WalkGroup, Busy, OnClosed, CancelWaiting, Goto, Leave,
           GotoOrRaise
  <2> QED
    BY <2>1 DEF BaseInv, TypeInv
<1>2. ASSUME c \in AttestCalls \cup VerifyCalls PROVE got'[c] = got[c]
  <2>1. CASE got' = got
    BY <2>1
  <2>2. CASE got' # got
    <3>1. \/ ReadHead(d) \/ ReadPrev(d) \/ ReadWitnesses(d) \/ WalkGroup(d)
          \/ Start(d) /\ d \in VerifyCalls
      BY <2>2 DEF CallStep, Start, Acquire, Register, Retire, ReadWitness, Attest, Commit, Busy,
                  OnClosed, CancelWaiting
    <3>2. d \in AttestCalls \cup VerifyCalls /\ \E g \in Readings : got' = [got EXCEPT ![d] = g]
      <4>1. CASE ReadHead(d)
        BY <4>1, ReadsHead DEF BaseInv
      <4>2. CASE ReadPrev(d)
        BY <4>2, ReadsPrev DEF BaseInv
      <4>3. CASE ReadWitnesses(d)
        BY <4>3, ReadsWitnesses DEF BaseInv
      <4>4. CASE WalkGroup(d)
        BY <2>2, <4>4, Walks DEF BaseInv
      <4>5. CASE Start(d) /\ d \in VerifyCalls
        BY <4>5, Starts DEF BaseInv
      <4> QED
        BY <3>1, <4>1, <4>2, <4>3, <4>4, <4>5
    <3> QED
      BY <1>2, <3>2, Reads DEF BaseInv
  <2> QED
    BY <2>1, <2>2
<1>3. ASSUME c \in AttestCalls PROVE wasRetired'[c] = wasRetired[c]
  <2>1. \/ wasRetired' = wasRetired
        \/ wasRetired' = [wasRetired EXCEPT ![d] = IsRetired(db, WitnessOf[d])]
    BY DEF CallStep, Start, Acquire, Register, Retire, ReadWitness, ReadHead, ReadPrev, Attest,
           Commit, ReadWitnesses, WalkGroup, Busy, OnClosed, CancelWaiting
  <2> QED
    BY <1>3, <2>1 DEF BaseInv, TypeInv
<1>4. stale' = stale \/ stale' = stale \ {d}
  BY DEF CallStep, Start, Acquire, Register, Retire, ReadWitness, ReadHead, ReadPrev, Attest,
         Commit, ReadWitnesses, WalkGroup, Busy, OnClosed, CancelWaiting
<1> QED
  BY <1>1, <1>2, <1>3, <1>4

\* A call whose connection was closed never gets it back.
LEMMA StaleStays ==
    ASSUME BaseInv, [Next]_vars, NEW c \in Calls, c \in stale, c \notin stale'
    PROVE  pc'[c] = "raised"
<1>1. CallStep(c)
  <2>1. ~ (UNCHANGED vars) /\ ~ \E l \in Ledgers : Close(l)
    BY DEF vars, Close
  <2> QED
    BY <2>1, Movers, OthersStay
<1>2. OnClosed(c) \/ CancelWaiting(c)
  BY <1>1 DEF CallStep, Start, Acquire, Register, Retire, ReadWitness, ReadHead, ReadPrev,
              Attest, Commit, ReadWitnesses, WalkGroup, Busy
<1> QED
  BY <1>2 DEF OnClosed, CancelWaiting, Leave, Goto, BaseInv, TypeInv

\* Where a call was when it came to where it is.
LEMMA CameFrom ==
    ASSUME BaseInv, NEW c \in Calls, CallStep(c)
    PROVE  /\ pc'[c] = "idle" => FALSE
           /\ pc'[c] = "waiting" => Start(c)
           /\ pc'[c] = "witness" => Acquire(c)
           /\ pc'[c] = "head" => ReadWitness(c)
           /\ pc'[c] = "prev" => ReadHead(c)
           /\ pc'[c] = "writing" => Acquire(c) \/ ReadPrev(c)
           /\ pc'[c] = "committing" => Register(c) \/ Retire(c) \/ Attest(c)
           /\ pc'[c] = "witnesses" => Start(c)
           /\ pc'[c] = "listed" => ReadWitnesses(c)
           /\ pc'[c] \in {"walking", "unknown", "mismatch", "unsigned"} => WalkGroup(c)
           /\ pc'[c] = "none" => ReadHead(c)
           /\ pc'[c] = "done" => Commit(c) \/ WalkGroup(c)
<1>1. \A label : pc' = [pc EXCEPT ![c] = label] => pc'[c] = label
  BY DEF BaseInv, TypeInv
<1>2. \A label : Goto(c, label) \/ Leave(c, label) => pc'[c] = label
  BY <1>1 DEF Goto, Leave
<1>3. \A label : GotoOrRaise(c, label) => pc'[c] \in {label, "raised"}
  BY <1>2 DEF GotoOrRaise
<1>4. Start(c) => pc'[c] \in {"waiting", "witnesses"}
  BY <1>2 DEF Start
<1>5. Acquire(c) => pc'[c] \in {"witness", "writing"}
  BY <1>1 DEF Acquire
<1>6. Register(c) \/ Retire(c) \/ Attest(c) => pc'[c] \in {"committing", "raised"}
  BY <1>2, <1>3 DEF Register, Retire, Attest
<1>7. ReadWitness(c) => pc'[c] \in {"head", "raised"}
  BY <1>2, <1>3 DEF ReadWitness
<1>8. ReadHead(c) => pc'[c] \in {"none", "prev", "raised"}
  BY <1>2, <1>3 DEF ReadHead
<1>9. ReadPrev(c) => pc'[c] \in {"writing", "raised"}
  BY <1>3 DEF ReadPrev
<1>10. ReadWitnesses(c) => pc'[c] \in {"listed", "raised"}
  BY <1>3 DEF ReadWitnesses
<1>11. WalkGroup(c) => pc'[c] \in {"done", "unknown", "mismatch", "unsigned", "walking", "raised"}
  BY <1>2, <1>3 DEF WalkGroup
<1>12. Commit(c) \/ Busy(c) \/ OnClosed(c) \/ CancelWaiting(c)
       => \/ pc'[c] = "raised"
          \/ Commit(c) /\ pc'[c] = "done"
  <2>1. Commit(c) => Leave(c, "raised") \/ Leave(c, "done")
    BY DEF Commit
  <2>2. Busy(c) \/ OnClosed(c) => Leave(c, "raised")
    BY DEF Busy, OnClosed
  <2>3. CancelWaiting(c) => Goto(c, "raised")
    BY DEF CancelWaiting
  <2> QED
    BY <1>2, <2>1, <2>2, <2>3
<1>13. CASE Start(c) \/ Acquire(c)
  BY <1>4, <1>5, <1>13
<1>14. CASE Register(c) \/ Retire(c) \/ Attest(c)
  BY <1>6, <1>14
<1>15. CASE ReadWitness(c) \/ ReadHead(c) \/ ReadPrev(c)
  BY <1>7, <1>8, <1>9, <1>15
<1>16. CASE ReadWitnesses(c) \/ WalkGroup(c)
  BY <1>10, <1>11, <1>16
<1>17. CASE Commit(c) \/ Busy(c) \/ OnClosed(c) \/ CancelWaiting(c)
  BY <1>12, <1>17
<1> QED
  BY <1>13, <1>14, <1>15, <1>16, <1>17 DEF CallStep

-----------------------------------------------------------------------------
(* A retired witness attests nothing. *)

\* An attest call that started after the retirement never gets past its check.
RetiredInv ==
    \A c \in AttestCalls : wasRetired[c] =>
        IsRetired(db, WitnessOf[c]) /\ pc[c] \in {"waiting", "witness", "raised"}

LEMMA RetiredStep ==
    ASSUME KeepInv, RetiredInv, [Next]_vars
    PROVE  RetiredInv'
<1> SUFFICES ASSUME NEW c \in AttestCalls, wasRetired'[c]
             PROVE  /\ IsRetired(db, WitnessOf[c])'
                    /\ pc'[c] \in {"waiting", "witness", "raised"}
  BY DEF RetiredInv
<1>0. c \in Calls /\ c \notin VerifyCalls /\ c \notin RegisterCalls \cup RetireCalls
  BY WitnessAssumption DEF Calls
<1>1. Keeps(db, db') /\ db \in Tables /\ db' \in Tables
  BY KeepStep, BaseStep DEF KeepInv, BaseInv, TypeInv
<1>2. ASSUME IsRetired(db, WitnessOf[c]) PROVE IsRetired(db, WitnessOf[c])'
  <2>1. IsRetired(db', WitnessOf[c])
    BY <1>1, <1>2, KeepsRetired
  <2> QED
    BY <2>1 DEF IsRetired
<1>3. CASE wasRetired'[c] = wasRetired[c] /\ pc'[c] = pc[c]
  BY <1>2, <1>3 DEF RetiredInv
<1>4. CASE CallStep(c)
  <2>1. CASE Start(c)
    <3>1. wasRetired'[c] <=> IsRetired(db, WitnessOf[c])
      BY <2>1 DEF Start, KeepInv, BaseInv, TypeInv
    <3>2. pc'[c] = "waiting"
      BY <1>0, <2>1 DEF Start, Goto, KeepInv, BaseInv, TypeInv
    <3> QED
      BY <1>2, <3>1, <3>2
  <2>2. CASE ~ Start(c)
    <3>1. wasRetired' = wasRetired
      BY <1>4, <2>2 DEF CallStep, Acquire, Register, Retire, ReadWitness, ReadHead, ReadPrev,
             Attest, Commit, ReadWitnesses, WalkGroup, Busy, OnClosed, CancelWaiting
    <3>2. IsRetired(db, WitnessOf[c]) /\ pc[c] \in {"waiting", "witness", "raised"}
      BY <3>1 DEF RetiredInv
    <3>3. IsRetired(View(Owner[c]), WitnessOf[c])
      BY <1>0, <1>1, <3>2, ViewKeeps, KeepsRetired, OwnerType DEF KeepInv
    <3>4. Acquire(c) \/ ReadWitness(c) \/ OnClosed(c) \/ CancelWaiting(c)
      BY <1>4, <2>2, <3>2 DEF CallStep, Register, Retire, ReadHead, ReadPrev,
             Attest, Commit, ReadWitnesses, WalkGroup, Busy
    <3>5. CASE Acquire(c)
      BY <1>2, <3>2, <3>5 DEF Acquire, KeepInv, BaseInv, TypeInv
    <3>6. CASE ReadWitness(c) \/ OnClosed(c) \/ CancelWaiting(c)
      <4>1. Leave(c, "raised") \/ Goto(c, "raised")
        BY <3>3, <3>6 DEF ReadWitness, OnClosed, CancelWaiting
      <4>2. pc'[c] = "raised"
        BY <1>0, <4>1 DEF Leave, Goto, KeepInv, BaseInv, TypeInv
      <4> QED
        BY <1>2, <3>2, <4>2
    <3> QED
      BY <3>4, <3>5, <3>6
  <2> QED
    BY <2>1, <2>2
<1>5. CASE ~ CallStep(c)
  <2>1. wasRetired'[c] = wasRetired[c] /\ pc'[c] = pc[c]
    BY <1>0, <1>5, Movers, OthersStay DEF KeepInv, vars
  <2> QED
    BY <1>3, <2>1
<1> QED
  BY <1>4, <1>5

\* An attest call that starts once a retirement is committed attests nothing
\* (attest_with_witness), on whichever Ledger the witness was retired.
THEOREM RetiredWitnessesAttestNothing == Spec => []RetiredNeverAttests
<1>1. Init => KeepInv /\ RetiredInv
  BY BaseInit DEF Init, KeepInv, WorkKeeps, RetiredInv
<1>2. KeepInv /\ RetiredInv /\ [Next]_vars => KeepInv' /\ RetiredInv'
  BY BaseStep, KeepStep, RetiredStep DEF KeepInv
<1>3. RetiredInv => RetiredNeverAttests
  BY DEF RetiredInv, RetiredNeverAttests
<1> QED
  BY <1>1, <1>2, <1>3, PTL DEF Spec

-----------------------------------------------------------------------------
(* What a verify call knows of the witnesses. *)

\* It knows the witnesses that were committed when it started.
KnownInv ==
    \A v \in VerifyCalls :
        /\ got[v].before \in 0..Len(db.witnesses)
        /\ pc[v] \in {"listed", "walking"} => 1..got[v].before \subseteq DOMAIN got[v].known
        /\ pc[v] = "unknown" => got[v].at > got[v].before

LEMMA KnownStep ==
    ASSUME KeepInv, KnownInv, [Next]_vars
    PROVE  KnownInv'
<1> SUFFICES ASSUME NEW v \in VerifyCalls
             PROVE  /\ got'[v].before \in 0..Len(db'.witnesses)
                    /\ pc'[v] \in {"listed", "walking"}
                       => 1..got'[v].before \subseteq DOMAIN got'[v].known
                    /\ pc'[v] = "unknown" => got'[v].at > got'[v].before
  BY DEF KnownInv
<1>0. v \in Calls /\ v \notin AttestCalls
  BY WitnessAssumption DEF Calls
<1>1. /\ Len(db.witnesses) <= Len(db'.witnesses)
      /\ Len(db.witnesses) \in Nat /\ Len(db'.witnesses) \in Nat
  BY KeepStep, BaseStep, RowTypes DEF KeepInv, BaseInv, TypeInv, Keeps
<1>2. got[v] \in Readings /\ got'[v] \in Readings
  BY BaseStep DEF KeepInv, BaseInv, TypeInv
<1>3. CASE got'[v] = got[v] /\ pc'[v] = pc[v]
  BY <1>1, <1>3 DEF KnownInv
<1>4. CASE CallStep(v)
  <2>1. CASE Start(v)
    <3>1. pc'[v] = "witnesses"
      BY <1>0, <2>1 DEF Start, Goto, KeepInv, BaseInv, TypeInv
    <3> DEFINE n == Len(db.witnesses)
               g == [got[v] EXCEPT !.before = n]
    <3>2. got'[v] = g
      BY <1>0, <2>1, Starts, Reads DEF KeepInv, BaseInv
    <3> HIDE DEF n
    <3>3. got'[v].before = n
      BY <1>2, <3>2 DEF Readings
    <3> QED
      BY <1>1, <3>1, <3>3 DEF n
  <2>2. CASE ReadWitnesses(v)
    <3>1. pc'[v] \in {"listed", "raised"}
      BY <1>0, <2>2 DEF ReadWitnesses, GotoOrRaise, Goto, Leave, KeepInv, BaseInv, TypeInv
    <3> DEFINE t == View(Owner[v])
               k == KeysOf(t)
               g == [got[v] EXCEPT !.known = k]
    <3>2. got'[v] = g
      BY <1>0, <2>2, ReadsWitnesses, Reads DEF KeepInv, BaseInv
    <3>3. t \in Tables /\ Keeps(db, t)
      BY <1>0, ViewKeeps, OwnerType DEF KeepInv
    <3>4. Len(t.witnesses) \in Nat /\ DOMAIN k = 1..Len(t.witnesses)
          /\ Len(db.witnesses) <= Len(t.witnesses)
      BY <3>3, RowTypes, KeysType DEF Keeps
    <3> HIDE DEF k, t
    <3>5. got'[v].before = got[v].before /\ got'[v].known = k
      BY <1>2, <3>2 DEF Readings
    <3>6. got[v].before \in 0..Len(db.witnesses)
      BY DEF KnownInv
    <3>7. 1..got[v].before \subseteq DOMAIN k
      BY <1>1, <3>4, <3>6
    <3> QED
      BY <1>1, <3>1, <3>5, <3>6, <3>7
  <2>3. CASE WalkGroup(v)
    <3> DEFINE ahead == Ahead(View(Owner[v]), got[v].at)
               w == Min(ahead)
    <3>1. pc[v] \in {"listed", "walking"} /\ \A label : Leave(v, label) => pc'[v] = label
      BY <1>0, <2>3 DEF WalkGroup, Leave, KeepInv, BaseInv, TypeInv
    <3>2. /\ got[v].before \in 0..Len(db.witnesses)
          /\ 1..got[v].before \subseteq DOMAIN got[v].known
      BY <3>1 DEF KnownInv
    <3>3. CASE got' = got /\ Leave(v, "done")
      BY <1>1, <3>1, <3>2, <3>3
    <3>4. ASSUME NEW g \in Readings,
                 w \in ahead /\ ahead \subseteq Nat, got' = [got EXCEPT ![v] = g],
                 g.at = w, g.before = got[v].before, g.known = got[v].known,
                 \/ Leave(v, "unknown") /\ w \notin DOMAIN got[v].known
                 \/ Leave(v, "mismatch") \/ Leave(v, "unsigned")
                 \/ GotoOrRaise(v, "walking")
          PROVE  /\ got'[v].before \in 0..Len(db'.witnesses)
                 /\ pc'[v] \in {"listed", "walking"}
                    => 1..got'[v].before \subseteq DOMAIN got'[v].known
                 /\ pc'[v] = "unknown" => got'[v].at > got'[v].before
      <4>1. got'[v] = g
        BY <3>4, Reads DEF KeepInv, BaseInv
      <4>2. w \in Nat /\ w > got[v].at /\ got[v].at \in Nat
        BY <1>2, <3>4 DEF Ahead, Readings
      <4>3. pc'[v] = "unknown" => w \notin DOMAIN got[v].known
        BY <1>0, <3>4 DEF GotoOrRaise, Goto, Leave, KeepInv, BaseInv, TypeInv
      <4> HIDE DEF w, ahead
      <4>4. pc'[v] = "unknown" => w > got[v].before
        BY <1>1, <3>2, <4>2, <4>3
      <4> QED
        BY <1>1, <3>2, <3>4, <4>1, <4>4
    <3> QED
      BY <1>0, <2>3, <3>3, <3>4, Walks DEF KeepInv, BaseInv
  <2>4. CASE ~ Start(v) /\ ~ ReadWitnesses(v) /\ ~ WalkGroup(v)
    <3>1. pc'[v] \notin {"listed", "walking", "unknown"}
      BY <1>0, <1>4, <2>4, CameFrom DEF KeepInv
    <3>2. ~ ReadHead(v) /\ ~ ReadPrev(v)
      BY <1>0, ReadsHead, ReadsPrev DEF KeepInv, BaseInv
    <3>3. got' = got
      BY <1>4, <2>4, <3>2 DEF CallStep, Acquire, Register, Retire, ReadWitness, Attest,
           Commit, Busy, OnClosed, CancelWaiting
    <3> QED
      BY <1>1, <3>1, <3>3 DEF KnownInv
  <2> QED
    BY <1>4, <2>1, <2>2, <2>3, <2>4
<1>5. CASE ~ CallStep(v)
  <2>1. got'[v] = got[v] /\ pc'[v] = pc[v]
    BY <1>0, <1>5, Movers, OthersStay DEF KeepInv, vars
  <2> QED
    BY <1>3, <2>1
<1> QED
  BY <1>4, <1>5

KnownInvariant == KeepInv /\ KnownInv

LEMMA KnownHolds == Spec => []KnownInvariant
<1>1. Init => KnownInvariant
  <2> SUFFICES ASSUME Init PROVE KeepInv /\ KnownInv
    BY DEF KnownInvariant
  <2>1. KeepInv
    BY BaseInit DEF Init, KeepInv, WorkKeeps
  <2>2. Len(db.witnesses) \in Nat
    BY <2>1, RowTypes DEF KeepInv, BaseInv, TypeInv
  <2>3. \A v \in VerifyCalls : got[v].before = 0 /\ pc[v] = "idle"
    BY DEF Init, Nothing, Calls
  <2> QED
    BY <2>1, <2>2, <2>3 DEF KnownInv
<1>2. KnownInvariant /\ [Next]_vars => KnownInvariant'
  BY BaseStep, KeepStep, KnownStep DEF KeepInv, KnownInvariant
<1> QED
  BY <1>1, <1>2, PTL DEF Spec

\* verify_witness_attestations says that a witness does not exist only of one
\* that registered after it started: its two statements see the registry at
\* different moments, but never one that has lost a witness.
THEOREM UnknownWitnessesAreNew == Spec => []UnknownIsNew
<1>1. KnownInvariant => UnknownIsNew
  BY DEF KnownInvariant, KnownInv, UnknownIsNew
<1> QED
  BY KnownHolds, <1>1, PTL

-----------------------------------------------------------------------------
(* The rows of witness_attestations. *)

\* An attestation is made in its witness's name, commits to the one before it, and
\* to a head no newer than h and no older than any its witness attested before.
RowOK(t, h, i) ==
    LET a == t.attestations[i] IN
    /\ a.witness \in 1..Len(t.witnesses) /\ KeyOf[a.call] = t.witnesses[a.witness].key
    /\ a.prev = HashBefore(t, a.witness, i)
    /\ a.hash = AttestationHash(a.witness, a.head, a.call, a.prev)
    /\ a.head <= h
    /\ \A j \in Subchain(t, a.witness) : j <= i => t.attestations[j].head <= a.head

RowsOK(t, h) == \A i \in 1..Len(t.attestations) : RowOK(t, h, i)

LEMMA RowsHigher ==
    ASSUME NEW t \in Tables, NEW h \in Nat, NEW k \in Nat, h <= k, RowsOK(t, h)
    PROVE  RowsOK(t, k)
<1> SUFFICES ASSUME NEW i \in 1..Len(t.attestations) PROVE RowOK(t, k, i)
  BY DEF RowsOK
<1>1. RowOK(t, h, i) /\ t.attestations[i].head \in Nat
  BY RowTypes DEF RowsOK, AttestationRow
<1> QED
  BY <1>1 DEF RowOK

\* The attestations of w are the same in both.
SameRows(t, u, w) ==
    /\ Subchain(u, w) = Subchain(t, w)
    /\ \A i \in Subchain(t, w) : u.attestations[i] = t.attestations[i]

LEMMA SameLastHash ==
    ASSUME NEW t \in Tables, NEW u \in Tables, NEW w, SameRows(t, u, w)
    PROVE  LastHash(u, w) = LastHash(t, w)
<1> DEFINE older(x) == {i \in Subchain(x, w) : i < Len(x.attestations) + 1}
<1>1. ASSUME NEW x \in Tables PROVE older(x) = Subchain(x, w) /\ Subchain(x, w) \subseteq 1..Len(x.attestations)
  <2>1. Len(x.attestations) \in Nat
    BY RowTypes
  <2> QED
    BY <2>1 DEF Subchain
<1>2. older(u) = older(t) /\ older(t) = Subchain(t, w)
  BY <1>1 DEF SameRows
<1>3. CASE older(t) = {}
  BY <1>2, <1>3 DEF LastHash, HashBefore
<1>4. CASE older(t) # {}
  <2>1. Max(older(t)) \in older(t)
    BY <1>1, <1>2, <1>4, MaxRow, RowTypes
  <2>2. u.attestations[Max(older(t))] = t.attestations[Max(older(t))]
    BY <1>2, <2>1 DEF SameRows
  <2> QED
    BY <1>2, <1>4, <2>2 DEF LastHash, HashBefore
<1> QED
  BY <1>3, <1>4

LEMMA SameIfUnchanged ==
    ASSUME NEW t, NEW u, NEW w, u.attestations = t.attestations
    PROVE  SameRows(t, u, w)
  BY DEF SameRows, Subchain

LEMMA SameOn ==
    ASSUME NEW t, NEW u, NEW x, NEW w, SameRows(t, u, w), SameRows(u, x, w)
    PROVE  SameRows(t, x, w)
  BY DEF SameRows

\* A row of another witness leaves them the same.
LEMMA SameIfAppended ==
    ASSUME NEW t \in Tables, NEW u, NEW w, NEW a \in AttestationRow, a.witness # w,
           u.attestations = Append(t.attestations, a)
    PROVE  SameRows(t, u, w)
<1> DEFINE n == Len(t.attestations)
<1>1. n \in Nat /\ t.attestations \in Seq(AttestationRow)
  BY RowTypes
<1>2. /\ Len(u.attestations) = n + 1 /\ u.attestations[n + 1] = a
      /\ \A i \in 1..n : u.attestations[i] = t.attestations[i]
  BY <1>1, Appends
<1>3. Subchain(u, w) = {i \in 1..n + 1 : u.attestations[i].witness = w}
  BY <1>2 DEF Subchain
<1>4. \A i \in 1..n + 1 : i \in 1..n \/ i = n + 1
  BY <1>1
<1>5. \A i \in 1..n : i \in 1..n + 1
  BY <1>1
<1>6. Subchain(t, w) = {i \in 1..n : t.attestations[i].witness = w}
  BY DEF Subchain
<1> HIDE DEF n
<1> QED
  BY <1>2, <1>3, <1>4, <1>5, <1>6 DEF SameRows

\* Rows that are inserted later change nothing for the earlier ones.
LEMMA HashBeforeSame ==
    ASSUME NEW t \in Tables, NEW u \in Tables, NEW n \in 1..Len(t.attestations) + 1, NEW w,
           Len(t.attestations) <= Len(u.attestations),
           \A i \in 1..Len(t.attestations) : u.attestations[i] = t.attestations[i]
    PROVE  HashBefore(u, w, n) = HashBefore(t, w, n)
<1> DEFINE older(x) == {i \in Subchain(x, w) : i < n}
<1>1. Len(t.attestations) \in Nat /\ Len(u.attestations) \in Nat
  BY RowTypes
<1>2. older(u) = older(t) /\ older(t) \subseteq 1..Len(t.attestations)
  BY <1>1 DEF Subchain
<1>3. CASE older(t) = {}
  BY <1>2, <1>3 DEF HashBefore
<1>4. CASE older(t) # {}
  <2>1. Max(older(t)) \in older(t)
    BY <1>1, <1>2, <1>4, MaxRow
  <2>2. u.attestations[Max(older(t))] = t.attestations[Max(older(t))]
    BY <1>2, <2>1
  <2> QED
    BY <1>2, <1>4, <2>2 DEF HashBefore
<1> QED
  BY <1>3, <1>4

LEMMA RowsPlain ==
    ASSUME NEW t \in Tables, NEW u \in Tables, NEW h, RowsOK(t, h), Keeps(t, u),
           u.attestations = t.attestations
    PROVE  RowsOK(u, h)
<1> SUFFICES ASSUME NEW i \in 1..Len(t.attestations) PROVE RowOK(u, h, i)
  BY DEF RowsOK
<1> DEFINE a == t.attestations[i]
<1>1. RowOK(t, h, i)
  BY DEF RowsOK
<1>2. /\ Len(t.attestations) \in Nat /\ Len(t.witnesses) \in Nat /\ Len(u.witnesses) \in Nat
      /\ Len(t.witnesses) <= Len(u.witnesses)
  BY RowTypes DEF Keeps
<1>3. a.witness \in 1..Len(u.witnesses) /\ u.witnesses[a.witness].key = t.witnesses[a.witness].key
  BY <1>1, <1>2 DEF RowOK, Keeps
<1>4. HashBefore(u, a.witness, i) = HashBefore(t, a.witness, i)
  BY <1>2, HashBeforeSame
<1>5. Subchain(u, a.witness) = Subchain(t, a.witness)
  BY DEF Subchain
<1> QED
  BY <1>1, <1>3, <1>4, <1>5 DEF RowOK

LEMMA RowsAppended ==
    ASSUME NEW t \in Tables, NEW u \in Tables, NEW h \in Nat, RowsOK(t, h),
           NEW a \in AttestationRow,
           u.witnesses = t.witnesses, u.attestations = Append(t.attestations, a),
           a.witness \in 1..Len(t.witnesses), KeyOf[a.call] = t.witnesses[a.witness].key,
           a.prev = LastHash(t, a.witness),
           a.hash = AttestationHash(a.witness, a.head, a.call, a.prev),
           a.head <= h,
           \A j \in Subchain(t, a.witness) : t.attestations[j].head <= a.head
    PROVE  RowsOK(u, h)
<1> DEFINE n == Len(t.attestations)
<1>1. n \in Nat /\ t.attestations \in Seq(AttestationRow)
  BY RowTypes
<1>2. /\ Len(u.attestations) = n + 1 /\ u.attestations[n + 1] = a
      /\ \A i \in 1..n : u.attestations[i] = t.attestations[i]
  BY <1>1, Appends
<1>3. ASSUME NEW i \in 1..n + 1, NEW w PROVE HashBefore(u, w, i) = HashBefore(t, w, i)
  <2>1. Len(t.attestations) <= Len(u.attestations)
    BY <1>1, <1>2
  <2> QED
    BY <1>2, <2>1, HashBeforeSame
<1>4. ASSUME NEW i \in 1..n PROVE RowOK(u, h, i)
  <2>1. RowOK(t, h, i) /\ u.attestations[i] = t.attestations[i]
    BY <1>2 DEF RowsOK
  <2>2. \A w : \A j \in Subchain(u, w) :
           j <= i => j \in Subchain(t, w) /\ u.attestations[j] = t.attestations[j]
    BY <1>1, <1>2 DEF Subchain
  <2>3. i \in 1..n + 1
    BY <1>1
  <2>4. HashBefore(u, t.attestations[i].witness, i) = HashBefore(t, t.attestations[i].witness, i)
    BY <1>3, <2>3
  <2> HIDE DEF n
  <2> QED
    BY <2>1, <2>2, <2>4 DEF RowOK
<1>5. RowOK(u, h, n + 1)
  <2>1. HashBefore(u, a.witness, n + 1) = LastHash(t, a.witness)
    BY <1>1, <1>3 DEF LastHash
  <2>2. a.head \in Nat
    BY DEF AttestationRow
  <2>3. \A j \in Subchain(u, a.witness) : u.attestations[j].head <= a.head
    <3>1. ASSUME NEW j \in Subchain(u, a.witness) PROVE u.attestations[j].head <= a.head
      <4>0. j \in 1..n + 1 /\ u.attestations[j].witness = a.witness
        BY <1>2 DEF Subchain
      <4>1. CASE j = n + 1
        BY <1>2, <2>2, <4>1
      <4>2. CASE j # n + 1
        <5>1. j \in 1..n
          BY <1>1, <4>0, <4>2
        <5>2. j \in Subchain(t, a.witness)
          BY <1>2, <4>0, <5>1 DEF Subchain
        <5> QED
          BY <1>2, <5>1, <5>2
      <4> QED
        BY <4>1, <4>2
    <3> QED
      BY <3>1
  <2> HIDE DEF n
  <2> QED
    BY <1>2, <2>1, <2>3 DEF RowOK
<1> QED
  <2>1. ASSUME NEW i \in 1..n + 1 PROVE RowOK(u, h, i)
    <3>1. i \in 1..n \/ i = n + 1
      BY <1>1
    <3> QED
      BY <1>4, <1>5, <3>1
  <2> QED
    BY <1>2, <2>1 DEF RowsOK

-----------------------------------------------------------------------------
(* What holds of an attestation whichever Ledgers attest for its witness.   *)

\* It is its call's, made in the name of the witness, and of the call's key.
GenuineRow(t, i) ==
    LET a == t.attestations[i] IN
    /\ a.witness \in 1..Len(t.witnesses) /\ KeyOf[a.call] = t.witnesses[a.witness].key
    /\ a.witness = WitnessOf[a.call] /\ a.key = SignsWith[a.call]
    /\ a.hash = AttestationHash(a.witness, a.head, a.call, a.prev)

Genuine(t) == \A i \in 1..Len(t.attestations) : GenuineRow(t, i)

\* The witness an attest call has looked up is still there, with the key it
\* compared, unless the connection was closed: a registration that was rolled
\* back may give its witness_id to another key.
KeyChecked(c) ==
    LET t == View(Owner[c])
        w == WitnessOf[c]
    IN  pc[c] \in {"head", "prev", "writing"} =>
            w \in 1..Len(t.witnesses) /\ t.witnesses[w].key = KeyOf[c]

GenuineInv ==
    /\ Genuine(db) /\ Genuine(work)
    /\ \A c \in AttestCalls \ stale : KeyChecked(c)

LEMMA ViewGenuine ==
    ASSUME GenuineInv, NEW q PROVE Genuine(View(q))
  BY DEF GenuineInv, View

LEMMA GenuinePlain ==
    ASSUME NEW t \in Tables, NEW u \in Tables, Genuine(t), Keeps(t, u),
           u.attestations = t.attestations
    PROVE  Genuine(u)
<1> SUFFICES ASSUME NEW i \in 1..Len(t.attestations) PROVE GenuineRow(u, i)
  BY DEF Genuine
<1>1. GenuineRow(t, i)
  BY DEF Genuine
<1>2. Len(t.witnesses) \in Nat /\ Len(u.witnesses) \in Nat /\ Len(t.witnesses) <= Len(u.witnesses)
  BY RowTypes DEF Keeps
<1> QED
  BY <1>1, <1>2 DEF GenuineRow, Keeps

LEMMA GenuineAppended ==
    ASSUME NEW t \in Tables, NEW u \in Tables, Genuine(t), NEW a \in AttestationRow,
           u.witnesses = t.witnesses, u.attestations = Append(t.attestations, a),
           a.witness \in 1..Len(t.witnesses), KeyOf[a.call] = t.witnesses[a.witness].key,
           a.witness = WitnessOf[a.call], a.key = SignsWith[a.call],
           a.hash = AttestationHash(a.witness, a.head, a.call, a.prev)
    PROVE  Genuine(u)
<1> DEFINE n == Len(t.attestations)
<1>1. n \in Nat /\ t.attestations \in Seq(AttestationRow)
  BY RowTypes
<1>2. /\ Len(u.attestations) = n + 1 /\ u.attestations[n + 1] = a
      /\ \A i \in 1..n : u.attestations[i] = t.attestations[i]
  BY <1>1, Appends
<1>3. ASSUME NEW i \in 1..n PROVE GenuineRow(u, i)
  BY <1>2, <1>3 DEF Genuine, GenuineRow
<1>4. GenuineRow(u, n + 1)
  BY <1>2 DEF GenuineRow
<1>5. \A i \in 1..n + 1 : i \in 1..n \/ i = n + 1
  BY <1>1
<1> HIDE DEF n
<1> QED
  BY <1>2, <1>3, <1>4, <1>5 DEF Genuine

LEMMA GenuineStep ==
    ASSUME KeepInv, GenuineInv, [Next]_vars
    PROVE  Genuine(db') /\ Genuine(work')
<1>0. db \in Tables /\ work \in Tables /\ Genuine(NoTables)
  BY DEF KeepInv, BaseInv, TypeInv, Genuine, NoTables
<1>1. CASE UNCHANGED tables
  BY <1>1 DEF tables, GenuineInv
<1>2. ASSUME NEW c \in Calls, NEW t \in Tables, Plain(c, t)
      PROVE  Genuine(db') /\ Genuine(work')
  <2>1. work' = t /\ db' = db /\ Keeps(View(Owner[c]), t)
    BY <1>2, Writes DEF KeepInv
  <2>2. Genuine(View(Owner[c])) /\ View(Owner[c]) \in Tables
    BY ViewGenuine, ViewType DEF KeepInv, BaseInv
  <2>3. Genuine(t)
    BY <1>2, <2>1, <2>2, GenuinePlain DEF Plain
  <2> QED
    BY <2>1, <2>3 DEF GenuineInv
<1>3. ASSUME NEW c \in Calls, NEW t \in Tables, Inserts(c, t)
      PROVE  Genuine(db') /\ Genuine(work')
  <2> DEFINE a == NewRow(c)
             u == View(Owner[c])
  <2>1. work' = t /\ db' = db /\ c \in AttestCalls
    BY <1>3, Writes DEF KeepInv, Inserts
  <2>2. Genuine(u) /\ u \in Tables /\ a \in AttestationRow
    BY <2>1, ViewGenuine, ViewType, NewRowType DEF KeepInv, BaseInv
  <2>3. pc[c] = "writing" /\ c \notin stale
    BY <1>3 DEF Inserts, Attest, Connected
  <2>4. WitnessOf[c] \in 1..Len(u.witnesses) /\ u.witnesses[WitnessOf[c]].key = KeyOf[c]
    BY <2>1, <2>3 DEF GenuineInv, KeyChecked
  <2>5. /\ a.witness = WitnessOf[c] /\ a.call = c /\ a.key = SignsWith[c]
        /\ a.hash = AttestationHash(a.witness, a.head, a.call, a.prev)
    BY DEF NewRow
  <2>6. t.witnesses = u.witnesses /\ t.attestations = Append(u.attestations, a)
    BY <1>3, <2>1 DEF Inserts
  <2> HIDE DEF a, u
  <2>7. Genuine(t)
    BY <2>2, <2>4, <2>5, <2>6, GenuineAppended
  <2> QED
    BY <2>1, <2>7 DEF GenuineInv
<1>4. ASSUME NEW c \in Calls, Commit(c)
      PROVE  Genuine(db') /\ Genuine(work')
  <2>1. db' = View(Owner[c]) /\ (work' = work \/ work' = NoTables)
    BY <1>4 DEF Commit
  <2> QED
    BY <1>0, <2>1, ViewGenuine DEF GenuineInv
<1>5. ASSUME NEW q \in Ledgers, Close(q)
      PROVE  Genuine(db') /\ Genuine(work')
  <2>1. db' = db /\ (work' = work \/ work' = NoTables)
    BY <1>5 DEF Close
  <2> QED
    BY <1>0, <2>1 DEF GenuineInv
<1> QED
  BY <1>1, <1>2, <1>3, <1>4, <1>5, TablesStep DEF KeepInv, BaseInv

LEMMA CloseMakesStale ==
    ASSUME NEW c \in Calls, Close(Owner[c]),
           pc[c] \in {"witness", "head", "prev", "writing", "committing", "witnesses",
                     "listed", "walking"}
    PROVE  c \in stale'
  BY DEF Close, Done

LEMMA KeyCheckedStep ==
    ASSUME KeepInv, GenuineInv, [Next]_vars, NEW c \in AttestCalls, c \notin stale'
    PROVE  KeyChecked(c)'
<1> DEFINE l == Owner[c]
           w == WitnessOf[c]
           t == View(l)
<1>0. /\ c \in Calls /\ c \notin VerifyCalls /\ l \in Ledgers /\ t \in Tables
      /\ View(l)' \in Tables
  <2>1. TypeInv'
    BY BaseStep DEF KeepInv, BaseInv
  <2>2. View(l)' \in Tables
    BY <2>1 DEF TypeInv, View
  <2> QED
    BY <2>2, ViewType, OwnerType, WitnessAssumption DEF Calls, KeepInv, BaseInv
<1>1. CASE pc'[c] \notin {"head", "prev", "writing"}
  BY <1>1 DEF KeyChecked
<1>2. CASE pc'[c] \in {"head", "prev", "writing"}
  <2>0. c \notin stale
    BY <1>0, <1>2, StaleStays DEF KeepInv
  <2>1. KeyChecked(c)
    BY <2>0 DEF GenuineInv
  <2>2. CASE ReadWitness(c)
    <3>1. View(l)' = t
      BY <2>2 DEF ReadWitness, tables, View
    <3>2. pc'[c] = "head" => w \in 1..Len(t.witnesses) /\ t.witnesses[w].key = KeyOf[c]
      BY <1>0, <2>2 DEF ReadWitness, Leave, KeepInv, BaseInv, TypeInv
    <3>3. pc'[c] \in {"head", "raised"}
      BY <1>0, <2>2 DEF ReadWitness, GotoOrRaise, Goto, Leave, KeepInv, BaseInv, TypeInv
    <3> HIDE DEF t
    <3> QED
      BY <1>2, <3>1, <3>2, <3>3 DEF KeyChecked
  <2>3. CASE ReadHead(c) \/ ReadPrev(c)
    <3>1. View(l)' = t /\ pc[c] \in {"head", "prev"}
      BY <2>3 DEF ReadHead, ReadPrev, tables, View
    <3> QED
      BY <2>1, <3>1 DEF KeyChecked
  <2>4. CASE ~ CallStep(c)
    <3>1. pc'[c] = pc[c]
      BY <1>0, <2>4, Movers, OthersStay DEF KeepInv, vars
    <3>2. ~ Close(l)
      BY <1>0, <1>2, <3>1, CloseMakesStale
    <3> DEFINE u == View(l)'
    <3>3. Keeps(t, u)
      BY <1>0, <3>2, ViewStep DEF KeepInv
    <3>4. \A x \in 1..Len(t.witnesses) : /\ x \in 1..Len(u.witnesses)
                                         /\ u.witnesses[x].key = t.witnesses[x].key
      BY <1>0, <3>3, RowTypes DEF Keeps
    <3> QED
      BY <1>2, <2>1, <3>1, <3>4 DEF KeyChecked
  <2>5. CASE Acquire(c)
    <3>1. pc'[c] = "witness"
      BY <1>0, <2>5 DEF Acquire, KeepInv, BaseInv, TypeInv
    <3> QED
      BY <1>2, <3>1
  <2> QED
    BY <1>0, <1>2, <2>2, <2>3, <2>4, <2>5, CameFrom DEF KeepInv
<1> QED
  BY <1>1, <1>2

KeptAndGenuine == KeepInv /\ GenuineInv

LEMMA GenuineInit == Init => KeptAndGenuine
<1> SUFFICES ASSUME Init PROVE KeepInv /\ GenuineInv
  BY DEF KeptAndGenuine
<1>1. KeepInv
  BY BaseInit DEF Init, KeepInv, WorkKeeps
<1>2. Genuine(db) /\ Genuine(work)
  BY DEF Init, Genuine, InitialTables, NoTables
<1>3. \A c \in AttestCalls : pc[c] = "idle"
  BY DEF Init, Calls
<1> QED
  BY <1>1, <1>2, <1>3 DEF GenuineInv, KeyChecked

LEMMA GenuineNext == KeptAndGenuine /\ [Next]_vars => KeptAndGenuine'
<1> SUFFICES ASSUME KeepInv, GenuineInv, [Next]_vars PROVE KeepInv' /\ GenuineInv'
  BY DEF KeptAndGenuine
<1>1. KeepInv'
  BY BaseStep, KeepStep DEF KeepInv
<1>2. Genuine(db') /\ Genuine(work')
  BY GenuineStep
<1>3. Genuine(db)' /\ Genuine(work)'
  BY <1>2 DEF Genuine, GenuineRow
<1>4. \A c \in AttestCalls : c \notin stale' => KeyChecked(c)'
  BY KeyCheckedStep
<1> QED
  BY <1>1, <1>3, <1>4 DEF GenuineInv

LEMMA GenuineInvariant == Spec => []KeptAndGenuine
  BY GenuineInit, GenuineNext, PTL DEF Spec

\* Every attestation any connection can read has the hash of its own fields, was
\* made by a signer that had the name of the key its witness is registered with,
\* and is signed by that key unless the signer's name is that of another.
AttestationsGenuine ==
    \A q \in Ledgers : \A w \in 1..Len(View(q).witnesses) : \A i \in Subchain(View(q), w) :
        LET a == View(q).attestations[i] IN
        /\ a.hash = AttestationHash(w, a.head, a.call, a.prev)
        /\ KeyOf[a.call] = View(q).witnesses[w].key
        /\ a.key = View(q).witnesses[w].key \/ Mislabelled(a.call)

\* However many Ledgers attest for a witness (attest_with_witness), and though
\* that may fork its sub-chain, no hash is ever wrong, and only a signer with
\* another key under the registered name makes a signature that is not the
\* witness's, although a registration may be rolled back and its witness_id
\* given away.
THEOREM AttestationsStayGenuine == Spec => []AttestationsGenuine
<1>1. KeptAndGenuine => AttestationsGenuine
  <2> SUFFICES ASSUME GenuineInv, NEW q \in Ledgers, NEW w, NEW i \in Subchain(View(q), w)
               PROVE  LET a == View(q).attestations[i] IN
                      /\ a.hash = AttestationHash(w, a.head, a.call, a.prev)
                      /\ KeyOf[a.call] = View(q).witnesses[w].key
                      /\ a.key = View(q).witnesses[w].key \/ Mislabelled(a.call)
    BY DEF AttestationsGenuine, KeptAndGenuine
  <2>1. GenuineRow(View(q), i) /\ View(q).attestations[i].witness = w
    BY ViewGenuine DEF Genuine, Subchain
  <2> QED
    BY <2>1 DEF GenuineRow, Mislabelled
<1> QED
  BY <1>1, GenuineInvariant, PTL

-----------------------------------------------------------------------------
(* A signature that does not verify. *)

\* Where a call is that has inserted its row.
After == {"committing", "done", "raised"}

MadeIn(t, place) == \A i \in 1..Len(t.attestations) : place[t.attestations[i].call] \in After

MadeInv == MadeIn(db, pc) /\ MadeIn(work, pc)

LEMMA AfterStays ==
    ASSUME KeepInv, [Next]_vars, NEW c \in AttestCalls, pc[c] \in After
    PROVE  pc'[c] \in After
<1>0. c \in Calls
  BY DEF Calls
<1>1. CASE CallStep(c)
  <2>1. Commit(c) \/ Busy(c) \/ OnClosed(c)
    BY <1>1 DEF After, CallStep, Start, Acquire, Register, Retire, ReadWitness, ReadHead,
           ReadPrev, Attest, ReadWitnesses, WalkGroup, CancelWaiting
  <2>2. Leave(c, "raised") \/ Leave(c, "done")
    BY <2>1 DEF Commit, Busy, OnClosed
  <2> QED
    BY <1>0, <2>2 DEF After, Leave, KeepInv, BaseInv, TypeInv
<1>2. CASE ~ CallStep(c)
  BY <1>0, <1>2, Movers, OthersStay DEF KeepInv, vars
<1> QED
  BY <1>1, <1>2

LEMMA MadeStep ==
    ASSUME KeepInv, MadeInv, [Next]_vars
    PROVE  MadeIn(db', pc') /\ MadeIn(work', pc')
<1>1. ASSUME NEW t \in Tables, MadeIn(t, pc) PROVE MadeIn(t, pc')
  <2> SUFFICES ASSUME NEW i \in 1..Len(t.attestations)
               PROVE  pc'[t.attestations[i].call] \in After
    BY DEF MadeIn
  <2>1. t.attestations[i].call \in AttestCalls
    BY RowTypes DEF AttestationRow
  <2> QED
    BY <1>1, <2>1, AfterStays DEF MadeIn
<1>2. /\ db \in Tables /\ work \in Tables /\ MadeIn(NoTables, pc')
      /\ MadeIn(db, pc') /\ MadeIn(work, pc')
  BY <1>1 DEF KeepInv, BaseInv, TypeInv, MadeInv, MadeIn, NoTables
<1>3. \A l : MadeIn(View(l), pc')
  BY <1>2 DEF View
<1>4. CASE UNCHANGED tables
  BY <1>2, <1>4 DEF tables
<1>5. ASSUME NEW c \in Calls, NEW t \in Tables, Plain(c, t)
      PROVE  MadeIn(db', pc') /\ MadeIn(work', pc')
  BY <1>2, <1>3, <1>5, Writes DEF KeepInv, Plain, MadeIn
<1>6. ASSUME NEW c \in Calls, NEW t \in Tables, Inserts(c, t)
      PROVE  MadeIn(db', pc') /\ MadeIn(work', pc')
  <2> DEFINE u == View(Owner[c])
             n == Len(u.attestations)
  <2>1. work' = t /\ db' = db /\ c \in AttestCalls
    BY <1>6, Writes DEF KeepInv, Inserts
  <2>2. pc'[c] \in After
    <3>1. Goto(c, "committing") \/ Leave(c, "raised")
      BY <1>6 DEF Inserts, Attest, GotoOrRaise
    <3> QED
      BY <3>1 DEF After, Goto, Leave, KeepInv, BaseInv, TypeInv
  <2>3. /\ Len(t.attestations) = n + 1 /\ t.attestations[n + 1] = NewRow(c) /\ n \in Nat
        /\ \A i \in 1..n : t.attestations[i] = u.attestations[i]
    BY <1>6, <2>1, NewRowType, ViewType, RowTypes, Appends DEF Inserts, KeepInv, BaseInv
  <2>4. \A i \in 1..n : pc'[u.attestations[i].call] \in After
    BY <1>3 DEF MadeIn
  <2>5. NewRow(c).call = c
    BY DEF NewRow
  <2> HIDE DEF n, u
  <2>6. ASSUME NEW i \in 1..n + 1 PROVE pc'[t.attestations[i].call] \in After
    <3>1. i \in 1..n \/ i = n + 1
      BY <2>3
    <3> QED
      BY <2>2, <2>3, <2>4, <2>5, <3>1
  <2> QED
    BY <1>2, <2>1, <2>3, <2>6 DEF MadeIn
<1>7. ASSUME NEW c \in Calls, Commit(c) \/ \E l \in Ledgers : Close(l)
      PROVE  MadeIn(db', pc') /\ MadeIn(work', pc')
  <2>1. (db' = db \/ db' = View(Owner[c])) /\ (work' = work \/ work' = NoTables)
    BY <1>7 DEF Commit, Close
  <2> QED
    BY <1>2, <1>3, <2>1
<1>8. ASSUME NEW l \in Ledgers, Close(l)
      PROVE  MadeIn(db', pc') /\ MadeIn(work', pc')
  <2>1. db' = db /\ (work' = work \/ work' = NoTables)
    BY <1>8 DEF Close
  <2> QED
    BY <1>2, <2>1
<1> QED
  BY <1>4, <1>5, <1>6, <1>7, <1>8, TablesStep DEF KeepInv, BaseInv

\* The keys a verify call knows are the ones its connection still shows.
KeysInv ==
    \A v \in VerifyCalls \ stale : pc[v] \in {"listed", "walking"} =>
        \A w \in DOMAIN got[v].known : /\ w \in 1..Len(View(Owner[v]).witnesses)
                                       /\ View(Owner[v]).witnesses[w].key = got[v].known[w]

LEMMA KeysStep ==
    ASSUME KeepInv, KeysInv, [Next]_vars
    PROVE  KeysInv'
<1> SUFFICES ASSUME NEW v \in VerifyCalls, v \notin stale',
                    pc'[v] \in {"listed", "walking"},
                    NEW w \in DOMAIN got'[v].known
             PROVE  /\ w \in 1..Len(View(Owner[v])'.witnesses)
                    /\ View(Owner[v])'.witnesses[w].key = got'[v].known[w]
  BY DEF KeysInv
<1> DEFINE t == View(Owner[v])
<1>0. v \in Calls /\ v \notin stale /\ t \in Tables /\ Owner[v] \in Ledgers
  BY StaleStays, ViewKeeps, OwnerType DEF Calls, KeepInv
<1>1. got[v] \in Readings /\ got'[v] \in Readings
  BY BaseStep DEF KeepInv, BaseInv, TypeInv
<1>2. CASE ReadWitnesses(v)
  <2>1. View(Owner[v])' = t
    BY <1>2 DEF ReadWitnesses, tables, View
  <2> DEFINE k == KeysOf(t)
             g == [got[v] EXCEPT !.known = k]
  <2>2. got'[v] = g
    BY <1>0, <1>2, ReadsWitnesses, Reads DEF KeepInv, BaseInv
  <2>3. /\ DOMAIN k = 1..Len(t.witnesses)
        /\ \A x \in 1..Len(t.witnesses) : k[x] = t.witnesses[x].key
    BY <1>0, KeysType
  <2> HIDE DEF k, t
  <2>4. got'[v].known = k
    BY <1>1, <2>2 DEF Readings
  <2> QED
    BY <2>1, <2>3, <2>4
<1>3. CASE WalkGroup(v)
  <2>1. View(Owner[v])' = t /\ pc[v] \in {"listed", "walking"}
    BY <1>3 DEF WalkGroup, tables, View
  <2>2. got'[v].known = got[v].known
    BY <1>0, <1>3, Walks, Reads DEF KeepInv, BaseInv
  <2> QED
    BY <1>0, <2>1, <2>2 DEF KeysInv
<1>4. CASE ~ CallStep(v)
  <2>1. got'[v] = got[v] /\ pc'[v] = pc[v]
    BY <1>0, <1>4, Movers, OthersStay DEF KeepInv, vars
  <2>2. ~ Close(Owner[v])
    BY <1>0, <2>1, CloseMakesStale
  <2>3. Keeps(t, View(Owner[v])') /\ View(Owner[v])' \in Tables
    <3>1. BaseInv'
      BY BaseStep DEF KeepInv
    <3>2. View(Owner[v])' \in Tables
      BY <3>1 DEF BaseInv, TypeInv, View
    <3> QED
      BY <1>0, <2>2, <3>2, ViewStep DEF KeepInv
  <2>4. w \in 1..Len(t.witnesses) /\ t.witnesses[w].key = got'[v].known[w]
    BY <1>0, <2>1 DEF KeysInv
  <2>5. Len(t.witnesses) \in Nat /\ Len(View(Owner[v])'.witnesses) \in Nat
    BY <1>0, <2>3, RowTypes
  <2> HIDE DEF t
  <2> QED
    BY <2>3, <2>4, <2>5 DEF Keeps
<1> QED
  BY <1>0, <1>2, <1>3, <1>4, CameFrom DEF KeepInv

\* A group fails with a signature only if one of its signatures fails.
LEMMA EarliestFails ==
    ASSUME NEW broken \in SUBSET Nat, NEW bad \in SUBSET Nat, broken \cup bad # {},
           Min(broken \cup bad) \notin broken
    PROVE  bad # {}
<1>1. Min(broken \cup bad) \in broken \cup bad
  BY MinNat
<1> QED
  BY <1>1

\* Why a signature of the witness may fail to verify for the call.
Explained(v, w, key, place) ==
    \/ ~ (key \in DOMAIN PublicKeys[v] /\ PublicKeys[v][key] = key)
    \/ \E a \in AttestCalls :
          /\ WitnessOf[a] = w /\ KeyOf[a] = key /\ Mislabelled(a)
          /\ place[a] \in After

SignatureInv == KeptAndGenuine /\ MadeInv /\ KeysInv /\ SignatureFailuresExplained

LEMMA SignatureStep ==
    ASSUME SignatureInv, [Next]_vars, NEW v \in VerifyCalls, pc'[v] = "unsigned"
    PROVE  Explained(v, got'[v].at, got'[v].known[got'[v].at], pc')
<1>0. v \in Calls /\ KeepInv
  BY DEF Calls, SignatureInv, KeptAndGenuine
<1>1. CASE ~ CallStep(v)
  <2> DEFINE w == got[v].at
             key == got[v].known[w]
  <2>1. got'[v] = got[v] /\ pc'[v] = pc[v]
    BY <1>0, <1>1, Movers, OthersStay DEF KeepInv, vars
  <2>2. Explained(v, w, key, pc)
    BY <2>1 DEF SignatureInv, SignatureFailuresExplained, Explained, After
  <2>3. got'[v].at = w /\ got'[v].known[got'[v].at] = key
    BY <2>1
  <2> HIDE DEF w, key
  <2>4. Explained(v, w, key, pc')
    BY <1>0, <2>2, AfterStays DEF Explained
  <2> QED
    BY <2>3, <2>4
<1>2. CASE WalkGroup(v)
  <2> DEFINE t == View(Owner[v])
             ahead == Ahead(t, got[v].at)
             w == Min(ahead)
             key == got[v].known[w]
             broken == Mismatched(t, w)
             failing == Unsigned(t, w, got[v].known, PublicKeys[v])
  <2>1. pc[v] \in {"listed", "walking"} /\ v \notin stale
    BY <1>2 DEF WalkGroup, Connected
  <2>2. got'[v].at = w /\ got'[v].known = got[v].known
    <3>1. ~ Leave(v, "done")
      BY <1>0 DEF Leave, KeepInv, BaseInv, TypeInv
    <3> QED
      BY <1>0, <1>2, <3>1, Walks, Reads DEF KeepInv, BaseInv
  <2>3. w \in DOMAIN got[v].known /\ failing # {}
    <3>1. ~ Leave(v, "done") /\ ~ Leave(v, "unknown") /\ ~ Leave(v, "mismatch")
          /\ ~ GotoOrRaise(v, "walking")
      BY <1>0 DEF GotoOrRaise, Goto, Leave, KeepInv, BaseInv, TypeInv
    <3>2. /\ w \in DOMAIN got[v].known /\ broken \cup failing # {}
          /\ Min(broken \cup failing) \notin broken
      BY <1>2, <3>1 DEF WalkGroup, Ahead
    <3>3. broken \in SUBSET Nat /\ failing \in SUBSET Nat
      BY DEF Mismatched, Unsigned, Subchain
    <3> HIDE DEF broken, failing
    <3> QED
      BY <3>2, <3>3, EarliestFails
  <2>4. PICK i \in failing : TRUE
    BY <2>3
  <2>5. w \in 1..Len(t.witnesses) /\ t.witnesses[w].key = key
    BY <2>1, <2>3 DEF SignatureInv, KeysInv
  <2>6. /\ i \in 1..Len(t.attestations) /\ t.attestations[i].witness = w
        /\ ~ (key \in DOMAIN PublicKeys[v] /\ PublicKeys[v][key] = t.attestations[i].key)
    BY <2>4 DEF Unsigned, Subchain
  <2> DEFINE a == t.attestations[i].call
  <2>7. a \in AttestCalls /\ pc'[a] \in After
    <3>1. t \in Tables /\ MadeIn(t, pc)
      BY <1>0, ViewType DEF View, KeepInv, BaseInv, SignatureInv, MadeInv
    <3>2. a \in AttestCalls /\ pc[a] \in After
      BY <2>6, <3>1, RowTypes DEF AttestationRow, MadeIn
    <3> QED
      BY <1>0, <3>2, AfterStays
  <2>8. GenuineRow(t, i)
    BY <2>6, ViewGenuine DEF Genuine, SignatureInv, KeptAndGenuine
  <2> HIDE DEF t, w, key, failing, broken, ahead
  <2>9. WitnessOf[a] = w /\ KeyOf[a] = key /\ t.attestations[i].key = SignsWith[a]
    BY <2>5, <2>6, <2>8 DEF GenuineRow
  <2>10. \/ ~ (key \in DOMAIN PublicKeys[v] /\ PublicKeys[v][key] = key)
         \/ Mislabelled(a)
    BY <2>6, <2>9 DEF Mislabelled
  <2> HIDE DEF a
  <2>11. got'[v].at = w /\ got'[v].known[got'[v].at] = key
    BY <2>2 DEF key
  <2>12. Explained(v, w, key, pc')
    BY <2>7, <2>9, <2>10 DEF Explained
  <2> QED
    BY <2>11, <2>12
<1> QED
  BY <1>0, <1>1, <1>2, CameFrom DEF KeepInv

\* verify_witness_attestations reports a failed signature only for one of two
\* reasons, neither of them a matter of timing: its verifier does not have the
\* registered key, or a signer came in under that key's name with another.
THEOREM SignatureFailuresHaveCause == Spec => []SignatureFailuresExplained
<1>1. Init => SignatureInv
  <2> SUFFICES ASSUME Init PROVE SignatureInv
    OBVIOUS
  <2>1. KeptAndGenuine
    BY GenuineInit
  <2>2. MadeInv
    BY DEF Init, MadeInv, MadeIn, InitialTables, NoTables
  <2>3. \A v \in VerifyCalls : pc[v] = "idle"
    BY DEF Init, Calls
  <2> QED
    BY <2>1, <2>2, <2>3 DEF SignatureInv, KeysInv, SignatureFailuresExplained
<1>2. SignatureInv /\ [Next]_vars => SignatureInv'
  <2> SUFFICES ASSUME SignatureInv, [Next]_vars PROVE SignatureInv'
    OBVIOUS
  <2>1. KeptAndGenuine'
    BY GenuineNext DEF SignatureInv
  <2>2. MadeInv'
    BY MadeStep DEF SignatureInv, MadeInv, KeptAndGenuine
  <2>3. KeysInv'
    BY KeysStep DEF SignatureInv, KeptAndGenuine
  <2>4. \A v \in VerifyCalls : pc'[v] = "unsigned" =>
           Explained(v, got'[v].at, got'[v].known[got'[v].at], pc')
    BY SignatureStep
  <2>5. SignatureFailuresExplained'
    BY <2>4 DEF SignatureFailuresExplained, Explained, After
  <2> QED
    BY <2>1, <2>2, <2>3, <2>5 DEF SignatureInv
<1>3. SignatureInv => SignatureFailuresExplained
  BY DEF SignatureInv
<1> QED
  BY <1>1, <1>2, <1>3, PTL DEF Spec

-----------------------------------------------------------------------------
(* One Ledger attests for a witness: its lock covers the reads and the      *)
(* insert.                                                                 *)

\* All that attest for a witness do so on one Ledger.
OneLedgerPerWitness ==
    \A c, d \in AttestCalls : WitnessOf[c] = WitnessOf[d] => Owner[c] = Owner[d]

\* No other Ledger's transaction holds attestations of the witness.
OthersAttestNothing(c) ==
    writer \notin {Nobody, Owner[c]} => SameRows(db, work, WitnessOf[c])

\* What an attest call has read and checked still holds when it inserts,
\* unless its connection was closed.
PendingOK(c) ==
    LET t == View(Owner[c])
        w == WitnessOf[c]
    IN
    /\ pc[c] \in {"head", "prev", "writing"} =>
          w \in 1..Len(t.witnesses) /\ t.witnesses[w].key = KeyOf[c]
    /\ pc[c] \in {"prev", "writing"} =>
          /\ got[c].head <= head
          /\ \A i \in Subchain(t, w) : t.attestations[i].head <= got[c].head
    /\ pc[c] = "writing" => got[c].prev = LastHash(t, w)

AttestInv ==
    /\ RowsOK(db, head) /\ RowsOK(work, head)
    /\ \A c \in AttestCalls : OthersAttestNothing(c)
    /\ \A c \in AttestCalls \ stale : PendingOK(c)

LEMMA ViewRows ==
    ASSUME AttestInv, NEW q PROVE RowsOK(View(q), head)
  BY DEF AttestInv, View

\* The rows of the tables stay in order.
LEMMA RowsStep ==
    ASSUME KeepInv, AttestInv, [Next]_vars
    PROVE  RowsOK(db', head') /\ RowsOK(work', head')
<1>0. /\ head \in Nat /\ head' \in Nat /\ head <= head' /\ db \in Tables /\ work \in Tables
      /\ db' \in Tables /\ work' \in Tables
  BY OthersStep, BaseStep, WitnessAssumption DEF KeepInv, BaseInv, TypeInv
<1> SUFFICES RowsOK(db', head) /\ RowsOK(work', head)
  BY <1>0, RowsHigher
<1>1. CASE UNCHANGED tables
  BY <1>1 DEF tables, AttestInv
<1>2. ASSUME NEW c \in Calls, NEW t \in Tables, Plain(c, t)
      PROVE  RowsOK(db', head) /\ RowsOK(work', head)
  <2>1. work' = t /\ db' = db /\ Keeps(View(Owner[c]), t)
    BY <1>2, Writes DEF KeepInv
  <2>2. RowsOK(View(Owner[c]), head) /\ View(Owner[c]) \in Tables
    BY ViewRows, ViewType DEF KeepInv, BaseInv
  <2>3. RowsOK(t, head)
    BY <1>2, <2>1, <2>2, RowsPlain DEF Plain
  <2> QED
    BY <2>1, <2>3 DEF AttestInv
<1>3. ASSUME NEW c \in Calls, NEW t \in Tables, Inserts(c, t)
      PROVE  RowsOK(db', head) /\ RowsOK(work', head)
  <2> DEFINE a == NewRow(c)
             u == View(Owner[c])
  <2>1. work' = t /\ db' = db /\ c \in AttestCalls
    BY <1>3, Writes DEF KeepInv, Inserts
  <2>2. RowsOK(u, head) /\ u \in Tables /\ a \in AttestationRow
    BY <2>1, ViewRows, ViewType, NewRowType DEF KeepInv, BaseInv
  <2>3. pc[c] = "writing" /\ c \notin stale
    BY <1>3 DEF Inserts, Attest, Connected
  <2>4. PendingOK(c)
    BY <2>1, <2>3 DEF AttestInv
  <2>5. /\ a.witness = WitnessOf[c] /\ a.call = c /\ a.head = got[c].head
        /\ a.prev = got[c].prev
        /\ a.hash = AttestationHash(a.witness, a.head, a.call, a.prev)
    BY DEF NewRow
  <2>6. t.witnesses = u.witnesses /\ t.attestations = Append(u.attestations, a)
    BY <1>3, <2>1 DEF Inserts
  <2> HIDE DEF a, u
  <2>7. /\ WitnessOf[c] \in 1..Len(u.witnesses) /\ u.witnesses[WitnessOf[c]].key = KeyOf[c]
        /\ got[c].head <= head
        /\ \A i \in Subchain(u, WitnessOf[c]) : u.attestations[i].head <= got[c].head
        /\ got[c].prev = LastHash(u, WitnessOf[c])
    BY <2>3, <2>4 DEF PendingOK, u
  <2>8. RowsOK(t, head)
    BY <1>0, <2>2, <2>5, <2>6, <2>7, RowsAppended
  <2> QED
    BY <2>1, <2>8 DEF AttestInv
<1>4. ASSUME NEW c \in Calls, Commit(c)
      PROVE  RowsOK(db', head) /\ RowsOK(work', head)
  <2>1. db' = View(Owner[c]) /\ (work' = work \/ work' = NoTables)
    BY <1>4 DEF Commit
  <2>2. RowsOK(NoTables, head)
    BY DEF RowsOK, NoTables
  <2> QED
    BY <2>1, <2>2, ViewRows DEF AttestInv
<1>5. ASSUME NEW q \in Ledgers, Close(q)
      PROVE  RowsOK(db', head) /\ RowsOK(work', head)
  <2>1. db' = db /\ (work' = work \/ work' = NoTables)
    BY <1>5 DEF Close
  <2>2. RowsOK(NoTables, head)
    BY DEF RowsOK, NoTables
  <2> QED
    BY <2>1, <2>2 DEF AttestInv
<1> QED
  BY <1>1, <1>2, <1>3, <1>4, <1>5, TablesStep DEF KeepInv, BaseInv

LEMMA OthersAttestStep ==
    ASSUME OneLedgerPerWitness, KeepInv, AttestInv, [Next]_vars, NEW c \in AttestCalls
    PROVE  OthersAttestNothing(c)'
<1> DEFINE w == WitnessOf[c]
<1>0. OthersAttestNothing(c) /\ Owner[c] # Nobody
  BY WitnessAssumption DEF AttestInv, Calls
<1>1. CASE UNCHANGED tables
  BY <1>0, <1>1 DEF tables, OthersAttestNothing, SameRows, Subchain
<1>2. ASSUME NEW d \in Calls, NEW t \in Tables, Plain(d, t) \/ Inserts(d, t)
      PROVE  OthersAttestNothing(c)'
  <2> SUFFICES ASSUME Owner[d] # Owner[c] PROVE SameRows(db, t, w)
    BY <1>2, Writes DEF KeepInv, OthersAttestNothing, SameRows, Subchain
  <2>1. writer \in {Nobody, Owner[d]}
    BY <1>2, Writes DEF KeepInv
  <2> DEFINE u == View(Owner[d])
  <2>2. u \in Tables
    BY ViewType DEF KeepInv, BaseInv
  <2>3. SameRows(db, u, w)
    <3>1. CASE writer = Owner[d]
      BY <1>0, <2>1, <3>1, OwnerType, WitnessAssumption DEF View, OthersAttestNothing
    <3>2. CASE writer # Owner[d]
      BY <3>2, SameIfUnchanged DEF View
    <3> QED
      BY <3>1, <3>2
  <2>4. SameRows(u, t, w)
    <3>1. CASE Plain(d, t)
      BY <3>1, SameIfUnchanged DEF Plain
    <3>2. CASE Inserts(d, t)
      <4>1. d \in AttestCalls /\ t.attestations = Append(u.attestations, NewRow(d))
        BY <3>2 DEF Inserts
      <4>2. NewRow(d) \in AttestationRow /\ NewRow(d).witness = WitnessOf[d]
        BY <4>1, NewRowType DEF NewRow, KeepInv, BaseInv
      <4>3. WitnessOf[d] # w
        BY <4>1 DEF OneLedgerPerWitness
      <4> HIDE DEF u, w
      <4> QED
        BY <2>2, <4>1, <4>2, <4>3, SameIfAppended
    <3> QED
      BY <1>2, <3>1, <3>2
  <2> QED
    BY <2>3, <2>4, SameOn
<1>3. ASSUME NEW d \in Calls, Commit(d)
      PROVE  OthersAttestNothing(c)'
  <2>1. CASE writer = Owner[d]
    BY <1>3, <2>1 DEF Commit, OthersAttestNothing
  <2>2. CASE writer # Owner[d]
    BY <1>0, <1>3, <2>2 DEF Commit, View, OthersAttestNothing, SameRows, Subchain
  <2> QED
    BY <2>1, <2>2
<1>4. ASSUME NEW q \in Ledgers, Close(q)
      PROVE  OthersAttestNothing(c)'
  BY <1>0, <1>4 DEF Close, OthersAttestNothing, SameRows, Subchain
<1> QED
  BY <1>1, <1>2, <1>3, <1>4, TablesStep DEF KeepInv, BaseInv

\* What a Ledger sees of its witness, while it neither inserts nor closes.
LEMMA AttestationsStay ==
    ASSUME KeepInv, AttestInv, [Next]_vars, NEW c \in AttestCalls, ~ Close(Owner[c]),
           \A d \in AttestCalls : Attest(d) => Owner[d] # Owner[c]
    PROVE  SameRows(View(Owner[c]), View(Owner[c])', WitnessOf[c])
<1> DEFINE l == Owner[c]
           w == WitnessOf[c]
<1>0. OthersAttestNothing(c) /\ l # Nobody
  BY WitnessAssumption DEF AttestInv, Calls
<1>1. SameRows(View(l), View(l), w)
  BY SameIfUnchanged
<1>2. CASE UNCHANGED tables
  <2>1. View(l)' = View(l)
    BY <1>2 DEF tables, View
  <2> QED
    BY <1>1, <2>1
<1>3. ASSUME NEW d \in Calls, NEW t \in Tables, Plain(d, t) \/ Inserts(d, t)
      PROVE  SameRows(View(l), View(l)', w)
  <2>1. /\ work' = t /\ db' = db /\ writer' = Owner[d] /\ writer \in {Nobody, Owner[d]}
    BY <1>3, Writes DEF KeepInv
  <2>2. CASE Owner[d] = l
    <3>1. Plain(d, t)
      BY <1>3, <2>2 DEF Inserts
    <3>2. t.attestations = View(l).attestations /\ View(l)' = t
      BY <2>1, <2>2, <3>1 DEF Plain, View
    <3> QED
      BY <3>2, SameIfUnchanged
  <2>3. CASE Owner[d] # l
    <3>1. View(l)' = View(l)
      BY <1>0, <2>1, <2>3 DEF View
    <3> QED
      BY <1>1, <3>1
  <2> QED
    BY <2>2, <2>3
<1>4. ASSUME NEW d \in Calls, Commit(d)
      PROVE  SameRows(View(l), View(l)', w)
  <2>1. CASE Owner[d] # l /\ writer = Owner[d]
    <3>1. View(l) = db /\ View(l)' = work
      BY <1>0, <1>4, <2>1, OwnerType, WitnessAssumption DEF Commit, View
    <3>2. SameRows(db, work, w)
      BY <1>0, <2>1, OwnerType, WitnessAssumption DEF OthersAttestNothing
    <3> QED
      BY <3>1, <3>2
  <2>2. CASE Owner[d] = l \/ writer # Owner[d]
    <3>1. View(l)' = View(l)
      BY <1>0, <1>4, <2>2 DEF Commit, View
    <3> QED
      BY <1>1, <3>1
  <2> QED
    BY <2>1, <2>2
<1>5. ASSUME NEW q \in Ledgers, Close(q)
      PROVE  SameRows(View(l), View(l)', w)
  <2>1. q # l
    BY <1>5
  <2>2. View(l)' = View(l)
    BY <1>0, <1>5, <2>1 DEF Close, View
  <2> QED
    BY <1>1, <2>2
<1> QED
  BY <1>2, <1>3, <1>4, <1>5, TablesStep DEF KeepInv, BaseInv

LEMMA PendingStep ==
    ASSUME KeepInv, AttestInv, [Next]_vars, NEW c \in AttestCalls, c \notin stale'
    PROVE  PendingOK(c)'
<1> DEFINE l == Owner[c]
           w == WitnessOf[c]
           t == View(l)
<1>0. /\ c \in Calls /\ c \notin VerifyCalls /\ l \in Ledgers /\ t \in Tables
      /\ View(l)' \in Tables
  <2>1. TypeInv'
    BY BaseStep DEF KeepInv, BaseInv
  <2>2. View(l)' \in Tables
    BY <2>1 DEF TypeInv, View
  <2> QED
    BY <2>2, ViewType, OwnerType, WitnessAssumption DEF Calls, KeepInv, BaseInv
<1>1. CASE pc'[c] \notin {"head", "prev", "writing"}
  BY <1>1 DEF PendingOK
<1>2. CASE pc'[c] \in {"head", "prev", "writing"}
  <2>0. c \notin stale
    BY <1>0, <1>2, StaleStays DEF KeepInv
  <2>1. PendingOK(c) /\ RowsOK(t, head) /\ got[c] \in Readings
    BY <2>0, ViewRows DEF AttestInv, KeepInv, BaseInv, TypeInv
  <2>2. CASE ReadWitness(c)
    <3>1. View(l)' = t /\ pc'[c] \in {"head", "raised"}
      BY <1>0, <2>2 DEF ReadWitness, tables, View, GotoOrRaise, Goto, Leave,
                        KeepInv, BaseInv, TypeInv
    <3>2. pc'[c] = "head" => w \in 1..Len(t.witnesses) /\ t.witnesses[w].key = KeyOf[c]
      BY <1>0, <2>2 DEF ReadWitness, Leave, KeepInv, BaseInv, TypeInv
    <3> HIDE DEF t
    <3> QED
      BY <3>1, <3>2 DEF PendingOK
  <2>3. CASE ReadHead(c)
    <3>1. View(l)' = t /\ pc[c] = "head" /\ head' = head /\ pc'[c] \in {"none", "prev", "raised"}
      BY <1>0, <2>3 DEF ReadHead, tables, View, GotoOrRaise, Goto, Leave,
                        KeepInv, BaseInv, TypeInv
    <3> DEFINE g == [got[c] EXCEPT !.head = head]
    <3>2. got'[c] = g
      <4>1. got' = [got EXCEPT ![c] = g] /\ g \in Readings
        BY <1>0, <2>3, ReadsHead DEF KeepInv, BaseInv
      <4> QED
        BY <4>1 DEF KeepInv, BaseInv, TypeInv
    <3>3. got'[c].head = head
      BY <2>1, <3>2 DEF Readings
    <3>4. \A i \in Subchain(t, w) : t.attestations[i].head <= head
      <4> HIDE DEF t, w
      <4> QED
        BY <2>1 DEF RowsOK, RowOK, Subchain
    <3>5. head \in Nat
      BY WitnessAssumption DEF KeepInv, BaseInv, TypeInv
    <3>6. w \in 1..Len(t.witnesses) /\ t.witnesses[w].key = KeyOf[c]
      BY <2>1, <3>1 DEF PendingOK
    <3>7. Subchain(View(l), w)' = Subchain(View(l)', w)
      BY DEF Subchain
    <3> HIDE DEF t
    <3> QED
      BY <1>2, <3>1, <3>3, <3>4, <3>5, <3>6, <3>7 DEF PendingOK
  <2>4. CASE ReadPrev(c)
    <3>1. View(l)' = t /\ pc[c] = "prev" /\ head' = head /\ pc'[c] \in {"writing", "raised"}
      BY <1>0, <2>4 DEF ReadPrev, tables, View, GotoOrRaise, Goto, Leave,
                        KeepInv, BaseInv, TypeInv
    <3> DEFINE h == LastHash(t, w)
    <3>2. got'[c] = [got[c] EXCEPT !.prev = h]
      BY <1>0, <2>4, ReadsPrev, Reads DEF KeepInv, BaseInv
    <3> HIDE DEF h
    <3>3. got'[c].head = got[c].head /\ got'[c].prev = h
      BY <2>1, <3>2 DEF Readings
    <3>4. /\ w \in 1..Len(t.witnesses) /\ t.witnesses[w].key = KeyOf[c]
          /\ got[c].head <= head
          /\ \A i \in Subchain(t, w) : t.attestations[i].head <= got[c].head
      BY <2>1, <3>1 DEF PendingOK
    <3>5. /\ LastHash(View(l), w)' = LastHash(View(l)', w)
          /\ Subchain(View(l), w)' = Subchain(View(l)', w)
      BY DEF LastHash, HashBefore, Subchain
    <3>6. LastHash(View(l), w)' = h
      BY <3>1, <3>5 DEF h
    <3> HIDE DEF t
    <3> QED
      BY <1>2, <3>1, <3>3, <3>4, <3>5, <3>6 DEF PendingOK
  <2>5. CASE ~ CallStep(c)
    <3>1. pc'[c] = pc[c] /\ got'[c] = got[c]
      BY <1>0, <2>5, Movers, OthersStay DEF KeepInv, vars
    <3>2. ~ Close(l)
      BY <1>0, <1>2, <3>1, CloseMakesStale
    <3>3. ASSUME NEW d \in AttestCalls, Attest(d) PROVE Owner[d] # l
      <4>1. d \in Calls /\ pc[d] = "writing" /\ CallStep(d)
        BY <3>3 DEF Attest, CallStep, Calls
      <4>2. mutex[Owner[d]] = d /\ mutex[l] = c
        BY <1>0, <1>2, <3>1, <4>1 DEF KeepInv, BaseInv, CallInv
      <4> QED
        BY <2>5, <4>1, <4>2
    <3> DEFINE u == View(l)'
    <3>4. SameRows(t, u, w)
      BY <3>2, <3>3, AttestationsStay
    <3>5. Keeps(t, u) /\ head <= head' /\ head \in Nat /\ head' \in Nat
      BY <1>0, <3>2, ViewStep, OthersStep, WitnessAssumption DEF KeepInv, BaseInv, TypeInv
    <3>6. \A x \in 1..Len(t.witnesses) : /\ x \in 1..Len(u.witnesses)
                                         /\ u.witnesses[x].key = t.witnesses[x].key
      BY <1>0, <3>5, RowTypes DEF Keeps
    <3>7. w \in 1..Len(u.witnesses) /\ u.witnesses[w].key = KeyOf[c]
      BY <1>2, <2>1, <3>1, <3>6 DEF PendingOK
    <3>8. pc'[c] \in {"prev", "writing"} =>
             /\ got'[c].head <= head'
             /\ \A i \in Subchain(u, w) : u.attestations[i].head <= got'[c].head
      <4>1. got[c].head \in Nat
        BY <2>1 DEF Readings
      <4>2. pc'[c] \in {"prev", "writing"} =>
               /\ got[c].head <= head
               /\ \A i \in Subchain(t, w) : t.attestations[i].head <= got[c].head
        BY <2>1, <3>1 DEF PendingOK
      <4> HIDE DEF t, u, w
      <4> QED
        BY <3>1, <3>4, <3>5, <4>1, <4>2 DEF SameRows
    <3>9. pc'[c] = "writing" => got'[c].prev = LastHash(u, w)
      <4>1. LastHash(u, w) = LastHash(t, w)
        BY <1>0, <3>4, SameLastHash
      <4> QED
        BY <2>1, <3>1, <4>1 DEF PendingOK
    <3>10. /\ LastHash(View(l), w)' = LastHash(u, w)
           /\ Subchain(View(l), w)' = Subchain(u, w)
      BY DEF LastHash, HashBefore, Subchain
    <3> QED
      BY <3>7, <3>8, <3>9, <3>10 DEF PendingOK
  <2>6. CASE Acquire(c)
    <3>1. pc'[c] = "witness"
      BY <1>0, <2>6 DEF Acquire, KeepInv, BaseInv, TypeInv
    <3> QED
      BY <1>2, <3>1
  <2> QED
    BY <1>0, <1>2, <2>2, <2>3, <2>4, <2>5, <2>6, CameFrom DEF KeepInv
<1> QED
  BY <1>1, <1>2

\* No verify call meets a row that is not linked or hashed as it must be.
LEMMA VerifyStep ==
    ASSUME KeepInv, LinksVerify, AttestInv, [Next]_vars
    PROVE  LinksVerify'
<1> SUFFICES ASSUME NEW v \in VerifyCalls, pc'[v] = "mismatch" PROVE FALSE
  BY DEF LinksVerify
<1>0. v \in Calls
  BY DEF Calls
<1>1. CASE ~ CallStep(v)
  <2>1. pc'[v] = pc[v]
    BY <1>0, <1>1, Movers, OthersStay DEF KeepInv, vars
  <2> QED
    BY <2>1 DEF LinksVerify
<1>2. CASE WalkGroup(v)
  <2> DEFINE t == View(Owner[v])
             w == Min(Ahead(t, got[v].at))
  <2>1. RowsOK(t, head)
    BY ViewRows
  <2>2. Mismatched(t, w) = {}
    <3> HIDE DEF t, w
    <3>1. ASSUME NEW i \in Subchain(t, w)
          PROVE  t.attestations[i].witness = w /\ RowOK(t, head, i)
      BY <2>1, <3>1 DEF Subchain, RowsOK
    <3> QED
      BY <3>1 DEF Mismatched, RowOK
  <2>3. \/ GotoOrRaise(v, "walking") \/ Leave(v, "done")
        \/ Leave(v, "unknown") \/ Leave(v, "unsigned")
    BY <1>2, <2>2 DEF WalkGroup, Ahead
  <2> QED
    BY <1>0, <2>3 DEF GotoOrRaise, Goto, Leave, KeepInv, BaseInv, TypeInv
<1> QED
  BY <1>0, <1>1, <1>2, CameFrom DEF KeepInv

AttestersInv == KeepInv /\ AttestInv /\ LinksVerify

LEMMA AttestersInvariant ==
    ASSUME OneLedgerPerWitness
    PROVE  Spec => []AttestersInv
<1>1. Init => AttestersInv
  <2> SUFFICES ASSUME Init PROVE KeepInv /\ AttestInv /\ LinksVerify
    BY DEF AttestersInv
  <2>1. KeepInv
    BY BaseInit DEF Init, KeepInv, WorkKeeps
  <2>2. RowsOK(db, head) /\ RowsOK(work, head)
    BY DEF Init, RowsOK, InitialTables, NoTables
  <2>3. \A c \in Calls : pc[c] = "idle"
    BY DEF Init
  <2>4. /\ \A c \in AttestCalls : OthersAttestNothing(c)
        /\ \A c \in AttestCalls \ stale : PendingOK(c)
    BY <2>3 DEF Init, OthersAttestNothing, PendingOK, Calls
  <2>5. LinksVerify
    BY <2>3 DEF LinksVerify, Calls
  <2> QED
    BY <2>1, <2>2, <2>4, <2>5 DEF AttestInv
<1>2. ASSUME AttestersInv, [Next]_vars PROVE AttestersInv'
  <2>1. KeepInv'
    BY <1>2, BaseStep, KeepStep DEF AttestersInv, KeepInv
  <2>2. LinksVerify'
    BY <1>2, VerifyStep DEF AttestersInv
  <2>3. /\ RowsOK(db', head') /\ RowsOK(work', head')
        /\ \A c \in AttestCalls : OthersAttestNothing(c)'
    BY <1>2, RowsStep, OthersAttestStep DEF AttestersInv
  <2>4. \A c \in AttestCalls : c \notin stale' => PendingOK(c)'
    BY <1>2, PendingStep DEF AttestersInv
  <2>5. RowsOK(db, head)' /\ RowsOK(work, head)'
    BY <2>3 DEF RowsOK, RowOK, HashBefore, Subchain
  <2>6. AttestInv'
    BY <2>3, <2>4, <2>5 DEF AttestInv
  <2> QED
    BY <2>1, <2>2, <2>6 DEF AttestersInv
<1> QED
  BY <1>1, <1>2, PTL DEF Spec

\* While each witness attests on one Ledger, and whatever all of them register,
\* retire and verify: every sub-chain any connection can read links from its
\* genesis (attest_with_witness reads the last hash and inserts under its lock).
THEOREM SubchainsStayLinked ==
    ASSUME OneLedgerPerWitness
    PROVE  Spec => []SubchainsLinked
<1>1. AttestersInv => SubchainsLinked
  <2> SUFFICES ASSUME AttestInv, NEW q \in Ledgers, NEW w PROVE Linked(View(q), w)
    BY DEF AttestersInv, SubchainsLinked
  <2>1. RowsOK(View(q), head)
    BY ViewRows
  <2> DEFINE t == View(q)
  <2> HIDE DEF t
  <2>2. ASSUME NEW i \in Subchain(t, w)
        PROVE  t.attestations[i].prev = HashBefore(t, w, i)
    BY <2>1, <2>2 DEF Subchain, RowsOK, RowOK, t
  <2> QED
    BY <2>2 DEF Linked, t
<1> QED
  BY <1>1, AttestersInvariant, PTL

\* ... every sub-chain attests heads in the order the chain reached them,
\* although the head is read two awaits before the row is inserted ...
THEOREM HeadsStayAscending ==
    ASSUME OneLedgerPerWitness
    PROVE  Spec => []HeadsAscend
<1>1. AttestersInv => HeadsAscend
  <2> SUFFICES ASSUME AttestersInv, NEW q \in Ledgers, NEW w,
                      NEW i \in Subchain(View(q), w), NEW j \in Subchain(View(q), w), i < j
               PROVE  View(q).attestations[i].head <= View(q).attestations[j].head
    BY DEF HeadsAscend
  <2> DEFINE t == View(q)
  <2>1. RowsOK(t, head) /\ t \in Tables
    BY ViewRows, ViewType DEF AttestersInv, KeepInv, BaseInv
  <2>2. Len(t.attestations) \in Nat
    BY <2>1, RowTypes
  <2>3. i \in 1..Len(t.attestations) /\ j \in 1..Len(t.attestations)
    BY DEF Subchain
  <2> HIDE DEF t
  <2>4. i \in Subchain(t, w) /\ t.attestations[j].witness = w
    BY DEF Subchain, t
  <2>5. RowOK(t, head, j)
    BY <2>1, <2>3 DEF RowsOK
  <2>6. i <= j
    BY <2>2, <2>3
  <2> QED
    BY <2>4, <2>5, <2>6 DEF RowOK, t
<1> QED
  BY <1>1, AttestersInvariant, PTL

\* ... and verify_witness_attestations never reports a broken link or hash: that
\* verdict is about tampering, not about concurrent calls.
THEOREM LinksAlwaysVerify ==
    ASSUME OneLedgerPerWitness
    PROVE  Spec => []LinksVerify
<1>1. AttestersInv => LinksVerify
  BY DEF AttestersInv
<1> QED
  BY <1>1, AttestersInvariant, PTL

=============================================================================
