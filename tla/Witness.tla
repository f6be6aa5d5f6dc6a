------------------------------- MODULE Witness -------------------------------
(***************************************************************************)
(* The witness registry and the sub-chains of attestations: coroutines of  *)
(* register_witness, retire_witness, attest_with_witness and               *)
(* verify_witness_attestations on one or more Ledgers over one file.       *)
(*                                                                         *)
(* SQLite here is what Ledger.tla shows it to be to these statements: one  *)
(* connection at a time holds uncommitted changes (writer, work), every    *)
(* other one reads the committed tables, "database is locked" can strike   *)
(* where another connection interferes, and nothing is rolled back until   *)
(* a connection closes.  A witness's attestation_hash is a perfect hash:   *)
(* the sequence of the tuples it commits to through prev_attestation_hash. *)
(***************************************************************************)
EXTENDS Integers, Sequences, FiniteSetsExt, Functions

CONSTANTS
    Ledgers, RegisterCalls, RetireCalls, AttestCalls, VerifyCalls,
    Owner,          \* Owner[c]: the Ledger a call runs on
    KeyOf,          \* the public_key_hex register_witness stores, or the signer's key_id
    SignsWith,      \* SignsWith[c]: the key an attest call signs with, a label being free
    PublicKeys,     \* PublicKeys[c]: the verifier's public keys, by key_id
    Registered,     \* the keys of the witnesses that earlier runs registered
    WitnessOf,      \* WitnessOf[c]: the witness_id a retire or an attest names
    MaxHead,        \* bound: entries in the chain
    MaxCalls,       \* bound: how many of the calls are made
    Nobody, NotRetired

Calls == RegisterCalls \cup RetireCalls \cup AttestCalls \cup VerifyCalls

\* The public keys that a witness may have.
Keys == {KeyOf[c] : c \in RegisterCalls} \cup Range(Registered)

ASSUME WitnessAssumption ==
    /\ (RegisterCalls \cup RetireCalls) \cap (AttestCalls \cup VerifyCalls) = {}
    /\ RegisterCalls \cap RetireCalls = {} /\ AttestCalls \cap VerifyCalls = {}
    /\ Owner \in [Calls -> Ledgers]
    /\ DOMAIN KeyOf = RegisterCalls \cup AttestCalls
    /\ DOMAIN SignsWith = AttestCalls /\ DOMAIN PublicKeys = VerifyCalls
    /\ Registered \in Seq(Keys)
    /\ \A i, j \in DOMAIN Registered : Registered[i] = Registered[j] => i = j
    /\ WitnessOf \in [RetireCalls \cup AttestCalls -> Nat \ {0}]
    /\ MaxHead \in Nat /\ MaxCalls \in Nat
    /\ Nobody \notin Ledgers \cup Calls /\ NotRetired \notin RetireCalls

VARIABLES
    db,        \* the committed tables: witnesses and attestations, by id
    writer,    \* the Ledger with an open write transaction, or Nobody
    work,      \* the tables as that transaction has them
    head,      \* entry_id of the chain head; 0 while the ledger is empty
    open,      \* open[l]: the Ledger has its connection
    mutex,     \* mutex[l]: the call that holds self._lock
    pc,        \* pc[c]: where a call is
    stale,     \* running calls whose connection was closed
    got,       \* got[c]: what an attest or a verify call has read so far
    wasRetired \* wasRetired[c]: the witness was already retired when attest began

vars == <<db, writer, work, head, open, mutex, pc, stale, got, wasRetired>>

WitnessRow == [key: Keys, retired_at: RetireCalls \cup {NotRetired}]

\* signed_at is the call, which happens once.
AttestationDigest == Seq(Nat \X Nat \X AttestCalls)

AttestationRow == [witness: Nat, head: Nat, call: AttestCalls, prev: AttestationDigest,
                   hash: AttestationDigest, key: Range(SignsWith)]

Tables == [witnesses: Seq(WitnessRow), attestations: Seq(AttestationRow)]

NewWitness(key) == [key |-> key, retired_at |-> NotRetired]

InitialTables == [witnesses |-> [w \in DOMAIN Registered |-> NewWitness(Registered[w])],
                  attestations |-> << >>]

NoTables == [witnesses |-> << >>, attestations |-> << >>]

View(l) == IF writer = l THEN work ELSE db

\* before: how many witnesses were committed when the call started;
\* known: the keys of the witnesses, by id, as the call has read them.
Nothing == [head |-> 0, prev |-> << >>, before |-> 0, at |-> 0, known |-> << >>, last |-> FALSE]

GenesisWitnessPrevHash == << >>

AttestationHash(w, entry, signed_at, prev) == Append(prev, <<w, entry, signed_at>>)

Done == {"done", "none", "raised", "unknown", "mismatch", "unsigned"}

Init ==
    /\ db = InitialTables /\ work = NoTables /\ writer = Nobody
    /\ head = 0
    /\ open = [l \in Ledgers |-> TRUE]
    /\ mutex = [l \in Ledgers |-> Nobody]
    /\ pc = [c \in Calls |-> "idle"]
    /\ stale = {}
    /\ got = [c \in AttestCalls \cup VerifyCalls |-> Nothing]
    /\ wasRetired = [c \in AttestCalls |-> FALSE]

\* The reads of attest_with_witness look the connection up again; every other
\* statement runs on the one captured at the start.
Connected(c) == open[Owner[c]] /\ (c \in stale => pc[c] \in {"witness", "head", "prev"})

Goto(c, label) == pc' = [pc EXCEPT ![c] = label] /\ UNCHANGED mutex

Leave(c, label) ==
    /\ pc' = [pc EXCEPT ![c] = label]
    /\ mutex' = IF mutex[Owner[c]] = c THEN [mutex EXCEPT ![Owner[c]] = Nobody] ELSE mutex

\* The statement has run; its task goes on, or was cancelled while it ran.
GotoOrRaise(c, label) == Goto(c, label) \/ Leave(c, "raised")

tables == <<db, writer, work>>

-----------------------------------------------------------------------------
\* log(), on any Ledger: the chain grows.
Log ==
    /\ head < MaxHead
    /\ head' = head + 1
    /\ UNCHANGED <<tables, open, mutex, pc, stale, got, wasRetired>>

IsRetired(t, w) == w \in 1..Len(t.witnesses) /\ t.witnesses[w].retired_at # NotRetired

Start(c) ==
    /\ pc[c] = "idle" /\ open[Owner[c]]
    /\ Cardinality({d \in Calls : pc[d] # "idle"}) < MaxCalls
    /\ Goto(c, IF c \in VerifyCalls THEN "witnesses" ELSE "waiting")
    /\ wasRetired' = IF c \in AttestCalls
                     THEN [wasRetired EXCEPT ![c] = IsRetired(db, WitnessOf[c])]
                     ELSE wasRetired
    /\ got' = IF c \in VerifyCalls THEN [got EXCEPT ![c].before = Len(db.witnesses)] ELSE got
    /\ UNCHANGED <<tables, head, open, stale>>

\* Mutant: attest_with_witness without the lock.
AcquireUnlocked(c) ==
    /\ pc[c] = "waiting"
    /\ pc' = [pc EXCEPT ![c] = IF c \in AttestCalls THEN "witness" ELSE "writing"]
    /\ UNCHANGED <<mutex, tables, head, open, stale, got, wasRetired>>

Acquire(c) ==
    /\ pc[c] = "waiting" /\ mutex[Owner[c]] = Nobody
    /\ mutex' = [mutex EXCEPT ![Owner[c]] = c]
    /\ pc' = [pc EXCEPT ![c] = IF c \in AttestCalls THEN "witness" ELSE "writing"]
    /\ UNCHANGED <<tables, head, open, stale, got, wasRetired>>

\* A DML statement: the transaction begins, or another connection has one open.
Write(c, t) ==
    /\ writer \in {Nobody, Owner[c]}
    /\ writer' = Owner[c]
    /\ work' = t
    /\ UNCHANGED db

\* register_witness: label and public_key_hex are UNIQUE; a refused insert
\* leaves the transaction open.
Register(c) ==
    LET t == View(Owner[c]) IN
    /\ c \in RegisterCalls /\ pc[c] = "writing" /\ Connected(c)
    /\ IF \E w \in 1..Len(t.witnesses) : t.witnesses[w].key = KeyOf[c]
       THEN Write(c, t) /\ Leave(c, "raised")
       ELSE /\ Write(c, [t EXCEPT !.witnesses = Append(@, NewWitness(KeyOf[c]))])
            /\ GotoOrRaise(c, "committing")
    /\ UNCHANGED <<head, open, stale, got, wasRetired>>

\* Mutant: without "AND retired_at IS NULL".
RetireAgain(c) ==
    LET t == View(Owner[c])
        w == WitnessOf[c]
    IN
    /\ c \in RetireCalls /\ pc[c] = "writing" /\ Connected(c)
    /\ IF w \in 1..Len(t.witnesses)
       THEN Write(c, [t EXCEPT !.witnesses[w].retired_at = c])
       ELSE Write(c, t)
    /\ GotoOrRaise(c, "committing")
    /\ UNCHANGED <<head, open, stale, got, wasRetired>>

\* retire_witness: UPDATE ... WHERE witness_id = ? AND retired_at IS NULL.
Retire(c) ==
    LET t == View(Owner[c])
        w == WitnessOf[c]
    IN
    /\ c \in RetireCalls /\ pc[c] = "writing" /\ Connected(c)
    /\ IF w \in 1..Len(t.witnesses) /\ ~ IsRetired(t, w)
       THEN Write(c, [t EXCEPT !.witnesses[w].retired_at = c])
       ELSE Write(c, t)
    /\ GotoOrRaise(c, "committing")
    /\ UNCHANGED <<head, open, stale, got, wasRetired>>

\* The open cursor of a walk holds SHARED; the first SELECT was fetched whole.
MayCommit(l) == \A v \in VerifyCalls \ stale : Owner[v] # l => pc[v] # "walking"

\* retire_witness reads the row back: KeyError when there is none.
Commit(c) ==
    LET l == Owner[c] IN
    /\ pc[c] = "committing" /\ Connected(c) /\ MayCommit(l)
    /\ db' = View(l)
    /\ writer' = (IF writer = l THEN Nobody ELSE writer)
    /\ work' = (IF writer = l THEN NoTables ELSE work)
    /\ \/ Leave(c, "raised")
       \/ /\ c \in RetireCalls => WitnessOf[c] \in 1..Len(View(l).witnesses)
          /\ Leave(c, "done")
    /\ UNCHANGED <<head, open, stale, got, wasRetired>>

-----------------------------------------------------------------------------
(* attest_with_witness: three reads, each its own await, then the insert. *)

\* Mutant: retired_at is not looked at.
ReadWitnessRetired(c) ==
    LET t == View(Owner[c])
        w == WitnessOf[c]
    IN
    /\ pc[c] = "witness" /\ Connected(c)
    /\ IF w \in 1..Len(t.witnesses) /\ t.witnesses[w].key = KeyOf[c]
       THEN GotoOrRaise(c, "head") ELSE Leave(c, "raised")
    /\ UNCHANGED <<tables, head, open, stale, got, wasRetired>>

\* signer.key_id is compared with the registered key; the key it signs with is not.
ReadWitness(c) ==
    LET t == View(Owner[c])
        w == WitnessOf[c]
    IN
    /\ pc[c] = "witness" /\ Connected(c)
    /\ IF /\ w \in 1..Len(t.witnesses)
          /\ ~ IsRetired(t, w)
          /\ t.witnesses[w].key = KeyOf[c]
       THEN GotoOrRaise(c, "head") ELSE Leave(c, "raised")
    /\ UNCHANGED <<tables, head, open, stale, got, wasRetired>>

ReadHead(c) ==
    /\ pc[c] = "head" /\ Connected(c)
    /\ got' = [got EXCEPT ![c].head = head]
    /\ IF head = 0 THEN Leave(c, "none") ELSE GotoOrRaise(c, "prev")
    /\ UNCHANGED <<tables, head, open, stale, wasRetired>>

\* The attestation_ids of w.
Subchain(t, w) == {i \in 1..Len(t.attestations) : t.attestations[i].witness = w}

\* Mutant: NULL for the first attestation.
HashBeforeNull(t, w, n) ==
    LET older == {i \in Subchain(t, w) : i < n}
    IN  IF older = {} THEN NotRetired ELSE t.attestations[Max(older)].hash

\* The hash of the newest attestation of w before number n.
HashBefore(t, w, n) ==
    LET older == {i \in Subchain(t, w) : i < n}
    IN  IF older = {} THEN GenesisWitnessPrevHash ELSE t.attestations[Max(older)].hash

LastHash(t, w) == HashBefore(t, w, Len(t.attestations) + 1)

\* Mutant: read on a connection of its own, which sees committed rows only.
ReadPrevCommitted(c) ==
    /\ pc[c] = "prev" /\ Connected(c)
    /\ got' = [got EXCEPT ![c].prev = LastHash(db, WitnessOf[c])]
    /\ GotoOrRaise(c, "writing")
    /\ UNCHANGED <<tables, head, open, stale, wasRetired>>

ReadPrev(c) ==
    /\ pc[c] = "prev" /\ Connected(c)
    /\ got' = [got EXCEPT ![c].prev = LastHash(View(Owner[c]), WitnessOf[c])]
    /\ GotoOrRaise(c, "writing")
    /\ UNCHANGED <<tables, head, open, stale, wasRetired>>

\* Mutant: the head is read again for the hash.
AttestFreshHead(c) ==
    LET t == View(Owner[c])
        w == WitnessOf[c]
        g == got[c]
        a == [witness |-> w, head |-> g.head, call |-> c, prev |-> g.prev,
              hash |-> AttestationHash(w, head, c, g.prev), key |-> SignsWith[c]]
    IN
    /\ c \in AttestCalls /\ pc[c] = "writing" /\ Connected(c)
    /\ Write(c, [t EXCEPT !.attestations = Append(@, a)])
    /\ GotoOrRaise(c, "committing")
    /\ UNCHANGED <<head, open, stale, got, wasRetired>>

Attest(c) ==
    LET t == View(Owner[c])
        w == WitnessOf[c]
        g == got[c]
        a == [witness |-> w, head |-> g.head, call |-> c, prev |-> g.prev,
              hash |-> AttestationHash(w, g.head, c, g.prev), key |-> SignsWith[c]]
    IN
    /\ c \in AttestCalls /\ pc[c] = "writing" /\ Connected(c)
    /\ Write(c, [t EXCEPT !.attestations = Append(@, a)])
    /\ GotoOrRaise(c, "committing")
    /\ UNCHANGED <<head, open, stale, got, wasRetired>>

-----------------------------------------------------------------------------
(* verify_witness_attestations: two statements, the lock taken by neither. *)

KeysOf(t) == [w \in 1..Len(t.witnesses) |-> t.witnesses[w].key]

\* Mutant: the witnesses that list_witnesses() returns by default.
ReadActiveWitnesses(c) ==
    /\ pc[c] = "witnesses" /\ Connected(c)
    /\ got' = [got EXCEPT ![c].known =
                  [w \in {x \in DOMAIN View(Owner[c]).witnesses : ~ IsRetired(View(Owner[c]), x)}
                       |-> View(Owner[c]).witnesses[w].key]]
    /\ GotoOrRaise(c, "listed")
    /\ UNCHANGED <<tables, head, open, stale, wasRetired>>

ReadWitnesses(c) ==
    /\ pc[c] = "witnesses" /\ Connected(c)
    /\ got' = [got EXCEPT ![c].known = KeysOf(View(Owner[c]))]
    /\ GotoOrRaise(c, "listed")
    /\ UNCHANGED <<tables, head, open, stale, wasRetired>>

\* The attestations of w whose link or hash does not hold.
Mismatched(t, w) ==
    {i \in Subchain(t, w) :
        LET a == t.attestations[i]
        IN  \/ a.prev # HashBefore(t, w, i)
            \/ a.hash # AttestationHash(a.witness, a.head, a.call, a.prev)}

\* Mutant: the key of the witness that was listed last.
UnsignedByLast(t, w, known, public) ==
    LET last == known[Max(DOMAIN known)]
    IN  {i \in Subchain(t, w) :
            ~ (last \in DOMAIN public /\ public[last] = t.attestations[i].key)}

\* Those whose signature does not verify: a verifier looks the registered key
\* up as a key_id, and accepts nothing under a key_id that it does not hold.
Unsigned(t, w, known, public) ==
    {i \in Subchain(t, w) :
        ~ (known[w] \in DOMAIN public /\ public[known[w]] = t.attestations[i].key)}

\* One witness's group of rows; the first step executes the SELECT, and the
\* first row that fails ends the walk.  SQLite sorts a group when the cursor
\* reaches it, and once it is in the last group it looks no further.  A step of
\* the walk stands for the rows aiosqlite fetches at once.
WalkGroup(c) ==
    LET t == View(Owner[c])
        g == got[c]
        ahead == {a \in {t.attestations[i].witness : i \in 1..Len(t.attestations)} : a > g.at}
        w == Min(ahead)
        broken == Mismatched(t, w)
        failing == broken \cup Unsigned(t, w, g.known, PublicKeys[c])
    IN
    /\ pc[c] \in {"listed", "walking"} /\ Connected(c)
    /\ IF ahead = {} \/ g.last
       THEN UNCHANGED got /\ Leave(c, "done")
       ELSE IF w \notin DOMAIN g.known
       THEN got' = [got EXCEPT ![c].at = w] /\ Leave(c, "unknown")
       ELSE IF failing # {}
       THEN /\ got' = [got EXCEPT ![c].at = w]
            /\ Leave(c, IF Min(failing) \in broken THEN "mismatch" ELSE "unsigned")
       ELSE /\ got' = [got EXCEPT ![c].at = w, ![c].last = (ahead = {w})]
            /\ GotoOrRaise(c, "walking")
    /\ UNCHANGED <<tables, head, open, stale, wasRetired>>

-----------------------------------------------------------------------------
(* What can go wrong under a call: it raises, and the lock is released. *)

\* "database is locked" at a write, or at a commit, which keeps the transaction.
Busy(c) ==
    /\ Connected(c)
    /\ \/ pc[c] = "writing" /\ writer \notin {Nobody, Owner[c]}
       \/ pc[c] = "committing" /\ Ledgers # {Owner[c]}
    /\ Leave(c, "raised")
    /\ UNCHANGED <<tables, head, open, stale, got, wasRetired>>

OnClosed(c) ==
    /\ pc[c] \notin {"idle", "waiting"} \cup Done /\ ~ Connected(c)
    /\ Leave(c, "raised")
    /\ stale' = stale \ {c}
    /\ UNCHANGED <<tables, head, open, got, wasRetired>>

CancelWaiting(c) ==
    /\ pc[c] = "waiting"
    /\ Goto(c, "raised")
    /\ stale' = stale \ {c}
    /\ UNCHANGED <<tables, head, open, got, wasRetired>>

\* close() takes no lock and rolls the open transaction back.
Close(l) ==
    /\ open[l]
    /\ open' = [open EXCEPT ![l] = FALSE]
    /\ writer' = (IF writer = l THEN Nobody ELSE writer)
    /\ work' = (IF writer = l THEN NoTables ELSE work)
    /\ stale' = stale \cup {c \in Calls : Owner[c] = l /\ pc[c] \notin {"idle"} \cup Done}
    /\ UNCHANGED <<db, head, mutex, pc, got, wasRetired>>

Reopen(l) ==
    /\ ~ open[l]
    /\ open' = [open EXCEPT ![l] = TRUE]
    /\ UNCHANGED <<tables, head, mutex, pc, stale, got, wasRetired>>

-----------------------------------------------------------------------------
Next ==
    \/ Log
    \/ \E c \in Calls :
          \/ Start(c)
          \/ Acquire(c)
          \/ Register(c)
          \/ Retire(c)
          \/ ReadWitness(c)
          \/ ReadHead(c)
          \/ ReadPrev(c)
          \/ Attest(c)
          \/ Commit(c)
          \/ ReadWitnesses(c)
          \/ WalkGroup(c)
          \/ Busy(c)
          \/ OnClosed(c)
          \/ CancelWaiting(c)
    \/ \E l \in Ledgers : Close(l) \/ Reopen(l)

Spec == Init /\ [][Next]_vars

-----------------------------------------------------------------------------
\* Every variable keeps its type.
TypeOK ==
    /\ db \in Tables /\ work \in Tables
    /\ writer \in Ledgers \cup {Nobody}
    /\ head \in 0..MaxHead
    /\ open \in [Ledgers -> BOOLEAN]
    /\ mutex \in [Ledgers -> Calls \cup {Nobody}]
    /\ pc \in [Calls -> {"idle", "waiting", "writing", "committing", "witness", "head",
                         "prev", "witnesses", "listed", "walking"} \cup Done]
    /\ stale \in SUBSET Calls
    /\ \A c \in DOMAIN got : /\ got[c].head \in Nat /\ got[c].at \in Nat /\ got[c].before \in Nat
                             /\ got[c].prev \in AttestationDigest /\ got[c].last \in BOOLEAN
                             /\ DOMAIN got[c].known \subseteq Nat
                             /\ Range(got[c].known) \subseteq Keys
    /\ wasRetired \in [AttestCalls -> BOOLEAN]

Linked(t, w) == \A i \in Subchain(t, w) : t.attestations[i].prev = HashBefore(t, w, i)

\* Every sub-chain any connection can read links from its genesis, although a
\* cancelled attest leaves its row in the open transaction (attest_with_witness).
SubchainsLinked ==
    \A l \in Ledgers : \A w \in 1..Len(View(l).witnesses) : Linked(View(l), w)

\* A sub-chain attests heads in the order the chain reached them, although the
\* head is read two awaits before the row is inserted.
HeadsAscend ==
    \A l \in Ledgers : \A w \in 1..Len(View(l).witnesses) :
        \A i, j \in Subchain(View(l), w) :
            i < j => View(l).attestations[i].head <= View(l).attestations[j].head

\* verify_witness_attestations never reports a broken link or hash of rows that
\* only this code wrote.
LinksVerify == \A c \in VerifyCalls : pc[c] # "mismatch"

\* Whose key_id is not the name of the key it signs with (Ed25519Signer takes both).
Mislabelled(c) == SignsWith[c] # KeyOf[c]

\* It reports that a signature failed only if its verifier does not hold the
\* registered key under that key's own name, or a signer had come in under that
\* name with another key: attest_with_witness compares the name and no more.
SignatureFailuresExplained ==
    \A c \in VerifyCalls : pc[c] = "unsigned" =>
        LET w == got[c].at
            key == got[c].known[w]
        IN  \/ ~ (key \in DOMAIN PublicKeys[c] /\ PublicKeys[c][key] = key)
            \/ \E a \in AttestCalls :
                  /\ WitnessOf[a] = w /\ KeyOf[a] = key /\ Mislabelled(a)
                  /\ pc[a] \in {"committing", "done", "raised"}

\* It reports that a witness does not exist only for one that registered
\* after it started: what was attested before, by witnesses retired since
\* too, stays verifiable (retire_witness).
UnknownIsNew == \A c \in VerifyCalls : pc[c] = "unknown" => got[c].at > got[c].before

\* An attest call that starts once a retirement is committed attests nothing.
RetiredNeverAttests == \A c \in AttestCalls : wasRetired[c] => pc[c] \notin {"none", "done"}

\* A committed retired_at is never cleared or overwritten, by whichever call
\* or Ledger (retire_witness: "preserves the original retired_at").
RetirementIsKept ==
    [][\A w \in 1..Len(db.witnesses) : IsRetired(db, w) =>
          /\ w <= Len(db'.witnesses)
          /\ db'.witnesses[w].retired_at = db.witnesses[w].retired_at]_vars

=============================================================================
