------------------------------ MODULE MCWitness ------------------------------
(* Instances of Witness for TLC. *)
EXTENDS Witness, TLC

CONSTANTS p, q, r1, t1, t2, a1, a2, a3, v, key1, key2, key3

\* Two Ledgers attest, each for its witness; the first also registers and retires
\* the witness of the second.
MCOneLedgerPerWitness == [c \in Calls |-> IF c \in {a3, v} THEN q ELSE p]

\* a2 on the second Ledger.
MCAttestOnTwo == [c \in Calls |-> IF c = a2 THEN q ELSE p]

\* a1 and a2 are the same call made twice, and so are t1 and t2.
MCSymmetry == Permutations({a1, a2}) \cup Permutations({t1, t2})

\* The first witness is registered; r1 registers the second, for a3,
\* and t1 and t2 retire it.
MCRegistered == <<key1>>

MCKeyOf == [c \in RegisterCalls \cup AttestCalls |-> IF c \in {r1, a3} THEN key2 ELSE key1]

\* The signer of a3 is constructed with the name of one key and another key; the
\* verifier holds both witnesses' keys.
MCSignsWith == [c \in AttestCalls |-> IF c = a3 THEN key3 ELSE key1]

MCPublicKeys == [c \in VerifyCalls |-> [k \in {key1, key2} |-> k]]

MCWitnessOf == [c \in RetireCalls \cup AttestCalls |-> IF c \in {t1, t2, a3} THEN 2 ELSE 1]

=============================================================================
