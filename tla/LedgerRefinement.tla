-------------------------- MODULE LedgerRefinement --------------------------
(* The Ledgers over one file implement AuditLog: the durable chain is the  *)
(* committed table, and a call's status is what its caller has been told.  *)
EXTENDS Ledger

Status(label) ==
    CASE label = "idle" -> "idle"
      [] label = "done" -> "returned"
      [] label \in {"raised", "lost"} -> label
      [] OTHER -> "called"

Audit == INSTANCE AuditLog WITH
    log <- entries,
    status <- [c \in LogCalls |-> Status(pc[c])]

\* Every behaviour of the Ledgers, with any number of them on one file, is a
\* behaviour of the abstract log (chain.py log, commit and close).
ImplementsAuditLog == Audit!AuditSpec
=============================================================================
