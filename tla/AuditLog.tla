------------------------------ MODULE AuditLog ------------------------------
(***************************************************************************)
(* What a Ledger promises the callers of log(), without locks, statements  *)
(* or transactions: one durable chain that only grows, a returned call     *)
(* whose row is in it, a raised call whose row may still appear, once.     *)
(***************************************************************************)
EXTENDS Chain, SequencesExt

CONSTANTS LogCalls, InitialTables

VARIABLES
    log,      \* the durable chain
    status    \* status[c]: "idle", "called", "returned", "raised" or "lost"

logVars == <<log, status>>

Recorded(c, rows) == \E i \in 1..Len(rows) : rows[i].body = c

AuditInit ==
    /\ log \in InitialTables
    /\ status = [c \in LogCalls |-> "idle"]

Call(c) ==
    /\ status[c] = "idle"
    /\ status' = [status EXCEPT ![c] = "called"]
    /\ UNCHANGED log

\* A raised call says nothing about its row.
Fail(c) ==
    /\ status[c] \in {"idle", "called"}
    /\ status' = [status EXCEPT ![c] = "raised"]
    /\ UNCHANGED log

\* The calling process dies: a row not durable by now never will be.
Die(S) ==
    /\ S # {} /\ \A c \in S : status[c] = "called"
    /\ status' = [c \in LogCalls |-> IF c \in S THEN "lost" ELSE status[c]]
    /\ UNCHANGED log

\* The chain grows by rows of calls that were made and are not in it yet.
Grows ==
    /\ IsStrictPrefix(log, log')
    /\ ValidChain(log', Key)
    /\ \A i \in Len(log) + 1 .. Len(log') :
          /\ log'[i].entry_id = i
          /\ log'[i].body \in LogCalls
          /\ status[log'[i].body] \in {"called", "raised"}
          /\ \A j \in 1 .. i - 1 : log'[j].body # log'[i].body

\* A call returns the moment its row is durable.
Return(c) ==
    /\ status[c] = "called"
    /\ ~ Recorded(c, log) /\ Recorded(c, log')
    /\ status' = [status EXCEPT ![c] = "returned"]

\* A call raises although its row becomes durable, or rows of raised calls do.
Settle ==
    \/ UNCHANGED status
    \/ \E c \in LogCalls : /\ status[c] = "called"
                           /\ status' = [status EXCEPT ![c] = "raised"]

AuditNext ==
    \/ \E c \in LogCalls : Call(c) \/ Fail(c)
    \/ \E S \in SUBSET LogCalls : Die(S)
    \/ Grows /\ ((\E c \in LogCalls : Return(c)) \/ Settle)

AuditSpec == AuditInit /\ [][AuditNext]_logVars
=============================================================================
