---------------------------- MODULE TrustLedger -----------------------------
(***************************************************************************)
(* What the trust store promises its callers, with no file, no lock and no *)
(* process: mutations happen one at a time, each reads the entry it        *)
(* changes at the instant it changes it, and the mutation log lists them   *)
(* in the order they happened.  A line may be missing (recording is best   *)
(* effort and a process may die first) but never out of order.             *)
(*                                                                         *)
(* TrustStore implements this specification.                               *)
(***************************************************************************)
EXTENDS TrustEntries, Sequences

VARIABLES
    store,     \* the trust decisions
    owed,      \* the line of the last mutation while it is not in the log yet
    log        \* audit/trust.jsonl, oldest first

ledgerVars == <<store, owed, log>>

LedgerInit ==
    /\ store = EmptyStore
    /\ owed = NoEvent
    /\ log = <<>>

\* One mutation, atomic: nothing is granted, re-pinned, revoked or answered
\* against an entry that has changed since it was read.
Mutate(call) ==
    /\ owed = NoEvent
    /\ Writes(store[call.project], call)
    /\ store' = Applied(store, call)
    /\ owed' = Event(store[call.project], call)
    /\ UNCHANGED log

Record ==
    /\ owed # NoEvent
    /\ log' = Append(log, owed)
    /\ owed' = NoEvent
    /\ UNCHANGED store

Lose ==
    /\ owed # NoEvent
    /\ owed' = NoEvent
    /\ UNCHANGED <<store, log>>

LedgerNext ==
    \/ \E call \in Call : Mutate(call)
    \/ Record
    \/ Lose

LedgerSpec == LedgerInit /\ [][LedgerNext]_ledgerVars
=============================================================================
