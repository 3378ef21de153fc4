---------------------------- MODULE MCTrustStore ----------------------------
(***************************************************************************)
(* TrustStore for TLC.                                                     *)
(***************************************************************************)
EXTENDS TrustStore

\* Either every sentinel a process leaves behind is recovered from by its age,
\* or removals fail and the behaviour ends within STORE_LOCK_STALE of them.
RecoveringOrShort == {[ages |-> TRUE, removalFails |-> FALSE],
                      [ages |-> FALSE, removalFails |-> TRUE]}

\* A sentinel grows stale while several processes wait for it.
Recovering == {[ages |-> TRUE, removalFails |-> FALSE]}
=============================================================================
