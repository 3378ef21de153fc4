---------------------------- MODULE MCRegistries ----------------------------
(***************************************************************************)
(* Registries for TLC.                                                     *)
(***************************************************************************)
EXTENDS Registries, TLC

CONSTANT L

OneLauncher == [t \in Threads |-> L]

\* Numbers of processes and threads of one process are told apart by nothing.
Symmetry == Permutations(Pids) \cup Permutations(Threads)
=============================================================================
