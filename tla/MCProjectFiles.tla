--------------------------- MODULE MCProjectFiles ---------------------------
(***************************************************************************)
(* ProjectFiles for TLC.                                                   *)
(***************************************************************************)
EXTENDS ProjectFiles

\* Processes and projects are told apart by nothing but their names.
Symmetry == Permutations(Procs) \cup Permutations(Projects)
=============================================================================
