--------------------------- MODULE MCConsentFlow ---------------------------
(***************************************************************************)
(* ConsentFlow for TLC.                                                    *)
(***************************************************************************)
EXTENDS ConsentFlow, TLC

\* Nothing distinguishes one declaration, preference or content from another.
Symmetry ==
    Permutations(Declarations) \cup Permutations(Preferences) \cup Permutations(Contents)
=============================================================================
