------------------------------- MODULE MCGateway -------------------------------
(***************************************************************************)
(* Gateway for TLC: a manifest with two toolsets and a default, and one    *)
(* that declares none.                                                     *)
(***************************************************************************)
EXTENDS Gateway, TLC

CONSTANTS Sets, Plain, P, Q

DeclaresHere == [d \in Digests |-> IF d = Sets THEN {P, Q} ELSE {}]
DefaultHere == [d \in Digests |-> IF d = Sets THEN P ELSE None]

\* Requests differ in nothing but what they ask for, and every property of the
\* run is an invariant.
Alike == Permutations(Requests)
=============================================================================
