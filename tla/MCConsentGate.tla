--------------------------- MODULE MCConsentGate ----------------------------
(***************************************************************************)
(* ConsentGate for TLC: the callers are interchangeable.                   *)
(***************************************************************************)
EXTENDS ConsentGate, TLC

Callers == Permutations(Clients)
=============================================================================
