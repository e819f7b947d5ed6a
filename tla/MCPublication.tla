--------------------------- MODULE MCPublication ---------------------------
(***************************************************************************)
(* Publication for TLC: item i1 with two good versions, item i2 with a     *)
(* good version and one without a snapshot; two certificates for v1, and   *)
(* one for retiring v2.                                                    *)
(***************************************************************************)
EXTENDS Publication, TLC

CONSTANTS v1, v2, v3, v4, i1, i2, c1a, c1b, c2, c3, c4, r2

Owners   == (v1 :> i1) @@ (v2 :> i1) @@ (v3 :> i2) @@ (v4 :> i2)
Bindings == (c1a :> v1) @@ (c1b :> v1) @@ (c2 :> v2) @@ (r2 :> v2) @@ (c3 :> v3) @@ (c4 :> v4)

\* Callers and keys are interchangeable.
Swaps == Permutations(Callers) \cup Permutations(PublicationIds)
=============================================================================
