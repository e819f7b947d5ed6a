------------------------------ MODULE MCIngest ------------------------------
(***************************************************************************)
(* Ingest for TLC: two items of one template and one of another, a line    *)
(* that fails both checks under the key of a good one, and a broken line.  *)
(***************************************************************************)
EXTENDS Ingest, TLC

CONSTANTS one, two, other, forged, broken

Inputs == {<<one, forged, two, one>>, <<other, two, broken, one>>}

Templates == (one :> "t1") @@ (two :> "t1") @@ (forged :> "t1") @@ (broken :> "t1")
                 @@ (other :> "t2")
Specs     == (one :> "s1") @@ (two :> "s1") @@ (forged :> "s1") @@ (broken :> "s1")
                 @@ (other :> "s2")
Ids       == (one :> "i1") @@ (two :> "i2") @@ (forged :> "i1") @@ (broken :> "i1")
                 @@ (other :> "i3")
Verdicts  == [l \in Lines |-> IF l = forged THEN Validators ELSE {}]
=============================================================================
