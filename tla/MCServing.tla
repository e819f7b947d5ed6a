----------------------------- MODULE MCServing ------------------------------
(* Two callers of each service over one or two rows of what it keeps. *)
EXTENDS Serving, TLC

CONSTANTS u1, u2, m1, m2

MCPapers == [p |-> [gradeband |-> "L", items |-> <<[item |-> "i1", token |-> "x"], [item |-> "i2", token |-> "y"]>>]]
MCPool == {<<"i1">>, <<"i3">>, <<>>}
MCLimits == [L |-> 1]
MCIntervals == <<1, 2>>
MCParams == (m1 :> 5) @@ (m2 :> NONE)
MCBands == [L |-> [wpm |-> 120, voice |-> "amy"], M |-> [wpm |-> 140, voice |-> "amy"]]
MCOrders == {[items |-> "i", tokens |-> "x"], [items |-> "i", tokens |-> "y"], [items |-> "k", tokens |-> "x"]}
MCVoices == [amy |-> "engine"]

Callers == Permutations({u1, u2})
=============================================================================
