---------------------------- MODULE MCSessionPG -----------------------------
(***************************************************************************)
(* SessionPG for TLC.                                                      *)
(***************************************************************************)
EXTENDS SessionPG, TLC

CONSTANTS a, b

Opened(items, retest) == [items |-> items, retest |-> retest]

\* Two different items, and one item twice (no code forbids it).
Pairs  == {Opened(<<a, b>>, FALSE), Opened(<<a, a>>, TRUE)}

Single == {Opened(<<a>>, retest) : retest \in BOOLEAN}

\* Only the runs without liveness use this symmetry.
Callers == UNION {Permutations(S) : S \in {Clients, Spellings, Digests}}
=============================================================================
