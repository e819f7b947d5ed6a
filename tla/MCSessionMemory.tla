-------------------------- MODULE MCSessionMemory ---------------------------
(***************************************************************************)
(* SessionMemory for TLC.                                                  *)
(***************************************************************************)
EXTENDS SessionMemory, TLC

CONSTANTS a, b

Opened(items, retest) == [items |-> items, retest |-> retest]

\* Two different items, and one item twice (no code forbids it).
Pairs == {Opened(<<a, b>>, FALSE), Opened(<<a, a>>, TRUE)}

Callers == Permutations(Clients) \cup Permutations(Digests)
=============================================================================
