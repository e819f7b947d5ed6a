----------------------------- MODULE TopicOrder -----------------------------
(***************************************************************************)
(* The fixation of the order of a session (core/session/topicorder*.go).   *)
(* Create stores an order once and answers a repetition from what is       *)
(* stored. Over PostgreSQL it runs in a transaction of its caller, in      *)
(* memory under a mutex.                                                   *)
(***************************************************************************)
EXTENDS Integers, FiniteSets

CONSTANTS NONE, Starters, Orders
(* Orders: [items, tokens], in the order of their numbers (sortEntries).   *)

VARIABLES
  store,    \* "pg" or "memory"
  sequence, \* the stored item_sequence, NONE before
  create    \* caller -> its call
fixation == <<store, sequence, create>>

Quiet == [at |-> "idle", asked |-> NONE, reply |-> NONE]
Init ==
  /\ store \in {"pg", "memory"} /\ sequence = NONE
  /\ create = [c \in Starters |-> Quiet]

Tell(c, reply) == create' = [create EXCEPT ![c].at = "told", ![c].reply = reply]

Ask(c, o) ==
  /\ create[c].at \in {"idle", "told"}
  /\ create' = [create EXCEPT ![c] = [Quiet EXCEPT !.at = "insert", !.asked = o]]
  /\ UNCHANGED <<store, sequence>>

\* Mutation: the placement tokens are not compared.
SameItems(a, b) == a.items = b.items

(* equalEntries *)
Same(a, b) == a.items = b.items /\ a.tokens = b.tokens

(* MemoryStore.Create, one critical section. *)
Fix(c) ==
  /\ store = "memory" /\ create[c].at = "insert"
  /\ sequence' = IF sequence = NONE THEN create[c].asked ELSE sequence
  /\ Tell(c, IF sequence = NONE \/ Same(sequence, create[c].asked) THEN "fixed" ELSE "conflict")
  /\ UNCHANGED store

(* The insert waits for an uncommitted row with its key. After a duplicate *)
(* key PostgreSQL answers the read of the stored order, too, with an error *)
(* (25P02): the transaction is aborted.                                    *)
Insert(c) ==
  /\ store = "pg" /\ create[c].at = "insert"
  /\ \A d \in Starters : create[d].at # "commit"
  /\ \/ sequence = NONE /\ create' = [create EXCEPT ![c].at = "commit"]
     \/ sequence # NONE /\ Tell(c, "error")
  /\ UNCHANGED <<store, sequence>>

(* The caller commits, the reply may be lost; or nothing is committed.     *)
Commit(c) ==
  /\ create[c].at = "commit"
  /\ \/ sequence' = create[c].asked /\ (Tell(c, "fixed") \/ Tell(c, "lost"))
     \/ UNCHANGED sequence /\ Tell(c, "lost")
  /\ UNCHANGED store

Next == \E c \in Starters : (\E o \in Orders : Ask(c, o)) \/ Fix(c) \/ Insert(c) \/ Commit(c)

-----------------------------------------------------------------------------
(* Who was told that an order is fixed asked for the one that is stored,   *)
(* tokens included; who was told of a conflict asked for another.          *)
OrderTold ==
  \A c \in Starters :
    /\ create[c].reply = "fixed" => create[c].asked = sequence
    /\ create[c].reply = "conflict" => create[c].asked # sequence
=============================================================================
