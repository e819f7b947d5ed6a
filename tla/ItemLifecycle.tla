---------------------------- MODULE ItemLifecycle ----------------------------
(***************************************************************************)
(* The lifecycle ledger of one item (core/data/health.py over the table    *)
(* item_lifecycle_transition). The state of the item is the row written    *)
(* last; a transition reads it and inserts its row with the time of the    *)
(* insert, without a lock, and the caller commits later.                   *)
(***************************************************************************)
EXTENDS Integers, FiniteSets, FiniteSetsExt

CONSTANTS NONE, Movers, MaxTransitions, Issued
(* Issued: the certificates on file; others may be named as well.          *)

VARIABLES
  history,  \* item_lifecycle_transition rows
  move,     \* mover -> what it has read and inserted
  tock      \* the clock of the database, one tick per insert
lifecycle == <<history, move, tock>>

\* Mutation: an item that was retired may be watched again.
AllowedAgain ==
  [s \in {"none", "ACTIVE", "WATCH", "QUARANTINED", "RETIRED"} |->
     CASE s = "none" -> {"ACTIVE"} [] s = "ACTIVE" -> {"WATCH", "RETIRED"}
       [] s = "WATCH" -> {"ACTIVE", "QUARANTINED", "RETIRED"} [] OTHER -> {"WATCH", "RETIRED"}]

Allowed ==
  [s \in {"none", "ACTIVE", "WATCH", "QUARANTINED", "RETIRED"} |->
     CASE s = "none" -> {"ACTIVE"}
       [] s = "ACTIVE" -> {"WATCH", "RETIRED"}
       [] s = "WATCH" -> {"ACTIVE", "QUARANTINED", "RETIRED"}
       [] s = "QUARANTINED" -> {"WATCH", "RETIRED"}
       [] s = "RETIRED" -> {}]

States == {"ACTIVE", "WATCH", "QUARANTINED", "RETIRED"}
Certified == {"QUARANTINED", "RETIRED"}

Still == [at |-> "idle", from |-> "none", row |-> NONE]
Init == history = {} /\ move = [m \in Movers |-> Still] /\ tock = 0

(* get_current_state: the row with the latest time. *)
Current(H) == IF H = {} THEN "none" ELSE (CHOOSE r \in H : \A q \in H : q.time <= r.time).to

Read(m) ==
  /\ move[m].at = "idle" /\ tock < MaxTransitions
  /\ move' = [move EXCEPT ![m] = [at |-> "read", from |-> Current(history), row |-> NONE]]
  /\ UNCHANGED <<history, tock>>

\* Mutation: a certificate is not asked for.
NeedsCertificateNever(to, cert) == FALSE

NeedsCertificate(to, cert) == to \in Certified /\ cert = NONE

(* transition_lifecycle, up to its flush. *)
Transition(m) ==
  /\ move[m].at = "read"
  /\ \E to \in States, cert \in Issued \cup {NONE, "forged"} :
       /\ to \in Allowed[move[m].from] /\ ~NeedsCertificate(to, cert)
       /\ move' = [move EXCEPT ![m].at = "flushed",
                     ![m].row = [from |-> move[m].from, to |-> to, cert |-> cert, time |-> tock + 1]]
  /\ tock' = tock + 1 /\ UNCHANGED history

(* The foreign key to the certificate is checked when the caller commits. *)
Commit(m) ==
  /\ move[m].at = "flushed"
  /\ history' = IF move[m].row.cert \in Issued \cup {NONE} THEN history \cup {move[m].row} ELSE history
  /\ move' = [move EXCEPT ![m] = Still] /\ UNCHANGED tock
Rollback(m) ==
  /\ move[m].at # "idle" /\ move' = [move EXCEPT ![m] = Still] /\ UNCHANGED <<history, tock>>

Next == \E m \in Movers : Read(m) \/ Transition(m) \/ Commit(m) \/ Rollback(m)

(* query_active_pool_item_ids: the item is served while it is there. *)
InActivePool == Current(history) \in {"ACTIVE", "WATCH"}

-----------------------------------------------------------------------------
(* A retired item does not come back to the pool, unless by a transition   *)
(* that had read it before it was retired. (An overlapping transition may  *)
(* bring it back: nothing in the table forbids that.)                      *)
RetiredStays ==
  /\ Current(history) = "RETIRED"
  /\ \A m \in Movers : move[m].at # "idle" => move[m].from = "RETIRED"
  => Current(history') = "RETIRED" /\ ~InActivePool'

(* Whatever transitions overlap, an item leaves the pool only on a         *)
(* certificate that is on file, and each row follows from a state that the *)
(* item really had before.                                                 *)
LeftOnCertificate ==
  /\ history # {} /\ ~InActivePool =>
       \E r \in history : r.to = Current(history) /\ r.cert \in Issued
  /\ \A r \in history : r.from # "none" => \E q \in history : q.time < r.time /\ q.to = r.from
=============================================================================
