---------------------------- MODULE SessionRules ----------------------------
(***************************************************************************)
(* The pure part of the practice-session domain (core/session): the        *)
(* session row, the time protection, the check every submission passes     *)
(* before it is booked, and the advance it causes.  The PostgreSQL store   *)
(* and the in-memory store of core/session share this code, and so do the  *)
(* modules SessionPG and SessionMemory.                                    *)
(*                                                                         *)
(* Times are whole numbers of one unit (the code counts whole seconds).    *)
(***************************************************************************)
EXTENDS Integers, Sequences

CONSTANTS
    Items,      \* item_version ids
    Digests,    \* distinguishable answers to one item (the fingerprint)
    Openings,   \* what a session may be opened with: its items and whether
                \* a retest round follows them (immutable columns)
    MaxItems,   \* bound on the number of items
    TimeLimit,  \* time_limit_sec of the session
    MaxTime     \* bound of the model's clock

ASSUME ItemsAssumption   == Items # {} /\ Digests # {}
ASSUME OpeningsAssumption ==
          /\ MaxItems \in Nat
          /\ \A o \in Openings : /\ o \in [items : Seq(Items), retest : BOOLEAN]
                                 /\ Len(o.items) \in 1 .. MaxItems
ASSUME TimesAssumption   == TimeLimit \in Nat \ {0} /\ MaxTime \in Nat

Active       == "active"
RestPrompted == "rest_prompted"
Completed    == "completed"
Abandoned    == "abandoned"

Statuses == {Active, RestPrompted, Completed, Abandoned}
Terminal == {Completed, Abandoned}

Times == 0 .. MaxTime

\* The idempotency key of a submission inside one session.
Keys == [item : Items, digest : Digests]

\* The mutable columns of practice_session.  answered is answered_count,
\* closed says whether completed_at is set.
Rows == [status     : Statuses,
         index      : Nat,
         answered   : Nat,
         lastResume : Times,
         closed     : BOOLEAN]

FreshRow == [status |-> Active, index |-> 0, answered |-> 0,
             lastResume |-> 0, closed |-> FALSE]

-----------------------------------------------------------------------------
\* The uninterrupted time since the anchor; a clock that runs backwards
\* counts as no time at all.
Elapsed(anchor, at) == IF at >= anchor THEN at - anchor ELSE 0

Overdue(row, at) == Elapsed(row.lastResume, at) > TimeLimit

\* Mutation: the position in the order is not compared.
VerdictUnordered(row, opening, item, at) ==
    IF row.status = Completed           THEN "completed"
    ELSE IF row.status = Abandoned      THEN "state"
    ELSE IF Overdue(row, at)            THEN "rest_required"
    ELSE IF row.index >= Len(opening.items) THEN "completed" ELSE "ok"

\* The check of a submission against the session row.  The sequence of the
\* tests is the code's and matters: status, time protection, position.
Verdict(row, opening, item, at) ==
    IF row.status = Completed           THEN "completed"
    ELSE IF row.status = Abandoned      THEN "state"
    ELSE IF Overdue(row, at)            THEN "rest_required"
    ELSE IF row.index >= Len(opening.items)     THEN "completed"
    ELSE IF opening.items[row.index + 1] # item THEN "out_of_sequence"
    ELSE "ok"

\* The row after an accepted answer.  A session without a retest round is
\* completed by its last answer; one with a retest round stays open.
LastAnswer(row, opening) == row.index + 1 >= Len(opening.items) /\ ~opening.retest

Advance(row, opening) ==
    [row EXCEPT !.index    = @ + 1,
                !.answered = @ + 1,
                !.status   = IF LastAnswer(row, opening)
                             THEN Completed ELSE @,
                !.closed   = @ \/ LastAnswer(row, opening)]

\* What a fetch of the next item answers, judged on the row it has read.
NextVerdict(row, opening, at) ==
    IF row.status = Completed       THEN "done"
    ELSE IF row.status = Abandoned  THEN "state"
    ELSE IF Overdue(row, at)        THEN "rest_required"
    ELSE IF row.index < Len(opening.items)  THEN "item"
    ELSE IF opening.retest                  THEN "retest_unavailable"
    ELSE "done"

\* Mutation: an abandoned session may be resumed.
MayResumeUnlessCompleted(row) == row.status # Completed

\* The tests of a rest confirmation and of an abandonment, on the row read.
MayResume(row)  == row.status \notin Terminal
MayAbandon(row) == row.status # Completed
=============================================================================
