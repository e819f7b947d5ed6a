---------------------------- MODULE AnswerLedger ----------------------------
(***************************************************************************)
(* What the answer ledger of one practice session promises, whichever      *)
(* store keeps it: the answers are the items of a fixed order, booked one  *)
(* by one and never changed; a submission is acknowledged with the event   *)
(* it was booked as, however often it is repeated; and the session is      *)
(* closed by exactly the answer that exhausts the order, unless a retest   *)
(* round follows.  Clocks, statuses, locks, transactions and crashes do    *)
(* not appear here.                                                        *)
(***************************************************************************)
EXTENDS Sequences, Integers

CONSTANTS Items, Digests, EventIds, Openings

VARIABLES
    opening,  \* the items in order, and whether a retest round follows them
    answers,  \* the booked answers, in booking order
    acks,     \* every acknowledgement a caller was ever given
    closed    \* whether the session was closed by its last answer

vars == <<opening, answers, acks, closed>>

Entries == [id : EventIds, item : Items, digest : Digests]

Booked == {answers[i] : i \in DOMAIN answers}

Init == /\ opening \in Openings
        /\ answers = <<>>
        /\ acks = {}
        /\ closed = FALSE

\* Book the next item of the order, with or without the caller learning it.
Book(entry) ==
    /\ Len(answers) < Len(opening.items)
    /\ entry.item = opening.items[Len(answers) + 1]
    /\ \A e \in Booked : /\ e.id # entry.id
                         /\ <<e.item, e.digest>> # <<entry.item, entry.digest>>
    /\ answers' = Append(answers, entry)
    /\ acks' \in {acks, acks \cup {entry}}
    /\ closed' = (Len(answers) + 1 = Len(opening.items) /\ ~opening.retest)
    /\ UNCHANGED opening

\* Tell a caller (again) what its answer was booked as.
Acknowledge(entry) ==
    /\ entry \in Booked
    /\ acks' = acks \cup {entry}
    /\ UNCHANGED <<opening, answers, closed>>

Next == \E entry \in Entries : Book(entry) \/ Acknowledge(entry)

Spec == Init /\ [][Next]_vars
=============================================================================
