--------------------------- MODULE PracticeService ---------------------------
(***************************************************************************)
(* The practice session of the Python service (session/service.py behind   *)
(* api/routers/session.py). Every request has a database session of its    *)
(* own: it reads the session row, decides on that copy, and writes the     *)
(* columns that it changed; no row is locked. An answer is scored and      *)
(* committed as a response event before the row is written.                *)
(***************************************************************************)
EXTENDS Integers, Sequences, FiniteSets, SequencesExt

CONSTANTS NONE, Calls, Items, Papers, Pool, PublishedItems, Limits, MaxTime, MaxEvents
(* Papers: paper id -> [gradeband, items: sequence of [item, token]]; Pool: *)
(* the sequences of versions a session may be started with; Limits: the    *)
(* seconds of work before a rest, by grade band.                           *)

VARIABLES
  clock,
  row,      \* the practice_session row, NoRow before the start
  events,   \* response_event rows of the session, in commit order
  pc,       \* call -> "idle", "read", "scored"
  req,      \* call -> its request
  old,      \* call -> the row it read
  mine,     \* call -> its copy with its changes
  reply     \* the last reply that was an error or an end, NONE after a success
practice == <<clock, row, events, pc, req, old, mine, reply>>

Terminal == {"completed", "abandoned"}
NoRequest == [op |-> NONE]
NoRow == [status |-> NONE]

Init ==
  /\ clock = 0 /\ row = NoRow /\ events = <<>>
  /\ pc = [c \in Calls |-> "idle"]
  /\ req = [c \in Calls |-> NoRequest]
  /\ old = [c \in Calls |-> NONE]
  /\ mine = [c \in Calls |-> NONE]
  /\ reply = NONE

(* _map_session_error: the reply of the router for an error of the service. *)
StatusOf(error) ==
  CASE error = "not_found" -> 404
    [] error \in {"rest_required", "completed", "out_of_sequence", "state"} -> 409
    [] error \in {"unpublished", "value"} -> 422
    [] OTHER -> 500
Refuse(r) == reply' = r /\ UNCHANGED <<clock, row, events, pc, req, old, mine>>
Succeed == reply' = NONE

(* start_session: exactly one of a paper and a list of versions, none of   *)
(* them empty, and every version published; a grade band that is not given *)
(* is the one of the paper.                                                *)
Sequenced(paper, given) ==
  IF paper # NONE THEN Papers[paper].items
  ELSE [i \in DOMAIN given |-> [item |-> given[i], token |-> NONE]]
Startable(paper, given, band) ==
  LET order == Sequenced(paper, given) IN
  IF \/ (paper = NONE) = (given = NONE)
     \/ paper # NONE /\ paper \notin DOMAIN Papers
  THEN "value"
  ELSE IF order = <<>> \/ band \notin DOMAIN Limits THEN "value"
  ELSE IF \E i \in DOMAIN order : order[i].item \notin PublishedItems THEN "unpublished"
  ELSE "fits"

StartSession ==
  /\ row.status = NONE
  /\ \E paper \in DOMAIN Papers \cup {NONE, "nowhere"}, given \in Pool \cup {NONE},
        asked \in {NONE, "L"}, retest \in BOOLEAN :
       LET band == IF asked = NONE /\ paper \in DOMAIN Papers THEN Papers[paper].gradeband ELSE asked
           verdict == Startable(paper, given, band)
       IN IF verdict = "fits"
          THEN /\ row' = [status |-> "active", paper |-> paper, order |-> Sequenced(paper, given), index |-> 0,
                          retest |-> retest, marks |-> <<>>, limit |-> Limits[band],
                          answered |-> 0, correct |-> 0, resumed |-> clock]
               /\ Succeed /\ UNCHANGED <<clock, events, pc, req, old, mine>>
          ELSE Refuse(StatusOf(verdict))

(* get_session_state, judged at the moment it is asked. *)
Elapsed(r) == IF clock > r.resumed THEN clock - r.resumed ELSE 0
StateOf(r) ==
  [status |-> r.status, total |-> Len(r.order), answered |-> r.answered, wrong |-> Len(r.marks),
   pending |-> Cardinality({i \in DOMAIN r.marks : r.marks[i].retest = "pending"}),
   remaining |-> r.limit - Elapsed(r)]
ReadState ==
  /\ row.status # NONE
  /\ reply' = StateOf(row).remaining
  /\ UNCHANGED <<clock, row, events, pc, req, old, mine>>

(* A mark that is being asked comes before the first one that waits. *)
RetestMark(r) ==
  LET With(s) == {i \in DOMAIN r.marks : r.marks[i].retest = s}
      First(S) == CHOOSE i \in S : \A j \in S : i <= j
  IN IF With("served") # {} THEN First(With("served"))
     ELSE IF With("pending") # {} THEN First(With("pending")) ELSE 0

\* Mutation: the last item of the sequence is left out.
MainRoundShort(r) == r.index + 1 < Len(r.order)

(* What is asked now: the next of the sequence, then a mark, then nothing. *)
MainRound(r) == r.index < Len(r.order)

Expected(r) ==
  IF MainRound(r) THEN r.order[r.index + 1].item
  ELSE IF r.retest /\ RetestMark(r) # 0 THEN r.marks[RetestMark(r)].item ELSE NONE

(* _check_time_protection: the copy becomes rest_prompted, and the error   *)
(* leaves the request before anything is committed.                        *)
RestDue(r) == r.status \notin Terminal /\ Elapsed(r) > r.limit

(* get_next_item: the copy after the item is chosen. *)
Served(r) ==
  IF Expected(r) = NONE THEN [r EXCEPT !.status = "completed"]
  ELSE IF ~MainRound(r) /\ r.marks[RetestMark(r)].retest = "pending"
       THEN [r EXCEPT !.marks[RetestMark(r)].retest = "served"] ELSE r

Requests == {[op |-> o, item |-> NONE] : o \in {"next", "resume", "abandon"}}
            \cup {[op |-> "submit", item |-> i] : i \in Items}

(* The refusals of the head of a request; "ok" if it goes on. *)
Verdict(q, r) ==
  CASE q.op = "next" ->
         IF r.status = "completed" THEN "done" ELSE IF r.status = "abandoned" THEN "state"
         ELSE IF RestDue(r) THEN "rest_required" ELSE "ok"
    [] q.op = "submit" ->
         IF r.status = "completed" THEN "completed" ELSE IF r.status = "abandoned" THEN "state"
         ELSE IF RestDue(r) THEN "rest_required"
         ELSE IF Expected(r) = NONE THEN "completed"
         ELSE IF q.item # Expected(r) THEN "out_of_sequence" ELSE "ok"
    [] q.op = "resume" -> IF r.status \in Terminal THEN "state" ELSE "ok"
    [] q.op = "abandon" -> IF r.status = "completed" THEN "state" ELSE "ok"

(* What a request other than an answer makes of its copy. *)
Changed(q, r) ==
  CASE q.op = "next" -> Served(r)
    [] q.op = "resume" -> [r EXCEPT !.status = "active", !.resumed = clock]
    [] q.op = "abandon" -> [r EXCEPT !.status = "abandoned"]
    [] OTHER -> r

Ask(c) ==
  /\ pc[c] = "idle" /\ row.status # NONE /\ Len(events) < MaxEvents
  /\ \E q \in Requests :
       IF Verdict(q, row) = "ok"
       THEN /\ pc' = [pc EXCEPT ![c] = "read"]
            /\ req' = [req EXCEPT ![c] = q]
            /\ old' = [old EXCEPT ![c] = row]
            /\ mine' = [mine EXCEPT ![c] = Changed(q, row)]
            /\ Succeed /\ UNCHANGED <<clock, row, events>>
       ELSE Refuse(IF Verdict(q, row) = "done" THEN "done" ELSE StatusOf(Verdict(q, row)))

(* score_and_record: the scorer judges the answer, and record_event commits *)
(* the event with the placement of the item in its paper.                  *)
SourceRef(r) == IF r.paper # NONE /\ MainRound(r) THEN r.order[r.index + 1].token ELSE NONE
Recorded(r, item, right) == [item |-> item, main |-> MainRound(r), right |-> right, token |-> SourceRef(r)]

(* submit_answer, after the event: progress, marks, end of the session. *)
After(r, item, right) ==
  LET counted == [r EXCEPT !.answered = @ + 1, !.correct = @ + (IF right THEN 1 ELSE 0)]
      open == {i \in DOMAIN r.marks : r.marks[i].item = item /\ r.marks[i].retest \in {"served", "pending"}}
      first == CHOOSE i \in open : \A j \in open : i <= j
      moved == IF MainRound(r)
               THEN [counted EXCEPT !.index = @ + 1,
                       !.marks = IF right THEN @
                                 ELSE Append(@, [item |-> item, retest |-> IF r.retest THEN "pending" ELSE "off"])]
               ELSE [counted EXCEPT !.marks[first].retest = IF right THEN "passed" ELSE "failed"]
  IN IF ~MainRound(moved) /\ (~r.retest \/ RetestMark(moved) = 0)
     THEN [moved EXCEPT !.status = "completed"] ELSE moved

Score(c) ==
  /\ pc[c] = "read" /\ req[c].op = "submit"
  /\ \E right \in BOOLEAN :
       /\ events' = Append(events, Recorded(old[c], req[c].item, right))
       /\ mine' = [mine EXCEPT ![c] = After(old[c], req[c].item, right)]
       /\ pc' = [pc EXCEPT ![c] = "scored"]
  /\ Succeed /\ UNCHANGED <<clock, row, req, old>>

(* The end of a request; a copy is not looked at again. *)
End(c) ==
  /\ pc' = [pc EXCEPT ![c] = "idle"]
  /\ req' = [req EXCEPT ![c] = NoRequest]
  /\ old' = [old EXCEPT ![c] = NONE]
  /\ mine' = [mine EXCEPT ![c] = NONE]

\* Mutation: the whole row is written, not the columns that were changed.
MergedWhole(now, was, new) == new

(* The update of a commit names the columns whose value has changed. *)
Merged(now, was, new) == [f \in DOMAIN now |-> IF new[f] # was[f] THEN new[f] ELSE now[f]]

Write(c) ==
  /\ pc[c] = IF req[c].op = "submit" THEN "scored" ELSE "read"
  /\ row' = Merged(row, old[c], mine[c])
  /\ End(c) /\ Succeed /\ UNCHANGED <<clock, events>>

(* A request is lost between two of its commits, or its scorer is not      *)
(* registered, which ends it without an event.                             *)
Lose(c) ==
  /\ pc[c] # "idle"
  /\ reply' \in IF pc[c] = "read" /\ req[c].op = "submit" THEN {NONE, StatusOf("scorer")} ELSE {NONE}
  /\ End(c) /\ UNCHANGED <<clock, row, events>>

Tick == clock < MaxTime /\ clock' = clock + 1 /\ Succeed /\ UNCHANGED <<row, events, pc, req, old, mine>>

Next == Tick \/ StartSession \/ ReadState \/ \E c \in Calls : Ask(c) \/ Score(c) \/ Write(c) \/ Lose(c)

-----------------------------------------------------------------------------
(* However requests overlap, are repeated or lost: a session that counts   *)
(* as completed has a recorded answer to every item of its sequence, no    *)
(* more answers are counted than recorded, and every wrong mark stands for *)
(* a wrong answer on record, one that was retested for a second answer.    *)
AnswersBacked ==
  row.status # NONE =>
    /\ row.status = "completed" =>
         \A i \in DOMAIN row.order : \E n \in DOMAIN events : events[n].main /\ events[n].item = row.order[i].item
                                                               /\ events[n].token = row.order[i].token
    /\ row.answered <= Len(events)
    /\ \A i \in DOMAIN row.marks :
         /\ \E n \in DOMAIN events : events[n].main /\ ~events[n].right /\ events[n].item = row.marks[i].item
         /\ row.marks[i].retest \in {"passed", "failed"} =>
              \E n \in DOMAIN events : ~events[n].main /\ events[n].item = row.marks[i].item
                                       /\ events[n].right = (row.marks[i].retest = "passed")

(* A session that has ended is never taken up again, although a resume     *)
(* that read it before it ended writes afterwards.                         *)
NeverReopened == row.status \in Terminal => row'.status \in Terminal
=============================================================================
