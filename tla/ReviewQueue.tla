----------------------------- MODULE ReviewQueue -----------------------------
(***************************************************************************)
(* The wrong-answer review queue of one student (core/review). The queue   *)
(* is a fold over the response events in the order of their creation; a    *)
(* sync reads the events, then the stored entries, and writes the columns  *)
(* in which they differ. Syncs of one student may overlap, and an event    *)
(* may be committed after one that was created later.                      *)
(***************************************************************************)
EXTENDS Integers, Sequences, FiniteSets, SequencesExt, FiniteSetsExt

CONSTANTS NONE, Reviewed, Syncs, Intervals, MaxAnswers, MaxDays
(* Intervals: the days of the policy version, a non-empty sequence.        *)

VARIABLES
  today,
  answers,  \* the response events of the student, a set
  queue,    \* item -> its review_queue_entry, NONE if there is none
  sync      \* sync -> what it has read so far
review == <<today, answers, queue, sync>>

Idle == [at |-> "idle", want |-> NONE, have |-> NONE]
Init ==
  /\ today = 0 /\ answers = {}
  /\ queue = [i \in Reviewed |-> NONE]
  /\ sync = [s \in Syncs |-> Idle]

(* derive_correctness: the verdict of the scoring process if it has one,   *)
(* wrong if an error was inferred, undecided otherwise.                    *)
Correctness(a) ==
  IF a.process # NONE THEN a.process ELSE IF a.errors # <<>> THEN "wrong" ELSE NONE

DueAt(day, stage) == day + Intervals[stage + 1]

\* Mutation: the item is done one interval too early.
AfterRightEarly(e, a) ==
  IF e.stage + 2 >= Len(Intervals) THEN [e EXCEPT !.status = "done", !.last = a.id]
  ELSE [e EXCEPT !.stage = @ + 1, !.due = DueAt(a.day, e.stage + 1), !.last = a.id]

(* apply_event: a wrong answer starts over, a right one moves a pending    *)
(* item to its next interval, and past the last interval it is done.       *)
AfterRight(e, a) ==
  IF e.stage + 1 >= Len(Intervals) THEN [e EXCEPT !.status = "done", !.last = a.id]
  ELSE [e EXCEPT !.stage = @ + 1, !.due = DueAt(a.day, e.stage + 1), !.last = a.id]

Apply(e, a) ==
  CASE Correctness(a) = "wrong" ->
         [stage |-> 0, status |-> "pending", enqueued |-> IF e = NONE THEN a.day ELSE e.enqueued,
          due |-> DueAt(a.day, 0), source |-> IF a.errors = <<>> THEN NONE ELSE a.errors[1], last |-> a.id]
    [] Correctness(a) = "right" /\ e # NONE /\ e.status = "pending" -> AfterRight(e, a)
    [] OTHER -> e

(* rebuild_queue over the events ordered by creation and id: the latest    *)
(* event of an item is applied to what the earlier ones of it lead to.     *)
Before(a, b) == a.day < b.day \/ (a.day = b.day /\ a.id < b.id)
Latest(S) == CHOOSE a \in S : \A b \in S \ {a} : Before(b, a)
Replay(S) ==
  LET entry[T \in SUBSET S] == IF T = {} THEN NONE ELSE Apply(entry[T \ {Latest(T)}], Latest(T))
  IN entry[S]
Rebuild(S) == [i \in Reviewed |-> Replay({a \in S : a.item = i})]

Answer ==
  /\ Cardinality(answers) < MaxAnswers
  /\ \E i \in Reviewed, day \in 0..today, id \in (1..MaxAnswers) \ {a.id : a \in answers},
        p \in {"right", "wrong", NONE}, errors \in {<<>>, <<"slip">>} :
       answers' = answers \cup {[id |-> id, item |-> i, day |-> day, process |-> p, errors |-> errors]}
  /\ UNCHANGED <<today, queue, sync>>

(* sync_review_queue reads the events and folds them, reads the entries,   *)
(* and writes in one commit.                                               *)
ReadAnswers(s) ==
  /\ sync[s].at = "idle"
  /\ sync' = [sync EXCEPT ![s] = [at |-> "folded", want |-> Rebuild(answers), have |-> NONE]]
  /\ UNCHANGED <<today, answers, queue>>

ReadEntries(s) ==
  /\ sync[s].at = "folded"
  /\ sync' = [sync EXCEPT ![s].at = "read", ![s].have = queue]
  /\ UNCHANGED <<today, answers, queue>>

\* Mutation: a new due day alone does not make the entry differ.
DiffersCoarse(have, want) == \E f \in {"stage", "status", "source"} : have[f] # want[f]

(* The day of enqueuing is compared by nothing and never written again. *)
Differs(have, want) == \E f \in {"stage", "status", "due", "last", "source"} : have[f] # want[f]

(* The update of a commit names only the columns that changed. *)
Updated(now, have, want) ==
  IF ~Differs(have, want) THEN now
  ELSE [f \in DOMAIN now |-> IF f # "enqueued" /\ want[f] # have[f] THEN want[f] ELSE now[f]]

(* The unique key of student, item and policy refuses a second entry, and  *)
(* with it everything the sync would have written.                         *)
WriteEntries(s) ==
  LET want == sync[s].want  have == sync[s].have
      new == {i \in Reviewed : want[i] # NONE /\ have[i] = NONE}
  IN /\ sync[s].at = "read"
     /\ queue' = IF \E i \in new : queue[i] # NONE THEN queue
                 ELSE [i \in Reviewed |-> IF want[i] = NONE THEN queue[i]
                                          ELSE IF i \in new THEN want[i]
                                          ELSE Updated(queue[i], have[i], want[i])]
     /\ sync' = [sync EXCEPT ![s] = Idle]
     /\ UNCHANGED <<today, answers>>

NewDay == today < MaxDays /\ today' = today + 1 /\ UNCHANGED <<answers, queue, sync>>

Next == NewDay \/ Answer \/ \E s \in Syncs : ReadAnswers(s) \/ ReadEntries(s) \/ WriteEntries(s)

(* get_due_reviews: the pending entries that are due, at most a page. *)
Due(q, day, page) ==
  LET due == {i \in Reviewed : q[i] # NONE /\ q[i].status = "pending" /\ q[i].due <= day}
      First(n) == CHOOSE S \in kSubset(n, due) : \A i \in S, j \in due \ S : q[i].due <= q[j].due
  IN IF Cardinality(due) <= page THEN due ELSE First(page)

-----------------------------------------------------------------------------
(* Whatever order the answers were committed in, the fold says what their  *)
(* history says. An item is queued if it was ever answered wrong; from the *)
(* last wrong answer w on its stage is the number of right ones, and it is *)
(* done when they are as many as the intervals of the policy; it is due an *)
(* interval after the answer that brought it to its stage.                 *)
RebuildCounts ==
  \A i \in Reviewed :
    LET told == {a \in answers : a.item = i /\ Correctness(a) # NONE}
        e == Rebuild(answers)[i]
        After(w) == {a \in told : Before(w, a)}
    IN /\ (e = NONE) <=> (\A a \in told : Correctness(a) # "wrong")
       /\ \A w \in told : Correctness(w) = "wrong" /\ (\A a \in After(w) : Correctness(a) # "wrong") =>
            LET rights == Cardinality(After(w)) IN
            /\ e.status = IF rights >= Len(Intervals) THEN "done" ELSE "pending"
            /\ e.stage = Min({rights, Len(Intervals) - 1})
            /\ \E a \in {w} \cup After(w) :
                 e.stage = Cardinality({b \in After(w) : ~Before(a, b)}) /\ e.due = DueAt(a.day, e.stage)

(* Overlapping syncs may leave an entry with columns of two states. The    *)
(* next sync that is alone and has seen every answer repairs all of it:    *)
(* what it leaves due, on any day, is what the answers make due.           *)
SyncRestores ==
  \A s \in Syncs :
    /\ sync[s].at = "read" /\ sync'[s].at = "idle"
    /\ sync[s].have = queue /\ sync[s].want = Rebuild(answers)
    => \A day \in 0..(MaxDays + Max(Range(Intervals))) :
         Due(queue', day, Cardinality(Reviewed)) = Due(Rebuild(answers), day, Cardinality(Reviewed))
=============================================================================
