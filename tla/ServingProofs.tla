---------------------------- MODULE ServingProofs ----------------------------
(***************************************************************************)
(* Theorems about the services of Serving, for any number of callers, any  *)
(* papers, certificates, candidates and days.                              *)
(*                                                                         *)
(* The practice session writes unlocked copies back. What saves it is that *)
(* a copy never says more than the events on record (Copy), that events    *)
(* only grow, and that a merge takes every column from one of two copies.  *)
(*                                                                         *)
(* The life cycle and the ledgers lock nothing either: the one is saved by *)
(* rows that are never taken away, so that what a transition has read was  *)
(* in force once, the others by unique keys on which an insert waits. The  *)
(* export is safe as long as no two runs of it overlap; the estimator and  *)
(* the order of a session are, because of a lock and of a unique key.      *)
(*                                                                         *)
(* The review queue is a fold: what a history of answers leads to is shown *)
(* by induction on the number of answers, and a sync that is alone then    *)
(* repairs what others mixed. The bus counts what was paid and not booked; *)
(* the threads of an audio batch may only ever exchange equal recordings.  *)
(***************************************************************************)
EXTENDS Serving, SequenceTheorems, FiniteSetTheorems, WellFoundedInduction, TLAPS

Slots == [item : STRING, token : STRING \cup {NONE}]
Marks == [item : STRING, retest : {"off", "pending", "served", "passed", "failed"}]
Events == [item : STRING, main : BOOLEAN, right : BOOLEAN, token : STRING \cup {NONE}]
Columns == {"status", "paper", "order", "index", "retest", "marks", "limit", "answered", "correct", "resumed"}

\* An answer to a place of the sequence, and the answers behind a mark.
HasAnswer(slot, E) == \E n \in DOMAIN E : E[n].main /\ E[n].item = slot.item /\ E[n].token = slot.token
HasWrong(mark, E) == \E n \in DOMAIN E : E[n].main /\ ~E[n].right /\ E[n].item = mark.item
HasRetest(mark, E) ==
  mark.retest \in {"passed", "failed"} =>
    \E n \in DOMAIN E : ~E[n].main /\ E[n].item = mark.item /\ E[n].right = (mark.retest = "passed")

\* A copy of the row, stale or changed, says no more than the events E.
Copy(r, E) ==
  /\ DOMAIN r = Columns
  /\ r.status \in {"active", "completed", "abandoned"}
  /\ r.order \in Seq(Slots) /\ r.marks \in Seq(Marks) /\ r.index \in Nat /\ r.answered \in Nat
  /\ r.paper = NONE => \A i \in DOMAIN r.order : r.order[i].token = NONE
  /\ \A i \in DOMAIN r.order : i <= r.index \/ r.status = "completed" => HasAnswer(r.order[i], E)
  /\ r.answered <= Len(E)
  /\ \A i \in DOMAIN r.marks : HasWrong(r.marks[i], E) /\ HasRetest(r.marks[i], E)

SameSession(r, s) == r.order = s.order /\ r.paper = s.paper

\* What a request holds: two copies of the session, and one of them does not
\* take an end back.
Asking(c) ==
  pc[c] # "idle" =>
    /\ row.status # NONE
    /\ Copy(old[c], events) /\ SameSession(old[c], row)
    /\ Copy(mine[c], events) /\ SameSession(mine[c], row)
    /\ mine[c].status # old[c].status => mine[c].status \in P!Terminal
    /\ pc[c] = "read" /\ req[c].op = "submit" => req[c].item = P!Expected(old[c]) /\ req[c].item # NONE

PracticeInv ==
  /\ events \in Seq(Events) /\ pc \in [Calls -> {"idle", "read", "scored"}]
  /\ DOMAIN req = Calls /\ DOMAIN old = Calls /\ DOMAIN mine = Calls
  /\ row.status # NONE => Copy(row, events)
  /\ \A c \in Calls : Asking(c)

-----------------------------------------------------------------------------
\* Every set of natural numbers that has a member has a least one.
LEMMA Least == ASSUME NEW T \in SUBSET Nat, T # {} PROVE \E i \in T : \A j \in T : i <= j
<1> DEFINE Below == {ss \in Nat \X Nat : ss[1] < ss[2]}
<1>1. IsWellFoundedOn(Below, Nat)
  BY NatLessThanWellFounded DEF OpToRel
<1>2. PICK x \in T : \A y \in T : <<y, x>> \notin Below
  <2> HIDE DEF Below
  <2> QED
    BY <1>1, WFMin
<1>3. \A y \in T : ~(y < x)
  BY <1>2
<1> QED
  BY <1>3

\* The places of the marks that RetestMark looks at.
LEMMA RetestMarkFacts ==
  ASSUME NEW r, r.marks \in Seq(Marks), P!RetestMark(r) # 0
  PROVE  /\ P!RetestMark(r) \in DOMAIN r.marks
         /\ r.marks[P!RetestMark(r)].retest \in {"served", "pending"}
<1> DEFINE With(s) == {i \in DOMAIN r.marks : r.marks[i].retest = s}
           First(S) == CHOOSE i \in S : \A j \in S : i <= j
<1>1. \A s : With(s) \in SUBSET Nat
  OBVIOUS
<1>2. ASSUME NEW s, With(s) # {} PROVE First(With(s)) \in With(s)
  <2>1. \E i \in With(s) : \A j \in With(s) : i <= j
    BY <1>1, <1>2, Least
  <2> QED
    BY <2>1
<1>3. P!RetestMark(r) = IF With("served") # {} THEN First(With("served"))
                        ELSE IF With("pending") # {} THEN First(With("pending")) ELSE 0
  BY DEF P!RetestMark
<1> HIDE DEF First
<1> QED
  BY <1>2, <1>3

\* More events take nothing away from a copy.
LEMMA CopyGrows ==
  ASSUME NEW r, NEW E \in Seq(Events), NEW e \in Events, Copy(r, E)
  PROVE  Copy(r, Append(E, e))
<1>1. /\ Len(Append(E, e)) = Len(E) + 1 /\ Len(E) \in Nat
      /\ \A n \in DOMAIN E : n \in DOMAIN Append(E, e) /\ Append(E, e)[n] = E[n]
  OBVIOUS
<1>2. \A slot : HasAnswer(slot, E) => HasAnswer(slot, Append(E, e))
  BY <1>1 DEF HasAnswer
<1>3. \A mark : HasWrong(mark, E) => HasWrong(mark, Append(E, e))
  BY <1>1 DEF HasWrong
<1>4. \A mark : HasRetest(mark, E) => HasRetest(mark, Append(E, e))
  BY <1>1 DEF HasRetest
<1> QED
  BY <1>1, <1>2, <1>3, <1>4 DEF Copy

\* A merge takes every column from the row or from the copy, and the columns
\* of the sequence are the same in both.
LEMMA MergedCopy ==
  ASSUME NEW E, NEW now, NEW was, NEW new, Copy(now, E), Copy(new, E),
         SameSession(was, now), SameSession(new, now)
  PROVE  /\ Copy(P!Merged(now, was, new), E) /\ SameSession(P!Merged(now, was, new), now)
         /\ P!Merged(now, was, new).status = IF new.status # was.status THEN new.status ELSE now.status
<1> DEFINE m == P!Merged(now, was, new)
<1>1. DOMAIN m = Columns /\ \A f \in Columns : m[f] = IF new[f] # was[f] THEN new[f] ELSE now[f]
  BY DEF P!Merged, Copy
<1> HIDE DEF m
<1>2. /\ m.order = now.order /\ m.paper = now.paper
      /\ m.status = IF new.status # was.status THEN new.status ELSE now.status
      /\ m.index \in {new.index, now.index} /\ m.answered \in {new.answered, now.answered}
      /\ m.marks \in {new.marks, now.marks}
  BY <1>1 DEF Columns, SameSession
<1>3. \A i \in DOMAIN m.order : i <= m.index \/ m.status = "completed" => HasAnswer(m.order[i], E)
  BY <1>2 DEF Copy, SameSession
<1>4. \A i \in DOMAIN m.marks : HasWrong(m.marks[i], E) /\ HasRetest(m.marks[i], E)
  BY <1>2 DEF Copy
<1>5. Copy(m, E)
  BY <1>1, <1>2, <1>3, <1>4 DEF Copy
<1> QED
  BY <1>2, <1>5 DEF m, SameSession

\* A mark moves on without leaving its item.
LEMMA MarkMoves ==
  ASSUME NEW marks \in Seq(Marks), NEW k \in DOMAIN marks,
         NEW t \in {"off", "pending", "served", "passed", "failed"},
         NEW new, new = [marks EXCEPT ![k].retest = t]
  PROVE  /\ new \in Seq(Marks) /\ DOMAIN new = DOMAIN marks
         /\ new[k].item = marks[k].item /\ new[k].retest = t
         /\ \A i \in DOMAIN marks : i # k => new[i] = marks[i]
<1>1. \A m \in Marks : LET n == [m EXCEPT !.retest = t] IN n \in Marks /\ n.item = m.item /\ n.retest = t
  BY DEF Marks
<1>2. new = [marks EXCEPT ![k] = [marks[k] EXCEPT !.retest = t]]
  OBVIOUS
<1>3. marks[k] \in Marks
  OBVIOUS
<1> DEFINE n == [marks[k] EXCEPT !.retest = t]
<1>4. n \in Marks /\ n.item = marks[k].item /\ n.retest = t
  BY <1>1, <1>3
<1> HIDE DEF n
<1>5. new = [marks EXCEPT ![k] = n]
  BY <1>2 DEF n
<1> QED
  BY <1>4, <1>5

\* What is asked is a text; it is a mark's once the sequence is through.
LEMMA ExpectedFacts ==
  ASSUME NEW r, NEW E, Copy(r, E)
  PROVE  /\ P!MainRound(r) => /\ r.index + 1 \in DOMAIN r.order /\ P!Expected(r) = r.order[r.index + 1].item
                              /\ P!Expected(r) \in STRING
         /\ ~P!MainRound(r) => \A i \in DOMAIN r.order : i <= r.index
         /\ P!Expected(r) = NONE => ~P!MainRound(r)
         /\ P!Expected(r) # NONE /\ ~P!MainRound(r) =>
              /\ P!RetestMark(r) \in DOMAIN r.marks /\ P!Expected(r) = r.marks[P!RetestMark(r)].item
              /\ r.marks[P!RetestMark(r)].retest \in {"served", "pending"}
              /\ P!Expected(r) \in STRING
<1>1. /\ r.order \in Seq(Slots) /\ r.marks \in Seq(Marks) /\ r.index \in Nat
  BY DEF Copy
<1>2. \A i \in DOMAIN r.order : r.order[i].item \in STRING
  <2>1. \A i \in DOMAIN r.order : r.order[i] \in Slots
    BY <1>1
  <2> QED
    BY <2>1 DEF Slots
<1>3. \A i \in DOMAIN r.marks : r.marks[i].item \in STRING
  <2>1. \A i \in DOMAIN r.marks : r.marks[i] \in Marks
    BY <1>1
  <2> QED
    BY <2>1 DEF Marks
<1>4. P!MainRound(r) => r.index + 1 \in DOMAIN r.order
  BY <1>1 DEF P!MainRound
<1>5. ~P!MainRound(r) => \A i \in DOMAIN r.order : i <= r.index
  BY <1>1 DEF P!MainRound
<1>6. P!MainRound(r) => P!Expected(r) = r.order[r.index + 1].item
  BY DEF P!Expected
<1>7. P!Expected(r) # NONE /\ ~P!MainRound(r) => P!RetestMark(r) # 0 /\ P!Expected(r) = r.marks[P!RetestMark(r)].item
  BY DEF P!Expected
<1> QED
  BY <1>1, <1>2, <1>3, <1>4, <1>5, <1>6, <1>7, RetestMarkFacts, TextAssumption

\* get_next_item changes a mark or ends the session.
LEMMA ServedCopy ==
  ASSUME NEW r, NEW E, Copy(r, E)
  PROVE  /\ Copy(P!Served(r), E) /\ SameSession(P!Served(r), r)
         /\ P!Served(r).status # r.status => P!Served(r).status \in P!Terminal
<1>1. CASE P!Expected(r) = NONE
  <2>1. P!Served(r) = [r EXCEPT !.status = "completed"]
    BY <1>1 DEF P!Served
  <2>2. \A i \in DOMAIN r.order : i <= r.index
    BY <1>1, ExpectedFacts
  <2> QED
    BY <2>1, <2>2 DEF Copy, Columns, SameSession, P!Terminal
<1>2. CASE P!Expected(r) # NONE
  <2> DEFINE k == P!RetestMark(r)
             s == [r EXCEPT !.marks[k].retest = "served"]
  <2>1. P!Served(r) = IF ~P!MainRound(r) /\ r.marks[k].retest = "pending" THEN s ELSE r
    BY <1>2 DEF P!Served
  <2>2. CASE ~P!MainRound(r)
    <3>1. k \in DOMAIN r.marks
      BY <1>2, <2>2, ExpectedFacts
    <3> HIDE DEF k
    <3>2. /\ DOMAIN s = Columns /\ s.marks = [r.marks EXCEPT ![k].retest = "served"]
          /\ s.status = r.status /\ s.order = r.order /\ s.index = r.index /\ s.answered = r.answered
          /\ s.paper = r.paper
      BY DEF Copy, Columns
    <3> HIDE DEF s
    <3>3. /\ s.marks \in Seq(Marks)
          /\ \A i \in DOMAIN s.marks : HasWrong(s.marks[i], E) /\ HasRetest(s.marks[i], E)
      <4>1. r.marks \in Seq(Marks) /\ \A i \in DOMAIN r.marks : HasWrong(r.marks[i], E) /\ HasRetest(r.marks[i], E)
        BY DEF Copy
      <4>2. /\ s.marks \in Seq(Marks) /\ DOMAIN s.marks = DOMAIN r.marks
            /\ s.marks[k].item = r.marks[k].item /\ s.marks[k].retest = "served"
            /\ \A i \in DOMAIN r.marks : i # k => s.marks[i] = r.marks[i]
        BY <3>1, <3>2, <4>1, MarkMoves
      <4>3. HasWrong(s.marks[k], E) /\ HasRetest(s.marks[k], E)
        BY <3>1, <4>1, <4>2 DEF HasWrong, HasRetest
      <4> QED
        BY <4>1, <4>2, <4>3
    <3>4. Copy(s, E) /\ SameSession(s, r)
      BY <3>2, <3>3 DEF Copy, SameSession
    <3> QED
      BY <2>1, <3>2, <3>4 DEF SameSession
  <2> QED
    BY <2>1, <2>2 DEF SameSession
<1> QED
  BY <1>1, <1>2

\* The event of an answer backs what the answer makes of its copy.
LEMMA EventFacts ==
  ASSUME NEW r, NEW E \in Seq(Events), Copy(r, E), NEW right \in BOOLEAN, P!Expected(r) # NONE,
         NEW e, e = P!Recorded(r, P!Expected(r), right)
  PROVE  /\ e \in Events
         /\ P!MainRound(r) => HasAnswer(r.order[r.index + 1], Append(E, e))
         /\ \A mark : /\ P!MainRound(r) /\ ~right /\ mark.item = P!Expected(r) => HasWrong(mark, Append(E, e))
                      /\ ~P!MainRound(r) /\ mark.item = P!Expected(r) /\ right = (mark.retest = "passed")
                           => HasRetest(mark, Append(E, e))
<1>1. /\ e.item = P!Expected(r) /\ e.main = P!MainRound(r) /\ e.right = right /\ e.token = P!SourceRef(r)
  BY DEF P!Recorded
<1>2. P!Expected(r) \in STRING
  BY ExpectedFacts
<1>3. ASSUME P!MainRound(r)
      PROVE  /\ e.item = r.order[r.index + 1].item /\ e.token = r.order[r.index + 1].token
             /\ e.token \in STRING \cup {NONE}
  <2>1. r.index + 1 \in DOMAIN r.order /\ P!Expected(r) = r.order[r.index + 1].item
    BY <1>3, ExpectedFacts
  <2>2. r.order[r.index + 1] \in Slots
    BY <2>1 DEF Copy
  <2>3. P!SourceRef(r) = r.order[r.index + 1].token
    BY <1>3, <2>1 DEF P!SourceRef, Copy
  <2> QED
    BY <1>1, <2>1, <2>2, <2>3 DEF Slots
<1>4. ~P!MainRound(r) => e.token = NONE
  BY <1>1 DEF P!SourceRef
<1>5. P!MainRound(r) \in BOOLEAN
  BY DEF P!MainRound
<1>6. e \in Events
  <2>1. P!SourceRef(r) \in STRING \cup {NONE}
    BY <1>1, <1>3, <1>4
  <2> QED
    BY <1>2, <1>5, <2>1 DEF P!Recorded, Events
<1>7. Len(E) + 1 \in DOMAIN Append(E, e) /\ Append(E, e)[Len(E) + 1] = e
  BY <1>6
<1>8. P!MainRound(r) => HasAnswer(r.order[r.index + 1], Append(E, e))
  BY <1>1, <1>3, <1>7 DEF HasAnswer
<1>9. ASSUME NEW mark, P!MainRound(r), ~right, mark.item = P!Expected(r) PROVE HasWrong(mark, Append(E, e))
  BY <1>1, <1>7, <1>9 DEF HasWrong
<1>10. ASSUME NEW mark, ~P!MainRound(r), mark.item = P!Expected(r), right = (mark.retest = "passed")
       PROVE  HasRetest(mark, Append(E, e))
  BY <1>1, <1>7, <1>10 DEF HasRetest
<1> QED
  BY <1>6, <1>8, <1>9, <1>10

\* submit_answer after its event: one more place, or one mark decided.
LEMMA AfterCopy ==
  ASSUME NEW r, NEW E \in Seq(Events), Copy(r, E), NEW right \in BOOLEAN, P!Expected(r) # NONE,
         NEW e, e = P!Recorded(r, P!Expected(r), right),
         NEW a, a = P!After(r, P!Expected(r), right)
  PROVE  Copy(a, Append(E, e)) /\ SameSession(a, r) /\ (a.status # r.status => a.status \in P!Terminal)
<1> DEFINE item == P!Expected(r)
           F == Append(E, e)
           counted == [r EXCEPT !.answered = @ + 1, !.correct = @ + (IF right THEN 1 ELSE 0)]
           open == {i \in DOMAIN r.marks : r.marks[i].item = item /\ r.marks[i].retest \in {"served", "pending"}}
           first == CHOOSE i \in open : \A j \in open : i <= j
           mark == [item |-> item, retest |-> IF r.retest THEN "pending" ELSE "off"]
           wrong == IF right THEN r.marks ELSE Append(r.marks, mark)
           forth == [counted EXCEPT !.index = @ + 1, !.marks = IF right THEN @ ELSE Append(@, mark)]
           again == [counted EXCEPT !.marks[first].retest = IF right THEN "passed" ELSE "failed"]
           moved == IF P!MainRound(r) THEN forth ELSE again
<1>1. /\ e \in Events /\ (P!MainRound(r) => HasAnswer(r.order[r.index + 1], F))
      /\ \A m : /\ P!MainRound(r) /\ ~right /\ m.item = item => HasWrong(m, F)
                /\ ~P!MainRound(r) /\ m.item = item /\ right = (m.retest = "passed") => HasRetest(m, F)
  BY EventFacts
<1>2. Copy(r, F) /\ Len(F) = Len(E) + 1 /\ Len(E) \in Nat
  BY <1>1, CopyGrows
<1>3. /\ counted.marks = r.marks /\ counted.index = r.index /\ counted.order = r.order
      /\ counted.status = r.status /\ counted.paper = r.paper /\ counted.answered = r.answered + 1
      /\ DOMAIN counted = Columns /\ counted.retest = r.retest
  BY DEF Copy, Columns
<1>4. a = IF ~P!MainRound(moved) /\ (~r.retest \/ P!RetestMark(moved) = 0)
          THEN [moved EXCEPT !.status = "completed"] ELSE moved
  BY DEF P!After
<1> HIDE DEF counted
<1>5. item \in STRING
  BY ExpectedFacts
<1>6. /\ moved.order = r.order /\ moved.status = r.status /\ moved.paper = r.paper
      /\ moved.answered = r.answered + 1 /\ DOMAIN moved = Columns
      /\ moved.index = IF P!MainRound(r) THEN r.index + 1 ELSE r.index
      /\ moved.marks = IF P!MainRound(r) THEN wrong
                       ELSE [r.marks EXCEPT ![first].retest = IF right THEN "passed" ELSE "failed"]
  BY <1>3 DEF Columns
<1> HIDE DEF moved, forth, again
<1>7. /\ moved.marks \in Seq(Marks)
      /\ \A i \in DOMAIN moved.marks : HasWrong(moved.marks[i], F) /\ HasRetest(moved.marks[i], F)
  <2>1. r.marks \in Seq(Marks) /\ \A i \in DOMAIN r.marks : HasWrong(r.marks[i], F) /\ HasRetest(r.marks[i], F)
    BY <1>2 DEF Copy
  <2>2. CASE P!MainRound(r) /\ right
    BY <1>6, <2>1, <2>2
  <2>3. CASE P!MainRound(r) /\ ~right
    <3>1. mark \in Marks /\ mark.item = item /\ mark.retest \notin {"passed", "failed"}
      BY <1>5 DEF Marks
    <3> HIDE DEF mark
    <3>2. HasWrong(mark, F) /\ HasRetest(mark, F)
      BY <1>1, <2>3, <3>1 DEF HasRetest
    <3>3. moved.marks = Append(r.marks, mark)
      BY <1>6, <2>3
    <3> QED
      BY <2>1, <3>1, <3>2, <3>3
  <2>4. CASE ~P!MainRound(r)
    <3>1. P!RetestMark(r) \in open
      BY <2>4, ExpectedFacts
    <3>2. open \in SUBSET Nat
      BY <2>1
    <3>3. first \in open
      <4>1. \E i \in open : \A j \in open : i <= j
        BY <3>1, <3>2, Least
      <4> QED
        BY <4>1
    <3> DEFINE t == IF right THEN "passed" ELSE "failed"
    <3>4. first \in DOMAIN r.marks /\ r.marks[first].item = item
      BY <3>3
    <3> HIDE DEF first, open
    <3>5. moved.marks = [r.marks EXCEPT ![first].retest = t]
      BY <1>6, <2>4
    <3>6. t \in {"off", "pending", "served", "passed", "failed"} /\ right = (t = "passed")
      OBVIOUS
    <3> HIDE DEF t, item, F, mark, wrong
    <3>7. /\ moved.marks \in Seq(Marks) /\ DOMAIN moved.marks = DOMAIN r.marks
          /\ moved.marks[first].item = r.marks[first].item /\ moved.marks[first].retest = t
          /\ \A i \in DOMAIN r.marks : i # first => moved.marks[i] = r.marks[i]
      BY <2>1, <3>4, <3>5, <3>6, MarkMoves
    <3>8. HasRetest(moved.marks[first], F)
      BY <1>1, <2>4, <3>4, <3>6, <3>7
    <3>9. HasWrong(moved.marks[first], F)
      BY <2>1, <3>4, <3>7 DEF HasWrong
    <3> QED
      BY <2>1, <3>7, <3>8, <3>9
  <2> QED
    BY <2>2, <2>3, <2>4
<1>8. \A i \in DOMAIN r.order : i <= moved.index \/ r.status = "completed" => HasAnswer(r.order[i], F)
  <2>1. \A i \in DOMAIN r.order : i <= r.index \/ r.status = "completed" => HasAnswer(r.order[i], F)
    BY <1>2 DEF Copy
  <2>2. P!MainRound(r) => HasAnswer(r.order[r.index + 1], F)
    BY <1>1
  <2>3. r.order \in Seq(Slots) /\ r.index \in Nat
    BY DEF Copy
  <2> QED
    BY <1>6, <2>1, <2>2, <2>3
<1>9. Copy(moved, F)
  <2> HIDE DEF F, wrong, item
  <2>1. moved.index \in Nat /\ moved.answered \in Nat /\ moved.answered <= Len(F)
    BY <1>2, <1>6 DEF Copy
  <2>2. moved.order \in Seq(Slots) /\ moved.paper = NONE => \A i \in DOMAIN moved.order : moved.order[i].token = NONE
    BY <1>2, <1>6 DEF Copy
  <2>3. \A i \in DOMAIN moved.order : i <= moved.index \/ moved.status = "completed" => HasAnswer(moved.order[i], F)
    BY <1>6, <1>8
  <2>4. moved.order \in Seq(Slots) /\ moved.status \in {"active", "completed", "abandoned"} /\ DOMAIN moved = Columns
    BY <1>2, <1>6 DEF Copy
  <2> QED
    BY <1>7, <2>1, <2>2, <2>3, <2>4 DEF Copy
<1>10. ~P!MainRound(moved) => Copy([moved EXCEPT !.status = "completed"], F)
  <2> SUFFICES ASSUME ~P!MainRound(moved) PROVE Copy([moved EXCEPT !.status = "completed"], F)
    OBVIOUS
  <2>1. \A i \in DOMAIN moved.order : i <= moved.index
    BY <1>9, ExpectedFacts
  <2> QED
    BY <1>9, <2>1 DEF Copy, Columns
<1> QED
  BY <1>4, <1>6, <1>9, <1>10 DEF SameSession, Columns, P!Terminal

-----------------------------------------------------------------------------
\* A request that holds copies may go on holding them while others answer
\* and write.
LEMMA HoldsOn ==
  ASSUME PracticeInv, NEW d \in Calls,
         pc'[d] = pc[d] /\ req'[d] = req[d] /\ old'[d] = old[d] /\ mine'[d] = mine[d],
         events' = events \/ \E e \in Events : events' = Append(events, e),
         row' = row \/ (row.status # NONE => row'.status # NONE /\ SameSession(row', row))
  PROVE  Asking(d)'
<1>1. Asking(d) /\ events \in Seq(Events)
  BY DEF PracticeInv
<1>2. \A r : Copy(r, events) => Copy(r, events')
  BY <1>1, CopyGrows
<1>3. CASE pc[d] = "idle"
  BY <1>3 DEF Asking
<1>4. CASE pc[d] # "idle"
  <2>1. row.status # NONE /\ row'.status # NONE /\ SameSession(row', row)
    BY <1>1, <1>4 DEF Asking, SameSession
  <2>2. Copy(old'[d], events') /\ Copy(mine'[d], events')
    BY <1>1, <1>2, <1>4 DEF Asking
  <2>3. SameSession(old'[d], row') /\ SameSession(mine'[d], row')
    BY <1>1, <1>4, <2>1 DEF Asking, SameSession
  <2> QED
    BY <1>1, <1>4, <2>1, <2>2, <2>3 DEF Asking
<1> QED
  BY <1>3, <1>4

LEMMA StartSessionStep == PracticeInv /\ P!StartSession => PracticeInv'
<1> SUFFICES ASSUME PracticeInv, P!StartSession PROVE PracticeInv'
  OBVIOUS
<1>1. PICK paper \in DOMAIN Papers \cup {NONE, "nowhere"}, given \in Pool \cup {NONE},
           asked \in {NONE, "L"}, retest \in BOOLEAN :
        LET band == IF asked = NONE /\ paper \in DOMAIN Papers THEN Papers[paper].gradeband ELSE asked
            verdict == P!Startable(paper, given, band)
        IN IF verdict = "fits"
           THEN /\ row' = [status |-> "active", paper |-> paper, order |-> P!Sequenced(paper, given), index |-> 0,
                           retest |-> retest, marks |-> <<>>, limit |-> Limits[band],
                           answered |-> 0, correct |-> 0, resumed |-> clock]
                /\ P!Succeed /\ UNCHANGED <<clock, events, pc, req, old, mine>>
           ELSE P!Refuse(P!StatusOf(verdict))
  BY DEF P!StartSession
<1>2. row.status = NONE
  BY DEF P!StartSession
<1> DEFINE band == IF asked = NONE /\ paper \in DOMAIN Papers THEN Papers[paper].gradeband ELSE asked
           order == P!Sequenced(paper, given)
           new == [status |-> "active", paper |-> paper, order |-> order, index |-> 0,
                   retest |-> retest, marks |-> <<>>, limit |-> Limits[band],
                   answered |-> 0, correct |-> 0, resumed |-> clock]
<1>3. CASE P!Startable(paper, given, band) = "fits"
  <2>1. row' = new /\ UNCHANGED <<events, pc, req, old, mine>>
    BY <1>1, <1>3
  <2>2. order \in Seq(Slots) /\ (paper = NONE => \A i \in DOMAIN order : order[i].token = NONE)
    <3>1. CASE paper # NONE
      <4>1. paper \in DOMAIN Papers
        BY <1>3, <3>1 DEF P!Startable
      <4>2. order = Papers[paper].items
        BY <3>1 DEF P!Sequenced
      <4>3. order \in Seq([item : STRING, token : STRING])
        BY <4>1, <4>2, TextAssumption
      <4>4. [item : STRING, token : STRING] \subseteq Slots
        BY DEF Slots
      <4> HIDE DEF order
      <4>5. order \in Seq(Slots)
        BY <4>3, <4>4, SeqMonotonic
      <4> QED
        BY <3>1, <4>5
    <3>2. CASE paper = NONE
      <4>1. given \in Pool
        BY <1>3, <3>2 DEF P!Startable
      <4>2. given \in Seq(STRING)
        BY <4>1, TextAssumption
      <4> DEFINE slot(i) == [item |-> given[i], token |-> NONE]
      <4>3. order = [i \in 1..Len(given) |-> slot(i)] /\ Len(given) \in Nat
        BY <3>2, <4>2 DEF P!Sequenced
      <4>4. \A i \in 1..Len(given) : slot(i) \in Slots /\ slot(i).token = NONE
        BY <4>2 DEF Slots
      <4> HIDE DEF order, slot
      <4>5. order \in Seq(Slots)
        BY <4>3, <4>4
      <4>6. \A i \in DOMAIN order : order[i].token = NONE
        BY <4>3, <4>4
      <4> QED
        BY <4>5, <4>6
    <3> QED
      BY <3>1, <3>2
  <2>3. /\ DOMAIN new = Columns /\ new.status = "active" /\ new.order = order /\ new.marks = <<>>
        /\ new.paper = paper /\ new.index = 0 /\ new.answered = 0
    BY DEF Columns
  <2> HIDE DEF new, order
  <2>4. events \in Seq(Events)
    BY DEF PracticeInv
  <2>5. \A i \in DOMAIN order : ~(i <= 0)
    BY <2>2
  <2>6. Copy(new, events)
    BY <2>2, <2>3, <2>4, <2>5 DEF Copy
  <2>7. \A c \in Calls : pc[c] = "idle"
    BY <1>2 DEF PracticeInv, Asking
  <2>8. \A c \in Calls : Asking(c)'
    BY <2>1, <2>7 DEF Asking
  <2> QED
    BY <2>1, <2>6, <2>8 DEF PracticeInv
<1>4. CASE P!Startable(paper, given, band) # "fits"
  <2>1. UNCHANGED <<row, events, pc, req, old, mine>>
    BY <1>1, <1>4 DEF P!Refuse
  <2> QED
    BY <2>1 DEF PracticeInv, Asking
<1> QED
  BY <1>3, <1>4

LEMMA AskStep == ASSUME PracticeInv, NEW c \in Calls, P!Ask(c) PROVE PracticeInv'
<1>1. PICK q \in P!Requests :
        IF P!Verdict(q, row) = "ok"
        THEN /\ pc' = [pc EXCEPT ![c] = "read"] /\ req' = [req EXCEPT ![c] = q]
             /\ old' = [old EXCEPT ![c] = row] /\ mine' = [mine EXCEPT ![c] = P!Changed(q, row)]
             /\ P!Succeed /\ UNCHANGED <<clock, row, events>>
        ELSE P!Refuse(IF P!Verdict(q, row) = "done" THEN "done" ELSE P!StatusOf(P!Verdict(q, row)))
  BY DEF P!Ask
<1>2. row.status # NONE /\ Copy(row, events)
  BY DEF P!Ask, PracticeInv
<1>3. CASE P!Verdict(q, row) = "ok"
  <2>1. /\ pc' = [pc EXCEPT ![c] = "read"] /\ req' = [req EXCEPT ![c] = q]
        /\ old' = [old EXCEPT ![c] = row] /\ mine' = [mine EXCEPT ![c] = P!Changed(q, row)]
        /\ UNCHANGED <<row, events>>
    BY <1>1, <1>3
  <2>2. q.op \in {"next", "resume", "abandon", "submit"}
    BY DEF P!Requests
  <2>3. /\ Copy(P!Changed(q, row), events) /\ SameSession(P!Changed(q, row), row)
        /\ P!Changed(q, row).status # row.status => P!Changed(q, row).status \in P!Terminal
    <3>1. CASE q.op = "next"
      BY <1>2, <3>1, ServedCopy DEF P!Changed
    <3>2. CASE q.op = "resume"
      <4>1. row.status = "active"
        BY <1>2, <1>3, <3>2 DEF P!Verdict, P!Terminal, Copy
      <4>2. P!Changed(q, row) = [row EXCEPT !.status = "active", !.resumed = clock]
        BY <3>2 DEF P!Changed
      <4> QED
        BY <1>2, <4>1, <4>2 DEF Copy, Columns, SameSession
    <3>3. CASE q.op = "abandon"
      <4>1. row.status # "completed"
        BY <1>3, <3>3 DEF P!Verdict
      <4>2. P!Changed(q, row) = [row EXCEPT !.status = "abandoned"]
        BY <3>3 DEF P!Changed
      <4> QED
        BY <1>2, <4>1, <4>2 DEF Copy, Columns, SameSession, P!Terminal
    <3>4. CASE q.op = "submit"
      BY <1>2, <3>4 DEF P!Changed, SameSession
    <3> QED
      BY <2>2, <3>1, <3>2, <3>3, <3>4
  <2>4. q.op = "submit" => q.item = P!Expected(row) /\ q.item # NONE
    BY <1>3 DEF P!Verdict
  <2>5. /\ pc'[c] = "read" /\ req'[c] = q /\ old'[c] = row /\ mine'[c] = P!Changed(q, row)
        /\ \A d \in Calls \ {c} : pc'[d] = pc[d] /\ req'[d] = req[d] /\ old'[d] = old[d] /\ mine'[d] = mine[d]
    BY <2>1 DEF PracticeInv
  <2>6. Asking(c)'
    BY <1>2, <2>1, <2>3, <2>4, <2>5 DEF Asking, SameSession
  <2>7. \A d \in Calls \ {c} : Asking(d)'
    BY <2>1, <2>5, HoldsOn
  <2> QED
    BY <1>2, <2>1, <2>6, <2>7 DEF PracticeInv
<1>4. CASE P!Verdict(q, row) # "ok"
  <2>1. UNCHANGED <<row, events, pc, req, old, mine>>
    BY <1>1, <1>4 DEF P!Refuse
  <2> QED
    BY <2>1 DEF PracticeInv, Asking
<1> QED
  BY <1>3, <1>4

LEMMA ScoreStep == ASSUME PracticeInv, NEW c \in Calls, P!Score(c) PROVE PracticeInv'
<1>1. PICK right \in BOOLEAN :
        /\ events' = Append(events, P!Recorded(old[c], req[c].item, right))
        /\ mine' = [mine EXCEPT ![c] = P!After(old[c], req[c].item, right)]
        /\ pc' = [pc EXCEPT ![c] = "scored"]
  BY DEF P!Score
<1>2. /\ pc[c] = "read" /\ req[c].op = "submit" /\ UNCHANGED <<clock, row, req, old>>
      /\ Asking(c) /\ events \in Seq(Events)
  BY DEF P!Score, PracticeInv
<1>3. /\ row.status # NONE /\ Copy(old[c], events) /\ SameSession(old[c], row)
      /\ req[c].item = P!Expected(old[c]) /\ P!Expected(old[c]) # NONE
  BY <1>2 DEF Asking
<1> DEFINE e == P!Recorded(old[c], P!Expected(old[c]), right)
           a == P!After(old[c], P!Expected(old[c]), right)
<1>4. events' = Append(events, e)
  BY <1>1, <1>3
<1>5. e \in Events
  BY <1>2, <1>3, EventFacts
<1>6. Copy(a, Append(events, e)) /\ SameSession(a, old[c]) /\ (a.status # old[c].status => a.status \in P!Terminal)
  BY <1>2, <1>3, AfterCopy
<1>7. /\ pc'[c] = "scored" /\ old'[c] = old[c] /\ mine'[c] = a
      /\ \A d \in Calls \ {c} : pc'[d] = pc[d] /\ req'[d] = req[d] /\ old'[d] = old[d] /\ mine'[d] = mine[d]
  BY <1>1, <1>2, <1>3 DEF PracticeInv
<1> HIDE DEF e, a
<1>8. \A r : Copy(r, events) => Copy(r, events')
  BY <1>2, <1>4, <1>5, CopyGrows
<1>9. Asking(c)'
  BY <1>2, <1>3, <1>4, <1>6, <1>7, <1>8 DEF Asking, SameSession
<1>10. \A d \in Calls \ {c} : Asking(d)'
  BY <1>2, <1>4, <1>5, <1>7, HoldsOn
<1>11. events' \in Seq(Events)
  BY <1>2, <1>4, <1>5
<1> QED
  BY <1>1, <1>2, <1>3, <1>8, <1>9, <1>10, <1>11 DEF PracticeInv

LEMMA EndStep ==
  ASSUME PracticeInv, NEW c \in Calls, P!End(c), events' = events,
         row' = row \/ (row.status # NONE => row'.status # NONE /\ SameSession(row', row)),
         row'.status # NONE => Copy(row', events)
  PROVE  PracticeInv'
<1>1. /\ pc' = [pc EXCEPT ![c] = "idle"] /\ req' = [req EXCEPT ![c] = P!NoRequest]
      /\ old' = [old EXCEPT ![c] = NONE] /\ mine' = [mine EXCEPT ![c] = NONE]
  BY DEF P!End
<1>2. /\ pc'[c] = "idle"
      /\ \A d \in Calls \ {c} : pc'[d] = pc[d] /\ req'[d] = req[d] /\ old'[d] = old[d] /\ mine'[d] = mine[d]
  BY <1>1 DEF PracticeInv
<1>3. Asking(c)'
  BY <1>2 DEF Asking
<1>4. \A d \in Calls \ {c} : Asking(d)'
  BY <1>2, HoldsOn
<1> QED
  BY <1>1, <1>3, <1>4 DEF PracticeInv

LEMMA WriteStep ==
  ASSUME PracticeInv, NEW c \in Calls, P!Write(c)
  PROVE  PracticeInv' /\ P!NeverReopened
<1>1. pc[c] # "idle" /\ row' = P!Merged(row, old[c], mine[c]) /\ P!End(c) /\ events' = events
  BY DEF P!Write
<1>2. /\ row.status # NONE /\ Copy(row, events) /\ Copy(mine[c], events)
      /\ SameSession(old[c], row) /\ SameSession(mine[c], row)
      /\ mine[c].status # old[c].status => mine[c].status \in P!Terminal
  BY <1>1 DEF PracticeInv, Asking
<1>3. /\ Copy(row', events) /\ SameSession(row', row)
      /\ row'.status = IF mine[c].status # old[c].status THEN mine[c].status ELSE row.status
  BY <1>1, <1>2, MergedCopy
<1>4. row'.status # NONE
  BY <1>3, TextAssumption DEF Copy
<1>5. PracticeInv'
  BY <1>1, <1>3, <1>4, EndStep
<1> QED
  BY <1>2, <1>3, <1>5 DEF P!NeverReopened

LEMMA PracticeStep == PracticeInv /\ [Next]_vars => PracticeInv' /\ P!NeverReopened
<1> SUFFICES ASSUME PracticeInv, [Next]_vars PROVE PracticeInv' /\ P!NeverReopened
  OBVIOUS
<1>1. CASE UNCHANGED <<row, events, pc, req, old, mine>>
  BY <1>1 DEF PracticeInv, Asking, P!NeverReopened
<1>2. CASE P!StartSession
  BY <1>2, StartSessionStep, TextAssumption DEF P!StartSession, P!NeverReopened, P!Terminal
<1>3. ASSUME NEW c \in Calls, P!Ask(c) \/ P!Score(c) PROVE PracticeInv' /\ row' = row
  BY <1>3, AskStep, ScoreStep DEF P!Ask, P!Score, P!Refuse
<1>4. ASSUME NEW c \in Calls, P!Write(c) PROVE PracticeInv' /\ P!NeverReopened
  BY <1>4, WriteStep
<1>5. ASSUME NEW c \in Calls, P!Lose(c) PROVE PracticeInv' /\ row' = row
  BY <1>5, EndStep DEF P!Lose, PracticeInv
<1>6. CASE P!Next
  BY <1>1, <1>2, <1>3, <1>4, <1>5, <1>6 DEF P!Next, P!Tick, P!ReadState, P!NeverReopened
<1>7. P!Next \/ UNCHANGED practice
  BY DEF Next, vars, python, application
<1> QED
  BY <1>1, <1>6, <1>7 DEF practice

-----------------------------------------------------------------------------
\* The life cycle: a row follows from one that was there before its time,
\* and what a mover has read was in force once.
Follows(r) == r.from # "none" => \E q \in history : q.time < r.time /\ q.to = r.from
Moving(m) ==
  /\ move[m].at # "idle" /\ move[m].from # "none" => \E q \in history : q.to = move[m].from
  /\ move[m].at = "flushed" =>
       LET r == move[m].row IN
       /\ r.from = move[m].from /\ r.to \in I!Allowed[r.from] /\ r.to \in I!States
       /\ r.time \in Nat /\ r.time <= tock /\ Follows(r)
       /\ r.to \in I!Certified => r.cert # NONE
LifeInv ==
  /\ tock \in Nat /\ DOMAIN move = Movers
  /\ history # {} => \E r \in history : \A q \in history : q.time <= r.time
  /\ \A r \in history : /\ r.time \in Nat /\ r.time <= tock /\ r.to \in I!States /\ Follows(r)
                        /\ r.to \in I!Certified => r.cert \in Issued
  /\ \A m \in Movers : Moving(m)

\* The state of the item is that of one of its rows.
LEMMA CurrentFacts ==
  ASSUME LifeInv
  PROVE  /\ history = {} => I!Current(history) = "none"
         /\ history # {} => \E r \in history : r.to = I!Current(history)
<1>1. CASE history # {}
  <2> DEFINE last == CHOOSE r \in history : \A q \in history : q.time <= r.time
  <2>1. last \in history
    BY <1>1 DEF LifeInv
  <2>2. I!Current(history) = last.to
    BY <1>1 DEF I!Current
  <2> HIDE DEF last
  <2> QED
    BY <1>1, <2>1, <2>2
<1>2. CASE history = {}
  BY <1>2 DEF I!Current
<1> QED
  BY <1>1, <1>2

LEMMA LifeStep == LifeInv /\ [Next]_vars => LifeInv' /\ I!RetiredStays
<1> SUFFICES ASSUME LifeInv, [Next]_vars PROVE LifeInv' /\ I!RetiredStays
  OBVIOUS
<1>1. ASSUME history' = history PROVE I!RetiredStays
  BY <1>1 DEF I!RetiredStays, I!InActivePool
<1>2. CASE UNCHANGED lifecycle
  BY <1>1, <1>2 DEF lifecycle, LifeInv, Moving, Follows
<1>3. ASSUME NEW m \in Movers, NEW x, move' = [move EXCEPT ![m] = x], x.at = "idle", UNCHANGED <<history, tock>>
      PROVE  LifeInv'
  BY <1>3 DEF LifeInv, Moving, Follows
<1>4. ASSUME NEW m \in Movers, I!Read(m) PROVE LifeInv' /\ I!RetiredStays
  <2> DEFINE x == [at |-> "read", from |-> I!Current(history), row |-> NONE]
  <2>1. move' = [move EXCEPT ![m] = x] /\ UNCHANGED <<history, tock>>
    BY <1>4 DEF I!Read
  <2>2. x.at = "read" /\ (x.from # "none" => \E q \in history : q.to = x.from)
    BY CurrentFacts
  <2> HIDE DEF x
  <2>3. LifeInv'
    BY <2>1, <2>2 DEF LifeInv, Moving, Follows
  <2> QED
    BY <1>1, <2>1, <2>3
<1>5. ASSUME NEW m \in Movers, I!Transition(m) PROVE LifeInv' /\ I!RetiredStays
  <2>1. PICK to \in I!States, crt \in Issued \cup {NONE, "forged"} :
          /\ to \in I!Allowed[move[m].from] /\ ~I!NeedsCertificate(to, crt)
          /\ move' = [move EXCEPT ![m].at = "flushed",
                        ![m].row = [from |-> move[m].from, to |-> to, cert |-> crt, time |-> tock + 1]]
    BY <1>5 DEF I!Transition
  <2>2. move[m].at = "read" /\ tock' = tock + 1 /\ history' = history
    BY <1>5 DEF I!Transition
  <2> DEFINE r == [from |-> move[m].from, to |-> to, cert |-> crt, time |-> tock + 1]
  <2>3. /\ \A d \in Movers \ {m} : move'[d] = move[d]
        /\ move'[m].row = r \/ move'[m].at # "flushed"
        /\ move'[m].from = move[m].from /\ DOMAIN move' = Movers
    BY <2>1 DEF LifeInv
  <2>4. /\ r.from = move[m].from /\ r.to = to /\ r.cert = crt /\ r.time = tock + 1
    OBVIOUS
  <2> HIDE DEF r
  <2>5. r.from # "none" => \E q \in history : q.time < r.time /\ q.to = r.from
    BY <2>2, <2>4 DEF LifeInv, Moving
  <2>6. r.to \in I!Certified => r.cert # NONE
    BY <2>1, <2>4 DEF I!NeedsCertificate
  <2>7. Moving(m)'
    BY <2>1, <2>2, <2>3, <2>4, <2>5, <2>6 DEF LifeInv, Moving, Follows
  <2>8. \A d \in Movers \ {m} : Moving(d)'
    BY <2>2, <2>3 DEF LifeInv, Moving, Follows
  <2>9. LifeInv'
    BY <2>2, <2>3, <2>7, <2>8 DEF LifeInv, Follows
  <2> QED
    BY <1>1, <2>2, <2>9
<1>6. ASSUME NEW m \in Movers, I!Commit(m) PROVE LifeInv' /\ I!RetiredStays
  <2> DEFINE r == move[m].row
  <2>1. /\ move[m].at = "flushed" /\ move' = [move EXCEPT ![m] = I!Still] /\ tock' = tock
        /\ history' = IF r.cert \in Issued \cup {NONE} THEN history \cup {r} ELSE history
    BY <1>6 DEF I!Commit
  <2>2. I!Still.at = "idle"
    BY DEF I!Still
  <2>3. /\ r.from = move[m].from /\ r.to \in I!Allowed[r.from] /\ r.to \in I!States
        /\ r.time \in Nat /\ r.time <= tock /\ Follows(r) /\ (r.to \in I!Certified => r.cert # NONE)
    BY <2>1 DEF LifeInv, Moving
  <2> HIDE DEF r
  <2>4. CASE history' = history
    BY <1>1, <1>3, <2>1, <2>2, <2>4
  <2>5. CASE r.cert \in Issued \cup {NONE} /\ history' = history \cup {r}
    <3>1. \E p \in history' : \A q \in history' : q.time <= p.time
      <4>1. CASE history = {}
        BY <2>3, <2>5, <4>1
      <4>2. CASE history # {}
        <5>1. PICK p \in history : \A q \in history : q.time <= p.time
          BY <4>2 DEF LifeInv
        <5>2. p.time \in Nat /\ \A q \in history : q.time \in Nat
          BY DEF LifeInv
        <5> QED
          BY <2>3, <2>5, <5>1, <5>2
      <4> QED
        BY <4>1, <4>2
    <3>2. \A p : Follows(p) => Follows(p)'
      BY <2>5 DEF Follows
    <3>3. \A p \in history' : /\ p.time \in Nat /\ p.time <= tock /\ p.to \in I!States /\ Follows(p)
                              /\ p.to \in I!Certified => p.cert \in Issued
      BY <2>3, <2>5 DEF LifeInv
    <3>4. \A d \in Movers : Moving(d)'
      BY <2>1, <2>2, <2>5, <3>2 DEF LifeInv, Moving
    <3>5. LifeInv'
      BY <2>1, <3>1, <3>2, <3>3, <3>4 DEF LifeInv
    <3>6. I!Allowed["RETIRED"] = {}
      BY DEF I!Allowed
    <3>7. I!RetiredStays
      BY <2>1, <2>3, <3>6 DEF I!RetiredStays
    <3> QED
      BY <3>5, <3>7
  <2> QED
    BY <2>1, <2>4, <2>5
<1>7. ASSUME NEW m \in Movers, I!Rollback(m) PROVE LifeInv' /\ I!RetiredStays
  BY <1>1, <1>3, <1>7 DEF I!Rollback, I!Still
<1>8. I!Next \/ UNCHANGED lifecycle
  BY DEF Next, vars, python, application
<1> QED
  BY <1>2, <1>4, <1>5, <1>6, <1>7, <1>8 DEF I!Next

-----------------------------------------------------------------------------
\* The ledgers: an inserted row waits with its key to itself, next in its
\* chain; a revocation that has checked is backed by the consent it has read;
\* a version that was read is taken or the next one.
Backed(day) == \E g \in consents : g.event = "grant" /\ day < g.until
SamePlace(r, q) == r.week = q.week /\ r.item = q.item
Reading(x) ==
  x.kind \in {"grant", "revoke"} /\ x.at # "idle" =>
    /\ x.seen = [version |-> x.seen.version, until |-> x.seen.until]
    /\ x.kind = "grant" => x.seen.until \in Int
    /\ x.kind = "revoke" /\ x.at # "begun" => Backed(x.day)
    /\ x.at = "numbered" => x.seen.version \in 1..(Cardinality(consents) + 1)
Holding(t) ==
  /\ tx[t].at # "done" => tx[t].new = {}
  /\ tx[t].day \in Int /\ Reading(tx[t])
  /\ \A r \in tx[t].new : r.table = "consent" =>
       /\ tx[t].new = {r} /\ r.version = Cardinality(consents) + 1 /\ r.event \in {"grant", "revoke"}
       /\ r.event = "grant" => r.until \in Int
       /\ r.event = "revoke" => Backed(r.on)
  /\ \A r \in tx[t].new : r.table = "exposure" =>
       /\ \A e \in exposures : ~SamePlace(r, e)
       /\ \A q \in tx[t].new : q.table = "exposure" => q.paper = r.paper
Apart(t, u) ==
  \A r \in tx[t].new, q \in tx[u].new :
    r.table = q.table => /\ r.table = "consent" => r.version # q.version
                         /\ r.table = "exposure" => ~SamePlace(r, q)
LedgerInv ==
  /\ calendar \in Int /\ DOMAIN tx = Txs /\ IsFiniteSet(consents)
  /\ \A c \in consents : /\ c.table = "consent" /\ c.event \in {"grant", "revoke"}
                         /\ c.event = "grant" => c.until \in Int
  /\ \A e \in exposures : e.table = "exposure"
  /\ LedgersSound
  /\ \A t \in Txs : Holding(t)
  /\ \A t, u \in Txs : t # u => Apart(t, u)

LEMMA SameCardinality == ASSUME NEW S PROVE L!Cardinality(S) = Cardinality(S)
  BY DEF L!Cardinality, Cardinality

\* The next version is one more than there are rows.
LEMMA NextVersionFacts ==
  ASSUME LedgerInv
  PROVE  /\ L!NextVersion = Cardinality(consents) + 1 /\ Cardinality(consents) \in Nat
         /\ \A c \in consents : c.version \in 1..Cardinality(consents)
<1> DEFINE n == Cardinality(consents)
<1>1. n \in Nat
  BY FS_CardinalityType DEF LedgerInv
<1>2. {c.version : c \in consents} = 1..n
  BY SameCardinality DEF LedgerInv, LedgersSound, L!ConsentChain
<1> HIDE DEF n
<1>3. L!NextVersion = L!Max(1..n \cup {0}) + 1
  BY <1>2 DEF L!NextVersion
<1>4. n \in (1..n \cup {0}) /\ \A y \in (1..n \cup {0}) : n >= y /\ (y >= n => y = n)
  BY <1>1
<1>5. L!Max(1..n \cup {0}) = n
  BY <1>4 DEF L!Max
<1> QED
  BY <1>1, <1>2, <1>3, <1>5 DEF n

\* A step of one transaction that leaves the tables alone.
LEMMA AloneStep ==
  ASSUME LedgerInv, NEW t \in Txs, NEW x, tx' = [tx EXCEPT ![t] = x],
         UNCHANGED <<calendar, consents, exposures>>, Holding(t)',
         \A u \in Txs \ {t} : Apart(t, u)' /\ Apart(u, t)'
  PROVE  LedgerInv'
<1>1. DOMAIN tx' = Txs /\ \A u \in Txs \ {t} : tx'[u] = tx[u]
  BY DEF LedgerInv
<1>2. \A u \in Txs \ {t} : Holding(u)'
  BY <1>1 DEF LedgerInv, Holding, Reading, Backed
<1>3. \A u, v \in Txs \ {t} : u # v => Apart(u, v)'
  BY <1>1 DEF LedgerInv, Apart
<1>4. LedgersSound'
  BY DEF LedgerInv, LedgersSound, L!ConsentChain, L!PapersDisjoint
<1> QED
  BY <1>1, <1>2, <1>3, <1>4 DEF LedgerInv

\* One that holds no row.
LEMMA EmptyStep ==
  ASSUME LedgerInv, NEW t \in Txs, NEW x, tx' = [tx EXCEPT ![t] = x],
         UNCHANGED <<calendar, consents, exposures>>,
         x.new = {}, x.day \in Int, Reading(x)
  PROVE  LedgerInv'
<1>1. tx'[t] = x
  BY DEF LedgerInv
<1>2. Holding(t)'
  BY <1>1 DEF Holding, Reading, Backed
<1>3. \A u \in Txs \ {t} : Apart(t, u)' /\ Apart(u, t)'
  BY <1>1 DEF Apart
<1> QED
  BY <1>2, <1>3, AloneStep

LEMMA FreeReads == L!Free.new = {} /\ L!Free.day \in Int /\ Reading(L!Free)
  BY DEF L!Free, Reading

\* The check of a revocation finds a consent in force.
LEMMA RevocableFacts == ASSUME LedgerInv, NEW day \in Int, L!Revocable(day) PROVE Backed(day)
<1> DEFINE last == L!Latest(consents)
<1>1. /\ consents # {} /\ last.event # "revoke" /\ ~(day >= last.until)
  BY DEF L!Revocable, L!ConsentState
<1>2. \E c \in consents : \A d \in consents : d.version <= c.version
  <2>1. {c.version : c \in consents} = 1..Cardinality(consents)
    BY SameCardinality DEF LedgerInv, LedgersSound, L!ConsentChain
  <2>2. Cardinality(consents) \in Nat /\ Cardinality(consents) # 0
    BY <1>1, FS_CardinalityType, FS_EmptySet DEF LedgerInv
  <2>3. PICK c \in consents : c.version = Cardinality(consents)
    BY <2>1, <2>2
  <2> QED
    BY <2>1, <2>2, <2>3
<1>3. last \in consents
  BY <1>2 DEF L!Latest
<1> HIDE DEF last
<1> QED
  BY <1>1, <1>3 DEF LedgerInv, Backed

\* What an insert has found out about its rows.
LEMMA InsertFacts ==
  ASSUME LedgerInv, NEW t \in Txs, NEW new, NEW committed, L!Insert(t, new, committed)
  PROVE  \/ LedgerInv'
         \/ /\ tx' = [tx EXCEPT ![t].at = "done", ![t].new = new]
            /\ UNCHANGED <<calendar, consents, exposures>>
            /\ \A r \in new, q \in committed : L!Keys(r) \cap L!Keys(q) = {}
            /\ \A u \in Txs \ {t} : \A r \in new, q \in tx[u].new : L!Keys(r) \cap L!Keys(q) = {}
<1>1. /\ ~L!Waits(t, new) /\ UNCHANGED <<calendar, consents, exposures>>
      /\ tx' = IF L!Clash(new, committed) THEN [tx EXCEPT ![t] = L!Free]
               ELSE [tx EXCEPT ![t].at = "done", ![t].new = new]
  BY DEF L!Insert
<1>3. CASE L!Clash(new, committed)
  BY <1>1, <1>3, FreeReads, EmptyStep
<1>4. CASE ~L!Clash(new, committed)
  <2>1. \A r \in new, q \in committed : L!Keys(r) \cap L!Keys(q) = {}
    BY <1>4 DEF L!Clash, L!AllKeys
  <2>2. \A u \in Txs \ {t} : \A r \in new, q \in tx[u].new : L!Keys(r) \cap L!Keys(q) = {}
    BY <1>1 DEF L!Waits, L!AllKeys
  <2> QED
    BY <1>1, <1>4, <2>1, <2>2
<1> QED
  BY <1>3, <1>4

LEMMA KeyFacts ==
  ASSUME NEW r, NEW q, L!Keys(r) \cap L!Keys(q) = {}, r.table = q.table
  PROVE  /\ r.table = "consent" => r.version # q.version
         /\ r.table = "exposure" => ~SamePlace(r, q)
<1>1. CASE r.table = "consent"
  BY <1>1 DEF L!Keys
<1>2. CASE r.table = "exposure"
  BY <1>2 DEF L!Keys, SamePlace
<1> QED
  BY <1>1, <1>2

\* An insert of rows that are in order themselves.
LEMMA InsertStep ==
  ASSUME LedgerInv, NEW t \in Txs, NEW new, NEW committed, L!Insert(t, new, committed),
         tx[t].at # "idle", tx[t].kind = "revoke" => Backed(tx[t].day),
         \A r \in new : r.table = "consent" =>
           /\ new = {r} /\ committed = consents /\ r.event \in {"grant", "revoke"}
           /\ r.version \in 1..(Cardinality(consents) + 1)
           /\ r.event = "grant" => r.until \in Int
           /\ r.event = "revoke" => Backed(r.on),
         \A r \in new : r.table = "exposure" =>
           /\ exposures = committed
           /\ \A q \in new : q.table = "exposure" => q.paper = r.paper
  PROVE  LedgerInv'
<1>1. CASE /\ tx' = [tx EXCEPT ![t].at = "done", ![t].new = new]
           /\ UNCHANGED <<calendar, consents, exposures>>
           /\ \A r \in new, q \in committed : L!Keys(r) \cap L!Keys(q) = {}
           /\ \A u \in Txs \ {t} : \A r \in new, q \in tx[u].new : L!Keys(r) \cap L!Keys(q) = {}
  <2> DEFINE x == [tx[t] EXCEPT !.at = "done", !.new = new]
  <2>1. tx' = [tx EXCEPT ![t] = x]
    BY <1>1
  <2>2. /\ tx'[t].at = "done" /\ tx'[t].new = new /\ tx'[t].kind = tx[t].kind /\ tx'[t].day = tx[t].day
        /\ tx'[t].seen = tx[t].seen
    BY <1>1 DEF LedgerInv
  <2>3. \A u \in Txs \ {t} : tx'[u] = tx[u]
    BY <1>1 DEF LedgerInv
  <2> HIDE DEF x
  <2>4. Holding(t)'
    <3>1. \A r \in new : r.table = "exposure" => \A e \in exposures : ~SamePlace(r, e)
      BY <1>1, KeyFacts DEF LedgerInv
    <3>2. \A day : Backed(day) <=> Backed(day)'
      BY <1>1 DEF Backed
    <3>3. \A r, q : SamePlace(r, q) <=> SamePlace(r, q)'
      BY DEF SamePlace
    <3>4. \A r \in new : r.table = "consent" => r.version = Cardinality(consents) + 1
      <4>1. SUFFICES ASSUME NEW r \in new, r.table = "consent" PROVE r.version \notin 1..Cardinality(consents)
        BY NextVersionFacts
      <4>2. \A c \in consents : c.version # r.version
        BY <1>1, <4>1, KeyFacts DEF LedgerInv
      <4>3. {c.version : c \in consents} = 1..Cardinality(consents)
        BY SameCardinality DEF LedgerInv, LedgersSound, L!ConsentChain
      <4> QED
        BY <4>2, <4>3
    <3>5. Reading(tx[t]) /\ tx[t].day \in Int
      BY DEF LedgerInv, Holding
    <3>6. Reading(tx[t])'
      BY <1>1, <2>2, <3>2, <3>5 DEF Reading
    <3> QED
      BY <1>1, <2>2, <3>1, <3>2, <3>3, <3>4, <3>5, <3>6 DEF Holding
  <2>5. \A u \in Txs \ {t} : Apart(t, u)'
    BY <1>1, <2>2, <2>3, KeyFacts DEF Apart, SamePlace
  <2>6. \A u \in Txs \ {t} : Apart(u, t)'
    BY <2>5 DEF Apart, SamePlace
  <2> QED
    BY <1>1, <2>1, <2>4, <2>5, <2>6, AloneStep
<1> QED
  BY <1>1, InsertFacts

LEMMA BeginStep ==
  ASSUME LedgerInv, NEW t \in Txs,
         L!BeginGrant(t) \/ L!BeginRevoke(t) \/ L!BeginSwitch(t) \/ L!BeginAssembly(t)
  PROVE  LedgerInv'
<1>1. ASSUME NEW kind, NEW seen, L!Begin(t, kind, seen),
             kind \in {"grant", "revoke"} => seen = [version |-> seen.version, until |-> seen.until],
             kind = "grant" => seen.until \in Int
      PROVE  LedgerInv'
  <2> DEFINE x == [kind |-> kind, at |-> "begun", day |-> L!Day(kind), seen |-> seen, new |-> {}]
  <2>1. tx' = [tx EXCEPT ![t] = x] /\ UNCHANGED <<calendar, consents, exposures>>
    BY <1>1 DEF L!Begin
  <2>2. x.new = {} /\ x.kind = kind /\ x.at = "begun" /\ x.seen = seen /\ x.day \in Int
    BY DEF LedgerInv, L!Day
  <2> HIDE DEF x
  <2> QED
    BY <1>1, <2>1, <2>2, EmptyStep DEF Reading
<1>2. \A until : L!Unread(until) = [version |-> L!Unread(until).version, until |-> L!Unread(until).until]
                /\ L!Unread(until).until = until
  BY DEF L!Unread
<1>3. CASE L!BeginGrant(t)
  <2>1. PICK from \in 0..LastDay, until \in 1..(LastDay + 1) : L!Begin(t, "grant", L!Unread(until))
    BY <1>3 DEF L!BeginGrant
  <2> QED
    BY <1>1, <1>2, <2>1, DaysAssumption
<1>4. CASE L!BeginRevoke(t)
  BY <1>1, <1>2, <1>4 DEF L!BeginRevoke
<1>5. CASE L!BeginSwitch(t)
  BY <1>1, <1>5 DEF L!BeginSwitch
<1>6. CASE L!BeginAssembly(t)
  BY <1>1, <1>6 DEF L!BeginAssembly
<1> QED
  BY <1>3, <1>4, <1>5, <1>6

\* The check of a revocation, and the number that a consent reads.
LEMMA ReadStep ==
  ASSUME LedgerInv, NEW t \in Txs, L!CheckConsent(t) \/ L!ReadVersion(t)
  PROVE  LedgerInv'
<1>1. Reading(tx[t]) /\ tx[t].day \in Int /\ (tx[t].at # "done" => tx[t].new = {})
  BY DEF LedgerInv, Holding
<1>2. CASE L!CheckConsent(t)
  <2>1. CASE L!Revocable(tx[t].day)
    <3> DEFINE x == [tx[t] EXCEPT !.at = "checked"]
    <3>1. tx' = [tx EXCEPT ![t] = x] /\ UNCHANGED <<calendar, consents, exposures>>
      BY <1>2, <2>1 DEF L!CheckConsent
    <3>2. /\ x.new = tx[t].new /\ x.kind = tx[t].kind /\ x.day = tx[t].day /\ x.seen = tx[t].seen
          /\ x.at = "checked"
      BY <1>2 DEF L!CheckConsent, LedgerInv
    <3>3. tx[t].kind = "revoke" /\ tx[t].at = "begun" /\ Backed(tx[t].day)
      BY <1>1, <1>2, <2>1, RevocableFacts DEF L!CheckConsent
    <3> HIDE DEF x
    <3> QED
      BY <1>1, <3>1, <3>2, <3>3, EmptyStep DEF Reading
  <2>2. CASE ~L!Revocable(tx[t].day)
    BY <1>2, <2>2, FreeReads, EmptyStep DEF L!CheckConsent
  <2> QED
    BY <2>1, <2>2
<1>3. CASE L!ReadVersion(t)
  <2> DEFINE x == [tx[t] EXCEPT !.at = "numbered", !.seen.version = L!NextVersion]
  <2>1. tx' = [tx EXCEPT ![t] = x] /\ UNCHANGED <<calendar, consents, exposures>>
    BY <1>3 DEF L!ReadVersion
  <2>2. /\ x.new = tx[t].new /\ x.kind = tx[t].kind /\ x.day = tx[t].day /\ x.at = "numbered"
        /\ x.seen = [tx[t].seen EXCEPT !.version = L!NextVersion]
    BY DEF LedgerInv
  <2>3. /\ tx[t].kind \in {"grant", "revoke"} /\ tx[t].at \in {"begun", "checked"}
        /\ tx[t].kind = "revoke" => tx[t].at = "checked"
    BY <1>3 DEF L!ReadVersion
  <2> HIDE DEF x
  <2>4. x.seen.version = L!NextVersion /\ x.seen.until = tx[t].seen.until
        /\ x.seen = [version |-> x.seen.version, until |-> x.seen.until]
    BY <1>1, <2>2, <2>3 DEF Reading
  <2>5. x.seen.version \in 1..(Cardinality(consents) + 1)
    BY <2>4, NextVersionFacts
  <2>6. (x.kind = "grant" => x.seen.until \in Int) /\ (x.kind = "revoke" => Backed(x.day))
    BY <1>1, <2>2, <2>3, <2>4 DEF Reading
  <2>7. Reading(x)
    BY <2>4, <2>5, <2>6 DEF Reading
  <2>8. x.new = {} /\ x.day \in Int
    BY <1>1, <2>2, <2>3
  <2> QED
    BY <2>1, <2>7, <2>8, EmptyStep
<1> QED
  BY <1>2, <1>3

LEMMA RecordStep ==
  ASSUME LedgerInv, NEW t \in Txs,
         L!RecordEvent(t) \/ L!Register(t) \/ L!RecordExposures(t)
  PROVE  LedgerInv'
<1>1. CASE L!RecordEvent(t)
  <2> DEFINE r == L!ConsentRow(tx[t].kind, tx[t].seen, tx[t].day)
  <2>1. tx[t].at = "numbered" /\ tx[t].kind \in {"grant", "revoke"} /\ L!Insert(t, {r}, consents)
    BY <1>1 DEF L!RecordEvent
  <2>2. /\ r.table = "consent" /\ r.version = tx[t].seen.version /\ r.event = tx[t].kind
        /\ r.until = tx[t].seen.until /\ r.on = tx[t].day
    BY DEF L!ConsentRow
  <2>3. Reading(tx[t])
    BY DEF LedgerInv, Holding
  <2> HIDE DEF r
  <2> QED
    BY <2>1, <2>2, <2>3, InsertStep DEF Reading
<1>3. CASE L!Register(t)
  <2>1. PICK m \in Models :
          /\ tx[t].at = "retired" /\ tx[t].kind = "switch"
          /\ L!Insert(t, {[table |-> "run", model |-> m, from |-> tx[t].day, until |-> NONE]},
                      {L!Retired(r, tx[t].seen, tx[t].day) : r \in runs})
    BY <1>3 DEF L!Register
  <2> QED
    BY <2>1, InsertStep
<1>4. CASE L!RecordExposures(t)
  <2>1. PICK S \in SUBSET (Candidates \ tx[t].seen.items) :
          L!Insert(t, {[table |-> "exposure", week |-> tx[t].seen.week, item |-> i, paper |-> <<t, L!Rows>>]
                       : i \in S}, exposures)
    BY <1>4 DEF L!RecordExposures
  <2> DEFINE new == {[table |-> "exposure", week |-> tx[t].seen.week, item |-> i, paper |-> <<t, L!Rows>>] : i \in S}
  <2>2. \A r \in new : r.table = "exposure" /\ r.paper = <<t, L!Rows>>
    OBVIOUS
  <2>3. tx[t].at = "begun" /\ tx[t].kind = "assembly" /\ L!Insert(t, new, exposures)
    BY <1>4, <2>1 DEF L!RecordExposures
  <2> HIDE DEF new
  <2> QED
    BY <2>2, <2>3, InsertStep
<1> QED
  BY <1>1, <1>3, <1>4

LEMMA RetireStep == ASSUME LedgerInv, NEW t \in Txs, L!Retire(t) PROVE LedgerInv'
<1>1. /\ tx[t].kind = "switch" /\ UNCHANGED <<calendar, consents, exposures>> /\ tx[t].at # "done"
      /\ \E seen, at : tx' = [tx EXCEPT ![t].seen = seen, ![t].at = at] /\ at \in {"waiting", "retired"}
  BY DEF L!Retire
<1>2. PICK seen, at : tx' = [tx EXCEPT ![t].seen = seen, ![t].at = at] /\ at \in {"waiting", "retired"}
  BY <1>1
<1> DEFINE x == [tx[t] EXCEPT !.seen = seen, !.at = at]
<1>3. tx' = [tx EXCEPT ![t] = x]
  BY <1>2
<1>4. x.new = tx[t].new /\ x.kind = tx[t].kind /\ x.day = tx[t].day
  OBVIOUS
<1>5. tx[t].new = {} /\ tx[t].day \in Int
  BY <1>1 DEF LedgerInv, Holding
<1> HIDE DEF x
<1> QED
  BY <1>1, <1>3, <1>4, <1>5, EmptyStep DEF Reading

LEMMA LedgerQuiet ==
  ASSUME LedgerInv, UNCHANGED <<consents, exposures, tx>>, calendar' \in Int
  PROVE  LedgerInv'
  BY DEF LedgerInv, LedgersSound, L!ConsentChain, L!PapersDisjoint, Holding, Reading, Backed, Apart

\* A commit files at most one consent, with the next version; what the other
\* transactions hold is apart from it.
LEMMA CommitStep == ASSUME LedgerInv, NEW t \in Txs, L!Commit(t) PROVE LedgerInv'
<1> DEFINE newC == {r \in tx[t].new : r.table = "consent"}
           newE == {r \in tx[t].new : r.table = "exposure"}
<1>1. /\ consents' = consents \cup newC /\ exposures' = exposures \cup newE
      /\ tx' = [tx EXCEPT ![t] = L!Free] /\ UNCHANGED calendar
  BY DEF L!Commit
<1>2. /\ DOMAIN tx' = Txs /\ tx'[t].new = {} /\ tx'[t].at = "idle" /\ tx'[t].day = 0
      /\ \A u \in Txs \ {t} : tx'[u] = tx[u]
  BY <1>1 DEF L!Free, LedgerInv
<1>3. /\ \A r \in newC : /\ r.table = "consent" /\ newC = {r} /\ r.version = Cardinality(consents) + 1
                         /\ r.event \in {"grant", "revoke"} /\ (r.event = "grant" => r.until \in Int)
                         /\ r.event = "revoke" => Backed(r.on)
      /\ \A r \in newE : /\ r.table = "exposure" /\ \A q \in newE : q.paper = r.paper
                         /\ \A e \in exposures : ~SamePlace(r, e)
  BY DEF LedgerInv, Holding
<1>4. /\ \A u \in Txs \ {t} : \A r \in newC, q \in tx[u].new : q.table = "consent" => q.version # r.version
      /\ \A u \in Txs \ {t} : \A r \in newE, q \in tx[u].new : q.table = "exposure" => ~SamePlace(q, r)
  BY DEF LedgerInv, Apart, SamePlace
<1> HIDE DEF newC, newE
<1>5. Cardinality(consents) \in Nat /\ \A c \in consents : c.version \in 1..Cardinality(consents)
  BY NextVersionFacts
<1>6. \A day : Backed(day) => Backed(day)'
  BY <1>1 DEF Backed
<1>7. newC # {} => Cardinality(consents') = Cardinality(consents) + 1 /\ IsFiniteSet(consents')
  <2>1. ASSUME NEW r \in newC PROVE Cardinality(consents') = Cardinality(consents) + 1 /\ IsFiniteSet(consents')
    <3>1. consents' = consents \cup {r}
      BY <1>1, <1>3, <2>1
    <3>2. r \notin consents
      BY <1>3, <1>5, <2>1
    <3> QED
      BY <3>1, <3>2, FS_AddElement DEF LedgerInv
  <2> QED
    BY <2>1
<1>8. newC = {} => consents' = consents
  BY <1>1
<1>9. L!ConsentChain'
  <2>1. {c.version : c \in consents} = 1..Cardinality(consents)
    BY SameCardinality DEF LedgerInv, LedgersSound, L!ConsentChain
  <2>2. {c.version : c \in consents'} = 1..Cardinality(consents')
    <3>1. ASSUME NEW r \in newC PROVE {c.version : c \in consents'} = 1..Cardinality(consents')
      <4>1. {c.version : c \in consents'} = {c.version : c \in consents} \cup {r.version}
        BY <1>1, <1>3, <3>1
      <4>2. 1..(Cardinality(consents) + 1) = (1..Cardinality(consents)) \cup {Cardinality(consents) + 1}
        BY <1>5
      <4> QED
        BY <1>3, <1>7, <2>1, <3>1, <4>1, <4>2
    <3> QED
      BY <1>8, <2>1, <3>1
  <2>3. ASSUME NEW c \in consents', c.event = "revoke"
        PROVE  \E g \in consents' : g.event = "grant" /\ g.version < c.version /\ c.on < g.until
    <3>1. CASE c \in consents
      BY <1>1, <2>3, <3>1 DEF LedgerInv, LedgersSound, L!ConsentChain
    <3>2. CASE c \in newC
      <4>1. PICK g \in consents : g.event = "grant" /\ c.on < g.until
        BY <1>3, <2>3, <3>2 DEF Backed
      <4>2. g.version < c.version
        BY <1>3, <1>5, <3>2
      <4> QED
        BY <1>1, <4>1, <4>2
    <3> QED
      BY <1>1, <3>1, <3>2
  <2>4. {c.version : c \in consents'} = 1..L!Cardinality(consents')
    BY <2>2, SameCardinality
  <2> QED
    BY <2>3, <2>4 DEF L!ConsentChain
<1>10. L!PapersDisjoint'
  <2>1. \A d, e \in exposures : SamePlace(d, e) => d.paper = e.paper
    BY DEF LedgerInv, LedgersSound, L!PapersDisjoint, SamePlace
  <2>2. \A d, e \in exposures' : SamePlace(d, e) => d.paper = e.paper
    BY <1>1, <1>3, <2>1 DEF SamePlace
  <2> QED
    BY <2>2 DEF L!PapersDisjoint, SamePlace
<1>11. ASSUME NEW u \in Txs PROVE Holding(u)'
  <2>1. CASE u = t
    BY <1>2, <2>1 DEF Holding, Reading
  <2>2. CASE u # t
    <3>1. ASSUME NEW r \in tx[u].new, r.table = "consent"
          PROVE  newC = {}
      BY <1>3, <1>4, <2>2, <3>1 DEF LedgerInv, Holding
    <3>2. ASSUME NEW r \in tx[u].new, r.table = "exposure"
          PROVE  \A e \in exposures' : ~SamePlace(r, e)
      BY <1>1, <1>4, <2>2, <3>2 DEF LedgerInv, Holding
    <3>3. Holding(u)
      BY DEF LedgerInv
    <3>4. tx'[u] = tx[u]
      BY <1>2, <2>2
    <3>5. \A r \in tx[u].new : r.table = "consent" => r.version = Cardinality(consents') + 1
      BY <1>8, <3>1, <3>3 DEF Holding
    <3>6. \A r, q : SamePlace(r, q)' <=> SamePlace(r, q)
      BY DEF SamePlace
    <3>7. Cardinality(consents') \in Nat /\ Cardinality(consents) <= Cardinality(consents')
      BY <1>5, <1>7, <1>8
    <3>8. Reading(tx[u])
      BY <3>3 DEF Holding
    <3>9. Reading(tx[u])'
      BY <1>5, <1>6, <3>4, <3>7, <3>8 DEF Reading
    <3> QED
      BY <1>6, <3>2, <3>3, <3>4, <3>5, <3>6, <3>9 DEF Holding
  <2> QED
    BY <2>1, <2>2
<1>12. \A u, v \in Txs : u # v => Apart(u, v)'
  BY <1>2 DEF LedgerInv, Apart, SamePlace
<1>13. /\ IsFiniteSet(consents')
       /\ \A c \in consents' : /\ c.table = "consent" /\ c.event \in {"grant", "revoke"}
                               /\ c.event = "grant" => c.until \in Int
       /\ \A e \in exposures' : e.table = "exposure"
  BY <1>1, <1>3, <1>7, <1>8 DEF LedgerInv
<1> QED
  BY <1>1, <1>2, <1>9, <1>10, <1>11, <1>12, <1>13 DEF LedgerInv, LedgersSound

LEMMA LedgerStep == LedgerInv /\ [Next]_vars => LedgerInv'
<1> SUFFICES ASSUME LedgerInv, [Next]_vars PROVE LedgerInv'
  OBVIOUS
<1>1. CASE UNCHANGED ledgers
  BY <1>1, LedgerQuiet DEF ledgers, LedgerInv
<1>2. CASE L!NextDay
  <2>1. calendar' \in Int /\ UNCHANGED <<consents, exposures, tx>>
    BY <1>2 DEF L!NextDay, LedgerInv
  <2> QED
    BY <2>1, LedgerQuiet
<1>3. ASSUME NEW t \in Txs, L!Rollback(t) PROVE LedgerInv'
  BY <1>3, FreeReads, EmptyStep DEF L!Rollback
<1>4. L!Next \/ UNCHANGED ledgers
  BY DEF Next, vars, python, application
<1> QED
  BY <1>1, <1>2, <1>3, <1>4, BeginStep, ReadStep, RecordStep, RetireStep, CommitStep DEF L!Next

-----------------------------------------------------------------------------
\* The runs of an estimator: one is active, and the run that a switch has
\* retired is that one and no other switch's, until the switch ends.
RunRows == [table : {"run"}, model : Models, from : Nat, until : Nat \cup {NONE}]
NewRun(t, m) == [table |-> "run", model |-> m, from |-> tx[t].day, until |-> NONE]
Registered(t) == tx[t].kind = "switch" /\ tx[t].at = "done"
Retiring(t) == tx[t].kind = "switch" /\ tx[t].at \in {"retired", "done"}

Registering(t) ==
  /\ DOMAIN tx[t] = {"kind", "at", "day", "seen", "new"} /\ tx[t].day \in Nat
  /\ \A r \in tx[t].new : r.table = "run" => tx[t].kind = "switch"
  /\ Retiring(t) => tx[t].seen = NONE \/ tx[t].seen \in L!Active
  /\ Registered(t) =>
       /\ \E m \in Models : tx[t].new = {NewRun(t, m)}
       /\ \A r \in L!Active : r = tx[t].seen
Parted(t, u) ==
  /\ ~(Registered(t) /\ Registered(u))
  /\ Retiring(t) /\ Retiring(u) /\ tx[t].seen = tx[u].seen => tx[t].seen = NONE
RunsInv ==
  /\ calendar \in Nat /\ DOMAIN tx = Txs /\ runs \in SUBSET RunRows
  /\ \A r, q \in L!Active : r = q
  /\ \A t \in Txs : Registering(t)
  /\ \A t, u \in Txs : t # u => Parted(t, u)

\* What a switch retires reads as before on every day before it.
LEMMA PastReads ==
  ASSUME NEW K \in SUBSET RunRows, NEW seen, NEW d \in Nat, NEW new, new.from = d,
         seen \in K => seen.until = NONE, NEW day \in 0..(d - 1)
  PROVE  L!ParamsAt({L!Retired(r, seen, d) : r \in K} \cup {new}, day) = L!ParamsAt(K, day)
<1> DEFINE Ret(r) == L!Retired(r, seen, d)
           Q == {Ret(r) : r \in K} \cup {new}
<1>1. ASSUME NEW r \in K
      PROVE  /\ Ret(r).from = r.from /\ Ret(r).model = r.model
             /\ (Ret(r).until = NONE \/ Ret(r).until > day) <=> (r.until = NONE \/ r.until > day)
  <2>1. CASE r # seen
    BY <2>1 DEF L!Retired
  <2>2. CASE r = seen
    <3>1. Ret(r) = [r EXCEPT !.until = d]
      BY <2>2 DEF L!Retired
    <3>2. Ret(r).from = r.from /\ Ret(r).model = r.model /\ Ret(r).until = d
      BY <3>1 DEF RunRows
    <3> HIDE DEF Ret
    <3>3. d > day
      OBVIOUS
    <3> QED
      BY <2>2, <3>2, <3>3
  <2> QED
    BY <2>1, <2>2
<1> HIDE DEF Ret
<1>2. L!There(Q, day) = {Ret(r) : r \in L!There(K, day)}
  <2>1. ~(new.from <= day)
    OBVIOUS
  <2> QED
    BY <1>1, <2>1 DEF L!There
<1>3. L!There(K, day) \subseteq K
  BY DEF L!There
<1>4. L!ActiveAt(Q, day) = {Ret(r) : r \in L!ActiveAt(K, day)}
  BY <1>1, <1>2, <1>3 DEF L!ActiveAt
<1>5. L!ActiveAt(K, day) \subseteq K
  BY <1>3 DEF L!ActiveAt
<1>6. {Params[q.model] : q \in L!ActiveAt(Q, day)} = {Params[r.model] : r \in L!ActiveAt(K, day)}
  <2> DEFINE AQ == L!ActiveAt(Q, day)
             AK == L!ActiveAt(K, day)
  <2>1. AQ = {Ret(r) : r \in AK}
    BY <1>4
  <2>2. \A r \in AK : Ret(r).model = r.model
    BY <1>1, <1>5
  <2> HIDE DEF AQ, AK
  <2>3. \A r \in AK : Params[Ret(r).model] = Params[r.model]
    BY <2>2
  <2>4. {Params[q.model] : q \in AQ} = {Params[r.model] : r \in AK}
    BY <2>1, <2>3
  <2> QED
    BY <2>4 DEF AQ, AK
<1>7. L!ActiveAt(Q, day) = {} <=> L!ActiveAt(K, day) = {}
  BY <1>4
<1>8. L!ParamsAt(Q, day) = L!ParamsAt(K, day)
  BY <1>6, <1>7 DEF L!ParamsAt
<1> QED
  BY <1>8 DEF Ret

LEMMA AtMostOne == ASSUME NEW S, \A r, q \in S : r = q PROVE L!Cardinality(S) <= 1
<1>1. CASE S = {}
  <2>1. Cardinality(S) = 0
    BY <1>1, FS_EmptySet
  <2> QED
    BY <2>1, SameCardinality
<1>2. CASE S # {}
  <2>1. PICK r \in S : S = {r}
    BY <1>2
  <2>2. Cardinality(S) = 1
    BY <2>1, FS_Singleton
  <2> QED
    BY <2>2, SameCardinality
<1> QED
  BY <1>1, <1>2

\* A step of one transaction that leaves the runs alone.
LEMMA TxStep ==
  ASSUME RunsInv, NEW t \in Txs, NEW x, tx' = [tx EXCEPT ![t] = x], UNCHANGED <<calendar, runs>>,
         Registering(t)', \A u \in Txs \ {t} : Parted(t, u)'
  PROVE  RunsInv'
<1>1. DOMAIN tx' = Txs /\ \A u \in Txs \ {t} : tx'[u] = tx[u]
  BY DEF RunsInv
<1>2. L!Active' = L!Active
  BY DEF L!Active
<1>3. \A u \in Txs \ {t} : Registering(u)'
  BY <1>1, <1>2 DEF RunsInv, Registering, Retiring, Registered, NewRun
<1>4. \A u, v \in Txs \ {t} : u # v => Parted(u, v)'
  BY <1>1 DEF RunsInv, Parted, Retiring, Registered
<1>5. \A u \in Txs \ {t} : Parted(u, t)'
  BY DEF Parted
<1> QED
  BY <1>1, <1>2, <1>3, <1>4, <1>5 DEF RunsInv

\* One that is not a switch past its retirement.
LEMMA OtherTxStep ==
  ASSUME RunsInv, NEW t \in Txs, NEW x, tx' = [tx EXCEPT ![t] = x], UNCHANGED <<calendar, runs>>,
         DOMAIN x = {"kind", "at", "day", "seen", "new"}, x.day \in Nat,
         \A r \in x.new : r.table # "run",
         ~(x.kind = "switch" /\ x.at \in {"retired", "done"})
  PROVE  RunsInv'
<1>1. tx'[t] = x
  BY DEF RunsInv
<1>2. Registering(t)'
  BY <1>1 DEF Registering, Retiring, Registered
<1>3. \A u \in Txs \ {t} : Parted(t, u)'
  BY <1>1 DEF Parted, Retiring, Registered
<1> QED
  BY <1>2, <1>3, TxStep

LEMMA FreeStep ==
  ASSUME RunsInv, NEW t \in Txs, tx' = [tx EXCEPT ![t] = L!Free], UNCHANGED <<calendar, runs>>
  PROVE  RunsInv'
<1> DEFINE x == L!Free
<1>1. /\ DOMAIN x = {"kind", "at", "day", "seen", "new"} /\ x.day \in Nat
      /\ \A r \in x.new : r.table # "run"
      /\ ~(x.kind = "switch" /\ x.at \in {"retired", "done"})
  BY DEF L!Free
<1> HIDE DEF x
<1>2. tx' = [tx EXCEPT ![t] = x]
  BY DEF x
<1> QED
  BY <1>1, <1>2, OtherTxStep

LEMMA BegunRuns ==
  ASSUME RunsInv, NEW t \in Txs,
         L!BeginGrant(t) \/ L!BeginRevoke(t) \/ L!BeginSwitch(t) \/ L!BeginAssembly(t)
  PROVE  RunsInv'
<1>1. ASSUME NEW kind, NEW seen, L!Begin(t, kind, seen) PROVE RunsInv'
  <2> DEFINE x == [kind |-> kind, at |-> "begun", day |-> L!Day(kind), seen |-> seen, new |-> {}]
  <2>1. tx' = [tx EXCEPT ![t] = x] /\ UNCHANGED <<calendar, runs>>
    BY <1>1 DEF L!Begin
  <2>2. x.new = {} /\ x.at = "begun" /\ x.day \in Nat /\ DOMAIN x = {"kind", "at", "day", "seen", "new"}
    BY DEF RunsInv, L!Day
  <2> HIDE DEF x
  <2> QED
    BY <2>1, <2>2, OtherTxStep
<1> QED
  BY <1>1 DEF L!BeginGrant, L!BeginRevoke, L!BeginSwitch, L!BeginAssembly

LEMMA ReadRuns ==
  ASSUME RunsInv, NEW t \in Txs, L!CheckConsent(t) \/ L!ReadVersion(t)
  PROVE  RunsInv'
<1>1. tx[t].kind \in {"grant", "revoke"} /\ UNCHANGED <<calendar, runs>> /\ Registering(t)
  BY DEF L!CheckConsent, L!ReadVersion, RunsInv
<1>2. CASE tx' = [tx EXCEPT ![t] = L!Free]
  BY <1>1, <1>2, FreeStep
<1>3. ASSUME NEW at, NEW seen, tx' = [tx EXCEPT ![t] = [tx[t] EXCEPT !.at = at, !.seen = seen]] PROVE RunsInv'
  <2> DEFINE x == [tx[t] EXCEPT !.at = at, !.seen = seen]
  <2>1. /\ x.new = tx[t].new /\ x.kind = tx[t].kind /\ x.day = tx[t].day
        /\ DOMAIN x = {"kind", "at", "day", "seen", "new"}
    BY <1>1 DEF Registering
  <2>2. tx' = [tx EXCEPT ![t] = x]
    BY <1>3
  <2> HIDE DEF x
  <2> QED
    BY <1>1, <2>1, <2>2, OtherTxStep DEF Registering
<1>4. CASE tx' = [tx EXCEPT ![t].at = "checked"]
  <2>1. tx' = [tx EXCEPT ![t] = [tx[t] EXCEPT !.at = "checked", !.seen = tx[t].seen]]
    BY <1>1, <1>4 DEF RunsInv, Registering
  <2> QED
    BY <1>3, <2>1
<1>5. CASE L!ReadVersion(t)
  <2>1. tx' = [tx EXCEPT ![t] = [tx[t] EXCEPT !.at = "numbered", !.seen = [tx[t].seen EXCEPT !.version = L!NextVersion]]]
    BY <1>1, <1>5 DEF L!ReadVersion, RunsInv, Registering
  <2> QED
    BY <1>3, <2>1
<1> QED
  BY <1>2, <1>4, <1>5 DEF L!CheckConsent

LEMMA OtherInsert ==
  ASSUME RunsInv, NEW t \in Txs, NEW new, NEW committed, L!Insert(t, new, committed),
         tx[t].kind # "switch", \A r \in new : r.table # "run"
  PROVE  RunsInv'
<1>1. UNCHANGED <<calendar, runs>>
  BY DEF L!Insert
<1>2. CASE tx' = [tx EXCEPT ![t] = L!Free]
  BY <1>1, <1>2, FreeStep
<1>3. CASE tx' = [tx EXCEPT ![t].at = "done", ![t].new = new]
  <2> DEFINE x == [tx[t] EXCEPT !.at = "done", !.new = new]
  <2>1. tx' = [tx EXCEPT ![t] = x]
    BY <1>3
  <2>2. Registering(t)
    BY DEF RunsInv
  <2>3. x.new = new /\ x.kind = tx[t].kind /\ x.day = tx[t].day /\ DOMAIN x = {"kind", "at", "day", "seen", "new"}
    BY <2>2 DEF Registering
  <2> HIDE DEF x
  <2> QED
    BY <1>1, <2>1, <2>2, <2>3, OtherTxStep DEF Registering
<1> QED
  BY <1>2, <1>3 DEF L!Insert

LEMMA OtherRecords ==
  ASSUME RunsInv, NEW t \in Txs, L!RecordEvent(t) \/ L!RecordExposures(t)
  PROVE  RunsInv'
<1>1. CASE L!RecordEvent(t)
  <2>1. /\ tx[t].kind \in {"grant", "revoke"}
        /\ L!Insert(t, {L!ConsentRow(tx[t].kind, tx[t].seen, tx[t].day)}, consents)
    BY <1>1 DEF L!RecordEvent
  <2>2. L!ConsentRow(tx[t].kind, tx[t].seen, tx[t].day).table = "consent"
    BY DEF L!ConsentRow
  <2> QED
    BY <2>1, <2>2, OtherInsert
<1>3. CASE L!RecordExposures(t)
  <2>1. PICK S \in SUBSET (Candidates \ tx[t].seen.items) :
          L!Insert(t, {[table |-> "exposure", week |-> tx[t].seen.week, item |-> i, paper |-> <<t, L!Rows>>]
                       : i \in S}, exposures)
    BY <1>3 DEF L!RecordExposures
  <2> DEFINE new == {[table |-> "exposure", week |-> tx[t].seen.week, item |-> i, paper |-> <<t, L!Rows>>] : i \in S}
  <2>2. \A r \in new : r.table = "exposure"
    OBVIOUS
  <2>3. tx[t].kind = "assembly" /\ L!Insert(t, new, exposures)
    BY <1>3, <2>1 DEF L!RecordExposures
  <2> HIDE DEF new
  <2> QED
    BY <2>2, <2>3, OtherInsert
<1> QED
  BY <1>1, <1>3

\* Nobody holds the run that an update takes.
LEMMA RetireRuns == ASSUME RunsInv, NEW t \in Txs, L!Retire(t) PROVE RunsInv'
<1>1. /\ tx[t].kind = "switch" /\ tx[t].at \in {"begun", "waiting"} /\ UNCHANGED <<calendar, runs>>
      /\ Registering(t)
  BY DEF L!Retire, RunsInv
<1>2. \E seen, at :
        /\ tx' = [tx EXCEPT ![t].seen = seen, ![t].at = at]
        /\ at = "waiting" \/ (at = "retired" /\ (seen = NONE \/ (seen \in L!Active /\ ~L!Held(seen))))
  <2>1. CASE tx[t].at = "begun"
    <3> DEFINE seen == IF L!Active = {} THEN NONE ELSE CHOOSE r \in L!Active : TRUE
               at == IF \E r \in L!Active : L!Held(r) THEN "waiting" ELSE "retired"
    <3>1. tx' = [tx EXCEPT ![t].seen = seen, ![t].at = at]
      BY <2>1 DEF L!Retire
    <3>2. seen = NONE \/ seen \in L!Active
      OBVIOUS
    <3>3. at = "waiting" \/ (at = "retired" /\ \A r \in L!Active : ~L!Held(r))
      OBVIOUS
    <3> HIDE DEF seen, at
    <3> QED
      BY <3>1, <3>2, <3>3
  <2>2. CASE tx[t].at = "waiting"
    <3> DEFINE seen == IF tx[t].seen \in L!Active THEN tx[t].seen ELSE NONE
    <3>1. tx' = [tx EXCEPT ![t].seen = seen, ![t].at = "retired"] /\ ~L!Held(tx[t].seen)
      BY <2>2 DEF L!Retire, RunsInv
    <3>2. seen = NONE \/ (seen \in L!Active /\ ~L!Held(seen))
      BY <3>1
    <3> HIDE DEF seen
    <3> QED
      BY <3>1, <3>2
  <2> QED
    BY <1>1, <2>1, <2>2
<1>3. PICK seen, at :
        /\ tx' = [tx EXCEPT ![t].seen = seen, ![t].at = at]
        /\ at = "waiting" \/ (at = "retired" /\ (seen = NONE \/ (seen \in L!Active /\ ~L!Held(seen))))
  BY <1>2
<1> DEFINE x == [tx[t] EXCEPT !.seen = seen, !.at = at]
<1>4. tx' = [tx EXCEPT ![t] = x]
  BY <1>3
<1>5. /\ x.seen = seen /\ x.at = at /\ x.new = tx[t].new /\ x.kind = tx[t].kind /\ x.day = tx[t].day
      /\ DOMAIN x = DOMAIN tx[t]
  BY <1>1 DEF Registering
<1> HIDE DEF x
<1>6. tx'[t] = x /\ \A u \in Txs \ {t} : tx'[u] = tx[u]
  BY <1>4 DEF RunsInv
<1>7. L!Active' = L!Active
  BY <1>1 DEF L!Active
<1>10. at = "waiting" \/ (at = "retired" /\ (seen = NONE \/ (seen \in L!Active /\ ~L!Held(seen))))
  BY <1>3
<1>8. Registering(t)'
  <2>1. /\ DOMAIN tx'[t] = {"kind", "at", "day", "seen", "new"} /\ tx'[t].day \in Nat
        /\ \A r \in tx'[t].new : r.table = "run" => tx'[t].kind = "switch"
    BY <1>1, <1>5, <1>6 DEF Registering
  <2>2. tx'[t].at # "done" /\ (tx'[t].at = "retired" => tx'[t].seen = NONE \/ tx'[t].seen \in L!Active)
    BY <1>5, <1>6, <1>10
  <2> QED
    BY <1>7, <2>1, <2>2 DEF Registering, Retiring, Registered
<1>9. ASSUME NEW u \in Txs \ {t} PROVE Parted(t, u)'
  <2>1. Retiring(u) => ~(seen = tx[u].seen /\ ~L!Held(seen))
    BY DEF L!Held, Retiring
  <2> QED
    BY <1>5, <1>6, <1>10, <2>1 DEF Parted, Retiring, Registered
<1> QED
  BY <1>1, <1>4, <1>8, <1>9, TxStep

\* A new run is inserted when no other is active, here or with another switch.
LEMMA RegisterRuns == ASSUME RunsInv, NEW t \in Txs, L!Register(t) PROVE RunsInv'
<1>1. PICK m \in Models :
        L!Insert(t, {NewRun(t, m)}, {L!Retired(r, tx[t].seen, tx[t].day) : r \in runs})
  BY DEF L!Register, NewRun
<1> DEFINE n == NewRun(t, m)
           committed == {L!Retired(r, tx[t].seen, tx[t].day) : r \in runs}
<1>2. tx[t].kind = "switch" /\ tx[t].at = "retired" /\ UNCHANGED <<calendar, runs>> /\ Registering(t)
  BY <1>1 DEF L!Register, L!Insert, RunsInv
<1>3. <<"active">> \in L!Keys(n)
  BY DEF L!Keys, NewRun
<1>4. CASE tx' = [tx EXCEPT ![t] = L!Free]
  BY <1>2, <1>4, FreeStep
<1>5. CASE tx' = [tx EXCEPT ![t].at = "done", ![t].new = {n}] /\ ~L!Clash({n}, committed) /\ ~L!Waits(t, {n})
  <2> DEFINE x == [tx[t] EXCEPT !.at = "done", !.new = {n}]
  <2>1. tx' = [tx EXCEPT ![t] = x]
    BY <1>5
  <2>2. /\ x.at = "done" /\ x.new = {n} /\ x.seen = tx[t].seen /\ x.kind = tx[t].kind /\ x.day = tx[t].day
        /\ DOMAIN x = DOMAIN tx[t]
    BY <1>2 DEF Registering
  <2> HIDE DEF x
  <2>3. tx'[t] = x /\ \A u \in Txs \ {t} : tx'[u] = tx[u]
    BY <2>1 DEF RunsInv
  <2>4. ASSUME NEW r \in L!Active PROVE r = tx[t].seen
    <3>1. SUFFICES ASSUME r # tx[t].seen PROVE FALSE
      OBVIOUS
    <3>2. r \in committed /\ r.table = "run" /\ r.until = NONE
      BY <3>1 DEF L!Retired, L!Active, RunsInv, RunRows
    <3>3. <<"active">> \in L!Keys(r)
      BY <3>2 DEF L!Keys
    <3> QED
      BY <1>3, <1>5, <3>2, <3>3 DEF L!Clash, L!AllKeys
  <2>5. ASSUME NEW u \in Txs \ {t} PROVE ~Registered(u)
    <3>1. SUFFICES ASSUME Registered(u) PROVE FALSE
      OBVIOUS
    <3>2. PICK k \in Models : tx[u].new = {NewRun(u, k)}
      BY <3>1 DEF RunsInv, Registering
    <3>3. <<"active">> \in L!Keys(NewRun(u, k))
      BY DEF L!Keys, NewRun
    <3> HIDE DEF n
    <3>4. <<"active">> \in L!AllKeys(tx[u].new) \cap L!AllKeys({n})
      BY <1>3, <3>2, <3>3 DEF L!AllKeys
    <3> QED
      BY <1>5, <3>4 DEF L!Waits
  <2>6. L!Active' = L!Active /\ NewRun(t, m)' = n
    BY <1>2, <2>2, <2>3 DEF L!Active, NewRun
  <2>7. Registering(t)'
    BY <1>2, <2>2, <2>3, <2>4, <2>6 DEF Registering, Retiring, Registered
  <2>8. \A u \in Txs \ {t} : Parted(t, u)'
    BY <1>2, <2>2, <2>3, <2>5 DEF RunsInv, Parted, Retiring, Registered
  <2> QED
    BY <1>2, <2>1, <2>7, <2>8, TxStep
<1> QED
  BY <1>1, <1>4, <1>5 DEF L!Insert

\* A commit files the new run; the one it retires is read as before.
LEMMA CommitRuns == ASSUME RunsInv, NEW t \in Txs, L!Commit(t)
                    PROVE  /\ RunsInv'
                           /\ Registered(t) => \A day \in 0..(tx[t].day - 1) : L!ParamsAt(runs', day) = L!ParamsAt(runs, day)
<1>1. tx' = [tx EXCEPT ![t] = L!Free] /\ UNCHANGED calendar /\ tx[t].at = "done" /\ Registering(t)
  BY DEF L!Commit, RunsInv
<1>2. CASE tx[t].kind # "switch"
  <2>1. runs' = runs
    BY <1>1, <1>2 DEF L!Commit, Registering
  <2> QED
    BY <1>1, <1>2, <2>1, FreeStep DEF Registered
<1>3. CASE tx[t].kind = "switch"
  <2> DEFINE seen == tx[t].seen
             d == tx[t].day
             kept == {L!Retired(r, seen, d) : r \in runs}
  <2>1. PICK m \in Models : tx[t].new = {NewRun(t, m)}
    BY <1>1, <1>3 DEF Registering, Registered
  <2> DEFINE n == NewRun(t, m)
  <2>2. n \in RunRows /\ n.table = "run" /\ n.until = NONE /\ n.from = d /\ d \in Nat
    BY <1>1 DEF NewRun, RunRows, Registering
  <2> HIDE DEF n
  <2>3. runs' = kept \cup {n}
    <3>1. {r \in tx[t].new : r.table = "run"} = {n}
      BY <2>1, <2>2 DEF n
    <3> QED
      BY <1>3, <3>1 DEF L!Commit
  <2>4. runs \subseteq RunRows /\ \A r \in L!Active : r = seen
    BY <1>1, <1>3 DEF RunsInv, Registering, Registered
  <2>5. ASSUME NEW r \in runs PROVE /\ L!Retired(r, seen, d) \in RunRows
                                    /\ L!Retired(r, seen, d).until \in Nat
                                    /\ r # seen => L!Retired(r, seen, d) = r
    <3>1. CASE r = seen
      <4>1. L!Retired(r, seen, d) = [r EXCEPT !.until = d]
        BY <3>1 DEF L!Retired
      <4> QED
        BY <2>2, <2>4, <3>1, <4>1 DEF RunRows
    <3>2. CASE r # seen
      <4>1. r.until # NONE
        BY <2>4, <3>2 DEF L!Active
      <4>2. L!Retired(r, seen, d) = r
        BY <3>2 DEF L!Retired
      <4> QED
        BY <2>4, <4>1, <4>2 DEF RunRows
    <3> QED
      BY <3>1, <3>2
  <2>6. runs' \in SUBSET RunRows
    BY <2>2, <2>3, <2>5
  <2>7. L!Active' = {n}
    BY <2>2, <2>3, <2>5, VersionsAssumption DEF L!Active
  <2>8. tx'[t].at = "idle" /\ tx'[t].new = {} /\ tx'[t].day = 0 /\ DOMAIN tx'[t] = {"kind", "at", "day", "seen", "new"}
        /\ DOMAIN tx' = Txs /\ \A u \in Txs \ {t} : tx'[u] = tx[u]
    BY <1>1 DEF RunsInv, L!Free
  <2>9. ASSUME NEW u \in Txs \ {t} PROVE Registering(u)'
    <3>1. Registering(u) /\ Parted(t, u) /\ Registered(t) /\ tx'[u] = tx[u]
      BY <1>1, <1>3, <2>8 DEF RunsInv, Registered
    <3>2. Retiring(u) => tx[u].seen = NONE
      BY <2>4, <3>1 DEF Registering, Parted, Retiring, Registered
    <3> QED
      BY <3>1, <3>2 DEF Registering, Parted, Retiring, Registered
  <2>10. Registering(t)'
    BY <2>8 DEF Registering, Retiring, Registered
  <2>11. \A u, v \in Txs : u # v => Parted(u, v)'
    BY <2>8 DEF RunsInv, Parted, Retiring, Registered
  <2>12. RunsInv'
    BY <1>1, <2>6, <2>7, <2>8, <2>9, <2>10, <2>11 DEF RunsInv
  <2>13. seen \in runs => seen.until = NONE
    <3>1. seen = NONE \/ seen \in L!Active
      BY <1>1, <1>3 DEF Registering, Retiring
    <3>2. NONE \notin runs
      BY <2>4, RunsAssumption DEF RunRows
    <3> QED
      BY <3>1, <3>2 DEF L!Active
  <2>14. \A day \in 0..(d - 1) : L!ParamsAt(runs', day) = L!ParamsAt(runs, day)
    <3> HIDE DEF seen, d
    <3>1. ASSUME NEW day \in 0..(d - 1) PROVE L!ParamsAt(kept \cup {n}, day) = L!ParamsAt(runs, day)
      BY <2>2, <2>4, <2>13, PastReads
    <3> QED
      BY <2>3, <3>1
  <2> QED
    BY <2>12, <2>14
<1> QED
  BY <1>2, <1>3

LEMMA RunsStep == RunsInv /\ [Next]_vars => RunsInv' /\ L!PastKept
<1> SUFFICES ASSUME RunsInv, [Next]_vars PROVE RunsInv' /\ L!PastKept
  OBVIOUS
<1>1. ASSUME RunsInv',
             \A t \in Txs : Registered(t) /\ tx'[t].at = "idle" =>
               \A day \in 0..(tx[t].day - 1) : L!ParamsAt(runs', day) = L!ParamsAt(runs, day)
      PROVE  L!PastKept
  <2> DEFINE S == {r \in runs' : r.until = NONE}
  <2>1. L!Cardinality(S) <= 1
    <3>1. \A r, q \in S : r = q
      BY <1>1 DEF RunsInv, L!Active
    <3> HIDE DEF S
    <3> QED
      BY <3>1, AtMostOne
  <2> QED
    BY <1>1, <2>1 DEF L!PastKept, Registered
<1>2. CASE UNCHANGED ledgers
  BY <1>1, <1>2 DEF ledgers, RunsInv, Registering, Parted, Retiring, Registered, NewRun, L!Active
<1>3. CASE L!NextDay
  <2>1. calendar' \in Nat /\ UNCHANGED <<runs, tx>>
    BY <1>3 DEF L!NextDay, RunsInv
  <2> QED
    BY <1>1, <2>1 DEF RunsInv, Registering, Parted, Retiring, Registered, NewRun, L!Active
<1>4. ASSUME NEW t \in Txs, RunsInv', UNCHANGED runs PROVE L!PastKept
  BY <1>1, <1>4
<1>5. ASSUME NEW t \in Txs, L!Commit(t) PROVE RunsInv' /\ L!PastKept
  <2>1. \A u \in Txs \ {t} : tx'[u] = tx[u]
    BY <1>5 DEF L!Commit, RunsInv
  <2>2. \A u \in Txs \ {t} : ~(Registered(u) /\ tx'[u].at = "idle")
    BY <2>1 DEF Registered
  <2> QED
    BY <1>1, <1>5, <2>2, CommitRuns
<1>6. ASSUME NEW t \in Txs, L!Rollback(t) PROVE RunsInv' /\ UNCHANGED runs
  BY <1>6, FreeStep DEF L!Rollback
<1>7. ASSUME NEW t \in Txs,
             \/ L!BeginGrant(t) \/ L!BeginRevoke(t) \/ L!BeginSwitch(t) \/ L!BeginAssembly(t)
             \/ L!CheckConsent(t) \/ L!ReadVersion(t) \/ L!RecordEvent(t)
             \/ L!Retire(t) \/ L!Register(t) \/ L!RecordExposures(t)
      PROVE  RunsInv' /\ UNCHANGED runs
  <2>1. RunsInv'
    BY <1>7, BegunRuns, ReadRuns, OtherRecords, RetireRuns, RegisterRuns
  <2>2. UNCHANGED runs
    BY <1>7 DEF L!BeginGrant, L!BeginRevoke, L!BeginSwitch, L!BeginAssembly, L!Begin, L!CheckConsent,
                L!ReadVersion, L!RecordEvent, L!Retire, L!Register, L!RecordExposures, L!Insert
  <2> QED
    BY <2>1, <2>2
<1>8. L!Next \/ UNCHANGED ledgers
  BY DEF Next, vars, python, application
<1> QED
  BY <1>2, <1>3, <1>4, <1>5, <1>6, <1>7, <1>8 DEF L!Next

-----------------------------------------------------------------------------
\* The rows of a day, as some moment had them.
Days == UNION {[S -> Scores \cup {NONE}] : S \in SUBSET Answers}

\* What a run that nobody disturbs may rely on, until it moves its file and after.
Exporting(e) ==
  /\ export[e].at \in {"fetched", "stale", "writing", "closed"} =>
       /\ export[e].rows \in Days /\ DOMAIN export[e].rows \subseteq DOMAIN recorded
       /\ disk.parquet # NONE => DOMAIN disk.parquet.rows \subseteq DOMAIN export[e].rows
  /\ export[e].at = "writing" => export[e].file = "temporary" /\ ~export[e].mixed
  /\ export[e].at = "closed" => disk.temporary = Export!Bytes(export[e].rows)
  /\ export[e].at \in {"moved", "noted"} => disk.parquet # NONE /\ disk.parquet = Export!Bytes(export[e].rows)
  /\ export[e].at = "noted" => disk.draft = export[e].rows
  /\ export[e].at \in {"written", "unchanged"} =>
       disk.parquet # NONE /\ DOMAIN export[e].rows \subseteq DOMAIN disk.parquet.rows

\* Nothing in the file that is not recorded, nothing in the manifest that is
\* not in the file.
Undisturbed ==
  /\ \A e, f \in Exporters : e = f \/ export[e].at \in Export!Resting \/ export[f].at \in Export!Resting
  /\ disk.parquet # NONE => disk.parquet.whole /\ DOMAIN disk.parquet.rows \subseteq DOMAIN recorded
  /\ disk.manifest # NONE => disk.parquet # NONE /\ DOMAIN disk.manifest \subseteq DOMAIN disk.parquet.rows
  /\ \A e \in Exporters : Exporting(e)

ArchiveInv ==
  /\ recorded \in Days
  /\ DOMAIN disk = {"temporary", "parquet", "draft", "manifest"}
  /\ DOMAIN export = Exporters /\ \A e \in Exporters : DOMAIN export[e] = {"at", "rows", "file", "mixed"}
  /\ alone => Undisturbed

\* Between the first statement of a run and its move nothing is lost.
LEMMA DaysGrow ==
  ASSUME recorded \in Days, Export!Next
  PROVE  recorded' \in Days /\ DOMAIN recorded \subseteq DOMAIN recorded' /\ (alone' => alone)
<1>1. PICK S \in SUBSET Answers : recorded \in [S -> Scores \cup {NONE}]
  BY DEF Days
<1>2. ASSUME NEW a \in Answers, Export!Answered(a) PROVE recorded' \in [S \cup {a} -> Scores \cup {NONE}]
  BY <1>1, <1>2 DEF Export!Answered
<1>3. ASSUME NEW a \in Answers, NEW s \in Scores, Export!Scored(a, s) PROVE recorded' \in [S -> Scores \cup {NONE}]
  BY <1>1, <1>3 DEF Export!Scored
<1>4. ASSUME NEW e \in Exporters, Export!Fetch(e) PROVE recorded' = recorded /\ (alone' => alone)
  BY <1>4, Zenon DEF Export!Fetch
<1>5. ASSUME NEW e \in Exporters, Export!Replace(e) \/ Export!Confirm(e) PROVE recorded' = recorded /\ (alone' => alone)
  BY <1>5 DEF Export!Replace, Export!Confirm, Export!Goes
<1>6. ASSUME NEW e \in Exporters,
             Export!Judge(e) \/ Export!Open(e) \/ Export!Close(e) \/ Export!Note(e) \/ Export!Crash(e)
      PROVE  recorded' = recorded /\ (alone' => alone)
  <2>1. ASSUME NEW at, Export!Goes(e, at) PROVE recorded' = recorded /\ (alone' => alone)
    BY <2>1, Zenon DEF Export!Goes
  <2>2. ASSUME Export!Open(e) PROVE recorded' = recorded /\ (alone' => alone)
    BY <2>2, Zenon DEF Export!Open
  <2> QED
    BY <1>6, <2>1, <2>2, Zenon DEF Export!Judge, Export!Close, Export!Note, Export!Crash
<1>7. ASSUME NEW a \in Answers, Export!Answered(a) \/ \E s \in Scores : Export!Scored(a, s)
      PROVE  alone' = alone /\ recorded' \in Days /\ DOMAIN recorded \subseteq DOMAIN recorded'
  <2>1. alone' = alone
    BY <1>7 DEF Export!Answered, Export!Scored
  <2>2. PICK T \in SUBSET Answers : S \subseteq T /\ recorded' \in [T -> Scores \cup {NONE}]
    <3>1. CASE Export!Answered(a)
      <4>1. S \cup {a} \in SUBSET Answers
        OBVIOUS
      <4> QED
        BY <1>2, <3>1, <4>1, Zenon
    <3>2. CASE \E s \in Scores : Export!Scored(a, s)
      BY <1>3, <3>2, Zenon
    <3> QED
      BY <1>7, <3>1, <3>2
  <2> QED
    BY <1>1, <2>1, <2>2 DEF Days
<1> QED
  BY <1>4, <1>5, <1>6, <1>7 DEF Export!Next

\* More answers take nothing away from what a run relies on.
LEMMA RecordedStep ==
  ASSUME ArchiveInv, recorded' \in Days, DOMAIN recorded \subseteq DOMAIN recorded', UNCHANGED <<disk, export, alone>>
  PROVE  ArchiveInv'
<1>1. ASSUME NEW e \in Exporters, Exporting(e) PROVE Exporting(e)'
  BY <1>1 DEF Exporting
<1> QED
  BY <1>1 DEF ArchiveInv, Undisturbed

\* A step of one run while the others rest: the file may only gain answers.
LEMMA LonelyStep ==
  ASSUME NEW e \in Exporters, ArchiveInv, alone, Undisturbed, recorded' = recorded,
         \A f \in Exporters \ {e} : export[f].at \in Export!Resting /\ export'[f] = export[f],
         disk'.parquet # NONE => disk'.parquet.whole /\ DOMAIN disk'.parquet.rows \subseteq DOMAIN recorded,
         disk.parquet # NONE => disk'.parquet # NONE /\ DOMAIN disk.parquet.rows \subseteq DOMAIN disk'.parquet.rows,
         disk'.manifest # NONE => disk'.parquet # NONE /\ DOMAIN disk'.manifest \subseteq DOMAIN disk'.parquet.rows,
         Exporting(e)'
  PROVE  Undisturbed'
<1>1. ASSUME NEW f \in Exporters, f # e PROVE Exporting(f)'
  <2>1. Exporting(f)
    BY DEF Undisturbed
  <2>2. export'[f] = export[f] /\ export[f].at \in Export!Resting
    BY <1>1
  <2> QED
    BY <2>1, <2>2 DEF Exporting, Export!Resting
<1>2. \A f, g \in Exporters : f = g \/ export'[f].at \in Export!Resting \/ export'[g].at \in Export!Resting
  OBVIOUS
<1> QED
  BY <1>1, <1>2 DEF Undisturbed, Export!Resting

\* What the steps of a run share: its record keeps its fields, and when no two
\* overlap the others rest.
Stepping(e, at) ==
  /\ DOMAIN export' = Exporters /\ \A f \in Exporters : DOMAIN export'[f] = {"at", "rows", "file", "mixed"}
  /\ export'[e].at = at /\ export'[e].rows = export[e].rows
  /\ alone => \A f \in Exporters \ {e} : export[f].at \in Export!Resting /\ export'[f] = export[f]

LEMMA GoesStep ==
  ASSUME ArchiveInv, NEW e \in Exporters, NEW at, export[e].at \notin Export!Resting, Export!Goes(e, at)
  PROVE  /\ Stepping(e, at) /\ recorded' = recorded /\ alone' = alone
         /\ export'[e].file = export[e].file /\ export'[e].mixed = export[e].mixed
<1>1. recorded' = recorded /\ alone' = alone /\ export' = [export EXCEPT ![e].at = at]
  BY Zenon DEF Export!Goes
<1>2. DOMAIN export = Exporters /\ \A f \in Exporters : DOMAIN export[f] = {"at", "rows", "file", "mixed"}
  BY DEF ArchiveInv
<1>3. /\ DOMAIN export' = Exporters /\ \A f \in Exporters : f # e => export'[f] = export[f]
      /\ export'[e] = [export[e] EXCEPT !.at = at]
  BY <1>1, <1>2
<1>4. DOMAIN export[e] = {"at", "rows", "file", "mixed"}
  BY <1>2
<1>5. /\ DOMAIN export'[e] = {"at", "rows", "file", "mixed"} /\ export'[e].at = at /\ export'[e].rows = export[e].rows
      /\ export'[e].file = export[e].file /\ export'[e].mixed = export[e].mixed
  BY <1>3, <1>4
<1>6. alone => \A f \in Exporters \ {e} : export[f].at \in Export!Resting
  BY DEF ArchiveInv, Undisturbed
<1> QED
  BY <1>1, <1>2, <1>3, <1>5, <1>6 DEF Stepping

LEMMA FetchStep == ASSUME ArchiveInv, NEW e \in Exporters, Export!Fetch(e) PROVE ArchiveInv'
<1> DEFINE new == [Export!Idle EXCEPT !.at = IF recorded = [a \in {} |-> NONE] THEN "empty" ELSE "fetched",
                                      !.rows = recorded]
<1>1. /\ export' = [export EXCEPT ![e] = new] /\ UNCHANGED <<recorded, disk>>
      /\ alone' => alone /\ \A f \in Exporters : export[f].at \in Export!Resting
  BY Zenon DEF Export!Fetch
<1>2. /\ DOMAIN new = {"at", "rows", "file", "mixed"} /\ new.rows = recorded
      /\ new.at \in {"empty", "fetched"}
  BY DEF Export!Idle
<1> HIDE DEF new
<1>3. /\ DOMAIN export' = Exporters /\ \A f \in Exporters : f # e => export'[f] = export[f]
      /\ export'[e] = new
  BY <1>1 DEF ArchiveInv
<1>4. ASSUME alone' PROVE Undisturbed'
  <2>1. alone /\ Undisturbed
    BY <1>1, <1>4 DEF ArchiveInv
  <2>2. Exporting(e)'
    BY <1>1, <1>2, <1>3, <2>1 DEF Exporting, Undisturbed, ArchiveInv
  <2>3. \A f \in Exporters \ {e} : export[f].at \in Export!Resting /\ export'[f] = export[f]
    BY <1>1, <1>3, <1>4
  <2> QED
    BY <1>1, <2>1, <2>2, <2>3, LonelyStep DEF Undisturbed
<1> QED
  BY <1>1, <1>2, <1>3, <1>4 DEF ArchiveInv

\* The manifest names rows that are all in the file.
LEMMA JudgeStep == ASSUME ArchiveInv, NEW e \in Exporters, Export!Judge(e) PROVE ArchiveInv'
<1> DEFINE at == IF disk.manifest = export[e].rows THEN "unchanged" ELSE "stale"
<1>1. export[e].at = "fetched" /\ Export!Goes(e, at) /\ disk' = disk
  BY DEF Export!Judge
<1>2. export[e].at \notin Export!Resting
  BY <1>1 DEF Export!Resting
<1>3. Stepping(e, at) /\ recorded' = recorded /\ alone' = alone
  BY <1>1, <1>2, GoesStep, Zenon
<1>4. ASSUME alone' PROVE Undisturbed'
  <2>1. alone /\ Undisturbed /\ Exporting(e)
    BY <1>3, <1>4 DEF ArchiveInv, Undisturbed
  <2>2. export[e].rows # NONE
    BY <1>1, <2>1, FilesAssumption DEF Exporting, Days
  <2>3. Exporting(e)'
    BY <1>1, <1>3, <2>1, <2>2 DEF Exporting, Undisturbed, Stepping
  <2>4. \A f \in Exporters \ {e} : export[f].at \in Export!Resting /\ export'[f] = export[f]
    BY <1>3, <2>1 DEF Stepping
  <2> QED
    BY <1>1, <1>3, <2>1, <2>3, <2>4, LonelyStep DEF Undisturbed
<1> QED
  BY <1>1, <1>3, <1>4 DEF ArchiveInv, Stepping

LEMMA OpenStep == ASSUME ArchiveInv, NEW e \in Exporters, Export!Open(e) PROVE ArchiveInv'
<1> DEFINE new == [export[e] EXCEPT !.at = "writing", !.file = "temporary", !.mixed = Export!Sharing(e) # {}]
<1>1. /\ export[e].at = "stale" /\ disk' = [disk EXCEPT !.temporary = Export!Torn] /\ UNCHANGED <<recorded, alone>>
      /\ export' = [f \in Exporters |->
           IF f = e THEN new ELSE IF f \in Export!Sharing(e) THEN [export[f] EXCEPT !.mixed = TRUE] ELSE export[f]]
  BY Zenon DEF Export!Open
<1>2. \A f \in Exporters : DOMAIN export[f] = {"at", "rows", "file", "mixed"}
  BY DEF ArchiveInv
<1>3. /\ DOMAIN new = {"at", "rows", "file", "mixed"} /\ new.at = "writing" /\ new.rows = export[e].rows
      /\ new.file = "temporary" /\ new.mixed = (Export!Sharing(e) # {})
  <2>1. DOMAIN export[e] = {"at", "rows", "file", "mixed"}
    BY <1>2
  <2> QED
    BY <2>1
<1> HIDE DEF new
<1>4. DOMAIN export' = Exporters /\ \A f \in Exporters : DOMAIN export'[f] = {"at", "rows", "file", "mixed"}
  BY <1>1, <1>2, <1>3
<1>5. ASSUME alone' PROVE Undisturbed'
  <2>1. alone /\ Undisturbed /\ Exporting(e)
    BY <1>1, <1>5 DEF ArchiveInv, Undisturbed
  <2>2. \A f \in Exporters \ {e} : export[f].at \in Export!Resting
    BY <1>1, <2>1 DEF Undisturbed, Export!Resting
  <2>3. Export!Sharing(e) = {}
    BY <2>2 DEF Export!Sharing, Export!Resting
  <2>4. export'[e] = new /\ \A f \in Exporters \ {e} : export'[f] = export[f]
    BY <1>1, <2>3
  <2>5. disk'.parquet = disk.parquet /\ disk'.manifest = disk.manifest
    BY <1>1 DEF ArchiveInv
  <2>6. ~new.mixed
    BY <1>3, <2>3
  <2>7. Exporting(e)'
    BY <1>1, <1>3, <2>1, <2>4, <2>5, <2>6 DEF Exporting
  <2> QED
    BY <1>1, <2>1, <2>2, <2>4, <2>5, <2>7, LonelyStep DEF Undisturbed
<1> QED
  BY <1>1, <1>4, <1>5 DEF ArchiveInv

\* A run that fails relies on nothing any more.
LEMMA QuietStep ==
  ASSUME ArchiveInv, NEW e \in Exporters, export[e].at \notin Export!Resting, Export!Goes(e, "failed"), disk' = disk
  PROVE  ArchiveInv'
<1>1. Stepping(e, "failed") /\ recorded' = recorded /\ alone' = alone
  BY GoesStep, Zenon
<1>2. ASSUME alone' PROVE Undisturbed'
  <2>1. alone /\ Undisturbed
    BY <1>1, <1>2 DEF ArchiveInv
  <2>2. Exporting(e)'
    BY <1>1 DEF Exporting, Stepping
  <2>3. \A f \in Exporters \ {e} : export[f].at \in Export!Resting /\ export'[f] = export[f]
    BY <1>1, <2>1 DEF Stepping
  <2> QED
    BY <1>1, <2>1, <2>2, <2>3, LonelyStep DEF Undisturbed
<1> QED
  BY <1>1, <1>2 DEF ArchiveInv, Stepping

LEMMA CloseStep == ASSUME ArchiveInv, NEW e \in Exporters, Export!Close(e) PROVE ArchiveInv'
<1> DEFINE bytes == IF export[e].mixed THEN Export!Torn ELSE Export!Bytes(export[e].rows)
<1>1. /\ export[e].at = "writing" /\ Export!Goes(e, "closed")
      /\ disk' = IF export[e].file = "gone" THEN disk ELSE [disk EXCEPT ![export[e].file] = bytes]
  BY DEF Export!Close
<1> HIDE DEF bytes
<1>2. Stepping(e, "closed") /\ recorded' = recorded /\ alone' = alone
  BY <1>1, GoesStep, Zenon DEF Export!Resting
<1>3. DOMAIN disk' = {"temporary", "parquet", "draft", "manifest"}
  BY <1>1 DEF ArchiveInv
<1>4. ASSUME alone' PROVE Undisturbed'
  <2>1. alone /\ Undisturbed /\ Exporting(e)
    BY <1>2, <1>4 DEF ArchiveInv, Undisturbed
  <2>2. export[e].file = "temporary" /\ ~export[e].mixed
    BY <1>1, <2>1 DEF Exporting
  <2>3. bytes = Export!Bytes(export[e].rows)
    BY <2>2 DEF bytes
  <2>4. /\ disk'.temporary = Export!Bytes(export[e].rows)
        /\ disk'.parquet = disk.parquet /\ disk'.manifest = disk.manifest
    BY <1>1, <2>2, <2>3 DEF ArchiveInv
  <2>5. Exporting(e)'
    BY <1>1, <1>2, <2>1, <2>4 DEF Exporting, Stepping, Export!Bytes
  <2>6. \A f \in Exporters \ {e} : export[f].at \in Export!Resting /\ export'[f] = export[f]
    BY <1>2, <2>1 DEF Stepping
  <2> QED
    BY <1>2, <2>1, <2>4, <2>5, <2>6, LonelyStep DEF Undisturbed
<1> QED
  BY <1>2, <1>3, <1>4 DEF ArchiveInv, Stepping

\* The file that takes the name has every answer of the one before it, because
\* its rows were read after that one was written.
LEMMA ReplaceStep == ASSUME ArchiveInv, NEW e \in Exporters, Export!Replace(e) PROVE ArchiveInv'
<1>1. export[e].at = "closed" /\ export[e].at \notin Export!Resting
  BY DEF Export!Replace, Export!Resting
<1>2. CASE disk.temporary = NONE
  <2>1. Export!Goes(e, "failed") /\ disk' = disk
    BY <1>2 DEF Export!Replace
  <2> QED
    BY <1>1, <2>1, QuietStep
<1>3. CASE disk.temporary # NONE
  <2>1. /\ disk' = [disk EXCEPT !.parquet = disk.temporary, !.temporary = NONE] /\ UNCHANGED <<recorded, alone>>
        /\ export' = [f \in Exporters |-> [export[f] EXCEPT !.file = Export!Moved(@), !.at = IF f = e THEN "moved" ELSE @]]
    BY <1>3, Zenon DEF Export!Replace
  <2>2. \A f \in Exporters : DOMAIN export[f] = {"at", "rows", "file", "mixed"}
    BY DEF ArchiveInv
  <2>3. DOMAIN export' = Exporters /\ \A f \in Exporters : DOMAIN export'[f] = {"at", "rows", "file", "mixed"}
    BY <2>1, <2>2
  <2>4. \A f \in Exporters : export'[f].rows = export[f].rows /\ export'[f].at = IF f = e THEN "moved" ELSE export[f].at
    BY <2>1, <2>2
  <2>5. /\ DOMAIN disk' = {"temporary", "parquet", "draft", "manifest"}
        /\ disk'.parquet = disk.temporary /\ disk'.manifest = disk.manifest
    BY <2>1 DEF ArchiveInv
  <2>6. ASSUME alone' PROVE Undisturbed'
    <3>1. alone /\ Undisturbed /\ Exporting(e)
      BY <2>1, <2>6 DEF ArchiveInv, Undisturbed
    <3>2. \A f \in Exporters \ {e} : export[f].at \in Export!Resting
      BY <1>1, <3>1 DEF Undisturbed
    <3>3. /\ disk'.parquet # NONE /\ disk'.parquet = Export!Bytes(export[e].rows)
          /\ DOMAIN export[e].rows \subseteq DOMAIN recorded
          /\ disk.parquet # NONE => DOMAIN disk.parquet.rows \subseteq DOMAIN export[e].rows
      BY <1>1, <1>3, <2>5, <3>1 DEF Exporting
    <3>4. disk'.parquet.whole /\ disk'.parquet.rows = export[e].rows
      BY <3>3 DEF Export!Bytes
    <3>5. Exporting(e)'
      BY <2>4, <3>3 DEF Exporting, Export!Bytes
    <3>6. ASSUME NEW f \in Exporters, f # e PROVE Exporting(f)'
      <4>1. Exporting(f) /\ export[f].at \in Export!Resting
        BY <3>1, <3>2, <3>6 DEF Undisturbed
      <4>2. export'[f].at = export[f].at /\ export'[f].rows = export[f].rows
        BY <2>4, <3>6
      <4> QED
        BY <3>3, <3>4, <4>1, <4>2 DEF Exporting, Export!Resting
    <3>7. \A f, g \in Exporters : f = g \/ export'[f].at \in Export!Resting \/ export'[g].at \in Export!Resting
      BY <2>4, <3>2
    <3>8. disk'.manifest # NONE => DOMAIN disk'.manifest \subseteq DOMAIN disk'.parquet.rows
      BY <2>5, <3>1, <3>3, <3>4 DEF Undisturbed
    <3>9. \A f \in Exporters : Exporting(f)'
      BY <3>5, <3>6
    <3> QED
      BY <2>1, <3>3, <3>4, <3>7, <3>8, <3>9 DEF Undisturbed, Export!Resting
  <2> QED
    BY <2>1, <2>3, <2>5, <2>6 DEF ArchiveInv
<1> QED
  BY <1>2, <1>3

LEMMA NoteStep == ASSUME ArchiveInv, NEW e \in Exporters, Export!Note(e) PROVE ArchiveInv'
<1>1. export[e].at = "moved" /\ disk' = [disk EXCEPT !.draft = export[e].rows] /\ Export!Goes(e, "noted")
  BY DEF Export!Note
<1>2. Stepping(e, "noted") /\ recorded' = recorded /\ alone' = alone
  BY <1>1, GoesStep, Zenon DEF Export!Resting
<1>3. /\ DOMAIN disk' = {"temporary", "parquet", "draft", "manifest"} /\ disk'.draft = export[e].rows
      /\ disk'.parquet = disk.parquet /\ disk'.manifest = disk.manifest
  BY <1>1 DEF ArchiveInv
<1>4. ASSUME alone' PROVE Undisturbed'
  <2>1. alone /\ Undisturbed /\ Exporting(e)
    BY <1>2, <1>4 DEF ArchiveInv, Undisturbed
  <2>2. Exporting(e)'
    BY <1>1, <1>2, <1>3, <2>1 DEF Exporting, Stepping, Export!Bytes
  <2>3. \A f \in Exporters \ {e} : export[f].at \in Export!Resting /\ export'[f] = export[f]
    BY <1>2, <2>1 DEF Stepping
  <2> QED
    BY <1>2, <1>3, <2>1, <2>2, <2>3, LonelyStep DEF Undisturbed
<1> QED
  BY <1>2, <1>3, <1>4 DEF ArchiveInv, Stepping

LEMMA ConfirmStep == ASSUME ArchiveInv, NEW e \in Exporters, Export!Confirm(e) PROVE ArchiveInv'
<1>1. export[e].at = "noted" /\ export[e].at \notin Export!Resting
  BY DEF Export!Confirm, Export!Resting
<1>2. CASE disk.draft = NONE
  <2>1. Export!Goes(e, "failed") /\ disk' = disk
    BY <1>2 DEF Export!Confirm
  <2> QED
    BY <1>1, <2>1, QuietStep
<1>3. CASE disk.draft # NONE
  <2>1. disk' = [disk EXCEPT !.manifest = disk.draft, !.draft = NONE] /\ Export!Goes(e, "written")
    BY <1>3 DEF Export!Confirm
  <2>2. Stepping(e, "written") /\ recorded' = recorded /\ alone' = alone
    BY <1>1, <2>1, GoesStep, Zenon
  <2>3. /\ DOMAIN disk' = {"temporary", "parquet", "draft", "manifest"}
        /\ disk'.parquet = disk.parquet /\ disk'.manifest = disk.draft
    BY <2>1 DEF ArchiveInv
  <2>4. ASSUME alone' PROVE Undisturbed'
    <3>1. alone /\ Undisturbed /\ Exporting(e)
      BY <2>2, <2>4 DEF ArchiveInv, Undisturbed
    <3>2. disk.draft = export[e].rows /\ disk.parquet # NONE /\ disk.parquet.rows = export[e].rows
      BY <1>1, <3>1 DEF Exporting, Export!Bytes
    <3>3. Exporting(e)'
      BY <2>2, <2>3, <3>2 DEF Exporting, Stepping
    <3>4. \A f \in Exporters \ {e} : export[f].at \in Export!Resting /\ export'[f] = export[f]
      BY <2>2, <3>1 DEF Stepping
    <3> QED
      BY <2>2, <2>3, <3>1, <3>2, <3>3, <3>4, LonelyStep DEF Undisturbed
  <2> QED
    BY <2>2, <2>3, <2>4 DEF ArchiveInv, Stepping
<1> QED
  BY <1>2, <1>3

LEMMA ArchiveStep == ArchiveInv /\ [Next]_vars => ArchiveInv'
<1> SUFFICES ASSUME ArchiveInv, [Next]_vars PROVE ArchiveInv'
  OBVIOUS
<1>1. CASE UNCHANGED archive
  BY <1>1 DEF archive, ArchiveInv, Undisturbed, Exporting
<1>2. CASE Export!Next
  <2>1. recorded' \in Days /\ DOMAIN recorded \subseteq DOMAIN recorded'
    BY <1>2, DaysGrow DEF ArchiveInv
  <2>2. ASSUME NEW a \in Answers, Export!Answered(a) PROVE ArchiveInv'
    BY <2>1, <2>2, RecordedStep DEF Export!Answered
  <2>3. ASSUME NEW a \in Answers, NEW s \in Scores, Export!Scored(a, s) PROVE ArchiveInv'
    BY <2>1, <2>3, RecordedStep DEF Export!Scored
  <2>4. ASSUME NEW e \in Exporters, Export!Crash(e) PROVE ArchiveInv'
    BY <2>4, QuietStep DEF Export!Crash
  <2> QED
    BY <1>2, <2>2, <2>3, <2>4, FetchStep, JudgeStep, OpenStep, CloseStep, ReplaceStep, NoteStep, ConfirmStep DEF Export!Next
<1>3. Export!Next \/ UNCHANGED archive
  BY DEF Next, vars, python, application
<1> QED
  BY <1>1, <1>2, <1>3

-----------------------------------------------------------------------------
\* A run of an estimator, as far as its columns matter.
Estimators == [version : Versions, at : Nat, retired : Nat \cup {NONE}, was : Versions \cup {NONE}]

\* What a caller of SetActive may rely on: what it has read is in force as long
\* as it holds the lock of the scope, and a conflict is one with a row.
Switching(c) ==
  /\ DOMAIN switch[c] = {"at", "version", "time", "seen", "reply"}
  /\ switch[c].at \in {"begun", "locked"} =>
       switch[c].version \in Versions /\ switch[c].time \in Nat /\ switch[c].reply = NONE
  /\ switch[c].at = "locked" => switch[c].seen = Pointer!Current
  /\ switch[c].reply = "conflict" => Pointer!OnFile(switch[c].version, switch[c].time)

PointerInv ==
  /\ moment \in Nat /\ estimators \in Seq(Estimators) /\ DOMAIN switch = Switchers
  /\ \A c \in Switchers : Switching(c)
  /\ \A c, d \in Switchers : switch[c].at = "locked" /\ switch[d].at = "locked" => c = d
  /\ \A i \in DOMAIN estimators : estimators[i].retired = NONE <=> i = Len(estimators)
  /\ \A i \in 2..Len(estimators) :
       estimators[i].was = estimators[i - 1].version /\ estimators[i].was # estimators[i].version

\* The active run is the last one.
LEMMA CurrentIsLast ==
  ASSUME PointerInv
  PROVE  /\ Pointer!Active = IF estimators = <<>> THEN {} ELSE {Len(estimators)}
         /\ Pointer!Current = IF estimators = <<>> THEN NONE ELSE estimators[Len(estimators)].version
<1>1. estimators \in Seq(Estimators) /\ \A i \in DOMAIN estimators : estimators[i].retired = NONE <=> i = Len(estimators)
  BY DEF PointerInv
<1>2. CASE estimators = <<>>
  BY <1>2 DEF Pointer!Active, Pointer!Current
<1>3. CASE estimators # <<>>
  <2>1. Len(estimators) \in DOMAIN estimators
    BY <1>1, <1>3
  <2>2. Pointer!Active = {Len(estimators)}
    BY <1>1, <2>1 DEF Pointer!Active
  <2>3. (CHOOSE i \in {Len(estimators)} : TRUE) = Len(estimators)
    OBVIOUS
  <2> QED
    BY <1>3, <2>2, <2>3 DEF Pointer!Current
<1> QED
  BY <1>2, <1>3

\* A switch retires the last run and appends its own.
LEMMA AppendedRun ==
  ASSUME PointerInv, NEW v \in Versions, NEW t \in Nat, v # Pointer!Current,
         estimators' = Append(Pointer!Retired(t), [version |-> v, at |-> t, retired |-> NONE, was |-> Pointer!Current])
  PROVE  /\ estimators' \in Seq(Estimators) /\ Len(estimators') = Len(estimators) + 1
         /\ \A i \in DOMAIN estimators : i \in DOMAIN estimators' /\ estimators'[i].version = estimators[i].version /\ estimators'[i].at = estimators[i].at
         /\ \A i \in DOMAIN estimators' : estimators'[i].retired = NONE <=> i = Len(estimators')
         /\ \A i \in 2..Len(estimators') : estimators'[i].was = estimators'[i - 1].version /\ estimators'[i].was # estimators'[i].version
<1> DEFINE n == Len(estimators)
           old1 == Pointer!Retired(t)
           last == [version |-> v, at |-> t, retired |-> NONE, was |-> Pointer!Current]
<1>1. n \in Nat /\ DOMAIN estimators = 1..n /\ \A i \in 1..n : estimators[i] \in Estimators
  BY DEF PointerInv
<1>2. ASSUME NEW i \in 1..n PROVE i \in Pointer!Active <=> i = n
  <2>1. estimators # <<>>
    BY <1>1, <1>2
  <2> QED
    BY <2>1, CurrentIsLast
<1>3. old1 = [i \in 1..n |-> IF i = n THEN [estimators[i] EXCEPT !.retired = t] ELSE estimators[i]]
  BY <1>1, <1>2 DEF Pointer!Retired
<1>4. \A i \in 1..n : /\ old1[i] \in Estimators /\ old1[i].version = estimators[i].version /\ old1[i].at = estimators[i].at
                      /\ old1[i].was = estimators[i].was /\ old1[i].retired # NONE
  <2>1. ASSUME NEW i \in 1..n PROVE estimators[i].retired = NONE <=> i = n
    BY <1>1 DEF PointerInv
  <2> QED
    BY <1>1, <1>3, <2>1, VersionsAssumption DEF Estimators
<1>5. old1 \in Seq(Estimators) /\ Len(old1) = n
  <2>1. old1 \in [1..n -> Estimators]
    BY <1>3, <1>4
  <2> QED
    BY <1>1, <2>1
<1>6. last \in Estimators
  <2>1. Pointer!Current \in Versions \cup {NONE}
    BY <1>1, CurrentIsLast DEF Estimators, PointerInv
  <2> QED
    BY <2>1 DEF Estimators
<1> HIDE DEF old1, last
<1>7. /\ estimators' = Append(old1, last) /\ estimators' \in Seq(Estimators) /\ Len(estimators') = n + 1
      /\ \A i \in 1..n : estimators'[i] = old1[i]
      /\ estimators'[n + 1] = last
  BY <1>1, <1>5, <1>6 DEF old1, last
<1>8. last.version = v /\ last.retired = NONE /\ last.was = Pointer!Current
  BY DEF last
<1>9. \A i \in DOMAIN estimators' : estimators'[i].retired = NONE <=> i = Len(estimators')
  BY <1>1, <1>4, <1>7, <1>8
<1>10. ASSUME NEW i \in 2..Len(estimators') PROVE estimators'[i].was = estimators'[i - 1].version /\ estimators'[i].was # estimators'[i].version
  <2>1. CASE i = n + 1
    <3>1. n \in 1..n /\ estimators # <<>>
      BY <1>1, <1>7, <1>10, <2>1
    <3>2. Pointer!Current = estimators[n].version
      BY <3>1, CurrentIsLast
    <3>3. i - 1 = n
      BY <1>1, <2>1
    <3> QED
      BY <1>4, <1>7, <1>8, <2>1, <3>1, <3>2, <3>3
  <2>2. CASE i \in 2..n
    <3>1. i - 1 \in 1..n /\ i \in 1..n
      BY <1>1, <2>2
    <3>2. estimators[i].was = estimators[i - 1].version /\ estimators[i].was # estimators[i].version
      BY <2>2 DEF PointerInv
    <3> QED
      BY <1>4, <1>7, <3>1, <3>2
  <2> QED
    BY <1>1, <1>7, <2>1, <2>2
<1> QED
  BY <1>1, <1>4, <1>7, <1>9, <1>10

\* A step of one caller that leaves the runs alone.
LEMMA CallerStep ==
  ASSUME PointerInv, NEW c \in Switchers, NEW new, switch' = [switch EXCEPT ![c] = new], UNCHANGED <<moment, estimators>>,
         DOMAIN new = {"at", "version", "time", "seen", "reply"},
         new.at \in {"begun", "locked"} => new.version \in Versions /\ new.time \in Nat /\ new.reply = NONE,
         new.at = "locked" => new.seen = Pointer!Current /\ Pointer!Free(c),
         new.reply = "conflict" => Pointer!OnFile(new.version, new.time)
  PROVE  PointerInv'
<1>1. DOMAIN switch' = Switchers /\ \A d \in Switchers : switch'[d] = IF d = c THEN new ELSE switch[d]
  BY DEF PointerInv
<1>2. Pointer!Current' = Pointer!Current
  BY DEF Pointer!Current, Pointer!Active
<1>3. Switching(c)'
  BY <1>1, <1>2 DEF Switching, Pointer!OnFile
<1>4. ASSUME NEW d \in Switchers, d # c PROVE Switching(d)'
  <2>1. switch'[d] = switch[d] /\ Switching(d)
    BY <1>1, <1>4 DEF PointerInv
  <2> QED
    BY <1>2, <2>1 DEF Switching, Pointer!OnFile
<1>5. \A a, b \in Switchers : switch'[a].at = "locked" /\ switch'[b].at = "locked" => a = b
  BY <1>1 DEF PointerInv, Pointer!Free
<1>6. \A d \in Switchers : Switching(d)'
  BY <1>3, <1>4
<1> QED
  BY <1>1, <1>5, <1>6 DEF PointerInv

LEMMA SwitchStep == ASSUME PointerInv, NEW c \in Switchers, Pointer!Switch(c) PROVE PointerInv'
<1>1. switch[c].at = "begun" /\ Pointer!Free(c) /\ UNCHANGED <<moment, estimators>>
  BY DEF Pointer!Switch
<1>2. /\ DOMAIN switch[c] = {"at", "version", "time", "seen", "reply"} /\ switch[c].version \in Versions
      /\ switch[c].time \in Nat /\ switch[c].reply = NONE
  BY <1>1 DEF PointerInv, Switching
<1>3. CASE Pointer!OnFile(switch[c].version, switch[c].time)
           /\ switch' = [switch EXCEPT ![c].at = "told", ![c].reply = "conflict"]
  <2> DEFINE new == [switch[c] EXCEPT !.at = "told", !.reply = "conflict"]
  <2>1. switch' = [switch EXCEPT ![c] = new]
    BY <1>3
  <2>2. /\ DOMAIN new = {"at", "version", "time", "seen", "reply"} /\ new.at = "told"
        /\ new.version = switch[c].version /\ new.time = switch[c].time
    BY <1>2
  <2> HIDE DEF new
  <2> QED
    BY <1>1, <1>3, <2>1, <2>2, CallerStep
<1>4. CASE switch' = [switch EXCEPT ![c].at = "locked", ![c].seen = Pointer!Current]
  <2> DEFINE new == [switch[c] EXCEPT !.at = "locked", !.seen = Pointer!Current]
  <2>1. switch' = [switch EXCEPT ![c] = new]
    BY <1>4
  <2>2. /\ DOMAIN new = {"at", "version", "time", "seen", "reply"} /\ new.at = "locked" /\ new.seen = Pointer!Current
        /\ new.version = switch[c].version /\ new.time = switch[c].time /\ new.reply = NONE
    BY <1>2
  <2> HIDE DEF new
  <2>3. new.reply # "conflict"
    BY <2>2, TextAssumption
  <2> QED
    BY <1>1, <1>2, <2>1, <2>2, <2>3, CallerStep
<1> QED
  BY <1>3, <1>4 DEF Pointer!Switch

\* Under the lock the run that was read is still the one in force, so that the
\* commit retires it and is not refused.
LEMMA PublishStep == ASSUME PointerInv, NEW c \in Switchers, Pointer!Commit(c) PROVE PointerInv'
<1>1. switch[c].at = "locked" /\ moment' = moment /\ Switching(c)
  BY DEF Pointer!Commit, PointerInv
<1>2. /\ DOMAIN switch[c] = {"at", "version", "time", "seen", "reply"} /\ switch[c].version \in Versions
      /\ switch[c].time \in Nat /\ switch[c].seen = Pointer!Current
  BY <1>1 DEF Switching
<1>3. CASE switch[c].seen = switch[c].version
  <2> DEFINE new == [switch[c] EXCEPT !.at = "told", !.reply = "same"]
  <2>1. switch' = [switch EXCEPT ![c] = new] /\ estimators' = estimators
    BY <1>2, <1>3 DEF Pointer!Commit
  <2>2. DOMAIN new = {"at", "version", "time", "seen", "reply"} /\ new.at = "told" /\ new.reply = "same"
    BY <1>2
  <2> HIDE DEF new
  <2> QED
    BY <1>1, <2>1, <2>2, CallerStep
<1>4. CASE switch[c].seen # switch[c].version
  <2> DEFINE new == [switch[c] EXCEPT !.at = "told", !.reply = "switched"]
             run == [version |-> switch[c].version, at |-> switch[c].time, retired |-> NONE, was |-> Pointer!Current]
  <2>1. switch' = [switch EXCEPT ![c] = new] /\ estimators' = Append(Pointer!Retired(switch[c].time), run)
    BY <1>2, <1>4 DEF Pointer!Commit
  <2>2. DOMAIN new = {"at", "version", "time", "seen", "reply"} /\ new.at = "told" /\ new.reply = "switched"
    BY <1>2
  <2>3. /\ estimators' \in Seq(Estimators) /\ Len(estimators') = Len(estimators) + 1
        /\ \A i \in DOMAIN estimators : /\ i \in DOMAIN estimators' /\ estimators'[i].version = estimators[i].version
                                        /\ estimators'[i].at = estimators[i].at
        /\ \A i \in DOMAIN estimators' : estimators'[i].retired = NONE <=> i = Len(estimators')
        /\ \A i \in 2..Len(estimators') :
             estimators'[i].was = estimators'[i - 1].version /\ estimators'[i].was # estimators'[i].version
    <3>1. switch[c].version # Pointer!Current
      BY <1>2, <1>4
    <3> QED
      BY <1>2, <2>1, <3>1, AppendedRun
  <2> HIDE DEF new, run
  <2>4. DOMAIN switch' = Switchers /\ \A d \in Switchers : switch'[d] = IF d = c THEN new ELSE switch[d]
    BY <2>1 DEF PointerInv
  <2>5. \A d \in Switchers : switch'[d].at # "locked"
    BY <1>1, <2>2, <2>4 DEF PointerInv
  <2>6. ASSUME NEW d \in Switchers PROVE Switching(d)'
    <3>1. CASE d = c
      BY <2>2, <2>4, <3>1 DEF Switching
    <3>2. CASE d # c
      <4>1. switch'[d] = switch[d] /\ Switching(d)
        BY <2>4, <3>2 DEF PointerInv
      <4> QED
        BY <2>3, <2>5, <4>1 DEF Switching, Pointer!OnFile
    <3> QED
      BY <3>1, <3>2
  <2> QED
    BY <1>1, <2>3, <2>4, <2>5, <2>6 DEF PointerInv
<1> QED
  BY <1>3, <1>4

LEMMA PointerStep == PointerInv /\ [Next]_vars => PointerInv'
<1> SUFFICES ASSUME PointerInv, [Next]_vars PROVE PointerInv'
  OBVIOUS
<1>1. ASSUME UNCHANGED <<estimators, switch>>, moment' \in Nat PROVE PointerInv'
  BY <1>1 DEF PointerInv, Switching, Pointer!Current, Pointer!Active, Pointer!OnFile
<1>2. CASE UNCHANGED pointer
  BY <1>1, <1>2 DEF pointer, PointerInv
<1>3. CASE Pointer!Tick
  BY <1>1, <1>3 DEF Pointer!Tick, PointerInv
<1>4. ASSUME NEW c \in Switchers, NEW v \in Versions, Pointer!Begin(c, v) PROVE PointerInv'
  <2>1. PICK t \in 0..moment :
          switch' = [switch EXCEPT ![c] = [Pointer!Rest EXCEPT !.at = "begun", !.version = v, !.time = t]]
    BY <1>4 DEF Pointer!Begin
  <2> DEFINE new == [Pointer!Rest EXCEPT !.at = "begun", !.version = v, !.time = t]
  <2>2. /\ DOMAIN new = {"at", "version", "time", "seen", "reply"} /\ new.at = "begun" /\ new.version = v
        /\ new.time = t /\ new.reply = NONE
    BY DEF Pointer!Rest
  <2> HIDE DEF new
  <2>3. t \in Nat /\ new.reply # "conflict" /\ UNCHANGED <<moment, estimators>>
    BY <1>4, <2>2, TextAssumption DEF PointerInv, Pointer!Begin
  <2>4. switch' = [switch EXCEPT ![c] = new]
    BY <2>1 DEF new
  <2> QED
    BY <2>2, <2>3, <2>4, CallerStep
<1>5. ASSUME NEW c \in Switchers, Pointer!Abort(c) PROVE PointerInv'
  <2>1. /\ DOMAIN Pointer!Rest = {"at", "version", "time", "seen", "reply"}
        /\ Pointer!Rest.at = "idle" /\ Pointer!Rest.reply # "conflict"
    BY TextAssumption DEF Pointer!Rest
  <2> QED
    BY <1>5, <2>1, CallerStep DEF Pointer!Abort
<1>6. Pointer!Next \/ UNCHANGED pointer
  BY DEF Next, vars, python, application
<1> QED
  BY <1>2, <1>3, <1>4, <1>5, <1>6, SwitchStep, PublishStep DEF Pointer!Next

-----------------------------------------------------------------------------
\* A call of Create: who is told of a fixed order or of a conflict knows that an
\* order is stored, and while one commits there is none.
Creating(c) ==
  /\ DOMAIN create[c] = {"at", "asked", "reply"}
  /\ create[c].at \in {"insert", "commit"} => create[c].asked \in Orders /\ create[c].reply = NONE
  /\ create[c].at = "commit" => sequence = NONE
  /\ create[c].reply = "fixed" => sequence # NONE /\ create[c].asked = sequence
  /\ create[c].reply = "conflict" => sequence # NONE /\ create[c].asked # sequence

OrderInv ==
  /\ DOMAIN create = Starters /\ sequence \in Orders \cup {NONE} /\ store \in {"pg", "memory"}
  /\ \A c \in Starters : Creating(c)
  /\ \A c, d \in Starters : create[c].at = "commit" /\ create[d].at = "commit" => c = d /\ store = "pg"
  /\ \A c \in Starters : create[c].at = "commit" => store = "pg"

\* Orders with the same items and tokens are the same.
LEMMA SameOrder == \A a, b \in Orders : Fixation!Same(a, b) <=> a = b
  BY OrdersAssumption DEF Fixation!Same

LEMMA OrderStep == OrderInv /\ [Next]_vars => OrderInv'
<1> SUFFICES ASSUME OrderInv, [Next]_vars PROVE OrderInv'
  OBVIOUS
<1>1. CASE UNCHANGED fixation
  BY <1>1 DEF fixation, OrderInv, Creating
<1>2. ASSUME NEW c \in Starters, NEW new, create' = [create EXCEPT ![c] = new], store' = store,
             sequence' \in Orders \cup {NONE}, sequence # NONE => sequence' = sequence,
             sequence' # sequence => \A d \in Starters \ {c} : create[d].at # "commit",
             DOMAIN new = {"at", "asked", "reply"},
             new.at \in {"insert", "commit"} => new.asked \in Orders /\ new.reply = NONE,
             new.at = "commit" =>
               sequence' = NONE /\ store = "pg" /\ \A d \in Starters \ {c} : create[d].at # "commit",
             new.reply = "fixed" => sequence' # NONE /\ new.asked = sequence',
             new.reply = "conflict" => sequence' # NONE /\ new.asked # sequence'
      PROVE  OrderInv'
  <2>1. DOMAIN create' = Starters /\ \A d \in Starters : create'[d] = IF d = c THEN new ELSE create[d]
    BY <1>2 DEF OrderInv
  <2>2. Creating(c)'
    BY <1>2, <2>1 DEF Creating
  <2>3. ASSUME NEW d \in Starters, d # c PROVE Creating(d)'
    <3>1. create'[d] = create[d] /\ Creating(d)
      BY <2>1, <2>3 DEF OrderInv
    <3> QED
      BY <1>2, <2>3, <3>1 DEF Creating
  <2>4. \A d \in Starters : Creating(d)'
    BY <2>2, <2>3
  <2>5. /\ \A a, b \in Starters : create'[a].at = "commit" /\ create'[b].at = "commit" => a = b /\ store' = "pg"
        /\ \A d \in Starters : create'[d].at = "commit" => store' = "pg"
    BY <1>2, <2>1 DEF OrderInv
  <2> QED
    BY <1>2, <2>1, <2>4, <2>5 DEF OrderInv
<1>3. ASSUME NEW c \in Starters, NEW o \in Orders, Fixation!Ask(c, o) PROVE OrderInv'
  <2> DEFINE new == [Fixation!Quiet EXCEPT !.at = "insert", !.asked = o]
  <2>1. create' = [create EXCEPT ![c] = new] /\ UNCHANGED <<store, sequence>>
    BY <1>3 DEF Fixation!Ask
  <2>2. DOMAIN new = {"at", "asked", "reply"} /\ new.at = "insert" /\ new.asked = o /\ new.reply = NONE
    BY DEF Fixation!Quiet
  <2> HIDE DEF new
  <2>3. new.reply \notin {"fixed", "conflict"} /\ sequence \in Orders \cup {NONE}
    BY <2>2, TextAssumption DEF OrderInv
  <2> QED
    BY <1>2, <2>1, <2>2, <2>3
<1>4. ASSUME NEW c \in Starters, create[c].at \in {"insert", "commit"}, NEW reply1, Fixation!Tell(c, reply1)
      PROVE  \E new : /\ create' = [create EXCEPT ![c] = new] /\ DOMAIN new = {"at", "asked", "reply"}
                      /\ new.at = "told" /\ new.asked = create[c].asked /\ new.asked \in Orders /\ new.reply = reply1
  <2>1. DOMAIN create[c] = {"at", "asked", "reply"} /\ create[c].asked \in Orders /\ DOMAIN create = Starters
    BY <1>4 DEF OrderInv, Creating
  <2> DEFINE new == [create[c] EXCEPT !.at = "told", !.reply = reply1]
  <2>2. create' = [create EXCEPT ![c] = new]
    BY <1>4 DEF Fixation!Tell
  <2>3. /\ DOMAIN new = {"at", "asked", "reply"} /\ new.at = "told" /\ new.asked = create[c].asked
        /\ new.reply = reply1
    BY <2>1
  <2> HIDE DEF new
  <2> QED
    BY <2>1, <2>2, <2>3
<1>5. ASSUME NEW c \in Starters, Fixation!Fix(c) PROVE OrderInv'
  <2> DEFINE said == IF sequence = NONE \/ Fixation!Same(sequence, create[c].asked) THEN "fixed" ELSE "conflict"
  <2>1. /\ create[c].at = "insert" /\ store = "memory" /\ store' = store /\ Fixation!Tell(c, said)
        /\ sequence' = IF sequence = NONE THEN create[c].asked ELSE sequence
    BY <1>5 DEF Fixation!Fix
  <2>2. PICK new : /\ create' = [create EXCEPT ![c] = new] /\ DOMAIN new = {"at", "asked", "reply"}
                   /\ new.at = "told" /\ new.asked = create[c].asked /\ new.asked \in Orders /\ new.reply = said
    BY <1>4, <2>1
  <2>3. sequence' \in Orders /\ sequence' # NONE
    BY <2>1, <2>2, OrdersAssumption DEF OrderInv
  <2>4. (said = "fixed" /\ new.asked = sequence') \/ (said = "conflict" /\ new.asked # sequence')
    BY <2>1, <2>2, SameOrder DEF OrderInv
  <2>5. \A d \in Starters : create[d].at # "commit"
    BY <2>1 DEF OrderInv
  <2> HIDE DEF said
  <2> QED
    BY <1>2, <2>1, <2>2, <2>3, <2>4, <2>5
<1>6. ASSUME NEW c \in Starters, Fixation!Insert(c) PROVE OrderInv'
  <2>1. /\ create[c].at = "insert" /\ store = "pg" /\ UNCHANGED <<store, sequence>>
        /\ \A d \in Starters : create[d].at # "commit"
    BY <1>6 DEF Fixation!Insert
  <2>2. /\ DOMAIN create[c] = {"at", "asked", "reply"} /\ create[c].asked \in Orders /\ create[c].reply = NONE
        /\ sequence \in Orders \cup {NONE}
    BY <2>1 DEF OrderInv, Creating
  <2>3. CASE sequence = NONE /\ create' = [create EXCEPT ![c].at = "commit"]
    <3> DEFINE new == [create[c] EXCEPT !.at = "commit"]
    <3>1. create' = [create EXCEPT ![c] = new]
      BY <2>3
    <3>2. /\ DOMAIN new = {"at", "asked", "reply"} /\ new.at = "commit" /\ new.asked \in Orders /\ new.reply = NONE
          /\ new.reply # "fixed" /\ new.reply # "conflict"
      BY <2>2, TextAssumption
    <3>3. sequence' = NONE
      BY <2>1, <2>3
    <3> HIDE DEF new
    <3> QED
      BY <1>2, <2>1, <2>2, <3>1, <3>2, <3>3
  <2>4. CASE Fixation!Tell(c, "error")
    <3>1. PICK new : /\ create' = [create EXCEPT ![c] = new] /\ DOMAIN new = {"at", "asked", "reply"}
                     /\ new.at = "told" /\ new.reply = "error"
      BY <1>4, <2>1, <2>4
    <3> QED
      BY <1>2, <2>1, <2>2, <3>1
  <2> QED
    BY <1>6, <2>3, <2>4 DEF Fixation!Insert
<1>7. ASSUME NEW c \in Starters, Fixation!Commit(c) PROVE OrderInv'
  <2>1. create[c].at = "commit" /\ store' = store /\ sequence = NONE /\ create[c].asked \in Orders
    BY <1>7 DEF Fixation!Commit, OrderInv, Creating
  <2>2. \A d \in Starters \ {c} : create[d].at # "commit"
    BY <2>1 DEF OrderInv
  <2>3. PICK said \in {"fixed", "lost"} :
          Fixation!Tell(c, said) /\ (sequence' = create[c].asked \/ (sequence' = sequence /\ said = "lost"))
    BY <1>7 DEF Fixation!Commit
  <2>4. PICK new : /\ create' = [create EXCEPT ![c] = new] /\ DOMAIN new = {"at", "asked", "reply"}
                   /\ new.at = "told" /\ new.asked = create[c].asked /\ new.asked \in Orders /\ new.reply = said
    BY <1>4, <2>1, <2>3
  <2> QED
    BY <1>2, <2>1, <2>2, <2>3, <2>4, OrdersAssumption
<1>8. Fixation!Next \/ UNCHANGED fixation
  BY DEF Next, vars, python, application
<1> QED
  BY <1>1, <1>3, <1>5, <1>6, <1>7, <1>8 DEF Fixation!Next

-----------------------------------------------------------------------------
\* The AI bus: tokens paid for and not yet booked are those of the calls under
\* way, and as long as there is a limit, the calls that passed the budget
\* leave room for the dearest answer to each of them.
Open == {c \in Speakers : call[c].at \in {"outbound", "observe"}}
Unbooked == {u \in Speakers \X (1..Bus!Dearest) : call[u[1]].at = "observe" /\ u[2] <= call[u[1]].cost}
Budgeted ==
  /\ used \in Nat /\ paid = used + Cardinality(Unbooked)
  /\ Limit > 0 => used + Cardinality(Open) * Bus!Dearest < Limit + Cardinality(Speakers) * Bus!Dearest

Calling(c) ==
  /\ DOMAIN call[c] = {"at", "kind", "text", "id", "cost", "reply"}
  /\ call[c].cost \in 0..Bus!Dearest
  /\ call[c].at # "idle" => call[c].text \in Sayings /\ call[c].id \in Nat
  /\ call[c].at \in {"outbound", "observe", "record", "put"} => call[c].text \notin Unclean
  /\ call[c].at = "put" \/ call[c].reply \in {"audio", "content"} => Bus!Billed(call[c].text, call[c].id)

Entries == [text : Sayings, id : Nat]
Cached ==
  /\ lru \in Seq(Entries) /\ Len(lru) <= Capacity
  /\ \A i \in DOMAIN lru : Bus!Billed(lru[i].text, lru[i].id)
  /\ \A i, j \in DOMAIN lru : lru[i].text = lru[j].text => i = j

BusInv ==
  /\ DOMAIN call = Speakers /\ drawn \in Nat
  /\ Budgeted /\ Cached /\ \A c \in Speakers : Calling(c)

LEMMA DearestFacts == /\ Bus!Dearest \in Nat \ {0}
                      /\ 1 + SpokenTokens <= Bus!Dearest /\ 1 + MaxOut <= Bus!Dearest
  BY TokensAssumption DEF Bus!Dearest

\* What there is to count, and how it is bounded.
LEMMA OpenFacts ==
  /\ IsFiniteSet(Open) /\ Cardinality(Open) \in Nat /\ Cardinality(Open) <= Cardinality(Speakers)
  /\ Cardinality(Speakers) \in Nat
  /\ IsFiniteSet(Unbooked) /\ Cardinality(Unbooked) \in Nat
  /\ Cardinality(Unbooked) <= Cardinality(Open) * Bus!Dearest
<1>1. IsFiniteSet(Open) /\ Cardinality(Open) <= Cardinality(Speakers)
  BY FS_Subset, TokensAssumption DEF Open
<1>2. IsFiniteSet(1..Bus!Dearest) /\ Cardinality(1..Bus!Dearest) = Bus!Dearest
  BY FS_Interval, DearestFacts
<1>3. /\ IsFiniteSet(Open \X (1..Bus!Dearest))
      /\ Cardinality(Open \X (1..Bus!Dearest)) = Cardinality(Open) * Bus!Dearest
  BY <1>1, <1>2, FS_Product
<1>4. Unbooked \in SUBSET (Open \X (1..Bus!Dearest))
  BY DEF Unbooked, Open
<1>5. IsFiniteSet(Unbooked) /\ Cardinality(Unbooked) <= Cardinality(Open) * Bus!Dearest
  BY <1>3, <1>4, FS_Subset
<1> QED
  BY <1>1, <1>5, FS_CardinalityType, TokensAssumption

\* The units of one call are as many as its tokens.
LEMMA UnitsOf ==
  ASSUME NEW c, NEW n \in Nat
  PROVE  IsFiniteSet({c} \X (1..n)) /\ Cardinality({c} \X (1..n)) = n
<1>1. IsFiniteSet(1..n) /\ Cardinality(1..n) = n
  BY FS_Interval
<1>2. IsFiniteSet({c}) /\ Cardinality({c}) = 1
  BY FS_Singleton
<1> QED
  BY <1>1, <1>2, FS_Product

\* A step of one caller.
LEMMA SpeakerStep ==
  ASSUME BusInv, NEW c \in Speakers, NEW x, call' = [call EXCEPT ![c] = x],
         ledger \subseteq ledger', Calling(c)'
  PROVE  /\ DOMAIN call' = Speakers /\ call'[c] = x /\ \A d \in Speakers \ {c} : call'[d] = call[d]
         /\ \A d \in Speakers : Calling(d)'
<1>1. DOMAIN call' = Speakers /\ call'[c] = x /\ \A d \in Speakers \ {c} : call'[d] = call[d]
  BY DEF BusInv
<1>2. ASSUME NEW d \in Speakers \ {c} PROVE Calling(d)'
  <2>1. Calling(d) /\ call'[d] = call[d]
    BY <1>1 DEF BusInv
  <2>2. Bus!Billed(call[d].text, call[d].id) => Bus!Billed(call[d].text, call[d].id)'
    BY DEF Bus!Billed
  <2> QED
    BY <2>1, <2>2 DEF Calling
<1> QED
  BY <1>1, <1>2

\* One that neither begins nor ends a call to the target.
LEMMA BudgetQuiet ==
  ASSUME BusInv, NEW c \in Speakers, NEW x, call' = [call EXCEPT ![c] = x], UNCHANGED <<used, paid>>,
         call[c].at # "observe", x.at \notin {"outbound", "observe"}
  PROVE  Budgeted'
<1>1. call'[c] = x /\ \A d \in Speakers \ {c} : call'[d] = call[d]
  BY DEF BusInv
<1>2. Unbooked' = Unbooked
  BY <1>1 DEF Unbooked
<1>3. Open' \in SUBSET Open
  BY <1>1 DEF Open
<1>4. Cardinality(Open') \in Nat /\ Cardinality(Open') <= Cardinality(Open)
  BY <1>3, OpenFacts, FS_Subset, FS_CardinalityType
<1>5. Cardinality(Open') * Bus!Dearest <= Cardinality(Open) * Bus!Dearest
  BY <1>4, OpenFacts, DearestFacts
<1> QED
  BY <1>2, <1>4, <1>5, OpenFacts, DearestFacts, TokensAssumption DEF BusInv, Budgeted

\* The cache, when it is left alone, and when an entry comes to its front.
LEMMA CacheQuiet == ASSUME BusInv, UNCHANGED lru, ledger \subseteq ledger' PROVE Cached'
  BY DEF BusInv, Cached, Bus!Billed

LEMMA RemoveAtFacts ==
  ASSUME NEW S, NEW s \in Seq(S), NEW i \in DOMAIN s
  PROVE  /\ Bus!RemoveAt(s, i) \in Seq(S) /\ Len(Bus!RemoveAt(s, i)) = Len(s) - 1
         /\ \A j \in 1..(Len(s) - 1) : Bus!RemoveAt(s, i)[j] = IF j < i THEN s[j] ELSE s[j + 1]
<1> DEFINE a == SubSeq(s, 1, i - 1)
           b == SubSeq(s, i + 1, Len(s))
<1>1. i \in 1..Len(s) /\ Len(s) \in Nat
  OBVIOUS
<1>2. a \in Seq(S) /\ Len(a) = i - 1 /\ \A j \in 1..(i - 1) : a[j] = s[j]
  BY <1>1
<1>3. b \in Seq(S) /\ Len(b) = Len(s) - i /\ \A j \in 1..(Len(s) - i) : b[j] = s[i + j]
  BY <1>1
<1>4. Bus!RemoveAt(s, i) = a \o b
  BY DEF Bus!RemoveAt
<1> HIDE DEF a, b
<1>5. /\ a \o b \in Seq(S) /\ Len(a \o b) = Len(s) - 1
      /\ \A j \in 1..(Len(s) - 1) : (a \o b)[j] = IF j <= i - 1 THEN a[j] ELSE b[j - (i - 1)]
  BY <1>1, <1>2, <1>3
<1>6. ASSUME NEW j \in 1..(Len(s) - 1) PROVE (a \o b)[j] = IF j < i THEN s[j] ELSE s[j + 1]
  <2>1. CASE j < i
    BY <1>1, <1>2, <1>5, <2>1
  <2>2. CASE ~(j < i)
    <3>1. j - (i - 1) \in 1..(Len(s) - i) /\ i + (j - (i - 1)) = j + 1
      BY <1>1, <2>2
    <3> QED
      BY <1>1, <1>3, <1>5, <2>2, <3>1
  <2> QED
    BY <2>1, <2>2
<1> QED
  BY <1>4, <1>5, <1>6

LEMMA FrontFacts ==
  ASSUME NEW S, NEW s \in Seq(S), Len(s) >= 1
  PROVE  /\ Bus!Front(s) \in Seq(S) /\ Len(Bus!Front(s)) = Len(s) - 1
         /\ \A j \in 1..(Len(s) - 1) : Bus!Front(s)[j] = s[j]
<1>0. Len(s) \in Nat
  OBVIOUS
<1>1. PICK n \in 0..Len(s) : n = Len(s) - 1
  <2> DEFINE m == Len(s)
  <2>1. m \in Nat /\ m >= 1
    BY <1>0
  <2> HIDE DEF m
  <2>2. m - 1 \in 0..m
    BY <2>1
  <2> QED
    BY <2>2 DEF m
<1>2. Bus!Front(s) = SubSeq(s, 1, n)
  BY <1>1 DEF Bus!Front
<1>3. SubSeq(s, 1, n) \in Seq(S) /\ Len(SubSeq(s, 1, n)) = n /\ \A j \in 1..n : SubSeq(s, 1, n)[j] = s[j]
  OBVIOUS
<1> QED
  BY <1>1, <1>2, <1>3

LEMMA AheadFacts ==
  ASSUME NEW S, NEW e \in S, NEW s \in Seq(S)
  PROVE  /\ <<e>> \o s \in Seq(S) /\ Len(<<e>> \o s) = Len(s) + 1
         /\ (<<e>> \o s)[1] = e /\ \A j \in 2..(Len(s) + 1) : (<<e>> \o s)[j] = s[j - 1]
  OBVIOUS

LEMMA FrontedCache ==
  ASSUME BusInv, NEW e \in Entries, Bus!Billed(e.text, e.id),
         NEW i \in DOMAIN lru, lru[i].text = e.text, lru' = Bus!Fronted(e, i), ledger \subseteq ledger'
  PROVE  Cached'
<1> DEFINE r == Bus!RemoveAt(lru, i)
           n == Len(lru)
<1>1. lru \in Seq(Entries) /\ n \in Nat /\ n <= Capacity /\ i \in 1..n
  BY DEF BusInv, Cached
<1>2. /\ r \in Seq(Entries) /\ Len(r) = n - 1
      /\ \A j \in 1..(n - 1) : r[j] = IF j < i THEN lru[j] ELSE lru[j + 1]
  BY <1>1, RemoveAtFacts
<1>3. lru' = <<e>> \o r
  BY DEF Bus!Fronted
<1> HIDE DEF r
<1>4. /\ lru' \in Seq(Entries) /\ Len(lru') = n
      /\ lru'[1] = e /\ \A j \in 2..n : lru'[j] = r[j - 1]
  BY <1>1, <1>2, <1>3
<1>5. ASSUME NEW j \in 2..n PROVE lru'[j] = IF j - 1 < i THEN lru[j - 1] ELSE lru[j]
  <2>1. j - 1 \in 1..(n - 1) /\ (j - 1) + 1 = j
    BY <1>1
  <2> QED
    BY <1>2, <1>4, <2>1
<1> HIDE DEF n
<1>6. DOMAIN lru' = 1..n /\ DOMAIN lru = 1..n
  BY <1>1, <1>4 DEF n
<1>7. \A text, id : Bus!Billed(text, id) => Bus!Billed(text, id)'
  BY DEF Bus!Billed
<1>8. \A j \in 1..n : Bus!Billed(lru'[j].text, lru'[j].id)
  <2>1. \A j \in 1..n : Bus!Billed(lru[j].text, lru[j].id)
    BY <1>6 DEF BusInv, Cached
  <2>2. ASSUME NEW j \in 1..n PROVE Bus!Billed(lru'[j].text, lru'[j].id)
    <3>1. CASE j = 1
      BY <1>4, <3>1
    <3>2. CASE j # 1
      <4>1. j \in 2..n /\ j - 1 \in 1..n
        BY <1>1, <3>2
      <4> QED
        BY <1>5, <2>1, <4>1
    <3> QED
      BY <3>1, <3>2
  <2> QED
    BY <2>2
<1>9. ASSUME NEW j \in 1..n, NEW k \in 1..n, lru'[j].text = lru'[k].text PROVE j = k
  <2>1. \A p, q \in 1..n : lru[p].text = lru[q].text => p = q
    BY <1>6 DEF BusInv, Cached
  <2>2. ASSUME NEW q \in 2..n PROVE \E p \in 1..n : p # i /\ lru'[q] = lru[p] /\ p = IF q - 1 < i THEN q - 1 ELSE q
    <3>1. CASE q - 1 < i
      <4>1. q - 1 \in 1..n /\ q - 1 # i
        BY <1>1, <3>1
      <4> QED
        BY <1>5, <3>1, <4>1
    <3>2. CASE ~(q - 1 < i)
      <4>1. q \in 1..n /\ q # i
        BY <1>1, <3>2
      <4> QED
        BY <1>5, <3>2, <4>1
    <3> QED
      BY <3>1, <3>2
  <2>6. ASSUME NEW q \in 2..n PROVE lru'[q].text # e.text
    <3>1. PICK p \in 1..n : p # i /\ lru'[q] = lru[p]
      BY <2>2
    <3> QED
      BY <1>1, <2>1, <3>1
  <2>3. CASE j = 1 /\ k # 1
    <3>1. k \in 2..n /\ lru'[k].text = e.text
      BY <1>1, <1>4, <1>9, <2>3
    <3> QED
      BY <2>6, <3>1
  <2>4. CASE k = 1 /\ j # 1
    <3>1. j \in 2..n /\ lru'[j].text = e.text
      BY <1>1, <1>4, <1>9, <2>4
    <3> QED
      BY <2>6, <3>1
  <2>5. CASE j # 1 /\ k # 1
    <3>1. PICK p \in 1..n : p # i /\ lru'[j] = lru[p] /\ p = IF j - 1 < i THEN j - 1 ELSE j
      BY <2>2, <2>5
    <3>2. PICK q \in 1..n : q # i /\ lru'[k] = lru[q] /\ q = IF k - 1 < i THEN k - 1 ELSE k
      BY <2>2, <2>5
    <3>3. p = q
      BY <1>9, <2>1, <3>1, <3>2
    <3> QED
      BY <1>1, <3>1, <3>2, <3>3
  <2> QED
    BY <2>3, <2>4, <2>5
<1> QED
  BY <1>1, <1>4, <1>6, <1>7, <1>8, <1>9 DEF Cached, n

\* A new entry at the front, the last one of too many gone.
LEMMA AddedCache ==
  ASSUME BusInv, NEW e \in Entries, Bus!Billed(e.text, e.id), Bus!Hit(e.text) = {},
         NEW rest, rest = IF Len(lru) < Capacity THEN lru ELSE Bus!Front(lru),
         lru' = <<e>> \o rest, ledger \subseteq ledger'
  PROVE  Cached'
<1>1. lru \in Seq(Entries) /\ Len(lru) \in Nat /\ Len(lru) <= Capacity /\ DOMAIN lru = 1..Len(lru)
  BY DEF BusInv, Cached
<1>2. /\ rest \in Seq(Entries) /\ Len(rest) <= Len(lru) /\ Len(rest) + 1 <= Capacity
      /\ \A j \in 1..Len(rest) : rest[j] = lru[j]
  <2> DEFINE n == Len(lru)
  <2>1. n \in Nat /\ n <= Capacity /\ Capacity \in Nat /\ Capacity >= 1
    BY <1>1, TokensAssumption
  <2>2. CASE n < Capacity
    <3>1. rest = lru /\ n + 1 <= Capacity
      BY <2>1, <2>2
    <3> QED
      BY <1>1, <3>1
  <2>3. CASE ~(n < Capacity)
    <3>1. rest = Bus!Front(lru)
      BY <2>3
    <3> HIDE DEF n
    <3>2. n = Capacity /\ n >= 1 /\ (n - 1) + 1 <= Capacity /\ n - 1 <= n
      BY <2>1, <2>3
    <3>3. rest \in Seq(Entries) /\ Len(rest) = n - 1 /\ \A j \in 1..(n - 1) : rest[j] = lru[j]
      BY <1>1, <3>1, <3>2, FrontFacts DEF n
    <3> QED
      BY <3>2, <3>3 DEF n
  <2> QED
    BY <2>2, <2>3
<1> DEFINE n == Len(rest)
<1>4. n \in Nat /\ n <= Len(lru) /\ \A j \in 1..n : j \in DOMAIN lru
  BY <1>1, <1>2
<1>5. /\ lru' \in Seq(Entries) /\ Len(lru') = n + 1
      /\ lru'[1] = e /\ \A j \in 2..(n + 1) : lru'[j] = rest[j - 1]
  BY <1>2, AheadFacts
<1>6. ASSUME NEW j \in 2..(n + 1) PROVE j - 1 \in 1..n /\ lru'[j] = lru[j - 1]
  <2>1. j - 1 \in 1..n
    BY <1>4
  <2> QED
    BY <1>2, <1>5, <2>1
<1>7. DOMAIN lru' = 1..(n + 1) /\ Len(lru') <= Capacity
  BY <1>2, <1>5
<1> HIDE DEF n
<1>8. \A j \in DOMAIN lru : lru[j].text # e.text /\ Bus!Billed(lru[j].text, lru[j].id)
  BY DEF Bus!Hit, BusInv, Cached
<1>9. \A text, id : Bus!Billed(text, id) => Bus!Billed(text, id)'
  BY DEF Bus!Billed
<1>10. ASSUME NEW j \in 1..(n + 1) PROVE Bus!Billed(lru'[j].text, lru'[j].id)
  <2>1. CASE j = 1
    BY <1>5, <2>1
  <2>2. CASE j # 1
    <3>1. j \in 2..(n + 1)
      BY <1>4, <2>2
    <3> QED
      BY <1>4, <1>6, <1>8, <3>1
  <2> QED
    BY <2>1, <2>2
<1>11. ASSUME NEW j \in 1..(n + 1), NEW k \in 1..(n + 1), lru'[j].text = lru'[k].text PROVE j = k
  <2>1. \A p \in 2..(n + 1) : lru'[p].text # e.text
    BY <1>4, <1>6, <1>8
  <2>2. j = 1 \/ j \in 2..(n + 1)
    BY <1>4
  <2>3. k = 1 \/ k \in 2..(n + 1)
    BY <1>4
  <2>4. CASE j \in 2..(n + 1) /\ k \in 2..(n + 1)
    <3>1. lru[j - 1].text = lru[k - 1].text /\ j - 1 \in DOMAIN lru /\ k - 1 \in DOMAIN lru
      BY <1>4, <1>6, <1>11, <2>4
    <3>2. j - 1 = k - 1
      BY <3>1 DEF BusInv, Cached
    <3> QED
      BY <2>4, <3>2
  <2> QED
    BY <1>5, <1>11, <2>1, <2>2, <2>3, <2>4
<1> QED
  BY <1>5, <1>7, <1>9, <1>10, <1>11 DEF Cached

LEMMA AskedStep ==
  ASSUME BusInv, NEW c \in Speakers, NEW kind, NEW text \in Sayings, Bus!Ask(c, kind, text)
  PROVE  BusInv'
<1> DEFINE told(i) == [Bus!Silent EXCEPT !.at = "told", !.kind = kind, !.text = text,
                                         !.id = lru[i].id, !.reply = "audio"]
           fresh == [Bus!Silent EXCEPT !.at = "gate", !.kind = kind, !.text = text, !.id = drawn + 1]
<1>1. UNCHANGED <<used, paid, ledger>> /\ call[c].at \in {"idle", "told"} /\ drawn \in Nat
  BY DEF Bus!Ask, BusInv
<1>2. CASE \E i \in Bus!Hit(text) : lru' = Bus!Fronted(lru[i], i) /\ call' = [call EXCEPT ![c] = told(i)] /\ drawn' = drawn
  <2>1. PICK i \in Bus!Hit(text) : lru' = Bus!Fronted(lru[i], i) /\ call' = [call EXCEPT ![c] = told(i)] /\ drawn' = drawn
    BY <1>2
  <2>2. i \in DOMAIN lru /\ lru[i].text = text /\ lru[i] \in Entries
    BY DEF Bus!Hit, BusInv, Cached
  <2>3. Bus!Billed(text, lru[i].id)
    BY <2>2 DEF BusInv, Cached
  <2>9. PICK id \in Nat : id = lru[i].id /\ Bus!Billed(text, id)
    BY <2>2, <2>3 DEF Entries
  <2> DEFINE x == told(i)
  <2>4. /\ x.at = "told" /\ x.text = text /\ x.id = lru[i].id /\ x.cost = 0
        /\ DOMAIN x = {"at", "kind", "text", "id", "cost", "reply"}
    BY DEF Bus!Silent
  <2>5. call' = [call EXCEPT ![c] = x]
    BY <2>1
  <2> HIDE DEF x
  <2>6. Calling(c)'
    <3>1. call'[c] = x
      BY <2>5 DEF BusInv
    <3>2. Bus!Billed(text, id)'
      BY <1>1, <2>9 DEF Bus!Billed
    <3>3. x.id = id /\ id \in Nat /\ 0 \in 0..Bus!Dearest
      BY <2>4, <2>9, DearestFacts
    <3> QED
      BY <2>4, <3>1, <3>2, <3>3 DEF Calling
  <2>7. Cached'
    BY <1>1, <2>1, <2>2, <2>3, FrontedCache
  <2>8. Budgeted'
    BY <1>1, <2>4, <2>5, BudgetQuiet
  <2> QED
    BY <1>1, <2>1, <2>5, <2>6, <2>7, <2>8, SpeakerStep DEF BusInv
<1>3. CASE call' = [call EXCEPT ![c] = fresh] /\ drawn' = drawn + 1 /\ lru' = lru
  <2>1. /\ fresh.at = "gate" /\ fresh.text = text /\ fresh.id = drawn + 1 /\ fresh.cost = 0 /\ fresh.reply = NONE
        /\ DOMAIN fresh = {"at", "kind", "text", "id", "cost", "reply"}
    BY DEF Bus!Silent
  <2> HIDE DEF fresh
  <2>2. call'[c] = fresh
    BY <1>3 DEF BusInv
  <2>3. Calling(c)'
    BY <1>1, <2>1, <2>2, DearestFacts, TextAssumption DEF Calling
  <2>4. Cached'
    BY <1>1, <1>3, CacheQuiet
  <2>5. Budgeted'
    BY <1>1, <1>3, <2>1, BudgetQuiet
  <2>6. DOMAIN call' = Speakers /\ \A d \in Speakers : Calling(d)'
    BY <1>1, <1>3, <2>3, SpeakerStep
  <2>7. drawn' \in Nat
    BY <1>1, <1>3
  <2> QED
    BY <2>4, <2>5, <2>6, <2>7 DEF BusInv
<1> QED
  BY <1>2, <1>3 DEF Bus!Ask

\* The budget lets a call pass only while less than the limit is booked.
LEMMA GateStep == ASSUME BusInv, NEW c \in Speakers, Bus!Gate(c) PROVE BusInv'
<1>1. UNCHANGED <<used, paid, ledger, lru, drawn>> /\ call[c].at = "gate"
  BY DEF Bus!Gate
<1> DEFINE passes == call[c].text \notin Unclean /\ Bus!Allows(call[c].kind)
           x == [call[c] EXCEPT !.at = IF passes THEN "outbound" ELSE "rejected"]
<1>2. call' = [call EXCEPT ![c] = x]
  BY DEF Bus!Gate, Bus!Step
<1>3. /\ x.at = (IF passes THEN "outbound" ELSE "rejected") /\ DOMAIN x = DOMAIN call[c]
      /\ x.cost = call[c].cost /\ x.text = call[c].text /\ x.id = call[c].id /\ x.reply = call[c].reply
  BY DEF BusInv, Calling
<1>4. call'[c] = x /\ \A d \in Speakers \ {c} : call'[d] = call[d]
  BY <1>2 DEF BusInv
<1> HIDE DEF x
<1>5. Calling(c)'
  <2>1. Calling(c)
    BY DEF BusInv
  <2>2. \A text, id : Bus!Billed(text, id) <=> Bus!Billed(text, id)'
    BY <1>1 DEF Bus!Billed
  <2> QED
    BY <1>1, <1>3, <1>4, <2>1, <2>2 DEF Calling
<1>6. Cached'
  BY <1>1, CacheQuiet
<1>7. Budgeted'
  <2>1. CASE ~passes
    BY <1>1, <1>2, <1>3, <2>1, BudgetQuiet
  <2>2. CASE passes
    <3>1. Limit > 0 => used < Limit
      <4>1. Limit > 0 => used + Bus!Estimate(call[c].kind) <= Limit
        BY <2>2, TokensAssumption DEF Bus!Allows
      <4>2. Bus!Estimate(call[c].kind) \in Nat /\ Bus!Estimate(call[c].kind) >= 1
        BY TokensAssumption DEF Bus!Estimate
      <4> QED
        BY <4>1, <4>2, TokensAssumption DEF BusInv, Budgeted
    <3>2. Unbooked' = Unbooked
      BY <1>1, <1>3, <1>4, <2>2 DEF Unbooked
    <3>3. Open' \in SUBSET Speakers
      BY DEF Open
    <3>4. Cardinality(Open') \in Nat /\ Cardinality(Open') <= Cardinality(Speakers)
      BY <3>3, FS_Subset, FS_CardinalityType, TokensAssumption
    <3>5. Cardinality(Open') * Bus!Dearest <= Cardinality(Speakers) * Bus!Dearest
      BY <3>4, OpenFacts, DearestFacts
    <3>6. Cardinality(Open') * Bus!Dearest \in Int /\ Cardinality(Speakers) * Bus!Dearest \in Int
      BY <3>4, OpenFacts, DearestFacts
    <3> HIDE DEF passes
    <3>7. used \in Nat /\ paid = used + Cardinality(Unbooked)
      BY DEF BusInv, Budgeted
    <3> QED
      BY <1>1, <3>1, <3>2, <3>5, <3>6, <3>7, TokensAssumption DEF Budgeted
  <2> QED
    BY <2>1, <2>2
<1> QED
  BY <1>1, <1>2, <1>5, <1>6, <1>7, SpeakerStep DEF BusInv

\* A failed call leaves; an answer adds its units.
LEMMA OutboundStep == ASSUME BusInv, NEW c \in Speakers, Bus!Outbound(c) PROVE BusInv'
<1>1. UNCHANGED <<used, ledger, lru, drawn>> /\ call[c].at = "outbound"
  BY DEF Bus!Outbound
<1>2. Cached'
  BY <1>1, CacheQuiet
<1>3. Calling(c) /\ \A text, id : Bus!Billed(text, id) <=> Bus!Billed(text, id)'
  BY <1>1 DEF BusInv, Bus!Billed
<1>4. CASE Bus!Step(c, "failed") /\ UNCHANGED paid
  <2> DEFINE x == [call[c] EXCEPT !.at = "failed"]
  <2>1. call' = [call EXCEPT ![c] = x]
    BY <1>4 DEF Bus!Step
  <2>2. /\ x.at = "failed" /\ DOMAIN x = DOMAIN call[c]
        /\ x.cost = call[c].cost /\ x.text = call[c].text /\ x.id = call[c].id /\ x.reply = call[c].reply
    BY <1>3 DEF Calling
  <2> HIDE DEF x
  <2>3. Calling(c)'
    BY <1>1, <1>3, <2>1, <2>2 DEF Calling, BusInv
  <2>4. Budgeted'
    BY <1>1, <1>4, <2>1, <2>2, BudgetQuiet
  <2> QED
    BY <1>1, <1>2, <2>1, <2>3, <2>4, SpeakerStep DEF BusInv
<1>5. CASE \E out \in IF call[c].kind = "speech" THEN {SpokenTokens} ELSE 1..MaxOut :
          /\ paid' = paid + 1 + out
          /\ call' = [call EXCEPT ![c].at = "observe", ![c].cost = 1 + out]
  <2>1. PICK out \in IF call[c].kind = "speech" THEN {SpokenTokens} ELSE 1..MaxOut :
          /\ paid' = paid + 1 + out
          /\ call' = [call EXCEPT ![c].at = "observe", ![c].cost = 1 + out]
    BY <1>5
  <2>2. out \in Nat /\ 1 + out \in 0..Bus!Dearest
    BY TokensAssumption, DearestFacts
  <2> DEFINE x == [call[c] EXCEPT !.at = "observe", !.cost = 1 + out]
  <2>3. call' = [call EXCEPT ![c] = x]
    BY <2>1
  <2>4. /\ DOMAIN x = DOMAIN call[c] /\ x.at = "observe" /\ x.cost = 1 + out
        /\ x.text = call[c].text /\ x.id = call[c].id /\ x.reply = call[c].reply
    BY <1>3 DEF Calling
  <2>5. call'[c] = x /\ \A d \in Speakers \ {c} : call'[d] = call[d]
    BY <2>3 DEF BusInv
  <2> HIDE DEF x
  <2>6. Calling(c)'
    BY <1>1, <1>3, <2>2, <2>4, <2>5 DEF Calling
  <2>12. PICK n \in Nat : n = 1 + out
    BY <2>2
  <2> DEFINE U == {c} \X (1..n)
  <2>7. Unbooked' = Unbooked \cup U /\ Unbooked \cap U = {}
    BY <1>1, <2>2, <2>4, <2>5, <2>12, DearestFacts DEF Unbooked
  <2>8. IsFiniteSet(U) /\ Cardinality(U) = n
    BY UnitsOf
  <2> HIDE DEF U
  <2>9. Cardinality(Unbooked') = Cardinality(Unbooked) + (1 + out)
    <3>1. IsFiniteSet(Unbooked) /\ Cardinality(Unbooked) \in Nat
      BY OpenFacts
    <3>2. Cardinality(Unbooked \cup U) = Cardinality(Unbooked) + Cardinality(U) - Cardinality(Unbooked \cap U)
      BY <2>8, <3>1, FS_Union
    <3>3. Cardinality(Unbooked \cap U) = 0
      BY <2>7, FS_EmptySet
    <3> QED
      BY <2>7, <2>8, <2>12, <3>1, <3>2, <3>3
  <2>10. Open' = Open
    BY <1>1, <2>4, <2>5 DEF Open
  <2>11. Budgeted'
    BY <1>1, <2>1, <2>2, <2>9, <2>10, OpenFacts DEF BusInv, Budgeted
  <2> QED
    BY <1>1, <1>2, <2>3, <2>6, <2>11, SpeakerStep DEF BusInv
<1> QED
  BY <1>4, <1>5 DEF Bus!Outbound

\* What is booked was paid for before.
LEMMA ObserveStep == ASSUME BusInv, NEW c \in Speakers, Bus!Observe(c) PROVE BusInv'
<1> DEFINE cost == call[c].cost
           x == [call[c] EXCEPT !.at = "record"]
           U == {c} \X (1..cost)
<1>1. UNCHANGED <<paid, ledger, lru, drawn>> /\ call[c].at = "observe" /\ used' = used + cost
      /\ call' = [call EXCEPT ![c] = x]
  BY DEF Bus!Observe, Bus!Step
<1>2. Cached'
  BY <1>1, CacheQuiet
<1>3. Calling(c) /\ \A text, id : Bus!Billed(text, id) <=> Bus!Billed(text, id)'
  BY <1>1 DEF BusInv, Bus!Billed
<1>4. /\ x.at = "record" /\ DOMAIN x = DOMAIN call[c]
      /\ x.cost = call[c].cost /\ x.text = call[c].text /\ x.id = call[c].id /\ x.reply = call[c].reply
  BY <1>3 DEF Calling
<1>5. call'[c] = x /\ \A d \in Speakers \ {c} : call'[d] = call[d]
  BY <1>1 DEF BusInv
<1>6. cost \in Nat /\ cost <= Bus!Dearest
  BY <1>3, DearestFacts DEF Calling
<1> HIDE DEF x
<1>7. Calling(c)'
  BY <1>1, <1>3, <1>4, <1>5 DEF Calling
<1>8. Unbooked' = Unbooked \ U /\ Unbooked \cap U = U
  BY <1>1, <1>4, <1>5, <1>6, DearestFacts DEF Unbooked
<1>9. IsFiniteSet(U) /\ Cardinality(U) = cost
  BY <1>6, UnitsOf
<1> HIDE DEF U
<1>10. Cardinality(Unbooked') = Cardinality(Unbooked) - cost
  <2>1. IsFiniteSet(Unbooked)
    BY OpenFacts
  <2>2. Cardinality(Unbooked \ U) = Cardinality(Unbooked) - Cardinality(Unbooked \cap U)
    BY <2>1, FS_Difference
  <2> QED
    BY <1>8, <1>9, <2>2
<1>11. Open' = Open \ {c} /\ c \in Open
  BY <1>1, <1>4, <1>5 DEF Open
<1>12. Cardinality(Open') = Cardinality(Open) - 1
  BY <1>11, OpenFacts, FS_RemoveElement
<1> HIDE DEF cost
<1>13. Cardinality(Open') * Bus!Dearest = Cardinality(Open) * Bus!Dearest - Bus!Dearest
  BY <1>12, OpenFacts, DearestFacts
<1>14. Cardinality(Open) * Bus!Dearest \in Int /\ Cardinality(Speakers) * Bus!Dearest \in Int
  BY OpenFacts, DearestFacts
<1>15. Budgeted'
  BY <1>1, <1>6, <1>10, <1>13, <1>14, OpenFacts, DearestFacts, TokensAssumption DEF BusInv, Budgeted
<1> QED
  BY <1>1, <1>2, <1>7, <1>15, SpeakerStep DEF BusInv

\* A row is written before anything is delivered, and only then.
LEMMA LedgeredStep ==
  ASSUME BusInv, NEW c \in Speakers, Bus!Refuse(c) \/ Bus!Record(c) \/ Bus!Keep(c)
  PROVE  BusInv'
<1>1. UNCHANGED <<used, paid, drawn>> /\ ledger \subseteq ledger' /\ Calling(c)
      /\ call[c].at \in {"rejected", "failed", "record", "put"}
  BY DEF Bus!Refuse, Bus!Record, Bus!Keep, BusInv
<1>2. \A text, id : Bus!Billed(text, id) => Bus!Billed(text, id)'
  BY <1>1 DEF Bus!Billed
<1> DEFINE HasRow == [id |-> call[c].id, status |-> "ok", text |-> call[c].text] \in ledger' /\ call[c].text \notin Unclean
<1>3. ASSUME NEW x, call' = [call EXCEPT ![c] = x], DOMAIN x = DOMAIN call[c], Cached',
             x.at \in {"told", "put"}, x.cost = call[c].cost, x.text = call[c].text, x.id = call[c].id,
             x.at = "put" \/ x.reply \in {"audio", "content"} => HasRow
      PROVE  BusInv'
  <2>1. call'[c] = x
    BY <1>3 DEF BusInv
  <2>2. Calling(c)'
    BY <1>1, <1>3, <2>1 DEF Calling, Bus!Billed
  <2>3. Budgeted'
    BY <1>1, <1>3, BudgetQuiet
  <2> QED
    BY <1>1, <1>3, <2>2, <2>3, SpeakerStep DEF BusInv
<1>4. ASSUME NEW answer, Bus!Tell(c, answer), Cached', answer \in {"audio", "content"} => HasRow
      PROVE  BusInv'
  <2> DEFINE x == [call[c] EXCEPT !.at = "told", !.reply = answer]
  <2>1. call' = [call EXCEPT ![c] = x]
    BY <1>4 DEF Bus!Tell
  <2>2. /\ x.at = "told" /\ DOMAIN x = DOMAIN call[c] /\ x.reply = answer
        /\ x.cost = call[c].cost /\ x.text = call[c].text /\ x.id = call[c].id
    BY <1>1 DEF Calling
  <2> HIDE DEF x, HasRow
  <2> QED
    BY <1>3, <1>4, <2>1, <2>2
<1>5. ASSUME Bus!Step(c, "put"), Cached', HasRow PROVE BusInv'
  <2> DEFINE x == [call[c] EXCEPT !.at = "put"]
  <2>1. call' = [call EXCEPT ![c] = x]
    BY <1>5 DEF Bus!Step
  <2>2. /\ x.at = "put" /\ DOMAIN x = DOMAIN call[c]
        /\ x.cost = call[c].cost /\ x.text = call[c].text /\ x.id = call[c].id
    BY <1>1 DEF Calling
  <2> HIDE DEF x, HasRow
  <2> QED
    BY <1>3, <1>5, <2>1, <2>2
<1>6. CASE Bus!Refuse(c)
  <2>1. Bus!Tell(c, "error") /\ Cached'
    BY <1>1, <1>6, CacheQuiet DEF Bus!Refuse
  <2> QED
    BY <1>4, <2>1
<1>7. CASE Bus!Record(c)
  <2>1. Cached' /\ call[c].text \notin Unclean
    BY <1>1, <1>7, CacheQuiet DEF Bus!Record, Calling
  <2>2. ledger' = ledger \cup {Bus!Row(c, "ok")} => HasRow
    BY <2>1 DEF Bus!Row
  <2>3. \/ HasRow /\ (Bus!Step(c, "put") \/ Bus!Tell(c, "content"))
        \/ Bus!Tell(c, "error")
    BY <1>7, <2>2 DEF Bus!Record
  <2> HIDE DEF HasRow
  <2> QED
    BY <1>4, <1>5, <2>1, <2>3
<1>8. CASE Bus!Keep(c)
  <2> DEFINE e == [text |-> call[c].text, id |-> call[c].id]
  <2>1. /\ call[c].at = "put" /\ Bus!Put(e) /\ Bus!Tell(c, "audio") /\ ledger' = ledger
    BY <1>8 DEF Bus!Keep
  <2>2. e \in Entries /\ Bus!Billed(e.text, e.id)
    BY <1>1, <2>1 DEF Calling, Entries
  <2>3. HasRow
    BY <2>1, <2>2 DEF Bus!Billed
  <2> HIDE DEF e, HasRow
  <2>4. Cached'
    <3>1. CASE \E i \in Bus!Hit(e.text) : lru' = Bus!Fronted(e, i)
      BY <1>1, <2>2, <3>1, FrontedCache DEF Bus!Hit
    <3>2. CASE /\ Bus!Hit(e.text) = {}
               /\ \E rest : /\ rest = IF Len(lru) < Capacity THEN lru ELSE Bus!Front(lru)
                           /\ lru' = <<e>> \o rest
      BY <1>1, <2>2, <3>2, AddedCache
    <3> QED
      BY <2>1, <3>1, <3>2 DEF Bus!Put
  <2> QED
    BY <1>4, <2>1, <2>3, <2>4
<1> QED
  BY <1>6, <1>7, <1>8

LEMMA BusStep == BusInv /\ [Next]_vars => BusInv'
<1> SUFFICES ASSUME BusInv, [Next]_vars PROVE BusInv'
  OBVIOUS
<1>1. CASE UNCHANGED bus
  <2>1. UNCHANGED <<used, paid, ledger, lru, call, drawn>>
    BY <1>1 DEF bus
  <2> QED
    BY <2>1 DEF BusInv, Budgeted, Open, Unbooked, Cached, Calling, Bus!Billed
<1>2. Bus!Next \/ UNCHANGED bus
  BY DEF Next, vars, python, application
<1> QED
  BY <1>1, <1>2, AskedStep, GateStep, OutboundStep, ObserveStep, LedgeredStep DEF Bus!Next

-----------------------------------------------------------------------------
(* What job j asks for, and that it cannot be had. *)
Asked(j) == A!Asked(jobs[j])
Hopeless(j) == Asked(j).voice \notin DOMAIN Voices \/ jobs[j].text \in Unspeakable

(* Audio under a content id is that of some job with this id. *)
Told(id, e) == \E k \in DOMAIN jobs : e.of = Asked(k) /\ e.length = jobs[k].text /\ ~Hopeless(k) /\ id = A!ContentId(e.of)
Working(j) ==
  /\ DOMAIN work[j] = {"at", "id", "got"} /\ work[j].at \in {"start", "missed", "got", "produced", "failed"}
  /\ work[j].at \in {"missed", "got", "produced"} => /\ Asked(j).voice \in DOMAIN Voices
                                                    /\ work[j].id = A!ContentId(Asked(j))
  /\ work[j].at \in {"got", "produced"} => Told(work[j].id, work[j].got)
  /\ work[j].at = "produced" => work[j].id \in DOMAIN stored
  /\ work[j].at = "failed" => Hopeless(j)
AudioInv ==
  /\ jobs \in Seq(A!Jobs) /\ DOMAIN work = DOMAIN jobs
  /\ \A id \in DOMAIN cache : Told(id, cache[id])
  /\ \A id \in DOMAIN stored : Told(id, stored[id])
  /\ \A j \in DOMAIN jobs : Working(j)
  /\ result # NONE => /\ jobs # <<>> /\ A!BatchAccounted
                      /\ \A j \in DOMAIN jobs : work[j].at \in {"produced", "failed"}

\* A finite set of numbers can be listed in order.
LEMMA OrderExists ==
  ASSUME NEW N \in Nat, NEW S \in SUBSET (1..N)
  PROVE  /\ IsFiniteSet(S) /\ Cardinality(S) \in Nat
         /\ \E s \in [1..Cardinality(S) -> S] : {s[k] : k \in DOMAIN s} = S /\ \A m, n \in DOMAIN s : m < n => s[m] < s[n]
<1> DEFINE Sorted(Z, s) ==
             /\ s \in [1..Cardinality(Z) -> Z]
             /\ {s[k] : k \in DOMAIN s} = Z
             /\ \A m, n \in DOMAIN s : m < n => s[m] < s[n]
           Bad == {n \in Nat : \E Z \in SUBSET (1..n) : \A s : ~Sorted(Z, s)}
<1>1. ASSUME NEW n \in Nat, NEW Z \in SUBSET (1..n) PROVE IsFiniteSet(Z) /\ Cardinality(Z) \in Nat
  <2>1. IsFiniteSet(1..n)
    BY FS_Interval
  <2>2. IsFiniteSet(Z)
    BY <2>1, FS_Subset
  <2> QED
    BY <2>2, FS_CardinalityType
<1>2. ASSUME Bad # {} PROVE FALSE
  <2>1. PICK i \in Bad : \A j \in Bad : i <= j
    BY <1>2, Least
  <2>2. PICK Z \in SUBSET (1..i) : \A s : ~Sorted(Z, s)
    BY <2>1
  <2>3. CASE i = 0
    <3>1. Z = {} /\ Cardinality(Z) = 0
      <4>1. Z \in SUBSET (1..0)
        BY <2>2, <2>3
      <4>2. Z = {}
        BY <4>1
      <4> QED
        BY <4>2, FS_EmptySet
    <3>2. Sorted(Z, [k \in 1..0 |-> k])
      BY <3>1
    <3> QED
      BY <2>2, <3>2
  <2>4. CASE i # 0
    <3>1. i \in Nat /\ i - 1 \in Nat /\ i - 1 \notin Bad
      <4>1. Bad \in SUBSET Nat
        OBVIOUS
      <4> HIDE DEF Bad
      <4> QED
        BY <2>1, <2>4, <4>1
    <3>2. i \in Z
      <4> SUFFICES ASSUME i \notin Z PROVE FALSE
        OBVIOUS
      <4>1. Z \in SUBSET (1..(i - 1))
        BY <2>2, <3>1
      <4> QED
        BY <2>2, <3>1, <4>1
    <3> DEFINE Y == Z \ {i}
    <3>3. Y \in SUBSET (1..(i - 1))
      BY <2>2, <3>1
    <3>4. PICK t : Sorted(Y, t)
      BY <3>1, <3>3
    <3>5. IsFiniteSet(Z) /\ Cardinality(Z) \in Nat
      BY <1>1, <2>2, <3>1
    <3> DEFINE c == Cardinality(Z)
    <3>6. Cardinality(Y) = c - 1 /\ c - 1 \in Nat
      <4>1. Cardinality(Y) = Cardinality(Z) - 1
        BY <3>2, <3>5, FS_RemoveElement
      <4>2. Cardinality(Y) \in Nat
        BY <1>1, <3>1, <3>3
      <4> QED
        BY <4>1, <4>2
    <3>7. c \in Nat
      BY <3>5
    <3>8. t \in [1..(c - 1) -> Y]
      BY <3>4, <3>6
    <3>9. {t[k] : k \in 1..(c - 1)} = Y /\ \A m, n \in 1..(c - 1) : m < n => t[m] < t[n]
      BY <3>4, <3>6, <3>8
    <3> DEFINE s == [k \in 1..c |-> IF k = c THEN i ELSE t[k]]
    <3>10. \A y \in Y : y \in Z /\ y \in Int /\ y < i
      BY <3>1, <3>3
    <3>11. Z = Y \cup {i}
      BY <3>2
    <3> HIDE DEF Y, c
    <3>12. s \in [1..c -> Z]
      BY <3>2, <3>6, <3>7, <3>8, <3>10
    <3>13. \A m, n \in 1..c : m < n => s[m] < s[n]
      <4> TAKE m, n \in 1..c
      <4> HAVE m < n
      <4>1. m \in 1..(c - 1) /\ s[m] = t[m]
        BY <3>7
      <4>2. CASE n = c
        BY <3>7, <3>8, <3>10, <4>1, <4>2
      <4>3. CASE n # c
        <5>1. n \in 1..(c - 1) /\ s[n] = t[n]
          BY <3>7, <4>3
        <5> QED
          BY <3>9, <4>1, <5>1
      <4> QED
        BY <4>2, <4>3
    <3>14. {s[k] : k \in 1..c} = Z
      <4>1. \A k \in 1..(c - 1) : k \in 1..c /\ s[k] = t[k]
        BY <3>7
      <4>2. c \in 1..c /\ s[c] = i
        BY <3>6, <3>7
      <4>3. \A k \in 1..c : s[k] \in Z
        BY <3>12
      <4>4. \A z \in Y : \E k \in 1..c : s[k] = z
        BY <3>9, <4>1
      <4> QED
        BY <3>11, <4>2, <4>3, <4>4
    <3>15. Sorted(Z, s)
      BY <3>12, <3>13, <3>14 DEF c
    <3> QED
      BY <2>2, <3>15
  <2> QED
    BY <2>3, <2>4
<1>3. N \notin Bad
  BY <1>2
<1>4. \E s : Sorted(S, s)
  BY <1>3
<1> QED
  BY <1>1, <1>4

LEMMA InOrderFacts ==
  ASSUME NEW N \in Nat, NEW S \in SUBSET (1..N)
  PROVE  /\ IsFiniteSet(S) /\ Cardinality(S) \in Nat
         /\ A!InOrder(S) \in [1..Cardinality(S) -> S] /\ Len(A!InOrder(S)) = Cardinality(S)
         /\ A!Range(A!InOrder(S)) = S
         /\ \A m, n \in DOMAIN A!InOrder(S) : m < n => A!InOrder(S)[m] < A!InOrder(S)[n]
<1>1. A!Cardinality(S) = Cardinality(S)
  BY DEF A!Cardinality, Cardinality
<1> DEFINE Listed(s) == A!Range(s) = S /\ \A m, n \in DOMAIN s : m < n => s[m] < s[n]
<1>2. \E s \in [1..Cardinality(S) -> S] : Listed(s)
  BY OrderExists DEF A!Range
<1>3. A!InOrder(S) = CHOOSE s \in [1..Cardinality(S) -> S] : Listed(s)
  BY <1>1 DEF A!InOrder
<1>4. A!InOrder(S) \in [1..Cardinality(S) -> S] /\ Listed(A!InOrder(S))
  <2> HIDE DEF Listed
  <2> QED
    BY <1>2, <1>3
<1>5. Cardinality(S) \in Nat /\ IsFiniteSet(S)
  BY OrderExists
<1>6. Len(A!InOrder(S)) = Cardinality(S)
  BY <1>4, <1>5
<1> QED
  BY <1>4, <1>5, <1>6

\* Jobs of one content id ask for the same.
LEMMA ToldSame ==
  ASSUME NEW j \in DOMAIN jobs, NEW e, Told(A!ContentId(Asked(j)), e)
  PROVE  e.of = Asked(j) /\ e.length = jobs[j].text /\ ~Hopeless(j) /\ A!ContentId(e.of) = A!ContentId(Asked(j))
<1>1. PICK k \in DOMAIN jobs : /\ e.of = Asked(k) /\ e.length = jobs[k].text /\ ~Hopeless(k)
                               /\ A!ContentId(Asked(j)) = A!ContentId(e.of)
  BY DEF Told
<1>2. \A i \in DOMAIN jobs : Asked(i) = [text |-> jobs[i].text, wpm |-> Asked(i).wpm, voice |-> Asked(i).voice]
  BY DEF Asked, A!Asked
<1>3. \A i \in DOMAIN jobs : Asked(i).text = jobs[i].text
  BY DEF Asked, A!Asked
<1>4. Asked(j).text = Asked(k).text /\ Asked(j).wpm = Asked(k).wpm /\ Asked(j).voice = Asked(k).voice
  BY <1>1 DEF A!ContentId
<1>5. jobs[j].text = jobs[k].text
  BY <1>3, <1>4
<1>6. Asked(j) = Asked(k)
  BY <1>2, <1>4, <1>5
<1>7. ~Hopeless(j)
  BY <1>1, <1>5, <1>6 DEF Hopeless
<1> QED
  BY <1>1, <1>5, <1>6, <1>7

LEMMA ToldStays ==
  ASSUME UNCHANGED jobs
  PROVE  /\ \A id, e : Told(id, e) <=> Told(id, e)'
         /\ \A j : Asked(j)' = Asked(j) /\ (Hopeless(j)' <=> Hopeless(j))
BY DEF Told, Asked, Hopeless

\* One thread moves.
LEMMA ThreadStep ==
  ASSUME AudioInv, NEW j \in DOMAIN jobs, work[j].at \in {"start", "missed", "got"}, NEW w, A!To(j, w),
         DOMAIN w = {"at", "id", "got"}, w.at \in {"missed", "got", "produced", "failed"},
         w.at \in {"missed", "got", "produced"} => Asked(j).voice \in DOMAIN Voices /\ w.id = A!ContentId(Asked(j)),
         w.at \in {"got", "produced"} => Told(w.id, w.got),
         w.at = "produced" => w.id \in DOMAIN stored',
         w.at = "failed" => Hopeless(j),
         \A id \in DOMAIN cache' : Told(id, cache'[id]),
         \A id \in DOMAIN stored' : Told(id, stored'[id]),
         DOMAIN stored \subseteq DOMAIN stored'
  PROVE  AudioInv'
<1>1. UNCHANGED <<jobs, result>> /\ work' = [work EXCEPT ![j] = w]
  BY DEF A!To
<1>2. result = NONE
  BY DEF AudioInv
<1>3. DOMAIN work' = DOMAIN jobs' /\ work'[j] = w /\ \A i \in DOMAIN jobs : i # j => work'[i] = work[i]
  BY <1>1 DEF AudioInv
<1>4. ASSUME NEW i \in DOMAIN jobs PROVE Working(i)'
  <2>1. CASE i = j
    BY <1>1, <1>3, <2>1, ToldStays DEF Working
  <2>2. CASE i # j
    <3>1. Working(i)
      BY DEF AudioInv
    <3> QED
      BY <1>1, <1>3, <2>2, <3>1, ToldStays DEF Working
  <2> QED
    BY <2>1, <2>2
<1>5. (\A id \in DOMAIN cache : Told(id, cache[id]))'
  BY <1>1, ToldStays
<1>6. (\A id \in DOMAIN stored : Told(id, stored[id]))'
  BY <1>1, ToldStays
<1>7. (jobs \in Seq(A!Jobs))'
  BY <1>1 DEF AudioInv
<1> QED
  BY <1>1, <1>2, <1>3, <1>4, <1>5, <1>6, <1>7 DEF AudioInv

LEMMA SubmitStep == AudioInv /\ A!Submit => AudioInv'
<1> SUFFICES ASSUME AudioInv, A!Submit PROVE AudioInv'
  OBVIOUS
<1>1. jobs = <<>> /\ UNCHANGED <<cache, stored, result>>
  BY DEF A!Submit
<1>2. PICK n \in 1..MaxJobs : jobs' \in [1..n -> A!Jobs]
  BY DEF A!Submit
<1>3. DOMAIN cache = {} /\ DOMAIN stored = {} /\ result = NONE
  <2>1. DOMAIN jobs = {}
    BY <1>1
  <2>2. \A id, e : ~Told(id, e)
    BY <2>1 DEF Told
  <2> QED
    BY <1>1, <2>2 DEF AudioInv
<1>4. work' = [j \in DOMAIN jobs' |-> [at |-> "start", id |-> NONE, got |-> NONE]]
  BY DEF A!Submit
<1>5. ASSUME NEW j \in DOMAIN jobs' PROVE Working(j)'
  <2>1. work'[j] = [at |-> "start", id |-> NONE, got |-> NONE]
    BY <1>4
  <2>2. work'[j].at = "start" /\ DOMAIN work'[j] = {"at", "id", "got"}
    BY <2>1
  <2> QED
    BY <2>2 DEF Working
<1>6. jobs' \in Seq(A!Jobs)
  BY <1>2
<1> QED
  BY <1>1, <1>3, <1>4, <1>5, <1>6 DEF AudioInv

LEMMA LookupStep == ASSUME AudioInv, NEW j \in DOMAIN jobs, A!Lookup(j) PROVE AudioInv'
<1>1. work[j].at = "start" /\ UNCHANGED <<cache, stored, jobs>>
  BY DEF A!Lookup, A!To
<1>2. \A id \in DOMAIN cache' : Told(id, cache'[id])
  BY <1>1 DEF AudioInv
<1>3. \A id \in DOMAIN stored' : Told(id, stored'[id])
  BY <1>1 DEF AudioInv
<1> DEFINE id == A!ContentId(Asked(j))
<1>4. CASE Asked(j).voice \notin DOMAIN Voices
  <2>1. A!To(j, [at |-> "failed", id |-> NONE, got |-> NONE])
    BY <1>4 DEF A!Lookup, Asked
  <2> QED
    BY <1>1, <1>2, <1>3, <1>4, <2>1, ThreadStep DEF Hopeless
<1>5. CASE Asked(j).voice \in DOMAIN Voices /\ id \in DOMAIN cache
  <2>1. A!To(j, [at |-> "got", id |-> id, got |-> cache[id]])
    BY <1>5 DEF A!Lookup, Asked
  <2>2. Told(id, cache[id])
    BY <1>5 DEF AudioInv
  <2> QED
    BY <1>1, <1>2, <1>3, <1>5, <2>1, <2>2, ThreadStep
<1>6. CASE Asked(j).voice \in DOMAIN Voices /\ id \notin DOMAIN cache
  <2>1. A!To(j, [at |-> "missed", id |-> id, got |-> NONE])
    BY <1>6 DEF A!Lookup, Asked
  <2> QED
    BY <1>1, <1>2, <1>3, <1>6, <2>1, ThreadStep
<1> QED
  BY <1>4, <1>5, <1>6

LEMMA SynthesizeStep == ASSUME AudioInv, NEW j \in DOMAIN jobs, A!Synthesize(j) PROVE AudioInv'
<1>1. work[j].at = "missed" /\ UNCHANGED <<stored, jobs>>
  BY DEF A!Synthesize, A!To
<1>2. \A id \in DOMAIN stored' : Told(id, stored'[id])
  BY <1>1 DEF AudioInv
<1>3. Working(j)
  BY DEF AudioInv
<1>4. /\ DOMAIN work[j] = {"at", "id", "got"} /\ Asked(j).voice \in DOMAIN Voices /\ work[j].id = A!ContentId(Asked(j))
  BY <1>1, <1>3 DEF Working
<1>5. CASE jobs[j].text \in Unspeakable
  <2> DEFINE w == [work[j] EXCEPT !.at = "failed"]
  <2>1. A!To(j, w) /\ cache' = cache
    BY <1>5 DEF A!Synthesize
  <2>2. DOMAIN w = {"at", "id", "got"} /\ w.at = "failed"
    BY <1>4
  <2>3. \A id \in DOMAIN cache' : Told(id, cache'[id])
    BY <2>1 DEF AudioInv
  <2> HIDE DEF w
  <2> QED
    BY <1>1, <1>2, <1>5, <2>1, <2>2, <2>3, ThreadStep DEF Hopeless
<1>6. CASE jobs[j].text \notin Unspeakable
  <2> DEFINE w == [work[j] EXCEPT !.at = "got", !.got = A!Spoken(j)]
             v == A!Spoken(j)
  <2>1. A!To(j, w) /\ cache' = A!Put(cache, work[j].id, v)
    BY <1>6 DEF A!Synthesize
  <2>2. DOMAIN w = {"at", "id", "got"} /\ w.at = "got" /\ w.id = work[j].id /\ w.got = v
    BY <1>4
  <2>3. v.of = Asked(j) /\ v.length = jobs[j].text
    BY DEF A!Spoken, Asked
  <2> HIDE DEF w, v
  <2>4. Told(work[j].id, v)
    BY <1>4, <1>6, <2>3 DEF Told, Hopeless
  <2>5. \A id \in DOMAIN cache' : Told(id, cache'[id])
    <3>1. cache' = [x \in DOMAIN cache \cup {work[j].id} |-> IF x = work[j].id THEN v ELSE cache[x]]
      BY <2>1 DEF A!Put
    <3>2. \A id \in DOMAIN cache : Told(id, cache[id])
      BY DEF AudioInv
    <3> QED
      BY <2>4, <3>1, <3>2
  <2> QED
    BY <1>1, <1>2, <1>4, <2>1, <2>2, <2>4, <2>5, ThreadStep
<1> QED
  BY <1>5, <1>6

LEMMA ProduceStep == ASSUME AudioInv, NEW j \in DOMAIN jobs, A!Produce(j) PROVE AudioInv'
<1>1. work[j].at = "got" /\ UNCHANGED <<cache, jobs>> /\ stored' = A!Put(stored, work[j].id, work[j].got)
  BY DEF A!Produce, A!To
<1>2. \A id \in DOMAIN cache' : Told(id, cache'[id])
  BY <1>1 DEF AudioInv
<1>3. Working(j)
  BY DEF AudioInv
<1>4. /\ DOMAIN work[j] = {"at", "id", "got"} /\ Asked(j).voice \in DOMAIN Voices /\ work[j].id = A!ContentId(Asked(j))
      /\ Told(work[j].id, work[j].got)
  BY <1>1, <1>3 DEF Working
<1> DEFINE w == [work[j] EXCEPT !.at = "produced"]
<1>5. A!ContentId(work[j].got.of) = work[j].id
  BY <1>4, ToldSame
<1>6. A!To(j, w)
  BY <1>5 DEF A!Produce
<1>7. DOMAIN w = {"at", "id", "got"} /\ w.at = "produced" /\ w.id = work[j].id /\ w.got = work[j].got
  BY <1>4
<1> HIDE DEF w
<1>8. stored' = [x \in DOMAIN stored \cup {work[j].id} |-> IF x = work[j].id THEN work[j].got ELSE stored[x]]
  BY <1>1 DEF A!Put
<1>9. \A id \in DOMAIN stored' : Told(id, stored'[id])
  <2>1. \A id \in DOMAIN stored : Told(id, stored[id])
    BY DEF AudioInv
  <2> QED
    BY <1>4, <1>8, <2>1
<1>10. DOMAIN stored \subseteq DOMAIN stored' /\ work[j].id \in DOMAIN stored'
  BY <1>8
<1> QED
  BY <1>1, <1>2, <1>4, <1>6, <1>7, <1>9, <1>10, ThreadStep

\* The batch is gathered when its threads have ended.
LEMMA GatherStep == AudioInv /\ A!Gather => AudioInv'
<1> SUFFICES ASSUME AudioInv, A!Gather PROVE AudioInv'
  OBVIOUS
<1>1. /\ UNCHANGED <<jobs, cache, work, stored>> /\ jobs # <<>>
      /\ \A j \in DOMAIN jobs : work[j].at \in {"produced", "failed"}
  BY DEF A!Gather
<1> DEFINE Did == {j \in DOMAIN jobs : work[j].at = "produced"}
           Not == {j \in DOMAIN jobs : work[j].at = "failed"}
<1>2. /\ result'.status = (IF A!InOrder(Not) = <<>> THEN "completed" ELSE "partial")
      /\ result'.results = A!InOrder(Did) /\ result'.failures = A!InOrder(Not) /\ result'.total = Len(jobs)
  BY DEF A!Gather, A!Outcomes
<1>3. Len(jobs) \in Nat /\ DOMAIN jobs = 1..Len(jobs)
  BY DEF AudioInv
<1>4. Did \in SUBSET (1..Len(jobs)) /\ Not \in SUBSET (1..Len(jobs)) /\ Did \cap Not = {} /\ Did \cup Not = 1..Len(jobs)
  BY <1>1, <1>3
<1>5. \A j \in DOMAIN jobs : j \in Not <=> Hopeless(j)
  <2> SUFFICES ASSUME NEW j \in DOMAIN jobs PROVE j \in Not <=> Hopeless(j)
    OBVIOUS
  <2>1. Working(j)
    BY DEF AudioInv
  <2>2. CASE work[j].at = "failed"
    BY <2>1, <2>2 DEF Working
  <2>3. CASE work[j].at = "produced"
    <3>1. Told(A!ContentId(Asked(j)), work[j].got)
      BY <2>1, <2>3 DEF Working
    <3> QED
      BY <2>3, <3>1, ToldSame
  <2> QED
    BY <1>1, <2>2, <2>3
<1> HIDE DEF Did, Not
<1>6. /\ IsFiniteSet(Did) /\ IsFiniteSet(Not) /\ Cardinality(Did) \in Nat /\ Cardinality(Not) \in Nat
      /\ Len(A!InOrder(Did)) = Cardinality(Did) /\ Len(A!InOrder(Not)) = Cardinality(Not)
      /\ A!Range(A!InOrder(Not)) = Not
      /\ \A m, n \in DOMAIN A!InOrder(Did) : m < n => A!InOrder(Did)[m] < A!InOrder(Did)[n]
      /\ \A m, n \in DOMAIN A!InOrder(Not) : m < n => A!InOrder(Not)[m] < A!InOrder(Not)[n]
  BY <1>3, <1>4, InOrderFacts
<1>7. Len(jobs) = Cardinality(Did) + Cardinality(Not)
  <2>1. Cardinality(Did \cup Not) = Cardinality(Did) + Cardinality(Not) - Cardinality(Did \cap Not)
    BY <1>6, FS_Union
  <2>2. Cardinality(Did \cap Not) = 0
    BY <1>4, FS_EmptySet
  <2>3. Cardinality(Did \cup Not) = Len(jobs)
    <3> DEFINE n == Len(jobs)
    <3>1. n \in Nat /\ Did \cup Not = 1..n
      BY <1>3, <1>4
    <3> HIDE DEF n
    <3>2. Cardinality(1..n) = IF 1 > n THEN 0 ELSE n - 1 + 1
      BY <3>1, FS_Interval
    <3>3. Cardinality(1..n) = n
      BY <3>1, <3>2
    <3>4. Cardinality(Did \cup Not) = n
      BY <3>1, <3>3
    <3> QED
      BY <3>4 DEF n
  <2> QED
    BY <1>6, <2>1, <2>2, <2>3
<1>8. A!BatchAccounted'
  <2>1. result'.total = Len(result'.results) + Len(result'.failures)
    BY <1>2, <1>6, <1>7
  <2>2. \A s \in {result'.results, result'.failures} : \A m, n \in DOMAIN s : m < n => s[m] < s[n]
    BY <1>2, <1>6
  <2>3. \A j \in DOMAIN jobs' : j \in A!Range(result'.failures)
          <=> (A!Asked(jobs'[j]).voice \notin DOMAIN Voices \/ jobs'[j].text \in Unspeakable)
    BY <1>1, <1>2, <1>5, <1>6 DEF Hopeless, Asked
  <2>4. result'.status = "completed" <=> result'.failures = <<>>
    BY <1>2
  <2> QED
    BY <2>1, <2>2, <2>3, <2>4 DEF A!BatchAccounted
<1>9. \A j \in DOMAIN jobs : Working(j)'
  BY <1>1, ToldStays DEF AudioInv, Working
<1>10. (\A id \in DOMAIN cache : Told(id, cache[id]))' /\ (\A id \in DOMAIN stored : Told(id, stored[id]))'
  BY <1>1, ToldStays DEF AudioInv
<1> QED
  BY <1>1, <1>8, <1>9, <1>10 DEF AudioInv

LEMMA AudioStep == AudioInv /\ [Next]_vars => AudioInv'
<1> SUFFICES ASSUME AudioInv, [Next]_vars PROVE AudioInv'
  OBVIOUS
<1>1. CASE UNCHANGED audio
  <2>1. UNCHANGED <<jobs, cache, work, stored, result>>
    BY <1>1 DEF audio
  <2>2. \A j : Working(j)' <=> Working(j)
    BY <2>1, ToldStays DEF Working
  <2>3. A!BatchAccounted' <=> A!BatchAccounted
    BY <2>1 DEF A!BatchAccounted
  <2> QED
    BY <2>1, <2>2, <2>3, ToldStays DEF AudioInv
<1>2. A!Next \/ UNCHANGED audio
  BY DEF Next, vars, python, application
<1> QED
  BY <1>1, <1>2, SubmitStep, LookupStep, SynthesizeStep, ProduceStep, GatherStep DEF A!Next

-----------------------------------------------------------------------------
(* The answers of a game on record: that they were right, and the stars    *)
(* that were shown then.                                                   *)
Shown == [right : BOOLEAN, preview : {1, 2, 3}]
Rights(log) == {n \in DOMAIN log : log[n].right}
Game ==
  /\ DOMAIN game = {"status", "answered", "correct", "stars", "log"}
  /\ game.status \in {"not_started", "in_progress", "completed"} /\ game.log \in Seq(Shown)
  /\ game.answered = Len(game.log) /\ game.correct = Cardinality(Rights(game.log))
  /\ game.log # <<>> => game.log[Len(game.log)].preview = G!Stars(game.correct, game.answered)
  /\ game.status = "completed" => Len(game.log) = Total /\ game.log # <<>> /\ game.stars = game.log[Len(game.log)].preview
RoomInv ==
  /\ count \in [Listeners -> Nat] /\ granted \in [Listeners -> Nat]
  /\ \A l \in Listeners : granted[l] <= count[l] /\ granted[l] <= MaxPlays
  /\ Game

LEMMA RightsFacts ==
  ASSUME NEW log \in Seq(Shown)
  PROVE  IsFiniteSet(Rights(log)) /\ Cardinality(Rights(log)) \in Nat
<1>1. IsFiniteSet(1..Len(log))
  BY FS_Interval
<1>2. Rights(log) \in SUBSET (1..Len(log))
  BY DEF Rights
<1>3. IsFiniteSet(Rights(log))
  BY <1>1, <1>2, FS_Subset
<1> QED
  BY <1>3, FS_CardinalityType

\* An answer is logged.
LEMMA LoggedRights ==
  ASSUME NEW log \in Seq(Shown), NEW e \in Shown
  PROVE  /\ Append(log, e) \in Seq(Shown) /\ Len(Append(log, e)) = Len(log) + 1 /\ Append(log, e)[Len(log) + 1] = e
         /\ Cardinality(Rights(Append(log, e))) = Cardinality(Rights(log)) + (IF e.right THEN 1 ELSE 0)
<1> DEFINE new == Append(log, e)
<1>1. /\ Append(log, e) \in Seq(Shown) /\ Len(Append(log, e)) = Len(log) + 1 /\ Append(log, e)[Len(log) + 1] = e
      /\ \A n \in 1..Len(log) : Append(log, e)[n] = log[n]
  OBVIOUS
<1>2. Len(log) \in Nat /\ DOMAIN log = 1..Len(log) /\ DOMAIN Append(log, e) = 1..(Len(log) + 1)
  OBVIOUS
<1>3. CASE e.right
  <2>1. Rights(Append(log, e)) = Rights(log) \cup {Len(log) + 1} /\ Len(log) + 1 \notin Rights(log)
    BY <1>1, <1>2, <1>3 DEF Rights
  <2>2. Cardinality(Rights(log) \cup {Len(log) + 1}) = Cardinality(Rights(log)) + 1
    BY <2>1, RightsFacts, FS_AddElement
  <2> QED
    BY <1>1, <1>3, <2>1, <2>2
<1>4. CASE ~e.right
  <2>1. Rights(Append(log, e)) = Rights(log)
    BY <1>1, <1>2, <1>4 DEF Rights
  <2>2. Cardinality(Rights(log)) + 0 = Cardinality(Rights(log))
    BY RightsFacts
  <2> QED
    BY <1>1, <1>4, <2>1, <2>2
<1> QED
  BY <1>3, <1>4

LEMMA StarsFacts == \A correct, answered : G!Stars(correct, answered) \in {1, 2, 3}
BY DEF G!Stars

LEMMA PlayStep == ASSUME RoomInv, NEW l \in Listeners, G!Play(l) \/ G!Reset(l) PROVE RoomInv'
<1>1. UNCHANGED game /\ MaxPlays \in Nat
  BY PlaysAssumption DEF G!Play, G!Reset
<1>2. Game'
  BY <1>1 DEF RoomInv, Game
<1>3. CASE G!Reset(l)
  BY <1>1, <1>2, <1>3 DEF RoomInv, G!Reset
<1>4. CASE G!Play(l)
  <2>1. count' = [count EXCEPT ![l] = @ + 1] /\ count[l] \in Nat /\ granted[l] \in Nat
    BY <1>4 DEF RoomInv, G!Play
  <2>2. CASE count[l] + 1 > MaxPlays
    <3>1. granted' = granted
      BY <1>4, <2>2 DEF G!Play, G!OverLimit
    <3> QED
      BY <1>1, <1>2, <2>1, <3>1 DEF RoomInv
  <2>3. CASE ~(count[l] + 1 > MaxPlays)
    <3>1. granted' = [granted EXCEPT ![l] = @ + 1]
      BY <1>4, <2>3 DEF G!Play, G!OverLimit
    <3> QED
      BY <1>1, <1>2, <2>1, <2>3, <3>1 DEF RoomInv
  <2> QED
    BY <2>2, <2>3
<1> QED
  BY <1>3, <1>4

LEMMA GameStep ==
  ASSUME RoomInv, G!Start \/ G!SubmitAnswer \/ G!Finish
  PROVE  RoomInv'
<1>1. UNCHANGED <<count, granted>>
  BY DEF G!Start, G!SubmitAnswer, G!Finish
<1>2. /\ DOMAIN game = {"status", "answered", "correct", "stars", "log"} /\ game.log \in Seq(Shown)
      /\ game.answered = Len(game.log) /\ game.correct = Cardinality(Rights(game.log))
      /\ game.log # <<>> => game.log[Len(game.log)].preview = G!Stars(game.correct, game.answered)
  BY DEF RoomInv, Game
<1>3. CASE G!Start
  <2>1. game' = [game EXCEPT !.status = "in_progress"]
    BY <1>3 DEF G!Start
  <2>2. /\ DOMAIN game' = DOMAIN game /\ game'.status = "in_progress" /\ game'.log = game.log
        /\ game'.answered = game.answered /\ game'.correct = game.correct
    BY <1>2, <2>1
  <2>3. Game'
    BY <1>2, <2>2 DEF Game
  <2> QED
    BY <1>1, <2>3 DEF RoomInv
<1>4. CASE G!SubmitAnswer
  <2>1. PICK right \in BOOLEAN :
          LET c == game.correct + (IF right THEN 1 ELSE 0) IN
          game' = [game EXCEPT !.answered = @ + 1, !.correct = c,
                     !.log = Append(@, [right |-> right, preview |-> G!Stars(c, game.answered + 1)])]
    BY <1>4 DEF G!SubmitAnswer
  <2> DEFINE c == game.correct + (IF right THEN 1 ELSE 0)
             e == [right |-> right, preview |-> G!Stars(c, game.answered + 1)]
  <2>2. /\ DOMAIN game' = DOMAIN game /\ game'.status = game.status /\ game'.log = Append(game.log, e)
        /\ game'.answered = game.answered + 1 /\ game'.correct = c
    BY <1>2, <2>1
  <2>3. e \in Shown /\ e.right = right /\ e.preview = G!Stars(c, game.answered + 1)
    BY StarsFacts DEF Shown
  <2>4. game.status = "in_progress"
    BY <1>4 DEF G!SubmitAnswer
  <2> HIDE DEF e
  <2>5. /\ game'.log \in Seq(Shown) /\ Len(game'.log) = Len(game.log) + 1 /\ game'.log[Len(game.log) + 1] = e
        /\ Cardinality(Rights(game'.log)) = Cardinality(Rights(game.log)) + (IF right THEN 1 ELSE 0)
    BY <1>2, <2>2, <2>3, LoggedRights
  <2>6. c = Cardinality(Rights(game'.log))
    BY <1>2, <2>5
  <2> HIDE DEF c
  <2>7. Game'
    BY <1>2, <2>2, <2>3, <2>4, <2>5, <2>6 DEF Game
  <2> QED
    BY <1>1, <2>7 DEF RoomInv
<1>5. CASE G!Finish
  <2>1. /\ game' = [game EXCEPT !.status = "completed", !.stars = G!Stars(game.correct, Total)]
        /\ game.answered = Total
    BY <1>5 DEF G!Finish, G!AllAnswered
  <2>2. /\ DOMAIN game' = DOMAIN game /\ game'.status = "completed" /\ game'.log = game.log
        /\ game'.answered = game.answered /\ game'.correct = game.correct
        /\ game'.stars = G!Stars(game.correct, game.answered)
    BY <1>2, <2>1
  <2>3. game.log # <<>>
    <3>1. Len(game.log) = Total
      BY <1>2, <2>1
    <3>2. Len(game.log) > 0
      BY <3>1, StarsAssumption
    <3>3. Len(<<>>) = 0
      OBVIOUS
    <3> QED
      BY <3>2, <3>3
  <2>4. Game'
    BY <1>2, <2>1, <2>2, <2>3 DEF Game
  <2> QED
    BY <1>1, <2>4 DEF RoomInv
<1> QED
  BY <1>3, <1>4, <1>5

LEMMA RoomStep == RoomInv /\ [Next]_vars => RoomInv'
<1> SUFFICES ASSUME RoomInv, [Next]_vars PROVE RoomInv'
  OBVIOUS
<1>1. CASE UNCHANGED room
  <2>1. UNCHANGED <<count, granted, game, moves>>
    BY <1>1 DEF room
  <2> QED
    BY <2>1 DEF RoomInv, Game
<1>2. G!Next \/ UNCHANGED room
  BY DEF Next, vars, python, application
<1> QED
  BY <1>1, <1>2, PlayStep, GameStep DEF G!Next

LEMMA RoomFair == RoomInv => G!PlayedFair
<1> SUFFICES ASSUME RoomInv PROVE G!PlayedFair
  OBVIOUS
<1>1. ASSUME game.status = "completed" PROVE game.correct = G!Cardinality({n \in DOMAIN game.log : game.log[n].right})
  BY DEF RoomInv, Game, Rights, G!Cardinality, Cardinality
<1>2. ASSUME game.status = "completed" PROVE Len(game.log) = Total /\ game.stars = G!Last(game.log).preview
  BY <1>2 DEF RoomInv, Game, G!Last
<1> QED
  BY <1>1, <1>2 DEF RoomInv, G!PlayedFair

LEMMA ListeningInit == Init => AudioInv /\ RoomInv
<1> SUFFICES ASSUME Init PROVE AudioInv /\ RoomInv
  OBVIOUS
<1>1. jobs = <<>> /\ work = <<>> /\ cache = <<>> /\ stored = <<>> /\ result = NONE
  BY DEF Init, A!Init
<1>2. AudioInv
  BY <1>1 DEF AudioInv
<1>3. /\ count = [l \in Listeners |-> 0] /\ granted = [l \in Listeners |-> 0]
      /\ game = [status |-> "not_started", answered |-> 0, correct |-> 0, stars |-> NONE, log |-> <<>>]
  BY DEF Init, G!Init
<1>4. Cardinality(Rights(<<>>)) = 0
  <2>1. Rights(<<>>) = {}
    BY DEF Rights
  <2> QED
    BY <2>1, FS_EmptySet
<1>5. Game
  BY <1>3, <1>4 DEF Game
<1> QED
  BY <1>2, <1>3, <1>5, PlaysAssumption DEF RoomInv

LEMMA AudioSafe == AudioInv => A!AudioIsTheJobs /\ A!BatchAccounted
<1> SUFFICES ASSUME AudioInv PROVE A!AudioIsTheJobs /\ A!BatchAccounted
  OBVIOUS
<1>1. A!BatchAccounted
  <2>1. CASE result = NONE
    BY <2>1 DEF A!BatchAccounted
  <2>2. CASE result # NONE
    BY <2>2 DEF AudioInv
  <2> QED
    BY <2>1, <2>2
<1>2. ASSUME NEW j \in DOMAIN jobs, work[j].at = "produced"
      PROVE  /\ work[j].got.of = A!Asked(jobs[j]) /\ A!AgeCheck(j) /\ A!QualityCheck(j)
             /\ stored[work[j].id].of = A!Asked(jobs[j])
  <2>1. Working(j) /\ jobs[j] \in A!Jobs
    BY DEF AudioInv
  <2>2. work[j].id = A!ContentId(Asked(j)) /\ Told(work[j].id, work[j].got) /\ work[j].id \in DOMAIN stored
    BY <1>2, <2>1 DEF Working
  <2>3. Told(work[j].id, stored[work[j].id])
    BY <2>2 DEF AudioInv
  <2>4. work[j].got.of = Asked(j) /\ work[j].got.length = jobs[j].text
    BY <2>2, ToldSame
  <2>5. stored[work[j].id].of = Asked(j)
    BY <2>2, <2>3, ToldSame
  <2>6. jobs[j].band \in DOMAIN Bands /\ Asked(j).wpm = Bands[jobs[j].band].wpm
    BY <2>1 DEF A!Jobs, Asked, A!Asked
  <2>7. A!AgeCheck(j)
    BY <2>4, <2>6, BandsAssumption DEF A!AgeCheck
  <2> QED
    BY <2>4, <2>5, <2>7 DEF A!QualityCheck, Asked
<1> QED
  BY <1>1, <1>2 DEF A!AudioIsTheJobs

-----------------------------------------------------------------------------
(* Answers and entries of the review queue. *)
Given == [id : 1..MaxAnswers, item : Reviewed, day : Nat, process : {"right", "wrong", NONE}, errors : {<<>>, <<"slip">>}]
Reviews == [stage : Nat, status : {"pending", "done"}, enqueued : Nat, due : Nat, source : {NONE, "slip"}, last : Nat]
Distinct(S) == \A a, b \in S : a.id = b.id => a = b

(* What an entry e counts when it is the fold of the answers S. *)
Known(S) == {a \in S : R!Correctness(a) # NONE}
Since(S, w) == {a \in Known(S) : R!Before(w, a)}
LastWrong(S, w) == w \in Known(S) /\ R!Correctness(w) = "wrong" /\ \A a \in Since(S, w) : R!Correctness(a) # "wrong"
UpTo(S, w, a) == {b \in Since(S, w) : ~R!Before(a, b)}
Stands(e, S, w) ==
  LET rights == Cardinality(Since(S, w)) IN
  /\ e.status = IF rights >= Len(Intervals) THEN "done" ELSE "pending"
  /\ e.stage = IF rights >= Len(Intervals) THEN Len(Intervals) - 1 ELSE rights
  /\ \E a \in {w} \cup Since(S, w) : e.stage = Cardinality(UpTo(S, w, a)) /\ e.due = R!DueAt(a.day, e.stage)
Counted(S, e) ==
  /\ e = NONE <=> \A a \in Known(S) : R!Correctness(a) # "wrong"
  /\ e # NONE => e \in Reviews
  /\ \A w \in S : LastWrong(S, w) => Stands(e, S, w)

LEMMA CorrectnessFacts ==
  /\ \A a \in Given : R!Correctness(a) \in {"right", "wrong", NONE}
  /\ NONE # "right" /\ NONE # "wrong"
<1>1. \A a \in Given : a.process \in {"right", "wrong", NONE}
  BY DEF Given
<1> QED
  BY <1>1, TextAssumption DEF R!Correctness

LEMMA BeforeFacts ==
  /\ \A a \in Given : ~R!Before(a, a)
  /\ \A a, b \in Given : R!Before(a, b) => ~R!Before(b, a)
  /\ \A a, b \in Given : a.id # b.id => R!Before(a, b) \/ R!Before(b, a)
<1>1. \A a \in Given : a.day \in Nat /\ a.id \in Nat
  BY ReviewAssumption DEF Given
<1> QED
  BY <1>1 DEF R!Before

\* Answers that are distinct have a latest one.
LEMMA LatestFacts ==
  ASSUME NEW S \in SUBSET Given, S # {}, Distinct(S), NEW D \in Nat, \A a \in S : a.day <= D
  PROVE  R!Latest(S) \in S /\ \A b \in S \ {R!Latest(S)} : R!Before(b, R!Latest(S))
<1>1. \A a \in S : a.day \in Nat /\ a.id \in Nat /\ D - a.day \in Nat /\ MaxAnswers - a.id \in Nat
  BY ReviewAssumption DEF Given
<1> DEFINE T == {D - a.day : a \in S}
<1>2. PICK n \in T : \A j \in T : n <= j
  <2>1. T \in SUBSET Nat /\ T # {}
    BY <1>1
  <2> HIDE DEF T
  <2> QED
    BY <2>1, Least
<1> DEFINE Z == {a \in S : D - a.day = n}
           U == {MaxAnswers - a.id : a \in Z}
<1>3. PICK m \in U : \A j \in U : m <= j
  <2>1. U \in SUBSET Nat /\ U # {}
    BY <1>1, <1>2
  <2> HIDE DEF U
  <2> QED
    BY <2>1, Least
<1>4. PICK a \in S : D - a.day = n /\ MaxAnswers - a.id = m
  BY <1>3
<1>5. ASSUME NEW b \in S \ {a} PROVE R!Before(b, a)
  <2>1. D - b.day >= n /\ a.id # b.id
    BY <1>2 DEF Distinct
  <2>2. b.day <= a.day
    BY <1>1, <1>4, <2>1
  <2>3. ASSUME b.day = a.day PROVE b.id < a.id
    <3>1. MaxAnswers - b.id \in U
      BY <1>4, <2>3
    <3>2. m <= MaxAnswers - b.id
      BY <1>3, <3>1
    <3>3. a.id \in Nat /\ b.id \in Nat /\ MaxAnswers \in Nat
      BY <1>1, ReviewAssumption
    <3>4. MaxAnswers - a.id <= MaxAnswers - b.id
      BY <1>4, <3>2
    <3>5. b.id <= a.id
      BY <3>3, <3>4
    <3> QED
      BY <2>1, <3>3, <3>5
  <2> QED
    BY <1>1, <2>2, <2>3 DEF R!Before
<1> DEFINE Top(x) == x \in S /\ \A b \in S \ {x} : R!Before(b, x)
<1>6. \E x \in S : Top(x)
  BY <1>5
<1>7. R!Latest(S) = CHOOSE x \in S : Top(x)
  BY DEF R!Latest
<1> HIDE DEF Top
<1>8. Top(R!Latest(S))
  BY <1>6, <1>7
<1> QED
  BY <1>8 DEF Top

LEMMA KnownFacts ==
  ASSUME NEW S \in SUBSET Given, IsFiniteSet(S), NEW w
  PROVE  /\ IsFiniteSet(Since(S, w)) /\ Cardinality(Since(S, w)) \in Nat
         /\ \A a : IsFiniteSet(UpTo(S, w, a)) /\ Cardinality(UpTo(S, w, a)) \in Nat
<1>1. IsFiniteSet(Since(S, w))
  <2>1. Since(S, w) \subseteq S
    BY DEF Since, Known
  <2> QED
    BY <2>1, FS_Subset
<1>2. ASSUME NEW a PROVE IsFiniteSet(UpTo(S, w, a))
  <2>1. UpTo(S, w, a) \subseteq Since(S, w)
    BY DEF UpTo
  <2> QED
    BY <1>1, <2>1, FS_Subset
<1> QED
  BY <1>1, <1>2, FS_CardinalityType

\* The intervals are days, and there is one.
LEMMA IntervalFacts ==
  /\ Len(Intervals) \in Nat \ {0}
  /\ \A day \in Nat, stage \in Nat : stage < Len(Intervals) => R!DueAt(day, stage) \in Nat
<1>1. Len(Intervals) \in Nat \ {0} /\ \A n \in 1..Len(Intervals) : Intervals[n] \in Nat
  BY IntervalsAssumption
<1> QED
  BY <1>1 DEF R!DueAt

\* What a new latest answer changes: it comes after every other one.
LEMMA LaterFacts ==
  ASSUME NEW S \in SUBSET Given, NEW a \in Given, \A b \in S : R!Before(b, a)
  PROVE  /\ Since(S \cup {a}, a) = {}
         /\ R!Correctness(a) = "wrong" => \A w : LastWrong(S \cup {a}, w) => w = a
         /\ R!Correctness(a) = NONE =>
              /\ Known(S \cup {a}) = Known(S)
              /\ \A w : Since(S \cup {a}, w) = Since(S, w) /\ (LastWrong(S \cup {a}, w) <=> LastWrong(S, w))
<1> DEFINE Z == S \cup {a}
<1>1. \A b \in S : b \in Given /\ R!Before(b, a) /\ ~R!Before(a, b)
  BY BeforeFacts
<1>2. ~R!Before(a, a)
  BY BeforeFacts
<1>3. Since(Z, a) = {}
  BY <1>1, <1>2 DEF Since, Known
<1>4. ASSUME R!Correctness(a) = "wrong", NEW w, LastWrong(Z, w) PROVE w = a
  <2> SUFFICES ASSUME w # a PROVE FALSE
    OBVIOUS
  <2>1. w \in S /\ a \in Known(Z)
    BY <1>4, CorrectnessFacts DEF LastWrong, Known
  <2>2. a \in Since(Z, w)
    BY <1>1, <2>1 DEF Since
  <2> QED
    BY <1>4, <2>2 DEF LastWrong
<1>5. ASSUME R!Correctness(a) = NONE
      PROVE  /\ Known(Z) = Known(S)
             /\ \A w : Since(Z, w) = Since(S, w) /\ (LastWrong(Z, w) <=> LastWrong(S, w))
  <2>1. Known(Z) = Known(S)
    BY <1>5 DEF Known
  <2> QED
    BY <2>1 DEF Since, LastWrong
<1> QED
  BY <1>3, <1>4, <1>5

(* Among the answers S a right one, a, follows the c right ones of e. *)
OneMore(c, e, S, w, a) ==
  /\ Cardinality(Since(S, w)) = c + 1 /\ UpTo(S, w, a) = Since(S, w) /\ a \in Since(S, w)
  /\ e.status = IF c >= Len(Intervals) THEN "done" ELSE "pending"
  /\ e.stage = IF c >= Len(Intervals) THEN Len(Intervals) - 1 ELSE c
  /\ \E x \in {w} \cup Since(S, w) : e.stage = Cardinality(UpTo(S, w, x)) /\ e.due = R!DueAt(x.day, e.stage)

LEMMA RightCounts ==
  ASSUME NEW S \in SUBSET Given, IsFiniteSet(S), NEW e, Counted(S, e), NEW a \in Given, a \notin S,
         \A b \in S : R!Before(b, a), R!Correctness(a) = "right", NEW w, LastWrong(S \cup {a}, w)
  PROVE  \E c \in Nat : OneMore(c, e, S \cup {a}, w, a)
<1> DEFINE Z == S \cup {a}
<1>1. \A b \in S : b \in Given /\ R!Before(b, a) /\ ~R!Before(a, b)
  BY BeforeFacts
<1>2. ~R!Before(a, a)
  BY BeforeFacts
<1>3. w \in S
  BY TextAssumption, CorrectnessFacts DEF LastWrong, Known
<1>4. Since(Z, w) = Since(S, w) \cup {a}
  BY <1>1, <1>3, CorrectnessFacts DEF Since, Known
<1>5. LastWrong(S, w)
  BY <1>3, <1>4 DEF LastWrong, Known
<1>6. a \notin Since(S, w)
  BY DEF Since, Known
<1>7. IsFiniteSet(Since(S, w)) /\ Cardinality(Since(S, w)) \in Nat
  BY KnownFacts
<1>8. Cardinality(Since(Z, w)) = Cardinality(Since(S, w)) + 1
  BY <1>4, <1>6, <1>7, FS_AddElement
<1>9. Since(Z, w) \subseteq Z
  BY DEF Since, Known
<1>10. UpTo(Z, w, a) = Since(Z, w)
  BY <1>1, <1>2, <1>9 DEF UpTo
<1>11. \A x \in {w} \cup Since(S, w) : x \in S
  BY <1>3 DEF Since, Known
<1>12. \A x \in {w} \cup Since(S, w) : UpTo(Z, w, x) = UpTo(S, w, x)
  BY <1>1, <1>4, <1>11 DEF UpTo
<1>13. Stands(e, S, w)
  BY <1>3, <1>5 DEF Counted
<1>14. PICK x \in {w} \cup Since(S, w) : e.stage = Cardinality(UpTo(S, w, x)) /\ e.due = R!DueAt(x.day, e.stage)
  BY <1>13 DEF Stands
<1>15. x \in {w} \cup Since(Z, w) /\ e.stage = Cardinality(UpTo(Z, w, x)) /\ e.due = R!DueAt(x.day, e.stage)
  BY <1>4, <1>12, <1>14
<1> DEFINE c == Cardinality(Since(S, w))
<1>16. /\ e.status = (IF c >= Len(Intervals) THEN "done" ELSE "pending")
       /\ e.stage = (IF c >= Len(Intervals) THEN Len(Intervals) - 1 ELSE c)
  BY <1>13 DEF Stands
<1>17. a \in Since(Z, w)
  BY <1>4
<1>18. c \in Nat /\ Cardinality(Since(Z, w)) = c + 1
  BY <1>7, <1>8
<1> HIDE DEF c
<1> QED
  BY <1>10, <1>15, <1>16, <1>17, <1>18 DEF OneMore

\* An answer later than all that were folded is counted by Apply.
LEMMA CountedStep ==
  ASSUME NEW S \in SUBSET Given, IsFiniteSet(S), NEW e, Counted(S, e),
         NEW a \in Given, a \notin S, \A b \in S : R!Before(b, a)
  PROVE  Counted(S \cup {a}, R!Apply(e, a))
<1> DEFINE Z == S \cup {a}
           f == R!Apply(e, a)
<1>1. /\ NONE \notin Reviews /\ a.day \in Nat /\ a.id \in Nat /\ a.errors \in {<<>>, <<"slip">>}
      /\ Len(Intervals) \in Nat \ {0}
  BY ReviewAssumption, IntervalFacts DEF Given, Reviews
<1>2. R!Correctness(a) \in {"right", "wrong", NONE} /\ NONE # "right" /\ NONE # "wrong"
  BY CorrectnessFacts
<1>3. CASE R!Correctness(a) = "wrong"
  <2>1. f = [stage |-> 0, status |-> "pending", enqueued |-> IF e = NONE THEN a.day ELSE e.enqueued,
             due |-> R!DueAt(a.day, 0), source |-> IF a.errors = <<>> THEN NONE ELSE a.errors[1], last |-> a.id]
    BY <1>3 DEF R!Apply
  <2>2. e # NONE => e.enqueued \in Nat
    BY DEF Counted, Reviews
  <2>3. R!DueAt(a.day, 0) \in Nat
    BY <1>1, IntervalFacts
  <2>4. (IF a.errors = <<>> THEN NONE ELSE a.errors[1]) \in {NONE, "slip"}
    BY <1>1
  <2>5. f \in Reviews
    BY <1>1, <2>1, <2>2, <2>3, <2>4 DEF Reviews
  <2>6. a \in Known(Z)
    BY <1>2, <1>3 DEF Known
  <2>7. Stands(f, Z, a)
    <3>1. f.status = "pending" /\ f.stage = 0 /\ f.due = R!DueAt(a.day, 0)
      BY <2>1
    <3>2. Since(Z, a) = {} /\ UpTo(Z, a, a) = {}
      BY LaterFacts DEF UpTo
    <3>3. Cardinality(UpTo(Z, a, a)) = 0 /\ Cardinality(Since(Z, a)) = 0
      BY <3>2, FS_EmptySet
    <3>4. ~(Cardinality(Since(Z, a)) >= Len(Intervals))
      BY <1>1, <3>3
    <3> HIDE DEF Z, f
    <3> QED
      BY <3>1, <3>3, <3>4 DEF Stands
  <2>8. \A w : LastWrong(Z, w) => w = a
    BY <1>3, LaterFacts
  <2> QED
    BY <1>1, <1>3, <2>5, <2>6, <2>7, <2>8 DEF Counted
<1>4. CASE R!Correctness(a) = "right"
  <2>1. Known(Z) = Known(S) \cup {a}
    BY <1>2, <1>4 DEF Known
  <2>2. CASE e = NONE
    <3>1. f = NONE
      BY <1>4, <2>2 DEF R!Apply
    <3>2. \A b \in Known(Z) : R!Correctness(b) # "wrong"
      BY <1>4, <2>1, <2>2 DEF Counted
    <3> QED
      BY <3>1, <3>2 DEF Counted, LastWrong
  <2>3. CASE e # NONE /\ e.status # "pending"
    <3>1. f = e /\ e \in Reviews /\ e.status = "done" /\ e # NONE
      BY <1>4, <2>3 DEF R!Apply, Counted, Reviews
    <3>2. ~(\A b \in Known(Z) : R!Correctness(b) # "wrong")
      BY <2>1, <2>3 DEF Counted
    <3>3. ASSUME NEW w \in Z, LastWrong(Z, w) PROVE Stands(e, Z, w)
      <4>1. PICK c \in Nat : OneMore(c, e, Z, w, a)
        BY <1>4, <3>3, RightCounts
      <4>2. c + 1 >= Len(Intervals) /\ e.stage = Len(Intervals) - 1
        BY <1>1, <3>1, <4>1 DEF OneMore
      <4> HIDE DEF Z
      <4> QED
        BY <3>1, <4>1, <4>2 DEF Stands, OneMore
    <3> QED
      BY <3>1, <3>2, <3>3 DEF Counted
  <2>4. CASE e # NONE /\ e.status = "pending"
    <3>1. f = R!AfterRight(e, a) /\ e \in Reviews
      BY <1>4, <2>4 DEF R!Apply, Counted
    <3>2. ~(\A b \in Known(Z) : R!Correctness(b) # "wrong")
      BY <2>1, <2>4 DEF Counted
    <3>3. CASE e.stage + 1 >= Len(Intervals)
      <4>1. f = [e EXCEPT !.status = "done", !.last = a.id]
        BY <3>1, <3>3 DEF R!AfterRight
      <4>2. f \in Reviews /\ f.status = "done" /\ f.stage = e.stage /\ f.due = e.due
        BY <1>1, <3>1, <4>1 DEF Reviews
      <4>3. ASSUME NEW w \in Z, LastWrong(Z, w) PROVE Stands(f, Z, w)
        <5>1. PICK c \in Nat : OneMore(c, e, Z, w, a)
          BY <1>4, <4>3, RightCounts
        <5>2. c + 1 >= Len(Intervals) /\ e.stage = Len(Intervals) - 1
          BY <1>1, <2>4, <3>3, <5>1 DEF OneMore
        <5> HIDE DEF Z, f
        <5> QED
          BY <4>2, <5>1, <5>2 DEF Stands, OneMore
      <4> QED
        BY <1>1, <3>2, <4>2, <4>3 DEF Counted
    <3>4. CASE ~(e.stage + 1 >= Len(Intervals))
      <4>1. f = [e EXCEPT !.stage = @ + 1, !.due = R!DueAt(a.day, e.stage + 1), !.last = a.id]
        BY <3>1, <3>4 DEF R!AfterRight
      <4>2. e.stage \in Nat /\ e.stage + 1 \in Nat /\ e.stage + 1 < Len(Intervals)
        BY <1>1, <3>1, <3>4 DEF Reviews
      <4>3. R!DueAt(a.day, e.stage + 1) \in Nat
        BY <1>1, <4>2, IntervalFacts
      <4>4. f \in Reviews /\ f.status = "pending" /\ f.stage = e.stage + 1 /\ f.due = R!DueAt(a.day, e.stage + 1)
        BY <1>1, <2>4, <3>1, <4>1, <4>2, <4>3 DEF Reviews
      <4>5. ASSUME NEW w \in Z, LastWrong(Z, w) PROVE Stands(f, Z, w)
        <5>1. PICK c \in Nat : OneMore(c, e, Z, w, a)
          BY <1>4, <4>5, RightCounts
        <5>2. c = e.stage /\ ~(c + 1 >= Len(Intervals))
          BY <1>1, <2>4, <4>2, <5>1 DEF OneMore
        <5>3. a \in {w} \cup Since(Z, w) /\ f.stage = Cardinality(UpTo(Z, w, a)) /\ f.due = R!DueAt(a.day, f.stage)
          BY <4>4, <5>1, <5>2 DEF OneMore
        <5> HIDE DEF Z, f
        <5> QED
          BY <4>4, <5>1, <5>2, <5>3 DEF Stands, OneMore
      <4> QED
        BY <1>1, <3>2, <4>4, <4>5 DEF Counted
    <3> QED
      BY <3>3, <3>4
  <2> QED
    BY <2>2, <2>3, <2>4
<1>5. CASE R!Correctness(a) = NONE
  <2>1. f = e
    BY <1>2, <1>5 DEF R!Apply
  <2>2. /\ Known(Z) = Known(S)
        /\ \A w : Since(Z, w) = Since(S, w) /\ (LastWrong(Z, w) <=> LastWrong(S, w))
    BY <1>5, LaterFacts
  <2>3. \A w, x : UpTo(Z, w, x) = UpTo(S, w, x)
    BY <2>2 DEF UpTo
  <2>4. \A w \in Z : LastWrong(Z, w) => w \in S /\ LastWrong(S, w)
    BY <2>2 DEF LastWrong, Known
  <2>5. \A w : Stands(e, S, w) => Stands(e, Z, w)
    BY <2>2, <2>3 DEF Stands
  <2> QED
    BY <2>1, <2>2, <2>4, <2>5 DEF Counted
<1> QED
  BY <1>2, <1>3, <1>4, <1>5

\* The fold over the subsets of a finite set of answers exists.
LEMMA ReplayExists ==
  ASSUME NEW S \in SUBSET Given, IsFiniteSet(S), Distinct(S), NEW D \in Nat, \A a \in S : a.day <= D
  PROVE  \E f : /\ \A T \in SUBSET S : f[T] = IF T = {} THEN NONE ELSE R!Apply(f[T \ {R!Latest(T)}], R!Latest(T))
                /\ R!Replay(S) = f[S]
<1> DEFINE Body(f, T) == IF T = {} THEN NONE ELSE R!Apply(f[T \ {R!Latest(T)}], R!Latest(T))
           Folds(f) == f = [T \in SUBSET S |-> Body(f, T)]
           Upto(f, n) == f = [T \in SUBSET S |-> f[T]] /\ \A T \in SUBSET S : Cardinality(T) <= n => f[T] = Body(f, T)
           Bad == {n \in Nat : \A f : ~Upto(f, n)}
<1>1. \A T \in SUBSET S : IsFiniteSet(T) /\ Cardinality(T) \in Nat
  BY FS_Subset, FS_CardinalityType
<1>2. ASSUME NEW T \in SUBSET S, T # {}
      PROVE  T \ {R!Latest(T)} \in SUBSET S /\ Cardinality(T \ {R!Latest(T)}) = Cardinality(T) - 1
  <2>1. R!Latest(T) \in T
    <3>1. T \in SUBSET Given /\ Distinct(T) /\ \A a \in T : a.day <= D
      BY DEF Distinct
    <3> QED
      BY <1>2, <3>1, LatestFacts
  <2> QED
    BY <1>1, <2>1, FS_RemoveElement
<1>3. ASSUME Bad # {} PROVE FALSE
  <2>1. PICK n \in Bad : \A m \in Bad : n <= m
    <3>1. Bad \in SUBSET Nat
      OBVIOUS
    <3> HIDE DEF Bad
    <3> QED
      BY <1>3, <3>1, Least
  <2>2. n \in Nat /\ \A f : ~Upto(f, n)
    BY <2>1
  <2>3. CASE n = 0
    <3> DEFINE f == [T \in SUBSET S |-> NONE]
    <3>1. \A T \in SUBSET S : Cardinality(T) <= 0 => T = {}
      BY <1>1, FS_EmptySet
    <3>2. Upto(f, 0)
      BY <3>1
    <3> QED
      BY <2>2, <2>3, <3>2
  <2>4. CASE n # 0
    <3> DEFINE k == n - 1
    <3>1. k \in Nat /\ k < n /\ n = k + 1
      BY <2>2, <2>4
    <3>2. k \notin Bad
      <4> HIDE DEF Bad
      <4> QED
        BY <2>1, <2>2, <3>1
    <3>3. PICK g : Upto(g, k)
      BY <3>1, <3>2
    <3> HIDE DEF k
    <3> DEFINE f == [T \in SUBSET S |-> IF Cardinality(T) <= k THEN g[T] ELSE Body(g, T)]
    <3>4. ASSUME NEW T \in SUBSET S, Cardinality(T) <= n PROVE f[T] = Body(f, T)
      <4>1. CASE T = {}
        <5>1. Cardinality(T) <= k
          BY <3>1, <4>1, FS_EmptySet
        <5>2. f[T] = g[T] /\ g[T] = NONE
          BY <3>3, <4>1, <5>1
        <5> QED
          BY <4>1, <5>2
      <4>2. CASE T # {}
        <5> DEFINE U == T \ {R!Latest(T)}
        <5>1. U \in SUBSET S /\ Cardinality(U) = Cardinality(T) - 1
          BY <1>2, <4>2
        <5>2. Cardinality(T) \in Nat /\ Cardinality(T) - 1 <= k
          BY <1>1, <3>1, <3>4
        <5>3. Cardinality(U) <= k
          BY <5>1, <5>2
        <5>4. f[U] = g[U]
          BY <5>1, <5>3
        <5>5. f[T] = Body(g, T)
          <6>1. CASE Cardinality(T) <= k
            BY <3>3, <6>1
          <6>2. CASE ~(Cardinality(T) <= k)
            BY <6>2
          <6> QED
            BY <6>1, <6>2
        <5> QED
          BY <4>2, <5>4, <5>5
      <4> QED
        BY <4>1, <4>2
    <3>5. f = [T \in SUBSET S |-> f[T]]
      OBVIOUS
    <3>6. Upto(f, n)
      <4> HIDE DEF f
      <4> QED
        BY <3>4, <3>5
    <3> QED
      BY <2>2, <3>6
  <2> QED
    BY <2>3, <2>4
<1>4. PICK g : Upto(g, Cardinality(S))
  BY <1>1, <1>3
<1>5. \A T \in SUBSET S : Cardinality(T) <= Cardinality(S)
  BY FS_Subset
<1>6. Folds(g)
  BY <1>4, <1>5
<1> DEFINE f == CHOOSE f : Folds(f)
<1>7. R!Replay(S) = f[S]
  BY DEF R!Replay
<1>8. Folds(f)
  <2> HIDE DEF Folds
  <2> QED
    BY <1>6
<1>9. \A T \in SUBSET S : f[T] = Body(f, T)
  <2> HIDE DEF f
  <2> QED
    BY <1>8
<1> HIDE DEF f
<1> QED
  BY <1>7, <1>9

\* What the fold returns counts the answers.
LEMMA ReplayFacts ==
  ASSUME NEW S \in SUBSET Given, IsFiniteSet(S), Distinct(S), NEW D \in Nat, \A a \in S : a.day <= D
  PROVE  Counted(S, R!Replay(S))
<1>1. PICK f : /\ \A T \in SUBSET S : f[T] = IF T = {} THEN NONE ELSE R!Apply(f[T \ {R!Latest(T)}], R!Latest(T))
               /\ R!Replay(S) = f[S]
  BY ReplayExists
<1> DEFINE Bad == {n \in Nat : \E T \in SUBSET S : Cardinality(T) = n /\ ~Counted(T, f[T])}
<1>2. \A T \in SUBSET S : IsFiniteSet(T) /\ Cardinality(T) \in Nat
  BY FS_Subset, FS_CardinalityType
<1>3. ASSUME Bad # {} PROVE FALSE
  <2>1. PICK n \in Bad : \A m \in Bad : n <= m
    <3>1. Bad \in SUBSET Nat
      OBVIOUS
    <3> HIDE DEF Bad
    <3> QED
      BY <1>3, <3>1, Least
  <2>2. PICK T \in SUBSET S : Cardinality(T) = n /\ ~Counted(T, f[T])
    BY <2>1
  <2>3. CASE T = {}
    <3>1. f[T] = NONE
      BY <1>1, <2>3
    <3>2. Known(T) = {}
      BY <2>3 DEF Known
    <3> QED
      BY <2>2, <2>3, <3>1, <3>2 DEF Counted
  <2>4. CASE T # {}
    <3> DEFINE a == R!Latest(T)
               U == T \ {a}
    <3>1. a \in T /\ \A b \in U : R!Before(b, a)
      <4>1. T \in SUBSET Given /\ Distinct(T) /\ \A b \in T : b.day <= D
        BY DEF Distinct
      <4> QED
        BY <2>4, <4>1, LatestFacts
    <3>2. f[T] = R!Apply(f[U], a)
      BY <1>1, <2>4
    <3> HIDE DEF a
    <3>3. U \in SUBSET S /\ U \in SUBSET Given /\ a \in Given /\ a \notin U /\ T = U \cup {a}
      BY <3>1
    <3>4. Cardinality(U) = Cardinality(T) - 1 /\ IsFiniteSet(U)
      BY <1>2, <3>1, FS_RemoveElement
    <3>5. Cardinality(U) \in Nat /\ Cardinality(T) \in Nat
      BY <1>2, <3>3
    <3> HIDE DEF U
    <3>6. Counted(U, f[U])
      <4>1. Cardinality(U) \notin Bad
        <5> HIDE DEF Bad
        <5> QED
          BY <2>1, <2>2, <3>4, <3>5
      <4> QED
        BY <3>3, <3>5, <4>1
    <3>7. Counted(U \cup {a}, R!Apply(f[U], a))
      BY <3>1, <3>3, <3>4, <3>6, CountedStep
    <3> QED
      BY <2>2, <3>2, <3>3, <3>7
  <2> QED
    BY <2>3, <2>4
<1>4. Cardinality(S) \notin Bad
  BY <1>3
<1> QED
  BY <1>1, <1>2, <1>4

(* Entries are written for items that were once answered wrong, and never  *)
(* taken away; what a sync has read is of this kind too.                   *)
Wronged(i) == \E a \in answers : a.item = i /\ R!Correctness(a) = "wrong"
Queued(q) == q \in [Reviewed -> Reviews \cup {NONE}] /\ \A i \in Reviewed : q[i] # NONE => Wronged(i)
Syncing(s) ==
  /\ DOMAIN sync[s] = {"at", "want", "have"} /\ sync[s].at \in {"idle", "folded", "read"}
  /\ sync[s].at \in {"folded", "read"} => Queued(sync[s].want)
  /\ sync[s].at = "read" => /\ sync[s].have \in [Reviewed -> Reviews \cup {NONE}]
                            /\ \A i \in Reviewed : sync[s].have[i] # NONE => queue[i] # NONE
ReviewInv ==
  /\ today \in Nat /\ answers \in SUBSET Given /\ IsFiniteSet(answers) /\ Distinct(answers)
  /\ \A a \in answers : a.day <= today
  /\ Queued(queue) /\ DOMAIN sync = Syncs
  /\ \A s \in Syncs : Syncing(s)

LEMMA RebuildFacts ==
  ASSUME ReviewInv, NEW i \in Reviewed
  PROVE  /\ R!Rebuild(answers)[i] = R!Replay({a \in answers : a.item = i})
         /\ Counted({a \in answers : a.item = i}, R!Rebuild(answers)[i])
<1> DEFINE S == {a \in answers : a.item = i}
<1>1. S \in SUBSET Given /\ IsFiniteSet(S) /\ Distinct(S) /\ (\A a \in S : a.day <= today) /\ today \in Nat
  <2>1. IsFiniteSet(S)
    BY FS_Subset DEF ReviewInv
  <2> QED
    BY <2>1 DEF ReviewInv, Distinct
<1>2. R!Rebuild(answers)[i] = R!Replay(S)
  BY DEF R!Rebuild
<1> HIDE DEF S
<1>3. Counted(S, R!Replay(S))
  BY <1>1, ReplayFacts
<1> QED
  BY <1>2, <1>3 DEF S

LEMMA RebuildQueued == ASSUME ReviewInv PROVE Queued(R!Rebuild(answers))
<1>1. DOMAIN R!Rebuild(answers) = Reviewed /\ R!Rebuild(answers) = [i \in Reviewed |-> R!Rebuild(answers)[i]]
  BY DEF R!Rebuild
<1>2. ASSUME NEW i \in Reviewed
      PROVE  /\ R!Rebuild(answers)[i] \in Reviews \cup {NONE}
             /\ R!Rebuild(answers)[i] # NONE => Wronged(i)
  BY RebuildFacts DEF Counted, Known, Wronged
<1> QED
  BY <1>1, <1>2 DEF Queued

\* What was queued for a reason still is when more is answered.
LEMMA QueuedStays ==
  ASSUME answers \subseteq answers'
  PROVE  \A q : Queued(q) => Queued(q)'
<1>1. \A i : Wronged(i) => Wronged(i)'
  BY DEF Wronged
<1> QED
  BY <1>1 DEF Queued

LEMMA NewDayStep == ReviewInv /\ R!NewDay => ReviewInv'
<1> SUFFICES ASSUME ReviewInv, R!NewDay PROVE ReviewInv'
  OBVIOUS
<1>1. UNCHANGED <<answers, queue, sync>> /\ today' = today + 1
  BY DEF R!NewDay
<1>2. \A a \in answers : a.day \in Nat
  BY DEF ReviewInv, Given
<1>3. today' \in Nat /\ \A a \in answers : a.day <= today'
  BY <1>1, <1>2 DEF ReviewInv
<1>4. Queued(queue)'
  BY <1>1 DEF ReviewInv, Queued, Wronged
<1>5. \A s \in Syncs : Syncing(s)'
  BY <1>1 DEF ReviewInv, Syncing, Queued, Wronged
<1> QED
  BY <1>1, <1>3, <1>4, <1>5 DEF ReviewInv

LEMMA AnswerStep == ReviewInv /\ R!Answer => ReviewInv'
<1> SUFFICES ASSUME ReviewInv, R!Answer PROVE ReviewInv'
  OBVIOUS
<1>1. UNCHANGED <<today, queue, sync>>
  BY DEF R!Answer
<1>2. PICK i \in Reviewed, day \in 0..today, id \in (1..MaxAnswers) \ {a.id : a \in answers},
           p \in {"right", "wrong", NONE}, errors \in {<<>>, <<"slip">>} :
        answers' = answers \cup {[id |-> id, item |-> i, day |-> day, process |-> p, errors |-> errors]}
  BY DEF R!Answer
<1> DEFINE new == [id |-> id, item |-> i, day |-> day, process |-> p, errors |-> errors]
<1>3. new.id = id /\ new.day = day /\ day \in Nat /\ day <= today
  BY <1>2 DEF ReviewInv
<1>4. new \in Given
  BY <1>2, <1>3 DEF Given
<1>5. answers' = answers \cup {new}
  BY <1>2
<1>6. \A a \in answers : a.id # new.id
  BY <1>2, <1>3
<1> HIDE DEF new
<1>7. answers' \in SUBSET Given /\ IsFiniteSet(answers') /\ \A a \in answers' : a.day <= today
  <2>1. IsFiniteSet(answers \cup {new})
    BY FS_AddElement DEF ReviewInv
  <2> QED
    BY <1>3, <1>4, <1>5, <2>1 DEF ReviewInv
<1>8. Distinct(answers)'
  BY <1>5, <1>6 DEF ReviewInv, Distinct
<1>9. \A q : Queued(q) => Queued(q)'
  BY <1>5, QueuedStays
<1>10. Queued(queue)'
  BY <1>1, <1>9 DEF ReviewInv
<1>11. ASSUME NEW s \in Syncs PROVE Syncing(s)'
  <2>1. Syncing(s)
    BY DEF ReviewInv
  <2> QED
    BY <1>1, <1>9, <2>1 DEF Syncing
<1> QED
  BY <1>1, <1>7, <1>8, <1>10, <1>11 DEF ReviewInv

\* One sync reads.
LEMMA SyncStep ==
  ASSUME ReviewInv, NEW s \in Syncs, NEW x, UNCHANGED <<today, answers, queue>>, sync' = [sync EXCEPT ![s] = x],
         DOMAIN x = {"at", "want", "have"}, x.at \in {"idle", "folded", "read"},
         x.at \in {"folded", "read"} => Queued(x.want),
         x.at = "read" => x.have = queue
  PROVE  ReviewInv'
<1>1. DOMAIN sync' = Syncs /\ sync'[s] = x /\ \A t \in Syncs : t # s => sync'[t] = sync[t]
  BY DEF ReviewInv
<1>2. \A q : Queued(q) => Queued(q)'
  BY QueuedStays
<1>3. Queued(queue) /\ queue' = queue
  BY DEF ReviewInv
<1>4. ASSUME NEW t \in Syncs PROVE Syncing(t)'
  <2>1. CASE t = s
    <3>1. x.at = "read" => x.have \in [Reviewed -> Reviews \cup {NONE}]
      BY <1>3 DEF Queued
    <3> QED
      BY <1>1, <1>2, <1>3, <2>1, <3>1 DEF Syncing
  <2>2. CASE t # s
    <3>1. Syncing(t)
      BY DEF ReviewInv
    <3> QED
      BY <1>1, <1>2, <1>3, <2>2, <3>1 DEF Syncing
  <2> QED
    BY <2>1, <2>2
<1>5. Queued(queue)'
  BY <1>2, <1>3
<1> QED
  BY <1>1, <1>4, <1>5 DEF ReviewInv

LEMMA ReadAnswersStep == ASSUME ReviewInv, NEW s \in Syncs, R!ReadAnswers(s) PROVE ReviewInv'
<1> DEFINE x == [at |-> "folded", want |-> R!Rebuild(answers), have |-> NONE]
<1>1. UNCHANGED <<today, answers, queue>> /\ sync' = [sync EXCEPT ![s] = x]
  BY DEF R!ReadAnswers
<1>2. DOMAIN x = {"at", "want", "have"} /\ x.at = "folded" /\ x.want = R!Rebuild(answers)
  OBVIOUS
<1>3. Queued(x.want)
  BY <1>2, RebuildQueued
<1> HIDE DEF x
<1> QED
  BY <1>1, <1>2, <1>3, SyncStep

LEMMA ReadEntriesStep == ASSUME ReviewInv, NEW s \in Syncs, R!ReadEntries(s) PROVE ReviewInv'
<1> DEFINE x == [[sync[s] EXCEPT !.at = "read"] EXCEPT !.have = queue]
<1>1. UNCHANGED <<today, answers, queue>> /\ sync[s].at = "folded"
  BY DEF R!ReadEntries
<1>2. sync' = [sync EXCEPT ![s] = x]
  BY DEF R!ReadEntries, ReviewInv
<1>3. Syncing(s)
  BY DEF ReviewInv
<1>4. DOMAIN x = {"at", "want", "have"} /\ x.at = "read" /\ x.want = sync[s].want /\ x.have = queue
  BY <1>3 DEF Syncing
<1>5. Queued(x.want)
  BY <1>1, <1>3, <1>4 DEF Syncing
<1> HIDE DEF x
<1> QED
  BY <1>1, <1>2, <1>4, <1>5, SyncStep

\* An update names columns of an entry, and leaves an entry.
LEMMA UpdatedFacts ==
  ASSUME NEW now \in Reviews, NEW have \in Reviews, NEW want \in Reviews
  PROVE  /\ R!Updated(now, have, want) \in Reviews
         /\ now = have => /\ R!Updated(now, have, want).status = want.status
                          /\ R!Updated(now, have, want).due = want.due
<1> DEFINE u == [f \in DOMAIN now |-> IF f # "enqueued" /\ want[f] # have[f] THEN want[f] ELSE now[f]]
<1>1. DOMAIN now = {"stage", "status", "enqueued", "due", "source", "last"}
  BY DEF Reviews
<1>2. CASE ~R!Differs(have, want)
  BY <1>2 DEF R!Updated, R!Differs
<1>3. CASE R!Differs(have, want)
  <2>1. R!Updated(now, have, want) = u
    BY <1>3 DEF R!Updated
  <2>2. /\ u.stage \in {now.stage, want.stage} /\ u.status \in {now.status, want.status} /\ u.enqueued = now.enqueued
        /\ u.due \in {now.due, want.due} /\ u.source \in {now.source, want.source} /\ u.last \in {now.last, want.last}
    BY <1>1
  <2>3. now = have => u.status = want.status /\ u.due = want.due
    BY <1>1
  <2>4. u = [stage |-> u.stage, status |-> u.status, enqueued |-> u.enqueued, due |-> u.due, source |-> u.source, last |-> u.last]
    BY <1>1
  <2> HIDE DEF u
  <2>5. u.stage \in Nat /\ u.status \in {"pending", "done"} /\ u.enqueued \in Nat /\ u.due \in Nat /\ u.source \in {NONE, "slip"} /\ u.last \in Nat
    BY <2>2 DEF Reviews
  <2>6. u \in Reviews
    BY <2>4, <2>5 DEF Reviews
  <2> QED
    BY <2>1, <2>3, <2>6
<1> QED
  BY <1>2, <1>3

LEMMA WriteEntriesStep ==
  ASSUME ReviewInv, NEW s \in Syncs, R!WriteEntries(s)
  PROVE  /\ ReviewInv'
         /\ sync[s].have = queue =>
              \A i \in Reviewed :
                IF sync[s].want[i] = NONE THEN queue'[i] = queue[i]
                ELSE /\ queue'[i] # NONE /\ queue'[i].status = sync[s].want[i].status
                     /\ queue'[i].due = sync[s].want[i].due
<1> DEFINE want == sync[s].want
           have == sync[s].have
           new == {i \in Reviewed : want[i] # NONE /\ have[i] = NONE}
<1>1. sync[s].at = "read" /\ UNCHANGED <<today, answers>> /\ sync' = [sync EXCEPT ![s] = R!Idle]
  BY DEF R!WriteEntries
<1>2. queue' = IF \E i \in new : queue[i] # NONE THEN queue
               ELSE [i \in Reviewed |-> IF want[i] = NONE THEN queue[i]
                                        ELSE IF i \in new THEN want[i] ELSE R!Updated(queue[i], have[i], want[i])]
  BY DEF R!WriteEntries
<1>3. Syncing(s)
  BY DEF ReviewInv
<1>4. /\ Queued(want) /\ have \in [Reviewed -> Reviews \cup {NONE}]
      /\ \A i \in Reviewed : have[i] # NONE => queue[i] # NONE
  BY <1>1, <1>3 DEF Syncing
<1>5. NONE \notin Reviews /\ Queued(queue)
  BY ReviewAssumption DEF Reviews, ReviewInv
<1> HIDE DEF want, have
<1>6. ASSUME NEW i \in Reviewed, want[i] # NONE, i \notin new
      PROVE  queue[i] \in Reviews /\ have[i] \in Reviews /\ want[i] \in Reviews
  BY <1>4, <1>5, <1>6 DEF Queued
<1>7. ASSUME NEW i \in Reviewed, want[i] # NONE, i \notin new
      PROVE  /\ R!Updated(queue[i], have[i], want[i]) \in Reviews
             /\ queue[i] = have[i] => /\ R!Updated(queue[i], have[i], want[i]).status = want[i].status
                                      /\ R!Updated(queue[i], have[i], want[i]).due = want[i].due
  BY <1>6, <1>7, UpdatedFacts
<1>8. /\ queue' \in [Reviewed -> Reviews \cup {NONE}]
      /\ \A i \in Reviewed : /\ queue'[i] # NONE => Wronged(i)
                             /\ queue[i] # NONE => queue'[i] # NONE
  <2>1. CASE \E i \in new : queue[i] # NONE
    BY <1>2, <1>5, <2>1 DEF Queued
  <2>2. CASE ~\E i \in new : queue[i] # NONE
    <3>1. queue' = [i \in Reviewed |-> IF want[i] = NONE THEN queue[i]
                                       ELSE IF i \in new THEN want[i] ELSE R!Updated(queue[i], have[i], want[i])]
      BY <1>2, <2>2
    <3>2. ASSUME NEW i \in Reviewed
          PROVE  /\ queue'[i] \in Reviews \cup {NONE}
                 /\ queue'[i] # NONE => Wronged(i)
                 /\ queue[i] # NONE => queue'[i] # NONE
      <4>1. CASE want[i] = NONE
        BY <1>5, <3>1, <4>1 DEF Queued
      <4>2. CASE want[i] # NONE /\ i \in new
        BY <1>4, <3>1, <4>2 DEF Queued
      <4>3. CASE want[i] # NONE /\ i \notin new
        BY <1>4, <1>5, <1>7, <3>1, <4>3 DEF Queued
      <4> QED
        BY <4>1, <4>2, <4>3
    <3>3. DOMAIN queue' = Reviewed /\ queue' = [i \in Reviewed |-> queue'[i]]
      BY <3>1
    <3> QED
      BY <3>2, <3>3
  <2> QED
    BY <2>1, <2>2
<1>9. Queued(queue)'
  BY <1>1, <1>8 DEF Queued, Wronged
<1>10. \A q : Queued(q) => Queued(q)'
  BY <1>1, QueuedStays
<1>11. ASSUME NEW t \in Syncs PROVE Syncing(t)'
  <2>1. CASE t = s
    <3>1. sync'[t] = R!Idle
      BY <1>1, <2>1 DEF ReviewInv
    <3>2. DOMAIN sync'[t] = {"at", "want", "have"} /\ sync'[t].at = "idle"
      BY <3>1 DEF R!Idle
    <3> QED
      BY <3>2 DEF Syncing
  <2>2. CASE t # s
    <3>1. sync'[t] = sync[t] /\ Syncing(t)
      BY <1>1, <2>2 DEF ReviewInv
    <3> QED
      BY <1>8, <1>10, <3>1 DEF Syncing
  <2> QED
    BY <2>1, <2>2
<1>12. ReviewInv'
  BY <1>1, <1>9, <1>11 DEF ReviewInv
<1>13. ASSUME have = queue, NEW i \in Reviewed
       PROVE  IF want[i] = NONE THEN queue'[i] = queue[i]
              ELSE queue'[i] # NONE /\ queue'[i].status = want[i].status /\ queue'[i].due = want[i].due
  <2>1. queue' = [j \in Reviewed |-> IF want[j] = NONE THEN queue[j]
                                     ELSE IF j \in new THEN want[j] ELSE R!Updated(queue[j], have[j], want[j])]
    BY <1>2, <1>13
  <2>2. CASE want[i] = NONE
    BY <2>1, <2>2
  <2>3. CASE want[i] # NONE /\ i \in new
    BY <2>1, <2>3
  <2>4. CASE want[i] # NONE /\ i \notin new
    BY <1>5, <1>7, <1>13, <2>1, <2>4
  <2> QED
    BY <2>2, <2>3, <2>4
<1> QED
  BY <1>12, <1>13 DEF want, have

\* A page as large as the queue holds all that is due.
LEMMA DueFacts ==
  ASSUME NEW q, NEW day
  PROVE  R!Due(q, day, R!Cardinality(Reviewed)) = {i \in Reviewed : q[i] # NONE /\ q[i].status = "pending" /\ q[i].due <= day}
<1> DEFINE due == {i \in Reviewed : q[i] # NONE /\ q[i].status = "pending" /\ q[i].due <= day}
<1>1. Cardinality(due) <= Cardinality(Reviewed)
  BY ReviewAssumption, FS_Subset
<1>2. R!Cardinality(due) <= R!Cardinality(Reviewed)
  BY <1>1 DEF R!Cardinality, Cardinality
<1> QED
  BY <1>2 DEF R!Due

LEMMA ReviewStep == ReviewInv /\ [Next]_vars => ReviewInv' /\ R!SyncRestores
<1> SUFFICES ASSUME ReviewInv, [Next]_vars PROVE ReviewInv' /\ R!SyncRestores
  OBVIOUS
<1>1. CASE UNCHANGED review
  <2>1. UNCHANGED <<today, answers, queue, sync>>
    BY <1>1 DEF review
  <2>2. ReviewInv'
    BY <2>1 DEF ReviewInv, Syncing, Queued, Wronged
  <2> QED
    BY <2>1, <2>2 DEF R!SyncRestores
<1>2. R!Next \/ UNCHANGED review
  BY DEF Next, vars, python, application
<1>3. CASE R!NewDay \/ R!Answer
  <2>1. sync' = sync
    BY <1>3 DEF R!NewDay, R!Answer
  <2> QED
    BY <1>3, <2>1, NewDayStep, AnswerStep DEF R!SyncRestores
<1>4. ASSUME NEW s \in Syncs, R!ReadAnswers(s) \/ R!ReadEntries(s) PROVE ReviewInv' /\ R!SyncRestores
  <2>1. Syncing(s) /\ DOMAIN sync = Syncs
    BY DEF ReviewInv
  <2>2. sync'[s].at # "idle" /\ \A t \in Syncs : t # s => sync'[t] = sync[t]
    BY <1>4, <2>1 DEF R!ReadAnswers, R!ReadEntries, Syncing
  <2> QED
    BY <1>4, <2>2, ReadAnswersStep, ReadEntriesStep DEF R!SyncRestores
<1>5. ASSUME NEW s \in Syncs, R!WriteEntries(s) PROVE ReviewInv' /\ R!SyncRestores
  <2>1. ReviewInv'
    BY <1>5, WriteEntriesStep
  <2>2. DOMAIN sync = Syncs /\ sync' = [sync EXCEPT ![s] = R!Idle] /\ answers' = answers
    BY <1>5 DEF ReviewInv, R!WriteEntries
  <2>3. \A t \in Syncs : t # s => sync'[t] = sync[t]
    BY <2>2
  <2>4. ASSUME sync[s].have = queue, sync[s].want = R!Rebuild(answers), NEW day
        PROVE  R!Due(queue', day, R!Cardinality(Reviewed)) = R!Due(R!Rebuild(answers), day, R!Cardinality(Reviewed))
    <3> DEFINE want == R!Rebuild(answers)
    <3>1. ASSUME NEW i \in Reviewed, want[i] = NONE PROVE queue'[i] = NONE
      <4>1. queue'[i] = queue[i]
        BY <1>5, <2>4, <3>1, WriteEntriesStep
      <4>2. ~Wronged(i)
        <5>1. Counted({a \in answers : a.item = i}, NONE)
          BY <3>1, RebuildFacts
        <5> QED
          BY <5>1, CorrectnessFacts DEF Counted, Known, Wronged
      <4> QED
        BY <4>1, <4>2 DEF ReviewInv, Queued
    <3>2. ASSUME NEW i \in Reviewed, want[i] # NONE
          PROVE  queue'[i] # NONE /\ queue'[i].status = want[i].status /\ queue'[i].due = want[i].due
      BY <1>5, <2>4, <3>2, WriteEntriesStep
    <3> HIDE DEF want
    <3>3. {i \in Reviewed : queue'[i] # NONE /\ queue'[i].status = "pending" /\ queue'[i].due <= day}
          = {i \in Reviewed : want[i] # NONE /\ want[i].status = "pending" /\ want[i].due <= day}
      BY <3>1, <3>2
    <3>4. R!Due(queue', day, R!Cardinality(Reviewed))
          = {i \in Reviewed : queue'[i] # NONE /\ queue'[i].status = "pending" /\ queue'[i].due <= day}
      BY DueFacts
    <3>5. R!Due(want, day, R!Cardinality(Reviewed))
          = {i \in Reviewed : want[i] # NONE /\ want[i].status = "pending" /\ want[i].due <= day}
      BY DueFacts
    <3> QED
      BY <3>3, <3>4, <3>5 DEF want
  <2> QED
    BY <2>1, <2>3, <2>4 DEF R!SyncRestores
<1> QED
  BY <1>1, <1>2, <1>3, <1>4, <1>5 DEF R!Next

LEMMA ReviewSafe == ReviewInv => R!RebuildCounts
<1> SUFFICES ASSUME ReviewInv, NEW i \in Reviewed
             PROVE  LET told == {a \in answers : a.item = i /\ R!Correctness(a) # NONE}
                        e == R!Rebuild(answers)[i]
                        After(w) == {a \in told : R!Before(w, a)}
                    IN /\ (e = NONE) <=> (\A a \in told : R!Correctness(a) # "wrong")
                       /\ \A w \in told : R!Correctness(w) = "wrong" /\ (\A a \in After(w) : R!Correctness(a) # "wrong") =>
                            LET rights == R!Cardinality(After(w)) IN
                            /\ e.status = IF rights >= Len(Intervals) THEN "done" ELSE "pending"
                            /\ e.stage = R!Min({rights, Len(Intervals) - 1})
                            /\ \E a \in {w} \cup After(w) :
                                 e.stage = R!Cardinality({b \in After(w) : ~R!Before(a, b)}) /\ e.due = R!DueAt(a.day, e.stage)
  BY DEF R!RebuildCounts
<1> DEFINE S == {a \in answers : a.item = i}
           told == {a \in answers : a.item = i /\ R!Correctness(a) # NONE}
           e == R!Rebuild(answers)[i]
           After(w) == {a \in told : R!Before(w, a)}
<1>1. Counted(S, e)
  BY RebuildFacts
<1>2. told = Known(S) /\ (\A w : After(w) = Since(S, w)) /\ \A w, a : {b \in After(w) : ~R!Before(a, b)} = UpTo(S, w, a)
  BY DEF Known, Since, UpTo
<1>3. (e = NONE) <=> (\A a \in told : R!Correctness(a) # "wrong")
  BY <1>1, <1>2 DEF Counted
<1>4. \A T : R!Cardinality(T) = Cardinality(T)
  BY DEF R!Cardinality, Cardinality
<1>5. S \in SUBSET Given /\ IsFiniteSet(S)
  BY FS_Subset DEF ReviewInv
<1>6. ASSUME NEW w \in told, R!Correctness(w) = "wrong", \A a \in After(w) : R!Correctness(a) # "wrong"
      PROVE  /\ e.status = IF R!Cardinality(After(w)) >= Len(Intervals) THEN "done" ELSE "pending"
             /\ e.stage = R!Min({R!Cardinality(After(w)), Len(Intervals) - 1})
             /\ \E a \in {w} \cup After(w) :
                  e.stage = R!Cardinality({b \in After(w) : ~R!Before(a, b)}) /\ e.due = R!DueAt(a.day, e.stage)
  <2>1. LastWrong(S, w) /\ w \in S
    BY <1>2, <1>6 DEF LastWrong
  <2>2. Stands(e, S, w)
    BY <1>1, <2>1 DEF Counted
  <2> DEFINE c == Cardinality(Since(S, w))
  <2>3. c \in Nat /\ Len(Intervals) \in Nat \ {0}
    BY <1>5, KnownFacts, IntervalFacts
  <2> HIDE DEF c
  <2>4. R!Min({c, Len(Intervals) - 1}) = IF c >= Len(Intervals) THEN Len(Intervals) - 1 ELSE c
    BY <2>3 DEF R!Min
  <2>5. e.status = (IF c >= Len(Intervals) THEN "done" ELSE "pending") /\ e.stage = R!Min({c, Len(Intervals) - 1})
    BY <2>2, <2>4 DEF Stands, c
  <2>6. \E a \in {w} \cup Since(S, w) : e.stage = Cardinality(UpTo(S, w, a)) /\ e.due = R!DueAt(a.day, e.stage)
    BY <2>2 DEF Stands
  <2>7. After(w) = Since(S, w) /\ \A a : {b \in After(w) : ~R!Before(a, b)} = UpTo(S, w, a)
    BY <1>2
  <2> HIDE DEF e, told, S
  <2>8. \A a : R!Cardinality({b \in After(w) : ~R!Before(a, b)}) = Cardinality(UpTo(S, w, a))
    BY <1>4, <2>7
  <2>9. R!Cardinality(After(w)) = c
    BY <1>4, <2>7 DEF c
  <2> HIDE DEF After
  <2> QED
    BY <2>5, <2>6, <2>7, <2>8, <2>9
<1> QED
  BY <1>3, <1>6, Zenon

LEMMA ReviewInit == Init => ReviewInv
<1> SUFFICES ASSUME Init PROVE ReviewInv
  OBVIOUS
<1>1. today = 0 /\ answers = {} /\ queue = [i \in Reviewed |-> NONE] /\ sync = [s \in Syncs |-> R!Idle]
  BY DEF Init, R!Init
<1>2. IsFiniteSet(answers) /\ Distinct(answers)
  BY <1>1, FS_EmptySet DEF Distinct
<1>3. Queued(queue)
  BY <1>1 DEF Queued
<1>4. \A s \in Syncs : Syncing(s)
  <2>1. \A s \in Syncs : sync[s] = [at |-> "idle", want |-> NONE, have |-> NONE]
    BY <1>1 DEF R!Idle
  <2>2. \A s \in Syncs : DOMAIN sync[s] = {"at", "want", "have"} /\ sync[s].at = "idle"
    BY <2>1
  <2> QED
    BY <2>2 DEF Syncing
<1> QED
  BY <1>1, <1>2, <1>3, <1>4 DEF ReviewInv

-----------------------------------------------------------------------------
LEMMA InvInit == Init => PracticeInv /\ LifeInv /\ LedgerInv
<1> SUFFICES ASSUME Init PROVE PracticeInv /\ LifeInv /\ LedgerInv
  OBVIOUS
<1>1. PracticeInv
  BY DEF Init, P!Init, P!NoRow, P!NoRequest, PracticeInv, Asking, Copy
<1>2. LifeInv
  BY DEF Init, I!Init, I!Still, LifeInv, Moving
<1>3. LedgerInv
  <2>1. IsFiniteSet({}) /\ Cardinality({}) = 0
    BY FS_EmptySet
  <2>2. calendar = 0 /\ consents = {} /\ exposures = {} /\ tx = [t \in Txs |-> L!Free]
    BY DEF Init, L!Init
  <2>3. L!ConsentChain
    BY <2>1, <2>2, SameCardinality DEF L!ConsentChain
  <2>4. L!PapersDisjoint
    BY <2>2 DEF L!PapersDisjoint
  <2>5. \A t \in Txs : tx[t] = L!Free /\ tx[t].at = "idle"
    BY <2>2 DEF L!Free
  <2>6. \A t \in Txs : Holding(t)
    BY <2>5, FreeReads DEF Holding
  <2>7. \A t, u \in Txs : Apart(t, u)
    BY <2>5, FreeReads DEF Apart
  <2> QED
    BY <2>1, <2>2, <2>3, <2>4, <2>6, <2>7 DEF LedgerInv, LedgersSound
<1> QED
  BY <1>1, <1>2, <1>3

LEMMA SpeakersCounted == Bus!Cardinality(Speakers) = Cardinality(Speakers)
  BY DEF Bus!Cardinality, Cardinality

LEMMA BusInit == Init => BusInv
<1> SUFFICES ASSUME Init PROVE BusInv
  OBVIOUS
<1>1. used = 0 /\ paid = 0 /\ lru = <<>> /\ drawn = 0 /\ call = [c \in Speakers |-> Bus!Silent]
  BY DEF Init, Bus!Init
<1>2. \A c \in Speakers : Calling(c)
  BY <1>1, DearestFacts, TextAssumption DEF Calling, Bus!Silent
<1>3. Unbooked = {} /\ Open = {}
  BY <1>1 DEF Unbooked, Open, Bus!Silent
<1>4. Cardinality(Unbooked) = 0 /\ Cardinality(Open) = 0
  BY <1>3, FS_EmptySet
<1>5. Cardinality(Speakers) * Bus!Dearest >= 0
  BY OpenFacts, DearestFacts
<1>6. Cardinality(Speakers) * Bus!Dearest \in Int
  BY OpenFacts, DearestFacts
<1>7. Budgeted
  BY <1>1, <1>4, <1>5, <1>6, DearestFacts, TokensAssumption DEF Budgeted
<1>8. Cached
  BY <1>1, TokensAssumption DEF Cached
<1> QED
  BY <1>1, <1>2, <1>7, <1>8 DEF BusInv

LEMMA LifeSafe == LifeInv => LeftOnCertificate
<1> SUFFICES ASSUME LifeInv PROVE I!LeftOnCertificate
  BY DEF LeftOnCertificate
<1>1. ASSUME history # {}, ~I!InActivePool PROVE \E r \in history : r.to = I!Current(history) /\ r.cert \in Issued
  <2>1. PICK r \in history : r.to = I!Current(history)
    BY <1>1, CurrentFacts
  <2>2. r.to \in I!Certified
    BY <1>1, <2>1 DEF LifeInv, I!InActivePool, I!States, I!Certified
  <2> QED
    BY <2>1, <2>2 DEF LifeInv
<1> QED
  BY <1>1 DEF I!LeftOnCertificate, LifeInv, Follows

LEMMA PracticeSafe == PracticeInv => AnswersBacked
<1> SUFFICES ASSUME PracticeInv, row.status # NONE PROVE P!AnswersBacked
  BY DEF AnswersBacked, P!AnswersBacked
<1>1. Copy(row, events)
  BY DEF PracticeInv
<1> QED
  BY <1>1 DEF P!AnswersBacked, Copy, HasAnswer, HasWrong, HasRetest

(* The answers behind a session: whatever requests overlap and whatever    *)
(* copies they write back (session/service.py, submit_answer, resume and   *)
(* abandon), a completed session has an answer to each of its items.       *)
THEOREM AnswersAreBacked == Spec => []AnswersBacked
<1>1. Init => PracticeInv
  BY InvInit
<1>2. PracticeInv /\ [Next]_vars => PracticeInv'
  BY PracticeStep
<1> QED
  BY <1>1, <1>2, PracticeSafe, PTL DEF Spec

(* The certificate behind an item that left the pool, and the state behind *)
(* every row of its history (transition_lifecycle of data/health.py).      *)
THEOREM LeavingIsCertified == Spec => []LeftOnCertificate
<1>1. Init => LifeInv
  BY InvInit
<1>2. LifeInv /\ [Next]_vars => LifeInv'
  BY LifeStep
<1> QED
  BY <1>1, <1>2, LifeSafe, PTL DEF Spec

(* The unique keys alone keep the versions of a consent chain without gap, *)
(* its revocations behind consents in force, and the papers of a week      *)
(* disjoint, whatever transactions overlap or roll back                    *)
(* (compliance/parental_consent.py, assembly/exposure.py).                 *)
THEOREM LedgersAreSound == Spec => []LedgersSound
<1>1. Init => LedgerInv
  BY InvInit
<1>2. LedgerInv /\ [Next]_vars => LedgerInv'
  BY LedgerStep
<1>3. LedgerInv => LedgersSound
  BY DEF LedgerInv
<1> QED
  BY <1>1, <1>2, <1>3, PTL DEF Spec

(* A switch of the estimator, however late it commits and whatever others  *)
(* do meanwhile, leaves one active run, and what get_params may answer for *)
(* a day before its own as it was (data/active_model_pointer.py).          *)
THEOREM PastIsKept == Spec => PastKept
<1>1. Init => RunsInv
  <2> SUFFICES ASSUME Init PROVE RunsInv
    OBVIOUS
  <2>1. calendar = 0 /\ runs = {} /\ tx = [t \in Txs |-> L!Free]
    BY DEF Init, L!Init
  <2> QED
    BY <2>1 DEF RunsInv, L!Free, L!Active, Registering, Parted, Retiring, Registered
<1>2. RunsInv /\ [Next]_vars => RunsInv' /\ [L!PastKept]_vars
  BY RunsStep
<1> QED
  BY <1>1, <1>2, PTL DEF Spec, PastKept

LEMMA ArchiveInit == Init => ArchiveInv
<1>1. Init => Export!Init
  BY DEF Init
<1> SUFFICES ASSUME Export!Init PROVE ArchiveInv
  BY <1>1
<1>2. recorded \in Days
  <2>1. recorded \in [{} -> Scores \cup {NONE}]
    BY DEF Export!Init
  <2>2. {} \in SUBSET Answers
    OBVIOUS
  <2> QED
    BY <2>1, <2>2 DEF Days
<1>3. /\ disk.parquet = NONE /\ disk.manifest = NONE
      /\ DOMAIN disk = {"temporary", "parquet", "draft", "manifest"} /\ DOMAIN export = Exporters
  BY DEF Export!Init
<1>4. \A e \in Exporters : export[e].at = "idle" /\ DOMAIN export[e] = {"at", "rows", "file", "mixed"}
  BY DEF Export!Init, Export!Idle
<1>5. \A e \in Exporters : Exporting(e)
  BY <1>4 DEF Exporting
<1>6. Undisturbed
  BY <1>3, <1>4, <1>5 DEF Undisturbed, Export!Resting
<1> QED
  BY <1>2, <1>3, <1>4, <1>6 DEF ArchiveInv

LEMMA ArchiveSafe == ArchiveInv => Export!ArchiveHolds
BY DEF ArchiveInv, Undisturbed, Exporting, Export!ArchiveHolds

(* In whatever order the answers were committed, the fold of               *)
(* review/scheduler.py counts what their history says, of any length; and  *)
(* runs of the export that do not overlap, killed anywhere, leave a file   *)
(* that is whole or absent and, when they end well, holds every answer     *)
(* that they read (data/parquet_export.py, export_scene).                  *)
THEOREM HistoriesCount == Spec => []RebuildCounts
<1>1. ReviewInv /\ ArchiveInv => RebuildCounts
  BY ReviewSafe, ArchiveSafe DEF RebuildCounts
<1>2. Init => ReviewInv /\ ArchiveInv
  BY ReviewInit, ArchiveInit
<1>3. ReviewInv /\ ArchiveInv /\ [Next]_vars => ReviewInv' /\ ArchiveInv'
  BY ReviewStep, ArchiveStep
<1> QED
  BY <1>1, <1>2, <1>3, PTL DEF Spec

(* However syncs of the review queue have overlapped before, the next one  *)
(* that is alone leaves due, on any day, what the answers make due         *)
(* (sync_review_queue and get_due_reviews of review/service.py).           *)
THEOREM SyncsRestore == Spec => SyncRestores
<1>1. ReviewInv /\ [Next]_vars => ReviewInv' /\ [R!SyncRestores]_vars
  BY ReviewStep
<1> QED
  BY <1>1, ReviewInit, PTL DEF Spec, SyncRestores

(* Under the scope lock of estimator/pg.go one run is active, the last one,*)
(* and a conflict is always one of version and time; and who is told that  *)
(* an order is fixed, or another one is, is told the truth, whichever store*)
(* keeps it and whoever loses a reply (session/topicorder*.go, Create).    *)
THEOREM ToldTruly == Spec => []AnswersTrue
<1>1. Init => PointerInv /\ OrderInv
  <2> SUFFICES ASSUME Init PROVE PointerInv /\ OrderInv
    OBVIOUS
  <2>1. PointerInv
    BY TextAssumption DEF Init, Pointer!Init, Pointer!Rest, PointerInv, Switching
  <2>2. OrderInv
    BY TextAssumption DEF Init, Fixation!Init, Fixation!Quiet, OrderInv, Creating
  <2> QED
    BY <2>1, <2>2
<1>2. PointerInv /\ OrderInv /\ [Next]_vars => PointerInv' /\ OrderInv'
  BY PointerStep, OrderStep
<1>3. PointerInv /\ OrderInv => AnswersTrue
  BY DEF PointerInv, Switching, OrderInv, Creating, AnswersTrue, Pointer!PointerExact, Pointer!Active, Fixation!OrderTold
<1> QED
  BY <1>1, <1>2, <1>3, PTL DEF Spec

(* However calls pass the budget together (Allow and Observe of budget.go),*)
(* what is spent beyond the limit is less than the dearest answer to each  *)
(* caller, however many there are.                                         *)
THEOREM SpendingIsBounded == Spec => []SpentBounded
<1>1. BusInv => SpentBounded
  <2> SUFFICES ASSUME BusInv, Limit > 0 PROVE paid < Limit + Cardinality(Speakers) * Bus!Dearest
    BY SpeakersCounted DEF SpentBounded, Bus!SpentBounded
  <2>1. /\ paid = used + Cardinality(Unbooked) /\ used \in Nat
        /\ used + Cardinality(Open) * Bus!Dearest < Limit + Cardinality(Speakers) * Bus!Dearest
    BY DEF BusInv, Budgeted
  <2>2. Cardinality(Open) * Bus!Dearest \in Int /\ Cardinality(Speakers) * Bus!Dearest \in Int
    BY OpenFacts, DearestFacts
  <2> QED
    BY <2>1, <2>2, OpenFacts, TokensAssumption
<1> QED
  BY <1>1, BusInit, BusStep, PTL DEF Spec

(* Nothing is delivered or cached without an ok row for the same text, no  *)
(* text that cannot be redacted is, and the cache keeps its bound and one  *)
(* entry of a text, whatever misses meet (bus.go, synthesizer.go).         *)
THEOREM AudioIsAccounted == Spec => []AudioAccounted
<1>1. BusInv => AudioAccounted
  BY DEF BusInv, Cached, Calling, AudioAccounted, Bus!AudioAccounted
<1> QED
  BY <1>1, BusInit, BusStep, PTL DEF Spec

(* What a job of a batch produces and what storage holds under its id      *)
(* speaks its own text in its own voice and pace, however the threads meet *)
(* on the unlocked cache; every job is reported once; and no listener hears*)
(* more than the limit (tts/router.py, producer.py, player_service.py).    *)
THEOREM ListeningIsHonest == Spec => []ListeningHonest
<1>1. AudioInv /\ RoomInv => ListeningHonest
  BY AudioSafe, RoomFair DEF ListeningHonest
<1> QED
  BY <1>1, ListeningInit, AudioStep, RoomStep, PTL DEF Spec

(* No stale copy takes up a session that has ended, and no transition      *)
(* brings a retired item back that had not overlapped its retirement.      *)
THEOREM EndsAreFinal == Spec => EndedStays
<1>1. Init => PracticeInv /\ LifeInv
  BY InvInit
<1>2. PracticeInv /\ LifeInv /\ [Next]_vars => PracticeInv' /\ LifeInv'
  BY PracticeStep, LifeStep
<1>3. PracticeInv /\ LifeInv /\ [Next]_vars => [P!NeverReopened /\ I!RetiredStays]_vars
  BY PracticeStep, LifeStep
<1> QED
  BY <1>1, <1>2, <1>3, PTL DEF Spec, EndedStays
=============================================================================
