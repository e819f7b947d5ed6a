------------------------- MODULE SessionMemoryProofs -------------------------
(***************************************************************************)
(* Theorems about SessionMemory, for every set of callers, spellings,      *)
(* items, answers and openings and every time limit.                       *)
(*                                                                         *)
(* Every submission is booked in one critical section, so the accounts     *)
(* agree if the one booked answer changes all of them alike.  The          *)
(* invariant adds that the events follow the order of the items and that   *)
(* no answer is booked twice, although a caller may spell the session in   *)
(* a way the idempotency map does not know.                                *)
(***************************************************************************)
EXTENDS SessionMemory, FiniteSetTheorems, TLAPS

\* The caller's program counter tells which kind of call it is in.
CallOK == \A c \in Clients : pc[c] = "submit" => req[c].op = "submit"

\* The ledger follows the items, and keys are unique in it.
LedgerOK ==
    /\ Len(events) <= Len(opening.items)
    /\ \A i \in DOMAIN events : /\ events[i].item = opening.items[i]
                                /\ events[i].id[2] = i
    /\ \A i, j \in DOMAIN events :
          KeyOf(events[i]) = KeyOf(events[j]) => i = j
    /\ acked \subseteq subs

IInv == TypeOK /\ CallOK /\ AccountsAgree /\ LedgerOK

-----------------------------------------------------------------------------
\* What a session is opened with has between one item and the bound of them.
LEMMA OpeningFacts ==
    ASSUME NEW o \in Openings
    PROVE  /\ o.items \in Seq(Items) /\ o.retest \in BOOLEAN
           /\ Len(o.items) \in 1 .. MaxItems /\ MaxItems \in Nat
BY OpeningsAssumption

\* A submission passes the check only for the item that is next in the order
\* of a session that has not ended.
LEMMA VerdictOk ==
    ASSUME NEW r \in Rows, NEW o \in Openings, NEW item, NEW at,
           Verdict(r, o, item, at) = "ok"
    PROVE  /\ r.status \notin Terminal
           /\ r.index + 1 \in 1 .. Len(o.items)
           /\ o.items[r.index + 1] = item
<1>1. Len(o.items) \in Nat /\ r.index \in Nat
    BY OpeningFacts DEF Rows
<1> QED
    BY <1>1 DEF Verdict, Terminal, Completed, Abandoned

\* The advance counts one more answer and closes with the last one.
LEMMA AdvanceType ==
    ASSUME NEW r \in Rows, NEW o \in Openings
    PROVE  /\ Advance(r, o) \in Rows
           /\ Advance(r, o).index = r.index + 1
           /\ Advance(r, o).answered = r.answered + 1
           /\ Advance(r, o).closed = (r.closed \/ LastAnswer(r, o))
<1> DEFINE last   == LastAnswer(r, o)
           status == IF last THEN Completed ELSE r.status
           closed == r.closed \/ last
<1>1. status \in Statuses
    BY DEF Rows, Statuses
<1>2. closed \in BOOLEAN
    BY DEF LastAnswer
<1>3. r.index + 1 \in Nat /\ r.answered + 1 \in Nat /\ r.lastResume \in Times
    BY DEF Rows
<1>4. Advance(r, o) = [status |-> status, index |-> r.index + 1,
                       answered |-> r.answered + 1,
                       lastResume |-> r.lastResume, closed |-> closed]
    <2>1. r = [status |-> r.status, index |-> r.index, answered |-> r.answered,
               lastResume |-> r.lastResume, closed |-> r.closed]
        BY DEF Rows
    <2>2. Advance(r, o) = [r EXCEPT !.index = r.index + 1,
                !.answered = r.answered + 1, !.status = status, !.closed = closed]
        BY Zenon DEF Advance
    <2> HIDE DEF status, closed
    <2> QED
        BY <2>1, <2>2
<1> HIDE DEF status, closed
<1> QED
    <2>1. Advance(r, o) \in Rows
        BY <1>1, <1>2, <1>3, <1>4 DEF Rows
    <2>2. /\ Advance(r, o).index = r.index + 1
          /\ Advance(r, o).answered = r.answered + 1
          /\ Advance(r, o).closed = closed
        BY <1>4
    <2> QED
        BY <2>1, <2>2 DEF closed

-----------------------------------------------------------------------------
\* A request that is a submission has a key, a spelling and a time.
LEMMA SubmissionFacts ==
    ASSUME NEW r \in Requests, r.op = "submit"
    PROVE  r \in Submissions
BY DEF Requests, Submissions

\* No events, no scores: every account is empty.
LEMMA InitInv == Init => IInv
<1> SUFFICES ASSUME Init PROVE IInv
    OBVIOUS
<1> USE DEF Init
<1>1. TypeOK
    BY TimesAssumption
    DEF TypeOK, FreshRow, Rows, Statuses, Active, Times, NoRequest, Requests
<1>2. CallOK
    BY DEF CallOK
<1>3. Len(opening.items) # 0 /\ Len(opening.items) \in Nat
    BY OpeningFacts
<1>4. Cardinality({i \in DOMAIN traces : traces[i] = "right"}) = 0
    <2>1. {i \in DOMAIN traces : traces[i] = "right"} = {}
        OBVIOUS
    <2> QED
        BY <2>1, FS_EmptySet
<1>5. {wrong[i] : i \in DOMAIN wrong} = {i \in DOMAIN traces : traces[i] = "wrong"}
    OBVIOUS
<1>6. AccountsAgree
    BY <1>3, <1>4, <1>5 DEF AccountsAgree, FreshRow
<1>7. LedgerOK
    BY <1>3 DEF LedgerOK
<1> QED
    BY <1>1, <1>2, <1>6, <1>7 DEF IInv

-----------------------------------------------------------------------------
\* A step that books nothing and leaves the counts of the row alone.
LEMMA KeepInv ==
    ASSUME IInv, UNCHANGED <<opening, events, traces, correct, wrong, subs>>,
           row' \in Rows, row'.index = row.index,
           row'.answered = row.answered, row'.closed = row.closed,
           pc' \in [Clients -> {"idle", "submit", "read", "mark"}],
           req' \in [Clients -> Requests],
           CallOK', acked' \subseteq subs, now' \in Times
    PROVE  IInv'
<1> USE DEF IInv
<1>1. TypeOK'
    BY DEF TypeOK
<1>2. AccountsAgree'
    BY DEF AccountsAgree
<1>3. LedgerOK'
    BY DEF LedgerOK
<1> QED
    BY <1>1, <1>2, <1>3

\* The end of a call that books nothing.
LEMMA ReturnInv ==
    ASSUME IInv, NEW c \in Clients, Return(c),
           UNCHANGED <<opening, events, traces, correct, wrong, subs, now>>,
           row' \in Rows, row'.index = row.index,
           row'.answered = row.answered, row'.closed = row.closed,
           acked' \subseteq subs
    PROVE  IInv'
<1>1. NoRequest \in Requests
    BY TimesAssumption DEF NoRequest, Requests, Times
<1>2. /\ pc' \in [Clients -> {"idle", "submit", "read", "mark"}]
      /\ req' \in [Clients -> Requests] /\ CallOK' /\ now' \in Times
    BY <1>1 DEF Return, IInv, TypeOK, CallOK
<1> QED
    BY <1>2, KeepInv

LEMMA TickInv == IInv /\ Tick => IInv'
<1> SUFFICES ASSUME IInv, Tick PROVE IInv'
    OBVIOUS
<1>1. /\ UNCHANGED <<opening, row, events, traces, correct, wrong, subs, pc, req, acked>>
      /\ now' \in Times
    BY TimesAssumption DEF Tick, store, IInv, TypeOK, Times
<1>2. CallOK' /\ acked' \subseteq subs
    BY <1>1 DEF IInv, CallOK, LedgerOK
<1> QED
    BY <1>1, <1>2, KeepInv DEF IInv, TypeOK

LEMMA BeginInv == \A c \in Clients : IInv /\ Begin(c) => IInv'
<1> SUFFICES ASSUME NEW c \in Clients, IInv, Begin(c) PROVE IInv'
    OBVIOUS
<1>1. UNCHANGED <<opening, row, events, traces, correct, wrong, subs, acked, now>>
    BY DEF Begin, store
<1>2. now \in Times /\ TypeOK
    BY DEF IInv, TypeOK
<1>3. PICK r \in Requests :
         /\ req' = [req EXCEPT ![c] = r]
         /\ \/ r.op = "submit" /\ pc' = [pc EXCEPT ![c] = "submit"]
            \/ pc' = [pc EXCEPT ![c] = "read"]
    <2>1. CASE /\ \E key \in Keys, via \in Spellings :
                    req' = [req EXCEPT ![c] = [op |-> "submit", key |-> key,
                                               via |-> via, at |-> now]]
               /\ pc' = [pc EXCEPT ![c] = "submit"]
        <3>1. PICK key \in Keys, via \in Spellings :
                    req' = [req EXCEPT ![c] = [op |-> "submit", key |-> key,
                                               via |-> via, at |-> now]]
            BY <2>1
        <3>2. [op |-> "submit", key |-> key, via |-> via, at |-> now] \in Requests
            BY <1>2 DEF Requests, Submissions
        <3> QED
            BY <2>1, <3>1, <3>2
    <2>2. CASE /\ req' = [req EXCEPT ![c] = [op |-> "next", at |-> now]]
               /\ pc' = [pc EXCEPT ![c] = "read"]
        <3>1. [op |-> "next", at |-> now] \in Requests
            BY <1>2 DEF Requests
        <3> QED
            BY <2>2, <3>1
    <2> QED
        BY <2>1, <2>2 DEF Begin
<1>4. /\ pc' \in [Clients -> {"idle", "submit", "read", "mark"}]
      /\ req' \in [Clients -> Requests] /\ CallOK'
    BY <1>2, <1>3 DEF TypeOK, CallOK, IInv
<1> QED
    BY <1>1, <1>4, KeepInv DEF IInv, TypeOK, LedgerOK

\* What a booking adds: one event under its place, whose key was not there.
LEMMA BookingFacts ==
    ASSUME IInv, NEW c \in Clients, req[c].op = "submit",
           Verdict(row, opening, req[c].key.item, req[c].at) = "ok",
           NEW entry,
           entry = [id     |-> <<c, row.index + 1>>,
                    item   |-> req[c].key.item,
                    digest |-> req[c].key.digest]
    PROVE  /\ entry \in Entries /\ KeyOf(entry) = req[c].key
           /\ entry.id[2] = row.index + 1
           /\ row.index + 1 \in 1 .. Len(opening.items)
           /\ row.index + 1 \in 1 .. MaxItems
           /\ entry.item = opening.items[row.index + 1]
           /\ row.index = Len(events) /\ ~row.closed
<1>1. /\ row \in Rows /\ opening \in Openings /\ req[c] \in Requests
    BY DEF IInv, TypeOK
<1>2. req[c].key \in Keys
    BY <1>1, SubmissionFacts DEF Submissions
<1>3. /\ row.index + 1 \in 1 .. Len(opening.items)
      /\ opening.items[row.index + 1] = req[c].key.item
    BY <1>1, VerdictOk
<1>4. /\ Len(opening.items) \in 1 .. MaxItems /\ MaxItems \in Nat
      /\ row.index \in Nat
    BY <1>1, OpeningFacts DEF Rows
<1>5. row.index + 1 \in 1 .. MaxItems
    BY <1>3, <1>4
<1>6. entry \in Entries
    BY <1>2, <1>5 DEF Entries, EventIds, Keys
<1>7. KeyOf(entry) = req[c].key
    BY <1>2 DEF KeyOf, Keys
<1>8. row.index = Len(events) /\ ~row.closed
    BY <1>3, <1>4 DEF IInv, AccountsAgree
<1> QED
    BY <1>3, <1>5, <1>6, <1>7, <1>8

\* The places of a score in the traces.
Places(t, score) == {i \in DOMAIN t : t[i] = score}

\* A further score takes one more place, its own.
LEMMA ScoreCounts ==
    ASSUME NEW t \in Seq(Scores), NEW score \in Scores, NEW other \in Scores,
           NEW u, u = Append(t, score)
    PROVE  /\ Places(u, score) = Places(t, score) \cup {Len(t) + 1}
           /\ other # score => Places(u, other) = Places(t, other)
           /\ Cardinality(Places(u, score)) = Cardinality(Places(t, score)) + 1
           /\ Cardinality(Places(t, score)) \in Nat
<1>1. /\ u \in Seq(Scores) /\ Len(u) = Len(t) + 1 /\ Len(t) \in Nat
      /\ DOMAIN t = 1 .. Len(t) /\ DOMAIN u = 1 .. Len(t) + 1
      /\ u[Len(t) + 1] = score /\ \A i \in 1 .. Len(t) : u[i] = t[i]
    OBVIOUS
<1>2. IsFiniteSet(Places(t, score)) /\ Len(t) + 1 \notin Places(t, score)
    <2>1. IsFiniteSet(1 .. Len(t)) /\ Places(t, score) \subseteq 1 .. Len(t)
        BY <1>1, FS_Interval DEF Places
    <2> QED
        BY <1>1, <2>1, FS_Subset
<1>3. Places(u, score) = Places(t, score) \cup {Len(t) + 1}
    BY <1>1 DEF Places
<1>4. other # score => Places(u, other) = Places(t, other)
    BY <1>1 DEF Places
<1> QED
    BY <1>2, <1>3, <1>4, FS_AddElement, FS_CardinalityType

\* A sequence with one more element.
LEMMA AppendRange ==
    ASSUME NEW S, NEW s \in Seq(S), NEW e \in S, NEW u, u = Append(s, e)
    PROVE  /\ u \in Seq(S) /\ Len(u) = Len(s) + 1 /\ Len(s) \in Nat
           /\ DOMAIN u = 1 .. Len(s) + 1 /\ DOMAIN s = 1 .. Len(s)
           /\ u[Len(s) + 1] = e /\ \A i \in 1 .. Len(s) : u[i] = s[i]
OBVIOUS

\* The one critical section that books: all accounts take in the answer.
LEMMA BookInv ==
    ASSUME IInv, NEW c \in Clients, pc[c] = "submit",
           Hits(c) = {}, req[c].via = Canonical, NEW score \in Scores,
           Verdict(row, opening, req[c].key.item, req[c].at) = "ok",
           Book(c, score), UNCHANGED now
    PROVE  IInv'
<1> DEFINE entry == [id     |-> <<c, row.index + 1>>,
                     item   |-> req[c].key.item,
                     digest |-> req[c].key.digest]
<1>1. /\ TypeOK /\ CallOK /\ AccountsAgree /\ LedgerOK /\ req[c].op = "submit"
    BY DEF IInv, CallOK
<1>2. /\ entry \in Entries /\ KeyOf(entry) = req[c].key
      /\ entry.id[2] = row.index + 1
      /\ row.index + 1 \in 1 .. Len(opening.items)
      /\ row.index + 1 \in 1 .. MaxItems
      /\ entry.item = opening.items[row.index + 1]
      /\ row.index = Len(events) /\ ~row.closed
    BY <1>1, BookingFacts
<1>3. /\ events' = Append(events, entry) /\ traces' = Append(traces, score)
      /\ subs' = subs \cup {entry}
      /\ correct' = IF score = "right" THEN correct + 1 ELSE correct
      /\ wrong' = IF score = "wrong" THEN Append(wrong, row.index + 1) ELSE wrong
      /\ row' = Advance(row, opening)
      /\ acked' \in {acked, acked \cup {entry}}
      /\ Return(c) /\ UNCHANGED <<opening, now>>
    BY DEF Book, Finish, IsCorrect, WrongMark
<1>4. \A s \in subs : KeyOf(s) # req[c].key
    BY DEF Hits
<1> HIDE DEF entry
<1>5. /\ events \in Seq(Entries) /\ traces \in Seq(Scores) /\ wrong \in Seq(1 .. MaxItems)
      /\ row \in Rows /\ opening \in Openings /\ correct \in Nat
      /\ Len(events) \in Nat /\ Len(wrong) \in Nat /\ Len(opening.items) \in Nat
    BY <1>1, OpeningFacts DEF TypeOK
<1>6. /\ Advance(row, opening) \in Rows
      /\ row'.index = row.index + 1 /\ row'.answered = row.answered + 1
      /\ row'.closed = (row.closed \/ LastAnswer(row, opening))
    BY <1>3, <1>5, AdvanceType
<1>7. /\ events' \in Seq(Entries) /\ Len(events') = Len(events) + 1
      /\ DOMAIN events' = 1 .. Len(events) + 1 /\ DOMAIN events = 1 .. Len(events)
      /\ events'[Len(events) + 1] = entry
      /\ \A i \in 1 .. Len(events) : events'[i] = events[i]
    BY <1>2, <1>3, <1>5, AppendRange
<1>8. TypeOK'
    <2>1. traces' \in Seq(Scores)
        BY <1>3, <1>5, AppendRange
    <2>2. wrong' \in Seq(1 .. MaxItems)
        BY <1>2, <1>3, <1>5, AppendRange
    <2>3. correct' \in Nat
        BY <1>3, <1>5
    <2>4. subs' \subseteq Entries /\ acked' \subseteq Entries
        BY <1>1, <1>2, <1>3 DEF TypeOK
    <2>5. NoRequest \in Requests
        BY TimesAssumption DEF NoRequest, Requests, Times
    <2>6. /\ pc' \in [Clients -> {"idle", "submit", "read", "mark"}]
          /\ req' \in [Clients -> Requests]
        BY <1>1, <1>3, <2>5 DEF Return, TypeOK
    <2> QED
        BY <1>1, <1>3, <1>6, <1>7, <2>1, <2>2, <2>3, <2>4, <2>6 DEF TypeOK
<1>9. CallOK'
    BY <1>1, <1>3 DEF CallOK, Return, TypeOK
<1>10. AccountsAgree'
    <2>1. /\ row.index = Len(events) /\ row.answered = Len(events)
          /\ subs = {events[i] : i \in DOMAIN events}
          /\ Len(traces) = Len(events) /\ correct + Len(wrong) <= row.answered
          /\ correct = Cardinality({i \in DOMAIN traces : traces[i] = "right"})
          /\ {wrong[i] : i \in DOMAIN wrong} = {i \in DOMAIN traces : traces[i] = "wrong"}
        BY <1>1 DEF AccountsAgree
    <2>2. row'.index = Len(events') /\ row'.answered = Len(events')
        BY <1>6, <1>7, <2>1
    <2>3. subs' = {events'[i] : i \in DOMAIN events'}
        <3>1. subs' = {events[i] : i \in DOMAIN events} \cup {events'[Len(events) + 1]}
            BY <1>3, <1>7, <2>1
        <3>2. \A i \in DOMAIN events : i \in DOMAIN events' /\ events'[i] = events[i]
            BY <1>5, <1>7
        <3>3. Len(events) + 1 \in DOMAIN events'
            BY <1>5, <1>7
        <3>4. \A i \in DOMAIN events' : i \in DOMAIN events \/ i = Len(events) + 1
            BY <1>5, <1>7
        <3> QED
            BY <3>1, <3>2, <3>3, <3>4
    <2>4. correct' = Cardinality({i \in DOMAIN traces' : traces'[i] = "right"})
        <3>1. correct = Cardinality(Places(traces, "right"))
            BY <2>1, Zenon DEF Places
        <3>2. correct' = Cardinality(Places(traces', "right"))
            BY <1>3, <1>5, <3>1, ScoreCounts DEF Scores
        <3> QED
            BY <3>2 DEF Places
    <2>5. {wrong'[i] : i \in DOMAIN wrong'} = {i \in DOMAIN traces' : traces'[i] = "wrong"}
        <3>1. {wrong[i] : i \in DOMAIN wrong} = Places(traces, "wrong")
            BY <2>1 DEF Places
        <3>2. CASE score = "wrong"
            <4>1. Places(traces', "wrong") = Places(traces, "wrong") \cup {row.index + 1}
                <5>1. Places(traces', score) = Places(traces, score) \cup {Len(traces) + 1}
                    BY <1>3, <1>5, ScoreCounts
                <5>2. Len(traces) = row.index
                    BY <1>2, <2>1
                <5> QED
                    BY <3>2, <5>1, <5>2
            <4>2. /\ DOMAIN wrong' = 1 .. Len(wrong) + 1 /\ DOMAIN wrong = 1 .. Len(wrong)
                  /\ wrong'[Len(wrong) + 1] = row.index + 1
                  /\ \A i \in 1 .. Len(wrong) : wrong'[i] = wrong[i]
                BY <1>2, <1>3, <1>5, <3>2, AppendRange
            <4>3. {wrong'[i] : i \in DOMAIN wrong'} = {wrong[i] : i \in DOMAIN wrong} \cup {row.index + 1}
                <5>1. \A i \in DOMAIN wrong : i \in DOMAIN wrong' /\ wrong'[i] = wrong[i]
                    BY <1>5, <4>2
                <5>2. Len(wrong) + 1 \in DOMAIN wrong' /\ wrong'[Len(wrong) + 1] = row.index + 1
                    BY <1>5, <4>2
                <5>3. \A i \in DOMAIN wrong' : i \in DOMAIN wrong \/ i = Len(wrong) + 1
                    BY <1>5, <4>2
                <5> QED
                    BY <5>1, <5>2, <5>3
            <4>4. {wrong'[i] : i \in DOMAIN wrong'} = Places(traces', "wrong")
                BY <3>1, <4>1, <4>3
            <4> QED
                BY <4>4 DEF Places
        <3>3. CASE score # "wrong"
            <4>1. wrong' = wrong /\ Places(traces', "wrong") = Places(traces, "wrong")
                BY <1>3, <1>5, <3>3, ScoreCounts DEF Scores
            <4> QED
                BY <3>1, <4>1 DEF Places
        <3> QED
            BY <3>2, <3>3
    <2>6. Len(traces') = Len(events') /\ correct' + Len(wrong') <= row'.answered
        <3>1. Len(traces') = Len(traces) + 1
            BY <1>3, <1>5, AppendRange
        <3>2. Len(wrong') = IF score = "wrong" THEN Len(wrong) + 1 ELSE Len(wrong)
            BY <1>2, <1>3, <1>5, AppendRange
        <3> QED
            BY <1>3, <1>5, <1>6, <1>7, <2>1, <3>1, <3>2
    <2>7. row'.closed <=> (Len(events') = Len(opening'.items) /\ ~opening'.retest)
        <3>1. LastAnswer(row, opening) <=>
                 (Len(events') = Len(opening.items) /\ ~opening.retest)
            BY <1>2, <1>5, <1>7 DEF LastAnswer
        <3> QED
            BY <1>2, <1>3, <1>6, <3>1
    <2> QED
        BY <2>2, <2>3, <2>4, <2>5, <2>6, <2>7 DEF AccountsAgree
<1>11. LedgerOK'
    <2>1. Len(events') <= Len(opening'.items)
        BY <1>2, <1>3, <1>5, <1>7
    <2>2. \A i \in DOMAIN events' : /\ events'[i].item = opening'.items[i]
                                    /\ events'[i].id[2] = i
        BY <1>1, <1>2, <1>3, <1>5, <1>7 DEF LedgerOK
    <2>3. \A i \in DOMAIN events : KeyOf(events[i]) # KeyOf(entry)
        BY <1>1, <1>2, <1>4 DEF AccountsAgree
    <2>4. \A i, j \in DOMAIN events' :
             KeyOf(events'[i]) = KeyOf(events'[j]) => i = j
        BY <1>1, <1>5, <1>7, <2>3 DEF LedgerOK
    <2>5. acked' \subseteq subs'
        BY <1>1, <1>3 DEF LedgerOK
    <2> QED
        BY <2>1, <2>2, <2>4, <2>5 DEF LedgerOK
<1> QED
    BY <1>8, <1>9, <1>10, <1>11 DEF IInv

LEMMA SubmitInv == \A c \in Clients : IInv /\ Submit(c) => IInv'
<1> SUFFICES ASSUME NEW c \in Clients, IInv, Submit(c) PROVE IInv'
    OBVIOUS
<1> DEFINE verdict == Verdict(row, opening, req[c].key.item, req[c].at)
<1>1. pc[c] = "submit" /\ UNCHANGED now /\ row \in Rows /\ acked \subseteq subs
    BY DEF Submit, IInv, TypeOK, LedgerOK
<1>2. CASE Hits(c) # {} /\ acked' = acked \cup Hits(c) /\ Finish(c) /\ UNCHANGED store
    BY <1>1, <1>2, ReturnInv DEF Finish, store, Hits
<1>3. CASE \E error : Refuse(c, error) /\ UNCHANGED <<store, acked>>
    BY <1>1, <1>3, ReturnInv DEF Refuse, store
<1>4. CASE /\ Hits(c) = {} /\ req[c].via = Canonical
           /\ verdict = "ok" /\ \E score \in Scores : Book(c, score)
    BY <1>1, <1>4, BookInv
<1>5. CASE /\ row' = [row EXCEPT !.status = RestPrompted] /\ Refuse(c, verdict)
           /\ UNCHANGED <<opening, events, traces, correct, wrong, subs, acked>>
    <2>1. /\ row' \in Rows /\ row'.index = row.index
          /\ row'.answered = row.answered /\ row'.closed = row.closed
        BY <1>1, <1>5 DEF Rows, Statuses
    <2> QED
        BY <1>1, <1>5, <2>1, ReturnInv DEF Refuse
<1> QED
    BY <1>2, <1>3, <1>4, <1>5 DEF Submit

LEMMA ReadInv == \A c \in Clients : IInv /\ Read(c) => IInv'
<1> SUFFICES ASSUME NEW c \in Clients, IInv, Read(c) PROVE IInv'
    OBVIOUS
<1>1. UNCHANGED <<opening, row, events, traces, correct, wrong, subs, acked, now>>
    BY DEF Read, store
<1>2. CASE \E error : Refuse(c, error)
    BY <1>1, <1>2, ReturnInv DEF Refuse, IInv, TypeOK, LedgerOK
<1>3. CASE Finish(c)
    BY <1>1, <1>3, ReturnInv DEF Finish, IInv, TypeOK, LedgerOK
<1>4. CASE pc' = [pc EXCEPT ![c] = "mark"] /\ UNCHANGED req
    <2>1. /\ pc' \in [Clients -> {"idle", "submit", "read", "mark"}]
          /\ req' \in [Clients -> Requests] /\ CallOK'
        BY <1>4 DEF IInv, TypeOK, CallOK
    <2> QED
        BY <1>1, <2>1, KeepInv DEF IInv, TypeOK, LedgerOK
<1> QED
    BY <1>2, <1>3, <1>4 DEF Read

\* Steps that write the status only, a rest mark, a resume, an abandonment.
LEMMA MarkInv == \A c \in Clients : IInv /\ Mark(c) => IInv'
<1> SUFFICES ASSUME NEW c \in Clients, IInv, Mark(c) PROVE IInv'
    OBVIOUS
<1>1. /\ row' \in Rows /\ row'.index = row.index
      /\ row'.answered = row.answered /\ row'.closed = row.closed
    BY DEF Mark, IInv, TypeOK, Rows, Statuses
<1> QED
    BY <1>1, ReturnInv DEF Mark, Refuse, IInv, LedgerOK

LEMMA RuntimeInv == \A c \in Clients : IInv /\ (Resume(c) \/ Abandon(c)) => IInv'
<1> SUFFICES ASSUME NEW c \in Clients, IInv, Resume(c) \/ Abandon(c) PROVE IInv'
    OBVIOUS
<1>1. UNCHANGED <<opening, events, traces, correct, wrong, subs, pc, req, acked, now>>
    BY DEF Resume, Abandon, Runtime
<1>2. /\ row' \in Rows /\ row'.index = row.index
      /\ row'.answered = row.answered /\ row'.closed = row.closed
    BY DEF Resume, Abandon, IInv, TypeOK, Rows, Statuses
<1>3. CallOK'
    BY <1>1 DEF IInv, CallOK
<1> QED
    BY <1>1, <1>2, <1>3, KeepInv DEF IInv, TypeOK, LedgerOK

LEMMA NextInv == IInv /\ [Next]_vars => IInv'
<1> SUFFICES ASSUME IInv, [Next]_vars PROVE IInv'
    OBVIOUS
<1>1. CASE Tick
    BY <1>1, TickInv
<1>2. CASE \E c \in Clients : \/ Begin(c) \/ Submit(c) \/ Read(c) \/ Mark(c)
                              \/ Resume(c) \/ Abandon(c)
    BY <1>2, BeginInv, SubmitInv, ReadInv, MarkInv, RuntimeInv
<1>3. CASE UNCHANGED vars
    BY <1>3 DEF vars, IInv, TypeOK, CallOK, AccountsAgree, LedgerOK
<1> QED
    BY <1>1, <1>2, <1>3 DEF Next
-----------------------------------------------------------------------------
\* The inductive invariant holds in every reachable state.
THEOREM Invariant == Spec => []IInv
BY InitInv, NextInv, PTL DEF Spec

\* Every variable keeps its type, whatever the callers do.
THEOREM TypeCorrect == Spec => []TypeOK
BY Invariant, PTL DEF IInv

\* Progress, score counters, wrong marks, idempotency map and event ledger
\* agree in every state (memory.go: one critical section books an answer).
THEOREM AccountsAlwaysAgree == Spec => []AccountsAgree
BY Invariant, PTL DEF IInv

\* An ended session changes its status only by the late second half of a
\* fetch (runtime_memory.go, MarkRestPrompted): never by a submission, a
\* resume or an abandonment, whichever of them race.
THEOREM OnlyLateMarks == Spec => OnlyLateMarkReopens
<1>1. ASSUME IInv, [Next]_vars
      PROVE  [row.status \in Terminal /\ row'.status # row.status =>
                /\ \E c \in Clients : pc[c] = "mark" /\ pc'[c] = "idle"
                /\ row'.status = RestPrompted]_vars
    <2> SUFFICES ASSUME row.status \in Terminal, row'.status # row.status,
                        ~UNCHANGED vars
                 PROVE  /\ \E c \in Clients : pc[c] = "mark" /\ pc'[c] = "idle"
                        /\ row'.status = RestPrompted
        OBVIOUS
    <2>1. row \in Rows /\ opening \in Openings
        BY <1>1 DEF IInv, TypeOK
    <2>2. ASSUME NEW c \in Clients, Submit(c) PROVE FALSE
        <3>1. \A item, at : Verdict(row, opening, item, at) \notin {"ok", "rest_required"}
            BY DEF Verdict, Terminal
        <3>2. UNCHANGED row
            BY <2>2, <3>1 DEF Submit, store
        <3> QED
            BY <3>2
    <2>3. ASSUME NEW c \in Clients, Resume(c) \/ Abandon(c) PROVE FALSE
        BY <2>1, <2>3 DEF Resume, Abandon, MayResume, MayAbandon, Terminal, Rows
    <2>4. ASSUME Tick \/ \E c \in Clients : Begin(c) \/ Read(c) PROVE FALSE
        BY <2>4 DEF Tick, Begin, Read, store
    <2>5. PICK c \in Clients : Mark(c)
        BY <1>1, <2>2, <2>3, <2>4 DEF Next
    <2>6. pc[c] = "mark" /\ pc'[c] = "idle"
        BY <1>1, <2>5 DEF Mark, Refuse, Return, IInv, TypeOK
    <2>7. row'.status = RestPrompted
        BY <2>1, <2>5 DEF Mark, Rows
    <2> QED
        BY <2>6, <2>7
<1> QED
    BY <1>1, Invariant, PTL DEF Spec, OnlyLateMarkReopens

\* The store implements the answer ledger: a booking is a Book step, a hit in
\* the idempotency map an Acknowledge step, all other steps stutter.
LEMMA LedgerInit == Init => Ledger!Init
BY DEF Init, Ledger!Init, FreshRow

LEMMA LedgerStep == IInv /\ [Next]_vars => [Ledger!Next]_(Ledger!vars)
<1> SUFFICES ASSUME IInv, [Next]_vars PROVE [Ledger!Next]_(Ledger!vars)
    OBVIOUS
<1>0. /\ opening \in Openings /\ events \in Seq(Entries) /\ subs \subseteq Entries
      /\ subs = Ledger!Booked /\ Ledger!Entries = Entries /\ row \in Rows
    BY DEF IInv, TypeOK, AccountsAgree, Ledger!Booked, Ledger!Entries, Entries
<1>1. ASSUME NEW c \in Clients, NEW score, Book(c, score), pc[c] = "submit",
             Hits(c) = {}, req[c].via = Canonical,
             Verdict(row, opening, req[c].key.item, req[c].at) = "ok"
      PROVE  [Ledger!Next]_(Ledger!vars)
    <2> DEFINE entry == [id     |-> <<c, row.index + 1>>,
                         item   |-> req[c].key.item,
                         digest |-> req[c].key.digest]
    <2>1. req[c].op = "submit" /\ req[c].key \in Keys
        <3>1. req[c].op = "submit" /\ req[c] \in Requests
            BY <1>1 DEF IInv, CallOK, TypeOK
        <3> QED
            BY <3>1, SubmissionFacts DEF Submissions
    <2>2. /\ entry \in Entries /\ KeyOf(entry) = req[c].key
          /\ entry.id[2] = row.index + 1
          /\ row.index + 1 \in 1 .. Len(opening.items)
          /\ entry.item = opening.items[row.index + 1]
          /\ row.index = Len(events) /\ ~row.closed
        BY <1>1, <2>1, BookingFacts
    <2>3. /\ events' = Append(events, entry) /\ row' = Advance(row, opening)
          /\ acked' \in {acked, acked \cup {entry}} /\ UNCHANGED opening
        BY <1>1 DEF Book
    <2>4. \A s \in subs : KeyOf(s) # req[c].key
        BY <1>1 DEF Hits
    <2> HIDE DEF entry
    <2>5. \A e \in Ledger!Booked :
             /\ e.id # entry.id
             /\ <<e.item, e.digest>> # <<entry.item, entry.digest>>
        <3>1. \A i \in DOMAIN events : i < row.index + 1 /\ events[i].id[2] = i
            BY <1>0, <2>2 DEF IInv, LedgerOK
        <3>2. \A e \in subs : e.id[2] # entry.id[2]
            BY <1>0, <2>2, <3>1 DEF Ledger!Booked
        <3>3. \A e \in subs : KeyOf(e) # KeyOf(entry)
            BY <2>2, <2>4
        <3> QED
            BY <1>0, <3>2, <3>3 DEF KeyOf
    <2>6. row'.closed = (Len(events) + 1 = Len(opening.items) /\ ~opening.retest)
        <3>1. row'.closed = (row.closed \/ LastAnswer(row, opening))
            BY <1>0, <2>3, AdvanceType
        <3>2. Len(opening.items) \in Nat
            BY <1>0, OpeningFacts
        <3>3. LastAnswer(row, opening) <=>
                 (Len(events) + 1 = Len(opening.items) /\ ~opening.retest)
            BY <2>2, <3>2 DEF LastAnswer
        <3> QED
            BY <2>2, <3>1, <3>3 DEF LastAnswer
    <2>7. Ledger!Book(entry)
        <3>1. Len(opening.items) \in Nat /\ Len(events) \in Nat
            BY <1>0, OpeningFacts
        <3> QED
            BY <2>2, <2>3, <2>5, <2>6, <3>1 DEF Ledger!Book
    <2> QED
        BY <1>0, <2>2, <2>7 DEF Ledger!Next
<1>2. ASSUME NEW c \in Clients, Submit(c) PROVE [Ledger!Next]_(Ledger!vars)
    <2>1. CASE Hits(c) # {} /\ acked' = acked \cup Hits(c) /\ UNCHANGED store
        <3>1. PICK s \in subs : KeyOf(s) = req[c].key /\ s \in Hits(c)
            BY <2>1 DEF Hits
        <3>2. Hits(c) = {s}
            <4>1. \A e \in Hits(c) : e \in subs /\ KeyOf(e) = req[c].key
                BY DEF Hits
            <4>2. \A e \in subs : KeyOf(e) = KeyOf(s) => e = s
                BY <1>0 DEF Ledger!Booked, IInv, LedgerOK
            <4> QED
                BY <3>1, <4>1, <4>2
        <3> QED
            BY <1>0, <2>1, <3>1, <3>2 DEF Ledger!Next, Ledger!Acknowledge, store
    <2>2. CASE UNCHANGED <<opening, events, acked>> /\ row'.closed = row.closed
        BY <2>2 DEF Ledger!vars
    <2>3. CASE row' = [row EXCEPT !.status = RestPrompted] /\ UNCHANGED <<opening, events, acked>>
        <3>1. row'.closed = row.closed
            BY <1>0, <2>3 DEF Rows
        <3> QED
            BY <2>2, <2>3, <3>1
    <2> QED
        BY <1>1, <1>2, <2>1, <2>2, <2>3 DEF Submit, store
<1>3. ASSUME \A c \in Clients : ~Submit(c)
      PROVE  UNCHANGED Ledger!vars
    <2>1. UNCHANGED <<opening, events, acked>>
        BY <1>3 DEF Next, Tick, Begin, Read, Mark, Resume, Abandon, Runtime, store, vars
    <2>2. row'.closed = row.closed
        BY <1>0, <1>3 DEF Next, Tick, Begin, Read, Mark, Resume, Abandon, store, vars, Rows
    <2> QED
        BY <2>1, <2>2 DEF Ledger!vars
<1> QED
    BY <1>2, <1>3

\* The in-memory store implements the same ledger as the PostgreSQL one.
THEOREM Refinement == Spec => ImplementsLedger
BY LedgerInit, LedgerStep, Invariant, PTL
   DEF Spec, ImplementsLedger, Ledger!Spec
=============================================================================
