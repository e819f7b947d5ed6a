--------------------------- MODULE SessionMemory ----------------------------
(***************************************************************************)
(* One practice session served over the in-memory store                    *)
(* (core/session/memory.go, runtime_memory.go) with the LocalRunner, which *)
(* opens no transaction: every method of the store is one critical section *)
(* of its mutex, and nothing else is atomic.  A fetch of the next item     *)
(* reads the row in one critical section and marks it in another.          *)
(*                                                                         *)
(* The store keeps the score of the answers too, which the PostgreSQL      *)
(* store does not.                                                         *)
(***************************************************************************)
EXTENDS SessionRules, FiniteSets

CONSTANTS
    Clients,    \* concurrent callers
    Spellings,  \* spellings of the session's UUID a caller may use
    Canonical   \* the one the store keeps the session under

ASSUME CanonicalAssumption == Canonical \in Spellings

\* What the scoring trace of an answer says of it.
Scores == {"right", "wrong", "unsaid"}

EventIds == Clients \X (1 .. MaxItems)
Entries  == [id : EventIds, item : Items, digest : Digests]

VARIABLES
    opening,    \* the fields of the session that never change
    row,        \* its runtime fields
    events,     \* the event ledger
    traces,     \* the score in the trace of each event
    correct,    \* correctCount
    wrong,      \* the item numbers of wrongMarks, in order
    subs,       \* the idempotency map: its keys with their events
    pc, req,    \* where each client is inside its call, and its request
    acked,      \* every acknowledgement of a submission ever received
    refused,    \* the refusal the latest step gave a caller, if any
    now         \* the clock

store == <<opening, row, events, traces, correct, wrong, subs>>
vars  == <<opening, row, events, traces, correct, wrong, subs,
           pc, req, acked, refused, now>>

KeyOf(entry) == [item |-> entry.item, digest |-> entry.digest]

Submissions == [op : {"submit"}, key : Keys, via : Spellings, at : Times]
Requests    == Submissions \cup [op : {"none", "next"}, at : Times]

NoRequest == [op |-> "none", at |-> 0]

-----------------------------------------------------------------------------
Init ==
    /\ opening \in Openings
    /\ row = FreshRow
    /\ events = <<>>
    /\ traces = <<>>
    /\ correct = 0
    /\ wrong = <<>>
    /\ subs = {}
    /\ pc = [c \in Clients |-> "idle"]
    /\ req = [c \in Clients |-> NoRequest]
    /\ acked = {}
    /\ refused = <<>>
    /\ now = 0

Return(c) == /\ pc' = [pc EXCEPT ![c] = "idle"]
             /\ req' = [req EXCEPT ![c] = NoRequest]

Finish(c)        == Return(c) /\ refused' = <<>>
Refuse(c, error) == Return(c) /\ refused' = <<c, error>>

Tick == /\ now < MaxTime
        /\ now' = now + 1
        /\ refused' = <<>>
        /\ UNCHANGED <<store, pc, req, acked>>

\* Submissions and fetches fix their time before they wait for the mutex.
Begin(c) ==
    /\ pc[c] = "idle"
    /\ \/ /\ \E key \in Keys, via \in Spellings :
                req' = [req EXCEPT ![c] = [op |-> "submit", key |-> key,
                                           via |-> via, at |-> now]]
          /\ pc' = [pc EXCEPT ![c] = "submit"]
       \/ /\ req' = [req EXCEPT ![c] = [op |-> "next", at |-> now]]
          /\ pc' = [pc EXCEPT ![c] = "read"]
    /\ refused' = <<>>
    /\ UNCHANGED <<store, acked, now>>

\* Mutation: the idempotency map is not asked at all.
HitsNone(c) == {}

\* The idempotency map is asked with the spelling of the caller, so only the
\* canonical one can hit.
Hits(c) == IF req[c].via = Canonical
           THEN {s \in subs : KeyOf(s) = req[c].key} ELSE {}

\* Mutation: an answer without a score counts as correct.
IsCorrectUnlessWrong(score) == score # "wrong"

IsCorrect(score) == score = "right"

WrongMark == row.index + 1

\* The score comes with the request too; only a booked answer needs it.
Book(c, score) ==
    LET entry == [id     |-> <<c, row.index + 1>>,
                  item   |-> req[c].key.item,
                  digest |-> req[c].key.digest]
    IN  /\ events' = Append(events, entry)
        /\ traces' = Append(traces, score)
        /\ subs' = subs \cup {entry}
        /\ correct' = IF IsCorrect(score) THEN correct + 1 ELSE correct
        /\ wrong' = IF score = "wrong"
                    THEN Append(wrong, WrongMark) ELSE wrong
        /\ row' = Advance(row, opening)
        /\ acked' \in {acked, acked \cup {entry}}
        /\ Finish(c)
        /\ UNCHANGED opening

\* SubmitAnswer, one critical section: lookup, session, check, three writes.
Submit(c) ==
    /\ pc[c] = "submit"
    /\ LET verdict == Verdict(row, opening, req[c].key.item, req[c].at)
       IN  \/ /\ Hits(c) # {}
              /\ acked' = acked \cup Hits(c)
              /\ Finish(c)
              /\ UNCHANGED store
           \/ /\ req[c].via # Canonical
              /\ Refuse(c, "not_found")
              /\ UNCHANGED <<store, acked>>
           \/ /\ Hits(c) = {} /\ req[c].via = Canonical
              /\ \/ verdict = "ok" /\ \E score \in Scores : Book(c, score)
                 \/ /\ verdict = "rest_required"
                    /\ row' = [row EXCEPT !.status = RestPrompted]
                    /\ Refuse(c, verdict)
                    /\ UNCHANGED <<opening, events, traces, correct, wrong,
                                   subs, acked>>
                 \/ /\ verdict \notin {"ok", "rest_required"}
                    /\ Refuse(c, verdict)
                    /\ UNCHANGED <<store, acked>>
    /\ UNCHANGED now

\* RuntimeState, the first critical section of a fetch.
Read(c) ==
    /\ pc[c] = "read"
    /\ LET verdict == NextVerdict(row, opening, req[c].at)
       IN  \/ /\ verdict = "rest_required"
              /\ pc' = [pc EXCEPT ![c] = "mark"]
              /\ refused' = <<>>
              /\ UNCHANGED req
           \/ verdict \in {"state", "retest_unavailable"} /\ Refuse(c, verdict)
           \/ verdict \in {"done", "item"} /\ Finish(c)
    /\ UNCHANGED <<store, acked, now>>

\* MarkRestPrompted, the second one: it does not look at the status again.
Mark(c) ==
    /\ pc[c] = "mark"
    /\ row' = [row EXCEPT !.status = RestPrompted]
    /\ Refuse(c, "rest_required")
    /\ UNCHANGED <<opening, events, traces, correct, wrong, subs, acked, now>>

\* Resume and Abandon read the clock inside their only critical section.
Runtime(c) == /\ pc[c] = "idle"
              /\ UNCHANGED <<opening, events, traces, correct, wrong, subs,
                             pc, req, acked, now>>

Resume(c) ==
    /\ Runtime(c)
    /\ \/ /\ MayResume(row)
          /\ row' = [row EXCEPT !.status = Active, !.lastResume = now]
          /\ refused' = <<>>
       \/ ~MayResume(row) /\ refused' = <<c, "state">> /\ UNCHANGED row

Abandon(c) ==
    /\ Runtime(c)
    /\ \/ /\ MayAbandon(row)
          /\ row' = [row EXCEPT !.status = Abandoned]
          /\ refused' = <<>>
       \/ ~MayAbandon(row) /\ refused' = <<c, "state">> /\ UNCHANGED row

Next == Tick \/ \E c \in Clients : \/ Begin(c) \/ Submit(c) \/ Read(c) \/ Mark(c)
                                   \/ Resume(c) \/ Abandon(c)

Spec == Init /\ [][Next]_vars
-----------------------------------------------------------------------------
\* Every variable keeps its type.
TypeOK ==
    /\ opening \in Openings /\ row \in Rows
    /\ events \in Seq(Entries) /\ traces \in Seq(Scores)
    /\ correct \in Nat /\ wrong \in Seq(1 .. MaxItems) /\ subs \subseteq Entries
    /\ pc \in [Clients -> {"idle", "submit", "read", "mark"}]
    /\ req \in [Clients -> Requests]
    /\ acked \subseteq Entries /\ now \in Times

\* Counters, marks, idempotency map and ledger of a session tell one story:
\* progress is the number of events, every event is registered, a wrong mark
\* points at each event scored wrong and at no other, the correct ones are
\* counted, and the session was completed by the event that exhausts it.
AccountsAgree ==
    /\ row.index = Len(events) /\ row.answered = Len(events)
    /\ subs = {events[i] : i \in DOMAIN events}
    /\ correct = Cardinality({i \in DOMAIN traces : traces[i] = "right"})
    /\ {wrong[i] : i \in DOMAIN wrong} = {i \in DOMAIN traces : traces[i] = "wrong"}
    /\ Len(traces) = Len(events) /\ correct + Len(wrong) <= row.answered
    /\ row.closed <=> (Len(events) = Len(opening.items) /\ ~opening.retest)

\* The in-memory store implements the same ledger as the PostgreSQL one.
Ledger == INSTANCE AnswerLedger
             WITH answers <- events, acks <- acked, closed <- row.closed
ImplementsLedger == Ledger!Spec

\* A completed or abandoned session stays what it is, whatever resumes,
\* abandonments and late submissions race for it; the one step that may bring
\* it back is the second half of a fetch whose first half found it open.
OnlyLateMarkReopens ==
    [][row.status \in Terminal /\ row'.status # row.status =>
          /\ \E c \in Clients : pc[c] = "mark" /\ pc'[c] = "idle"
          /\ row'.status = RestPrompted]_vars
=============================================================================
