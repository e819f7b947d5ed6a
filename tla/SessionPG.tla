----------------------------- MODULE SessionPG ------------------------------
(***************************************************************************)
(* One practice session served by the session service over PostgreSQL      *)
(* (core/session/service.go, pg.go, runtime_pg.go, db/queries/session.sql).*)
(*                                                                         *)
(* Each client runs one call at a time, each call in one READ COMMITTED    *)
(* transaction; between its statements other transactions may commit.      *)
(* Sessions share neither rows nor locks, so one session is enough.        *)
(*                                                                         *)
(*   submit   advisory lock and idempotency lookup; row lock, check and    *)
(*            writes; commit                                               *)
(*   resume, abandon, next                                                 *)
(*            plain read of the row; UPDATE without a status predicate,    *)
(*            which waits for the row lock; commit or rollback             *)
(*                                                                         *)
(* Locks are held until the transaction ends, so the program counter of a  *)
(* client tells which locks it holds.                                      *)
(***************************************************************************)
EXTENDS SessionRules

CONSTANTS
    Clients,    \* concurrent callers (devices, tabs, retries in flight)
    Spellings   \* spellings of the session's UUID a caller may use

ASSUME ClientsAssumption == Clients # {} /\ Spellings # {}

Ops == {"submit", "resume", "abandon", "next"}

\* The errors that end a call; each makes the runner roll back.
Errors == {"completed", "state", "rest_required", "out_of_sequence",
           "conflict", "retest_unavailable"}

\* An event id stands for the fresh UUID minted by a call: the call is
\* named by its client, its spelling and the position it books.
EventIds == Clients \X Spellings \X (1 .. MaxItems)
Entries  == [id : EventIds, item : Items, digest : Digests]

VARIABLES
    opening,        \* the immutable columns of practice_session
    row,            \* its mutable columns, as committed
    events,         \* response_event rows of the session, in commit order
    subs,           \* response_submission rows of the session
    pc,             \* where each client is inside its call
    req,            \* the request of each client
    draft,          \* the uncommitted writes of each client
    acked,          \* every acknowledgement of a submission ever received
    refused,        \* the refusal the latest step gave a caller, if any
    now             \* the clock

table == <<opening, row, events, subs>>
vars  == <<opening, row, events, subs, pc, req, draft, acked, refused, now>>

\* at is the time a submit or next goes by, or the earliest one a resume may
\* take; it is 0 while a call depends on no time.
Submissions == [op : {"submit"}, key : Keys, via : Spellings, at : Times]
Requests    == Submissions \cup [op : (Ops \ {"submit"}) \cup {"none"}, at : Times]

\* booked and registered are the rows to insert, row the new session row,
\* error what the call ends with ("none" if it succeeds).
Drafts == [row : Rows, booked : {<<>>} \cup {<<e>> : e \in Entries},
           registered : {{}} \cup {{e} : e \in Entries},
           error : Errors \cup {"none"}]

KeyOf(entry) == [item |-> entry.item, digest |-> entry.digest]

\* Mutation: the advisory lock ends before the commit.
HoldsSessionUntilJudged(c, via) == /\ pc[c] = "row" /\ req[c].op = "submit"
                                   /\ req[c].via = via

HoldsSession(c, via) == pc[c] \in {"row", "end"} /\ req[c].op = "submit"
                            /\ req[c].via = via
HoldsRow(c) == pc[c] = "end"

\* Mutation: GetSessionForSubmit without FOR UPDATE.
RowFreeWithoutForUpdate(c) ==
    req[c].op = "submit" \/ \A d \in Clients \ {c} : ~HoldsRow(d)

SessionFree(c, via) == \A d \in Clients \ {c} : ~HoldsSession(d, via)
RowFree(c)          == \A d \in Clients \ {c} : ~HoldsRow(d)

-----------------------------------------------------------------------------
\* A transaction that only updates the session row, and none at all.
Update(new, error) == [row |-> new, booked |-> <<>>, registered |-> {},
                       error |-> error]

NoDraft == Update(FreshRow, "none")

NoRequest == [op |-> "none", at |-> 0]

Init ==
    /\ opening \in Openings
    /\ row = FreshRow
    /\ events = <<>>
    /\ subs = {}
    /\ pc = [c \in Clients |-> "idle"]
    /\ req = [c \in Clients |-> NoRequest]
    /\ draft = [c \in Clients |-> NoDraft]
    /\ acked = {}
    /\ refused = <<>>
    /\ now = 0

Goto(c, label) == pc' = [pc EXCEPT ![c] = label]

\* End the call of c; its transaction leaves nothing behind.
Return(c) ==
    /\ Goto(c, "idle")
    /\ req' = [req EXCEPT ![c] = NoRequest]
    /\ draft' = [draft EXCEPT ![c] = NoDraft]

Finish(c)        == Return(c) /\ refused' = <<>>
Refuse(c, error) == Return(c) /\ refused' = <<c, error>>

\* Keep the writes of c pending until its transaction ends.
Pend(c, writes) ==
    /\ Goto(c, "end")
    /\ draft' = [draft EXCEPT ![c] = writes]
    /\ refused' = <<>>
    /\ UNCHANGED req

Tick == /\ now < MaxTime
        /\ now' = now + 1
        /\ refused' = <<>>
        /\ UNCHANGED <<opening, row, events, subs, pc, req, draft, acked>>

\* A call starts: submit and next fix their time before any statement runs.
Begin(c) ==
    /\ pc[c] = "idle"
    /\ \/ /\ \E key \in Keys, via \in Spellings :
                req' = [req EXCEPT ![c] = [op |-> "submit", key |-> key,
                                           via |-> via, at |-> now]]
          /\ Goto(c, "lock")
       \/ /\ \E op \in Ops \ {"submit"} :
                req' = [req EXCEPT ![c] =
                           [op |-> op, at |-> IF op = "next" THEN now ELSE 0]]
          /\ Goto(c, "read")
    /\ refused' = <<>>
    /\ UNCHANGED <<table, draft, acked, now>>

\* pg_advisory_xact_lock on the spelling the caller used, then the lookup by
\* idempotency key: a hit returns the first event id.
Lookup(c) ==
    /\ pc[c] = "lock"
    /\ SessionFree(c, req[c].via)
    /\ \/ \E first \in subs :
             /\ KeyOf(first) = req[c].key
             /\ acked' = acked \cup {first}
             /\ Finish(c)
       \/ /\ \A s \in subs : KeyOf(s) # req[c].key
          /\ Goto(c, "row")
          /\ refused' = <<>>
          /\ UNCHANGED <<req, draft, acked>>
    /\ UNCHANGED <<table, now>>

\* The writes of an accepted answer: event, registration, advance.
NewEntry(c) == [id     |-> <<c, req[c].via, row.index + 1>>,
                item   |-> req[c].key.item,
                digest |-> req[c].key.digest]

\* Mutation: the idempotency key of a booked answer is not registered.
BookingUnregistered(c) == [row |-> Advance(row, opening), booked |-> <<NewEntry(c)>>,
                           registered |-> {}, error |-> "none"]

Booking(c) == [row        |-> Advance(row, opening),
               booked     |-> <<NewEntry(c)>>,
               registered |-> {NewEntry(c)},
               error      |-> "none"]

RestMark == Update([row EXCEPT !.status = RestPrompted], "rest_required")

\* SELECT ... FOR UPDATE, the check, and the writes it allows.  A refused
\* submission ends at once, except for the time protection, which marks the
\* row first; a registration that exists already is refused by its key.
Judge(c) ==
    /\ pc[c] = "row"
    /\ RowFree(c)
    /\ LET verdict == Verdict(row, opening, req[c].key.item, req[c].at)
       IN  \/ /\ verdict = "ok"
              /\ \A s \in subs : KeyOf(s) # req[c].key
              /\ Pend(c, Booking(c))
           \/ /\ verdict = "ok"
              /\ \E s \in subs : KeyOf(s) = req[c].key
              /\ Refuse(c, "conflict")
           \/ /\ verdict = "rest_required"
              /\ Pend(c, RestMark)
           \/ /\ verdict \notin {"ok", "rest_required"}
              /\ Refuse(c, verdict)
    /\ UNCHANGED <<table, acked, now>>

\* The plain read with which the other calls start, and their refusals.
Read(c) ==
    /\ pc[c] = "read"
    /\ LET verdict == NextVerdict(row, opening, req[c].at)
       IN  \/ /\ \/ req[c].op = "resume"  /\ MayResume(row)
                 \/ req[c].op = "abandon" /\ MayAbandon(row)
                 \/ req[c].op = "next"    /\ verdict = "rest_required"
              /\ Goto(c, "write")
              /\ refused' = <<>>
              /\ req' = [req EXCEPT ![c].at =
                            IF req[c].op = "resume" THEN now ELSE 0]
              /\ UNCHANGED draft
           \/ /\ \/ req[c].op = "resume"  /\ ~MayResume(row)
                 \/ req[c].op = "abandon" /\ ~MayAbandon(row)
              /\ Refuse(c, "state")
           \/ /\ req[c].op = "next" /\ verdict \in Errors \ {"rest_required"}
              /\ Refuse(c, verdict)
           \/ /\ req[c].op = "next" /\ verdict \notin Errors
              /\ Finish(c)
    /\ UNCHANGED <<table, acked, now>>

\* The UPDATE statements.  They wait for the row lock and change the row as
\* it then is; the time of a resume was taken between the read and the wait.
Resumed(at) == Update([row EXCEPT !.status = Active, !.lastResume = at], "none")
GivenUp     == Update([row EXCEPT !.status = Abandoned], "none")

Write(c) ==
    /\ pc[c] = "write"
    /\ RowFree(c)
    /\ \/ req[c].op = "resume"
             /\ \E at \in req[c].at .. now : Pend(c, Resumed(at))
       \/ req[c].op = "abandon" /\ Pend(c, GivenUp)
       \/ req[c].op = "next"    /\ Pend(c, RestMark)
    /\ UNCHANGED <<table, acked, now>>

\* The runner commits a call that ended without an error; the reply to the
\* caller may still be lost.
Commit(c) ==
    /\ pc[c] = "end"
    /\ draft[c].error = "none"
    /\ row' = draft[c].row
    /\ events' = events \o draft[c].booked
    /\ subs' = subs \cup draft[c].registered
    /\ acked' \in {acked \cup draft[c].registered, acked}
    /\ Finish(c)
    /\ UNCHANGED <<opening, now>>

\* Mutation: the transaction of a refusal for the time limit stays open.
RollbackUnlessRest(c) ==
    /\ pc[c] = "end"
    /\ draft[c].error \notin {"none", "rest_required"}
    /\ Refuse(c, draft[c].error)
    /\ UNCHANGED <<table, acked, now>>

\* Mutation: a call that succeeded may be rolled back and refused as well.
RollbackAny(c) ==
    /\ pc[c] = "end"
    /\ Refuse(c, draft[c].error)
    /\ UNCHANGED <<table, acked, now>>

\* ... and rolls back every call that ended with one.
Rollback(c) ==
    /\ pc[c] = "end"
    /\ draft[c].error # "none"
    /\ Refuse(c, draft[c].error)
    /\ UNCHANGED <<table, acked, now>>

\* The connection or the process dies: PostgreSQL rolls back and unlocks.
Crash(c) ==
    /\ pc[c] # "idle"
    /\ Finish(c)
    /\ UNCHANGED <<table, acked, now>>

Step(c) == Lookup(c) \/ Judge(c) \/ Read(c) \/ Write(c) \/ Commit(c) \/ Rollback(c)

Next == Tick \/ \E c \in Clients : Begin(c) \/ Step(c) \/ Crash(c)

Spec == Init /\ [][Next]_vars

\* PostgreSQL queues lock waiters in order, so a transaction that can take
\* its next step again and again takes it.  Nothing makes a caller call.
Fairness == \A c \in Clients :
                /\ SF_vars(Lookup(c))
                /\ SF_vars(Judge(c))
                /\ SF_vars(Write(c))
                /\ WF_vars(Read(c))
                /\ WF_vars(Commit(c) \/ Rollback(c))

FairSpec == Spec /\ Fairness

-----------------------------------------------------------------------------
\* Every variable keeps its type.
TypeOK ==
    /\ opening \in Openings /\ row \in Rows
    /\ events \in Seq(Entries) /\ subs \subseteq Entries
    /\ pc \in [Clients -> {"idle", "lock", "row", "read", "write", "end"}]
    /\ req \in [Clients -> Requests] /\ draft \in [Clients -> Drafts]
    /\ acked \subseteq Entries
    /\ refused \in {<<>>} \cup (Clients \X Errors)
    /\ now \in Times

\* The three tables agree: the progress counters of the session row
\* (current_index, answered_count) both equal the number of events, every
\* event is registered under its idempotency key and nothing else is, and
\* completed_at is set exactly when the order is exhausted and no retest
\* round follows -- whatever resumes, abandonments, crashes and rest marks
\* ran in between the statements of the submissions.
TablesAgree ==
    /\ row.index = Len(events)
    /\ row.answered = Len(events)
    /\ subs = {events[i] : i \in DOMAIN events}
    /\ row.closed <=> (Len(events) = Len(opening.items) /\ ~opening.retest)

\* A booked answer is judged on the row it changes: when the transaction
\* commits, the session is still open, not over its time limit and waiting
\* for this very item (the row lock of GetSessionForSubmit).
BookedAnswerStillValid ==
    [][\A c \in Clients :
          events' # events /\ pc[c] # pc'[c] =>
             Verdict(row, opening, req[c].key.item, req[c].at) = "ok"]_vars

\* A submission whose key is registered is never refused: it gets the first
\* event id, on completed, abandoned and overdue sessions too.  Only a call
\* that spells the session differently from the first one may be refused,
\* because the advisory lock is taken on the spelling.
RetryNotRefused ==
    [][\A c \in Clients, s \in subs :
          (/\ req[c].op = "submit" /\ KeyOf(s) = req[c].key
           /\ refused' \in {c} \X Errors) => s.id[2] # req[c].via]_vars

\* The three tables together implement the answer ledger: exactly one event
\* per key and position, in the order of the items, acknowledged only with
\* the id it was booked under.
Ledger == INSTANCE AnswerLedger
             WITH answers <- events, acks <- acked, closed <- row.closed
ImplementsLedger == Ledger!Spec

\* Every call ends: the two locks of a submission and the row lock of the
\* other calls cannot make callers wait for each other for ever.
EveryCallReturns == \A c \in Clients : (pc[c] # "idle") ~> (pc[c] = "idle")

\* service.go: "completed/abandoned -> ErrSessionState" for a resume; a
\* session that is completed or abandoned stays what it is.
TerminalIsFinal ==
    [][row.status \in Terminal => row'.status = row.status]_vars

\* service.go: a call refused for the time limit leaves rest_prompted behind.
RestIsRecorded ==
    [][\A c \in Clients : refused' = <<c, "rest_required">> =>
                               row'.status = RestPrompted]_vars
=============================================================================
